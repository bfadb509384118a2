SPECIFICATION Spec
CONSTANTS
  FlagSets <- MCFlagSets
  DeniedByDefault <- BindingItem
  DefaultInterval = 300
  NamespaceObjects <- MCNamespaceObjects
  ClassObjects <- MCClassObjects
  Scope <- MCScope
  ForeignSets <- MCForeignSets
INVARIANT TypeOK
INVARIANT OptionsInForce
INVARIANT PreparedAllowed
INVARIANT RecognisedLater
INVARIANT RenderedOnce
INVARIANT OutcomeJust
CHECK_DEADLOCK FALSE
