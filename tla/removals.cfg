SPECIFICATION Spec
CONSTANTS
  n1 = n1
  n2 = n2
  a = a
  b = b
  Absent = Absent
  Unowned = Unowned
  NoLabel = NoLabel
  Cluster = Cluster
  Blank = Blank
  Drifted = Drifted
  Namespaces = {n1}
  Classes = {a}
  ResourceLists <- PairLists
  Templates <- PairTemplates
  InitialClasses <- PairClasses
  Edits = {"removeLabel", "deleteNamespace", "deleteClass", "deleteBinding"}
  MaxEdits = 3
  MaxUID = 2
  MaxLag = 2
  Periodic = TRUE
  MaxFaults = 0
  MaxCrashes = 0
INVARIANT FinalizerInv
INVARIANT ReadyInv
PROPERTY ForeignOwnersUntouched
PROPERTY FinalizerGuardsApply
PROPERTY RecordedUntilDeleted
PROPERTY LedgerImplemented
CHECK_DEADLOCK FALSE
