SPECIFICATION Spec
CONSTANTS
  n1 = n1
  n2 = n2
  a = a
  b = b
  Absent = Absent
  Unowned = Unowned
  NoLabel = NoLabel
  Cluster = Cluster
  Blank = Blank
  Drifted = Drifted
  Namespaces = {n1}
  Classes = {a, b}
  ResourceLists <- CoreLists
  Templates <- CoreTemplates
  InitialClasses <- CoreClasses
  Edits = {"setLabel", "removeLabel", "updateClass"}
  MaxEdits = 2
  MaxUID = 1
  MaxLag = 2
  Periodic = TRUE
  MaxFaults = 1
  MaxCrashes = 1
INVARIANT TypeOK
INVARIANT OrderInv
INVARIANT NothingForgotten
PROPERTY RecordedUntilDeleted
PROPERTY AppliedRecordedOrRetried
PROPERTY OldKeptUntilNewApplied
PROPERTY ReadyMeansPresent
PROPERTY LedgerImplemented
PROPERTY RestIsKept
CHECK_DEADLOCK FALSE
