SPECIFICATION Spec
CONSTANTS
  n1 = n1
  n2 = n2
  a = a
  b = b
  Absent = Absent
  Unowned = Unowned
  NoLabel = NoLabel
  Cluster = Cluster
  Blank = Blank
  Drifted = Drifted
  Namespaces = {n1}
  Classes = {a}
  ResourceLists <- PairLists
  Templates <- PairTemplates
  InitialClasses <- PairClasses
  Edits = {"deleteNamespace"}
  MaxEdits = 1
  MaxUID = 1
  MaxLag = 2
  Periodic = TRUE
  MaxFaults = 0
  MaxCrashes = 0
INVARIANT DeletionLeavesNothing
CHECK_DEADLOCK FALSE
