SPECIFICATION FairSpec
CONSTANTS
  n1 = n1
  n2 = n2
  a = a
  b = b
  Absent = Absent
  Unowned = Unowned
  NoLabel = NoLabel
  Cluster = Cluster
  Blank = Blank
  Drifted = Drifted
  Namespaces = {n1}
  Classes = {a, b}
  ResourceLists <- BrokenLists
  Templates <- BrokenTemplates
  InitialClasses <- BrokenClasses
  Edits = {"setLabel", "removeLabel", "updateClass", "deleteBinding"}
  MaxEdits = 2
  MaxUID = 1
  MaxLag = 2
  Periodic = FALSE
  MaxFaults = 1
  MaxCrashes = 0
INVARIANT NothingForgotten
INVARIANT ReadyIsCurrent
PROPERTY SettlesOrReports
CHECK_DEADLOCK FALSE
