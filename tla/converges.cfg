SPECIFICATION FairSpec
CONSTANTS
  n1 = n1
  n2 = n2
  a = a
  b = b
  Absent = Absent
  Unowned = Unowned
  NoLabel = NoLabel
  Cluster = Cluster
  Blank = Blank
  Drifted = Drifted
  Namespaces = {n1}
  Classes = {a, b}
  ResourceLists <- LiveLists
  Templates <- LiveTemplates
  InitialClasses <- LiveClasses
  Edits = {"setLabel", "removeLabel", "updateClass"}
  MaxEdits = 2
  MaxUID = 1
  MaxLag = 2
  Periodic = TRUE
  MaxFaults = 1
  MaxCrashes = 0
PROPERTY Converges
PROPERTY NothingLeftBehind
CHECK_DEADLOCK FALSE
