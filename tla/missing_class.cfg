SPECIFICATION FairSpec
CONSTANTS
  n1 = n1
  n2 = n2
  a = a
  b = b
  Absent = Absent
  Unowned = Unowned
  NoLabel = NoLabel
  Cluster = Cluster
  Blank = Blank
  Drifted = Drifted
  Namespaces = {n1}
  Classes = {a}
  ResourceLists <- LiveLists
  Templates <- LiveTemplates
  InitialClasses <- NoClasses
  Edits = {}
  MaxEdits = 0
  MaxUID = 1
  MaxLag = 2
  Periodic = TRUE
  MaxFaults = 0
  MaxCrashes = 0
PROPERTY MissingClassSettles
CHECK_DEADLOCK FALSE
