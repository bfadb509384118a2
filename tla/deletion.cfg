SPECIFICATION FairSpec
CONSTANTS
  n1 = n1
  n2 = n2
  a = a
  b = b
  Absent = Absent
  Unowned = Unowned
  NoLabel = NoLabel
  Cluster = Cluster
  Blank = Blank
  Drifted = Drifted
  Namespaces = {n1}
  Classes = {a, b}
  ResourceLists <- LiveLists
  Templates <- LiveTemplates
  InitialClasses <- LiveClasses
  Edits = {"deleteNamespace", "stripMarkers", "deleteObject"}
  MaxEdits = 3
  MaxUID = 2
  MaxLag = 2
  Periodic = TRUE
  MaxFaults = 1
  MaxCrashes = 1
PROPERTY DeletionCompletes
CHECK_DEADLOCK FALSE
