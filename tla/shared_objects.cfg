SPECIFICATION Spec
CONSTANTS
  n1 = n1
  n2 = n2
  a = a
  b = b
  Absent = Absent
  Unowned = Unowned
  NoLabel = NoLabel
  Cluster = Cluster
  Blank = Blank
  Drifted = Drifted
  Namespaces = {n1, n2}
  Classes = {a}
  ResourceLists <- SharedLists
  Templates <- SharedTemplates
  InitialClasses <- SharedClasses
  Edits = {"removeLabel", "createObject", "deleteObject", "stripMarkers", "driftObject"}
  MaxEdits = 2
  MaxUID = 2
  MaxLag = 1
  Periodic = TRUE
  MaxFaults = 0
  MaxCrashes = 0
SYMMETRY SameNamespaces
INVARIANT IInv
PROPERTY RestIsKept
PROPERTY ForeignOwnersUntouched
CHECK_DEADLOCK FALSE
