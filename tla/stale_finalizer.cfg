SPECIFICATION Spec
CONSTANTS
  n1 = n1
  n2 = n2
  a = a
  b = b
  Absent = Absent
  Unowned = Unowned
  NoLabel = NoLabel
  Cluster = Cluster
  Blank = Blank
  Drifted = Drifted
  Namespaces = {n1}
  Classes = {a}
  ResourceLists <- PairLists
  Templates <- PairTemplates
  InitialClasses <- PairClasses
  Edits = {"deleteClass", "createClass"}
  MaxEdits = 2
  MaxUID = 1
  MaxLag = 2
  Periodic = TRUE
  MaxFaults = 0
  MaxCrashes = 0
PROPERTY FinalizerGuardsApply
CHECK_DEADLOCK FALSE
