SPECIFICATION Spec
CONSTANTS
  i1 = i1
  i2 = i2
  i3 = i3
  NULL = NULL
  Issues <- MCIssues
  Classes <- MCClasses
  Filters <- MCFilters
  FatalKinds <- MCFatalKinds
  Depth = 2
SYMMETRY Symmetry
INVARIANTS
  NoIssueLost
  SubIssuesMatchGroup
  NodesInOneList
  FetchComplete
PROPERTY SubIssuesDelivered
\* A call that fails needs an issue to say so, and the issues are used up.
CHECK_DEADLOCK FALSE
