CONSTANTS
  Node = {1, 2, 3}
  ForeignEdges = TRUE
  VisitorNode = {n1}
SPECIFICATION MCSpec
INVARIANTS
  SubGraphsHoldOnlyIds
