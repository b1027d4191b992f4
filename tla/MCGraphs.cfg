CONSTANTS
  Node = {1, 2, 3, 4}
  ForeignEdges = FALSE
  VisitorNode = {n1, n2, n3}
SPECIFICATION MCSpec
INVARIANTS
  EachIdInOneSubGraph
  SubGraphsAreConnected
PROPERTIES
  VisitorImplementsContract
  RecursionImplementsContract
