SPECIFICATION Spec
CONSTANTS
  p1 = p1
  p2 = p2
  p3 = p3
  Pois <- MCPois
  n = 3
  InNeighbors <- MCInNeighbors
  K = 2
  NumRBase = 2
  NumIter = 2
  Results <- MCResults
INVARIANT StartsAtReachableUser
CHECK_DEADLOCK FALSE
