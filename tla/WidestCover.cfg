SPECIFICATION MCSpec
CONSTANTS
  p1 = p1
  p2 = p2
  p3 = p3
  p4 = p4
  u1 = u1
  u2 = u2
  u3 = u3
  Pois <- MCPois
  Users <- MCUsers
  K = 2

PROPERTY TakesWidestCover
CHECK_DEADLOCK FALSE
