SPECIFICATION BatchRun
CONSTANTS
  p1 = p1
  p2 = p2
  p3 = p3
  p4 = p4
  p5 = p5
  u1 = u1
  u2 = u2
  t = t
  r = r
  s = s
  Pois <- MCPois
  stores <- OneStore
  Users <- MCUsers
  Terms <- MCTerms
  Vertices <- MCVertices
  Edges <- MCEdges
  Dist <- FarDist
  gtreepath <- MCgtreepath
  K = 2
  Alpha = 2
  Social = 2
  Idf <- MCIdf
  uterm_SPARCITY_VALUE = 1
  Databases <- TwoKeysDatabases
  NODE_SPARCITY_VALUE_HEURIS = 2
CHECK_DEADLOCK FALSE
PROPERTY StopsInTime
