SPECIFICATION SearchesSpec
CONSTANTS
  Data = {d1, d2}
  cachesize = 2
  MaxBlocks = 3
  NoData = NoData
  Pois = {1, 2, 3, 4, 5}
  Users = {1, 2}
  Terms = {"t", "r", "s"}
  stores <- FirstStore
  Vertices <- CityVertices
  Edges <- CityEdges
  Dist <- CityDist
  Upper <- CityUpper
  gtreepath <- CityPaths
  K = 3
  Alpha = 4
  Social = 3
  Idf <- Weights
  uterm_SPARCITY_VALUE = 1
  posting_size_threshold = 2
  rau = 2
  Databases <- SearchedDatabases
INVARIANTS TreeSound IndexesSound AnswersExact IsLowerBound
PROPERTIES ActsAsDictionary Implements ReadsBack SearchesEnd
CHECK_DEADLOCK FALSE
