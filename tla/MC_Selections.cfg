SPECIFICATION SelectionsSpec
CONSTANTS
  Pois = {1, 2, 3, 4}
  Users = {1, 2, 3, 4, 5}
  InNeighbors <- CandidateLinks
  Unit = 4
  K = 2
  SkipSelected = TRUE
  Inputs <- CandidateInputs
  Miu = 20
  Delta = 4
  Ratio = 432
INVARIANTS HopSound VerificationSound HybridSound
PROPERTY SelectionsEnd
CHECK_DEADLOCK FALSE
