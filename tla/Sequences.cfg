CONSTANTS
  PooledSequences = 1 MaxCheckpoints = 2 HostTier = FALSE DiskTier = TRUE
  Offers <- ThreeOffers
  SetIds = {1, 2, 3, 4, 5, 6}
  MaxBatch = 3 ContextTokens = 40 StateTokens = 1
  PrefillBlock = 2 PrefillChunk = 1 PrefillWhole = 2 FoldRows = 1 MinBoundary = 2
  EosToken = 2 MaxRound = 2 MaxIncidents = 1
SPECIFICATION SchedulerSpec
INVARIANT SequencesHold
CHECK_DEADLOCK FALSE
