CONSTANTS
  m1 = m1 m2 = m2 o1 = o1 NoJob = NoJob
  PooledSequences = 1 MaxCheckpoints = 2 HostTier = FALSE DiskTier = TRUE
  Offers <- ThreeOffers
  SetIds = {1, 2, 3, 4, 5, 6}
  MaxBatch = 3 ContextTokens = 40 StateTokens = 1
  PrefillBlock = 2 PrefillChunk = 1 PrefillWhole = 2 FoldRows = 1 MinBoundary = 2
  EosToken = 2 MaxRound = 2 MaxIncidents = 1
  CacheProcs <- Two
  CacheJobs <- Snapshots
  DiskBudget = 4 MaxCacheInodes = 5 MaxSubmissions = 2 MaxCacheFaults = 1 MaxCacheStops = 1
  Clients <- Single
  Interrupted <- Two
  QueueCapacity = 1 EventBuffer = 1 MaxRunning = 2 MaxPieces = 0
  Layers = 3 FullAttention = {2} Steps = {"ffn", "out", "qkv"} MaxChunks = 1 MaxAneFaults = 1
  Briefs <- Two
  Askers <- Two
  BriefTtl = 1 MaxBriefClock = 2 MaxBriefFaults = 1 MaxAsks = 2
SPECIFICATION RuntimeSpec
INVARIANTS SequencesIntact CacheSound CacheInv DeferredIsWoken WaveInv TemporaryInv
PROPERTIES AdmissionIsFifo
SYMMETRY Symmetry
CHECK_DEADLOCK FALSE
