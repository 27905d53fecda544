CONSTANTS
  m1 = m1 o1 = o1 f1 = f1 f2 = f2 NoJob = NoJob
  BatchServers <- Single
  MaxBatches = 1 MaxLines = 2 MaxBatchFaults = 1 MaxBatchStops = 1 MaxFull = 0
  MaxAbandoned = 1
  Sources <- TwoFiles
  Unembeddable <- HardFile
  Large <- NoFiles
  MaxAttached = 2 MaxSpaces = 1 IndexBatchFiles = 2
  MaxVectorTrouble = 1 MaxLostIndex = 0 MaxChanges = 0
  Clients <- Single
  Interrupted <- Another
  QueueCapacity = 1 EventBuffer = 1 MaxRunning = 1 MaxPieces = 1
  Layers = 1 FullAttention = {1} Steps = {"ffn", "out", "qkv"} MaxChunks = 1 MaxAneFaults = 1
  Briefs <- Another
  Askers <- Single
  BriefTtl = 1 MaxBriefClock = 3 MaxBriefFaults = 1 MaxAsks = 2
SPECIFICATION ProgressSpec
INVARIANTS  IndexInvariant StreamsEndOnce
PROPERTIES BatchEnds  JobsSettle ChunkEnds EndedExpires
CHECK_DEADLOCK FALSE
