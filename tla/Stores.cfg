CONSTANTS
  m1 = m1 m2 = m2 o1 = o1 f1 = f1 f2 = f2
  Callers <- Two
  Declared = 2 MaxPart = 1 UploadTtl = 1 FileTtl = 1 StagingTtl = 1
  MaxBlobs = 3 MaxClock = 1 MaxFileFaults = 1
  BatchServers <- Two
  MaxBatches = 1 MaxLines = 1 MaxBatchFaults = 0 MaxBatchStops = 1 MaxFull = 1
  MaxAbandoned = 0
  Sources <- TwoFiles
  Unembeddable <- HardFile
  Large <- HardFile
  MaxAttached = 2 MaxSpaces = 1 IndexBatchFiles = 2
  MaxVectorTrouble = 0 MaxLostIndex = 1 MaxChanges = 1
  Replies <- Two
  ClientItemIds <- Single
  PageLimit = 1 MaxSeq = 2 MaxConvFaults = 1 MaxConvCrashes = 1
  BlobProcs <- Two
  Records <- Two
  Digests <- Two
  MaxBlobFaults = 1 MaxBlobCrashes = 1 MaxSaves = 3
  AdminKeys <- Two
  Projects <- Single
  Accounts <- Single
  ProjectKeys <- Single
  Requests <- Single
  KeyTtl = 1 MaxAdminClock = 1 MaxAdminFaults = 1
SPECIFICATION StoresSpec
INVARIANTS FilesInv InterruptReaches SearchFindsAll ConversationInv BlobsInv AuditReplays
PROPERTIES AppendsOntoItsHistory OnlyLiveKeysAct
SYMMETRY Symmetry
CHECK_DEADLOCK FALSE
