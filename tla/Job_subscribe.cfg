CONSTANTS
  s1 = s1 s2 = s2
  NoServer = NoServer
  Servers <- One
  Shapes <- Streams
  Pruning = FALSE
  MaxItems = 0
  MaxFaults = 0
  MaxStops = 1
  MaxDeferrals = 2
SPECIFICATION Spec
INVARIANTS ResumableIsResumed
CHECK_DEADLOCK FALSE
