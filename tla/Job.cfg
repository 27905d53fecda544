CONSTANTS
  s1 = s1 s2 = s2 c1 = c1
  NoServer = NoServer
  Servers <- One
  Shapes <- Mixed
  Pruning = FALSE
  MaxItems = 2
  MaxFaults = 3
  MaxStops = 1
  MaxDeferrals = 1
  MaxLeaves = 1
  Clients <- OneClient
SPECIFICATION JobSpec
INVARIANTS EndIsDurable PublishedIsReadable ItemsOnce  HostedOnce
           OneStream SeenEndIsDurable
CHECK_DEADLOCK FALSE
