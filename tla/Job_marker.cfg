CONSTANTS
  s1 = s1 s2 = s2
  NoServer = NoServer
  Servers <- One
  Shapes <- Hosted
  Pruning = TRUE
  MaxItems = 0
  MaxFaults = 0
  MaxStops = 1
  MaxDeferrals = 0
SPECIFICATION Spec
INVARIANTS HostedOnce
CHECK_DEADLOCK FALSE
