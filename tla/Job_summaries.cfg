CONSTANTS
  s1 = s1 s2 = s2
  NoServer = NoServer
  Servers <- One
  Shapes <- HostedSummary
  Pruning = FALSE
  MaxItems = 3
  MaxFaults = 0
  MaxStops = 0
  MaxDeferrals = 0
SPECIFICATION Spec
INVARIANTS ItemsFinished
CHECK_DEADLOCK FALSE
