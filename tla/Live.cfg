CONSTANTS
  s1 = s1 s2 = s2 c1 = c1
  NoServer = NoServer
  Servers <- One
  Shapes <- Streams
  Pruning = FALSE
  MaxItems = 0
  MaxFaults = 1
  MaxStops = 2
  MaxDeferrals = 1
  MaxLeaves = 1
  Clients <- OneClient
SPECIFICATION LiveSpec
PROPERTIES ShutdownDrains  StreamCloses EndIsSeen
CHECK_DEADLOCK FALSE
