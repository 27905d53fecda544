CONSTANTS
  s1 = s1 s2 = s2
  NoServer = NoServer
  Servers <- Two
  Shapes <- Unlike
  Pruning = TRUE
  MaxItems = 1
  MaxFaults = 2
  MaxStops = 1
  MaxDeferrals = 1
SPECIFICATION Spec
INVARIANTS PumpOwnsRecord
PROPERTIES EndsOnce StaysDeleted
ACTION_CONSTRAINT SharedBounds
SYMMETRY Symmetry
CHECK_DEADLOCK FALSE
