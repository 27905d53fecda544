CONSTANTS
  MaxMeteredPieces = 2 MaxUsageFaults = 1
SPECIFICATION MeterSpec
INVARIANT AbandonedIsRecorded
CHECK_DEADLOCK FALSE
