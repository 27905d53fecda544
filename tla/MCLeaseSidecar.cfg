CONSTANTS
  p1 = p1 p2 = p2 p3 = p3
  i1 = i1 i2 = i2 i3 = i3 i4 = i4
  Procs <- MCProcs
  Inodes <- MCInodes
  NoProc = NoProc
  NoFile = NoFile
  LEASE_ATTEMPTS = 2
SYMMETRY Symmetry
SPECIFICATION Spec
INVARIANTS OneHolder PendingHasSidecar
PROPERTY ImplementsLease
CHECK_DEADLOCK FALSE
