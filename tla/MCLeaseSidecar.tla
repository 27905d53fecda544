--------------------------- MODULE MCLeaseSidecar ---------------------------
(* Three processes (a writer, a second one, a sweep) and one inode more    *)
(* than processes, so that a new sidecar can always be created.            *)
EXTENDS LeaseSidecar, TLC

CONSTANTS p1, p2, p3, i1, i2, i3, i4

MCProcs == {p1, p2, p3}
MCInodes == {i1, i2, i3, i4}
Symmetry == Permutations(MCInodes)
=============================================================================
