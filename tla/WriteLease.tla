----------------------------- MODULE WriteLease -----------------------------
(***************************************************************************)
(* What the write lease of one stored response promises to its users       *)
(* (store.rs, ResponseLease): at any time at most one of the processes     *)
(* that use the store holds it.  Taking it never waits.  BackgroundJob     *)
(* relies on this specification; LeaseSidecar, the file protocol behind    *)
(* the lease, implements it.                                               *)
(***************************************************************************)
CONSTANTS Procs,        \* threads of any server that may ask for the lease
          NoProc        \* the value of "nobody"

VARIABLE holder         \* who holds the lease

Init == holder = NoProc

(* ResponseStore::lease returned Some. *)
Acquire(p) == holder = NoProc /\ holder' = p

(* The ResponseLease was dropped, or its process died. *)
Release(p) == holder = p /\ holder' = NoProc

Next == \E p \in Procs : Acquire(p) \/ Release(p)

Spec == Init /\ [][Next]_holder
=============================================================================
