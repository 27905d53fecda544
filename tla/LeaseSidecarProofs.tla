------------------------- MODULE LeaseSidecarProofs -------------------------
(***************************************************************************)
(* For any number of processes, inodes and attempts: the sidecar protocol  *)
(* keeps one holder, keeps the sidecar of every pending record, and        *)
(* implements the abstract lease of WriteLease.                            *)
(***************************************************************************)
EXTENDS LeaseSidecar, TLAPS

(* The protocol starts with no sidecar, no lock and nobody holding. *)
LEMMA SidecarInit == Init => SidecarInv
  BY ProcsAssumption, InodesAssumption, AttemptsAssumption
     DEF Init, SidecarInv, TypeOK, LockThroughFile, HolderIsNamed, FileIsOpen, TriesLeft,
         PendingHasSidecar, Holding, Retired

(* Closing a file (drop, an early return, a crash) frees only the lock its *)
(* process held, so it disturbs no other holder.                           *)
LEMMA CloseKeepsOthers ==
  ASSUME SidecarInv, NEW p \in Procs, Close(p)
  PROVE  /\ file' \in [Procs -> Inodes \cup {NoFile}]
         /\ lock' \in [Inodes -> Procs \cup {NoProc}]
         /\ \A i \in Inodes : lock'[i] # p
         /\ \A i \in Inodes : lock'[i] # NoProc => lock'[i] = lock[i]
         /\ \A q \in Procs : q # p => file'[q] = file[q]
         /\ \A i \in Inodes : \A q \in Procs : q # p /\ lock[i] = q => lock'[i] = q
  BY ProcsAssumption DEF SidecarInv, TypeOK, Close

(* Every step of lease(), of a holder and of a deletion keeps the          *)
(* invariant: only a holder may unlink, and only its own, named, sidecar.  *)
LEMMA SidecarStep == SidecarInv /\ [Next]_vars => SidecarInv'
<1> SUFFICES ASSUME SidecarInv, [Next]_vars PROVE SidecarInv'
  OBVIOUS
<1> USE ProcsAssumption, InodesAssumption, AttemptsAssumption
    DEF SidecarInv, TypeOK, LockThroughFile, HolderIsNamed, FileIsOpen, TriesLeft,
        PendingHasSidecar, Holding, Retired, Goto
<1>1. CASE UNCHANGED vars
  BY <1>1 DEF vars
<1>2. ASSUME NEW p \in Procs, AskToWrite(p) PROVE SidecarInv'
  BY <1>2 DEF AskToWrite
<1>3. ASSUME NEW p \in Procs, AskToUnlink(p) PROVE SidecarInv'
  BY <1>3 DEF AskToUnlink
<1>4. ASSUME NEW p \in Procs, Open(p) PROVE SidecarInv'
  BY <1>4 DEF Open, Opened, Unused
<1>5. ASSUME NEW p \in Procs, TryLock(p) PROVE SidecarInv'
  BY <1>5 DEF TryLock
<1>6. ASSUME NEW p \in Procs, Check(p) PROVE SidecarInv'
  <2>1. CASE file[p] = name /\ lock[file[p]] = p
    BY <1>6, <2>1 DEF Check
  <2>2. CASE ~(file[p] = name /\ lock[file[p]] = p)
    <3>1. Close(p)
      BY <1>6, <2>2 DEF Check
    <3>2. TypeOK'
      BY <1>6, <2>2, <3>1, CloseKeepsOthers DEF Check
    <3>3. (LockThroughFile /\ HolderIsNamed /\ FileIsOpen /\ TriesLeft
             /\ PendingHasSidecar)'
      BY <1>6, <2>2, <3>1, <3>2, CloseKeepsOthers DEF Check
    <3> QED BY <3>2, <3>3
  <2> QED BY <2>1, <2>2
<1>7. ASSUME NEW p \in Procs, Touch(p) PROVE SidecarInv'
  BY <1>7 DEF Touch, Opened
<1>8. ASSUME NEW p \in Procs, SavePending(p) PROVE SidecarInv'
  BY <1>8 DEF SavePending
<1>9. ASSUME NEW p \in Procs, Settle(p) PROVE SidecarInv'
  BY <1>9 DEF Settle
<1>10. ASSUME NEW p \in Procs, Unlink(p) PROVE SidecarInv'
  BY <1>10 DEF Unlink
<1>11. ASSUME NEW p \in Procs, Drop(p) PROVE SidecarInv'
  <2>1. Close(p)
    BY <1>11 DEF Drop
  <2> QED BY <1>11, <2>1, CloseKeepsOthers DEF Drop
<1>12. ASSUME NEW p \in Procs, DeleteSettled(p) PROVE SidecarInv'
  BY <1>12 DEF DeleteSettled
<1> QED BY <1>1, <1>2, <1>3, <1>4, <1>5, <1>6, <1>7, <1>8, <1>9, <1>10, <1>11, <1>12
        DEF Next

(* The invariant holds in every reachable state. *)
THEOREM SidecarInvariant == Spec => []SidecarInv
  BY SidecarInit, SidecarStep, PTL DEF Spec

(* The state stays typed. *)
THEOREM TypeCorrect == Spec => []TypeOK
  BY SidecarInvariant, PTL DEF SidecarInv

(* store.rs lease(): two processes never hold one response's lease. *)
THEOREM LeaseIsExclusive == Spec => []OneHolder
<1>1. SidecarInv => OneHolder
  BY DEF SidecarInv, HolderIsNamed, OneHolder
<1> QED BY <1>1, SidecarInvariant, PTL

(* store.rs save_with, remove_lock: a pending record has its sidecar. *)
THEOREM PendingKeepsSidecar == Spec => []PendingHasSidecar
  BY SidecarInvariant, PTL DEF SidecarInv

(* A step of the file protocol is a step of the abstract lease, or none. *)
LEMMA StepIsLeaseStep ==
  ASSUME SidecarInv, SidecarInv', [Next]_vars
  PROVE  [Lease!Next]_Holder
<1> DEFINE Here(p) == pc[p] \in Holding
<1>1. OneHolder /\ OneHolder'
  BY DEF SidecarInv, HolderIsNamed, OneHolder
<1>2. /\ \A p \in Procs : Here(p) => Holder = p
      /\ (\A p \in Procs : ~Here(p)) => Holder = NoProc
  BY <1>1 DEF OneHolder, Holder
<1>3. /\ \A p \in Procs : Here(p)' => Holder' = p
      /\ (\A p \in Procs : ~Here(p)') => Holder' = NoProc
  BY <1>1 DEF OneHolder, Holder
<1>4. ASSUME NEW p \in Procs, \A q \in Procs : q # p => pc'[q] = pc[q]
      PROVE  [Lease!Next]_Holder
  <2>1. CASE Here(p) <=> Here(p)'
    <3>1. \A q \in Procs : Here(q) <=> Here(q)'
      BY <1>4, <2>1
    <3>2. Holder' = Holder
      BY <1>2, <1>3, <3>1
    <3> QED BY <3>2
  <2>2. CASE Here(p) /\ ~Here(p)'
    <3>1. Holder = p
      BY <1>2, <2>2
    <3>2. \A q \in Procs : ~Here(q)'
      BY <1>1, <1>4, <2>2 DEF OneHolder
    <3>3. Lease!Release(p)
      BY <1>3, <3>1, <3>2 DEF Lease!Release
    <3> QED BY <3>3 DEF Lease!Next
  <2>3. CASE ~Here(p) /\ Here(p)'
    <3>1. Holder' = p
      BY <1>3, <2>3
    <3>2. \A q \in Procs : ~Here(q)
      BY <1>1, <1>4, <2>3 DEF OneHolder
    <3>3. Lease!Acquire(p)
      BY <1>2, <3>1, <3>2 DEF Lease!Acquire
    <3> QED BY <3>3 DEF Lease!Next
  <2> QED BY <2>1, <2>2, <2>3
<1>5. CASE UNCHANGED vars
  BY <1>5 DEF vars, Holder
<1>6. ASSUME Next
      PROVE  \E p \in Procs : \A q \in Procs : q # p => pc'[q] = pc[q]
  BY <1>6 DEF Next, AskToWrite, AskToUnlink, Open, TryLock, Check, Touch,
     SavePending, Settle, Unlink, Drop, DeleteSettled, Goto, SidecarInv, TypeOK
<1> QED BY <1>4, <1>5, <1>6

(* LeaseSidecar implements WriteLease: what the store's files do is what   *)
(* its users rely on.                                                      *)
THEOREM SidecarImplementsLease == Spec => ImplementsLease
<1>1. Init => Lease!Init
  BY DEF Init, Lease!Init, Holder, Holding
<1> QED BY <1>1, SidecarInvariant, StepIsLeaseStep, PTL DEF Spec, Lease!Spec, ImplementsLease
=============================================================================
