---------------------------- MODULE LeaseSidecar ----------------------------
(***************************************************************************)
(* The file protocol behind the write lease of one stored response         *)
(* (store.rs: lease, still_named, remove_lock, remove_orphan, save_with).  *)
(*                                                                         *)
(* The lease is an advisory lock on a sidecar file found by name.  The     *)
(* file is unlinked once its record is settled or gone, so two processes   *)
(* may come to lock two different files by the same name; lease() guards   *)
(* against it by looking the name up again after the lock is taken.        *)
(* Inodes are reused by the file system once no name and no open file      *)
(* refers to them.                                                         *)
(***************************************************************************)
EXTENDS Naturals

CONSTANTS Procs,          \* the threads, of any server, that use the store
          Inodes,         \* the file system's inodes
          NoProc, NoFile,
          LEASE_ATTEMPTS  \* how often lease() opens the sidecar again

ASSUME ProcsAssumption == NoProc \notin Procs
ASSUME InodesAssumption == NoFile \notin Inodes
ASSUME AttemptsAssumption == LEASE_ATTEMPTS \in Nat \ {0}

VARIABLES
  name,      \* the inode the sidecar's name leads to, NoFile when unlinked
  lock,      \* who holds the advisory lock on each inode
  file,      \* the inode each process has open as the sidecar
  pc,        \* where each process is
  goal,      \* why it wants the lease: to write, or to unlink the sidecar
  tries,     \* rounds of lease()'s loop it has done
  record     \* the response's record: "new", "pending", "settled", "gone"

vars == <<name, lock, file, pc, goal, tries, record>>

(* Holding: lease() returned Some and the sidecar is still the named one.  *)
(* Retired: the holder has unlinked it, and does nothing more under it.    *)
Holding == {"held", "touched"}
Retired == {"unlinked"}

TypeOK ==
  /\ name \in Inodes \cup {NoFile}
  /\ lock \in [Inodes -> Procs \cup {NoProc}]
  /\ file \in [Procs -> Inodes \cup {NoFile}]
  /\ pc \in [Procs -> {"idle", "removed", "opening", "opened", "tried"}
                        \cup Holding \cup Retired]
  /\ goal \in [Procs -> {"write", "unlink"}]
  /\ tries \in [Procs -> 0..LEASE_ATTEMPTS]
  /\ record \in {"new", "pending", "settled", "gone"}

Init ==
  /\ name = NoFile
  /\ lock = [i \in Inodes |-> NoProc]
  /\ file = [p \in Procs |-> NoFile]
  /\ pc = [p \in Procs |-> "idle"]
  /\ goal = [p \in Procs |-> "write"]
  /\ tries = [p \in Procs |-> 0]
  /\ record = "new"

Goto(p, step) == pc' = [pc EXCEPT ![p] = step]

(* Dropping the File closes it, which frees the advisory lock it held. *)
Close(p) ==
  /\ file' = [file EXCEPT ![p] = NoFile]
  /\ lock' = [i \in Inodes |-> IF lock[i] = p THEN NoProc ELSE lock[i]]

Unused == {i \in Inodes : i # name /\ \A p \in Procs : file[p] # i}

(* open_private(path, Access::Lock): the inode the name leads to, a new    *)
(* one when it leads nowhere.                                              *)
Opened == IF name = NoFile THEN Unused ELSE {name}

(***************************************************************************)
(* ResponseStore::lease.                                                   *)
(***************************************************************************)

(* A writer (admit, resume, cancel, recover, delete of a pending record). *)
AskToWrite(p) ==
  /\ pc[p] = "idle"
  /\ record \in {"new", "pending"}
  /\ Goto(p, "opening")
  /\ goal' = [goal EXCEPT ![p] = "write"]
  /\ tries' = [tries EXCEPT ![p] = 0]
  /\ UNCHANGED <<name, lock, file, record>>

(* remove_lock, from a sweep ("idle") or after a deletion ("removed"), and *)
(* remove_orphan: nothing when the sidecar is not there.                   *)
AskToUnlink(p) ==
  /\ \/ pc[p] = "idle" /\ name # NoFile
     \/ pc[p] = "removed"
  /\ Goto(p, IF name = NoFile THEN "idle" ELSE "opening")
  /\ goal' = [goal EXCEPT ![p] = "unlink"]
  /\ tries' = [tries EXCEPT ![p] = 0]
  /\ UNCHANGED <<name, lock, file, record>>

Open(p) ==
  /\ pc[p] = "opening"
  /\ name' \in Opened
  /\ file' = [file EXCEPT ![p] = name']
  /\ Goto(p, "opened")
  /\ UNCHANGED <<lock, goal, tries, record>>

TryLock(p) ==
  /\ pc[p] = "opened"
  /\ lock' = [lock EXCEPT ![file[p]] = IF @ = NoProc THEN p ELSE @]
  /\ Goto(p, "tried")
  /\ UNCHANGED <<name, file, goal, tries, record>>

(* Mutant of Check: the name is not looked up again after the lock. *)
CheckWithoutStillNamed(p) ==
  /\ pc[p] = "tried"
  /\ \/ /\ lock[file[p]] = p
        /\ Goto(p, "held")
        /\ UNCHANGED <<lock, file>>
     \/ /\ lock[file[p]] # p
        /\ Close(p) /\ Goto(p, "idle")
  /\ UNCHANGED <<name, goal, tries, record>>

(* still_named: the lease is this file's lock only if the name leads to it *)
(* now; otherwise the file is closed and opened again by name, a few times.*)
Check(p) ==
  /\ pc[p] = "tried"
  /\ \/ /\ file[p] = name
        /\ lock[file[p]] = p
        /\ Goto(p, "held")
        /\ UNCHANGED <<lock, file, tries>>
     \/ /\ file[p] = name
        /\ lock[file[p]] # p
        /\ Close(p) /\ Goto(p, "idle")
        /\ UNCHANGED tries
     \/ /\ file[p] # name
        /\ Close(p)
        /\ tries' = [tries EXCEPT ![p] = @ + 1]
        /\ Goto(p, IF tries[p] + 1 < LEASE_ATTEMPTS THEN "opening" ELSE "idle")
  /\ UNCHANGED <<name, goal, record>>

(***************************************************************************)
(* Under the lease.                                                        *)
(***************************************************************************)

(* save_with of a pending record opens the sidecar first, so that every    *)
(* pending record has one.                                                 *)
Touch(p) ==
  /\ pc[p] = "held" /\ goal[p] = "write"
  /\ record \in {"new", "pending"}
  /\ name' \in Opened
  /\ Goto(p, "touched")
  /\ UNCHANGED <<lock, file, goal, tries, record>>

SavePending(p) ==
  /\ pc[p] = "touched"
  /\ record' = "pending"
  /\ Goto(p, "held")
  /\ UNCHANGED <<name, lock, file, goal, tries>>

(* The terminal record, or the deletion of a pending one. *)
Settle(p) ==
  /\ pc[p] = "held" /\ goal[p] = "write"
  /\ record = "pending"
  /\ record' \in {"settled", "gone"}
  /\ UNCHANGED <<name, lock, file, pc, goal, tries>>

(* Mutant of Unlink: the record is not read again under the lease. *)
UnlinkUnread(p) ==
  /\ pc[p] = "held" /\ goal[p] = "unlink"
  /\ name' = NoFile
  /\ Goto(p, "unlinked")
  /\ UNCHANGED <<lock, file, goal, tries, record>>

(* remove_lock and remove_orphan look at the record again under the lease: *)
(* a pending record keeps its sidecar.                                     *)
Unlink(p) ==
  /\ pc[p] = "held" /\ goal[p] = "unlink"
  /\ record # "pending"
  /\ name' = NoFile
  /\ Goto(p, "unlinked")
  /\ UNCHANGED <<lock, file, goal, tries, record>>

(* The ResponseLease is dropped, an error returns early, or the process    *)
(* dies: in every case the kernel closes the file.                         *)
Drop(p) ==
  /\ pc[p] \notin {"idle", "removed"}
  /\ Close(p)
  /\ Goto(p, "idle")
  /\ UNCHANGED <<name, goal, tries, record>>

(* Deleting a settled record takes no lease; its sidecar goes afterwards. *)
DeleteSettled(p) ==
  /\ pc[p] = "idle"
  /\ record = "settled"
  /\ record' = "gone"
  /\ Goto(p, "removed")
  /\ UNCHANGED <<name, lock, file, goal, tries>>

Next == \E p \in Procs :
  \/ AskToWrite(p) \/ AskToUnlink(p) \/ Open(p) \/ TryLock(p) \/ Check(p)
  \/ Touch(p) \/ SavePending(p) \/ Settle(p) \/ Unlink(p) \/ Drop(p)
  \/ DeleteSettled(p)

Spec == Init /\ [][Next]_vars

(***************************************************************************)
(* Properties.                                                             *)
(***************************************************************************)

(* No two processes are under the lease of one response at once, whatever  *)
(* unlinking, re-creation and inode reuse happened between their opens:    *)
(* this is what lets the pump, a resumption and an unowned cancel write    *)
(* the record and the journal without any other lock.                      *)
OneHolder == \A p, q \in Procs :
  pc[p] \in Holding /\ pc[q] \in Holding => p = q

(* A pending record has a sidecar, so the sweeps and resumable(), which    *)
(* read only records that have one, never overlook interrupted work.       *)
PendingHasSidecar == record = "pending" => name # NoFile

(* The strengthening that makes OneHolder inductive: a lock is held        *)
(* through an open file, a holder has the lock of its file, and its file   *)
(* is the one the name leads to.                                           *)
LockThroughFile == \A i \in Inodes : lock[i] # NoProc =>
  /\ file[lock[i]] = i
  /\ pc[lock[i]] \in {"tried"} \cup Holding \cup Retired
HolderIsNamed == \A p \in Procs : pc[p] \in Holding =>
  /\ file[p] = name
  /\ name # NoFile
  /\ lock[name] = p
FileIsOpen == \A p \in Procs :
  pc[p] \in {"opened", "tried"} \cup Holding \cup Retired => file[p] \in Inodes
TriesLeft == \A p \in Procs :
  pc[p] \in {"opening", "opened", "tried"} => tries[p] < LEASE_ATTEMPTS
SidecarInv == TypeOK /\ LockThroughFile /\ HolderIsNamed /\ FileIsOpen
                     /\ TriesLeft /\ PendingHasSidecar

(* The lease as its users see it. *)
Holder == IF \E p \in Procs : pc[p] \in Holding
            THEN CHOOSE p \in Procs : pc[p] \in Holding
            ELSE NoProc

Lease == INSTANCE WriteLease WITH holder <- Holder

(* Every step of the file protocol is a step of the abstract lease (taking *)
(* it when it is free, giving it back) or none at all.                     *)
ImplementsLease == Lease!Spec
=============================================================================
