--------------------------- MODULE BatchesProofs ---------------------------
(***************************************************************************)
(* Proofs about Batches: what an ended batch names is what its lines came  *)
(* to, and an interrupt reaches the line that is generated.                *)
(***************************************************************************)
EXTENDS Batches, FiniteSetTheorems, WellFoundedInduction, TLAPS

(***************************************************************************)
(* Numbers and sets of lines.                                              *)
(***************************************************************************)
LEMMA Bounds ==
  /\ MaxBatches \in Nat /\ MaxLines \in Nat /\ BatchIds \subseteq Nat
  /\ LineIds \subseteq Nat /\ 0 \notin BatchIds /\ BatchIds \subseteq 0..MaxBatches
  /\ LineIds \subseteq 0..MaxLines
<1>1. MaxBatches \in Nat /\ MaxLines \in Nat
  BY BatchBoundsAssumption
<1> QED BY <1>1 DEF BatchIds, LineIds

(* A set of naturals that is not empty has a least member. *)
LEMMA LeastMember ==
  ASSUME NEW T \in SUBSET Nat, T # {}
  PROVE  \E t \in T : \A u \in T : t <= u
<1> DEFINE R == OpToRel(<, Nat)
           Q == {ss \in Nat \X Nat : ss[1] < ss[2]}
<1>1. IsWellFoundedOn(R, Nat)
  BY NatLessThanWellFounded
<1>2. R = Q
  BY Zenon DEF OpToRel
<1> HIDE DEF R
<1>3. PICK t \in T : \A u \in T : ~(<<u, t>> \in R)
  BY <1>1, WFMin
<1>4. ASSUME NEW u \in T PROVE t <= u
  <2>1. ~(<<u, t>> \in Q)
    BY <1>2, <1>3
  <2> QED BY <2>1
<1> QED BY <1>4

LEMMA LinesFinite ==
  ASSUME NEW L \in SUBSET LineIds
  PROVE  IsFiniteSet(L) /\ Cardinality(L) \in Nat
<1>1. IsFiniteSet(LineIds)
  BY Bounds, FS_Interval DEF LineIds
<1> QED BY <1>1, FS_Subset, FS_CardinalityType

(* The batch a worker runs is one it scanned. *)
LEMMA MineType ==
  ASSUME BatchesTypeOK, NEW s \in BatchServers, worker[s].todo # {}
  PROVE  Mine(s) \in worker[s].todo /\ Mine(s) \in BatchIds
<1>1. worker[s].todo \subseteq BatchIds
  BY DEF BatchesTypeOK, WorkerRow
<1>2. \E b \in worker[s].todo : \A c \in worker[s].todo : b <= c
  BY <1>1, Bounds, LeastMember
<1> QED BY <1>1, <1>2 DEF Mine

LEMMA MineSame ==
  ASSUME NEW s, worker'[s].todo = worker[s].todo
  PROVE  Mine(s)' = Mine(s)
BY DEF Mine

(***************************************************************************)
(* What one server does leaves the others' workers as they are.            *)
(***************************************************************************)
OnlyServer(s) ==
  \A t \in BatchServers : t # s => /\ worker'[t] = worker[t] /\ control'[t] = control[t]
                                   /\ native'[t] = native[t]

(* What may happen to a batch under a worker that runs it. *)
Steady(b) ==
  /\ batch'[b].line = batch[b].line /\ batch'[b].ending = batch[b].ending
  /\ \/ batch'[b].status = batch[b].status
     \/ batch[b].status = "in_progress" /\ batch'[b].status = "cancelling"
  /\ batchLease'[b] = batchLease[b] /\ (b \in late => b \in late')
  /\ \A k \in Kinds : result[b][k].state # "none" => result'[b][k].state # "none"

WorkerInv(s) == OwnsBatch(s) /\ LineIsCurrent(s) /\ FinishesBatch(s)

LEMMA RunLasts ==
  ASSUME BatchesIInv, NEW t \in BatchServers, worker'[t] = worker[t],
         worker[t].at \in Busy => Steady(Mine(t))
  PROVE  OwnsBatch(t)' /\ FinishesBatch(t)'
<1>0. OwnsBatch(t) /\ FinishesBatch(t) /\ Mine(t)' = Mine(t)
  BY MineSame DEF BatchesIInv
<1> DEFINE b == Mine(t)
<1>1. OwnsBatch(t)'
  BY <1>0 DEF OwnsBatch, Steady, Busy, Generating, Finishing, Exists, LineIds
<1>2. FinishesBatch(t)'
  <2>1. CASE worker[t].at \notin Busy
    BY <2>1 DEF FinishesBatch, Busy, Finishing
  <2>2. CASE worker[t].at \in Busy
    <3>1. Steady(b)
      BY <2>2
    <3>2. /\ InState(Mine(t), "pending")' = InState(b, "pending")
          /\ InState(Mine(t), "succeeded")' = InState(b, "succeeded")
          /\ \A k \in Kinds : InState(Mine(t), Holds(k))' = InState(b, Holds(k))
      BY <1>0, <3>1 DEF Steady, InState, LineIds, Holds, Kinds
    <3> QED BY <1>0, <3>1, <3>2 DEF FinishesBatch, Steady, Finishing, Kinds
  <2> QED BY <2>1, <2>2
<1> QED BY <1>1, <1>2

LEMMA WorkerLasts ==
  ASSUME BatchesIInv, NEW t \in BatchServers, worker'[t] = worker[t],
         control'[t] = control[t], native'[t] = native[t],
         worker[t].at \in Busy => Steady(Mine(t))
  PROVE  WorkerInv(t)'
<1>1. LineIsCurrent(t)'
  BY DEF BatchesIInv, LineIsCurrent, Generating
<1> QED BY <1>1, RunLasts DEF WorkerInv

LEMMA RowLasts ==
  ASSUME NEW b \in BatchIds, RowInv(b), batch'[b] = batch[b], result'[b] = result[b]
  PROVE  RowInv(b)'
<1>1. /\ InState(b, "pending")' = InState(b, "pending")
      /\ InState(b, "succeeded")' = InState(b, "succeeded")
      /\ InState(b, "failed")' = InState(b, "failed")
      /\ \A k \in Kinds : InState(b, Holds(k))' = InState(b, Holds(k))
  BY DEF InState, LineIds, Holds, Kinds
<1> QED BY <1>1 DEF RowInv, BatchTerminal, Kinds

LEMMA ServerMoves ==
  ASSUME BatchesIInv, BatchesTypeOK', NEW s \in BatchServers, OnlyServer(s),
         \A t \in BatchServers : t # s /\ worker[t].at \in Busy => Steady(Mine(t)),
         \A b \in BatchIds : RowInv(b)', WorkerInv(s)'
  PROVE  BatchesIInv'
<1>1. \A t \in BatchServers : WorkerInv(t)'
  BY WorkerLasts DEF OnlyServer
<1> QED BY <1>1 DEF BatchesIInv, WorkerInv

LEMMA StoreSteady == UNCHANGED batchStore => \A b : Steady(b)
BY DEF batchStore, Steady

(* The store is left alone. *)
LEMMA StoreAlone ==
  ASSUME BatchesIInv, BatchesTypeOK', NEW s \in BatchServers, OnlyServer(s),
         UNCHANGED batchStore, WorkerInv(s)'
  PROVE  BatchesIInv'
<1>1. \A b : Steady(b)
  BY StoreSteady
<1>2. \A b \in BatchIds : RowInv(b)'
  BY RowLasts DEF batchStore, BatchesIInv
<1> QED BY <1>1, <1>2, ServerMoves

(* The worker of s moves the batch b it runs, and no other. *)
LEMMA HolderMoves ==
  ASSUME BatchesIInv, BatchesTypeOK', NEW s \in BatchServers, OnlyServer(s),
         worker[s].at \in Busy, UNCHANGED late, NEW b \in BatchIds, b = Mine(s),
         \A c \in BatchIds : c # b => /\ batch'[c] = batch[c] /\ result'[c] = result[c]
                                      /\ batchLease'[c] = batchLease[c],
         RowInv(b)', WorkerInv(s)'
  PROVE  BatchesIInv'
<1>1. ASSUME NEW t \in BatchServers, t # s, worker[t].at \in Busy
      PROVE  Steady(Mine(t))
  <2>1. /\ batchLease[Mine(t)] = {t} /\ batchLease[b] = {s} /\ worker[t].todo # {}
    BY <1>1 DEF BatchesIInv, OwnsBatch
  <2>2. Mine(t) \in BatchIds /\ Mine(t) # b
    BY <1>1, <2>1, MineType DEF BatchesIInv
  <2> QED BY <2>2 DEF Steady
<1>2. \A c \in BatchIds : RowInv(c)'
  BY RowLasts DEF BatchesIInv
<1> QED BY <1>1, <1>2, ServerMoves

(***************************************************************************)
(* How a worker's place, its Control and its generation change.            *)
(***************************************************************************)
Places == {"wait", "scan", "each", "stopped", "down"} \cup Busy

LEMMA ToEffect ==
  ASSUME BatchesTypeOK, NEW s \in BatchServers, NEW at \in Places, To(s, at)
  PROVE  /\ worker' \in [BatchServers -> WorkerRow]
         /\ worker'[s].at = at /\ worker'[s].todo = worker[s].todo
         /\ worker'[s].line = worker[s].line /\ worker'[s].outcome = worker[s].outcome
         /\ worker'[s].ending = worker[s].ending
         /\ \A t \in BatchServers : t # s => worker'[t] = worker[t]
BY DEF BatchesTypeOK, WorkerRow, Places, To

(* interrupt changes the Control only by the flag it raises. *)
LEMMA InterruptEffect ==
  ASSUME BatchesTypeOK, NEW s \in BatchServers, NEW c \in ControlRow,
         NEW bs \in SUBSET BatchIds, Interrupt(s, c, bs)
  PROVE  /\ control' \in [BatchServers -> ControlRow]
         /\ native' \in [BatchServers -> {"none", "running", "cancelled"}]
         /\ control'[s].current = c.current /\ control'[s].closing = c.closing
         /\ control'[s].cancelled = c.cancelled /\ control'[s].handle = c.handle
         /\ control'[s].interrupted = (c.interrupted \/ c.current \in bs)
         /\ c.current \in bs /\ c.handle => native'[s] # "running"
         /\ native'[s] = "running" => native[s] = "running"
         /\ \A t \in BatchServers :
              t # s => control'[t] = control[t] /\ native'[t] = native[t]
<1>1. CASE c.current \in bs
  <2> DEFINE d == [c EXCEPT !.interrupted = TRUE]
  <2>1. /\ d \in ControlRow /\ d.current = c.current /\ d.closing = c.closing
        /\ d.cancelled = c.cancelled /\ d.handle = c.handle /\ d.interrupted = TRUE
    BY DEF ControlRow
  <2>2. control' = [control EXCEPT ![s] = d]
    BY <1>1 DEF Interrupt
  <2> HIDE DEF d
  <2> QED BY <1>1, <2>1, <2>2 DEF Interrupt, BatchesTypeOK
<1>2. CASE c.current \notin bs
  BY <1>2 DEF Interrupt, BatchesTypeOK, ControlRow
<1> QED BY <1>1, <1>2

(* The end of a line. *)
LEMMA EndLineEffect ==
  ASSUME BatchesTypeOK, NEW s \in BatchServers,
         NEW outcome \in {"none", "succeeded", "failed"}, EndLine(s, outcome)
  PROVE  /\ worker' \in [BatchServers -> WorkerRow]
         /\ control' \in [BatchServers -> ControlRow]
         /\ native' \in [BatchServers -> {"none", "running", "cancelled"}]
         /\ worker'[s].at = IF outcome = "none" THEN "next" ELSE "settle"
         /\ worker'[s].outcome = outcome
         /\ worker'[s].todo = worker[s].todo /\ worker'[s].line = worker[s].line
         /\ control'[s].current = 0
         /\ OnlyServer(s)
<1>1. /\ worker' \in [BatchServers -> WorkerRow]
      /\ worker'[s].at = IF outcome = "none" THEN "next" ELSE "settle"
      /\ worker'[s].outcome = outcome
      /\ worker'[s].todo = worker[s].todo /\ worker'[s].line = worker[s].line
      /\ \A t \in BatchServers : t # s => worker'[t] = worker[t]
  <2> DEFINE w == worker[s]
             a == IF outcome = "none" THEN "next" ELSE "settle"
             r == [w EXCEPT !.at = a, !.outcome = outcome]
  <2>1. /\ worker \in [BatchServers -> WorkerRow] /\ w \in WorkerRow
        /\ worker' = [worker EXCEPT ![s] = r]
    BY DEF EndLine, BatchesTypeOK
  <2>2. a \in Busy /\ outcome \in LineStates \cup {"none"}
    BY DEF Busy, LineStates
  <2> HIDE DEF w, a
  <2>3. /\ r \in WorkerRow /\ r.at = a /\ r.outcome = outcome
        /\ r.todo = w.todo /\ r.line = w.line
    BY <2>1, <2>2 DEF WorkerRow
  <2> HIDE DEF r
  <2> QED BY <2>1, <2>3 DEF w, a
<1>2. /\ control' \in [BatchServers -> ControlRow] /\ control'[s].current = 0
      /\ \A t \in BatchServers : t # s => control'[t] = control[t]
  <2> DEFINE c == [control[s] EXCEPT !.current = 0, !.interrupted = FALSE, !.handle = FALSE]
  <2>1. 0 \in 0..MaxBatches
    BY Bounds
  <2>2. c \in ControlRow /\ c.current = 0
    BY <2>1 DEF BatchesTypeOK, ControlRow
  <2>3. control' = [control EXCEPT ![s] = c]
    BY DEF EndLine, BatchesTypeOK
  <2> HIDE DEF c
  <2> QED BY <2>2, <2>3 DEF BatchesTypeOK
<1>3. /\ native' \in [BatchServers -> {"none", "running", "cancelled"}]
      /\ \A t \in BatchServers : t # s => native'[t] = native[t]
  BY DEF EndLine, BatchesTypeOK
<1> QED BY <1>1, <1>2, <1>3 DEF OnlyServer

LEMMA HandlerTells ==
  ASSUME BatchesTypeOK, NEW s \in BatchServers, NEW m,
         handler' = [handler EXCEPT ![s] = @ \ {m}]
  PROVE  handler' \in [BatchServers -> SUBSET ({"create", "cancel"} \X BatchIds)]
<1> DEFINE H == SUBSET ({"create", "cancel"} \X BatchIds)
<1>1. handler \in [BatchServers -> H] /\ \A x \in H : x \ {m} \in H
  BY DEF BatchesTypeOK
<1> HIDE DEF H
<1>2. handler[s] \ {m} \in H
  BY <1>1
<1>3. handler' \in [BatchServers -> H]
  BY <1>1, <1>2
<1> QED BY <1>3 DEF H

(***************************************************************************)
(* Steps that leave the store alone.                                       *)
(***************************************************************************)
LEMMA HandlerKeeps ==
  ASSUME BatchesIInv, NEW s \in BatchServers, Notify(s) \/ Disconnect(s) \/ Cancelled(s)
  PROVE  BatchesIInv'
<1>0. BatchesTypeOK /\ WorkerInv(s) /\ control[s] \in ControlRow
  BY DEF BatchesIInv, BatchesTypeOK, WorkerInv
<1>1. CASE Notify(s)
  <2> DEFINE c == [control[s] EXCEPT !.pending = TRUE]
  <2>1. /\ c \in ControlRow /\ c.current = control[s].current
        /\ c.closing = control[s].closing /\ c.handle = control[s].handle
        /\ c.cancelled = control[s].cancelled /\ c.interrupted = control[s].interrupted
    BY <1>0 DEF ControlRow
  <2>2. control' = [control EXCEPT ![s] = c] /\ UNCHANGED <<batchStore, worker, native>>
    BY <1>1 DEF Notify
  <2> HIDE DEF c
  <2>3. BatchesTypeOK'
    <3>1. handler' \in [BatchServers -> SUBSET ({"create", "cancel"} \X BatchIds)]
      BY <1>0, <1>1, HandlerTells DEF Notify
    <3> QED BY <1>0, <1>1, <2>1, <2>2, <3>1 DEF Notify, BatchesTypeOK, batchStore,
       batchCount
  <2>4. LineIsCurrent(s)'
    BY <1>0, <2>1, <2>2 DEF WorkerInv, LineIsCurrent, BatchesTypeOK
  <2>5. WorkerInv(s)' /\ OnlyServer(s)
    BY <1>0, <2>2, <2>4, RunLasts, StoreSteady DEF WorkerInv, OnlyServer, BatchesTypeOK
  <2> QED BY <2>2, <2>3, <2>5, StoreAlone DEF batchStore
<1>3. CASE Disconnect(s)
  <2>1. BatchesTypeOK'
    <3>1. handler' \in [BatchServers -> SUBSET ({"create", "cancel"} \X BatchIds)]
      BY <1>0, <1>3, HandlerTells DEF Disconnect
    <3> QED BY <1>0, <1>3, <3>1 DEF Disconnect, BatchesTypeOK, batchStore
  <2>2. WorkerInv(s)'
    BY <1>3, WorkerLasts, StoreSteady DEF Disconnect, batchStore
  <2> QED BY <1>3, <2>1, <2>2, StoreAlone DEF Disconnect, OnlyServer, batchStore
<1>2. CASE Cancelled(s)
  <2>1. PICK b \in BatchIds :
          Interrupt(s, [control[s] EXCEPT !.cancelled = @ \cup {b}, !.pending = TRUE], {b})
    BY <1>2 DEF Cancelled
  <2> DEFINE c == [control[s] EXCEPT !.cancelled = @ \cup {b}, !.pending = TRUE]
  <2>2. /\ c \in ControlRow /\ c.current = control[s].current
        /\ c.closing = control[s].closing /\ c.handle = control[s].handle
        /\ c.cancelled = control[s].cancelled \cup {b}
        /\ c.interrupted = control[s].interrupted
    BY <1>0 DEF ControlRow
  <2> HIDE DEF c
  <2>3. /\ control' \in [BatchServers -> ControlRow]
        /\ native' \in [BatchServers -> {"none", "running", "cancelled"}]
        /\ control'[s].current = c.current /\ control'[s].closing = c.closing
        /\ control'[s].cancelled = c.cancelled /\ control'[s].handle = c.handle
        /\ control'[s].interrupted = (c.interrupted \/ c.current \in {b})
        /\ c.current \in {b} /\ c.handle => native'[s] # "running"
        /\ native'[s] = "running" => native[s] = "running"
        /\ \A t \in BatchServers :
             t # s => control'[t] = control[t] /\ native'[t] = native[t]
    <3>1. Interrupt(s, c, {b}) /\ {b} \subseteq BatchIds
      BY <2>1 DEF c
    <3> QED BY <1>0, <2>2, <3>1, InterruptEffect
  <2>4. BatchesTypeOK'
    <3>1. handler' \in [BatchServers -> SUBSET ({"create", "cancel"} \X BatchIds)]
      BY <1>0, <1>2, HandlerTells DEF Cancelled
    <3> QED BY <1>0, <1>2, <2>3, <3>1 DEF Cancelled, BatchesTypeOK, batchStore,
       batchCount
  <2>5. LineIsCurrent(s)'
    BY <1>0, <1>2, <2>2, <2>3 DEF Cancelled, WorkerInv, LineIsCurrent
  <2>6. OwnsBatch(s)' /\ FinishesBatch(s)'
    BY <1>2, RunLasts, StoreSteady DEF Cancelled, batchStore
  <2> QED BY <1>2, <2>3, <2>4, <2>5, <2>6, StoreAlone
             DEF Cancelled, OnlyServer, WorkerInv, batchStore
<1> QED BY <1>1, <1>2, <1>3

LEMMA CloseBatchesKeeps ==
  ASSUME BatchesIInv, NEW s \in BatchServers, CloseBatches(s)
  PROVE  BatchesIInv'
<1>0. BatchesTypeOK /\ WorkerInv(s) /\ control[s] \in ControlRow
  BY DEF BatchesIInv, BatchesTypeOK, WorkerInv
<1> DEFINE c == [control[s] EXCEPT !.closing = TRUE]
<1>1. Interrupt(s, c, BatchIds)
  BY DEF CloseBatches
<1>2. /\ c \in ControlRow /\ c.current = control[s].current
      /\ c.closing = TRUE /\ c.handle = control[s].handle
      /\ c.cancelled = control[s].cancelled
      /\ c.interrupted = control[s].interrupted
  BY <1>0 DEF ControlRow
<1> HIDE DEF c
<1>3. /\ control' \in [BatchServers -> ControlRow]
      /\ native' \in [BatchServers -> {"none", "running", "cancelled"}]
      /\ control'[s].current = c.current /\ control'[s].closing = c.closing
      /\ control'[s].cancelled = c.cancelled /\ control'[s].handle = c.handle
      /\ control'[s].interrupted = (c.interrupted \/ c.current \in BatchIds)
      /\ c.current \in BatchIds /\ c.handle => native'[s] # "running"
      /\ native'[s] = "running" => native[s] = "running"
      /\ \A t \in BatchServers :
           t # s => control'[t] = control[t] /\ native'[t] = native[t]
  BY <1>0, <1>1, <1>2, InterruptEffect
<1>4. BatchesTypeOK'
  BY <1>0, <1>3 DEF CloseBatches, BatchesTypeOK, batchStore
<1>5. c.current # 0 => c.current \in BatchIds
  BY <1>2, Bounds DEF ControlRow, BatchIds
<1>6. LineIsCurrent(s)'
  BY <1>0, <1>2, <1>3, <1>5 DEF CloseBatches, WorkerInv, LineIsCurrent
<1>7. OwnsBatch(s)' /\ FinishesBatch(s)'
  BY RunLasts, StoreSteady DEF CloseBatches, batchStore
<1> QED BY <1>3, <1>4, <1>6, <1>7, StoreAlone
           DEF CloseBatches, OnlyServer, WorkerInv, batchStore

LEMMA IdleGoes ==
  ASSUME NEW s \in BatchServers, worker'[s].at \notin Busy
  PROVE  OwnsBatch(s)' /\ FinishesBatch(s)'
BY DEF OwnsBatch, FinishesBatch, Busy, Generating, Finishing

(* A worker that goes on with its batch, before it begins to finish it. *)
LEMMA WorkerGoes ==
  ASSUME BatchesIInv, NEW s \in BatchServers, UNCHANGED batchStore,
         worker[s].at \in Busy, worker'[s].todo = worker[s].todo,
         worker'[s].at \in {"next", "execute", "settle"} \cup Generating,
         worker'[s].at # "next" => worker'[s].line \in LineIds,
         worker'[s].at = "settle" => worker'[s].outcome \in {"succeeded", "failed"}
  PROVE  OwnsBatch(s)' /\ FinishesBatch(s)'
<1>1. OwnsBatch(s) /\ Mine(s)' = Mine(s)
  BY MineSame DEF BatchesIInv
<1>2. OwnsBatch(s)'
  BY <1>1 DEF OwnsBatch, Busy, Generating, batchStore, Exists, LineIds
<1>3. FinishesBatch(s)'
  BY DEF FinishesBatch, Generating, Finishing
<1> QED BY <1>2, <1>3

LEMMA FreshType ==
  ASSUME NEW at \in Places, NEW T \in SUBSET BatchIds
  PROVE  LET w == [Fresh EXCEPT !.at = at, !.todo = T]
             v == [Fresh EXCEPT !.at = at]
         IN /\ w \in WorkerRow /\ w.at = at /\ w.todo = T
            /\ v \in WorkerRow /\ v.at = at
<1>1. 0 \in 0..MaxLines
  BY Bounds
<1>2. Fresh \in WorkerRow
  BY <1>1 DEF Fresh, WorkerRow
<1> QED BY <1>2 DEF WorkerRow, Places

LEMMA WakeKeeps ==
  ASSUME BatchesIInv, NEW s \in BatchServers, Wake(s)
  PROVE  BatchesIInv'
<1>0. BatchesTypeOK /\ LineIsCurrent(s) /\ control[s] \in ControlRow
  BY DEF BatchesIInv, BatchesTypeOK
<1>1. CASE control[s].closing
  <2>1. To(s, "stopped") /\ "stopped" \in Places
    BY <1>1 DEF Wake, Places
  <2>2. /\ worker' \in [BatchServers -> WorkerRow] /\ worker'[s].at = "stopped"
        /\ \A t \in BatchServers : t # s => worker'[t] = worker[t]
    BY <1>0, <2>1, ToEffect
  <2>3. BatchesTypeOK'
    BY <1>0, <1>1, <2>2 DEF Wake, BatchesTypeOK, batchStore, batchCount
  <2>4. LineIsCurrent(s)'
    BY <1>0, <1>1, <2>2 DEF Wake, BatchAt, LineIsCurrent, Generating
  <2>5. WorkerInv(s)'
    BY <2>2, <2>4, IdleGoes DEF WorkerInv, Busy, Generating, Finishing
  <2> QED BY <1>1, <2>2, <2>3, <2>5, StoreAlone DEF Wake, OnlyServer, batchStore
<1>2. CASE ~control[s].closing
  <2>1. To(s, "scan") /\ "scan" \in Places
    BY <1>2 DEF Wake, Places
  <2>2. /\ worker' \in [BatchServers -> WorkerRow] /\ worker'[s].at = "scan"
        /\ \A t \in BatchServers : t # s => worker'[t] = worker[t]
    BY <1>0, <2>1, ToEffect
  <2> DEFINE c == [control[s] EXCEPT !.pending = FALSE]
  <2>3. c \in ControlRow /\ c.current = control[s].current
    BY <1>0 DEF ControlRow
  <2>4. control' = [control EXCEPT ![s] = c]
    BY <1>2 DEF Wake
  <2> HIDE DEF c
  <2>5. BatchesTypeOK'
    BY <1>0, <2>2, <2>3, <2>4 DEF Wake, BatchesTypeOK, batchStore, batchCount
  <2>6. LineIsCurrent(s)'
    BY <1>0, <2>2, <2>3, <2>4 DEF Wake, BatchAt, LineIsCurrent, Generating,
       BatchesTypeOK
  <2>7. WorkerInv(s)'
    BY <2>2, <2>6, IdleGoes DEF WorkerInv, Busy, Generating, Finishing
  <2> QED BY <1>0, <2>2, <2>4, <2>5, <2>7, StoreAlone
             DEF Wake, OnlyServer, batchStore, BatchesTypeOK
<1> QED BY <1>1, <1>2

LEMMA ScanKeeps ==
  ASSUME BatchesIInv, NEW s \in BatchServers, Scan(s)
  PROVE  BatchesIInv'
<1>0. BatchesTypeOK /\ LineIsCurrent(s)
  BY DEF BatchesIInv
<1>1. /\ worker' \in [BatchServers -> WorkerRow] /\ worker'[s].at \in {"each", "wait"}
      /\ \A t \in BatchServers : t # s => worker'[t] = worker[t]
      /\ batchFaults' \in Nat
  <2>1. CASE /\ worker' = [worker EXCEPT ![s].at = "each", ![s].todo =
                             {b \in BatchIds : batch[b].status \in Active}]
             /\ UNCHANGED batchCount
    <3> DEFINE w == [worker[s] EXCEPT !.at = "each", !.todo =
                       {b \in BatchIds : batch[b].status \in Active}]
    <3>1. w \in WorkerRow /\ w.at = "each"
      BY <1>0 DEF BatchesTypeOK, WorkerRow
    <3>2. worker' = [worker EXCEPT ![s] = w]
      BY <2>1, <1>0 DEF BatchesTypeOK
    <3> HIDE DEF w
    <3> QED BY <1>0, <2>1, <3>1, <3>2 DEF BatchesTypeOK, batchCount
  <2>2. CASE BatchFault /\ To(s, "wait")
    BY <1>0, <2>2, ToEffect DEF BatchFault, Places, BatchesTypeOK
  <2> QED BY <2>1, <2>2 DEF Scan
<1>2. BatchesTypeOK'
  BY <1>0, <1>1 DEF Scan, BatchesTypeOK, batchStore, batchCount, BatchFault
<1>3. LineIsCurrent(s)'
  BY <1>0, <1>1 DEF Scan, BatchAt, LineIsCurrent, Generating
<1>4. WorkerInv(s)'
  BY <1>1, <1>3, IdleGoes DEF WorkerInv, Busy, Generating, Finishing
<1> QED BY <1>1, <1>2, <1>4, StoreAlone DEF Scan, OnlyServer, batchStore

LEMMA ExecuteKeeps ==
  ASSUME BatchesIInv, NEW s \in BatchServers, Execute(s)
  PROVE  BatchesIInv'
<1>0. /\ BatchesTypeOK /\ LineIsCurrent(s) /\ worker[s].at = "execute"
      /\ worker[s].line \in LineIds /\ control[s] \in ControlRow /\ Mine(s) \in BatchIds
      /\ UNCHANGED <<batchStore, native, handler, batchCount>>
  BY MineType DEF BatchesIInv, Execute, BatchAt, OwnsBatch, BatchesTypeOK, Busy
<1>1. CASE /\ worker' = [worker EXCEPT ![s].at = "settle", ![s].outcome = "failed"]
           /\ UNCHANGED control
  <2> DEFINE w == [worker[s] EXCEPT !.at = "settle", !.outcome = "failed"]
  <2>1. /\ w \in WorkerRow /\ w.at = "settle" /\ w.outcome = "failed"
        /\ w.todo = worker[s].todo /\ w.line = worker[s].line
    BY <1>0 DEF BatchesTypeOK, WorkerRow, LineStates, Busy
  <2>2. worker' = [worker EXCEPT ![s] = w]
    BY <1>0, <1>1 DEF BatchesTypeOK
  <2> HIDE DEF w
  <2>3. BatchesTypeOK' /\ worker'[s] = w
    BY <1>0, <1>1, <2>1, <2>2 DEF BatchesTypeOK, batchStore, batchCount
  <2>4. LineIsCurrent(s)'
    BY <1>0, <1>1, <2>1, <2>3 DEF LineIsCurrent, Generating
  <2>5. WorkerInv(s)'
    BY <1>0, <2>1, <2>3, <2>4, WorkerGoes DEF WorkerInv, Busy
  <2> QED BY <1>0, <1>1, <2>2, <2>3, <2>5, StoreAlone DEF OnlyServer, BatchesTypeOK
<1>2. CASE /\ control[s].closing \/ Mine(s) \in control[s].cancelled
           /\ To(s, "next") /\ UNCHANGED control
  <2>1. /\ worker' \in [BatchServers -> WorkerRow] /\ worker'[s].at = "next"
        /\ worker'[s].todo = worker[s].todo
        /\ \A t \in BatchServers : t # s => worker'[t] = worker[t]
    BY <1>0, <1>2, ToEffect DEF Places, Busy
  <2>3. BatchesTypeOK'
    BY <1>0, <1>2, <2>1 DEF BatchesTypeOK, batchStore, batchCount
  <2>4. LineIsCurrent(s)'
    BY <1>0, <1>2, <2>1 DEF LineIsCurrent, Generating
  <2>5. WorkerInv(s)'
    BY <1>0, <2>1, <2>4, WorkerGoes DEF WorkerInv, Busy
  <2> QED BY <1>0, <1>2, <2>1, <2>3, <2>5, StoreAlone DEF OnlyServer
<1>3. CASE /\ ~control[s].closing /\ Mine(s) \notin control[s].cancelled
           /\ control' = [control EXCEPT ![s].current = Mine(s),
                            ![s].interrupted = FALSE, ![s].handle = FALSE]
           /\ To(s, "admit")
  <2>1. /\ worker' \in [BatchServers -> WorkerRow] /\ worker'[s].at = "admit"
        /\ worker'[s].todo = worker[s].todo /\ worker'[s].line = worker[s].line
        /\ \A t \in BatchServers : t # s => worker'[t] = worker[t]
    BY <1>0, <1>3, ToEffect DEF Places, Busy, Generating
  <2> DEFINE c == [control[s] EXCEPT !.current = Mine(s),
                                     !.interrupted = FALSE, !.handle = FALSE]
  <2>2. /\ c \in ControlRow /\ c.current = Mine(s) /\ c.closing = control[s].closing
        /\ c.cancelled = control[s].cancelled
    BY <1>0, Bounds DEF ControlRow
  <2>3. control' = [control EXCEPT ![s] = c]
    BY <1>0, <1>3 DEF BatchesTypeOK
  <2> HIDE DEF c
  <2>4. BatchesTypeOK' /\ control'[s] = c
    BY <1>0, <2>1, <2>2, <2>3 DEF BatchesTypeOK, batchStore, batchCount
  <2>5. LineIsCurrent(s)'
    BY <1>3, <2>1, <2>2, <2>4 DEF LineIsCurrent, Generating
  <2>6. WorkerInv(s)'
    BY <1>0, <2>1, <2>5, WorkerGoes DEF WorkerInv, Busy, Generating
  <2> QED BY <1>0, <2>1, <2>3, <2>4, <2>6, StoreAlone DEF OnlyServer, BatchesTypeOK
<1> QED BY <1>1, <1>2, <1>3 DEF Execute

(* A line that ends, with or without an outcome. *)
LEMMA EndLineKeeps ==
  ASSUME BatchesIInv, NEW s \in BatchServers, worker[s].at \in Generating,
         NEW outcome \in {"none", "succeeded", "failed"}, EndLine(s, outcome),
         UNCHANGED <<batchStore, handler, batchCount>>
  PROVE  BatchesIInv'
<1>0. BatchesTypeOK /\ worker[s].line \in LineIds /\ worker[s].at \in Busy
  BY DEF BatchesIInv, OwnsBatch, Busy
<1>1. /\ worker' \in [BatchServers -> WorkerRow]
      /\ control' \in [BatchServers -> ControlRow]
      /\ native' \in [BatchServers -> {"none", "running", "cancelled"}]
      /\ worker'[s].at = IF outcome = "none" THEN "next" ELSE "settle"
      /\ worker'[s].outcome = outcome
      /\ worker'[s].todo = worker[s].todo /\ worker'[s].line = worker[s].line
      /\ control'[s].current = 0 /\ OnlyServer(s)
  BY <1>0, EndLineEffect
<1>2. BatchesTypeOK'
  BY <1>0, <1>1 DEF BatchesTypeOK, batchStore, batchCount
<1>3. LineIsCurrent(s)'
  BY <1>1 DEF LineIsCurrent
<1>4. WorkerInv(s)'
  BY <1>0, <1>1, <1>3, WorkerGoes DEF WorkerInv
<1> QED BY <1>1, <1>2, <1>4, StoreAlone

(* A line that goes on being generated. *)
LEMMA LineGoes ==
  ASSUME BatchesIInv, NEW s \in BatchServers, worker[s].at \in Generating,
         NEW at \in Generating, To(s, at), LineIsCurrent(s)',
         control' \in [BatchServers -> ControlRow],
         native' \in [BatchServers -> {"none", "running", "cancelled"}],
         full' \in Nat,
         \A t \in BatchServers : t # s => control'[t] = control[t] /\ native'[t] = native[t],
         UNCHANGED <<batchStore, handler, batchFaults, batchStops, abandoned>>
  PROVE  BatchesIInv'
<1>0. BatchesTypeOK /\ worker[s].line \in LineIds /\ worker[s].at \in Busy /\ at \in Places
  BY DEF BatchesIInv, OwnsBatch, Busy, Places
<1>1. /\ worker' \in [BatchServers -> WorkerRow] /\ worker'[s].at = at
      /\ worker'[s].todo = worker[s].todo /\ worker'[s].line = worker[s].line
      /\ \A t \in BatchServers : t # s => worker'[t] = worker[t]
  BY <1>0, ToEffect
<1>2. BatchesTypeOK'
  BY <1>0, <1>1 DEF BatchesTypeOK, batchStore
<1>3. WorkerInv(s)'
  BY <1>0, <1>1, WorkerGoes DEF WorkerInv, Generating
<1> QED BY <1>1, <1>2, <1>3, StoreAlone DEF OnlyServer

LEMMA AdmitKeeps ==
  ASSUME BatchesIInv, NEW s \in BatchServers, Admit(s)
  PROVE  BatchesIInv'
<1>0. /\ BatchesTypeOK /\ LineIsCurrent(s) /\ worker[s].at = "admit"
      /\ worker[s].at \in Generating
      /\ UNCHANGED <<batchStore, handler, batchFaults, batchStops, abandoned>>
  BY DEF BatchesIInv, Admit, BatchAt, Generating
<1>1. CASE /\ native' = [native EXCEPT ![s] = "running"] /\ To(s, "register")
           /\ UNCHANGED <<control, full>>
  <2>1. worker'[s].at = "register"
    BY <1>0, <1>1, ToEffect DEF Places, Busy, Generating
  <2>2. LineIsCurrent(s)'
    BY <1>0, <1>1, <2>1 DEF LineIsCurrent, Generating
  <2> QED BY <1>0, <1>1, <2>2, LineGoes DEF Generating, BatchesTypeOK
<1>2. CASE EndLine(s, "failed") /\ UNCHANGED full
  BY <1>0, <1>2, EndLineKeeps DEF batchCount
<1>3. CASE /\ full < MaxFull /\ full' = full + 1 /\ To(s, "queue")
           /\ UNCHANGED <<control, native>>
  <2>1. worker'[s].at = "queue"
    BY <1>0, <1>3, ToEffect DEF Places, Busy, Generating
  <2>2. LineIsCurrent(s)'
    BY <1>0, <1>3, <2>1 DEF LineIsCurrent, Generating
  <2> QED BY <1>0, <1>3, <2>2, LineGoes DEF Generating, BatchesTypeOK
<1> QED BY <1>1, <1>2, <1>3 DEF Admit

LEMMA QueueWaitKeeps ==
  ASSUME BatchesIInv, NEW s \in BatchServers, QueueWait(s)
  PROVE  BatchesIInv'
<1>0. /\ BatchesTypeOK /\ LineIsCurrent(s) /\ worker[s].at = "queue"
      /\ worker[s].at \in Generating /\ UNCHANGED <<batchStore, handler, batchCount>>
  BY DEF BatchesIInv, QueueWait, BatchAt, Generating
<1>1. CASE EndLine(s, "none")
  BY <1>0, <1>1, EndLineKeeps
<1>2. CASE To(s, "admit") /\ UNCHANGED <<control, native>>
  <2>1. worker'[s].at = "admit"
    BY <1>0, <1>2, ToEffect DEF Places, Busy, Generating
  <2>2. LineIsCurrent(s)'
    BY <1>0, <1>2, <2>1 DEF LineIsCurrent, Generating
  <2> QED BY <1>0, <1>2, <2>2, LineGoes DEF Generating, BatchesTypeOK, batchCount
<1> QED BY <1>1, <1>2 DEF QueueWait

LEMMA RegisterKeeps ==
  ASSUME BatchesIInv, NEW s \in BatchServers, Register(s)
  PROVE  BatchesIInv'
<1>0. /\ BatchesTypeOK /\ LineIsCurrent(s) /\ worker[s].at = "register"
      /\ worker[s].at \in Generating /\ control[s] \in ControlRow
  BY DEF BatchesIInv, BatchesTypeOK, Register, BatchAt, Generating
<1> DEFINE c == [control[s] EXCEPT !.handle = TRUE]
<1>1. /\ c \in ControlRow /\ c.current = control[s].current /\ c.handle
      /\ c.closing = control[s].closing /\ c.cancelled = control[s].cancelled
      /\ c.interrupted = control[s].interrupted
  BY <1>0 DEF ControlRow
<1>2. control' = [control EXCEPT ![s] = c]
  BY DEF Register
<1> HIDE DEF c
<1>3. worker'[s].at = "recheck" /\ control'[s] = c
  BY <1>0, <1>2, ToEffect DEF Register, Places, Busy, Generating, BatchesTypeOK
<1>4. LineIsCurrent(s)'
  BY <1>0, <1>1, <1>3 DEF LineIsCurrent, Generating
<1>5. /\ "recheck" \in Generating /\ To(s, "recheck") /\ full' = full /\ native' = native
      /\ UNCHANGED <<batchStore, handler, batchFaults, batchStops, abandoned>>
  BY DEF Register, Generating, batchCount
<1>6. /\ full' \in Nat /\ native' \in [BatchServers -> {"none", "running", "cancelled"}]
      /\ control' \in [BatchServers -> ControlRow]
      /\ \A t \in BatchServers : t # s => control'[t] = control[t] /\ native'[t] = native[t]
  BY <1>0, <1>1, <1>2, <1>5 DEF BatchesTypeOK
<1> QED BY <1>0, <1>4, <1>5, <1>6, LineGoes

LEMMA RecheckKeeps ==
  ASSUME BatchesIInv, NEW s \in BatchServers, Recheck(s)
  PROVE  BatchesIInv'
<1>0. /\ BatchesTypeOK /\ LineIsCurrent(s) /\ worker[s].at = "recheck"
      /\ worker[s].at \in Generating
  BY DEF BatchesIInv, Recheck, BatchAt, Generating
<1>1. worker'[s].at = "generate"
  BY <1>0, ToEffect DEF Recheck, Places, Busy, Generating, BatchesTypeOK
<1>2. /\ native' \in [BatchServers -> {"none", "running", "cancelled"}]
      /\ native'[s] = IF control[s].interrupted THEN "cancelled" ELSE native[s]
      /\ \A t \in BatchServers : t # s => native'[t] = native[t]
  BY <1>0 DEF Recheck, BatchesTypeOK
<1>3. LineIsCurrent(s)'
  BY <1>0, <1>1, <1>2 DEF Recheck, LineIsCurrent, Generating
<1> QED BY <1>0, <1>2, <1>3, LineGoes DEF Recheck, Generating, BatchesTypeOK, batchCount

LEMMA GenerationEndsKeeps ==
  ASSUME BatchesIInv, NEW s \in BatchServers, GenerationEnds(s)
  PROVE  BatchesIInv'
BY EndLineKeeps DEF GenerationEnds, BatchAt, Generating

LEMMA ExitKeeps ==
  ASSUME BatchesIInv, NEW s \in BatchServers, Exit(s)
  PROVE  BatchesIInv'
<1>0. BatchesTypeOK
  BY DEF BatchesIInv
<1> DEFINE w == [Fresh EXCEPT !.at = "down"]
<1>1. w \in WorkerRow /\ w.at = "down"
  BY FreshType DEF Places
<1>2. worker' = [worker EXCEPT ![s] = w]
  BY DEF Exit, Stop
<1> HIDE DEF w
<1>3. Quiet \in ControlRow /\ Quiet.current = 0
  BY Bounds DEF Quiet, ControlRow
<1>4. BatchesTypeOK' /\ worker'[s].at = "down" /\ control'[s].current = 0 /\ OnlyServer(s)
  BY <1>0, <1>1, <1>2, <1>3
     DEF Exit, Stop, BatchesTypeOK, batchStore, batchCount, OnlyServer
<1>5. WorkerInv(s)'
  BY <1>4, IdleGoes DEF WorkerInv, LineIsCurrent, Busy, Generating, Finishing
<1> QED BY <1>4, <1>5, StoreAlone DEF Exit

LEMMA StartKeeps ==
  ASSUME BatchesIInv, NEW s \in BatchServers, Start(s)
  PROVE  BatchesIInv'
<1>0. BatchesTypeOK /\ LineIsCurrent(s)
  BY DEF BatchesIInv
<1>1. /\ worker' \in [BatchServers -> WorkerRow] /\ worker'[s].at = "wait"
      /\ \A t \in BatchServers : t # s => worker'[t] = worker[t]
  BY <1>0, ToEffect DEF Start, Places
<1>2. BatchesTypeOK'
  BY <1>0, <1>1 DEF Start, BatchesTypeOK, batchStore, batchCount
<1>3. LineIsCurrent(s)'
  BY <1>0, <1>1 DEF Start, BatchAt, LineIsCurrent, Generating
<1>4. WorkerInv(s)'
  BY <1>1, <1>3, IdleGoes DEF WorkerInv, Busy, Generating, Finishing
<1> QED BY <1>1, <1>2, <1>4, StoreAlone DEF Start, OnlyServer

(***************************************************************************)
(* Steps of a worker that runs a batch: it has the lease, so that no other *)
(* worker runs the same batch.                                             *)
(***************************************************************************)
LEMMA RunsMine ==
  ASSUME BatchesIInv, NEW s \in BatchServers, worker[s].at \in Busy
  PROVE  /\ BatchesTypeOK /\ Mine(s) \in BatchIds /\ worker[s].todo # {}
         /\ batchLease[Mine(s)] = {s} /\ Exists(Mine(s)) /\ RowInv(Mine(s))
         /\ batch[Mine(s)] \in BatchRow /\ worker[s] \in WorkerRow
         /\ OwnsBatch(s) /\ FinishesBatch(s) /\ LineIsCurrent(s)
<1>1. BatchesTypeOK /\ OwnsBatch(s) /\ FinishesBatch(s) /\ LineIsCurrent(s)
  BY DEF BatchesIInv
<1>2. worker[s].todo # {} /\ batchLease[Mine(s)] = {s} /\ Exists(Mine(s))
  BY <1>1 DEF OwnsBatch
<1>3. Mine(s) \in BatchIds
  BY <1>1, <1>2, MineType
<1> QED BY <1>1, <1>2, <1>3 DEF BatchesIInv, BatchesTypeOK

LEMMA EndRunKeeps ==
  ASSUME BatchesIInv, NEW s \in BatchServers, worker[s].at \in Busy \ Generating,
         EndRun(s), NEW b \in BatchIds, b = Mine(s),
         UNCHANGED <<late, result, native, handler, batchStops, full, abandoned>>,
         batchFaults' \in Nat, batch' \in [BatchIds -> BatchRow],
         \A c \in BatchIds : c # b => batch'[c] = batch[c], RowInv(b)'
  PROVE  BatchesIInv'
<1>0. BatchesTypeOK /\ LineIsCurrent(s) /\ worker[s].at \in Busy
      /\ worker[s] \in WorkerRow /\ control[s] \in ControlRow
  BY DEF BatchesIInv, BatchesTypeOK
<1> DEFINE T == worker[s].todo \ {Mine(s)}
           w == [Fresh EXCEPT !.at = "each", !.todo = T]
           c == [control[s] EXCEPT !.cancelled = @ \ {Mine(s)}]
<1>1. w \in WorkerRow /\ w.at = "each"
  <2>1. T \in SUBSET BatchIds
    BY <1>0 DEF WorkerRow
  <2> HIDE DEF T
  <2> QED BY <2>1, FreshType DEF Places
<1>2. c \in ControlRow /\ c.current = control[s].current
  BY <1>0 DEF ControlRow
<1>3. worker' = [worker EXCEPT ![s] = w] /\ control' = [control EXCEPT ![s] = c]
  BY DEF EndRun
<1>4. batchLease' = [batchLease EXCEPT ![b] = {}]
  BY DEF EndRun
<1> HIDE DEF w, c
<1>5. BatchesTypeOK' /\ worker'[s] = w /\ control'[s] = c /\ OnlyServer(s)
  BY <1>0, <1>1, <1>2, <1>3, <1>4 DEF BatchesTypeOK, OnlyServer
<1>6. LineIsCurrent(s)'
  BY <1>0, <1>1, <1>2, <1>5 DEF LineIsCurrent, Busy, Finishing, Generating
<1>7. WorkerInv(s)'
  BY <1>1, <1>5, <1>6, IdleGoes DEF WorkerInv, Busy, Generating, Finishing
<1> QED BY <1>0, <1>4, <1>5, <1>7, HolderMoves DEF BatchesTypeOK

LEMMA RunFailsKeeps ==
  ASSUME BatchesIInv, NEW s \in BatchServers, RunFails(s)
  PROVE  BatchesIInv'
<1>1. worker[s].at \in Busy /\ worker[s].at \in Busy \ Generating
  BY DEF RunFails, Busy, Generating, Finishing
<1>2. Mine(s) \in BatchIds /\ RowInv(Mine(s)) /\ BatchesTypeOK
  BY <1>1, RunsMine
<1>3. PICK b \in BatchIds : b = Mine(s)
  BY <1>2
<1>4. RowInv(b)'
  BY <1>2, <1>3, RowLasts DEF RunFails
<1> QED BY <1>1, <1>2, <1>3, <1>4, EndRunKeeps DEF RunFails, BatchFault, BatchesTypeOK

(* A worker that goes on with its batch, whose lease and Control stay. *)
LEMMA HolderGoes ==
  ASSUME BatchesIInv, NEW s \in BatchServers, worker[s].at \in Busy \ Generating,
         NEW w \in WorkerRow, worker' = [worker EXCEPT ![s] = w],
         w.todo = worker[s].todo, w.at \in Busy \ Generating,
         NEW b \in BatchIds, b = Mine(s),
         UNCHANGED <<late, batchLease, control, native, handler>>,
         batch' \in [BatchIds -> BatchRow], result' \in [BatchIds -> [Kinds -> ResultRow]],
         batchFaults' \in Nat, UNCHANGED <<batchStops, full, abandoned>>,
         \A c \in BatchIds : c # b => batch'[c] = batch[c] /\ result'[c] = result[c],
         batch'[b].status # "none",
         w.at \in {"execute", "settle"} => w.line \in LineIds,
         w.at = "settle" => w.outcome \in {"succeeded", "failed"},
         RowInv(b)', FinishesBatch(s)'
  PROVE  BatchesIInv' /\ Mine(s)' = b
<1>0. BatchesTypeOK /\ worker[s].at \in Busy /\ LineIsCurrent(s) /\ batchLease[b] = {s}
      /\ worker[s].todo # {}
  BY RunsMine
<1>1. BatchesTypeOK' /\ worker'[s] = w /\ OnlyServer(s)
  BY <1>0 DEF BatchesTypeOK, OnlyServer
<1>2. Mine(s)' = b
  BY <1>1, MineSame
<1>3. OwnsBatch(s)'
  BY <1>0, <1>1, <1>2 DEF OwnsBatch, Exists, Generating, Busy, Finishing, LineIds
<1>4. LineIsCurrent(s)'
  BY <1>0, <1>1 DEF LineIsCurrent, Generating, Busy, Finishing
<1>5. WorkerInv(s)'
  BY <1>3, <1>4 DEF WorkerInv
<1> QED BY <1>0, <1>1, <1>2, <1>5, HolderMoves

LEMMA LeaseBatchKeeps ==
  ASSUME BatchesIInv, ScannedExist, NEW s \in BatchServers, LeaseBatch(s)
  PROVE  BatchesIInv'
<1>0. /\ BatchesTypeOK /\ LineIsCurrent(s) /\ worker[s].at = "each" /\ worker[s] \in WorkerRow
      /\ UNCHANGED <<batch, late, result, control, native, handler>>
  BY DEF BatchesIInv, BatchesTypeOK, LeaseBatch, BatchAt
<1>1. ASSUME NEW w \in WorkerRow, worker' = [worker EXCEPT ![s] = w], w.at \notin Busy,
             UNCHANGED <<batchLease, batchStops, full, abandoned>>, batchFaults' \in Nat
      PROVE  BatchesIInv'
  <2>1. BatchesTypeOK' /\ worker'[s].at = w.at /\ OnlyServer(s)
    BY <1>0, <1>1 DEF BatchesTypeOK, OnlyServer
  <2>2. LineIsCurrent(s)'
    BY <1>0, <1>1, <2>1 DEF LineIsCurrent, Busy, Generating
  <2>3. WorkerInv(s)'
    BY <1>1, <2>1, <2>2, IdleGoes DEF WorkerInv
  <2> QED BY <1>0, <1>1, <2>1, <2>3, StoreAlone DEF batchStore
<1>2. ASSUME NEW at \in {"stopped", "wait"}, To(s, at), UNCHANGED <<batchLease, batchCount>>
      PROVE  BatchesIInv'
  <2> DEFINE w == [worker[s] EXCEPT !.at = at]
  <2>1. w \in WorkerRow /\ w.at = at
    BY <1>0 DEF WorkerRow
  <2>2. worker' = [worker EXCEPT ![s] = w]
    BY <1>2 DEF To
  <2> HIDE DEF w
  <2> QED BY <1>0, <1>1, <1>2, <2>1, <2>2
             DEF BatchesTypeOK, batchCount, Busy, Generating, Finishing
<1>3. ASSUME worker[s].todo # {}, worker' = [worker EXCEPT ![s].todo = @ \ {Mine(s)}],
             UNCHANGED <<batchLease, batchStops, full, abandoned>>, batchFaults' \in Nat
      PROVE  BatchesIInv'
  <2> DEFINE T == worker[s].todo \ {Mine(s)}
             w == [worker[s] EXCEPT !.todo = T]
  <2>1. T \in SUBSET BatchIds
    BY <1>0 DEF WorkerRow
  <2>2. worker' = [worker EXCEPT ![s] = w]
    BY <1>3
  <2> HIDE DEF T
  <2>3. w \in WorkerRow /\ w.at = "each"
    BY <1>0, <2>1 DEF WorkerRow
  <2> HIDE DEF w
  <2> QED BY <1>1, <1>3, <2>2, <2>3 DEF Busy, Generating, Finishing
<1>4. ASSUME worker[s].todo # {}, batchLease[Mine(s)] = {}, To(s, "next"),
             batchLease' = [batchLease EXCEPT ![Mine(s)] = {s}], UNCHANGED batchCount
      PROVE  BatchesIInv'
  <2>1. Mine(s) \in BatchIds /\ Mine(s) \in worker[s].todo
    BY <1>0, <1>4, MineType
  <2>2. /\ worker' \in [BatchServers -> WorkerRow] /\ worker'[s].at = "next"
        /\ worker'[s].todo = worker[s].todo
        /\ \A t \in BatchServers : t # s => worker'[t] = worker[t]
    BY <1>0, <1>4, ToEffect DEF Places, Busy
  <2>3. BatchesTypeOK' /\ OnlyServer(s)
    BY <1>0, <1>4, <2>1, <2>2 DEF BatchesTypeOK, batchCount, OnlyServer
  <2>4. Mine(s)' = Mine(s)
    BY <2>2, MineSame
  <2>5. Exists(Mine(s))
    BY <2>1 DEF ScannedExist
  <2>6. OwnsBatch(s)'
    BY <1>0, <1>4, <2>1, <2>2, <2>4, <2>5
       DEF OwnsBatch, Exists, BatchesTypeOK, Generating
  <2>7. FinishesBatch(s)' /\ LineIsCurrent(s)'
    BY <1>0, <2>2 DEF FinishesBatch, LineIsCurrent, Finishing, Generating
  <2>8. ASSUME NEW t \in BatchServers, t # s, worker[t].at \in Busy
        PROVE  Steady(Mine(t))
    <3>1. batchLease[Mine(t)] = {t} /\ Mine(t) \in BatchIds
      BY <2>8, RunsMine
    <3> QED BY <1>0, <1>4, <2>1, <3>1 DEF Steady, BatchesTypeOK
  <2>9. \A b \in BatchIds : RowInv(b)'
    BY <1>0, RowLasts DEF BatchesIInv
  <2> QED BY <2>3, <2>6, <2>7, <2>8, <2>9, ServerMoves DEF WorkerInv
<1> QED BY <1>0, <1>2, <1>3, <1>4 DEF LeaseBatch, BatchFault, batchCount, BatchesTypeOK

LEMMA TodoShrinks ==
  ASSUME BatchesTypeOK, NEW s \in BatchServers,
         (CreateBatch(s) \/ Notify(s) \/ Disconnect(s) \/ CancelBatch(s) \/ Cancelled(s)
          \/ BatchStep(s) \/ RunFails(s) \/ CloseBatches(s) \/ BatchCrash(s) \/ Start(s)),
         ~Scan(s)
  PROVE  \A t \in BatchServers : worker'[t].todo \subseteq worker[t].todo
<1> DEFINE Shrinks == \A t \in BatchServers : worker'[t].todo \subseteq worker[t].todo
<1>0. worker \in [BatchServers -> WorkerRow]
  BY DEF BatchesTypeOK
<1>1. ASSUME NEW at, To(s, at) PROVE Shrinks
  BY <1>0, <1>1 DEF To, WorkerRow
<1>2. ASSUME NEW o, EndLine(s, o) PROVE Shrinks
  BY <1>0, <1>2 DEF EndLine, WorkerRow
<1>3. ASSUME EndRun(s) PROVE Shrinks
  <2> DEFINE T == worker[s].todo \ {Mine(s)}
             w == [Fresh EXCEPT !.at = "each", !.todo = T]
  <2>1. w.todo = T
    <3>1. T \in SUBSET BatchIds
      BY <1>0 DEF WorkerRow
    <3> HIDE DEF T
    <3> QED BY <3>1, FreshType DEF Places
  <2>2. worker' = [worker EXCEPT ![s] = w]
    BY <1>3 DEF EndRun
  <2> HIDE DEF w
  <2> QED BY <1>0, <2>1, <2>2
<1>4. ASSUME Stop(s) PROVE Shrinks
  <2> DEFINE w == [Fresh EXCEPT !.at = "down"]
  <2>1. w.todo = {}
    BY DEF Fresh
  <2>2. worker' = [worker EXCEPT ![s] = w]
    BY <1>4 DEF Stop
  <2> HIDE DEF w
  <2> QED BY <1>0, <2>1, <2>2
<1>5. ASSUME UNCHANGED worker PROVE Shrinks
  BY <1>5
<1>6. ASSUME NEW at, NEW x,
             \/ worker' = [worker EXCEPT ![s].at = at, ![s].line = x]
             \/ worker' = [worker EXCEPT ![s].at = at, ![s].outcome = x]
             \/ worker' = [worker EXCEPT ![s].at = at, ![s].ending = x]
             \/ worker' = [worker EXCEPT ![s].at = at]
             \/ worker' = [worker EXCEPT ![s].todo = @ \ {x}]
      PROVE  Shrinks
  <2>1. CASE worker' = [worker EXCEPT ![s].at = at, ![s].line = x]
    BY <1>0, <2>1 DEF WorkerRow
  <2>2. CASE worker' = [worker EXCEPT ![s].at = at, ![s].outcome = x]
    BY <1>0, <2>2 DEF WorkerRow
  <2>3. CASE worker' = [worker EXCEPT ![s].at = at, ![s].ending = x]
    BY <1>0, <2>3 DEF WorkerRow
  <2>4. CASE worker' = [worker EXCEPT ![s].at = at]
    BY <1>0, <2>4 DEF WorkerRow
  <2>5. CASE worker' = [worker EXCEPT ![s].todo = @ \ {x}]
    BY <1>0, <2>5 DEF WorkerRow
  <2> QED BY <1>6, <2>1, <2>2, <2>3, <2>4, <2>5
<1> SUFFICES Shrinks
  OBVIOUS
<1> HIDE DEF Shrinks
<1>a. CASE CreateBatch(s) \/ Notify(s) \/ Disconnect(s) \/ CancelBatch(s) \/ Cancelled(s)
           \/ CloseBatches(s)
  BY <1>a, <1>5 DEF CreateBatch, Notify, Disconnect, CancelBatch, Cancelled,
     CloseBatches
<1>b. CASE RunFails(s) \/ BatchCrash(s) \/ Start(s) \/ Wake(s) \/ Exit(s) \/ Admit(s)
           \/ QueueWait(s) \/ Register(s) \/ Recheck(s) \/ GenerationEnds(s)
  BY <1>b, <1>1, <1>2, <1>3, <1>4
     DEF RunFails, BatchCrash, Start, Wake, Exit, Admit, QueueWait, Register, Recheck,
         GenerationEnds
<1>c. CASE LeaseBatch(s)
  BY <1>c, <1>1, <1>6 DEF LeaseBatch
<1>d. CASE NextBatchLine(s)
  BY <1>d, <1>3, <1>6 DEF NextBatchLine
<1>e. CASE Execute(s)
  BY <1>e, <1>1, <1>6 DEF Execute
<1>f. CASE SettleBatchLine(s)
  BY <1>f, <1>1, <1>3 DEF SettleBatchLine
<1>g. CASE BeginFinish(s)
  BY <1>g, <1>3, <1>6 DEF BeginFinish
<1>h. CASE WriteOutput(s) \/ WriteError(s)
  BY <1>h, <1>1, <1>6 DEF WriteOutput, WriteError, WriteRecords
<1>i. CASE DropOutput(s)
  BY <1>i, <1>1 DEF DropOutput
<1>j. CASE RecordEnd(s)
  BY <1>j, <1>3 DEF RecordEnd
<1> QED BY <1>a, <1>b, <1>c, <1>d, <1>e, <1>f, <1>g, <1>h, <1>i, <1>j
           DEF BatchStep

LEMMA NextBatchLineKeeps ==
  ASSUME BatchesIInv, NEW s \in BatchServers, NextBatchLine(s)
  PROVE  BatchesIInv'
<1>1. /\ worker[s].at = "next" /\ worker[s].at \in Busy
      /\ worker[s].at \in Busy \ Generating
      /\ UNCHANGED <<batch, late, result, native, handler, batchCount>>
  BY DEF NextBatchLine, BatchAt, Busy, Generating
<1>2. /\ BatchesTypeOK /\ Mine(s) \in BatchIds /\ RowInv(Mine(s)) /\ Exists(Mine(s))
      /\ worker[s] \in WorkerRow
  BY <1>1, RunsMine
<1>3. PICK b \in BatchIds : b = Mine(s)
  BY <1>2
<1>4. RowInv(b)' /\ batch' \in [BatchIds -> BatchRow] /\ batch'[b].status # "none"
  BY <1>1, <1>2, <1>3, RowLasts DEF BatchesTypeOK, Exists
<1> DEFINE pending == InState(b, "pending")
           lowest  == CHOOSE l \in pending : \A m \in pending : l <= m
           runs    == batch[b].status = "in_progress" /\ b \notin late
<1>5. CASE control[s].closing \/ batch[b].status \in BatchTerminal
  <2>1. EndRun(s)
    BY <1>3, <1>5 DEF NextBatchLine
  <2> QED BY <1>1, <1>2, <1>3, <1>4, <2>1, EndRunKeeps DEF BatchesTypeOK, batchCount
<1>6. CASE ~(control[s].closing \/ batch[b].status \in BatchTerminal)
  <2>0. /\ worker' = IF runs /\ pending # {}
                     THEN [worker EXCEPT ![s].at = "execute", ![s].line = lowest]
                     ELSE [worker EXCEPT ![s].at = "begin"]
        /\ UNCHANGED <<batchLease, control>>
    BY <1>3, <1>6 DEF NextBatchLine
  <2>1. CASE runs /\ pending # {}
    <3>1. lowest \in LineIds
      <4>1. pending \subseteq LineIds /\ pending \in SUBSET Nat
        BY Bounds DEF InState
      <4>2. \E l \in pending : \A m \in pending : l <= m
        BY <2>1, <4>1, LeastMember
      <4> QED BY <4>1, <4>2
    <3> HIDE DEF lowest, pending
    <3> DEFINE w == [worker[s] EXCEPT !.at = "execute", !.line = lowest]
    <3>2. /\ w \in WorkerRow /\ w.at = "execute" /\ w.line = lowest
          /\ w.todo = worker[s].todo
      BY <1>2, <3>1, Bounds DEF WorkerRow, Busy
    <3>3. worker' = [worker EXCEPT ![s] = w]
      BY <1>2, <2>0, <2>1 DEF BatchesTypeOK
    <3> HIDE DEF w
    <3>4. worker'[s] = w
      BY <1>2, <3>3 DEF BatchesTypeOK
    <3>5. FinishesBatch(s)'
      BY <3>2, <3>4 DEF FinishesBatch, Finishing
    <3> QED BY <1>1, <1>2, <1>3, <1>4, <2>0, <3>1, <3>2, <3>3, <3>5, HolderGoes
               DEF BatchesTypeOK, batchCount, Busy, Generating
  <2>2. CASE ~(runs /\ pending # {})
    <3> DEFINE w == [worker[s] EXCEPT !.at = "begin"]
    <3>2. w \in WorkerRow /\ w.at = "begin" /\ w.todo = worker[s].todo
      BY <1>2 DEF WorkerRow, Busy
    <3>3. worker' = [worker EXCEPT ![s] = w]
      BY <1>2, <2>0, <2>2 DEF BatchesTypeOK
    <3> HIDE DEF w
    <3>4. worker'[s] = w /\ Mine(s)' = b
      BY <1>2, <1>3, <3>2, <3>3, MineSame DEF BatchesTypeOK
    <3>5. FinishesBatch(s)'
      BY <1>1, <2>2, <3>2, <3>4 DEF FinishesBatch, Finishing, InState
    <3> QED BY <1>1, <1>2, <1>3, <1>4, <2>0, <3>2, <3>3, <3>5, HolderGoes
               DEF BatchesTypeOK, batchCount, Busy, Generating
  <2> QED BY <2>1, <2>2
<1> QED BY <1>5, <1>6

LEMMA SettleBatchLineKeeps ==
  ASSUME BatchesIInv, NEW s \in BatchServers, SettleBatchLine(s)
  PROVE  BatchesIInv' /\ \A c \in BatchIds : Exists(c) => Exists(c)'
<1>1. /\ worker[s].at = "settle" /\ worker[s].at \in Busy
      /\ worker[s].at \in Busy \ Generating
      /\ UNCHANGED <<late, result, native, handler, batchCount>>
  BY DEF SettleBatchLine, BatchAt, Busy, Generating
<1>2. /\ BatchesTypeOK /\ Mine(s) \in BatchIds /\ RowInv(Mine(s)) /\ Exists(Mine(s))
      /\ worker[s] \in WorkerRow /\ batch[Mine(s)] \in BatchRow
      /\ worker[s].line \in LineIds /\ worker[s].outcome \in {"succeeded", "failed"}
  BY <1>1, RunsMine DEF OwnsBatch
<1>3. PICK b \in BatchIds : b = Mine(s)
  BY <1>2
<1> DEFINE l == worker[s].line
           x == worker[s].outcome
           row == batch[b]
<1>4. CASE row.ending # "none" \/ row.status \notin {"in_progress", "cancelling"}
  <2>1. EndRun(s) /\ UNCHANGED batch
    BY <1>3, <1>4 DEF SettleBatchLine
  <2>2. RowInv(b)'
    BY <1>1, <1>2, <1>3, <2>1, RowLasts
  <2> QED BY <1>1, <1>2, <1>3, <2>1, <2>2, EndRunKeeps DEF BatchesTypeOK, batchCount,
     Exists
<1>5. CASE row.ending = "none" /\ row.status \in {"in_progress", "cancelling"}
  <2> DEFINE w == [worker[s] EXCEPT !.at = "next"]
  <2>1. w \in WorkerRow /\ w.at = "next" /\ w.todo = worker[s].todo
    BY <1>2 DEF WorkerRow, Busy
  <2>2. worker' = [worker EXCEPT ![s] = w] /\ UNCHANGED <<batchLease, control>>
    BY <1>3, <1>5 DEF SettleBatchLine, To
  <2> HIDE DEF w
  <2>3. FinishesBatch(s)'
    BY <1>2, <2>1, <2>2 DEF FinishesBatch, Finishing, BatchesTypeOK
  <2>4. /\ batch' \in [BatchIds -> BatchRow]
        /\ \A c \in BatchIds : c # b => batch'[c] = batch[c]
        /\ RowInv(b)' /\ batch'[b].status # "none"
    <3>1. CASE row.line[l] # "pending"
      <4>1. UNCHANGED batch
        BY <1>3, <1>5, <3>1 DEF SettleBatchLine
      <4> QED BY <1>1, <1>2, <1>3, <4>1, RowLasts DEF BatchesTypeOK, Exists
    <3>2. CASE row.line[l] = "pending"
      <4> DEFINE up == IF x = "succeeded" THEN 1 ELSE 0
                 down == IF x = "failed" THEN 1 ELSE 0
                 lines == [row.line EXCEPT ![l] = x]
                 done == row.completed + up
                 lost == row.failed + down
                 r == [row EXCEPT !.line = lines, !.completed = done, !.failed = lost]
      <4>1. batch' = [batch EXCEPT ![b] = r]
        BY <1>2, <1>3, <1>5, <3>2 DEF SettleBatchLine, BatchesTypeOK
      <4>0. lines \in [LineIds -> LineStates] /\ lines[l] = x
            /\ \A m \in LineIds : m # l => lines[m] = row.line[m]
        BY <1>2, <1>3 DEF BatchRow, LineStates
      <4>u. done \in Nat /\ lost \in Nat
        BY <1>2, <1>3 DEF BatchRow
      <4> HIDE DEF lines, done, lost
      <4>2. /\ r \in BatchRow /\ r.line = lines /\ r.completed = done
            /\ r.failed = lost /\ r.status = row.status
            /\ r.ending = row.ending /\ r.named = row.named
        BY <1>2, <1>3, <4>0, <4>u DEF BatchRow
      <4> HIDE DEF r
      <4>3. batch'[b] = r
        BY <1>2, <4>1 DEF BatchesTypeOK
      <4> DEFINE S == InState(b, "succeeded")
                 F == InState(b, "failed")
      <4>4. /\ InState(b, "succeeded")' = IF x = "succeeded" THEN S \cup {l} ELSE S
            /\ InState(b, "failed")' = IF x = "failed" THEN F \cup {l} ELSE F
            /\ l \notin S /\ l \notin F
        BY <1>2, <3>2, <4>0, <4>2, <4>3 DEF InState, LineIds
      <4>5. IsFiniteSet(S) /\ IsFiniteSet(F) /\ Cardinality(S) \in Nat /\ Cardinality(F) \in Nat
        BY LinesFinite DEF InState
      <4>6. row.completed = Cardinality(S) /\ row.failed = Cardinality(F)
        BY <1>2, <1>3 DEF RowInv
      <4> HIDE DEF S, F
      <4>7. /\ Cardinality(S \cup {l}) = Cardinality(S) + 1
            /\ Cardinality(F \cup {l}) = Cardinality(F) + 1
        BY <4>4, <4>5, FS_AddElement
      <4>8. /\ r.completed = Cardinality(InState(b, "succeeded"))'
            /\ r.failed = Cardinality(InState(b, "failed"))'
        <5>1. CASE x = "succeeded"
          <6>1. /\ InState(b, "succeeded")' = S \cup {l} /\ InState(b, "failed")' = F
                /\ done = Cardinality(S) + 1 /\ lost = Cardinality(F)
            BY <5>1, <4>4, <4>5, <4>6 DEF done, lost
          <6> QED BY <4>2, <4>7, <6>1
        <5>2. CASE x = "failed"
          <6>1. /\ InState(b, "failed")' = F \cup {l} /\ InState(b, "succeeded")' = S
                /\ lost = Cardinality(F) + 1 /\ done = Cardinality(S)
            BY <5>2, <4>4, <4>5, <4>6 DEF done, lost
          <6> QED BY <4>2, <4>7, <6>1
        <5> QED BY <1>2, <5>1, <5>2
      <4>9. \A k \in Kinds : result[b][k].state = "none"
        BY <1>2, <1>3, <1>5 DEF RowInv
      <4>10. RowInv(b)'
        BY <1>1, <1>2, <1>3, <1>5, <4>2, <4>3, <4>8, <4>9 DEF RowInv, BatchTerminal
      <4> QED BY <1>2, <1>5, <4>1, <4>2, <4>3, <4>10 DEF BatchesTypeOK
    <3> QED BY <3>1, <3>2
  <2> QED BY <1>1, <1>2, <1>3, <2>1, <2>2, <2>3, <2>4, HolderGoes
             DEF BatchesTypeOK, batchCount, Busy, Generating, Exists
<1> QED BY <1>4, <1>5

(* The lines of an expired batch that were pending have failed. *)
LEMMA ExpiredRowEffect ==
  ASSUME NEW row \in BatchRow,
         row.failed = Cardinality({l \in LineIds : row.line[l] = "failed"})
  PROVE  LET r == ExpiredRow(row)
         IN /\ r \in BatchRow /\ r.status = row.status /\ r.ending = row.ending
            /\ r.completed = row.completed /\ r.named = row.named
            /\ {l \in LineIds : r.line[l] = "pending"} = {}
            /\ {l \in LineIds : r.line[l] = "succeeded"}
                 = {l \in LineIds : row.line[l] = "succeeded"}
            /\ r.failed = Cardinality({l \in LineIds : r.line[l] = "failed"})
<1> DEFINE open == {l \in LineIds : row.line[l] = "pending"}
           F == {l \in LineIds : row.line[l] = "failed"}
           lines == [l \in LineIds |-> IF l \in open THEN "failed" ELSE row.line[l]]
           lost == row.failed + Cardinality(open)
           r == [row EXCEPT !.line = lines, !.failed = lost]
<1>1. ExpiredRow(row) = r
  BY DEF ExpiredRow
<1>2. /\ IsFiniteSet(open) /\ IsFiniteSet(F) /\ Cardinality(open) \in Nat
      /\ Cardinality(F) \in Nat
  BY LinesFinite
<1>3. lost \in Nat
  BY <1>2 DEF BatchRow
<1>4. lines \in [LineIds -> LineStates]
  BY DEF BatchRow, LineStates
<1>5. /\ {l \in LineIds : lines[l] = "pending"} = {}
      /\ {l \in LineIds : lines[l] = "succeeded"} = {l \in LineIds : row.line[l] = "succeeded"}
      /\ {l \in LineIds : lines[l] = "failed"} = F \cup open
  OBVIOUS
<1>6. F \cap open = {}
  OBVIOUS
<1> HIDE DEF open, F, lines
<1>7. Cardinality(F \cup open) = Cardinality(F) + Cardinality(open)
  <2>1. Cardinality(F \cap open) = 0
    <3>1. Cardinality({}) = 0
      BY FS_EmptySet
    <3> QED BY <1>6, <3>1
  <2>2. Cardinality(F \cup open)
          = Cardinality(F) + Cardinality(open) - Cardinality(F \cap open)
    BY <1>2, FS_Union
  <2> QED BY <1>2, <2>1, <2>2
<1>8. row.failed = Cardinality(F)
  BY DEF F
<1>9. lost = Cardinality(F \cup open)
  BY <1>7, <1>8
<1> HIDE DEF lost
<1>10. /\ r \in BatchRow /\ r.status = row.status /\ r.ending = row.ending
       /\ r.completed = row.completed /\ r.named = row.named
       /\ r.line = lines /\ r.failed = lost
  BY <1>3, <1>4 DEF BatchRow
<1> HIDE DEF r
<1> QED BY <1>1, <1>5, <1>9, <1>10

LEMMA BeginFinishKeeps ==
  ASSUME BatchesIInv, NEW s \in BatchServers, BeginFinish(s)
  PROVE  BatchesIInv' /\ \A c \in BatchIds : Exists(c) => Exists(c)'
<1>1. /\ worker[s].at = "begin" /\ worker[s].at \in Busy
      /\ worker[s].at \in Busy \ Generating
      /\ UNCHANGED <<late, result, native, handler, batchCount>>
  BY DEF BeginFinish, BatchAt, Busy, Generating
<1>2. /\ BatchesTypeOK /\ Mine(s) \in BatchIds /\ RowInv(Mine(s)) /\ Exists(Mine(s))
      /\ worker[s] \in WorkerRow /\ batch[Mine(s)] \in BatchRow /\ FinishesBatch(s)
  BY <1>1, RunsMine
<1>3. PICK b \in BatchIds : b = Mine(s)
  BY <1>2
<1>4. RowInv(b) /\ batch[b] \in BatchRow /\ batch[b].status # "none"
  BY <1>2, <1>3 DEF Exists
<1> DEFINE row == batch[b]
           ending == Ending(b)
<1>5. CASE row.status \in BatchTerminal
  <2>1. EndRun(s) /\ UNCHANGED batch
    BY <1>3, <1>5 DEF BeginFinish
  <2>2. RowInv(b)'
    BY <1>1, <1>2, <1>3, <2>1, RowLasts
  <2> QED BY <1>1, <1>2, <1>3, <2>1, <2>2, EndRunKeeps DEF BatchesTypeOK, batchCount,
     Exists
<1>6. CASE row.status \notin BatchTerminal
  <2>1. /\ batch' = [batch EXCEPT ![b] =
              CASE row.status = "cancelling" -> [row EXCEPT !.ending = ending]
                [] row.status = "finalizing" -> row
                [] OTHER -> [IF ending = "expired" THEN ExpiredRow(row) ELSE row
                               EXCEPT !.status = "finalizing", !.ending = ending]]
        /\ worker' = [worker EXCEPT ![s].at = "output", ![s].ending = ending]
        /\ UNCHANGED <<batchLease, control>>
    BY <1>3, <1>6 DEF BeginFinish
  <2>2. ASSUME NEW r \in BatchRow, batch' = [batch EXCEPT ![b] = r],
               r.status \in {"finalizing", "cancelling"}, r.ending = ending,
               ending \in BatchTerminal, RowInv(b)'
        PROVE  BatchesIInv' /\ \A c \in BatchIds : Exists(c) => Exists(c)'
    <3> DEFINE w == [worker[s] EXCEPT !.at = "output", !.ending = ending]
    <3> HIDE DEF ending
    <3>1. w \in WorkerRow /\ w.at = "output" /\ w.todo = worker[s].todo /\ w.ending = ending
      BY <1>2, <2>2 DEF WorkerRow, Busy, Finishing
    <3>2. worker' = [worker EXCEPT ![s] = w]
      BY <1>2, <2>1 DEF BatchesTypeOK
    <3> HIDE DEF w
    <3>3. worker'[s] = w /\ Mine(s)' = b /\ batch'[b] = r
      BY <1>2, <1>3, <2>2, <3>1, <3>2, MineSame DEF BatchesTypeOK
    <3>4. FinishesBatch(s)'
      BY <2>2, <3>1, <3>3 DEF FinishesBatch, Finishing, BatchTerminal
    <3>5. /\ batch' \in [BatchIds -> BatchRow]
          /\ \A c \in BatchIds : c # b => batch'[c] = batch[c]
      BY <1>2, <2>2 DEF BatchesTypeOK
    <3> QED BY <1>1, <1>2, <1>3, <2>1, <2>2, <3>1, <3>2, <3>3, <3>4, <3>5, HolderGoes
               DEF BatchesTypeOK, batchCount, Busy, Generating, Finishing, Exists
  <2>3. CASE row.status = "cancelling"
    <3> DEFINE r == [row EXCEPT !.ending = "cancelled"]
    <3>1. ending = "cancelled"
      BY <2>3 DEF Ending
    <3>2. /\ r \in BatchRow /\ r.status = "cancelling" /\ r.ending = "cancelled"
          /\ r.line = row.line /\ r.completed = row.completed /\ r.failed = row.failed
      BY <1>4, <2>3 DEF BatchRow, BatchTerminal
    <3>3. batch' = [batch EXCEPT ![b] = r]
      BY <2>1, <2>3, <3>1
    <3> HIDE DEF r
    <3>4. batch'[b] = r
      BY <1>2, <3>3 DEF BatchesTypeOK
    <3>5. RowInv(b)'
      BY <1>1, <1>4, <3>2, <3>4 DEF RowInv, BatchTerminal, InState
    <3> QED BY <2>2, <3>1, <3>2, <3>3, <3>5 DEF BatchTerminal
  <2>4. CASE row.status = "finalizing"
    <3>1. ending = row.ending /\ ending \in BatchTerminal
      BY <1>4, <2>4 DEF Ending, RowInv, BatchTerminal
    <3>2. batch' = [batch EXCEPT ![b] = row]
      BY <2>1, <2>4
    <3>3. RowInv(b)'
      BY <1>1, <1>2, <1>4, <3>2, RowLasts DEF BatchesTypeOK
    <3> QED BY <1>4, <2>2, <2>4, <3>1, <3>2, <3>3
  <2>5. CASE row.status = "in_progress"
    <3>0. row.ending = "none" /\ \A k \in Kinds : result[b][k].state = "none"
      BY <1>4, <2>5 DEF RowInv
    <3>1. ending = IF b \in late THEN "expired" ELSE "completed"
      BY <2>5 DEF Ending
    <3> DEFINE q == IF b \in late THEN ExpiredRow(row) ELSE row
               r == [q EXCEPT !.status = "finalizing", !.ending = ending]
    <3>2. batch' = [batch EXCEPT ![b] = r]
      BY <2>1, <2>5, <3>1
    <3>3. /\ q \in BatchRow
          /\ q.completed = Cardinality({l \in LineIds : q.line[l] = "succeeded"})
          /\ q.failed = Cardinality({l \in LineIds : q.line[l] = "failed"})
          /\ {l \in LineIds : q.line[l] = "pending"} = {}
      <4>1. CASE b \in late
        BY <1>4, <4>1, ExpiredRowEffect DEF RowInv, InState
      <4>2. CASE b \notin late
        BY <1>1, <1>2, <1>3, <1>4, <2>5, <4>2 DEF RowInv, InState, FinishesBatch
      <4> QED BY <4>1, <4>2
    <3> HIDE DEF q, ending
    <3>4. /\ r \in BatchRow /\ r.status = "finalizing" /\ r.ending = ending
          /\ r.line = q.line /\ r.completed = q.completed /\ r.failed = q.failed
      BY <3>1, <3>3 DEF BatchRow, Active, BatchTerminal
    <3> HIDE DEF r
    <3>5. batch'[b] = r
      BY <1>2, <3>2 DEF BatchesTypeOK
    <3>6. RowInv(b)'
      BY <1>1, <3>0, <3>1, <3>3, <3>4, <3>5 DEF RowInv, BatchTerminal, InState
    <3> QED BY <2>2, <3>1, <3>2, <3>4, <3>6 DEF BatchTerminal
  <2> QED BY <1>4, <1>6, <2>3, <2>4, <2>5 DEF BatchRow, Active
<1> QED BY <1>5, <1>6

LEMMA FaultCounted ==
  ASSUME BatchesTypeOK, BatchFault \/ UNCHANGED batchCount
  PROVE  batchFaults' \in Nat /\ UNCHANGED <<batchStops, full, abandoned>>
<1>1. batchFaults \in Nat
  BY DEF BatchesTypeOK
<1>2. CASE BatchFault
  <2>1. batchFaults' = batchFaults + 1 /\ UNCHANGED <<batchStops, full, abandoned>>
    BY <1>2 DEF BatchFault
  <2> QED BY <1>1, <2>1
<1>3. CASE UNCHANGED batchCount
  BY <1>1, <1>3 DEF batchCount
<1> QED BY <1>2, <1>3

LEMMA WriteRecordsKeeps ==
  ASSUME BatchesIInv, NEW s \in BatchServers, WriteOutput(s) \/ WriteError(s)
  PROVE  BatchesIInv'
<1>1. PICK kind \in Kinds, then \in {"error", "record"},
           otherwise \in {"record", "drop output"} :
        /\ WriteRecords(s, kind, then, otherwise)
        /\ \/ kind = "output" /\ then = "error" /\ otherwise = "record"
           \/ kind = "error" /\ then = "record" /\ otherwise = "drop output"
  BY DEF WriteOutput, WriteError, Kinds
<1>2. /\ worker[s].at = kind /\ worker[s].at \in Busy
      /\ worker[s].at \in Busy \ Generating
      /\ UNCHANGED <<batch, late, batchLease, control, native, handler>>
  BY <1>1 DEF WriteRecords, BatchAt, Busy, Generating, Finishing, Kinds
<1>3. /\ BatchesTypeOK /\ Mine(s) \in BatchIds /\ RowInv(Mine(s)) /\ Exists(Mine(s))
      /\ worker[s] \in WorkerRow /\ batch[Mine(s)] \in BatchRow /\ FinishesBatch(s)
  BY <1>2, RunsMine
<1>4. PICK b \in BatchIds : b = Mine(s)
  BY <1>3
<1>5. /\ RowInv(b) /\ batch[b].status \in {"finalizing", "cancelling"}
      /\ batch[b].ending # "none" /\ worker[s].ending = batch[b].ending
      /\ kind = "error" /\ InState(b, "succeeded") # {} => result[b]["output"].state # "none"
  BY <1>2, <1>3, <1>4 DEF FinishesBatch, Finishing, Kinds
<1>6. /\ InState(b, "pending")' = InState(b, "pending")
      /\ InState(b, "succeeded")' = InState(b, "succeeded")
      /\ InState(b, "failed")' = InState(b, "failed")
      /\ \A k \in Kinds : InState(b, Holds(k))' = InState(b, Holds(k))
  BY <1>2 DEF InState, LineIds, Holds, Kinds
<1> DEFINE lines == InState(b, Holds(kind))
<1>7. CASE /\ To(s, then)
           /\ result' = IF lines # {} /\ result[b][kind].state = "none"
                        THEN [result EXCEPT ![b][kind] = [state |-> "live", lines |-> lines]]
                        ELSE result
           /\ UNCHANGED batchCount
  <2> DEFINE w == [worker[s] EXCEPT !.at = then]
  <2>1. /\ w \in WorkerRow /\ w.at = then /\ w.todo = worker[s].todo
        /\ w.ending = worker[s].ending
    BY <1>1, <1>3 DEF WorkerRow, Busy, Finishing
  <2>2. worker' = [worker EXCEPT ![s] = w]
    BY <1>7 DEF To
  <2> HIDE DEF w
  <2>3. worker'[s] = w /\ Mine(s)' = b
    BY <1>3, <1>4, <2>1, <2>2, MineSame DEF BatchesTypeOK
  <2>4. /\ result' \in [BatchIds -> [Kinds -> ResultRow]]
        /\ \A c \in BatchIds : c # b => result'[c] = result[c]
        /\ \A k \in Kinds : k # kind => result'[b][k] = result[b][k]
        /\ lines # {} => result'[b][kind].state # "none"
        /\ result'[b][kind] = result[b][kind] \/ result'[b][kind].lines = lines
    <3>1. CASE lines # {} /\ result[b][kind].state = "none"
      <4> DEFINE q == [state |-> "live", lines |-> lines]
      <4>1. q \in ResultRow /\ q.state = "live" /\ q.lines = lines
        BY DEF ResultRow, InState
      <4>2. result' = [result EXCEPT ![b][kind] = q]
        BY <1>7, <3>1
      <4> HIDE DEF q
      <4> QED BY <1>3, <4>1, <4>2 DEF BatchesTypeOK
    <3>2. CASE ~(lines # {} /\ result[b][kind].state = "none")
      BY <1>3, <1>7, <3>2 DEF BatchesTypeOK
    <3> QED BY <3>1, <3>2
  <2>5. RowInv(b)'
    <3>1. \A k \in Kinds : result'[b][k].state # "none" =>
                              result'[b][k].lines = InState(b, Holds(k))
      <4>1. ASSUME NEW k \in Kinds, result'[b][k].state # "none"
            PROVE  result'[b][k].lines = InState(b, Holds(k))
        <5>1. CASE k = kind
          BY <1>5, <2>4, <4>1, <5>1 DEF RowInv
        <5>2. CASE k # kind
          BY <1>5, <2>4, <4>1, <5>2 DEF RowInv
        <5> QED BY <5>1, <5>2
      <4> QED BY <4>1
    <3> QED BY <1>2, <1>5, <1>6, <3>1 DEF RowInv, BatchTerminal
  <2>6. FinishesBatch(s)'
    <3>1. ASSUME then = "error"
          PROVE  InState(b, "succeeded") # {} => result'[b]["output"].state # "none"
      BY <1>1, <2>4, <3>1 DEF Holds
    <3>2. ASSUME then = "record", NEW k \in Kinds, InState(b, Holds(k)) # {}
          PROVE  result'[b][k].state # "none"
      BY <1>1, <1>5, <2>4, <3>2 DEF Holds, Kinds
    <3> QED BY <1>1, <1>2, <1>5, <1>6, <2>1, <2>3, <3>1, <3>2
               DEF FinishesBatch, Finishing
  <2> QED BY <1>1, <1>2, <1>3, <1>4, <1>5, <1>7, <2>1, <2>2, <2>4, <2>5, <2>6,
     HolderGoes
             DEF BatchesTypeOK, batchCount, Busy, Generating, Finishing
<1>8. CASE /\ lines # {} /\ BatchFault
           /\ worker' = [worker EXCEPT ![s].at = otherwise, ![s].ending = "failed"]
           /\ UNCHANGED result
  <2> DEFINE w == [worker[s] EXCEPT !.at = otherwise, !.ending = "failed"]
  <2>1. /\ w \in WorkerRow /\ w.at = otherwise /\ w.todo = worker[s].todo
        /\ w.ending = "failed"
    BY <1>1, <1>3 DEF WorkerRow, Busy, Finishing, BatchTerminal
  <2>2. worker' = [worker EXCEPT ![s] = w]
    BY <1>3, <1>8 DEF BatchesTypeOK
  <2> HIDE DEF w
  <2>3. worker'[s] = w /\ Mine(s)' = b
    BY <1>3, <1>4, <2>1, <2>2, MineSame DEF BatchesTypeOK
  <2>4. RowInv(b)'
    BY <1>2, <1>5, <1>8, RowLasts
  <2>5. FinishesBatch(s)'
    BY <1>1, <1>2, <1>5, <2>1, <2>3 DEF FinishesBatch, Finishing
  <2>6. batchFaults' \in Nat /\ UNCHANGED <<batchStops, full, abandoned>>
    BY <1>3, <1>8, FaultCounted
  <2>7. w.at \in Busy \ Generating /\ w.at \notin {"execute", "settle"}
    BY <1>1, <2>1 DEF Busy, Generating, Finishing
  <2> QED BY <1>2, <1>3, <1>4, <1>5, <1>8, <2>1, <2>2, <2>4, <2>5, <2>6, <2>7,
     HolderGoes
             DEF BatchesTypeOK, Busy, Generating, Finishing
<1> QED BY <1>1, <1>4, <1>7, <1>8 DEF WriteRecords

LEMMA DropOutputKeeps ==
  ASSUME BatchesIInv, NEW s \in BatchServers, DropOutput(s)
  PROVE  BatchesIInv'
<1>2. /\ worker[s].at = "drop output" /\ worker[s].at \in Busy
      /\ worker[s].at \in Busy \ Generating /\ To(s, "record")
      /\ UNCHANGED <<batch, late, batchLease, control, native, handler>>
  BY DEF DropOutput, BatchAt, Busy, Generating, Finishing
<1>3. /\ BatchesTypeOK /\ Mine(s) \in BatchIds /\ RowInv(Mine(s)) /\ Exists(Mine(s))
      /\ worker[s] \in WorkerRow /\ batch[Mine(s)] \in BatchRow /\ FinishesBatch(s)
  BY <1>2, RunsMine
<1>4. PICK b \in BatchIds : b = Mine(s)
  BY <1>3
<1>5. /\ RowInv(b) /\ batch[b].status \in {"finalizing", "cancelling"}
      /\ batch[b].ending # "none" /\ worker[s].ending = "failed"
  BY <1>2, <1>3, <1>4 DEF FinishesBatch, Finishing
<1> DEFINE w == [worker[s] EXCEPT !.at = "record"]
<1>6. /\ w \in WorkerRow /\ w.at = "record" /\ w.todo = worker[s].todo /\ w.ending = "failed"
  BY <1>3, <1>5 DEF WorkerRow, Busy, Finishing
<1>7. worker' = [worker EXCEPT ![s] = w]
  BY <1>2 DEF To
<1> HIDE DEF w
<1>8. worker'[s] = w /\ Mine(s)' = b
  BY <1>3, <1>4, <1>6, <1>7, MineSame DEF BatchesTypeOK
<1>9. FinishesBatch(s)'
  BY <1>2, <1>5, <1>6, <1>8 DEF FinishesBatch, Finishing
<1>10. /\ result' \in [BatchIds -> [Kinds -> ResultRow]]
       /\ \A c \in BatchIds : c # b => result'[c] = result[c]
       /\ \A k \in Kinds : /\ result'[b][k].lines = result[b][k].lines
                           /\ result'[b][k].state # "none" => result[b][k].state # "none"
  <2>1. CASE result' = [result EXCEPT ![Mine(s)]["output"].state =
                          IF @ = "live" THEN "dropped" ELSE @]
    <3> DEFINE z == result[b]["output"]
               st == IF z.state = "live" THEN "dropped" ELSE z.state
               q == [z EXCEPT !.state = st]
    <3>1. z \in ResultRow /\ "output" \in Kinds
      BY <1>3 DEF BatchesTypeOK, Kinds
    <3> HIDE DEF z
    <3>2. /\ q \in ResultRow /\ q.lines = z.lines
          /\ q.state # "none" => z.state # "none"
      BY <3>1 DEF ResultRow
    <3>3. result' = [result EXCEPT ![b]["output"] = q]
      BY <1>3, <1>4, <2>1 DEF z, BatchesTypeOK
    <3> HIDE DEF q
    <3>4. result'[b] = [result[b] EXCEPT !["output"] = q]
          /\ \A c \in BatchIds : c # b => result'[c] = result[c]
      BY <1>3, <3>3 DEF BatchesTypeOK
    <3>5. \A k \in Kinds : result'[b][k] = IF k = "output" THEN q ELSE result[b][k]
      BY <1>3, <3>4 DEF BatchesTypeOK
    <3>6. result' \in [BatchIds -> [Kinds -> ResultRow]]
      BY <1>3, <3>1, <3>2, <3>3 DEF BatchesTypeOK
    <3> QED BY <3>2, <3>4, <3>5, <3>6 DEF z
  <2>2. CASE UNCHANGED result
    BY <1>3, <2>2 DEF BatchesTypeOK
  <2> QED BY <2>1, <2>2 DEF DropOutput
<1>11. RowInv(b)'
  BY <1>2, <1>5, <1>10 DEF RowInv, BatchTerminal, InState
<1>12. batchFaults' \in Nat /\ UNCHANGED <<batchStops, full, abandoned>>
  BY <1>3, FaultCounted DEF DropOutput
<1> QED BY <1>2, <1>3, <1>4, <1>5, <1>6, <1>7, <1>9, <1>10, <1>11, <1>12, HolderGoes
           DEF BatchesTypeOK, Busy, Generating, Finishing

LEMMA RecordEndKeeps ==
  ASSUME BatchesIInv, NEW s \in BatchServers, RecordEnd(s)
  PROVE  BatchesIInv' /\ \A c \in BatchIds : Exists(c) => Exists(c)'
<1>2. /\ worker[s].at = "record" /\ worker[s].at \in Busy
      /\ worker[s].at \in Busy \ Generating /\ EndRun(s)
      /\ UNCHANGED <<late, result, native, handler, batchCount>>
  BY DEF RecordEnd, BatchAt, Busy, Generating, Finishing
<1>3. /\ BatchesTypeOK /\ Mine(s) \in BatchIds /\ RowInv(Mine(s)) /\ Exists(Mine(s))
      /\ worker[s] \in WorkerRow /\ batch[Mine(s)] \in BatchRow /\ FinishesBatch(s)
  BY <1>2, RunsMine
<1>4. PICK b \in BatchIds : b = Mine(s)
  BY <1>3
<1> DEFINE row == batch[b]
           ending == worker[s].ending
<1>5. /\ RowInv(b) /\ row.status \in {"finalizing", "cancelling"} /\ row \in BatchRow
      /\ row.ending # "none" /\ ending \in {row.ending, "failed"}
      /\ ending # "failed" =>
           \A k \in Kinds : InState(b, Holds(k)) # {} => result[b][k].state # "none"
  BY <1>2, <1>3, <1>4 DEF FinishesBatch, Finishing
<1>6. ending \in BatchTerminal
  BY <1>5 DEF BatchRow, BatchTerminal
<1> DEFINE named == IF ending = "failed" THEN {} ELSE {k \in Kinds : InState(b, Holds(k)) # {}}
           r == [row EXCEPT !.status = ending, !.named = named]
<1>7. batch' = [batch EXCEPT ![b] = r]
  BY <1>3, <1>4, <1>5 DEF RecordEnd, BatchesTypeOK
<1>8. named \in SUBSET Kinds
  OBVIOUS
<1> HIDE DEF named
<1>9. /\ r \in BatchRow /\ r.status = ending /\ r.named = named /\ r.line = row.line
      /\ r.ending = row.ending /\ r.completed = row.completed /\ r.failed = row.failed
  BY <1>5, <1>6, <1>8 DEF BatchRow
<1> HIDE DEF r
<1>10. /\ batch'[b] = r /\ batch' \in [BatchIds -> BatchRow]
       /\ \A c \in BatchIds : c # b => batch'[c] = batch[c]
  BY <1>3, <1>7, <1>9 DEF BatchesTypeOK
<1>11. /\ InState(b, "pending")' = InState(b, "pending")
       /\ InState(b, "succeeded")' = InState(b, "succeeded")
       /\ InState(b, "failed")' = InState(b, "failed")
       /\ \A k \in Kinds : InState(b, Holds(k))' = InState(b, Holds(k))
  BY <1>9, <1>10 DEF InState, LineIds, Holds, Kinds
<1>12. ending \in {"completed", "expired"} => InState(b, "pending") = {}
  BY <1>5 DEF RowInv
<1>13. ending # "failed" => \A k \in Kinds : /\ k \in named <=> InState(b, Holds(k)) # {}
                                             /\ k \in named => result[b][k].state # "none"
  BY <1>5 DEF named
<1>14. RowInv(b)'
  BY <1>2, <1>5, <1>6, <1>9, <1>10, <1>11, <1>12, <1>13 DEF RowInv, BatchTerminal
<1>15. BatchesIInv'
  BY <1>2, <1>3, <1>4, <1>10, <1>14, EndRunKeeps DEF BatchesTypeOK, batchCount
<1>16. batch'[b].status # "none"
  BY <1>6, <1>9, <1>10 DEF BatchTerminal
<1> QED BY <1>10, <1>15, <1>16 DEF Exists

(***************************************************************************)
(* Steps of the HTTP side, of time and of clients.                         *)
(***************************************************************************)
LEMMA HandlerTold ==
  ASSUME BatchesTypeOK, NEW s \in BatchServers, NEW b \in BatchIds,
         NEW what \in {"create", "cancel"},
         handler' = [handler EXCEPT ![s] = @ \cup {<<what, b>>}]
  PROVE  handler' \in [BatchServers -> SUBSET ({"create", "cancel"} \X BatchIds)]
<1> DEFINE H == SUBSET ({"create", "cancel"} \X BatchIds)
           m == <<what, b>>
<1>1. handler \in [BatchServers -> H] /\ \A x \in H : x \cup {m} \in H
  BY DEF BatchesTypeOK
<1>2. handler' = [handler EXCEPT ![s] = @ \cup {m}]
  OBVIOUS
<1> HIDE DEF H, m
<1>3. handler[s] \cup {m} \in H
  BY <1>1
<1>4. handler' \in [BatchServers -> H]
  BY <1>1, <1>2, <1>3
<1> QED BY <1>4 DEF H

(* Only the status of one row changes, by what a client asks. *)
LEMMA StatusAsked ==
  ASSUME BatchesIInv, NEW s \in BatchServers, NEW b \in BatchIds,
         NEW what \in {"create", "cancel"}, NEW st,
         \/ batch[b].status = "none" /\ st = "in_progress"
         \/ /\ batch[b].status \in {"in_progress", "cancelling", "cancelled"}
            /\ st = IF batch[b].status = "in_progress" THEN "cancelling"
                    ELSE batch[b].status,
         batch' = [batch EXCEPT ![b].status = st],
         handler' = [handler EXCEPT ![s] = @ \cup {<<what, b>>}],
         UNCHANGED <<late, result, batchLease, worker, control, native, batchCount>>
  PROVE  BatchesIInv' /\ \A c \in BatchIds : Exists(c) => Exists(c)'
<1>1. BatchesTypeOK /\ RowInv(b) /\ batch[b] \in BatchRow
  BY DEF BatchesIInv, BatchesTypeOK
<1> DEFINE r == [batch[b] EXCEPT !.status = st]
<1>2. /\ r \in BatchRow /\ r.status = st /\ r.line = batch[b].line
      /\ r.ending = batch[b].ending /\ r.completed = batch[b].completed
      /\ r.failed = batch[b].failed /\ r.named = batch[b].named
  BY <1>1 DEF BatchRow, Active, BatchTerminal
<1>3. batch' = [batch EXCEPT ![b] = r]
  OBVIOUS
<1> HIDE DEF r
<1>4. /\ batch'[b] = r /\ batch' \in [BatchIds -> BatchRow]
      /\ \A c \in BatchIds : c # b => batch'[c] = batch[c]
  BY <1>1, <1>2, <1>3 DEF BatchesTypeOK
<1>5. BatchesTypeOK'
  <2>1. handler' \in [BatchServers -> SUBSET ({"create", "cancel"} \X BatchIds)]
    BY <1>1, HandlerTold
  <2> QED BY <1>1, <1>4, <2>1 DEF BatchesTypeOK, batchCount
<1>6. ASSUME NEW c \in BatchIds PROVE RowInv(c)'
  <2>1. CASE c = b
    <3>1. RowInv(b)'
      BY <1>1, <1>2, <1>4 DEF RowInv, InState, BatchTerminal
    <3> QED BY <2>1, <3>1
  <2>2. CASE c # b
    BY <1>4, <2>2, RowLasts DEF BatchesIInv
  <2> QED BY <2>1, <2>2
<1>7. ASSUME NEW t \in BatchServers, worker[t].at \in Busy PROVE Steady(Mine(t))
  <2>1. Mine(t) \in BatchIds /\ Exists(Mine(t))
    BY <1>7, RunsMine
  <2> QED BY <1>2, <1>4, <2>1 DEF Steady, Exists
<1>8. \A t \in BatchServers : WorkerInv(t)'
  BY <1>7, WorkerLasts
<1>9. \A c \in BatchIds : Exists(c) => Exists(c)'
  BY <1>2, <1>4 DEF Exists
<1> QED BY <1>5, <1>6, <1>8, <1>9 DEF BatchesIInv, WorkerInv

LEMMA CreateBatchKeeps ==
  ASSUME BatchesIInv, NEW s \in BatchServers, CreateBatch(s)
  PROVE  BatchesIInv' /\ \A c \in BatchIds : Exists(c) => Exists(c)'
<1>1. PICK b \in BatchIds :
        /\ ~Exists(b) /\ batch' = [batch EXCEPT ![b].status = "in_progress"]
        /\ handler' = [handler EXCEPT ![s] = @ \cup {<<"create", b>>}]
        /\ UNCHANGED <<late, result, batchLease, worker, control, native, batchCount>>
  BY DEF CreateBatch
<1> QED BY <1>1, StatusAsked DEF Exists

LEMMA CancelBatchKeeps ==
  ASSUME BatchesIInv, NEW s \in BatchServers, CancelBatch(s)
  PROVE  BatchesIInv' /\ \A c \in BatchIds : Exists(c) => Exists(c)'
<1>1. PICK b \in BatchIds :
        /\ batch[b].status \in {"in_progress", "cancelling", "cancelled"}
        /\ batch' = [batch EXCEPT ![b].status =
                       IF @ = "in_progress" THEN "cancelling" ELSE @]
        /\ handler' = [handler EXCEPT ![s] = @ \cup {<<"cancel", b>>}]
        /\ UNCHANGED <<late, result, batchLease, worker, control, native, batchCount>>
  BY DEF CancelBatch
<1> DEFINE st == IF batch[b].status = "in_progress" THEN "cancelling" ELSE batch[b].status
<1>2. batch' = [batch EXCEPT ![b].status = st]
  BY <1>1
<1>3. \/ batch[b].status = "none" /\ st = "in_progress"
      \/ /\ batch[b].status \in {"in_progress", "cancelling", "cancelled"}
         /\ st = IF batch[b].status = "in_progress" THEN "cancelling" ELSE batch[b].status
  BY <1>1
<1> HIDE DEF st
<1> QED BY <1>1, <1>2, <1>3, StatusAsked

LEMMA EnvironmentKeeps ==
  ASSUME BatchesIInv, ExpireBatch \/ DeleteResult
  PROVE  BatchesIInv'
<1>0. BatchesTypeOK
  BY DEF BatchesIInv
<1>1. CASE ExpireBatch
  <2>1. /\ late' \subseteq BatchIds /\ late \subseteq late'
        /\ UNCHANGED <<batch, result, batchLease, worker, control, native, handler, batchCount>>
    BY <1>0, <1>1 DEF ExpireBatch, BatchesTypeOK
  <2>2. BatchesTypeOK'
    BY <1>0, <2>1 DEF BatchesTypeOK, batchCount
  <2>3. \A b : Steady(b)
    BY <2>1 DEF Steady
  <2>4. \A t \in BatchServers : WorkerInv(t)'
    BY <2>1, <2>3, WorkerLasts
  <2>5. \A b \in BatchIds : RowInv(b)'
    BY <2>1, RowLasts DEF BatchesIInv
  <2> QED BY <2>2, <2>4, <2>5 DEF BatchesIInv, WorkerInv
<1>2. CASE DeleteResult
  <2>1. PICK b \in BatchIds, k \in Kinds :
          /\ result[b][k].state = "live"
          /\ result' = [result EXCEPT ![b][k].state = "deleted"]
    BY <1>2 DEF DeleteResult
  <2>2. UNCHANGED <<batch, late, batchLease, worker, control, native, handler, batchCount>>
    BY <1>2 DEF DeleteResult
  <2> DEFINE z == result[b][k]
             q == [z EXCEPT !.state = "deleted"]
  <2>3. z \in ResultRow
    BY <1>0 DEF BatchesTypeOK
  <2>4. result' = [result EXCEPT ![b][k] = q]
    BY <1>0, <2>1 DEF BatchesTypeOK
  <2> HIDE DEF z
  <2>5. q \in ResultRow /\ q.lines = z.lines /\ q.state = "deleted"
    BY <2>3 DEF ResultRow
  <2> HIDE DEF q
  <2>6. /\ result'[b] = [result[b] EXCEPT ![k] = q]
        /\ \A c \in BatchIds : c # b => result'[c] = result[c]
    BY <1>0, <2>4 DEF BatchesTypeOK
  <2>7. \A j \in Kinds : result'[b][j] = IF j = k THEN q ELSE result[b][j]
    BY <1>0, <2>6 DEF BatchesTypeOK
  <2>8. BatchesTypeOK'
    BY <1>0, <2>2, <2>4, <2>5 DEF BatchesTypeOK, batchCount
  <2>9. \A c \in BatchIds, j \in Kinds :
          /\ result'[c][j].lines = result[c][j].lines
          /\ result'[c][j].state # "none" <=> result[c][j].state # "none"
    BY <2>1, <2>5, <2>6, <2>7 DEF z
  <2>10. ASSUME NEW c \in BatchIds PROVE RowInv(c)'
    <3>1. /\ RowInv(c) /\ batch'[c] = batch[c]
          /\ InState(c, "pending")' = InState(c, "pending")
          /\ InState(c, "succeeded")' = InState(c, "succeeded")
          /\ InState(c, "failed")' = InState(c, "failed")
          /\ \A j \in Kinds : InState(c, Holds(j))' = InState(c, Holds(j))
      BY <2>2 DEF BatchesIInv, InState, LineIds, Holds, Kinds
    <3> QED BY <2>9, <3>1 DEF RowInv, BatchTerminal
  <2>11. \A c \in BatchIds : Steady(c)
    BY <2>2, <2>9 DEF Steady
  <2>12. \A t \in BatchServers : WorkerInv(t)'
    BY <2>2, <2>11, RunsMine, WorkerLasts
  <2> QED BY <2>8, <2>10, <2>12 DEF BatchesIInv, WorkerInv
<1> QED BY <1>1, <1>2

(* A crash gives up what the server held, and no other server's lease. *)
LEMMA BatchCrashKeeps ==
  ASSUME BatchesIInv, NEW s \in BatchServers, BatchCrash(s)
  PROVE  BatchesIInv'
<1>0. BatchesTypeOK
  BY DEF BatchesIInv
<1> DEFINE w == [Fresh EXCEPT !.at = "down"]
<1>1. w \in WorkerRow /\ w.at = "down"
  BY FreshType DEF Places
<1>2. worker' = [worker EXCEPT ![s] = w]
  BY DEF BatchCrash, Stop
<1> HIDE DEF w
<1>3. Quiet \in ControlRow /\ Quiet.current = 0
  BY Bounds DEF Quiet, ControlRow
<1>4. /\ BatchesTypeOK' /\ worker'[s].at = "down" /\ control'[s].current = 0 /\ OnlyServer(s)
      /\ UNCHANGED <<batch, late, result>>
      /\ \A b \in BatchIds : batchLease'[b] = batchLease[b] \ {s}
  <2>1. /\ batchLease' \in [BatchIds -> SUBSET BatchServers]
        /\ \A b \in BatchIds : batchLease'[b] = batchLease[b] \ {s}
    BY <1>0 DEF BatchCrash, BatchesTypeOK
  <2>2. batchStops' \in Nat
    <3>1. batchStops \in Nat /\ batchStops' = batchStops + 1
      BY <1>0 DEF BatchCrash, BatchesTypeOK
    <3> QED BY <3>1
  <2>3. /\ worker' \in [BatchServers -> WorkerRow] /\ worker'[s].at = "down"
        /\ \A t \in BatchServers : t # s => worker'[t] = worker[t]
    BY <1>0, <1>1, <1>2 DEF BatchesTypeOK
  <2>4. /\ control' \in [BatchServers -> ControlRow] /\ control'[s].current = 0
        /\ \A t \in BatchServers : t # s => control'[t] = control[t]
    BY <1>0, <1>3 DEF BatchCrash, Stop, BatchesTypeOK
  <2>5. /\ native' \in [BatchServers -> {"none", "running", "cancelled"}]
        /\ \A t \in BatchServers : t # s => native'[t] = native[t]
        /\ handler' \in [BatchServers -> SUBSET ({"create", "cancel"} \X BatchIds)]
    BY <1>0 DEF BatchCrash, Stop, BatchesTypeOK
  <2> QED BY <1>0, <2>1, <2>2, <2>3, <2>4, <2>5 DEF BatchCrash, BatchesTypeOK,
     OnlyServer
<1>5. WorkerInv(s)'
  BY <1>4, IdleGoes DEF WorkerInv, LineIsCurrent, Busy, Generating, Finishing
<1>6. ASSUME NEW t \in BatchServers, t # s, worker[t].at \in Busy
      PROVE  Steady(Mine(t))
  <2>1. batchLease[Mine(t)] = {t} /\ Mine(t) \in BatchIds
    BY <1>6, RunsMine
  <2>2. batchLease'[Mine(t)] = batchLease[Mine(t)]
    BY <1>4, <1>6, <2>1
  <2> QED BY <1>4, <2>2 DEF Steady
<1>7. \A b \in BatchIds : RowInv(b)'
  BY <1>4, RowLasts DEF BatchesIInv
<1> QED BY <1>4, <1>5, <1>6, <1>7, ServerMoves

(***************************************************************************)
(* The invariants, and what follows from them.                             *)
(***************************************************************************)
LEMMA RowsStay ==
  ASSUME BatchesIInv, [BatchesNext]_batchVars
  PROVE  \A b \in BatchIds : Exists(b) => Exists(b)'
<1>1. ASSUME UNCHANGED batch PROVE \A b \in BatchIds : Exists(b) => Exists(b)'
  BY <1>1 DEF Exists
<1>2. CASE UNCHANGED batchVars \/ ExpireBatch \/ DeleteResult
  BY <1>1, <1>2 DEF batchVars, batchStore, ExpireBatch, DeleteResult
<1>3. ASSUME NEW s \in BatchServers,
             \/ CreateBatch(s) \/ Notify(s) \/ Disconnect(s) \/ CancelBatch(s) \/ Cancelled(s)
             \/ BatchStep(s) \/ RunFails(s) \/ CloseBatches(s) \/ BatchCrash(s) \/ Start(s)
      PROVE  \A b \in BatchIds : Exists(b) => Exists(b)'
  <2>1. CASE CreateBatch(s) \/ CancelBatch(s) \/ SettleBatchLine(s) \/ BeginFinish(s)
             \/ RecordEnd(s)
    BY <2>1, CreateBatchKeeps, CancelBatchKeeps, SettleBatchLineKeeps, BeginFinishKeeps,
       RecordEndKeeps
  <2>2. CASE Notify(s) \/ Disconnect(s) \/ Cancelled(s) \/ RunFails(s) \/ CloseBatches(s)
             \/ BatchCrash(s) \/ Start(s)
    BY <1>1, <2>2 DEF Notify, Disconnect, Cancelled, RunFails, CloseBatches, BatchCrash,
                      Start, batchStore
  <2>3. CASE Wake(s) \/ Scan(s) \/ LeaseBatch(s) \/ NextBatchLine(s) \/ Execute(s) \/ Admit(s)
             \/ QueueWait(s) \/ Register(s) \/ Recheck(s) \/ GenerationEnds(s)
             \/ WriteOutput(s) \/ WriteError(s) \/ DropOutput(s) \/ Exit(s)
    BY <1>1, <2>3 DEF Wake, Scan, LeaseBatch, NextBatchLine, Execute, Admit, QueueWait,
                      Register, Recheck, GenerationEnds, WriteOutput, WriteError,
                      WriteRecords, DropOutput, Exit, batchStore
  <2> QED BY <1>3, <2>1, <2>2, <2>3 DEF BatchStep
<1> QED BY <1>2, <1>3 DEF BatchesNext

LEMMA ScannedExistKeeps ==
  ASSUME BatchesIInv, ScannedExist, [BatchesNext]_batchVars
  PROVE  ScannedExist'
<1>0. BatchesTypeOK /\ \A b \in BatchIds : Exists(b) => Exists(b)'
  BY RowsStay DEF BatchesIInv
<1>1. \A t \in BatchServers : worker[t].todo \subseteq BatchIds
  BY <1>0 DEF BatchesTypeOK, WorkerRow
<1>2. ASSUME \A t \in BatchServers : worker'[t].todo \subseteq worker[t].todo
      PROVE  ScannedExist'
  BY <1>0, <1>1, <1>2 DEF ScannedExist
<1>3. CASE UNCHANGED batchVars \/ ExpireBatch \/ DeleteResult
  BY <1>2, <1>3 DEF batchVars, ExpireBatch, DeleteResult
<1>4. ASSUME NEW s \in BatchServers,
             \/ CreateBatch(s) \/ Notify(s) \/ Disconnect(s) \/ CancelBatch(s) \/ Cancelled(s)
             \/ BatchStep(s) \/ RunFails(s) \/ CloseBatches(s) \/ BatchCrash(s) \/ Start(s)
      PROVE  ScannedExist'
  <2>1. CASE ~Scan(s)
    BY <1>0, <1>2, <1>4, <2>1, TodoShrinks
  <2>2. CASE Scan(s)
    <3>0. UNCHANGED batch
      BY <2>2 DEF Scan, batchStore
    <3>1. CASE worker' = [worker EXCEPT ![s].at = "each", ![s].todo =
                            {b \in BatchIds : batch[b].status \in Active}]
      <4> DEFINE T == {b \in BatchIds : batch[b].status \in Active}
      <4>1. \A t \in BatchServers : worker'[t].todo = IF t = s THEN T ELSE worker[t].todo
        BY <1>0, <3>1 DEF BatchesTypeOK, WorkerRow
      <4>2. \A b \in T : Exists(b)
        BY DEF Exists, Active
      <4> HIDE DEF T
      <4> QED BY <3>0, <4>1, <4>2 DEF ScannedExist, Exists
    <3>2. CASE To(s, "wait")
      BY <1>0, <1>2, <3>2 DEF To, BatchesTypeOK, WorkerRow
    <3> QED BY <2>2, <3>1, <3>2 DEF Scan
  <2> QED BY <2>1, <2>2
<1> QED BY <1>3, <1>4 DEF BatchesNext

LEMMA BatchesInitOK == BatchesInit => BatchesIInv /\ ScannedExist
<1> SUFFICES ASSUME BatchesInit PROVE BatchesIInv /\ ScannedExist
  OBVIOUS
<1> DEFINE row0 == [status |-> "none", ending |-> "none",
                    line |-> [l \in LineIds |-> "pending"], completed |-> 0, failed |-> 0,
                    named |-> {}]
           res0 == [state |-> "none", lines |-> {}]
<1>1. row0 \in BatchRow /\ res0 \in ResultRow
  BY DEF BatchRow, ResultRow, LineStates
<1>2. Fresh \in WorkerRow /\ Fresh.at = "wait" /\ Fresh.todo = {}
  <2>1. 0 \in 0..MaxLines
    BY Bounds
  <2> QED BY <2>1 DEF Fresh, WorkerRow
<1>3. Quiet \in ControlRow /\ Quiet.current = 0
  BY Bounds DEF Quiet, ControlRow
<1>4. BatchesTypeOK
  <2>1. batch \in [BatchIds -> BatchRow] /\ result \in [BatchIds -> [Kinds -> ResultRow]]
    BY <1>1 DEF BatchesInit
  <2>2. /\ late \subseteq BatchIds /\ batchLease \in [BatchIds -> SUBSET BatchServers]
        /\ native \in [BatchServers -> {"none", "running", "cancelled"}]
        /\ handler \in [BatchServers -> SUBSET ({"create", "cancel"} \X BatchIds)]
        /\ batchFaults \in Nat /\ batchStops \in Nat /\ full \in Nat /\ abandoned \in Nat
    BY DEF BatchesInit
  <2>3. worker \in [BatchServers -> WorkerRow] /\ control \in [BatchServers -> ControlRow]
    BY <1>2, <1>3 DEF BatchesInit
  <2> QED BY <2>1, <2>2, <2>3 DEF BatchesTypeOK
<1>5. ASSUME NEW b \in BatchIds PROVE RowInv(b)
  <2>1. /\ batch[b].status = "none" /\ batch[b].ending = "none"
        /\ batch[b].completed = 0 /\ batch[b].failed = 0
        /\ \A l \in LineIds : batch[b].line[l] = "pending"
        /\ \A k \in Kinds : result[b][k].state = "none"
    BY DEF BatchesInit
  <2>2. InState(b, "succeeded") = {} /\ InState(b, "failed") = {}
    BY <2>1 DEF InState
  <2>3. Cardinality({}) = 0
    BY FS_EmptySet
  <2> QED BY <2>1, <2>2, <2>3 DEF RowInv, BatchTerminal
<1>6. \A s \in BatchServers : worker[s] = Fresh /\ control[s] = Quiet
  BY DEF BatchesInit
<1>7. ASSUME NEW s \in BatchServers
      PROVE  OwnsBatch(s) /\ LineIsCurrent(s) /\ FinishesBatch(s)
  BY <1>2, <1>3, <1>6
     DEF OwnsBatch, LineIsCurrent, FinishesBatch, Busy, Generating, Finishing
<1>8. ScannedExist
  BY <1>2, <1>6 DEF ScannedExist
<1> QED BY <1>4, <1>5, <1>7, <1>8 DEF BatchesIInv

LEMMA BatchesIInvKeeps ==
  ASSUME BatchesIInv, ScannedExist, [BatchesNext]_batchVars
  PROVE  BatchesIInv'
<1>1. CASE UNCHANGED batchVars
  <2>1. BatchesTypeOK'
    BY <1>1 DEF BatchesIInv, BatchesTypeOK, batchVars, batchStore, batchCount
  <2>2. \A b \in BatchIds : RowInv(b)'
    BY <1>1, RowLasts DEF BatchesIInv, batchVars, batchStore
  <2>3. \A t \in BatchServers : WorkerInv(t)'
    BY <1>1, WorkerLasts, StoreSteady DEF batchVars, batchStore
  <2> QED BY <2>1, <2>2, <2>3 DEF BatchesIInv, WorkerInv
<1>2. CASE ExpireBatch \/ DeleteResult
  BY <1>2, EnvironmentKeeps
<1>3. ASSUME NEW s \in BatchServers,
             \/ CreateBatch(s) \/ Notify(s) \/ Disconnect(s) \/ CancelBatch(s) \/ Cancelled(s)
             \/ BatchStep(s) \/ RunFails(s) \/ CloseBatches(s) \/ BatchCrash(s) \/ Start(s)
      PROVE  BatchesIInv'
  <2>1. CASE BatchStep(s)
    BY <2>1, WakeKeeps, ScanKeeps, LeaseBatchKeeps, NextBatchLineKeeps, ExecuteKeeps,
       AdmitKeeps, QueueWaitKeeps, RegisterKeeps, RecheckKeeps, GenerationEndsKeeps,
       SettleBatchLineKeeps, BeginFinishKeeps, WriteRecordsKeeps, DropOutputKeeps,
       RecordEndKeeps, ExitKeeps DEF BatchStep
  <2> QED BY <1>3, <2>1, CreateBatchKeeps, HandlerKeeps, CancelBatchKeeps,
     RunFailsKeeps,
             CloseBatchesKeeps, BatchCrashKeeps, StartKeeps
<1> QED BY <1>1, <1>2, <1>3 DEF BatchesNext

(* In every reachable state, for any number of servers, batches, lines,    *)
(* failures, crashes and shutdowns: the row of a batch agrees with its     *)
(* lines and result files, a worker that runs a batch has its lease, and   *)
(* what it is about to record is what was written.                         *)
THEOREM BatchesInvariant == BatchesSpec => [](BatchesIInv /\ ScannedExist)
<1>1. BatchesInit => BatchesIInv /\ ScannedExist
  BY BatchesInitOK
<1>2. BatchesIInv /\ ScannedExist /\ [BatchesNext]_batchVars
        => (BatchesIInv /\ ScannedExist)'
  BY BatchesIInvKeeps, ScannedExistKeeps
<1> QED BY <1>1, <1>2, PTL DEF BatchesSpec

(* A batch that ended says what its lines came to, and its result files    *)
(* hold exactly them (finish_batch, settle_batch_line, write_records).     *)
THEOREM EndedBatchesAreComplete == BatchesSpec => []ResultsComplete
<1>1. BatchesIInv => ResultsComplete
  <2> SUFFICES ASSUME BatchesIInv, NEW b \in BatchIds,
                      batch[b].status \in BatchTerminal \ {"failed"}
               PROVE  /\ batch[b].completed = Cardinality(InState(b, "succeeded"))
                      /\ batch[b].failed = Cardinality(InState(b, "failed"))
                      /\ batch[b].status # "cancelled" => InState(b, "pending") = {}
                      /\ \A k \in Kinds :
                           /\ k \in batch[b].named <=> InState(b, Holds(k)) # {}
                           /\ k \in batch[b].named =>
                                /\ result[b][k].state # "none"
                                /\ result[b][k].lines = InState(b, Holds(k))
    BY DEF ResultsComplete
  <2>1. RowInv(b)
    BY DEF BatchesIInv
  <2> QED BY <2>1 DEF RowInv, BatchTerminal
<1> QED BY <1>1, BatchesInvariant, PTL

(* No interrupted line is left generating, in whatever order admission,    *)
(* registration, cancellation and shutdown come (Control, execute).        *)
THEOREM InterruptsReach == BatchesSpec => []InterruptReaches
<1>1. BatchesIInv => InterruptReaches
  BY DEF BatchesIInv, LineIsCurrent, InterruptReaches, BatchAt
<1> QED BY <1>1, BatchesInvariant, PTL

============================================================================
