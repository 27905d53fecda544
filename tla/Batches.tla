------------------------------ MODULE Batches ------------------------------
(***************************************************************************)
(* Batch jobs (local-services batches.rs and the worker of serve/          *)
(* batches.rs): lines settled one by one under an execution lease, result  *)
(* files written once, cancellation, expiry, shutdown, crash and resume,   *)
(* by servers that share one store.                                        *)
(*                                                                         *)
(* A database statement or transaction, a change of a worker's Control     *)
(* under its lock, or one call into the engine is one action.  The input   *)
(* file has been validated: a batch exists with all its lines or not.      *)
(***************************************************************************)
EXTENDS Naturals, FiniteSets

CONSTANTS
  BatchServers,    \* servers, each with one batch worker
  MaxBatches,      \* batches created, in this order
  MaxLines,        \* lines of each
  MaxBatchFaults,  \* bound: statements that fail
  MaxBatchStops,   \* bound: crashes and shutdowns
  MaxFull,         \* bound: submissions that find the engine's queue full
  MaxAbandoned     \* bound: clients that disconnect during a create

ASSUME BatchBoundsAssumption ==
  /\ {MaxBatches, MaxLines} \subseteq Nat \ {0}
  /\ {MaxBatchFaults, MaxBatchStops, MaxFull, MaxAbandoned} \subseteq Nat

VARIABLES
  batch,      \* batches: status, ending, line states, counters, named files
  late,       \* the batches past expires_at
  result,     \* the reserved result files: state and the lines they hold
  batchLease, \* who holds each batch's lease, as a set of at most one
  worker,     \* each worker thread
  control,    \* its Control
  native,     \* its generation in the engine
  handler,    \* what a server's handlers have committed and not yet told it
  batchFaults, batchStops, full, abandoned

batchStore == <<batch, late, result, batchLease>>
batchCount == <<batchFaults, batchStops, full, abandoned>>
batchVars  == <<batchStore, worker, control, native, handler, batchCount>>

BatchIds == 1..MaxBatches
LineIds  == 1..MaxLines
Kinds    == {"output", "error"}
BatchTerminal == {"completed", "failed", "expired", "cancelled"}
Active   == {"in_progress", "cancelling", "finalizing"}

Exists(b)     == batch[b].status # "none"
InState(b, x) == {l \in LineIds : batch[b].line[l] = x}
Fresh   == [at |-> "wait", todo |-> {}, line |-> 0, outcome |-> "none",
            ending |-> "none"]

(* Mutant of Quiet: a worker that starts does not scan. *)
QuietUntilTold == [pending |-> FALSE, closing |-> FALSE, cancelled |-> {},
                   current |-> 0, interrupted |-> FALSE, handle |-> FALSE]

Quiet   == [pending |-> TRUE, closing |-> FALSE, cancelled |-> {}, current |-> 0,
            interrupted |-> FALSE, handle |-> FALSE]

BatchesInit ==
  /\ batch = [b \in BatchIds |->
       [status |-> "none", ending |-> "none",
        line |-> [l \in LineIds |-> "pending"], completed |-> 0, failed |-> 0,
        named |-> {}]]
  /\ late = {} /\ batchLease = [b \in BatchIds |-> {}]
  /\ result = [b \in BatchIds |-> [k \in Kinds |-> [state |-> "none", lines |-> {}]]]
  /\ worker = [s \in BatchServers |-> Fresh]
  /\ control = [s \in BatchServers |-> Quiet]
  /\ native = [s \in BatchServers |-> "none"]
  /\ handler = [s \in BatchServers |-> {}]
  /\ batchFaults = 0 /\ batchStops = 0 /\ full = 0 /\ abandoned = 0

Up(s)       == worker[s].at # "down"
Mine(s)     == CHOOSE b \in worker[s].todo : \A c \in worker[s].todo : b <= c
BatchAt(s, at)   == worker[s].at = at
To(s, at)   == worker' = [worker EXCEPT ![s].at = at]
BatchFault  == /\ batchFaults < MaxBatchFaults /\ batchFaults' = batchFaults + 1
               /\ UNCHANGED <<batchStops, full, abandoned>>

(* interrupt: the current line, if it belongs to one of bs.                *)
Interrupt(s, c, bs) ==
  IF c.current \in bs
  THEN /\ control' = [control EXCEPT ![s] = [c EXCEPT !.interrupted = TRUE]]
       /\ native' = [native EXCEPT ![s] =
                       IF c.handle /\ @ = "running" THEN "cancelled" ELSE @]
  ELSE control' = [control EXCEPT ![s] = c] /\ UNCHANGED native

(***************************************************************************)
(* The HTTP side.  A cancellation tells the worker from the blocking task  *)
(* that committed it; a creation from the handler that awaited that task,  *)
(* which is dropped when its client leaves.                                *)
(***************************************************************************)
CreateBatch(s) ==
  \E b \in BatchIds :
    /\ Up(s) /\ ~Exists(b) /\ \A a \in 1..(b - 1) : Exists(a)
    /\ batch' = [batch EXCEPT ![b].status = "in_progress"]
    /\ handler' = [handler EXCEPT ![s] = @ \cup {<<"create", b>>}]
    /\ UNCHANGED <<late, result, batchLease, worker, control, native, batchCount>>

Notify(s) ==
  \E b \in BatchIds :
    /\ <<"create", b>> \in handler[s]
    /\ handler' = [handler EXCEPT ![s] = @ \ {<<"create", b>>}]
    /\ control' = [control EXCEPT ![s].pending = TRUE]
    /\ UNCHANGED <<batchStore, worker, native, batchCount>>

Disconnect(s) ==
  \E b \in BatchIds :
    /\ <<"create", b>> \in handler[s]
    /\ abandoned < MaxAbandoned /\ abandoned' = abandoned + 1
    /\ handler' = [handler EXCEPT ![s] = @ \ {<<"create", b>>}]
    /\ UNCHANGED <<batchStore, worker, control, native, batchFaults, batchStops, full>>

CancelBatch(s) ==
  \E b \in BatchIds :
    /\ Up(s) /\ batch[b].status \in {"in_progress", "cancelling", "cancelled"}
    /\ <<"cancel", b>> \notin handler[s]
    /\ batch' = [batch EXCEPT ![b].status =
                   IF @ = "in_progress" THEN "cancelling" ELSE @]
    /\ handler' = [handler EXCEPT ![s] = @ \cup {<<"cancel", b>>}]
    /\ UNCHANGED <<late, result, batchLease, worker, control, native, batchCount>>

Cancelled(s) ==
  \E b \in BatchIds :
    /\ <<"cancel", b>> \in handler[s]
    /\ handler' = [handler EXCEPT ![s] = @ \ {<<"cancel", b>>}]
    /\ Interrupt(s, [control[s] EXCEPT !.cancelled = @ \cup {b}, !.pending = TRUE], {b})
    /\ UNCHANGED <<batchStore, worker, batchCount>>

(***************************************************************************)
(* Worker::run: scan whenever asked, run what can be leased, oldest first. *)
(***************************************************************************)
Wake(s) ==
  /\ BatchAt(s, "wait") /\ (control[s].pending \/ control[s].closing)
  /\ IF control[s].closing
     THEN To(s, "stopped") /\ UNCHANGED control
     ELSE To(s, "scan") /\ control' = [control EXCEPT ![s].pending = FALSE]
  /\ UNCHANGED <<batchStore, native, handler, batchCount>>

Scan(s) ==
  /\ BatchAt(s, "scan")
  /\ \/ /\ worker' = [worker EXCEPT ![s].at = "each", ![s].todo =
                        {b \in BatchIds : batch[b].status \in Active}]
        /\ UNCHANGED batchCount
     \/ BatchFault /\ To(s, "wait")
  /\ UNCHANGED <<batchStore, control, native, handler>>

(* lease_batch: skipped when another worker holds it, or on an error.      *)
LeaseBatch(s) ==
  LET skip == [worker EXCEPT ![s].todo = @ \ {Mine(s)}]
  IN /\ BatchAt(s, "each")
     /\ \/ /\ control[s].closing /\ To(s, "stopped")
           /\ UNCHANGED <<batchLease, batchCount>>
        \/ /\ ~control[s].closing /\ worker[s].todo = {} /\ To(s, "wait")
           /\ UNCHANGED <<batchLease, batchCount>>
        \/ /\ ~control[s].closing /\ worker[s].todo # {}
           /\ \/ /\ batchLease[Mine(s)] = {} /\ To(s, "next")
                 /\ batchLease' = [batchLease EXCEPT ![Mine(s)] = {s}]
                 /\ UNCHANGED batchCount
              \/ /\ batchLease[Mine(s)] # {} /\ worker' = skip
                 /\ UNCHANGED <<batchLease, batchCount>>
              \/ BatchFault /\ worker' = skip /\ UNCHANGED batchLease
     /\ UNCHANGED <<batch, late, result, control, native, handler>>

(* The end of run_batch, with or without an error: the lease is dropped    *)
(* and the cancellation forgotten.                                         *)
EndRun(s) ==
  /\ worker' = [worker EXCEPT ![s] = [Fresh EXCEPT !.at = "each",
                                                   !.todo = worker[s].todo \ {Mine(s)}]]
  /\ batchLease' = [batchLease EXCEPT ![Mine(s)] = {}]
  /\ control' = [control EXCEPT ![s].cancelled = @ \ {Mine(s)}]

(* A statement of the run fails: run_batch returns the error.              *)
RunFails(s) ==
  /\ worker[s].at \in {"next", "settle", "begin", "record"}
  /\ BatchFault /\ EndRun(s)
  /\ UNCHANGED <<batch, late, result, native, handler>>

NextBatchLine(s) ==
  LET b       == Mine(s)
      pending == InState(b, "pending")
      lowest  == CHOOSE l \in pending : \A m \in pending : l <= m
      runs    == batch[b].status = "in_progress" /\ b \notin late
  IN /\ BatchAt(s, "next")
     /\ IF control[s].closing \/ batch[b].status \in BatchTerminal THEN EndRun(s)
        ELSE /\ worker' = IF runs /\ pending # {}
                          THEN [worker EXCEPT ![s].at = "execute", ![s].line = lowest]
                          ELSE [worker EXCEPT ![s].at = "begin"]
             /\ UNCHANGED <<batchLease, control>>
     /\ UNCHANGED <<batch, late, result, native, handler, batchCount>>

(* execute: a line that cannot be prepared fails at once; one about to     *)
(* start looks for a cancellation and becomes current under one lock.      *)
Execute(s) ==
  /\ BatchAt(s, "execute")
  /\ \/ /\ worker' = [worker EXCEPT ![s].at = "settle", ![s].outcome = "failed"]
        /\ UNCHANGED control
     \/ /\ control[s].closing \/ Mine(s) \in control[s].cancelled
        /\ To(s, "next") /\ UNCHANGED control
     \/ /\ ~control[s].closing /\ Mine(s) \notin control[s].cancelled
        /\ control' = [control EXCEPT ![s].current = Mine(s),
                         ![s].interrupted = FALSE, ![s].handle = FALSE]
        /\ To(s, "admit")
  /\ UNCHANGED <<batchStore, native, handler, batchCount>>

(* The end of generate: the line is no longer current; without an outcome  *)
(* it stays pending.                                                       *)
EndLine(s, outcome) ==
  /\ control' = [control EXCEPT ![s].current = 0, ![s].interrupted = FALSE,
                                ![s].handle = FALSE]
  /\ native' = [native EXCEPT ![s] = "none"]
  /\ worker' = [worker EXCEPT ![s].at = IF outcome = "none" THEN "next" ELSE "settle",
                              ![s].outcome = outcome]

Admit(s) ==
  /\ BatchAt(s, "admit")
  /\ \/ /\ native' = [native EXCEPT ![s] = "running"] /\ To(s, "register")
        /\ UNCHANGED <<control, full>>
     \/ EndLine(s, "failed") /\ UNCHANGED full
     \/ /\ full < MaxFull /\ full' = full + 1 /\ To(s, "queue")
        /\ UNCHANGED <<control, native>>
  /\ UNCHANGED <<batchStore, handler, batchFaults, batchStops, abandoned>>

(* A full queue: wait for a release or a capped backoff, unless the batch  *)
(* expires, the line is interrupted or the server closes.                  *)
QueueWait(s) ==
  /\ BatchAt(s, "queue")
  /\ \/ Mine(s) \in late /\ EndLine(s, "none")
     \/ IF control[s].closing \/ control[s].interrupted
        THEN EndLine(s, "none")
        ELSE To(s, "admit") /\ UNCHANGED <<control, native>>
  /\ UNCHANGED <<batchStore, handler, batchCount>>

(* The admitted generation's cancel handle is registered under the lock;   *)
(* an interrupt that came before it is then looked for.                    *)
Register(s) ==
  /\ BatchAt(s, "register") /\ To(s, "recheck")
  /\ control' = [control EXCEPT ![s].handle = TRUE]
  /\ UNCHANGED <<batchStore, native, handler, batchCount>>

(* Mutant of Recheck: an interrupt before the registration is not seen. *)
RecheckNothing(s) ==
  /\ BatchAt(s, "recheck") /\ To(s, "generate")
  /\ UNCHANGED <<batchStore, control, native, handler, batchCount>>

Recheck(s) ==
  /\ BatchAt(s, "recheck") /\ To(s, "generate")
  /\ native' = [native EXCEPT ![s] = IF control[s].interrupted THEN "cancelled" ELSE @]
  /\ UNCHANGED <<batchStore, control, handler, batchCount>>

(* The generation ends, with a document or an error: dropped when it was   *)
(* interrupted.  At the batch's deadline it is cancelled and drained.      *)
GenerationEnds(s) ==
  /\ BatchAt(s, "generate")
  /\ \/ \E outcome \in {"succeeded", "failed"} :
          EndLine(s, IF control[s].interrupted THEN "none" ELSE outcome)
     \/ Mine(s) \in late /\ EndLine(s, "none")
  /\ UNCHANGED <<batchStore, handler, batchCount>>

(* settle_batch_line: refused once finishing has begun, without effect     *)
(* for a line already settled.                                             *)
SettleBatchLine(s) ==
  LET b == Mine(s)
      l == worker[s].line
      x == worker[s].outcome
  IN /\ BatchAt(s, "settle")
     /\ IF batch[b].ending # "none" \/ batch[b].status \notin {"in_progress", "cancelling"}
        THEN EndRun(s) /\ UNCHANGED batch
        ELSE /\ batch' = IF batch[b].line[l] # "pending" THEN batch
                         ELSE [batch EXCEPT ![b].line[l] = x,
                                 ![b].completed = @ + IF x = "succeeded" THEN 1 ELSE 0,
                                 ![b].failed = @ + IF x = "failed" THEN 1 ELSE 0]
             /\ To(s, "next") /\ UNCHANGED <<batchLease, control>>
     /\ UNCHANGED <<late, result, native, handler, batchCount>>

(***************************************************************************)
(* finish_batch.                                                           *)
(***************************************************************************)
Ending(b) == CASE batch[b].status = "cancelling" -> "cancelled"
               [] batch[b].status = "finalizing" -> batch[b].ending
               [] OTHER -> IF b \in late THEN "expired" ELSE "completed"

(* Mutant of ExpiredRow: the lines fail without being counted. *)
ExpiredRowUncounted(row) ==
  [row EXCEPT !.line = [l \in LineIds |-> IF @[l] = "pending" THEN "failed" ELSE @[l]]]

(* expire_pending: the unfinished lines of an expired batch fail.          *)
ExpiredRow(row) ==
  LET open == {l \in LineIds : row.line[l] = "pending"}
  IN [row EXCEPT !.line = [l \in LineIds |-> IF l \in open THEN "failed" ELSE @[l]],
                 !.failed = @ + Cardinality(open)]

BeginFinish(s) ==
  LET b      == Mine(s)
      ending == Ending(b)
      row    == batch[b]
  IN /\ BatchAt(s, "begin")
     /\ IF row.status \in BatchTerminal THEN EndRun(s) /\ UNCHANGED batch
        ELSE /\ batch' = [batch EXCEPT ![b] =
                  CASE row.status = "cancelling" -> [row EXCEPT !.ending = ending]
                    [] row.status = "finalizing" -> row
                    [] OTHER -> [IF ending = "expired" THEN ExpiredRow(row) ELSE row
                                   EXCEPT !.status = "finalizing", !.ending = ending]]
             /\ worker' = [worker EXCEPT ![s].at = "output", ![s].ending = ending]
             /\ UNCHANGED <<batchLease, control>>
     /\ UNCHANGED <<late, result, native, handler, batchCount>>

(* write_records: nothing for an empty state; otherwise the file reserved  *)
(* for it, as an earlier attempt left it, even if since deleted.           *)
Holds(kind) == IF kind = "output" THEN "succeeded" ELSE "failed"

WriteRecords(s, kind, then, otherwise) ==
  LET b     == Mine(s)
      lines == InState(b, Holds(kind))
  IN /\ BatchAt(s, kind)
     /\ \/ /\ To(s, then)
           /\ result' = IF lines # {} /\ result[b][kind].state = "none"
                        THEN [result EXCEPT ![b][kind] = [state |-> "live", lines |-> lines]]
                        ELSE result
           /\ UNCHANGED batchCount
        \/ /\ lines # {} /\ BatchFault
           /\ worker' = [worker EXCEPT ![s].at = otherwise, ![s].ending = "failed"]
           /\ UNCHANGED result
     /\ UNCHANGED <<batch, late, batchLease, control, native, handler>>

WriteOutput(s) == WriteRecords(s, "output", "error", "record")
WriteError(s)  == WriteRecords(s, "error", "record", "drop output")

(* write_results: on failure no file is left behind.                       *)
DropOutput(s) ==
  /\ BatchAt(s, "drop output") /\ To(s, "record")
  /\ \/ /\ result' = [result EXCEPT ![Mine(s)]["output"].state =
                        IF @ = "live" THEN "dropped" ELSE @]
        /\ UNCHANGED batchCount
     \/ BatchFault /\ UNCHANGED result
  /\ UNCHANGED <<batch, late, batchLease, control, native, handler>>

RecordEnd(s) ==
  LET b      == Mine(s)
      ending == worker[s].ending
  IN /\ BatchAt(s, "record")
     /\ batch' = IF batch[b].status \notin {"finalizing", "cancelling"} THEN batch
                 ELSE [batch EXCEPT ![b].status = ending, ![b].named =
                         IF ending = "failed" THEN {}
                         ELSE {k \in Kinds : InState(b, Holds(k)) # {}}]
     /\ EndRun(s)
     /\ UNCHANGED <<late, result, native, handler, batchCount>>

(***************************************************************************)
(* The environment: time, clients that delete result files, stops.         *)
(***************************************************************************)
ExpireBatch ==
  /\ \E b \in BatchIds \ late : Exists(b) /\ late' = late \cup {b}
  /\ UNCHANGED <<batch, result, batchLease, worker, control, native, handler, batchCount>>

(* A client deletes a result file, or it outlives its retention.           *)
DeleteResult ==
  /\ \E b \in BatchIds, k \in Kinds :
       /\ result[b][k].state = "live"
       /\ result' = [result EXCEPT ![b][k].state = "deleted"]
  /\ UNCHANGED <<batch, late, batchLease, worker, control, native, handler, batchCount>>

CloseBatches(s) ==
  /\ Up(s) /\ ~control[s].closing
  /\ batchStops < MaxBatchStops /\ batchStops' = batchStops + 1
  /\ Interrupt(s, [control[s] EXCEPT !.closing = TRUE], BatchIds)
  /\ UNCHANGED <<batchStore, worker, handler, batchFaults, full, abandoned>>

Stop(s) ==
  /\ worker' = [worker EXCEPT ![s] = [Fresh EXCEPT !.at = "down"]]
  /\ control' = [control EXCEPT ![s] = Quiet]
  /\ native' = [native EXCEPT ![s] = "none"]
  /\ handler' = [handler EXCEPT ![s] = {}]

(* drained: the server exits once its worker has let go and its requests   *)
(* have been answered.                                                     *)
Exit(s) ==
  /\ BatchAt(s, "stopped") /\ handler[s] = {} /\ Stop(s)
  /\ UNCHANGED <<batchStore, batchCount>>

BatchCrash(s) ==
  /\ Up(s) /\ batchStops < MaxBatchStops /\ batchStops' = batchStops + 1
  /\ Stop(s)
  /\ batchLease' = [b \in BatchIds |-> batchLease[b] \ {s}]
  /\ UNCHANGED <<batch, late, result, batchFaults, full, abandoned>>

Start(s) ==
  /\ BatchAt(s, "down") /\ To(s, "wait")
  /\ UNCHANGED <<batchStore, control, native, handler, batchCount>>

BatchStep(s) ==
  \/ Wake(s) \/ Scan(s) \/ LeaseBatch(s) \/ NextBatchLine(s)
  \/ Execute(s) \/ Admit(s) \/ QueueWait(s) \/ Register(s) \/ Recheck(s)
  \/ GenerationEnds(s) \/ SettleBatchLine(s) \/ BeginFinish(s)
  \/ WriteOutput(s) \/ WriteError(s) \/ DropOutput(s) \/ RecordEnd(s) \/ Exit(s)

BatchesNext ==
  \/ \E s \in BatchServers :
       \/ CreateBatch(s) \/ Notify(s) \/ Disconnect(s) \/ CancelBatch(s) \/ Cancelled(s)
       \/ BatchStep(s) \/ RunFails(s) \/ CloseBatches(s) \/ BatchCrash(s) \/ Start(s)
  \/ ExpireBatch \/ DeleteResult

BatchesSpec == BatchesInit /\ [][BatchesNext]_batchVars

(* Threads that have started go on, clients that stay are answered, and a  *)
(* server that is down is started again.  Requests do not hold a drain for *)
(* ever, since connection::serve takes no new one: Exit is strongly fair.  *)
BatchesFairness ==
  \A s \in BatchServers :
    /\ WF_batchVars(BatchStep(s) \/ Start(s)) /\ SF_batchVars(Exit(s))
    /\ WF_batchVars(Notify(s)) /\ WF_batchVars(Cancelled(s))

BatchesFairSpec == BatchesSpec /\ BatchesFairness

(***************************************************************************)
(* Properties.                                                             *)
(***************************************************************************)
(* What an ended batch names is what its lines came to: the counters agree *)
(* with the lines, only a cancelled batch leaves lines out, and every      *)
(* settled line was written to exactly the result file of its outcome,     *)
(* named by the batch, once, whatever crashed or failed between the        *)
(* settling, the writing of the two files and the recording of the end.    *)
ResultsComplete ==
  \A b \in BatchIds :
    LET row == batch[b]
    IN row.status \in BatchTerminal \ {"failed"} =>
         /\ row.completed = Cardinality(InState(b, "succeeded"))
         /\ row.failed = Cardinality(InState(b, "failed"))
         /\ row.status # "cancelled" => InState(b, "pending") = {}
         /\ \A k \in Kinds :
              /\ k \in row.named <=> InState(b, Holds(k)) # {}
              /\ k \in row.named => /\ result[b][k].state # "none"
                                    /\ result[b][k].lines = InState(b, Holds(k))

(* batches.rs:56: "in both cases every line settled before is in the       *)
(* output".  A file an ended batch names is there until a client deletes   *)
(* it.  The code does not hold to it: write_results removes the output     *)
(* again when the error file cannot be written, and after a crash before   *)
(* the end is recorded, write_records takes the removed file for deleted.  *)
ResultsKept ==
  \A b \in BatchIds : \A k \in batch[b].named : result[b][k].state # "dropped"

(* An interrupt reaches the engine: whatever the order of admission,       *)
(* registration of the cancel handle, cancellation and shutdown, no        *)
(* interrupted line is left generating, and none runs on for a batch that  *)
(* was cancelled here or on a server that closes.                          *)
InterruptReaches ==
  \A s \in BatchServers :
    /\ BatchAt(s, "generate") /\ control[s].interrupted => native[s] # "running"
    /\ control[s].current # 0
         /\ (control[s].closing \/ control[s].current \in control[s].cancelled)
       => control[s].interrupted

(* Every batch comes to an end, through full queues, shutdowns and         *)
(* crashes, unless a statement fails (the batch then waits for the next    *)
(* scan) or the client that created it leaves before the worker is told    *)
(* (create's notify follows an await in its handler).                      *)
BatchEnds ==
  \A b \in BatchIds :
    Exists(b) ~> (batch[b].status \in BatchTerminal \/ batchFaults > 0 \/ abandoned > 0)

(***************************************************************************)
(* The inductive invariant behind ResultsComplete and InterruptReaches     *)
(* (BatchesProofs).                                                        *)
(***************************************************************************)
LineStates == {"pending", "succeeded", "failed"}
Generating == {"admit", "queue", "register", "recheck", "generate"}
Finishing  == {"output", "error", "drop output", "record"}
Busy       == {"next", "execute", "settle", "begin"} \cup Generating \cup Finishing

BatchRow  == [status: {"none"} \cup Active \cup BatchTerminal,
              ending: {"none"} \cup BatchTerminal, line: [LineIds -> LineStates],
              completed: Nat, failed: Nat, named: SUBSET Kinds]
ResultRow == [state: {"none", "live", "dropped", "deleted"}, lines: SUBSET LineIds]
WorkerRow == [at: {"wait", "scan", "each", "stopped", "down"} \cup Busy,
              todo: SUBSET BatchIds, line: 0..MaxLines, outcome: LineStates \cup {"none"},
              ending: {"none"} \cup BatchTerminal]
ControlRow == [pending: BOOLEAN, closing: BOOLEAN, cancelled: SUBSET BatchIds,
               current: 0..MaxBatches, interrupted: BOOLEAN, handle: BOOLEAN]

BatchesTypeOK ==
  /\ batch \in [BatchIds -> BatchRow] /\ result \in [BatchIds -> [Kinds -> ResultRow]]
  /\ late \subseteq BatchIds /\ batchLease \in [BatchIds -> SUBSET BatchServers]
  /\ worker \in [BatchServers -> WorkerRow] /\ control \in [BatchServers -> ControlRow]
  /\ native \in [BatchServers -> {"none", "running", "cancelled"}]
  /\ handler \in [BatchServers -> SUBSET ({"create", "cancel"} \X BatchIds)]
  /\ batchFaults \in Nat /\ batchStops \in Nat /\ full \in Nat /\ abandoned \in Nat

(* The counters of a batch are its lines; it is finishing once it has an   *)
(* ending, with no line pending unless it was cancelled; what a result     *)
(* file holds are the lines of its outcome, and the batch is finishing.    *)
RowInv(b) ==
  LET row == batch[b]
  IN /\ row.completed = Cardinality(InState(b, "succeeded"))
     /\ row.failed = Cardinality(InState(b, "failed"))
     /\ row.status \in {"none", "in_progress"} => row.ending = "none"
     /\ row.status = "cancelling" => row.ending \in {"none", "cancelled"}
     /\ row.status = "finalizing" => row.ending \in {"completed", "expired"}
     /\ row.status \in BatchTerminal => row.ending # "none"
     /\ row.status \in {"finalizing", "completed", "expired"} => InState(b, "pending") = {}
     /\ \A k \in Kinds : result[b][k].state # "none" =>
          row.ending # "none" /\ result[b][k].lines = InState(b, Holds(k))
     /\ row.status \in BatchTerminal \ {"failed"} =>
          \A k \in Kinds : /\ k \in row.named <=> InState(b, Holds(k)) # {}
                           /\ k \in row.named => result[b][k].state # "none"

(* A worker that runs a batch has its lease, and settles a line it read.   *)
OwnsBatch(s) ==
  /\ worker[s].at \in Busy =>
       /\ worker[s].todo # {} /\ batchLease[Mine(s)] = {s} /\ Exists(Mine(s))
  /\ worker[s].at \in {"execute", "settle"} \cup Generating => worker[s].line \in LineIds
  /\ worker[s].at = "settle" => worker[s].outcome \in {"succeeded", "failed"}

(* Only a line being generated is current, and once its cancel handle is   *)
(* registered an interrupt cancels the generation.                         *)
LineIsCurrent(s) ==
  /\ control[s].current # 0 => worker[s].at \in Generating
  /\ worker[s].at \in {"recheck", "generate"} => control[s].handle
  /\ worker[s].at = "generate" /\ control[s].interrupted => native[s] # "running"
  /\ control[s].current # 0
       /\ (control[s].closing \/ control[s].current \in control[s].cancelled)
     => control[s].interrupted

(* A worker begins to finish a batch with no line pending, unless it is    *)
(* late or cancelled; while it finishes, the ending it will record is the  *)
(* batch's own or a failure, and the files behind it are written.          *)
FinishesBatch(s) ==
  LET b == Mine(s)
  IN /\ worker[s].at = "begin" /\ batch[b].status = "in_progress" /\ b \notin late =>
          InState(b, "pending") = {}
     /\ worker[s].at \in Finishing =>
          /\ batch[b].status \in {"finalizing", "cancelling"} /\ batch[b].ending # "none"
          /\ worker[s].ending \in {batch[b].ending, "failed"}
     /\ worker[s].at \in {"output", "error"} => worker[s].ending = batch[b].ending
     /\ worker[s].at = "drop output" => worker[s].ending = "failed"
     /\ worker[s].at = "error" /\ InState(b, "succeeded") # {} =>
          result[b]["output"].state # "none"
     /\ worker[s].at = "record" /\ worker[s].ending # "failed" =>
          \A k \in Kinds : InState(b, Holds(k)) # {} => result[b][k].state # "none"

(* What a worker scanned are batches: rows are never removed.              *)
ScannedExist == \A s \in BatchServers : \A b \in worker[s].todo : Exists(b)

BatchesIInv ==
  /\ BatchesTypeOK
  /\ \A b \in BatchIds : RowInv(b)
  /\ \A s \in BatchServers : OwnsBatch(s) /\ LineIsCurrent(s) /\ FinishesBatch(s)
=============================================================================
