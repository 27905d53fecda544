---------------------------- MODULE EngineWorker ----------------------------
(***************************************************************************)
(* The engine worker thread and the requests it serves: the bounded job    *)
(* queue, FIFO admission with its one waiting job, the batched step that   *)
(* fills each request's outbox, the delivery into bounded channels, the    *)
(* readers at the other end, and the count of admitted requests whose      *)
(* releases wake deferred resumptions (api/worker.rs and api.rs of         *)
(* local-engine; serve.rs, sse.rs, chunked.rs and backpressure.rs of       *)
(* local-ai).                                                              *)
(*                                                                         *)
(* One action of the worker is one job admitted, one step of the engine or *)
(* one delivery flushed.  What the engine does inside a step is Scheduler. *)
(***************************************************************************)
EXTENDS Naturals, Sequences, FiniteSets

CONSTANTS
  Clients,        \* requests that clients send
  Interrupted,    \* background requests a restart resumes
  NoJob,
  QueueCapacity,  \* SERVE_QUEUE
  EventBuffer,    \* the capacity of one request's channel
  MaxRunning,     \* generations the engine admits together
  MaxPieces       \* bound: events of text one generation produces

ASSUME WorkerAssumption ==
  /\ QueueCapacity \in Nat \ {0} /\ EventBuffer \in Nat \ {0}
  /\ MaxRunning \in Nat \ {0} /\ MaxPieces \in Nat
  /\ Clients \cap Interrupted = {} /\ NoJob \notin Clients \cup Interrupted

VARIABLES
  reqs,      \* both ends of each request: the job's delivery and its reader
  queue,     \* the jobs sent to the worker, oldest first
  waiting,   \* the job taken off the queue that cannot start yet
  running,   \* Worker::running
  draining,  \* finished requests whose last events are not delivered
  pc,        \* where the worker's loop is
  flushed,   \* running requests this turn of the loop has flushed
  handle,    \* whether an EngineHandle is alive, so the queue is open
  permit,    \* Depth::freed, the one permit a release leaves
  task,      \* the task that resumes the interrupted requests
  sent       \* jobs sent so far, which numbers them

workerVars == <<reqs, queue, waiting, running, draining, pc, flushed, handle,
                permit, task, sent>>

Requests == Clients \cup Interrupted

(* An event of a stream: piece n of the text, a prefill boundary, or the   *)
(* one that ends it.                                                       *)
Piece(n) == <<"piece", n>>
Mark(what) == <<what, 0>>
Terminal == {Mark("finished"), Mark("error"), Mark("answer")}

Unsent == [phase |-> "new", kind |-> "chat", ticket |-> 0,
           cancel |-> FALSE, left |-> FALSE, recv |-> TRUE, send |-> FALSE,
           chan |-> <<>>, outbox |-> <<>>, made |-> 0, heard |-> FALSE,
           seen |-> <<>>, counted |-> FALSE]

WorkerInit ==
  /\ reqs = [r \in Requests |-> Unsent]
  /\ queue = <<>> /\ waiting = NoJob /\ running = {} /\ draining = {}
  /\ pc = "top" /\ flushed = {} /\ handle = TRUE /\ permit = FALSE
  /\ task = "starting" /\ sent = 0

----------------------------------------------------------------------------
(* Submission and the count of admitted requests. *)

Full == Len(queue) >= QueueCapacity

(* EngineHandle::send: the job joins the queue. *)
Send(r, q) ==
  /\ queue' = Append(queue, r)
  /\ sent' = sent + 1
  /\ reqs' = [reqs EXCEPT ![r] = [q EXCEPT !.send = TRUE, !.ticket = sent + 1]]

(* A client's request is submitted on the blocking pool: a full queue is a *)
(* 503, and the handler counts the request only once the call returned.    *)
Submit(r) ==
  /\ task # "starting" /\ handle
  /\ r \in Clients /\ reqs[r].phase = "new"
  /\ \/ /\ Full
        /\ reqs' = [reqs EXCEPT ![r].phase = "done", ![r].recv = FALSE]
        /\ UNCHANGED <<queue, sent>>
     \/ /\ ~Full
        /\ \E kind \in {"chat", "unfit", "decision"} :
             Send(r, [Unsent EXCEPT !.phase = "submitting", !.kind = kind])
  /\ UNCHANGED <<waiting, running, draining, pc, flushed, handle, permit, task>>

(* QueueDepth::admit, once the submission returned to its handler. *)
Count(r) ==
  /\ reqs[r].phase = "submitting"
  /\ reqs' = [reqs EXCEPT ![r].phase = "first", ![r].counted = TRUE]
  /\ UNCHANGED <<queue, waiting, running, draining, pc, flushed, handle, permit,
                 task, sent>>

(* A request with neither a reader nor a delivery has no state left but    *)
(* how it ended.                                                           *)
Cleared(q) == IF q.recv \/ q.send THEN q
              ELSE [Unsent EXCEPT !.phase = q.phase, !.recv = FALSE]

(* The reader q returned: its EventStream drops, which closes the channel  *)
(* and cancels, and so does its Admitted guard, which tells one waiter.    *)
Returned(q) == Cleared([q EXCEPT !.phase = IF @ \in {"left", "orphan"} THEN "left"
                                                                       ELSE "done",
                                 !.recv = FALSE, !.cancel = TRUE, !.left = FALSE,
                                 !.chan = <<>>, !.seen = <<>>, !.counted = FALSE])

(* Mutant of ReleaseOf: a release tells nobody. *)
ReleaseOfUntold(q) == UNCHANGED permit

ReleaseOf(q) == permit' = (permit \/ q.counted)

----------------------------------------------------------------------------
(* The readers: the handler's wait for the first signal, then its pump. *)

Reading == {"first", "pump", "orphan"}

(* next_signal: the next item, or the end once the delivery is gone.  A    *)
(* terminal event ends the pump.  The frame for any other may find the     *)
(* client not reading.  The blocking thread of a handler that is gone      *)
(* drops the stream with whatever it got.                                  *)
ReadSignal(r) ==
  LET q == reqs[r]
      got == [q EXCEPT !.seen = Append(@, Head(q.chan)), !.chan = Tail(@)]
  IN /\ q.phase \in Reading
     /\ \/ /\ q.chan # <<>>
           /\ IF Head(q.chan) \in Terminal \/ q.phase = "orphan"
              THEN reqs' = [reqs EXCEPT ![r] = Returned(got)] /\ ReleaseOf(q)
              ELSE /\ \E phase \in {"pump", "stuck"} :
                        /\ phase = "stuck" => r \in Clients
                        /\ reqs' = [reqs EXCEPT ![r] = [got EXCEPT !.phase = phase]]
                   /\ UNCHANGED permit
        \/ /\ q.chan = <<>> /\ ~q.send
           /\ reqs' = [reqs EXCEPT ![r] = Returned(q)] /\ ReleaseOf(q)
     /\ UNCHANGED <<queue, waiting, running, draining, pc, flushed, handle, task,
                    sent>>

(* A client that stopped reading reads on. *)
ClientReads(r) ==
  /\ reqs[r].phase = "stuck"
  /\ reqs' = [reqs EXCEPT ![r].phase = "pump"]
  /\ UNCHANGED <<queue, waiting, running, draining, pc, flushed, handle, permit,
                 task, sent>>

(* send_frame gives up on it, after the stall budget or a closed socket,   *)
(* and the pump returns.                                                   *)
StallOut(r) ==
  /\ reqs[r].phase = "stuck"
  /\ reqs' = [reqs EXCEPT ![r] = Returned(@)]
  /\ ReleaseOf(reqs[r])
  /\ UNCHANGED <<queue, waiting, running, draining, pc, flushed, handle, task, sent>>

(* A client leaves before its headers were sent.  While its submission     *)
(* runs, the handler has not counted it: Submitting cancels and the stream *)
(* is dropped unseen.  While the first signal is awaited the handler's     *)
(* guards drop, and the blocking thread keeps the stream until something   *)
(* comes.  A decision's reply drops with its handler.                      *)
Leave(r) ==
  LET q == [reqs[r] EXCEPT !.left = TRUE]
      awaited == q.phase = "first" /\ q.kind # "decision"
  IN /\ r \in Clients /\ q.phase \in {"submitting", "first"}
     /\ reqs' = [reqs EXCEPT ![r] =
                   IF awaited THEN [q EXCEPT !.phase = "orphan", !.cancel = TRUE,
                                             !.counted = FALSE]
                              ELSE Returned([q EXCEPT !.phase = "left"])]
     /\ ReleaseOf(q)
     /\ UNCHANGED <<queue, waiting, running, draining, pc, flushed, handle, task,
                    sent>>

(* CancelHandle::cancel: the cancel route, or shutdown's cancel_all. *)
CancelRequest(r) ==
  /\ reqs[r].phase \in Reading /\ ~reqs[r].cancel
  /\ reqs' = [reqs EXCEPT ![r].cancel = TRUE, ![r].left = TRUE]
  /\ UNCHANGED <<queue, waiting, running, draining, pc, flushed, handle, permit,
                 task, sent>>

----------------------------------------------------------------------------
(* The task that resumes interrupted requests.  What the engine queue      *)
(* takes is resumed before the server serves; the task then waits for      *)
(* releases and tries again.                                               *)

Deferred == {r \in Interrupted : reqs[r].phase = "new"}

ResumeEach ==
  /\ task \in {"starting", "retrying"}
  /\ \/ /\ Deferred = {}
        /\ task' = "over" /\ UNCHANGED <<reqs, queue, sent>>
     \/ /\ Deferred # {} /\ Full
        /\ task' = "waiting" /\ UNCHANGED <<reqs, queue, sent>>
     \/ /\ ~Full
        /\ \E r \in Deferred :
             Send(r, [Unsent EXCEPT !.phase = "pump", !.counted = TRUE])
        /\ UNCHANGED task
  /\ UNCHANGED <<waiting, running, draining, pc, flushed, handle, permit>>

(* QueueDepth::freed *)
Freed ==
  /\ task = "waiting" /\ permit
  /\ permit' = FALSE /\ task' = "retrying"
  /\ UNCHANGED <<reqs, queue, waiting, running, draining, pc, flushed, handle, sent>>

(* The server ends once no handler or pump is left: the last EngineHandle  *)
(* drops, which closes the queue.                                          *)
DropHandle ==
  /\ handle /\ task = "over"
  /\ \A r \in Requests : reqs[r].phase \in {"new", "orphan", "left", "done"}
  /\ handle' = FALSE
  /\ UNCHANGED <<reqs, queue, waiting, running, draining, pc, flushed, permit,
                 task, sent>>

----------------------------------------------------------------------------
(* The worker: admission. *)

Gone(q) == q.cancel \/ ~q.recv

(* The delivery of q is dropped with what it still holds. *)
Dropped(q) == Cleared([q EXCEPT !.send = FALSE, !.outbox = <<>>])

(* The next turn of Worker::run: an idle worker blocks for a job, and ends *)
(* once the queue is closed and empty.                                     *)
TakeTurn ==
  /\ pc = "top"
  /\ IF running = {} /\ waiting = NoJob
     THEN \/ /\ queue # <<>>
             /\ waiting' = Head(queue) /\ queue' = Tail(queue)
             /\ pc' = "admit" /\ UNCHANGED <<reqs, draining>>
          \/ /\ queue = <<>> /\ ~handle
             /\ pc' = "stopped" /\ draining' = {}
             /\ reqs' = [r \in Requests |-> IF r \in draining THEN Dropped(reqs[r])
                                                              ELSE reqs[r]]
             /\ UNCHANGED <<queue, waiting>>
     ELSE pc' = "admit" /\ UNCHANGED <<reqs, queue, waiting, draining>>
  /\ UNCHANGED <<running, flushed, handle, permit, task, sent>>

(* What becomes of the job j at an admission point: decision_gate for a    *)
(* decision, the checks of admit_waiting for a generation.                 *)
Verdicts(j) ==
  LET q == reqs[j]
  IN IF Gone(q) THEN {"drop"}
     ELSE CASE q.kind = "decision" -> {IF running = {} THEN "answer" ELSE "wait"}
            [] q.kind = "unfit" -> {"refuse"}
            [] q.kind = "chat" -> IF Cardinality(running) >= MaxRunning
                                  THEN {"wait"} ELSE {"start", "fail"}

(* admit_waiting with the job j: it starts, fails to start, is refused,    *)
(* answered or dropped; or it waits, and the admission is over.            *)
Admitted(j, verdict) ==
  LET q == reqs[j]
  IN /\ pc' = IF verdict = "wait" THEN "step" ELSE "admit"
     /\ running' = IF verdict = "start" THEN running \cup {j} ELSE running
     /\ draining' = IF verdict = "fail" THEN draining \cup {j} ELSE draining
     /\ reqs' = [reqs EXCEPT ![j] =
          CASE verdict = "drop" -> Dropped([q EXCEPT !.cancel = TRUE])
            [] verdict = "answer" ->
                 Dropped([q EXCEPT !.chan = Append(@, Mark("answer"))])
            [] verdict = "refuse" ->
                 Dropped([q EXCEPT !.cancel = TRUE, !.chan =
                   IF Len(@) < EventBuffer THEN Append(@, Mark("error")) ELSE @])
            [] verdict = "fail" -> [q EXCEPT !.outbox = Append(@, Mark("error"))]
            [] OTHER -> q]

NothingToAdmit ==
  /\ waiting = NoJob /\ queue = <<>>
  /\ pc' = "step" /\ UNCHANGED <<reqs, queue, waiting, running, draining>>

(* Mutant of AdmitWaiting: a later job may go past the one that waits. *)
AdmitWaitingPast ==
  /\ pc = "admit"
  /\ \/ NothingToAdmit
     \/ \E j \in ({waiting} \cup {queue[n] : n \in DOMAIN queue \cap {1}}) \ {NoJob} :
          \E verdict \in Verdicts(j) :
            /\ verdict = "wait" => waiting \in {NoJob, j}
            /\ queue' = IF j = waiting THEN queue ELSE Tail(queue)
            /\ waiting' = IF verdict = "wait" THEN j
                          ELSE IF j = waiting THEN NoJob ELSE waiting
            /\ Admitted(j, verdict)
  /\ UNCHANGED <<flushed, handle, permit, task, sent>>

(* One turn of admit_waiting: the waiting job, or the next of the queue. *)
AdmitWaiting ==
  /\ pc = "admit"
  /\ \/ NothingToAdmit
     \/ /\ waiting # NoJob \/ queue # <<>>
        /\ LET j == IF waiting # NoJob THEN waiting ELSE Head(queue)
           IN \E verdict \in Verdicts(j) :
                /\ queue' = IF waiting # NoJob THEN queue ELSE Tail(queue)
                /\ waiting' = IF verdict = "wait" THEN j ELSE NoJob
                /\ Admitted(j, verdict)
  /\ UNCHANGED <<flushed, handle, permit, task, sent>>

----------------------------------------------------------------------------
(* The worker: one step of the engine. *)

(* What one step may do for a generation q: report a prefill boundary,     *)
(* emit a piece, finish or fail.  A cancelled one ends, or fails.          *)
Advances(q) ==
  {"finish", "fail"} \cup
  IF Gone(q) THEN {}
  ELSE (IF q.made < MaxPieces THEN {"piece"} ELSE {}) \cup
       (IF q.made = 0 /\ ~q.heard THEN {"progress"} ELSE {})

(* Delivery::emit, Delivery::complete and reporter.  An event is pushed    *)
(* only while somebody listens, but an error always; a boundary goes to    *)
(* the channel itself, if it has room.                                     *)
Advanced(q, what) ==
  CASE what = "progress" ->
         [q EXCEPT !.heard = TRUE,
                   !.chan = IF q.recv /\ Len(@) < EventBuffer
                            THEN Append(@, Mark("progress")) ELSE @]
    [] what = "piece" ->
         [q EXCEPT !.made = @ + 1, !.outbox = Append(@, Piece(q.made + 1))]
    [] what = "finish" /\ ~Gone(q) -> [q EXCEPT !.outbox = Append(@, Mark("finished"))]
    [] what = "fail" -> [q EXCEPT !.outbox = Append(@, Mark("error"))]
    [] OTHER -> q

StepEngine ==
  /\ pc = "step"
  /\ \E does \in [running -> {"progress", "piece", "finish", "fail"}] :
       LET over == {r \in running : does[r] \in {"finish", "fail"}}
       IN /\ \A r \in running : does[r] \in Advances(reqs[r])
          /\ reqs' = [r \in Requests |-> IF r \in running
                                         THEN Advanced(reqs[r], does[r]) ELSE reqs[r]]
          /\ running' = running \ over
          /\ draining' = draining \cup over
  /\ pc' = "flush" /\ flushed' = {}
  /\ UNCHANGED <<queue, waiting, handle, permit, task, sent>>

----------------------------------------------------------------------------
(* The worker: delivery. *)

Room(q) == EventBuffer - Len(q.chan)

(* Mutant of Flushed: what the channel refuses is lost. *)
FlushedOnce(q) ==
  LET n == IF Room(q) < Len(q.outbox) THEN Room(q) ELSE Len(q.outbox)
  IN IF q.outbox # <<>> /\ ~q.recv
     THEN [q EXCEPT !.cancel = TRUE, !.outbox = <<>>]
     ELSE [q EXCEPT !.chan = @ \o SubSeq(q.outbox, 1, n), !.outbox = <<>>]

(* Delivery::flush: as much of the outbox as the channel takes, in order;  *)
(* a closed channel cancels and drops the rest.                            *)
Flushed(q) ==
  LET n == IF Room(q) < Len(q.outbox) THEN Room(q) ELSE Len(q.outbox)
  IN IF q.outbox # <<>> /\ ~q.recv
     THEN [q EXCEPT !.cancel = TRUE, !.outbox = <<>>]
     ELSE [q EXCEPT !.chan = @ \o SubSeq(q.outbox, 1, n),
                    !.outbox = SubSeq(@, n + 1, Len(@))]

(* Worker::flush waits for the reader of a request that is alone. *)
Alone == Cardinality(running) <= 1 /\ waiting = NoJob

FlushRunning(r) ==
  LET q == Flushed(reqs[r])
  IN /\ pc = "flush" /\ r \in running \ flushed
     /\ Alone /\ reqs[r].outbox # <<>> => q # reqs[r]
     /\ reqs' = [reqs EXCEPT ![r] = q]
     /\ flushed' = IF Alone /\ q.outbox # <<>> THEN flushed ELSE flushed \cup {r}
     /\ UNCHANGED <<queue, waiting, running, draining, pc, handle, permit, task, sent>>

(* Worker::flush_draining: never waits; a delivery with nothing left is    *)
(* cancelled and dropped.                                                  *)
Settled(q) ==
  LET f == Flushed(q)
  IN IF f.outbox = <<>> THEN Dropped([f EXCEPT !.cancel = TRUE]) ELSE f

FlushDraining ==
  /\ draining' = {r \in draining : Settled(reqs[r]).outbox # <<>>}
  /\ reqs' = [r \in Requests |-> IF r \in draining THEN Settled(reqs[r]) ELSE reqs[r]]
  /\ UNCHANGED <<queue, waiting, running, handle, permit, task, sent>>

EndTurn ==
  /\ pc = "flush" /\ flushed = running
  /\ FlushDraining /\ flushed' = {} /\ pc' = "top"

(* Mutant of IdleFlush: only a new job wakes the idle worker. *)
IdleFlushWithJob ==
  /\ pc = "top" /\ running = {} /\ waiting = NoJob /\ queue # <<>>
  /\ \E r \in draining : Settled(reqs[r]) # reqs[r]
  /\ FlushDraining /\ UNCHANGED <<pc, flushed>>

(* next_job: an idle worker is woken when a draining reader makes room. *)
IdleFlush ==
  /\ pc = "top" /\ running = {} /\ waiting = NoJob
  /\ \E r \in draining : Settled(reqs[r]) # reqs[r]
  /\ FlushDraining /\ UNCHANGED <<pc, flushed>>

WorkerStep ==
  \/ TakeTurn \/ AdmitWaiting \/ StepEngine \/ EndTurn \/ IdleFlush
  \/ \E r \in Requests : FlushRunning(r)

ResumeTask == ResumeEach \/ Freed

WorkerNext ==
  \/ WorkerStep \/ ResumeTask \/ DropHandle
  \/ \E r \in Requests : Submit(r) \/ Leave(r) \/ CancelRequest(r)
  \/ \E r \in Requests : Count(r) \/ ReadSignal(r) \/ ClientReads(r) \/ StallOut(r)

WorkerSpec == WorkerInit /\ [][WorkerNext]_workerVars

ReaderStep ==
  \E r \in Requests : Count(r) \/ ReadSignal(r) \/ ClientReads(r) \/ StallOut(r)

(* The worker thread and the resume task run, and so do the readers: a     *)
(* handler or pump reads what is there, and a client that stopped reading  *)
(* reads on or is dropped by the stall timer.  Clients need not leave.     *)
WorkerFairness ==
  /\ WF_workerVars(WorkerStep)
  /\ WF_workerVars(ResumeTask)
  /\ WF_workerVars(ReaderStep)

WorkerFairSpec == WorkerSpec /\ WorkerFairness

----------------------------------------------------------------------------
(* Properties. *)

(* Everything ever delivered, or about to be, to the reader of q. *)
Events(q) == q.seen \o q.chan \o q.outbox

(* The pieces of s come in order and none is missing, after the prefill    *)
(* boundary if one was reported, and nothing follows a terminal event.     *)
Lead(s) == IF s # <<>> /\ s[1] = Mark("progress") THEN 1 ELSE 0
InOrder(s) ==
  \A i \in (1 + Lead(s))..Len(s) :
    IF s[i] \in Terminal THEN i = Len(s) ELSE s[i] = Piece(i - Lead(s))
Ends(s) == s # <<>> /\ s[Len(s)] \in Terminal

(* The events of every request reach its reader in the order the engine    *)
(* made them, none missing and at most one terminal event, last; and the   *)
(* stream of a request nobody cancelled is closed only after that terminal *)
(* event is in it, whatever fills up, refuses or fails on the way, unless  *)
(* the server is gone (Delivery::flush puts an event a full channel        *)
(* refused back in front; admit_waiting's try_send of an error must find   *)
(* room).                                                                  *)
StreamsEndOnce ==
  \A r \in Requests :
    LET q == reqs[r]
    IN /\ q.recv => InOrder(Events(q))
       /\ (q.recv /\ q.ticket # 0 /\ ~q.send /\ ~q.left /\ pc # "stopped") =>
            Ends(Events(q))

(* A job enters the engine only when every job sent before it has entered  *)
(* it, was dropped or was refused: admission is FIFO across generations    *)
(* and decisions, so neither starves the other ("While it waits no later   *)
(* job is taken, so admission stays FIFO").                                *)
AdmissionIsFifo ==
  [][\A r \in running' \ running, s \in Requests :
       (0 < reqs[s].ticket /\ reqs[s].ticket < reqs[r].ticket /\ reqs[s].send)
         => s \in running \cup draining]_workerVars

(* Every job sent is over at the worker in the end, though clients stop    *)
(* reading for as long as the stall timer lets them: no full channel holds *)
(* the worker up for good.                                                 *)
JobsSettle ==
  \A r \in Requests : (reqs[r].send /\ handle) ~> ~reqs[r].send

(* A deferred resumption waits without a permit only while some request is *)
(* counted, or about to be, whose release will wake it: no release is      *)
(* missed between a full queue and the wait (QueueDepth::freed).  Clients  *)
(* that leave before their first signal are the exception, see below.      *)
DeferredIsWoken ==
  (task = "waiting" /\ ~permit) =>
    \/ \E r \in Requests : reqs[r].counted \/ reqs[r].phase = "submitting"
    \/ \E r \in Clients : reqs[r].phase \in {"orphan", "left"}

(* "each deferred one once a queue slot is released": a resumption the     *)
(* full queue deferred is taken by the queue in the end.  A client that    *)
(* leaves while its job is queued releases its count at once, but its slot *)
(* of the queue only when the worker comes to drop the job, which wakes    *)
(* nobody.                                                                 *)
DeferredAlwaysResume == (task = "waiting") ~> (Deferred = {})
----------------------------------------------------------------------------
(* The inductive invariant behind StreamsEndOnce, AdmissionIsFifo and      *)
(* DeferredIsWoken (RuntimeProofs). *)

Event == {"piece", "progress", "finished", "error", "answer"} \X Nat
Attended == {"first", "pump", "stuck"}
RequestRow ==
  [phase: {"new", "submitting", "orphan", "left", "done"} \cup Attended,
   kind: {"chat", "unfit", "decision"}, ticket: Nat, cancel: BOOLEAN, left: BOOLEAN,
   recv: BOOLEAN, send: BOOLEAN, chan: Seq(Event), outbox: Seq(Event), made: Nat,
   heard: BOOLEAN, seen: Seq(Event), counted: BOOLEAN]

WorkerTypeOK ==
  /\ reqs \in [Requests -> RequestRow] /\ queue \in Seq(Requests)
  /\ waiting \in Requests \cup {NoJob} /\ running \subseteq Requests
  /\ draining \subseteq Requests /\ flushed \subseteq Requests
  /\ pc \in {"top", "admit", "step", "flush", "stopped"}
  /\ handle \in BOOLEAN /\ permit \in BOOLEAN /\ sent \in Nat
  /\ task \in {"starting", "retrying", "waiting", "over"}

Queued  == {queue[i] : i \in 1..Len(queue)}
Unstarted(r) == r \in Queued \/ r = waiting

(* A job with a delivery is in exactly one place of the worker, and those  *)
(* still to be admitted are in the order they were sent.                   *)
PlacesInv ==
  /\ \A r \in Requests : reqs[r].send <=> (Unstarted(r) \/ r \in running \cup draining)
  /\ \A r \in Requests : Unstarted(r) => r \notin running \cup draining
  /\ running \cap draining = {} /\ waiting \notin Queued
  /\ \A i, j \in 1..Len(queue) : i < j => reqs[queue[i]].ticket < reqs[queue[j]].ticket
  /\ waiting # NoJob =>
       \A i \in 1..Len(queue) : reqs[waiting].ticket < reqs[queue[i]].ticket
  /\ \A r \in Requests : reqs[r].ticket <= sent /\ (reqs[r].send => reqs[r].ticket # 0)

(* What the phase of the request r, with the row q, says of its reader. *)
PhaseInv(r, q) ==
  /\ q.recv <=> q.phase \notin {"left", "done"}
  /\ q.counted <=> q.phase \in Attended
  /\ q.phase \in {"orphan", "left"} => r \in Clients
  /\ q.phase = "new" => /\ q.ticket = 0 /\ ~q.send
                        /\ q.seen = <<>> /\ q.chan = <<>> /\ q.outbox = <<>>
  /\ q.recv /\ q.send /\ ~q.left => ~q.cancel
  /\ Len(q.chan) <= EventBuffer
  /\ Unstarted(r) => q.phase \notin {"stuck", "done"}

(* The stream of a generation that runs: its pieces so far. *)
OpenStream(q) ==
  LET s == Events(q)
  IN /\ Len(s) = q.made + Lead(s) /\ (~q.heard => Lead(s) = 0)
     /\ \A i \in (1 + Lead(s))..Len(s) : s[i] = Piece(i - Lead(s))

(* What its reader will have seen once everything is delivered. *)
StreamInv(r, q) ==
  q.recv =>
    /\ Unstarted(r) => /\ q.seen = <<>> /\ q.chan = <<>> /\ q.outbox = <<>>
                  /\ q.made = 0 /\ ~q.heard
    /\ r \in running => OpenStream(q)
    /\ InOrder(Events(q))
    /\ q.ticket # 0 /\ ~q.left /\ (r \in draining \/ (~q.send /\ pc # "stopped"))
         => Ends(Events(q))

WorkerIInv ==
  /\ WorkerTypeOK /\ PlacesInv /\ DeferredIsWoken
  /\ \A r \in Requests : PhaseInv(r, reqs[r]) /\ StreamInv(r, reqs[r])
============================================================================
