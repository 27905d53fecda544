--------------------------- MODULE BackgroundJob ---------------------------
(***************************************************************************)
(* The life of one background Response in servers that share a response    *)
(* store: admission, the pump that folds the engine's signals in, the      *)
(* settlement of its record and journal, cancellation, deletion, shutdown, *)
(* crashes, and the recovery or resumption of interrupted work             *)
(* (background.rs, journal.rs, store.rs, responses/state.rs and the        *)
(* routes of serve.rs that reach them).                                    *)
(*                                                                         *)
(* One action is one write to the store, or one change of the memory of a  *)
(* server under one lock: a crash may fall between any two.  The write     *)
(* lease is the one WriteLease specifies.                                  *)
(***************************************************************************)
EXTENDS Naturals, Sequences, FiniteSets

CONSTANTS
  Servers, NoServer,
  Shapes,        \* the requests considered, see ShapesAssumption
  Pruning,       \* whether servers prune the store while they run
  MaxItems,      \* bound: output items of one generation
  MaxFaults,     \* bound: writes that fail
  MaxStops,      \* bound: crashes and shutdowns
  MaxDeferrals   \* bound: resumptions that find the engine's queue full

(* A request: whether it streams (keeps a journal), whether its record     *)
(* keeps the request it can be resumed from, whether it declares hosted    *)
(* tools, asks for a reasoning summary, starts with a compaction item.     *)
ASSUME ShapesAssumption ==
  /\ Shapes \subseteq [streamed: BOOLEAN, request: BOOLEAN, hosted: BOOLEAN,
                       summary: BOOLEAN, compaction: BOOLEAN]
  /\ Shapes # {}
ASSUME ServersAssumption == NoServer \notin Servers
ASSUME BoundsAssumption ==
  /\ MaxItems \in Nat /\ MaxFaults \in Nat /\ MaxStops \in Nat
  /\ MaxDeferrals \in Nat /\ Pruning \in BOOLEAN

VARIABLES
  (* the store's files for this response *)
  status,      \* what its record says; "new", "submitted", "gone": none
  journal,     \* the whole lines of its journal
  frag,        \* an incomplete line follows them
  jfile,       \* the journal's name exists
  marker,      \* the hosted-tool marker exists
  (* the write lease, and what its holder is doing under it *)
  lease, task, verdict,
  (* each server *)
  server,      \* "down", "sweeping", "resuming", "serving", "closing"
  deferred,    \* the resumption a full queue put off: "no","waiting","retrying"
  registered,  \* the registry answers for the job here
  phase,       \* Phase of the job
  step,        \* where the holder of the job's lock is, "free" when nobody
  target,      \* the end it is settling on
  doc,         \* the ResponsesState
  writer,      \* the JournalWriter: "none", "ok", "broken"
  pub,         \* Published
  intr,        \* Job::interrupt
  wait,        \* handlers waiting for the job's lock
  deleting,    \* a deletion without the lease has removed the record
  subscribing, \* a streaming GET is between adopt_orphan and subscribe
  gen,         \* the native generation
  marked,      \* its tool loop has passed before_tools
  (* the environment *)
  shape,       \* the request
  runs,        \* generations started so far
  toolRuns,    \* history: the generations that executed a hosted call
  faults, stops, deferrals

files   == <<status, journal, frag, jfile, marker>>
leasing == <<lease, task, verdict>>
boot    == <<server, deferred>>
job     == <<registered, phase, step, target, doc, writer, pub, intr>>
rest    == <<wait, deleting, subscribing>>
engine  == <<gen, marked, runs, toolRuns>>
bounds  == <<faults, stops, deferrals>>
vars    == <<files, leasing, boot, job, rest, engine, shape, bounds>>

Failures == {"error", "stopped", "shutdown", "unstored", "unjournaled",
             "deleted", "no_request", "not_resumed", "refused"}
Ends     == {"completed", "incomplete", "cancelled"} \cup Failures
Pending  == {"queued", "in_progress"}
Unstored == {"new", "submitted", "gone"}
NoEnd    == "none"

(***************************************************************************)
(* Journal lines.  A line's sequence number is its place.                  *)
(***************************************************************************)
Line(kind, item, end) == [kind |-> kind, item |-> item, end |-> end]
Created     == Line("created", 0, NoEnd)
Queued      == Line("queued", 0, NoEnd)
InProgress  == Line("in_progress", 0, NoEnd)
Added(i)    == Line("added", i, NoEnd)
Done(i)     == Line("done", i, NoEnd)
Piece(i)    == Line("summary", i, NoEnd)

(* terminal_events: a failed response ends with an `error` event before    *)
(* its final one, any other with one event.                                *)
TerminalEvents(end) ==
  IF end \in Failures THEN <<Line("error", 0, end), Line("final", 0, end)>>
                      ELSE <<Line("final", 0, end)>>

Lines(lines) == {lines[n] : n \in 1..Len(lines)}
Ended(lines) == lines # <<>> /\ lines[Len(lines)].kind = "final"

(* settle_interrupted, ended_with: a record adopts the end its journal     *)
(* already carries; otherwise it fails for the given reason.               *)
Adopted(reason) == IF jfile /\ Ended(journal) THEN journal[Len(journal)].end
                                              ELSE reason

(***************************************************************************)
(* ResponsesState: the output items folded in, and the events not yet      *)
(* journaled.  `open` is the item text is appended to (0: none), `waiting` *)
(* the reasoning item whose `done` waits for its summary; `begun` and      *)
(* `pieced` say whether this generation has output, its summary a piece.   *)
(***************************************************************************)
Emit(d, lines) == IF shape.streamed THEN [d EXCEPT !.buf = @ \o lines] ELSE d

(* close: finish the open item, or leave a reasoning item to its summary. *)
CloseItem(d) ==
  IF d.open = 0 THEN d
  ELSE IF d.reasoning /\ shape.summary
         THEN [d EXCEPT !.open = 0, !.waiting = d.open]
         ELSE [Emit(d, <<Done(d.open)>>) EXCEPT !.open = 0]

(* release: finish the item that waits for its summary. *)
Release(d) == IF d.waiting = 0 THEN d
              ELSE [Emit(d, <<Done(d.waiting)>>) EXCEPT !.waiting = 0]

(* fail and cancelled, without the end events settle retracts. *)
EndDoc(d) == Release(CloseItem(d))

(* started: `in_progress`, and the compaction item, made before it. *)
Started(d) == Emit(d, IF shape.compaction THEN <<InProgress, Added(1), Done(1)>>
                                          ELSE <<InProgress>>)

(* text: open an item of another kind; call: an item rendered whole. *)
OpenItem(d, reasoning) ==
  LET c == CloseItem(d) IN
  [Emit(c, <<Added(c.items + 1)>>) EXCEPT
     !.items = @ + 1, !.open = c.items + 1, !.reasoning = reasoning,
     !.begun = TRUE]
Call(d) ==
  LET c == CloseItem(d) IN
  [Emit(c, <<Added(c.items + 1), Done(c.items + 1)>>) EXCEPT
     !.items = @ + 1, !.begun = TRUE]

(* What a journal says of the generations that wrote it. *)
Announced == InProgress \in Lines(journal)
Items == {l.item : l \in {m \in Lines(journal) : m.kind = "added"}}
Unfinished == {i \in Items : Done(i) \notin Lines(journal)}

(* Mutant of Boundaries: open items are left open. *)
BoundariesForgotten == {<<>>}

(* resume_from: the events that finish what a lost generation left open,   *)
(* by index, the compaction item first when its batch was cut before it.   *)
(* The set holds the one such batch.                                       *)
Boundaries ==
  LET lost == IF shape.compaction /\ Announced /\ 1 \notin Items
                THEN <<Added(1), Done(1)>> ELSE <<>>
      n == Cardinality(Unfinished)
      ascending == {f \in [1..n -> Unfinished] :
                      \A i, j \in 1..n : i < j => f[i] < f[j]}
  IN {lost \o [i \in 1..n |-> Done(f[i])] : f \in ascending}

(* A document that takes over the items of its journal, if it has any. *)
NewDoc(items) == [buf |-> <<>>, open |-> 0, reasoning |-> FALSE, waiting |-> 0,
                  begun |-> FALSE, pieced |-> FALSE, items |-> items]

(* Mutant of LastItems: a resumed document numbers its items from the start.*)
LastItemsForgotten == {0}

(* The number of the last item announced, as the one member of a set. *)
LastItems ==
  LET items == Items \cup {IF shape.compaction THEN 1 ELSE 0}
  IN {i \in items : \A j \in items : j <= i}

NoPub == [lines |-> 0, settled |-> FALSE, deleted |-> FALSE, torn |-> FALSE]

Init ==
  /\ status = "new" /\ journal = <<>> /\ frag = FALSE /\ jfile = FALSE
  /\ marker = FALSE
  /\ lease = NoServer /\ task = "none" /\ verdict = NoEnd
  /\ server = [s \in Servers |-> "down"]
  /\ deferred = [s \in Servers |-> "no"]
  /\ registered = [s \in Servers |-> FALSE]
  /\ phase = [s \in Servers |-> "none"]
  /\ step = [s \in Servers |-> "free"]
  /\ target = [s \in Servers |-> NoEnd]
  /\ doc = [s \in Servers |-> NewDoc(0)]
  /\ writer = [s \in Servers |-> "none"]
  /\ pub = [s \in Servers |-> NoPub]
  /\ intr = [s \in Servers |-> "none"]
  /\ wait = [s \in Servers |-> {}]
  /\ deleting = [s \in Servers |-> FALSE]
  /\ subscribing = [s \in Servers |-> FALSE]
  /\ gen = [s \in Servers |-> "none"]
  /\ marked = [s \in Servers |-> FALSE]
  /\ shape \in Shapes
  /\ runs = 0 /\ toolRuns = {}
  /\ faults = 0 /\ stops = 0 /\ deferrals = 0

Set(f, s, v) == [f EXCEPT ![s] = v]
Up(s) == server[s] \in {"serving", "closing"}
Fault == faults < MaxFaults /\ faults' = faults + 1

(* A write that stops anywhere: whole lines of the batch, then part of one.*)
Cut(batch) == \E n \in 0..Len(batch) :
  /\ journal' = journal \o SubSeq(batch, 1, n)
  /\ frag' \in IF n < Len(batch) THEN BOOLEAN ELSE {FALSE}

(***************************************************************************)
(* JournalWriter::append, by the job's lock holder on server s.  A failed  *)
(* write is cut back off, or leaves part of its batch behind ("torn");     *)
(* after either the writer refuses to write.                               *)
(***************************************************************************)
Published(s, n, settles) ==
  Set(pub, s, [pub[s] EXCEPT !.lines = @ + n, !.settled = @ \/ settles])

Written(s, batch, settles) ==
  /\ writer[s] # "broken"
  /\ LET n == IF writer[s] = "ok" THEN Len(batch) ELSE 0 IN
       /\ journal' = IF n = 0 \/ frag THEN journal ELSE journal \o batch
       /\ pub' = Published(s, n, settles)
  /\ UNCHANGED <<frag, writer, faults>>

Refused(s, settles) ==
  /\ writer[s] = "broken"
  /\ pub' = Published(s, 0, settles)
  /\ UNCHANGED <<journal, frag, writer, faults>>

(* Mutant of RolledBack: the job's end is not announced when its events    *)
(* cannot be journaled.                                                    *)
RolledBackUnsettled(s, batch, settles) ==
  /\ writer[s] = "ok" /\ batch # <<>> /\ Fault
  /\ writer' = Set(writer, s, "broken")
  /\ pub' = Published(s, 0, FALSE)
  /\ UNCHANGED <<journal, frag>>

RolledBack(s, batch, settles) ==
  /\ writer[s] = "ok" /\ batch # <<>> /\ Fault
  /\ writer' = Set(writer, s, "broken")
  /\ pub' = Published(s, 0, settles)
  /\ UNCHANGED <<journal, frag>>

(* Mutant of Torn: the writer goes on after the failed write. *)
TornUnnoticed(s, batch, settles) ==
  /\ writer[s] = "ok" /\ batch # <<>> /\ Fault
  /\ pub' = Published(s, 0, settles)
  /\ UNCHANGED writer
  /\ Cut(batch)

Torn(s, batch, settles) ==
  /\ writer[s] = "ok" /\ batch # <<>> /\ Fault
  /\ writer' = Set(writer, s, "broken")
  /\ pub' = Set(pub, s, [Published(s, 0, settles)[s] EXCEPT !.torn = TRUE])
  /\ Cut(batch)

NotWritten(s, batch, settles) ==
  Refused(s, settles) \/ RolledBack(s, batch, settles) \/ Torn(s, batch, settles)

(* JournalWriter::resume and append, by the holder of the lease: the       *)
(* fragment is cut off first.                                              *)
Continued(batch) ==
  /\ journal' = journal \o batch
  /\ frag' = FALSE
  /\ UNCHANGED faults

NotContinued(batch) ==
  /\ Fault
  /\ Cut(batch) \/ UNCHANGED <<journal, frag>>

(***************************************************************************)
(* Inner::settle, under the job's lock.  The output events are journaled,  *)
(* the record is written, and only then the end.                           *)
(***************************************************************************)
BeginSettle(s, d, end) ==
  /\ doc' = Set(doc, s, EndDoc(d))
  /\ step' = Set(step, s, "flush")
  /\ target' = Set(target, s, end)

(* Every settlement that is not the engine's own end is followed by stop. *)
Stop(s) == gen' = Set(gen, s, IF gen[s] = "running" THEN "stopped" ELSE gen[s])

Unlocked(s, ph) ==
  /\ phase' = Set(phase, s, ph)
  /\ step' = Set(step, s, "free")
  /\ target' = Set(target, s, NoEnd)
  /\ Stop(s)

(* Mutant of Flush: the end is journaled with the output, before the record.*)
FlushWithEnd(s) ==
  /\ step[s] = "flush"
  /\ LET batch == doc[s].buf \o TerminalEvents(target[s]) IN
     Written(s, batch, FALSE) \/ NotWritten(s, batch, FALSE)
  /\ doc' = Set(doc, s, [doc[s] EXCEPT !.buf = <<>>])
  /\ step' = Set(step, s, "save")
  /\ UNCHANGED <<status, jfile, marker, leasing, boot, registered, phase, target,
                 intr, rest, engine, shape, stops, deferrals>>

Flush(s) ==
  /\ step[s] = "flush"
  /\ Written(s, doc[s].buf, FALSE) \/ NotWritten(s, doc[s].buf, FALSE)
  /\ doc' = Set(doc, s, [doc[s] EXCEPT !.buf = <<>>])
  /\ step' = Set(step, s, "save")
  /\ UNCHANGED <<status, jfile, marker, leasing, boot, registered, phase, target,
                 intr, rest, engine, shape, stops, deferrals>>

SaveEnd(s) ==
  /\ step[s] = "save"
  /\ \/ /\ status' = target[s]
        /\ step' = Set(step, s, "end")
        /\ UNCHANGED <<target, faults>>
     \/ /\ Fault
        /\ target' = Set(target, s, "unstored")
        /\ step' = Set(step, s, "resave")
        /\ UNCHANGED status
  /\ UNCHANGED <<journal, frag, jfile, marker, leasing, boot, registered, phase,
                 doc, writer, pub, intr, rest, engine, shape, stops, deferrals>>

ResaveEnd(s) ==
  /\ step[s] = "resave"
  /\ \/ /\ status' = target[s]
        /\ step' = Set(step, s, "end")
        /\ UNCHANGED faults
     \/ /\ Fault
        /\ step' = Set(step, s, "remove")
        /\ UNCHANGED status
  /\ UNCHANGED <<journal, frag, jfile, marker, leasing, boot, registered, phase,
                 target, doc, writer, pub, intr, rest, engine, shape, stops,
                 deferrals>>

(* publish_end, whose failure is ignored: readers then derive the end from *)
(* the record.                                                             *)
PublishEnd(s) ==
  /\ step[s] = "end"
  /\ \/ Written(s, TerminalEvents(target[s]), TRUE)
     \/ NotWritten(s, TerminalEvents(target[s]), TRUE)
  /\ Unlocked(s, "settled")
  /\ UNCHANGED <<status, jfile, marker, leasing, boot, registered, doc, intr, rest,
                 marked, runs, toolRuns, shape, stops, deferrals>>

(* Neither record could be written: store.delete, record first. *)
RemoveUnstored(s) ==
  /\ step[s] = "remove"
  /\ \/ /\ status' = "gone"
        /\ step' = Set(step, s, "unlink")
        /\ UNCHANGED <<phase, target, pub, gen, faults>>
     \/ /\ Fault
        /\ Unlocked(s, "store_failed")
        /\ pub' = Published(s, 0, TRUE)
        /\ UNCHANGED status
  /\ UNCHANGED <<journal, frag, jfile, marker, leasing, boot, registered, doc,
                 writer, intr, rest, marked, runs, toolRuns, shape, stops, deferrals>>

(* The journal and the marker go after the record; a failure leaves them   *)
(* to a sweep.                                                             *)
Unlinked ==
  \/ jfile' = FALSE /\ marker' = FALSE /\ UNCHANGED faults
  \/ Fault /\ UNCHANGED <<jfile, marker>>

UnlinkUnstored(s) ==
  /\ step[s] = "unlink"
  /\ Unlinked
  /\ Unlocked(s, "store_failed")
  /\ pub' = Published(s, 0, TRUE)
  /\ UNCHANGED <<status, journal, frag, leasing, boot, registered, doc, writer,
                 intr, rest, marked, runs, toolRuns, shape, stops, deferrals>>

Settling(s) ==
  \/ Flush(s) \/ SaveEnd(s) \/ ResaveEnd(s) \/ PublishEnd(s)
  \/ RemoveUnstored(s) \/ UnlinkUnstored(s)

(***************************************************************************)
(* Pump::run and Job::advance.                                             *)
(***************************************************************************)
Pumping(s) == lease = s /\ task = "pump"
Idle(s) == Pumping(s) /\ step[s] = "free" /\ phase[s] \in Pending

(* The first signal: `in_progress` is saved before anything is folded in. *)
SaveProgress(s) ==
  /\ Idle(s) /\ phase[s] = "queued" /\ gen[s] = "running"
  /\ \/ /\ status' = "in_progress"
        /\ phase' = Set(phase, s, "in_progress")
        /\ doc' = Set(doc, s, Started(doc[s]))
        /\ step' = Set(step, s, "fold")
        /\ UNCHANGED <<target, faults>>
     \/ /\ Fault
        /\ BeginSettle(s, doc[s], "unstored")
        /\ UNCHANGED <<status, phase>>
  /\ UNCHANGED <<journal, frag, jfile, marker, leasing, boot, registered, writer,
                 pub, intr, rest, engine, shape, stops, deferrals>>

Folding(s) ==
  /\ Pumping(s) /\ phase[s] = "in_progress"
  /\ \/ step[s] = "free" /\ gen[s] = "running"
     \/ step[s] = "fold"

FoldFrame == UNCHANGED <<files, leasing, boot, registered, phase, writer, pub, intr,
                         rest, marked, runs, toolRuns, shape, bounds>>

(* Prefill progress: nothing but what `started` emitted. *)
FoldProgress(s) ==
  /\ Folding(s) /\ step[s] = "fold"
  /\ step' = Set(step, s, "publish")
  /\ UNCHANGED <<doc, target, gen>> /\ FoldFrame

(* Text or a call opens an output item.  Only a tool loop's later rounds   *)
(* reason again.                                                           *)
FoldItem(s) ==
  /\ Folding(s) /\ doc[s].items < MaxItems
  /\ \/ /\ ~(doc[s].open # 0 /\ doc[s].reasoning)
        /\ shape.hosted \/ ~doc[s].begun
        /\ doc' = Set(doc, s, OpenItem(doc[s], TRUE))
     \/ /\ doc[s].open = 0 \/ doc[s].reasoning
        /\ doc' = Set(doc, s, OpenItem(doc[s], FALSE))
     \/ doc' = Set(doc, s, Call(doc[s]))
  /\ step' = Set(step, s, "publish")
  /\ UNCHANGED <<target, gen>> /\ FoldFrame

(* finish: the open item is closed; a reasoning item that waits for its    *)
(* summary gets it before the job settles.                                 *)
FoldFinished(s) ==
  /\ Folding(s)
  /\ doc' = Set(doc, s, CloseItem(doc[s]))
  /\ target' \in {Set(target, s, end) : end \in {"completed", "incomplete"}}
  /\ step' = Set(step, s, IF CloseItem(doc[s]).waiting # 0 THEN "summary" ELSE "flush")
  /\ gen' = Set(gen, s, "closed")
  /\ FoldFrame

(* How Job::fold ends a response that failed: as whoever interrupted it    *)
(* asked, if anyone did.                                                   *)
IntrEnd(s) == CASE intr[s] = "cancel" -> "cancelled"
                [] intr[s] = "close"  -> "shutdown"
                [] intr[s] = "delete" -> "deleted"
                [] OTHER              -> "error"

FoldError(s) ==
  /\ Folding(s)
  /\ BeginSettle(s, doc[s], IntrEnd(s))
  /\ gen' = Set(gen, s, "closed")
  /\ FoldFrame

(* The batch of events an unsettled document adds is journaled; if it      *)
(* cannot be, the job ends.                                                *)
Publish(s) ==
  /\ step[s] = "publish"
  /\ \/ /\ Written(s, doc[s].buf, FALSE)
        /\ doc' = Set(doc, s, [doc[s] EXCEPT !.buf = <<>>])
        /\ step' = Set(step, s, "free")
        /\ UNCHANGED target
     \/ /\ NotWritten(s, doc[s].buf, FALSE)
        /\ BeginSettle(s, [doc[s] EXCEPT !.buf = <<>>], "unjournaled")
  /\ UNCHANGED <<status, jfile, marker, leasing, boot, registered, phase, intr,
                 rest, engine, shape, stops, deferrals>>

(* Job::fold: each piece of a reasoning summary is journaled under the     *)
(* lock; the summary stops when that fails or when the job is interrupted. *)
SummaryPiece(s) ==
  /\ step[s] = "summary" /\ ~doc[s].pieced
  /\ LET d == Emit(doc[s], <<Piece(doc[s].waiting)>>)
         sent == [d EXCEPT !.buf = <<>>, !.pieced = TRUE]
     IN \/ /\ Written(s, d.buf, FALSE)
           /\ \/ /\ intr[s] = "none"
                 /\ doc' = Set(doc, s, sent)
                 /\ UNCHANGED <<step, target>>
              \/ /\ intr[s] # "none"
                 /\ BeginSettle(s, sent, IntrEnd(s))
        \/ /\ NotWritten(s, d.buf, FALSE)
           /\ BeginSettle(s, sent, "unjournaled")
  /\ UNCHANGED <<status, jfile, marker, leasing, boot, registered, phase, intr,
                 rest, engine, shape, stops, deferrals>>

SummaryEnd(s) ==
  /\ step[s] = "summary"
  /\ \/ BeginSettle(s, doc[s], target[s])     \* generated
     \/ BeginSettle(s, doc[s], IntrEnd(s))    \* could not be generated
  /\ UNCHANGED <<files, leasing, boot, registered, phase, writer, pub, intr, rest,
                 engine, shape, bounds>>

(* The engine closed the stream: a job still pending settles as stopped;   *)
(* then the pump lets go of the journal, the generation and the lease, and *)
(* last of its registration.                                               *)
PumpStopped(s) ==
  /\ Idle(s) /\ gen[s] = "closed"
  /\ BeginSettle(s, doc[s], "stopped")
  /\ UNCHANGED <<files, leasing, boot, registered, phase, writer, pub, intr, rest,
                 engine, shape, bounds>>

PumpRelease(s) ==
  /\ Pumping(s) /\ gen[s] = "closed" /\ step[s] = "free" /\ phase[s] \notin Pending
  /\ lease' = NoServer /\ task' = "none"
  /\ writer' = Set(writer, s, "none")
  /\ gen' = Set(gen, s, "none") /\ marked' = Set(marked, s, FALSE)
  /\ UNCHANGED <<files, verdict, boot, registered, phase, step, target, doc, pub,
                 intr, rest, runs, toolRuns, shape, bounds>>

(* Mutant of Unregister: a job that ends during shutdown stays registered. *)
UnregisterServing(s) ==
  /\ registered[s] /\ ~Pumping(s) /\ server[s] # "closing"
  /\ registered' = Set(registered, s, FALSE)
  /\ UNCHANGED <<files, leasing, boot, phase, step, target, doc, writer, pub, intr,
                 rest, engine, shape, bounds>>

Unregister(s) ==
  /\ registered[s] /\ ~Pumping(s)
  /\ registered' = Set(registered, s, FALSE)
  /\ UNCHANGED <<files, leasing, boot, phase, step, target, doc, writer, pub, intr,
                 rest, engine, shape, bounds>>

Pump(s) ==
  \/ SaveProgress(s) \/ FoldProgress(s) \/ FoldItem(s) \/ FoldFinished(s)
  \/ FoldError(s) \/ Publish(s) \/ SummaryPiece(s) \/ SummaryEnd(s)
  \/ PumpStopped(s) \/ PumpRelease(s) \/ Unregister(s)


(***************************************************************************)
(* The native generation, and the hosted calls its tool loop executes.     *)
(***************************************************************************)
EngineFrame == UNCHANGED <<leasing, boot, job, rest, runs, shape, bounds>>

EngineClose(s) ==
  /\ gen[s] \in {"running", "stopped"}
  /\ gen' = Set(gen, s, "closed")
  /\ UNCHANGED <<files, marked, toolRuns>> /\ EngineFrame

(* Mutant of MarkTools: hosted calls start without the marker. *)
MarkToolsInMemory(s) ==
  /\ gen[s] = "running" /\ shape.hosted /\ ~marked[s]
  /\ marked' = Set(marked, s, TRUE)
  /\ UNCHANGED <<files, gen, toolRuns>> /\ EngineFrame

(* before_tools: the marker of a resumable response is durable before its  *)
(* first hosted call.                                                      *)
MarkTools(s) ==
  /\ gen[s] = "running" /\ shape.hosted /\ ~marked[s]
  /\ marked' = Set(marked, s, TRUE)
  /\ marker' = (marker \/ shape.request)
  /\ UNCHANGED <<status, journal, frag, jfile, gen, toolRuns>> /\ EngineFrame

RunTool(s) ==
  /\ gen[s] = "running" /\ marked[s] /\ runs \notin toolRuns
  /\ toolRuns' = toolRuns \cup {runs}
  /\ UNCHANGED <<files, gen, marked>> /\ EngineFrame

(***************************************************************************)
(* Background::admit.  The engine has the request before the store does.   *)
(***************************************************************************)
Post(s) ==
  /\ status = "new" /\ server[s] = "serving"
  /\ status' = "submitted"
  /\ gen' = Set(gen, s, "running")
  /\ runs' = runs + 1
  /\ UNCHANGED <<journal, frag, jfile, marker, leasing, boot, job, rest, marked,
                 toolRuns, shape, bounds>>

EndTask(s) ==
  /\ lease' = NoServer /\ task' = "none" /\ verdict' = NoEnd

(* The admission is refused: nothing is stored, the generation cancelled. *)
NotAdmitted(s) == status' = "gone" /\ gen' = Set(gen, s, "none")
                                   /\ marked' = Set(marked, s, FALSE)

AdmitLease(s) ==
  /\ status = "submitted" /\ gen[s] # "none" /\ lease # s
  /\ \/ /\ lease = NoServer
        /\ lease' = s
        /\ task' = IF shape.streamed THEN "journal" ELSE "record"
        /\ UNCHANGED <<status, verdict, gen, marked>>
     \/ /\ lease # NoServer
        /\ NotAdmitted(s)
        /\ UNCHANGED leasing
  /\ UNCHANGED <<journal, frag, jfile, marker, boot, job, rest, runs, toolRuns, shape,
                 bounds>>

AdmitJournal(s) ==
  /\ lease = s /\ task = "journal"
  /\ \/ /\ journal' = <<Created, Queued>> /\ jfile' = TRUE
        /\ task' = "record"
        /\ UNCHANGED <<status, lease, verdict, gen, marked, faults>>
     \/ /\ Fault /\ NotAdmitted(s) /\ EndTask(s)
        /\ UNCHANGED <<journal, jfile>>
  /\ UNCHANGED <<frag, marker, boot, job, rest, runs, toolRuns, shape, stops,
                 deferrals>>

AdmitRecord(s) ==
  /\ lease = s /\ task = "record"
  /\ \/ /\ status' = "queued" /\ task' = "register"
        /\ UNCHANGED <<jfile, marker, lease, verdict, gen, marked, faults>>
     \/ /\ Fault /\ NotAdmitted(s) /\ EndTask(s)
        /\ jfile' = FALSE /\ marker' = FALSE
  /\ UNCHANGED <<journal, frag, boot, job, rest, runs, toolRuns, shape, stops,
                 deferrals>>

(* Mutant of Resumed: what the full queue put off is forgotten. *)
ResumedForgotten(s, full) ==
  /\ server' = Set(server, s, IF server[s] = "resuming" THEN "serving" ELSE server[s])
  /\ deferred' = Set(deferred, s, "no")

(***************************************************************************)
(* After a resumption has ended: at startup the server goes on to serve;   *)
(* one the full queue put off waits for a slot, if it was the startup's.   *)
(***************************************************************************)
Resumed(s, full) ==
  /\ server' = Set(server, s, IF server[s] = "resuming" THEN "serving" ELSE server[s])
  /\ deferred' = Set(deferred, s,
       IF full /\ (server[s] = "resuming" \/ deferred[s] = "retrying") THEN "waiting"
       ELSE IF deferred[s] = "retrying" THEN "no" ELSE deferred[s])

(* Background::register, for an admission and for a resumption: once       *)
(* shutdown has begun the job is settled at once instead.  (A handler that *)
(* still has an earlier job of this response, all of whose locks are free, *)
(* is done with it first.)                                                 *)
Register(s) ==
  /\ lease = s /\ task = "register" /\ wait[s] = {}
  /\ LET started == IF jfile THEN Announced ELSE status = "in_progress" IN
     phase' = Set(phase, s, IF started THEN "in_progress" ELSE "queued")
  /\ writer' = Set(writer, s, IF jfile THEN "ok" ELSE "none")
  /\ pub' = Set(pub, s, [NoPub EXCEPT !.lines = Len(journal)])
  /\ \E items \in LastItems :
       \/ /\ server[s] # "closing"
          /\ registered' = Set(registered, s, TRUE)
          /\ task' = "pump"
          /\ doc' = Set(doc, s, NewDoc(items))
          /\ intr' = Set(intr, s, "none")
          /\ UNCHANGED <<step, target>>
       \/ /\ server[s] = "closing"
          /\ task' = "abandoned"
          /\ intr' = Set(intr, s, "close")
          /\ BeginSettle(s, NewDoc(items), "shutdown")
          /\ UNCHANGED registered
  /\ Resumed(s, FALSE)
  /\ UNCHANGED <<files, lease, verdict, rest, engine, shape, bounds>>

DropAbandoned(s) ==
  /\ lease = s /\ task = "abandoned" /\ step[s] = "free"
  /\ EndTask(s)
  /\ writer' = Set(writer, s, "none")
  /\ gen' = Set(gen, s, "none") /\ marked' = Set(marked, s, FALSE)
  /\ UNCHANGED <<files, boot, registered, phase, step, target, doc, pub, intr, rest,
                 runs, toolRuns, shape, bounds>>

Admission(s) ==
  \/ AdmitLease(s) \/ AdmitJournal(s) \/ AdmitRecord(s) \/ Register(s)
  \/ DropAbandoned(s)

(***************************************************************************)
(* Background::resume.  TakeResume takes the lease and reads the record    *)
(* and the journal again under it.                                         *)
(***************************************************************************)
Resumable(s) == status \in Pending /\ shape.request /\ ~registered[s]

TakeResume(s) ==
  /\ Resumable(s) /\ lease = NoServer
  /\ lease' = s
  /\ LET settled == \/ jfile /\ Ended(journal)
                    \/ shape.hosted /\ marker
     IN \/ /\ task' = IF settled THEN "settle" ELSE IF jfile THEN "boundary" ELSE "submit"
           /\ verdict' = IF settled THEN Adopted("refused") ELSE NoEnd
           /\ UNCHANGED faults
        \/ /\ Fault                 \* this server refuses the stored request
           /\ task' = "settle"
           /\ verdict' = Adopted("refused")

TaskFrame == UNCHANGED <<job, rest, engine, shape, stops, deferrals>>

(* The restart boundary is journaled before the engine is asked. *)
ResumeBoundary(s) ==
  /\ lease = s /\ task = "boundary"
  /\ \E batch \in Boundaries :
       \/ Continued(batch) /\ task' = "submit" /\ UNCHANGED verdict
       \/ NotContinued(batch) /\ task' = "settle" /\ verdict' = "unjournaled"
  /\ UNCHANGED <<status, jfile, marker, lease, boot>> /\ TaskFrame

ResumeSubmit(s) ==
  /\ lease = s /\ task = "submit"
  /\ \/ /\ gen' = Set(gen, s, "running") /\ runs' = runs + 1
        /\ task' = "register"
        /\ UNCHANGED <<lease, verdict, boot, faults, deferrals>>
     \/ /\ deferrals < MaxDeferrals /\ deferrals' = deferrals + 1
        /\ EndTask(s) /\ Resumed(s, TRUE)
        /\ UNCHANGED <<gen, runs, faults>>
     \/ /\ Fault
        /\ task' = "settle" /\ verdict' = "refused"
        /\ UNCHANGED <<lease, boot, gen, runs, deferrals>>
  /\ UNCHANGED <<files, job, rest, marked, toolRuns, shape, stops>>

(* settle_interrupted and an unowned cancel: the record, then the journal. *)
(* A sweep that cannot write ends the start of its server.                 *)
SettleUnowned(s) ==
  /\ lease = s /\ task = "settle"
  /\ \/ /\ status' = verdict
        /\ \/ jfile /\ task' = "seal" /\ UNCHANGED <<lease, verdict, boot>>
           \/ ~jfile /\ EndTask(s) /\ Resumed(s, FALSE)
        /\ UNCHANGED faults
     \/ /\ Fault
        /\ EndTask(s)
        /\ \/ server[s] # "sweeping" /\ Resumed(s, FALSE)
           \/ server[s] = "sweeping" /\ server' = Set(server, s, "down")
              /\ UNCHANGED deferred
        /\ UNCHANGED status
  /\ UNCHANGED <<journal, frag, jfile, marker>> /\ TaskFrame

SealJournal(s) ==
  /\ lease = s /\ task = "seal"
  /\ LET batch == IF Ended(journal) THEN <<>> ELSE TerminalEvents(verdict) IN
     \/ jfile /\ Continued(batch)
     \/ jfile /\ NotContinued(batch)
     \/ ~jfile /\ UNCHANGED <<journal, frag, faults>>   \* deleted meanwhile
  /\ EndTask(s) /\ Resumed(s, FALSE)
  /\ UNCHANGED <<status, jfile, marker>> /\ TaskFrame

Recovery(s) == ResumeBoundary(s) \/ ResumeSubmit(s) \/ SettleUnowned(s) \/ SealJournal(s)

(***************************************************************************)
(* Requests.  One that finds the job registered here asks for the job's    *)
(* lock, after saying so to a summary that may hold it (Job::interrupt);   *)
(* any other works on the store, a pending record only under its lease.    *)
(***************************************************************************)
Ask(s, handler) ==
  /\ registered[s]
  /\ handler \notin wait[s]
  /\ wait' = Set(wait, s, wait[s] \cup {handler})
  /\ intr' = Set(intr, s, IF intr[s] = "none" THEN handler ELSE intr[s])

AskFrame == UNCHANGED <<files, leasing, registered, phase, step, target, doc, writer,
                        pub, deleting, subscribing, engine, shape, faults, deferrals>>

AskCancel(s) == Up(s) /\ Ask(s, "cancel") /\ AskFrame /\ UNCHANGED <<boot, stops>>
AskDelete(s) == Up(s) /\ Ask(s, "delete") /\ AskFrame /\ UNCHANGED <<boot, stops>>

(* Mutant of LockToSettle: a job that has settled is settled again. *)
LockToSettleAgain(s, handler, end) ==
  /\ handler \in wait[s] /\ step[s] = "free"
  /\ wait' = Set(wait, s, wait[s] \ {handler})
  /\ BeginSettle(s, doc[s], end)
  /\ UNCHANGED <<files, leasing, boot, registered, phase, writer, pub, intr, deleting,
                 subscribing, engine, shape, bounds>>

(* Job::cancel and Job::abandon, once they have the lock. *)
LockToSettle(s, handler, end) ==
  /\ handler \in wait[s] /\ step[s] = "free"
  /\ wait' = Set(wait, s, wait[s] \ {handler})
  /\ \/ phase[s] \in Pending /\ BeginSettle(s, doc[s], end)
     \/ phase[s] \notin Pending /\ UNCHANGED <<doc, step, target>>
  /\ UNCHANGED <<files, leasing, boot, registered, phase, writer, pub, intr, deleting,
                 subscribing, engine, shape, bounds>>

(* Job::delete: the record is removed under the lock; nothing is written   *)
(* for the job afterwards.                                                 *)
LockToDelete(s) ==
  /\ "delete" \in wait[s] /\ step[s] = "free"
  /\ \/ /\ phase[s] # "deleted"
        /\ status' = "gone"
        /\ step' = Set(step, s, "delete")
        /\ UNCHANGED <<wait, faults>>
     \/ /\ phase[s] # "deleted"
        /\ Fault
        /\ wait' = Set(wait, s, wait[s] \ {"delete"})
        /\ UNCHANGED <<status, step>>
     \/ /\ phase[s] = "deleted"
        /\ wait' = Set(wait, s, wait[s] \ {"delete"})
        /\ UNCHANGED <<status, step, faults>>
  /\ UNCHANGED <<journal, frag, jfile, marker, leasing, boot, registered, phase,
                 target, doc, writer, pub, intr, deleting, subscribing, engine, shape,
                 stops, deferrals>>

(* Mutant of DeleteJob: the pump is not told. *)
DeleteJobUntold(s) ==
  /\ step[s] = "delete"
  /\ Unlinked
  /\ Unlocked(s, phase[s])
  /\ writer' = Set(writer, s, "none")
  /\ pub' = Set(pub, s, [pub[s] EXCEPT !.deleted = TRUE])
  /\ wait' = Set(wait, s, wait[s] \ {"delete"})
  /\ UNCHANGED <<status, journal, frag, leasing, boot, registered, doc, intr,
                 deleting, subscribing, marked, runs, toolRuns, shape, stops,
                 deferrals>>

DeleteJob(s) ==
  /\ step[s] = "delete"
  /\ Unlinked
  /\ Unlocked(s, "deleted")
  /\ writer' = Set(writer, s, "none")
  /\ pub' = Set(pub, s, [pub[s] EXCEPT !.deleted = TRUE])
  /\ wait' = Set(wait, s, wait[s] \ {"delete"})
  /\ UNCHANGED <<status, journal, frag, leasing, boot, registered, doc, intr,
                 deleting, subscribing, marked, runs, toolRuns, shape, stops,
                 deferrals>>

Handler(s) ==
  \/ LockToSettle(s, "cancel", "cancelled") \/ LockToSettle(s, "close", "shutdown")
  \/ LockToDelete(s) \/ DeleteJob(s)

RequestFrame == UNCHANGED <<boot, job, engine, shape, bounds>>

(* Mutant of CancelUnowned: the lease of another server's job is ignored. *)
CancelUnownedAnyway(s) ==
  /\ Up(s) /\ ~registered[s] /\ status \in Pending
  /\ lease' = s /\ task' = "settle" /\ verdict' = "cancelled"
  /\ UNCHANGED <<files, rest>> /\ RequestFrame

(* Background::cancel of a job no server here runs. *)
CancelUnowned(s) ==
  /\ Up(s) /\ ~registered[s] /\ status \in Pending /\ lease = NoServer
  /\ lease' = s /\ task' = "settle" /\ verdict' = "cancelled"
  /\ UNCHANGED <<files, rest>> /\ RequestFrame

(* delete_unowned of a pending record: under its lease. *)
DeletePending(s) ==
  /\ Up(s) /\ ~registered[s] /\ status \in Pending /\ lease = NoServer
  /\ lease' = s /\ task' = "delete"
  /\ UNCHANGED <<files, verdict, rest>> /\ RequestFrame

RemovePending(s) ==
  /\ lease = s /\ task = "delete"
  /\ \/ status' = "gone" /\ task' = "unlink" /\ UNCHANGED <<lease, verdict, faults>>
     \/ Fault /\ EndTask(s) /\ UNCHANGED status
  /\ UNCHANGED <<journal, frag, jfile, marker, boot>> /\ TaskFrame

UnlinkPending(s) ==
  /\ lease = s /\ task = "unlink"
  /\ Unlinked /\ EndTask(s)
  /\ UNCHANGED <<status, journal, frag, boot>> /\ TaskFrame

(* A settled record goes without its lease: by a DELETE, or by a sweep     *)
(* that finds it past its retention.                                       *)
DeleteSettled(s) ==
  /\ Up(s) /\ ~registered[s] /\ status \in Ends /\ ~deleting[s]
  /\ status' = "gone"
  /\ deleting' = Set(deleting, s, TRUE)
  /\ UNCHANGED <<journal, frag, jfile, marker, leasing, wait, subscribing>>
  /\ RequestFrame

UnlinkSettled(s) ==
  /\ deleting[s]
  /\ Unlinked
  /\ deleting' = Set(deleting, s, FALSE)
  /\ UNCHANGED <<status, journal, frag, leasing, boot, job, wait, subscribing, engine,
                 shape, stops, deferrals>>

(* adopt_orphan: retrieving a job nobody runs resumes it. *)
Get(s) ==
  /\ server[s] = "serving"
  /\ TakeResume(s)
  /\ UNCHANGED <<files, boot>> /\ TaskFrame

(* A streaming GET whose adopt_orphan did nothing: the job is registered   *)
(* here, cannot be resumed, or another resumption holds its lease.         *)
StreamGet(s) ==
  /\ Up(s) /\ ~subscribing[s] /\ shape.streamed /\ status \in Pending
  /\ ~Resumable(s) \/ lease # NoServer
  /\ subscribing' = Set(subscribing, s, TRUE)
  /\ UNCHANGED <<files, leasing, wait, deleting>> /\ RequestFrame

(* subscribe: a pending response nobody generates is recovered first. *)
Subscribe(s) ==
  /\ subscribing[s]
  /\ subscribing' = Set(subscribing, s, FALSE)
  /\ LET orphan == ~registered[s] /\ status \in Pending /\ lease = NoServer IN
     \/ /\ orphan
        /\ lease' = s /\ task' = "settle"
        /\ verdict' = Adopted(IF shape.request THEN "not_resumed" ELSE "no_request")
     \/ ~orphan /\ UNCHANGED leasing
  /\ UNCHANGED <<files, wait, deleting>> /\ RequestFrame

(* sweep: the journal and marker of a response with no record go, unless a *)
(* writer holds its lease.                                                 *)
Orphaned == status \in Unstored /\ (jfile \/ marker) /\ lease = NoServer
RemoveOrphan ==
  /\ Orphaned
  /\ jfile' = FALSE /\ marker' = FALSE
  /\ UNCHANGED <<status, journal, frag>>

Prune(s) ==
  /\ Pruning /\ server[s] = "serving"
  /\ RemoveOrphan
  /\ UNCHANGED <<leasing, rest>> /\ RequestFrame

Request(s) ==
  \/ Post(s) \/ AskCancel(s) \/ AskDelete(s) \/ CancelUnowned(s) \/ DeletePending(s)
  \/ DeleteSettled(s) \/ Get(s) \/ StreamGet(s) \/ Prune(s)

Deletion(s) == RemovePending(s) \/ UnlinkPending(s)

(***************************************************************************)
(* Startup: ResponseStore::open sweeps, resume_interrupted resumes, then   *)
(* the server serves; what a full queue put off is tried again each time a *)
(* slot is released.                                                       *)
(***************************************************************************)
BootFrame == UNCHANGED <<job, rest, engine, shape, stops, deferrals>>

Start(s) ==
  /\ server[s] = "down"
  /\ server' = Set(server, s, "sweeping")
  /\ UNCHANGED <<files, leasing, deferred, faults>> /\ BootFrame

Unresumable == status \in Pending /\ ~shape.request /\ lease = NoServer

Sweep(s) ==
  /\ server[s] = "sweeping" /\ lease # s
  /\ \/ RemoveOrphan /\ UNCHANGED <<leasing, server>>
     \/ /\ Unresumable
        /\ lease' = s /\ task' = "settle" /\ verdict' = Adopted("no_request")
        /\ UNCHANGED <<files, server>>
     \/ /\ ~Orphaned /\ ~Unresumable
        /\ server' = Set(server, s, "resuming")
        /\ UNCHANGED <<files, leasing>>
  /\ UNCHANGED <<deferred, faults>> /\ BootFrame

StartupResume(s) ==
  /\ server[s] = "resuming" /\ lease # s
  /\ \/ TakeResume(s) /\ UNCHANGED boot
     \/ /\ ~Resumable(s) \/ lease # NoServer
        /\ Resumed(s, FALSE) /\ UNCHANGED <<leasing, faults>>
  /\ UNCHANGED files /\ BootFrame

Retry(s) ==
  /\ server[s] = "serving" /\ deferred[s] = "waiting"
  /\ \/ TakeResume(s) /\ deferred' = Set(deferred, s, "retrying")
     \/ /\ ~Resumable(s) \/ lease # NoServer
        /\ deferred' = Set(deferred, s, "no") /\ UNCHANGED <<leasing, faults>>
  /\ UNCHANGED <<files, server>> /\ BootFrame

Boot(s) == Start(s) \/ Sweep(s) \/ StartupResume(s) \/ Retry(s)

(***************************************************************************)
(* Shutdown and crashes.                                                   *)
(***************************************************************************)

(* Background::close: refuse new jobs, then abandon the registered one. *)
Close(s) ==
  /\ server[s] = "serving" /\ stops < MaxStops
  /\ stops' = stops + 1
  /\ server' = Set(server, s, "closing")
  /\ deferred' = Set(deferred, s, "no")
  /\ \/ Ask(s, "close")
     \/ ~registered[s] /\ UNCHANGED <<wait, intr>>
  /\ AskFrame

Reset(s) ==
  /\ server' = Set(server, s, "down")
  /\ deferred' = Set(deferred, s, "no")
  /\ registered' = Set(registered, s, FALSE)
  /\ phase' = Set(phase, s, "none")
  /\ step' = Set(step, s, "free")
  /\ target' = Set(target, s, NoEnd)
  /\ doc' = Set(doc, s, NewDoc(0))
  /\ writer' = Set(writer, s, "none")
  /\ pub' = Set(pub, s, NoPub)
  /\ intr' = Set(intr, s, "none")
  /\ wait' = Set(wait, s, {})
  /\ deleting' = Set(deleting, s, FALSE)
  /\ subscribing' = Set(subscribing, s, FALSE)
  /\ gen' = Set(gen, s, "none")
  /\ marked' = Set(marked, s, FALSE)

(* drained: the server exits once no job is registered. *)
Exit(s) ==
  /\ server[s] = "closing" /\ ~registered[s] /\ wait[s] = {}
  /\ lease # s /\ ~deleting[s] /\ ~subscribing[s] /\ gen[s] = "none"
  /\ Reset(s)
  /\ UNCHANGED <<files, leasing, runs, toolRuns, shape, bounds>>

(* The batch a crash may cut short: what server s was about to append. *)
InFlight(s) ==
  CASE lease = s /\ task = "journal"  -> {<<Created, Queued>>}
    [] lease = s /\ task = "boundary" -> Boundaries
    [] lease = s /\ task = "seal" /\ jfile /\ ~Ended(journal) -> {TerminalEvents(verdict)}
    [] writer[s] = "ok" /\ step[s] \in {"publish", "flush"} -> {doc[s].buf}
    [] writer[s] = "ok" /\ step[s] = "summary" ->
         {doc[s].buf \o <<Piece(doc[s].waiting)>>}
    [] writer[s] = "ok" /\ step[s] = "end" -> {TerminalEvents(target[s])}
    [] OTHER -> {<<>>}

(* The process dies.  The kernel frees its lease; a batch it was writing   *)
(* is left whole, in part or not at all.                                   *)
Crash(s) ==
  /\ server[s] # "down" /\ stops < MaxStops
  /\ stops' = stops + 1
  /\ Reset(s)
  /\ \/ lease = s /\ EndTask(s)
     \/ lease # s /\ UNCHANGED leasing
  /\ \/ /\ \E batch \in InFlight(s) : batch # <<>> /\ Cut(batch)
        /\ jfile' = (jfile \/ (lease = s /\ task = "journal"))
     \/ UNCHANGED <<journal, frag, jfile>>
  /\ status' = IF status = "submitted" /\ gen[s] # "none" THEN "gone" ELSE status
  /\ UNCHANGED <<marker, runs, toolRuns, shape, faults, deferrals>>

ServerStep(s) ==
  \/ Settling(s) \/ Pump(s) \/ EngineClose(s) \/ Admission(s) \/ Recovery(s)
  \/ Handler(s) \/ Deletion(s) \/ UnlinkSettled(s) \/ Subscribe(s) \/ Boot(s)
  \/ Exit(s)

Next == \E s \in Servers :
  \/ ServerStep(s) \/ MarkTools(s) \/ RunTool(s) \/ Request(s) \/ Close(s) \/ Crash(s)

Spec == Init /\ [][Next]_vars

(* Threads that hold a lock, a lease or a started operation run on, the    *)
(* engine ends its generations, and a server that is down is started again.*)
Fairness(s) ==
  /\ WF_vars(Settling(s)) /\ WF_vars(Pump(s)) /\ WF_vars(EngineClose(s))
  /\ WF_vars(Admission(s)) /\ WF_vars(Recovery(s))
  /\ WF_vars(LockToSettle(s, "cancel", "cancelled"))
  /\ WF_vars(LockToSettle(s, "close", "shutdown"))
  /\ WF_vars(LockToDelete(s) \/ DeleteJob(s))
  /\ WF_vars(Deletion(s)) /\ WF_vars(UnlinkSettled(s)) /\ WF_vars(Subscribe(s))
  /\ WF_vars(Boot(s)) /\ WF_vars(Exit(s))

FairSpec == Spec /\ \A s \in Servers : Fairness(s)


(***************************************************************************)
(* Properties.                                                             *)
(***************************************************************************)
OpenLine == [kind: {"created", "queued", "in_progress", "added", "done", "summary"},
             item: Nat, end: {NoEnd}]
EndLine  == [kind: {"error", "final"}, item: {0}, end: Ends]
Doc      == [buf: Seq(OpenLine), open: Nat, reasoning: BOOLEAN, waiting: Nat,
             begun: BOOLEAN, pieced: BOOLEAN, items: Nat]

FilesOK ==
  /\ status \in Unstored \cup Pending \cup Ends
  /\ journal \in Seq(OpenLine \cup EndLine)
  /\ frag \in BOOLEAN /\ jfile \in BOOLEAN /\ marker \in BOOLEAN

LeaseOK ==
  /\ lease \in Servers \cup {NoServer}
  /\ task \in {"none", "journal", "record", "register", "pump", "abandoned",
               "boundary", "submit", "settle", "seal", "delete", "unlink"}
  /\ verdict \in Ends \cup {NoEnd}

JobOK ==
  /\ phase \in [Servers -> Pending \cup {"none", "settled", "store_failed", "deleted"}]
  /\ step \in [Servers -> {"free", "fold", "publish", "summary", "flush", "save",
                           "resave", "remove", "unlink", "end", "delete"}]
  /\ target \in [Servers -> Ends \cup {NoEnd}]
  /\ doc \in [Servers -> Doc]
  /\ writer \in [Servers -> {"none", "ok", "broken"}]
  /\ pub \in [Servers -> [lines: Nat, settled: BOOLEAN, deleted: BOOLEAN, torn: BOOLEAN]]

ServerOK ==
  /\ server \in [Servers -> {"down", "sweeping", "resuming", "serving", "closing"}]
  /\ deferred \in [Servers -> {"no", "waiting", "retrying"}]
  /\ registered \in [Servers -> BOOLEAN]
  /\ intr \in [Servers -> {"none", "cancel", "delete", "close"}]
  /\ wait \in [Servers -> SUBSET {"cancel", "delete", "close"}]
  /\ deleting \in [Servers -> BOOLEAN] /\ subscribing \in [Servers -> BOOLEAN]

EngineOK ==
  /\ gen \in [Servers -> {"none", "running", "stopped", "closed"}]
  /\ marked \in [Servers -> BOOLEAN]
  /\ shape \in Shapes
  /\ runs \in Nat /\ toolRuns \subseteq Nat
  /\ faults \in Nat /\ stops \in Nat /\ deferrals \in Nat

TypeOK == FilesOK /\ LeaseOK /\ JobOK /\ ServerOK /\ EngineOK

(* A stream never ends before its record is durable, and ends as the       *)
(* record says: a client that has read the end finds the same Response in  *)
(* the store, whatever crashed or failed since (Inner::settle, cancel,     *)
(* settle_interrupted, seal_journal).                                      *)
EndIsDurable == \A n \in 1..Len(journal) :
  journal[n].kind = "final" => n = Len(journal) /\ status \in {journal[n].end, "gone"}

(* A response ends once: no later settlement, resumption, recovery or      *)
(* failing write, in any server, changes how it ended.                     *)
EndsOnce == [][(status \in Ends) => status' \in {status, "gone"}]_vars

(* A deleted response is never written back: neither by the job that was   *)
(* generating it nor by another server recovering it (Job::delete, Phase). *)
StaysDeleted == [][(status = "gone") => status' = "gone"]_vars

(* The job that believes it is pending holds the lease, its record is      *)
(* pending and its journal has not ended: nothing another server does      *)
(* (recover, cancel, delete, sweep) takes the record from under a pump.    *)
PumpOwnsRecord == \A s \in Servers :
  phase[s] \in Pending /\ step[s] \in {"free", "fold", "publish", "summary"} =>
    lease = s /\ status \in Pending /\ ~Ended(journal)

(* What subscribers are told they may read is in the journal as whole      *)
(* lines, and no fragment is ever followed by a line: one failed or        *)
(* interrupted write never costs a line that was published.                *)
PublishedIsReadable == \A s \in Servers :
  /\ pub[s].lines <= Len(journal)
  /\ writer[s] = "ok" => ~frag /\ pub[s].lines = Len(journal)

(* In the stream of a response, across all its generations, every output   *)
(* item is announced once, in order, and finished at most once, after it   *)
(* was announced (ResponsesState::resume_from).                            *)
ItemsOnce ==
  LET added == SelectSeq(journal, LAMBDA l : l.kind = "added")
      done  == {n \in 1..Len(journal) : journal[n].kind = "done"}
  IN /\ \A n \in 1..Len(added) : added[n].item = n
     /\ \A n \in done : /\ \E m \in 1..n : journal[m] = Added(journal[n].item)
                        /\ \A m \in done : journal[m].item = journal[n].item => m = n

(* A response that settled with its journal whole has finished every item  *)
(* its stream announced: after a resumption too.                           *)
ItemsFinished == \A s \in Servers :
  phase[s] = "settled" /\ writer[s] = "ok" =>
    \A l \in Lines(journal) : l.kind = "added" => Done(l.item) \in Lines(journal)

(* The hosted calls of a response are executed by one of its generations   *)
(* only: a shell command or file write never takes effect twice because a  *)
(* server restarted (prepare_resumed, mark_tools_started).                 *)
HostedOnce == Cardinality(toolRuns) <= 1

(* recover: resumable work is never failed for not having been resumed. *)
ResumableIsResumed == status # "not_resumed"

(* Shutdown always ends: every job is settled and drained. *)
ShutdownDrains == \A s \in Servers : (server[s] = "closing") ~> (server[s] # "closing")

(* Every admitted response ends: it completes, fails, is cancelled or is   *)
(* deleted, whatever crashes, shutdowns and full queues it went through,   *)
(* as long as no write fails.                                              *)
PendingEnds == (status \in Pending) ~> (status \notin Pending \/ faults > 0)

(***************************************************************************)
(* The inductive invariant behind EndIsDurable and EndsOnce.               *)
(***************************************************************************)
Open == \A n \in 1..Len(journal) : journal[n].kind # "final"
Live == Pending \cup {"gone"}

(* Only the holder of the lease has an unsettled job or a journal writer,  *)
(* and the lock of a job is kept only while it is unsettled, or deleted.   *)
JobHoldsLease == \A s \in Servers :
  /\ phase[s] \in Pending \/ writer[s] # "none" =>
       lease = s /\ task \in {"pump", "abandoned"}
  /\ step[s] \notin {"free", "delete"} => phase[s] \in Pending

(* An unsettled job finds no end in its journal or record, until it has    *)
(* written the record itself.                                              *)
JobIsOpen == \A s \in Servers :
  phase[s] \in Pending =>
    /\ Open
    /\ status \in IF step[s] = "end" THEN {target[s], "gone"} ELSE Live
    /\ task = "abandoned" => step[s] \in {"flush", "save", "resave", "end", "remove",
                                          "unlink"}
    /\ step[s] \in {"summary", "flush", "save", "resave", "end"} => target[s] \in Ends

(* Nor does whoever else holds the lease. *)
TaskIsOpen ==
  /\ task \in {"journal", "record"} => Open /\ status \in {"submitted", "gone"}
  /\ task \in {"register", "boundary", "submit", "settle"} => Open /\ status \in Live
  /\ task = "seal" => Open /\ status \in {verdict, "gone"}
  /\ task \in {"settle", "seal"} => verdict \in Ends

EndInv == TypeOK /\ EndIsDurable /\ JobHoldsLease /\ JobIsOpen /\ TaskIsOpen

=============================================================================
