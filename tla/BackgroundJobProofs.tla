------------------------ MODULE BackgroundJobProofs ------------------------
(***************************************************************************)
(* Proofs about BackgroundJob, and about the clients of ResponseStream.    *)
(***************************************************************************)
EXTENDS ResponseStream, SequenceTheorems, FiniteSetTheorems, TLAPS

(***************************************************************************)
(* Sequences of lines.                                                     *)
(***************************************************************************)
AnyLine == OpenLine \cup EndLine

(* What appending the first n lines of a batch to a journal yields. *)
LEMMA AppendedPrefix ==
  ASSUME NEW S, NEW j \in Seq(S), NEW b \in Seq(S), NEW n \in 0..Len(b)
  PROVE  /\ j \o SubSeq(b, 1, n) \in Seq(S)
         /\ Len(j \o SubSeq(b, 1, n)) = Len(j) + n
         /\ \A k \in 1..Len(j) + n :
              (j \o SubSeq(b, 1, n))[k] = IF k <= Len(j) THEN j[k] ELSE b[k - Len(j)]
OBVIOUS

LEMMA Appended ==
  ASSUME NEW S, NEW j \in Seq(S), NEW b \in Seq(S)
  PROVE  /\ j \o b \in Seq(S)
         /\ Len(j \o b) = Len(j) + Len(b)
         /\ \A k \in 1..Len(j) + Len(b) :
              (j \o b)[k] = IF k <= Len(j) THEN j[k] ELSE b[k - Len(j)]
OBVIOUS

LEMMA TerminalType ==
  ASSUME NEW end \in Ends
  PROVE  /\ TerminalEvents(end) \in Seq(EndLine)
         /\ TerminalEvents(end) \in Seq(AnyLine)
         /\ \A n \in 1..Len(TerminalEvents(end)) :
              TerminalEvents(end)[n].kind = "final" =>
                n = Len(TerminalEvents(end)) /\ TerminalEvents(end)[n].end = end
<1>1. CASE end \in Failures
  <2>1. TerminalEvents(end) = <<Line("error", 0, end), Line("final", 0, end)>>
    BY <1>1 DEF TerminalEvents
  <2>2. Line("error", 0, end) \in EndLine /\ Line("final", 0, end) \in EndLine
    BY DEF Line, EndLine
  <2>3. Line("error", 0, end).kind = "error" /\ Line("final", 0, end).end = end
    BY DEF Line
  <2> QED BY <2>1, <2>2, <2>3 DEF AnyLine
<1>2. CASE end \notin Failures
  <2>1. TerminalEvents(end) = <<Line("final", 0, end)>>
    BY <1>2 DEF TerminalEvents
  <2>2. Line("final", 0, end) \in EndLine /\ Line("final", 0, end).end = end
    BY DEF Line, EndLine
  <2> QED BY <2>1, <2>2 DEF AnyLine
<1> QED BY <1>1, <1>2

(* The restart boundary is a finite sequence, and ends nothing. *)
LEMMA BoundaryType ==
  ASSUME journal \in Seq(AnyLine), NEW batch \in Boundaries
  PROVE  batch \in Seq(OpenLine)
<1> DEFINE n == Cardinality(Unfinished)
           item == [k \in 1..Len(journal) |-> journal[k].item]
           all == {item[k] : k \in 1..Len(journal)}
<1>1. IsFiniteSet(all)
  <2>1. IsFiniteSet(1..Len(journal))
    BY FS_Interval, LenProperties
  <2>2. item \in Surjection(1..Len(journal), all)
    BY DEF Surjection
  <2> QED BY <2>1, <2>2, FS_Surjection
<1>2. Unfinished \subseteq all
  BY DEF Unfinished, Items, Lines
<1>3. n \in Nat
  BY <1>1, <1>2, FS_Subset, FS_CardinalityType
<1>4. Unfinished \subseteq Nat
  <2>1. \A k \in 1..Len(journal) : journal[k].item \in Nat
    BY DEF AnyLine, OpenLine, EndLine
  <2> QED BY <2>1, <1>2
<1>5. PICK f \in [1..n -> Unfinished] :
        batch = (IF shape.compaction /\ Announced /\ 1 \notin Items
                   THEN <<Added(1), Done(1)>> ELSE <<>>)
                \o [i \in 1..n |-> Done(f[i])]
  BY DEF Boundaries
<1> DEFINE lost == IF shape.compaction /\ Announced /\ 1 \notin Items
                     THEN <<Added(1), Done(1)>> ELSE <<>>
           rest1 == [i \in 1..n |-> Done(f[i])]
<1>6. rest1 \in Seq(OpenLine)
  <2>1. \A i \in 1..n : Done(f[i]) \in OpenLine
    BY <1>4 DEF Done, Line, OpenLine
  <2>2. rest1 \in [1..n -> OpenLine]
    BY <2>1
  <2> HIDE DEF rest1, n
  <2> QED BY <1>3, <2>2
<1>7. lost \in Seq(OpenLine)
  <2>1. Added(1) \in OpenLine /\ Done(1) \in OpenLine
    BY DEF Added, Done, Line, OpenLine
  <2> QED BY <2>1
<1> HIDE DEF lost, rest1
<1>8. batch = lost \o rest1
  BY <1>5 DEF lost, rest1
<1> QED BY <1>6, <1>7, <1>8

(***************************************************************************)
(* The document stays a document, whatever is folded in.                   *)
(***************************************************************************)
LEMMA LineTypes ==
  ASSUME NEW i \in Nat
  PROVE  /\ Created \in OpenLine /\ Queued \in OpenLine /\ InProgress \in OpenLine
         /\ Added(i) \in OpenLine /\ Done(i) \in OpenLine /\ Piece(i) \in OpenLine
BY DEF Created, Queued, InProgress, Added, Done, Piece, Line, OpenLine

LEMMA EmitType ==
  ASSUME NEW d \in Doc, NEW lines \in Seq(OpenLine)
  PROVE  Emit(d, lines) \in Doc
<1>1. d.buf \o lines \in Seq(OpenLine)
  BY DEF Doc
<1> QED BY <1>1 DEF Emit, Doc

LEMMA CloseItemType ==
  ASSUME NEW d \in Doc
  PROVE  CloseItem(d) \in Doc
<1>1. <<Done(d.open)>> \in Seq(OpenLine)
  BY LineTypes DEF Doc
<1>2. Emit(d, <<Done(d.open)>>) \in Doc
  BY <1>1, EmitType
<1> QED BY <1>2 DEF CloseItem, Doc

LEMMA EndDocType ==
  ASSUME NEW d \in Doc
  PROVE  EndDoc(d) \in Doc
<1> DEFINE c == CloseItem(d)
<1>1. c \in Doc
  BY CloseItemType
<1> HIDE DEF c
<1>2. <<Done(c.waiting)>> \in Seq(OpenLine)
  BY <1>1, LineTypes DEF Doc
<1>3. Emit(c, <<Done(c.waiting)>>) \in Doc
  BY <1>1, <1>2, EmitType
<1>4. Release(c) \in Doc
  BY <1>1, <1>3 DEF Release, Doc
<1> QED BY <1>4 DEF EndDoc, c

LEMMA StartedType ==
  ASSUME NEW d \in Doc
  PROVE  Started(d) \in Doc
<1>1. <<InProgress, Added(1), Done(1)>> \in Seq(OpenLine)
  BY LineTypes
<1>2. <<InProgress>> \in Seq(OpenLine)
  BY LineTypes
<1> QED BY <1>1, <1>2, EmitType DEF Started

LEMMA ItemType ==
  ASSUME NEW d \in Doc, NEW reasoning \in BOOLEAN
  PROVE  OpenItem(d, reasoning) \in Doc /\ Call(d) \in Doc
<1> DEFINE c == CloseItem(d)
<1>1. c \in Doc /\ c.items + 1 \in Nat
  BY CloseItemType DEF Doc
<1> HIDE DEF c
<1>2. /\ <<Added(c.items + 1)>> \in Seq(OpenLine)
      /\ <<Added(c.items + 1), Done(c.items + 1)>> \in Seq(OpenLine)
  BY <1>1, LineTypes
<1>3. /\ Emit(c, <<Added(c.items + 1)>>) \in Doc
      /\ Emit(c, <<Added(c.items + 1), Done(c.items + 1)>>) \in Doc
  BY <1>1, <1>2, EmitType
<1> DEFINE e1 == Emit(c, <<Added(c.items + 1)>>)
           e2 == Emit(c, <<Added(c.items + 1), Done(c.items + 1)>>)
<1> HIDE DEF e1, e2
<1>4. e1 \in Doc /\ e2 \in Doc
  BY <1>3 DEF e1, e2
<1>5. e1.items + 1 \in Nat /\ e2.items + 1 \in Nat
  BY <1>4 DEF Doc
<1>6. [e1 EXCEPT !.items = @ + 1, !.open = c.items + 1, !.reasoning = reasoning,
                 !.begun = TRUE] \in Doc
  BY <1>1, <1>4, <1>5 DEF Doc
<1>7. [e2 EXCEPT !.items = @ + 1, !.begun = TRUE] \in Doc
  BY <1>4, <1>5 DEF Doc
<1> QED BY <1>6, <1>7 DEF OpenItem, Call, c, e1, e2

LEMMA NewDocType ==
  ASSUME NEW items \in Nat
  PROVE  NewDoc(items) \in Doc
BY DEF NewDoc, Doc

(***************************************************************************)
(* Ends.                                                                   *)
(***************************************************************************)
LEMMA EndNames ==
  /\ {"completed", "incomplete", "cancelled", "error", "stopped", "shutdown",
      "unstored", "unjournaled", "deleted", "no_request", "not_resumed",
      "refused"} \subseteq Ends
  /\ NoEnd \notin Ends
  /\ Ends \cap Pending = {} /\ Ends \cap Unstored = {}
BY DEF Ends, Failures, NoEnd, Pending, Unstored

LEMMA IntrEndType ==
  ASSUME NEW s \in Servers
  PROVE  IntrEnd(s) \in Ends
BY EndNames DEF IntrEnd

(***************************************************************************)
(* Writes to the journal append a prefix of their batch.                   *)
(***************************************************************************)
Prefixed(b) == \E n \in 0..Len(b) : journal' = journal \o SubSeq(b, 1, n)

LEMMA PrefixOfAll ==
  ASSUME journal \in Seq(AnyLine), NEW b \in Seq(AnyLine),
         journal' = journal \o b \/ UNCHANGED journal
  PROVE  Prefixed(b)
<1>1. CASE journal' = journal \o b
  <2>1. b = SubSeq(b, 1, Len(b)) /\ Len(b) \in 0..Len(b)
    OBVIOUS
  <2> QED BY <1>1, <2>1 DEF Prefixed
<1>2. CASE UNCHANGED journal
  <2>1. journal = journal \o SubSeq(b, 1, 0) /\ 0 \in 0..Len(b)
    OBVIOUS
  <2> QED BY <1>2, <2>1 DEF Prefixed
<1> QED BY <1>1, <1>2

LEMMA CutPrefixes ==
  ASSUME NEW b, Cut(b)
  PROVE  Prefixed(b) /\ frag' \in BOOLEAN
BY DEF Cut, Prefixed

LEMMA PrefixedType ==
  ASSUME journal \in Seq(AnyLine), NEW b \in Seq(AnyLine), Prefixed(b)
  PROVE  journal' \in Seq(AnyLine)
BY AppendedPrefix DEF Prefixed

PubType == [lines: Nat, settled: BOOLEAN, deleted: BOOLEAN, torn: BOOLEAN]
WriterType == {"none", "ok", "broken"}

LEMMA PublishedType ==
  ASSUME TypeOK, NEW s \in Servers, NEW n \in Nat, NEW settles \in BOOLEAN
  PROVE  Published(s, n, settles) \in [Servers -> PubType]
<1> DEFINE p == pub[s]
<1>1. p \in PubType /\ pub \in [Servers -> PubType]
  BY DEF TypeOK, JobOK, PubType
<1>2. [p EXCEPT !.lines = @ + n, !.settled = @ \/ settles] \in PubType
  <2>1. p.lines + n \in Nat
    BY <1>1 DEF PubType
  <2>2. (p.settled \/ settles) \in BOOLEAN
    OBVIOUS
  <2> QED BY <1>1, <2>1, <2>2 DEF PubType
<1> QED BY <1>1, <1>2 DEF Published, Set

LEMMA WriteType ==
  ASSUME TypeOK, NEW s \in Servers, NEW b \in Seq(AnyLine), NEW settles \in BOOLEAN,
         Written(s, b, settles) \/ NotWritten(s, b, settles)
  PROVE  /\ Prefixed(b)
         /\ journal' \in Seq(AnyLine) /\ frag' \in BOOLEAN /\ faults' \in Nat
         /\ writer' \in [Servers -> WriterType]
         /\ \A t \in Servers : writer'[t] = "none" <=> writer[t] = "none"
         /\ pub' \in [Servers -> PubType]
<1> USE DEF WriterType
<1>1. /\ journal \in Seq(AnyLine) /\ frag \in BOOLEAN /\ faults \in Nat
      /\ writer \in [Servers -> WriterType] /\ Len(b) \in Nat
  BY DEF TypeOK, FilesOK, JobOK, EngineOK, AnyLine
<1>2. CASE Written(s, b, settles)
  <2> DEFINE n == IF writer[s] = "ok" THEN Len(b) ELSE 0
  <2>1. n \in Nat
    BY <1>1
  <2>2. pub' = Published(s, n, settles)
    BY <1>2 DEF Written
  <2>3. journal' = journal \o b \/ UNCHANGED journal
    BY <1>2 DEF Written
  <2>4. UNCHANGED <<frag, writer, faults>>
    BY <1>2 DEF Written
  <2> HIDE DEF n
  <2> QED BY <1>1, <2>1, <2>2, <2>3, <2>4, PrefixOfAll, PrefixedType, PublishedType
<1>3. CASE Refused(s, settles)
  BY <1>1, <1>3, PrefixOfAll, PrefixedType, PublishedType DEF Refused
<1>4. CASE RolledBack(s, b, settles)
  <2>1. writer' \in [Servers -> WriterType]
          /\ \A t \in Servers : writer'[t] = "none" <=> writer[t] = "none"
    BY <1>1, <1>4 DEF RolledBack, Set
  <2>2. faults' \in Nat
    BY <1>1, <1>4 DEF RolledBack, Fault
  <2> QED BY <1>1, <1>4, <2>1, <2>2, PrefixOfAll, PrefixedType, PublishedType
        DEF RolledBack
<1>5. CASE Torn(s, b, settles)
  <2>1. writer' \in [Servers -> WriterType]
          /\ \A t \in Servers : writer'[t] = "none" <=> writer[t] = "none"
    BY <1>1, <1>5 DEF Torn, Set
  <2>2. faults' \in Nat
    BY <1>1, <1>5 DEF Torn, Fault
  <2>3. pub' \in [Servers -> PubType]
    <3> DEFINE q == Published(s, 0, settles)
    <3>1. q \in [Servers -> PubType]
      BY PublishedType
    <3> HIDE DEF q
    <3>2. [q[s] EXCEPT !.torn = TRUE] \in PubType
      BY <3>1 DEF PubType
    <3>3. pub' = [pub EXCEPT ![s] = [q[s] EXCEPT !.torn = TRUE]]
      BY <1>5 DEF Torn, Set, q
    <3>4. pub \in [Servers -> PubType]
      BY DEF TypeOK, JobOK, PubType
    <3> QED BY <3>2, <3>3, <3>4
  <2>4. Cut(b)
    BY <1>5 DEF Torn
  <2> QED BY <1>1, <2>1, <2>2, <2>3, <2>4, CutPrefixes, PrefixedType
<1> QED BY <1>2, <1>3, <1>4, <1>5 DEF NotWritten

LEMMA ContinueType ==
  ASSUME TypeOK, NEW b \in Seq(AnyLine), Continued(b) \/ NotContinued(b)
  PROVE  /\ Prefixed(b)
         /\ journal' \in Seq(AnyLine) /\ frag' \in BOOLEAN /\ faults' \in Nat
<1>1. journal \in Seq(AnyLine) /\ frag \in BOOLEAN /\ faults \in Nat
  BY DEF TypeOK, FilesOK, EngineOK, AnyLine
<1>2. CASE Continued(b)
  BY <1>1, <1>2, PrefixOfAll, PrefixedType DEF Continued
<1>3. CASE NotContinued(b)
  <2>1. faults' \in Nat
    BY <1>1, <1>3 DEF NotContinued, Fault
  <2>2. Prefixed(b) /\ frag' \in BOOLEAN
    BY <1>1, <1>3, CutPrefixes, PrefixOfAll DEF NotContinued
  <2> QED BY <1>1, <2>1, <2>2, PrefixedType
<1> QED BY <1>2, <1>3

LEMMA SetType ==
  ASSUME NEW T, NEW f \in [Servers -> T], NEW s \in Servers, NEW v \in T
  PROVE  Set(f, s, v) \in [Servers -> T]
BY DEF Set

(***************************************************************************)
(* The parts actions are made of keep their types.                         *)
(***************************************************************************)
StepType == {"free", "fold", "publish", "summary", "flush", "save", "resave",
             "remove", "unlink", "end", "delete"}
PhaseType == Pending \cup {"none", "settled", "store_failed", "deleted"}
TargetType == Ends \cup {NoEnd}

LEMMA JobFacts ==
  ASSUME EndInv, NEW s \in Servers
  PROVE  /\ TypeOK
         /\ doc[s] \in Doc /\ doc[s].buf \in Seq(OpenLine) /\ doc[s].buf \in Seq(AnyLine)
         /\ step[s] \in {"summary", "flush", "save", "resave", "end"} =>
              target[s] \in Ends
         /\ task \in {"settle", "seal"} => verdict \in Ends
<1>1. doc[s] \in Doc
  BY DEF EndInv, TypeOK, JobOK
<1>2. doc[s].buf \in Seq(OpenLine)
  BY <1>1 DEF Doc
<1>3. doc[s].buf \in Seq(AnyLine)
  BY <1>2 DEF AnyLine
<1>4. step[s] \in {"summary", "flush", "save", "resave", "end"} => target[s] \in Ends
  BY DEF EndInv, JobHoldsLease, JobIsOpen
<1> QED BY <1>1, <1>2, <1>3, <1>4 DEF EndInv, TaskIsOpen

LEMMA BeginSettleType ==
  ASSUME TypeOK, NEW s \in Servers, NEW d \in Doc, NEW end \in Ends,
         BeginSettle(s, d, end)
  PROVE  /\ doc' \in [Servers -> Doc] /\ step' \in [Servers -> StepType]
         /\ target' \in [Servers -> TargetType]
<1>1. EndDoc(d) \in Doc
  BY EndDocType
<1> QED BY <1>1 DEF BeginSettle, Set, TypeOK, JobOK, StepType, TargetType

LEMMA UnlockedType ==
  ASSUME TypeOK, NEW s \in Servers, NEW ph \in PhaseType, Unlocked(s, ph)
  PROVE  /\ phase' \in [Servers -> PhaseType] /\ step' \in [Servers -> StepType]
         /\ target' \in [Servers -> TargetType]
         /\ gen' \in [Servers -> {"none", "running", "stopped", "closed"}]
BY DEF Unlocked, Stop, Set, TypeOK, JobOK, EngineOK, StepType, TargetType, PhaseType

LEMMA UnlinkedType ==
  ASSUME TypeOK, Unlinked
  PROVE  jfile' \in BOOLEAN /\ marker' \in BOOLEAN /\ faults' \in Nat
<1>1. faults \in Nat /\ jfile \in BOOLEAN /\ marker \in BOOLEAN
  BY DEF TypeOK, FilesOK, EngineOK
<1>2. CASE jfile' = FALSE /\ marker' = FALSE /\ UNCHANGED faults
  BY <1>1, <1>2
<1>3. CASE Fault /\ UNCHANGED <<jfile, marker>>
  BY <1>1, <1>3 DEF Fault
<1> QED BY <1>2, <1>3 DEF Unlinked

LEMMA AdoptedType ==
  ASSUME TypeOK, NEW reason \in Ends
  PROVE  Adopted(reason) \in Ends
<1>1. CASE Ended(journal)
  <2> DEFINE l == journal[Len(journal)]
  <2>1. l \in AnyLine /\ l.kind = "final"
    BY <1>1 DEF Ended, TypeOK, FilesOK, AnyLine
  <2>2. l.end \in Ends
    BY <2>1 DEF AnyLine, OpenLine, EndLine
  <2> QED BY <2>2 DEF Adopted
<1>2. CASE ~Ended(journal)
  BY <1>2 DEF Adopted
<1> QED BY <1>1, <1>2

LEMMA TakeResumeType ==
  ASSUME TypeOK, NEW s \in Servers, TakeResume(s)
  PROVE  LeaseOK' /\ faults' \in Nat
<1>1. Adopted("refused") \in Ends
  BY AdoptedType, EndNames
<1>2. lease' = s /\ task' \in {"settle", "boundary", "submit"}
      /\ verdict' \in {Adopted("refused"), NoEnd}
  BY DEF TakeResume
<1>3. faults' \in Nat
  BY DEF TakeResume, Fault, TypeOK, EngineOK
<1> QED BY <1>1, <1>2, <1>3 DEF LeaseOK

LEMMA ResumedType ==
  ASSUME TypeOK, NEW s \in Servers, NEW full \in BOOLEAN, Resumed(s, full)
  PROVE  /\ server' \in [Servers -> {"down", "sweeping", "resuming", "serving",
                                    "closing"}]
         /\ deferred' \in [Servers -> {"no", "waiting", "retrying"}]
BY DEF Resumed, Set, TypeOK, ServerOK

LEMMA LastItemType ==
  ASSUME TypeOK, NEW items \in LastItems
  PROVE  items \in Nat
<1>1. \A k \in 1..Len(journal) : journal[k].item \in Nat
  BY DEF TypeOK, FilesOK, OpenLine, EndLine
<1>2. Items \subseteq Nat
  BY <1>1 DEF Items, Lines
<1> QED BY <1>2 DEF LastItems

LEMMA ClearedType ==
  ASSUME NEW d \in Doc
  PROVE  /\ [d EXCEPT !.buf = <<>>] \in Doc
         /\ [d EXCEPT !.buf = <<>>, !.pieced = TRUE] \in Doc
<1>1. <<>> \in Seq(OpenLine)
  OBVIOUS
<1> QED BY <1>1 DEF Doc

(* What a crash may cut short, and what it would have been. *)
LEMMA InFlightType ==
  ASSUME EndInv, NEW s \in Servers, NEW batch \in InFlight(s)
  PROVE  /\ batch \in Seq(AnyLine)
         /\ \/ batch \in Seq(OpenLine)
            \/ lease = s /\ task = "seal" /\ batch = TerminalEvents(verdict)
            \/ step[s] = "end" /\ batch = TerminalEvents(target[s])
<1>1. <<Created, Queued>> \in Seq(OpenLine) /\ <<>> \in Seq(OpenLine)
  <2>1. Created \in OpenLine /\ Queued \in OpenLine
    BY LineTypes
  <2> QED BY <2>1
<1>2. \A b \in Boundaries : b \in Seq(OpenLine)
  BY JobFacts, BoundaryType DEF TypeOK, FilesOK, AnyLine
<1>3. doc[s].buf \in Seq(OpenLine)
      /\ doc[s].buf \o <<Piece(doc[s].waiting)>> \in Seq(OpenLine)
  <2>1. <<Piece(doc[s].waiting)>> \in Seq(OpenLine)
    BY JobFacts, LineTypes DEF Doc
  <2> QED BY <2>1, JobFacts
<1>4. \/ batch \in Seq(OpenLine)
      \/ lease = s /\ task = "seal" /\ batch = TerminalEvents(verdict)
      \/ step[s] = "end" /\ batch = TerminalEvents(target[s])
  BY <1>1, <1>2, <1>3 DEF InFlight
<1>5. CASE batch \in Seq(OpenLine)
  BY <1>5 DEF AnyLine
<1>6. CASE lease = s /\ task = "seal" /\ batch = TerminalEvents(verdict)
  BY <1>6, JobFacts, TerminalType
<1>7. CASE step[s] = "end" /\ batch = TerminalEvents(target[s])
  BY <1>7, JobFacts, TerminalType
<1> QED BY <1>4, <1>5, <1>6, <1>7

(***************************************************************************)
(* Every step keeps the types, one lemma per group of actions.             *)
(***************************************************************************)
(***************************************************************************)
(* Every action keeps the types, given the inductive invariant.            *)
(***************************************************************************)
LEMMA SettlingType ==
  ASSUME EndInv, NEW s \in Servers, Settling(s)
  PROVE  TypeOK'
<1> USE DEF files, leasing, boot, job, rest, engine, bounds, FilesOK, LeaseOK, JobOK,
            ServerOK, EngineOK
<1>1. CASE Flush(s)
  <2>1. /\ journal' \in Seq(AnyLine) /\ frag' \in BOOLEAN /\ faults' \in Nat
        /\ writer' \in [Servers -> WriterType] /\ pub' \in [Servers -> PubType]
    BY <1>1, JobFacts, WriteType DEF Flush
  <2>2. [doc[s] EXCEPT !.buf = <<>>] \in Doc
    BY JobFacts, ClearedType
  <2>3. JobOK'
    BY <1>1, <2>1, <2>2, JobFacts DEF Flush, TypeOK, WriterType, PubType, Set
  <2>4. FilesOK' /\ EngineOK'
    BY <1>1, <2>1, JobFacts DEF Flush, TypeOK, AnyLine
  <2>5. LeaseOK' /\ ServerOK'
    BY <1>1, JobFacts DEF Flush, TypeOK
  <2> QED BY <2>3, <2>4, <2>5 DEF TypeOK
<1>2. CASE SaveEnd(s) \/ ResaveEnd(s)
  <2>1. status' \in {status, target[s]} /\ target[s] \in Ends
    BY <1>2, JobFacts DEF SaveEnd, ResaveEnd
  <2>2. FilesOK'
    BY <1>2, <2>1, JobFacts DEF SaveEnd, ResaveEnd, TypeOK
  <2>3. JobOK'
    <3>1. CASE SaveEnd(s)
      <4>1. "unstored" \in Ends
        BY EndNames
      <4>2. target' \in [Servers -> TargetType]
        <5>1. target \in [Servers -> TargetType] /\ "unstored" \in TargetType
          BY <4>1, JobFacts DEF TypeOK, TargetType
        <5>2. UNCHANGED target \/ target' = Set(target, s, "unstored")
          BY <3>1 DEF SaveEnd
        <5> QED BY <5>1, <5>2, SetType
      <4>3. step' \in [Servers -> StepType]
        BY <3>1, JobFacts DEF SaveEnd, TypeOK, Set, StepType
      <4> QED BY <3>1, <4>2, <4>3, JobFacts DEF SaveEnd, TypeOK, StepType, TargetType
    <3>2. CASE ResaveEnd(s)
      BY <3>2, JobFacts DEF ResaveEnd, TypeOK, Set
    <3> QED BY <1>2, <3>1, <3>2
  <2>4. EngineOK'
    BY <1>2, JobFacts DEF SaveEnd, ResaveEnd, TypeOK, Fault
  <2>5. LeaseOK' /\ ServerOK'
    BY <1>2, JobFacts DEF SaveEnd, ResaveEnd, TypeOK
  <2> QED BY <2>2, <2>3, <2>4, <2>5 DEF TypeOK
<1>3. CASE PublishEnd(s)
  <2>1. TerminalEvents(target[s]) \in Seq(AnyLine)
    BY <1>3, JobFacts, TerminalType DEF PublishEnd
  <2>2. /\ journal' \in Seq(AnyLine) /\ frag' \in BOOLEAN /\ faults' \in Nat
        /\ writer' \in [Servers -> WriterType] /\ pub' \in [Servers -> PubType]
    BY <1>3, <2>1, JobFacts, WriteType DEF PublishEnd
  <2>3. "settled" \in PhaseType
    BY DEF PhaseType
  <2>4. /\ phase' \in [Servers -> PhaseType] /\ step' \in [Servers -> StepType]
        /\ target' \in [Servers -> TargetType]
        /\ gen' \in [Servers -> {"none", "running", "stopped", "closed"}]
    BY <1>3, <2>3, JobFacts, UnlockedType DEF PublishEnd
  <2>5. JobOK'
    BY <1>3, <2>2, <2>4, JobFacts
       DEF PublishEnd, TypeOK, WriterType, PubType, PhaseType, StepType, TargetType
  <2>6. FilesOK' /\ EngineOK'
    BY <1>3, <2>2, <2>4, JobFacts DEF PublishEnd, TypeOK, AnyLine
  <2>7. LeaseOK' /\ ServerOK'
    BY <1>3, JobFacts DEF PublishEnd, TypeOK
  <2> QED BY <2>5, <2>6, <2>7 DEF TypeOK
<1>4. CASE RemoveUnstored(s) \/ UnlinkUnstored(s)
  <2>1. "store_failed" \in PhaseType
    BY DEF PhaseType
  <2>2. Published(s, 0, TRUE) \in [Servers -> PubType]
    BY JobFacts, PublishedType
  <2>3. /\ phase' \in [Servers -> PhaseType] /\ step' \in [Servers -> StepType]
        /\ target' \in [Servers -> TargetType]
        /\ gen' \in [Servers -> {"none", "running", "stopped", "closed"}]
    <3>1. CASE Unlocked(s, "store_failed")
      BY <2>1, <3>1, JobFacts, UnlockedType
    <3>2. CASE UNCHANGED <<phase, target, gen>> /\ step' = Set(step, s, "unlink")
      BY <3>2, JobFacts DEF TypeOK, PhaseType, StepType, TargetType, Set
    <3> QED BY <1>4, <3>1, <3>2 DEF RemoveUnstored, UnlinkUnstored
  <2>4. pub' \in [Servers -> PubType]
    BY <1>4, <2>2, JobFacts DEF RemoveUnstored, UnlinkUnstored, TypeOK, PubType
  <2>5. JobOK'
    <3>1. UNCHANGED <<doc, writer>>
      BY <1>4 DEF RemoveUnstored, UnlinkUnstored
    <3>2. doc \in [Servers -> Doc] /\ writer \in [Servers -> {"none", "ok", "broken"}]
      BY JobFacts DEF TypeOK, JobOK
    <3> QED BY <2>3, <2>4, <3>1, <3>2 DEF JobOK, PubType, PhaseType, StepType, TargetType
  <2>6. jfile' \in BOOLEAN /\ marker' \in BOOLEAN /\ faults' \in Nat
    <3>1. CASE Unlinked
      BY <3>1, JobFacts, UnlinkedType
    <3>2. CASE UNCHANGED <<jfile, marker>> /\ (Fault \/ UNCHANGED faults)
      BY <3>2, JobFacts DEF TypeOK, Fault
    <3> QED BY <1>4, <3>1, <3>2 DEF RemoveUnstored, UnlinkUnstored
  <2>7. status' \in {status, "gone"} /\ UNCHANGED <<journal, frag>>
    BY <1>4 DEF RemoveUnstored, UnlinkUnstored
  <2>8. FilesOK'
    BY <2>6, <2>7, JobFacts DEF TypeOK, Unstored
  <2>9. EngineOK'
    BY <1>4, <2>3, <2>6, JobFacts DEF RemoveUnstored, UnlinkUnstored, TypeOK
  <2>10. UNCHANGED <<leasing, boot, registered, intr, rest>>
    BY <1>4 DEF RemoveUnstored, UnlinkUnstored
  <2>11. LeaseOK' /\ ServerOK'
    BY <2>10, JobFacts DEF TypeOK
  <2> QED BY <2>5, <2>8, <2>9, <2>11 DEF TypeOK
<1> QED BY <1>1, <1>2, <1>3, <1>4 DEF Settling

LEMMA PumpType ==
  ASSUME EndInv, NEW s \in Servers, Pump(s)
  PROVE  TypeOK'
<1> USE DEF files, leasing, boot, job, rest, engine, bounds, FilesOK, LeaseOK, JobOK,
            ServerOK, EngineOK
<1>1. CASE SaveProgress(s)
  <2>1. /\ doc' \in [Servers -> Doc] /\ step' \in [Servers -> StepType]
        /\ target' \in [Servers -> TargetType] /\ phase' \in [Servers -> PhaseType]
    <3>1. CASE BeginSettle(s, doc[s], "unstored") /\ UNCHANGED phase
      BY <3>1, JobFacts, EndNames, BeginSettleType DEF TypeOK, PhaseType
    <3>2. CASE /\ doc' = Set(doc, s, Started(doc[s])) /\ UNCHANGED target
               /\ step' = Set(step, s, "fold") /\ phase' = Set(phase, s, "in_progress")
      <4>1. Started(doc[s]) \in Doc
        BY JobFacts, StartedType
      <4> QED BY <3>2, <4>1, JobFacts
              DEF TypeOK, PhaseType, StepType, TargetType, Set, Pending
    <3> QED BY <1>1, <3>1, <3>2 DEF SaveProgress
  <2>2. JobOK'
    BY <1>1, <2>1, JobFacts DEF SaveProgress, TypeOK, PhaseType, StepType, TargetType
  <2>3. FilesOK' /\ EngineOK'
    BY <1>1, JobFacts DEF SaveProgress, TypeOK, Fault, Pending
  <2>4. LeaseOK' /\ ServerOK'
    BY <1>1, JobFacts DEF SaveProgress, TypeOK
  <2> QED BY <2>2, <2>3, <2>4 DEF TypeOK
<1>2. CASE FoldProgress(s) \/ FoldItem(s) \/ FoldFinished(s) \/ FoldError(s)
  <2>1. /\ doc' \in [Servers -> Doc] /\ step' \in [Servers -> StepType]
        /\ target' \in [Servers -> TargetType]
        /\ gen' \in [Servers -> {"none", "running", "stopped", "closed"}]
    <3>1. CASE FoldProgress(s)
      BY <3>1, JobFacts DEF FoldProgress, TypeOK, StepType, TargetType, Set
    <3>2. CASE FoldItem(s)
      <4>1. \E d \in Doc : doc' = Set(doc, s, d)
        BY <3>2, JobFacts, ItemType DEF FoldItem
      <4> QED BY <3>2, <4>1, JobFacts DEF FoldItem, TypeOK, StepType, TargetType, Set
    <3>3. CASE FoldFinished(s)
      <4>1. CloseItem(doc[s]) \in Doc
        BY JobFacts, CloseItemType
      <4>2. \E end \in Ends : target' = Set(target, s, end)
        BY <3>3, EndNames DEF FoldFinished
      <4>3. doc' = Set(doc, s, CloseItem(doc[s])) /\ gen' = Set(gen, s, "closed")
            /\ \E x \in {"summary", "flush"} : step' = Set(step, s, x)
        BY <3>3 DEF FoldFinished
      <4> QED BY <4>1, <4>2, <4>3, JobFacts DEF TypeOK, StepType, TargetType, Set
    <3>4. CASE FoldError(s)
      BY <3>4, JobFacts, IntrEndType, BeginSettleType DEF FoldError, TypeOK, Set
    <3> QED BY <1>2, <3>1, <3>2, <3>3, <3>4
  <2>2. FoldFrame
    BY <1>2 DEF FoldProgress, FoldItem, FoldFinished, FoldError
  <2>3. JobOK'
    BY <2>1, <2>2, JobFacts DEF FoldFrame, TypeOK, StepType, TargetType
  <2>4. FilesOK' /\ LeaseOK' /\ ServerOK'
    BY <2>2, JobFacts DEF FoldFrame, TypeOK
  <2>5. EngineOK'
    BY <2>1, <2>2, JobFacts DEF FoldFrame, TypeOK
  <2> QED BY <2>3, <2>4, <2>5 DEF TypeOK
<1>3. CASE Publish(s) \/ SummaryPiece(s)
  <2> DEFINE e == Emit(doc[s], <<Piece(doc[s].waiting)>>)
  <2>1. e \in Doc
    <3>1. <<Piece(doc[s].waiting)>> \in Seq(OpenLine)
      BY JobFacts, LineTypes DEF Doc
    <3> QED BY <3>1, JobFacts, EmitType
  <2>2. e.buf \in Seq(AnyLine)
    <3> HIDE DEF e
    <3> QED BY <2>1 DEF Doc, AnyLine
  <2>3. [e EXCEPT !.buf = <<>>, !.pieced = TRUE] \in Doc
        /\ [doc[s] EXCEPT !.buf = <<>>] \in Doc
    <3> HIDE DEF e
    <3> QED BY <2>1, JobFacts, ClearedType
  <2> DEFINE sent == [e EXCEPT !.buf = <<>>, !.pieced = TRUE]
             cleared == [doc[s] EXCEPT !.buf = <<>>]
  <2>4. /\ journal' \in Seq(AnyLine) /\ frag' \in BOOLEAN /\ faults' \in Nat
        /\ writer' \in [Servers -> WriterType] /\ pub' \in [Servers -> PubType]
    <3>1. CASE Publish(s)
      BY <3>1, JobFacts, WriteType DEF Publish
    <3>2. CASE SummaryPiece(s)
      <4>1. Written(s, e.buf, FALSE) \/ NotWritten(s, e.buf, FALSE)
        BY <3>2 DEF SummaryPiece
      <4> HIDE DEF e
      <4> QED BY <4>1, <2>2, JobFacts, WriteType
    <3> QED BY <1>3, <3>1, <3>2
  <2>5. /\ doc' \in [Servers -> Doc] /\ step' \in [Servers -> StepType]
        /\ target' \in [Servers -> TargetType]
    <3>1. \/ \E d \in Doc, end \in Ends : BeginSettle(s, d, end)
          \/ /\ \E d \in Doc : doc' = Set(doc, s, d)
             /\ UNCHANGED target
             /\ UNCHANGED step \/ step' = Set(step, s, "free")
      <4>1. CASE Publish(s)
        <5>1. \/ BeginSettle(s, cleared, "unjournaled")
              \/ /\ doc' = Set(doc, s, cleared)
                 /\ UNCHANGED target /\ step' = Set(step, s, "free")
          BY <4>1 DEF Publish
        <5> HIDE DEF cleared
        <5>2. cleared \in Doc
          BY <2>3 DEF cleared
        <5> QED BY <5>1, <5>2, EndNames
      <4>2. CASE SummaryPiece(s)
        <5>1. \/ BeginSettle(s, sent, "unjournaled")
              \/ BeginSettle(s, sent, IntrEnd(s))
              \/ /\ doc' = Set(doc, s, sent)
                 /\ UNCHANGED <<step, target>>
          BY <4>2 DEF SummaryPiece
        <5>2. sent \in Doc
          BY <2>3
        <5> HIDE DEF sent
        <5> QED BY <5>1, <5>2, EndNames, IntrEndType
      <4> QED BY <1>3, <4>1, <4>2
    <3>2. CASE \E d \in Doc, end \in Ends : BeginSettle(s, d, end)
      BY <3>2, JobFacts, BeginSettleType
    <3>3. CASE /\ \E d \in Doc : doc' = Set(doc, s, d)
               /\ UNCHANGED target
               /\ UNCHANGED step \/ step' = Set(step, s, "free")
      BY <3>3, JobFacts, SMTT(30) DEF TypeOK, StepType, TargetType, Set
    <3> QED BY <3>1, <3>2, <3>3
  <2>6. UNCHANGED <<status, jfile, marker, leasing, boot, registered, phase, intr,
                    rest, engine, shape, stops, deferrals>>
    BY <1>3 DEF Publish, SummaryPiece
  <2> HIDE DEF e, sent, cleared
  <2>7. JobOK'
    BY <2>4, <2>5, <2>6, JobFacts DEF TypeOK, WriterType, PubType, StepType, TargetType
  <2>8. FilesOK' /\ EngineOK'
    BY <2>4, <2>6, JobFacts DEF TypeOK, AnyLine
  <2>9. LeaseOK' /\ ServerOK'
    BY <2>6, JobFacts DEF TypeOK
  <2> QED BY <2>7, <2>8, <2>9 DEF TypeOK
<1>4. CASE SummaryEnd(s) \/ PumpStopped(s)
  <2>1. \E d \in Doc, end \in Ends : BeginSettle(s, d, end)
    BY <1>4, JobFacts, EndNames, IntrEndType DEF SummaryEnd, PumpStopped
  <2>2. /\ doc' \in [Servers -> Doc] /\ step' \in [Servers -> StepType]
        /\ target' \in [Servers -> TargetType]
    BY <2>1, JobFacts, BeginSettleType
  <2>3. UNCHANGED <<files, leasing, boot, registered, phase, writer, pub, intr, rest,
                    engine, shape, bounds>>
    BY <1>4 DEF SummaryEnd, PumpStopped
  <2>4. JobOK'
    BY <2>2, <2>3, JobFacts DEF TypeOK, StepType, TargetType
  <2>5. FilesOK' /\ EngineOK' /\ LeaseOK' /\ ServerOK'
    BY <2>3, JobFacts DEF TypeOK
  <2> QED BY <2>4, <2>5 DEF TypeOK
<1>5. CASE PumpRelease(s)
  <2>1. FilesOK' /\ LeaseOK'
    BY <1>5, JobFacts DEF PumpRelease, TypeOK
  <2>2. JobOK'
    BY <1>5, JobFacts DEF PumpRelease, TypeOK, Set
  <2>3. ServerOK' /\ EngineOK'
    BY <1>5, JobFacts DEF PumpRelease, TypeOK, Set
  <2> QED BY <2>1, <2>2, <2>3 DEF TypeOK
<1>6. CASE Unregister(s)
  <2>1. FilesOK' /\ LeaseOK' /\ JobOK' /\ EngineOK'
    BY <1>6, JobFacts DEF Unregister, TypeOK
  <2>2. ServerOK'
    BY <1>6, JobFacts DEF Unregister, TypeOK, Set
  <2> QED BY <2>1, <2>2 DEF TypeOK
<1> QED BY <1>1, <1>2, <1>3, <1>4, <1>5, <1>6 DEF Pump

LEMMA NotAdmittedType ==
  ASSUME TypeOK, NEW s \in Servers, NotAdmitted(s)
  PROVE  /\ status' = "gone"
         /\ gen' \in [Servers -> {"none", "running", "stopped", "closed"}]
         /\ marked' \in [Servers -> BOOLEAN]
<1>1. gen \in [Servers -> {"none", "running", "stopped", "closed"}]
      /\ marked \in [Servers -> BOOLEAN]
  BY DEF TypeOK, EngineOK
<1>2. gen' = Set(gen, s, "none") /\ marked' = Set(marked, s, FALSE) /\ status' = "gone"
  BY DEF NotAdmitted
<1>3. gen' \in [Servers -> {"none", "running", "stopped", "closed"}]
  BY <1>1, <1>2, SetType
<1>4. marked' \in [Servers -> BOOLEAN]
  BY <1>1, <1>2, SetType
<1> QED BY <1>2, <1>3, <1>4

LEMMA AdmissionType ==
  ASSUME EndInv, NEW s \in Servers, Admission(s)
  PROVE  TypeOK'
<1> USE DEF files, leasing, boot, job, rest, engine, bounds, FilesOK, LeaseOK, JobOK,
            ServerOK, EngineOK
<1>1. CASE AdmitLease(s)
  <2>1. /\ gen' \in [Servers -> {"none", "running", "stopped", "closed"}]
        /\ marked' \in [Servers -> BOOLEAN] /\ status' \in {status, "gone"}
    <3>1. CASE NotAdmitted(s)
      BY <3>1, JobFacts, NotAdmittedType
    <3>2. CASE UNCHANGED <<status, gen, marked>>
      BY <3>2, JobFacts DEF TypeOK
    <3> QED BY <1>1, <3>1, <3>2 DEF AdmitLease
  <2>2. FilesOK' /\ LeaseOK'
    BY <1>1, <2>1, JobFacts DEF AdmitLease, TypeOK, Unstored
  <2>3. JobOK' /\ ServerOK'
    BY <1>1, JobFacts DEF AdmitLease, TypeOK
  <2>4. EngineOK'
    BY <1>1, <2>1, JobFacts DEF AdmitLease, TypeOK
  <2> QED BY <2>2, <2>3, <2>4 DEF TypeOK
<1>2. CASE AdmitJournal(s)
  <2>1. <<Created, Queued>> \in Seq(AnyLine)
    <3>1. Created \in AnyLine /\ Queued \in AnyLine
      BY LineTypes DEF AnyLine
    <3> QED BY <3>1
  <2>2. /\ gen' \in [Servers -> {"none", "running", "stopped", "closed"}]
        /\ marked' \in [Servers -> BOOLEAN] /\ status' \in {status, "gone"}
        /\ faults' \in Nat
    <3>1. CASE NotAdmitted(s) /\ Fault
      BY <3>1, JobFacts, NotAdmittedType DEF Fault, TypeOK
    <3>2. CASE UNCHANGED <<status, gen, marked, faults>>
      BY <3>2, JobFacts DEF TypeOK
    <3> QED BY <1>2, <3>1, <3>2 DEF AdmitJournal
  <2>3. journal' \in Seq(AnyLine)
    <3>1. journal \in Seq(AnyLine)
      BY JobFacts DEF TypeOK, AnyLine
    <3>2. journal' = <<Created, Queued>> \/ UNCHANGED journal
      BY <1>2 DEF AdmitJournal
    <3> QED BY <2>1, <3>1, <3>2
  <2>4. jfile' \in BOOLEAN
    BY <1>2, JobFacts DEF AdmitJournal, TypeOK
  <2>5. FilesOK'
    BY <1>2, <2>2, <2>3, <2>4, JobFacts DEF AdmitJournal, TypeOK, Unstored, AnyLine
  <2>6. LeaseOK'
    BY <1>2, JobFacts DEF AdmitJournal, EndTask, TypeOK
  <2>7. JobOK' /\ ServerOK'
    BY <1>2, JobFacts DEF AdmitJournal, TypeOK
  <2>8. EngineOK'
    BY <1>2, <2>2, JobFacts DEF AdmitJournal, TypeOK
  <2> QED BY <2>5, <2>6, <2>7, <2>8 DEF TypeOK
<1>3. CASE AdmitRecord(s)
  <2>1. /\ gen' \in [Servers -> {"none", "running", "stopped", "closed"}]
        /\ marked' \in [Servers -> BOOLEAN] /\ status' \in {"queued", "gone"}
        /\ faults' \in Nat
    <3>1. CASE NotAdmitted(s) /\ Fault
      BY <3>1, JobFacts, NotAdmittedType DEF Fault, TypeOK
    <3>2. CASE status' = "queued" /\ UNCHANGED <<gen, marked, faults>>
      BY <3>2, JobFacts DEF TypeOK
    <3> QED BY <1>3, <3>1, <3>2 DEF AdmitRecord
  <2>2. jfile' \in BOOLEAN /\ marker' \in BOOLEAN
    BY <1>3, JobFacts DEF AdmitRecord, TypeOK
  <2>3. FilesOK'
    BY <1>3, <2>1, <2>2, JobFacts DEF AdmitRecord, TypeOK, Unstored, Pending
  <2>4. LeaseOK'
    BY <1>3, JobFacts DEF AdmitRecord, EndTask, TypeOK
  <2>5. JobOK' /\ ServerOK'
    BY <1>3, JobFacts DEF AdmitRecord, TypeOK
  <2>6. EngineOK'
    BY <1>3, <2>1, JobFacts DEF AdmitRecord, TypeOK
  <2> QED BY <2>3, <2>4, <2>5, <2>6 DEF TypeOK
<1>4. CASE Register(s)
  <2>1. PICK items \in LastItems :
          \/ /\ registered' = Set(registered, s, TRUE)
             /\ task' = "pump"
             /\ doc' = Set(doc, s, NewDoc(items))
             /\ intr' = Set(intr, s, "none")
             /\ UNCHANGED <<step, target>>
          \/ /\ task' = "abandoned"
             /\ intr' = Set(intr, s, "close")
             /\ BeginSettle(s, NewDoc(items), "shutdown")
             /\ UNCHANGED registered
    BY <1>4 DEF Register
  <2>2. NewDoc(items) \in Doc
    BY JobFacts, LastItemType, NewDocType
  <2>3. /\ doc' \in [Servers -> Doc] /\ step' \in [Servers -> StepType]
        /\ target' \in [Servers -> TargetType]
    <3>1. CASE BeginSettle(s, NewDoc(items), "shutdown")
      BY <2>2, <3>1, JobFacts, EndNames, BeginSettleType
    <3>2. CASE doc' = Set(doc, s, NewDoc(items)) /\ UNCHANGED <<step, target>>
      BY <2>2, <3>2, JobFacts, SetType DEF TypeOK, StepType, TargetType
    <3> QED BY <2>1, <3>1, <3>2
  <2>4. phase' \in [Servers -> PhaseType] /\ writer' \in [Servers -> WriterType]
    <3>1. \E ph \in PhaseType : phase' = Set(phase, s, ph)
      BY <1>4 DEF Register, PhaseType, Pending
    <3>2. \E w \in WriterType : writer' = Set(writer, s, w)
      BY <1>4 DEF Register, WriterType
    <3>3. phase \in [Servers -> PhaseType] /\ writer \in [Servers -> WriterType]
      BY JobFacts DEF TypeOK, PhaseType, WriterType
    <3> QED BY <3>1, <3>2, <3>3, SetType
  <2>5. pub' \in [Servers -> PubType]
    <3>1. Len(journal) \in Nat
      BY JobFacts DEF TypeOK
    <3>2. [NoPub EXCEPT !.lines = Len(journal)] \in PubType
      BY <3>1 DEF NoPub, PubType
    <3>3. pub' = Set(pub, s, [NoPub EXCEPT !.lines = Len(journal)])
      BY <1>4 DEF Register
    <3>4. pub \in [Servers -> PubType]
      BY JobFacts DEF TypeOK, PubType
    <3> QED BY <3>2, <3>3, <3>4, SetType
  <2>6. JobOK'
    BY <2>3, <2>4, <2>5 DEF PhaseType, WriterType, PubType, StepType, TargetType
  <2>7. registered' \in [Servers -> BOOLEAN]
        /\ intr' \in [Servers -> {"none", "cancel", "delete", "close"}]
    <3>1. registered \in [Servers -> BOOLEAN]
          /\ intr \in [Servers -> {"none", "cancel", "delete", "close"}]
      BY JobFacts DEF TypeOK
    <3>2. registered' = Set(registered, s, TRUE) \/ UNCHANGED registered
      BY <2>1
    <3>3. intr' = Set(intr, s, "none") \/ intr' = Set(intr, s, "close")
      BY <2>1
    <3>4. registered' \in [Servers -> BOOLEAN]
      BY <3>1, <3>2 DEF Set
    <3>5. intr' \in [Servers -> {"none", "cancel", "delete", "close"}]
      BY <3>1, <3>3 DEF Set
    <3> QED BY <3>4, <3>5
  <2>8. Resumed(s, FALSE) /\ UNCHANGED <<files, lease, verdict, rest, engine, shape,
                                         bounds>>
    BY <1>4 DEF Register
  <2>9. ServerOK'
    BY <2>7, <2>8, JobFacts, ResumedType DEF TypeOK
  <2>10. FilesOK' /\ EngineOK' /\ LeaseOK'
    BY <2>1, <2>8, JobFacts DEF TypeOK
  <2> QED BY <2>6, <2>9, <2>10 DEF TypeOK
<1>5. CASE DropAbandoned(s)
  <2>1. FilesOK' /\ ServerOK' /\ LeaseOK'
    BY <1>5, JobFacts DEF DropAbandoned, EndTask, TypeOK
  <2>2. JobOK'
    BY <1>5, JobFacts DEF DropAbandoned, TypeOK, Set
  <2>3. EngineOK'
    BY <1>5, JobFacts DEF DropAbandoned, TypeOK, Set
  <2> QED BY <2>1, <2>2, <2>3 DEF TypeOK
<1> QED BY <1>1, <1>2, <1>3, <1>4, <1>5 DEF Admission

LEMMA RecoveryType ==
  ASSUME EndInv, NEW s \in Servers, Recovery(s)
  PROVE  TypeOK'
<1> USE DEF files, leasing, boot, job, rest, engine, bounds, FilesOK, LeaseOK, JobOK,
            ServerOK, EngineOK
<1>1. CASE ResumeBoundary(s)
  <2>1. PICK batch \in Boundaries :
          /\ Continued(batch) \/ NotContinued(batch)
          /\ \/ task' = "submit" /\ UNCHANGED verdict
             \/ task' = "settle" /\ verdict' = "unjournaled"
    BY <1>1 DEF ResumeBoundary
  <2>2. batch \in Seq(AnyLine)
    <3>1. batch \in Seq(OpenLine)
      BY JobFacts, BoundaryType DEF TypeOK, AnyLine
    <3> QED BY <3>1 DEF AnyLine
  <2>3. journal' \in Seq(AnyLine) /\ frag' \in BOOLEAN /\ faults' \in Nat
    BY <2>1, <2>2, JobFacts, ContinueType
  <2>4. UNCHANGED <<status, jfile, marker, lease, boot>> /\ TaskFrame
    BY <1>1 DEF ResumeBoundary
  <2>5. FilesOK' /\ EngineOK'
    BY <2>3, <2>4, JobFacts DEF TypeOK, TaskFrame, AnyLine
  <2>6. LeaseOK'
    BY <2>1, <2>4, JobFacts, EndNames DEF TypeOK
  <2>7. JobOK' /\ ServerOK'
    BY <2>4, JobFacts DEF TypeOK, TaskFrame
  <2> QED BY <2>5, <2>6, <2>7 DEF TypeOK
<1>2. CASE ResumeSubmit(s)
  <2>1. \/ Resumed(s, TRUE) /\ EndTask(s)
        \/ UNCHANGED boot /\ UNCHANGED <<lease, verdict>> /\ task' = "register"
        \/ UNCHANGED boot /\ UNCHANGED lease /\ task' = "settle" /\ verdict' = "refused"
    BY <1>2 DEF ResumeSubmit
  <2>2. UNCHANGED <<files, job, rest, marked, toolRuns, shape, stops>>
    BY <1>2 DEF ResumeSubmit
  <2>3. LeaseOK'
    <3>1. "refused" \in Ends
      BY EndNames
    <3>2. LeaseOK
      BY JobFacts DEF TypeOK
    <3>3. CASE EndTask(s)
      BY <3>3 DEF EndTask, LeaseOK
    <3>4. CASE UNCHANGED lease /\ task' \in {"register", "settle"}
               /\ (UNCHANGED verdict \/ verdict' = "refused")
      BY <3>1, <3>2, <3>4 DEF LeaseOK
    <3> QED BY <2>1, <3>3, <3>4 DEF EndTask
  <2>4. ServerOK'
    BY <2>1, <2>2, JobFacts, ResumedType DEF TypeOK
  <2>5. EngineOK'
    <3>1. gen' = Set(gen, s, "running") \/ UNCHANGED gen
      BY <1>2 DEF ResumeSubmit
    <3>2. runs' = runs + 1 \/ UNCHANGED runs
      BY <1>2 DEF ResumeSubmit
    <3>3. faults' = faults + 1 \/ UNCHANGED faults
      BY <1>2 DEF ResumeSubmit, Fault
    <3>4. deferrals' = deferrals + 1 \/ UNCHANGED deferrals
      BY <1>2 DEF ResumeSubmit
    <3>5. gen' \in [Servers -> {"none", "running", "stopped", "closed"}]
      BY <3>1, JobFacts DEF TypeOK, Set
    <3>6. runs' \in Nat /\ faults' \in Nat /\ deferrals' \in Nat
      BY <3>2, <3>3, <3>4, JobFacts DEF TypeOK
    <3> QED BY <2>2, <3>5, <3>6, JobFacts DEF TypeOK
  <2>6. FilesOK' /\ JobOK'
    BY <2>2, JobFacts DEF TypeOK
  <2> QED BY <2>3, <2>4, <2>5, <2>6 DEF TypeOK
<1>3. CASE SettleUnowned(s)
  <2>1. status' \in {status, verdict} /\ verdict \in Ends
        /\ UNCHANGED <<journal, frag, jfile, marker>> /\ TaskFrame
    BY <1>3, JobFacts DEF SettleUnowned
  <2>2. FilesOK' /\ JobOK'
    BY <2>1, JobFacts DEF TypeOK, TaskFrame
  <2>3. LeaseOK'
    <3>1. \/ task' = "seal" /\ UNCHANGED <<lease, verdict>>
          \/ lease' = NoServer /\ task' = "none" /\ verdict' = NoEnd
      BY <1>3 DEF SettleUnowned, EndTask
    <3>2. LeaseOK
      BY JobFacts DEF TypeOK
    <3> QED BY <3>1, <3>2 DEF LeaseOK
  <2>4. ServerOK'
    <3>1. CASE Resumed(s, FALSE)
      BY <2>1, <3>1, JobFacts, ResumedType DEF TypeOK, TaskFrame
    <3>2. CASE UNCHANGED deferred /\ (UNCHANGED server \/ server' = Set(server, s, "down"))
      BY <2>1, <3>2, JobFacts DEF TypeOK, TaskFrame, Set
    <3> QED BY <1>3, <3>1, <3>2 DEF SettleUnowned
  <2>5. EngineOK'
    <3>1. faults' = faults + 1 \/ UNCHANGED faults
      BY <1>3 DEF SettleUnowned, Fault
    <3> QED BY <2>1, <3>1, JobFacts DEF TypeOK, TaskFrame
  <2> QED BY <2>2, <2>3, <2>4, <2>5 DEF TypeOK
<1>4. CASE SealJournal(s)
  <2> DEFINE batch == IF Ended(journal) THEN <<>> ELSE TerminalEvents(verdict)
  <2>1. /\ Continued(batch) \/ NotContinued(batch) \/ UNCHANGED <<journal, frag, faults>>
        /\ EndTask(s) /\ Resumed(s, FALSE)
        /\ UNCHANGED <<status, jfile, marker>> /\ TaskFrame /\ verdict \in Ends
    BY <1>4, JobFacts DEF SealJournal
  <2>2. batch \in Seq(AnyLine)
    BY <2>1, TerminalType
  <2> HIDE DEF batch
  <2>3. journal' \in Seq(AnyLine) /\ frag' \in BOOLEAN /\ faults' \in Nat
    BY <2>1, <2>2, JobFacts, ContinueType DEF TypeOK, AnyLine
  <2>4. FilesOK' /\ EngineOK'
    BY <2>1, <2>3, JobFacts DEF TypeOK, TaskFrame, AnyLine
  <2>5. LeaseOK' /\ JobOK'
    BY <2>1, JobFacts DEF TypeOK, TaskFrame, EndTask
  <2>6. ServerOK'
    BY <2>1, JobFacts, ResumedType DEF TypeOK, TaskFrame
  <2> QED BY <2>4, <2>5, <2>6 DEF TypeOK
<1> QED BY <1>1, <1>2, <1>3, <1>4 DEF Recovery

LEMMA HandlerType ==
  ASSUME EndInv, NEW s \in Servers, Handler(s)
  PROVE  TypeOK'
<1> USE DEF files, leasing, boot, job, rest, engine, bounds, FilesOK, LeaseOK, JobOK,
            ServerOK, EngineOK
<1>1. ASSUME NEW handler, NEW end \in Ends, LockToSettle(s, handler, end)
      PROVE  TypeOK'
  <2>1. UNCHANGED <<files, leasing, boot, registered, phase, writer, pub, intr, deleting,
                    subscribing, engine, shape, bounds>>
        /\ wait' = Set(wait, s, wait[s] \ {handler})
    BY <1>1 DEF LockToSettle
  <2>2. /\ doc' \in [Servers -> Doc] /\ step' \in [Servers -> StepType]
        /\ target' \in [Servers -> TargetType]
    <3>1. CASE BeginSettle(s, doc[s], end)
      BY <3>1, JobFacts, BeginSettleType
    <3>2. CASE UNCHANGED <<doc, step, target>>
      BY <3>2, JobFacts DEF TypeOK, StepType, TargetType
    <3> QED BY <1>1, <3>1, <3>2 DEF LockToSettle
  <2>3. JobOK'
    BY <2>1, <2>2, JobFacts DEF TypeOK, StepType, TargetType
  <2>4. ServerOK'
    BY <2>1, JobFacts DEF TypeOK, Set
  <2>5. FilesOK' /\ LeaseOK' /\ EngineOK'
    BY <2>1, JobFacts DEF TypeOK
  <2> QED BY <2>3, <2>4, <2>5 DEF TypeOK
<1>2. CASE LockToDelete(s)
  <2>1. status' \in {status, "gone"} /\ UNCHANGED <<journal, frag, jfile, marker>>
    BY <1>2 DEF LockToDelete
  <2>2. FilesOK'
    BY <2>1, JobFacts DEF TypeOK, Unstored
  <2>3. JobOK'
    BY <1>2, JobFacts DEF LockToDelete, TypeOK, Set
  <2>4. LeaseOK'
    BY <1>2, JobFacts DEF LockToDelete, TypeOK
  <2>5. ServerOK'
    <3>1. UNCHANGED <<boot, registered, intr, deleting, subscribing>>
      BY <1>2 DEF LockToDelete
    <3>2. wait' = Set(wait, s, wait[s] \ {"delete"}) \/ UNCHANGED wait
      BY <1>2 DEF LockToDelete
    <3>3. wait' \in [Servers -> SUBSET {"cancel", "delete", "close"}]
      <4> DEFINE W == SUBSET {"cancel", "delete", "close"}
      <4>1. wait \in [Servers -> W]
        BY JobFacts DEF TypeOK
      <4>2. wait[s] \in W
        BY <4>1
      <4>3. wait[s] \ {"delete"} \in W
        BY <4>2
      <4> HIDE DEF W
      <4>4. Set(wait, s, wait[s] \ {"delete"}) \in [Servers -> W]
        BY <4>1, <4>3, SetType
      <4>5. wait' \in [Servers -> W]
        BY <3>2, <4>1, <4>4
      <4> QED BY <4>5 DEF W
    <3> QED BY <3>1, <3>3, JobFacts DEF TypeOK
  <2>6. EngineOK'
    BY <1>2, JobFacts DEF LockToDelete, TypeOK, Fault
  <2> QED BY <2>2, <2>3, <2>4, <2>5, <2>6 DEF TypeOK
<1>3. CASE DeleteJob(s)
  <2>1. "deleted" \in PhaseType
    BY DEF PhaseType
  <2>2. /\ phase' \in [Servers -> PhaseType] /\ step' \in [Servers -> StepType]
        /\ target' \in [Servers -> TargetType]
        /\ gen' \in [Servers -> {"none", "running", "stopped", "closed"}]
    BY <1>3, <2>1, JobFacts, UnlockedType DEF DeleteJob
  <2>3. jfile' \in BOOLEAN /\ marker' \in BOOLEAN /\ faults' \in Nat
    BY <1>3, JobFacts, UnlinkedType DEF DeleteJob
  <2>4. pub' \in [Servers -> PubType]
    <3>1. pub \in [Servers -> PubType]
      BY JobFacts DEF TypeOK, PubType
    <3>2. [pub[s] EXCEPT !.deleted = TRUE] \in PubType
      BY <3>1 DEF PubType
    <3>3. pub' = Set(pub, s, [pub[s] EXCEPT !.deleted = TRUE])
      BY <1>3 DEF DeleteJob
    <3> QED BY <3>1, <3>2, <3>3, SetType
  <2>5. writer' \in [Servers -> WriterType]
    BY <1>3, JobFacts DEF DeleteJob, TypeOK, Set, WriterType
  <2>6. UNCHANGED <<status, journal, frag, leasing, boot, registered, doc, intr,
                    deleting, subscribing, marked, runs, toolRuns, shape, stops,
                    deferrals>>
        /\ wait' = Set(wait, s, wait[s] \ {"delete"})
    BY <1>3 DEF DeleteJob
  <2>7. JobOK'
    BY <2>2, <2>4, <2>5, <2>6, JobFacts
       DEF TypeOK, PhaseType, StepType, TargetType, WriterType, PubType
  <2>8. FilesOK' /\ EngineOK'
    BY <2>2, <2>3, <2>6, JobFacts DEF TypeOK
  <2>9. LeaseOK' /\ ServerOK'
    BY <2>6, JobFacts DEF TypeOK, Set
  <2> QED BY <2>7, <2>8, <2>9 DEF TypeOK
<1> QED BY <1>1, <1>2, <1>3, EndNames DEF Handler

LEMMA RequestType ==
  ASSUME EndInv, NEW s \in Servers,
         Request(s) \/ Deletion(s) \/ UnlinkSettled(s) \/ Subscribe(s)
  PROVE  TypeOK'
<1> USE DEF files, leasing, boot, job, rest, engine, bounds, FilesOK, LeaseOK, JobOK,
            ServerOK, EngineOK
<1>1. CASE Post(s)
  <2>1. FilesOK' /\ LeaseOK' /\ JobOK' /\ ServerOK'
    BY <1>1, JobFacts DEF Post, TypeOK, Unstored
  <2>2. EngineOK'
    BY <1>1, JobFacts DEF Post, TypeOK, Set
  <2> QED BY <2>1, <2>2 DEF TypeOK
<1>2. CASE AskCancel(s) \/ AskDelete(s)
  <2>1. AskFrame /\ UNCHANGED <<boot, stops>>
        /\ \E h \in {"cancel", "delete"} : Ask(s, h)
    BY <1>2 DEF AskCancel, AskDelete
  <2>2. ServerOK'
    BY <2>1, JobFacts DEF AskFrame, Ask, TypeOK, Set
  <2>3. FilesOK' /\ LeaseOK' /\ JobOK' /\ EngineOK'
    BY <2>1, JobFacts DEF AskFrame, TypeOK
  <2> QED BY <2>2, <2>3 DEF TypeOK
<1>3. CASE CancelUnowned(s) \/ DeletePending(s)
  <2>1. LeaseOK'
    <3>1. "cancelled" \in Ends
      BY EndNames
    <3> QED BY <1>3, <3>1, JobFacts DEF CancelUnowned, DeletePending, TypeOK
  <2>2. UNCHANGED <<files, rest>> /\ RequestFrame
    BY <1>3 DEF CancelUnowned, DeletePending
  <2>3. FilesOK' /\ JobOK' /\ ServerOK' /\ EngineOK'
    BY <2>2, JobFacts DEF RequestFrame, TypeOK
  <2> QED BY <2>1, <2>3 DEF TypeOK
<1>4. CASE DeleteSettled(s)
  <2>1. FilesOK' /\ LeaseOK' /\ JobOK' /\ EngineOK'
    BY <1>4, JobFacts DEF DeleteSettled, RequestFrame, TypeOK, Unstored
  <2>2. ServerOK'
    BY <1>4, JobFacts DEF DeleteSettled, RequestFrame, TypeOK, Set
  <2> QED BY <2>1, <2>2 DEF TypeOK
<1>5. CASE Get(s)
  <2>1. LeaseOK' /\ faults' \in Nat
    BY <1>5, JobFacts, TakeResumeType DEF Get
  <2>2. UNCHANGED <<files, boot>> /\ TaskFrame
    BY <1>5 DEF Get
  <2>3. FilesOK' /\ JobOK' /\ ServerOK' /\ EngineOK'
    BY <2>1, <2>2, JobFacts DEF TaskFrame, TypeOK
  <2> QED BY <2>1, <2>3 DEF TypeOK
<1>6. CASE StreamGet(s)
  <2>1. FilesOK' /\ LeaseOK' /\ JobOK' /\ EngineOK'
    BY <1>6, JobFacts DEF StreamGet, RequestFrame, TypeOK
  <2>2. ServerOK'
    BY <1>6, JobFacts DEF StreamGet, RequestFrame, TypeOK, Set
  <2> QED BY <2>1, <2>2 DEF TypeOK
<1>7. CASE Prune(s)
  <2>1. jfile' = FALSE /\ marker' = FALSE /\ UNCHANGED <<status, journal, frag>>
    BY <1>7 DEF Prune, RemoveOrphan
  <2>2. FilesOK'
    BY <2>1, JobFacts DEF TypeOK
  <2>3. UNCHANGED <<leasing, rest>> /\ RequestFrame
    BY <1>7 DEF Prune
  <2>4. LeaseOK' /\ JobOK' /\ ServerOK' /\ EngineOK'
    BY <2>3, JobFacts DEF RequestFrame, TypeOK
  <2> QED BY <2>2, <2>4 DEF TypeOK
<1>8. CASE RemovePending(s)
  <2>1. status' \in {status, "gone"} /\ UNCHANGED <<journal, frag, jfile, marker, boot>>
        /\ TaskFrame
    BY <1>8 DEF RemovePending
  <2>2. FilesOK' /\ JobOK' /\ ServerOK'
    BY <2>1, JobFacts DEF TypeOK, TaskFrame, Unstored
  <2>3. LeaseOK'
    BY <1>8, JobFacts DEF RemovePending, EndTask, TypeOK
  <2>4. EngineOK'
    BY <1>8, <2>1, JobFacts DEF RemovePending, Fault, TypeOK, TaskFrame
  <2> QED BY <2>2, <2>3, <2>4 DEF TypeOK
<1>9. CASE UnlinkPending(s)
  <2>1. jfile' \in BOOLEAN /\ marker' \in BOOLEAN /\ faults' \in Nat
    BY <1>9, JobFacts, UnlinkedType DEF UnlinkPending
  <2>2. UNCHANGED <<status, journal, frag, boot>> /\ TaskFrame /\ EndTask(s)
    BY <1>9 DEF UnlinkPending
  <2>3. FilesOK' /\ JobOK' /\ EngineOK'
    BY <2>1, <2>2, JobFacts DEF TypeOK, TaskFrame
  <2>4. LeaseOK' /\ ServerOK'
    BY <2>2, JobFacts DEF TypeOK, TaskFrame, EndTask
  <2> QED BY <2>3, <2>4 DEF TypeOK
<1>10. CASE UnlinkSettled(s)
  <2>1. jfile' \in BOOLEAN /\ marker' \in BOOLEAN /\ faults' \in Nat
    BY <1>10, JobFacts, UnlinkedType DEF UnlinkSettled
  <2>2. UNCHANGED <<status, journal, frag, leasing, boot, job, wait, subscribing, engine,
                    shape, stops, deferrals>>
        /\ deleting' = Set(deleting, s, FALSE)
    BY <1>10 DEF UnlinkSettled
  <2>3. FilesOK' /\ JobOK' /\ EngineOK' /\ LeaseOK'
    BY <2>1, <2>2, JobFacts DEF TypeOK
  <2>4. ServerOK'
    BY <2>2, JobFacts DEF TypeOK, Set
  <2> QED BY <2>3, <2>4 DEF TypeOK
<1>11. CASE Subscribe(s)
  <2>1. /\ Adopted("not_resumed") \in Ends /\ Adopted("no_request") \in Ends
    BY JobFacts, EndNames, AdoptedType
  <2>2. \/ UNCHANGED leasing
        \/ lease' = s /\ task' = "settle"
           /\ (verdict' = Adopted("not_resumed") \/ verdict' = Adopted("no_request"))
    BY <1>11 DEF Subscribe
  <2>3. LeaseOK'
    BY <2>1, <2>2, JobFacts DEF TypeOK
  <2>4. FilesOK' /\ JobOK' /\ EngineOK'
    BY <1>11, JobFacts DEF Subscribe, RequestFrame, TypeOK
  <2>5. ServerOK'
    BY <1>11, JobFacts DEF Subscribe, RequestFrame, TypeOK, Set
  <2> QED BY <2>3, <2>4, <2>5 DEF TypeOK
<1> QED BY <1>1, <1>2, <1>3, <1>4, <1>5, <1>6, <1>7, <1>8, <1>9, <1>10, <1>11
        DEF Request, Deletion

LEMMA BootType ==
  ASSUME EndInv, NEW s \in Servers, Boot(s)
  PROVE  TypeOK'
<1> USE DEF files, leasing, boot, job, rest, engine, bounds, FilesOK, LeaseOK, JobOK,
            ServerOK, EngineOK
<1>1. BootFrame
  BY DEF Boot, Start, Sweep, StartupResume, Retry
<1>2. CASE Start(s)
  <2>1. FilesOK' /\ LeaseOK' /\ JobOK' /\ EngineOK'
    BY <1>2, JobFacts DEF Start, BootFrame, TypeOK
  <2>2. ServerOK'
    BY <1>2, JobFacts DEF Start, BootFrame, TypeOK, Set
  <2> QED BY <2>1, <2>2 DEF TypeOK
<1>3. CASE Sweep(s)
  <2>1. Adopted("no_request") \in Ends
    BY JobFacts, EndNames, AdoptedType
  <2>2. LeaseOK'
    BY <1>3, <2>1, JobFacts DEF Sweep, TypeOK
  <2>3. \/ UNCHANGED files
        \/ jfile' = FALSE /\ marker' = FALSE /\ UNCHANGED <<status, journal, frag>>
    BY <1>3 DEF Sweep, RemoveOrphan
  <2>4. FilesOK'
    <3>1. CASE UNCHANGED files
      BY <3>1, JobFacts DEF TypeOK
    <3>2. CASE jfile' = FALSE /\ marker' = FALSE /\ UNCHANGED <<status, journal, frag>>
      BY <3>2, JobFacts DEF TypeOK
    <3> QED BY <2>3, <3>1, <3>2
  <2>5. ServerOK'
    BY <1>1, <1>3, JobFacts DEF Sweep, BootFrame, TypeOK, Set
  <2>6. JobOK' /\ EngineOK'
    BY <1>1, <1>3, JobFacts DEF Sweep, BootFrame, TypeOK
  <2> QED BY <2>2, <2>4, <2>5, <2>6 DEF TypeOK
<1>4. CASE StartupResume(s)
  <2>1. LeaseOK' /\ faults' \in Nat
    <3>1. CASE TakeResume(s)
      BY <3>1, JobFacts, TakeResumeType
    <3>2. CASE UNCHANGED <<leasing, faults>>
      BY <3>2, JobFacts DEF TypeOK
    <3> QED BY <1>4, <3>1, <3>2 DEF StartupResume
  <2>2. Resumed(s, FALSE) \/ UNCHANGED boot
    BY <1>4 DEF StartupResume
  <2>3. ServerOK'
    BY <1>1, <2>2, JobFacts, ResumedType DEF BootFrame, TypeOK
  <2>4. FilesOK' /\ JobOK' /\ EngineOK'
    BY <1>1, <1>4, <2>1, JobFacts DEF StartupResume, BootFrame, TypeOK
  <2> QED BY <2>1, <2>3, <2>4 DEF TypeOK
<1>5. CASE Retry(s)
  <2>1. LeaseOK' /\ faults' \in Nat
    <3>1. CASE TakeResume(s)
      BY <3>1, JobFacts, TakeResumeType
    <3>2. CASE UNCHANGED <<leasing, faults>>
      BY <3>2, JobFacts DEF TypeOK
    <3> QED BY <1>5, <3>1, <3>2 DEF Retry
  <2>2. \E x \in {"retrying", "no"} : deferred' = Set(deferred, s, x)
    BY <1>5 DEF Retry
  <2>3. ServerOK'
    BY <1>1, <1>5, <2>2, JobFacts DEF Retry, BootFrame, TypeOK, Set
  <2>4. FilesOK' /\ JobOK' /\ EngineOK'
    BY <1>1, <1>5, <2>1, JobFacts DEF Retry, BootFrame, TypeOK
  <2> QED BY <2>1, <2>3, <2>4 DEF TypeOK
<1> QED BY <1>2, <1>3, <1>4, <1>5 DEF Boot

LEMMA EngineType ==
  ASSUME EndInv, NEW s \in Servers, EngineClose(s) \/ MarkTools(s) \/ RunTool(s)
  PROVE  TypeOK'
<1> USE DEF files, leasing, boot, job, rest, engine, bounds, FilesOK, LeaseOK, JobOK,
            ServerOK, EngineOK
<1>1. EngineFrame /\ UNCHANGED <<status, journal, frag, jfile>>
  BY DEF EngineClose, MarkTools, RunTool
<1>2. LeaseOK' /\ JobOK' /\ ServerOK'
  BY <1>1, JobFacts DEF EngineFrame, TypeOK
<1>3. marker' \in BOOLEAN
  <2>1. UNCHANGED marker \/ marker' = (marker \/ shape.request)
    BY DEF EngineClose, MarkTools, RunTool
  <2> QED BY <2>1, JobFacts DEF TypeOK
<1>4. FilesOK'
  BY <1>1, <1>3, JobFacts DEF TypeOK
<1>5. EngineOK'
  <2>1. CASE EngineClose(s)
    BY <2>1, JobFacts DEF EngineClose, EngineFrame, TypeOK, Set
  <2>2. CASE MarkTools(s)
    BY <2>2, JobFacts DEF MarkTools, EngineFrame, TypeOK, Set
  <2>3. CASE RunTool(s)
    BY <2>3, JobFacts DEF RunTool, EngineFrame, TypeOK
  <2> QED BY <2>1, <2>2, <2>3
<1> QED BY <1>2, <1>4, <1>5 DEF TypeOK

LEMMA ResetType ==
  ASSUME TypeOK, NEW s \in Servers, Reset(s)
  PROVE  /\ JobOK' /\ ServerOK'
         /\ gen' \in [Servers -> {"none", "running", "stopped", "closed"}]
         /\ marked' \in [Servers -> BOOLEAN]
<1> USE DEF TypeOK, JobOK, ServerOK, EngineOK
<1>1. NewDoc(0) \in Doc /\ NoPub \in PubType
  BY NewDocType DEF NoPub, PubType
<1>2. doc' \in [Servers -> Doc] /\ pub' \in [Servers -> PubType]
  <2>1. pub \in [Servers -> PubType] /\ doc \in [Servers -> Doc]
    BY DEF PubType
  <2>2. doc' = Set(doc, s, NewDoc(0)) /\ pub' = Set(pub, s, NoPub)
    BY DEF Reset
  <2> QED BY <1>1, <2>1, <2>2, SetType
<1>3. phase' \in [Servers -> PhaseType] /\ step' \in [Servers -> StepType]
  BY DEF Reset, Set, PhaseType, StepType
<1>4. target' \in [Servers -> TargetType] /\ writer' \in [Servers -> WriterType]
  BY DEF Reset, Set, TargetType, WriterType
<1>5. JobOK'
  BY <1>2, <1>3, <1>4 DEF PhaseType, StepType, TargetType, WriterType, PubType
<1>6. /\ server' \in [Servers -> {"down", "sweeping", "resuming", "serving", "closing"}]
      /\ deferred' \in [Servers -> {"no", "waiting", "retrying"}]
      /\ intr' \in [Servers -> {"none", "cancel", "delete", "close"}]
      /\ wait' \in [Servers -> SUBSET {"cancel", "delete", "close"}]
  BY DEF Reset, Set
<1>7. /\ registered' \in [Servers -> BOOLEAN] /\ deleting' \in [Servers -> BOOLEAN]
      /\ subscribing' \in [Servers -> BOOLEAN]
  BY DEF Reset, Set
<1>8. ServerOK'
  BY <1>6, <1>7
<1>9. gen' \in [Servers -> {"none", "running", "stopped", "closed"}]
      /\ marked' \in [Servers -> BOOLEAN]
  BY DEF Reset, Set
<1> QED BY <1>5, <1>8, <1>9

LEMMA StopType ==
  ASSUME EndInv, NEW s \in Servers, Close(s) \/ Exit(s) \/ Crash(s)
  PROVE  TypeOK'
<1> USE DEF files, leasing, boot, job, rest, engine, bounds, FilesOK, LeaseOK, JobOK,
            ServerOK, EngineOK
<1>1. CASE Close(s)
  <2>1. AskFrame /\ stops' = stops + 1
    BY <1>1 DEF Close
  <2>2. FilesOK' /\ LeaseOK' /\ JobOK'
    BY <2>1, JobFacts DEF AskFrame, TypeOK
  <2>3. EngineOK'
    BY <2>1, JobFacts DEF AskFrame, TypeOK
  <2>4. ServerOK'
    <3>1. /\ wait' = Set(wait, s, wait[s] \cup {"close"}) \/ UNCHANGED wait
          /\ \/ UNCHANGED intr
             \/ intr' = Set(intr, s, IF intr[s] = "none" THEN "close" ELSE intr[s])
      BY <1>1 DEF Close, Ask
    <3>2. wait' \in [Servers -> SUBSET {"cancel", "delete", "close"}]
      <4> DEFINE W == SUBSET {"cancel", "delete", "close"}
      <4>1. wait \in [Servers -> W]
        BY JobFacts DEF TypeOK
      <4>2. wait[s] \in W
        BY <4>1
      <4>3. wait[s] \cup {"close"} \in W
        BY <4>2
      <4> HIDE DEF W
      <4>4. Set(wait, s, wait[s] \cup {"close"}) \in [Servers -> W]
        BY <4>1, <4>3, SetType
      <4>5. wait' \in [Servers -> W]
        BY <3>1, <4>1, <4>4
      <4> QED BY <4>5 DEF W
    <3>3. intr' \in [Servers -> {"none", "cancel", "delete", "close"}]
      BY <3>1, JobFacts DEF TypeOK, Set
    <3>4. /\ server' \in [Servers -> {"down", "sweeping", "resuming", "serving",
                                      "closing"}]
          /\ deferred' \in [Servers -> {"no", "waiting", "retrying"}]
      BY <1>1, JobFacts DEF Close, TypeOK, Set
    <3> QED BY <2>1, <3>2, <3>3, <3>4, JobFacts DEF AskFrame, TypeOK
  <2> QED BY <2>2, <2>3, <2>4 DEF TypeOK
<1>2. CASE Exit(s)
  <2>1. UNCHANGED <<files, leasing, runs, toolRuns, shape, bounds>> /\ Reset(s)
    BY <1>2 DEF Exit
  <2>2. FilesOK' /\ LeaseOK'
    BY <2>1, JobFacts DEF TypeOK
  <2>3. EngineOK'
    BY <2>1, JobFacts, ResetType DEF TypeOK
  <2> QED BY <2>1, <2>2, <2>3, JobFacts, ResetType DEF TypeOK
<1>3. CASE Crash(s)
  <2>1. Reset(s) /\ stops' = stops + 1 /\ UNCHANGED <<marker, runs, toolRuns, shape,
                                                       faults, deferrals>>
    BY <1>3 DEF Crash
  <2>2. LeaseOK'
    BY <1>3, JobFacts DEF Crash, EndTask, TypeOK
  <2>3. EngineOK'
    <3>1. TypeOK /\ EngineOK
      BY JobFacts DEF TypeOK
    <3>2. /\ gen' \in [Servers -> {"none", "running", "stopped", "closed"}]
          /\ marked' \in [Servers -> BOOLEAN]
      BY <2>1, <3>1, ResetType
    <3> QED BY <2>1, <3>1, <3>2 DEF EngineOK
  <2>4. journal' \in Seq(AnyLine) /\ frag' \in BOOLEAN
    <3>1. CASE UNCHANGED <<journal, frag>>
      BY <3>1, JobFacts DEF TypeOK, AnyLine
    <3>2. CASE \E batch \in InFlight(s) : Cut(batch)
      <4>1. PICK batch \in InFlight(s) : Cut(batch)
        BY <3>2
      <4>2. batch \in Seq(AnyLine)
        BY <4>1, InFlightType
      <4>3. journal \in Seq(AnyLine)
        BY JobFacts DEF TypeOK, AnyLine
      <4> QED BY <4>1, <4>2, <4>3, CutPrefixes, PrefixedType
    <3> QED BY <1>3, <3>1, <3>2 DEF Crash
  <2>5. jfile' \in BOOLEAN
    <3>1. UNCHANGED jfile \/ jfile' = (jfile \/ (lease = s /\ task = "journal"))
      BY <1>3 DEF Crash
    <3> QED BY <3>1, JobFacts DEF TypeOK
  <2>6. status' \in {status, "gone"}
    BY <1>3 DEF Crash
  <2>7. FilesOK'
    BY <2>1, <2>4, <2>5, <2>6, JobFacts DEF TypeOK, AnyLine, Unstored
  <2> QED BY <2>1, <2>2, <2>3, <2>7, JobFacts, ResetType DEF TypeOK
<1> QED BY <1>1, <1>2, <1>3

LEMMA TypeStep ==
  ASSUME EndInv, [Next]_vars
  PROVE  TypeOK'
<1>1. CASE UNCHANGED vars
  BY <1>1 DEF EndInv, TypeOK, FilesOK, LeaseOK, JobOK, ServerOK, EngineOK, vars, files,
     leasing, boot, job, rest, engine, bounds
<1>2. CASE Next
  <2>1. PICK s \in Servers :
          \/ ServerStep(s) \/ MarkTools(s) \/ RunTool(s) \/ Request(s) \/ Close(s)
          \/ Crash(s)
    BY <1>2 DEF Next
  <2> QED BY <2>1, SettlingType, PumpType, AdmissionType, RecoveryType, HandlerType,
             RequestType, BootType, EngineType, StopType DEF ServerStep
<1> QED BY <1>1, <1>2

(***************************************************************************)
(* Ends: what a write to the journal may do to EndIsDurable.               *)
(***************************************************************************)
LEMMA NoFinalIsDurable ==
  ASSUME Open'
  PROVE  EndIsDurable'
BY DEF Open, EndIsDurable

LEMMA SameJournalIsDurable ==
  ASSUME EndIsDurable, UNCHANGED journal, status' \in {status, "gone"}
  PROVE  EndIsDurable'
BY DEF EndIsDurable

LEMMA UnsettledIsOpen ==
  ASSUME TypeOK, EndIsDurable, status \in Pending \cup {"new", "submitted"}
  PROVE  Open
<1> SUFFICES ASSUME NEW n \in 1..Len(journal), journal[n].kind = "final"
             PROVE  FALSE
  BY DEF Open
<1>1. journal[n] \in AnyLine
  BY DEF TypeOK, FilesOK, AnyLine
<1>2. journal[n].end \in Ends
  BY <1>1 DEF AnyLine, OpenLine, EndLine
<1>3. status \in {journal[n].end, "gone"}
  BY DEF EndIsDurable
<1> QED BY <1>2, <1>3, EndNames DEF Pending, Unstored

LEMMA OpenIsNotEnded ==
  ASSUME TypeOK, Open
  PROVE  ~Ended(journal)
<1>1. journal # <<>> => Len(journal) \in 1..Len(journal)
  BY DEF TypeOK, FilesOK
<1> QED BY <1>1 DEF Open, Ended

LEMMA OpenKept ==
  ASSUME TypeOK, Open, NEW b \in Seq(OpenLine), Prefixed(b)
  PROVE  Open'
<1>1. journal \in Seq(AnyLine) /\ b \in Seq(AnyLine)
  BY DEF TypeOK, FilesOK, AnyLine
<1>2. PICK n \in 0..Len(b) : journal' = journal \o SubSeq(b, 1, n)
  BY DEF Prefixed
<1>3. /\ Len(journal') = Len(journal) + n
      /\ \A k \in 1..Len(journal) + n :
           journal'[k] = IF k <= Len(journal) THEN journal[k] ELSE b[k - Len(journal)]
  BY <1>1, <1>2, AppendedPrefix
<1> SUFFICES ASSUME NEW k \in 1..Len(journal) + n
             PROVE  journal'[k].kind # "final"
  BY <1>3 DEF Open
<1>4. CASE k <= Len(journal)
  <2>1. k \in 1..Len(journal)
    BY <1>1, <1>4
  <2> QED BY <1>3, <1>4, <2>1 DEF Open
<1>5. CASE ~(k <= Len(journal))
  <2>1. k - Len(journal) \in 1..Len(b)
    BY <1>1, <1>5
  <2>2. b[k - Len(journal)] \in OpenLine
    BY <2>1
  <2>3. b[k - Len(journal)].kind # "final"
    BY <2>2 DEF OpenLine
  <2> QED BY <1>3, <1>5, <2>3
<1> QED BY <1>4, <1>5

LEMMA EndAppended ==
  ASSUME TypeOK, Open, NEW end \in Ends, Prefixed(TerminalEvents(end)),
         status' \in {end, "gone"}
  PROVE  EndIsDurable'
<1> DEFINE b == TerminalEvents(end)
<1>1. journal \in Seq(AnyLine) /\ b \in Seq(AnyLine)
  BY TerminalType DEF TypeOK, FilesOK, AnyLine
<1>2. PICK n \in 0..Len(b) : journal' = journal \o SubSeq(b, 1, n)
  BY DEF Prefixed
<1>3. \A m \in 1..Len(b) : b[m].kind = "final" => m = Len(b) /\ b[m].end = end
  BY TerminalType
<1> HIDE DEF b
<1>4. /\ Len(journal') = Len(journal) + n
      /\ \A k \in 1..Len(journal) + n :
           journal'[k] = IF k <= Len(journal) THEN journal[k] ELSE b[k - Len(journal)]
  BY <1>1, <1>2, AppendedPrefix
<1> SUFFICES ASSUME NEW k \in 1..Len(journal) + n, journal'[k].kind = "final"
             PROVE  k = Len(journal) + n /\ status' \in {journal'[k].end, "gone"}
  BY <1>4 DEF EndIsDurable
<1>5. ~(k <= Len(journal))
  <2> SUFFICES ASSUME k <= Len(journal) PROVE FALSE
    OBVIOUS
  <2>1. k \in 1..Len(journal)
    BY <1>1
  <2> QED BY <1>4, <2>1 DEF Open
<1>6. k - Len(journal) \in 1..Len(b)
  BY <1>1, <1>5
<1>7. k - Len(journal) = Len(b) /\ journal'[k].end = end
  BY <1>3, <1>4, <1>5, <1>6
<1> QED BY <1>1, <1>5, <1>7

(***************************************************************************)
(* Which parts of the invariant a step can disturb.                        *)
(***************************************************************************)
JobGood(s) ==
  /\ phase[s] \in Pending \/ writer[s] # "none" =>
       lease = s /\ task \in {"pump", "abandoned"}
  /\ step[s] \notin {"free", "delete"} => phase[s] \in Pending
  /\ phase[s] \in Pending =>
       /\ Open
       /\ status \in IF step[s] = "end" THEN {target[s], "gone"} ELSE Live
       /\ task = "abandoned" => step[s] \in {"flush", "save", "resave", "end", "remove",
                                             "unlink"}
       /\ step[s] \in {"summary", "flush", "save", "resave", "end"} => target[s] \in Ends

Quiet(s) == phase[s] \notin Pending /\ writer[s] = "none" /\ step[s] \in {"free", "delete"}

OnlyAt(s) == \A t \in Servers \ {s} :
  /\ phase'[t] = phase[t] /\ writer'[t] = writer[t]
  /\ step'[t] = step[t] /\ target'[t] = target[t]

Core == <<phase, step, target, writer>>
OwnInv == EndIsDurable /\ JobHoldsLease /\ JobIsOpen /\ TaskIsOpen

LEMMA OnlyHolder ==
  ASSUME EndInv, NEW s \in Servers
  PROVE  /\ JobGood(s)
         /\ lease # s \/ task \notin {"pump", "abandoned"} => Quiet(s)
BY DEF EndInv, JobHoldsLease, JobIsOpen, JobGood, Quiet

LEMMA QuietIsGood ==
  ASSUME NEW s \in Servers, Quiet(s)'
  PROVE  JobGood(s)'
BY DEF JobGood, Quiet

LEMMA AllGood ==
  ASSUME \A t \in Servers : JobGood(t)', EndIsDurable', TaskIsOpen'
  PROVE  OwnInv'
BY DEF JobGood, OwnInv, JobHoldsLease, JobIsOpen

(* The holder of the lease, or one who takes it free, changes its own job. *)
LEMMA HolderStep ==
  ASSUME EndInv, NEW s \in Servers, lease \in {s, NoServer}, OnlyAt(s),
         JobGood(s)', EndIsDurable', TaskIsOpen'
  PROVE  OwnInv'
<1>1. ASSUME NEW t \in Servers \ {s} PROVE JobGood(t)'
  <2>1. lease # t
    BY ServersAssumption
  <2>2. Quiet(t)
    BY <2>1, OnlyHolder
  <2>3. Quiet(t)'
    BY <2>2 DEF Quiet, OnlyAt
  <2> QED BY <2>3, QuietIsGood
<1> QED BY <1>1, AllGood

(* A task under the lease changes no job. *)
LEMMA TaskStep ==
  ASSUME EndInv, lease = NoServer \/ task \notin {"pump", "abandoned"},
         UNCHANGED Core, EndIsDurable', TaskIsOpen'
  PROVE  OwnInv'
<1>1. ASSUME NEW t \in Servers PROVE JobGood(t)'
  <2>1. Quiet(t)
    BY OnlyHolder, ServersAssumption
  <2>2. Quiet(t)'
    BY <2>1 DEF Quiet, Core
  <2> QED BY <2>2, QuietIsGood
<1> QED BY <1>1, AllGood

(* A deletion, and whatever touches neither lease nor jobs. *)
LEMMA GoneStep ==
  ASSUME EndInv, UNCHANGED <<journal, leasing, Core>>, status' \in {status, "gone"}
  PROVE  OwnInv'
<1>1. EndIsDurable'
  BY SameJournalIsDurable DEF EndInv
<1>2. Open <=> Open'
  BY DEF Open
<1>3. TaskIsOpen'
  BY <1>2 DEF EndInv, TaskIsOpen, leasing, Live
<1>4. ASSUME NEW t \in Servers PROVE JobGood(t)'
  BY <1>2, OnlyHolder DEF JobGood, Core, leasing, Live
<1> QED BY <1>1, <1>3, <1>4, AllGood

(* A settled job changes, on a server that need not hold the lease. *)
LEMMA SettledStep ==
  ASSUME EndInv, NEW s \in Servers, UNCHANGED <<journal, leasing>>, OnlyAt(s),
         phase'[s] \notin Pending, step'[s] \in {"free", "delete"},
         writer'[s] \in {writer[s], "none"}, status' \in {status, "gone"}
  PROVE  OwnInv'
<1>1. EndIsDurable'
  BY SameJournalIsDurable DEF EndInv
<1>2. Open <=> Open'
  BY DEF Open
<1>3. TaskIsOpen'
  BY <1>2 DEF EndInv, TaskIsOpen, leasing, Live
<1>4. ASSUME NEW t \in Servers PROVE JobGood(t)'
  <2>1. JobGood(t)
    BY OnlyHolder
  <2>2. CASE t # s
    BY <1>2, <2>1, <2>2 DEF JobGood, OnlyAt, leasing, Live
  <2>3. CASE t = s
    BY <2>1, <2>3 DEF JobGood, leasing
  <2> QED BY <2>2, <2>3
<1> QED BY <1>1, <1>3, <1>4, AllGood

(* A job that is unsettled holds the lease, and nobody writes its record.  *)
LEMMA PendingHolds ==
  ASSUME EndInv, NEW s \in Servers, phase[s] \in Pending \/ step[s] \notin {"free", "delete"}
  PROVE  /\ phase[s] \in Pending /\ lease = s /\ task \in {"pump", "abandoned"} /\ Open
         /\ status \in IF step[s] = "end" THEN {target[s], "gone"} ELSE Live
         /\ step[s] \in {"summary", "flush", "save", "resave", "end"} => target[s] \in Ends
         /\ task = "abandoned" => step[s] \in {"flush", "save", "resave", "end",
                                               "remove", "unlink"}
BY OnlyHolder DEF JobGood

(* It moves on, unsettled. *)
LEMMA PendingStep ==
  ASSUME EndInv, NEW s \in Servers, phase[s] \in Pending, UNCHANGED leasing, OnlyAt(s),
         phase'[s] \in Pending, Open',
         status' \in IF step'[s] = "end" THEN {target'[s], "gone"} ELSE Live,
         step'[s] \in {"flush", "save", "resave", "end", "remove", "unlink"}
           \/ task # "abandoned",
         step'[s] \in {"summary", "flush", "save", "resave", "end"} => target'[s] \in Ends
  PROVE  OwnInv'
<1>1. lease = s /\ task \in {"pump", "abandoned"}
  BY PendingHolds
<1>2. JobGood(s)'
  BY <1>1 DEF JobGood, leasing
<1>3. TaskIsOpen'
  BY <1>1 DEF TaskIsOpen, leasing
<1> QED BY <1>1, <1>2, <1>3, HolderStep, NoFinalIsDurable

(* It settles. *)
LEMMA SettleStep ==
  ASSUME EndInv, NEW s \in Servers, phase[s] \in Pending, UNCHANGED leasing, OnlyAt(s),
         phase'[s] \notin Pending, step'[s] = "free", EndIsDurable'
  PROVE  OwnInv'
<1>1. lease = s /\ task \in {"pump", "abandoned"}
  BY PendingHolds
<1>2. JobGood(s)'
  BY <1>1 DEF JobGood, leasing
<1>3. TaskIsOpen'
  BY <1>1 DEF TaskIsOpen, leasing
<1> QED BY <1>1, <1>2, <1>3, HolderStep

LEMMA CoreTypes ==
  ASSUME EndInv
  PROVE  /\ phase \in [Servers -> PhaseType] /\ step \in [Servers -> StepType]
         /\ target \in [Servers -> TargetType] /\ writer \in [Servers -> WriterType]
BY DEF EndInv, TypeOK, JobOK, PhaseType, StepType, TargetType, WriterType

(* The writes of a job leave the journals of others alone. *)
LEMMA WriteKeeps ==
  ASSUME EndInv, NEW s \in Servers, NEW b, NEW settles,
         Written(s, b, settles) \/ NotWritten(s, b, settles)
  PROVE  \A t \in Servers \ {s} : writer'[t] = writer[t]
BY CoreTypes DEF Written, NotWritten, Refused, RolledBack, Torn, Set

LEMMA BeginSettleStep ==
  ASSUME EndInv, NEW s \in Servers, NEW d, NEW end \in Ends, phase[s] \in Pending,
         step[s] # "end", BeginSettle(s, d, end), Open',
         UNCHANGED <<status, leasing, phase>>,
         \A t \in Servers \ {s} : writer'[t] = writer[t]
  PROVE  OwnInv'
<1>1. step'[s] = "flush" /\ target'[s] = end
      /\ \A t \in Servers \ {s} : step'[t] = step[t] /\ target'[t] = target[t]
  BY CoreTypes DEF BeginSettle, Set
<1>2. OnlyAt(s)
  BY <1>1 DEF OnlyAt
<1>3. status' \in Live
  BY PendingHolds
<1> QED BY <1>1, <1>2, <1>3, PendingStep

LEMMA SettlingOwn ==
  ASSUME EndInv, NEW s \in Servers, Settling(s)
  PROVE  OwnInv'
<1>1. /\ step[s] \in {"flush", "save", "resave", "end", "remove", "unlink"}
      /\ UNCHANGED leasing
  BY DEF Settling, Flush, SaveEnd, ResaveEnd, PublishEnd, RemoveUnstored, UnlinkUnstored
<1>2. /\ phase[s] \in Pending /\ lease = s /\ Open
      /\ status \in IF step[s] = "end" THEN {target[s], "gone"} ELSE Live
      /\ step[s] \in {"flush", "save", "resave", "end"} => target[s] \in Ends
  BY <1>1, PendingHolds
<1>3. UNCHANGED journal => Open'
  BY <1>2 DEF Open
<1>4. CASE Flush(s)
  <2>1. Open'
    BY <1>2, <1>4, JobFacts, WriteType, OpenKept DEF Flush
  <2>2. \A t \in Servers \ {s} : writer'[t] = writer[t]
    BY <1>4, WriteKeeps DEF Flush
  <2>3. step'[s] = "save" /\ OnlyAt(s) /\ UNCHANGED <<status, phase, target>>
    BY <1>4, <2>2, CoreTypes DEF Flush, Set, OnlyAt
  <2> QED BY <1>1, <1>2, <1>4, <2>1, <2>3, PendingStep DEF Flush
<1>5. CASE SaveEnd(s) \/ ResaveEnd(s)
  <2>1. OnlyAt(s) /\ UNCHANGED <<phase, journal>>
    BY <1>5, CoreTypes DEF SaveEnd, ResaveEnd, Set, OnlyAt
  <2>2. \/ step'[s] = "end" /\ status' = target[s] /\ target'[s] = target[s]
        \/ step'[s] = "resave" /\ status' = status /\ target'[s] = "unstored"
        \/ step'[s] = "remove" /\ status' = status
    BY <1>5, CoreTypes DEF SaveEnd, ResaveEnd, Set
  <2>3. target[s] \in Ends /\ status \in Live
    BY <1>2, <1>5 DEF SaveEnd, ResaveEnd
  <2> QED BY <1>1, <1>2, <1>3, <2>1, <2>2, <2>3, PendingStep, EndNames
<1>6. CASE PublishEnd(s)
  <2>1. target[s] \in Ends /\ status \in {target[s], "gone"} /\ UNCHANGED status
    BY <1>2, <1>6 DEF PublishEnd
  <2>2. Prefixed(TerminalEvents(target[s]))
    BY <1>6, <2>1, JobFacts, WriteType, TerminalType DEF PublishEnd
  <2>3. EndIsDurable'
    BY <1>2, <2>1, <2>2, JobFacts, EndAppended
  <2>4. \A t \in Servers \ {s} : writer'[t] = writer[t]
    BY <1>6, WriteKeeps DEF PublishEnd
  <2>5. OnlyAt(s) /\ phase'[s] = "settled" /\ step'[s] = "free"
    BY <1>6, <2>4, CoreTypes DEF PublishEnd, Unlocked, Set, OnlyAt
  <2> QED BY <1>1, <1>2, <2>3, <2>5, SettleStep DEF Pending
<1>7. CASE RemoveUnstored(s) \/ UnlinkUnstored(s)
  <2>1. OnlyAt(s) /\ UNCHANGED journal
    BY <1>7, CoreTypes DEF RemoveUnstored, UnlinkUnstored, Unlocked, Set, OnlyAt
  <2>2. \/ step'[s] = "unlink" /\ status' = "gone" /\ UNCHANGED phase
        \/ step'[s] = "free" /\ phase'[s] = "store_failed"
    BY <1>7, CoreTypes DEF RemoveUnstored, UnlinkUnstored, Unlocked, Set
  <2>3. "gone" \in Live /\ "store_failed" \notin Pending
    BY DEF Live, Pending
  <2> QED BY <1>1, <1>2, <1>3, <2>1, <2>2, <2>3, PendingStep, SettleStep, NoFinalIsDurable
<1> QED BY <1>4, <1>5, <1>6, <1>7 DEF Settling

LEMMA PumpOwn ==
  ASSUME EndInv, NEW s \in Servers, Pump(s)
  PROVE  OwnInv'
<1>1. ASSUME phase[s] \in Pending \/ step[s] \notin {"free", "delete"},
             step[s] \in {"free", "fold", "publish", "summary"}
      PROVE  /\ phase[s] \in Pending /\ lease = s /\ task = "pump" /\ Open
             /\ status \in Live /\ (step[s] = "summary" => target[s] \in Ends)
  BY <1>1, PendingHolds
<1>2. Open /\ UNCHANGED journal => Open'
  BY DEF Open
<1>3. CASE SaveProgress(s)
  <2>1. /\ phase[s] \in Pending /\ step[s] = "free" /\ task = "pump" /\ Open
        /\ UNCHANGED <<leasing, journal, writer>>
    BY <1>1, <1>3 DEF SaveProgress, Idle
  <2>2. CASE BeginSettle(s, doc[s], "unstored") /\ UNCHANGED <<status, phase>>
    BY <1>2, <2>1, <2>2, BeginSettleStep, EndNames
  <2>3. CASE /\ status' = "in_progress" /\ phase' = Set(phase, s, "in_progress")
             /\ step' = Set(step, s, "fold") /\ UNCHANGED target
    <3>1. OnlyAt(s) /\ phase'[s] = "in_progress" /\ step'[s] = "fold"
      BY <2>1, <2>3, CoreTypes DEF Set, OnlyAt
    <3> QED BY <1>2, <2>1, <2>3, <3>1, PendingStep DEF Live, Pending
  <2> QED BY <1>3, <2>2, <2>3 DEF SaveProgress
<1>4. CASE FoldProgress(s) \/ FoldItem(s) \/ FoldFinished(s)
  <2>1. /\ phase[s] \in Pending /\ step[s] \in {"free", "fold"}
        /\ UNCHANGED <<leasing, journal, writer, phase, status>>
    BY <1>4 DEF FoldProgress, FoldItem, FoldFinished, Folding, FoldFrame, files, Pending
  <2>2. task = "pump" /\ Open /\ status \in Live
    BY <1>1, <2>1
  <2>3. OnlyAt(s)
        /\ \/ step'[s] = "publish"
           \/ step'[s] \in {"summary", "flush"} /\ target'[s] \in Ends
    <3>1. CASE FoldProgress(s) \/ FoldItem(s)
      BY <2>1, <3>1, CoreTypes DEF FoldProgress, FoldItem, Set, OnlyAt
    <3>2. CASE FoldFinished(s)
      <4>1. PICK end \in {"completed", "incomplete"} : target' = Set(target, s, end)
        BY <3>2 DEF FoldFinished
      <4> QED BY <2>1, <3>2, <4>1, CoreTypes, EndNames DEF FoldFinished, Set, OnlyAt
    <3> QED BY <1>4, <3>1, <3>2
  <2> QED BY <1>2, <2>1, <2>2, <2>3, PendingStep
<1>5. CASE FoldError(s) \/ PumpStopped(s) \/ SummaryEnd(s)
  <2>1. /\ phase[s] \in Pending \/ step[s] \notin {"free", "delete"}
        /\ step[s] \in {"free", "fold", "summary"}
        /\ UNCHANGED <<leasing, journal, writer, phase, status>>
    BY <1>5 DEF FoldError, PumpStopped, SummaryEnd, Folding, FoldFrame, Idle, files,
       Pending
  <2>2. phase[s] \in Pending /\ Open /\ (step[s] = "summary" => target[s] \in Ends)
    BY <1>1, <2>1
  <2>3. \E end \in Ends : BeginSettle(s, doc[s], end)
    BY <1>5, <2>2, EndNames, IntrEndType DEF FoldError, PumpStopped, SummaryEnd
  <2> QED BY <1>2, <2>1, <2>2, <2>3, BeginSettleStep
<1>6. CASE Publish(s)
  <2>1. phase[s] \in Pending /\ Open /\ status \in Live /\ task = "pump"
    BY <1>1, <1>6 DEF Publish
  <2>2. /\ Written(s, doc[s].buf, FALSE) \/ NotWritten(s, doc[s].buf, FALSE)
        /\ UNCHANGED <<status, leasing, phase>>
    BY <1>6 DEF Publish
  <2>3. Open' /\ \A t \in Servers \ {s} : writer'[t] = writer[t]
    BY <2>1, <2>2, JobFacts, WriteType, OpenKept, WriteKeeps
  <2>4. CASE BeginSettle(s, [doc[s] EXCEPT !.buf = <<>>], "unjournaled")
    BY <1>6, <2>1, <2>2, <2>3, <2>4, BeginSettleStep, EndNames DEF Publish
  <2>5. CASE step' = Set(step, s, "free") /\ UNCHANGED target
    <3>1. OnlyAt(s) /\ step'[s] = "free"
      BY <2>2, <2>3, <2>5, CoreTypes DEF Set, OnlyAt
    <3> QED BY <2>1, <2>2, <2>3, <3>1, PendingStep
  <2> QED BY <1>6, <2>4, <2>5 DEF Publish
<1>7. CASE SummaryPiece(s)
  <2>1. phase[s] \in Pending /\ Open /\ status \in Live /\ task = "pump"
        /\ target[s] \in Ends /\ step[s] = "summary"
    BY <1>1, <1>7 DEF SummaryPiece
  <2> DEFINE d == Emit(doc[s], <<Piece(doc[s].waiting)>>)
             sent == [d EXCEPT !.buf = <<>>, !.pieced = TRUE]
  <2>2. /\ Written(s, d.buf, FALSE) \/ NotWritten(s, d.buf, FALSE)
        /\ UNCHANGED <<status, leasing, phase>>
    BY <1>7 DEF SummaryPiece
  <2>3. d.buf \in Seq(OpenLine) /\ d.buf \in Seq(AnyLine)
    <3>1. doc[s] \in Doc
      BY JobFacts
    <3>2. <<Piece(doc[s].waiting)>> \in Seq(OpenLine)
      BY <3>1, LineTypes DEF Doc
    <3>3. d \in Doc
      BY <3>1, <3>2, EmitType
    <3> HIDE DEF d
    <3>4. d.buf \in Seq(OpenLine)
      BY <3>3 DEF Doc
    <3> QED BY <3>4 DEF AnyLine
  <2>4. \/ \E end \in Ends : BeginSettle(s, sent, end)
        \/ UNCHANGED <<step, target>>
    BY <1>7, EndNames, IntrEndType DEF SummaryPiece
  <2> HIDE DEF d, sent
  <2>5. Open' /\ \A t \in Servers \ {s} : writer'[t] = writer[t]
    BY <2>1, <2>2, <2>3, JobFacts, WriteType, OpenKept, WriteKeeps
  <2>6. CASE UNCHANGED <<step, target>>
    <3>1. OnlyAt(s)
      BY <2>2, <2>5, <2>6 DEF OnlyAt
    <3> QED BY <2>1, <2>2, <2>5, <2>6, <3>1, PendingStep
  <2> QED BY <2>1, <2>2, <2>4, <2>5, <2>6, BeginSettleStep
<1>8. CASE PumpRelease(s)
  <2>1. /\ lease = s /\ phase[s] \notin Pending /\ step[s] = "free" /\ task' = "none"
        /\ UNCHANGED <<journal, status, phase, step, target>>
        /\ writer' = Set(writer, s, "none")
    BY <1>8 DEF PumpRelease, Pumping, files
  <2>2. OnlyAt(s) /\ Quiet(s)'
    BY <2>1, CoreTypes DEF OnlyAt, Quiet, Set
  <2>3. EndIsDurable' /\ TaskIsOpen'
    BY <2>1, SameJournalIsDurable DEF EndInv, TaskIsOpen
  <2> QED BY <2>1, <2>2, <2>3, HolderStep, QuietIsGood
<1>9. CASE Unregister(s)
  BY <1>9, GoneStep DEF Unregister, Core, files
<1> QED BY <1>3, <1>4, <1>5, <1>6, <1>7, <1>8, <1>9 DEF Pump

LEMMA AdmissionOwn ==
  ASSUME EndInv, NEW s \in Servers, Admission(s)
  PROVE  OwnInv'
<1> USE DEF job, files, leasing, Core
<1>1. Open /\ UNCHANGED journal => Open'
  BY DEF Open
<1>2. ASSUME lease = NoServer \/ task \notin {"pump", "abandoned"}, task' = "none",
             UNCHANGED <<journal, Core>>, status' \in {status, "gone"}
      PROVE  OwnInv'
  BY <1>2, TaskStep, SameJournalIsDurable DEF EndInv, TaskIsOpen
<1>3. CASE AdmitLease(s)
  <2>1. CASE NotAdmitted(s) /\ UNCHANGED leasing
    BY <1>3, <2>1, GoneStep DEF AdmitLease, NotAdmitted
  <2>2. CASE lease = NoServer /\ task' \in {"journal", "record"} /\ UNCHANGED status
    <3>1. Open /\ status = "submitted" /\ UNCHANGED <<journal, Core>>
      BY <1>3, UnsettledIsOpen DEF AdmitLease, EndInv
    <3>2. TaskIsOpen'
      BY <1>1, <2>2, <3>1 DEF TaskIsOpen
    <3> QED BY <1>1, <2>2, <3>1, <3>2, TaskStep, NoFinalIsDurable
  <2> QED BY <1>3, <2>1, <2>2 DEF AdmitLease
<1>4. CASE AdmitJournal(s)
  <2>1. task = "journal" /\ Open /\ status \in {"submitted", "gone"} /\ UNCHANGED Core
    BY <1>4 DEF AdmitJournal, EndInv, TaskIsOpen
  <2>2. CASE journal' = <<Created, Queued>> /\ task' = "record" /\ UNCHANGED status
    <3>1. Open'
      BY <2>2 DEF Open, Created, Queued, Line
    <3>2. TaskIsOpen'
      BY <2>1, <2>2, <3>1 DEF TaskIsOpen
    <3> QED BY <2>1, <3>1, <3>2, TaskStep, NoFinalIsDurable
  <2>3. CASE NotAdmitted(s) /\ EndTask(s) /\ UNCHANGED journal
    BY <1>2, <2>1, <2>3 DEF NotAdmitted, EndTask
  <2> QED BY <1>4, <2>2, <2>3 DEF AdmitJournal
<1>5. CASE AdmitRecord(s)
  <2>1. task = "record" /\ Open /\ UNCHANGED <<journal, Core>>
    BY <1>5 DEF AdmitRecord, EndInv, TaskIsOpen
  <2>2. CASE status' = "queued" /\ task' = "register"
    <3>1. TaskIsOpen'
      BY <1>1, <2>1, <2>2 DEF TaskIsOpen, Live, Pending
    <3> QED BY <1>1, <2>1, <3>1, TaskStep, NoFinalIsDurable
  <2>3. CASE NotAdmitted(s) /\ EndTask(s)
    BY <1>2, <2>1, <2>3 DEF NotAdmitted, EndTask
  <2> QED BY <1>5, <2>2, <2>3 DEF AdmitRecord
<1>6. CASE Register(s)
  <2>1. task = "register" /\ lease = s /\ Open /\ status \in Live
        /\ UNCHANGED <<journal, status, lease>>
    BY <1>6 DEF Register, EndInv, TaskIsOpen
  <2>2. Quiet(s)
    BY <2>1, OnlyHolder
  <2>3. /\ phase'[s] \in Pending
        /\ \A t \in Servers \ {s} : phase'[t] = phase[t] /\ writer'[t] = writer[t]
    BY <1>6, CoreTypes DEF Register, Set, Pending
  <2>4. \/ task' = "pump" /\ UNCHANGED <<step, target>>
        \/ /\ task' = "abandoned"
           /\ step' = Set(step, s, "flush") /\ target' = Set(target, s, "shutdown")
    BY <1>6 DEF Register, BeginSettle
  <2>5. CASE task' = "pump" /\ UNCHANGED <<step, target>>
    <3>1. OnlyAt(s)
      BY <2>3, <2>5 DEF OnlyAt
    <3>2. JobGood(s)'
      BY <1>1, <2>1, <2>2, <2>3, <2>5 DEF JobGood, Quiet
    <3> QED BY <1>1, <2>1, <2>5, <3>1, <3>2, HolderStep, NoFinalIsDurable DEF TaskIsOpen
  <2>6. CASE /\ task' = "abandoned"
             /\ step' = Set(step, s, "flush") /\ target' = Set(target, s, "shutdown")
    <3>1. OnlyAt(s) /\ step'[s] = "flush" /\ target'[s] = "shutdown"
      BY <2>3, <2>6, CoreTypes DEF OnlyAt, Set
    <3>2. JobGood(s)'
      BY <1>1, <2>1, <2>3, <2>6, <3>1, EndNames DEF JobGood
    <3> QED BY <1>1, <2>1, <2>6, <3>1, <3>2, HolderStep, NoFinalIsDurable DEF TaskIsOpen
  <2> QED BY <2>4, <2>5, <2>6
<1>7. CASE DropAbandoned(s)
  <2>1. /\ lease = s /\ task = "abandoned" /\ step[s] = "free" /\ task' = "none"
        /\ UNCHANGED <<journal, status, phase, step, target>>
        /\ writer' = Set(writer, s, "none")
    BY <1>7 DEF DropAbandoned, EndTask
  <2>2. phase[s] \notin Pending
    BY <2>1, PendingHolds
  <2>3. OnlyAt(s) /\ Quiet(s)'
    BY <2>1, <2>2, CoreTypes DEF OnlyAt, Quiet, Set
  <2>4. EndIsDurable' /\ TaskIsOpen'
    BY <2>1, SameJournalIsDurable DEF EndInv, TaskIsOpen
  <2> QED BY <2>1, <2>3, <2>4, HolderStep, QuietIsGood
<1> QED BY <1>3, <1>4, <1>5, <1>6, <1>7 DEF Admission

LEMMA RecoveryOwn ==
  ASSUME EndInv, NEW s \in Servers, Recovery(s)
  PROVE  OwnInv'
<1> USE DEF job, files, leasing, Core
<1>1. Open /\ UNCHANGED journal => Open'
  BY DEF Open
<1>2. CASE ResumeBoundary(s)
  <2>1. task = "boundary" /\ Open /\ status \in Live /\ UNCHANGED <<status, Core>>
    BY <1>2 DEF ResumeBoundary, EndInv, TaskIsOpen, TaskFrame
  <2>2. PICK b \in Boundaries : /\ Continued(b) \/ NotContinued(b)
                                /\ \/ task' = "submit"
                                   \/ task' = "settle" /\ verdict' = "unjournaled"
    BY <1>2 DEF ResumeBoundary
  <2>3. b \in Seq(OpenLine) /\ b \in Seq(AnyLine)
    BY BoundaryType DEF EndInv, TypeOK, FilesOK, AnyLine
  <2>4. Open'
    BY <2>1, <2>2, <2>3, ContinueType, OpenKept DEF EndInv
  <2>5. TaskIsOpen'
    BY <2>1, <2>2, <2>4, EndNames DEF TaskIsOpen
  <2> QED BY <2>1, <2>4, <2>5, TaskStep, NoFinalIsDurable
<1>3. CASE ResumeSubmit(s)
  <2>1. task = "submit" /\ Open /\ status \in Live /\ UNCHANGED <<journal, status, Core>>
    BY <1>3 DEF ResumeSubmit, EndInv, TaskIsOpen
  <2>2. task' \in {"register", "none"} \/ (task' = "settle" /\ verdict' = "refused")
    BY <1>3 DEF ResumeSubmit, EndTask
  <2>3. TaskIsOpen'
    BY <1>1, <2>1, <2>2, EndNames DEF TaskIsOpen
  <2> QED BY <1>1, <2>1, <2>3, TaskStep, NoFinalIsDurable
<1>4. CASE SettleUnowned(s)
  <2>1. task = "settle" /\ Open /\ verdict \in Ends /\ UNCHANGED <<journal, Core>>
    BY <1>4 DEF SettleUnowned, EndInv, TaskIsOpen, TaskFrame
  <2>2. \/ task' = "seal" /\ status' = verdict /\ UNCHANGED verdict
        \/ task' = "none"
    BY <1>4 DEF SettleUnowned, EndTask
  <2>3. TaskIsOpen'
    BY <1>1, <2>1, <2>2 DEF TaskIsOpen
  <2> QED BY <1>1, <2>1, <2>3, TaskStep, NoFinalIsDurable
<1>5. CASE SealJournal(s)
  <2>1. /\ task = "seal" /\ Open /\ verdict \in Ends /\ status \in {verdict, "gone"}
        /\ task' = "none" /\ UNCHANGED <<status, Core>>
    BY <1>5 DEF SealJournal, EndInv, TaskIsOpen, TaskFrame, EndTask
  <2>2. ~Ended(journal)
    BY <2>1, OpenIsNotEnded DEF EndInv
  <2>3. \/ Continued(TerminalEvents(verdict)) \/ NotContinued(TerminalEvents(verdict))
        \/ UNCHANGED journal
    BY <1>5, <2>2 DEF SealJournal
  <2>4. EndIsDurable'
    <3>1. CASE UNCHANGED journal
      BY <2>1, <3>1, SameJournalIsDurable DEF EndInv
    <3>2. CASE Continued(TerminalEvents(verdict)) \/ NotContinued(TerminalEvents(verdict))
      <4>1. Prefixed(TerminalEvents(verdict))
        BY <2>1, <3>2, TerminalType, ContinueType DEF EndInv
      <4> QED BY <2>1, <4>1, EndAppended DEF EndInv
    <3> QED BY <2>3, <3>1, <3>2
  <2> QED BY <2>1, <2>4, TaskStep DEF TaskIsOpen
<1> QED BY <1>2, <1>3, <1>4, <1>5 DEF Recovery

LEMMA HandlerOwn ==
  ASSUME EndInv, NEW s \in Servers, Handler(s)
  PROVE  OwnInv'
<1> USE DEF job, files, leasing, Core
<1>1. Open /\ UNCHANGED journal => Open'
  BY DEF Open
<1>2. ASSUME NEW handler, NEW end \in Ends, LockToSettle(s, handler, end)
      PROVE  OwnInv'
  <2>1. UNCHANGED <<journal, status, leasing, phase, writer>> /\ step[s] = "free"
    BY <1>2 DEF LockToSettle
  <2>2. CASE phase[s] \in Pending /\ BeginSettle(s, doc[s], end)
    BY <1>1, <2>1, <2>2, PendingHolds, BeginSettleStep
  <2>3. CASE UNCHANGED <<step, target>>
    BY <2>1, <2>3, GoneStep
  <2> QED BY <1>2, <2>2, <2>3 DEF LockToSettle
<1>3. CASE LockToDelete(s)
  <2>1. UNCHANGED <<journal, leasing, phase, target, writer>> /\ step[s] = "free"
        /\ status' \in {status, "gone"}
    BY <1>3 DEF LockToDelete
  <2>2. CASE UNCHANGED step
    BY <2>1, <2>2, GoneStep
  <2>3. CASE status' = "gone" /\ step' = Set(step, s, "delete")
    <3>1. OnlyAt(s) /\ step'[s] = "delete"
      BY <2>1, <2>3, CoreTypes DEF OnlyAt, Set
    <3>2. CASE phase[s] \in Pending
      <4>1. task # "abandoned" /\ Open'
        BY <1>1, <2>1, <3>2, PendingHolds
      <4> QED BY <2>1, <2>3, <3>1, <3>2, <4>1, PendingStep DEF Live
    <3>3. CASE phase[s] \notin Pending
      BY <2>1, <3>1, <3>3, SettledStep
    <3> QED BY <3>2, <3>3
  <2> QED BY <1>3, <2>2, <2>3 DEF LockToDelete
<1>4. CASE DeleteJob(s)
  <2>1. /\ UNCHANGED <<status, journal, leasing>> /\ OnlyAt(s)
        /\ phase'[s] = "deleted" /\ step'[s] = "free" /\ writer'[s] = "none"
    BY <1>4, CoreTypes DEF DeleteJob, Unlocked, Set, OnlyAt
  <2> QED BY <2>1, SettledStep DEF Pending
<1> QED BY <1>2, <1>3, <1>4, EndNames DEF Handler

(* Whoever takes the free lease of a pending record finds it open. *)
LEMMA TakeLease ==
  ASSUME EndInv, lease = NoServer, status \in Pending, UNCHANGED <<journal, status, Core>>,
         task' \notin {"journal", "record", "seal"},
         task' = "settle" => verdict' \in Ends
  PROVE  OwnInv'
<1>1. Open /\ Open'
  BY UnsettledIsOpen DEF EndInv, Open
<1>2. TaskIsOpen'
  BY <1>1 DEF TaskIsOpen, Live
<1> QED BY <1>1, <1>2, TaskStep, NoFinalIsDurable

LEMMA ResumeOwn ==
  ASSUME EndInv, NEW s \in Servers, TakeResume(s), UNCHANGED <<journal, status, Core>>
  PROVE  OwnInv'
<1>1. Adopted("refused") \in Ends
  BY AdoptedType, EndNames DEF EndInv
<1>2. lease = NoServer /\ status \in Pending
  BY DEF TakeResume, Resumable
<1>3. \/ task' \in {"boundary", "submit"}
      \/ task' = "settle" /\ verdict' = Adopted("refused")
  BY DEF TakeResume
<1> QED BY <1>1, <1>2, <1>3, TakeLease

LEMMA RequestOwn ==
  ASSUME EndInv, NEW s \in Servers,
         Request(s) \/ Deletion(s) \/ UnlinkSettled(s) \/ Subscribe(s)
  PROVE  OwnInv'
<1> USE DEF job, files, leasing, Core
<1>1. CASE Post(s)
  <2>1. Open /\ Open'
    BY <1>1, UnsettledIsOpen DEF Post, EndInv, Open
  <2>2. status = "new" /\ status' = "submitted" /\ UNCHANGED <<journal, leasing, Core>>
    BY <1>1 DEF Post
  <2>3. TaskIsOpen'
    <3>1. "new" \notin Live /\ "new" \notin Ends
      BY EndNames DEF Live, Pending, Unstored
    <3> QED BY <2>1, <2>2, <3>1 DEF TaskIsOpen, EndInv
  <2>4. \A t \in Servers : JobGood(t)'
    <3> SUFFICES ASSUME NEW t \in Servers PROVE JobGood(t)'
      OBVIOUS
    <3>1. "new" \notin Live /\ "new" \notin Ends /\ "new" # "gone"
      BY EndNames DEF Live, Pending, Unstored
    <3>2. phase[t] \notin Pending
      BY <2>2, <3>1, PendingHolds
    <3> QED BY <2>2, <3>2, OnlyHolder DEF JobGood
  <2> QED BY <2>1, <2>3, <2>4, AllGood, NoFinalIsDurable
<1>2. CASE AskCancel(s) \/ AskDelete(s)
  BY <1>2, GoneStep DEF AskCancel, AskDelete, AskFrame
<1>3. CASE CancelUnowned(s) \/ DeletePending(s)
  BY <1>3, TakeLease, EndNames DEF CancelUnowned, DeletePending, RequestFrame
<1>4. CASE DeleteSettled(s) \/ StreamGet(s) \/ UnlinkSettled(s)
  BY <1>4, GoneStep DEF DeleteSettled, StreamGet, UnlinkSettled, RequestFrame
<1>5. CASE Get(s)
  BY <1>5, ResumeOwn DEF Get, TaskFrame
<1>6. CASE Prune(s)
  BY <1>6, GoneStep DEF Prune, RemoveOrphan, RequestFrame
<1>7. CASE RemovePending(s) \/ UnlinkPending(s)
  <2>1. /\ task \in {"delete", "unlink"} /\ task' \in {"unlink", "none"}
        /\ UNCHANGED <<journal, Core>> /\ status' \in {status, "gone"}
    BY <1>7 DEF RemovePending, UnlinkPending, EndTask, TaskFrame
  <2> QED BY <2>1, TaskStep, SameJournalIsDurable DEF EndInv, TaskIsOpen
<1>8. CASE Subscribe(s)
  <2>1. Adopted("not_resumed") \in Ends /\ Adopted("no_request") \in Ends
    BY AdoptedType, EndNames DEF EndInv
  <2>2. UNCHANGED <<journal, status, Core>>
    BY <1>8 DEF Subscribe, RequestFrame
  <2>3. \/ UNCHANGED leasing
        \/ /\ lease = NoServer /\ status \in Pending /\ task' = "settle"
           /\ (verdict' = Adopted("not_resumed") \/ verdict' = Adopted("no_request"))
    BY <1>8 DEF Subscribe
  <2> QED BY <2>1, <2>2, <2>3, GoneStep, TakeLease
<1> QED BY <1>1, <1>2, <1>3, <1>4, <1>5, <1>6, <1>7, <1>8 DEF Request, Deletion

LEMMA BootOwn ==
  ASSUME EndInv, NEW s \in Servers, Boot(s)
  PROVE  OwnInv'
<1> USE DEF job, files, leasing, Core
<1>1. UNCHANGED <<journal, status, Core>>
  BY DEF Boot, Start, Sweep, StartupResume, Retry, BootFrame, RemoveOrphan
<1>2. Adopted("no_request") \in Ends
  BY AdoptedType, EndNames DEF EndInv
<1>3. \/ UNCHANGED leasing
      \/ TakeResume(s)
      \/ /\ lease = NoServer /\ status \in Pending
         /\ task' = "settle" /\ verdict' = Adopted("no_request")
  BY DEF Boot, Start, Sweep, StartupResume, Retry, Unresumable
<1> QED BY <1>1, <1>2, <1>3, GoneStep, ResumeOwn, TakeLease

LEMMA EngineOwn ==
  ASSUME EndInv, NEW s \in Servers, EngineClose(s) \/ MarkTools(s) \/ RunTool(s)
  PROVE  OwnInv'
BY GoneStep DEF EngineClose, MarkTools, RunTool, EngineFrame, job, files, leasing, Core

LEMMA ResetQuiet ==
  ASSUME EndInv, NEW s \in Servers, Reset(s)
  PROVE  Quiet(s)' /\ OnlyAt(s)
BY CoreTypes DEF Reset, Set, Quiet, OnlyAt, Pending

(* A batch cut short by a crash of the holder ends nothing, or ends the    *)
(* journal as the record says.                                             *)
LEMMA CutIsDurable ==
  ASSUME EndInv, NEW s \in Servers, lease = s, NEW b \in InFlight(s), b # <<>>,
         Prefixed(b), status' \in {status, "gone"}
  PROVE  EndIsDurable'
<1>1. CASE task = "journal"
  <2>1. b = <<Created, Queued>> /\ Open
    BY <1>1, OnlyHolder DEF InFlight, Quiet, EndInv, TaskIsOpen
  <2>2. b \in Seq(OpenLine)
    BY <2>1, LineTypes
  <2> QED BY <2>1, <2>2, OpenKept, NoFinalIsDurable DEF EndInv
<1>2. CASE task = "boundary"
  <2>1. b \in Boundaries /\ Open
    BY <1>2, OnlyHolder DEF InFlight, Quiet, EndInv, TaskIsOpen
  <2>2. b \in Seq(OpenLine)
    BY <2>1, BoundaryType DEF EndInv, TypeOK, FilesOK, AnyLine
  <2> QED BY <2>1, <2>2, OpenKept, NoFinalIsDurable DEF EndInv
<1>3. CASE task = "seal"
  <2>1. Open /\ verdict \in Ends /\ status \in {verdict, "gone"}
    BY <1>3 DEF EndInv, TaskIsOpen
  <2>2. Quiet(s)
    BY <1>3, OnlyHolder
  <2>3. b = TerminalEvents(verdict)
    BY <1>3, <2>2 DEF InFlight, Quiet
  <2> QED BY <2>1, <2>3, EndAppended DEF EndInv
<1>4. CASE task \notin {"journal", "boundary", "seal"}
  <2>1. /\ step[s] \in {"publish", "flush", "summary", "end"}
        /\ \/ step[s] \in {"publish", "flush"} /\ b = doc[s].buf
           \/ step[s] = "summary" /\ b = doc[s].buf \o <<Piece(doc[s].waiting)>>
           \/ step[s] = "end" /\ b = TerminalEvents(target[s])
    BY <1>4 DEF InFlight
  <2>2. /\ Open
        /\ step[s] = "end" => target[s] \in Ends /\ status \in {target[s], "gone"}
    BY <2>1, PendingHolds
  <2>3. CASE step[s] = "end"
    <3>1. b = TerminalEvents(target[s])
      BY <2>1, <2>3
    <3> QED BY <2>2, <2>3, <3>1, EndAppended DEF EndInv
  <2>4. CASE step[s] # "end"
    <3>1. doc[s].waiting \in Nat /\ doc[s].buf \in Seq(OpenLine)
      BY JobFacts DEF Doc
    <3>2. doc[s].buf \o <<Piece(doc[s].waiting)>> \in Seq(OpenLine)
      BY <3>1, LineTypes
    <3>3. b \in Seq(OpenLine)
      BY <2>1, <2>4, <3>1, <3>2
    <3> QED BY <2>2, <3>3, OpenKept, NoFinalIsDurable DEF EndInv
  <2> QED BY <2>3, <2>4
<1> QED BY <1>1, <1>2, <1>3, <1>4

LEMMA StopOwn ==
  ASSUME EndInv, NEW s \in Servers, Close(s) \/ Exit(s) \/ Crash(s)
  PROVE  OwnInv'
<1> USE DEF files, leasing
<1>1. CASE Close(s)
  BY <1>1, GoneStep DEF Close, AskFrame, Core
<1>2. CASE Exit(s)
  <2>1. Reset(s) /\ UNCHANGED <<files, leasing>>
    BY <1>2 DEF Exit
  <2> QED BY <2>1, ResetQuiet, SettledStep DEF Quiet
<1>3. CASE Crash(s)
  <2>1. Reset(s) /\ status' \in {status, "gone"}
    BY <1>3 DEF Crash
  <2>2. \/ UNCHANGED journal
        \/ \E b \in InFlight(s) : b # <<>> /\ Cut(b)
    BY <1>3 DEF Crash
  <2>3. CASE lease = s
    <3>1. task' = "none"
      BY <1>3, <2>3 DEF Crash, EndTask
    <3>2. EndIsDurable'
      BY <2>1, <2>2, <2>3, SameJournalIsDurable, CutPrefixes, CutIsDurable DEF EndInv
    <3> QED BY <2>1, <2>3, <3>1, <3>2, ResetQuiet, QuietIsGood, HolderStep DEF TaskIsOpen
  <2>4. CASE lease # s
    <3>1. Quiet(s)
      BY <2>4, OnlyHolder
    <3>2. InFlight(s) = {<<>>}
      BY <2>4, <3>1 DEF InFlight, Quiet
    <3>3. UNCHANGED <<journal, leasing>>
      BY <1>3, <2>2, <2>4, <3>2 DEF Crash
    <3> QED BY <2>1, <3>3, ResetQuiet, SettledStep DEF Quiet
  <2> QED BY <2>3, <2>4
<1> QED BY <1>1, <1>2, <1>3

(***************************************************************************)
(* The theorems.                                                           *)
(***************************************************************************)
LEMMA EndInvInit ==
  ASSUME Init
  PROVE  EndInv
<1> USE DEF Init
<1>1. FilesOK
  <2>1. journal \in Seq(OpenLine \cup EndLine)
    OBVIOUS
  <2>2. status \in Unstored
    BY DEF Unstored
  <2> QED BY <2>1, <2>2 DEF FilesOK
<1>2. LeaseOK
  BY DEF LeaseOK
<1>3. JobOK
  <2>1. NewDoc(0) \in Doc /\ NoPub \in PubType
    BY NewDocType DEF NoPub, PubType
  <2> QED BY <2>1 DEF JobOK, PubType
<1>4. ServerOK
  BY DEF ServerOK
<1>5. EngineOK
  BY DEF EngineOK
<1>6. EndIsDurable /\ TaskIsOpen
  BY DEF EndIsDurable, TaskIsOpen
<1>7. JobHoldsLease /\ JobIsOpen
  BY DEF JobHoldsLease, JobIsOpen, Pending
<1> QED BY <1>1, <1>2, <1>3, <1>4, <1>5, <1>6, <1>7 DEF EndInv, TypeOK

LEMMA EndInvStep ==
  ASSUME EndInv, [Next]_vars
  PROVE  EndInv'
<1>1. TypeOK'
  BY TypeStep
<1>2. OwnInv'
  <2>1. CASE UNCHANGED vars
    BY <2>1, GoneStep DEF vars, files, job, Core
  <2>2. CASE Next
    <3>1. PICK s \in Servers :
            \/ ServerStep(s) \/ MarkTools(s) \/ RunTool(s) \/ Request(s) \/ Close(s)
            \/ Crash(s)
      BY <2>2 DEF Next
    <3> QED BY <3>1, SettlingOwn, PumpOwn, AdmissionOwn, RecoveryOwn, HandlerOwn,
               RequestOwn, BootOwn, EngineOwn, StopOwn DEF ServerStep
  <2> QED BY <2>1, <2>2
<1> QED BY <1>1, <1>2 DEF EndInv, OwnInv

(* The inductive invariant holds in every behaviour of any number of       *)
(* servers, of any requests, with any number of failing writes and crashes:*)
(* only the holder of the write lease has an unsettled job, and nobody who *)
(* holds it finds an end in the journal or the record.                     *)
THEOREM EndInvariant == Spec => []EndInv
<1>1. Init => EndInv
  BY EndInvInit
<1>2. EndInv /\ [Next]_vars => EndInv'
  BY EndInvStep
<1> QED BY <1>1, <1>2, PTL DEF Spec

(* Every value the program's state takes is of its type. *)
THEOREM TypeCorrect == Spec => []TypeOK
<1>1. EndInv => TypeOK
  BY DEF EndInv
<1> QED BY <1>1, EndInvariant, PTL

(* A stream never ends before its record is durable, and ends as the       *)
(* record says (Inner::settle, settle_interrupted, seal_journal).          *)
THEOREM StreamEndsAfterRecord == Spec => []EndIsDurable
<1>1. EndInv => EndIsDurable
  BY DEF EndInv
<1> QED BY <1>1, EndInvariant, PTL

(* Only actions that find the record unsettled settle it. *)
LEMMA EndKept ==
  ASSUME EndInv, [Next]_vars, status \in Ends
  PROVE  status' \in {status, "gone"}
<1> USE DEF files
<1>1. status \notin Live /\ status \notin {"new", "submitted", "gone"}
  BY EndNames DEF Live, Unstored
<1>2. SUFFICES ASSUME NEW s \in Servers,
                      \/ ServerStep(s) \/ MarkTools(s) \/ RunTool(s) \/ Request(s)
                      \/ Close(s) \/ Crash(s)
               PROVE  status' \in {status, "gone"}
  BY DEF Next, vars
<1>3. ASSUME phase[s] \in Pending PROVE step[s] = "end"
  BY <1>1, <1>3, PendingHolds
<1>4. CASE Settling(s)
  <2>1. step[s] \notin {"free", "delete"}
    BY <1>4 DEF Settling, Flush, SaveEnd, ResaveEnd, PublishEnd, RemoveUnstored,
       UnlinkUnstored
  <2>2. step[s] = "end"
    BY <1>3, <2>1, PendingHolds
  <2> QED BY <1>4, <2>2 DEF Settling, Flush, SaveEnd, ResaveEnd, PublishEnd,
             RemoveUnstored, UnlinkUnstored
<1>5. CASE Pump(s)
  <2>1. ~SaveProgress(s)
    BY <1>3 DEF SaveProgress, Idle
  <2> QED BY <1>5, <2>1 DEF Pump, FoldProgress, FoldItem, FoldFinished, FoldError,
             FoldFrame, Publish, SummaryPiece, SummaryEnd, PumpStopped, PumpRelease,
             Unregister
<1>6. CASE Admission(s)
  <2>1. task \notin {"journal", "record", "register"}
    BY <1>1 DEF EndInv, TaskIsOpen
  <2> QED BY <1>1, <1>6, <2>1 DEF Admission, AdmitLease, AdmitJournal, AdmitRecord,
             Register, DropAbandoned
<1>7. CASE Recovery(s)
  <2>1. task # "settle"
    BY <1>1 DEF EndInv, TaskIsOpen
  <2> QED BY <1>7, <2>1 DEF Recovery, ResumeBoundary, ResumeSubmit, SettleUnowned,
             SealJournal
<1>8. CASE Handler(s)
  BY <1>8 DEF Handler, LockToSettle, LockToDelete, DeleteJob
<1>9. CASE Request(s)
  BY <1>1, <1>9 DEF Request, Post, AskCancel, AskDelete, AskFrame, CancelUnowned,
     DeletePending, DeleteSettled, Get, StreamGet, Prune, RemoveOrphan
<1>10. CASE \/ EngineClose(s) \/ MarkTools(s) \/ RunTool(s) \/ Deletion(s)
            \/ UnlinkSettled(s) \/ Subscribe(s)
  BY <1>10 DEF EngineClose, MarkTools, RunTool, Deletion, RemovePending, UnlinkPending,
     UnlinkSettled, Subscribe
<1>11. CASE Boot(s)
  BY <1>11 DEF Boot, Start, Sweep, RemoveOrphan, StartupResume, Retry
<1>12. CASE Close(s) \/ Exit(s) \/ Crash(s)
  BY <1>12 DEF Close, AskFrame, Exit, Crash
<1> QED BY <1>2, <1>4, <1>5, <1>6, <1>7, <1>8, <1>9, <1>10, <1>11, <1>12 DEF ServerStep

(* A response ends once, whoever settles it: job, cancellation, resumption *)
(* or recovery, in any server.                                             *)
THEOREM ResponseEndsOnce == Spec => EndsOnce
<1>1. EndInv /\ [Next]_vars => [(status \in Ends) => status' \in {status, "gone"}]_vars
  BY EndKept
<1> QED BY <1>1, EndInvariant, PTL DEF Spec, EndsOnce

(***************************************************************************)
(* What subscribers are told they may read.                                *)
(***************************************************************************)
(* Before the record is stored there is no journal but the one its         *)
(* admission creates, and the admission still has its generation.          *)
Unborn ==
  /\ lease = NoServer <=> task = "none"
  /\ status = "new" => task = "none"
  /\ status = "submitted" => task \in {"none", "journal", "record"}
  /\ task = "journal" \/ (status \in {"new", "submitted"} /\ task # "record") =>
       journal = <<>> /\ ~frag
  /\ task \in {"journal", "record"} => gen[lease] # "none"

(* Whoever is about to open a writer finds no fragment in the journal.     *)
NoFragment ==
  /\ task = "record" => ~frag
  /\ task \in {"submit", "register"} /\ jfile => ~frag

ReadInv == PublishedIsReadable /\ Unborn /\ NoFragment

LEMMA ReadTypes ==
  ASSUME EndInv
  PROVE  /\ journal \in Seq(AnyLine) /\ Len(journal) \in Nat
         /\ pub \in [Servers -> PubType] /\ (\A t \in Servers : pub[t].lines \in Nat)
         /\ writer \in [Servers -> WriterType]
<1>1. /\ journal \in Seq(AnyLine)
      /\ pub \in [Servers -> PubType] /\ writer \in [Servers -> WriterType]
  BY DEF EndInv, TypeOK, FilesOK, JobOK, AnyLine, PubType, WriterType
<1>2. \A t \in Servers : pub[t].lines \in Nat
  BY <1>1 DEF PubType
<1> QED BY <1>1, <1>2

LEMMA PublishedLines ==
  ASSUME EndInv, NEW s \in Servers, NEW n \in Nat, NEW settles \in BOOLEAN
  PROVE  /\ Published(s, n, settles) \in [Servers -> PubType]
         /\ Published(s, n, settles)[s].lines = pub[s].lines + n
         /\ \A t \in Servers \ {s} : Published(s, n, settles)[t] = pub[t]
<1> DEFINE p == pub[s]
           q == [p EXCEPT !.lines = @ + n, !.settled = @ \/ settles]
<1>1. p \in PubType /\ pub \in [Servers -> PubType]
  BY ReadTypes
<1>2. q.lines = p.lines + n
  BY <1>1 DEF PubType
<1>3. Published(s, n, settles) = [pub EXCEPT ![s] = q]
  BY DEF Published, Set
<1> HIDE DEF q
<1>4. Published(s, n, settles) \in [Servers -> PubType]
  BY PublishedType DEF EndInv
<1> QED BY <1>1, <1>2, <1>3, <1>4

(* Nothing is written, and no writer is opened.                            *)
LEMMA StillReads ==
  ASSUME EndInv, PublishedIsReadable, UNCHANGED <<journal, frag>>,
         \A t \in Servers : \/ pub'[t].lines = pub[t].lines
                            \/ pub'[t].lines = 0 /\ writer'[t] # "ok",
         \A t \in Servers : writer'[t] = "ok" => writer[t] = "ok"
  PROVE  PublishedIsReadable'
<1> SUFFICES ASSUME NEW t \in Servers
             PROVE  /\ pub'[t].lines <= Len(journal')
                    /\ writer'[t] = "ok" => ~frag' /\ pub'[t].lines = Len(journal')
  BY DEF PublishedIsReadable
<1>1. /\ pub[t].lines <= Len(journal) /\ Len(journal) \in Nat
      /\ writer[t] = "ok" => ~frag /\ pub[t].lines = Len(journal)
  BY ReadTypes DEF PublishedIsReadable
<1> QED BY <1>1

(* The journal grows, while no writer is open.                             *)
LEMMA GrownReads ==
  ASSUME EndInv, PublishedIsReadable, NEW b \in Seq(AnyLine), Prefixed(b),
         \A t \in Servers : pub'[t].lines = pub[t].lines \/ pub'[t].lines = 0,
         \A t \in Servers : writer'[t] # "ok"
  PROVE  PublishedIsReadable'
<1>1. PICK n \in 0..Len(b) : journal' = journal \o SubSeq(b, 1, n)
  BY DEF Prefixed
<1>2. Len(journal') = Len(journal) + n /\ n \in Nat
  BY <1>1, AppendedPrefix, ReadTypes
<1> SUFFICES ASSUME NEW t \in Servers PROVE pub'[t].lines <= Len(journal')
  BY DEF PublishedIsReadable
<1>3. pub[t].lines <= Len(journal) /\ Len(journal) \in Nat /\ pub[t].lines \in Nat
  BY ReadTypes DEF PublishedIsReadable
<1> QED BY <1>2, <1>3

(* A writer is open at the holder of the lease only.                       *)
LEMMA OneWriter ==
  ASSUME EndInv, NEW s \in Servers, lease = s, NEW t \in Servers \ {s}
  PROVE  writer[t] # "ok"
BY OnlyHolder DEF Quiet

(* JournalWriter::append: what is published is what was written whole, and *)
(* a writer whose batch was cut short is not used again.                   *)
LEMMA WriteReads ==
  ASSUME EndInv, PublishedIsReadable, NEW s \in Servers, lease = s,
         NEW b \in Seq(AnyLine), NEW settles \in BOOLEAN,
         Written(s, b, settles) \/ NotWritten(s, b, settles)
  PROVE  PublishedIsReadable'
<1>0. /\ journal \in Seq(AnyLine) /\ Len(journal) \in Nat /\ Len(b) \in Nat
      /\ pub \in [Servers -> PubType] /\ (\A t \in Servers : pub[t].lines \in Nat)
      /\ writer \in [Servers -> WriterType]
  BY ReadTypes
<1>1. \A t \in Servers \ {s} : writer[t] # "ok"
  BY OneWriter
<1>2. CASE Refused(s, settles) \/ RolledBack(s, b, settles)
  <2>1. /\ UNCHANGED <<journal, frag>> /\ pub' = Published(s, 0, settles)
        /\ \A t \in Servers : writer'[t] = "ok" => writer[t] = "ok"
    BY <1>0, <1>2 DEF Refused, RolledBack, Set
  <2>2. \A t \in Servers : pub'[t].lines = pub[t].lines
    <3>1. /\ pub'[s].lines = pub[s].lines + 0
          /\ \A t \in Servers \ {s} : pub'[t] = pub[t]
      BY <2>1, PublishedLines
    <3>2. pub[s].lines \in Nat
      BY <1>0
    <3> QED BY <3>1, <3>2
  <2> QED BY <2>1, <2>2, StillReads
<1>3. CASE Torn(s, b, settles)
  <2>1. Cut(b) /\ writer' = [writer EXCEPT ![s] = "broken"]
    BY <1>3 DEF Torn, Set
  <2>2. \A t \in Servers : writer'[t] # "ok"
    BY <1>0, <1>1, <2>1
  <2>3. \A t \in Servers : pub'[t].lines = pub[t].lines
    <3> DEFINE q == Published(s, 0, settles)
    <3>1. q \in [Servers -> PubType] /\ q[s].lines = pub[s].lines + 0
      BY PublishedLines
    <3> HIDE DEF q
    <3>2. [q[s] EXCEPT !.torn = TRUE].lines = q[s].lines
      BY <3>1 DEF PubType
    <3>3. pub' = [pub EXCEPT ![s] = [q[s] EXCEPT !.torn = TRUE]]
      BY <1>3 DEF Torn, Set, q
    <3>4. pub[s].lines \in Nat
      BY <1>0
    <3>5. pub'[s].lines = pub[s].lines /\ \A t \in Servers \ {s} : pub'[t] = pub[t]
      BY <1>0, <3>1, <3>2, <3>3, <3>4
    <3> QED BY <3>5
  <2> QED BY <2>1, <2>2, <2>3, CutPrefixes, GrownReads
<1>4. CASE Written(s, b, settles)
  <2>1. UNCHANGED <<frag, writer>>
    BY <1>4 DEF Written
  <2>2. CASE writer[s] = "ok"
    <3>1. pub[s].lines = Len(journal) /\ ~frag
      BY <2>2 DEF PublishedIsReadable
    <3>2. pub' = Published(s, Len(b), settles)
      BY <1>4, <2>2 DEF Written
    <3>3. journal' = IF Len(b) = 0 THEN journal ELSE journal \o b
      BY <1>4, <2>2, <3>1 DEF Written
    <3>4. Len(journal') = Len(journal) + Len(b)
      BY <1>0, <3>3, Appended
    <3>5. pub'[s].lines = Len(journal') /\ \A t \in Servers \ {s} : pub'[t] = pub[t]
      <4>1. /\ pub'[s].lines = pub[s].lines + Len(b)
            /\ \A t \in Servers \ {s} : pub'[t] = pub[t]
        BY <1>0, <3>2, PublishedLines
      <4> QED BY <3>1, <3>4, <4>1
    <3>6. ASSUME NEW t \in Servers \ {s} PROVE pub'[t].lines <= Len(journal') /\ writer'[t] # "ok"
      <4>1. pub[t].lines <= Len(journal) /\ pub[t].lines \in Nat
        BY <1>0 DEF PublishedIsReadable
      <4> QED BY <1>0, <1>1, <2>1, <3>4, <3>5, <4>1
    <3>7. Len(journal') \in Nat
      BY <1>0, <3>4
    <3> QED BY <2>1, <3>1, <3>5, <3>6, <3>7 DEF PublishedIsReadable
  <2>3. CASE writer[s] # "ok"
    <3>1. UNCHANGED journal /\ pub' = Published(s, 0, settles)
      BY <1>4, <2>3 DEF Written
    <3>2. /\ pub'[s].lines = pub[s].lines + 0
          /\ \A t \in Servers \ {s} : pub'[t] = pub[t]
      BY <3>1, PublishedLines
    <3>3. \A t \in Servers : pub'[t].lines = pub[t].lines
      BY <1>0, <3>2
    <3> QED BY <2>1, <3>1, <3>3, StillReads
  <2> QED BY <2>2, <2>3
<1> QED BY <1>2, <1>3, <1>4 DEF NotWritten

(* Another server's step, or one that leaves admission and journal alone.  *)
LEMMA StillUnborn ==
  ASSUME Unborn, UNCHANGED <<journal, frag, lease, task>>,
         status' = status \/ status' \notin {"new", "submitted"},
         task \in {"journal", "record"} => gen'[lease] # "none"
  PROVE  Unborn'
BY DEF Unborn

LEMMA Born ==
  ASSUME status' \notin {"new", "submitted"}, task' \notin {"journal", "record"},
         lease' = NoServer <=> task' = "none"
  PROVE  Unborn'
BY DEF Unborn

LEMMA StillWhole ==
  ASSUME NoFragment,
         \/ UNCHANGED <<frag, task>> /\ (jfile' => jfile)
         \/ task' \notin {"record", "submit", "register"}
  PROVE  NoFragment'
BY DEF NoFragment

(* A job that is unsettled has a record.                                   *)
LEMMA HolderIsBorn ==
  ASSUME EndInv, NEW s \in Servers, phase[s] \in Pending \/ step[s] \notin {"free", "delete"}
  PROVE  /\ lease = s /\ task \in {"pump", "abandoned"} /\ s # NoServer
         /\ status \notin {"new", "submitted"}
<1>1. /\ lease = s /\ task \in {"pump", "abandoned"}
      /\ status \in IF step[s] = "end" THEN {target[s], "gone"} ELSE Live
      /\ step[s] = "end" => target[s] \in Ends
  BY PendingHolds
<1>2. {"new", "submitted"} \cap (Live \cup Ends) = {}
  BY EndNames DEF Live, Pending, Unstored
<1>3. s # NoServer
  BY ServersAssumption
<1> QED BY <1>1, <1>2, <1>3 DEF Live

LEMMA HolderReads ==
  ASSUME EndInv, ReadInv, NEW s \in Servers, UNCHANGED <<lease, task>>,
         phase[s] \in Pending \/ step[s] \notin {"free", "delete"},
         status' = status \/ status' \in Ends \cup Live, PublishedIsReadable'
  PROVE  ReadInv'
<1>1. /\ lease = s /\ task \in {"pump", "abandoned"} /\ s # NoServer
      /\ status \notin {"new", "submitted"}
  BY HolderIsBorn
<1>2. {"new", "submitted"} \cap (Live \cup Ends) = {}
  BY EndNames DEF Live, Pending, Unstored
<1>3. Unborn' /\ NoFragment'
  BY <1>1, <1>2, Born, StillWhole DEF ReadInv
<1> QED BY <1>3 DEF ReadInv

LEMMA SettlingReads ==
  ASSUME EndInv, ReadInv, NEW s \in Servers, Settling(s)
  PROVE  ReadInv'
<1>1. /\ step[s] \in {"flush", "save", "resave", "end", "remove", "unlink"}
      /\ UNCHANGED <<lease, task>>
  BY DEF Settling, Flush, SaveEnd, ResaveEnd, PublishEnd, RemoveUnstored, UnlinkUnstored,
     leasing
<1>2. lease = s /\ (step[s] \in {"flush", "save", "resave", "end"} => target[s] \in Ends)
  BY <1>1, PendingHolds
<1>3. status' = status \/ status' \in Ends \cup Live
  BY <1>1, <1>2 DEF Settling, Flush, SaveEnd, ResaveEnd, PublishEnd, RemoveUnstored,
     UnlinkUnstored, Live
<1>4. CASE Flush(s)
  <2>1. Written(s, doc[s].buf, FALSE) \/ NotWritten(s, doc[s].buf, FALSE)
    BY <1>4 DEF Flush
  <2>2. PublishedIsReadable'
    BY <1>2, <2>1, JobFacts, WriteReads DEF ReadInv
  <2> QED BY <1>1, <1>3, <2>2, HolderReads
<1>5. CASE PublishEnd(s)
  <2>1. /\ \/ Written(s, TerminalEvents(target[s]), TRUE)
           \/ NotWritten(s, TerminalEvents(target[s]), TRUE)
        /\ step[s] = "end"
    BY <1>5 DEF PublishEnd
  <2>2. TerminalEvents(target[s]) \in Seq(AnyLine)
    BY <1>2, <2>1, TerminalType
  <2>3. PublishedIsReadable'
    BY <1>2, <2>1, <2>2, WriteReads DEF ReadInv
  <2> QED BY <1>1, <1>3, <2>3, HolderReads
<1>6. CASE SaveEnd(s) \/ ResaveEnd(s) \/ RemoveUnstored(s) \/ UnlinkUnstored(s)
  <2>1. UNCHANGED <<journal, frag, writer>> /\ (pub' = pub \/ pub' = Published(s, 0, TRUE))
    BY <1>6 DEF SaveEnd, ResaveEnd, RemoveUnstored, UnlinkUnstored
  <2>2. \A t \in Servers : pub'[t].lines = pub[t].lines
    <3>1. CASE pub' = Published(s, 0, TRUE)
      <4>1. /\ pub'[s].lines = pub[s].lines + 0
            /\ \A t \in Servers \ {s} : pub'[t] = pub[t]
        <5>1. EndInv /\ 0 \in Nat /\ TRUE \in BOOLEAN
          OBVIOUS
        <5>2. /\ Published(s, 0, TRUE)[s].lines = pub[s].lines + 0
              /\ \A t \in Servers \ {s} : Published(s, 0, TRUE)[t] = pub[t]
          BY <5>1, PublishedLines
        <5> QED BY <3>1, <5>2
      <4> QED BY <4>1, ReadTypes
    <3> QED BY <2>1, <3>1
  <2>3. PublishedIsReadable'
    BY <2>1, <2>2, StillReads DEF ReadInv
  <2> QED BY <1>1, <1>3, <2>3, HolderReads
<1> QED BY <1>4, <1>5, <1>6 DEF Settling

LEMMA PieceOpen ==
  ASSUME EndInv, NEW s \in Servers
  PROVE  Emit(doc[s], <<Piece(doc[s].waiting)>>).buf \in Seq(OpenLine)
<1> DEFINE d == Emit(doc[s], <<Piece(doc[s].waiting)>>)
<1>1. doc[s] \in Doc
  BY JobFacts
<1>2. <<Piece(doc[s].waiting)>> \in Seq(OpenLine)
  BY <1>1, LineTypes DEF Doc
<1>3. d \in Doc
  BY <1>1, <1>2, EmitType
<1> HIDE DEF d
<1>4. d.buf \in Seq(OpenLine)
  BY <1>3 DEF Doc
<1> QED BY <1>4 DEF d

LEMMA PieceType ==
  ASSUME EndInv, NEW s \in Servers
  PROVE  Emit(doc[s], <<Piece(doc[s].waiting)>>).buf \in Seq(AnyLine)
<1> DEFINE b == Emit(doc[s], <<Piece(doc[s].waiting)>>).buf
<1>1. b \in Seq(OpenLine)
  BY PieceOpen
<1> HIDE DEF b
<1> QED BY <1>1 DEF AnyLine, b

(* A step that neither writes nor opens nor publishes anything, and leaves *)
(* the lease where it is.                                                  *)
LEMMA BystanderReads ==
  ASSUME EndInv, ReadInv, UNCHANGED <<journal, frag, lease, task>>, jfile' => jfile,
         status' = status \/ status' \notin {"new", "submitted"},
         task \in {"journal", "record"} => gen'[lease] # "none",
         \A t \in Servers : pub'[t].lines = pub[t].lines,
         \A t \in Servers : writer'[t] = "ok" => writer[t] = "ok"
  PROVE  ReadInv'
BY StillReads, StillUnborn, StillWhole DEF ReadInv

LEMMA PumpReads ==
  ASSUME EndInv, ReadInv, NEW s \in Servers, Pump(s)
  PROVE  ReadInv'
<1> USE DEF files, leasing
<1>1. CASE \/ SaveProgress(s) \/ FoldProgress(s) \/ FoldItem(s) \/ FoldFinished(s)
           \/ FoldError(s) \/ SummaryEnd(s) \/ PumpStopped(s)
  <2>1. /\ phase[s] \in Pending \/ step[s] \notin {"free", "delete"}
        /\ UNCHANGED <<journal, frag, lease, task, pub, writer>>
    BY <1>1 DEF SaveProgress, FoldProgress, FoldItem, FoldFinished, FoldError, SummaryEnd,
       PumpStopped, Idle, Folding, FoldFrame, Pending
  <2>2. status' \in {status, "in_progress"}
    BY <1>1 DEF SaveProgress, FoldProgress, FoldItem, FoldFinished, FoldError, SummaryEnd,
       PumpStopped, FoldFrame
  <2>3. PublishedIsReadable'
    BY <2>1, StillReads DEF ReadInv
  <2> QED BY <2>1, <2>2, <2>3, HolderReads DEF Live, Pending
<1>2. CASE Publish(s)
  <2>1. /\ Written(s, doc[s].buf, FALSE) \/ NotWritten(s, doc[s].buf, FALSE)
        /\ step[s] = "publish" /\ UNCHANGED <<status, lease, task>>
    BY <1>2 DEF Publish
  <2>2. lease = s
    BY <2>1, PendingHolds
  <2>3. PublishedIsReadable'
    BY <2>1, <2>2, JobFacts, WriteReads DEF ReadInv
  <2> QED BY <2>1, <2>3, HolderReads
<1>3. CASE SummaryPiece(s)
  <2> DEFINE b == Emit(doc[s], <<Piece(doc[s].waiting)>>).buf
  <2>1. /\ Written(s, b, FALSE) \/ NotWritten(s, b, FALSE)
        /\ step[s] = "summary" /\ UNCHANGED <<status, lease, task>>
    BY <1>3 DEF SummaryPiece
  <2>2. lease = s
    BY <2>1, PendingHolds
  <2>3. b \in Seq(AnyLine)
    BY PieceType
  <2> HIDE DEF b
  <2>4. PublishedIsReadable'
    BY <2>1, <2>2, <2>3, WriteReads DEF ReadInv
  <2> QED BY <2>1, <2>4, HolderReads
<1>4. CASE PumpRelease(s)
  <2>1. /\ task = "pump" /\ lease' = NoServer /\ task' = "none"
        /\ writer' = [writer EXCEPT ![s] = "none"]
        /\ UNCHANGED <<status, journal, frag, jfile, pub>>
    BY <1>4 DEF PumpRelease, Pumping, Set
  <2>2. status \notin {"new", "submitted"}
    BY <2>1 DEF ReadInv, Unborn
  <2>3. \A t \in Servers : writer'[t] = "ok" => writer[t] = "ok"
    BY <2>1, ReadTypes
  <2> QED BY <2>1, <2>2, <2>3, StillReads, Born, StillWhole DEF ReadInv
<1>5. CASE Unregister(s)
  <2>1. UNCHANGED <<status, journal, frag, jfile, lease, task, pub, writer, gen>>
    BY <1>5 DEF Unregister, engine
  <2> QED BY <2>1, BystanderReads DEF ReadInv, Unborn
<1> QED BY <1>1, <1>2, <1>3, <1>4, <1>5 DEF Pump

(* No writer is open while the lease is free, or held for something other  *)
(* than a job.                                                             *)
LEMMA NoWriter ==
  ASSUME EndInv, lease = NoServer \/ task \notin {"pump", "abandoned"}
  PROVE  \A t \in Servers : writer[t] = "none"
BY OnlyHolder, ServersAssumption DEF Quiet

(* A task of the holder that touches no journal.                           *)
LEMMA TaskReads ==
  ASSUME EndInv, ReadInv, UNCHANGED <<journal, frag, jfile, pub, writer>>,
         status' \notin {"new", "submitted"},
         lease' = NoServer <=> task' = "none",
         task' \notin {"journal", "record"},
         task' \in {"submit", "register"} => (jfile => ~frag)
  PROVE  ReadInv'
BY StillReads, Born DEF ReadInv, NoFragment

LEMMA AdmissionReads ==
  ASSUME EndInv, ReadInv, NEW s \in Servers, Admission(s)
  PROVE  ReadInv'
<1> USE DEF job, files, leasing
<1>0. s # NoServer /\ gen \in [Servers -> {"none", "running", "stopped", "closed"}]
  BY ServersAssumption DEF EndInv, TypeOK, EngineOK
<1>1. CASE AdmitLease(s)
  <2>1. UNCHANGED <<journal, frag, jfile, pub, writer>> /\ status = "submitted"
        /\ lease # s /\ gen[s] # "none"
    BY <1>1 DEF AdmitLease
  <2>2. CASE NotAdmitted(s) /\ UNCHANGED leasing
    <3>1. status' = "gone" /\ gen' = [gen EXCEPT ![s] = "none"] /\ UNCHANGED <<lease, task>>
      BY <2>2 DEF NotAdmitted, Set
    <3>2. gen'[lease] = gen[lease] \/ task = "none"
      BY <1>0, <2>1, <3>1 DEF ReadInv, Unborn, EndInv, TypeOK, LeaseOK
    <3>3. task \in {"journal", "record"} => gen'[lease] # "none"
      BY <3>2 DEF ReadInv, Unborn
    <3> QED BY <2>1, <3>1, <3>3, BystanderReads
  <2>3. CASE /\ lease = NoServer /\ lease' = s /\ task' \in {"journal", "record"}
             /\ UNCHANGED <<status, gen>>
    <3>1. task = "none" /\ journal = <<>> /\ ~frag
      BY <2>1, <2>3 DEF ReadInv, Unborn
    <3>2. Unborn' /\ NoFragment'
      BY <1>0, <2>1, <2>3, <3>1 DEF Unborn, NoFragment
    <3> QED BY <2>1, <3>2, StillReads DEF ReadInv
  <2> QED BY <1>1, <2>2, <2>3 DEF AdmitLease
<1>2. CASE AdmitJournal(s)
  <2>1. /\ task = "journal" /\ lease = s /\ UNCHANGED <<frag, pub, writer>>
        /\ journal = <<>> /\ ~frag /\ gen[s] # "none"
        /\ status \in {"submitted", "gone"}
    BY <1>2 DEF AdmitJournal, ReadInv, Unborn, EndInv, TaskIsOpen
  <2>2. CASE /\ journal' = <<Created, Queued>> /\ task' = "record"
             /\ UNCHANGED <<status, lease, gen>>
    <3> DEFINE b == <<Created, Queued>>
    <3>1. b \in Seq(AnyLine)
      BY LineTypes DEF AnyLine
    <3> HIDE DEF b
    <3>2. journal' = journal \o b
      BY <2>1, <2>2, <3>1 DEF b
    <3>3. Prefixed(b)
      BY <3>1, <3>2, PrefixOfAll, ReadTypes
    <3>4. PublishedIsReadable'
      BY <2>1, <3>1, <3>3, NoWriter, GrownReads DEF ReadInv
    <3>5. Unborn' /\ NoFragment'
      BY <1>0, <2>1, <2>2 DEF Unborn, NoFragment
    <3> QED BY <3>4, <3>5 DEF ReadInv
  <2>3. CASE NotAdmitted(s) /\ EndTask(s) /\ UNCHANGED <<journal, jfile>>
    BY <2>1, <2>3, TaskReads DEF NotAdmitted, EndTask
  <2> QED BY <1>2, <2>2, <2>3 DEF AdmitJournal
<1>3. CASE AdmitRecord(s)
  <2>1. task = "record" /\ lease = s /\ ~frag /\ UNCHANGED <<journal, frag, pub, writer>>
    BY <1>3 DEF AdmitRecord, ReadInv, NoFragment
  <2>2. CASE status' = "queued" /\ task' = "register" /\ UNCHANGED <<jfile, lease>>
    BY <1>0, <2>1, <2>2, TaskReads
  <2>3. CASE NotAdmitted(s) /\ EndTask(s)
    BY <2>1, <2>3, StillReads, Born, StillWhole DEF NotAdmitted, EndTask, ReadInv
  <2> QED BY <1>3, <2>2, <2>3 DEF AdmitRecord
<1>4. CASE Register(s)
  <2>1. /\ task = "register" /\ lease = s /\ UNCHANGED <<journal, frag, jfile, status, lease>>
        /\ task' \in {"pump", "abandoned"}
        /\ writer' = [writer EXCEPT ![s] = IF jfile THEN "ok" ELSE "none"]
        /\ pub' = [pub EXCEPT ![s] = [NoPub EXCEPT !.lines = Len(journal)]]
    BY <1>4 DEF Register, Set
  <2>2. status \notin {"new", "submitted"} /\ (jfile => ~frag)
    BY <2>1 DEF ReadInv, Unborn, NoFragment
  <2>3. Unborn' /\ NoFragment'
    BY <1>0, <2>1, <2>2, Born, StillWhole DEF ReadInv
  <2>4. pub'[s].lines = Len(journal) /\ \A t \in Servers \ {s} : pub'[t] = pub[t]
    <3> DEFINE q == [NoPub EXCEPT !.lines = Len(journal)]
    <3>1. q.lines = Len(journal)
      <4>1. NoPub \in PubType
        BY DEF NoPub, PubType
      <4> QED BY <4>1 DEF PubType
    <3> HIDE DEF q
    <3>2. pub' = [pub EXCEPT ![s] = q]
      BY <2>1 DEF q
    <3> QED BY <3>1, <3>2, ReadTypes
  <2>5. writer'[s] = "ok" => jfile
    BY <2>1, ReadTypes
  <2>6. \A t \in Servers \ {s} : writer'[t] = "none"
    BY <2>1, NoWriter, ReadTypes
  <2>7. PublishedIsReadable'
    <3> SUFFICES ASSUME NEW t \in Servers
                 PROVE  /\ pub'[t].lines <= Len(journal')
                        /\ writer'[t] = "ok" => ~frag' /\ pub'[t].lines = Len(journal')
      BY DEF PublishedIsReadable
    <3>1. pub[t].lines <= Len(journal) /\ Len(journal) \in Nat
      BY ReadTypes DEF ReadInv, PublishedIsReadable
    <3> QED BY <2>1, <2>2, <2>4, <2>5, <2>6, <3>1
  <2> QED BY <2>3, <2>7 DEF ReadInv
<1>5. CASE DropAbandoned(s)
  <2>1. /\ task = "abandoned" /\ lease' = NoServer /\ task' = "none"
        /\ writer' = [writer EXCEPT ![s] = "none"]
        /\ UNCHANGED <<status, journal, frag, jfile, pub>>
    BY <1>5 DEF DropAbandoned, EndTask, Set
  <2>2. status \notin {"new", "submitted"}
    BY <2>1 DEF ReadInv, Unborn
  <2>3. \A t \in Servers : writer'[t] = "ok" => writer[t] = "ok"
    BY <2>1, ReadTypes
  <2> QED BY <2>1, <2>2, <2>3, StillReads, Born, StillWhole DEF ReadInv
<1> QED BY <1>1, <1>2, <1>3, <1>4, <1>5 DEF Admission

LEMMA RecoveryReads ==
  ASSUME EndInv, ReadInv, NEW s \in Servers, Recovery(s)
  PROVE  ReadInv'
<1> USE DEF job, files, leasing
<1>0. s # NoServer
  BY ServersAssumption
<1>1. CASE ResumeBoundary(s)
  <2>1. /\ task = "boundary" /\ lease = s /\ status \in Live
        /\ UNCHANGED <<status, jfile, lease, pub, writer>>
    BY <1>1 DEF ResumeBoundary, TaskFrame, EndInv, TaskIsOpen
  <2>2. PICK b \in Boundaries : \/ Continued(b) /\ task' = "submit"
                                \/ NotContinued(b) /\ task' = "settle"
    BY <1>1 DEF ResumeBoundary
  <2>3. b \in Seq(AnyLine)
    BY BoundaryType DEF EndInv, TypeOK, FilesOK, AnyLine
  <2>4. Prefixed(b)
    BY <2>2, <2>3, ContinueType DEF EndInv
  <2>5. PublishedIsReadable'
    BY <2>1, <2>3, <2>4, NoWriter, GrownReads DEF ReadInv
  <2>6. status \notin {"new", "submitted"}
    BY <2>1 DEF ReadInv, Unborn
  <2>7. Unborn' /\ NoFragment'
    BY <1>0, <2>1, <2>2, <2>6 DEF Unborn, NoFragment, Continued
  <2> QED BY <2>5, <2>7 DEF ReadInv
<1>2. CASE ResumeSubmit(s)
  <2>1. /\ task = "submit" /\ lease = s /\ UNCHANGED <<journal, frag, jfile, status, pub, writer>>
        /\ \/ task' \in {"register", "settle"} /\ UNCHANGED lease
           \/ task' = "none" /\ lease' = NoServer
    BY <1>2 DEF ResumeSubmit, EndTask
  <2>2. status \notin {"new", "submitted"} /\ (jfile => ~frag)
    BY <2>1 DEF ReadInv, Unborn, NoFragment
  <2> QED BY <1>0, <2>1, <2>2, TaskReads
<1>3. CASE SettleUnowned(s)
  <2>1. /\ task = "settle" /\ lease = s /\ UNCHANGED <<journal, frag, jfile, pub, writer>>
        /\ \/ task' = "seal" /\ UNCHANGED lease
           \/ task' = "none" /\ lease' = NoServer
        /\ status' \in {status, verdict} /\ verdict \in Ends
    BY <1>3 DEF SettleUnowned, EndTask, TaskFrame, EndInv, TaskIsOpen
  <2>2. status' \notin {"new", "submitted"}
    BY <2>1, EndNames DEF ReadInv, Unborn, Unstored
  <2> QED BY <1>0, <2>1, <2>2, TaskReads
<1>4. CASE SealJournal(s)
  <2>1. /\ task = "seal" /\ lease = s /\ task' = "none" /\ lease' = NoServer
        /\ UNCHANGED <<status, jfile, pub, writer>> /\ verdict \in Ends
    BY <1>4 DEF SealJournal, EndTask, TaskFrame, EndInv, TaskIsOpen
  <2>2. status' \notin {"new", "submitted"}
    BY <2>1 DEF ReadInv, Unborn
  <2>3. Unborn' /\ NoFragment'
    BY <2>1, <2>2, Born, StillWhole DEF ReadInv
  <2> DEFINE b == IF Ended(journal) THEN <<>> ELSE TerminalEvents(verdict)
  <2>4. b \in Seq(AnyLine)
    BY <2>1, TerminalType
  <2>5. Continued(b) \/ NotContinued(b) \/ UNCHANGED <<journal, frag>>
    BY <1>4 DEF SealJournal
  <2> HIDE DEF b
  <2>6. CASE UNCHANGED <<journal, frag>>
    BY <2>1, <2>6, StillReads, <2>3 DEF ReadInv
  <2>7. CASE Continued(b) \/ NotContinued(b)
    <3>1. Prefixed(b)
      BY <2>4, <2>7, ContinueType DEF EndInv
    <3> QED BY <2>1, <2>3, <2>4, <3>1, NoWriter, GrownReads DEF ReadInv
  <2> QED BY <2>5, <2>6, <2>7
<1> QED BY <1>1, <1>2, <1>3, <1>4 DEF Recovery

LEMMA GenKept ==
  ASSUME EndInv, ReadInv, NEW s \in Servers, gen[s] = "none" <=> gen'[s] = "none",
         \A t \in Servers \ {s} : gen'[t] = gen[t]
  PROVE  task \in {"journal", "record"} => gen'[lease] # "none"
<1> SUFFICES ASSUME task \in {"journal", "record"} PROVE gen'[lease] # "none"
  OBVIOUS
<1>1. gen[lease] # "none" /\ lease # NoServer
  BY DEF ReadInv, Unborn
<1>2. lease \in Servers
  BY <1>1 DEF EndInv, TypeOK, LeaseOK
<1> QED BY <1>1, <1>2

LEMMA SameGen ==
  ASSUME ReadInv, UNCHANGED gen
  PROVE  task \in {"journal", "record"} => gen'[lease] # "none"
BY DEF ReadInv, Unborn

LEMMA HandlerReads ==
  ASSUME EndInv, ReadInv, NEW s \in Servers, Handler(s)
  PROVE  ReadInv'
<1> USE DEF job, files, leasing, engine
<1>1. ASSUME NEW handler, NEW end, LockToSettle(s, handler, end)
      PROVE  ReadInv'
  <2>1. UNCHANGED <<journal, frag, jfile, status, lease, task, pub, writer, gen>>
    BY <1>1 DEF LockToSettle
  <2> QED BY <2>1, SameGen, BystanderReads
<1>2. CASE LockToDelete(s)
  <2>1. UNCHANGED <<journal, frag, jfile, lease, task, pub, writer, gen>>
        /\ status' \in {status, "gone"}
    BY <1>2 DEF LockToDelete
  <2> QED BY <2>1, SameGen, BystanderReads
<1>3. CASE DeleteJob(s)
  <2>1. /\ UNCHANGED <<journal, frag, status, lease, task>> /\ (jfile' => jfile)
        /\ writer' = [writer EXCEPT ![s] = "none"]
        /\ pub' = [pub EXCEPT ![s] = [pub[s] EXCEPT !.deleted = TRUE]]
        /\ gen' = [gen EXCEPT ![s] = IF gen[s] = "running" THEN "stopped" ELSE gen[s]]
    BY <1>3 DEF DeleteJob, Unlinked, Unlocked, Stop, Set
  <2>2. /\ gen[s] = "none" <=> gen'[s] = "none"
        /\ \A t \in Servers \ {s} : gen'[t] = gen[t]
    BY <2>1 DEF EndInv, TypeOK, EngineOK
  <2>3. \A t \in Servers : writer'[t] = "ok" => writer[t] = "ok"
    BY <2>1, ReadTypes
  <2>4. \A t \in Servers : pub'[t].lines = pub[t].lines
    <3> DEFINE q == [pub[s] EXCEPT !.deleted = TRUE]
    <3>1. q.lines = pub[s].lines
      BY ReadTypes DEF PubType
    <3> HIDE DEF q
    <3>2. pub' = [pub EXCEPT ![s] = q]
      BY <2>1 DEF q
    <3> QED BY <3>1, <3>2, ReadTypes
  <2>5. task \in {"journal", "record"} => gen'[lease] # "none"
    BY <2>2, GenKept
  <2> QED BY <2>1, <2>3, <2>4, <2>5, BystanderReads
<1> QED BY <1>1, <1>2, <1>3 DEF Handler

LEMMA ResumeReads ==
  ASSUME EndInv, ReadInv, NEW s \in Servers, TakeResume(s),
         UNCHANGED <<journal, frag, jfile, status, pub, writer>>
  PROVE  ReadInv'
<1>1. status \in Pending /\ lease' = s /\ s # NoServer
  BY ServersAssumption DEF TakeResume, Resumable
<1>2. task' \in {"settle", "boundary"} \/ (task' = "submit" /\ ~jfile)
  BY DEF TakeResume
<1>3. status \notin {"new", "submitted"}
  BY <1>1 DEF Pending
<1> QED BY <1>1, <1>2, <1>3, TaskReads

LEMMA RequestReads ==
  ASSUME EndInv, ReadInv, NEW s \in Servers,
         Request(s) \/ Deletion(s) \/ UnlinkSettled(s) \/ Subscribe(s)
  PROVE  ReadInv'
<1> USE DEF job, files, leasing, engine
<1>0. s # NoServer /\ {"new", "submitted"} \cap Pending = {}
  BY ServersAssumption DEF Pending
<1>1. CASE Post(s)
  <2>1. /\ status = "new" /\ status' = "submitted"
        /\ UNCHANGED <<journal, frag, jfile, lease, task, pub, writer>>
    BY <1>1 DEF Post
  <2>2. task = "none" /\ lease = NoServer /\ journal = <<>> /\ ~frag
    BY <2>1 DEF ReadInv, Unborn
  <2>3. Unborn' /\ NoFragment'
    BY <2>1, <2>2 DEF Unborn, NoFragment
  <2> QED BY <2>1, <2>3, StillReads DEF ReadInv
<1>2. CASE AskCancel(s) \/ AskDelete(s)
  <2>1. UNCHANGED <<journal, frag, jfile, status, lease, task, pub, writer, gen>>
    BY <1>2 DEF AskCancel, AskDelete, AskFrame
  <2> QED BY <2>1, SameGen, BystanderReads
<1>3. CASE CancelUnowned(s) \/ DeletePending(s)
  <2>1. /\ UNCHANGED <<journal, frag, jfile, status, pub, writer>> /\ status \in Pending
        /\ lease' = s /\ task' \in {"settle", "delete"}
    BY <1>3 DEF CancelUnowned, DeletePending, RequestFrame
  <2> QED BY <1>0, <2>1, TaskReads
<1>4. CASE DeleteSettled(s) \/ StreamGet(s) \/ UnlinkSettled(s) \/ Prune(s)
  <2>1. UNCHANGED <<journal, frag, lease, task, pub, writer, gen>>
        /\ status' \in {status, "gone"}
    BY <1>4 DEF DeleteSettled, StreamGet, UnlinkSettled, Prune, RemoveOrphan, RequestFrame
  <2>2. jfile' = jfile \/ jfile' = FALSE
    BY <1>4 DEF DeleteSettled, StreamGet, UnlinkSettled, Unlinked, Prune, RemoveOrphan
  <2> QED BY <2>1, <2>2, SameGen, BystanderReads
<1>5. CASE Get(s)
  BY <1>5, ResumeReads DEF Get, TaskFrame
<1>6. CASE RemovePending(s)
  <2>1. /\ task = "delete" /\ lease = s /\ UNCHANGED <<journal, frag, jfile, pub, writer>>
        /\ status' \in {status, "gone"}
        /\ \/ task' = "unlink" /\ UNCHANGED lease
           \/ task' = "none" /\ lease' = NoServer
    BY <1>6 DEF RemovePending, EndTask, TaskFrame
  <2>2. status' \notin {"new", "submitted"}
    BY <2>1 DEF ReadInv, Unborn
  <2> QED BY <1>0, <2>1, <2>2, TaskReads
<1>7. CASE UnlinkPending(s)
  <2>1. /\ task = "unlink" /\ UNCHANGED <<journal, frag, status, pub, writer>>
        /\ task' = "none" /\ lease' = NoServer
    BY <1>7 DEF UnlinkPending, EndTask, TaskFrame
  <2>2. status' \notin {"new", "submitted"}
    BY <2>1 DEF ReadInv, Unborn
  <2> QED BY <2>1, <2>2, StillReads, Born, StillWhole DEF ReadInv
<1>8. CASE Subscribe(s)
  <2>1. UNCHANGED <<journal, frag, jfile, status, pub, writer, gen>>
    BY <1>8 DEF Subscribe, RequestFrame
  <2>2. \/ UNCHANGED leasing
        \/ status \in Pending /\ task' = "settle" /\ lease' = s
    BY <1>8 DEF Subscribe
  <2>3. CASE UNCHANGED leasing
    BY <2>1, <2>3, SameGen, BystanderReads
  <2>4. CASE status \in Pending /\ task' = "settle" /\ lease' = s
    BY <1>0, <2>1, <2>4, TaskReads
  <2> QED BY <2>2, <2>3, <2>4
<1> QED BY <1>1, <1>2, <1>3, <1>4, <1>5, <1>6, <1>7, <1>8 DEF Request, Deletion

LEMMA BootReads ==
  ASSUME EndInv, ReadInv, NEW s \in Servers, Boot(s)
  PROVE  ReadInv'
<1> USE DEF job, files, leasing, engine
<1>1. UNCHANGED <<journal, frag, status, pub, writer, gen>>
      /\ (jfile' = jfile \/ jfile' = FALSE)
  BY DEF Boot, Start, Sweep, StartupResume, Retry, BootFrame, RemoveOrphan
<1>2. \/ UNCHANGED leasing
      \/ TakeResume(s) /\ UNCHANGED jfile
      \/ status \in Pending /\ lease' = s /\ task' = "settle" /\ UNCHANGED jfile
  BY DEF Boot, Start, Sweep, StartupResume, Retry, Unresumable
<1>3. CASE UNCHANGED leasing
  BY <1>1, <1>3, SameGen, BystanderReads
<1>4. CASE TakeResume(s) /\ UNCHANGED jfile
  BY <1>1, <1>4, ResumeReads
<1>5. CASE status \in Pending /\ lease' = s /\ task' = "settle" /\ UNCHANGED jfile
  <2>1. s # NoServer /\ status \notin {"new", "submitted"}
    BY <1>5, ServersAssumption DEF Pending
  <2> QED BY <1>1, <1>5, <2>1, TaskReads
<1> QED BY <1>2, <1>3, <1>4, <1>5

LEMMA EngineReads ==
  ASSUME EndInv, ReadInv, NEW s \in Servers, EngineClose(s) \/ MarkTools(s) \/ RunTool(s)
  PROVE  ReadInv'
<1> USE DEF job, files, leasing
<1>1. UNCHANGED <<journal, frag, jfile, status, lease, task, pub, writer>>
  BY DEF EngineClose, MarkTools, RunTool, EngineFrame
<1>2. task \in {"journal", "record"} => gen'[lease] # "none"
  <2>1. CASE EngineClose(s)
    <3>1. gen[s] # "none" /\ gen' = [gen EXCEPT ![s] = "closed"]
      BY <2>1 DEF EngineClose, Set
    <3>2. gen'[s] # "none" /\ \A t \in Servers \ {s} : gen'[t] = gen[t]
      BY <3>1 DEF EndInv, TypeOK, EngineOK
    <3> QED BY <3>1, <3>2, GenKept
  <2>2. CASE MarkTools(s) \/ RunTool(s)
    BY <2>2, SameGen DEF MarkTools, RunTool
  <2> QED BY <2>1, <2>2
<1> QED BY <1>1, <1>2, BystanderReads

LEMMA ResetReads ==
  ASSUME EndInv, ReadInv, NEW s \in Servers, Reset(s)
  PROVE  /\ \A t \in Servers : \/ pub'[t].lines = pub[t].lines
                               \/ pub'[t].lines = 0 /\ writer'[t] # "ok"
         /\ \A t \in Servers : writer'[t] = "ok" => writer[t] = "ok" /\ t # s
         /\ \A t \in Servers \ {s} : gen'[t] = gen[t]
<1>1. /\ writer' = [writer EXCEPT ![s] = "none"] /\ gen' = [gen EXCEPT ![s] = "none"]
      /\ pub' = [pub EXCEPT ![s] = NoPub] /\ NoPub.lines = 0
  BY DEF Reset, Set, NoPub
<1> QED BY <1>1, ReadTypes DEF EndInv, TypeOK, EngineOK

(* A server that does not hold the lease stops.                            *)
LEMMA OtherStops ==
  ASSUME EndInv, ReadInv, NEW s \in Servers, lease # s, Reset(s),
         UNCHANGED <<journal, frag, jfile, lease, task>>, status' \in {status, "gone"}
  PROVE  ReadInv'
<1>1. PublishedIsReadable'
  BY ResetReads, StillReads DEF ReadInv
<1>2. task \in {"journal", "record"} => gen'[lease] # "none"
  <2> SUFFICES ASSUME task \in {"journal", "record"} PROVE gen'[lease] # "none"
    OBVIOUS
  <2>1. gen[lease] # "none" /\ lease # NoServer
    BY DEF ReadInv, Unborn
  <2>2. lease \in Servers
    BY <2>1 DEF EndInv, TypeOK, LeaseOK
  <2> QED BY <2>1, <2>2, ResetReads
<1>3. Unborn' /\ NoFragment'
  BY <1>2, StillUnborn, StillWhole DEF ReadInv
<1> QED BY <1>1, <1>3 DEF ReadInv

LEMMA StopReads ==
  ASSUME EndInv, ReadInv, NEW s \in Servers, Close(s) \/ Exit(s) \/ Crash(s)
  PROVE  ReadInv'
<1> USE DEF files, leasing
<1>1. CASE Close(s)
  <2>1. UNCHANGED <<journal, frag, jfile, status, lease, task, pub, writer, gen>>
    BY <1>1 DEF Close, AskFrame, engine
  <2> QED BY <2>1, SameGen, BystanderReads
<1>2. CASE Exit(s)
  BY <1>2, OtherStops DEF Exit
<1>3. CASE Crash(s) /\ lease # s
  <2>1. Reset(s) /\ status' \in {status, "gone"} /\ UNCHANGED <<lease, task>>
    BY <1>3 DEF Crash
  <2>2. Quiet(s)
    BY <1>3, OnlyHolder
  <2>3. InFlight(s) = {<<>>}
    BY <1>3, <2>2 DEF InFlight, Quiet
  <2>4. UNCHANGED <<journal, frag, jfile>>
    BY <1>3, <2>3 DEF Crash
  <2> QED BY <1>3, <2>1, <2>4, OtherStops
<1>4. CASE Crash(s) /\ lease = s
  <2>1. /\ Reset(s) /\ lease' = NoServer /\ task' = "none"
        /\ status' = IF status = "submitted" /\ gen[s] # "none" THEN "gone" ELSE status
    BY <1>4 DEF Crash, EndTask
  <2>2. lease # NoServer
    BY <1>4, ServersAssumption
  <2>3. status' \notin {"new", "submitted"}
    BY <1>4, <2>1, <2>2 DEF ReadInv, Unborn
  <2>4. Unborn' /\ NoFragment'
    BY <2>1, <2>3, Born, StillWhole DEF ReadInv
  <2>5. \/ UNCHANGED <<journal, frag>>
        \/ \E b \in InFlight(s) : Cut(b)
    BY <1>4 DEF Crash
  <2>6. CASE UNCHANGED <<journal, frag>>
    BY <2>1, <2>4, <2>6, ResetReads, StillReads DEF ReadInv
  <2>7. CASE \E b \in InFlight(s) : Cut(b)
    <3>1. PICK b \in InFlight(s) : Cut(b)
      BY <2>7
    <3>2. b \in Seq(AnyLine) /\ Prefixed(b)
      BY <3>1, InFlightType, CutPrefixes
    <3>3. \A t \in Servers : writer'[t] # "ok"
      BY <1>4, <2>1, ResetReads, OneWriter
    <3>4. \A t \in Servers : pub'[t].lines = pub[t].lines \/ pub'[t].lines = 0
      BY <2>1, ResetReads
    <3> QED BY <2>4, <3>2, <3>3, <3>4, GrownReads DEF ReadInv
  <2> QED BY <2>5, <2>6, <2>7
<1> QED BY <1>1, <1>2, <1>3, <1>4

LEMMA ReadInvInit ==
  ASSUME Init
  PROVE  ReadInv
<1>1. Unborn /\ NoFragment
  BY DEF Init, Unborn, NoFragment
<1>2. PublishedIsReadable
  <2>1. journal = <<>> /\ \A t \in Servers : pub[t] = NoPub /\ writer[t] = "none"
    BY DEF Init
  <2>2. NoPub.lines = 0
    BY DEF NoPub
  <2> QED BY <2>1, <2>2 DEF PublishedIsReadable
<1> QED BY <1>1, <1>2 DEF ReadInv

LEMMA ReadInvStep ==
  ASSUME EndInv, ReadInv, [Next]_vars
  PROVE  ReadInv'
<1>1. CASE UNCHANGED vars
  <2>1. UNCHANGED <<journal, frag, jfile, status, lease, task, pub, writer, gen>>
    BY <1>1 DEF vars, files, job, leasing, engine
  <2> QED BY <2>1, SameGen, BystanderReads
<1>2. CASE Next
  <2>1. PICK s \in Servers :
          \/ ServerStep(s) \/ MarkTools(s) \/ RunTool(s) \/ Request(s) \/ Close(s)
          \/ Crash(s)
    BY <1>2 DEF Next
  <2> QED BY <2>1, SettlingReads, PumpReads, AdmissionReads, RecoveryReads, HandlerReads,
             RequestReads, BootReads, EngineReads, StopReads DEF ServerStep
<1> QED BY <1>1, <1>2

(* What the servers of a response tell its subscribers is in the journal   *)
(* as whole lines, and no fragment is ever followed by a line, whichever   *)
(* writes fail or are cut short by a crash (JournalWriter::append,         *)
(* Background::register, JournalWriter::resume).                           *)
THEOREM PublishedCanBeRead == Spec => []PublishedIsReadable
<1>1. Init => ReadInv
  BY ReadInvInit
<1>2. EndInv /\ ReadInv /\ [Next]_vars => ReadInv'
  BY ReadInvStep
<1>3. ReadInv => PublishedIsReadable
  BY DEF ReadInv
<1> QED BY <1>1, <1>2, <1>3, EndInvariant, PTL DEF Spec


(***************************************************************************)
(* What clients are sent.                                                  *)
(***************************************************************************)
(* The response has ended as e, and nobody is left who could write another *)
(* record: neither a job, nor an admission, resumption or recovery.        *)
Over(e) ==
  /\ e \in Ends /\ status \in {e, "gone"}
  /\ \A s \in Servers : phase[s] \in Pending => step[s] = "end" /\ target[s] = e
  /\ task \notin {"journal", "record", "register", "boundary", "submit", "settle"}
  /\ task = "seal" => verdict = e

NoFinal(lines) == \A n \in 1..Len(lines) : lines[n].kind # "final"

EndsWell(lines) == \A n \in 1..Len(lines) :
  lines[n].kind = "final" => n = Len(lines) /\ Over(lines[n].end)

(* An unsettled job has published no end.                                  *)
Unended(p) ==
  /\ p.lines <= Len(journal)
  /\ p.settled \/ \A n \in 1..p.lines : journal[n].kind # "final"

SubType == [mode: {"off", "live", "late", "replay", "derive"},
            at: Servers \cup {NoServer}, read: Nat, opened: Ends \cup {NoEnd},
            pub: PubType]

SendInv == EndsWell(journal) /\ \A s \in Servers : Unended(pub[s])

ClientInv(c) ==
  /\ EndsWell(seen[c])
  /\ conn[c].mode # "off" => conn[c].at \in Servers /\ NoFinal(seen[c])
  /\ conn[c].mode = "derive" => conn[c].read <= Len(seen[c])
  /\ conn[c].mode = "late" => Unended(conn[c].pub)

SeenInv ==
  /\ seen \in [Clients -> Seq(AnyLine)] /\ conn \in [Clients -> SubType]
  /\ \A c \in Clients : ClientInv(c)

LEMMA EndOver ==
  ASSUME EndInv, status \in Ends
  PROVE  Over(status)
<1>1. status \notin Live /\ status \notin {"submitted", "gone"}
  BY EndNames DEF Live, Unstored
<1>2. ASSUME NEW s \in Servers, phase[s] \in Pending
      PROVE  step[s] = "end" /\ target[s] = status
  BY <1>1, <1>2, PendingHolds
<1>3. /\ task \notin {"journal", "record", "register", "boundary", "submit", "settle"}
      /\ task = "seal" => verdict = status
  BY <1>1 DEF EndInv, TaskIsOpen
<1> QED BY <1>2, <1>3 DEF Over

(* A job about to publish its end, and a recovery about to seal a journal. *)
LEMMA PublishOver ==
  ASSUME EndInv, NEW s \in Servers, step[s] = "end"
  PROVE  Over(target[s]) /\ Open
<1>1. /\ lease = s /\ task \in {"pump", "abandoned"} /\ Open /\ target[s] \in Ends
      /\ status \in {target[s], "gone"}
  BY PendingHolds
<1>2. \A t \in Servers \ {s} : phase[t] \notin Pending
  BY <1>1, OnlyHolder DEF Quiet
<1> QED BY <1>1, <1>2 DEF Over

LEMMA SealOver ==
  ASSUME EndInv, task = "seal"
  PROVE  Over(verdict) /\ Open
<1>1. Open /\ verdict \in Ends /\ status \in {verdict, "gone"}
  BY DEF EndInv, TaskIsOpen
<1>2. \A t \in Servers : phase[t] \notin Pending
  BY OnlyHolder DEF Quiet
<1> QED BY <1>1, <1>2 DEF Over

LEMMA OverStep ==
  ASSUME NEW e, Over(e), status' \in {status, "gone"},
         \A s \in Servers : phase'[s] \in Pending =>
            phase[s] \in Pending /\ step'[s] = step[s] /\ target'[s] = target[s],
         task' \notin {"journal", "record", "register", "boundary", "submit", "settle"},
         task' = "seal" => task = "seal" /\ verdict' = verdict
  PROVE  Over(e)'
BY DEF Over

(* What is over stays over: whoever may still write the record finds no    *)
(* response to settle.                                                     *)
LEMMA OverKept ==
  ASSUME EndInv, NEW e, Over(e), [Next]_vars
  PROVE  Over(e)'
<1> USE DEF files, leasing, job
<1>1. /\ status \notin Pending /\ status \notin {"new", "submitted"} /\ e \in Ends
      /\ status \in {e, "gone"}
  BY EndNames DEF Over, Pending, Unstored
<1>2. \A t \in Servers : phase[t] \in Pending => step[t] = "end"
  BY DEF Over
<1>3. task \notin {"journal", "record", "register", "boundary", "submit", "settle"}
  BY DEF Over
<1>4. CASE UNCHANGED vars
  BY <1>3, <1>4, OverStep DEF vars
<1>5. SUFFICES ASSUME NEW s \in Servers,
                      \/ ServerStep(s) \/ MarkTools(s) \/ RunTool(s) \/ Request(s)
                      \/ Close(s) \/ Crash(s)
               PROVE  Over(e)'
  BY <1>4 DEF Next
<1>6. CASE Settling(s)
  <2>1. step[s] \notin {"free", "delete"}
    BY <1>6 DEF Settling, Flush, SaveEnd, ResaveEnd, PublishEnd, RemoveUnstored,
       UnlinkUnstored
  <2>2. step[s] = "end"
    BY <1>2, <2>1, PendingHolds
  <2>3. PublishEnd(s)
    BY <1>6, <2>2 DEF Settling, Flush, SaveEnd, ResaveEnd, RemoveUnstored, UnlinkUnstored
  <2>4. /\ UNCHANGED <<status, task, verdict>> /\ phase'[s] = "settled"
        /\ \A t \in Servers \ {s} : phase'[t] = phase[t] /\ step'[t] = step[t]
                                    /\ target'[t] = target[t]
    BY <2>3, CoreTypes DEF PublishEnd, Unlocked, Set
  <2> QED BY <1>3, <2>4, OverStep DEF Pending
<1>7. CASE Pump(s)
  <2>1. ~SaveProgress(s) /\ ~PumpStopped(s)
    BY <1>2 DEF SaveProgress, PumpStopped, Idle
  <2>2. ~FoldProgress(s) /\ ~FoldItem(s) /\ ~FoldFinished(s) /\ ~FoldError(s)
    <3>1. ~Folding(s)
      BY <1>2 DEF Folding, Pending
    <3> QED BY <3>1 DEF FoldProgress, FoldItem, FoldFinished, FoldError
  <2>3. ~Publish(s) /\ ~SummaryPiece(s) /\ ~SummaryEnd(s)
    <3>1. step[s] \notin {"publish", "summary"}
      BY <1>2, PendingHolds
    <3> QED BY <3>1 DEF Publish, SummaryPiece, SummaryEnd
  <2>4. PumpRelease(s) \/ Unregister(s)
    BY <1>7, <2>1, <2>2, <2>3 DEF Pump
  <2>5. UNCHANGED <<status, phase, step, target, verdict>> /\ task' \in {task, "none"}
    BY <2>4 DEF PumpRelease, Unregister
  <2> QED BY <1>3, <2>5, OverStep
<1>8. CASE Admission(s)
  <2>1. DropAbandoned(s)
    BY <1>1, <1>3, <1>8 DEF Admission, AdmitLease, AdmitJournal, AdmitRecord, Register
  <2>2. UNCHANGED <<status, phase, step, target>> /\ task' = "none"
    BY <2>1 DEF DropAbandoned, EndTask
  <2> QED BY <2>2, OverStep
<1>9. CASE Recovery(s)
  <2>1. SealJournal(s)
    BY <1>3, <1>9 DEF Recovery, ResumeBoundary, ResumeSubmit, SettleUnowned
  <2>2. UNCHANGED <<status, phase, step, target>> /\ task' = "none"
    BY <2>1 DEF SealJournal, EndTask, TaskFrame
  <2> QED BY <2>2, OverStep
<1>10. CASE Handler(s)
  <2>1. ASSUME NEW handler, NEW end, LockToSettle(s, handler, end)
        PROVE  Over(e)'
    <3>1. UNCHANGED <<status, phase, step, target, task, verdict>>
      BY <1>2, <2>1 DEF LockToSettle
    <3> QED BY <1>3, <3>1, OverStep
  <2>2. CASE LockToDelete(s)
    <3>1. /\ UNCHANGED <<phase, target, task, verdict>> /\ status' \in {status, "gone"}
          /\ step[s] = "free" /\ \A t \in Servers \ {s} : step'[t] = step[t]
      BY <2>2, CoreTypes DEF LockToDelete, Set
    <3> QED BY <1>2, <1>3, <3>1, OverStep
  <2>3. CASE DeleteJob(s)
    <3>1. /\ UNCHANGED <<status, task, verdict>> /\ phase'[s] = "deleted"
          /\ \A t \in Servers \ {s} : phase'[t] = phase[t] /\ step'[t] = step[t]
                                      /\ target'[t] = target[t]
      BY <2>3, CoreTypes DEF DeleteJob, Unlocked, Set
    <3> QED BY <1>3, <3>1, OverStep DEF Pending
  <2> QED BY <1>10, <2>1, <2>2, <2>3 DEF Handler
<1>11. CASE Request(s)
  <2>1. ~Post(s) /\ ~CancelUnowned(s) /\ ~DeletePending(s) /\ ~Get(s) /\ ~StreamGet(s)
    BY <1>1 DEF Post, CancelUnowned, DeletePending, Get, TakeResume, Resumable, StreamGet
  <2>2. /\ UNCHANGED <<phase, step, target, task, verdict>> /\ status' \in {status, "gone"}
    BY <1>11, <2>1 DEF Request, AskCancel, AskDelete, AskFrame, DeleteSettled, Prune,
       RemoveOrphan, RequestFrame
  <2> QED BY <1>3, <2>2, OverStep
<1>12. CASE EngineClose(s) \/ MarkTools(s) \/ RunTool(s)
  <2>1. UNCHANGED <<status, phase, step, target, task, verdict>>
    BY <1>12 DEF EngineClose, MarkTools, RunTool, EngineFrame
  <2> QED BY <1>3, <2>1, OverStep
<1>13. CASE Deletion(s) \/ UnlinkSettled(s) \/ Subscribe(s)
  <2>1. /\ UNCHANGED <<phase, step, target>> /\ status' \in {status, "gone"}
        /\ task' \in {"none", "unlink"} \/ UNCHANGED <<task, verdict>>
    BY <1>1, <1>13 DEF Deletion, RemovePending, UnlinkPending, UnlinkSettled, Subscribe,
       EndTask, TaskFrame, RequestFrame
  <2> QED BY <1>3, <2>1, OverStep
<1>14. CASE Boot(s)
  <2>1. ~TakeResume(s) /\ ~Unresumable
    BY <1>1 DEF TakeResume, Resumable, Unresumable
  <2>2. UNCHANGED <<status, phase, step, target, task, verdict>>
    BY <1>14, <2>1 DEF Boot, Start, Sweep, RemoveOrphan, StartupResume, Retry, BootFrame
  <2> QED BY <1>3, <2>2, OverStep
<1>15. CASE Close(s)
  <2>1. UNCHANGED <<status, phase, step, target, task, verdict>>
    BY <1>15 DEF Close, AskFrame
  <2> QED BY <1>3, <2>1, OverStep
<1>16. CASE Exit(s) \/ Crash(s)
  <2>1. /\ Reset(s) /\ status' \in {status, "gone"}
        /\ task' = "none" \/ UNCHANGED <<task, verdict>>
    BY <1>16 DEF Exit, Crash, EndTask
  <2>2. /\ phase'[s] = "none"
        /\ \A t \in Servers \ {s} : phase'[t] = phase[t] /\ step'[t] = step[t]
                                    /\ target'[t] = target[t]
    BY <2>1, CoreTypes DEF Reset, Set
  <2> QED BY <1>3, <2>1, <2>2, OverStep DEF Pending
<1> QED BY <1>5, <1>6, <1>7, <1>8, <1>9, <1>10, <1>11, <1>12, <1>13, <1>14, <1>15, <1>16
        DEF ServerStep

(* What a journal is, or grows by: lines that end nothing, or the end of a *)
(* response that is over.                                                  *)
Grown(lines) ==
  \/ lines = journal
  \/ /\ Open
     /\ \E b \in Seq(AnyLine) : \E n \in 0..Len(b) :
          /\ lines = journal \o SubSeq(b, 1, n)
          /\ b \in Seq(OpenLine) \/ \E e \in Ends : b = TerminalEvents(e) /\ Over(e)

LEMMA GrownOpen ==
  ASSUME Open, NEW b \in Seq(OpenLine), Prefixed(b)
  PROVE  Grown(journal')
<1>1. b \in Seq(AnyLine)
  BY DEF AnyLine
<1> QED BY <1>1 DEF Grown, Prefixed

LEMMA GrownEnd ==
  ASSUME Open, NEW e, Over(e), Prefixed(TerminalEvents(e))
  PROVE  Grown(journal')
<1>1. e \in Ends /\ TerminalEvents(e) \in Seq(AnyLine)
  BY TerminalType DEF Over
<1> QED BY <1>1 DEF Grown, Prefixed

LEMMA GrownWell ==
  ASSUME EndInv, EndsWell(journal), NEW lines, Grown(lines)
  PROVE  /\ lines \in Seq(AnyLine) /\ EndsWell(lines) /\ Len(journal) <= Len(lines)
         /\ \A n \in 1..Len(journal) : lines[n] = journal[n]
<1>1. journal \in Seq(AnyLine) /\ Len(journal) \in Nat
  BY ReadTypes
<1>2. CASE lines = journal
  BY <1>1, <1>2
<1>3. ASSUME Open, NEW b \in Seq(AnyLine), NEW n \in 0..Len(b),
             lines = journal \o SubSeq(b, 1, n),
             b \in Seq(OpenLine) \/ \E e \in Ends : b = TerminalEvents(e) /\ Over(e)
      PROVE  /\ lines \in Seq(AnyLine) /\ EndsWell(lines) /\ Len(journal) <= Len(lines)
             /\ \A k \in 1..Len(journal) : lines[k] = journal[k]
  <2>1. /\ lines \in Seq(AnyLine) /\ Len(lines) = Len(journal) + n
        /\ \A k \in 1..Len(journal) + n :
             lines[k] = IF k <= Len(journal) THEN journal[k] ELSE b[k - Len(journal)]
    BY <1>1, <1>3, AppendedPrefix
  <2>2. Len(b) \in Nat /\ n \in Nat /\ n <= Len(b)
    BY <1>3
  <2>3. \A m \in 1..Len(b) : b[m].kind = "final" => m = Len(b) /\ Over(b[m].end)
    <3>1. CASE b \in Seq(OpenLine)
      <4> SUFFICES ASSUME NEW m \in 1..Len(b) PROVE b[m].kind # "final"
        OBVIOUS
      <4>1. b[m] \in OpenLine
        BY <3>1
      <4> QED BY <4>1 DEF OpenLine
    <3>2. CASE \E e \in Ends : b = TerminalEvents(e) /\ Over(e)
      BY <3>2, TerminalType
    <3> QED BY <1>3, <3>1, <3>2
  <2>4. EndsWell(lines)
    <3> SUFFICES ASSUME NEW k \in 1..Len(lines), lines[k].kind = "final"
                 PROVE  k = Len(lines) /\ Over(lines[k].end)
      BY DEF EndsWell
    <3>1. k \in 1..Len(journal) + n
      BY <2>1
    <3>2. ~(k <= Len(journal))
      <4> SUFFICES ASSUME k <= Len(journal) PROVE FALSE
        OBVIOUS
      <4>1. k \in 1..Len(journal)
        BY <1>1, <3>1
      <4> QED BY <1>3, <2>1, <3>1, <4>1 DEF Open
    <3>3. k - Len(journal) \in 1..Len(b) /\ lines[k] = b[k - Len(journal)]
      BY <1>1, <2>1, <2>2, <3>1, <3>2
    <3>4. k - Len(journal) = Len(b) /\ Over(lines[k].end)
      BY <2>3, <3>3
    <3> QED BY <1>1, <2>1, <2>2, <3>1, <3>4
  <2> QED BY <1>1, <2>1, <2>2, <2>4
<1> QED BY <1>2, <1>3 DEF Grown

(* What server s is about to append to the journal.                        *)
LEMMA InFlightGrown ==
  ASSUME EndInv, NEW s \in Servers, NEW b \in InFlight(s), NEW n \in 0..Len(b)
  PROVE  Grown(journal \o SubSeq(b, 1, n))
<1>1. journal \in Seq(AnyLine)
  BY ReadTypes
<1>2. b \in Seq(AnyLine)
      /\ \/ b \in Seq(OpenLine)
         \/ lease = s /\ task = "seal" /\ b = TerminalEvents(verdict)
         \/ step[s] = "end" /\ b = TerminalEvents(target[s])
  BY InFlightType
<1>3. CASE b = <<>>
  <2>1. journal \o SubSeq(b, 1, n) = journal
    BY <1>1, <1>3
  <2> QED BY <2>1 DEF Grown
<1>4. CASE b # <<>>
  <2>1. Open
    <3>1. CASE task \in {"journal", "boundary", "seal"}
      BY <3>1 DEF EndInv, TaskIsOpen
    <3>2. CASE task \notin {"journal", "boundary", "seal"}
      <4>1. step[s] \in {"publish", "flush", "summary", "end"}
        BY <1>4, <3>2 DEF InFlight
      <4> QED BY <4>1, PendingHolds
    <3> QED BY <3>1, <3>2
  <2>2. CASE b \in Seq(OpenLine)
    BY <1>2, <2>1, <2>2 DEF Grown
  <2>3. CASE task = "seal" /\ b = TerminalEvents(verdict)
    <3>1. Over(verdict) /\ verdict \in Ends
      BY <2>3, SealOver DEF Over
    <3> QED BY <1>2, <2>1, <2>3, <3>1 DEF Grown
  <2>4. CASE step[s] = "end" /\ b = TerminalEvents(target[s])
    <3>1. Over(target[s]) /\ target[s] \in Ends
      BY <2>4, PublishOver DEF Over
    <3> QED BY <1>2, <2>1, <2>4, <3>1 DEF Grown
  <2> QED BY <1>2, <2>2, <2>3, <2>4
<1> QED BY <1>3, <1>4

(* A journal only grows, in every step of every server.                    *)
LEMMA JournalGrows ==
  ASSUME EndInv, ReadInv, [Next]_vars
  PROVE  Grown(journal')
<1> USE DEF files
<1>0. TypeOK
  BY DEF EndInv
<1>1. UNCHANGED journal => Grown(journal')
  BY DEF Grown
<1>2. CASE UNCHANGED vars
  BY <1>1, <1>2 DEF vars
<1>3. SUFFICES ASSUME NEW s \in Servers,
                      \/ ServerStep(s) \/ MarkTools(s) \/ RunTool(s) \/ Request(s)
                      \/ Close(s) \/ Crash(s)
               PROVE  Grown(journal')
  BY <1>2 DEF Next
<1>4. ASSUME step[s] \notin {"free", "delete"}, NEW b \in Seq(OpenLine),
             Written(s, b, FALSE) \/ NotWritten(s, b, FALSE)
      PROVE  Grown(journal')
  <2>1. Open
    BY <1>4, PendingHolds
  <2>2. b \in Seq(AnyLine)
    BY DEF AnyLine
  <2>3. Prefixed(b)
    BY <1>0, <1>4, <2>2, WriteType
  <2> QED BY <2>1, <2>3, GrownOpen
<1>5. CASE Settling(s)
  <2>1. CASE Flush(s)
    <3>1. step[s] = "flush" /\ (Written(s, doc[s].buf, FALSE) \/ NotWritten(s, doc[s].buf, FALSE))
      BY <2>1 DEF Flush
    <3> QED BY <1>4, <3>1, JobFacts
  <2>2. CASE PublishEnd(s)
    <3> DEFINE b == TerminalEvents(target[s])
    <3>1. step[s] = "end" /\ (Written(s, b, TRUE) \/ NotWritten(s, b, TRUE))
      BY <2>2 DEF PublishEnd
    <3>2. Over(target[s]) /\ Open /\ target[s] \in Ends
      BY <3>1, PublishOver DEF Over
    <3>3. b \in Seq(AnyLine)
      BY <3>2, TerminalType
    <3> HIDE DEF b
    <3>4. Prefixed(b)
      BY <1>0, <3>1, <3>3, WriteType
    <3> QED BY <3>2, <3>4, GrownEnd DEF b
  <2>3. CASE SaveEnd(s) \/ ResaveEnd(s) \/ RemoveUnstored(s) \/ UnlinkUnstored(s)
    BY <1>1, <2>3 DEF SaveEnd, ResaveEnd, RemoveUnstored, UnlinkUnstored
  <2> QED BY <1>5, <2>1, <2>2, <2>3 DEF Settling
<1>6. CASE Pump(s)
  <2>1. CASE Publish(s)
    <3>1. step[s] = "publish" /\ (Written(s, doc[s].buf, FALSE) \/ NotWritten(s, doc[s].buf, FALSE))
      BY <2>1 DEF Publish
    <3> QED BY <1>4, <3>1, JobFacts
  <2>2. CASE SummaryPiece(s)
    <3> DEFINE b == Emit(doc[s], <<Piece(doc[s].waiting)>>).buf
    <3>1. step[s] = "summary" /\ (Written(s, b, FALSE) \/ NotWritten(s, b, FALSE))
      BY <2>2 DEF SummaryPiece
    <3>2. b \in Seq(OpenLine)
      BY PieceOpen
    <3> HIDE DEF b
    <3> QED BY <1>4, <3>1, <3>2
  <2>3. CASE ~Publish(s) /\ ~SummaryPiece(s)
    BY <1>1, <1>6, <2>3 DEF Pump, SaveProgress, FoldProgress, FoldItem, FoldFinished,
       FoldError, FoldFrame, SummaryEnd, PumpStopped, PumpRelease, Unregister
  <2> QED BY <2>1, <2>2, <2>3
<1>7. CASE Admission(s)
  <2>1. CASE AdmitJournal(s) /\ ~UNCHANGED journal
    <3> DEFINE b == <<Created, Queued>>
    <3>1. task = "journal" /\ journal' = b /\ journal = <<>>
      BY <2>1 DEF AdmitJournal, ReadInv, Unborn
    <3>2. b \in Seq(OpenLine) /\ b \in Seq(AnyLine)
      BY LineTypes DEF AnyLine
    <3> HIDE DEF b
    <3>3. journal' = journal \o b
      BY <3>1, <3>2
    <3>4. Open /\ Prefixed(b)
      BY <3>1, <3>2, <3>3, PrefixOfAll, ReadTypes DEF EndInv, TaskIsOpen
    <3> QED BY <3>2, <3>4, GrownOpen
  <2>2. CASE ~AdmitJournal(s)
    BY <1>1, <1>7, <2>2 DEF Admission, AdmitLease, AdmitRecord, Register, DropAbandoned
  <2> QED BY <1>1, <2>1, <2>2
<1>8. CASE Recovery(s)
  <2>1. CASE ResumeBoundary(s)
    <3>1. PICK b \in Boundaries : Continued(b) \/ NotContinued(b)
      BY <2>1 DEF ResumeBoundary
    <3>2. b \in Seq(OpenLine) /\ b \in Seq(AnyLine)
      BY BoundaryType, ReadTypes DEF AnyLine
    <3>3. Open
      BY <2>1 DEF ResumeBoundary, EndInv, TaskIsOpen
    <3>4. Prefixed(b)
      BY <1>0, <3>1, <3>2, ContinueType
    <3> QED BY <3>2, <3>3, <3>4, GrownOpen
  <2>2. CASE SealJournal(s)
    <3> DEFINE b == TerminalEvents(verdict)
    <3>1. task = "seal" /\ Over(verdict) /\ Open /\ verdict \in Ends
      BY <2>2, SealOver DEF SealJournal, Over
    <3>2. ~Ended(journal)
      BY <1>0, <3>1, OpenIsNotEnded
    <3>3. Continued(b) \/ NotContinued(b) \/ UNCHANGED journal
      BY <2>2, <3>2 DEF SealJournal
    <3>4. b \in Seq(AnyLine)
      BY <3>1, TerminalType
    <3> HIDE DEF b
    <3>5. CASE Continued(b) \/ NotContinued(b)
      <4>1. Prefixed(b)
        BY <1>0, <3>4, <3>5, ContinueType
      <4> QED BY <3>1, <4>1, GrownEnd DEF b
    <3> QED BY <1>1, <3>3, <3>5
  <2>3. CASE ResumeSubmit(s) \/ SettleUnowned(s)
    BY <1>1, <2>3 DEF ResumeSubmit, SettleUnowned
  <2> QED BY <1>8, <2>1, <2>2, <2>3 DEF Recovery
<1>9. CASE Crash(s)
  <2>1. \/ UNCHANGED journal
        \/ \E b \in InFlight(s) : \E n \in 0..Len(b) : journal' = journal \o SubSeq(b, 1, n)
    BY <1>9 DEF Crash, Cut
  <2> QED BY <1>1, <2>1, InFlightGrown
<1>10. CASE Handler(s) \/ Deletion(s) \/ UnlinkSettled(s) \/ Subscribe(s)
  BY <1>1, <1>10 DEF Handler, LockToSettle, LockToDelete, DeleteJob, Deletion,
     RemovePending, UnlinkPending, UnlinkSettled, Subscribe
<1>11. CASE Request(s)
  BY <1>1, <1>11 DEF Request, Post, AskCancel, AskDelete, AskFrame, CancelUnowned,
     DeletePending, DeleteSettled, Get, StreamGet, Prune, RemoveOrphan
<1>12. CASE Boot(s)
  BY <1>1, <1>12 DEF Boot, Start, Sweep, RemoveOrphan, StartupResume, Retry
<1>13. CASE EngineClose(s) \/ MarkTools(s) \/ RunTool(s) \/ Close(s) \/ Exit(s)
  BY <1>1, <1>13 DEF EngineClose, MarkTools, RunTool, Close, AskFrame, Exit
<1> QED BY <1>3, <1>5, <1>6, <1>7, <1>8, <1>9, <1>10, <1>11, <1>12, <1>13 DEF ServerStep

LEMMA PublishedSettles ==
  ASSUME EndInv, NEW s \in Servers, NEW n \in Nat
  PROVE  Published(s, n, TRUE)[s].settled
<1> DEFINE p == pub[s]
           q == [p EXCEPT !.lines = @ + n, !.settled = @ \/ TRUE]
<1>1. p \in PubType /\ pub \in [Servers -> PubType]
  BY ReadTypes
<1>2. q.settled
  BY <1>1 DEF PubType
<1>3. Published(s, n, TRUE) = [pub EXCEPT ![s] = q]
  BY DEF Published, Set
<1> HIDE DEF q
<1> QED BY <1>1, <1>2, <1>3

LEMMA WriteSettles ==
  ASSUME EndInv, NEW s \in Servers, NEW b \in Seq(AnyLine),
         Written(s, b, TRUE) \/ NotWritten(s, b, TRUE)
  PROVE  /\ pub'[s].settled
         /\ \A t \in Servers \ {s} : pub'[t] = pub[t]
<1>1. Len(b) \in Nat /\ pub \in [Servers -> PubType]
  BY ReadTypes
<1>2. CASE Torn(s, b, TRUE)
  <2> DEFINE q == Published(s, 0, TRUE)
  <2>1. q \in [Servers -> PubType] /\ q[s].settled
    BY PublishedLines, PublishedSettles
  <2>2. pub' = [pub EXCEPT ![s] = [q[s] EXCEPT !.torn = TRUE]]
    BY <1>2 DEF Torn, Set
  <2> HIDE DEF q
  <2>3. [q[s] EXCEPT !.torn = TRUE].settled
    BY <2>1 DEF PubType
  <2> QED BY <1>1, <2>2, <2>3
<1>3. CASE ~Torn(s, b, TRUE)
  <2>1. PICK n \in {0, Len(b)} : pub' = Published(s, n, TRUE)
    BY <1>3 DEF Written, NotWritten, Refused, RolledBack
  <2>2. n \in Nat
    BY <1>1
  <2> QED BY <2>1, <2>2, PublishedLines, PublishedSettles
<1> QED BY <1>2, <1>3

LEMMA WriteStaysOpen ==
  ASSUME EndInv, NEW s \in Servers, step[s] \notin {"free", "delete"},
         NEW b \in Seq(OpenLine), Written(s, b, FALSE) \/ NotWritten(s, b, FALSE)
  PROVE  Open'
<1>1. Open /\ TypeOK
  BY PendingHolds DEF EndInv
<1>2. b \in Seq(AnyLine)
  BY DEF AnyLine
<1>3. Prefixed(b)
  BY <1>1, <1>2, WriteType
<1> QED BY <1>1, <1>3, OpenKept

(* What a step may do to what the server t has published.                  *)
PubKept(t) == \/ pub'[t] = pub[t]
              \/ pub'[t].lines = pub[t].lines /\ (pub[t].settled => pub'[t].settled)
              \/ pub'[t].lines = 0
              \/ pub'[t].settled
              \/ Open'

LEMMA PublishedKept ==
  ASSUME EndInv, ReadInv, [Next]_vars, NEW t \in Servers
  PROVE  PubKept(t)
<1> USE DEF job
<1>1. pub \in [Servers -> PubType]
  BY ReadTypes
<1>2. CASE UNCHANGED vars
  BY <1>2 DEF vars, PubKept
<1>3. SUFFICES ASSUME NEW s \in Servers,
                      \/ ServerStep(s) \/ MarkTools(s) \/ RunTool(s) \/ Request(s)
                      \/ Close(s) \/ Crash(s)
               PROVE  PubKept(t)
  BY <1>2 DEF Next
<1>4. ASSUME pub' = Published(s, 0, TRUE) PROVE PubKept(t)
  <2>1. pub'[s].settled /\ \A u \in Servers \ {s} : pub'[u] = pub[u]
    BY <1>4, PublishedLines, PublishedSettles
  <2> QED BY <2>1 DEF PubKept
<1>5. CASE Settling(s)
  <2>1. CASE Flush(s)
    <3>1. /\ step[s] = "flush"
          /\ Written(s, doc[s].buf, FALSE) \/ NotWritten(s, doc[s].buf, FALSE)
      BY <2>1 DEF Flush
    <3> QED BY <3>1, JobFacts, WriteStaysOpen DEF PubKept
  <2>2. CASE PublishEnd(s)
    <3> DEFINE b == TerminalEvents(target[s])
    <3>1. step[s] = "end" /\ (Written(s, b, TRUE) \/ NotWritten(s, b, TRUE))
      BY <2>2 DEF PublishEnd
    <3>2. target[s] \in Ends
      BY <3>1, PublishOver DEF Over
    <3>3. b \in Seq(AnyLine)
      BY <3>2, TerminalType
    <3> HIDE DEF b
    <3>4. pub'[s].settled /\ \A u \in Servers \ {s} : pub'[u] = pub[u]
      BY <3>1, <3>3, WriteSettles
    <3> QED BY <3>4 DEF PubKept
  <2>3. CASE SaveEnd(s) \/ ResaveEnd(s) \/ RemoveUnstored(s) \/ UnlinkUnstored(s)
    <3>1. UNCHANGED pub \/ pub' = Published(s, 0, TRUE)
      BY <2>3 DEF SaveEnd, ResaveEnd, RemoveUnstored, UnlinkUnstored
    <3> QED BY <1>4, <3>1 DEF PubKept
  <2> QED BY <1>5, <2>1, <2>2, <2>3 DEF Settling
<1>6. CASE Pump(s)
  <2>1. CASE Publish(s)
    <3>1. /\ step[s] = "publish"
          /\ Written(s, doc[s].buf, FALSE) \/ NotWritten(s, doc[s].buf, FALSE)
      BY <2>1 DEF Publish
    <3> QED BY <3>1, JobFacts, WriteStaysOpen DEF PubKept
  <2>2. CASE SummaryPiece(s)
    <3> DEFINE b == Emit(doc[s], <<Piece(doc[s].waiting)>>).buf
    <3>1. step[s] = "summary" /\ (Written(s, b, FALSE) \/ NotWritten(s, b, FALSE))
      BY <2>2 DEF SummaryPiece
    <3>2. b \in Seq(OpenLine)
      BY PieceOpen
    <3> HIDE DEF b
    <3> QED BY <3>1, <3>2, WriteStaysOpen DEF PubKept
  <2>3. CASE ~Publish(s) /\ ~SummaryPiece(s)
    <3>1. UNCHANGED pub
      BY <1>6, <2>3 DEF Pump, SaveProgress, FoldProgress, FoldItem, FoldFinished,
         FoldError, FoldFrame, SummaryEnd, PumpStopped, PumpRelease, Unregister
    <3> QED BY <3>1 DEF PubKept
  <2> QED BY <2>1, <2>2, <2>3
<1>7. CASE Admission(s)
  <2>1. CASE Register(s)
    <3>1. Open /\ UNCHANGED journal
      BY <2>1 DEF Register, files, EndInv, TaskIsOpen
    <3>2. Open'
      BY <3>1 DEF Open
    <3> QED BY <3>2 DEF PubKept
  <2>2. CASE ~Register(s)
    <3>1. UNCHANGED pub
      BY <1>7, <2>2 DEF Admission, AdmitLease, AdmitJournal, AdmitRecord, DropAbandoned
    <3> QED BY <3>1 DEF PubKept
  <2> QED BY <2>1, <2>2
<1>8. CASE Handler(s)
  <2>1. CASE DeleteJob(s)
    <3> DEFINE q == [pub[s] EXCEPT !.deleted = TRUE]
    <3>1. q.lines = pub[s].lines /\ q.settled = pub[s].settled
      BY <1>1 DEF PubType
    <3>2. pub' = [pub EXCEPT ![s] = q]
      BY <2>1 DEF DeleteJob, Set
    <3> HIDE DEF q
    <3>3. /\ pub'[s].lines = pub[s].lines /\ pub'[s].settled = pub[s].settled
          /\ \A u \in Servers \ {s} : pub'[u] = pub[u]
      BY <1>1, <3>1, <3>2
    <3> QED BY <3>3 DEF PubKept
  <2>2. CASE ~DeleteJob(s)
    <3>1. UNCHANGED pub
      BY <1>8, <2>2 DEF Handler, LockToSettle, LockToDelete
    <3> QED BY <3>1 DEF PubKept
  <2> QED BY <2>1, <2>2
<1>9. CASE Exit(s) \/ Crash(s)
  <2>1. Reset(s)
    BY <1>9 DEF Exit, Crash
  <2>2. pub' = [pub EXCEPT ![s] = NoPub] /\ NoPub.lines = 0
    BY <2>1 DEF Reset, Set, NoPub
  <2>3. pub'[t] = pub[t] \/ pub'[t].lines = 0
    BY <1>1, <2>2
  <2> QED BY <2>3 DEF PubKept
<1>10. CASE \/ Recovery(s) \/ Deletion(s) \/ UnlinkSettled(s) \/ Subscribe(s)
            \/ Boot(s) \/ EngineClose(s) \/ MarkTools(s) \/ RunTool(s) \/ Close(s)
  <2>1. UNCHANGED pub
    BY <1>10 DEF Recovery, ResumeBoundary, ResumeSubmit, SettleUnowned, SealJournal,
       TaskFrame, Deletion, RemovePending, UnlinkPending, UnlinkSettled, Subscribe,
       RequestFrame, Boot, Start, Sweep, StartupResume, Retry, BootFrame, EngineClose,
       MarkTools, RunTool, EngineFrame, Close, AskFrame
  <2> QED BY <2>1 DEF PubKept
<1>11. CASE Request(s)
  <2>1. UNCHANGED pub
    BY <1>11 DEF Request, Post, AskCancel, AskDelete, AskFrame, CancelUnowned, RequestFrame,
       DeletePending, DeleteSettled, Get, TaskFrame, StreamGet, Prune
  <2> QED BY <2>1 DEF PubKept
<1> QED BY <1>3, <1>5, <1>6, <1>7, <1>8, <1>9, <1>10, <1>11 DEF ServerStep

(* Lines stay, so what was published before a step stays unended after it. *)
LEMMA UnendedKept ==
  ASSUME EndInv, EndsWell(journal), Grown(journal'), NEW p \in PubType, Unended(p)
  PROVE  /\ p.lines <= Len(journal')
         /\ p.settled \/ \A n \in 1..p.lines : journal'[n].kind # "final"
<1>1. Len(journal) \in Nat /\ p.lines \in Nat
  BY ReadTypes DEF PubType
<1>2. /\ Len(journal) <= Len(journal') /\ journal' \in Seq(AnyLine)
      /\ \A n \in 1..Len(journal) : journal'[n] = journal[n]
  BY GrownWell
<1>3. p.lines <= Len(journal) /\ Len(journal') \in Nat
  BY <1>2 DEF Unended
<1>4. p.lines <= Len(journal')
  BY <1>1, <1>2, <1>3
<1>5. ASSUME ~p.settled, NEW n \in 1..p.lines PROVE journal'[n].kind # "final"
  <2>1. n \in 1..Len(journal)
    BY <1>1, <1>3
  <2> QED BY <1>2, <1>5, <2>1 DEF Unended
<1> QED BY <1>4, <1>5

LEMMA WellKept ==
  ASSUME EndInv, [Next]_vars, NEW lines, EndsWell(lines), NEW n \in 1..Len(lines),
         lines[n].kind = "final"
  PROVE  n = Len(lines) /\ Over(lines[n].end)'
<1> DEFINE e == lines[n].end
<1>1. n = Len(lines) /\ Over(e)
  BY DEF EndsWell
<1> HIDE DEF e
<1>2. Over(e)'
  BY <1>1, OverKept
<1> QED BY <1>1, <1>2 DEF e

LEMMA SendStep ==
  ASSUME EndInv, ReadInv, SendInv, [Next]_vars
  PROVE  SendInv'
<1>1. EndInv' /\ ReadInv'
  BY EndInvStep, ReadInvStep
<1>2. Grown(journal') /\ EndsWell(journal)
  BY JournalGrows DEF SendInv
<1>3. EndsWell(journal)'
  <2> SUFFICES ASSUME NEW n \in 1..Len(journal'), journal'[n].kind = "final"
               PROVE  n = Len(journal') /\ Over(journal[n].end)'
    BY DEF EndsWell
  <2>1. EndsWell(journal')
    BY <1>2, GrownWell
  <2>2. n = Len(journal') /\ Over(journal'[n].end)
    BY <2>1 DEF EndsWell
  <2>3. PICK e : e = journal'[n].end
    OBVIOUS
  <2>4. Over(e)'
    BY <2>2, <2>3, OverKept
  <2> QED BY <2>2, <2>3, <2>4
<1>4. ASSUME NEW t \in Servers PROVE Unended(pub[t])'
  <2>1. pub'[t].lines <= Len(journal') /\ Len(journal') \in Nat /\ journal' \in Seq(AnyLine)
    <3>1. EndInv' => Len(journal') \in Nat /\ journal' \in Seq(AnyLine)
      BY DEF EndInv, TypeOK, FilesOK, AnyLine
    <3> QED BY <1>1, <3>1 DEF ReadInv, PublishedIsReadable
  <2>2. PubKept(t)
    BY PublishedKept
  <2>3. pub[t] \in PubType /\ Unended(pub[t])
    BY ReadTypes DEF SendInv
  <2>4. pub[t].settled \/ \A n \in 1..pub[t].lines : journal'[n].kind # "final"
    BY <1>2, <2>3, UnendedKept
  <2>5. CASE Open'
    <3>1. pub'[t].lines \in Nat
      <4>1. EndInv' => pub'[t] \in PubType
        BY DEF EndInv, TypeOK, JobOK, PubType
      <4> QED BY <1>1, <4>1 DEF PubType
    <3>2. \A n \in 1..pub'[t].lines : n \in 1..Len(journal')
      BY <2>1, <3>1
    <3> QED BY <2>1, <2>5, <3>2 DEF Unended, Open
  <2>6. CASE pub'[t].lines = 0 \/ pub'[t].settled
    BY <2>1, <2>6 DEF Unended
  <2>7. CASE \/ pub'[t] = pub[t]
             \/ pub'[t].lines = pub[t].lines /\ (pub[t].settled => pub'[t].settled)
    BY <2>1, <2>4, <2>7 DEF Unended
  <2> QED BY <2>2, <2>5, <2>6, <2>7 DEF PubKept
<1> QED BY <1>3, <1>4 DEF SendInv

(* r is what a client that has received a has after it is sent the first n *)
(* of the lines that follow the first `from' of the stream.                *)
Delivered(a, from, lines, n, r) ==
  /\ a \in Seq(AnyLine) /\ lines \in Seq(AnyLine) /\ n \in 0..Len(lines)
  /\ from \in Nat /\ from <= Len(a)
  /\ r = a \o SubSeq(lines, Len(a) - from + 1, n)

LEMMA Receives ==
  ASSUME NEW a, NEW lines, NEW from, NEW n, NEW r, Delivered(a, from, lines, n, r)
  PROVE  /\ r \in Seq(AnyLine) /\ Len(r) \in Nat
         /\ Len(a) <= Len(r) /\ from + n <= Len(r)
         /\ Len(r) = Len(a) \/ Len(r) = from + n
         /\ \A k \in 1..Len(r) :
              \/ k \in 1..Len(a) /\ r[k] = a[k]
              \/ k > Len(a) /\ k - from \in 1..n /\ r[k] = lines[k - from]
<1> DEFINE m == Len(a) - from + 1
           t == SubSeq(lines, m, n)
<1>0. /\ a \in Seq(AnyLine) /\ lines \in Seq(AnyLine) /\ n \in 0..Len(lines)
      /\ from \in Nat /\ from <= Len(a)
  BY DEF Delivered
<1>1. m \in Nat /\ m >= 1 /\ n \in Nat /\ Len(a) \in Nat /\ Len(lines) \in Nat
  BY <1>0
<1>2. /\ t \in Seq(AnyLine) /\ Len(t) = IF m <= n THEN n - m + 1 ELSE 0
      /\ \A i \in 1..Len(t) : t[i] = lines[m + i - 1]
  BY <1>0, <1>1, SubSeqProperties
<1>3. r = a \o t
  BY DEF Delivered
<1> HIDE DEF t
<1> HIDE DEF m
<1>4. r \in Seq(AnyLine) /\ Len(r) = Len(a) + Len(t)
  <2>1. t \in Seq(AnyLine)
    BY <1>2
  <2>2. (a \o t) \in Seq(AnyLine) /\ Len(a \o t) = Len(a) + Len(t)
    BY <1>0, <2>1
  <2> QED BY <1>3, <2>2
<1>5. Len(t) \in Nat
  BY <1>2
<1>6. ASSUME NEW k \in 1..Len(r)
      PROVE  \/ k \in 1..Len(a) /\ r[k] = a[k]
             \/ k > Len(a) /\ k - from \in 1..n /\ r[k] = lines[k - from]
  <2>0. k \in Int /\ 1 <= k /\ k <= Len(a) + Len(t)
    BY <1>4, <1>5
  <2>1. CASE k <= Len(a)
    <3>1. k \in 1..Len(a)
      BY <1>1, <2>0, <2>1
    <3>2. (a \o t)[k] = a[k]
      BY <1>0, <1>2, <3>1
    <3> QED BY <1>3, <3>1, <3>2
  <2>2. CASE ~(k <= Len(a))
    <3>1. k - Len(a) \in 1..Len(t)
      BY <1>1, <1>5, <2>0, <2>2
    <3>2. (a \o t)[k] = t[k - Len(a)]
      BY <1>0, <1>1, <1>2, <1>5, <2>0, <2>2
    <3>3. t[k - Len(a)] = lines[m + (k - Len(a)) - 1]
      BY <1>2, <3>1
    <3>4. m + (k - Len(a)) - 1 = k - from /\ k > Len(a)
      BY <1>0, <1>1, <2>0, <2>2 DEF m
    <3>5. k - from \in 1..n
      <4>1. CASE m <= n
        BY <1>0, <1>1, <1>2, <2>0, <2>2, <3>1, <4>1 DEF m
      <4>2. CASE ~(m <= n)
        BY <1>2, <3>1, <4>2
      <4> QED BY <4>1, <4>2
    <3> QED BY <1>3, <3>2, <3>3, <3>4, <3>5
  <2> QED BY <2>1, <2>2
<1>7. /\ Len(a) <= Len(r) /\ from + n <= Len(r)
      /\ Len(r) = Len(a) \/ Len(r) = from + n
  <2>1. CASE m <= n
    BY <1>0, <1>1, <1>2, <1>4, <2>1 DEF m
  <2>2. CASE ~(m <= n)
    BY <1>0, <1>1, <1>2, <1>4, <2>2 DEF m
  <2> QED BY <2>1, <2>2
<1> QED BY <1>1, <1>4, <1>5, <1>6, <1>7

(* A client that had seen no end has seen at most the one it was sent.     *)
LEMMA ReceivesWell ==
  ASSUME NEW a, NEW lines, NEW from, NEW n, NEW r, Delivered(a, from, lines, n, r),
         NoFinal(a), EndsWell(lines)
  PROVE  EndsWell(r) /\ (NoFinal(lines) => NoFinal(r))
<1>0. /\ Len(a) \in Nat /\ Len(lines) \in Nat /\ from \in Nat
      /\ n \in 0..Len(lines)
  BY DEF Delivered
<1>1. /\ r \in Seq(AnyLine) /\ Len(r) \in Nat
      /\ Len(r) = Len(a) \/ Len(r) = from + n
      /\ \A k \in 1..Len(r) :
           \/ k \in 1..Len(a) /\ r[k] = a[k]
           \/ k > Len(a) /\ k - from \in 1..n /\ r[k] = lines[k - from]
  BY Receives
<1>2. ASSUME NEW k \in 1..Len(r), r[k].kind = "final"
      PROVE  /\ k = Len(r) /\ k - from \in 1..Len(lines)
             /\ r[k] = lines[k - from] /\ Over(r[k].end)
  <2>1. k > Len(a) /\ k - from \in 1..n /\ r[k] = lines[k - from]
    BY <1>1, <1>2 DEF NoFinal
  <2>2. k - from \in 1..Len(lines)
    BY <1>0, <2>1
  <2>3. k - from = Len(lines) /\ Over(r[k].end)
    BY <1>2, <2>1, <2>2 DEF EndsWell
  <2>4. k = Len(r)
    <3>0. n \in Nat /\ n <= Len(lines) /\ k \in Int /\ k <= Len(r) /\ k - from <= n
      BY <1>0, <1>1, <2>1
    <3>1. n = Len(lines) /\ k \in Int /\ k <= Len(r) /\ k = from + n
      BY <1>0, <2>3, <3>0
    <3>2. Len(r) = from + n
      BY <1>0, <1>1, <2>1, <3>1
    <3> QED BY <3>1, <3>2
  <2> QED BY <2>1, <2>2, <2>3, <2>4
<1> QED BY <1>2 DEF EndsWell, NoFinal

(* A step of the client c alone.                                           *)
LEMMA ClientStep ==
  ASSUME SeenInv, UNCHANGED vars, NEW c \in Clients, NEW a \in Seq(AnyLine),
         NEW k \in SubType, seen' = [seen EXCEPT ![c] = a], conn' = [conn EXCEPT ![c] = k],
         EndsWell(a), k.mode # "off" => k.at \in Servers /\ NoFinal(a),
         k.mode = "derive" => k.read <= Len(a), k.mode = "late" => Unended(k.pub)
  PROVE  SeenInv'
<1>1. UNCHANGED <<status, phase, step, target, task, verdict, journal>>
  BY DEF vars, files, job, leasing
<1>2. seen' \in [Clients -> Seq(AnyLine)] /\ conn' \in [Clients -> SubType]
  BY DEF SeenInv
<1>3. \A e : Over(e)' <=> Over(e)
  BY <1>1 DEF Over
<1>4. ASSUME NEW d \in Clients PROVE ClientInv(d)'
  <2>1. CASE d = c
    <3>1. seen'[d] = a /\ conn'[d] = k
      BY <2>1 DEF SeenInv
    <3> QED BY <1>1, <1>3, <3>1 DEF ClientInv, EndsWell, NoFinal, Unended
  <2>2. CASE d # c
    <3>1. seen'[d] = seen[d] /\ conn'[d] = conn[d] /\ ClientInv(d)
      BY <2>2 DEF SeenInv
    <3> QED BY <1>1, <1>3, <3>1 DEF ClientInv, EndsWell, NoFinal, Unended
  <2> QED BY <2>1, <2>2
<1> QED BY <1>2, <1>4 DEF SeenInv

(* A subscriber is sent lines that end well.                               *)
LEMMA SentStep ==
  ASSUME SeenInv, UNCHANGED vars, NEW c \in Clients, conn[c].mode # "off",
         NEW lines \in Seq(AnyLine), EndsWell(lines), NEW from \in Nat,
         from <= Len(seen[c]), NEW n \in 0..Len(lines), NEW k \in SubType,
         seen' = Received(c, from, lines, n), conn' = [conn EXCEPT ![c] = k],
         k.mode # "off" => k.at \in Servers /\ NoFinal(lines),
         k.mode = "derive" => k.read <= from + n, k.mode = "late" => Unended(k.pub)
  PROVE  SeenInv'
<1> DEFINE a == seen[c]
           r == a \o SubSeq(lines, Len(a) - from + 1, n)
<1>1. a \in Seq(AnyLine) /\ NoFinal(a)
  BY DEF SeenInv, ClientInv
<1>2. seen' = [seen EXCEPT ![c] = r]
  BY DEF Received, SeenInv
<1> HIDE DEF r
<1>r. Delivered(a, from, lines, n, r)
  BY <1>1 DEF r, Delivered
<1> HIDE DEF a
<1>3. r \in Seq(AnyLine) /\ Len(r) \in Nat /\ from + n <= Len(r)
  BY <1>1, <1>r, Receives
<1>4. EndsWell(r) /\ (NoFinal(lines) => NoFinal(r))
  BY <1>1, <1>r, ReceivesWell
<1>5. k.read \in Nat /\ n \in Nat
  BY DEF SubType
<1>6. k.mode = "derive" => k.read <= Len(r)
  BY <1>3, <1>5
<1> QED BY <1>2, <1>3, <1>4, <1>6, ClientStep

LEMMA OffType ==
  /\ Off \in SubType /\ Off.mode = "off"
  /\ \A s \in Servers : \A mode \in {"live", "replay"} :
       /\ Opened(mode, s) \in SubType
       /\ Opened(mode, s).mode = mode /\ Opened(mode, s).at = s
<1>1. NoPub \in PubType
  BY DEF NoPub, PubType
<1>2. Off \in SubType /\ Off.mode = "off"
  BY <1>1 DEF Off, SubType
<1>3. ASSUME NEW s \in Servers, NEW mode \in {"live", "replay"}
      PROVE  /\ Opened(mode, s) \in SubType
             /\ Opened(mode, s).mode = mode /\ Opened(mode, s).at = s
  BY <1>2 DEF Opened, SubType
<1> QED BY <1>2, <1>3

LEMMA OpenStep ==
  ASSUME SeenInv, NEW c \in Clients, NEW s \in Servers, OpenLive(c, s) \/ OpenReplay(c, s)
  PROVE  SeenInv'
<1>1. PICK mode \in {"live", "replay"} :
        /\ ~Ended(seen[c]) /\ UNCHANGED <<vars, seen>>
        /\ conn' = [conn EXCEPT ![c] = Opened(mode, s)]
  BY DEF OpenLive, OpenReplay, Connect
<1> DEFINE a == seen[c]
           k == Opened(mode, s)
<1>2. k \in SubType /\ k.mode = mode /\ k.at = s
  BY OffType
<1>3. a \in Seq(AnyLine) /\ EndsWell(a) /\ seen = [seen EXCEPT ![c] = a]
  BY DEF SeenInv, ClientInv
<1> HIDE DEF k
<1>4. NoFinal(a)
  <2> SUFFICES ASSUME NEW n \in 1..Len(a), a[n].kind = "final" PROVE FALSE
    BY DEF NoFinal
  <2>1. n = Len(a) /\ a # <<>>
    BY <1>3 DEF EndsWell
  <2> QED BY <1>1, <2>1 DEF Ended
<1>5. k.mode \notin {"derive", "late"}
  BY <1>2
<1>6. UNCHANGED vars /\ seen' = [seen EXCEPT ![c] = a] /\ conn' = [conn EXCEPT ![c] = k]
  BY <1>1, <1>3 DEF k
<1> QED BY <1>2, <1>3, <1>4, <1>5, <1>6, ClientStep

(* AtEnd, once the lines have been sent.                                   *)
LEMMA AtEndStep ==
  ASSUME SeenInv, UNCHANGED vars, NEW c \in Clients, conn[c].mode # "off",
         NEW lines \in Seq(AnyLine), EndsWell(lines), Sent(c, 0, lines), AtEnd(c, lines)
  PROVE  SeenInv'
<1> DEFINE last == lines[Len(lines)]
           opened == IF lines # <<>> /\ last.kind = "error" THEN last.end ELSE NoEnd
           k == [conn[c] EXCEPT !.mode = "derive", !.read = Len(lines), !.opened = opened]
<1>1. Len(lines) \in 0..Len(lines) /\ Len(lines) \in Nat /\ 0 <= Len(seen[c])
  BY DEF SeenInv
<1>2. seen' = Received(c, 0, lines, Len(lines))
  BY DEF Sent
<1>3. CASE Ended(lines)
  <2>1. conn' = [conn EXCEPT ![c] = Off]
    BY <1>3 DEF AtEnd, Connect
  <2> QED BY <1>1, <1>2, <2>1, OffType, SentStep
<1>4. CASE ~Ended(lines)
  <2>1. conn' = [conn EXCEPT ![c] = k]
    BY <1>4 DEF AtEnd, Connect
  <2>2. opened \in Ends \cup {NoEnd}
    <3>1. CASE lines # <<>> /\ last.kind = "error"
      <4>1. Len(lines) \in 1..Len(lines)
        BY <3>1
      <4>2. last \in AnyLine
        BY <4>1
      <4>3. last.end \in Ends
        BY <3>1, <4>2 DEF AnyLine, OpenLine, EndLine
      <4> QED BY <4>3
    <3>2. CASE ~(lines # <<>> /\ last.kind = "error")
      BY <3>2
    <3> QED BY <3>1, <3>2
  <2>3. conn[c] \in SubType /\ conn[c].at \in Servers
    BY DEF SeenInv, ClientInv
  <2> HIDE DEF opened
  <2>4. k \in SubType /\ k.mode = "derive" /\ k.read = Len(lines) /\ k.at = conn[c].at
    BY <1>1, <2>2, <2>3 DEF SubType
  <2> HIDE DEF k
  <2>5. NoFinal(lines)
    <3> SUFFICES ASSUME NEW n \in 1..Len(lines), lines[n].kind = "final" PROVE FALSE
      BY DEF NoFinal
    <3>1. n = Len(lines) /\ lines # <<>>
      BY DEF EndsWell
    <3> QED BY <1>4, <3>1 DEF Ended
  <2>6. k.read <= 0 + Len(lines) /\ k.mode # "late" /\ k.at \in Servers
    BY <1>1, <2>3, <2>4
  <2> QED BY <1>1, <1>2, <2>1, <2>4, <2>5, <2>6, SentStep
<1> QED BY <1>3, <1>4

(* The lines p has published, whichever job of the response published it.  *)
LEMMA PublishedLinesWell ==
  ASSUME EndInv, SendInv, NEW p \in PubType, Unended(p)
  PROVE  /\ SubSeq(journal, 1, p.lines) \in Seq(AnyLine)
         /\ EndsWell(SubSeq(journal, 1, p.lines))
         /\ p.settled \/ NoFinal(SubSeq(journal, 1, p.lines))
<1> DEFINE m == p.lines
           lines == SubSeq(journal, 1, m)
<1>1. journal \in Seq(AnyLine) /\ Len(journal) \in Nat /\ m \in Nat /\ m <= Len(journal)
  BY ReadTypes DEF PubType, Unended
<1> HIDE DEF m
<1>2. /\ lines \in Seq(AnyLine) /\ Len(lines) = m
      /\ \A i \in 1..m : lines[i] = journal[i]
  BY <1>1
<1> HIDE DEF lines
<1>3. ASSUME NEW n \in 1..Len(lines), lines[n].kind = "final"
      PROVE  n = Len(lines) /\ Over(lines[n].end)
  <2>1. n \in 1..Len(journal) /\ n \in 1..m /\ n \in Int
    BY <1>1, <1>2
  <2>2. lines[n] = journal[n]
    BY <1>2, <2>1
  <2>3. n = Len(journal) /\ Over(journal[n].end)
    BY <1>3, <2>1, <2>2 DEF SendInv, EndsWell
  <2>4. n = m
    BY <1>1, <2>1, <2>3
  <2> QED BY <1>2, <2>2, <2>3, <2>4
<1>4. EndsWell(lines)
  BY <1>3 DEF EndsWell
<1>5. ASSUME ~p.settled PROVE NoFinal(lines)
  <2>1. \A n \in 1..m : journal[n].kind # "final"
    BY <1>5 DEF Unended, m
  <2> QED BY <1>2, <2>1 DEF NoFinal
<1>6. SubSeq(journal, 1, p.lines) = lines
  BY DEF lines, m
<1> QED BY <1>2, <1>4, <1>5, <1>6

(* A client that leaves, and one that is turned away.                      *)
LEMMA LeaveStep ==
  ASSUME SeenInv, UNCHANGED vars, NEW c \in Clients, conn[c].mode # "off",
         NEW lines \in Seq(AnyLine), EndsWell(lines), NEW from \in Nat,
         from <= Len(seen[c]),
         Leave(c, from, lines) \/ (Sent(c, from, lines) /\ Connect(c, Off))
  PROVE  SeenInv'
<1>1. Len(lines) \in 0..Len(lines)
  OBVIOUS
<1>2. PICK n \in 0..Len(lines) : seen' = Received(c, from, lines, n)
  BY <1>1 DEF Leave, Sent
<1>3. conn' = [conn EXCEPT ![c] = Off]
  BY DEF Leave, Connect
<1>4. Off \in SubType /\ Off.mode = "off"
  BY OffType
<1> QED BY <1>2, <1>3, <1>4, SentStep

LEMMA CloseStep ==
  ASSUME SeenInv, UNCHANGED <<vars, seen>>, NEW c \in Clients, Connect(c, Off)
  PROVE  SeenInv'
<1> DEFINE a == seen[c]
<1>1. a \in Seq(AnyLine) /\ EndsWell(a) /\ seen = [seen EXCEPT ![c] = a]
  BY DEF SeenInv, ClientInv
<1>2. Off \in SubType /\ Off.mode = "off"
  BY OffType
<1>3. UNCHANGED vars /\ seen' = [seen EXCEPT ![c] = a] /\ conn' = [conn EXCEPT ![c] = Off]
  BY <1>1 DEF Connect
<1> QED BY <1>1, <1>2, <1>3, ClientStep

LEMMA FollowLiveStep ==
  ASSUME EndInv, SendInv, SeenInv, NEW c \in Clients, FollowLive(c)
  PROVE  SeenInv'
<1> DEFINE p == IF conn[c].mode = "late" THEN conn[c].pub ELSE pub[conn[c].at]
           lines == SubSeq(journal, 1, p.lines)
           k == [conn[c] EXCEPT !.read = p.lines]
<1>1. /\ UNCHANGED vars /\ conn[c].mode \in {"live", "late"}
      /\ \/ Connect(c, Off) /\ UNCHANGED seen
         \/ Leave(c, 0, lines)
         \/ Sent(c, 0, lines) /\ Connect(c, Off)
         \/ Sent(c, 0, lines) /\ AtEnd(c, lines)
         \/ Sent(c, 0, lines) /\ ~p.settled /\ conn' = [conn EXCEPT ![c] = k]
  BY DEF FollowLive, Connect
<1>2. conn[c] \in SubType /\ ClientInv(c)
  BY DEF SeenInv
<1>3. conn[c].mode # "off" /\ conn[c].at \in Servers /\ conn[c].mode # "derive"
  BY <1>1, <1>2 DEF ClientInv
<1>4. p \in PubType /\ Unended(p)
  <2>1. CASE conn[c].mode = "late"
    BY <1>2, <2>1 DEF ClientInv, SubType
  <2>2. CASE conn[c].mode # "late"
    <3>1. pub[conn[c].at] \in PubType /\ Unended(pub[conn[c].at])
      BY <1>3, ReadTypes DEF SendInv
    <3> QED BY <2>2, <3>1
  <2> QED BY <2>1, <2>2
<1> HIDE DEF p
<1>5. lines \in Seq(AnyLine) /\ EndsWell(lines) /\ (p.settled \/ NoFinal(lines))
  BY <1>4, PublishedLinesWell
<1>6. p.lines \in Nat /\ 0 <= Len(seen[c]) /\ Len(lines) \in 0..Len(lines) /\ 0 \in Nat
  BY <1>4, <1>5 DEF PubType, SeenInv
<1>7. /\ k \in SubType /\ k.mode = conn[c].mode /\ k.at = conn[c].at
      /\ k.pub = conn[c].pub
  BY <1>2, <1>6 DEF SubType
<1> HIDE DEF lines, k
<1>8. CASE Connect(c, Off) /\ UNCHANGED seen
  BY <1>1, <1>8, CloseStep
<1>9. CASE Leave(c, 0, lines) \/ (Sent(c, 0, lines) /\ Connect(c, Off))
  BY <1>1, <1>3, <1>5, <1>6, <1>9, LeaveStep
<1>10. CASE Sent(c, 0, lines) /\ AtEnd(c, lines)
  BY <1>1, <1>3, <1>5, <1>10, AtEndStep
<1>11. CASE Sent(c, 0, lines) /\ ~p.settled /\ conn' = [conn EXCEPT ![c] = k]
  <2>1. seen' = Received(c, 0, lines, Len(lines)) /\ NoFinal(lines)
    BY <1>5, <1>11 DEF Sent
  <2>2. k.mode = "late" => Unended(k.pub)
    BY <1>2, <1>7 DEF ClientInv
  <2>3. /\ k.mode # "off" => k.at \in Servers /\ NoFinal(lines)
        /\ k.mode # "derive"
    BY <1>3, <1>7, <2>1
  <2> QED BY <1>1, <1>3, <1>5, <1>6, <1>7, <1>11, <2>1, <2>2, <2>3, SentStep
<1> QED BY <1>1, <1>8, <1>9, <1>10, <1>11 DEF Leave, Sent, Connect

LEMMA FollowReplayStep ==
  ASSUME EndInv, SendInv, SeenInv, NEW c \in Clients, FollowReplay(c)
  PROVE  SeenInv'
<1>1. PICK lines \in Visible : \/ Leave(c, 0, lines)
                               \/ Sent(c, 0, lines) /\ AtEnd(c, lines)
  BY DEF FollowReplay
<1>2. UNCHANGED vars /\ conn[c].mode # "off" /\ 0 <= Len(seen[c]) /\ 0 \in Nat
  BY DEF FollowReplay, SeenInv
<1>3. Grown(lines)
  <2>1. CASE lines = journal
    BY <2>1 DEF Grown
  <2>2. CASE lines # journal
    <3>1. PICK s \in Servers : \E b \in InFlight(s) : \E n \in 0..Len(b) :
                                 lines = journal \o SubSeq(b, 1, n)
      BY <1>1, <2>2 DEF Visible
    <3>2. PICK b \in InFlight(s) : \E n \in 0..Len(b) :
                                     lines = journal \o SubSeq(b, 1, n)
      BY <3>1
    <3>3. PICK n \in 0..Len(b) : lines = journal \o SubSeq(b, 1, n)
      BY <3>2
    <3> QED BY <3>3, InFlightGrown
  <2> QED BY <2>1, <2>2
<1>4. lines \in Seq(AnyLine) /\ EndsWell(lines)
  BY <1>3, GrownWell DEF SendInv
<1>5. CASE Leave(c, 0, lines) \/ (Sent(c, 0, lines) /\ Connect(c, Off))
  BY <1>2, <1>4, <1>5, LeaveStep
<1>6. CASE Sent(c, 0, lines) /\ AtEnd(c, lines)
  BY <1>2, <1>4, <1>6, AtEndStep
<1> QED BY <1>1, <1>5, <1>6 DEF Leave, Sent, Connect

(* The end derived from the record is the record's, and is announced last. *)
LEMMA DerivedWell ==
  ASSUME EndInv, status \in Ends, NEW end, end = TerminalEvents(status),
         NEW lines \in {end, Tail(end)}
  PROVE  lines \in Seq(AnyLine) /\ EndsWell(lines)
<1>1. Over(status)
  BY EndOver
<1>2. /\ end \in Seq(AnyLine) /\ Len(end) \in Nat /\ Len(end) >= 1
      /\ \A n \in 1..Len(end) :
           end[n].kind = "final" => n = Len(end) /\ end[n].end = status
  <2>1. /\ end \in Seq(AnyLine)
        /\ \A n \in 1..Len(end) :
             end[n].kind = "final" => n = Len(end) /\ end[n].end = status
    BY TerminalType
  <2>2. Len(end) = 1 \/ Len(end) = 2
    BY DEF TerminalEvents
  <2> QED BY <2>1, <2>2
<1>3. CASE lines = end
  BY <1>1, <1>2, <1>3 DEF EndsWell
<1>4. CASE lines = Tail(end)
  <2>1. /\ lines \in Seq(AnyLine) /\ Len(lines) = Len(end) - 1 /\ Len(lines) \in Nat
        /\ \A n \in 1..Len(lines) : lines[n] = end[n + 1]
    BY <1>2, <1>4
  <2>2. ASSUME NEW n \in 1..Len(lines), lines[n].kind = "final"
        PROVE  n = Len(lines) /\ Over(lines[n].end)
    <3>1. n + 1 \in 1..Len(end) /\ n \in Int
      BY <1>2, <2>1
    <3>2. lines[n] = end[n + 1]
      BY <2>1
    <3>3. n + 1 = Len(end) /\ lines[n].end = status
      BY <1>2, <2>2, <3>1, <3>2
    <3> QED BY <1>1, <1>2, <2>1, <3>1, <3>3
  <2> QED BY <2>1, <2>2 DEF EndsWell
<1> QED BY <1>3, <1>4

LEMMA DeriveEndStep ==
  ASSUME EndInv, SeenInv, NEW c \in Clients, DeriveEnd(c)
  PROVE  SeenInv'
<1> DEFINE end == TerminalEvents(status)
           lines == IF conn[c].opened = status THEN Tail(end) ELSE end
           from == conn[c].read
<1>1. /\ UNCHANGED vars /\ conn[c].mode = "derive"
      /\ \/ Connect(c, Off) /\ UNCHANGED seen
         \/ status \in Ends /\ Leave(c, from, lines)
         \/ status \in Ends /\ Sent(c, from, lines) /\ Connect(c, Off)
  BY DEF DeriveEnd
<1>2. conn[c] \in SubType /\ ClientInv(c)
  BY DEF SeenInv
<1>3. from \in Nat /\ from <= Len(seen[c]) /\ conn[c].mode # "off"
  BY <1>1, <1>2 DEF ClientInv, SubType
<1>4. end = TerminalEvents(status) /\ lines \in {end, Tail(end)}
  OBVIOUS
<1> HIDE DEF end, lines, from
<1>5. CASE Connect(c, Off) /\ UNCHANGED seen
  BY <1>1, <1>5, CloseStep
<1>6. CASE /\ status \in Ends
           /\ Leave(c, from, lines) \/ (Sent(c, from, lines) /\ Connect(c, Off))
  <2>1. lines \in Seq(AnyLine) /\ EndsWell(lines)
    BY <1>4, <1>6, DerivedWell
  <2> QED BY <1>1, <1>3, <1>6, <2>1, LeaveStep
<1> QED BY <1>1, <1>5, <1>6 DEF Leave, Sent, Connect

(* A step of the job: what clients have seen stays over, and what a client *)
(* was told by a job that is being replaced is still all there is.         *)
LEMMA JobStepSeen ==
  ASSUME EndInv, ReadInv, SendInv, SeenInv, JobStep
  PROVE  SeenInv'
<1>1. Next /\ UNCHANGED seen /\ conn' = [c \in Clients |-> Notified(conn[c])]
  BY DEF JobStep
<1>2. Grown(journal') /\ EndsWell(journal)
  BY <1>1, JournalGrows DEF SendInv
<1>3. ASSUME NEW q \in PubType, Unended(q) PROVE Unended(q)'
  BY <1>2, <1>3, UnendedKept DEF Unended
<1>4. ASSUME NEW c \in Clients PROVE conn'[c] \in SubType /\ ClientInv(c)'
  <2> DEFINE k == conn[c]
             q == pub[k.at]
             l == [k EXCEPT !.mode = "late", !.pub = q]
             a == seen[c]
  <2>1. k \in SubType /\ ClientInv(c) /\ a \in Seq(AnyLine)
    BY DEF SeenInv
  <2>2. conn'[c] = Off \/ conn'[c] = k \/ (k.mode = "live" /\ conn'[c] = l)
    BY <1>1 DEF Notified
  <2>3. EndsWell(a) /\ seen'[c] = a /\ (k.mode # "off" => NoFinal(a))
    BY <1>1, <2>1 DEF ClientInv
  <2> HIDE DEF a
  <2>4. EndsWell(seen[c])'
    <3> SUFFICES ASSUME NEW n \in 1..Len(a), a[n].kind = "final"
                 PROVE  n = Len(a) /\ Over(seen[c][n].end)'
      BY <2>3 DEF EndsWell
    <3>1. PICK e : e = a[n].end
      OBVIOUS
    <3>2. n = Len(a) /\ Over(e)
      BY <2>3, <3>1 DEF EndsWell
    <3>3. Over(e)'
      BY <1>1, <3>2, OverKept
    <3>4. e = seen'[c][n].end
      BY <2>3, <3>1
    <3> QED BY <3>2, <3>3, <3>4
  <2>5. CASE conn'[c] = Off
    BY <2>4, <2>5, OffType DEF ClientInv
  <2>6. CASE conn'[c] = k
    <3>1. k.mode = "late" => Unended(conn[c].pub)'
      <4> SUFFICES ASSUME k.mode = "late" PROVE Unended(conn[c].pub)'
        OBVIOUS
      <4>1. PICK u \in PubType : u = k.pub
        BY <2>1 DEF SubType
      <4>2. Unended(u)
        BY <2>1, <4>1 DEF ClientInv
      <4>3. Unended(u)'
        BY <1>3, <4>2
      <4>4. u = conn'[c].pub
        BY <2>6, <4>1
      <4> QED BY <4>3, <4>4
    <3>2. conn'[c].mode # "off" => conn'[c].at \in Servers /\ NoFinal(seen[c])'
      BY <2>1, <2>3, <2>6 DEF ClientInv, NoFinal
    <3>3. conn'[c].mode = "derive" => conn'[c].read <= Len(seen'[c])
      BY <2>1, <2>3, <2>6 DEF ClientInv, a
    <3>4. conn'[c].mode = "late" => Unended(conn[c].pub)'
      BY <2>6, <3>1
    <3> QED BY <2>1, <2>4, <2>6, <3>2, <3>3, <3>4 DEF ClientInv
  <2>7. CASE k.mode = "live" /\ conn'[c] = l
    <3>1. k.at \in Servers /\ k.mode # "off"
      BY <2>1, <2>7 DEF ClientInv
    <3>2. q \in PubType /\ Unended(q)
      BY <3>1, ReadTypes DEF SendInv
    <3>3. PICK u \in PubType : u = q
      BY <3>2
    <3>4. Unended(u)'
      BY <1>3, <3>2, <3>3
    <3> HIDE DEF q
    <3>5. l \in SubType /\ l.mode = "late" /\ l.pub = q /\ l.at = k.at
      BY <2>1, <3>2 DEF SubType
    <3>6. conn'[c].pub = u
      BY <2>7, <3>3, <3>5
    <3>7. Unended(conn[c].pub)'
      BY <3>4, <3>6
    <3> HIDE DEF l
    <3> QED BY <2>3, <2>4, <2>7, <3>1, <3>5, <3>7 DEF ClientInv, NoFinal
  <2> QED BY <2>2, <2>5, <2>6, <2>7
<1>5. seen' \in [Clients -> Seq(AnyLine)] /\ conn' \in [Clients -> SubType]
  BY <1>1, <1>4 DEF SeenInv
<1> QED BY <1>4, <1>5 DEF SeenInv

LEMMA SeenInvStep ==
  ASSUME EndInv, ReadInv, SendInv, SeenInv, [StreamNext]_streamVars
  PROVE  SeenInv'
<1>1. CASE UNCHANGED streamVars
  <2>1. UNCHANGED <<seen, conn, status, phase, step, target, task, verdict, journal>>
    BY <1>1 DEF streamVars, streams, vars, files, job, leasing
  <2> QED BY <2>1 DEF SeenInv, ClientInv, EndsWell, NoFinal, Unended, Over
<1>2. CASE JobStep
  BY <1>2, JobStepSeen
<1>3. ASSUME NEW c \in Clients, Follow(c) PROVE SeenInv'
  BY <1>3, FollowLiveStep, FollowReplayStep, DeriveEndStep DEF Follow
<1>4. ASSUME NEW c \in Clients, NEW s \in Servers, OpenLive(c, s) \/ OpenReplay(c, s)
      PROVE  SeenInv'
  BY <1>4, OpenStep
<1> QED BY <1>1, <1>2, <1>3, <1>4 DEF StreamNext

LEMMA StreamInvInit ==
  ASSUME StreamInit
  PROVE  Init /\ SendInv /\ SeenInv
<1>1. Init
  BY DEF StreamInit
<1>2. journal = <<>> /\ pub = [s \in Servers |-> NoPub]
  BY <1>1 DEF Init
<1>3. SendInv
  <2>1. ASSUME NEW s \in Servers PROVE Unended(pub[s])
    <3>1. pub[s] = NoPub /\ NoPub.lines = 0
      BY <1>2 DEF NoPub
    <3> QED BY <1>2, <3>1 DEF Unended
  <2> QED BY <1>2, <2>1 DEF SendInv, EndsWell
<1>4. SeenInv
  <2>1. \A c \in Clients : seen[c] = <<>> /\ conn[c] = Off
    BY DEF StreamInit
  <2>2. seen \in [Clients -> Seq(AnyLine)] /\ conn \in [Clients -> SubType]
    BY OffType DEF StreamInit
  <2>3. \A c \in Clients : ClientInv(c)
    BY <2>1, OffType DEF ClientInv, EndsWell
  <2> QED BY <2>2, <2>3 DEF SeenInv
<1> QED BY <1>1, <1>3, <1>4

(* A step of a client is no step of the job.                               *)
LEMMA StreamIsJob ==
  ASSUME [StreamNext]_streamVars
  PROVE  [Next]_vars
<1>1. CASE UNCHANGED streamVars
  BY <1>1 DEF streamVars
<1>2. CASE JobStep
  BY <1>2 DEF JobStep
<1>3. ASSUME NEW c \in Clients, Follow(c) PROVE UNCHANGED vars
  BY <1>3 DEF Follow, FollowLive, FollowReplay, DeriveEnd
<1>4. ASSUME NEW c \in Clients, NEW s \in Servers, OpenLive(c, s) \/ OpenReplay(c, s)
      PROVE  UNCHANGED vars
  BY <1>4 DEF OpenLive, OpenReplay
<1> QED BY <1>1, <1>2, <1>3, <1>4 DEF StreamNext

(* A client that has received the end of a stream finds the Response it    *)
(* announced in the store, unless it was deleted, and nothing followed     *)
(* that end; whichever jobs, replays and derivations of any number of      *)
(* servers sent it, and however often writes fail, servers crash and       *)
(* clients come back (Subscription::follow, Inner::settle).                *)
THEOREM SeenEndsAreRecorded == StreamSpec => []SeenEndIsRecorded
<1> DEFINE Inv == EndInv /\ ReadInv /\ SendInv /\ SeenInv
<1>1. StreamInit => Inv
  BY StreamInvInit, EndInvInit, ReadInvInit
<1>2. Inv /\ [StreamNext]_streamVars => Inv'
  <2> SUFFICES ASSUME Inv, [StreamNext]_streamVars PROVE Inv'
    OBVIOUS
  <2>1. [Next]_vars
    BY StreamIsJob
  <2> QED BY <2>1, EndInvStep, ReadInvStep, SendStep, SeenInvStep
<1>3. Inv => SeenEndIsRecorded
  BY DEF SeenInv, ClientInv, EndsWell, Over, SeenEndIsRecorded
<1> HIDE DEF Inv
<1> QED BY <1>1, <1>2, <1>3, PTL DEF StreamSpec
=============================================================================
