--------------------------- MODULE RuntimeProofs ---------------------------
(***************************************************************************)
(* Proofs about the engine's runtime.  EngineWorker: admission is first    *)
(* in, first out; streams are delivered in order and end once; a deferred  *)
(* resumption is woken.  PromptCache: what the engine lists is on disk as  *)
(* far as its own writer knows, and a closed writer is at rest.            *)
(***************************************************************************)
EXTENDS EngineWorker, PromptCache, FiniteSetTheorems, NaturalsInduction, SequenceTheorems,
        TLAPS

LEMMA Capacities ==
  /\ QueueCapacity \in Nat /\ QueueCapacity >= 1 /\ EventBuffer \in Nat
  /\ EventBuffer >= 1
  /\ NoJob \notin Requests /\ Clients \subseteq Requests
  /\ Interrupted \subseteq Requests
BY WorkerAssumption DEF Requests

(***************************************************************************)
(* Events and streams.                                                     *)
(***************************************************************************)
LEMMA MarkType ==
  /\ \A what \in {"progress", "finished", "error", "answer"} : Mark(what) \in Event
  /\ \A n \in Nat : Piece(n) \in Event /\ Piece(n) \notin Terminal
                    /\ Piece(n) # Mark("progress")
  /\ Mark("progress") \notin Terminal
  /\ Mark("finished") \in Terminal /\ Mark("error") \in Terminal
  /\ Mark("answer") \in Terminal
BY DEF Mark, Piece, Event, Terminal

LEMMA EventsType ==
  ASSUME NEW q, q.seen \in Seq(Event), q.chan \in Seq(Event), q.outbox \in Seq(Event)
  PROVE  /\ Events(q) \in Seq(Event)
         /\ Len(Events(q)) = Len(q.seen) + Len(q.chan) + Len(q.outbox)
BY DEF Events

(* The same events, elsewhere. *)
LEMMA EventsMove ==
  ASSUME NEW a \in Seq(Event), NEW b \in Seq(Event), NEW c \in Seq(Event), NEW e \in Event
  PROVE  /\ a \o b \o Append(c, e) = Append(a \o b \o c, e)
         /\ c = <<>> => a \o Append(b, e) \o c = Append(a \o b \o c, e)
         /\ b # <<>> => Append(a, Head(b)) \o Tail(b) \o c = a \o b \o c
<1>1. a \o b \o Append(c, e) = Append(a \o b \o c, e)
  <2> DEFINE x == a \o b \o Append(c, e)
             y == Append(a \o b \o c, e)
  <2>1. x \in Seq(Event) /\ y \in Seq(Event) /\ Len(x) = Len(y)
    OBVIOUS
  <2>2. \A i \in 1..Len(x) : x[i] = y[i]
    OBVIOUS
  <2> HIDE DEF x, y
  <2>3. x = y
    BY <2>1, <2>2, SeqEqual
  <2> QED BY <2>3 DEF x, y
<1>2. ASSUME c = <<>> PROVE a \o Append(b, e) \o c = Append(a \o b \o c, e)
  <2> DEFINE x == a \o Append(b, e) \o c
             y == Append(a \o b \o c, e)
  <2>1. x \in Seq(Event) /\ y \in Seq(Event) /\ Len(x) = Len(y)
    BY <1>2
  <2>2. \A i \in 1..Len(x) : x[i] = y[i]
    BY <1>2
  <2> HIDE DEF x, y
  <2>3. x = y
    BY <2>1, <2>2, SeqEqual
  <2> QED BY <2>3 DEF x, y
<1>3. ASSUME b # <<>> PROVE Append(a, Head(b)) \o Tail(b) \o c = a \o b \o c
  <2> DEFINE x == Append(a, Head(b)) \o Tail(b) \o c
             y == a \o b \o c
  <2>1. x \in Seq(Event) /\ y \in Seq(Event) /\ Len(x) = Len(y)
    BY <1>3
  <2>2. \A i \in 1..Len(x) : x[i] = y[i]
    BY <1>3
  <2> HIDE DEF x, y
  <2>3. x = y
    BY <2>1, <2>2, SeqEqual
  <2> QED BY <2>3 DEF x, y
<1> QED BY <1>1, <1>2, <1>3

LEMMA Regrouped ==
  ASSUME NEW a \in Seq(Event), NEW b \in Seq(Event), NEW c \in Seq(Event)
  PROVE  a \o (b \o c) = (a \o b) \o c
<1> DEFINE x == a \o (b \o c)
           y == (a \o b) \o c
<1>1. x \in Seq(Event) /\ y \in Seq(Event) /\ Len(x) = Len(y)
  OBVIOUS
<1>2. \A i \in 1..Len(x) : x[i] = y[i]
  OBVIOUS
<1> HIDE DEF x, y
<1>3. x = y
  BY <1>1, <1>2, SeqEqual
<1> QED BY <1>3 DEF x, y

(* Delivery::flush moves a prefix of the outbox into the channel. *)
LEMMA EventsFlush ==
  ASSUME NEW a \in Seq(Event), NEW b \in Seq(Event), NEW c \in Seq(Event),
         NEW n \in 0..Len(c)
  PROVE  /\ b \o SubSeq(c, 1, n) \in Seq(Event) /\ SubSeq(c, n + 1, Len(c)) \in Seq(Event)
         /\ Len(b \o SubSeq(c, 1, n)) = Len(b) + n
         /\ a \o (b \o SubSeq(c, 1, n)) \o SubSeq(c, n + 1, Len(c)) = a \o b \o c
<1> DEFINE u == SubSeq(c, 1, n)
           v == SubSeq(c, n + 1, Len(c))
<1>1. u \in Seq(Event) /\ Len(u) = n /\ \A i \in 1..n : u[i] = c[i]
  OBVIOUS
<1>2. v \in Seq(Event) /\ Len(v) = Len(c) - n /\ \A i \in 1..(Len(c) - n) : v[i] = c[n + i]
  OBVIOUS
<1>3. u \o v = c
  <2>1. /\ 1 \in 1..(Len(c) + 1) /\ n \in (1 - 1)..Len(c) /\ Len(c) \in n..Len(c)
    OBVIOUS
  <2>2. u \o v = SubSeq(c, 1, Len(c))
    BY <2>1, ConcatAdjacentSubSeq
  <2> QED BY <2>2, SubSeqFull
<1> HIDE DEF u, v
<1>4. PICK uu \in Seq(Event), vv \in Seq(Event) : uu = u /\ vv = v
  BY <1>1, <1>2
<1>5. b \o uu \in Seq(Event) /\ Len(b \o uu) = Len(b) + Len(uu)
  OBVIOUS
<1>6. a \o (b \o uu) \o vv = (a \o b) \o (uu \o vv)
  <2> DEFINE P(s, t, w) == s \o (t \o w) = (s \o t) \o w
  <2>1. \A s \in Seq(Event), t \in Seq(Event), w \in Seq(Event) : P(s, t, w)
    BY Regrouped
  <2>2. a \o b \in Seq(Event)
    OBVIOUS
  <2> HIDE DEF P
  <2>3. P(a, b, uu)
    BY <2>1, <1>4
  <2>4. P(a \o b, uu, vv)
    BY <2>1, <2>2, <1>4
  <2> QED BY <2>3, <2>4 DEF P
<1> QED BY <1>1, <1>2, <1>3, <1>4, <1>5, <1>6 DEF u, v

(* One more event. *)
LEMMA OpenIsInOrder ==
  ASSUME NEW q, Events(q) \in Seq(Event), OpenStream(q), q.made \in Nat
  PROVE  InOrder(Events(q))
BY MarkType DEF OpenStream, InOrder, Lead

LEMMA TerminalEnds ==
  ASSUME NEW s \in Seq(Event), NEW e \in Terminal, NEW n \in Nat,
         Len(s) = n + Lead(s),
         \A i \in (1 + Lead(s))..Len(s) : s[i] = Piece(i - Lead(s))
  PROVE  InOrder(Append(s, e)) /\ Ends(Append(s, e))
<1> DEFINE t == Append(s, e)
<1>1. e \in Event /\ e # Mark("progress")
  BY MarkType DEF Terminal
<1>2. Len(t) = Len(s) + 1 /\ t[Len(t)] = e /\ \A i \in 1..Len(s) : t[i] = s[i]
  OBVIOUS
<1>3. t # <<>> /\ Lead(t) = Lead(s)
  BY <1>1, <1>2 DEF Lead
<1>4. Lead(s) \in Nat
  BY DEF Lead
<1> HIDE DEF t
<1>5. InOrder(t)
  BY <1>2, <1>3, <1>4, MarkType DEF InOrder
<1> QED BY <1>2, <1>3, <1>5 DEF Ends, t

LEMMA PieceOpens ==
  ASSUME NEW s \in Seq(Event), NEW n \in Nat, Len(s) = n + Lead(s),
         \A i \in (1 + Lead(s))..Len(s) : s[i] = Piece(i - Lead(s))
  PROVE  LET t == Append(s, Piece(n + 1))
         IN /\ Len(t) = n + 1 + Lead(t) /\ Lead(t) = Lead(s)
            /\ \A i \in (1 + Lead(t))..Len(t) : t[i] = Piece(i - Lead(t))
<1> DEFINE e == Piece(n + 1)
           t == Append(s, e)
<1>1. e \in Event /\ e # Mark("progress")
  BY MarkType
<1> HIDE DEF e
<1>2. Len(t) = Len(s) + 1 /\ t[Len(t)] = e /\ \A i \in 1..Len(s) : t[i] = s[i]
  BY <1>1
<1>3. t # <<>> /\ Lead(t) = Lead(s)
  BY <1>1, <1>2 DEF Lead
<1>4. Lead(s) \in Nat
  BY DEF Lead
<1> HIDE DEF t
<1>5. ASSUME NEW i \in (1 + Lead(t))..Len(t) PROVE t[i] = Piece(i - Lead(t))
  <2>1. CASE i = Len(t)
    <3>1. i - Lead(t) = n + 1
      BY <1>2, <1>3, <1>4, <2>1
    <3> QED BY <1>2, <2>1, <3>1 DEF e
  <2>2. CASE i # Len(t)
    BY <1>2, <1>3, <1>4, <2>2
  <2> QED BY <2>1, <2>2
<1> QED BY <1>2, <1>3, <1>4, <1>5 DEF t, e

(***************************************************************************)
(* How a request changes.                                                  *)
(***************************************************************************)
LEMMA UnsentType ==
  /\ Unsent \in RequestRow /\ Unsent.phase = "new" /\ Unsent.ticket = 0
  /\ ~Unsent.cancel /\ ~Unsent.left /\ Unsent.recv /\ ~Unsent.send
  /\ Unsent.chan = <<>> /\ Unsent.outbox = <<>> /\ Unsent.seen = <<>>
  /\ Unsent.made = 0 /\ ~Unsent.heard /\ ~Unsent.counted
<1>1. <<>> \in Seq(Event)
  OBVIOUS
<1> QED BY <1>1 DEF Unsent, RequestRow

LEMMA ClearedEffect ==
  ASSUME NEW q \in RequestRow
  PROVE  /\ Cleared(q) \in RequestRow /\ Cleared(q).phase = q.phase
         /\ Cleared(q).recv = q.recv /\ Cleared(q).send = q.send
         /\ (q.recv \/ q.send) => Cleared(q) = q
         /\ ~(q.recv \/ q.send) => /\ Cleared(q).ticket = 0 /\ ~Cleared(q).counted
                                   /\ Cleared(q).chan = <<>> /\ Cleared(q).outbox = <<>>
<1>1. CASE q.recv \/ q.send
  BY <1>1 DEF Cleared
<1>2. CASE ~(q.recv \/ q.send)
  <2> DEFINE c == [Unsent EXCEPT !.phase = q.phase, !.recv = FALSE]
  <2>1. Cleared(q) = c
    BY <1>2 DEF Cleared
  <2>2. /\ c \in RequestRow /\ c.phase = q.phase /\ ~c.recv /\ c.send = Unsent.send
        /\ c.ticket = Unsent.ticket /\ c.counted = Unsent.counted
        /\ c.chan = Unsent.chan
        /\ c.outbox = Unsent.outbox
    BY UnsentType DEF RequestRow
  <2>3. q.recv = FALSE /\ q.send = FALSE /\ c.recv = FALSE
    BY <1>2, <2>2 DEF RequestRow
  <2> HIDE DEF c
  <2> QED BY <1>2, <2>1, <2>2, <2>3, UnsentType DEF RequestRow
<1> QED BY <1>1, <1>2

LEMMA ReturnedEffect ==
  ASSUME NEW q \in RequestRow
  PROVE  /\ Returned(q) \in RequestRow /\ ~Returned(q).recv /\ ~Returned(q).counted
         /\ Returned(q).send = q.send /\ Returned(q).chan = <<>>
         /\ Returned(q).phase = IF q.phase \in {"left", "orphan"} THEN "left" ELSE "done"
         /\ Returned(q).ticket = IF q.send THEN q.ticket ELSE 0
<1> DEFINE ph == IF q.phase \in {"left", "orphan"} THEN "left" ELSE "done"
           c == [q EXCEPT !.phase = ph, !.recv = FALSE, !.cancel = TRUE, !.left = FALSE,
                          !.chan = <<>>, !.seen = <<>>, !.counted = FALSE]
<1>1. Returned(q) = Cleared(c)
  BY DEF Returned
<1>2. ph \in {"left", "done"} /\ <<>> \in Seq(Event)
  OBVIOUS
<1> HIDE DEF ph
<1>3. /\ c \in RequestRow /\ c.phase = ph /\ ~c.recv /\ ~c.counted /\ c.send = q.send
      /\ c.chan = <<>> /\ c.ticket = q.ticket
  BY <1>2 DEF RequestRow
<1> HIDE DEF c
<1>4. q.send \in BOOLEAN /\ c.recv = FALSE
  BY <1>3 DEF RequestRow
<1>5. /\ Cleared(c) \in RequestRow /\ Cleared(c).phase = ph /\ Cleared(c).recv = FALSE
      /\ Cleared(c).send = q.send
      /\ q.send => Cleared(c) = c
      /\ ~q.send => Cleared(c).ticket = 0 /\ ~Cleared(c).counted /\ Cleared(c).chan = <<>>
  BY <1>3, <1>4, ClearedEffect
<1>6. /\ ~Cleared(c).counted /\ Cleared(c).chan = <<>>
      /\ Cleared(c).ticket = IF q.send THEN q.ticket ELSE 0
  BY <1>3, <1>4, <1>5
<1> QED BY <1>1, <1>5, <1>6 DEF ph

LEMMA DroppedEffect ==
  ASSUME NEW q \in RequestRow
  PROVE  /\ Dropped(q) \in RequestRow /\ ~Dropped(q).send /\ Dropped(q).recv = q.recv
         /\ Dropped(q).phase = q.phase /\ Dropped(q).outbox = <<>>
         /\ q.recv => /\ Dropped(q).ticket = q.ticket /\ Dropped(q).left = q.left
                      /\ Dropped(q).counted = q.counted /\ Dropped(q).chan = q.chan
                      /\ Dropped(q).seen = q.seen
         /\ ~q.recv => /\ Dropped(q).ticket = 0 /\ ~Dropped(q).counted
                       /\ Dropped(q).chan = <<>>
<1> DEFINE c == [q EXCEPT !.send = FALSE, !.outbox = <<>>]
<1>1. Dropped(q) = Cleared(c)
  BY DEF Dropped
<1>2. <<>> \in Seq(Event)
  OBVIOUS
<1>3. /\ c \in RequestRow /\ ~c.send /\ c.recv = q.recv /\ c.phase = q.phase
      /\ c.ticket = q.ticket /\ c.left = q.left /\ c.counted = q.counted
      /\ c.chan = q.chan /\ c.seen = q.seen /\ c.outbox = <<>>
  BY <1>2 DEF RequestRow
<1> HIDE DEF c
<1>4. q.recv \in BOOLEAN /\ c.send = FALSE
  BY <1>3 DEF RequestRow
<1>5. /\ Cleared(c) \in RequestRow /\ Cleared(c).phase = q.phase /\ Cleared(c).recv = q.recv
      /\ Cleared(c).send = FALSE
      /\ q.recv => Cleared(c) = c
      /\ ~q.recv => /\ Cleared(c).ticket = 0 /\ ~Cleared(c).counted
                    /\ Cleared(c).chan = <<>> /\ Cleared(c).outbox = <<>>
  BY <1>3, <1>4, ClearedEffect
<1> QED BY <1>1, <1>3, <1>4, <1>5

LEMMA FlushedEffect ==
  ASSUME NEW q \in RequestRow, Len(q.chan) <= EventBuffer
  PROVE  /\ Flushed(q) \in RequestRow /\ Flushed(q).send = q.send
         /\ Flushed(q).recv = q.recv
         /\ Flushed(q).phase = q.phase /\ Flushed(q).ticket = q.ticket
         /\ Flushed(q).left = q.left /\ Flushed(q).counted = q.counted
         /\ Flushed(q).made = q.made /\ Flushed(q).heard = q.heard
         /\ Len(Flushed(q).chan) <= EventBuffer
         /\ q.recv => /\ Flushed(q).cancel = q.cancel
                      /\ Events(Flushed(q)) = Events(q)
<1>0. /\ q.chan \in Seq(Event) /\ q.outbox \in Seq(Event) /\ q.seen \in Seq(Event)
      /\ <<>> \in Seq(Event)
  BY DEF RequestRow
<1>1. CASE q.outbox # <<>> /\ ~q.recv
  <2> DEFINE f == [q EXCEPT !.cancel = TRUE, !.outbox = <<>>]
  <2>1. Flushed(q) = f
    BY <1>1 DEF Flushed
  <2>2. /\ f \in RequestRow /\ f.send = q.send /\ f.recv = q.recv /\ f.phase = q.phase
        /\ f.ticket = q.ticket /\ f.left = q.left /\ f.counted = q.counted
        /\ f.made = q.made /\ f.heard = q.heard /\ f.chan = q.chan
    BY <1>0 DEF RequestRow
  <2> HIDE DEF f
  <2> QED BY <1>1, <2>1, <2>2
<1>2. CASE ~(q.outbox # <<>> /\ ~q.recv)
  <2> DEFINE n == IF Room(q) < Len(q.outbox) THEN Room(q) ELSE Len(q.outbox)
             ch == q.chan \o SubSeq(q.outbox, 1, n)
             ob == SubSeq(q.outbox, n + 1, Len(q.outbox))
             f == [q EXCEPT !.chan = ch, !.outbox = ob]
  <2>1. Flushed(q) = f
    BY <1>2 DEF Flushed
  <2>2. n \in 0..Len(q.outbox) /\ Len(q.chan) + n <= EventBuffer
    <3>1. Len(q.chan) \in Nat /\ Len(q.outbox) \in Nat /\ EventBuffer \in Nat
      BY <1>0, Capacities, LenProperties
    <3>2. PICK x \in Nat, y \in Nat, z \in Nat :
            x = Len(q.chan) /\ y = Len(q.outbox) /\ z = EventBuffer
      BY <3>1
    <3>3. n = IF z - x < y THEN z - x ELSE y
      BY <3>2 DEF Room
    <3>4. x <= z
      BY <3>2
    <3> HIDE DEF n
    <3>5. n \in 0..y /\ x + n <= z
      BY <3>3, <3>4
    <3> QED BY <3>2, <3>5
  <2> HIDE DEF n
  <2>3. /\ ch \in Seq(Event) /\ ob \in Seq(Event) /\ Len(ch) = Len(q.chan) + n
        /\ q.seen \o ch \o ob = q.seen \o q.chan \o q.outbox
    <3>1. PICK a \in Seq(Event), b \in Seq(Event), c \in Seq(Event) :
            a = q.seen /\ b = q.chan /\ c = q.outbox
      BY <1>0
    <3>2. n \in 0..Len(c)
      BY <2>2, <3>1
    <3>3. /\ b \o SubSeq(c, 1, n) \in Seq(Event) /\ SubSeq(c, n + 1, Len(c)) \in Seq(Event)
          /\ Len(b \o SubSeq(c, 1, n)) = Len(b) + n
          /\ a \o (b \o SubSeq(c, 1, n)) \o SubSeq(c, n + 1, Len(c)) = a \o b \o c
      <4> DEFINE P(aa, bb, cc, m) ==
            /\ bb \o SubSeq(cc, 1, m) \in Seq(Event) /\ SubSeq(cc, m + 1, Len(cc)) \in Seq(Event)
            /\ Len(bb \o SubSeq(cc, 1, m)) = Len(bb) + m
            /\ aa \o (bb \o SubSeq(cc, 1, m)) \o SubSeq(cc, m + 1, Len(cc)) = aa \o bb \o cc
      <4>1. \A aa \in Seq(Event), bb \in Seq(Event), cc \in Seq(Event) :
              \A m \in 0..Len(cc) : P(aa, bb, cc, m)
        BY EventsFlush
      <4> HIDE DEF P
      <4>2. P(a, b, c, n)
        BY <3>1, <3>2, <4>1
      <4> QED BY <4>2 DEF P
    <3> QED BY <3>1, <3>3
  <2> HIDE DEF ch, ob
  <2>4. /\ f \in RequestRow /\ f.send = q.send /\ f.recv = q.recv /\ f.phase = q.phase
        /\ f.ticket = q.ticket /\ f.left = q.left /\ f.counted = q.counted
        /\ f.made = q.made /\ f.heard = q.heard /\ f.cancel = q.cancel
        /\ f.seen = q.seen /\ f.chan = ch /\ f.outbox = ob
    BY <2>3 DEF RequestRow
  <2> HIDE DEF f
  <2> QED BY <2>1, <2>2, <2>3, <2>4 DEF Events
<1> QED BY <1>1, <1>2

LEMMA SettledEffect ==
  ASSUME NEW q \in RequestRow, Len(q.chan) <= EventBuffer
  PROVE  /\ Settled(q) \in RequestRow /\ Settled(q).recv = q.recv
         /\ Settled(q).phase = q.phase /\ Len(Settled(q).chan) <= EventBuffer
         /\ Settled(q).send = (q.send /\ Settled(q).outbox # <<>>)
         /\ Settled(q).send => Settled(q).ticket = q.ticket
         /\ Settled(q).ticket \in {0, q.ticket}
         /\ q.recv => /\ Settled(q).counted = q.counted /\ Settled(q).left = q.left
                      /\ Settled(q).ticket = q.ticket
                      /\ Events(Settled(q)) = Events(q)
                      /\ Settled(q).send => Settled(q).cancel = q.cancel
         /\ ~q.recv => Settled(q).counted \in {FALSE, q.counted}
<1> DEFINE f == Flushed(q)
<1>1. /\ f \in RequestRow /\ f.send = q.send /\ f.recv = q.recv
      /\ f.phase = q.phase /\ f.ticket = q.ticket
      /\ f.left = q.left /\ f.counted = q.counted
      /\ Len(f.chan) <= EventBuffer
      /\ q.recv => f.cancel = q.cancel /\ Events(f) = Events(q)
  BY FlushedEffect
<1> HIDE DEF f
<1>2. CASE f.outbox = <<>>
  <2> DEFINE g == [f EXCEPT !.cancel = TRUE]
  <2>1. Settled(q) = Dropped(g)
    BY <1>2 DEF Settled, f
  <2>2. /\ g \in RequestRow /\ g.send = f.send /\ g.recv = f.recv /\ g.phase = f.phase
        /\ g.ticket = f.ticket /\ g.left = f.left /\ g.counted = f.counted
        /\ g.chan = f.chan /\ g.seen = f.seen /\ g.outbox = <<>>
    BY <1>1, <1>2 DEF RequestRow
  <2> HIDE DEF g
  <2> DEFINE d == Dropped(g)
  <2>3. /\ d \in RequestRow /\ ~d.send /\ d.recv = g.recv
        /\ d.phase = g.phase
        /\ g.recv => /\ d.ticket = g.ticket /\ d.left = g.left
                     /\ d.counted = g.counted /\ d.chan = g.chan
                     /\ d.seen = g.seen
        /\ d.outbox = <<>>
        /\ ~g.recv => d.ticket = 0 /\ ~d.counted /\ d.chan = <<>>
    BY <2>2, DroppedEffect
  <2> HIDE DEF d
  <2>5. q.recv => Events(d) = Events(q)
    BY <1>1, <1>2, <2>2, <2>3 DEF Events
  <2>6. Len(<<>>) <= EventBuffer /\ d.send = FALSE /\ q.recv \in BOOLEAN
    BY Capacities, <2>3 DEF RequestRow
  <2>7. Settled(q) = d
    BY <2>1 DEF d
  <2>8. Len(d.chan) <= EventBuffer
    BY <1>1, <2>2, <2>3, <2>6
  <2>9. /\ d.recv = q.recv /\ d.phase = q.phase
        /\ d.send = (q.send /\ d.outbox # <<>>)
    BY <1>1, <2>2, <2>3, <2>6
  <2>10. d.ticket \in {0, q.ticket} /\ (~q.recv => d.counted \in {FALSE, q.counted})
    BY <1>1, <2>2, <2>3, <2>6 DEF RequestRow
  <2>11. q.recv => d.counted = q.counted /\ d.left = q.left /\ d.ticket = q.ticket
    BY <1>1, <2>2, <2>3, <2>6
  <2> QED BY <2>3, <2>5, <2>6, <2>7, <2>8, <2>9, <2>10, <2>11
<1>3. CASE f.outbox # <<>>
  <2>1. Settled(q) = f /\ q.send \in BOOLEAN
    BY <1>3 DEF Settled, f, RequestRow
  <2> QED BY <1>1, <1>3, <2>1
<1> QED BY <1>2, <1>3

(***************************************************************************)
(* Rows, places and releases, one at a time.                               *)
(***************************************************************************)
(* What holds of a row stays true when its request only leaves places. *)
LEMMA RowMoves ==
  ASSUME NEW r, NEW q, PhaseInv(r, q), StreamInv(r, q),
         Unstarted(r)' => Unstarted(r), r \in running' => r \in running,
         r \in draining' => r \in draining, pc = "stopped" => pc' = "stopped"
  PROVE  PhaseInv(r, q)' /\ StreamInv(r, q)'
<1>1. PhaseInv(r, q)'
  BY DEF PhaseInv
<1>2. StreamInv(r, q)'
  <2> SUFFICES ASSUME q.recv PROVE StreamInv(r, q)'
    BY DEF StreamInv
  <2>1. OpenStream(q)' <=> OpenStream(q)
    BY DEF OpenStream, Events, Lead, Piece, Mark
  <2>2. InOrder(Events(q))' <=> InOrder(Events(q))
    BY DEF InOrder, Events, Lead, Piece, Mark, Terminal
  <2>3. Ends(Events(q))' <=> Ends(Events(q))
    BY DEF Ends, Events, Mark, Terminal
  <2> QED BY <2>1, <2>2, <2>3 DEF StreamInv
<1> QED BY <1>1, <1>2

(* The same events, delivered further. *)
LEMMA StreamKeeps ==
  ASSUME NEW r, NEW q, NEW j, StreamInv(r, q), j.recv => q.recv,
         j.recv => /\ Events(j) = Events(q) /\ j.made = q.made /\ j.heard = q.heard
                   /\ j.ticket = q.ticket /\ (q.left => j.left) /\ j.send = q.send,
         Unstarted(r) /\ j.recv => j.seen = q.seen /\ j.chan = q.chan /\ j.outbox = q.outbox
  PROVE  StreamInv(r, j)
BY DEF StreamInv, OpenStream

LEMMA ReturnedRow ==
  ASSUME NEW r, NEW q \in RequestRow, q.phase \in {"left", "orphan"} => r \in Clients,
         Unstarted(r) => q.phase \in {"left", "orphan"}
  PROVE  PhaseInv(r, Returned(q)) /\ StreamInv(r, Returned(q))
<1> DEFINE j == Returned(q)
<1>1. /\ j \in RequestRow /\ ~j.recv /\ ~j.counted /\ j.send = q.send /\ j.chan = <<>>
      /\ j.phase = IF q.phase \in {"left", "orphan"} THEN "left" ELSE "done"
  BY ReturnedEffect
<1> HIDE DEF j
<1>2. Len(j.chan) <= EventBuffer
  BY <1>1, Capacities
<1>3. PhaseInv(r, j)
  BY <1>1, <1>2 DEF PhaseInv, Attended
<1>4. StreamInv(r, j)
  BY <1>1 DEF StreamInv
<1> QED BY <1>3, <1>4 DEF j

(* Jobs only leave places, and keep their tickets while they have one. *)
LEMMA PlacesKeep ==
  ASSUME WorkerTypeOK, PlacesInv, WorkerTypeOK', queue' = queue, waiting' = waiting,
         sent' = sent, running' \cup draining' \subseteq running \cup draining,
         running' \cap draining' = {},
         \A r \in Requests :
           /\ reqs'[r].send <=> (Unstarted(r) \/ r \in running' \cup draining')
           /\ reqs'[r].send => reqs[r].send /\ reqs'[r].ticket = reqs[r].ticket
           /\ reqs'[r].ticket \in {0, reqs[r].ticket}
  PROVE  PlacesInv'
<1>1. \A r \in Requests : Unstarted(r)' <=> Unstarted(r)
  BY DEF Unstarted, Queued
<1>2. Queued' = Queued
  BY DEF Queued
<1>3. \A i \in 1..Len(queue) : queue[i] \in Requests /\ Unstarted(queue[i])
  BY DEF WorkerTypeOK, Unstarted, Queued
<1>4. \A i \in 1..Len(queue) : reqs'[queue[i]].ticket = reqs[queue[i]].ticket
  BY <1>3
<1>5. waiting # NoJob => reqs'[waiting].ticket = reqs[waiting].ticket
  BY DEF WorkerTypeOK, Unstarted
<1>6. \A r \in Requests : reqs'[r].ticket <= sent /\ (reqs'[r].send => reqs'[r].ticket # 0)
  BY DEF PlacesInv, WorkerTypeOK
<1> QED BY <1>1, <1>2, <1>4, <1>5, <1>6 DEF PlacesInv

(* Who a release, now or later, will wake a deferred resumption. *)
Wakes(r) ==
  \/ reqs[r].counted \/ reqs[r].phase = "submitting"
  \/ r \in Clients /\ reqs[r].phase \in {"orphan", "left"}

LEMMA WokenKeeps ==
  ASSUME DeferredIsWoken, task' = "waiting" => task = "waiting", permit => permit',
         \A r \in Requests : Wakes(r) => permit' \/ Wakes(r)'
  PROVE  DeferredIsWoken'
BY Capacities DEF DeferredIsWoken, Wakes

(* A step of the reader of s. *)
LEMMA ReaderKeeps ==
  ASSUME WorkerIInv, NEW s \in Requests, NEW j \in RequestRow,
         reqs' = [reqs EXCEPT ![s] = j],
         UNCHANGED <<queue, waiting, running, draining, pc, flushed, handle, task, sent>>,
         permit' \in BOOLEAN, permit => permit',
         j.send = reqs[s].send, j.ticket \in {0, reqs[s].ticket},
         j.send => j.ticket = reqs[s].ticket,
         Wakes(s) => \/ permit' \/ j.counted \/ j.phase = "submitting"
                     \/ s \in Clients /\ j.phase \in {"orphan", "left"},
         PhaseInv(s, j), StreamInv(s, j)
  PROVE  WorkerIInv'
<1> USE DEF WorkerIInv
<1>1. /\ reqs'[s] = j
      /\ \A r \in Requests : r # s => reqs'[r] = reqs[r]
  BY DEF WorkerTypeOK
<1>2. WorkerTypeOK'
  BY DEF WorkerTypeOK
<1>3. PlacesInv'
  <2>1. \A r \in Requests : reqs[r].send <=> (Unstarted(r) \/ r \in running \cup draining)
    BY DEF PlacesInv
  <2>2. \A r \in Requests : /\ reqs'[r].send <=> (Unstarted(r) \/ r \in running' \cup draining')
                            /\ reqs'[r].send => reqs[r].send /\ reqs'[r].ticket = reqs[r].ticket
                            /\ reqs'[r].ticket \in {0, reqs[r].ticket}
    BY <1>1, <2>1
  <2>3. running \cap draining = {}
    BY DEF PlacesInv
  <2> QED BY <1>2, <2>2, <2>3, PlacesKeep
<1>4. DeferredIsWoken'
  <2>1. \A r \in Requests : Wakes(r) => permit' \/ Wakes(r)'
    BY <1>1 DEF Wakes
  <2> QED BY <2>1, WokenKeeps
<1>5. ASSUME NEW r \in Requests PROVE PhaseInv(r, reqs[r])' /\ StreamInv(r, reqs[r])'
  <2>1. PICK q : q = reqs'[r] /\ PhaseInv(r, q) /\ StreamInv(r, q)
    BY <1>1
  <2>2. Unstarted(r)' => Unstarted(r)
    BY DEF Unstarted, Queued
  <2>3. PhaseInv(r, q)' /\ StreamInv(r, q)'
    BY <2>1, <2>2, RowMoves
  <2> QED BY <2>1, <2>3
<1> QED BY <1>2, <1>3, <1>4, <1>5

(***************************************************************************)
(* The readers.                                                            *)
(***************************************************************************)
LEMMA RowOf ==
  ASSUME WorkerIInv, NEW r \in Requests
  PROVE  /\ reqs[r] \in RequestRow /\ PhaseInv(r, reqs[r]) /\ StreamInv(r, reqs[r])
         /\ reqs[r].send <=> (Unstarted(r) \/ r \in running \cup draining)
         /\ reqs[r].ticket \in Nat /\ reqs[r].ticket <= sent /\ sent \in Nat
         /\ reqs[r].send => reqs[r].ticket # 0
BY DEF WorkerIInv, WorkerTypeOK, PlacesInv, RequestRow

LEMMA CountKeeps ==
  ASSUME WorkerIInv, NEW s \in Requests, Count(s)
  PROVE  WorkerIInv'
<1> DEFINE q == reqs[s]
           j == [q EXCEPT !.phase = "first", !.counted = TRUE]
<1>1. /\ q \in RequestRow /\ PhaseInv(s, q) /\ StreamInv(s, q) /\ q.phase = "submitting"
      /\ reqs' = [reqs EXCEPT ![s] = j]
  BY RowOf DEF Count
<1> HIDE DEF q
<1>2. /\ j \in RequestRow /\ j.phase = "first" /\ j.counted /\ j.ticket = q.ticket
      /\ j.cancel = q.cancel /\ j.left = q.left /\ j.recv = q.recv /\ j.send = q.send
      /\ j.chan = q.chan /\ j.outbox = q.outbox /\ j.made = q.made /\ j.heard = q.heard
      /\ j.seen = q.seen
  BY <1>1 DEF RequestRow, Attended
<1> HIDE DEF j
<1>3. PhaseInv(s, j)
  BY <1>1, <1>2 DEF PhaseInv, Attended
<1>4. StreamInv(s, j)
  BY <1>1, <1>2, StreamKeeps DEF Events
<1>5. permit' \in BOOLEAN /\ (permit => permit')
  BY DEF Count, WorkerIInv, WorkerTypeOK
<1> QED BY <1>1, <1>2, <1>3, <1>4, <1>5, ReaderKeeps DEF Count, q

LEMMA ClientReadsKeeps ==
  ASSUME WorkerIInv, NEW s \in Requests, ClientReads(s)
  PROVE  WorkerIInv'
<1> DEFINE q == reqs[s]
           j == [q EXCEPT !.phase = "pump"]
<1>1. /\ q \in RequestRow /\ PhaseInv(s, q) /\ StreamInv(s, q) /\ q.phase = "stuck"
      /\ reqs' = [reqs EXCEPT ![s] = j]
  BY RowOf DEF ClientReads
<1> HIDE DEF q
<1>2. /\ j \in RequestRow /\ j.phase = "pump" /\ j.counted = q.counted
      /\ j.ticket = q.ticket
      /\ j.cancel = q.cancel /\ j.left = q.left /\ j.recv = q.recv /\ j.send = q.send
      /\ j.chan = q.chan /\ j.outbox = q.outbox /\ j.made = q.made /\ j.heard = q.heard
      /\ j.seen = q.seen
  BY <1>1 DEF RequestRow, Attended
<1> HIDE DEF j
<1>3. PhaseInv(s, j) /\ j.counted
  BY <1>1, <1>2 DEF PhaseInv, Attended
<1>4. StreamInv(s, j)
  BY <1>1, <1>2, StreamKeeps DEF Events
<1>5. permit' \in BOOLEAN /\ (permit => permit')
  BY DEF ClientReads, WorkerIInv, WorkerTypeOK
<1> QED BY <1>1, <1>2, <1>3, <1>4, <1>5, ReaderKeeps DEF ClientReads, q

LEMMA CancelKeeps ==
  ASSUME WorkerIInv, NEW s \in Requests, CancelRequest(s)
  PROVE  WorkerIInv'
<1> DEFINE q == reqs[s]
           j == [q EXCEPT !.cancel = TRUE, !.left = TRUE]
<1>1. /\ q \in RequestRow /\ PhaseInv(s, q) /\ StreamInv(s, q) /\ q.phase \in Reading
      /\ reqs' = [reqs EXCEPT ![s] = j]
  BY RowOf DEF CancelRequest
<1> HIDE DEF q
<1>2. /\ j \in RequestRow /\ j.phase = q.phase /\ j.counted = q.counted
      /\ j.ticket = q.ticket
      /\ j.left /\ j.recv = q.recv /\ j.send = q.send
      /\ j.chan = q.chan /\ j.outbox = q.outbox /\ j.made = q.made /\ j.heard = q.heard
      /\ j.seen = q.seen
  BY <1>1 DEF RequestRow, Attended
<1> HIDE DEF j
<1>3. PhaseInv(s, j)
  BY <1>1, <1>2 DEF PhaseInv, Attended, Reading
<1>4. StreamInv(s, j)
  BY <1>1, <1>2, StreamKeeps DEF Events
<1>5. permit' \in BOOLEAN /\ (permit => permit')
  BY DEF CancelRequest, WorkerIInv, WorkerTypeOK
<1>6. j.counted \/ (s \in Clients /\ j.phase \in {"orphan", "left"})
  <2>1. j.phase \in {"first", "pump"} \/ j.phase = "orphan"
    BY <1>1, <1>2 DEF Reading
  <2>2. CASE j.phase \in {"first", "pump"}
    BY <1>3, <2>2 DEF PhaseInv, Attended
  <2>3. CASE j.phase = "orphan"
    BY <1>3, <2>3 DEF PhaseInv
  <2> QED BY <2>1, <2>2, <2>3
<1> QED BY <1>1, <1>2, <1>3, <1>4, <1>5, <1>6, ReaderKeeps DEF CancelRequest, q

(* The reader q of s returns. *)
LEMMA ReturnKeeps ==
  ASSUME WorkerIInv, NEW s \in Requests, NEW q \in RequestRow,
         reqs' = [reqs EXCEPT ![s] = Returned(q)],
         UNCHANGED <<queue, waiting, running, draining, pc, flushed, handle, task, sent>>,
         ReleaseOf(reqs[s]),
         q.send = reqs[s].send, q.ticket = reqs[s].ticket,
         q.phase \in {"left", "orphan"} => s \in Clients,
         q.phase = reqs[s].phase \/ q.phase = "left",
         reqs[s].phase = "submitting" => q.phase = "left",
         Unstarted(s) => q.phase \in {"left", "orphan"}
  PROVE  WorkerIInv'
<1> DEFINE j == Returned(q)
<1>1. /\ j \in RequestRow /\ j.send = q.send
      /\ j.phase = IF q.phase \in {"left", "orphan"} THEN "left" ELSE "done"
      /\ j.ticket = IF q.send THEN q.ticket ELSE 0
  BY ReturnedEffect
<1>2. PhaseInv(s, j) /\ StreamInv(s, j)
  BY ReturnedRow
<1> HIDE DEF j
<1>3. permit' \in BOOLEAN /\ (permit => permit') /\ (reqs[s].counted => permit')
  BY RowOf DEF ReleaseOf, WorkerIInv, WorkerTypeOK, RequestRow
<1>4. Wakes(s) => permit' \/ (s \in Clients /\ j.phase = "left")
  <2> SUFFICES ASSUME Wakes(s), ~permit' PROVE s \in Clients /\ j.phase = "left"
    OBVIOUS
  <2>1. ~reqs[s].counted
    BY <1>3
  <2>2. q.phase \in {"left", "orphan"}
    BY <2>1 DEF Wakes
  <2> QED BY <1>1, <2>2
<1>5. j.send = reqs[s].send /\ j.ticket \in {0, reqs[s].ticket}
      /\ (j.send => j.ticket = reqs[s].ticket)
  BY <1>1
<1>6. reqs' = [reqs EXCEPT ![s] = j]
  BY DEF j
<1> QED BY <1>1, <1>2, <1>3, <1>4, <1>5, <1>6, ReaderKeeps

LEMMA StallOutKeeps ==
  ASSUME WorkerIInv, NEW s \in Requests, StallOut(s)
  PROVE  WorkerIInv'
<1> DEFINE q == reqs[s]
<1>1. /\ q \in RequestRow /\ PhaseInv(s, q) /\ q.phase = "stuck"
      /\ reqs' = [reqs EXCEPT ![s] = Returned(q)]
  BY RowOf DEF StallOut
<1>2. ~Unstarted(s)
  BY <1>1 DEF PhaseInv
<1> QED BY <1>1, <1>2, ReturnKeeps DEF StallOut

LEMMA LeaveKeeps ==
  ASSUME WorkerIInv, NEW s \in Requests, Leave(s)
  PROVE  WorkerIInv'
<1> DEFINE q == reqs[s]
           p == [q EXCEPT !.left = TRUE]
           o == [p EXCEPT !.phase = "orphan", !.cancel = TRUE, !.counted = FALSE]
           l == [p EXCEPT !.phase = "left"]
<1>1. /\ q \in RequestRow /\ PhaseInv(s, q) /\ StreamInv(s, q)
      /\ s \in Clients /\ q.phase \in {"submitting", "first"}
      /\ reqs' = [reqs EXCEPT ![s] = IF p.phase = "first" /\ p.kind # "decision"
                                     THEN o ELSE Returned(l)]
      /\ ReleaseOf(p)
  <2>1. q \in RequestRow
    BY RowOf
  <2>2. p.phase = q.phase
    BY <2>1 DEF RequestRow
  <2> QED BY <2>1, <2>2, RowOf DEF Leave
<1> HIDE DEF q
<1>2. /\ p \in RequestRow /\ p.phase = q.phase /\ p.counted = q.counted
      /\ p.ticket = q.ticket
      /\ p.cancel = q.cancel /\ p.left /\ p.recv = q.recv /\ p.send = q.send
      /\ p.chan = q.chan /\ p.outbox = q.outbox /\ p.made = q.made /\ p.heard = q.heard
      /\ p.seen = q.seen
  BY <1>1 DEF RequestRow
<1> HIDE DEF p
<1>3. ReleaseOf(q)
  BY <1>1, <1>2 DEF ReleaseOf
<1>4. CASE p.phase = "first" /\ p.kind # "decision"
  <2>1. /\ o \in RequestRow /\ o.phase = "orphan" /\ ~o.counted /\ o.ticket = p.ticket
        /\ o.left = p.left /\ o.recv = p.recv /\ o.send = p.send
        /\ o.chan = p.chan /\ o.outbox = p.outbox /\ o.made = p.made
        /\ o.heard = p.heard
        /\ o.seen = p.seen
    BY <1>2 DEF RequestRow
  <2>2. reqs' = [reqs EXCEPT ![s] = o]
    BY <1>1, <1>4
  <2> HIDE DEF o
  <2>3. PhaseInv(s, o)
    BY <1>1, <1>2, <2>1 DEF PhaseInv, Attended
  <2>4. StreamInv(s, o)
    BY <1>1, <1>2, <2>1, StreamKeeps DEF Events
  <2>5. permit' \in BOOLEAN /\ (permit => permit')
    BY <1>1, <1>3 DEF ReleaseOf, WorkerIInv, WorkerTypeOK, RequestRow
  <2> QED BY <1>1, <1>2, <2>1, <2>2, <2>3, <2>4, <2>5, ReaderKeeps DEF Leave, q
<1>5. CASE ~(p.phase = "first" /\ p.kind # "decision")
  <2>1. /\ l \in RequestRow /\ l.phase = "left" /\ l.send = p.send
        /\ l.ticket = p.ticket
    BY <1>2 DEF RequestRow
  <2>2. reqs' = [reqs EXCEPT ![s] = Returned(l)]
    BY <1>1, <1>5
  <2> HIDE DEF l
  <2>3. ReleaseOf(reqs[s]) /\ l.send = reqs[s].send /\ l.ticket = reqs[s].ticket
    BY <1>2, <1>3, <2>1 DEF q
  <2> QED BY <1>1, <2>1, <2>2, <2>3, ReturnKeeps DEF Leave
<1> QED BY <1>4, <1>5

LEMMA ReadSignalKeeps ==
  ASSUME WorkerIInv, NEW s \in Requests, ReadSignal(s)
  PROVE  WorkerIInv'
<1> DEFINE q == reqs[s]
           sn == Append(q.seen, Head(q.chan))
           ch == Tail(q.chan)
           got == [q EXCEPT !.seen = sn, !.chan = ch]
<1>1. /\ q \in RequestRow /\ PhaseInv(s, q) /\ StreamInv(s, q) /\ q.phase \in Reading
      /\ q.send <=> (Unstarted(s) \/ s \in running \cup draining)
  BY RowOf DEF ReadSignal
<1>2. q.recv /\ q.seen \in Seq(Event) /\ q.chan \in Seq(Event) /\ q.outbox \in Seq(Event)
  BY <1>1 DEF PhaseInv, Reading, RequestRow
<1>3. CASE q.chan # <<>>
  <2>1. sn \in Seq(Event) /\ ch \in Seq(Event) /\ Len(ch) <= Len(q.chan)
    BY <1>2, <1>3
  <2>2. sn \o ch \o q.outbox = q.seen \o q.chan \o q.outbox
    <3>1. PICK a \in Seq(Event), b \in Seq(Event), c \in Seq(Event) :
            a = q.seen /\ b = q.chan /\ c = q.outbox
      BY <1>2
    <3>2. Mark("error") \in Event
      BY MarkType
    <3>3. Append(a, Head(b)) \o Tail(b) \o c = a \o b \o c
      <4> DEFINE P(aa, bb, cc) ==
                   bb # <<>> => Append(aa, Head(bb)) \o Tail(bb) \o cc = aa \o bb \o cc
      <4>1. \A aa \in Seq(Event), bb \in Seq(Event), cc \in Seq(Event) : P(aa, bb, cc)
        BY <3>2, EventsMove
      <4> HIDE DEF P
      <4>2. P(a, b, c)
        BY <3>1, <4>1
      <4> QED BY <1>3, <3>1, <4>2 DEF P
    <3> QED BY <3>1, <3>3
  <2>3. ~Unstarted(s)
    BY <1>1, <1>2, <1>3 DEF StreamInv
  <2>4. \/ reqs' = [reqs EXCEPT ![s] = Returned(got)] /\ ReleaseOf(q)
        \/ /\ Head(q.chan) \notin Terminal /\ q.phase # "orphan" /\ UNCHANGED permit
           /\ \E phase \in {"pump", "stuck"} :
                /\ phase = "stuck" => s \in Clients
                /\ reqs' = [reqs EXCEPT ![s] = [got EXCEPT !.phase = phase]]
    BY <1>3 DEF ReadSignal
  <2>5. /\ got \in RequestRow /\ got.phase = q.phase /\ got.counted = q.counted
        /\ got.ticket = q.ticket /\ got.cancel = q.cancel /\ got.left = q.left
        /\ got.recv = q.recv /\ got.send = q.send /\ got.chan = ch
        /\ got.outbox = q.outbox
        /\ got.made = q.made /\ got.heard = q.heard /\ got.seen = sn
    <3> HIDE DEF sn, ch, q
    <3> QED BY <1>1, <2>1 DEF RequestRow
  <2>6. Events(got) = Events(q)
    BY <2>2, <2>5 DEF Events
  <2> HIDE DEF got
  <2>7. CASE reqs' = [reqs EXCEPT ![s] = Returned(got)] /\ ReleaseOf(q)
    <3>1. got.phase \in {"left", "orphan"} => s \in Clients
      BY <1>1, <2>5 DEF PhaseInv
    <3>2. reqs[s].phase # "submitting"
      BY <1>1 DEF Reading
    <3> QED BY <2>3, <2>5, <2>7, <3>1, <3>2, ReturnKeeps DEF ReadSignal
  <2>8. CASE /\ Head(q.chan) \notin Terminal /\ q.phase # "orphan" /\ UNCHANGED permit
             /\ \E phase \in {"pump", "stuck"} :
                  /\ phase = "stuck" => s \in Clients
                  /\ reqs' = [reqs EXCEPT ![s] = [got EXCEPT !.phase = phase]]
    <3>1. PICK phase \in {"pump", "stuck"} :
            reqs' = [reqs EXCEPT ![s] = [got EXCEPT !.phase = phase]]
      BY <2>8
    <3> DEFINE j == [got EXCEPT !.phase = phase]
    <3>2. /\ j \in RequestRow /\ j.phase = phase /\ j.counted = got.counted
          /\ j.ticket = got.ticket /\ j.cancel = got.cancel /\ j.left = got.left
          /\ j.recv = got.recv /\ j.send = got.send /\ j.chan = got.chan
          /\ j.outbox = got.outbox /\ j.made = got.made /\ j.heard = got.heard
          /\ j.seen = got.seen
      BY <2>5, <3>1 DEF RequestRow, Attended
    <3>3. reqs' = [reqs EXCEPT ![s] = j]
      BY <3>1
    <3> HIDE DEF j
    <3>4. Len(j.chan) <= EventBuffer
      <4>1. Len(ch) \in Nat /\ Len(q.chan) \in Nat /\ Len(q.chan) <= EventBuffer
        BY <1>1, <1>2, <2>1, LenProperties DEF PhaseInv
      <4>2. Len(j.chan) = Len(ch)
        BY <2>5, <3>2
      <4> QED BY <2>1, <4>1, <4>2, Capacities
    <3>5. PhaseInv(s, j) /\ j.counted
      <4> HIDE DEF q, sn, ch
      <4> QED BY <1>1, <1>2, <2>3, <2>5, <2>8, <3>1, <3>2, <3>4 DEF PhaseInv,
         Attended, Reading
    <3>6. StreamInv(s, j)
      <4>1. Events(j) = Events(q)
        BY <2>6, <3>2 DEF Events
      <4> HIDE DEF q, sn, ch
      <4> QED BY <1>1, <2>3, <2>5, <3>2, <4>1, StreamKeeps
    <3>7. permit' \in BOOLEAN /\ (permit => permit')
      BY <2>8 DEF WorkerIInv, WorkerTypeOK
    <3> QED BY <2>5, <3>2, <3>3, <3>5, <3>6, <3>7, ReaderKeeps DEF ReadSignal
  <2> QED BY <2>4, <2>7, <2>8
<1>4. CASE q.chan = <<>>
  <2>1. ~q.send /\ reqs' = [reqs EXCEPT ![s] = Returned(q)] /\ ReleaseOf(q)
    BY <1>4 DEF ReadSignal
  <2>2. ~Unstarted(s)
    BY <1>1, <2>1
  <2>3. /\ q.phase \in {"left", "orphan"} => s \in Clients
        /\ q.phase # "submitting"
    BY <1>1 DEF PhaseInv, Reading
  <2> QED BY <1>1, <2>1, <2>2, <2>3, ReturnKeeps DEF ReadSignal
<1> QED BY <1>3, <1>4

(***************************************************************************)
(* Jobs are sent.                                                          *)
(***************************************************************************)
LEMMA NoEvents ==
  ASSUME NEW q, q.seen = <<>>, q.chan = <<>>, q.outbox = <<>>
  PROVE  Events(q) = <<>> /\ InOrder(Events(q)) /\ Lead(Events(q)) = 0
<1>1. Events(q) = <<>>
  BY DEF Events
<1> QED BY <1>1 DEF InOrder, Lead

LEMMA SendKeeps ==
  ASSUME WorkerIInv, NEW s \in Requests, reqs[s].phase = "new", NEW p \in RequestRow,
         p.phase \in {"submitting", "pump"}, p.counted <=> p.phase = "pump",
         ~p.cancel, ~p.left, p.recv, ~p.heard, p.made = 0,
         p.chan = <<>>, p.outbox = <<>>, p.seen = <<>>,
         Send(s, p), UNCHANGED <<waiting, running, draining, pc, flushed, handle, permit, task>>
  PROVE  WorkerIInv'
<1>0. sent \in Nat /\ queue \in Seq(Requests) /\ reqs \in [Requests -> RequestRow]
  BY DEF WorkerIInv, WorkerTypeOK
<1>13. PICK next \in Nat : next = sent + 1
  BY <1>0
<1> DEFINE j == [p EXCEPT !.send = TRUE, !.ticket = next]
<1>1. /\ j \in RequestRow /\ j.send /\ j.ticket = next /\ j.phase = p.phase
      /\ j.counted = p.counted /\ j.cancel = p.cancel /\ j.left = p.left
      /\ j.recv = p.recv
      /\ j.heard = p.heard /\ j.made = p.made /\ j.chan = p.chan /\ j.outbox = p.outbox
      /\ j.seen = p.seen
  BY <1>13 DEF RequestRow
<1>2. reqs' = [reqs EXCEPT ![s] = j] /\ queue' = Append(queue, s) /\ sent' = next
  BY <1>13 DEF Send
<1> HIDE DEF j
<1>3. /\ reqs'[s] = j
      /\ \A r \in Requests : r # s => reqs'[r] = reqs[r]
  BY <1>0, <1>2
<1>4. ~reqs[s].send /\ ~Unstarted(s) /\ s \notin running \cup draining
  BY RowOf DEF PhaseInv
<1>5. /\ queue' \in Seq(Requests) /\ Len(queue') = Len(queue) + 1 /\ queue'[Len(queue')] = s
      /\ \A i \in 1..Len(queue) : queue'[i] = queue[i] /\ queue[i] \in Requests /\ queue[i] # s
  BY <1>0, <1>2, <1>4 DEF Unstarted, Queued
<1>6. Len(queue) \in Nat
  BY <1>0, LenProperties
<1>7. Queued' = Queued \cup {s}
  BY <1>5, <1>6 DEF Queued
<1>8. /\ \A r \in Requests : r # s => (Unstarted(r)' <=> Unstarted(r))
      /\ Unstarted(s)'
  BY <1>7 DEF Unstarted
<1>9. WorkerTypeOK'
  <2>1. reqs' \in [Requests -> RequestRow] /\ sent' \in Nat
    BY <1>0, <1>1, <1>2, <1>13
  <2> QED BY <1>5, <2>1 DEF WorkerIInv, WorkerTypeOK
<1>10. PlacesInv'
  <2> USE DEF WorkerIInv
  <2>1. \A r \in Requests : reqs'[r].send <=> (Unstarted(r)' \/ r \in running' \cup draining')
    <3> SUFFICES ASSUME NEW r \in Requests
                 PROVE  reqs'[r].send <=> (Unstarted(r)' \/ r \in running' \cup draining')
      OBVIOUS
    <3>1. CASE r = s
      BY <1>1, <1>3, <1>8, <3>1
    <3>2. CASE r # s
      BY <1>3, <1>8, <3>2, RowOf
    <3> QED BY <3>1, <3>2
  <2>2. \A r \in Requests : Unstarted(r)' => r \notin running' \cup draining'
    BY <1>4, <1>8 DEF PlacesInv
  <2>3. running' \cap draining' = {} /\ waiting' \notin Queued'
    <3>1. running \cap draining = {} /\ waiting \notin Queued
      BY DEF PlacesInv
    <3>2. waiting # s
      BY <1>4 DEF Unstarted
    <3> QED BY <1>7, <3>1, <3>2
  <2>4. \A r \in Requests : reqs[r].ticket \in Nat /\ reqs[r].ticket <= sent
    BY RowOf
  <2>5. \A i \in 1..Len(queue) : reqs'[queue'[i]].ticket = reqs[queue[i]].ticket
                                 /\ reqs[queue[i]].ticket \in Nat
                                 /\ reqs[queue[i]].ticket <= sent
    BY <1>3, <1>5, <2>4
  <2>6. reqs'[queue'[Len(queue')]].ticket = sent + 1
    BY <1>1, <1>3, <1>5, <1>13
  <2>7. ASSUME NEW i \in 1..Len(queue'), NEW k \in 1..Len(queue'), i < k
        PROVE  reqs'[queue'[i]].ticket < reqs'[queue'[k]].ticket
    <3>1. i \in 1..Len(queue)
      BY <1>5, <1>6, <2>7
    <3>2. CASE k = Len(queue')
      BY <1>0, <2>5, <2>6, <3>1, <3>2
    <3>3. CASE k # Len(queue')
      <4>1. k \in 1..Len(queue)
        BY <1>5, <1>6, <3>3
      <4>2. reqs[queue[i]].ticket < reqs[queue[k]].ticket
        BY <2>7, <3>1, <4>1 DEF PlacesInv
      <4> QED BY <2>5, <3>1, <4>1, <4>2
    <3> QED BY <3>2, <3>3
  <2>8. ASSUME waiting' # NoJob, NEW i \in 1..Len(queue')
        PROVE  reqs'[waiting'].ticket < reqs'[queue'[i]].ticket
    <3>1. waiting \in Requests /\ waiting # s /\ waiting' = waiting
      BY <1>4, <2>8 DEF WorkerTypeOK, Unstarted
    <3>2. reqs'[waiting].ticket = reqs[waiting].ticket
      BY <1>3, <3>1
    <3>3. CASE i = Len(queue')
      BY <1>0, <2>4, <2>6, <3>1, <3>2, <3>3
    <3>4. CASE i # Len(queue')
      <4>1. i \in 1..Len(queue)
        BY <1>5, <1>6, <3>4
      <4>2. reqs[waiting].ticket < reqs[queue[i]].ticket
        BY <2>8, <3>1, <4>1 DEF PlacesInv
      <4> QED BY <2>5, <3>1, <3>2, <4>1, <4>2
    <3> QED BY <3>3, <3>4
  <2>9. \A r \in Requests : reqs'[r].ticket <= sent' /\ (reqs'[r].send => reqs'[r].ticket # 0)
    <3> SUFFICES ASSUME NEW r \in Requests
                 PROVE  reqs'[r].ticket <= sent' /\ (reqs'[r].send => reqs'[r].ticket # 0)
      OBVIOUS
    <3>1. CASE r = s
      BY <1>0, <1>1, <1>2, <1>3, <1>13, <3>1
    <3>2. CASE r # s
      <4>1. reqs[r].send => reqs[r].ticket # 0
        BY RowOf
      <4> QED BY <1>0, <1>2, <1>3, <1>13, <2>4, <3>2, <4>1
    <3> QED BY <3>1, <3>2
  <2>10. waiting' # NoJob =>
           \A i \in 1..Len(queue') : reqs'[waiting'].ticket < reqs'[queue'[i]].ticket
    BY <2>8
  <2>11. \A i, k \in 1..Len(queue') : i < k => reqs'[queue'[i]].ticket < reqs'[queue'[k]].ticket
    BY <2>7
  <2> QED BY <2>1, <2>2, <2>3, <2>9, <2>10, <2>11 DEF PlacesInv
<1>11. DeferredIsWoken'
  <2>1. ~Wakes(s)
    <3>1. ~reqs[s].counted
      BY RowOf DEF PhaseInv, Attended
    <3> QED BY <3>1 DEF Wakes
  <2>2. \A r \in Requests : Wakes(r) => permit' \/ Wakes(r)'
    BY <1>3, <2>1 DEF Wakes
  <2> QED BY <2>2, WokenKeeps DEF WorkerIInv
<1>12. ASSUME NEW r \in Requests PROVE PhaseInv(r, reqs[r])' /\ StreamInv(r, reqs[r])'
  <2>1. CASE r = s
    <3>1. reqs'[r] = j
      BY <1>3, <2>1
    <3>2. PhaseInv(r, j)'
      <4>1. Len(j.chan) <= EventBuffer
        BY <1>1, Capacities
      <4> QED BY <1>1, <4>1 DEF PhaseInv, Attended
    <3>3. InOrder(Events(j))
      BY <1>1, NoEvents
    <3>4. InOrder(Events(j))'
      BY <3>3 DEF InOrder, Events, Lead, Piece, Mark, Terminal
    <3>5. StreamInv(r, j)'
      BY <1>1, <1>4, <2>1, <3>4 DEF StreamInv
    <3> QED BY <3>1, <3>2, <3>5
  <2>2. CASE r # s
    <3>1. PICK q : q = reqs'[r] /\ PhaseInv(r, q) /\ StreamInv(r, q)
      BY <1>3, <2>2, RowOf
    <3>2. PhaseInv(r, q)' /\ StreamInv(r, q)'
      BY <1>8, <2>2, <3>1, RowMoves
    <3> QED BY <3>1, <3>2
  <2> QED BY <2>1, <2>2
<1> QED BY <1>9, <1>10, <1>11, <1>12 DEF WorkerIInv

LEMMA SubmitKeeps ==
  ASSUME WorkerIInv, NEW s \in Requests, Submit(s)
  PROVE  WorkerIInv'
<1>1. CASE reqs' = [reqs EXCEPT ![s].phase = "done", ![s].recv = FALSE]
           /\ UNCHANGED <<queue, sent>>
  <2> DEFINE q == reqs[s]
             j == [q EXCEPT !.phase = "done", !.recv = FALSE]
  <2>1. /\ q \in RequestRow /\ PhaseInv(s, q) /\ q.phase = "new"
        /\ q.send <=> (Unstarted(s) \/ s \in running \cup draining)
    BY RowOf DEF Submit
  <2>2. reqs' = [reqs EXCEPT ![s] = j]
    BY <1>1 DEF WorkerIInv, WorkerTypeOK
  <2>3. ~q.counted /\ ~q.send /\ ~Unstarted(s)
    BY <2>1 DEF PhaseInv, Attended
  <2> HIDE DEF q
  <2>4. /\ j \in RequestRow /\ j.phase = "done" /\ j.counted = q.counted
        /\ j.ticket = q.ticket /\ ~j.recv /\ j.send = q.send /\ j.chan = q.chan
    BY <2>1 DEF RequestRow
  <2> HIDE DEF j
  <2>5. PhaseInv(s, j)
    BY <2>1, <2>3, <2>4 DEF PhaseInv, Attended
  <2>6. StreamInv(s, j)
    BY <2>4 DEF StreamInv
  <2>7. ~Wakes(s)
    BY <2>1, <2>3 DEF Wakes, q
  <2>8. permit' \in BOOLEAN /\ (permit => permit')
    BY DEF Submit, WorkerIInv, WorkerTypeOK
  <2> QED BY <1>1, <2>2, <2>4, <2>5, <2>6, <2>7, <2>8, ReaderKeeps DEF Submit, q
<1>2. ASSUME NEW kind \in {"chat", "unfit", "decision"},
             Send(s, [Unsent EXCEPT !.phase = "submitting", !.kind = kind])
      PROVE  WorkerIInv'
  <2> DEFINE p == [Unsent EXCEPT !.phase = "submitting", !.kind = kind]
  <2>1. /\ p \in RequestRow /\ p.phase = "submitting" /\ p.counted = Unsent.counted
        /\ p.cancel = Unsent.cancel /\ p.left = Unsent.left /\ p.recv = Unsent.recv
        /\ p.heard = Unsent.heard /\ p.made = Unsent.made /\ p.chan = Unsent.chan
        /\ p.outbox = Unsent.outbox /\ p.seen = Unsent.seen
    BY UnsentType DEF RequestRow
  <2>2. Send(s, p)
    BY <1>2
  <2> HIDE DEF p
  <2>3. reqs[s].phase = "new" /\ UNCHANGED <<waiting, running, draining, pc, flushed, handle,
                                             permit, task>>
    BY DEF Submit
  <2> QED BY <2>1, <2>2, <2>3, UnsentType, SendKeeps
<1> QED BY <1>1, <1>2 DEF Submit

(***************************************************************************)
(* The task that resumes.                                                  *)
(***************************************************************************)
(* A step that changes no row and no place. *)
LEMMA PlaceKeeps ==
  ASSUME WorkerIInv, WorkerTypeOK',
         UNCHANGED <<reqs, queue, waiting, running, draining, sent>>,
         pc = "stopped" => pc' = "stopped", DeferredIsWoken'
  PROVE  WorkerIInv'
<1>1. PlacesInv'
  BY DEF WorkerIInv, PlacesInv, Unstarted, Queued
<1>2. ASSUME NEW r \in Requests PROVE PhaseInv(r, reqs[r])' /\ StreamInv(r, reqs[r])'
  <2>1. PICK q : q = reqs'[r] /\ PhaseInv(r, q) /\ StreamInv(r, q)
    BY RowOf
  <2>2. Unstarted(r)' => Unstarted(r)
    BY DEF Unstarted, Queued
  <2>3. PhaseInv(r, q)' /\ StreamInv(r, q)'
    BY <2>1, <2>2, RowMoves
  <2> QED BY <2>1, <2>3
<1> QED BY <1>1, <1>2 DEF WorkerIInv

LEMMA ResumeEachKeeps ==
  ASSUME WorkerIInv, ResumeEach
  PROVE  WorkerIInv'
<1>1. CASE Deferred = {} /\ task' = "over" /\ UNCHANGED <<reqs, queue, sent>>
  <2>1. WorkerTypeOK'
    BY <1>1 DEF ResumeEach, WorkerIInv, WorkerTypeOK
  <2>2. DeferredIsWoken'
    BY <1>1 DEF DeferredIsWoken
  <2> QED BY <1>1, <2>1, <2>2, PlaceKeeps DEF ResumeEach
<1>2. CASE Full /\ task' = "waiting" /\ UNCHANGED <<reqs, queue, sent>>
  <2>1. WorkerTypeOK'
    BY <1>2 DEF ResumeEach, WorkerIInv, WorkerTypeOK
  <2>2. queue \in Seq(Requests) /\ Len(queue) >= 1
    <3>1. queue \in Seq(Requests)
      BY DEF WorkerIInv, WorkerTypeOK
    <3>2. Len(queue) \in Nat
      BY <3>1, LenProperties
    <3> QED BY <1>2, <3>1, <3>2, Capacities DEF Full
  <2> DEFINE s == queue[1]
  <2>3. s \in Requests /\ Unstarted(s)
    BY <2>2 DEF Unstarted, Queued
  <2>4. reqs[s] \in RequestRow /\ PhaseInv(s, reqs[s]) /\ reqs[s].send
    BY <2>3, RowOf
  <2> HIDE DEF s
  <2>5. \/ reqs[s].counted \/ reqs[s].phase = "submitting"
        \/ s \in Clients /\ reqs[s].phase \in {"orphan", "left"}
    BY <2>3, <2>4 DEF PhaseInv, RequestRow, Attended
  <2>6. DeferredIsWoken'
    BY <1>2, <2>3, <2>5 DEF DeferredIsWoken
  <2> QED BY <1>2, <2>1, <2>6, PlaceKeeps DEF ResumeEach
<1>3. ASSUME NEW s \in Deferred, Send(s, [Unsent EXCEPT !.phase = "pump", !.counted = TRUE]),
             UNCHANGED task
      PROVE  WorkerIInv'
  <2> DEFINE p == [Unsent EXCEPT !.phase = "pump", !.counted = TRUE]
  <2>1. /\ p \in RequestRow /\ p.phase = "pump" /\ p.counted
        /\ p.cancel = Unsent.cancel /\ p.left = Unsent.left /\ p.recv = Unsent.recv
        /\ p.heard = Unsent.heard /\ p.made = Unsent.made /\ p.chan = Unsent.chan
        /\ p.outbox = Unsent.outbox /\ p.seen = Unsent.seen
    BY UnsentType DEF RequestRow, Attended
  <2>2. Send(s, p)
    BY <1>3
  <2> HIDE DEF p
  <2>3. s \in Requests /\ reqs[s].phase = "new"
        /\ UNCHANGED <<waiting, running, draining, pc, flushed, handle, permit, task>>
    BY <1>3, Capacities DEF ResumeEach, Deferred
  <2> QED BY <2>1, <2>2, <2>3, UnsentType, SendKeeps
<1> QED BY <1>1, <1>2, <1>3 DEF ResumeEach

LEMMA FreedKeeps ==
  ASSUME WorkerIInv, Freed
  PROVE  WorkerIInv'
<1>1. WorkerTypeOK'
  BY DEF Freed, WorkerIInv, WorkerTypeOK
<1>2. DeferredIsWoken'
  BY DEF Freed, DeferredIsWoken
<1> QED BY <1>1, <1>2, PlaceKeeps DEF Freed

LEMMA DropHandleKeeps ==
  ASSUME WorkerIInv, DropHandle
  PROVE  WorkerIInv'
<1>1. WorkerTypeOK'
  BY DEF DropHandle, WorkerIInv, WorkerTypeOK
<1>2. DeferredIsWoken'
  BY DEF DropHandle, DeferredIsWoken, WorkerIInv
<1> QED BY <1>1, <1>2, PlaceKeeps DEF DropHandle

(***************************************************************************)
(* The worker's step and its deliveries.                                   *)
(***************************************************************************)
(* The streams are what their rows say, in this state and the next. *)
LEMMA Rigid ==
  ASSUME NEW q
  PROVE  /\ OpenStream(q)' <=> OpenStream(q)
         /\ InOrder(Events(q))' <=> InOrder(Events(q))
         /\ Ends(Events(q))' <=> Ends(Events(q))
<1>1. OpenStream(q)' <=> OpenStream(q)
  BY DEF OpenStream, Events, Lead, Piece, Mark
<1>2. InOrder(Events(q))' <=> InOrder(Events(q))
  BY DEF InOrder, Events, Lead, Piece, Mark, Terminal
<1>3. Ends(Events(q))' <=> Ends(Events(q))
  BY DEF Ends, Events, Mark, Terminal
<1> QED BY <1>1, <1>2, <1>3

(* The row q of a job in the worker's hands becomes j. *)
LEMMA WorkedRow ==
  ASSUME NEW r, NEW q, NEW j, PhaseInv(r, q), q.send, ~Unstarted(r)',
         j.phase = q.phase, j.recv = q.recv, j.counted <=> q.counted,
         j.recv /\ j.send /\ ~j.left => ~j.cancel, Len(j.chan) <= EventBuffer,
         j.recv => /\ InOrder(Events(j))
                   /\ r \in running' => OpenStream(j)
                   /\ j.ticket # 0 /\ ~j.left /\ (r \in draining' \/ (~j.send /\ pc' # "stopped"))
                        => Ends(Events(j))
  PROVE  PhaseInv(r, j)' /\ StreamInv(r, j)'
<1>1. PhaseInv(r, j)'
  BY DEF PhaseInv
<1>2. StreamInv(r, j)'
  BY Rigid DEF StreamInv
<1> QED BY <1>1, <1>2

(* A step of the worker leaves every reader in its phase. *)
LEMMA WorkerKeeps ==
  ASSUME WorkerIInv, WorkerTypeOK', PlacesInv', task' = task, permit' = permit,
         \A r \in Requests : reqs'[r].phase = reqs[r].phase
                             /\ PhaseInv(r, reqs[r])' /\ StreamInv(r, reqs[r])'
  PROVE  WorkerIInv'
<1>1. \A r \in Requests : reqs[r].counted => reqs'[r].counted
  BY RowOf DEF PhaseInv
<1>2. \A r \in Requests : Wakes(r) => permit' \/ Wakes(r)'
  BY <1>1 DEF Wakes
<1>3. DeferredIsWoken'
  BY <1>2, WokenKeeps DEF WorkerIInv
<1> QED BY <1>3 DEF WorkerIInv

LEMMA SumZero ==
  ASSUME NEW x \in Nat, NEW y \in Nat, NEW z \in Nat, x + y + z = 0
  PROVE  x = 0 /\ y = 0 /\ z = 0
OBVIOUS

LEMMA AdvancedRow ==
  ASSUME NEW q \in RequestRow, Len(q.chan) <= EventBuffer, q.send,
         q.recv /\ q.send /\ ~q.left => ~q.cancel, q.recv => OpenStream(q),
         NEW what \in Advances(q)
  PROVE  LET j == Advanced(q, what)
         IN /\ j \in RequestRow /\ j.phase = q.phase /\ j.recv = q.recv
            /\ j.send = q.send
            /\ j.counted = q.counted /\ j.left = q.left /\ j.cancel = q.cancel
            /\ j.ticket = q.ticket /\ Len(j.chan) <= EventBuffer
            /\ j.recv => /\ InOrder(Events(j))
                         /\ what \notin {"finish", "fail"} => OpenStream(j)
                         /\ what \in {"finish", "fail"} /\ ~j.left => Ends(Events(j))
<1>0. /\ q.chan \in Seq(Event) /\ q.outbox \in Seq(Event) /\ q.seen \in Seq(Event)
      /\ q.made \in Nat /\ Events(q) \in Seq(Event)
      /\ Len(Events(q)) = Len(q.seen) + Len(q.chan) + Len(q.outbox)
  BY EventsType DEF RequestRow
<1>1. what \in {"progress", "piece", "finish", "fail"}
  BY DEF Advances
<1>2. q.recv => InOrder(Events(q))
  BY <1>0, OpenIsInOrder
<1>3. ASSUME NEW e \in Event, NEW j, j.outbox = Append(q.outbox, e),
             j.seen = q.seen, j.chan = q.chan
      PROVE  Events(j) = Append(Events(q), e)
  <2> DEFINE P(aa, bb, cc) == aa \o bb \o Append(cc, e) = Append(aa \o bb \o cc, e)
  <2>1. \A aa \in Seq(Event), bb \in Seq(Event), cc \in Seq(Event) : P(aa, bb, cc)
    BY EventsMove
  <2> HIDE DEF P
  <2>2. P(q.seen, q.chan, q.outbox)
    BY <1>0, <2>1
  <2> QED BY <1>3, <2>2 DEF P, Events
<1>4. CASE what = "progress"
  <2>1. q.recv /\ q.made = 0 /\ ~q.heard
    BY <1>4 DEF Advances, Gone
  <2>2. Len(Events(q)) = 0
    BY <2>1 DEF OpenStream
  <2>3. q.chan = <<>> /\ q.outbox = <<>> /\ q.seen = <<>>
    <3>1. PICK x \in Nat, y \in Nat, z \in Nat :
            x = Len(q.seen) /\ y = Len(q.chan) /\ z = Len(q.outbox)
      BY <1>0, LenProperties
    <3>2. x + y + z = 0
      BY <1>0, <2>2, <3>1
    <3>3. x = 0 /\ y = 0 /\ z = 0
      BY <3>2, SumZero
    <3> QED BY <1>0, <3>1, <3>3, EmptySeq
  <2> DEFINE ch == <<Mark("progress")>>
             j == [q EXCEPT !.heard = TRUE, !.chan = ch]
  <2>4. ch \in Seq(Event) /\ Len(ch) = 1 /\ ch[1] = Mark("progress") /\ ch # <<>>
    BY MarkType
  <2>5. Advanced(q, what) = j
    <3>1. Len(q.chan) < EventBuffer /\ Append(q.chan, Mark("progress")) = ch
      BY <2>3, Capacities
    <3> HIDE DEF ch
    <3> QED BY <1>4, <2>1, <3>1 DEF Advanced
  <2> HIDE DEF ch
  <2>6. /\ j \in RequestRow /\ j.phase = q.phase /\ j.recv = q.recv /\ j.send = q.send
        /\ j.counted = q.counted /\ j.left = q.left /\ j.cancel = q.cancel
        /\ j.ticket = q.ticket /\ j.chan = ch /\ j.made = q.made /\ j.heard
        /\ j.outbox = q.outbox /\ j.seen = q.seen
    BY <2>4 DEF RequestRow
  <2> HIDE DEF j
  <2>7. Events(j) = ch
    <3>1. <<>> \o ch \o <<>> = ch
      BY <2>4
    <3> QED BY <2>3, <2>6, <3>1 DEF Events
  <2>8. OpenStream(j) /\ InOrder(Events(j))
    <3>1. Lead(ch) = 1
      BY <2>4 DEF Lead
    <3>2. Len(ch) = j.made + Lead(ch) /\ (1 + Lead(ch))..Len(ch) = {}
      BY <2>1, <2>4, <2>6, <3>1
    <3>3. InOrder(ch)
      BY <3>2 DEF InOrder
    <3>4. OpenStream(j)
      BY <2>6, <2>7, <3>2 DEF OpenStream
    <3> QED BY <2>7, <3>3, <3>4
  <2> QED BY <1>4, <2>4, <2>5, <2>6, <2>8, Capacities
<1>5. CASE what = "piece"
  <2> DEFINE e == Piece(q.made + 1)
             m == q.made + 1
             ob == Append(q.outbox, e)
             j == [q EXCEPT !.made = m, !.outbox = ob]
  <2>1. Advanced(q, what) = j
    BY <1>5 DEF Advanced
  <2>2. e \in Event /\ m \in Nat
    BY <1>0, MarkType
  <2>3. /\ j \in RequestRow /\ j.phase = q.phase /\ j.recv = q.recv /\ j.send = q.send
        /\ j.counted = q.counted /\ j.left = q.left /\ j.cancel = q.cancel
        /\ j.ticket = q.ticket /\ Len(j.chan) <= EventBuffer
        /\ j.made = m /\ j.heard = q.heard /\ Events(j) = Append(Events(q), e)
    <3>1. ob \in Seq(Event) /\ ob = Append(q.outbox, e)
      BY <1>0, <2>2
    <3> HIDE DEF e, m, ob
    <3>2. /\ j \in RequestRow /\ j.phase = q.phase /\ j.recv = q.recv /\ j.send = q.send
          /\ j.counted = q.counted /\ j.left = q.left /\ j.cancel = q.cancel
          /\ j.ticket = q.ticket /\ j.chan = q.chan /\ j.outbox = ob /\ j.seen = q.seen
          /\ j.made = m /\ j.heard = q.heard
      BY <2>2, <3>1 DEF RequestRow
    <3> HIDE DEF j
    <3> QED BY <1>3, <2>2, <3>1, <3>2
  <2> HIDE DEF j
  <2>4. q.recv => OpenStream(j)
    <3> SUFFICES ASSUME q.recv PROVE OpenStream(j)
      OBVIOUS
    <3> DEFINE s == Events(q)
               t == Append(s, e)
    <3>1. s \in Seq(Event) /\ Len(s) = q.made + Lead(s) /\ (~q.heard => Lead(s) = 0)
          /\ \A i \in (1 + Lead(s))..Len(s) : s[i] = Piece(i - Lead(s))
      BY <1>0 DEF OpenStream
    <3> HIDE DEF s
    <3>2. /\ Len(t) = m + Lead(t) /\ Lead(t) = Lead(s)
          /\ \A i \in (1 + Lead(t))..Len(t) : t[i] = Piece(i - Lead(t))
      BY <1>0, <3>1, PieceOpens
    <3> HIDE DEF t, e, m
    <3>3. Events(j) = t
      BY <2>3 DEF s, t
    <3> QED BY <2>3, <3>1, <3>2, <3>3 DEF OpenStream
  <2>5. q.recv => InOrder(Events(j))
    <3>1. Events(j) \in Seq(Event) /\ j.made \in Nat
      BY <1>0, <2>2, <2>3
    <3> QED BY <2>4, <3>1, OpenIsInOrder
  <2> QED BY <1>5, <2>1, <2>3, <2>4, <2>5
<1>6. ASSUME NEW e \in Terminal, Advanced(q, what) = [q EXCEPT !.outbox = Append(@, e)],
             what \in {"finish", "fail"}
      PROVE  LET j == Advanced(q, what)
             IN /\ j \in RequestRow /\ j.phase = q.phase /\ j.recv = q.recv
                /\ j.send = q.send
                /\ j.counted = q.counted /\ j.left = q.left /\ j.cancel = q.cancel
                /\ j.ticket = q.ticket /\ Len(j.chan) <= EventBuffer
                /\ j.recv => InOrder(Events(j)) /\ Ends(Events(j))
  <2> DEFINE j == Advanced(q, what)
  <2>1. e \in Event
    BY MarkType DEF Terminal
  <2> DEFINE ob == Append(q.outbox, e)
  <2>2. ob \in Seq(Event) /\ ob = Append(q.outbox, e)
    BY <1>0, <2>1
  <2>3. /\ j \in RequestRow /\ j.phase = q.phase /\ j.recv = q.recv /\ j.send = q.send
        /\ j.counted = q.counted /\ j.left = q.left /\ j.cancel = q.cancel
        /\ j.ticket = q.ticket /\ Len(j.chan) <= EventBuffer
        /\ Events(j) = Append(Events(q), e)
    <3>1. j = [q EXCEPT !.outbox = ob]
      BY <1>6
    <3> HIDE DEF ob, j
    <3>2. /\ j \in RequestRow /\ j.phase = q.phase /\ j.recv = q.recv /\ j.send = q.send
          /\ j.counted = q.counted /\ j.left = q.left /\ j.cancel = q.cancel
          /\ j.ticket = q.ticket /\ j.chan = q.chan /\ j.outbox = ob /\ j.seen = q.seen
      BY <2>2, <3>1 DEF RequestRow
    <3> QED BY <1>3, <2>1, <2>2, <3>2
  <2> HIDE DEF j
  <2>4. ASSUME q.recv PROVE InOrder(Events(j)) /\ Ends(Events(j))
    <3> DEFINE s == Events(q)
    <3>1. s \in Seq(Event) /\ Len(s) = q.made + Lead(s)
          /\ \A i \in (1 + Lead(s))..Len(s) : s[i] = Piece(i - Lead(s))
      BY <1>0, <2>4 DEF OpenStream
    <3> HIDE DEF s
    <3>2. InOrder(Append(s, e)) /\ Ends(Append(s, e))
      BY <1>0, <1>6, <3>1, TerminalEnds
    <3> QED BY <2>3, <3>2 DEF s
  <2> QED BY <2>3, <2>4 DEF j
<1>7. CASE what = "finish" /\ ~Gone(q)
  <2>1. Advanced(q, what) = [q EXCEPT !.outbox = Append(@, Mark("finished"))]
    BY <1>7 DEF Advanced
  <2> QED BY <1>6, <1>7, <2>1, MarkType
<1>8. CASE what = "finish" /\ Gone(q)
  <2>1. Advanced(q, what) = q
    BY <1>8 DEF Advanced
  <2>2. q.recv => q.left
    BY <1>8 DEF Gone
  <2> QED BY <1>2, <1>8, <2>1, <2>2
<1>9. CASE what = "fail"
  <2>1. Advanced(q, what) = [q EXCEPT !.outbox = Append(@, Mark("error"))]
    BY <1>9 DEF Advanced
  <2> QED BY <1>6, <1>9, <2>1, MarkType
<1> QED BY <1>1, <1>4, <1>5, <1>7, <1>8, <1>9

LEMMA StepEngineKeeps ==
  ASSUME WorkerIInv, StepEngine
  PROVE  WorkerIInv'
<1>1. PICK does \in [running -> {"progress", "piece", "finish", "fail"}] :
        LET over == {r \in running : does[r] \in {"finish", "fail"}}
        IN /\ \A r \in running : does[r] \in Advances(reqs[r])
           /\ reqs' = [r \in Requests |-> IF r \in running
                                          THEN Advanced(reqs[r], does[r]) ELSE reqs[r]]
           /\ running' = running \ over
           /\ draining' = draining \cup over
  BY DEF StepEngine
<1> DEFINE over == {r \in running : does[r] \in {"finish", "fail"}}
<1>2. /\ UNCHANGED <<queue, waiting, handle, permit, task, sent>> /\ flushed' = {}
      /\ pc = "step" /\ pc' = "flush"
  BY DEF StepEngine
<1>3. \A r \in Requests : reqs'[r] = IF r \in running THEN Advanced(reqs[r], does[r])
                                                      ELSE reqs[r]
  BY <1>1
<1>4. running \subseteq Requests /\ draining \subseteq Requests
  BY DEF WorkerIInv, WorkerTypeOK
<1>5. \A r \in Requests : Unstarted(r)' <=> Unstarted(r)
  BY <1>2 DEF Unstarted, Queued
<1>6. ASSUME NEW r \in running
      PROVE  /\ reqs'[r] \in RequestRow /\ reqs'[r].phase = reqs[r].phase
             /\ reqs'[r].send = reqs[r].send /\ reqs'[r].ticket = reqs[r].ticket
             /\ PhaseInv(r, reqs[r])' /\ StreamInv(r, reqs[r])'
  <2> DEFINE what == does[r]
  <2>1. r \in Requests /\ ~Unstarted(r) /\ r \notin draining
    BY <1>4 DEF WorkerIInv, PlacesInv
  <2>2. PICK q, j : q = reqs[r] /\ j = reqs'[r]
    OBVIOUS
  <2>3. /\ q \in RequestRow /\ PhaseInv(r, q) /\ StreamInv(r, q) /\ q.send
        /\ j = Advanced(q, what) /\ what \in Advances(q)
    BY <1>1, <1>3, <2>1, <2>2, RowOf
  <2> HIDE DEF what
  <2>4. Len(q.chan) <= EventBuffer /\ (q.recv /\ q.send /\ ~q.left => ~q.cancel)
    BY <2>3 DEF PhaseInv
  <2>5. q.recv => OpenStream(q)
    BY <2>3 DEF StreamInv
  <2>6. /\ j \in RequestRow /\ j.phase = q.phase /\ j.recv = q.recv /\ j.send = q.send
        /\ j.counted = q.counted /\ j.left = q.left /\ j.cancel = q.cancel
        /\ j.ticket = q.ticket /\ Len(j.chan) <= EventBuffer
        /\ j.recv => /\ InOrder(Events(j))
                     /\ what \notin {"finish", "fail"} => OpenStream(j)
                     /\ what \in {"finish", "fail"} /\ ~j.left => Ends(Events(j))
    BY <2>3, <2>4, <2>5, AdvancedRow
  <2>7. /\ r \in running' => what \notin {"finish", "fail"}
        /\ r \in draining' => what \in {"finish", "fail"}
    BY <1>1, <2>1 DEF what
  <2>8. PhaseInv(r, j)' /\ StreamInv(r, j)'
    BY <1>5, <2>1, <2>3, <2>4, <2>6, <2>7, WorkedRow
  <2> QED BY <2>2, <2>6, <2>8
<1>7. ASSUME NEW r \in Requests \ running
      PROVE  reqs'[r] = reqs[r] /\ PhaseInv(r, reqs[r])' /\ StreamInv(r, reqs[r])'
  <2>1. PICK q : q = reqs'[r] /\ q = reqs[r] /\ PhaseInv(r, q) /\ StreamInv(r, q)
    BY <1>3, RowOf
  <2>2. r \notin running' /\ (r \in draining' => r \in draining)
    BY <1>1
  <2>3. PhaseInv(r, q)' /\ StreamInv(r, q)'
    BY <1>2, <1>5, <2>1, <2>2, RowMoves
  <2> QED BY <2>1, <2>3
<1>8. \A r \in Requests : /\ reqs'[r] \in RequestRow /\ reqs'[r].phase = reqs[r].phase
                          /\ reqs'[r].send = reqs[r].send
                          /\ reqs'[r].ticket = reqs[r].ticket
                          /\ PhaseInv(r, reqs[r])' /\ StreamInv(r, reqs[r])'
  <2> SUFFICES ASSUME NEW r \in Requests
               PROVE  /\ reqs'[r] \in RequestRow /\ reqs'[r].phase = reqs[r].phase
                      /\ reqs'[r].send = reqs[r].send
                      /\ reqs'[r].ticket = reqs[r].ticket
                      /\ PhaseInv(r, reqs[r])' /\ StreamInv(r, reqs[r])'
    OBVIOUS
  <2>1. CASE r \in running
    BY <1>6, <2>1
  <2>2. CASE r \notin running
    BY <1>7, <2>2, RowOf
  <2> QED BY <2>1, <2>2
<1>9. WorkerTypeOK'
  <2>1. reqs' \in [Requests -> RequestRow]
    BY <1>1, <1>8
  <2>2. running' \subseteq Requests /\ draining' \subseteq Requests
    BY <1>1, <1>4
  <2> QED BY <1>2, <2>1, <2>2 DEF WorkerIInv, WorkerTypeOK
<1>10. PlacesInv'
  <2>1. running' \cup draining' = running \cup draining /\ running' \cap draining' = {}
    BY <1>1 DEF WorkerIInv, PlacesInv
  <2>2. \A r \in Requests :
           /\ reqs'[r].send <=> (Unstarted(r) \/ r \in running' \cup draining')
           /\ reqs'[r].send => reqs[r].send /\ reqs'[r].ticket = reqs[r].ticket
           /\ reqs'[r].ticket \in {0, reqs[r].ticket}
    BY <1>8, <2>1, RowOf
  <2> QED BY <1>2, <1>9, <2>1, <2>2, PlacesKeep DEF WorkerIInv
<1> QED BY <1>2, <1>8, <1>9, <1>10, WorkerKeeps

LEMMA FlushRunningKeeps ==
  ASSUME WorkerIInv, NEW s \in Requests, FlushRunning(s)
  PROVE  WorkerIInv'
<1>1. PICK q, j : q = reqs[s] /\ j = Flushed(reqs[s])
  OBVIOUS
<1>2. /\ UNCHANGED <<queue, waiting, running, draining, pc, handle, permit, task, sent>>
      /\ s \in running /\ reqs' = [reqs EXCEPT ![s] = j]
      /\ flushed' \subseteq flushed \cup {s}
  BY <1>1 DEF FlushRunning
<1>3. /\ q \in RequestRow /\ PhaseInv(s, q) /\ StreamInv(s, q) /\ q.send /\ ~Unstarted(s)
      /\ s \notin draining
  BY <1>1, <1>2, RowOf DEF WorkerIInv, PlacesInv
<1>4. /\ Len(q.chan) <= EventBuffer /\ (q.recv /\ q.send /\ ~q.left => ~q.cancel)
      /\ q.recv => OpenStream(q) /\ InOrder(Events(q))
  BY <1>2, <1>3 DEF PhaseInv, StreamInv
<1>5. /\ j \in RequestRow /\ j.send = q.send /\ j.recv = q.recv /\ j.phase = q.phase
      /\ j.ticket = q.ticket /\ j.left = q.left /\ j.counted = q.counted
      /\ j.made = q.made /\ j.heard = q.heard /\ Len(j.chan) <= EventBuffer
      /\ q.recv => j.cancel = q.cancel /\ Events(j) = Events(q)
  BY <1>1, <1>3, <1>4, FlushedEffect
<1>6. /\ reqs'[s] = j
      /\ \A r \in Requests : r # s => reqs'[r] = reqs[r]
  BY <1>2 DEF WorkerIInv, WorkerTypeOK
<1>7. \A r \in Requests : Unstarted(r)' <=> Unstarted(r)
  BY <1>2 DEF Unstarted, Queued
<1>8. PhaseInv(s, j)' /\ StreamInv(s, j)'
  <2>1. j.recv => OpenStream(j) /\ InOrder(Events(j))
    BY <1>4, <1>5 DEF OpenStream
  <2>2. j.recv /\ j.send /\ ~j.left => ~j.cancel
    BY <1>4, <1>5
  <2> QED BY <1>2, <1>3, <1>5, <1>7, <2>1, <2>2, WorkedRow
<1>9. \A r \in Requests : reqs'[r].phase = reqs[r].phase
                          /\ PhaseInv(r, reqs[r])' /\ StreamInv(r, reqs[r])'
  <2> SUFFICES ASSUME NEW r \in Requests
               PROVE  reqs'[r].phase = reqs[r].phase
                      /\ PhaseInv(r, reqs[r])' /\ StreamInv(r, reqs[r])'
    OBVIOUS
  <2>1. CASE r = s
    BY <1>1, <1>5, <1>6, <1>8, <2>1
  <2>2. CASE r # s
    <3>1. PICK p : p = reqs'[r] /\ p = reqs[r] /\ PhaseInv(r, p) /\ StreamInv(r, p)
      BY <1>6, <2>2, RowOf
    <3>2. PhaseInv(r, p)' /\ StreamInv(r, p)'
      BY <1>2, <1>7, <3>1, RowMoves
    <3> QED BY <3>1, <3>2
  <2> QED BY <2>1, <2>2
<1>10. WorkerTypeOK'
  BY <1>2, <1>5 DEF WorkerIInv, WorkerTypeOK
<1>11. PlacesInv'
  <2>1. running \cap draining = {}
    BY DEF WorkerIInv, PlacesInv
  <2>2. \A r \in Requests :
           /\ reqs'[r].send <=> (Unstarted(r) \/ r \in running' \cup draining')
           /\ reqs'[r].send => reqs[r].send /\ reqs'[r].ticket = reqs[r].ticket
           /\ reqs'[r].ticket \in {0, reqs[r].ticket}
    BY <1>1, <1>2, <1>5, <1>6, RowOf
  <2> QED BY <1>2, <1>10, <2>1, <2>2, PlacesKeep DEF WorkerIInv
<1> QED BY <1>2, <1>9, <1>10, <1>11, WorkerKeeps

LEMMA FlushDrainingKeeps ==
  ASSUME WorkerIInv, FlushDraining, pc # "stopped", pc' \in {"top", pc}, flushed' \in {{}, flushed}
  PROVE  WorkerIInv'
<1>1. /\ UNCHANGED <<queue, waiting, running, handle, permit, task, sent>>
      /\ draining' = {r \in draining : Settled(reqs[r]).outbox # <<>>}
      /\ reqs' = [r \in Requests |-> IF r \in draining THEN Settled(reqs[r]) ELSE reqs[r]]
  BY DEF FlushDraining
<1>2. running \subseteq Requests /\ draining \subseteq Requests
  BY DEF WorkerIInv, WorkerTypeOK
<1>3. \A r \in Requests : Unstarted(r)' <=> Unstarted(r)
  BY <1>1 DEF Unstarted, Queued
<1>4. ASSUME NEW r \in draining
      PROVE  /\ reqs'[r] \in RequestRow /\ reqs'[r].phase = reqs[r].phase
             /\ reqs'[r].send <=> r \in draining'
             /\ reqs[r].send /\ (reqs'[r].send => reqs'[r].ticket = reqs[r].ticket)
             /\ reqs'[r].ticket \in {0, reqs[r].ticket}
             /\ PhaseInv(r, reqs[r])' /\ StreamInv(r, reqs[r])'
  <2>1. r \in Requests /\ ~Unstarted(r) /\ r \notin running
    BY <1>2 DEF WorkerIInv, PlacesInv
  <2>2. PICK q, j : q = reqs[r] /\ j = reqs'[r]
    OBVIOUS
  <2>3. /\ q \in RequestRow /\ PhaseInv(r, q) /\ StreamInv(r, q) /\ q.send
        /\ q.ticket # 0 /\ j = Settled(q)
    BY <1>1, <2>1, <2>2, RowOf
  <2>4. /\ Len(q.chan) <= EventBuffer /\ (q.recv /\ q.send /\ ~q.left => ~q.cancel)
        /\ ~q.recv => ~q.counted
    BY <2>3 DEF PhaseInv, Attended
  <2>5. /\ j \in RequestRow /\ j.recv = q.recv /\ j.phase = q.phase
        /\ Len(j.chan) <= EventBuffer
        /\ j.send = (q.send /\ j.outbox # <<>>)
        /\ j.send => j.ticket = q.ticket
        /\ j.ticket \in {0, q.ticket}
        /\ q.recv => /\ j.counted = q.counted /\ j.left = q.left /\ j.ticket = q.ticket
                     /\ Events(j) = Events(q) /\ (j.send => j.cancel = q.cancel)
        /\ ~q.recv => j.counted \in {FALSE, q.counted}
    BY <2>3, <2>4, SettledEffect
  <2>6. j.send <=> r \in draining'
    BY <1>1, <2>2, <2>3, <2>5
  <2>7. q.recv => InOrder(Events(q)) /\ (~q.left => Ends(Events(q)))
    BY <2>3 DEF StreamInv
  <2>8. j.counted <=> q.counted
    BY <2>4, <2>5 DEF RequestRow
  <2>9. j.recv /\ j.send /\ ~j.left => ~j.cancel
    BY <2>3, <2>4, <2>5
  <2>10. j.recv => InOrder(Events(j)) /\ (~j.left => Ends(Events(j)))
    BY <2>5, <2>7
  <2>11. PhaseInv(r, j)' /\ StreamInv(r, j)'
    BY <1>1, <1>3, <2>1, <2>3, <2>5, <2>8, <2>9, <2>10, WorkedRow
  <2> QED BY <2>2, <2>3, <2>5, <2>6, <2>11
<1>5. ASSUME NEW r \in Requests \ draining
      PROVE  reqs'[r] = reqs[r] /\ PhaseInv(r, reqs[r])' /\ StreamInv(r, reqs[r])'
  <2>1. PICK q : q = reqs'[r] /\ q = reqs[r] /\ PhaseInv(r, q) /\ StreamInv(r, q)
    BY <1>1, RowOf
  <2>2. r \notin draining' /\ (r \in running' => r \in running)
    BY <1>1
  <2>3. PhaseInv(r, q)' /\ StreamInv(r, q)'
    BY <1>3, <2>1, <2>2, RowMoves
  <2> QED BY <2>1, <2>3
<1>6. \A r \in Requests : /\ reqs'[r] \in RequestRow /\ reqs'[r].phase = reqs[r].phase
                          /\ PhaseInv(r, reqs[r])' /\ StreamInv(r, reqs[r])'
  <2> SUFFICES ASSUME NEW r \in Requests
               PROVE  /\ reqs'[r] \in RequestRow /\ reqs'[r].phase = reqs[r].phase
                      /\ PhaseInv(r, reqs[r])' /\ StreamInv(r, reqs[r])'
    OBVIOUS
  <2>1. CASE r \in draining
    BY <1>4, <2>1
  <2>2. CASE r \notin draining
    BY <1>5, <2>2, RowOf
  <2> QED BY <2>1, <2>2
<1>7. WorkerTypeOK'
  <2>1. reqs' \in [Requests -> RequestRow] /\ draining' \subseteq Requests
    BY <1>1, <1>2, <1>6
  <2> QED BY <1>1, <2>1 DEF WorkerIInv, WorkerTypeOK
<1>8. PlacesInv'
  <2>1. running' \cup draining' \subseteq running \cup draining /\ running' \cap draining' = {}
    BY <1>1 DEF WorkerIInv, PlacesInv
  <2>2. \A r \in Requests :
           /\ reqs'[r].send <=> (Unstarted(r) \/ r \in running' \cup draining')
           /\ reqs'[r].send => reqs[r].send /\ reqs'[r].ticket = reqs[r].ticket
           /\ reqs'[r].ticket \in {0, reqs[r].ticket}
    <3> SUFFICES ASSUME NEW r \in Requests
                 PROVE  /\ reqs'[r].send <=> (Unstarted(r) \/ r \in running' \cup draining')
                        /\ reqs'[r].send => reqs[r].send /\ reqs'[r].ticket = reqs[r].ticket
                        /\ reqs'[r].ticket \in {0, reqs[r].ticket}
      OBVIOUS
    <3>1. CASE r \in draining
      <4>1. ~Unstarted(r) /\ r \notin running'
        BY <1>1, <3>1 DEF WorkerIInv, PlacesInv
      <4> QED BY <1>4, <3>1, <4>1
    <3>2. CASE r \notin draining
      BY <1>1, <1>5, <3>2, RowOf
    <3> QED BY <3>1, <3>2
  <2> QED BY <1>1, <1>7, <2>1, <2>2, PlacesKeep DEF WorkerIInv
<1> QED BY <1>1, <1>6, <1>7, <1>8, WorkerKeeps

(***************************************************************************)
(* Admission.                                                              *)
(***************************************************************************)
(* The job at the front, and the queue behind it. *)
NextUp == IF waiting # NoJob THEN waiting ELSE Head(queue)
Behind == IF waiting # NoJob THEN queue ELSE Tail(queue)

LEMMA FrontJob ==
  ASSUME WorkerIInv, waiting # NoJob \/ queue # <<>>
  PROVE  /\ NextUp \in Requests /\ Unstarted(NextUp) /\ Behind \in Seq(Requests)
         /\ \A i \in 1..Len(Behind) : /\ Behind[i] \in Requests /\ Behind[i] # NextUp
                                      /\ Unstarted(Behind[i])
                                      /\ reqs[NextUp].ticket < reqs[Behind[i]].ticket
         /\ \A i, k \in 1..Len(Behind) :
              i < k => reqs[Behind[i]].ticket < reqs[Behind[k]].ticket
         /\ \A r \in Requests : Unstarted(r) => r = NextUp \/ \E i \in 1..Len(Behind) : r = Behind[i]
<1>0. /\ queue \in Seq(Requests) /\ waiting \in Requests \cup {NoJob} /\ Len(queue) \in Nat
      /\ waiting \notin Queued
  BY LenProperties DEF WorkerIInv, WorkerTypeOK, PlacesInv
<1>1. /\ \A i \in 1..Len(queue) : queue[i] \in Requests /\ Unstarted(queue[i])
      /\ \A i, k \in 1..Len(queue) : i < k => reqs[queue[i]].ticket < reqs[queue[k]].ticket
      /\ \A r \in Requests : Unstarted(r) => r = waiting \/ \E i \in 1..Len(queue) : r = queue[i]
  BY <1>0 DEF WorkerIInv, PlacesInv, Unstarted, Queued
<1>2. CASE waiting # NoJob
  <2>1. NextUp = waiting /\ Behind = queue
    BY <1>2 DEF NextUp, Behind
  <2>2. \A i \in 1..Len(queue) : reqs[waiting].ticket < reqs[queue[i]].ticket
    BY <1>2 DEF WorkerIInv, PlacesInv
  <2>3. \A i \in 1..Len(queue) : queue[i] # waiting
    BY <1>0 DEF Queued
  <2>4. Unstarted(waiting)
    BY DEF Unstarted
  <2> QED BY <1>0, <1>1, <1>2, <2>1, <2>2, <2>3, <2>4
<1>3. CASE waiting = NoJob
  <2>1. NextUp = queue[1] /\ Behind = Tail(queue) /\ queue # <<>>
    BY <1>0, <1>3 DEF NextUp, Behind
  <2>2. /\ Behind \in Seq(Requests) /\ Len(Behind) = Len(queue) - 1 /\ Len(queue) >= 1
        /\ \A i \in 1..Len(Behind) : Behind[i] = queue[i + 1]
    BY <1>0, <2>1
  <2>3. \A i \in 1..Len(Behind) : i + 1 \in 1..Len(queue) /\ 1 < i + 1
    BY <1>0, <2>2
  <2>4. 1 \in 1..Len(queue)
    BY <1>0, <2>2
  <2> HIDE DEF NextUp, Behind
  <2>5. \A r \in Requests : reqs[r].ticket \in Nat
    BY RowOf
  <2>6. \A i \in 1..Len(Behind) : /\ Behind[i] \in Requests /\ Unstarted(Behind[i])
                                  /\ reqs[NextUp].ticket < reqs[Behind[i]].ticket
                                  /\ Behind[i] # NextUp
    <3>1. \A i \in 1..Len(Behind) : /\ Behind[i] \in Requests /\ Unstarted(Behind[i])
                                    /\ reqs[NextUp].ticket < reqs[Behind[i]].ticket
      BY <1>1, <2>1, <2>2, <2>3, <2>4
    <3>2. NextUp \in Requests /\ reqs[NextUp].ticket \in Nat
      BY <1>1, <2>1, <2>4, <2>5
    <3> QED BY <3>1, <3>2
  <2>7. ASSUME NEW i \in 1..Len(Behind), NEW k \in 1..Len(Behind), i < k
        PROVE  reqs[Behind[i]].ticket < reqs[Behind[k]].ticket
    <3>1. i + 1 < k + 1
      BY <2>7
    <3> QED BY <1>1, <2>2, <2>3, <3>1
  <2>8. ASSUME NEW r \in Requests, Unstarted(r), r # NextUp
        PROVE  \E i \in 1..Len(Behind) : r = Behind[i]
    <3>1. PICK i \in 1..Len(queue) : r = queue[i]
      BY <1>1, <1>3, <2>8, Capacities
    <3>2. i # 1
      BY <2>1, <2>8, <3>1
    <3>3. i - 1 \in 1..Len(Behind) /\ (i - 1) + 1 = i
      BY <1>0, <2>2, <3>1, <3>2
    <3>4. Behind[i - 1] = queue[i]
      BY <2>2, <3>3
    <3> QED BY <3>1, <3>3, <3>4
  <2> QED BY <1>1, <2>1, <2>2, <2>4, <2>6, <2>7, <2>8
<1> QED BY <1>2, <1>3

(* The job at the front is taken and waits. *)
LEMMA TakeKeeps ==
  ASSUME WorkerIInv, WorkerTypeOK', waiting # NoJob \/ queue # <<>>,
         waiting' = NextUp, queue' = Behind,
         UNCHANGED <<reqs, running, draining, permit, task, sent>>, pc # "stopped"
  PROVE  WorkerIInv'
<1>1. PICK j, b : j = NextUp /\ b = Behind
  OBVIOUS
<1>2. /\ j \in Requests /\ Unstarted(j) /\ b \in Seq(Requests)
      /\ \A i \in 1..Len(b) : /\ b[i] \in Requests /\ b[i] # j
                              /\ Unstarted(b[i]) /\ reqs[j].ticket < reqs[b[i]].ticket
      /\ \A i, k \in 1..Len(b) : i < k => reqs[b[i]].ticket < reqs[b[k]].ticket
      /\ \A r \in Requests : Unstarted(r) => r = j \/ \E i \in 1..Len(b) : r = b[i]
  BY <1>1, FrontJob
<1>3. \A r \in Requests : Unstarted(r)' <=> Unstarted(r)
  <2> SUFFICES ASSUME NEW r \in Requests
               PROVE  Unstarted(r)' <=> Unstarted(r)
    OBVIOUS
  <2>1. Unstarted(r)' <=> r = j \/ \E i \in 1..Len(b) : r = b[i]
    BY <1>1 DEF Unstarted, Queued
  <2>2. Unstarted(r) => r = j \/ \E i \in 1..Len(b) : r = b[i]
    BY <1>2
  <2>3. r = j \/ (\E i \in 1..Len(b) : r = b[i]) => Unstarted(r)
    BY <1>2
  <2> QED BY <2>1, <2>2, <2>3
<1>4. waiting' \notin Queued'
  BY <1>1, <1>2 DEF Queued
<1>5. PlacesInv'
  <2>1. /\ \A r \in Requests : reqs'[r].send <=> (Unstarted(r)' \/ r \in running' \cup draining')
        /\ \A r \in Requests : Unstarted(r)' => r \notin running' \cup draining'
        /\ running' \cap draining' = {}
        /\ \A r \in Requests : reqs'[r].ticket <= sent' /\ (reqs'[r].send => reqs'[r].ticket # 0)
    BY <1>3 DEF WorkerIInv, PlacesInv
  <2>2. /\ \A i, k \in 1..Len(queue') : i < k => reqs'[queue'[i]].ticket < reqs'[queue'[k]].ticket
        /\ \A i \in 1..Len(queue') : reqs'[waiting'].ticket < reqs'[queue'[i]].ticket
    BY <1>1, <1>2
  <2> QED BY <1>4, <2>1, <2>2 DEF PlacesInv
<1>6. ASSUME NEW r \in Requests PROVE PhaseInv(r, reqs[r])' /\ StreamInv(r, reqs[r])'
  <2>1. PICK q : q = reqs'[r] /\ PhaseInv(r, q) /\ StreamInv(r, q)
    BY RowOf
  <2>2. PhaseInv(r, q)' /\ StreamInv(r, q)'
    BY <1>3, <2>1, RowMoves
  <2> QED BY <2>1, <2>2
<1> QED BY <1>5, <1>6, WorkerKeeps

(* The job at the front leaves the queue for good, with the row k. *)
LEMMA AdmitKeeps ==
  ASSUME WorkerIInv, waiting # NoJob \/ queue # <<>>, NEW j, j = NextUp,
         NEW k \in RequestRow, reqs' = [reqs EXCEPT ![j] = k],
         waiting' = NoJob, queue' = Behind,
         running' \subseteq running \cup {j}, draining' \subseteq draining \cup {j},
         running \subseteq running', draining \subseteq draining',
         ~(j \in running' /\ j \in draining'),
         k.send <=> j \in running' \cup draining',
         k.ticket \in {0, reqs[j].ticket}, k.send => k.ticket = reqs[j].ticket,
         k.phase = reqs[j].phase, PhaseInv(j, k)', StreamInv(j, k)',
         pc = "admit", pc' = "admit", UNCHANGED <<flushed, handle, permit, task, sent>>
  PROVE  WorkerIInv'
<1>1. PICK b : b = Behind
  OBVIOUS
<1>2. /\ j \in Requests /\ Unstarted(j) /\ b \in Seq(Requests)
      /\ \A i \in 1..Len(b) : /\ b[i] \in Requests /\ b[i] # j
                              /\ Unstarted(b[i]) /\ reqs[j].ticket < reqs[b[i]].ticket
      /\ \A i, m \in 1..Len(b) : i < m => reqs[b[i]].ticket < reqs[b[m]].ticket
      /\ \A r \in Requests : Unstarted(r) => r = j \/ \E i \in 1..Len(b) : r = b[i]
  BY <1>1, FrontJob
<1>3. \A r \in Requests : Unstarted(r)' <=> (Unstarted(r) /\ r # j)
  BY <1>1, <1>2, Capacities DEF Unstarted, Queued
<1>4. reqs'[j] = k /\ \A r \in Requests : r # j => reqs'[r] = reqs[r]
  BY <1>2 DEF WorkerIInv, WorkerTypeOK
<1>5. running \cap draining = {} /\ running \subseteq Requests /\ draining \subseteq Requests
      /\ j \notin running \cup draining
  BY <1>2 DEF WorkerIInv, PlacesInv, WorkerTypeOK
<1>6. \A r \in Requests : r # j => /\ r \in running' <=> r \in running
                                   /\ r \in draining' <=> r \in draining
  BY <1>5
<1>7. WorkerTypeOK'
  <2>1. reqs' \in [Requests -> RequestRow]
    BY <1>2 DEF WorkerIInv, WorkerTypeOK
  <2>2. running' \subseteq Requests /\ draining' \subseteq Requests
    BY <1>2, <1>5
  <2> QED BY <1>1, <1>2, <2>1, <2>2 DEF WorkerIInv, WorkerTypeOK
<1>8. PlacesInv'
  <2>1. \A r \in Requests : reqs'[r].send <=> (Unstarted(r)' \/ r \in running' \cup draining')
    <3> SUFFICES ASSUME NEW r \in Requests
                 PROVE  reqs'[r].send <=> (Unstarted(r)' \/ r \in running' \cup draining')
      OBVIOUS
    <3>1. CASE r = j
      BY <1>3, <1>4, <3>1
    <3>2. CASE r # j
      BY <1>3, <1>4, <1>6, <3>2, RowOf
    <3> QED BY <3>1, <3>2
  <2>2. \A r \in Requests : Unstarted(r)' => r \notin running' \cup draining'
    BY <1>3, <1>6 DEF WorkerIInv, PlacesInv
  <2>3. running' \cap draining' = {}
    BY <1>5, <1>6, <1>7 DEF WorkerTypeOK
  <2>4. NoJob \notin Queued'
    BY <1>7, Capacities DEF WorkerTypeOK, Queued
  <2>5. \A i \in 1..Len(b) : reqs'[b[i]].ticket = reqs[b[i]].ticket
    BY <1>2, <1>4
  <2>6. \A i, m \in 1..Len(queue') : i < m => reqs'[queue'[i]].ticket < reqs'[queue'[m]].ticket
    BY <1>1, <1>2, <2>5
  <2>7. \A r \in Requests : reqs'[r].ticket <= sent' /\ (reqs'[r].send => reqs'[r].ticket # 0)
    <3> SUFFICES ASSUME NEW r \in Requests
                 PROVE  reqs'[r].ticket <= sent' /\ (reqs'[r].send => reqs'[r].ticket # 0)
      OBVIOUS
    <3>1. /\ reqs[r].ticket \in Nat /\ reqs[r].ticket <= sent /\ sent \in Nat
          /\ reqs[r].send => reqs[r].ticket # 0
      BY RowOf
    <3>2. CASE r = j
      <4>1. reqs[r].send
        BY <1>2, <3>2, RowOf
      <4> QED BY <1>4, <3>1, <3>2, <4>1
    <3>3. CASE r # j
      BY <1>4, <3>1, <3>3
    <3> QED BY <3>2, <3>3
  <2> QED BY <2>1, <2>2, <2>3, <2>4, <2>6, <2>7 DEF PlacesInv
<1>9. \A r \in Requests : reqs'[r].phase = reqs[r].phase
                          /\ PhaseInv(r, reqs[r])' /\ StreamInv(r, reqs[r])'
  <2> SUFFICES ASSUME NEW r \in Requests
               PROVE  reqs'[r].phase = reqs[r].phase
                      /\ PhaseInv(r, reqs[r])' /\ StreamInv(r, reqs[r])'
    OBVIOUS
  <2>1. CASE r = j
    BY <1>4, <2>1
  <2>2. CASE r # j
    <3>1. PICK p : p = reqs'[r] /\ p = reqs[r] /\ PhaseInv(r, p) /\ StreamInv(r, p)
      BY <1>4, <2>2, RowOf
    <3>2. PhaseInv(r, p)' /\ StreamInv(r, p)'
      BY <1>3, <1>6, <2>2, <3>1, RowMoves
    <3> QED BY <3>1, <3>2
  <2> QED BY <2>1, <2>2
<1> QED BY <1>7, <1>8, <1>9, WorkerKeeps

(* What is left of an ordered stream when the outbox is dropped. *)
LEMMA PrefixInOrder ==
  ASSUME NEW a \in Seq(Event), NEW b \in Seq(Event), InOrder(a \o b)
  PROVE  InOrder(a)
<1> DEFINE s == a \o b
<1>1. /\ Len(a) \in Nat /\ Len(s) \in Nat /\ Len(a) <= Len(s)
      /\ \A i \in 1..Len(a) : s[i] = a[i]
  OBVIOUS
<1>2. InOrder(s) /\ (a = <<>> <=> Len(a) = 0) /\ (Len(s) = 0 => Len(a) = 0)
      /\ (s = <<>> => Len(s) = 0)
  BY <1>1, EmptySeq
<1> HIDE DEF s
<1>3. CASE a = <<>>
  BY <1>3 DEF InOrder, Lead
<1>4. CASE a # <<>>
  <2>1. s # <<>> /\ s[1] = a[1]
    BY <1>1, <1>2, <1>4
  <2>2. Lead(s) = Lead(a) /\ Lead(a) \in {0, 1}
    BY <1>4, <2>1 DEF Lead
  <2>3. ASSUME NEW i \in (1 + Lead(a))..Len(a)
        PROVE  IF a[i] \in Terminal THEN i = Len(a) ELSE a[i] = Piece(i - Lead(a))
    <3>1. i \in (1 + Lead(s))..Len(s) /\ i \in 1..Len(a)
      BY <1>1, <2>2
    <3>2. IF s[i] \in Terminal THEN i = Len(s) ELSE s[i] = Piece(i - Lead(s))
      BY <1>2, <3>1 DEF InOrder
    <3>3. s[i] = a[i]
      BY <1>1, <3>1
    <3> QED BY <1>1, <2>2, <3>1, <3>2, <3>3
  <2> QED BY <2>3 DEF InOrder
<1> QED BY <1>3, <1>4

(* A delivery that ends with what is in the channel. *)
LEMMA DroppedStream ==
  ASSUME NEW q \in RequestRow, q.recv
  PROVE  /\ InOrder(Events(q)) => InOrder(Events(Dropped(q)))
         /\ q.outbox = <<>> => Events(Dropped(q)) = Events(q)
<1>1. /\ q.chan \in Seq(Event) /\ q.outbox \in Seq(Event) /\ q.seen \in Seq(Event)
  BY DEF RequestRow
<1>6. q.seen \o q.chan \in Seq(Event)
  BY <1>1
<1>2. PICK a \in Seq(Event), b \in Seq(Event) : a = q.seen \o q.chan /\ b = q.outbox
  BY <1>1, <1>6
<1>3. a \o <<>> = a
  BY <1>2
<1>4. Events(Dropped(q)) = a \o <<>>
  BY <1>2, DroppedEffect DEF Events
<1>5. Events(q) = a \o b
  BY <1>2 DEF Events
<1>7. InOrder(a \o b) => InOrder(a)
  BY PrefixInOrder
<1>8. q.outbox = <<>> => a \o b = a
  BY <1>2
<1> QED BY <1>3, <1>4, <1>5, <1>7, <1>8

LEMMA StopKeeps ==
  ASSUME WorkerIInv, pc' = "stopped", draining' = {}, running = {}, waiting = NoJob, queue = <<>>,
         reqs' = [r \in Requests |-> IF r \in draining THEN Dropped(reqs[r]) ELSE reqs[r]],
         UNCHANGED <<queue, waiting, running, flushed, handle, permit, task, sent>>
  PROVE  WorkerIInv'
<1>1. \A r \in Requests : Unstarted(r)' <=> Unstarted(r)
  BY DEF Unstarted, Queued
<1>2. draining \subseteq Requests
  BY DEF WorkerIInv, WorkerTypeOK
<1>3. ASSUME NEW r \in draining
      PROVE  /\ reqs'[r] \in RequestRow /\ reqs'[r].phase = reqs[r].phase
             /\ ~reqs'[r].send /\ reqs'[r].ticket \in {0, reqs[r].ticket}
             /\ PhaseInv(r, reqs[r])' /\ StreamInv(r, reqs[r])'
  <2>1. r \in Requests /\ ~Unstarted(r)
    BY <1>2 DEF WorkerIInv, PlacesInv
  <2>2. PICK q, j : q = reqs[r] /\ j = reqs'[r]
    OBVIOUS
  <2>3. /\ q \in RequestRow /\ PhaseInv(r, q) /\ StreamInv(r, q) /\ q.send /\ j = Dropped(q)
    BY <2>1, <2>2, RowOf
  <2>4. /\ Len(q.chan) <= EventBuffer /\ (~q.recv => ~q.counted)
        /\ Len(<<>>) <= EventBuffer
    BY <2>3, Capacities DEF PhaseInv, Attended
  <2>5. /\ j \in RequestRow /\ ~j.send /\ j.recv = q.recv /\ j.phase = q.phase
        /\ q.recv => /\ j.ticket = q.ticket /\ j.counted = q.counted /\ j.chan = q.chan
        /\ ~q.recv => j.ticket = 0 /\ ~j.counted /\ j.chan = <<>>
    BY <2>3, DroppedEffect
  <2>6. q.recv \in BOOLEAN
    BY <2>3 DEF RequestRow
  <2>7. j.ticket \in {0, q.ticket} /\ (j.counted <=> q.counted) /\ Len(j.chan) <= EventBuffer
    BY <2>4, <2>5, <2>6
  <2>8. j.recv => InOrder(Events(j))
    BY <2>3, <2>5, DroppedStream DEF StreamInv
  <2>9. PhaseInv(r, j)' /\ StreamInv(r, j)'
    BY <1>1, <2>1, <2>3, <2>5, <2>7, <2>8, WorkedRow
  <2> QED BY <2>2, <2>5, <2>7, <2>9
<1>4. ASSUME NEW r \in Requests \ draining
      PROVE  reqs'[r] = reqs[r] /\ PhaseInv(r, reqs[r])' /\ StreamInv(r, reqs[r])'
  <2>1. PICK q : q = reqs'[r] /\ q = reqs[r] /\ PhaseInv(r, q) /\ StreamInv(r, q)
    BY RowOf
  <2>2. PhaseInv(r, q)' /\ StreamInv(r, q)'
    BY <1>1, <2>1, RowMoves
  <2> QED BY <2>1, <2>2
<1>5. \A r \in Requests : /\ reqs'[r] \in RequestRow /\ reqs'[r].phase = reqs[r].phase
                          /\ PhaseInv(r, reqs[r])' /\ StreamInv(r, reqs[r])'
  <2> SUFFICES ASSUME NEW r \in Requests
               PROVE  /\ reqs'[r] \in RequestRow /\ reqs'[r].phase = reqs[r].phase
                      /\ PhaseInv(r, reqs[r])' /\ StreamInv(r, reqs[r])'
    OBVIOUS
  <2>1. CASE r \in draining
    BY <1>3, <2>1
  <2>2. CASE r \notin draining
    BY <1>4, <2>2, RowOf
  <2> QED BY <2>1, <2>2
<1>6. WorkerTypeOK'
  <2>1. reqs' \in [Requests -> RequestRow]
    BY <1>5
  <2> QED BY <2>1 DEF WorkerIInv, WorkerTypeOK
<1>7. PlacesInv'
  <2>1. \A r \in Requests :
           /\ reqs'[r].send <=> (Unstarted(r) \/ r \in running' \cup draining')
           /\ reqs'[r].send => reqs[r].send /\ reqs'[r].ticket = reqs[r].ticket
           /\ reqs'[r].ticket \in {0, reqs[r].ticket}
    <3> SUFFICES ASSUME NEW r \in Requests
                 PROVE  /\ reqs'[r].send <=> (Unstarted(r) \/ r \in running' \cup draining')
                        /\ reqs'[r].send => reqs[r].send /\ reqs'[r].ticket = reqs[r].ticket
                        /\ reqs'[r].ticket \in {0, reqs[r].ticket}
      OBVIOUS
    <3>1. CASE r \in draining
      <4>1. ~Unstarted(r)
        BY <3>1 DEF WorkerIInv, PlacesInv
      <4> QED BY <1>3, <3>1, <4>1
    <3>2. CASE r \notin draining
      BY <1>4, <3>2, RowOf
    <3> QED BY <3>1, <3>2
  <2> QED BY <1>6, <2>1, PlacesKeep DEF WorkerIInv
<1> QED BY <1>5, <1>6, <1>7, WorkerKeeps

LEMMA TakeTurnKeeps ==
  ASSUME WorkerIInv, TakeTurn
  PROVE  WorkerIInv'
<1>1. UNCHANGED <<running, flushed, handle, permit, task, sent>> /\ pc = "top"
  BY DEF TakeTurn
<1>2. CASE /\ running = {} /\ waiting = NoJob /\ queue # <<>>
           /\ waiting' = Head(queue) /\ queue' = Tail(queue)
           /\ pc' = "admit" /\ UNCHANGED <<reqs, draining>>
  <2>1. waiting' = NextUp /\ queue' = Behind
    BY <1>2 DEF NextUp, Behind
  <2>2. NextUp \in Requests /\ Behind \in Seq(Requests)
    BY <1>2, FrontJob
  <2>3. WorkerTypeOK'
    BY <1>1, <1>2, <2>1, <2>2 DEF WorkerIInv, WorkerTypeOK
  <2> QED BY <1>1, <1>2, <2>1, <2>3, TakeKeeps
<1>3. CASE /\ running = {} /\ waiting = NoJob /\ queue = <<>> /\ pc' = "stopped"
           /\ draining' = {}
           /\ reqs' = [r \in Requests |-> IF r \in draining THEN Dropped(reqs[r])
                                                            ELSE reqs[r]]
           /\ UNCHANGED <<queue, waiting>>
  BY <1>1, <1>3, StopKeeps
<1>4. CASE pc' = "admit" /\ UNCHANGED <<reqs, queue, waiting, draining>>
  <2>1. WorkerTypeOK'
    BY <1>1, <1>4 DEF WorkerIInv, WorkerTypeOK
  <2>2. DeferredIsWoken'
    BY <1>1, <1>4 DEF WorkerIInv, DeferredIsWoken
  <2> QED BY <1>1, <1>4, <2>1, <2>2, PlaceKeeps
<1> QED BY <1>1, <1>2, <1>3, <1>4 DEF TakeTurn

(* The one event of a job that never ran ends its stream. *)
LEMMA OnlyEvent ==
  ASSUME NEW e \in Terminal
  PROVE  InOrder(<<e>>) /\ Ends(<<e>>) /\ <<e>> \in Seq(Event)
<1>1. e \in Event /\ <<>> \in Seq(Event) /\ Lead(<<>>) = 0 /\ Len(<<>>) = 0
  BY MarkType DEF Terminal, Lead
<1>2. InOrder(Append(<<>>, e)) /\ Ends(Append(<<>>, e))
  <2>1. PICK s \in Seq(Event), n \in Nat : s = <<>> /\ n = 0
    BY <1>1
  <2>2. Len(s) = n + Lead(s) /\ \A i \in (1 + Lead(s))..Len(s) : s[i] = Piece(i - Lead(s))
    BY <1>1, <2>1
  <2>3. InOrder(Append(s, e)) /\ Ends(Append(s, e))
    BY <2>1, <2>2, TerminalEnds
  <2> QED BY <2>1, <2>3
<1> QED BY <1>1, <1>2

LEMMA AdmitWaitingKeeps ==
  ASSUME WorkerIInv, AdmitWaiting
  PROVE  WorkerIInv'
<1>0. pc = "admit" /\ UNCHANGED <<flushed, handle, permit, task, sent>>
  BY DEF AdmitWaiting
<1>1. CASE NothingToAdmit
  <2>1. WorkerTypeOK'
    BY <1>0, <1>1 DEF NothingToAdmit, WorkerIInv, WorkerTypeOK
  <2>2. DeferredIsWoken'
    BY <1>0, <1>1 DEF NothingToAdmit, WorkerIInv, DeferredIsWoken
  <2> QED BY <1>0, <1>1, <2>1, <2>2, PlaceKeeps DEF NothingToAdmit
<1>2. CASE waiting # NoJob \/ queue # <<>>
  <2>1. PICK verdict \in Verdicts(NextUp) :
          /\ queue' = Behind /\ waiting' = IF verdict = "wait" THEN NextUp ELSE NoJob
          /\ Admitted(NextUp, verdict)
    <3>1. ~NothingToAdmit
      BY <1>2 DEF NothingToAdmit
    <3> QED BY <3>1 DEF AdmitWaiting, NextUp, Behind
  <2>2. PICK j, q : j = NextUp /\ q = reqs[j]
    OBVIOUS
  <2>3. /\ j \in Requests /\ Unstarted(j) /\ Behind \in Seq(Requests)
        /\ q \in RequestRow /\ PhaseInv(j, q) /\ StreamInv(j, q) /\ q.send
        /\ j \notin running \cup draining
    <3>1. j \in Requests /\ Unstarted(j) /\ Behind \in Seq(Requests)
      BY <1>2, <2>2, FrontJob
    <3> QED BY <2>2, <3>1, RowOf DEF WorkerIInv, PlacesInv
  <2>4. PICK k : /\ reqs' = [reqs EXCEPT ![j] = k]
                 /\ k = CASE verdict = "drop" -> Dropped([q EXCEPT !.cancel = TRUE])
                          [] verdict = "answer" ->
                               Dropped([q EXCEPT !.chan = Append(@, Mark("answer"))])
                          [] verdict = "refuse" ->
                               Dropped([q EXCEPT !.cancel = TRUE, !.chan =
                                 IF Len(@) < EventBuffer THEN Append(@, Mark("error")) ELSE @])
                          [] verdict = "fail" -> [q EXCEPT !.outbox = Append(@, Mark("error"))]
                          [] OTHER -> q
    BY <2>1, <2>2 DEF Admitted
  <2>5. /\ pc' = IF verdict = "wait" THEN "step" ELSE "admit"
        /\ running' = IF verdict = "start" THEN running \cup {j} ELSE running
        /\ draining' = IF verdict = "fail" THEN draining \cup {j} ELSE draining
    BY <2>1, <2>2 DEF Admitted
  <2>6. /\ verdict \in {"drop", "answer", "wait", "refuse", "start", "fail"}
        /\ verdict = "drop" => Gone(q)
        /\ verdict # "drop" => ~Gone(q)
    <3>1. verdict \in Verdicts(j)
      BY <2>1, <2>2
    <3>2. CASE Gone(q)
      <4>1. Verdicts(j) = {"drop"}
        BY <2>2, <3>2 DEF Verdicts
      <4> QED BY <3>1, <3>2, <4>1
    <3>3. CASE ~Gone(q)
      <4>1. Verdicts(j) \subseteq {"answer", "wait", "refuse", "start", "fail"}
        BY <2>2, <2>3, <3>3 DEF Verdicts, RequestRow
      <4> QED BY <3>1, <3>3, <4>1
    <3> QED BY <3>2, <3>3
  <2>7. running \subseteq Requests /\ draining \subseteq Requests
    BY DEF WorkerIInv, WorkerTypeOK
  <2>8. q.recv => /\ q.seen = <<>> /\ q.chan = <<>> /\ q.outbox = <<>>
                  /\ q.made = 0 /\ ~q.heard
    BY <2>3 DEF StreamInv
  <2>9. CASE verdict = "wait"
    <3>1. reqs' = reqs
      BY <2>2, <2>3, <2>4, <2>9 DEF WorkerIInv, WorkerTypeOK
    <3>2. WorkerTypeOK'
      BY <1>0, <2>1, <2>2, <2>3, <2>5, <2>9, <3>1 DEF WorkerIInv, WorkerTypeOK
    <3> QED BY <1>0, <1>2, <2>1, <2>5, <2>9, <3>1, <3>2, TakeKeeps
  <2>10. ~Unstarted(j)' \/ verdict = "wait"
    <3> SUFFICES ASSUME verdict # "wait" PROVE ~Unstarted(j)'
      OBVIOUS
    <3>1. \A i \in 1..Len(Behind) : Behind[i] # j
      BY <1>2, <2>2, FrontJob
    <3> QED BY <2>1, <2>3, <3>1, Capacities DEF Unstarted, Queued
  (* What each other verdict has to show of the row it leaves. *)
  <2>11. ASSUME verdict # "wait", k \in RequestRow, k.phase = q.phase, k.recv = q.recv,
                k.counted <=> q.counted, k.send <=> verdict \in {"start", "fail"},
                k.ticket \in {0, q.ticket}, k.send => k.ticket = q.ticket,
                k.recv /\ k.send /\ ~k.left => ~k.cancel, Len(k.chan) <= EventBuffer,
                k.recv => /\ InOrder(Events(k))
                          /\ verdict = "start" => OpenStream(k)
                          /\ verdict # "start" /\ ~k.left => Ends(Events(k))
         PROVE  WorkerIInv'
    <3>1. PhaseInv(j, k)' /\ StreamInv(j, k)'
      <4>1. j \in running' => verdict = "start"
        BY <2>3, <2>5
      <4>2. (j \in draining' \/ (~k.send /\ pc' # "stopped")) => verdict # "start"
        BY <2>3, <2>5, <2>11
      <4> QED BY <2>3, <2>10, <2>11, <4>1, <4>2, WorkedRow
    <3>2. /\ running' \subseteq running \cup {j}
          /\ draining' \subseteq draining \cup {j}
          /\ running \subseteq running' /\ draining \subseteq draining'
          /\ ~(j \in running' /\ j \in draining')
          /\ k.send <=> j \in running' \cup draining'
      BY <2>3, <2>5, <2>11
    <3>3. waiting' = NoJob /\ queue' = Behind /\ pc' = "admit"
      BY <2>1, <2>5, <2>11
    <3> QED BY <1>0, <1>2, <2>2, <2>4, <2>11, <3>1, <3>2, <3>3, AdmitKeeps
  <2>12. Len(q.chan) <= EventBuffer /\ (q.recv /\ ~q.left => ~q.cancel)
         /\ (~q.recv => ~q.counted) /\ Len(<<>>) <= EventBuffer
         /\ q.recv \in BOOLEAN
    BY <2>3, Capacities DEF PhaseInv, Attended, RequestRow
  <2>13. CASE verdict = "drop"
    <3> DEFINE p == [q EXCEPT !.cancel = TRUE]
    <3>1. k = Dropped(p)
      BY <2>4, <2>13
    <3>2. /\ p \in RequestRow /\ p.phase = q.phase /\ p.recv = q.recv
          /\ p.counted = q.counted
          /\ p.ticket = q.ticket /\ p.left = q.left /\ p.chan = q.chan
          /\ p.seen = q.seen
          /\ p.outbox = q.outbox
      BY <2>3 DEF RequestRow
    <3> HIDE DEF p
    <3>3. /\ k \in RequestRow /\ ~k.send /\ k.recv = q.recv /\ k.phase = q.phase
          /\ k.outbox = <<>>
          /\ q.recv => /\ k.ticket = q.ticket /\ k.left = q.left /\ k.counted = q.counted
                       /\ k.chan = q.chan /\ k.seen = q.seen
          /\ ~q.recv => k.ticket = 0 /\ ~k.counted /\ k.chan = <<>>
      BY <3>1, <3>2, DroppedEffect
    <3>4. q.recv => q.left /\ InOrder(Events(k))
      <4>1. q.recv => q.left
        BY <2>6, <2>12, <2>13 DEF Gone
      <4>2. q.recv => k.seen = <<>> /\ k.chan = <<>> /\ k.outbox = <<>>
        BY <2>8, <3>3
      <4> QED BY <4>1, <4>2, NoEvents
    <3>5. Len(k.chan) <= EventBuffer /\ k.ticket \in {0, q.ticket} /\ (k.counted <=> q.counted)
      BY <2>12, <3>3
    <3> QED BY <2>11, <2>13, <3>3, <3>4, <3>5
  <2>14. ASSUME NEW e \in Terminal, NEW p \in RequestRow, k = Dropped(p), ~Gone(q),
                p.phase = q.phase, p.recv = q.recv, p.counted = q.counted,
                p.ticket = q.ticket, p.left = q.left, p.chan = <<e>>, p.seen = q.seen,
                verdict \in {"answer", "refuse"}
         PROVE  WorkerIInv'
    <3>1. q.recv
      BY <2>14 DEF Gone
    <3>2. /\ k \in RequestRow /\ ~k.send /\ k.recv = q.recv /\ k.phase = q.phase
          /\ k.outbox = <<>> /\ k.ticket = q.ticket /\ k.left = q.left
          /\ k.counted = q.counted /\ k.chan = <<e>> /\ k.seen = <<>>
      BY <2>8, <2>14, <3>1, DroppedEffect
    <3>3. <<e>> \in Seq(Event) /\ InOrder(<<e>>) /\ Ends(<<e>>) /\ Len(<<e>>) <= EventBuffer
      BY <2>14, OnlyEvent, Capacities
    <3>4. Events(k) = <<e>>
      <4>1. PICK s \in Seq(Event) : s = <<e>>
        BY <3>3
      <4>2. <<>> \o s \o <<>> = s
        BY <4>1
      <4> QED BY <3>2, <4>1, <4>2 DEF Events
    <3> QED BY <2>11, <2>14, <3>2, <3>3, <3>4
  <2>15. CASE verdict = "answer"
    <3> DEFINE ch == <<Mark("answer")>>
               p == [q EXCEPT !.chan = ch]
    <3>1. q.chan = <<>> /\ ~Gone(q)
      BY <2>6, <2>8, <2>15 DEF Gone
    <3>2. k = Dropped(p)
      <4>1. Append(q.chan, Mark("answer")) = ch
        BY <3>1
      <4> HIDE DEF ch
      <4> QED BY <2>4, <2>15, <4>1
    <3>3. ch \in Seq(Event) /\ Mark("answer") \in Terminal
      BY MarkType
    <3> HIDE DEF ch
    <3>4. /\ p \in RequestRow /\ p.phase = q.phase /\ p.recv = q.recv
          /\ p.counted = q.counted
          /\ p.ticket = q.ticket /\ p.left = q.left /\ p.chan = ch /\ p.seen = q.seen
      BY <2>3, <3>3 DEF RequestRow
    <3> HIDE DEF p
    <3> QED BY <2>14, <2>15, <3>1, <3>2, <3>3, <3>4 DEF ch
  <2>16. CASE verdict = "refuse"
    <3> DEFINE ch == <<Mark("error")>>
               p == [q EXCEPT !.cancel = TRUE, !.chan = ch]
    <3>1. q.chan = <<>> /\ ~Gone(q)
      BY <2>6, <2>8, <2>16 DEF Gone
    <3>2. k = Dropped(p)
      <4>1. Append(q.chan, Mark("error")) = ch /\ Len(q.chan) < EventBuffer
        BY <3>1, Capacities
      <4> HIDE DEF ch
      <4> QED BY <2>4, <2>16, <4>1
    <3>3. ch \in Seq(Event) /\ Mark("error") \in Terminal
      BY MarkType
    <3> HIDE DEF ch
    <3>4. /\ p \in RequestRow /\ p.phase = q.phase /\ p.recv = q.recv
          /\ p.counted = q.counted
          /\ p.ticket = q.ticket /\ p.left = q.left /\ p.chan = ch /\ p.seen = q.seen
      BY <2>3, <3>3 DEF RequestRow
    <3> HIDE DEF p
    <3> QED BY <2>14, <2>16, <3>1, <3>2, <3>3, <3>4 DEF ch
  <2>17. CASE verdict = "fail"
    <3> DEFINE ob == <<Mark("error")>>
    <3>1. q.outbox = <<>> /\ q.seen = <<>> /\ q.chan = <<>> /\ q.recv /\ ~Gone(q)
      BY <2>6, <2>8, <2>17 DEF Gone
    <3>2. k = [q EXCEPT !.outbox = ob]
      <4>1. Append(q.outbox, Mark("error")) = ob
        BY <3>1
      <4> HIDE DEF ob
      <4> QED BY <2>4, <2>17, <4>1
    <3>3. ob \in Seq(Event) /\ InOrder(ob) /\ Ends(ob)
      BY MarkType, OnlyEvent
    <3> HIDE DEF ob
    <3>4. /\ k \in RequestRow /\ k.phase = q.phase /\ k.recv = q.recv
          /\ k.counted = q.counted
          /\ k.ticket = q.ticket /\ k.left = q.left /\ k.chan = q.chan
          /\ k.seen = q.seen
          /\ k.outbox = ob /\ k.send = q.send /\ k.cancel = q.cancel
      BY <2>3, <3>2, <3>3 DEF RequestRow
    <3>5. Events(k) = ob
      <4>1. <<>> \o <<>> \o ob = ob
        BY <3>3
      <4> QED BY <3>1, <3>4, <4>1 DEF Events
    <3> QED BY <2>3, <2>11, <2>12, <2>17, <3>1, <3>3, <3>4, <3>5
  <2>18. CASE verdict = "start"
    <3>1. k = q /\ q.recv
      BY <2>4, <2>6, <2>18 DEF Gone
    <3>2. Events(q) = <<>> /\ InOrder(Events(q)) /\ Lead(Events(q)) = 0
      BY <2>8, <3>1, NoEvents
    <3>3. OpenStream(q)
      BY <2>8, <3>1, <3>2 DEF OpenStream
    <3> QED BY <2>3, <2>11, <2>12, <2>18, <3>1, <3>2, <3>3
  <2> QED BY <2>6, <2>9, <2>13, <2>15, <2>16, <2>17, <2>18
<1> QED BY <1>1, <1>2 DEF AdmitWaiting

(***************************************************************************)
(* The theorems.                                                           *)
(***************************************************************************)
LEMMA WorkerInitOK ==
  ASSUME WorkerInit
  PROVE  WorkerIInv
<1>1. queue = <<>> /\ waiting = NoJob /\ running = {} /\ draining = {} /\ sent = 0 /\ pc = "top"
      /\ task = "starting"
  BY DEF WorkerInit
<1>2. \A r \in Requests : reqs[r] = Unsent
  BY DEF WorkerInit
<1>3. WorkerTypeOK
  <2>1. <<>> \in Seq(Requests) /\ reqs \in [Requests -> RequestRow]
    BY UnsentType DEF WorkerInit
  <2> QED BY <2>1 DEF WorkerInit, WorkerTypeOK
<1>4. Len(queue) = 0
  BY <1>1
<1>5. Queued = {} /\ \A r \in Requests : ~Unstarted(r)
  BY <1>1, <1>4, Capacities DEF Queued, Unstarted
<1>6. PlacesInv
  BY <1>1, <1>2, <1>4, <1>5, UnsentType DEF PlacesInv
<1>7. DeferredIsWoken
  BY <1>1 DEF DeferredIsWoken
<1>8. ASSUME NEW r \in Requests PROVE PhaseInv(r, reqs[r]) /\ StreamInv(r, reqs[r])
  <2>1. PhaseInv(r, Unsent)
    <3>1. Len(<<>>) <= EventBuffer
      BY Capacities
    <3> QED BY <1>5, <3>1, UnsentType DEF PhaseInv, Attended
  <2>2. InOrder(Events(Unsent))
    BY UnsentType, NoEvents
  <2>3. StreamInv(r, Unsent)
    BY <1>1, <1>5, <2>2, UnsentType DEF StreamInv
  <2> QED BY <1>2, <2>1, <2>3
<1> QED BY <1>3, <1>6, <1>7, <1>8 DEF WorkerIInv

LEMMA StutterKeeps ==
  ASSUME WorkerIInv, UNCHANGED workerVars
  PROVE  WorkerIInv'
<1>1. WorkerTypeOK' /\ DeferredIsWoken'
  BY DEF workerVars, WorkerIInv, WorkerTypeOK, DeferredIsWoken
<1> QED BY <1>1, PlaceKeeps DEF workerVars

LEMMA WorkerNextKeeps ==
  ASSUME WorkerIInv, [WorkerNext]_workerVars
  PROVE  WorkerIInv'
<1>1. CASE UNCHANGED workerVars
  BY <1>1, StutterKeeps
<1>2. CASE TakeTurn
  BY <1>2, TakeTurnKeeps
<1>3. CASE AdmitWaiting
  BY <1>3, AdmitWaitingKeeps
<1>4. CASE StepEngine
  BY <1>4, StepEngineKeeps
<1>5. CASE EndTurn \/ IdleFlush
  <2>1. /\ FlushDraining /\ pc # "stopped" /\ pc' \in {"top", pc}
        /\ flushed' \in {{}, flushed}
    BY <1>5 DEF EndTurn, IdleFlush
  <2> QED BY <2>1, FlushDrainingKeeps
<1>6. ASSUME NEW r \in Requests, FlushRunning(r) PROVE WorkerIInv'
  BY <1>6, FlushRunningKeeps
<1>7. CASE ResumeTask
  BY <1>7, ResumeEachKeeps, FreedKeeps DEF ResumeTask
<1>8. CASE DropHandle
  BY <1>8, DropHandleKeeps
<1>9. ASSUME NEW r \in Requests, Submit(r) \/ Leave(r) \/ CancelRequest(r) PROVE WorkerIInv'
  BY <1>9, SubmitKeeps, LeaveKeeps, CancelKeeps
<1>10. ASSUME NEW r \in Requests, Count(r) \/ ReadSignal(r) \/ ClientReads(r) \/ StallOut(r)
       PROVE  WorkerIInv'
  BY <1>10, CountKeeps, ReadSignalKeeps, ClientReadsKeeps, StallOutKeeps
<1> QED BY <1>1, <1>2, <1>3, <1>4, <1>5, <1>6, <1>7, <1>8, <1>9, <1>10
        DEF WorkerNext, WorkerStep

(* The inductive invariant of the worker: every job with a delivery is in  *)
(* one place (queued, waiting, running or draining), those still to be     *)
(* admitted in the order they were sent; each reader's phase agrees with   *)
(* its count and its channel; each stream is in order.                     *)
THEOREM WorkerInvariant == WorkerSpec => []WorkerIInv
<1>1. WorkerInit => WorkerIInv
  BY WorkerInitOK
<1>2. WorkerIInv /\ [WorkerNext]_workerVars => WorkerIInv'
  BY WorkerNextKeeps
<1> QED BY <1>1, <1>2, PTL DEF WorkerSpec

(* Delivery::flush and the worker loop lose, repeat and reorder no event   *)
(* of any request, however many there are and however small the channels,  *)
(* and the stream of a request nobody cancelled is closed only with its    *)
(* terminal event in it.                                                   *)
THEOREM StreamsAreDelivered == WorkerSpec => []StreamsEndOnce
<1>1. ASSUME WorkerIInv PROVE StreamsEndOnce
  BY <1>1 DEF WorkerIInv, StreamInv, StreamsEndOnce
<1> QED BY <1>1, WorkerInvariant, PTL

(* A resumption that waits for the queue has a permit, or somebody whose   *)
(* release is still to come: QueueDepth::freed misses none.                *)
THEOREM ReleasesAreNotMissed == WorkerSpec => []DeferredIsWoken
<1>1. WorkerIInv => DeferredIsWoken
  BY DEF WorkerIInv
<1> QED BY <1>1, WorkerInvariant, PTL

(* admit_waiting starts a job only when every job sent before it is        *)
(* running, draining or over: admission is first in, first out, for every  *)
(* number of requests and every queue.                                     *)
THEOREM AdmissionInOrder == WorkerSpec => AdmissionIsFifo
<1> DEFINE Fifo ==
      \A r \in running' \ running, s \in Requests :
        (0 < reqs[s].ticket /\ reqs[s].ticket < reqs[r].ticket /\ reqs[s].send)
          => s \in running \cup draining
<1>1. ASSUME WorkerIInv, [WorkerNext]_workerVars PROVE [Fifo]_workerVars
  <2> SUFFICES ASSUME NEW r \in running', r \notin running, NEW s \in Requests,
                      reqs[s].ticket < reqs[r].ticket, reqs[s].send
               PROVE  s \in running \cup draining
    OBVIOUS
  <2>1. AdmitWaiting
    BY <1>1 DEF WorkerNext, WorkerStep, workerVars, TakeTurn, StepEngine, EndTurn,
       IdleFlush,
       FlushDraining, FlushRunning, ResumeTask, ResumeEach, Freed, DropHandle, Submit, Leave,
       CancelRequest, Count, ReadSignal, ClientReads, StallOut
  <2>2. (waiting # NoJob \/ queue # <<>>) /\ r = NextUp
    BY <2>1 DEF AdmitWaiting, NothingToAdmit, Admitted, NextUp
  <2>3. Unstarted(s) \/ s \in running \cup draining
    BY <1>1, RowOf
  <2>4. ~Unstarted(s)
    <3>1. \A t \in Requests : reqs[t].ticket \in Nat
      BY <1>1, RowOf
    <3>2. /\ NextUp \in Requests
          /\ Unstarted(s) => s = NextUp \/ \E i \in 1..Len(Behind) : s = Behind[i]
          /\ \A i \in 1..Len(Behind) : /\ Behind[i] \in Requests
                                       /\ reqs[NextUp].ticket < reqs[Behind[i]].ticket
      BY <1>1, <2>2, FrontJob
    <3> HIDE DEF Fifo
    <3> QED BY <2>2, <3>1, <3>2
  <2> QED BY <2>3, <2>4
<1> QED BY <1>1, WorkerInvariant, PTL DEF AdmissionIsFifo, WorkerSpec

(***************************************************************************)
(* The prompt cache's writer: what the engine lists was not deleted since, *)
(* a store is not undone by its own trim, and a closed writer is at rest,  *)
(* for any number of processes, snapshots, inodes, faults and crashes.     *)
(***************************************************************************)
CacheEntries == {EntryOf(n, b) : n \in CacheNames, b \in BOOLEAN}
Completions  == [stored : {<<>>} \cup {<<e>> : e \in CacheEntries}, evicted : SUBSET CacheNames]
InodeType    == [whole : BOOLEAN, boundary : BOOLEAN, lock : SUBSET CacheProcs]

StartingAt == {"down", "start sweep", "start unlink", "start trim"}
StoringAt  == {"open", "lock", "write", "rename", "insert"}
StoredAt   == {"list", "sweep", "unlink", "trim"}
WritingAt  == {"admit", "failed"} \cup StoringAt \cup StoredAt
CacheAts   == StartingAt \cup {"wait"} \cup WritingAt

CacheFields == {"at", "job", "handle", "todo", "stored", "queued", "inFlight", "known",
                "index", "completed", "closing", "abort", "listed", "gone"}

(* What is kept in a writer's memory.                                      *)
WriterTyped(c) ==
  /\ c = [f \in CacheFields |-> c[f]]
  /\ c.at \in CacheAts /\ c.stored \in BOOLEAN
  /\ c.queued \in CacheJobs \cup {NoWrite}
  /\ c.index \in Seq(CacheEntries) /\ c.completed \in Seq(Completions)
  /\ c.closing \in {"no", "waiting", "aborting", "flushed", "aborted"}

(* The writer has a job in hand exactly while it is persisting one, and    *)
(* takes no other once it is closed.                                       *)
InHand(c) ==
  /\ c.inFlight \in BOOLEAN /\ (c.inFlight <=> c.at \in WritingAt)
  /\ c.at \in WritingAt => c.job \in CacheJobs
  /\ c.closing # "no" => c.at \notin StartingAt
  /\ c.closing \in {"flushed", "aborted"} => c.at = "wait" /\ c.queued = NoWrite
  /\ c.at \in StartingAt => c.completed = <<>> /\ c.gone = {} /\ c.queued = NoWrite

(* What is being stored was admitted by the index it is inserted into, and *)
(* once inserted it survives the trim that follows.                        *)
Survives(c) ==
  /\ c.at \in StoringAt => Admits(c.index, EntryOf(NameOf(c.job), c.job.boundary), DiskBudget)
  /\ c.stored => /\ c.at \in StoredAt /\ NameOf(c.job) \notin c.gone
                 /\ OneContent => NameOf(c.job) \notin Trimmed(c.index)
  /\ OneContent => \A k \in DOMAIN c.completed : \A n \in DOMAIN c.completed[k].stored :
       c.completed[k].stored[n].name \notin c.completed[k].evicted

(* Where an entry of the list comes from once n completions are collected, *)
(* none of which, from there on, reports it evicted.                       *)
Spared(done, from, n, e) == \A k \in from..n : e.name \notin done[k].evicted
From(listed, done, n, e) ==
  \/ e \in listed /\ Spared(done, 1, n, e)
  \/ \E k \in 1..n : e \in ToSet(done[k].stored) /\ Spared(done, k, n, e)

(* What is listed, or will be, and is gone, is about to be dropped by a    *)
(* completion that has not been collected yet.                             *)
ListedStays(c) ==
  \A e : From(c.listed, c.completed, Len(c.completed), e) => e.name \notin c.gone

WriterInv(c) == WriterTyped(c) /\ InHand(c) /\ Survives(c) /\ ListedStays(c)

(* A lock is held by the process whose handle it is, while it writes or    *)
(* sweeps.                                                                 *)
Holding(c) == c.at \in {"write", "unlink", "start unlink"}

LocksHeld == \A p \in CacheProcs, i \in Inodes :
  p \in inodes[i].lock => Holding(cache[p]) /\ cache[p].handle = i

(* While no process has stopped, a temporary has a writer that will rename *)
(* or remove it.                                                           *)
Minding(c) == c.at \in {"lock", "write", "rename", "failed"}

Minded == cacheStops = 0 => \A n \in CacheNames :
  temps[n] # 0 => \E p \in CacheProcs : Minding(cache[p]) /\ Named(p) = n

DirTyped ==
  /\ temps \in [CacheNames -> 0..MaxCacheInodes] /\ cacheStops \in Nat
  /\ finals \in Seq([name : CacheNames, inode : Inodes])
  /\ inodes \in [Inodes -> InodeType]

CacheIInv ==
  /\ DirTyped /\ LocksHeld /\ Minded
  /\ cache = [p \in CacheProcs |-> cache[p]] /\ \A p \in CacheProcs : WriterInv(cache[p])

(***************************************************************************)
(* Recursion over a sequence.                                              *)
(***************************************************************************)
(* Induction over the naturals, as the absence of a least counterexample.  *)
LEMMA Induction ==
  ASSUME NEW T \in SUBSET Nat, 0 \in T, \A n \in T : n + 1 \in T
  PROVE  T = Nat
<1> SUFFICES ASSUME Nat \ T # {} PROVE FALSE
  OBVIOUS
<1>1. PICK n \in Nat \ T : \A m \in Nat \ T : ~(<<m, n>> \in OpToRel(<, Nat))
  BY NatLessThanWellFounded, WFMin
<1>2. \A m \in Nat : m < n => m \in T
  BY <1>1 DEF OpToRel
<1>3. n # 0 /\ n - 1 \in Nat /\ n - 1 < n /\ (n - 1) + 1 = n
  OBVIOUS
<1> QED BY <1>2, <1>3

(* f retains, of the first k elements of s, those at the positions keep,   *)
(* for every k up to n.                                                    *)
Retains(f, s, keep, n) ==
  f = [k \in 0..n |-> IF k = 0 THEN <<>>
                      ELSE IF k \in keep THEN Append(f[k - 1], s[k]) ELSE f[k - 1]]

LEMMA RetainUnfolds ==
  ASSUME NEW s, NEW keep
  PROVE  RetainOnly(s, keep) = (CHOOSE f : Retains(f, s, keep, Len(s)))[Len(s)]
BY DEF RetainOnly, Retains

LEMMA RetainExists ==
  ASSUME NEW s, NEW keep
  PROVE  \A n \in Nat : \E f : Retains(f, s, keep, n)
<1> DEFINE T == {n \in Nat : \E f : Retains(f, s, keep, n)}
<1>1. 0 \in T
  <2> DEFINE f == [k \in 0..0 |-> <<>>]
  <2>1. Retains(f, s, keep, 0)
    BY DEF Retains
  <2> QED BY <2>1
<1>2. ASSUME NEW n \in T PROVE n + 1 \in T
  <2>0. n \in Nat /\ n + 1 \in Nat /\ n + 1 # 0 /\ (n + 1) - 1 = n
    OBVIOUS
  <2> PICK f : Retains(f, s, keep, n)
    OBVIOUS
  <2> DEFINE last == IF n + 1 \in keep THEN Append(f[n], s[n + 1]) ELSE f[n]
             g == [k \in 0..(n + 1) |-> IF k = n + 1 THEN last ELSE f[k]]
  <2>1. \A k \in 0..n : k \in 0..(n + 1) /\ k # n + 1
    BY <2>0
  <2>2. \A k \in 0..n : g[k] = f[k]
    BY <2>1
  <2>3. g[n + 1] = last
    BY <2>0
  <2>4. ASSUME NEW k \in 0..(n + 1)
        PROVE  g[k] = IF k = 0 THEN <<>>
                      ELSE IF k \in keep THEN Append(g[k - 1], s[k]) ELSE g[k - 1]
    <3> HIDE DEF g
    <3>1. CASE k = n + 1
      <4>1. n \in 0..n /\ k - 1 = n /\ k # 0
        BY <2>0, <3>1
      <4> QED BY <2>2, <2>3, <3>1, <4>1
    <3>2. CASE k # n + 1
      <4>1. k \in 0..n /\ (k # 0 => k - 1 \in 0..n)
        BY <2>0, <3>2
      <4>2. f[k] = IF k = 0 THEN <<>>
                   ELSE IF k \in keep THEN Append(f[k - 1], s[k]) ELSE f[k - 1]
        BY <4>1 DEF Retains
      <4> QED BY <2>2, <4>1, <4>2
    <3> QED BY <3>1, <3>2
  <2>5. g = [k \in 0..(n + 1) |-> g[k]]
    OBVIOUS
  <2> HIDE DEF g
  <2>6. Retains(g, s, keep, n + 1)
    BY <2>4, <2>5 DEF Retains
  <2> QED BY <2>0, <2>6
<1>3. T = Nat
  <2> HIDE DEF T
  <2>1. T \in SUBSET Nat
    BY DEF T
  <2> QED BY <1>1, <1>2, <2>1, Induction
<1> QED BY <1>3

(* What is retained comes from the positions kept.                         *)
LEMMA Retained ==
  ASSUME NEW S, NEW s \in Seq(S), NEW keep
  PROVE  /\ RetainOnly(s, keep) \in Seq(S)
         /\ \A k \in 1..Len(RetainOnly(s, keep)) :
              \E m \in 1..Len(s) : m \in keep /\ RetainOnly(s, keep)[k] = s[m]
<1> DEFINE N == Len(s)
           f == CHOOSE f : Retains(f, s, keep, N)
           Good(r, n) == /\ r \in Seq(S)
                         /\ \A k \in 1..Len(r) : \E m \in 1..N : m \in keep /\ r[k] = s[m]
           T == {n \in Nat : n <= N => Good(f[n], n)}
<1>0. N \in Nat
  OBVIOUS
<1>1. Retains(f, s, keep, N)
  BY <1>0, RetainExists
<1> HIDE DEF f, N
<1>a. \A k \in 0..N : f[k] = IF k = 0 THEN <<>>
                              ELSE IF k \in keep THEN Append(f[k - 1], s[k]) ELSE f[k - 1]
  BY <1>1 DEF Retains
<1>2. 0 \in T
  <2>1. f[0] = <<>>
    BY <1>0, <1>a
  <2>2. Good(<<>>, 0)
    OBVIOUS
  <2> QED BY <2>1, <2>2
<1>3. ASSUME NEW n \in T PROVE n + 1 \in T
  <2> SUFFICES ASSUME n + 1 <= N PROVE Good(f[n + 1], n + 1)
    OBVIOUS
  <2>1. n \in Nat /\ n <= N /\ n + 1 \in 0..N /\ n + 1 \in 1..N /\ (n + 1) - 1 = n
    BY <1>0
  <2>2. Good(f[n], n)
    BY <2>1
  <2>3. f[n + 1] = IF n + 1 \in keep THEN Append(f[n], s[n + 1]) ELSE f[n]
    <3>1. n + 1 # 0
      BY <2>1
    <3> QED BY <1>a, <2>1, <3>1
  <2>4. CASE n + 1 \notin keep
    BY <2>2, <2>3, <2>4
  <2>5. CASE n + 1 \in keep
    <3> DEFINE r == f[n]
               x == s[n + 1]
               q == Append(r, x)
    <3>1. r \in Seq(S) /\ x \in S /\ Len(r) \in Nat
      BY <2>1, <2>2 DEF N
    <3>2. q \in Seq(S) /\ Len(q) = Len(r) + 1 /\ q[Len(r) + 1] = x
      BY <3>1
    <3>3. \A k \in 1..Len(r) : q[k] = r[k]
      BY <3>1
    <3>4. ASSUME NEW k \in 1..Len(q)
          PROVE  \E m \in 1..N : m \in keep /\ q[k] = s[m]
      <4>1. CASE k = Len(r) + 1
        BY <2>1, <2>5, <3>2, <4>1
      <4>2. CASE k # Len(r) + 1
        <5>1. k \in 1..Len(r)
          BY <3>1, <3>2, <4>2
        <5> QED BY <2>2, <3>3, <5>1
      <4> QED BY <4>1, <4>2
    <3>5. f[n + 1] = q
      BY <2>3, <2>5
    <3> HIDE DEF q
    <3> QED BY <3>2, <3>4, <3>5
  <2> QED BY <2>4, <2>5
<1>4. T = Nat
  <2> HIDE DEF T
  <2>1. T \in SUBSET Nat
    BY DEF T
  <2> QED BY <1>2, <1>3, <2>1, Induction
<1>5. Good(f[N], N)
  BY <1>0, <1>4
<1>6. RetainOnly(s, keep) = f[N]
  BY RetainUnfolds DEF f, N
<1> QED BY <1>5, <1>6 DEF N

(* f is the list after each of the first n completions.                    *)
Collects(f, listed, done, n) ==
  f = [k \in 0..n |-> IF k = 0 THEN listed ELSE AfterCompletion(f[k - 1], done[k])]

LEMMA CollectedUnfolds ==
  ASSUME NEW p, NEW listed, NEW done, cache[p].listed = listed, cache[p].completed = done
  PROVE  Collected(p) = (CHOOSE f : Collects(f, listed, done, Len(done)))[Len(done)]
BY DEF Collected, Collects

LEMMA CollectsExists ==
  ASSUME NEW listed, NEW done
  PROVE  \A n \in Nat : \E f : Collects(f, listed, done, n)
<1> DEFINE T == {n \in Nat : \E f : Collects(f, listed, done, n)}
<1>1. 0 \in T
  <2> DEFINE f == [k \in 0..0 |-> listed]
  <2>1. Collects(f, listed, done, 0)
    BY DEF Collects
  <2> QED BY <2>1
<1>2. ASSUME NEW n \in T PROVE n + 1 \in T
  <2>0. n \in Nat /\ n + 1 \in Nat /\ n + 1 # 0 /\ (n + 1) - 1 = n
    OBVIOUS
  <2> PICK f : Collects(f, listed, done, n)
    OBVIOUS
  <2> DEFINE last == AfterCompletion(f[n], done[n + 1])
             g == [k \in 0..(n + 1) |-> IF k = n + 1 THEN last ELSE f[k]]
  <2> HIDE DEF last
  <2>1. \A k \in 0..n : k \in 0..(n + 1) /\ k # n + 1
    BY <2>0
  <2>2. \A k \in 0..n : g[k] = f[k]
    BY <2>1
  <2>3. g[n + 1] = last
    BY <2>0
  <2>4. ASSUME NEW k \in 0..(n + 1)
        PROVE  g[k] = IF k = 0 THEN listed ELSE AfterCompletion(g[k - 1], done[k])
    <3> HIDE DEF g
    <3>1. CASE k = n + 1
      <4>1. n \in 0..n /\ k - 1 = n /\ k # 0
        BY <2>0, <3>1
      <4> QED BY <2>2, <2>3, <3>1, <4>1 DEF last
    <3>2. CASE k # n + 1
      <4>1. k \in 0..n /\ (k # 0 => k - 1 \in 0..n)
        BY <2>0, <3>2
      <4>2. f[k] = IF k = 0 THEN listed ELSE AfterCompletion(f[k - 1], done[k])
        BY <4>1 DEF Collects
      <4> QED BY <2>2, <4>1, <4>2
    <3> QED BY <3>1, <3>2
  <2>5. g = [k \in 0..(n + 1) |-> g[k]]
    OBVIOUS
  <2> HIDE DEF g
  <2>6. Collects(g, listed, done, n + 1)
    BY <2>4, <2>5 DEF Collects
  <2> QED BY <2>0, <2>6
<1>3. T = Nat
  <2> HIDE DEF T
  <2>1. T \in SUBSET Nat
    BY DEF T
  <2> QED BY <1>1, <1>2, <2>1, Induction
<1> QED BY <1>3

LEMMA CompletionFrom ==
  ASSUME NEW listed, NEW done, NEW n \in Nat, NEW e, NEW l,
         e \in l => From(listed, done, n, e), e \in AfterCompletion(l, done[n + 1])
  PROVE  From(listed, done, n + 1, e)
<1>1. /\ e.name \notin done[n + 1].evicted
      /\ e \in l \/ e \in ToSet(done[n + 1].stored)
  BY DEF AfterCompletion
<1>2. n + 1 \in 1..(n + 1) /\ \A k \in Int : k \in k..(n + 1) => k \in k..n \/ k = n + 1
  OBVIOUS
<1>3. \A k \in 1..(n + 1) : k \in 1..n \/ k = n + 1
  OBVIOUS
<1>4. ASSUME NEW f \in 1..(n + 1), \A k \in f..n : e.name \notin done[k].evicted
      PROVE  Spared(done, f, n + 1, e)
  <2> SUFFICES ASSUME NEW k \in f..(n + 1) PROVE e.name \notin done[k].evicted
    BY DEF Spared
  <2>1. k \in f..n \/ k = n + 1
    OBVIOUS
  <2> QED BY <1>1, <1>4, <2>1
<1>5. CASE e \in listed /\ Spared(done, 1, n, e)
  <2>1. 1 \in 1..(n + 1)
    OBVIOUS
  <2>2. Spared(done, 1, n + 1, e)
    BY <1>4, <1>5, <2>1 DEF Spared
  <2> QED BY <1>5, <2>2 DEF From
<1>6. ASSUME NEW k \in 1..n, e \in ToSet(done[k].stored), Spared(done, k, n, e)
      PROVE  From(listed, done, n + 1, e)
  <2>1. k \in 1..(n + 1)
    OBVIOUS
  <2>2. Spared(done, k, n + 1, e)
    BY <1>4, <1>6, <2>1 DEF Spared
  <2> QED BY <1>6, <2>1, <2>2 DEF From
<1>7. CASE e \in ToSet(done[n + 1].stored)
  <2>1. \A k \in (n + 1)..n : FALSE
    OBVIOUS
  <2>2. Spared(done, n + 1, n + 1, e)
    BY <1>2, <1>4, <2>1
  <2> QED BY <1>2, <1>7, <2>2 DEF From
<1> QED BY <1>1, <1>5, <1>6, <1>7 DEF From

LEMMA CollectedFrom ==
  ASSUME NEW p, NEW listed, NEW done, cache[p].listed = listed, cache[p].completed = done,
         Len(done) \in Nat, NEW e \in Collected(p)
  PROVE  From(listed, done, Len(done), e)
<1> DEFINE N == Len(done)
           f == CHOOSE f : Collects(f, listed, done, N)
           T == {n \in Nat : n <= N => \A d : d \in f[n] => From(listed, done, n, d)}
<1>1. Collects(f, listed, done, N) /\ N \in Nat
  BY CollectsExists
<1>2. Collected(p) = f[N]
  BY CollectedUnfolds
<1> HIDE DEF f, N
<1>3. \A k \in 0..N : f[k] = IF k = 0 THEN listed ELSE AfterCompletion(f[k - 1], done[k])
  BY <1>1 DEF Collects
<1>4. 0 \in T
  <2>1. f[0] = listed
    BY <1>1, <1>3
  <2>2. \A d \in listed : From(listed, done, 0, d)
    BY DEF From, Spared
  <2> QED BY <2>1, <2>2
<1>5. ASSUME NEW n \in T PROVE n + 1 \in T
  <2> SUFFICES ASSUME n + 1 <= N, NEW d, d \in f[n + 1] PROVE From(listed, done, n + 1, d)
    OBVIOUS
  <2>1. n \in Nat /\ n <= N /\ n + 1 \in 0..N /\ n + 1 # 0 /\ (n + 1) - 1 = n
    BY <1>1
  <2>2. f[n + 1] = AfterCompletion(f[n], done[n + 1])
    BY <1>3, <2>1
  <2>3. d \in f[n] => From(listed, done, n, d)
    BY <2>1
  <2> QED BY <2>1, <2>2, <2>3, CompletionFrom
<1>6. T = Nat
  <2> HIDE DEF T
  <2>1. T \in SUBSET Nat
    BY DEF T
  <2> QED BY <1>4, <1>5, <2>1, Induction
<1>7. \A d : d \in f[N] => From(listed, done, N, d)
  BY <1>1, <1>6
<1> QED BY <1>2, <1>7 DEF N

(***************************************************************************)
(* Steps of one writer's memory.                                           *)
(***************************************************************************)
LEMMA JobTypes ==
  /\ \A j \in CacheJobs : j.boundary \in BOOLEAN /\ NameOf(j) \in CacheNames
  /\ \A n \in CacheNames, b \in BOOLEAN :
       LET e == EntryOf(n, b)
       IN e \in CacheEntries /\ e.name = n /\ e.tokens = n[1] /\ e.boundary = b
  /\ \A e \in CacheEntries : e.name \in CacheNames /\ e.tokens = e.name[1]
<1>1. \A j \in CacheJobs : j.boundary \in BOOLEAN /\ NameOf(j) \in CacheNames
  BY CacheBoundsAssumption DEF CacheNames
<1>2. ASSUME NEW n, NEW b
      PROVE  /\ EntryOf(n, b).name = n /\ EntryOf(n, b).tokens = n[1]
             /\ EntryOf(n, b).boundary = b
  BY DEF EntryOf
<1>3. \A n \in CacheNames, b \in BOOLEAN : EntryOf(n, b) \in CacheEntries
  BY DEF CacheEntries
<1>4. \A e \in CacheEntries : e.name \in CacheNames /\ e.tokens = e.name[1]
  BY <1>2 DEF CacheEntries
<1> QED BY <1>1, <1>2, <1>3, <1>4

LEMMA Ats ==
  /\ "wait" \notin WritingAt /\ "wait" \notin StartingAt
  /\ \A a \in WritingAt : a \notin StartingAt /\ a # "wait"
  /\ \A a \in StoringAt : a \in WritingAt /\ a \notin StoredAt
  /\ \A a \in StoredAt : a \in WritingAt
  /\ CacheAts = StartingAt \cup {"wait"} \cup WritingAt
BY DEF CacheAts, StartingAt, WritingAt, StoringAt, StoredAt

(* Moving on with the same job, or accepting, closing and aborting.        *)
LEMMA WriterMoves ==
  ASSUME NEW c, WriterInv(c), NEW d, WriterTyped(d), InHand(d),
         d.job = c.job, d.index = c.index, d.completed = c.completed, d.listed = c.listed,
         d.gone = c.gone, d.stored = c.stored,
         d.at \in StoringAt => c.at \in StoringAt, c.at \in StoredAt => d.at \in StoredAt
  PROVE  WriterInv(d)
<1>1. Survives(d)
  BY DEF WriterInv, Survives
<1>2. ListedStays(d)
  BY DEF WriterInv, ListedStays
<1> QED BY <1>1, <1>2 DEF WriterInv

(* What an appended completion adds to the list, and what it drops.        *)
LEMMA FromAppended ==
  ASSUME NEW listed, NEW done \in Seq(Completions), NEW x \in Completions,
         NEW more, more = Append(done, x), NEW e, From(listed, more, Len(more), e)
  PROVE  /\ e.name \notin x.evicted
         /\ From(listed, done, Len(done), e) \/ e \in ToSet(x.stored)
<1> DEFINE n == Len(done)
<1>1. n \in Nat /\ Len(more) = n + 1 /\ more[n + 1] = x /\ \A k \in 1..n : more[k] = done[k]
  OBVIOUS
<1> HIDE DEF n
<1>2. ASSUME NEW f \in 1..(n + 1), Spared(more, f, n + 1, e)
      PROVE  e.name \notin x.evicted /\ Spared(done, f, n, e)
  <2>1. n + 1 \in f..(n + 1)
    BY <1>1
  <2>2. e.name \notin x.evicted
    BY <1>1, <1>2, <2>1 DEF Spared
  <2>3. ASSUME NEW k \in f..n PROVE e.name \notin done[k].evicted
    <3>1. k \in f..(n + 1) /\ k \in 1..n
      BY <1>1
    <3> QED BY <1>1, <1>2, <3>1 DEF Spared
  <2> QED BY <2>2, <2>3 DEF Spared
<1>3. CASE e \in listed /\ Spared(more, 1, n + 1, e)
  <2>1. 1 \in 1..(n + 1)
    BY <1>1
  <2>2. e.name \notin x.evicted /\ Spared(done, 1, n, e)
    BY <1>2, <1>3, <2>1
  <2> QED BY <1>3, <2>2 DEF From, n
<1>4. ASSUME NEW k \in 1..(n + 1), e \in ToSet(more[k].stored), Spared(more, k, n + 1, e)
      PROVE  /\ e.name \notin x.evicted
             /\ From(listed, done, n, e) \/ e \in ToSet(x.stored)
  <2>1. e.name \notin x.evicted /\ Spared(done, k, n, e)
    BY <1>2, <1>4
  <2>2. CASE k = n + 1
    BY <1>1, <1>4, <2>1, <2>2
  <2>3. CASE k # n + 1
    <3>1. k \in 1..n
      BY <1>1, <2>3
    <3>2. more[k] = done[k]
      BY <1>1, <3>1
    <3> QED BY <1>4, <2>1, <3>1, <3>2 DEF From
  <2> QED BY <2>2, <2>3
<1> QED BY <1>1, <1>3, <1>4 DEF From, n

(* The writer reports a job done and waits for the next.                   *)
LEMMA WriterCompletes ==
  ASSUME NEW c, WriterInv(c), NEW x \in Completions, NEW d, WriterTyped(d),
         c.at \notin StartingAt, c.closing \notin {"flushed", "aborted"},
         d.at = "wait", d.inFlight = FALSE, d.stored = FALSE, d.closing = c.closing,
         d.completed = Append(c.completed, x), d.listed = c.listed,
         d.gone = c.gone \cup x.evicted,
         \A n \in DOMAIN x.stored : x.stored[n].name \notin c.gone,
         OneContent => \A n \in DOMAIN x.stored : x.stored[n].name \notin x.evicted
  PROVE  WriterInv(d)
<1>1. InHand(d)
  <2>1. d.at \notin WritingAt /\ d.at \notin StartingAt
    BY Ats
  <2>2. d.inFlight \in BOOLEAN /\ (d.inFlight <=> d.at \in WritingAt)
    BY <2>1
  <2> QED BY <2>1, <2>2 DEF InHand
<1>2. c.completed \in Seq(Completions)
  BY DEF WriterInv, WriterTyped
<1>3. Survives(d)
  <2>1. d.at \notin StoringAt /\ ~d.stored
    BY Ats
  <2>2. ASSUME OneContent, NEW k \in DOMAIN d.completed
        PROVE  \A n \in DOMAIN d.completed[k].stored :
                 d.completed[k].stored[n].name \notin d.completed[k].evicted
    <3> DEFINE m == Len(c.completed)
    <3>1. m \in Nat /\ k \in 1..(m + 1) /\ d.completed[m + 1] = x
          /\ \A i \in 1..m : d.completed[i] = c.completed[i]
      BY <1>2
    <3>2. CASE k = m + 1
      BY <2>2, <3>1, <3>2
    <3>3. CASE k # m + 1
      <4>1. k \in 1..m /\ k \in DOMAIN c.completed
        BY <1>2, <3>1, <3>3
      <4> QED BY <2>2, <3>1, <4>1 DEF WriterInv, Survives
    <3> QED BY <3>2, <3>3
  <2> QED BY <2>1, <2>2 DEF Survives
<1>4. ListedStays(d)
  <2> SUFFICES ASSUME NEW e, From(d.listed, d.completed, Len(d.completed), e)
               PROVE  e.name \notin d.gone
    BY DEF ListedStays
  <2>1. /\ e.name \notin x.evicted
        /\ From(c.listed, c.completed, Len(c.completed), e) \/ e \in ToSet(x.stored)
    BY <1>2, FromAppended
  <2>2. e.name \notin c.gone
    <3>1. CASE From(c.listed, c.completed, Len(c.completed), e)
      BY <3>1 DEF WriterInv, ListedStays
    <3>2. CASE e \in ToSet(x.stored)
      BY <3>2 DEF ToSet
    <3> QED BY <2>1, <3>1, <3>2
  <2> QED BY <2>1, <2>2
<1> QED BY <1>1, <1>3, <1>4 DEF WriterInv

(***************************************************************************)
(* The index: what is retained, trimmed and inserted.                      *)
(***************************************************************************)
LEMMA NamedKept ==
  ASSUME NEW S, NEW s \in Seq(S), NEW names
  PROVE  /\ KeepNamed(s, names) \in Seq(S)
         /\ \A k \in 1..Len(KeepNamed(s, names)) : KeepNamed(s, names)[k].name \notin names
<1> DEFINE keep == {k \in DOMAIN s : s[k].name \notin names}
           r == RetainOnly(s, keep)
<1> HIDE DEF keep
<1>1. /\ r \in Seq(S)
      /\ \A k \in 1..Len(r) : \E m \in 1..Len(s) : m \in keep /\ r[k] = s[m]
  BY Retained
<1>2. KeepNamed(s, names) = r
  BY DEF KeepNamed, keep
<1> HIDE DEF r
<1>3. \A k \in 1..Len(r) : r[k].name \notin names
  BY <1>1 DEF keep
<1> QED BY <1>1, <1>2, <1>3

LEMMA TrimmedNames ==
  ASSUME NEW index \in Seq(CacheEntries)
  PROVE  /\ Trimmed(index) \subseteq CacheNames
         /\ \A n \in Trimmed(index) : \E k \in 1..Len(index) :
              k \notin KeptAfter(index, DiskBudget) /\ index[k].name = n
<1>1. \A n \in Trimmed(index) : \E k \in 1..Len(index) :
        k \notin KeptAfter(index, DiskBudget) /\ index[k].name = n
  BY DEF Trimmed
<1>2. \A k \in 1..Len(index) : index[k].name \in CacheNames
  BY JobTypes
<1> QED BY <1>1, <1>2

(* An entry that was admitted is not trimmed after it was inserted.        *)
LEMMA AdmittedStays ==
  ASSUME NEW index \in Seq(CacheEntries), NEW n \in CacheNames, NEW b \in BOOLEAN,
         Admits(index, EntryOf(n, b), DiskBudget), OneContent
  PROVE  /\ n \notin Trimmed(KeepNamed(index, {n}))
         /\ n \notin Trimmed(Append(KeepNamed(index, {n}), EntryOf(n, b)))
<1> DEFINE new == EntryOf(n, b)
           others == KeepNamed(index, {n})
           all == Append(others, new)
<1>1. new \in CacheEntries /\ new.name = n /\ new.tokens = n[1]
  BY JobTypes
<1>2. /\ others \in Seq(CacheEntries)
      /\ \A k \in 1..Len(others) : others[k].name # n
  BY NamedKept
<1>3. Len(all) \in KeptAfter(all, DiskBudget)
  <2>1. ASSUME NEW k \in DOMAIN index
        PROVE  index[k].tokens # new.tokens <=> index[k].name \notin {n}
    <3>1. index[k].name \in CacheNames /\ index[k].tokens = index[k].name[1]
      BY JobTypes
    <3>2. index[k].name[1] = n[1] => index[k].name = n
      BY <3>1 DEF OneContent, Contents, CacheNames, NameOf
    <3> QED BY <1>1, <3>1, <3>2
  <2>2. {k \in DOMAIN index : index[k].tokens # new.tokens}
          = {k \in DOMAIN index : index[k].name \notin {n}}
    BY <2>1
  <2>3. others = RetainOnly(index, {k \in DOMAIN index : index[k].tokens # new.tokens})
    BY <2>2 DEF KeepNamed
  <2> QED BY <2>3 DEF Admits
<1> HIDE DEF new, others
<1>4. n \notin Trimmed(others)
  BY <1>2, TrimmedNames
<1>5. all \in Seq(CacheEntries) /\ Len(all) = Len(others) + 1 /\ Len(others) \in Nat
      /\ \A k \in 1..Len(others) : all[k] = others[k]
  BY <1>1, <1>2
<1> HIDE DEF all
<1>6. n \notin Trimmed(all)
  <2> SUFFICES ASSUME NEW k \in 1..Len(all), k \notin KeptAfter(all, DiskBudget),
                      all[k].name = n
               PROVE  FALSE
    BY <1>5, TrimmedNames
  <2>1. k # Len(all)
    BY <1>3
  <2>2. k \in 1..Len(others)
    BY <1>5, <2>1
  <2> QED BY <1>2, <1>5, <2>2
<1> QED BY <1>4, <1>6 DEF all, new, others

LEMMA DiscoverType ==
  ASSUME DirTyped, NEW readable
  PROVE  Discover(readable) \in Seq(CacheEntries)
<1> DEFINE F == [name : CacheNames, inode : Inodes]
           keep == {k \in DOMAIN finals : inodes[finals[k].inode].whole \/ readable}
           seen == RetainOnly(finals, keep)
<1>1. seen \in Seq(F)
  BY Retained DEF DirTyped
<1>2. Discover(readable) = [k \in DOMAIN seen |->
                              EntryOf(seen[k].name, inodes[seen[k].inode].boundary)]
  BY DEF Discover
<1> HIDE DEF seen
<1>3. ASSUME NEW k \in 1..Len(seen)
      PROVE  EntryOf(seen[k].name, inodes[seen[k].inode].boundary) \in CacheEntries
  <2>1. seen[k] \in F
    <3> HIDE DEF F
    <3> QED BY <1>1
  <2>2. seen[k].name \in CacheNames /\ inodes[seen[k].inode].boundary \in BOOLEAN
    BY <2>1 DEF DirTyped, InodeType
  <2> QED BY <2>2, JobTypes
<1> QED BY <1>1, <1>2, <1>3

(***************************************************************************)
(* A step of one process.                                                  *)
(***************************************************************************)
LEMMA CacheStep ==
  ASSUME CacheIInv, NEW p \in CacheProcs, NEW d, WriterInv(d),
         cache' = [cache EXCEPT ![p] = d], DirTyped', cacheStops' = cacheStops,
         \A i \in Inodes, q \in CacheProcs : q \in inodes'[i].lock =>
           \/ q \in inodes[i].lock /\ q # p
           \/ q = p /\ Holding(d) /\ d.handle = i,
         \A n \in CacheNames : temps'[n] # 0 =>
           \/ /\ temps[n] # 0
              /\ Minding(cache[p]) /\ Named(p) = n => Minding(d) /\ d.job = cache[p].job
           \/ Minding(d) /\ NameOf(d.job) = n
  PROVE  CacheIInv'
<1>1. /\ cache' = [q \in CacheProcs |-> cache'[q]] /\ cache'[p] = d
      /\ \A q \in CacheProcs \ {p} : cache'[q] = cache[q]
  BY DEF CacheIInv
<1>2. \A q \in CacheProcs : WriterInv(cache'[q])
  BY <1>1 DEF CacheIInv
<1>3. LocksHeld'
  BY <1>1 DEF CacheIInv, LocksHeld
<1>4. Minded'
  <2> SUFFICES ASSUME cacheStops = 0, NEW n \in CacheNames, temps'[n] # 0
               PROVE  \E q \in CacheProcs : Minding(cache'[q]) /\ NameOf(cache'[q].job) = n
    BY DEF Minded, Named
  <2>1. CASE Minding(d) /\ NameOf(d.job) = n
    BY <1>1, <2>1
  <2>2. CASE /\ temps[n] # 0
             /\ Minding(cache[p]) /\ Named(p) = n => Minding(d) /\ d.job = cache[p].job
    <3>1. PICK q \in CacheProcs : Minding(cache[q]) /\ Named(q) = n
      BY <2>2 DEF CacheIInv, Minded
    <3>2. CASE q = p
      BY <1>1, <2>2, <3>1, <3>2 DEF Named
    <3>3. CASE q # p
      BY <1>1, <3>1, <3>3 DEF Named
    <3> QED BY <3>2, <3>3
  <2> QED BY <2>1, <2>2
<1> QED BY <1>1, <1>2, <1>3, <1>4 DEF CacheIInv

(* A step that leaves temporaries and locks alone.                         *)
LEMMA CacheMove ==
  ASSUME CacheIInv, NEW p \in CacheProcs, NEW d, WriterInv(d),
         cache' = [cache EXCEPT ![p] = d], UNCHANGED <<temps, inodes, cacheStops>>,
         finals' \in Seq([name : CacheNames, inode : Inodes]),
         Holding(cache[p]) => Holding(d) /\ d.handle = cache[p].handle,
         Minding(cache[p]) => Minding(d) /\ d.job = cache[p].job
  PROVE  CacheIInv'
<1>1. DirTyped'
  BY DEF CacheIInv, DirTyped
<1>2. \A i \in Inodes, q \in CacheProcs : q \in inodes'[i].lock =>
           \/ q \in inodes[i].lock /\ q # p
           \/ q = p /\ Holding(d) /\ d.handle = i
  BY DEF CacheIInv, LocksHeld
<1>3. \A n \in CacheNames : temps'[n] # 0 =>
           \/ /\ temps[n] # 0
              /\ Minding(cache[p]) /\ Named(p) = n => Minding(d) /\ d.job = cache[p].job
           \/ Minding(d) /\ NameOf(d.job) = n
  OBVIOUS
<1> QED BY <1>1, <1>2, <1>3, CacheStep

(* A writer goes to a with the same job in hand.                           *)
Moves(c, d, a) ==
  /\ d = [f \in CacheFields |-> d[f]] /\ d.at = a
  /\ d.job = c.job /\ d.stored = c.stored /\ d.queued = c.queued /\ d.inFlight = c.inFlight
  /\ d.index = c.index /\ d.completed = c.completed /\ d.closing = c.closing
  /\ d.listed = c.listed /\ d.gone = c.gone

LEMMA MovesOn ==
  ASSUME NEW c, WriterInv(c), NEW d, NEW a \in CacheAts, Moves(c, d, a), c.at # "wait",
         a \in WritingAt <=> c.at \in WritingAt, a \in StartingAt <=> c.at \in StartingAt,
         a \in StoringAt => c.at \in StoringAt, c.at \in StoredAt => a \in StoredAt
  PROVE  WriterInv(d)
<1>1. WriterTyped(d)
  BY DEF WriterInv, WriterTyped, Moves
<1>2. InHand(d)
  BY Ats DEF WriterInv, InHand, Moves
<1> QED BY <1>1, <1>2, WriterMoves DEF Moves

LEMMA CacheFacts ==
  ASSUME CacheIInv, NEW p \in CacheProcs
  PROVE  /\ WriterInv(cache[p]) /\ WriterTyped(cache[p]) /\ InHand(cache[p])
         /\ Survives(cache[p]) /\ ListedStays(cache[p])
         /\ DirTyped /\ LocksHeld /\ Minded /\ cache = [q \in CacheProcs |-> cache[q]]
         /\ finals \in Seq([name : CacheNames, inode : Inodes])
BY DEF CacheIInv, WriterInv, DirTyped

LEMMA StartCacheStep ==
  ASSUME CacheIInv, NEW p \in CacheProcs, StartCache(p)
  PROVE  CacheIInv'
<1> DEFINE c == cache[p]
           d == [c EXCEPT !.at = "start sweep", !.todo = Temporaries]
<1>0. /\ WriterInv(c) /\ WriterTyped(c) /\ InHand(c) /\ Survives(c)
      /\ cache = [q \in CacheProcs |-> cache[q]]
      /\ finals \in Seq([name : CacheNames, inode : Inodes])
  BY CacheFacts
<1>1. /\ cache' = [cache EXCEPT ![p] = d] /\ c.at = "down"
      /\ UNCHANGED <<temps, inodes, finals, cacheStops>>
  BY <1>0 DEF StartCache, CacheAt, cacheDir, cacheBounds
<1>2. Moves(c, d, "start sweep")
  BY <1>0 DEF Moves, WriterTyped, CacheFields
<1>3. WriterInv(d) /\ d.at = "start sweep"
  <2>1. /\ "start sweep" \in CacheAts /\ "start sweep" \notin WritingAt
        /\ "start sweep" \in StartingAt /\ c.at \notin WritingAt /\ c.at \in StartingAt
        /\ c.at # "wait" /\ "start sweep" \notin StoringAt /\ c.at \notin StoredAt
    BY <1>1 DEF CacheAts, WritingAt, StartingAt, StoringAt, StoredAt
  <2> HIDE DEF d
  <2>2. WriterInv(d)
    BY <1>0, <1>2, <2>1, MovesOn
  <2> QED BY <1>2, <2>2 DEF Moves
<1> HIDE DEF d
<1>4. ~Holding(c) /\ ~Minding(c)
  BY <1>1 DEF Holding, Minding
<1> QED BY <1>0, <1>1, <1>3, <1>4, CacheMove

LEMMA StartTrimStep ==
  ASSUME CacheIInv, NEW p \in CacheProcs, StartTrim(p)
  PROVE  CacheIInv'
<1> DEFINE c == cache[p]
<1>0. /\ WriterInv(c) /\ WriterTyped(c) /\ InHand(c) /\ Survives(c)
      /\ cache = [q \in CacheProcs |-> cache[q]]
      /\ finals \in Seq([name : CacheNames, inode : Inodes])
  BY CacheFacts
<1>1. PICK l, names : /\ cache' = [cache EXCEPT ![p].at = "wait", ![p].listed = l]
                      /\ finals' = KeepNamed(finals, names)
  BY DEF StartTrim, UnlinkFinals
<1>2. c.at = "start trim" /\ UNCHANGED <<temps, inodes, cacheStops>>
  BY DEF StartTrim, CacheAt, cacheBounds
<1> DEFINE d == [c EXCEPT !.at = "wait", !.listed = l]
<1>3. cache' = [cache EXCEPT ![p] = d]
  BY <1>0, <1>1
<1>4. /\ d = [f \in CacheFields |-> d[f]] /\ d.at = "wait" /\ d.listed = l
      /\ d.job = c.job /\ d.stored = c.stored /\ d.queued = c.queued /\ d.inFlight = c.inFlight
      /\ d.index = c.index /\ d.completed = c.completed /\ d.closing = c.closing
      /\ d.gone = c.gone
  BY <1>0 DEF WriterTyped, CacheFields
<1> HIDE DEF d
<1>5. c.at \in StartingAt /\ c.at \notin WritingAt /\ "wait" \in CacheAts
  BY <1>2 DEF StartingAt, WritingAt, StoringAt, StoredAt, CacheAts
<1>6. WriterTyped(d)
  BY <1>0, <1>4, <1>5 DEF WriterTyped
<1>7. InHand(d)
  BY <1>0, <1>4, <1>5, Ats DEF InHand
<1>8. c.gone = {} /\ c.completed = <<>> /\ ~c.stored
  BY <1>0, <1>5, Ats DEF InHand, Survives
<1>9. Survives(d)
  BY <1>4, <1>8, Ats DEF Survives
<1>10. ListedStays(d)
  BY <1>4, <1>8 DEF ListedStays
<1>11. finals' \in Seq([name : CacheNames, inode : Inodes])
  BY <1>0, <1>1, NamedKept
<1>12. ~Holding(c) /\ ~Minding(c)
  BY <1>2 DEF Holding, Minding
<1> QED BY <1>2, <1>3, <1>6, <1>7, <1>9, <1>10, <1>11, <1>12, CacheMove DEF WriterInv

(* Accepting a snapshot, closing, and aborting.                            *)
LEMMA DoorStep ==
  ASSUME CacheIInv, NEW p \in CacheProcs,
         SubmitWrite(p) \/ CloseCache(p) \/ WriterFlushed(p) \/ Deadline(p)
  PROVE  CacheIInv'
<1> DEFINE c == cache[p]
<1>1. /\ WriterInv(c) /\ WriterTyped(c) /\ InHand(c)
      /\ cache = [q \in CacheProcs |-> cache[q]]
      /\ finals \in Seq([name : CacheNames, inode : Inodes])
  BY CacheFacts
<1>2. UNCHANGED <<temps, inodes, finals, cacheStops>>
  BY DEF SubmitWrite, CloseCache, WriterFlushed, Deadline, cacheDir, cacheBounds
<1>3. ASSUME NEW d, cache' = [cache EXCEPT ![p] = d],
             d = [f \in CacheFields |-> d[f]], d.at = c.at, d.handle = c.handle,
             d.job = c.job, d.stored = c.stored, d.inFlight = c.inFlight,
             d.index = c.index, d.completed = c.completed, d.listed = c.listed, d.gone = c.gone,
             d.queued \in CacheJobs \cup {NoWrite},
             d.closing \in {"no", "waiting", "aborting", "flushed", "aborted"},
             d.closing # "no" => c.at \notin StartingAt,
             d.closing \in {"flushed", "aborted"} => c.at = "wait" /\ d.queued = NoWrite,
             c.at \in StartingAt => d.queued = NoWrite
      PROVE  CacheIInv'
  <2>1. WriterTyped(d)
    BY <1>1, <1>3 DEF WriterTyped
  <2>2. InHand(d)
    BY <1>1, <1>3 DEF InHand
  <2>3. WriterInv(d)
    BY <1>1, <1>3, <2>1, <2>2, WriterMoves
  <2>4. /\ Holding(c) => Holding(d) /\ d.handle = c.handle
        /\ Minding(c) => Minding(d) /\ d.job = c.job
    BY <1>3 DEF Holding, Minding
  <2> QED BY <1>1, <1>2, <1>3, <2>3, <2>4, CacheMove
<1>4. Serves(p) => c.at \notin StartingAt
  BY DEF Serves, StartingAt
<1>5. CASE SubmitWrite(p)
  <2>1. PICK j \in CacheJobs : /\ Serves(p)
          /\ cache' = [cache EXCEPT ![p].queued =
               IF cache[p].closing # "no" \/ (@.boundary /\ ~j.boundary) THEN @ ELSE j]
    BY <1>5 DEF SubmitWrite
  <2> DEFINE q == IF c.closing # "no" \/ (c.queued.boundary /\ ~j.boundary) THEN c.queued ELSE j
             d == [c EXCEPT !.queued = q]
  <2>2. cache' = [cache EXCEPT ![p] = d]
    BY <1>1, <2>1
  <2>3. q \in CacheJobs \cup {NoWrite} /\ (c.closing # "no" => q = c.queued)
    BY <1>1 DEF WriterTyped
  <2> HIDE DEF q
  <2>4. /\ d = [f \in CacheFields |-> d[f]] /\ d.at = c.at /\ d.handle = c.handle
        /\ d.job = c.job /\ d.stored = c.stored /\ d.inFlight = c.inFlight
        /\ d.index = c.index /\ d.completed = c.completed /\ d.listed = c.listed
        /\ d.gone = c.gone /\ d.queued = q /\ d.closing = c.closing
    BY <1>1 DEF WriterTyped, CacheFields
  <2> HIDE DEF d
  <2>5. /\ d.closing \in {"no", "waiting", "aborting", "flushed", "aborted"}
        /\ d.closing # "no" => c.at \notin StartingAt
        /\ d.closing \in {"flushed", "aborted"} => c.at = "wait" /\ d.queued = NoWrite
        /\ c.at \in StartingAt => d.queued = NoWrite
    BY <1>1, <1>4, <2>1, <2>3, <2>4 DEF WriterTyped, InHand
  <2> QED BY <1>3, <2>2, <2>3, <2>4, <2>5
<1>6. CASE CloseCache(p)
  <2> DEFINE d == [c EXCEPT !.closing = "waiting"]
  <2>1. cache' = [cache EXCEPT ![p] = d] /\ c.at \notin StartingAt
    BY <1>1, <1>4, <1>6 DEF CloseCache
  <2>2. /\ d = [f \in CacheFields |-> d[f]] /\ d.at = c.at /\ d.handle = c.handle
        /\ d.job = c.job /\ d.stored = c.stored /\ d.inFlight = c.inFlight
        /\ d.index = c.index /\ d.completed = c.completed /\ d.listed = c.listed
        /\ d.gone = c.gone /\ d.queued = c.queued /\ d.closing = "waiting"
    BY <1>1 DEF WriterTyped, CacheFields
  <2> HIDE DEF d
  <2>3. d.queued \in CacheJobs \cup {NoWrite}
    BY <1>1, <2>2 DEF WriterTyped
  <2> QED BY <1>3, <2>1, <2>2, <2>3
<1>7. CASE WriterFlushed(p)
  <2> DEFINE v == IF c.closing = "waiting" THEN "flushed" ELSE "aborted"
             d == [c EXCEPT !.closing = v]
  <2>1. cache' = [cache EXCEPT ![p] = d] /\ v \in {"flushed", "aborted"}
    BY <1>1, <1>7 DEF WriterFlushed
  <2>2. c.closing \in {"waiting", "aborting"} /\ ~c.inFlight /\ c.queued = NoWrite
    BY <1>7 DEF WriterFlushed, Pending
  <2> HIDE DEF v
  <2>3. /\ d = [f \in CacheFields |-> d[f]] /\ d.at = c.at /\ d.handle = c.handle
        /\ d.job = c.job /\ d.stored = c.stored /\ d.inFlight = c.inFlight
        /\ d.index = c.index /\ d.completed = c.completed /\ d.listed = c.listed
        /\ d.gone = c.gone /\ d.queued = c.queued /\ d.closing = v
    BY <1>1 DEF WriterTyped, CacheFields
  <2> HIDE DEF d
  <2>4. c.at \notin StartingAt /\ c.at \notin WritingAt /\ c.at \in CacheAts
    BY <1>1, <2>2 DEF InHand, WriterTyped
  <2>5. c.at = "wait"
    BY <2>4, Ats
  <2> QED BY <1>3, <2>1, <2>2, <2>3, <2>4, <2>5
<1>8. CASE Deadline(p)
  <2> DEFINE d == [c EXCEPT !.closing = "aborting", !.queued = NoWrite, !.abort = TRUE]
  <2>1. cache' = [cache EXCEPT ![p] = d] /\ c.closing = "waiting"
    BY <1>1, <1>8 DEF Deadline
  <2>2. /\ d = [f \in CacheFields |-> d[f]] /\ d.at = c.at /\ d.handle = c.handle
        /\ d.job = c.job /\ d.stored = c.stored /\ d.inFlight = c.inFlight
        /\ d.index = c.index /\ d.completed = c.completed /\ d.listed = c.listed
        /\ d.gone = c.gone /\ d.queued = NoWrite /\ d.closing = "aborting"
    BY <1>1 DEF WriterTyped, CacheFields
  <2> HIDE DEF d
  <2>3. c.at \notin StartingAt
    BY <1>1, <2>1 DEF InHand
  <2> QED BY <1>3, <2>1, <2>2, <2>3
<1> QED BY <1>5, <1>6, <1>7, <1>8

(* The engine collects completions, or drops what it cannot load.          *)
LEMMA ListStep ==
  ASSUME CacheIInv, NEW p \in CacheProcs, CollectDiskWrites(p) \/ LoadFails(p)
  PROVE  CacheIInv'
<1> DEFINE c == cache[p]
<1>0. /\ WriterInv(c) /\ WriterTyped(c) /\ InHand(c) /\ Survives(c) /\ ListedStays(c)
      /\ cache = [q \in CacheProcs |-> cache[q]]
      /\ finals \in Seq([name : CacheNames, inode : Inodes])
  BY CacheFacts
<1>1. /\ UNCHANGED <<temps, inodes, finals, cacheStops>> /\ c.at \notin StartingAt
      /\ c.completed \in Seq(Completions)
  BY <1>0 DEF CollectDiskWrites, LoadFails, cacheDir, cacheBounds, Serves, StartingAt, WriterTyped
<1>2. ASSUME NEW d, cache' = [cache EXCEPT ![p] = d], NEW l, NEW done,
             done = c.completed \/ done = <<>>,
             d = [c EXCEPT !.listed = l, !.completed = done],
             \A e : From(l, done, Len(done), e) => From(c.listed, c.completed, Len(c.completed), e)
      PROVE  CacheIInv'
  <2>1. /\ d = [f \in CacheFields |-> d[f]] /\ d.at = c.at /\ d.handle = c.handle
        /\ d.job = c.job /\ d.stored = c.stored /\ d.inFlight = c.inFlight
        /\ d.index = c.index /\ d.completed = done /\ d.listed = l
        /\ d.gone = c.gone /\ d.queued = c.queued /\ d.closing = c.closing
    BY <1>0, <1>2 DEF WriterTyped, CacheFields
  <2>2. done \in Seq(Completions)
    <3>1. <<>> \in Seq(Completions)
      OBVIOUS
    <3> QED BY <1>1, <1>2, <3>1
  <2>3. WriterTyped(d)
    BY <1>0, <2>1, <2>2 DEF WriterTyped
  <2>4. InHand(d)
    BY <1>0, <1>1, <2>1 DEF InHand
  <2>5. ListedStays(d)
    BY <1>0, <1>2, <2>1 DEF ListedStays
  <2>6. Survives(d)
    <3>1. CASE done = c.completed
      BY <1>0, <2>1, <3>1 DEF Survives
    <3>2. CASE done = <<>>
      BY <1>0, <2>1, <3>2 DEF Survives
    <3> QED BY <1>2, <3>1, <3>2
  <2>7. /\ Holding(c) => Holding(d) /\ d.handle = c.handle
        /\ Minding(c) => Minding(d) /\ d.job = c.job
    BY <2>1 DEF Holding, Minding
  <2>8. WriterInv(d)
    BY <2>3, <2>4, <2>5, <2>6 DEF WriterInv
  <2> QED BY <1>0, <1>1, <1>2, <2>7, <2>8, CacheMove
<1>3. CASE CollectDiskWrites(p)
  <2> DEFINE l == Collected(p)
             done == <<>>
             d == [c EXCEPT !.listed = l, !.completed = done]
  <2>1. cache' = [cache EXCEPT ![p] = d]
    BY <1>0, <1>3 DEF CollectDiskWrites
  <2>2. ASSUME NEW e, From(l, done, Len(done), e)
        PROVE  From(c.listed, c.completed, Len(c.completed), e)
    <3>1. e \in Collected(p)
      BY <2>2 DEF From
    <3>2. Len(c.completed) \in Nat
      BY <1>1
    <3> QED BY <3>1, <3>2, CollectedFrom
  <2> HIDE DEF l, done
  <2>3. done = <<>>
    BY DEF done
  <2> QED BY <1>2, <2>1, <2>2, <2>3
<1>4. CASE LoadFails(p)
  <2>1. PICK e : cache' = [cache EXCEPT ![p].listed = @ \ {e}]
    BY <1>4 DEF LoadFails
  <2> DEFINE l == c.listed \ {e}
             done == c.completed
             d == [c EXCEPT !.listed = l, !.completed = done]
  <2>2. d = [c EXCEPT !.listed = l]
    BY <1>0 DEF WriterTyped, CacheFields
  <2>3. cache' = [cache EXCEPT ![p] = d]
    BY <1>0, <2>1, <2>2
  <2>4. \A x : From(l, done, Len(done), x) => From(c.listed, c.completed, Len(c.completed), x)
    BY DEF From
  <2>5. done = c.completed
    OBVIOUS
  <2> HIDE DEF l, done
  <2> QED BY <1>2, <2>3, <2>4, <2>5
<1> QED BY <1>3, <1>4

(* The writer reports a job as done; its job is not one being written.     *)
LEMMA CompleteStep ==
  ASSUME CacheIInv, NEW p \in CacheProcs, NEW x \in Completions, NEW d,
         cache' = [cache EXCEPT ![p] = d], UNCHANGED <<temps, inodes, cacheStops>>,
         finals' \in Seq([name : CacheNames, inode : Inodes]),
         d = [f \in CacheFields |-> d[f]], d.at = "wait", d.inFlight = FALSE,
         d.stored = FALSE, d.closing = cache[p].closing, d.listed = cache[p].listed,
         d.completed = Append(cache[p].completed, x), d.gone = cache[p].gone \cup x.evicted,
         d.index \in Seq(CacheEntries), d.queued \in CacheJobs \cup {NoWrite},
         \/ cache[p].at \in {"admit", "trim"}
         \/ cache[p].at = "wait" /\ cache[p].queued # NoWrite,
         \A n \in DOMAIN x.stored : x.stored[n].name \notin cache[p].gone,
         OneContent => \A n \in DOMAIN x.stored : x.stored[n].name \notin x.evicted
  PROVE  CacheIInv'
<1> DEFINE c == cache[p]
<1>0. WriterInv(c) /\ WriterTyped(c) /\ InHand(c)
  BY CacheFacts
<1>1. c.at \notin StartingAt /\ c.closing \notin {"flushed", "aborted"}
  BY <1>0 DEF InHand, StartingAt
<1>2. c.completed \in Seq(Completions) /\ "wait" \in CacheAts
  BY <1>0 DEF WriterTyped, CacheAts
<1>3. WriterTyped(d)
  <2>1. Append(c.completed, x) \in Seq(Completions)
    BY <1>2
  <2>2. d.completed \in Seq(Completions)
    BY <2>1
  <2> QED BY <1>0, <1>2, <2>2 DEF WriterTyped
<1>4. WriterInv(d)
  BY <1>0, <1>1, <1>3, WriterCompletes
<1>5. ~Holding(c) /\ ~Minding(c)
  BY DEF Holding, Minding
<1> QED BY <1>4, <1>5, CacheMove

LEMMA NothingStored ==
  /\ [stored |-> <<>>, evicted |-> {}] \in Completions
  /\ [stored |-> <<>>, evicted |-> {}].stored = <<>>
  /\ [stored |-> <<>>, evicted |-> {}].evicted = {}
BY DEF Completions

LEMMA TakeJobStep ==
  ASSUME CacheIInv, NEW p \in CacheProcs, TakeJob(p)
  PROVE  CacheIInv'
<1> DEFINE c == cache[p]
           x == [stored |-> <<>>, evicted |-> {}]
           g == [c EXCEPT !.at = "admit", !.job = c.queued, !.queued = NoWrite, !.inFlight = TRUE]
           h == [c EXCEPT !.at = "wait", !.job = NoWrite, !.inFlight = FALSE, !.stored = FALSE,
                          !.completed = Append(@, x)]
           d == [h EXCEPT !.queued = NoWrite]
<1>0. /\ WriterInv(c) /\ WriterTyped(c) /\ InHand(c) /\ Survives(c) /\ ListedStays(c)
      /\ cache = [q \in CacheProcs |-> cache[q]]
      /\ finals \in Seq([name : CacheNames, inode : Inodes])
  BY CacheFacts
<1>1. /\ UNCHANGED <<temps, inodes, finals, cacheStops>> /\ c.at = "wait"
      /\ c.queued # NoWrite
      /\ \/ cache' = [cache EXCEPT ![p] = g]
         \/ cache' = [cache EXCEPT ![p] = d]
  BY <1>0 DEF TakeJob, Complete, CacheAt, cacheDir, cacheBounds
<1>2. x \in Completions /\ x.stored = <<>> /\ x.evicted = {}
  BY NothingStored
<1> HIDE DEF x
<1>3. CASE cache' = [cache EXCEPT ![p] = g]
  <2>1. /\ g = [f \in CacheFields |-> g[f]] /\ g.at = "admit" /\ g.job = c.queued
        /\ g.stored = c.stored /\ g.inFlight = TRUE /\ g.index = c.index
        /\ g.completed = c.completed /\ g.listed = c.listed /\ g.gone = c.gone
        /\ g.queued = NoWrite /\ g.closing = c.closing
    BY <1>0 DEF WriterTyped, CacheFields
  <2> HIDE DEF g
  <2>2. /\ "admit" \in CacheAts /\ "admit" \in WritingAt /\ "admit" \notin StartingAt
        /\ "admit" \notin StoringAt /\ c.at \notin StoredAt
    BY <1>1 DEF CacheAts, WritingAt, StartingAt, StoringAt, StoredAt
  <2>3. WriterTyped(g)
    BY <1>0, <2>1, <2>2 DEF WriterTyped
  <2>4. c.queued \in CacheJobs /\ c.closing \notin {"flushed", "aborted"}
    BY <1>0, <1>1 DEF WriterTyped, InHand
  <2>5. InHand(g)
    BY <2>1, <2>2, <2>4 DEF InHand
  <2>6. Survives(g)
    BY <1>0, <2>1, <2>2 DEF Survives
  <2>7. ListedStays(g)
    BY <1>0, <2>1 DEF ListedStays
  <2>8. ~Holding(c) /\ ~Minding(c) /\ WriterInv(g)
    BY <1>1, <2>3, <2>5, <2>6, <2>7 DEF Holding, Minding, WriterInv
  <2> QED BY <1>0, <1>1, <1>3, <2>8, CacheMove
<1>4. CASE cache' = [cache EXCEPT ![p] = d]
  <2>1. /\ h = [f \in CacheFields |-> h[f]] /\ h.at = "wait" /\ h.inFlight = FALSE
        /\ h.stored = FALSE /\ h.closing = c.closing /\ h.listed = c.listed
        /\ h.completed = Append(c.completed, x) /\ h.gone = c.gone /\ h.index = c.index
    BY <1>0 DEF WriterTyped, CacheFields
  <2> HIDE DEF h
  <2>2. /\ d = [f \in CacheFields |-> d[f]] /\ d.at = "wait" /\ d.inFlight = FALSE
        /\ d.stored = FALSE /\ d.closing = c.closing /\ d.listed = c.listed
        /\ d.completed = Append(c.completed, x) /\ d.gone = c.gone /\ d.index = c.index
        /\ d.queued = NoWrite
    BY <2>1 DEF CacheFields
  <2> HIDE DEF d
  <2>3. /\ d.index \in Seq(CacheEntries) /\ d.queued \in CacheJobs \cup {NoWrite}
        /\ d.gone = c.gone \cup x.evicted /\ DOMAIN x.stored = {}
    BY <1>0, <1>2, <2>2 DEF WriterTyped
  <2> QED BY <1>0, <1>1, <1>2, <1>4, <2>2, <2>3, CompleteStep
<1> QED BY <1>1, <1>3, <1>4

LEMMA AdmitJobStep ==
  ASSUME CacheIInv, NEW p \in CacheProcs, AdmitJob(p)
  PROVE  CacheIInv'
<1> DEFINE c == cache[p]
           new == EntryOf(NameOf(c.job), c.job.boundary)
           x == [stored |-> <<>>, evicted |-> {}]
           h == [c EXCEPT !.at = "wait", !.job = NoWrite, !.inFlight = FALSE, !.stored = FALSE,
                          !.completed = Append(@, x)]
           o == [c EXCEPT !.at = "open"]
<1>0. /\ WriterInv(c) /\ WriterTyped(c) /\ InHand(c) /\ Survives(c) /\ ListedStays(c)
      /\ cache = [q \in CacheProcs |-> cache[q]] /\ DirTyped
      /\ finals \in Seq([name : CacheNames, inode : Inodes])
  BY CacheFacts
<1>1. PICK readable \in BOOLEAN :
        LET index == IF c.known THEN c.index ELSE Discover(readable)
            next  == IF Admits(index, new, DiskBudget) THEN o ELSE h
        IN cache' = [cache EXCEPT ![p] = [next EXCEPT !.known = TRUE, !.index = index]]
  BY DEF AdmitJob, Complete, Named
<1> DEFINE index == IF c.known THEN c.index ELSE Discover(readable)
           g == [o EXCEPT !.known = TRUE, !.index = index]
           d == [h EXCEPT !.known = TRUE, !.index = index]
<1>2. /\ UNCHANGED <<temps, inodes, finals, cacheStops>> /\ c.at = "admit"
      /\ \/ Admits(index, new, DiskBudget) /\ cache' = [cache EXCEPT ![p] = g]
         \/ cache' = [cache EXCEPT ![p] = d]
  BY <1>1 DEF AdmitJob, CacheAt, cacheDir, cacheBounds
<1>3. index \in Seq(CacheEntries)
  BY <1>0, DiscoverType DEF WriterTyped
<1>4. x \in Completions /\ x.stored = <<>> /\ x.evicted = {}
  BY NothingStored
<1> HIDE DEF x, index
<1>5. CASE Admits(index, new, DiskBudget) /\ cache' = [cache EXCEPT ![p] = g]
  <2>1. /\ o = [f \in CacheFields |-> o[f]] /\ o.at = "open" /\ o.job = c.job
        /\ o.stored = c.stored /\ o.inFlight = c.inFlight
        /\ o.completed = c.completed /\ o.listed = c.listed /\ o.gone = c.gone
        /\ o.queued = c.queued /\ o.closing = c.closing
    BY <1>0 DEF WriterTyped, CacheFields
  <2> HIDE DEF o
  <2>2. /\ g = [f \in CacheFields |-> g[f]] /\ g.at = "open" /\ g.job = c.job
        /\ g.stored = c.stored /\ g.inFlight = c.inFlight /\ g.index = index
        /\ g.completed = c.completed /\ g.listed = c.listed /\ g.gone = c.gone
        /\ g.queued = c.queued /\ g.closing = c.closing
    BY <2>1 DEF CacheFields
  <2> HIDE DEF g
  <2>3. /\ "open" \in CacheAts /\ "open" \in WritingAt /\ "open" \notin StartingAt
        /\ c.at \in WritingAt /\ c.at \notin StoredAt /\ c.at # "wait"
    BY <1>2 DEF CacheAts, WritingAt, StartingAt, StoringAt, StoredAt
  <2>4. WriterTyped(g)
    BY <1>0, <1>3, <2>2, <2>3 DEF WriterTyped
  <2>5. InHand(g)
    BY <1>0, <2>2, <2>3 DEF InHand
  <2>6. Survives(g)
    <3>1. ~c.stored
      BY <1>0, <2>3 DEF Survives
    <3>2. Admits(g.index, EntryOf(NameOf(g.job), g.job.boundary), DiskBudget)
      BY <1>5, <2>2
    <3> QED BY <1>0, <2>2, <3>1, <3>2 DEF Survives
  <2>7. ListedStays(g)
    BY <1>0, <2>2 DEF ListedStays
  <2>8. ~Holding(c) /\ ~Minding(c) /\ WriterInv(g)
    BY <1>2, <2>4, <2>5, <2>6, <2>7 DEF Holding, Minding, WriterInv
  <2> QED BY <1>0, <1>2, <1>5, <2>8, CacheMove
<1>6. CASE cache' = [cache EXCEPT ![p] = d]
  <2>1. /\ h = [f \in CacheFields |-> h[f]] /\ h.at = "wait" /\ h.inFlight = FALSE
        /\ h.stored = FALSE /\ h.closing = c.closing /\ h.listed = c.listed
        /\ h.completed = Append(c.completed, x) /\ h.gone = c.gone /\ h.queued = c.queued
    BY <1>0 DEF WriterTyped, CacheFields
  <2> HIDE DEF h
  <2>2. /\ d = [f \in CacheFields |-> d[f]] /\ d.at = "wait" /\ d.inFlight = FALSE
        /\ d.stored = FALSE /\ d.closing = c.closing /\ d.listed = c.listed
        /\ d.completed = Append(c.completed, x) /\ d.gone = c.gone /\ d.index = index
        /\ d.queued = c.queued
    BY <2>1 DEF CacheFields
  <2> HIDE DEF d
  <2>3. /\ d.index \in Seq(CacheEntries) /\ d.queued \in CacheJobs \cup {NoWrite}
        /\ d.gone = c.gone \cup x.evicted /\ DOMAIN x.stored = {}
    BY <1>0, <1>3, <1>4, <2>2 DEF WriterTyped
  <2> QED BY <1>0, <1>2, <1>4, <1>6, <2>2, <2>3, CompleteStep
<1> QED BY <1>2, <1>5, <1>6

(* The new entry is the newest of the index, and survives its trim.        *)
LEMMA InsertStoredStep ==
  ASSUME CacheIInv, NEW p \in CacheProcs, InsertStored(p)
  PROVE  CacheIInv'
<1> DEFINE c == cache[p]
           n == NameOf(c.job)
           new == EntryOf(n, c.job.boundary)
           others == KeepNamed(c.index, {n})
           index == IF n \in FinalNames THEN Append(others, new) ELSE others
           gone == c.gone \ {n}
           d == [c EXCEPT !.at = "list", !.stored = TRUE, !.gone = gone, !.index = index]
<1>0. /\ WriterInv(c) /\ WriterTyped(c) /\ InHand(c) /\ Survives(c) /\ ListedStays(c)
      /\ cache = [q \in CacheProcs |-> cache[q]] /\ DirTyped
      /\ finals \in Seq([name : CacheNames, inode : Inodes])
  BY CacheFacts
<1>1. /\ UNCHANGED <<temps, inodes, finals, cacheStops>> /\ c.at = "insert"
      /\ cache' = [cache EXCEPT ![p] = d]
  BY <1>0 DEF InsertStored, CacheAt, Named, cacheDir, cacheBounds
<1>2. /\ c.at \in StoringAt /\ c.at \in WritingAt /\ "list" \in WritingAt /\ "list" \in StoredAt
      /\ "list" \notin StoringAt /\ "list" \notin StartingAt /\ "list" \in CacheAts
      /\ c.at # "wait" /\ c.at \notin StartingAt
  BY <1>1 DEF CacheAts, WritingAt, StartingAt, StoringAt, StoredAt
<1>3. /\ n \in CacheNames /\ c.job.boundary \in BOOLEAN /\ new \in CacheEntries
      /\ c.index \in Seq(CacheEntries) /\ Admits(c.index, new, DiskBudget)
  BY <1>0, <1>2, JobTypes DEF InHand, WriterTyped, Survives
<1>4. index \in Seq(CacheEntries)
  <2>1. others \in Seq(CacheEntries)
    BY <1>3, NamedKept
  <2> HIDE DEF others, new
  <2> QED BY <1>3, <2>1
<1>5. OneContent => n \notin Trimmed(index)
  BY <1>3, AdmittedStays
<1> HIDE DEF index, gone
<1>6. /\ d = [f \in CacheFields |-> d[f]] /\ d.at = "list" /\ d.job = c.job
      /\ d.stored = TRUE /\ d.inFlight = c.inFlight /\ d.index = index
      /\ d.completed = c.completed /\ d.listed = c.listed /\ d.gone = gone
      /\ d.queued = c.queued /\ d.closing = c.closing
  BY <1>0 DEF WriterTyped, CacheFields
<1> HIDE DEF d
<1>7. WriterTyped(d)
  BY <1>0, <1>2, <1>4, <1>6 DEF WriterTyped
<1>8. InHand(d)
  BY <1>0, <1>2, <1>6 DEF InHand
<1>9. Survives(d)
  <2>1. NameOf(d.job) \notin d.gone
    BY <1>6 DEF gone
  <2>2. OneContent => NameOf(d.job) \notin Trimmed(d.index)
    BY <1>5, <1>6
  <2> QED BY <1>0, <1>2, <1>6, <2>1, <2>2 DEF Survives
<1>10. ListedStays(d)
  BY <1>0, <1>6 DEF ListedStays, gone
<1>11. ~Holding(c) /\ ~Minding(c) /\ WriterInv(d)
  BY <1>1, <1>7, <1>8, <1>9, <1>10 DEF Holding, Minding, WriterInv
<1> QED BY <1>0, <1>1, <1>11, CacheMove

LEMMA TrimStep ==
  ASSUME CacheIInv, NEW p \in CacheProcs, Trim(p)
  PROVE  CacheIInv'
<1> DEFINE c == cache[p]
           n == NameOf(c.job)
           new == EntryOf(n, c.job.boundary)
           evicted == Trimmed(c.index)
           stored == IF c.stored THEN <<new>> ELSE <<>>
           x == [stored |-> stored, evicted |-> evicted]
           h == [c EXCEPT !.at = "wait", !.job = NoWrite, !.inFlight = FALSE, !.stored = FALSE,
                          !.completed = Append(@, x)]
           d == [h EXCEPT !.index = KeepNamed(@, evicted), !.gone = @ \cup evicted]
<1>0. /\ WriterInv(c) /\ WriterTyped(c) /\ InHand(c) /\ Survives(c) /\ ListedStays(c)
      /\ cache = [q \in CacheProcs |-> cache[q]] /\ DirTyped
      /\ finals \in Seq([name : CacheNames, inode : Inodes])
  BY CacheFacts
<1>1. /\ UNCHANGED <<temps, inodes, cacheStops>> /\ c.at = "trim"
      /\ finals' = KeepNamed(finals, evicted) /\ cache' = [cache EXCEPT ![p] = d]
  BY <1>0 DEF Trim, Complete, UnlinkFinals, CacheAt, Named, cacheBounds
<1>2. c.at \in WritingAt
  BY <1>1 DEF WritingAt, StoredAt
<1>3. /\ n \in CacheNames /\ c.job.boundary \in BOOLEAN /\ new \in CacheEntries
      /\ c.index \in Seq(CacheEntries) /\ new.name = n
  BY <1>0, <1>2, JobTypes DEF InHand, WriterTyped
<1>4. evicted \subseteq CacheNames
  BY <1>3, TrimmedNames
<1>5. KeepNamed(c.index, evicted) \in Seq(CacheEntries)
  BY <1>3, NamedKept
<1>6. finals' \in Seq([name : CacheNames, inode : Inodes])
  BY <1>0, <1>1, NamedKept
<1>7. c.stored => n \notin c.gone /\ (OneContent => n \notin evicted)
  BY <1>0 DEF Survives
<1> HIDE DEF evicted, new, n
<1>8. /\ stored \in {<<>>} \cup {<<e>> : e \in CacheEntries}
      /\ \A k \in DOMAIN stored : c.stored /\ stored[k].name = n
  <2>1. CASE c.stored
    BY <1>3, <2>1
  <2>2. CASE ~c.stored
    BY <2>2
  <2> QED BY <2>1, <2>2
<1> HIDE DEF stored
<1>9. x \in Completions /\ x.stored = stored /\ x.evicted = evicted
  BY <1>4, <1>8 DEF Completions
<1> HIDE DEF x
<1>10. /\ h = [f \in CacheFields |-> h[f]] /\ h.at = "wait" /\ h.inFlight = FALSE
       /\ h.stored = FALSE /\ h.closing = c.closing /\ h.listed = c.listed
       /\ h.completed = Append(c.completed, x) /\ h.gone = c.gone /\ h.queued = c.queued
       /\ h.index = c.index
  BY <1>0 DEF WriterTyped, CacheFields
<1> HIDE DEF h
<1>11. /\ d = [f \in CacheFields |-> d[f]] /\ d.at = "wait" /\ d.inFlight = FALSE
       /\ d.stored = FALSE /\ d.closing = c.closing /\ d.listed = c.listed
       /\ d.completed = Append(c.completed, x) /\ d.gone = c.gone \cup evicted
       /\ d.index = KeepNamed(c.index, evicted) /\ d.queued = c.queued
  BY <1>10 DEF CacheFields
<1> HIDE DEF d
<1>12. /\ d.index \in Seq(CacheEntries) /\ d.queued \in CacheJobs \cup {NoWrite}
       /\ d.gone = c.gone \cup x.evicted
  BY <1>0, <1>5, <1>9, <1>11 DEF WriterTyped
<1>13. /\ \A k \in DOMAIN x.stored : x.stored[k].name \notin c.gone
       /\ OneContent => \A k \in DOMAIN x.stored : x.stored[k].name \notin x.evicted
  BY <1>7, <1>8, <1>9
<1> QED BY <1>0, <1>1, <1>6, <1>9, <1>11, <1>12, <1>13, CompleteStep

(* The states of a store and of a sweep, in order.                         *)
LEMMA AtMoves ==
  ASSUME NEW c, WriterInv(c), NEW d, NEW a, Moves(c, d, a),
         \/ c.at = "open" /\ a \in {"lock", "write"}
         \/ c.at = "lock" /\ a = "write"
         \/ c.at = "write" /\ a \in {"rename", "failed"}
         \/ c.at = "rename" /\ a \in {"insert", "failed"}
         \/ c.at = "failed" /\ a = "list"
         \/ c.at \in {"list", "sweep", "unlink"} /\ a \in {"sweep", "unlink", "trim"}
         \/ /\ c.at \in {"start sweep", "start unlink"}
            /\ a \in {"start sweep", "start unlink", "start trim"}
  PROVE  WriterInv(d) /\ d.at = a /\ d.job = c.job
<1>1. /\ a \in CacheAts /\ c.at # "wait"
      /\ a \in WritingAt <=> c.at \in WritingAt
      /\ a \in StartingAt <=> c.at \in StartingAt
      /\ a \in StoringAt => c.at \in StoringAt
      /\ c.at \in StoredAt => a \in StoredAt
  BY DEF CacheAts, WritingAt, StartingAt, StoringAt, StoredAt
<1>2. WriterInv(d)
  BY <1>1, MovesOn
<1> QED BY <1>2 DEF Moves

(* The shape of the record after such a move.                              *)
LEMMA AtMoved ==
  ASSUME NEW c, WriterTyped(c), NEW a, NEW i, NEW t
  PROVE  /\ Moves(c, [c EXCEPT !.at = a], a) /\ [c EXCEPT !.at = a].handle = c.handle
         /\ Moves(c, [c EXCEPT !.at = a, !.handle = i], a)
         /\ [c EXCEPT !.at = a, !.handle = i].handle = i
         /\ Moves(c, [c EXCEPT !.handle = i, !.at = a], a)
         /\ [c EXCEPT !.handle = i, !.at = a].handle = i
         /\ Moves(c, [c EXCEPT !.at = a, !.todo = t], a)
         /\ Moves(c, [c EXCEPT !.todo = t], c.at)
         /\ [c EXCEPT !.todo = t].handle = c.handle
         /\ Moves(c, [c EXCEPT !.handle = i, !.todo = t, !.at = a], a)
<1> USE DEF WriterTyped, CacheFields, Moves
<1>1. Moves(c, [c EXCEPT !.at = a], a) /\ [c EXCEPT !.at = a].handle = c.handle
  OBVIOUS
<1>2. /\ Moves(c, [c EXCEPT !.at = a, !.handle = i], a)
      /\ [c EXCEPT !.at = a, !.handle = i].handle = i
  OBVIOUS
<1>3. /\ Moves(c, [c EXCEPT !.handle = i, !.at = a], a)
      /\ [c EXCEPT !.handle = i, !.at = a].handle = i
  OBVIOUS
<1>4. /\ Moves(c, [c EXCEPT !.at = a, !.todo = t], a)
      /\ Moves(c, [c EXCEPT !.todo = t], c.at) /\ [c EXCEPT !.todo = t].handle = c.handle
  OBVIOUS
<1>5. Moves(c, [c EXCEPT !.handle = i, !.todo = t, !.at = a], a)
  OBVIOUS
<1> QED BY <1>1, <1>2, <1>3, <1>4, <1>5

(* The inode i is locked by p, or unlocked.                                *)
LEMMA LockedInode ==
  ASSUME DirTyped, NEW i, NEW p \in CacheProcs, NEW w \in BOOLEAN, NEW b \in BOOLEAN
  PROVE  /\ [inodes EXCEPT ![i] = [whole |-> w, lock |-> {p}, boundary |-> b]]
              \in [Inodes -> InodeType]
         /\ \A k \in Inodes, q \in CacheProcs :
              q \in [inodes EXCEPT ![i] = [whole |-> w, lock |-> {p}, boundary |-> b]][k].lock
                => q \in inodes[k].lock \/ (q = p /\ k = i)
<1> DEFINE r == [whole |-> w, lock |-> {p}, boundary |-> b]
<1>1. r \in InodeType /\ r.lock = {p}
  BY DEF InodeType
<1> HIDE DEF r
<1>2. inodes \in [Inodes -> InodeType]
  BY DEF DirTyped
<1>3. [inodes EXCEPT ![i] = r] \in [Inodes -> InodeType]
  BY <1>1, <1>2
<1>4. \A k \in Inodes, q \in CacheProcs :
        q \in [inodes EXCEPT ![i] = r][k].lock => q \in inodes[k].lock \/ (q = p /\ k = i)
  BY <1>1, <1>2
<1> QED BY <1>3, <1>4 DEF r

(* Dropping the handle of inode i drops its lock.                          *)
LEMMA Unlocked ==
  ASSUME DirTyped, NEW i, NEW f,
         \/ f = [inodes EXCEPT ![i].whole = TRUE, ![i].lock = {}]
         \/ f = [inodes EXCEPT ![i].lock = {}]
  PROVE  /\ f \in [Inodes -> InodeType]
         /\ \A k \in Inodes : f[k].lock = IF k = i THEN {} ELSE inodes[k].lock
<1>1. inodes \in [Inodes -> InodeType]
  BY DEF DirTyped
<1>2. \E r : f = [inodes EXCEPT ![i] = r] /\ (i \in Inodes => r.lock = {} /\ r \in InodeType)
  <2>1. CASE i \in Inodes
    <3> DEFINE o == inodes[i]
               u == [o EXCEPT !.whole = TRUE, !.lock = {}]
               v == [o EXCEPT !.lock = {}]
    <3>1. o \in InodeType
      BY <1>1, <2>1
    <3>2. f = [inodes EXCEPT ![i] = u] \/ f = [inodes EXCEPT ![i] = v]
      BY <1>1, <2>1
    <3> HIDE DEF o
    <3>3. u \in InodeType /\ u.lock = {}
      BY <3>1 DEF InodeType
    <3>4. v \in InodeType /\ v.lock = {}
      BY <3>1 DEF InodeType
    <3> HIDE DEF u, v
    <3> QED BY <3>2, <3>3, <3>4
  <2>2. CASE i \notin Inodes
    BY <1>1, <2>2
  <2> QED BY <2>1, <2>2
<1>3. PICK r : f = [inodes EXCEPT ![i] = r] /\ (i \in Inodes => r.lock = {} /\ r \in InodeType)
  BY <1>2
<1> QED BY <1>1, <1>3

(* A step that changes at most temporaries and locks.                      *)
LEMMA FileStep ==
  ASSUME CacheIInv, NEW p \in CacheProcs, NEW d, WriterInv(d), d.job = cache[p].job,
         cache' = [cache EXCEPT ![p] = d], cacheStops' = cacheStops,
         temps' \in [CacheNames -> 0..MaxCacheInodes], inodes' \in [Inodes -> InodeType],
         finals' \in Seq([name : CacheNames, inode : Inodes]),
         \A i \in Inodes, q \in CacheProcs : q \in inodes'[i].lock =>
           \/ q \in inodes[i].lock /\ q # p
           \/ q = p /\ Holding(d) /\ d.handle = i,
         \A n \in CacheNames : temps'[n] # 0 =>
           temps[n] # 0 \/ (Minding(d) /\ Named(p) = n),
         Minding(cache[p]) => Minding(d) \/ temps'[Named(p)] = 0
  PROVE  CacheIInv'
<1>1. DirTyped'
  BY DEF CacheIInv, DirTyped
<1>2. \A n \in CacheNames : temps'[n] # 0 =>
           \/ /\ temps[n] # 0
              /\ Minding(cache[p]) /\ Named(p) = n => Minding(d) /\ d.job = cache[p].job
           \/ Minding(d) /\ NameOf(d.job) = n
  BY DEF Named
<1> QED BY <1>1, <1>2, CacheStep

LEMMA OpenTemporaryStep ==
  ASSUME CacheIInv, NEW p \in CacheProcs, OpenTemporary(p)
  PROVE  CacheIInv'
<1> DEFINE c == cache[p]
           n == NameOf(c.job)
<1>0. /\ WriterInv(c) /\ WriterTyped(c) /\ InHand(c)
      /\ cache = [q \in CacheProcs |-> cache[q]] /\ DirTyped /\ LocksHeld
      /\ finals \in Seq([name : CacheNames, inode : Inodes])
  BY CacheFacts
<1>1. c.at = "open" /\ UNCHANGED <<finals, cacheStops>>
  BY DEF OpenTemporary, CacheAt, cacheBounds
<1>2. ~Holding(c) /\ ~Minding(c) /\ c.at \in WritingAt
  BY <1>1 DEF Holding, Minding, WritingAt, StoringAt
<1>3. \A i \in Inodes, q \in CacheProcs : q \in inodes[i].lock => q # p
  BY <1>0, <1>2 DEF LocksHeld
<1>4. CASE temps[n] # 0
  <2> DEFINE i == temps[n]
             d == [c EXCEPT !.at = "lock", !.handle = i]
  <2>1. cache' = [cache EXCEPT ![p] = d] /\ UNCHANGED <<temps, inodes>>
    BY <1>0, <1>4 DEF OpenTemporary, Named
  <2>2. Moves(c, d, "lock")
    BY <1>0, AtMoved
  <2> HIDE DEF d
  <2>3. WriterInv(d) /\ d.at = "lock" /\ d.job = c.job
    BY <1>0, <1>1, <2>2, AtMoves
  <2> QED BY <1>0, <1>1, <1>2, <2>1, <2>3, CacheMove
<1>5. CASE temps[n] = 0
  <2>1. c.job \in CacheJobs /\ n \in CacheNames /\ c.job.boundary \in BOOLEAN
    BY <1>0, <1>2, JobTypes DEF InHand
  <2> DEFINE j == CHOOSE k \in Inodes : ~InUse(k)
  <2>2. j \in Inodes
    BY <1>5 DEF OpenTemporary, Named
  <2>3. /\ temps' = [temps EXCEPT ![n] = j]
        /\ inodes' = [inodes EXCEPT ![j] = [whole |-> FALSE, lock |-> {p},
                                            boundary |-> c.job.boundary]]
        /\ cache' = [cache EXCEPT ![p].at = "write", ![p].handle = j]
    BY <1>5 DEF OpenTemporary, Named
  <2> HIDE DEF j
  <2> DEFINE d == [c EXCEPT !.at = "write", !.handle = j]
  <2>4. cache' = [cache EXCEPT ![p] = d]
    BY <1>0, <2>3
  <2>5. Moves(c, d, "write") /\ d.handle = j
    <3>1. WriterTyped(c)
      BY <1>0
    <3> HIDE DEF c
    <3> QED BY <3>1 DEF Moves, WriterTyped, CacheFields
  <2> HIDE DEF d
  <2>6. WriterInv(d) /\ d.at = "write" /\ d.job = c.job
    BY <1>0, <1>1, <2>5, AtMoves
  <2>7. /\ inodes' \in [Inodes -> InodeType]
        /\ \A k \in Inodes, q \in CacheProcs :
             q \in inodes'[k].lock => q \in inodes[k].lock \/ (q = p /\ k = j)
    BY <1>0, <2>1, <2>3, LockedInode
  <2>8. Holding(d) /\ Minding(d)
    BY <2>6 DEF Holding, Minding
  <2>9. j \in 0..MaxCacheInodes
    BY <2>2, CacheBoundsAssumption DEF Inodes
  <2>10. /\ temps' \in [CacheNames -> 0..MaxCacheInodes]
         /\ \A m \in CacheNames : temps'[m] # 0 => temps[m] # 0 \/ n = m
    BY <1>0, <2>3, <2>9 DEF DirTyped
  <2>11. \A k \in Inodes, q \in CacheProcs : q \in inodes'[k].lock =>
           \/ q \in inodes[k].lock /\ q # p
           \/ q = p /\ Holding(d) /\ d.handle = k
    BY <1>3, <2>5, <2>7, <2>8
  <2> QED BY <1>0, <1>1, <1>2, <2>4, <2>6, <2>7, <2>8, <2>10, <2>11, FileStep DEF Named
<1> QED BY <1>4, <1>5

LEMMA LockTemporaryStep ==
  ASSUME CacheIInv, NEW p \in CacheProcs, LockTemporary(p)
  PROVE  CacheIInv'
<1> DEFINE c == cache[p]
           i == c.handle
           d == [c EXCEPT !.at = "write"]
<1>0. /\ WriterInv(c) /\ WriterTyped(c) /\ InHand(c)
      /\ cache = [q \in CacheProcs |-> cache[q]] /\ DirTyped /\ LocksHeld
      /\ finals \in Seq([name : CacheNames, inode : Inodes])
  BY CacheFacts
<1>1. /\ c.at = "lock" /\ UNCHANGED <<temps, finals, cacheStops>>
      /\ cache' = [cache EXCEPT ![p] = d]
      /\ inodes' = [inodes EXCEPT ![i] = [whole |-> FALSE, lock |-> {p},
                                          boundary |-> c.job.boundary]]
  BY <1>0 DEF LockTemporary, CacheAt, CacheTo, cacheBounds
<1>2. Moves(c, d, "write") /\ d.handle = i
  BY <1>0, AtMoved
<1> HIDE DEF d
<1>3. WriterInv(d) /\ d.at = "write" /\ d.job = c.job
  BY <1>0, <1>1, <1>2, AtMoves
<1>4. ~Holding(c) /\ c.at \in WritingAt /\ Holding(d) /\ Minding(d)
  BY <1>1, <1>3 DEF Holding, Minding, WritingAt, StoringAt
<1>5. \A k \in Inodes, q \in CacheProcs : q \in inodes[k].lock => q # p
  BY <1>0, <1>4 DEF LocksHeld
<1>6. c.job.boundary \in BOOLEAN
  BY <1>0, <1>4, JobTypes DEF InHand
<1>7. /\ inodes' \in [Inodes -> InodeType]
      /\ \A k \in Inodes, q \in CacheProcs :
           q \in inodes'[k].lock => q \in inodes[k].lock \/ (q = p /\ k = i)
  <2> DEFINE b == c.job.boundary
  <2>1. b \in BOOLEAN
    BY <1>6
  <2>2. inodes' = [inodes EXCEPT ![i] = [whole |-> FALSE, lock |-> {p}, boundary |-> b]]
    BY <1>1
  <2> HIDE DEF b, i
  <2>3. /\ [inodes EXCEPT ![i] = [whole |-> FALSE, lock |-> {p}, boundary |-> b]]
             \in [Inodes -> InodeType]
        /\ \A k \in Inodes, q \in CacheProcs :
             q \in [inodes EXCEPT ![i] = [whole |-> FALSE, lock |-> {p}, boundary |-> b]][k].lock
               => q \in inodes[k].lock \/ (q = p /\ k = i)
    BY <1>0, <2>1, LockedInode
  <2> QED BY <2>2, <2>3
<1>8. \A k \in Inodes, q \in CacheProcs : q \in inodes'[k].lock =>
         \/ q \in inodes[k].lock /\ q # p
         \/ q = p /\ Holding(d) /\ d.handle = k
  BY <1>2, <1>4, <1>5, <1>7
<1>9. temps' \in [CacheNames -> 0..MaxCacheInodes]
  BY <1>0, <1>1 DEF DirTyped
<1> QED BY <1>0, <1>1, <1>3, <1>4, <1>7, <1>8, <1>9, FileStep

LEMMA WriteTemporaryStep ==
  ASSUME CacheIInv, NEW p \in CacheProcs, WriteTemporary(p)
  PROVE  CacheIInv'
<1> DEFINE c == cache[p]
           i == c.handle
<1>0. /\ WriterInv(c) /\ WriterTyped(c) /\ InHand(c)
      /\ cache = [q \in CacheProcs |-> cache[q]] /\ DirTyped /\ LocksHeld
      /\ finals \in Seq([name : CacheNames, inode : Inodes])
  BY CacheFacts
<1>1. c.at = "write" /\ UNCHANGED <<temps, finals, cacheStops>>
  BY DEF WriteTemporary, CacheAt
<1>2. PICK a \in {"rename", "failed"} :
        /\ cache' = [cache EXCEPT ![p].at = a, ![p].handle = 0]
        /\ \/ inodes' = [inodes EXCEPT ![i].whole = TRUE, ![i].lock = {}]
           \/ inodes' = [inodes EXCEPT ![i].lock = {}]
  BY DEF WriteTemporary
<1> DEFINE d == [c EXCEPT !.at = a, !.handle = 0]
<1>3. cache' = [cache EXCEPT ![p] = d]
  BY <1>0, <1>2
<1>4. Moves(c, d, a)
  BY <1>0 DEF Moves, WriterTyped, CacheFields
<1> HIDE DEF d
<1>5. WriterInv(d) /\ d.at = a /\ d.job = c.job
  BY <1>0, <1>1, <1>4, AtMoves
<1>6. Minding(d)
  BY <1>5 DEF Minding
<1>7. /\ inodes' \in [Inodes -> InodeType]
      /\ \A k \in Inodes : inodes'[k].lock = IF k = i THEN {} ELSE inodes[k].lock
  BY <1>0, <1>2, Unlocked
<1>8. \A k \in Inodes, q \in CacheProcs : q \in inodes'[k].lock =>
         q \in inodes[k].lock /\ q # p
  BY <1>0, <1>7 DEF LocksHeld
<1>9. temps' \in [CacheNames -> 0..MaxCacheInodes]
  BY <1>0, <1>1 DEF DirTyped
<1>10. finals' \in Seq([name : CacheNames, inode : Inodes]) /\ cacheStops' = cacheStops
       /\ \A n \in CacheNames : temps'[n] # 0 => temps[n] # 0
  BY <1>0, <1>1
<1>11. \A k \in Inodes, q \in CacheProcs : q \in inodes'[k].lock =>
          \/ q \in inodes[k].lock /\ q # p
          \/ q = p /\ Holding(d) /\ d.handle = k
  BY <1>8
<1>12. /\ \A n \in CacheNames : temps'[n] # 0 => temps[n] # 0 \/ (Minding(d) /\ Named(p) = n)
       /\ Minding(cache[p]) => Minding(d) \/ temps'[Named(p)] = 0
       /\ d.job = cache[p].job
  BY <1>5, <1>6, <1>10
<1> HIDE DEF c, i
<1> QED BY <1>3, <1>5, <1>7, <1>9, <1>10, <1>11, <1>12, FileStep

LEMMA RenameTemporaryStep ==
  ASSUME CacheIInv, NEW p \in CacheProcs, RenameTemporary(p)
  PROVE  CacheIInv'
<1> DEFINE c == cache[p]
           n == NameOf(c.job)
<1>0. /\ WriterInv(c) /\ WriterTyped(c) /\ InHand(c)
      /\ cache = [q \in CacheProcs |-> cache[q]] /\ DirTyped /\ LocksHeld
      /\ finals \in Seq([name : CacheNames, inode : Inodes])
  BY CacheFacts
<1>1. c.at = "rename" /\ UNCHANGED <<inodes, cacheStops>>
  BY DEF RenameTemporary, CacheAt, cacheBounds
<1>2. ~Holding(c) /\ c.at \in WritingAt
  BY <1>1 DEF Holding, WritingAt, StoringAt
<1>3. n \in CacheNames
  BY <1>0, <1>2, JobTypes DEF InHand
<1>4. /\ inodes' \in [Inodes -> InodeType]
      /\ \A k \in Inodes, q \in CacheProcs : q \in inodes'[k].lock =>
           q \in inodes[k].lock /\ q # p
  BY <1>0, <1>1, <1>2 DEF LocksHeld, DirTyped
<1>5. CASE temps[n] = 0
  <2> DEFINE d == [c EXCEPT !.at = "failed"]
  <2>1. cache' = [cache EXCEPT ![p] = d] /\ UNCHANGED <<temps, finals>>
    BY <1>0, <1>5 DEF RenameTemporary, CacheTo, Named
  <2>2. Moves(c, d, "failed")
    BY <1>0 DEF Moves, WriterTyped, CacheFields
  <2> HIDE DEF d
  <2>3. WriterInv(d) /\ d.at = "failed" /\ d.job = c.job
    BY <1>0, <1>1, <2>2, AtMoves
  <2>4. Minding(d)
    BY <2>3 DEF Minding
  <2> QED BY <1>0, <1>1, <1>2, <2>1, <2>3, <2>4, CacheMove
<1>6. CASE temps[n] # 0
  <2> DEFINE d == [c EXCEPT !.at = "insert"]
             f == [name |-> n, inode |-> temps[n]]
             F == [name : CacheNames, inode : Inodes]
  <2>1. /\ cache' = [cache EXCEPT ![p] = d] /\ temps' = [temps EXCEPT ![n] = 0]
        /\ finals' = Append(KeepNamed(finals, {n}), f)
    BY <1>0, <1>6 DEF RenameTemporary, CacheTo, Named
  <2>2. Moves(c, d, "insert")
    BY <1>0 DEF Moves, WriterTyped, CacheFields
  <2> HIDE DEF d
  <2>3. WriterInv(d) /\ d.at = "insert" /\ d.job = c.job
    BY <1>0, <1>1, <2>2, AtMoves
  <2>4. f \in F
    <3>1. temps[n] \in 0..MaxCacheInodes
      BY <1>0, <1>3 DEF DirTyped
    <3>2. temps[n] \in Inodes
      BY <1>6, <3>1, CacheBoundsAssumption DEF Inodes
    <3> QED BY <1>3, <3>2
  <2> HIDE DEF f, F
  <2>5. KeepNamed(finals, {n}) \in Seq(F)
    BY <1>0, NamedKept DEF F
  <2>6. finals' \in Seq(F)
    BY <2>1, <2>4, <2>5
  <2>7. /\ temps' \in [CacheNames -> 0..MaxCacheInodes] /\ temps'[n] = 0
        /\ \A m \in CacheNames : temps'[m] # 0 => temps[m] # 0
    BY <1>0, <1>3, <2>1, CacheBoundsAssumption DEF DirTyped
  <2> QED BY <1>1, <1>4, <2>1, <2>3, <2>6, <2>7, FileStep DEF Named, F
<1> QED BY <1>5, <1>6

LEMMA RemoveFailedStep ==
  ASSUME CacheIInv, NEW p \in CacheProcs, RemoveFailed(p)
  PROVE  CacheIInv'
<1> DEFINE c == cache[p]
           n == NameOf(c.job)
           d == [c EXCEPT !.at = "list"]
<1>0. /\ WriterInv(c) /\ WriterTyped(c) /\ InHand(c)
      /\ cache = [q \in CacheProcs |-> cache[q]] /\ DirTyped /\ LocksHeld
      /\ finals \in Seq([name : CacheNames, inode : Inodes])
  BY CacheFacts
<1>1. /\ c.at = "failed" /\ UNCHANGED <<finals, inodes, cacheStops>>
      /\ cache' = [cache EXCEPT ![p] = d] /\ temps' = [temps EXCEPT ![n] = 0]
  BY <1>0 DEF RemoveFailed, CacheAt, CacheTo, Named, cacheBounds
<1>2. ~Holding(c) /\ c.at \in WritingAt
  BY <1>1 DEF Holding, WritingAt
<1>3. n \in CacheNames
  BY <1>0, <1>2, JobTypes DEF InHand
<1>4. /\ inodes' \in [Inodes -> InodeType]
      /\ \A k \in Inodes, q \in CacheProcs : q \in inodes'[k].lock =>
           q \in inodes[k].lock /\ q # p
  BY <1>0, <1>1, <1>2 DEF LocksHeld, DirTyped
<1>5. Moves(c, d, "list")
  BY <1>0 DEF Moves, WriterTyped, CacheFields
<1> HIDE DEF d
<1>6. WriterInv(d) /\ d.at = "list" /\ d.job = c.job
  BY <1>0, <1>1, <1>5, AtMoves
<1>7. /\ temps' \in [CacheNames -> 0..MaxCacheInodes] /\ temps'[n] = 0
      /\ \A m \in CacheNames : temps'[m] # 0 => temps[m] # 0
  BY <1>0, <1>1, <1>3, CacheBoundsAssumption DEF DirTyped
<1>8. finals' \in Seq([name : CacheNames, inode : Inodes])
  BY <1>0, <1>1
<1> QED BY <1>1, <1>4, <1>6, <1>7, <1>8, FileStep DEF Named

LEMMA ListTemporariesStep ==
  ASSUME CacheIInv, NEW p \in CacheProcs, ListTemporaries(p)
  PROVE  CacheIInv'
<1> DEFINE c == cache[p]
           d == [c EXCEPT !.at = "sweep", !.todo = Temporaries]
<1>0. /\ WriterInv(c) /\ WriterTyped(c)
      /\ cache = [q \in CacheProcs |-> cache[q]]
      /\ finals \in Seq([name : CacheNames, inode : Inodes])
  BY CacheFacts
<1>1. /\ c.at = "list" /\ UNCHANGED <<temps, finals, inodes, cacheStops>>
      /\ cache' = [cache EXCEPT ![p] = d]
  BY <1>0 DEF ListTemporaries, CacheAt, cacheDir, cacheBounds
<1>2. Moves(c, d, "sweep")
  BY <1>0 DEF Moves, WriterTyped, CacheFields
<1> HIDE DEF d
<1>3. WriterInv(d)
  BY <1>0, <1>1, <1>2, AtMoves
<1>4. ~Holding(c) /\ ~Minding(c)
  BY <1>1 DEF Holding, Minding
<1> QED BY <1>0, <1>1, <1>3, <1>4, CacheMove

LEMMA SweepStep ==
  ASSUME CacheIInv, NEW p \in CacheProcs, Sweep(p)
  PROVE  CacheIInv'
<1> DEFINE c == cache[p]
           i == temps[Head(c.todo)]
<1>0. /\ WriterInv(c) /\ WriterTyped(c)
      /\ cache = [q \in CacheProcs |-> cache[q]] /\ DirTyped /\ LocksHeld
      /\ finals \in Seq([name : CacheNames, inode : Inodes])
  BY CacheFacts
<1>1. c.at \in {"sweep", "start sweep"} /\ UNCHANGED <<temps, finals, cacheStops>>
  BY DEF Sweep, cacheBounds
<1>2. ~Holding(c) /\ ~Minding(c)
  BY <1>1 DEF Holding, Minding
<1>3. CASE c.todo = <<>>
  <2> DEFINE a == IF Starting(p) THEN "start trim" ELSE "trim"
             d == [c EXCEPT !.at = a]
  <2>1. cache' = [cache EXCEPT ![p] = d] /\ UNCHANGED inodes
    BY <1>0, <1>3 DEF Sweep, CacheTo
  <2>2. \/ c.at = "sweep" /\ a = "trim"
        \/ c.at = "start sweep" /\ a = "start trim"
    BY <1>1 DEF Starting
  <2> HIDE DEF a
  <2>3. Moves(c, d, a)
    BY <1>0 DEF Moves, WriterTyped, CacheFields
  <2> HIDE DEF d
  <2>4. WriterInv(d)
    BY <1>0, <2>2, <2>3, AtMoves
  <2> QED BY <1>0, <1>1, <1>2, <2>1, <2>4, CacheMove
<1>4. CASE c.todo # <<>> /\ (i = 0 \/ inodes[i].lock # {})
  <2> DEFINE t == Tail(c.todo)
             d == [c EXCEPT !.todo = t]
  <2>1. cache' = [cache EXCEPT ![p] = d] /\ UNCHANGED inodes
    BY <1>0, <1>4 DEF Sweep
  <2> HIDE DEF t
  <2>2. Moves(c, d, c.at)
    BY <1>0 DEF Moves, WriterTyped, CacheFields
  <2> HIDE DEF d
  <2>3. WriterInv(d)
    BY <1>0, <1>1, <2>2, AtMoves
  <2> QED BY <1>0, <1>1, <1>2, <2>1, <2>3, CacheMove
<1>5. CASE c.todo # <<>> /\ ~(i = 0 \/ inodes[i].lock # {})
  <2> DEFINE a == IF Starting(p) THEN "start unlink" ELSE "unlink"
             d == [c EXCEPT !.handle = i, !.at = a]
  <2>1. /\ cache' = [cache EXCEPT ![p] = d]
        /\ inodes' = [inodes EXCEPT ![i].lock = {p}]
    BY <1>0, <1>5 DEF Sweep
  <2>2. \/ c.at = "sweep" /\ a = "unlink"
        \/ c.at = "start sweep" /\ a = "start unlink"
    BY <1>1 DEF Starting
  <2> HIDE DEF a, i
  <2>3. Moves(c, d, a) /\ d.handle = i
    BY <1>0 DEF Moves, WriterTyped, CacheFields
  <2> HIDE DEF d
  <2>4. WriterInv(d) /\ d.at = a /\ d.job = c.job
    BY <1>0, <2>2, <2>3, AtMoves
  <2>5. Holding(d)
    BY <2>2, <2>4 DEF Holding
  <2>6. /\ inodes' \in [Inodes -> InodeType]
        /\ \A k \in Inodes : k # i => inodes'[k] = inodes[k]
        /\ i \in Inodes => inodes'[i].lock = {p}
    <3>1. PICK f, o : f = inodes' /\ o = inodes[i]
      OBVIOUS
    <3> DEFINE u == [o EXCEPT !.lock = {p}]
    <3>2. f = [inodes EXCEPT ![i] = u]
      BY <2>1, <3>1
    <3>3. inodes \in [Inodes -> InodeType] /\ (i \in Inodes => o \in InodeType)
      BY <1>0, <3>1 DEF DirTyped
    <3>4. i \in Inodes => u \in InodeType /\ u.lock = {p}
      BY <3>3 DEF InodeType
    <3> HIDE DEF u
    <3> QED BY <3>1, <3>2, <3>3, <3>4
  <2>7. \A k \in Inodes, q \in CacheProcs : q \in inodes'[k].lock =>
           \/ q \in inodes[k].lock /\ q # p
           \/ q = p /\ Holding(d) /\ d.handle = k
    BY <1>0, <1>2, <2>3, <2>5, <2>6 DEF LocksHeld
  <2>8. /\ finals' \in Seq([name : CacheNames, inode : Inodes]) /\ cacheStops' = cacheStops
        /\ \A n \in CacheNames : temps'[n] # 0 => temps[n] # 0
        /\ temps' \in [CacheNames -> 0..MaxCacheInodes]
    BY <1>0, <1>1 DEF DirTyped
  <2>9. /\ \A n \in CacheNames : temps'[n] # 0 => temps[n] # 0 \/ (Minding(d) /\ Named(p) = n)
        /\ Minding(cache[p]) => Minding(d) \/ temps'[Named(p)] = 0
        /\ d.job = cache[p].job
    BY <1>2, <2>4, <2>8
  <2> HIDE DEF c, i
  <2> QED BY <2>1, <2>4, <2>6, <2>7, <2>8, <2>9, FileStep
<1> QED BY <1>3, <1>4, <1>5

LEMMA SweepUnlinkStep ==
  ASSUME CacheIInv, NEW p \in CacheProcs, SweepUnlink(p)
  PROVE  CacheIInv'
<1> DEFINE c == cache[p]
           i == c.handle
           t == Tail(c.todo)
           n == Head(c.todo)
           a == IF Starting(p) THEN "start sweep" ELSE "sweep"
           d == [c EXCEPT !.handle = 0, !.todo = t, !.at = a]
<1>0. /\ WriterInv(c) /\ WriterTyped(c)
      /\ cache = [q \in CacheProcs |-> cache[q]] /\ DirTyped /\ LocksHeld
      /\ finals \in Seq([name : CacheNames, inode : Inodes])
  BY CacheFacts
<1>1. /\ c.at \in {"unlink", "start unlink"} /\ UNCHANGED <<finals, cacheStops>>
      /\ temps' = [temps EXCEPT ![n] = 0] /\ inodes' = [inodes EXCEPT ![i].lock = {}]
      /\ cache' = [cache EXCEPT ![p] = d]
  BY <1>0 DEF SweepUnlink, cacheBounds
<1>2. \/ c.at = "unlink" /\ a = "sweep"
      \/ c.at = "start unlink" /\ a = "start sweep"
  BY <1>1 DEF Starting
<1> HIDE DEF a, t, n
<1>3. Moves(c, d, a)
  BY <1>0 DEF Moves, WriterTyped, CacheFields
<1> HIDE DEF d
<1>4. WriterInv(d) /\ d.at = a /\ d.job = c.job
  BY <1>0, <1>2, <1>3, AtMoves
<1>5. ~Minding(c)
  BY <1>1 DEF Minding
<1>6. /\ inodes' \in [Inodes -> InodeType]
      /\ \A k \in Inodes : inodes'[k].lock = IF k = i THEN {} ELSE inodes[k].lock
  <2>1. PICK f, o : f = inodes' /\ o = inodes[i]
    OBVIOUS
  <2> DEFINE u == [o EXCEPT !.lock = {}]
  <2>2. f = [inodes EXCEPT ![i] = u]
    BY <1>1, <2>1
  <2>3. inodes \in [Inodes -> InodeType] /\ (i \in Inodes => o \in InodeType)
    BY <1>0, <2>1 DEF DirTyped
  <2>4. i \in Inodes => u \in InodeType /\ u.lock = {}
    BY <2>3 DEF InodeType
  <2> HIDE DEF u, i
  <2> QED BY <2>1, <2>2, <2>3, <2>4
<1>7. \A k \in Inodes, q \in CacheProcs : q \in inodes'[k].lock =>
         \/ q \in inodes[k].lock /\ q # p
         \/ q = p /\ Holding(d) /\ d.handle = k
  BY <1>0, <1>6 DEF LocksHeld
<1>8. /\ temps' \in [CacheNames -> 0..MaxCacheInodes]
      /\ \A m \in CacheNames : temps'[m] # 0 => temps[m] # 0
  <2>1. temps \in [CacheNames -> 0..MaxCacheInodes] /\ 0 \in 0..MaxCacheInodes
    BY <1>0, CacheBoundsAssumption DEF DirTyped
  <2>2. temps' = [temps EXCEPT ![n] = 0]
    BY <1>1
  <2> QED BY <2>1, <2>2
<1>9. finals' \in Seq([name : CacheNames, inode : Inodes]) /\ cacheStops' = cacheStops
  BY <1>0, <1>1
<1> QED BY <1>1, <1>4, <1>5, <1>6, <1>7, <1>8, <1>9, FileStep

(* A process that is not running has nothing in hand.                      *)
LEMMA DownIsClean ==
  WriterInv(Down) /\ ~Holding(Down)
<1> DEFINE c == Down
<1>1. /\ c.at = "down" /\ c.stored = FALSE /\ c.queued = NoWrite /\ c.inFlight = FALSE
      /\ c.index = <<>> /\ c.completed = <<>> /\ c.closing = "no" /\ c.listed = {}
      /\ c.gone = {}
  BY DEF Down
<1>2. c = [f \in CacheFields |-> c[f]]
  BY DEF Down, CacheFields
<1> HIDE DEF c
<1>3. c.at \in StartingAt /\ c.at \in CacheAts /\ c.at \notin WritingAt
  BY <1>1 DEF StartingAt, WritingAt, StoringAt, StoredAt, CacheAts
<1>4. WriterTyped(c)
  <2>1. c.index \in Seq(CacheEntries) /\ c.completed \in Seq(Completions)
    BY <1>1
  <2>2. /\ c.stored \in BOOLEAN /\ c.queued \in CacheJobs \cup {NoWrite}
        /\ c.closing \in {"no", "waiting", "aborting", "flushed", "aborted"}
    BY <1>1
  <2> QED BY <1>2, <1>3, <2>1, <2>2 DEF WriterTyped
<1>5. InHand(c)
  BY <1>1, <1>3 DEF InHand
<1>6. Survives(c)
  BY <1>1, <1>3, Ats DEF Survives
<1>7. ListedStays(c)
  BY <1>1 DEF ListedStays
<1>8. ~Holding(c)
  BY <1>1 DEF Holding
<1> QED BY <1>4, <1>5, <1>6, <1>7, <1>8 DEF WriterInv, c

LEMMA StopCacheStep ==
  ASSUME CacheIInv, NEW p \in CacheProcs, StopCache(p)
  PROVE  CacheIInv'
<1>0. /\ cache = [q \in CacheProcs |-> cache[q]] /\ DirTyped /\ LocksHeld
      /\ \A q \in CacheProcs : WriterInv(cache[q])
  BY DEF CacheIInv
<1>1. /\ cacheStops' = cacheStops + 1 /\ cache' = [cache EXCEPT ![p] = Down]
      /\ inodes' = [i \in Inodes |-> [inodes[i] EXCEPT !.lock = @ \ {p}]]
      /\ UNCHANGED <<temps, finals>>
  BY DEF StopCache
<1>2. ASSUME NEW i \in Inodes
      PROVE  inodes'[i] \in InodeType /\ inodes'[i].lock = inodes[i].lock \ {p}
  <2> DEFINE o == inodes[i]
  <2>1. o \in InodeType
    BY <1>0 DEF DirTyped
  <2>2. inodes'[i] = [o EXCEPT !.lock = o.lock \ {p}]
    BY <1>1
  <2> HIDE DEF o
  <2>3. inodes'[i] \in InodeType /\ inodes'[i].lock = o.lock \ {p}
    BY <2>1, <2>2 DEF InodeType
  <2> QED BY <2>3 DEF o
<1>3. inodes' \in [Inodes -> InodeType]
  BY <1>1, <1>2
<1>4. DirTyped'
  BY <1>0, <1>1, <1>3 DEF DirTyped
<1>5. Minded'
  BY <1>0, <1>1 DEF Minded, DirTyped
<1>6. /\ cache' = [q \in CacheProcs |-> cache'[q]] /\ cache'[p] = Down
      /\ \A q \in CacheProcs \ {p} : cache'[q] = cache[q]
  BY <1>0, <1>1
<1>7. LocksHeld'
  BY <1>0, <1>2, <1>6 DEF LocksHeld
<1>8. \A q \in CacheProcs : WriterInv(cache'[q])
  BY <1>0, <1>6, DownIsClean
<1> QED BY <1>4, <1>5, <1>6, <1>7, <1>8 DEF CacheIInv

LEMMA CacheStarts ==
  ASSUME PromptCacheInit PROVE CacheIInv
<1>1. /\ temps = [n \in CacheNames |-> 0] /\ finals = <<>>
      /\ inodes = [i \in Inodes |-> FreeInode] /\ cacheStops = 0
      /\ cache = [p \in CacheProcs |-> Down]
  BY DEF PromptCacheInit
<1>2. FreeInode \in InodeType /\ FreeInode.lock = {}
  BY DEF FreeInode, InodeType
<1>3. DirTyped
  BY <1>1, <1>2, CacheBoundsAssumption DEF DirTyped
<1>4. LocksHeld
  BY <1>1, <1>2 DEF LocksHeld
<1>5. Minded
  BY <1>1 DEF Minded
<1> QED BY <1>1, <1>3, <1>4, <1>5, DownIsClean DEF CacheIInv

LEMMA CacheSteps ==
  ASSUME CacheIInv, [PromptCacheNext]_cacheVars
  PROVE  CacheIInv'
<1>1. CASE UNCHANGED cacheVars
  <2>1. UNCHANGED <<temps, finals, inodes, cache, cacheStops>>
    BY <1>1 DEF cacheVars, cacheDir, cacheBounds
  <2> QED BY <2>1 DEF CacheIInv, DirTyped, LocksHeld, Minded, Named
<1>2. ASSUME NEW p \in CacheProcs,
             \/ StartCache(p) \/ StartTrim(p) \/ SubmitWrite(p) \/ CollectDiskWrites(p)
             \/ LoadFails(p) \/ TakeJob(p) \/ AdmitJob(p)
      PROVE  CacheIInv'
  BY <1>2, StartCacheStep, StartTrimStep, DoorStep, ListStep, TakeJobStep, AdmitJobStep
<1>3. ASSUME NEW p \in CacheProcs,
             \/ OpenTemporary(p) \/ LockTemporary(p) \/ WriteTemporary(p) \/ RenameTemporary(p)
             \/ RemoveFailed(p) \/ InsertStored(p) \/ ListTemporaries(p)
      PROVE  CacheIInv'
  BY <1>3, OpenTemporaryStep, LockTemporaryStep, WriteTemporaryStep, RenameTemporaryStep,
     RemoveFailedStep, InsertStoredStep, ListTemporariesStep
<1>4. ASSUME NEW p \in CacheProcs,
             \/ Sweep(p) \/ SweepUnlink(p) \/ Trim(p) \/ CloseCache(p) \/ WriterFlushed(p)
             \/ Deadline(p) \/ StopCache(p)
      PROVE  CacheIInv'
  BY <1>4, SweepStep, SweepUnlinkStep, TrimStep, DoorStep, StopCacheStep
<1> QED BY <1>1, <1>2, <1>3, <1>4 DEF PromptCacheNext

(* Only one process runs: the one that closed.                             *)
LEMMA OnlyOneRuns ==
  ASSUME NEW p \in CacheProcs, cache[p].at # "down",
         Cardinality({q \in CacheProcs : cache[q].at # "down"}) = 1
  PROVE  \A q \in CacheProcs : cache[q].at # "down" => q = p
<1> DEFINE R == {q \in CacheProcs : cache[q].at # "down"}
<1>1. IsFiniteSet(R)
  BY FS_Subset, CacheBoundsAssumption
<1>2. PICK r : R = {r}
  BY <1>1, FS_Singleton
<1> QED BY <1>2

LEMMA CacheInvHolds ==
  ASSUME CacheIInv PROVE CacheInv
<1>1. ASSUME NEW p \in CacheProcs
      PROVE  /\ \A e \in Collected(p) : e.name \notin cache[p].gone
             /\ OneContent => \A k \in DOMAIN cache[p].completed :
                  LET c == cache[p].completed[k]
                  IN \A n \in DOMAIN c.stored : c.stored[n].name \notin c.evicted
  <2>0. WriterTyped(cache[p]) /\ Survives(cache[p]) /\ ListedStays(cache[p])
    BY CacheFacts
  <2>1. ASSUME NEW e \in Collected(p)
        PROVE  e.name \notin cache[p].gone
    <3>1. PICK listed, done : listed = cache[p].listed /\ done = cache[p].completed
      OBVIOUS
    <3>2. Len(done) \in Nat
      BY <2>0, <3>1 DEF WriterTyped
    <3>3. From(listed, done, Len(done), e)
      BY <3>1, <3>2, CollectedFrom
    <3> QED BY <2>0, <3>1, <3>3 DEF ListedStays
  <2>2. OneContent => \A k \in DOMAIN cache[p].completed :
          \A n \in DOMAIN cache[p].completed[k].stored :
            cache[p].completed[k].stored[n].name \notin cache[p].completed[k].evicted
    BY <2>0 DEF Survives
  <2> QED BY <2>1, <2>2
<1>2. ListedIsStored
  BY <1>1 DEF ListedIsStored
<1>3. ASSUME NEW p \in CacheProcs, cache[p].closing \in {"flushed", "aborted"}
      PROVE  /\ CacheAt(p, "wait") /\ ~Pending(p)
             /\ \A i \in Inodes : p \notin inodes[i].lock
  <2>0. InHand(cache[p]) /\ LocksHeld
    BY CacheFacts
  <2>1. cache[p].at = "wait" /\ cache[p].queued = NoWrite
    BY <1>3, <2>0 DEF InHand
  <2>2. ~cache[p].inFlight
    BY <2>0, <2>1, Ats DEF InHand
  <2>3. \A i \in Inodes : p \notin inodes[i].lock
    BY <2>0, <2>1 DEF LocksHeld, Holding
  <2> QED BY <2>1, <2>2, <2>3 DEF CacheAt, Pending
<1>4. ASSUME NEW p \in CacheProcs, cache[p].closing \in {"flushed", "aborted"},
             Cardinality({q \in CacheProcs : cache[q].at # "down"}) = 1, cacheStops = 0,
             NEW n \in CacheNames
      PROVE  temps[n] = 0
  <2>1. cache[p].at = "wait"
    BY <1>3, <1>4 DEF CacheAt
  <2>2. \A q \in CacheProcs : cache[q].at # "down" => q = p
    BY <1>4, <2>1, OnlyOneRuns
  <2>3. \A q \in CacheProcs : ~Minding(cache[q])
    BY <2>1, <2>2 DEF Minding
  <2> QED BY <1>4, <2>3 DEF CacheIInv, Minded
<1>5. ClosedIsQuiet
  BY <1>3, <1>4 DEF ClosedIsQuiet
<1> QED BY <1>2, <1>5 DEF CacheInv

(* The inductive invariant of the prompt cache's writers (Writer, Closer   *)
(* and DiskIndex): a writer has a job exactly while it persists one, locks *)
(* are held by the handle that took them, what is being stored was         *)
(* admitted by the index it enters, and what the engine will list was not  *)
(* deleted after it was last written.                                      *)
THEOREM CacheInvariant == PromptCacheSpec => []CacheIInv
<1>1. PromptCacheInit => CacheIInv
  BY CacheStarts
<1>2. CacheIInv /\ [PromptCacheNext]_cacheVars => CacheIInv'
  BY CacheSteps
<1> QED BY <1>1, <1>2, PTL DEF PromptCacheSpec

(* collect_disk_writes never lists a file the writer's own trim deleted    *)
(* since, the trim that follows a store spares it, and a Closer that       *)
(* returned flushed or aborted leaves a writer without a job, a lock or,   *)
(* alone, a temporary.                                                     *)
THEOREM CacheKeepsItsPromise == PromptCacheSpec => []CacheInv
<1>1. CacheIInv => CacheInv
  BY CacheInvHolds
<1> QED BY <1>1, CacheInvariant, PTL
=============================================================================
