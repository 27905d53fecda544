--------------------------- MODULE ResponseStream ---------------------------
(***************************************************************************)
(* The clients that stream a background Response (resume.rs): each opens a *)
(* subscription after the last event it received, follows the job that     *)
(* generates the response or replays its journal, and may go away and come *)
(* back at any time.  The job, its record and its journal are those of     *)
(* BackgroundJob.                                                          *)
(***************************************************************************)
EXTENDS BackgroundJob

CONSTANTS
  Clients,
  MaxLeaves     \* bound: times clients go away or stall in mid-stream

ASSUME ClientsAssumption == MaxLeaves \in Nat

VARIABLES
  conn,    \* each client's Subscription
  seen,    \* the events each client has received, in order
  leaves

streams    == <<conn, seen, leaves>>
streamVars == <<vars, streams>>

(* A Subscription: the server it is on; whether it follows the job there   *)
(* ("live"; "late" once another job of the response replaced the one it    *)
(* watches, whose last Published is `pub`), replays, or has read all there *)
(* is and is about to load the record ("derive"); the lines its            *)
(* JournalReader has read, and the end its last line opened, if any.       *)
Off == [mode |-> "off", at |-> NoServer, read |-> 0, opened |-> NoEnd, pub |-> NoPub]
Opened(mode, s) == [Off EXCEPT !.mode = mode, !.at = s]

StreamInit ==
  /\ Init
  /\ conn = [c \in Clients |-> Off]
  /\ seen = [c \in Clients |-> <<>>]
  /\ leaves = 0

Connect(c, k) == conn' = [conn EXCEPT ![c] = k]

(* subscribe, when the job is registered here: its watch is followed.      *)
OpenLive(c, s) ==
  /\ conn[c].mode = "off" /\ ~Ended(seen[c])
  /\ Up(s) /\ registered[s] /\ status \notin Unstored /\ jfile /\ ~pub[s].deleted
  /\ Connect(c, Opened("live", s))
  /\ UNCHANGED <<vars, seen, leaves>>

(* subscribe otherwise: the journal of a settled response is replayed.  (A *)
(* pending one is resumed or recovered first, or refused: TakeResume,      *)
(* Subscribe.)                                                             *)
OpenReplay(c, s) ==
  /\ conn[c].mode = "off" /\ ~Ended(seen[c])
  /\ Up(s) /\ ~registered[s] /\ status \in Ends /\ jfile
  /\ Connect(c, Opened("replay", s))
  /\ UNCHANGED <<vars, seen, leaves>>

(* wanted and deliver: of `lines`, which follow the first `from` of the    *)
(* stream, the client is sent those after its cursor, up to the n-th.      *)
Received(c, from, lines, n) ==
  [seen EXCEPT ![c] = @ \o SubSeq(lines, Len(@) - from + 1, n)]

(* All of them, or not: the client goes away, or stops reading for the     *)
(* stall budget.                                                           *)
Sent(c, from, lines) ==
  /\ seen' = Received(c, from, lines, Len(lines))
  /\ UNCHANGED leaves

Leave(c, from, lines) ==
  /\ leaves < MaxLeaves /\ leaves' = leaves + 1
  /\ \E n \in 0..Len(lines) : seen' = Received(c, from, lines, n)
  /\ Connect(c, Off)

(* Mutant of AtEnd: a stream whose journal stops short just closes. *)
AtEndOfJournal(c, lines) == Connect(c, Off)

(* What follows once every line is read: nothing after an end; otherwise   *)
(* the record decides, and an end the last line opened is not repeated.    *)
AtEnd(c, lines) ==
  LET last == lines[Len(lines)]
      opened == IF lines # <<>> /\ last.kind = "error" THEN last.end ELSE NoEnd
  IN Connect(c, IF Ended(lines) THEN Off
                ELSE [conn[c] EXCEPT !.mode = "derive", !.read = Len(lines),
                                     !.opened = opened])

(* Mutant of FollowLive: a torn journal is followed by the record's end. *)
FollowLiveTorn(c) ==
  /\ conn[c].mode \in {"live", "late"}
  /\ LET p == IF conn[c].mode = "late" THEN conn[c].pub ELSE pub[conn[c].at]
         lines == SubSeq(journal, 1, p.lines)
     IN \/ p.deleted /\ Connect(c, Off) /\ UNCHANGED <<seen, leaves>>
        \/ /\ ~p.deleted
           /\ \/ p.settled /\ AtEnd(c, lines)
              \/ /\ ~p.settled /\ p.lines > conn[c].read
                 /\ Connect(c, [conn[c] EXCEPT !.read = p.lines])
           /\ Sent(c, 0, lines)
  /\ UNCHANGED vars

(* follow, of a job: every line published is read and sent.  Those lines   *)
(* are whole and stay, so reading and sending them is one step.  (A watch  *)
(* whose job was dropped unannounced would be replayed; StreamCloses shows *)
(* that there is none.)                                                    *)
FollowLive(c) ==
  /\ conn[c].mode \in {"live", "late"}
  /\ LET p == IF conn[c].mode = "late" THEN conn[c].pub ELSE pub[conn[c].at]
         lines == SubSeq(journal, 1, p.lines)
     IN \/ p.deleted /\ Connect(c, Off) /\ UNCHANGED <<seen, leaves>>
        \/ ~p.deleted /\ Leave(c, 0, lines)
        \/ /\ ~p.deleted
           /\ \/ p.torn /\ Connect(c, Off)
              \/ ~p.torn /\ p.settled /\ AtEnd(c, lines)
              \/ /\ ~p.torn /\ ~p.settled /\ p.lines > conn[c].read
                 /\ Connect(c, [conn[c] EXCEPT !.read = p.lines])
           /\ Sent(c, 0, lines)
  /\ UNCHANGED vars

(* follow, of a journal no job here writes: the lines of a batch another   *)
(* server is writing, and may yet cut back off, are visible too.           *)
Visible == {journal} \cup
  UNION {{journal \o SubSeq(batch, 1, n) : n \in 0..Len(batch)} :
           batch \in UNION {InFlight(s) : s \in Servers}}

FollowReplay(c) ==
  /\ conn[c].mode = "replay"
  /\ \E lines \in Visible : \/ Leave(c, 0, lines)
                            \/ Sent(c, 0, lines) /\ AtEnd(c, lines)
  /\ UNCHANGED vars

(* Mutant of DeriveEnd: an end the journal has opened is repeated. *)
DeriveEndRepeated(c) ==
  /\ conn[c].mode = "derive"
  /\ \/ status \notin Ends /\ UNCHANGED <<seen, leaves>>
     \/ status \in Ends /\ Sent(c, conn[c].read, TerminalEvents(status))
  /\ Connect(c, Off)
  /\ UNCHANGED vars

(* follow, after the last line: the end of the record, numbered after it. *)
DeriveEnd(c) ==
  /\ conn[c].mode = "derive"
  /\ LET end == TerminalEvents(status)
         lines == IF conn[c].opened = status THEN Tail(end) ELSE end
     IN \/ status \notin Ends /\ Connect(c, Off) /\ UNCHANGED <<seen, leaves>>
        \/ status \in Ends /\ Leave(c, conn[c].read, lines)
        \/ status \in Ends /\ Sent(c, conn[c].read, lines) /\ Connect(c, Off)
  /\ UNCHANGED vars

Follow(c) == FollowLive(c) \/ FollowReplay(c) \/ DeriveEnd(c)

(* What a step of the job does to its subscribers: a new job of the        *)
(* response has a watch of its own, and a process takes its streams along. *)
Notified(k) ==
  IF k.mode # "off" /\ server'[k.at] = "down" THEN Off
  ELSE IF k.mode = "live" /\ lease = k.at /\ task = "register" /\ task' # "register"
    THEN [k EXCEPT !.mode = "late", !.pub = pub[k.at]]
  ELSE k

JobStep ==
  /\ Next
  /\ conn' = [c \in Clients |-> Notified(conn[c])]
  /\ UNCHANGED <<seen, leaves>>

StreamNext ==
  \/ JobStep
  \/ \E c \in Clients : \/ Follow(c)
                        \/ \E s \in Servers : OpenLive(c, s) \/ OpenReplay(c, s)

StreamSpec == StreamInit /\ [][StreamNext]_streamVars

(* Subscribers run on, and a client whose stream closed early comes back. *)
FairStreams ==
  /\ StreamSpec
  /\ \A s \in Servers : Fairness(s)
  /\ \A c \in Clients :
       /\ WF_streamVars(Follow(c))
       /\ WF_streamVars(\E s \in Servers : OpenLive(c, s) \/ OpenReplay(c, s))

(***************************************************************************)
(* Properties.                                                             *)
(***************************************************************************)
(* There is one stream: whatever was torn, cut off, derived or resumed,    *)
(* every client has received a prefix of it, so an event keeps its number  *)
(* for everybody and a client that comes back misses and repeats nothing   *)
(* (Published, JournalWriter::torn, Subscription::follow).                 *)
Agree(a, b) == \A n \in 1..Len(a) : n <= Len(b) => a[n] = b[n]
OneStream == \A c \in Clients :
  /\ Agree(seen[c], journal)
  /\ \A d \in Clients : Agree(seen[c], seen[d])

(* A client that has received the end of the stream finds the Response it  *)
(* announced in the store, unless it was deleted, and the end came last,   *)
(* whether it was journaled, replayed or derived from the record.          *)
SeenEndIsRecorded == \A c \in Clients : \A n \in 1..Len(seen[c]) :
  seen[c][n].kind = "final" => n = Len(seen[c]) /\ status \in {seen[c][n].end, "gone"}

(* The end came once and whole.                                            *)
SeenEndIsWhole == \A c \in Clients :
  LET ends == SelectSeq(seen[c], LAMBDA l : l.kind \in {"error", "final"}) IN
  \A n \in 1..Len(seen[c]) :
    seen[c][n].kind = "final" => ends = TerminalEvents(seen[c][n].end)

(* The end a client has received is the Response's: whole, last, and what  *)
(* the store says, whatever was torn, cut off or resumed before it.        *)
SeenEndIsDurable == SeenEndIsRecorded /\ SeenEndIsWhole

(* No subscriber waits forever: on every path, failed writes included, the *)
(* job it follows settles or is deleted, and says so (Inner::settle,       *)
(* Job::delete, Subscription::follow).                                     *)
StreamCloses == \A c \in Clients : (conn[c].mode # "off") ~> (conn[c].mode = "off")

(* A client that has opened a stream and comes back until it has the end   *)
(* gets it: a stream that closed early because of a torn write can be      *)
(* replayed.                                                               *)
EndIsSeen == \A c \in Clients :
  (conn[c].mode # "off" /\ status \in Ends /\ jfile)
    ~> (Ended(seen[c]) \/ status = "gone")
=============================================================================
