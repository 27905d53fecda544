----------------------------- MODULE Temporary -----------------------------
(***************************************************************************)
(* Background responses with store=false: kept in a private store of the   *)
(* process, answered for by an index of their IDs, and expired some time   *)
(* after they end by whoever comes first, a request or the reaper thread   *)
(* (Temporary of background.rs, locate and stored_response of serve.rs).   *)
(*                                                                         *)
(* The life of a job up to its end is BackgroundJob; here it is pending,   *)
(* settling or ended.  One action is one critical section of the index or  *)
(* of the job, or one write to the private store.                          *)
(***************************************************************************)
EXTENDS Integers, FiniteSets

CONSTANTS
  Briefs,          \* the responses created with background and store=false
  Askers,          \* the clients that retrieve, cancel or delete them
  BriefTtl,        \* TEMPORARY_RETENTION
  MaxBriefClock,   \* bound: the latest time
  MaxBriefFaults,  \* bound: store operations that fail
  MaxAsks          \* bound: requests

ASSUME TemporaryAssumption ==
  /\ BriefTtl \in Nat \ {0} /\ MaxBriefClock \in Nat
  /\ MaxBriefFaults \in Nat /\ MaxAsks \in Nat

VARIABLES
  index,     \* Index::ids: absent, open while it runs, or its expiry
  kept,      \* the record in the private store
  jobs,      \* the registered jobs
  askers,    \* what each client's request is doing
  reaper,    \* the reaper: due IDs it works through, or until when it parks
  btime, closed, left,   \* the clock, Index::closed, failed deletions
  bfaults, asks

briefVars == <<index, kept, jobs, askers, reaper, btime, closed, left, bfaults, asks>>

Absent == -2
Open0 == -1
Forever == MaxBriefClock + BriefTtl + 1

AtRest == [at |-> "rest", id |-> "", op |-> ""]
Reaping == [at |-> "look", due |-> {}, id |-> "", until |-> 0]

TemporaryInit ==
  /\ index = [i \in Briefs |-> Absent] /\ kept = [i \in Briefs |-> "none"]
  /\ jobs = [i \in Briefs |-> "new"] /\ askers = [a \in Askers |-> AtRest]
  /\ reaper = Reaping
  /\ btime = 0 /\ closed = FALSE /\ left = {} /\ bfaults = 0 /\ asks = 0

BriefFault == bfaults < MaxBriefFaults /\ bfaults' = bfaults + 1

----------------------------------------------------------------------------
(* The job. *)

(* admit: the ID is answered for here before its record is written. *)
AdmitTrack(i) ==
  /\ jobs[i] = "new" /\ ~closed
  /\ index' = [index EXCEPT ![i] = Open0]
  /\ jobs' = [jobs EXCEPT ![i] = "admitting"]
  /\ UNCHANGED <<kept, askers, reaper, btime, closed, left, bfaults, asks>>

(* The record; one that is not admitted is forgotten again. *)
AdmitSave(i) ==
  /\ jobs[i] = "admitting"
  /\ \/ /\ kept' = [kept EXCEPT ![i] = "pending"]
        /\ jobs' = [jobs EXCEPT ![i] = "pending"]
        /\ UNCHANGED <<index, bfaults>>
     \/ /\ BriefFault
        /\ index' = [index EXCEPT ![i] = Absent]
        /\ jobs' = [jobs EXCEPT ![i] = "gone"]
        /\ UNCHANGED kept
  /\ UNCHANGED <<askers, reaper, btime, closed, left, asks>>

(* settle, under the job's lock: the terminal record, or none at all when  *)
(* it cannot be written; then the retention starts, once.                  *)
SettleBrief(i) ==
  /\ jobs[i] = "pending"
  /\ \/ kept' = [kept EXCEPT ![i] = "ended"] /\ UNCHANGED bfaults
     \/ BriefFault /\ kept' = [kept EXCEPT ![i] = "none"]
  /\ jobs' = [jobs EXCEPT ![i] = "settling"]
  /\ UNCHANGED <<index, askers, reaper, btime, closed, left, asks>>

(* Mutant of Retain: the reaper is not woken. *)
RetainUnwoken(i) ==
  /\ jobs[i] = "settling"
  /\ jobs' = [jobs EXCEPT ![i] = "ended"]
  /\ index' = IF index[i] = Open0 THEN [index EXCEPT ![i] = btime + BriefTtl] ELSE index
  /\ UNCHANGED <<kept, askers, reaper, btime, closed, left, bfaults, asks>>

Retain(i) ==
  /\ jobs[i] = "settling"
  /\ jobs' = [jobs EXCEPT ![i] = "ended"]
  /\ IF index[i] = Open0
     THEN /\ index' = [index EXCEPT ![i] = btime + BriefTtl]
          /\ reaper' = IF reaper.at = "parked" THEN [reaper EXCEPT !.at = "look"]
                                               ELSE reaper
     ELSE UNCHANGED <<index, reaper>>
  /\ UNCHANGED <<kept, askers, btime, closed, left, bfaults, asks>>

(* Pump::run returns: the job is registered no longer. *)
PumpGone(i) ==
  /\ jobs[i] \in {"ended", "deleted"}
  /\ jobs' = [jobs EXCEPT ![i] = "gone"]
  /\ UNCHANGED <<index, kept, askers, reaper, btime, closed, left, bfaults, asks>>

Forget(i) == index' = [index EXCEPT ![i] = Absent]

(* Background::delete: under the job's lock while it is registered; one    *)
(* already deleted finds nothing.  A pending job is cancelled.             *)
DeleteBrief(i) ==
  /\ jobs[i] # "settling"
  /\ \/ /\ kept' = [kept EXCEPT ![i] = "none"]
        /\ jobs' = IF jobs[i] \in {"pending", "ended"}
                   THEN [jobs EXCEPT ![i] = "deleted"] ELSE jobs
        /\ UNCHANGED <<left, bfaults>>
     \/ /\ kept[i] # "none" /\ BriefFault
        /\ left' = left \cup {i}
        /\ UNCHANGED <<kept, jobs>>

----------------------------------------------------------------------------
(* The requests. *)

(* Mutant of Expired: a response that still runs counts as due. *)
ExpiredOpen(i) == index[i] # Absent /\ index[i] <= btime

Expired(i) == index[i] >= 0 /\ index[i] <= btime

(* holds: the index is read, and the clock after it.  Nobody knows the ID  *)
(* of a response before it is admitted.                                    *)
Locate(a, i, op) ==
  /\ askers[a].at = "rest" /\ asks < MaxAsks /\ asks' = asks + 1
  /\ jobs[i] \notin {"new", "admitting"} /\ ~closed
  /\ index[i] # Absent
  /\ askers' = [askers EXCEPT ![a] =
       [at |-> IF Expired(i) THEN "expire" ELSE "act", id |-> i, op |-> op]]
  /\ UNCHANGED <<index, kept, jobs, reaper, btime, closed, left, bfaults>>

(* expire, called by the request that found it due: delete, then forget. *)
AskerExpires(a) ==
  LET i == askers[a].id
  IN /\ askers[a].at = "expire"
     /\ DeleteBrief(i)
     /\ askers' = [askers EXCEPT ![a].at = "forget"]
     /\ UNCHANGED <<index, reaper, btime, closed, asks>>

(* What the located response is asked for.  A cancel settles a pending     *)
(* job; a DELETE removes the record and forgets it, unless that fails.     *)
AskerActs(a) ==
  LET i == askers[a].id
  IN /\ askers[a].at = "act"
     /\ \/ /\ askers[a].op = "get"
           /\ askers' = [askers EXCEPT ![a] = AtRest]
           /\ UNCHANGED <<kept, jobs, left, bfaults>>
        \/ /\ askers[a].op = "cancel" /\ jobs[i] # "settling"
           /\ IF jobs[i] = "pending"
              THEN /\ jobs' = [jobs EXCEPT ![i] = "settling"]
                   /\ \/ kept' = [kept EXCEPT ![i] = "ended"] /\ UNCHANGED bfaults
                      \/ BriefFault /\ kept' = [kept EXCEPT ![i] = "none"]
              ELSE UNCHANGED <<jobs, kept, bfaults>>
           /\ askers' = [askers EXCEPT ![a] = AtRest]
           /\ UNCHANGED left
        \/ /\ askers[a].op = "delete"
           /\ DeleteBrief(i)
           /\ askers' = [askers EXCEPT ![a] = IF i \in left' /\ kept'[i] # "none"
                                              THEN AtRest
                                              ELSE [@ EXCEPT !.at = "forget"]]
     /\ UNCHANGED <<index, reaper, btime, closed, asks>>

AskerForgets(a) ==
  /\ askers[a].at = "forget"
  /\ Forget(askers[a].id)
  /\ askers' = [askers EXCEPT ![a] = AtRest]
  /\ UNCHANGED <<kept, jobs, reaper, btime, closed, left, bfaults, asks>>

----------------------------------------------------------------------------
(* The reaper, and shutdown. *)

Due == {i \in Briefs : Expired(i)}
Nearest == LET ends == {index[i] : i \in {j \in Briefs : index[j] >= 0}}
           IN IF ends = {} THEN Forever ELSE CHOOSE t \in ends : \A u \in ends : t <= u

(* reap: looks for what is due, or parks until the nearest deadline. *)
ReaperLooks ==
  /\ reaper.at = "look"
  /\ reaper' = CASE closed -> [Reaping EXCEPT !.at = "stopped"]
                 [] ~closed /\ Due # {} -> [Reaping EXCEPT !.at = "work", !.due = Due]
                 [] OTHER -> [Reaping EXCEPT !.at = "parked", !.until = Nearest]
  /\ UNCHANGED <<index, kept, jobs, askers, btime, closed, left, bfaults, asks>>

ReaperTimeout ==
  /\ reaper.at = "parked" /\ reaper.until <= btime
  /\ reaper' = [Reaping EXCEPT !.at = "look"]
  /\ UNCHANGED <<index, kept, jobs, askers, btime, closed, left, bfaults, asks>>

(* expire_due: each due response is deleted, then forgotten. *)
ReaperDeletes ==
  /\ reaper.at = "work"
  /\ \/ /\ reaper.due = {}
        /\ reaper' = Reaping
        /\ UNCHANGED <<kept, jobs, left, bfaults>>
     \/ \E i \in reaper.due :
          /\ DeleteBrief(i)
          /\ reaper' = [reaper EXCEPT !.at = "forget", !.id = i, !.due = @ \ {i}]
  /\ UNCHANGED <<index, askers, btime, closed, asks>>

ReaperForgets ==
  /\ reaper.at = "forget"
  /\ Forget(reaper.id)
  /\ reaper' = [reaper EXCEPT !.at = "work", !.id = ""]
  /\ UNCHANGED <<kept, jobs, askers, btime, closed, left, bfaults, asks>>

(* close: once no job is registered.  The index is cleared, the reaper     *)
(* woken, and the directory removed.                                       *)
CloseTemporary ==
  /\ ~closed /\ \A i \in Briefs : jobs[i] \in {"new", "gone"}
  /\ closed' = TRUE
  /\ index' = [i \in Briefs |-> Absent]
  /\ reaper' = IF reaper.at = "parked" THEN [reaper EXCEPT !.at = "look"] ELSE reaper
  /\ UNCHANGED <<kept, jobs, askers, btime, left, bfaults, asks>>

RemoveDir ==
  /\ closed /\ \E i \in Briefs : kept[i] # "none"
  /\ kept' = [i \in Briefs |-> "none"]
  /\ UNCHANGED <<index, jobs, askers, reaper, btime, closed, left, bfaults, asks>>

BriefTick ==
  /\ btime < MaxBriefClock /\ btime' = btime + 1
  /\ UNCHANGED <<index, kept, jobs, askers, reaper, closed, left, bfaults, asks>>

ReaperStep == ReaperLooks \/ ReaperTimeout \/ ReaperDeletes \/ ReaperForgets

TemporaryNext ==
  \/ \E i \in Briefs : AdmitTrack(i) \/ AdmitSave(i) \/ SettleBrief(i) \/ Retain(i)
                       \/ PumpGone(i)
  \/ \E a \in Askers, i \in Briefs, op \in {"get", "cancel", "delete"} : Locate(a, i, op)
  \/ \E a \in Askers : AskerExpires(a) \/ AskerActs(a) \/ AskerForgets(a)
  \/ ReaperStep \/ CloseTemporary \/ RemoveDir \/ BriefTick

TemporarySpec == TemporaryInit /\ [][TemporaryNext]_briefVars

(* The reaper thread runs and time passes; requests need not come. *)
TemporaryFairness ==
  /\ WF_briefVars(ReaperStep)
  /\ WF_briefVars(BriefTick)
  /\ \A i \in Briefs : WF_briefVars(Retain(i))

----------------------------------------------------------------------------
(* Whatever the private store keeps is answered for, so it can expire: no  *)
(* interleaving of expiry, deletion and settlement leaves a record the     *)
(* index forgot, except one whose deletion failed ("Unreachable from now   *)
(* on all the same").                                                      *)
KeptIsAnswered ==
  \A i \in Briefs : (kept[i] # "none" /\ ~closed) => index[i] # Absent \/ i \in left

(* Expiry never touches a response before it has ended and its retention   *)
(* has passed: what is due has its deadline behind it and no job that      *)
(* still writes, so nothing native is ever cancelled by it.                *)
ExpiryIsLate ==
  LET due == reaper.due \cup {askers[a].id : a \in {b \in Askers : askers[b].at = "expire"}}
  IN \A i \in due : /\ jobs[i] \in {"ended", "deleted", "gone"}
                    /\ index[i] = Absent \/ index[i] <= btime

(* Nothing outlives the index and nothing is expired early.                *)
TemporaryInv == KeptIsAnswered /\ ExpiryIsLate

(* A response that has ended is gone in the end, though nobody asks for it *)
(* again: the reaper never sleeps past a deadline.                         *)
EndedExpires ==
  \A i \in Briefs : (index[i] >= 0 /\ index[i] <= MaxBriefClock) ~> (index[i] = Absent)
----------------------------------------------------------------------------
(* The inductive invariant behind TemporaryInv (TemporaryProofs).          *)

Running == {"admitting", "pending", "settling"}
Over == {"ended", "deleted", "gone"}

Asker == [at: {"rest", "act", "expire", "forget"}, id: Briefs \cup {""},
          op: {"", "get", "cancel", "delete"}]
Reaper == [at: {"look", "work", "parked", "forget", "stopped"}, due: SUBSET Briefs,
           id: Briefs \cup {""}, until: Int]

TemporaryTypeOK ==
  /\ index \in [Briefs -> Int] /\ kept \in [Briefs -> {"none", "pending", "ended"}]
  /\ jobs \in [Briefs -> {"new"} \cup Running \cup Over]
  /\ askers \in [Askers -> Asker] /\ reaper \in Reaper
  /\ btime \in Nat /\ bfaults \in Nat /\ asks \in Nat
  /\ closed \in BOOLEAN /\ left \subseteq Briefs

(* A job that still writes is answered for and has no deadline.            *)
IndexFollowsJob ==
  \A i \in Briefs :
    /\ jobs[i] \in Running => index[i] = Open0
    /\ index[i] >= 0 => jobs[i] \in Over
    /\ jobs[i] \in {"new", "admitting"} => kept[i] = "none"

(* Who is to expire i: its job is over, and its deadline passed.           *)
DueIsOver(i) == jobs[i] \in Over /\ (index[i] = Absent \/ index[i] <= btime)

(* Who is to forget i: its job is over, and its record gone, or left.      *)
ForgetIsOver(i) == jobs[i] \in Over /\ (kept[i] = "none" \/ i \in left)

AskerKnows(a) ==
  /\ askers[a].at # "rest" =>
       askers[a].id \in Briefs /\ jobs[askers[a].id] \notin {"new", "admitting"}
  /\ askers[a].at = "expire" => DueIsOver(askers[a].id)
  /\ askers[a].at = "forget" => ForgetIsOver(askers[a].id)

ReaperKnows ==
  /\ \A i \in reaper.due : DueIsOver(i)
  /\ reaper.at = "forget" => reaper.id \in Briefs /\ ForgetIsOver(reaper.id)

TemporaryIInv ==
  /\ TemporaryTypeOK /\ IndexFollowsJob /\ KeptIsAnswered /\ ReaperKnows
  /\ \A a \in Askers : AskerKnows(a)
============================================================================
