-------------------------- MODULE MCResponseStream --------------------------
(* Instances of ResponseStream for TLC.  A behaviour either is watched by  *)
(* a client, with smaller bounds on the job it follows, or is not, and the *)
(* job has the larger ones.                                                *)
EXTENDS ResponseStream, MCBackgroundJob

CONSTANT c1

OneClient == {c1}
Mixed     == Streams \cup Varied \cup Unresumed

VARIABLE watched

WatchedInit == StreamInit /\ watched \in BOOLEAN /\ (watched => shape \in Streams)
WatchedNext == StreamNext /\ UNCHANGED watched /\ (watched \/ UNCHANGED conn)
watchedVars == <<streamVars, watched>>

(* Safety: a watched job produces no output items and is not deferred.     *)
(* Three writes fail only without a stored request and without items; a    *)
(* job that is also summarized or calls hosted tools has at most two       *)
(* things to deal with, counting items, a failed write and the calls.      *)
JobBounds ==
  /\ shape \notin Unresumed => faults' <= 1
  /\ watched \/ shape \notin Streams => deferrals' = 0
  /\ \A s \in Servers :
       /\ watched \/ shape \in Unresumed => doc'[s].items = 0
       /\ shape \in Summarized => doc'[s].items + faults' <= 2
       /\ shape \in Hosted => doc'[s].items + faults' <= 1

JobNext == WatchedNext /\ JobBounds
JobSpec == WatchedInit /\ [][JobNext]_watchedVars

(* Liveness: with a client writes fail, without one servers stop and the   *)
(* queue is full.                                                          *)
LiveNext ==
  WatchedNext /\ IF watched THEN stops' = 0 /\ deferrals' = 0 ELSE faults' = 0
LiveSpec ==
  /\ WatchedInit /\ [][LiveNext]_watchedVars
  /\ \A s \in Servers : Fairness(s)
  /\ \A c \in Clients :
       /\ WF_streamVars(watched /\ Follow(c))
       /\ WF_streamVars(watched /\ \E s \in Servers : OpenLive(c, s) \/ OpenReplay(c, s))
=============================================================================
