-------------------------- MODULE MCBackgroundJob --------------------------
(* Instances of BackgroundJob for TLC. *)
EXTENDS BackgroundJob, TLC

CONSTANTS s1, s2

One == {s1}
Two == {s1, s2}
Symmetry == Permutations(Two)

Shape(streamed, request, hosted, summary, compaction) ==
  [streamed |-> streamed, request |-> request, hosted |-> hosted,
   summary |-> summary, compaction |-> compaction]

Streams    == {Shape(TRUE, TRUE, FALSE, FALSE, FALSE)}
Unstreamed == {Shape(FALSE, TRUE, FALSE, FALSE, FALSE)}
Unresumed  == {Shape(TRUE, FALSE, FALSE, FALSE, FALSE),
               Shape(FALSE, FALSE, FALSE, FALSE, FALSE)}
Hosted     == {Shape(TRUE, TRUE, TRUE, FALSE, FALSE)}
Summarized == {Shape(TRUE, TRUE, FALSE, TRUE, FALSE)}
HostedSummary == {Shape(TRUE, TRUE, TRUE, TRUE, FALSE)}
Compacted  == {Shape(TRUE, TRUE, FALSE, FALSE, TRUE)}
Varied     == Summarized \cup Compacted \cup Hosted
Unlike     == Streams \cup {u \in Unresumed : u.streamed} \cup Hosted \cup Summarized

(* Two servers: a plain request is stopped, deferred and has one write     *)
(* fail; the others run to their end on servers that stay up, with items   *)
(* only to summarize, and without a stored request two writes may fail.    *)
SharedBounds ==
  /\ shape \notin Unresumed => faults' <= IF shape \in Streams THEN 1 ELSE 0
  /\ shape \notin Streams => stops' = 0 /\ deferrals' = 0
  /\ shape \in Unresumed \cup Hosted => \A s \in Servers : doc'[s].items = 0
=============================================================================
