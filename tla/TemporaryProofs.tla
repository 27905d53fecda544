-------------------------- MODULE TemporaryProofs --------------------------
(***************************************************************************)
(* Proofs about Temporary: the private store keeps nothing that the index  *)
(* has forgotten, and nothing is expired before it is over.                *)
(***************************************************************************)
EXTENDS Temporary, WellFoundedInduction, TLAPS

(* A set of naturals that is not empty has a least member. *)
LEMMA NatMin ==
  ASSUME NEW T \in SUBSET Nat, T # {}
  PROVE  \E t \in T : \A u \in T : t <= u
<1> DEFINE R == OpToRel(<, Nat)
           Q == {ss \in Nat \X Nat : ss[1] < ss[2]}
<1>1. IsWellFoundedOn(R, Nat)
  BY NatLessThanWellFounded
<1>2. R = Q
  BY Zenon DEF OpToRel
<1> HIDE DEF R
<1>3. PICK t \in T : \A u \in T : ~(<<u, t>> \in R)
  BY <1>1, WFMin
<1>4. ASSUME NEW u \in T PROVE t <= u
  <2>1. ~(<<u, t>> \in Q)
    BY <1>2, <1>3
  <2>2. ~(u < t)
    BY <2>1
  <2> QED BY <2>2
<1> QED BY <1>4

(* reap parks until some deadline. *)
LEMMA NearestType ==
  ASSUME TemporaryTypeOK
  PROVE  Nearest \in Int
<1> DEFINE ends == {index[i] : i \in {j \in Briefs : index[j] >= 0}}
<1>1. CASE ends = {}
  BY <1>1, TemporaryAssumption DEF Nearest, Forever
<1>2. CASE ends # {}
  <2>1. ends \subseteq Nat
    <3>1. \A i \in Briefs : index[i] \in Int
      BY DEF TemporaryTypeOK
    <3> QED BY <3>1
  <2>2. \E t \in ends : \A u \in ends : t <= u
    BY <1>2, <2>1, NatMin
  <2>3. Nearest = CHOOSE t \in ends : \A u \in ends : t <= u
    BY <1>2 DEF Nearest
  <2> HIDE DEF ends
  <2>4. Nearest \in ends
    BY <2>2, <2>3
  <2> QED BY <2>1, <2>4
<1> QED BY <1>1, <1>2

(***************************************************************************)
(* What every step leaves true: a job that is over stays over, and then    *)
(* its record and its deadline can only go.                                *)
(***************************************************************************)
Onward ==
  /\ \A i \in Briefs :
       /\ jobs[i] \in Over =>
            /\ jobs'[i] \in Over
            /\ index'[i] = index[i] \/ index'[i] = Absent
            /\ kept'[i] = kept[i] \/ kept'[i] = "none"
       /\ jobs[i] \notin {"new", "admitting"} => jobs'[i] \notin {"new", "admitting"}
  /\ left \subseteq left' /\ btime <= btime'

(* So what a request or the reaper has learnt of a response stays true. *)
LEMMA DueLasts ==
  ASSUME TemporaryTypeOK, TemporaryTypeOK', Onward, NEW i \in Briefs, DueIsOver(i)
  PROVE  DueIsOver(i)'
<1>1. index[i] \in Int /\ index'[i] \in Int /\ btime \in Nat /\ btime' \in Nat
  BY DEF TemporaryTypeOK
<1> QED BY <1>1 DEF Onward, DueIsOver, Over, Absent

LEMMA ForgetLasts ==
  ASSUME Onward, NEW i \in Briefs, ForgetIsOver(i)
  PROVE  ForgetIsOver(i)'
BY DEF Onward, ForgetIsOver, Over

LEMMA AskerLasts ==
  ASSUME TemporaryIInv, TemporaryTypeOK', Onward, NEW a \in Askers, askers'[a] = askers[a]
  PROVE  AskerKnows(a)'
<1> DEFINE i == askers[a].id
<1>1. askers'[a].id = i /\ askers'[a].at = askers[a].at
  OBVIOUS
<1>2. AskerKnows(a) /\ TemporaryTypeOK
  BY DEF TemporaryIInv
<1>3. askers[a].at = "rest" \/ i \in Briefs
  BY <1>2 DEF AskerKnows
<1>4. CASE i \in Briefs
  <2>1. DueIsOver(i) => DueIsOver(i)'
    BY <1>2, <1>4, DueLasts
  <2>2. ForgetIsOver(i) => ForgetIsOver(i)'
    BY <1>4, ForgetLasts
  <2> QED BY <1>1, <1>2, <1>4, <2>1, <2>2 DEF AskerKnows, Onward, DueIsOver,
     ForgetIsOver
<1>5. CASE askers[a].at = "rest"
  BY <1>5 DEF AskerKnows
<1> QED BY <1>3, <1>4, <1>5

LEMMA ReaperLasts ==
  ASSUME TemporaryIInv, TemporaryTypeOK', Onward,
         reaper'.due \subseteq reaper.due,
         reaper'.at = "forget" => reaper.at = "forget" /\ reaper'.id = reaper.id
  PROVE  ReaperKnows'
<1>1. TemporaryTypeOK /\ ReaperKnows /\ reaper.due \subseteq Briefs
  BY DEF TemporaryIInv, TemporaryTypeOK, Reaper
<1>2. \A i \in reaper'.due : DueIsOver(i)'
  BY <1>1, DueLasts DEF ReaperKnows
<1>3. reaper'.at = "forget" => reaper'.id \in Briefs /\ ForgetIsOver(reaper.id)'
  BY <1>1, ForgetLasts DEF ReaperKnows
<1> QED BY <1>2, <1>3 DEF ReaperKnows, ForgetIsOver

(* Only the job moves: requests and the reaper still know what they knew. *)
LEMMA JobMoves ==
  ASSUME TemporaryIInv, TemporaryTypeOK', Onward, IndexFollowsJob', KeptIsAnswered',
         UNCHANGED askers, reaper'.due \subseteq reaper.due,
         reaper'.at = "forget" => reaper.at = "forget" /\ reaper'.id = reaper.id
  PROVE  TemporaryIInv'
<1>1. \A a \in Askers : AskerKnows(a)'
  BY AskerLasts
<1> QED BY <1>1, ReaperLasts DEF TemporaryIInv

LEMMA AdmitTrackKeeps ==
  ASSUME TemporaryIInv, NEW i \in Briefs, AdmitTrack(i)
  PROVE  TemporaryIInv'
<1>0. TemporaryTypeOK /\ IndexFollowsJob /\ KeptIsAnswered
  BY DEF TemporaryIInv
<1>1. TemporaryTypeOK'
  BY <1>0 DEF AdmitTrack, TemporaryTypeOK, Running, Over, Absent, Open0
<1>2. Onward
  BY <1>0 DEF AdmitTrack, TemporaryTypeOK, Onward, Running, Over
<1>3. IndexFollowsJob'
  BY <1>0 DEF AdmitTrack, TemporaryTypeOK, IndexFollowsJob, Running, Over, Absent,
     Open0
<1>4. KeptIsAnswered'
  BY <1>0 DEF AdmitTrack, TemporaryTypeOK, IndexFollowsJob, KeptIsAnswered, Running,
     Absent, Open0
<1> QED BY <1>1, <1>2, <1>3, <1>4, JobMoves DEF AdmitTrack

LEMMA AdmitSaveKeeps ==
  ASSUME TemporaryIInv, NEW i \in Briefs, AdmitSave(i)
  PROVE  TemporaryIInv'
<1>0. TemporaryTypeOK /\ IndexFollowsJob /\ KeptIsAnswered
  BY DEF TemporaryIInv
<1>1. TemporaryTypeOK'
  BY <1>0 DEF AdmitSave, BriefFault, TemporaryTypeOK, Running, Over, Absent, Open0
<1>2. Onward
  BY <1>0 DEF AdmitSave, BriefFault, TemporaryTypeOK, Onward, Running, Over
<1>3. IndexFollowsJob'
  BY <1>0 DEF AdmitSave, BriefFault, TemporaryTypeOK, IndexFollowsJob, Running, Over,
     Absent, Open0
<1>4. KeptIsAnswered'
  BY <1>0 DEF AdmitSave, BriefFault, TemporaryTypeOK, IndexFollowsJob, KeptIsAnswered,
     Running, Absent, Open0
<1> QED BY <1>1, <1>2, <1>3, <1>4, JobMoves DEF AdmitSave, BriefFault

LEMMA SettleBriefKeeps ==
  ASSUME TemporaryIInv, NEW i \in Briefs, SettleBrief(i)
  PROVE  TemporaryIInv'
<1>0. TemporaryTypeOK /\ IndexFollowsJob /\ KeptIsAnswered
  BY DEF TemporaryIInv
<1>1. TemporaryTypeOK'
  BY <1>0 DEF SettleBrief, BriefFault, TemporaryTypeOK, Running, Over, Absent, Open0
<1>2. Onward
  BY <1>0 DEF SettleBrief, BriefFault, TemporaryTypeOK, Onward, Running, Over
<1>3. IndexFollowsJob'
  BY <1>0 DEF SettleBrief, BriefFault, TemporaryTypeOK, IndexFollowsJob, Running,
     Over, Absent, Open0
<1>4. KeptIsAnswered'
  BY <1>0 DEF SettleBrief, BriefFault, TemporaryTypeOK, IndexFollowsJob,
     KeptIsAnswered, Running, Absent, Open0
<1> QED BY <1>1, <1>2, <1>3, <1>4, JobMoves DEF SettleBrief, BriefFault

LEMMA PumpGoneKeeps ==
  ASSUME TemporaryIInv, NEW i \in Briefs, PumpGone(i)
  PROVE  TemporaryIInv'
<1>0. TemporaryTypeOK /\ IndexFollowsJob /\ KeptIsAnswered
  BY DEF TemporaryIInv
<1>1. TemporaryTypeOK'
  BY <1>0 DEF PumpGone, TemporaryTypeOK, Running, Over, Absent, Open0
<1>2. Onward
  BY <1>0 DEF PumpGone, TemporaryTypeOK, Onward, Running, Over
<1>3. IndexFollowsJob'
  BY <1>0 DEF PumpGone, TemporaryTypeOK, IndexFollowsJob, Running, Over, Absent, Open0
<1>4. KeptIsAnswered'
  BY <1>0 DEF PumpGone, TemporaryTypeOK, IndexFollowsJob, KeptIsAnswered, Running,
     Absent, Open0
<1> QED BY <1>1, <1>2, <1>3, <1>4, JobMoves DEF PumpGone

LEMMA RemoveDirKeeps ==
  ASSUME TemporaryIInv, RemoveDir
  PROVE  TemporaryIInv'
<1>0. TemporaryTypeOK /\ IndexFollowsJob /\ KeptIsAnswered
  BY DEF TemporaryIInv
<1>1. TemporaryTypeOK'
  BY <1>0 DEF RemoveDir, TemporaryTypeOK, Running, Over, Absent, Open0
<1>2. Onward
  BY <1>0 DEF RemoveDir, TemporaryTypeOK, Onward, Running, Over
<1>3. IndexFollowsJob'
  BY <1>0 DEF RemoveDir, TemporaryTypeOK, IndexFollowsJob, Running, Over, Absent,
     Open0
<1>4. KeptIsAnswered'
  BY <1>0 DEF RemoveDir, TemporaryTypeOK, IndexFollowsJob, KeptIsAnswered, Running,
     Absent, Open0
<1> QED BY <1>1, <1>2, <1>3, <1>4, JobMoves DEF RemoveDir

LEMMA BriefTickKeeps ==
  ASSUME TemporaryIInv, BriefTick
  PROVE  TemporaryIInv'
<1>0. TemporaryTypeOK /\ IndexFollowsJob /\ KeptIsAnswered
  BY DEF TemporaryIInv
<1>1. TemporaryTypeOK'
  BY <1>0 DEF BriefTick, TemporaryTypeOK, Running, Over, Absent, Open0
<1>2. Onward
  BY <1>0 DEF BriefTick, TemporaryTypeOK, Onward, Running, Over
<1>3. IndexFollowsJob'
  BY <1>0 DEF BriefTick, TemporaryTypeOK, IndexFollowsJob, Running, Over, Absent,
     Open0
<1>4. KeptIsAnswered'
  BY <1>0 DEF BriefTick, TemporaryTypeOK, IndexFollowsJob, KeptIsAnswered, Running,
     Absent, Open0
<1> QED BY <1>1, <1>2, <1>3, <1>4, JobMoves DEF BriefTick

(* The retention starts: the reaper, if it sleeps, is woken. *)
LEMMA RetainKeeps ==
  ASSUME TemporaryIInv, NEW i \in Briefs, Retain(i)
  PROVE  TemporaryIInv'
<1>0. TemporaryTypeOK /\ IndexFollowsJob /\ KeptIsAnswered
  BY DEF TemporaryIInv
<1>1. /\ reaper' \in Reaper /\ reaper'.due = reaper.due
      /\ reaper'.at = "forget" => reaper.at = "forget" /\ reaper'.id = reaper.id
  BY <1>0 DEF Retain, TemporaryTypeOK, Reaper
<1>2. TemporaryTypeOK'
  BY <1>0, <1>1, TemporaryAssumption DEF Retain, TemporaryTypeOK, Running, Over,
     Absent, Open0
<1>3. Onward
  BY <1>0 DEF Retain, TemporaryTypeOK, Onward, Running, Over
<1>4. IndexFollowsJob'
  BY <1>0 DEF Retain, TemporaryTypeOK, IndexFollowsJob, Running, Over, Absent, Open0
<1>5. KeptIsAnswered'
  <2>1. btime + BriefTtl # Absent
    BY <1>0, TemporaryAssumption DEF TemporaryTypeOK, Absent
  <2>2. \A k \in Briefs : index'[k] = Absent => index[k] = Absent
    BY <1>0, <2>1 DEF Retain, TemporaryTypeOK
  <2> QED BY <1>0, <2>2 DEF Retain, KeptIsAnswered, Absent
<1> QED BY <1>1, <1>2, <1>3, <1>4, <1>5, JobMoves DEF Retain

LEMMA CloseTemporaryKeeps ==
  ASSUME TemporaryIInv, CloseTemporary
  PROVE  TemporaryIInv'
<1>0. TemporaryTypeOK /\ IndexFollowsJob /\ KeptIsAnswered
  BY DEF TemporaryIInv
<1>1. /\ reaper' \in Reaper /\ reaper'.due = reaper.due
      /\ reaper'.at = "forget" => reaper.at = "forget" /\ reaper'.id = reaper.id
  BY <1>0 DEF CloseTemporary, TemporaryTypeOK, Reaper
<1>2. TemporaryTypeOK'
  BY <1>0, <1>1 DEF CloseTemporary, TemporaryTypeOK, Running, Over, Absent
<1>3. Onward
  BY <1>0 DEF CloseTemporary, TemporaryTypeOK, Onward, Running, Over
<1>4. IndexFollowsJob'
  BY <1>0 DEF CloseTemporary, TemporaryTypeOK, IndexFollowsJob, Running, Over, Absent
<1>5. KeptIsAnswered'
  BY DEF CloseTemporary, KeptIsAnswered
<1> QED BY <1>1, <1>2, <1>3, <1>4, <1>5, JobMoves DEF CloseTemporary

(***************************************************************************)
(* The requests.                                                           *)
(***************************************************************************)
(* The request a moves, and the responses only onward. *)
LEMMA AskerMoves ==
  ASSUME TemporaryIInv, TemporaryTypeOK', Onward, IndexFollowsJob', KeptIsAnswered',
         NEW a \in Askers, \A b \in Askers : b # a => askers'[b] = askers[b],
         AskerKnows(a)', UNCHANGED reaper
  PROVE  TemporaryIInv'
<1>1. \A b \in Askers : AskerKnows(b)'
  BY AskerLasts
<1> QED BY <1>1, ReaperLasts DEF TemporaryIInv

LEMMA LocateKeeps ==
  ASSUME TemporaryIInv, NEW a \in Askers, NEW i \in Briefs,
         NEW op \in {"get", "cancel", "delete"}, Locate(a, i, op)
  PROVE  TemporaryIInv'
<1>0. TemporaryTypeOK /\ IndexFollowsJob /\ KeptIsAnswered
  BY DEF TemporaryIInv
<1>1. /\ askers' \in [Askers -> Asker]
      /\ askers'[a].id = i /\ askers'[a].at = IF Expired(i) THEN "expire" ELSE "act"
      /\ \A b \in Askers : b # a => askers'[b] = askers[b]
  BY <1>0 DEF Locate, TemporaryTypeOK, Asker
<1>2. TemporaryTypeOK'
  BY <1>0, <1>1 DEF Locate, TemporaryTypeOK
<1>3. Onward /\ IndexFollowsJob' /\ KeptIsAnswered'
  BY <1>0 DEF Locate, TemporaryTypeOK, Onward, IndexFollowsJob, KeptIsAnswered
<1>4. Expired(i) => DueIsOver(i)'
  BY <1>0 DEF Locate, Expired, DueIsOver, IndexFollowsJob
<1>5. AskerKnows(a)'
  BY <1>1, <1>4 DEF Locate, AskerKnows, DueIsOver
<1> QED BY <1>1, <1>2, <1>3, <1>5, AskerMoves DEF Locate

(* Background::delete, of a response that was admitted. *)
LEMMA DeleteBriefEffect ==
  ASSUME TemporaryIInv, NEW i \in Briefs, jobs[i] \notin {"new", "admitting"},
         DeleteBrief(i), UNCHANGED <<index, btime, closed>>
  PROVE  /\ kept' \in [Briefs -> {"none", "pending", "ended"}]
         /\ jobs' \in [Briefs -> {"new"} \cup Running \cup Over]
         /\ left' \subseteq Briefs /\ bfaults' \in Nat
         /\ Onward /\ IndexFollowsJob' /\ KeptIsAnswered'
         /\ \/ kept'[i] = "none" /\ jobs'[i] \in Over
            \/ kept'[i] # "none" /\ i \in left' /\ jobs' = jobs
<1>0. TemporaryTypeOK /\ IndexFollowsJob /\ KeptIsAnswered
  BY DEF TemporaryIInv
<1>1. CASE /\ kept' = [kept EXCEPT ![i] = "none"]
           /\ jobs' = IF jobs[i] \in {"pending", "ended"}
                      THEN [jobs EXCEPT ![i] = "deleted"] ELSE jobs
           /\ UNCHANGED <<left, bfaults>>
  <2>1. jobs'[i] \in Over /\ jobs' \in [Briefs -> {"new"} \cup Running \cup Over]
    BY <1>0, <1>1 DEF TemporaryTypeOK, DeleteBrief, Running, Over
  <2>2. \A k \in Briefs : k # i => jobs'[k] = jobs[k] /\ kept'[k] = kept[k]
    BY <1>0, <1>1 DEF TemporaryTypeOK
  <2>3. kept' \in [Briefs -> {"none", "pending", "ended"}] /\ kept'[i] = "none"
    BY <1>0, <1>1 DEF TemporaryTypeOK
  <2>4. Onward
    BY <1>0, <1>1, <2>1, <2>2, <2>3 DEF TemporaryTypeOK, Onward, Over
  <2>5. IndexFollowsJob'
    BY <1>0, <2>1, <2>2, <2>3 DEF IndexFollowsJob, Running, Over, Open0
  <2>6. KeptIsAnswered'
    BY <1>0, <1>1, <2>2, <2>3 DEF KeptIsAnswered, Absent
  <2> QED BY <1>0, <1>1, <2>1, <2>3, <2>4, <2>5, <2>6 DEF TemporaryTypeOK
<1>2. CASE kept[i] # "none" /\ BriefFault /\ left' = left \cup {i} /\ UNCHANGED <<kept, jobs>>
  BY <1>0, <1>2 DEF TemporaryTypeOK, BriefFault, Onward, IndexFollowsJob,
     KeptIsAnswered,
                    Running, Over, Open0, Absent
<1> QED BY <1>1, <1>2 DEF DeleteBrief

LEMMA AskerExpiresKeeps ==
  ASSUME TemporaryIInv, NEW a \in Askers, AskerExpires(a)
  PROVE  TemporaryIInv'
<1> DEFINE i == askers[a].id
<1>0. TemporaryTypeOK /\ AskerKnows(a) /\ askers[a].at = "expire"
  BY DEF TemporaryIInv, AskerExpires
<1>1. i \in Briefs /\ DueIsOver(i) /\ jobs[i] \notin {"new", "admitting"}
  BY <1>0 DEF AskerKnows
<1>2. /\ askers' \in [Askers -> Asker] /\ askers'[a].id = i /\ askers'[a].at = "forget"
      /\ \A b \in Askers : b # a => askers'[b] = askers[b]
  BY <1>0 DEF AskerExpires, TemporaryTypeOK, Asker
<1>3. /\ kept' \in [Briefs -> {"none", "pending", "ended"}]
      /\ jobs' \in [Briefs -> {"new"} \cup Running \cup Over]
      /\ left' \subseteq Briefs /\ bfaults' \in Nat
      /\ Onward /\ IndexFollowsJob' /\ KeptIsAnswered'
      /\ \/ kept'[i] = "none" /\ jobs'[i] \in Over
         \/ kept'[i] # "none" /\ i \in left' /\ jobs' = jobs
  BY <1>1, DeleteBriefEffect DEF AskerExpires
<1>4. TemporaryTypeOK'
  BY <1>0, <1>2, <1>3 DEF AskerExpires, TemporaryTypeOK, Running, Over
<1>5. ForgetIsOver(i)'
  BY <1>1, <1>2, <1>3 DEF DueIsOver, ForgetIsOver, Over
<1>6. AskerKnows(a)'
  BY <1>1, <1>2, <1>5 DEF AskerKnows, ForgetIsOver, Over
<1> QED BY <1>2, <1>3, <1>4, <1>6, AskerMoves DEF AskerExpires

LEMMA AskerActsKeeps ==
  ASSUME TemporaryIInv, NEW a \in Askers, AskerActs(a)
  PROVE  TemporaryIInv'
<1>0. /\ TemporaryTypeOK /\ IndexFollowsJob /\ KeptIsAnswered /\ AskerKnows(a)
      /\ askers[a].at = "act"
  BY DEF TemporaryIInv, AskerActs
<1> PICK i \in Briefs : i = askers[a].id
  BY <1>0 DEF AskerKnows
<1>1. jobs[i] \notin {"new", "admitting"}
  BY <1>0 DEF AskerKnows
<1>2. CASE askers[a].op = "get" /\ askers' = [askers EXCEPT ![a] = AtRest]
             /\ UNCHANGED <<kept, jobs, left, bfaults>>
  <2>1. TemporaryTypeOK' /\ askers'[a].at = "rest"
    BY <1>0, <1>2 DEF AskerActs, TemporaryTypeOK, Asker, AtRest
  <2>2. Onward /\ IndexFollowsJob' /\ KeptIsAnswered'
    BY <1>0, <1>2 DEF AskerActs, TemporaryTypeOK, Onward, IndexFollowsJob,
       KeptIsAnswered
  <2>3. AskerKnows(a)' /\ \A b \in Askers : b # a => askers'[b] = askers[b]
    BY <1>0, <1>2, <2>1 DEF AskerKnows, TemporaryTypeOK
  <2> QED BY <2>1, <2>2, <2>3, AskerMoves DEF AskerActs
<1>3. CASE askers[a].op = "cancel" /\ jobs[i] # "settling"
  <2>1. /\ askers' \in [Askers -> Asker] /\ askers'[a].at = "rest"
        /\ \A b \in Askers : b # a => askers'[b] = askers[b]
    <3>1. askers' = [askers EXCEPT ![a] = AtRest]
      BY <1>3 DEF AskerActs
    <3>2. AtRest \in Asker /\ AtRest.at = "rest"
      BY DEF AtRest, Asker
    <3> QED BY <1>0, <3>1, <3>2 DEF TemporaryTypeOK
  <2>2. AskerKnows(a)'
    BY <2>1 DEF AskerKnows
  <2>3. CASE jobs[i] = "pending"
    <3>1. /\ jobs' = [jobs EXCEPT ![i] = "settling"] /\ UNCHANGED left
          /\ \/ kept' = [kept EXCEPT ![i] = "ended"] /\ bfaults' = bfaults
             \/ bfaults' = bfaults + 1 /\ kept' = [kept EXCEPT ![i] = "none"]
      BY <1>3, <2>3 DEF AskerActs, BriefFault
    <3>2. TemporaryTypeOK'
      BY <1>0, <2>1, <3>1 DEF AskerActs, TemporaryTypeOK, Running, Over
    <3>3. Onward
      BY <1>0, <2>3, <3>1 DEF AskerActs, TemporaryTypeOK, Onward, Over
    <3>4. IndexFollowsJob' /\ KeptIsAnswered'
      BY <1>0, <2>3, <3>1 DEF AskerActs, TemporaryTypeOK, IndexFollowsJob,
         KeptIsAnswered,
                              Running, Over, Open0, Absent
    <3> QED BY <2>1, <2>2, <3>2, <3>3, <3>4, AskerMoves DEF AskerActs
  <2>4. CASE jobs[i] # "pending"
    <3>1. UNCHANGED <<jobs, kept, bfaults, left>>
      BY <1>3, <2>4 DEF AskerActs
    <3>2. TemporaryTypeOK'
      BY <1>0, <2>1, <3>1 DEF AskerActs, TemporaryTypeOK
    <3>3. Onward /\ IndexFollowsJob' /\ KeptIsAnswered'
      BY <1>0, <3>1 DEF AskerActs, TemporaryTypeOK, Onward, IndexFollowsJob,
         KeptIsAnswered
    <3> QED BY <2>1, <2>2, <3>2, <3>3, AskerMoves DEF AskerActs
  <2> QED BY <2>3, <2>4
<1>4. CASE askers[a].op = "delete"
  <2>1. /\ kept' \in [Briefs -> {"none", "pending", "ended"}]
        /\ jobs' \in [Briefs -> {"new"} \cup Running \cup Over]
        /\ left' \subseteq Briefs /\ bfaults' \in Nat
        /\ Onward /\ IndexFollowsJob' /\ KeptIsAnswered'
        /\ \/ kept'[i] = "none" /\ jobs'[i] \in Over
           \/ kept'[i] # "none" /\ i \in left' /\ jobs' = jobs
    BY <1>1, <1>4, DeleteBriefEffect DEF AskerActs
  <2>2. /\ askers' \in [Askers -> Asker]
        /\ askers'[a].at = "rest" \/ (askers'[a].at = "forget" /\ askers'[a].id = i
                                      /\ kept'[i] = "none" /\ jobs'[i] \in Over)
        /\ \A b \in Askers : b # a => askers'[b] = askers[b]
    <3>1. PICK r \in Asker : r = askers[a]
      BY <1>0 DEF TemporaryTypeOK
    <3> DEFINE f == [r EXCEPT !.at = "forget"]
    <3>2. askers' = [askers EXCEPT ![a] = IF i \in left' /\ kept'[i] # "none"
                                          THEN AtRest ELSE f]
      BY <1>4, <3>1 DEF AskerActs
    <3>3. AtRest \in Asker /\ AtRest.at = "rest"
      BY DEF AtRest, Asker
    <3>4. f \in Asker /\ f.at = "forget" /\ f.id = r.id
      BY DEF Asker
    <3> HIDE DEF f
    <3> QED BY <1>0, <2>1, <3>1, <3>2, <3>3, <3>4 DEF TemporaryTypeOK
  <2>3. TemporaryTypeOK'
    BY <1>0, <2>1, <2>2 DEF AskerActs, TemporaryTypeOK, Running, Over
  <2>4. AskerKnows(a)'
    BY <2>2 DEF AskerKnows, ForgetIsOver, Over
  <2> QED BY <2>1, <2>2, <2>3, <2>4, AskerMoves DEF AskerActs
<1> QED BY <1>2, <1>3, <1>4 DEF AskerActs

LEMMA AskerForgetsKeeps ==
  ASSUME TemporaryIInv, NEW a \in Askers, AskerForgets(a)
  PROVE  TemporaryIInv'
<1>0. /\ TemporaryTypeOK /\ IndexFollowsJob /\ KeptIsAnswered /\ AskerKnows(a)
      /\ askers[a].at = "forget"
  BY DEF TemporaryIInv, AskerForgets
<1> PICK i \in Briefs : i = askers[a].id
  BY <1>0 DEF AskerKnows
<1>1. ForgetIsOver(i) /\ index' = [index EXCEPT ![i] = Absent]
  BY <1>0 DEF AskerKnows, AskerForgets, Forget
<1>2. /\ askers' \in [Askers -> Asker] /\ askers'[a].at = "rest"
      /\ \A b \in Askers : b # a => askers'[b] = askers[b]
  BY <1>0 DEF AskerForgets, TemporaryTypeOK, Asker, AtRest
<1>3. TemporaryTypeOK'
  BY <1>0, <1>1, <1>2 DEF AskerForgets, TemporaryTypeOK, Absent
<1>4. Onward
  BY <1>0, <1>1 DEF AskerForgets, TemporaryTypeOK, Onward
<1>5. IndexFollowsJob' /\ KeptIsAnswered'
  BY <1>0, <1>1 DEF AskerForgets, TemporaryTypeOK, IndexFollowsJob, KeptIsAnswered,
                    ForgetIsOver, Running, Over, Absent, Open0
<1>6. AskerKnows(a)'
  BY <1>2 DEF AskerKnows
<1> QED BY <1>2, <1>3, <1>4, <1>5, <1>6, AskerMoves DEF AskerForgets

(***************************************************************************)
(* The reaper.                                                             *)
(***************************************************************************)
LEMMA ReaperMoves ==
  ASSUME TemporaryIInv, TemporaryTypeOK', Onward, IndexFollowsJob', KeptIsAnswered',
         UNCHANGED askers, ReaperKnows'
  PROVE  TemporaryIInv'
<1>1. \A a \in Askers : AskerKnows(a)'
  BY AskerLasts
<1> QED BY <1>1 DEF TemporaryIInv

LEMMA ReaperLooksKeeps ==
  ASSUME TemporaryIInv, ReaperLooks \/ ReaperTimeout
  PROVE  TemporaryIInv'
<1>0. TemporaryTypeOK /\ IndexFollowsJob /\ KeptIsAnswered
  BY DEF TemporaryIInv
<1>1. Due \subseteq Briefs /\ \A i \in Due : DueIsOver(i)
  BY <1>0 DEF Due, Expired, DueIsOver, IndexFollowsJob
<1>2. Reaping \in Reaper /\ Reaping.due = {} /\ Reaping.at = "look"
  BY DEF Reaping, Reaper
<1>3. reaper' \in Reaper /\ reaper'.at # "forget" /\ reaper'.due \subseteq Due
  BY <1>0, <1>1, <1>2, NearestType DEF ReaperLooks, ReaperTimeout, Reaper
<1>4. TemporaryTypeOK'
  BY <1>0, <1>3 DEF ReaperLooks, ReaperTimeout, TemporaryTypeOK
<1>5. Onward /\ IndexFollowsJob' /\ KeptIsAnswered'
  BY <1>0 DEF ReaperLooks, ReaperTimeout, TemporaryTypeOK, Onward, IndexFollowsJob,
              KeptIsAnswered
<1>6. ReaperKnows'
  BY <1>1, <1>3 DEF ReaperLooks, ReaperTimeout, ReaperKnows, DueIsOver
<1> QED BY <1>4, <1>5, <1>6, ReaperMoves DEF ReaperLooks, ReaperTimeout

LEMMA ReaperDeletesKeeps ==
  ASSUME TemporaryIInv, ReaperDeletes
  PROVE  TemporaryIInv'
<1>0. TemporaryTypeOK /\ IndexFollowsJob /\ KeptIsAnswered /\ ReaperKnows
  BY DEF TemporaryIInv
<1>1. CASE reaper.due = {} /\ reaper' = Reaping /\ UNCHANGED <<kept, jobs, left, bfaults>>
  <2>1. Reaping \in Reaper /\ Reaping.due = {} /\ Reaping.at = "look"
    BY DEF Reaping, Reaper
  <2>2. TemporaryTypeOK'
    BY <1>0, <1>1, <2>1 DEF ReaperDeletes, TemporaryTypeOK
  <2>3. Onward /\ IndexFollowsJob' /\ KeptIsAnswered'
    BY <1>0, <1>1 DEF ReaperDeletes, TemporaryTypeOK, Onward, IndexFollowsJob,
                      KeptIsAnswered
  <2>4. ReaperKnows'
    BY <1>1, <2>1 DEF ReaperKnows
  <2> QED BY <2>2, <2>3, <2>4, ReaperMoves DEF ReaperDeletes
<1>2. ASSUME NEW i \in reaper.due, DeleteBrief(i),
             reaper' = [reaper EXCEPT !.at = "forget", !.id = i, !.due = @ \ {i}]
      PROVE  TemporaryIInv'
  <2>1. i \in Briefs /\ DueIsOver(i) /\ jobs[i] \notin {"new", "admitting"}
    BY <1>0, <1>2 DEF TemporaryTypeOK, Reaper, ReaperKnows, DueIsOver, Over
  <2>2. /\ kept' \in [Briefs -> {"none", "pending", "ended"}]
        /\ jobs' \in [Briefs -> {"new"} \cup Running \cup Over]
        /\ left' \subseteq Briefs /\ bfaults' \in Nat
        /\ Onward /\ IndexFollowsJob' /\ KeptIsAnswered'
        /\ \/ kept'[i] = "none" /\ jobs'[i] \in Over
           \/ kept'[i] # "none" /\ i \in left' /\ jobs' = jobs
    BY <1>2, <2>1, DeleteBriefEffect DEF ReaperDeletes
  <2>3. /\ reaper' \in Reaper /\ reaper'.due \subseteq reaper.due
        /\ reaper'.at = "forget" /\ reaper'.id = i
    BY <1>0, <1>2, <2>1 DEF TemporaryTypeOK, Reaper
  <2>4. TemporaryTypeOK'
    BY <1>0, <2>2, <2>3 DEF ReaperDeletes, TemporaryTypeOK, Running, Over
  <2>5. ForgetIsOver(i)'
    BY <2>1, <2>2 DEF DueIsOver, ForgetIsOver, Over
  <2>6. \A k \in reaper'.due : DueIsOver(k)'
    <3>1. \A k \in reaper'.due : k \in Briefs /\ DueIsOver(k)
      BY <1>0, <2>3 DEF ReaperKnows, TemporaryTypeOK, Reaper
    <3> QED BY <1>0, <2>2, <2>4, <3>1, DueLasts
  <2>7. ReaperKnows'
    BY <2>1, <2>3, <2>5, <2>6 DEF ReaperKnows, ForgetIsOver
  <2> QED BY <2>2, <2>4, <2>7, ReaperMoves DEF ReaperDeletes
<1> QED BY <1>1, <1>2 DEF ReaperDeletes

LEMMA ReaperForgetsKeeps ==
  ASSUME TemporaryIInv, ReaperForgets
  PROVE  TemporaryIInv'
<1>0. TemporaryTypeOK /\ IndexFollowsJob /\ KeptIsAnswered /\ ReaperKnows
  BY DEF TemporaryIInv
<1> PICK i \in Briefs : i = reaper.id /\ ForgetIsOver(i)
  BY <1>0 DEF ReaperForgets, ReaperKnows
<1>1. index' = [index EXCEPT ![i] = Absent]
  BY DEF ReaperForgets, Forget
<1>2. reaper' \in Reaper /\ reaper'.at = "work" /\ reaper'.due = reaper.due
  BY <1>0 DEF ReaperForgets, TemporaryTypeOK, Reaper
<1>3. TemporaryTypeOK'
  BY <1>0, <1>1, <1>2 DEF ReaperForgets, TemporaryTypeOK, Absent
<1>4. Onward
  BY <1>0, <1>1 DEF ReaperForgets, TemporaryTypeOK, Onward
<1>5. IndexFollowsJob' /\ KeptIsAnswered'
  BY <1>0, <1>1 DEF ReaperForgets, TemporaryTypeOK, IndexFollowsJob, KeptIsAnswered,
                    ForgetIsOver, Running, Over, Absent, Open0
<1>6. ReaperKnows'
  BY <1>2, <1>3, <1>4, ReaperLasts
<1> QED BY <1>3, <1>4, <1>5, <1>6, ReaperMoves DEF ReaperForgets

(***************************************************************************)
(* The theorems.                                                           *)
(***************************************************************************)
LEMMA TemporaryInitially == TemporaryInit => TemporaryIInv
<1> SUFFICES ASSUME TemporaryInit PROVE TemporaryIInv
  OBVIOUS
<1>1. TemporaryTypeOK
  <2>1. AtRest \in Asker /\ Reaping \in Reaper
    BY DEF AtRest, Asker, Reaping, Reaper
  <2>2. index \in [Briefs -> Int]
    BY DEF TemporaryInit, Absent
  <2> QED BY <2>1, <2>2 DEF TemporaryInit, TemporaryTypeOK
<1>2. IndexFollowsJob /\ KeptIsAnswered
  BY DEF TemporaryInit, IndexFollowsJob, KeptIsAnswered, Running, Absent
<1>3. ReaperKnows /\ \A a \in Askers : AskerKnows(a)
  BY DEF TemporaryInit, ReaperKnows, AskerKnows, AtRest, Reaping
<1> QED BY <1>1, <1>2, <1>3 DEF TemporaryIInv

LEMMA TemporaryStep == TemporaryIInv /\ [TemporaryNext]_briefVars => TemporaryIInv'
<1> SUFFICES ASSUME TemporaryIInv, [TemporaryNext]_briefVars PROVE TemporaryIInv'
  OBVIOUS
<1>1. CASE UNCHANGED briefVars
  BY <1>1 DEF briefVars, TemporaryIInv, TemporaryTypeOK, IndexFollowsJob,
     KeptIsAnswered,
              ReaperKnows, AskerKnows, DueIsOver, ForgetIsOver
<1>2. ASSUME NEW i \in Briefs, AdmitTrack(i) \/ AdmitSave(i) \/ SettleBrief(i)
                               \/ Retain(i) \/ PumpGone(i)
      PROVE  TemporaryIInv'
  BY <1>2, AdmitTrackKeeps, AdmitSaveKeeps, SettleBriefKeeps, RetainKeeps, PumpGoneKeeps
<1>3. ASSUME NEW a \in Askers, NEW i \in Briefs,
             NEW op \in {"get", "cancel", "delete"}, Locate(a, i, op)
      PROVE  TemporaryIInv'
  BY <1>3, LocateKeeps
<1>4. ASSUME NEW a \in Askers, AskerExpires(a) \/ AskerActs(a) \/ AskerForgets(a)
      PROVE  TemporaryIInv'
  BY <1>4, AskerExpiresKeeps, AskerActsKeeps, AskerForgetsKeeps
<1>5. CASE ReaperStep
  BY <1>5, ReaperLooksKeeps, ReaperDeletesKeeps, ReaperForgetsKeeps DEF ReaperStep
<1>6. CASE CloseTemporary \/ RemoveDir \/ BriefTick
  BY <1>6, CloseTemporaryKeeps, RemoveDirKeeps, BriefTickKeeps
<1> QED BY <1>1, <1>2, <1>3, <1>4, <1>5, <1>6 DEF TemporaryNext

(* Expiry by a request, expiry by the reaper, DELETE, cancellation and     *)
(* settlement, in any order and with any number of failed deletions: what  *)
(* a request or the reaper knows of a response stays true until it acts.   *)
THEOREM TemporaryInvariant == TemporarySpec => []TemporaryIInv
<1> QED BY TemporaryInitially, TemporaryStep, PTL DEF TemporarySpec

(* Whatever the private store keeps is answered for, and nothing is        *)
(* expired before its job is over and its retention has passed.            *)
THEOREM ExpiryIsSafe == TemporarySpec => []TemporaryInv
<1>1. TemporaryIInv => ExpiryIsLate
  <2> SUFFICES ASSUME TemporaryIInv PROVE ExpiryIsLate
    OBVIOUS
  <2>1. \A i \in reaper.due : DueIsOver(i)
    BY DEF TemporaryIInv, ReaperKnows
  <2>2. \A a \in Askers : askers[a].at = "expire" => DueIsOver(askers[a].id)
    BY DEF TemporaryIInv, AskerKnows
  <2>3. \A i \in reaper.due \cup {askers[a].id : a \in {b \in Askers : askers[b].at = "expire"}} :
          DueIsOver(i)
    BY <2>1, <2>2
  <2> QED BY <2>3 DEF ExpiryIsLate, DueIsOver, Over
<1>2. TemporaryIInv => TemporaryInv
  BY <1>1 DEF TemporaryIInv, TemporaryInv
<1> QED BY <1>2, TemporaryInvariant, PTL
============================================================================
