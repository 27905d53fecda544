----------------------------- MODULE Scheduler -----------------------------
(***************************************************************************)
(* Continuous batching in the engine (local-engine bonsai_model:           *)
(* scheduler.rs, generation.rs, checkpoints/reuse.rs and boundary.rs):     *)
(* requests are admitted onto a buffer set, restore a cached prefix,       *)
(* prefill in chunks between the other requests' decode rounds, decode     *)
(* alone or in one batch, and leave their state to the prompt cache.       *)
(*                                                                         *)
(* The engine runs on one thread; a step is a few actions because tokens   *)
(* are cancelled, and disk writes committed, while it runs.  Sampled text  *)
(* is one token per request, so that a later prompt can extend it.         *)
(***************************************************************************)
EXTENDS EngineSets

CONSTANTS
  Offers,            \* Offers[k]: what the k-th request may ask, [prompt, limit]
  SetIds,            \* buffer sets the model may need
  MaxBatch,          \* MAX_BATCH_SEQUENCES
  ContextTokens,     \* info.context
  StateTokens,       \* sequence_state_tokens
  PrefillBlock, PrefillChunk, PrefillWhole, FoldRows,
  MinBoundary,       \* SHARED_PREFIX_MIN_TOKENS
  EosToken,          \* what ends the system turn
  MaxRound,          \* bound: rows a round commits for one sequence
  MaxIncidents       \* bound: failures, tripped tokens and captures

ASSUME SchedulerAssumption ==
  /\ SetIds \subseteq Nat \ {0} /\ MaxBatch \in Nat \ {0}
  /\ {PrefillBlock, PrefillChunk, FoldRows, MinBoundary, MaxRound} \subseteq Nat \ {0}
  /\ {ContextTokens, StateTokens, PrefillWhole, MaxIncidents} \subseteq Nat

VARIABLES
  eng,      \* the engine
  at,       \* where its thread is in a step
  asked,    \* requests made
  cancels,  \* generations whose token was tripped
  faulted,  \* the kinds of failure that happened
  captures

engineVars == <<eng, at, asked, cancels, faulted, captures>>

NoPlan == [reused |-> 0, done |-> 0, boundary |-> 0, ckpt |-> FALSE, reached |-> FALSE,
           persisted |-> FALSE, pinned |-> FALSE]
Idle   == [ph |-> "idle", running |-> 0, budget |-> 0, index |-> 0]

SchedulerInit ==
  /\ eng = [model |-> Min(SetIds), resident |-> 0, pool |-> <<>>,
            sets |-> [s \in SetIds |-> EmptySet], active |-> <<>>,
            cacheState |-> Min(SetIds), cached |-> <<>>, ckpts |-> <<>>, copies |-> {}]
  /\ at = Idle /\ asked = 0 /\ cancels = {} /\ faulted = {} /\ captures = 0

Incidents    == Cardinality(faulted) + Cardinality(cancels) + captures
Faulty(kind) == Incidents < MaxIncidents /\ faulted' = faulted \cup {kind}
Sound        == UNCHANGED faulted
Out(id)      == 10 + id
Sampled(id, n) == [k \in 1..n |-> Out(id)]
Prefilling(g) == ~g.done /\ g.prefill
Decoding(g)   == ~g.done /\ ~g.prefill
DecodingAt    == {i \in DOMAIN eng.active : Decoding(eng.active[i])}
Penultimate(g) == Len(g.prompt) - 1
Remaining(g)   == Len(g.prompt) - g.plan.done

(***************************************************************************)
(* reuse.rs: the tiers' candidates and the restore.                        *)
(***************************************************************************)
Lcp(s, t) == Max({n \in 0..Min({Len(s), Len(t)}) : UpTo(s, n) = UpTo(t, n)})

Checkpoints(e, prompt) ==
  IF e.cacheState # e.model THEN {}
  ELSE {k \in DOMAIN e.ckpts : /\ Len(e.ckpts[k].tokens) <= Min({Lcp(e.cached, prompt), Len(prompt) - 1})
                               /\ IsPrefix(e.ckpts[k].tokens, prompt)}
Copies(e, prompt, tier) ==
  {c \in e.copies : c.tier = tier /\ Len(c.tokens) < Len(prompt) /\ IsPrefix(c.tokens, prompt)}
Longest(copies) == CHOOSE c \in copies : \A d \in copies : Len(d.tokens) <= Len(c.tokens)
LengthIn(copies) == IF copies = {} THEN 0 ELSE Len(Longest(copies).tokens)

(* The longest checkpoint, the newest of equals.                           *)
BestCheckpoint(e, prompt) ==
  CHOOSE k \in Checkpoints(e, prompt) : \A m \in Checkpoints(e, prompt) :
    \/ Len(e.ckpts[m].tokens) < Len(e.ckpts[k].tokens)
    \/ Len(e.ckpts[m].tokens) = Len(e.ckpts[k].tokens) /\ m <= k
GpuLength(e, prompt) == IF Checkpoints(e, prompt) = {} THEN 0
                        ELSE Len(e.ckpts[BestCheckpoint(e, prompt)].tokens)
HostLength(e, prompt) == LengthIn(Copies(e, prompt, "host"))
DiskLength(e, prompt) == LengthIn(Copies(e, prompt, "disk"))
ReusablePrefix(e, prompt) ==
  Max({GpuLength(e, prompt), HostLength(e, prompt), DiskLength(e, prompt)})

Restored(e, n, load) == [e |-> e, reused |-> n, load |-> load]
Reset(e)             == [e EXCEPT !.sets[e.model].ctx = <<>>]

RestoreGpu(e, prompt, load) ==
  LET k == BestCheckpoint(e, prompt)
      c == e.ckpts[k]
  IN Restored([e EXCEPT !.sets[e.model].ctx = c.ctx,
                        !.ckpts = SubSeq(@, k + 1, Len(@)) \o UpTo(@, k)],
              Len(c.ctx), load)
RestoreCopy(e, c) ==
  Restored([e EXCEPT !.ckpts = <<>>, !.sets[e.model] = c.set], Len(c.tokens), <<>>)
GpuOrNothing(e, prompt, rowsKept, load) ==
  IF rowsKept /\ Checkpoints(e, prompt) # {} THEN RestoreGpu(e, prompt, load)
  ELSE Restored(Reset(e), 0, load)

(* The longest prefix of any tier, the cheaper tier on a tie; a disk       *)
(* snapshot not loaded yet is loaded aside, a checkpoint standing in.      *)
RestoreReusablePrefix(e, prompt, loaded, rowsKept) ==
  LET gpu  == IF rowsKept THEN GpuLength(e, prompt) ELSE 0
      host == HostLength(e, prompt)
      disk == DiskLength(e, prompt)
      best == Longest(Copies(e, prompt, "disk")).tokens
  IN IF host + disk = 0 \/ gpu >= Max({host, disk}) THEN GpuOrNothing(e, prompt, rowsKept, <<>>)
     ELSE IF host >= disk THEN RestoreCopy(e, Longest(Copies(e, prompt, "host")))
     ELSE IF loaded = best THEN RestoreCopy(e, Longest(Copies(e, prompt, "disk")))
     ELSE GpuOrNothing(e, prompt, rowsKept, best)

(* The best candidate is refused: it is evicted, after a snapshot the rows *)
(* are no longer trusted (a failed restore grew the caches, at worst), and *)
(* the tiers are asked again.                                              *)
RestoreRefused(e, prompt, loaded) ==
  LET gpu  == GpuLength(e, prompt)
      tier == IF HostLength(e, prompt) >= DiskLength(e, prompt) THEN "host" ELSE "disk"
      c    == Longest(Copies(e, prompt, tier))
      torn == [e EXCEPT !.copies = @ \ {c},
                 !.sets[e.model] = [ctx |-> <<>>, rows |-> UpTo(@.rows, Len(@.ctx))]]
  IN IF gpu > 0 /\ gpu >= LengthIn(Copies(e, prompt, tier))
     THEN RestoreReusablePrefix([e EXCEPT !.ckpts = Without(@, BestCheckpoint(e, prompt))],
                                prompt, loaded, TRUE)
     ELSE RestoreReusablePrefix(torn, prompt, <<>>, FALSE)
CanRefuse(e, prompt, loaded) ==
  \/ GpuLength(e, prompt) >= Max({1, HostLength(e, prompt), DiskLength(e, prompt)})
  \/ HostLength(e, prompt) >= Max({1, DiskLength(e, prompt)})
  \/ DiskLength(e, prompt) > 0 /\ loaded = Longest(Copies(e, prompt, "disk")).tokens

(* plan_prefill: a divergence from the cached prompt, else the end of the  *)
(* system turn.                                                            *)
PlanPrefill(prompt, lcp, reused) ==
  LET fits(n)  == n >= MinBoundary /\ n > reused /\ n <= Len(prompt) - 1
      eos      == {n \in DOMAIN prompt : prompt[n] = EosToken}
      boundary == IF fits(lcp) THEN lcp
                  ELSE IF eos # {} /\ fits(Min(eos)) THEN Min(eos) ELSE 0
      from     == IF boundary = 0 THEN reused ELSE boundary
  IN [NoPlan EXCEPT !.reused = reused, !.done = reused, !.boundary = boundary,
                    !.ckpt = from < Len(prompt) - 1]

(* begin_prompt, its restore going well or refusing its best candidate.    *)
BeginPrompt(e, prompt, loaded, refused) ==
  LET owed == PersistOwedCheckpoints(e, prompt)
      r    == IF refused THEN RestoreRefused(owed, prompt, loaded)
              ELSE RestoreReusablePrefix(owed, prompt, loaded, TRUE)
  IN [e |-> r.e, load |-> r.load, plan |-> PlanPrefill(prompt, Lcp(owed.cached, prompt), r.reused)]

(* Both ways a restore may go, and what it costs.                          *)
Refusal(e, prompt, loaded, refused) ==
  IF refused THEN CanRefuse(PersistOwedCheckpoints(e, prompt), prompt, loaded) /\ Faulty("restore")
  ELSE Sound

(***************************************************************************)
(* Admission: can_admit, then admit_constrained and begin_generation.      *)
(***************************************************************************)
Reserved(request) ==
  MapThenSumSet(LAMBDA i : Len(eng.active[i].prompt) + eng.active[i].limit, DOMAIN eng.active)
    + Len(request.prompt) + request.limit + Len(eng.active) * StateTokens
CanAdmit(request) ==
  \/ eng.active = <<>>
  \/ Len(eng.active) < MaxBatch /\ Reserved(request) <= ContextTokens

NewGeneration(id, request) ==
  [id |-> id, prompt |-> request.prompt, limit |-> request.limit, out |-> <<>>, pending |-> 0,
   seed |-> FALSE, state |-> NoSet, done |-> request.limit = 0, cancelled |-> FALSE,
   prefill |-> request.limit > 0, plan |-> NoPlan, load |-> <<>>]

AskFor(request) ==
  /\ at.ph = "idle" /\ asked < Len(Offers) /\ request \in Offers[asked + 1]
  /\ CanAdmit(request)
  /\ asked' = asked + 1 /\ UNCHANGED <<at, cancels, captures>>

(* Admit, or a failure in begin_generation after its restore.              *)
AdmitRequest ==
  \E request \in UNION Range(Offers), refused \in BOOLEAN :
    LET room  == ClaimGpuCache(MakeRoomFor(eng, asked + 1))
        begun == BeginPrompt(room, request.prompt, <<>>, refused)
        g     == NewGeneration(asked + 1, request)
    IN /\ AskFor(request)
       /\ IF request.limit = 0
          THEN ~refused /\ eng' = [room EXCEPT !.active = Append(@, g)] /\ Sound
          ELSE \/ /\ Refusal(room, request.prompt, <<>>, refused)
                  /\ eng' = [begun.e EXCEPT !.active =
                               Append(@, [g EXCEPT !.plan = begun.plan, !.load = begun.load])]
               \/ /\ ~refused /\ Faulty("begin")
                  /\ eng' = ClearGpuCache([begun.e EXCEPT !.resident = 0])

AdmitSwapFails ==
  \E request \in UNION Range(Offers) :
    AskFor(request) /\ NeedsSwap(eng) /\ Faulty("swap") /\ eng' = RoomFailed(eng)

(***************************************************************************)
(* A step: tripped tokens first, then the decode round.                    *)
(***************************************************************************)
MarkCancelled(g) == IF g.done THEN g
                    ELSE [g EXCEPT !.done = TRUE, !.cancelled = TRUE, !.pending = 0, !.seed = FALSE]

BeginStep ==
  LET marked == [i \in DOMAIN eng.active |->
                   IF eng.active[i].id \in cancels THEN MarkCancelled(eng.active[i]) ELSE eng.active[i]]
  IN /\ at.ph = "idle" /\ eng.active # <<>>
     /\ eng' = [eng EXCEPT !.active = marked]
     /\ at' = [Idle EXCEPT !.ph = "round",
                 !.running = Cardinality({i \in DOMAIN marked : Decoding(marked[i])})]
     /\ UNCHANGED <<asked, cancels, faulted, captures>>

ToPrefill == at' = [at EXCEPT !.ph = "prefill"]
ToDrain   == at' = [at EXCEPT !.ph = "drain", !.index = 1]
InRound(n) == at.ph = "round" /\ at.running = n /\ UNCHANGED <<asked, cancels, captures>>
Tripped(g) == g.id \in cancels

(* The failure no sequence owns: every generation goes.                    *)
Abandoned(e) ==
  LET gone == [e EXCEPT !.active = <<>>, !.resident = 0]
  IN ClearGpuCache(FoldLeft(LAMBDA x, g : IF g.state = NoSet THEN x ELSE Release(x, g.state),
                            gone, e.active))
AbandonStep(e) == eng' = Abandoned(e) /\ at' = Idle

NoRound == InRound(0) /\ ToPrefill /\ UNCHANGED <<eng, faulted>>

(* swap_remove and push.                                                   *)
MovedLast(e, i) ==
  [e EXCEPT !.active = [k \in DOMAIN @ |-> IF k = i THEN Last(@) ELSE IF k = Len(@) THEN @[i] ELSE @[k]]]

(* A sequence decodes its seed and commits the drafts accepted after it.   *)
Committed(e, i, n) ==
  LET g   == e.active[i]
      set == IF e.resident = g.id THEN e.model ELSE g.state
  IN [e EXCEPT !.sets[set] = Fed(@, Sampled(g.id, n)),
               !.active[i].pending = n, !.active[i].seed = FALSE]
RoundRows(g) == 1..Min({MaxRound, g.limit - Len(g.out)})

StepAlone ==
  LET i    == Min(DecodingAt)
      g    == eng.active[i]
      here == MovedLast(MakeResident(eng, i), i)
      last == Len(here.active)
  IN /\ InRound(1)
     /\ \/ /\ Tripped(g) /\ Sound /\ ToPrefill
           /\ \E started \in BOOLEAN :
                eng' = IF started THEN [here EXCEPT !.active[last] = MarkCancelled(@)]
                       ELSE [eng EXCEPT !.active[i] = MarkCancelled(@)]
        \/ /\ Sound /\ ToPrefill
           /\ \E n \in RoundRows(g) : eng' = Committed(here, last, n)
        \/ Faulty("solo") /\ ToPrefill /\ eng' = Discard(here, last)
        \/ /\ eng.resident # g.id /\ Faulty("round swap")
           /\ AbandonStep(ResidentFailed(eng, i))

(***************************************************************************)
(* step_batched: one pass over every decoding sequence and, inside it, the *)
(* next rows of a long prompt.                                             *)
(***************************************************************************)
(* next_prefill: the fewest tokens left, prompts still loading last;       *)
(* whether a load has ended is the loader's.                               *)
NextPrefill(i) ==
  LET waits == {k \in DOMAIN eng.active : Prefilling(eng.active[k])}
      Fewest(s) == {k \in s : \A m \in s : /\ Remaining(eng.active[k]) <= Remaining(eng.active[m])
                                           /\ Remaining(eng.active[k]) = Remaining(eng.active[m]) => k <= m}
  IN \E loading \in SUBSET {k \in waits : eng.active[k].load # <<>>} :
       i \in Fewest(IF waits \ loading = {} THEN waits ELSE waits \ loading)

PlainRun(g) ==
  LET p      == g.plan
      target == IF p.boundary > p.done THEN p.boundary
                ELSE IF p.done < Penultimate(g) THEN Penultimate(g) ELSE Len(g.prompt)
  IN IF (p.boundary # 0 /\ p.boundary = p.done) \/ (p.done = Penultimate(g) /\ ~p.reached) THEN 0
     ELSE Max({0, Min({target, Penultimate(g)}) - p.done})

FoldCandidate(i) ==
  LET g == eng.active[i]
  IN /\ NextPrefill(i) /\ Len(g.prompt) - g.plan.reused > PrefillWhole /\ ~Tripped(g)
     /\ g.plan.done # g.plan.reused /\ PlainRun(g) > 0
MayFold == {i \in DOMAIN eng.active : Prefilling(eng.active[i]) /\ FoldCandidate(i)}

FoldedRows(g) == SubSeq(g.prompt, g.plan.done + 1, g.plan.done + Min({FoldRows, PlainRun(g)}))
Folded(e, i) ==
  LET g   == e.active[i]
      set == IF e.resident = g.id THEN e.model ELSE g.state
  IN [e EXCEPT !.sets[set] = Fed(@, FoldedRows(g)),
               !.active[i].plan.done = @ + Len(FoldedRows(g))]

(* A pass that fails leaves what it wrote undefined.                       *)
Undefined(e, i) ==
  LET g == e.active[i]
  IN [e EXCEPT !.sets[IF e.resident = g.id THEN e.model ELSE g.state] = FedOne(@, Unknown)]
DiscardAll(e, ids) ==
  FoldLeft(LAMBDA x, id : Discard(x, IndexOf(x, id)), e, SetToSortSeq(ids, <))
IdsOf(indices) == {eng.active[i].id : i \in indices}

(* A sequence with a penalised sampler drafts as the resident one.         *)
Drafted(i) == IF i = 0 THEN eng ELSE MakeResident(eng, i)

StepBatched ==
  \E drafter \in DecodingAt \cup {0} :
    LET e == Drafted(drafter)
        folds == IF MayFold = {} THEN {0} ELSE MayFold
    IN /\ at.ph = "round" /\ at.running > 1 /\ UNCHANGED <<asked, cancels, captures>>
       /\ \/ \* the pass; one participant's reservation, drafts or selection may fail
             \E fold \in folds, rows \in [DecodingAt -> 1..MaxRound], failing \in DecodingAt \cup {0} :
               LET base   == IF fold = 0 THEN e ELSE Folded(e, fold)
                   passed == FoldLeft(LAMBDA x, i : Committed(x, i, rows[i]), base,
                                      SetToSortSeq(DecodingAt, <))
               IN /\ \A i \in DecodingAt : rows[i] \in RoundRows(eng.active[i])
                  /\ IF failing = 0 THEN eng' = passed /\ Sound
                     ELSE eng' = Discard(passed, failing) /\ Faulty("own")
                  /\ IF fold = 0 THEN ToPrefill ELSE ToDrain
          \/ \* the folded prompt's reservation fails
             \E fold \in MayFold :
               /\ eng' = Discard(FoldLeft(LAMBDA x, k : Committed(x, k, 1), e,
                                          SetToSortSeq(DecodingAt, <)), fold)
               /\ Faulty(IF e.resident = eng.active[fold].id THEN "own" ELSE "parked") /\ ToPrefill
          \/ \* the pass fails: all it wrote
             \E fold \in folds :
               LET written == DecodingAt \cup (IF fold = 0 THEN {} ELSE {fold})
               IN /\ eng' = DiscardAll(FoldLeft(Undefined, e, SetToSeq(written)), IdsOf(written))
                  /\ Faulty(IF fold = 0 \/ e.resident = eng.active[fold].id
                            THEN "pass" ELSE "parked")
                  /\ ToPrefill
          \/ /\ drafter # 0 /\ eng.resident # eng.active[drafter].id
             /\ Faulty("round swap") /\ AbandonStep(ResidentFailed(eng, drafter))

(***************************************************************************)
(* step_prefill: refresh_prefix, then prefill_round on the resident set.   *)
(***************************************************************************)
InPrefill == at.ph = "prefill" /\ UNCHANGED <<asked, cancels, captures>>
OthersDecode == DecodingAt # {}
Budget(g) == IF at.running = 0 THEN PrefillBlock
             ELSE IF Len(g.prompt) - g.plan.reused <= PrefillWhole THEN Remaining(g)
             ELSE PrefillChunk
ToAdvance(g) == at' = [at EXCEPT !.ph = "advance", !.budget = Budget(g)]

NoPrefill ==
  /\ InPrefill /\ ToDrain /\ UNCHANGED <<eng, faulted>>
  /\ \A i \in DOMAIN eng.active : ~Prefilling(eng.active[i])

(* Its snapshot still loads, or a longer one is still being written, while *)
(* others decode: it sits the step out, resident or not.                   *)
DeferPrefill ==
  \E i \in DOMAIN eng.active :
    LET g == eng.active[i]
    IN /\ InPrefill /\ Prefilling(g) /\ NextPrefill(i) /\ Sound /\ ToDrain
       /\ \/ g.load # <<>> /\ at.running > 0 /\ UNCHANGED eng
          \/ /\ g.plan.done = g.plan.reused /\ OthersDecode
             /\ \/ g.load # <<>>
                \/ \E c \in Copies(eng, g.prompt, "writing") :
                     Len(c.tokens) > Max({ReusablePrefix(MakeResident(eng, i), g.prompt), g.plan.reused})
             /\ eng' = MovedLast(MakeResident(eng, i), i)

(* restart_prompt, with a finished load, which may have failed, or because *)
(* a tier gained a longer prefix; else the plan stands.                    *)
StartPrefill ==
  \E i \in DOMAIN eng.active, refused \in BOOLEAN :
    LET g     == eng.active[i]
        here  == MovedLast(MakeResident(eng, i), i)
        last  == Len(here.active)
        fresh == g.plan.done = g.plan.reused
        begun == BeginPrompt(ClaimGpuCache(here), g.prompt, g.load, refused)
        again == g.load # <<>> \/ ReusablePrefix(here, g.prompt) > g.plan.reused
    IN /\ InPrefill /\ Prefilling(g) /\ NextPrefill(i)
       /\ IF fresh /\ again
          THEN /\ Refusal(ClaimGpuCache(here), g.prompt, g.load, refused)
               /\ eng' = [begun.e EXCEPT !.active[last].plan = begun.plan,
                                         !.active[last].load = begun.load]
               /\ IF begun.load = <<>> THEN ToAdvance(g) ELSE UNCHANGED at
          ELSE ~refused /\ Sound /\ eng' = here /\ ToAdvance(g)

PrefillSwapFails ==
  \E i \in DOMAIN eng.active :
    /\ InPrefill /\ Prefilling(eng.active[i]) /\ NextPrefill(i)
    /\ eng.resident # eng.active[i].id
    /\ Faulty("swap") /\ ToDrain
    /\ eng' = Discard(ResidentFailed(eng, i), i)

(* advance_prompt up to its next segment: the boundary, the penultimate    *)
(* token.                                                                  *)
ReachBoundary(e, i) ==
  LET tokens == UpTo(e.active[i].prompt, e.active[i].plan.done)
      saved  == SavePromptCheckpoint(ClaimGpuCache(e), tokens, TRUE)
      copied == IF HostTier \/ DiskTier
                THEN SaveSessionSnapshot(saved, tokens, SnapshotAt(saved, Held(saved).ctx), TRUE)
                ELSE saved
  IN [copied EXCEPT !.active[i].plan.boundary = 0,
                    !.active[i].plan.persisted = HostTier \/ DiskTier]

ReachPenultimate(e, i) ==
  LET p      == e.active[i].plan
      tokens == UpTo(e.active[i].prompt, p.done)
      saved  == IF ~p.ckpt THEN e
                ELSE SavePromptCheckpoint([ClaimGpuCache(e) EXCEPT !.cached = tokens], tokens, FALSE)
  IN [saved EXCEPT !.active[i].plan.reached = TRUE,
        !.active[i].plan.pinned = /\ tokens # <<>> /\ ~(p.persisted /\ ~p.ckpt)
                                  /\ HostTier \/ DiskTier]

FinishPrompt(e, i) ==
  LET prompt == e.active[i].prompt
      kept   == [ClaimGpuCache(e) EXCEPT !.cached = prompt,
                   !.ckpts = SelectSeq(@, LAMBDA c : IsPrefix(c.tokens, prompt))]
  IN IF e.active[i].plan.ckpt THEN kept ELSE SavePromptCheckpoint(kept, prompt, FALSE)

Milestones(e, i) ==
  LET p  == e.active[i].plan
      e1 == IF p.boundary # 0 /\ p.boundary = p.done THEN ReachBoundary(e, i) ELSE e
  IN IF p.done = Penultimate(e.active[i]) /\ ~p.reached THEN ReachPenultimate(e1, i) ELSE e1

(* One segment of advance_prompt for the resident generation, the last of  *)
(* active; the first sample at the end; a tripped token stops it between   *)
(* blocks.                                                                 *)
AdvancePrompt ==
  LET i    == Len(eng.active)
      e    == Milestones(eng, i)
      g    == e.active[i]
      p    == g.plan
      goal == IF p.boundary > p.done THEN p.boundary
              ELSE IF p.done < Penultimate(g) THEN Penultimate(g) ELSE Len(g.prompt)
      end  == Min({goal, p.done + at.budget})
      fed(n) == [FeedModel(e, SubSeq(g.prompt, p.done + 1, p.done + n))
                   EXCEPT !.active[i].plan.done = @ + n]
  IN /\ at.ph = "advance" /\ UNCHANGED <<asked, cancels, captures>>
     /\ \/ /\ p.done = Len(g.prompt) /\ Sound /\ ToDrain
           /\ eng' = [FinishPrompt(e, i) EXCEPT !.active[i].prefill = FALSE, !.active[i].pending = 1]
        \/ p.done < Len(g.prompt) /\ at.budget = 0 /\ Sound /\ ToDrain /\ eng' = e
        \/ /\ p.done < Len(g.prompt) /\ at.budget > 0 /\ Sound
           /\ eng' = fed(end - p.done)
           /\ at' = [at EXCEPT !.budget = @ - (end - p.done)]
        \/ /\ p.done < Len(g.prompt) /\ at.budget > 0 /\ Tripped(g) /\ Sound /\ ToDrain
           /\ \E n \in 0..(end - p.done - 1) :
                eng' = [fed(n) EXCEPT !.active[i] = [MarkCancelled(@) EXCEPT !.prefill = FALSE]]
        \/ Faulty("prefill") /\ ToDrain /\ eng' = Discard(e, i)

(***************************************************************************)
(* The end of a step: every pending sample is emitted, and what is done    *)
(* closes.                                                                 *)
(***************************************************************************)
InDrain == at.ph = "drain" /\ UNCHANGED <<asked, cancels, captures>>
Next1   == at' = [at EXCEPT !.index = @ + 1]

(* n tokens are emitted before an end of sequence, a refused piece or the  *)
(* limit ends it; or all of them, and the last seeds the next round.       *)
DrainGeneration ==
  LET i == at.index
      g == eng.active[i]
  IN /\ InDrain /\ i <= Len(eng.active) /\ Decoding(g) /\ g.pending > 0
     /\ \/ \E n \in 0..g.pending, ends \in BOOLEAN :
             LET out  == g.out \o Sampled(g.id, n)
                 over == ends \/ n < g.pending \/ Len(out) >= g.limit
             IN /\ (n = g.pending /\ ends) => n > 0
                /\ (n < g.pending) => ends
                /\ eng' = [eng EXCEPT !.active[i] = [g EXCEPT !.out = out, !.pending = 0,
                             !.seed = ~over, !.done = over]]
                /\ Sound /\ UNCHANGED at
        \/ Faulty("drain") /\ eng' = Discard(eng, i) /\ UNCHANGED at

SkipGeneration ==
  /\ InDrain /\ at.index <= Len(eng.active) /\ ~eng.active[at.index].done
  /\ Prefilling(eng.active[at.index]) \/ eng.active[at.index].seed
  /\ Next1 /\ UNCHANGED <<eng, faulted>>

(* finish_generation on the resident set, the generation no longer active. *)
FinishGeneration(e, g) ==
  LET all     == g.prompt \o g.out
      claimed == ClaimGpuCache(e)
      caught  == IF Position(claimed) + 1 = Len(all) /\ g.out # <<>>
                 THEN FeedModel(claimed, <<Last(g.out)>>) ELSE claimed
      tail    == Front(g.prompt)
      persist == ~g.plan.persisted \/ ~HoldsCheckpoint(caught, tail) \/ e.active # <<>>
      cached  == SavePromptCheckpoint([caught EXCEPT !.cached = all], all, FALSE)
      tailed  == IF g.plan.pinned /\ (HostTier \/ (persist /\ DiskTier))
                 THEN SaveSessionSnapshot(cached, tail, SnapshotAt(caught, tail), persist) ELSE cached
      owing   == IF ~persist /\ ~HostTier THEN OweToDisk(tailed, tail) ELSE tailed
  IN IF g.limit = 0 THEN e
     ELSE IF g.cancelled THEN KeepReachedPrompt(e, g.prompt)
     ELSE IF Position(caught) # Len(all) THEN KeepReachedPrompt(caught, g.prompt)
     ELSE SaveSessionSnapshot(owing, all, SnapshotAt(owing, all), FALSE)

CloseGeneration ==
  LET i    == at.index
      g    == eng.active[i]
      here == MakeResident(eng, i)
      done == FinishGeneration([here EXCEPT !.active = Without(@, i)], g)
  IN /\ InDrain /\ i <= Len(eng.active) /\ g.done /\ UNCHANGED at
     /\ \/ Sound /\ eng' = [done EXCEPT !.resident = IF @ = g.id THEN 0 ELSE @]
        \/ /\ eng.resident # g.id /\ Faulty("swap")
           /\ eng' = [ResidentFailed(eng, i) EXCEPT !.active = Without(@, i)]

EndStep == InDrain /\ at.index > Len(eng.active) /\ at' = Idle /\ UNCHANGED <<eng, faulted>>

(***************************************************************************)
(* Beside the engine: tokens tripped, disk writes committed or refused,    *)
(* snapshots evicted; and capture_hidden between requests.                 *)
(***************************************************************************)
TripToken ==
  \E i \in DOMAIN eng.active :
    /\ at.ph \in {"idle", "round", "advance"}   \* where a token is polled
    /\ Incidents < MaxIncidents /\ ~eng.active[i].done
    /\ cancels' = cancels \cup {eng.active[i].id}
    /\ UNCHANGED <<eng, at, asked, faulted, captures>>

EndWrite ==
  \E c \in eng.copies :
    /\ c.tier = "writing" /\ at.ph \in {"idle", "prefill"}   \* where writes are collected
    /\ eng' = [eng EXCEPT !.copies =
                 {d \in @ \ {c} : ~(d.tier = "disk" /\ d.tokens = c.tokens)} \cup {[c EXCEPT !.tier = "disk"]}]
    /\ UNCHANGED <<at, asked, cancels, faulted, captures>>

LoseCopy ==
  \E c \in eng.copies :
    /\ at.ph = "idle" /\ Faulty("lost")
    /\ eng' = [eng EXCEPT !.copies = @ \ {c}]
    /\ UNCHANGED <<at, asked, cancels, captures>>

CaptureHidden ==
  LET used == [ctx |-> <<Unknown>>, rows |-> <<<<Unknown>>>>]
      describes == eng.cacheState = eng.model /\ (eng.cached # <<>> \/ eng.ckpts # <<>>)
  IN /\ at.ph = "idle" /\ eng.active = <<>> /\ Incidents < MaxIncidents
     /\ captures' = captures + 1
     /\ eng' = [(IF ~describes THEN [eng EXCEPT !.sets[eng.model] = used]
                 ELSE IF eng.pool # <<>> THEN [eng EXCEPT !.sets[Last(eng.pool)] = used]
                 ELSE ClearGpuCache([eng EXCEPT !.sets[eng.model] = used])) EXCEPT !.resident = 0]
     /\ UNCHANGED <<at, asked, cancels, faulted>>

SchedulerNext ==
  \/ AdmitRequest \/ AdmitSwapFails \/ BeginStep \/ NoRound \/ StepAlone \/ StepBatched
  \/ NoPrefill \/ DeferPrefill \/ StartPrefill \/ PrefillSwapFails \/ AdvancePrompt
  \/ DrainGeneration \/ SkipGeneration \/ CloseGeneration \/ EndStep
  \/ TripToken \/ EndWrite \/ LoseCopy \/ CaptureHidden

SchedulerSpec == SchedulerInit /\ [][SchedulerNext]_engineVars

(***************************************************************************)
(* Properties.                                                             *)
(***************************************************************************)
(* What a running generation's set must hold between steps.                *)
Represents(g) == IF g.prefill THEN UpTo(g.prompt, g.plan.done) ELSE g.prompt \o Front(g.out)
SetOf(g)      == IF eng.resident = g.id THEN eng.model ELSE g.state

(* Between steps every running generation has a buffer set of its own, and *)
(* it holds exactly the prompt and output so far: the recurrent state, and *)
(* every K/V row its next round attends to, whichever cache tier, swap,    *)
(* batch or cancellation of another request came before.                   *)
SequencesHold ==
  at.ph = "idle" => \A i \in DOMAIN eng.active :
    LET g == eng.active[i]
    IN ~g.done =>
         /\ SetOf(g) # NoSet /\ Intact(eng.sets[SetOf(g)], Represents(g))
         /\ \A k \in DOMAIN eng.active : k # i => SetOf(eng.active[k]) # SetOf(g)

(* The two failures after which it does not: a parked prompt that is       *)
(* discarded keeps the tier over rows it overwrote, and a swap that fails  *)
(* half way leaves the resident generation without its set.                *)
Unowned == faulted \cap {"parked", "swap"} # {}
SequencesIntact == Unowned \/ SequencesHold

(* What the tiers offer can be restored: every host or disk copy is whole, *)
(* and with no generation active every checkpoint the tier may restore     *)
(* lies over rows of its own tokens.                                       *)
CacheSound ==
  \/ Unowned
  \/ /\ \A c \in eng.copies : Intact(c.set, c.tokens)
     /\ eng.active = <<>> => \A k \in DOMAIN eng.ckpts :
          LET c == eng.ckpts[k]
          IN IsPrefix(c.tokens, eng.cached) =>
               Intact([eng.sets[eng.cacheState] EXCEPT !.ctx = c.ctx], c.tokens)
=============================================================================
