----------------------------- MODULE EngineSets -----------------------------
(***************************************************************************)
(* The engine's sequence buffer sets and GPU prompt-cache tier             *)
(* (local-engine bonsai_model/scheduler.rs and checkpoints.rs): who owns   *)
(* which set, which is resident in the model, and which one the tier's     *)
(* checkpoints describe.                                                   *)
(*                                                                         *)
(* A set is [ctx, rows]: the tokens its recurrent state stands for, and    *)
(* for each K/V row the prefix it was computed under.  A checkpoint copies *)
(* ctx only: its rows are the live ones of the set.                        *)
(*                                                                         *)
(* Every operator takes the engine e and returns the engine after it.      *)
(***************************************************************************)
EXTENDS Eviction

CONSTANTS
  PooledSequences,   \* POOLED_SEQUENCES
  MaxCheckpoints,    \* max_prompt_checkpoints
  HostTier, DiskTier \* whether host and disk snapshots are kept

ASSUME TiersAssumption ==
  /\ PooledSequences \in Nat \ {0} /\ MaxCheckpoints \in Nat \ {0}
  /\ HostTier \in BOOLEAN /\ DiskTier \in BOOLEAN

Unknown  == 0          \* a token no request has: undefined contents
NoSet    == 0
EmptySet == [ctx |-> <<>>, rows |-> <<>>]
Without(s, i) == RemoveAt(s, i)
UpTo(s, n)    == SubSeq(s, 1, n)
Held(e)       == e.sets[e.model]
Position(e)   == Len(Held(e).ctx)
Owned(e)      == \E i \in DOMAIN e.active : e.active[i].id = e.resident
IndexOf(e, id) == CHOOSE i \in DOMAIN e.active : e.active[i].id = id

(* One more token: the state moves on and its row is written.  A cache     *)
(* that grows keeps the rows up to the position only (reserve_kv), so      *)
(* older rows past it are gone at worst.                                   *)
FedOne(set, token) ==
  LET ctx == Append(set.ctx, token)
  IN [ctx |-> ctx, rows |-> Append(UpTo(set.rows, Len(set.ctx)), ctx)]
Fed(set, tokens)    == FoldLeft(FedOne, set, tokens)
FeedModel(e, tokens) == [e EXCEPT !.sets[e.model] = Fed(@, tokens)]

(* Every row the next token attends to was computed under the same tokens. *)
Intact(set, tokens) ==
  /\ set.ctx = tokens
  /\ Len(set.rows) >= Len(tokens)
  /\ \A k \in DOMAIN tokens : set.rows[k] = UpTo(tokens, k)

(***************************************************************************)
(* Sets: release, park_outgoing, make_resident, make_room_for.             *)
(***************************************************************************)
Release(e, set) ==
  LET pool   == Append(e.pool, set)
      others == {i \in DOMAIN pool : pool[i] # e.cacheState}
      victim == IF others = {} THEN 1 ELSE Min(others)
  IN IF Len(pool) <= PooledSequences THEN [e EXCEPT !.pool = pool]
     ELSE [e EXCEPT !.pool = Without(pool, victim), !.sets[pool[victim]] = EmptySet]

(* Mutant of SwapIn: the outgoing set is released whoever held it. *)
SwapInUnparked(e, set) == Release([e EXCEPT !.model = set], e.model)

(* The set in the model is exchanged for set; who held it keeps it parked. *)
SwapIn(e, set) ==
  LET out == e.model
      in  == [e EXCEPT !.model = set]
  IN IF Owned(e) THEN [in EXCEPT !.active[IndexOf(e, e.resident)].state = out]
     ELSE Release(in, out)

MakeResident(e, i) ==
  IF e.resident = e.active[i].id THEN e
  ELSE [SwapIn([e EXCEPT !.active[i].state = NoSet], e.active[i].state)
          EXCEPT !.resident = e.active[i].id]

(* swap_sequence that fails after the exchange: the outgoing set, now in   *)
(* the caller's slot, is dropped with it, and resident still names its     *)
(* owner.                                                                  *)
SwapFailed(e, set) == [e EXCEPT !.model = set, !.sets[e.model] = EmptySet]
ResidentFailed(e, i) ==
  SwapFailed([e EXCEPT !.active[i].state = NoSet], e.active[i].state)

(* new_sequence: a set with an id of its own.                              *)
FreshSet(e) ==
  LET used == {e.model, e.cacheState} \cup Range(e.pool)
                \cup {e.active[i].state : i \in DOMAIN e.active}
  IN Min(DOMAIN e.sets \ used)

RoomSet(e) ==
  IF e.cacheState \in Range(e.pool) THEN e.cacheState
  ELSE IF e.pool # <<>> THEN Last(e.pool) ELSE FreshSet(e)
Unpooled(e, set) == [e EXCEPT !.pool = SelectSeq(@, LAMBDA s : s # set)]

NeedsSwap(e) == Owned(e) \/ (e.cacheState # e.model /\ e.cacheState \in Range(e.pool))
MakeRoomFor(e, id) ==
  [(IF NeedsSwap(e) THEN SwapIn(Unpooled(e, RoomSet(e)), RoomSet(e)) ELSE e)
     EXCEPT !.resident = id]
RoomFailed(e) == SwapFailed(Unpooled(e, RoomSet(e)), RoomSet(e))

(***************************************************************************)
(* The GPU tier: claim, clear, save, keep_reached_prompt.                  *)
(***************************************************************************)
ClearGpuCache(e) == [e EXCEPT !.cached = <<>>, !.ckpts = <<>>]
ClaimGpuCache(e) == IF e.cacheState = e.model THEN e
                    ELSE [ClearGpuCache(e) EXCEPT !.cacheState = e.model]

Discard(e, i) ==
  LET g    == e.active[i]
      rest == [e EXCEPT !.active = Without(@, i)]
  IN IF e.resident = g.id THEN ClearGpuCache([rest EXCEPT !.resident = 0])
     ELSE IF g.state # NoSet THEN Release(rest, g.state) ELSE rest

(* The two newest are never the victim.                                    *)
SavePromptCheckpoint(e, tokens, boundary) ==
  LET others == SelectSeq(e.ckpts, LAMBDA c : c.tokens # tokens)
      all    == Append(others, [tokens |-> tokens, ctx |-> Held(e).ctx,
                                boundary |-> boundary, owed |-> FALSE])
      kept   == IF MaxCheckpoints < 2 THEN 1 ELSE 2
  IN IF Position(e) # Len(tokens) THEN e
     ELSE IF Len(all) <= MaxCheckpoints THEN [e EXCEPT !.ckpts = all]
     ELSE [e EXCEPT !.ckpts = Without(all, NextVictim(all, 1..(Len(all) - kept)))]

HoldsCheckpoint(e, tokens) == \E k \in DOMAIN e.ckpts : e.ckpts[k].tokens = tokens

(* Mutant of KeepReachedPrompt: the tier keeps describing the prompt before. *)
KeepReachedPromptNot(e, prompt) == e

KeepReachedPrompt(e, prompt) ==
  LET reached == UpTo(prompt, Min({Position(e), Len(prompt)}))
  IN IF e.cacheState # e.model THEN e
     ELSE [e EXCEPT !.cached = reached,
                    !.ckpts = SelectSeq(@, LAMBDA c : IsPrefix(c.tokens, reached))]

(***************************************************************************)
(* Snapshots, copies of state and rows: save_session_snapshot, the readback *)
(* at a checkpoint, owe_to_disk and persist_owed_checkpoints.              *)
(***************************************************************************)
(* prompt_snapshot_at: only of a checkpoint behind the set's position.     *)
Readable(e, ctx)   == Len(ctx) <= Position(e)
SnapshotAt(e, ctx) == [ctx |-> ctx, rows |-> UpTo(Held(e).rows, Len(ctx))]

SaveSessionSnapshot(e, tokens, snapshot, persist) ==
  LET copy(tier) == [tier |-> tier, tokens |-> tokens, set |-> snapshot]
      host == IF HostTier THEN {copy("host")} ELSE {}
      disk == IF DiskTier /\ persist THEN {copy("writing")} ELSE {}
  IN IF host \cup disk = {} THEN e
     ELSE [e EXCEPT !.copies =
             {c \in @ : ~(c.tokens = tokens /\ c.tier = "host")} \cup host \cup disk]

OweToDisk(e, tokens) ==
  [e EXCEPT !.ckpts = [k \in DOMAIN @ |->
     IF @[k].tokens = tokens /\ ~@[k].boundary THEN [@[k] EXCEPT !.owed = TRUE] ELSE @[k]]]

(* Only on the set the tier describes: owed checkpoints that prompt does   *)
(* not extend are written and go; no other owes anything more.             *)
PersistOwedCheckpoints(e, prompt) ==
  LET goes(c) == c.owed /\ ~IsPrefix(c.tokens, prompt)
      kept    == SelectSeq(e.ckpts, LAMBDA c : ~goes(c))
      owed    == SelectSeq(e.ckpts, LAMBDA c : goes(c) /\ Readable(e, c.ctx))
      save(x, c) == IF DiskTier
                    THEN SaveSessionSnapshot(x, c.tokens, SnapshotAt(x, c.ctx), TRUE) ELSE x
  IN IF e.cacheState # e.model THEN e
     ELSE FoldLeft(save, [e EXCEPT !.ckpts = [k \in DOMAIN kept |->
                                                [kept[k] EXCEPT !.owed = FALSE]]], owed)
=============================================================================
