------------------------------ MODULE Eviction ------------------------------
(***************************************************************************)
(* Which prompt-cache entry goes first (local-engine prompt_cache.rs): the *)
(* policy the disk tier applies to its byte budget and the GPU tier to its *)
(* number of checkpoints.  Entries are [tokens, boundary, bytes], oldest   *)
(* first.                                                                  *)
(***************************************************************************)
EXTENDS Naturals, Sequences, FiniteSets, SequencesExt, FiniteSetsExt

BarelyExtends(child, parent) ==
  /\ Len(parent) < Len(child)
  /\ Len(child) - Len(parent) < Len(parent)
  /\ IsPrefix(parent, child)

(* next_victim, among the entries at the positions alive (not empty).      *)
NextVictim(entries, alive) ==
  LET tails == {n \in alive : ~entries[n].boundary}
      near  == {n \in alive \ tails : \E m \in alive \ tails :
                  BarelyExtends(entries[n].tokens, entries[m].tokens)}
  IN IF tails # {} THEN Min(tails) ELSE IF near # {} THEN Max(near) ELSE Min(alive)

Bytes(entries, alive) == MapThenSumSet(LAMBDA n : entries[n].bytes, alive)

(* eviction_order as the set it leaves: evict until the budget holds,      *)
(* always keeping one.  Kept[n] is what is left after at most n evictions. *)
KeptAfter(entries, budget) ==
  LET Kept[n \in 0..Len(entries)] ==
        IF n = 0 THEN DOMAIN entries
        ELSE LET alive == Kept[n - 1]
             IN IF Bytes(entries, alive) > budget /\ Cardinality(alive) > 1
                THEN alive \ {NextVictim(entries, alive)}
                ELSE alive
  IN Kept[Len(entries)]

(* Vec::retain: the elements of s at the positions keep, in order.         *)
RetainOnly(s, keep) ==
  LET kept[k \in 0..Len(s)] ==
        IF k = 0 THEN <<>>
        ELSE IF k \in keep THEN Append(kept[k - 1], s[k]) ELSE kept[k - 1]
  IN kept[Len(s)]

(* DiskIndex::admits: the entry of the same tokens is replaced, and the    *)
(* new one must survive the trim after its own store.                      *)
Admits(entries, new, budget) ==
  LET others == RetainOnly(entries, {k \in DOMAIN entries : entries[k].tokens # new.tokens})
      all    == Append(others, new)
  IN Len(all) \in KeptAfter(all, budget)
=============================================================================
