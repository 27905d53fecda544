---------------------------- MODULE BlobsProofs ----------------------------
(***************************************************************************)
(* Proofs about Blobs: no collection takes a blob that a record names or   *)
(* is about to name, and a whole one leaves nothing over.  One lemma for   *)
(* each branch of an action, then the actions, then the theorems.          *)
(***************************************************************************)
EXTENDS Blobs, TLAPS

(* The process p goes on with the job j, and no other moves. *)
Placed(p, j) ==
  /\ procs' \in [BlobProcs -> BlobJob]
  /\ procs'[p] = j
  /\ \A q \in BlobProcs : q # p => procs'[q] = procs[q]

CountersTyped == blobFaults \in Nat /\ blobCrashes \in Nat /\ saves \in Nat

LEMMA GoPlaces ==
  ASSUME BlobsTypeOK, NEW p \in BlobProcs, NEW j \in BlobJob, Go(p, j)
  PROVE  Placed(p, j)
BY DEF BlobsTypeOK, Go, Placed

LEMMA PlaceNames ==
  {"rest", "blob", "rename", "collect", "list", "links", "blobs", "resolve"} = Places
BY DEF Places, Collecting

LEMMA RestingType ==
  /\ Resting \in BlobJob
  /\ Resting.at = "rest" /\ Resting.want = {} /\ Resting.todo = {}
  /\ ~Resting.shared /\ Resting.kept = {} /\ Resting.id = ""
BY DEF Resting, BlobJob, Places

(* A process returns, by an error, a crash or its last step: its locks drop. *)
LEMMA ReturnKeeps ==
  ASSUME BlobsIInv, NEW p \in BlobProcs,
         Go(p, Resting),
         UNCHANGED <<named, blobs, links, corrupt>>,
         swept' \in BOOLEAN,
         swept' => /\ swept /\ ~procs[p].shared /\ procs[p].at # "links"
                   /\ procs[p].at = "blobs" => procs[p].todo = {},
         CountersTyped'
  PROVE  BlobsIInv'
<1> USE DEF BlobsIInv
<1> DEFINE j == Resting
<1>1. /\ j \in BlobJob
      /\ j.at = "rest" /\ j.todo = {} /\ j.want = {}
      /\ j.kept = {} /\ ~j.shared
  BY RestingType, PlaceNames DEF BlobsTypeOK, BlobJob, BlobLinks
<1>2. Go(p, j)
  OBVIOUS
<1> HIDE DEF j
<1>3. Placed(p, j)
  BY <1>1, <1>2, GoPlaces
<1>4. BlobsTypeOK'
  BY <1>1, <1>3 DEF BlobsTypeOK, CountersTyped, Placed
<1>5. LocksHeld'
  BY <1>1, <1>3 DEF LocksHeld, Placed, Collecting
<1>6. SavesLinked'
  BY <1>1, <1>3 DEF SavesLinked, LocksHeld, Placed, Collecting
<1>7. NamesLinked'
  BY <1>1, <1>3 DEF NamesLinked, SavesLinked, Placed, Collecting
<1>8. CollectsGarbage'
  BY <1>1, <1>3 DEF CollectsGarbage, LocksHeld, NamesLinked, Placed, Collecting
<1>9. LeftoversOwned'
  BY <1>1, <1>3 DEF LeftoversOwned, LocksHeld, Placed, Collecting
<1>10. ~corrupt'
  OBVIOUS
<1> QED BY <1>4, <1>5, <1>6, <1>7, <1>8, <1>9, <1>10

(* A save of a record without blobs takes no lock. *)
LEMMA BeginPlainKeeps ==
  ASSUME BlobsIInv, NEW p \in BlobProcs,
         NEW id \in Records,
         named[id].state # "deleted",
         procs[p].at = "rest",
         Go(p, [Resting EXCEPT !.at = "rename", !.id = id]),
         UNCHANGED <<named, blobs, links, corrupt>>,
         swept' = swept,
         CountersTyped'
  PROVE  BlobsIInv'
<1> USE DEF BlobsIInv
<1> DEFINE j == [Resting EXCEPT !.at = "rename", !.id = id]
<1>1. /\ j \in BlobJob
      /\ j.at = "rename" /\ j.id = id /\ j.todo = {}
      /\ j.want = {} /\ j.kept = {} /\ ~j.shared
  BY RestingType, PlaceNames DEF BlobsTypeOK, BlobJob, BlobLinks
<1>2. Go(p, j)
  OBVIOUS
<1> HIDE DEF j
<1>3. Placed(p, j)
  BY <1>1, <1>2, GoPlaces
<1>4. BlobsTypeOK'
  BY <1>1, <1>3 DEF BlobsTypeOK, CountersTyped, Placed
<1>5. LocksHeld'
  BY <1>1, <1>3 DEF LocksHeld, Placed, Collecting
<1>6. SavesLinked'
  BY <1>1, <1>3 DEF SavesLinked, LocksHeld, Placed, Collecting
<1>7. NamesLinked'
  BY <1>1, <1>3 DEF NamesLinked, SavesLinked, Placed, Collecting
<1>8. CollectsGarbage'
  BY <1>1, <1>3 DEF CollectsGarbage, LocksHeld, NamesLinked, Placed, Collecting
<1>9. LeftoversOwned'
  BY <1>1, <1>3 DEF LeftoversOwned, LocksHeld, Placed, Collecting
<1>10. ~corrupt'
  OBVIOUS
<1> QED BY <1>4, <1>5, <1>6, <1>7, <1>8, <1>9, <1>10

(* A save with blobs starts under the shared lock. *)
LEMMA BeginLockedKeeps ==
  ASSUME BlobsIInv, NEW p \in BlobProcs,
         NEW id \in Records,
         NEW want \in SUBSET Digests,
         named[id].state # "deleted",
         procs[p].at = "rest",
         ~Exclusive,
         Go(p, [Resting EXCEPT !.at = "blob", !.id = id, !.want = want,
                               !.todo = want, !.shared = TRUE]),
         UNCHANGED <<named, blobs, links, corrupt>>,
         swept' = swept,
         CountersTyped'
  PROVE  BlobsIInv'
<1> USE DEF BlobsIInv
<1> DEFINE j == [Resting EXCEPT !.at = "blob", !.id = id, !.want = want,
                            !.todo = want, !.shared = TRUE]
<1>1. /\ j \in BlobJob
      /\ j.at = "blob" /\ j.id = id /\ j.todo = want
      /\ j.want = want /\ j.kept = {} /\ j.shared
  BY RestingType, PlaceNames DEF BlobsTypeOK, BlobJob, BlobLinks
<1>2. Go(p, j)
  OBVIOUS
<1> HIDE DEF j
<1>3. Placed(p, j)
  BY <1>1, <1>2, GoPlaces
<1>4. BlobsTypeOK'
  BY <1>1, <1>3 DEF BlobsTypeOK, CountersTyped, Placed, Exclusive
<1>5. LocksHeld'
  BY <1>1, <1>3 DEF LocksHeld, Placed, Exclusive, Collecting
<1>6. SavesLinked'
  BY <1>1, <1>3 DEF SavesLinked, LocksHeld, Placed, Exclusive, Collecting
<1>7. NamesLinked'
  BY <1>1, <1>3 DEF NamesLinked, SavesLinked, Placed, Exclusive, Collecting
<1>8. CollectsGarbage'
  BY <1>1, <1>3 DEF CollectsGarbage, LocksHeld, NamesLinked, Placed, Exclusive,
     Collecting
<1>9. LeftoversOwned'
  BY <1>1, <1>3 DEF LeftoversOwned, LocksHeld, Placed, Exclusive, Collecting
<1>10. ~corrupt'
  OBVIOUS
<1> QED BY <1>4, <1>5, <1>6, <1>7, <1>8, <1>9, <1>10

(* A blob the record links already is left alone. *)
LEMMA SkipBlobKeeps ==
  ASSUME BlobsIInv, NEW p \in BlobProcs,
         procs[p].at = "blob",
         NEW d \in procs[p].todo,
         <<procs[p].id, d>> \in links,
         Go(p, [procs[p] EXCEPT !.todo = @ \ {d}]),
         UNCHANGED <<named, blobs, links, corrupt>>,
         swept' = swept,
         CountersTyped'
  PROVE  BlobsIInv'
<1> USE DEF BlobsIInv
<1>0. procs[p] \in BlobJob
  BY DEF BlobsTypeOK
<1> DEFINE j == [procs[p] EXCEPT !.todo = @ \ {d}]
<1>1. /\ j \in BlobJob
      /\ j.at = "blob" /\ j.id = procs[p].id /\ j.todo = procs[p].todo \ {d}
      /\ j.want = procs[p].want /\ j.kept = procs[p].kept /\ j.shared = procs[p].shared
  BY <1>0, PlaceNames DEF BlobsTypeOK, BlobJob, BlobLinks
<1>2. Go(p, j)
  OBVIOUS
<1> HIDE DEF j
<1>3. Placed(p, j)
  BY <1>1, <1>2, GoPlaces
<1>4. BlobsTypeOK'
  BY <1>1, <1>3 DEF BlobsTypeOK, CountersTyped, Placed
<1>5. LocksHeld'
  BY <1>1, <1>3 DEF LocksHeld, Placed, Collecting
<1>6. SavesLinked'
  BY <1>1, <1>3 DEF SavesLinked, LocksHeld, Placed, Collecting
<1>7. NamesLinked'
  BY <1>1, <1>3 DEF NamesLinked, SavesLinked, Placed, Collecting
<1>8. CollectsGarbage'
  BY <1>1, <1>3 DEF CollectsGarbage, LocksHeld, NamesLinked, Placed, Collecting
<1>9. LeftoversOwned'
  BY <1>1, <1>3 DEF LeftoversOwned, LocksHeld, Placed, Collecting
<1>10. ~corrupt'
  OBVIOUS
<1> QED BY <1>4, <1>5, <1>6, <1>7, <1>8, <1>9, <1>10

(* A blob that is not stored yet is written. *)
LEMMA NewBlobKeeps ==
  ASSUME BlobsIInv, NEW p \in BlobProcs,
         procs[p].at = "blob",
         NEW d \in procs[p].todo,
         blobs' = blobs \cup {d},
         UNCHANGED <<named, links, procs, corrupt, swept>>,
         CountersTyped'
  PROVE  BlobsIInv'
<1> USE DEF BlobsIInv
<1>4. BlobsTypeOK'
  BY DEF BlobsTypeOK, CountersTyped, SavesLinked, BlobJob
<1>5. LocksHeld'
  BY DEF LocksHeld, Collecting
<1>6. SavesLinked'
  BY DEF SavesLinked, LocksHeld, Collecting
<1>7. NamesLinked'
  BY DEF NamesLinked, SavesLinked, Collecting
<1>8. CollectsGarbage'
  BY DEF CollectsGarbage, LocksHeld, NamesLinked, Collecting
<1>9. LeftoversOwned'
  BY DEF LeftoversOwned, LocksHeld, Collecting
<1>10. ~corrupt'
  OBVIOUS
<1> QED BY <1>4, <1>5, <1>6, <1>7, <1>8, <1>9, <1>10

(* A blob the record does not link yet is linked. *)
LEMMA NewLinkKeeps ==
  ASSUME BlobsIInv, NEW p \in BlobProcs,
         procs[p].at = "blob",
         NEW d \in procs[p].todo,
         links' = links \cup {<<procs[p].id, d>>},
         UNCHANGED <<named, blobs, procs, corrupt, swept>>,
         CountersTyped'
  PROVE  BlobsIInv'
<1> USE DEF BlobsIInv
<1>4. BlobsTypeOK'
  <2>1. <<procs[p].id, d>> \in BlobLinks
    BY DEF BlobsTypeOK, BlobJob, SavesLinked, BlobLinks
  <2> QED BY <2>1 DEF BlobsTypeOK, CountersTyped
<1>5. LocksHeld'
  BY DEF LocksHeld, Collecting
<1>6. SavesLinked'
  BY DEF SavesLinked, LocksHeld, Collecting
<1>7. NamesLinked'
  BY DEF NamesLinked, SavesLinked, Collecting
<1>8. CollectsGarbage'
  BY DEF CollectsGarbage, LocksHeld, NamesLinked, Collecting
<1>9. LeftoversOwned'
  BY DEF LeftoversOwned, LocksHeld, Collecting
<1>10. ~corrupt'
  OBVIOUS
<1> QED BY <1>4, <1>5, <1>6, <1>7, <1>8, <1>9, <1>10

(* All blobs are linked; the record is next. *)
LEMMA BlobsWrittenKeeps ==
  ASSUME BlobsIInv, NEW p \in BlobProcs,
         procs[p].at = "blob",
         procs[p].todo = {},
         Go(p, [procs[p] EXCEPT !.at = "rename"]),
         UNCHANGED <<named, blobs, links, corrupt>>,
         swept' = swept,
         CountersTyped'
  PROVE  BlobsIInv'
<1> USE DEF BlobsIInv
<1>0. procs[p] \in BlobJob
  BY DEF BlobsTypeOK
<1> DEFINE j == [procs[p] EXCEPT !.at = "rename"]
<1>1. /\ j \in BlobJob
      /\ j.at = "rename" /\ j.id = procs[p].id /\ j.todo = {}
      /\ j.want = procs[p].want /\ j.kept = procs[p].kept /\ j.shared = procs[p].shared
  BY <1>0, PlaceNames DEF BlobsTypeOK, BlobJob, BlobLinks
<1>2. Go(p, j)
  OBVIOUS
<1> HIDE DEF j
<1>3. Placed(p, j)
  BY <1>1, <1>2, GoPlaces
<1>4. BlobsTypeOK'
  BY <1>1, <1>3 DEF BlobsTypeOK, CountersTyped, Placed
<1>5. LocksHeld'
  BY <1>1, <1>3 DEF LocksHeld, Placed, Collecting
<1>6. SavesLinked'
  BY <1>1, <1>3 DEF SavesLinked, LocksHeld, Placed, Collecting
<1>7. NamesLinked'
  BY <1>1, <1>3 DEF NamesLinked, SavesLinked, Placed, Collecting
<1>8. CollectsGarbage'
  BY <1>1, <1>3 DEF CollectsGarbage, LocksHeld, NamesLinked, Placed, Collecting
<1>9. LeftoversOwned'
  BY <1>1, <1>3 DEF LeftoversOwned, LocksHeld, Placed, Collecting
<1>10. ~corrupt'
  OBVIOUS
<1> QED BY <1>4, <1>5, <1>6, <1>7, <1>8, <1>9, <1>10

(* The record names its blobs, and the lock drops. *)
LEMMA RenamedKeeps ==
  ASSUME BlobsIInv, NEW p \in BlobProcs,
         procs[p].at = "rename",
         named' = [named EXCEPT ![procs[p].id] = [state |-> "stored", of |-> procs[p].want]],
         Go(p, Resting),
         UNCHANGED <<blobs, links, corrupt, swept>>,
         CountersTyped'
  PROVE  BlobsIInv'
<1> USE DEF BlobsIInv
<1> DEFINE j == Resting
<1>1. /\ j \in BlobJob
      /\ j.at = "rest" /\ j.todo = {} /\ j.want = {}
      /\ j.kept = {} /\ ~j.shared
  BY RestingType, PlaceNames DEF BlobsTypeOK, BlobJob, BlobLinks
<1>2. Go(p, j)
  OBVIOUS
<1> HIDE DEF j
<1>3. Placed(p, j)
  BY <1>1, <1>2, GoPlaces
<1>4. BlobsTypeOK'
  BY <1>1, <1>3 DEF BlobsTypeOK, CountersTyped, Placed, SavesLinked, BlobJob
<1>5. LocksHeld'
  BY <1>1, <1>3 DEF LocksHeld, Placed, Collecting
<1>6. SavesLinked'
  BY <1>1, <1>3 DEF SavesLinked, LocksHeld, Placed, Collecting
<1>7. NamesLinked'
  BY <1>1, <1>3 DEF NamesLinked, SavesLinked, Placed, Collecting
<1>8. CollectsGarbage'
  BY <1>1, <1>3 DEF CollectsGarbage, LocksHeld, NamesLinked, Placed, SavesLinked,
     BlobsTypeOK, BlobLinks, Collecting
<1>9. LeftoversOwned'
  BY <1>1, <1>3 DEF LeftoversOwned, LocksHeld, Placed, SavesLinked, BlobsTypeOK,
     BlobLinks, Collecting
<1>10. ~corrupt'
  OBVIOUS
<1> QED BY <1>4, <1>5, <1>6, <1>7, <1>8, <1>9, <1>10

(* A record goes, while nobody saves it. *)
LEMMA DeletedKeeps ==
  ASSUME BlobsIInv, NEW p \in BlobProcs,
         NEW id \in Records,
         procs[p].at = "rest",
         ~Saving(id),
         named' = [named EXCEPT ![id] = [state |-> "deleted", of |-> {}]],
         Go(p, [Resting EXCEPT !.at = "collect"]),
         swept' = FALSE,
         UNCHANGED <<blobs, links, corrupt>>,
         CountersTyped'
  PROVE  BlobsIInv'
<1> USE DEF BlobsIInv
<1> DEFINE j == [Resting EXCEPT !.at = "collect"]
<1>1. /\ j \in BlobJob
      /\ j.at = "collect" /\ j.todo = {} /\ j.want = {}
      /\ j.kept = {} /\ ~j.shared
  BY RestingType, PlaceNames DEF BlobsTypeOK, BlobJob, BlobLinks
<1>2. Go(p, j)
  OBVIOUS
<1> HIDE DEF j
<1>3. Placed(p, j)
  BY <1>1, <1>2, GoPlaces
<1>4. BlobsTypeOK'
  BY <1>1, <1>3 DEF BlobsTypeOK, CountersTyped, Placed
<1>5. LocksHeld'
  BY <1>1, <1>3 DEF LocksHeld, Placed, Collecting
<1>6. SavesLinked'
  BY <1>1, <1>3 DEF SavesLinked, LocksHeld, Placed, Saving, BlobsTypeOK, Collecting
<1>7. NamesLinked'
  BY <1>1, <1>3 DEF NamesLinked, SavesLinked, Placed, Collecting
<1>8. CollectsGarbage'
  BY <1>1, <1>3 DEF CollectsGarbage, LocksHeld, NamesLinked, Placed, Collecting
<1>9. LeftoversOwned'
  BY <1>1, <1>3 DEF LeftoversOwned, LocksHeld, Placed, Collecting
<1>10. ~corrupt'
  OBVIOUS
<1> QED BY <1>4, <1>5, <1>6, <1>7, <1>8, <1>9, <1>10

(* A process waits for the exclusive lock. *)
LEMMA SweepKeeps ==
  ASSUME BlobsIInv, NEW p \in BlobProcs,
         procs[p].at = "rest",
         Go(p, [Resting EXCEPT !.at = "collect"]),
         UNCHANGED <<named, blobs, links, corrupt, swept>>,
         CountersTyped'
  PROVE  BlobsIInv'
<1> USE DEF BlobsIInv
<1> DEFINE j == [Resting EXCEPT !.at = "collect"]
<1>1. /\ j \in BlobJob
      /\ j.at = "collect" /\ j.todo = {} /\ j.want = {}
      /\ j.kept = {} /\ ~j.shared
  BY RestingType, PlaceNames DEF BlobsTypeOK, BlobJob, BlobLinks
<1>2. Go(p, j)
  OBVIOUS
<1> HIDE DEF j
<1>3. Placed(p, j)
  BY <1>1, <1>2, GoPlaces
<1>4. BlobsTypeOK'
  BY <1>1, <1>3 DEF BlobsTypeOK, CountersTyped, Placed
<1>5. LocksHeld'
  BY <1>1, <1>3 DEF LocksHeld, Placed, Collecting
<1>6. SavesLinked'
  BY <1>1, <1>3 DEF SavesLinked, LocksHeld, Placed, Collecting
<1>7. NamesLinked'
  BY <1>1, <1>3 DEF NamesLinked, SavesLinked, Placed, Collecting
<1>8. CollectsGarbage'
  BY <1>1, <1>3 DEF CollectsGarbage, LocksHeld, NamesLinked, Placed, Collecting
<1>9. LeftoversOwned'
  BY <1>1, <1>3 DEF LeftoversOwned, LocksHeld, Placed, Collecting
<1>10. ~corrupt'
  OBVIOUS
<1> QED BY <1>4, <1>5, <1>6, <1>7, <1>8, <1>9, <1>10

(* The exclusive lock is taken when nobody holds the lock. *)
LEMMA CollectLockKeeps ==
  ASSUME BlobsIInv, NEW p \in BlobProcs,
         procs[p].at = "collect",
         ~Locked,
         Go(p, [Resting EXCEPT !.at = "list"]),
         UNCHANGED <<named, blobs, links, corrupt, swept>>,
         CountersTyped'
  PROVE  BlobsIInv'
<1> USE DEF BlobsIInv
<1> DEFINE j == [Resting EXCEPT !.at = "list"]
<1>1. /\ j \in BlobJob
      /\ j.at = "list" /\ j.todo = {} /\ j.want = {}
      /\ j.kept = {} /\ ~j.shared
  BY RestingType, PlaceNames DEF BlobsTypeOK, BlobJob, BlobLinks
<1>2. Go(p, j)
  OBVIOUS
<1> HIDE DEF j
<1>3. Placed(p, j)
  BY <1>1, <1>2, GoPlaces
<1>4. BlobsTypeOK'
  BY <1>1, <1>3 DEF BlobsTypeOK, CountersTyped, Placed
<1>5. LocksHeld'
  BY <1>1, <1>3 DEF LocksHeld, Placed, Locked, Exclusive, Collecting
<1>6. SavesLinked'
  BY <1>1, <1>3 DEF SavesLinked, LocksHeld, Placed, Collecting
<1>7. NamesLinked'
  BY <1>1, <1>3 DEF NamesLinked, SavesLinked, Placed, Collecting
<1>8. CollectsGarbage'
  BY <1>1, <1>3 DEF CollectsGarbage, LocksHeld, NamesLinked, Placed, Collecting
<1>9. LeftoversOwned'
  BY <1>1, <1>3 DEF LeftoversOwned, LocksHeld, Placed, Collecting
<1>10. ~corrupt'
  OBVIOUS
<1> QED BY <1>4, <1>5, <1>6, <1>7, <1>8, <1>9, <1>10

(* The listing splits the links into those of a stored record and the rest. *)
LEMMA ListedKeeps ==
  ASSUME BlobsIInv, NEW p \in BlobProcs,
         procs[p].at = "list",
         Go(p, [Resting EXCEPT !.at = "links",
                                   !.kept = {l \in links : l[1] \in Listed},
                                   !.todo = {l \in links : l[1] \notin Listed}]),
         swept' = TRUE,
         UNCHANGED <<named, blobs, links, corrupt>>,
         CountersTyped'
  PROVE  BlobsIInv'
<1> USE DEF BlobsIInv
<1> DEFINE j == [Resting EXCEPT !.at = "links",
                            !.kept = {l \in links : l[1] \in Listed},
                            !.todo = {l \in links : l[1] \notin Listed}]
<1>1. /\ j \in BlobJob
      /\ j.at = "links" /\ j.todo = {l \in links : l[1] \notin Listed} /\ j.want = {}
      /\ j.kept = {l \in links : l[1] \in Listed} /\ ~j.shared
  BY RestingType, PlaceNames DEF BlobsTypeOK, BlobJob, BlobLinks
<1>2. Go(p, j)
  OBVIOUS
<1> HIDE DEF j
<1>3. Placed(p, j)
  BY <1>1, <1>2, GoPlaces
<1>4. BlobsTypeOK'
  BY <1>1, <1>3 DEF BlobsTypeOK, CountersTyped, Placed
<1>5. LocksHeld'
  BY <1>1, <1>3 DEF LocksHeld, Placed, Collecting
<1>6. SavesLinked'
  BY <1>1, <1>3 DEF SavesLinked, LocksHeld, Placed, Collecting
<1>7. NamesLinked'
  BY <1>1, <1>3 DEF NamesLinked, SavesLinked, Placed, Collecting
<1>8. CollectsGarbage'
  BY <1>1, <1>3 DEF CollectsGarbage, LocksHeld, NamesLinked, Placed, Listed,
     BlobsTypeOK, BlobLinks, Collecting
<1>9. LeftoversOwned'
  BY <1>1, <1>3 DEF LeftoversOwned, LocksHeld, Placed, Listed, BlobsTypeOK, BlobLinks,
     Collecting
<1>10. ~corrupt'
  OBVIOUS
<1> QED BY <1>4, <1>5, <1>6, <1>7, <1>8, <1>9, <1>10

(* The collector removes a link. *)
LEMMA UnlinkedKeeps ==
  ASSUME BlobsIInv, NEW p \in BlobProcs,
         procs[p].at = "links",
         NEW l \in procs[p].todo,
         links' = links \ {l},
         Go(p, [procs[p] EXCEPT !.todo = @ \ {l}]),
         UNCHANGED <<named, blobs, corrupt, swept>>,
         CountersTyped'
  PROVE  BlobsIInv'
<1> USE DEF BlobsIInv
<1>0. procs[p] \in BlobJob
  BY DEF BlobsTypeOK
<1> DEFINE j == [procs[p] EXCEPT !.todo = @ \ {l}]
<1>1. /\ j \in BlobJob
      /\ j.at = "links" /\ j.id = procs[p].id /\ j.todo = procs[p].todo \ {l}
      /\ j.want = procs[p].want /\ j.kept = procs[p].kept /\ j.shared = procs[p].shared
  BY <1>0, PlaceNames DEF BlobsTypeOK, BlobJob, BlobLinks
<1>2. Go(p, j)
  OBVIOUS
<1> HIDE DEF j
<1>3. Placed(p, j)
  BY <1>1, <1>2, GoPlaces
<1>4. BlobsTypeOK'
  BY <1>1, <1>3 DEF BlobsTypeOK, CountersTyped, Placed
<1>5. LocksHeld'
  BY <1>1, <1>3 DEF LocksHeld, Placed, Collecting
<1>6. SavesLinked'
  BY <1>1, <1>3 DEF SavesLinked, LocksHeld, Placed, Collecting
<1>7. NamesLinked'
  BY <1>1, <1>3 DEF NamesLinked, SavesLinked, Placed, CollectsGarbage, BlobsTypeOK,
     BlobLinks, Collecting
<1>8. CollectsGarbage'
  BY <1>1, <1>3 DEF CollectsGarbage, LocksHeld, NamesLinked, Placed, Collecting
<1>9. LeftoversOwned'
  BY <1>1, <1>3 DEF LeftoversOwned, LocksHeld, Placed, Collecting
<1>10. ~corrupt'
  OBVIOUS
<1> QED BY <1>4, <1>5, <1>6, <1>7, <1>8, <1>9, <1>10

(* The links are done; blobs without a kept link are next. *)
LEMMA LinksDoneKeeps ==
  ASSUME BlobsIInv, NEW p \in BlobProcs,
         procs[p].at = "links",
         procs[p].todo = {},
         Go(p, [procs[p] EXCEPT !.at = "blobs", !.todo = blobs \ {l[2] : l \in procs[p].kept}]),
         UNCHANGED <<named, blobs, links, corrupt, swept>>,
         CountersTyped'
  PROVE  BlobsIInv'
<1> USE DEF BlobsIInv
<1>0. procs[p] \in BlobJob
  BY DEF BlobsTypeOK
<1> DEFINE j == [procs[p] EXCEPT !.at = "blobs", !.todo = blobs \ {l[2] : l \in procs[p].kept}]
<1>1. /\ j \in BlobJob
      /\ j.at = "blobs" /\ j.id = procs[p].id /\ j.todo = blobs \ {l[2] : l \in procs[p].kept}
      /\ j.want = procs[p].want /\ j.kept = procs[p].kept /\ j.shared = procs[p].shared
  BY <1>0, PlaceNames DEF BlobsTypeOK, BlobJob, BlobLinks
<1>2. Go(p, j)
  OBVIOUS
<1> HIDE DEF j
<1>3. Placed(p, j)
  BY <1>1, <1>2, GoPlaces
<1>4. BlobsTypeOK'
  BY <1>1, <1>3 DEF BlobsTypeOK, CountersTyped, Placed
<1>5. LocksHeld'
  BY <1>1, <1>3 DEF LocksHeld, Placed, Collecting
<1>6. SavesLinked'
  BY <1>1, <1>3 DEF SavesLinked, LocksHeld, Placed, Collecting
<1>7. NamesLinked'
  BY <1>1, <1>3 DEF NamesLinked, SavesLinked, Placed, Collecting
<1>8. CollectsGarbage'
  BY <1>1, <1>3 DEF CollectsGarbage, LocksHeld, NamesLinked, Placed, BlobsTypeOK,
     BlobLinks, Collecting
<1>9. LeftoversOwned'
  BY <1>1, <1>3 DEF LeftoversOwned, LocksHeld, Placed, CollectsGarbage, BlobsTypeOK,
     BlobLinks, Collecting
<1>10. ~corrupt'
  OBVIOUS
<1> QED BY <1>4, <1>5, <1>6, <1>7, <1>8, <1>9, <1>10

(* The collector removes a blob. *)
LEMMA RemovedKeeps ==
  ASSUME BlobsIInv, NEW p \in BlobProcs,
         procs[p].at = "blobs",
         NEW d \in procs[p].todo,
         blobs' = blobs \ {d},
         Go(p, [procs[p] EXCEPT !.todo = @ \ {d}]),
         UNCHANGED <<named, links, corrupt, swept>>,
         CountersTyped'
  PROVE  BlobsIInv'
<1> USE DEF BlobsIInv
<1>0. procs[p] \in BlobJob
  BY DEF BlobsTypeOK
<1> DEFINE j == [procs[p] EXCEPT !.todo = @ \ {d}]
<1>1. /\ j \in BlobJob
      /\ j.at = "blobs" /\ j.id = procs[p].id /\ j.todo = procs[p].todo \ {d}
      /\ j.want = procs[p].want /\ j.kept = procs[p].kept /\ j.shared = procs[p].shared
  BY <1>0, PlaceNames DEF BlobsTypeOK, BlobJob, BlobLinks
<1>2. Go(p, j)
  OBVIOUS
<1> HIDE DEF j
<1>3. Placed(p, j)
  BY <1>1, <1>2, GoPlaces
<1>4. BlobsTypeOK'
  BY <1>1, <1>3 DEF BlobsTypeOK, CountersTyped, Placed
<1>5. LocksHeld'
  BY <1>1, <1>3 DEF LocksHeld, Placed, Collecting
<1>6. SavesLinked'
  BY <1>1, <1>3 DEF SavesLinked, LocksHeld, Placed, Collecting
<1>7. NamesLinked'
  BY <1>1, <1>3 DEF NamesLinked, SavesLinked, Placed, Collecting
<1>8. CollectsGarbage'
  BY <1>1, <1>3 DEF CollectsGarbage, LocksHeld, NamesLinked, Placed, Collecting
<1>9. LeftoversOwned'
  BY <1>1, <1>3 DEF LeftoversOwned, LocksHeld, Placed, Collecting
<1>10. ~corrupt'
  OBVIOUS
<1> QED BY <1>4, <1>5, <1>6, <1>7, <1>8, <1>9, <1>10

(* A load reads which blobs the record names. *)
LEMMA LoadKeeps ==
  ASSUME BlobsIInv, NEW p \in BlobProcs,
         procs[p].at = "rest",
         NEW id \in Records,
         named[id].state = "stored",
         Go(p, [Resting EXCEPT !.at = "resolve", !.id = id, !.todo = named[id].of]),
         UNCHANGED <<named, blobs, links, corrupt, swept>>,
         CountersTyped'
  PROVE  BlobsIInv'
<1> USE DEF BlobsIInv
<1> DEFINE j == [Resting EXCEPT !.at = "resolve", !.id = id, !.todo = named[id].of]
<1>1. /\ j \in BlobJob
      /\ j.at = "resolve" /\ j.id = id /\ j.todo = named[id].of
      /\ j.want = {} /\ j.kept = {} /\ ~j.shared
  BY RestingType, PlaceNames DEF BlobsTypeOK, BlobJob, BlobLinks
<1>2. Go(p, j)
  OBVIOUS
<1> HIDE DEF j
<1>3. Placed(p, j)
  BY <1>1, <1>2, GoPlaces
<1>4. BlobsTypeOK'
  BY <1>1, <1>3 DEF BlobsTypeOK, CountersTyped, Placed
<1>5. LocksHeld'
  BY <1>1, <1>3 DEF LocksHeld, Placed, Collecting
<1>6. SavesLinked'
  BY <1>1, <1>3 DEF SavesLinked, LocksHeld, Placed, Collecting
<1>7. NamesLinked'
  BY <1>1, <1>3 DEF NamesLinked, SavesLinked, Placed, BlobsTypeOK, Collecting
<1>8. CollectsGarbage'
  BY <1>1, <1>3 DEF CollectsGarbage, LocksHeld, NamesLinked, Placed, Collecting
<1>9. LeftoversOwned'
  BY <1>1, <1>3 DEF LeftoversOwned, LocksHeld, Placed, Collecting
<1>10. ~corrupt'
  OBVIOUS
<1> QED BY <1>4, <1>5, <1>6, <1>7, <1>8, <1>9, <1>10

(* A load reads a blob through the record's link. *)
LEMMA ReadKeeps ==
  ASSUME BlobsIInv, NEW p \in BlobProcs,
         procs[p].at = "resolve",
         NEW d \in procs[p].todo,
         Go(p, [procs[p] EXCEPT !.todo = @ \ {d}]),
         UNCHANGED <<named, blobs, links, corrupt, swept>>,
         CountersTyped'
  PROVE  BlobsIInv'
<1> USE DEF BlobsIInv
<1>0. procs[p] \in BlobJob
  BY DEF BlobsTypeOK
<1> DEFINE j == [procs[p] EXCEPT !.todo = @ \ {d}]
<1>1. /\ j \in BlobJob
      /\ j.at = "resolve" /\ j.id = procs[p].id /\ j.todo = procs[p].todo \ {d}
      /\ j.want = procs[p].want /\ j.kept = procs[p].kept /\ j.shared = procs[p].shared
  BY <1>0, PlaceNames DEF BlobsTypeOK, BlobJob, BlobLinks
<1>2. Go(p, j)
  OBVIOUS
<1> HIDE DEF j
<1>3. Placed(p, j)
  BY <1>1, <1>2, GoPlaces
<1>4. BlobsTypeOK'
  BY <1>1, <1>3 DEF BlobsTypeOK, CountersTyped, Placed
<1>5. LocksHeld'
  BY <1>1, <1>3 DEF LocksHeld, Placed, Collecting
<1>6. SavesLinked'
  BY <1>1, <1>3 DEF SavesLinked, LocksHeld, Placed, Collecting
<1>7. NamesLinked'
  BY <1>1, <1>3 DEF NamesLinked, SavesLinked, Placed, Collecting
<1>8. CollectsGarbage'
  BY <1>1, <1>3 DEF CollectsGarbage, LocksHeld, NamesLinked, Placed, Collecting
<1>9. LeftoversOwned'
  BY <1>1, <1>3 DEF LeftoversOwned, LocksHeld, Placed, Collecting
<1>10. ~corrupt'
  OBVIOUS
<1> QED BY <1>4, <1>5, <1>6, <1>7, <1>8, <1>9, <1>10

(***************************************************************************)
(* The actions, from their branches.                                       *)
(***************************************************************************)
LEMMA BeginSaveKeeps ==
  ASSUME BlobsIInv, NEW p \in BlobProcs, NEW id \in Records,
         NEW want \in SUBSET Digests, BeginSave(p, id, want)
  PROVE  BlobsIInv'
<1>1. CountersTyped'
  BY DEF BeginSave, BlobsIInv, BlobsTypeOK, CountersTyped
<1>2. CASE want = {}
  BY <1>1, <1>2, BeginPlainKeeps DEF BeginSave, At, CountersTyped
<1>3. CASE want # {}
  BY <1>1, <1>3, BeginLockedKeeps DEF BeginSave, At, CountersTyped
<1> QED BY <1>2, <1>3

LEMMA WriteBlobKeeps ==
  ASSUME BlobsIInv, NEW p \in BlobProcs, WriteBlob(p)
  PROVE  BlobsIInv'
<1>1. procs[p].at = "blob"
  BY DEF WriteBlob, At
<1>2. CountersTyped'
  BY DEF WriteBlob, BlobFault, BlobsIInv, BlobsTypeOK, CountersTyped
<1>3. CASE BlobFault(p) /\ UNCHANGED <<blobs, links>>
  BY <1>1, <1>2, <1>3, ReturnKeeps
     DEF WriteBlob, BlobFault, CountersTyped, BlobsIInv, BlobsTypeOK
<1>4. CASE procs[p].todo = {} /\ Go(p, [procs[p] EXCEPT !.at = "rename"])
             /\ UNCHANGED <<blobs, links, swept, blobFaults>>
  BY <1>1, <1>2, <1>4, BlobsWrittenKeeps DEF WriteBlob, CountersTyped
<1>5. ASSUME NEW d \in procs[p].todo, UNCHANGED swept,
             \/ /\ <<procs[p].id, d>> \in links
                /\ Go(p, [procs[p] EXCEPT !.todo = @ \ {d}])
                /\ UNCHANGED <<blobs, links>>
             \/ blobs' = blobs \cup {d} /\ UNCHANGED <<links, procs>>
             \/ links' = links \cup {<<procs[p].id, d>>} /\ UNCHANGED <<blobs, procs>>
      PROVE  BlobsIInv'
  BY <1>1, <1>2, <1>5, SkipBlobKeeps, NewBlobKeeps, NewLinkKeeps
     DEF WriteBlob, CountersTyped
<1> QED BY <1>3, <1>4, <1>5 DEF WriteBlob

LEMMA RenameRecordKeeps ==
  ASSUME BlobsIInv, NEW p \in BlobProcs, RenameRecord(p)
  PROVE  BlobsIInv'
<1>1. procs[p].at = "rename"
  BY DEF RenameRecord, At
<1>2. CountersTyped'
  BY DEF RenameRecord, BlobFault, BlobsIInv, BlobsTypeOK, CountersTyped
<1>3. CASE BlobFault(p) /\ UNCHANGED named
  BY <1>1, <1>2, <1>3, ReturnKeeps
     DEF RenameRecord, BlobFault, CountersTyped, BlobsIInv, BlobsTypeOK
<1>4. CASE Go(p, Resting) /\ UNCHANGED <<swept, blobFaults>>
             /\ named' = [named EXCEPT ![procs[p].id] =
                            [state |-> "stored", of |-> procs[p].want]]
  BY <1>1, <1>2, <1>4, RenamedKeeps DEF RenameRecord, CountersTyped
<1> QED BY <1>3, <1>4 DEF RenameRecord

LEMMA CollectLinksKeeps ==
  ASSUME BlobsIInv, NEW p \in BlobProcs, CollectLinks(p)
  PROVE  BlobsIInv'
<1>1. procs[p].at = "links"
  BY DEF CollectLinks, At
<1>2. CountersTyped'
  BY DEF CollectLinks, CollectFault, BlobsIInv, BlobsTypeOK, CountersTyped
<1>3. CASE CollectFault(p) /\ UNCHANGED links
  BY <1>1, <1>2, <1>3, ReturnKeeps DEF CollectLinks, CollectFault, CountersTyped
<1>4. CASE /\ procs[p].todo = {}
           /\ Go(p, [procs[p] EXCEPT !.at = "blobs",
                                     !.todo = blobs \ {l[2] : l \in procs[p].kept}])
           /\ UNCHANGED <<links, swept, blobFaults>>
  BY <1>1, <1>2, <1>4, LinksDoneKeeps DEF CollectLinks, CountersTyped
<1>5. ASSUME NEW l \in procs[p].todo, links' = links \ {l}, UNCHANGED swept,
             Go(p, [procs[p] EXCEPT !.todo = @ \ {l}])
      PROVE  BlobsIInv'
  BY <1>1, <1>2, <1>5, UnlinkedKeeps DEF CollectLinks, CountersTyped
<1> QED BY <1>3, <1>4, <1>5 DEF CollectLinks

LEMMA CollectBlobsKeeps ==
  ASSUME BlobsIInv, NEW p \in BlobProcs, CollectBlobs(p)
  PROVE  BlobsIInv'
<1>1. procs[p].at = "blobs"
  BY DEF CollectBlobs, At
<1>2. CountersTyped'
  BY DEF CollectBlobs, CollectFault, BlobsIInv, BlobsTypeOK, CountersTyped
<1>3. CASE CollectFault(p) /\ UNCHANGED blobs
  BY <1>1, <1>2, <1>3, ReturnKeeps DEF CollectBlobs, CollectFault, CountersTyped
<1>4. CASE procs[p].todo = {} /\ Go(p, Resting) /\ UNCHANGED <<blobs, swept, blobFaults>>
  <2>1. ~procs[p].shared
    BY <1>1 DEF BlobsIInv, LocksHeld
  <2> QED BY <1>1, <1>2, <1>4, <2>1, ReturnKeeps
             DEF CollectBlobs, CountersTyped, BlobsIInv, BlobsTypeOK
<1>5. ASSUME NEW d \in procs[p].todo, blobs' = blobs \ {d}, UNCHANGED swept,
             Go(p, [procs[p] EXCEPT !.todo = @ \ {d}])
      PROVE  BlobsIInv'
  BY <1>1, <1>2, <1>5, RemovedKeeps DEF CollectBlobs, CountersTyped
<1> QED BY <1>3, <1>4, <1>5 DEF CollectBlobs

(* A load finds the links of a record that is stored: none is corrupt. *)
LEMMA ResolveKeeps ==
  ASSUME BlobsIInv, NEW p \in BlobProcs, Resolve(p)
  PROVE  BlobsIInv'
<1>1. procs[p].at = "resolve" /\ ~procs[p].shared
  BY DEF Resolve, At, BlobsIInv, LocksHeld
<1>2. CountersTyped'
  BY DEF Resolve, BlobsIInv, BlobsTypeOK, CountersTyped
<1>3. CASE procs[p].todo = {} /\ Go(p, Resting) /\ UNCHANGED corrupt
  BY <1>1, <1>2, <1>3, ReturnKeeps
     DEF Resolve, CountersTyped, BlobsIInv, BlobsTypeOK
<1>4. ASSUME NEW d \in procs[p].todo,
             Go(p, [procs[p] EXCEPT !.todo = @ \ {d}]) /\ UNCHANGED corrupt
      PROVE  BlobsIInv'
  BY <1>1, <1>2, <1>4, ReadKeeps DEF Resolve, CountersTyped
<1>5. ASSUME NEW d \in procs[p].todo, <<procs[p].id, d>> \notin links, Go(p, Resting),
             corrupt' = (corrupt \/ named[procs[p].id].state = "stored")
      PROVE  BlobsIInv'
  <2>1. corrupt' = corrupt
    BY <1>1, <1>5 DEF BlobsIInv, BlobsTypeOK, NamesLinked
  <2> QED BY <1>1, <1>2, <1>5, <2>1, ReturnKeeps
             DEF Resolve, CountersTyped, BlobsIInv, BlobsTypeOK
<1> QED BY <1>3, <1>4, <1>5 DEF Resolve

LEMMA BlobCrashKeeps ==
  ASSUME BlobsIInv, NEW p \in BlobProcs, BlobCrash(p)
  PROVE  BlobsIInv'
<1>1. CountersTyped'
  BY DEF BlobCrash, BlobsIInv, BlobsTypeOK, CountersTyped
<1> QED BY <1>1, ReturnKeeps
           DEF BlobCrash, CountersTyped, Collecting, BlobsIInv, BlobsTypeOK

LEMMA BlobsInitially == BlobsInit => BlobsIInv
<1> SUFFICES ASSUME BlobsInit PROVE BlobsIInv
  OBVIOUS
<1>1. BlobsTypeOK
  BY RestingType DEF BlobsInit, BlobsTypeOK
<1>2. LocksHeld /\ SavesLinked /\ CollectsGarbage
  BY RestingType DEF BlobsInit, LocksHeld, SavesLinked, CollectsGarbage, Collecting
<1>3. NamesLinked /\ LeftoversOwned /\ ~corrupt
  BY RestingType DEF BlobsInit, NamesLinked, LeftoversOwned
<1> QED BY <1>1, <1>2, <1>3 DEF BlobsIInv

LEMMA BlobsStep == BlobsIInv /\ [BlobsNext]_blobVars => BlobsIInv'
<1> SUFFICES ASSUME BlobsIInv, [BlobsNext]_blobVars PROVE BlobsIInv'
  OBVIOUS
<1>1. CASE UNCHANGED blobVars
  BY <1>1 DEF blobVars, BlobsIInv, BlobsTypeOK, LocksHeld, SavesLinked, NamesLinked,
              CollectsGarbage, LeftoversOwned
<1>2. CASE BlobsNext
  <2> PICK p \in BlobProcs :
        \/ \E id \in Records, want \in SUBSET Digests : BeginSave(p, id, want)
        \/ \E id \in Records : DeleteRecord(p, id) \/ LoadRecord(p, id)
        \/ WriteBlob(p) \/ RenameRecord(p) \/ SweepBlobs(p) \/ CollectLock(p)
        \/ CollectList(p) \/ CollectLinks(p) \/ CollectBlobs(p) \/ Resolve(p)
        \/ BlobCrash(p)
    BY <1>2 DEF BlobsNext
  <2>0. CountersTyped
    BY DEF BlobsIInv, BlobsTypeOK, CountersTyped
  <2>1. CASE \E id \in Records, want \in SUBSET Digests : BeginSave(p, id, want)
    BY <2>1, BeginSaveKeeps
  <2>2. ASSUME NEW id \in Records, DeleteRecord(p, id) PROVE BlobsIInv'
    BY <2>0, <2>2, DeletedKeeps DEF DeleteRecord, At, CountersTyped
  <2>3. ASSUME NEW id \in Records, LoadRecord(p, id) PROVE BlobsIInv'
    BY <2>0, <2>3, LoadKeeps DEF LoadRecord, At, CountersTyped
  <2>4. CASE WriteBlob(p) \/ RenameRecord(p) \/ CollectLinks(p) \/ CollectBlobs(p)
             \/ Resolve(p) \/ BlobCrash(p)
    BY <2>4, WriteBlobKeeps, RenameRecordKeeps, CollectLinksKeeps, CollectBlobsKeeps,
       ResolveKeeps, BlobCrashKeeps
  <2>5. CASE SweepBlobs(p)
    BY <2>0, <2>5, SweepKeeps DEF SweepBlobs, At, CountersTyped
  <2>6. CASE CollectLock(p)
    BY <2>0, <2>6, CollectLockKeeps DEF CollectLock, At, CountersTyped
  <2>7. CASE CollectList(p)
    BY <2>0, <2>7, ListedKeeps DEF CollectList, At, CountersTyped
  <2> QED BY <2>1, <2>2, <2>3, <2>4, <2>5, <2>6, <2>7
<1> QED BY <1>1, <1>2

(* The inductive invariant holds throughout: for any processes, records    *)
(* and digests, and however many operations fail or processes die.         *)
THEOREM BlobsInvariant == BlobsSpec => []BlobsIInv
<1> QED BY BlobsInitially, BlobsStep, PTL DEF BlobsSpec

(* collect_blobs takes every link and blob that no record names and none   *)
(* that a record names or is about to name, so no load finds a stored      *)
(* record broken.                                                          *)
THEOREM CollectionIsExact == BlobsSpec => []BlobsInv
<1>1. BlobsIInv => RecordsResolve
  BY DEF BlobsIInv, BlobsTypeOK, NamesLinked, RecordsResolve
<1>2. BlobsIInv => NothingLeftOver
  BY DEF BlobsIInv, LeftoversOwned, LocksHeld, NothingLeftOver, Collecting
<1>3. BlobsIInv => BlobsInv
  BY <1>1, <1>2 DEF BlobsInv
<1> QED BY <1>3, BlobsInvariant, PTL
============================================================================
