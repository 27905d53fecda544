---------------------------- MODULE VectorStores ----------------------------
(***************************************************************************)
(* Vector stores (local-services vector_stores.rs and vector_stores/       *)
(* index.rs, adapter serve/vector_stores.rs): file rows in the database, a *)
(* ranked index and embeddings derived from them, one indexer thread that  *)
(* keeps the three in step through a garbage outbox, and searches that     *)
(* read database and index one after the other.                            *)
(*                                                                         *)
(* One store.  An attachment is a row of vector_store_files with one chunk;*)
(* attaching a file again is a new attachment.  A transaction, a commit of *)
(* the index or a read of a snapshot is one action.                        *)
(***************************************************************************)
EXTENDS Naturals, Sequences, FiniteSets, FiniteSetsExt, SequencesExt

CONSTANTS
  Sources,          \* Files of the Files API
  Unembeddable,     \* those the embedding model always fails on
  Large,            \* those whose text alone fills a backfill batch
  MaxAttached,      \* bound: attachments ever made, numbered in seq order
  MaxSpaces,        \* embedding models, each with a vector space of its own
  IndexBatchFiles,  \* files per indexing or backfill batch
  MaxVectorTrouble, \* bound: statements, commits and embeddings that fail, crashes,
                    \* and clients gone before their request's notify
  MaxLostIndex,     \* bound: index directories lost while the server is down
  MaxChanges        \* bound: deletions, cancellations and expiries

ASSUME VectorBoundsAssumption ==
  /\ Unembeddable \cup Large \subseteq Sources
  /\ {MaxAttached, IndexBatchFiles} \subseteq Nat \ {0}
  /\ {MaxSpaces, MaxVectorTrouble, MaxLostIndex, MaxChanges} \subseteq Nat

VARIABLES
  attached,     \* the rows: [source, status, batch, space]
  lastAttached,
  sourceState,  \* "live", "expired" or "deleted"
  storeState,   \* "live", "expired" or "deleted"
  batchState,   \* the one file batch: "none", "open" or "cancelled"
  outbox,       \* vector_store_index_garbage
  vectors,      \* vector rows: the space they are in, 0 for none
  docs,         \* attachments with a committed index document
  uncommitted,  \* ... with a document in the writer only
  asked,        \* notifications the indexer has not taken up
  indexer,      \* the thread
  embedder,     \* the installed model, 0 for none
  embedFailed,
  notifying,    \* handlers that have committed and not notified
  searching,    \* one search
  vectorTrouble, lostIndex, changes

vectorRows   == <<attached, lastAttached, sourceState, storeState, batchState, outbox, vectors>>
vectorIndex  == <<docs, uncommitted>>
vectorThread == <<asked, indexer, embedder, embedFailed>>
vectorCount  == <<vectorTrouble, lostIndex, changes>>
vectorVars   == <<vectorRows, vectorIndex, vectorThread, notifying, searching, vectorCount>>

Attachments == 1..MaxAttached
NoAttachment == [source |-> "none", status |-> "none", batch |-> FALSE, space |-> 0]
IdleIndexer == [at |-> "wait", opening |-> FALSE, batch |-> {}, ok |-> {}, rows |-> {}]
IdleSearch  == [at |-> "idle", model |-> 0, admitted |-> {}, embedded |-> {}, hits |-> {}]

VectorsInit ==
  /\ attached = [a \in Attachments |-> NoAttachment] /\ lastAttached = 0
  /\ sourceState = [f \in Sources |-> "live"] /\ storeState = "live" /\ batchState = "none"
  /\ outbox = {} /\ vectors = [a \in Attachments |-> 0]
  /\ docs = {} /\ uncommitted = {}
  /\ asked = TRUE /\ indexer = IdleIndexer /\ embedder = 0 /\ embedFailed = {}
  /\ notifying = FALSE /\ searching = IdleSearch
  /\ vectorTrouble = 0 /\ lostIndex = 0 /\ changes = 0

Rows(status)  == {a \in Attachments : attached[a].status = status}
Present       == {a \in Attachments : attached[a].status # "none"}
OfSource(f)   == {a \in Present : attached[a].source = f}
Serving       == indexer.at # "down" /\ ~indexer.opening
VectorFault   == /\ vectorTrouble < MaxVectorTrouble /\ vectorTrouble' = vectorTrouble + 1
                 /\ UNCHANGED <<lostIndex, changes>>

Change        == /\ changes < MaxChanges /\ changes' = changes + 1
                 /\ UNCHANGED <<vectorTrouble, lostIndex>>

(* Deleting rows: chunks cascade, and the trigger lists each in the outbox.*)
WithoutRows(gone) == [a \in Attachments |-> IF a \in gone THEN NoAttachment ELSE attached[a]]
Detach(gone)      == attached' = WithoutRows(gone) /\ outbox' = outbox \cup gone

(***************************************************************************)
(* Requests.  Each is one immediate transaction on the blocking pool; the  *)
(* handler that awaited it then notifies the indexer.                      *)
(***************************************************************************)
Attach ==
  /\ Serving /\ storeState = "live" /\ lastAttached < MaxAttached
  /\ \E f \in Sources, inBatch \in BOOLEAN :
       /\ sourceState[f] = "live" /\ (inBatch => batchState = "none")
       /\ outbox' = outbox \cup OfSource(f)
       /\ attached' = [WithoutRows(OfSource(f)) EXCEPT ![lastAttached + 1] =
             [source |-> f, status |-> "in_progress", batch |-> inBatch, space |-> 0]]
       /\ batchState' = IF inBatch THEN "open" ELSE batchState
  /\ lastAttached' = lastAttached + 1 /\ notifying' = TRUE
  /\ UNCHANGED <<sourceState, storeState, vectors, vectorIndex, vectorThread,
                 searching, vectorCount>>

DeleteVectorStoreFile ==
  /\ Change /\ Serving /\ storeState # "deleted" /\ notifying' = TRUE
  /\ \E a \in Present : Detach({a})
  /\ UNCHANGED <<lastAttached, sourceState, storeState, batchState, vectors, vectorIndex,
                 vectorThread, searching>>

DeleteVectorStore ==
  /\ Change /\ Serving /\ storeState # "deleted" /\ storeState' = "deleted" /\ batchState' = "none"
  /\ Detach(Present) /\ notifying' = TRUE
  /\ UNCHANGED <<lastAttached, sourceState, vectors, vectorIndex, vectorThread, searching>>

(* update_vector_store marks even an expired store active.                 *)
UpdateVectorStore ==
  /\ Serving /\ storeState = "expired" /\ storeState' = "live"
  /\ UNCHANGED <<attached, lastAttached, sourceState, batchState, outbox, vectors,
                 vectorIndex, vectorThread, notifying, searching, vectorCount>>

(* Refused unless a file of the batch is in progress; asks for no run.     *)
CancelVectorStoreFileBatch ==
  LET open == {a \in Rows("in_progress") : attached[a].batch}
  IN /\ Change /\ Serving /\ storeState # "deleted" /\ batchState = "open" /\ open # {}
     /\ batchState' = "cancelled"
     /\ attached' = [a \in Attachments |->
          IF a \in open THEN [attached[a] EXCEPT !.status = "cancelled"] ELSE attached[a]]
     /\ UNCHANGED <<lastAttached, sourceState, storeState, outbox, vectors, vectorIndex,
                    vectorThread, notifying, searching>>

(* Deleting a File (from any process) removes it from every store.         *)
DeleteSource ==
  /\ Change
  /\ \E f \in Sources :
       /\ sourceState[f] = "live"
       /\ sourceState' = [sourceState EXCEPT ![f] = "deleted"]
       /\ Detach(OfSource(f))
  /\ notifying' = (notifying \/ Serving)
  /\ UNCHANGED <<lastAttached, storeState, batchState, vectors, vectorIndex, vectorThread,
                 searching>>

NotifyIndexer ==
  /\ notifying /\ notifying' = FALSE /\ asked' = TRUE
  /\ UNCHANGED <<vectorRows, vectorIndex, indexer, embedder, embedFailed, searching,
                 vectorCount>>

DropHandler ==
  /\ notifying /\ notifying' = FALSE /\ VectorFault
  /\ UNCHANGED <<vectorRows, vectorIndex, vectorThread, searching>>

(* The server installs its embedding model once, after opening the index.  *)
SetEmbedder ==
  /\ Serving /\ embedder = 0 /\ asked' = TRUE
  /\ \E s \in 1..MaxSpaces : embedder' = s
  /\ UNCHANGED <<vectorRows, vectorIndex, indexer, embedFailed, notifying, searching,
                 vectorCount>>

ExpireVectorThings ==
  /\ Change
  /\ \/ storeState = "live" /\ storeState' = "expired" /\ UNCHANGED sourceState
     \/ /\ UNCHANGED storeState
        /\ \E f \in Sources : /\ sourceState[f] = "live"
                              /\ sourceState' = [sourceState EXCEPT ![f] = "expired"]
  /\ UNCHANGED <<attached, lastAttached, batchState, outbox, vectors, vectorIndex,
                 vectorThread, notifying, searching>>

(***************************************************************************)
(* run_indexer: a run per notification, and one with a purge per interval. *)
(***************************************************************************)
IndexerAt(at)      == indexer.at = at
IndexerTo(at)      == indexer' = [indexer EXCEPT !.at = at]
Batching(at, b, k) == indexer' = [indexer EXCEPT !.at = at, !.batch = b, !.ok = k]

(* An error ends the phase of a run; while opening it ends the opening.    *)
PhaseFails(then) ==
  IF indexer.opening THEN indexer' = [IdleIndexer EXCEPT !.at = "down"]
  ELSE indexer' = [IdleIndexer EXCEPT !.at = then]

TakeNotification ==
  /\ IndexerAt("wait") /\ asked /\ asked' = FALSE /\ IndexerTo("garbage")
  /\ UNCHANGED <<vectorRows, vectorIndex, embedder, embedFailed, notifying, searching,
                 vectorCount>>

(* Mutant of PurgeTimer: the interval purges and does not index. *)
PurgeTimerOnly ==
  LET gone == UNION {OfSource(f) : f \in {g \in Sources : sourceState[g] = "expired"}}
  IN /\ IndexerAt("wait") /\ ~asked
     /\ \/ /\ Detach(gone) /\ UNCHANGED vectorCount
           /\ sourceState' = [f \in Sources |->
                IF sourceState[f] = "expired" THEN "deleted" ELSE sourceState[f]]
        \/ VectorFault /\ UNCHANGED <<attached, outbox, sourceState>>
     /\ UNCHANGED <<lastAttached, storeState, batchState, vectors, vectorIndex, asked,
                    indexer, embedder, embedFailed, notifying, searching>>

PurgeTimer ==
  LET gone == UNION {OfSource(f) : f \in {g \in Sources : sourceState[g] = "expired"}}
  IN /\ IndexerAt("wait") /\ ~asked /\ IndexerTo("garbage")
     /\ \/ /\ Detach(gone) /\ UNCHANGED vectorCount
           /\ sourceState' = [f \in Sources |->
                IF sourceState[f] = "expired" THEN "deleted" ELSE sourceState[f]]
        \/ VectorFault /\ UNCHANGED <<attached, outbox, sourceState>>
     /\ UNCHANGED <<lastAttached, storeState, batchState, vectors, vectorIndex, asked,
                    embedder, embedFailed, notifying, searching>>

(* collect: read the outbox, drop and commit the documents, then delete    *)
(* vectors and outbox entries in one transaction; until it is empty.       *)
ReadGarbage ==
  /\ IndexerAt("garbage")
  /\ \/ /\ IF outbox = {} THEN Batching(IF indexer.opening THEN "check" ELSE "pending", {}, {})
           ELSE Batching("drop", outbox, {})
        /\ UNCHANGED vectorCount
     \/ VectorFault /\ PhaseFails("pending")
  /\ UNCHANGED <<vectorRows, vectorIndex, asked, embedder, embedFailed, notifying, searching>>

DropDocuments ==
  /\ IndexerAt("drop")
  /\ \/ /\ docs' = (docs \cup uncommitted) \ indexer.batch /\ uncommitted' = {}
        /\ IndexerTo("clear") /\ UNCHANGED vectorCount
     \/ VectorFault /\ PhaseFails("pending") /\ UNCHANGED vectorIndex
  /\ UNCHANGED <<vectorRows, asked, embedder, embedFailed, notifying, searching>>

ClearOutbox ==
  /\ IndexerAt("clear")
  /\ \/ /\ vectors' = [a \in Attachments |-> IF a \in indexer.batch THEN 0 ELSE vectors[a]]
        /\ outbox' = outbox \ indexer.batch
        /\ Batching("garbage", {}, {}) /\ UNCHANGED vectorCount
     \/ VectorFault /\ PhaseFails("pending") /\ UNCHANGED <<vectors, outbox>>
  /\ UNCHANGED <<attached, lastAttached, sourceState, storeState, batchState, vectorIndex,
                 asked, embedder, embedFailed, notifying, searching>>

(* index_batch: the oldest files in progress, up to a count and a size.    *)
Oldest(set, n) == {a \in set : Cardinality({b \in set : b < a}) < n}

ParseSources ==
  LET pending == Oldest(Rows("in_progress"), IndexBatchFiles)
  IN /\ IndexerAt("pending")
     /\ \/ /\ pending = {} /\ Batching("embed", {}, {})
           /\ UNCHANGED vectorCount
        \/ /\ pending # {} /\ UNCHANGED vectorCount
           /\ \E n \in 1..Cardinality(pending) :
              \E ok \in SUBSET {a \in Oldest(pending, n) : sourceState[attached[a].source] = "live"} :
                Batching("fail", Oldest(pending, n), ok)
        \/ VectorFault /\ PhaseFails("embed")
     /\ UNCHANGED <<vectorRows, vectorIndex, asked, embedder, embedFailed, notifying, searching>>

(* Embedding comes before any write: a file that cannot be embedded is     *)
(* indexed without vectors.  The rest of the batch failed to parse.        *)
FailUnparsed ==
  LET bad == (indexer.batch \ indexer.ok) \cap Rows("in_progress")
  IN /\ IndexerAt("fail")
     /\ \/ /\ attached' = [a \in Attachments |->
                IF a \in bad THEN [attached[a] EXCEPT !.status = "failed"] ELSE attached[a]]
           /\ \E good \in SUBSET indexer.ok :
                /\ embedder = 0 => good = {}
                /\ \A a \in good : attached[a].source \notin Unembeddable
                /\ indexer' = [indexer EXCEPT !.at = IF indexer.ok = {} THEN "pending" ELSE "list",
                                              !.batch = indexer.ok,
                                              !.ok = good]
           /\ UNCHANGED vectorCount
        \/ VectorFault /\ PhaseFails("embed") /\ UNCHANGED attached
     /\ UNCHANGED <<lastAttached, sourceState, storeState, batchState, outbox, vectors,
                    vectorIndex, asked, embedder, embedFailed, notifying, searching>>

(* Mutant of ListAttempt: what is about to be written is not listed. *)
ListAttemptUnlisted ==
  LET still == indexer.batch \cap Rows("in_progress")
  IN /\ IndexerAt("list")
     /\ IF still = {} THEN Batching("pending", {}, {})
        ELSE Batching("write", still, indexer.ok \cap still)
     /\ UNCHANGED <<vectorRows, vectorIndex, asked, embedder, embedFailed, notifying,
                    searching, vectorCount>>

(* Under the writer lock: what is still in progress is listed, written and *)
(* committed to the index, and only then confirmed.                        *)
ListAttempt ==
  LET still == indexer.batch \cap Rows("in_progress")
  IN /\ IndexerAt("list")
     /\ \/ /\ outbox' = outbox \cup still /\ UNCHANGED vectorCount
           /\ IF still = {} THEN Batching("pending", {}, {})
              ELSE Batching("write", still, indexer.ok \cap still)
        \/ VectorFault /\ PhaseFails("embed") /\ UNCHANGED outbox
     /\ UNCHANGED <<attached, lastAttached, sourceState, storeState, batchState, vectors,
                    vectorIndex, asked, embedder, embedFailed, notifying, searching>>

WriteDocuments ==
  /\ IndexerAt("write")
  /\ \/ /\ docs' = docs \cup uncommitted \cup indexer.batch /\ uncommitted' = {}
        /\ IndexerTo("confirm") /\ UNCHANGED vectorCount
     \/ /\ VectorFault /\ PhaseFails("embed")
        /\ uncommitted' = uncommitted \cup indexer.batch /\ UNCHANGED docs
  /\ UNCHANGED <<vectorRows, asked, embedder, embedFailed, notifying, searching>>

ConfirmFiles ==
  LET done == indexer.batch \cap Rows("in_progress")
  IN /\ IndexerAt("confirm")
     /\ \/ /\ attached' = [a \in Attachments |->
                IF a \in done
                THEN [attached[a] EXCEPT !.status = "completed",
                                         !.space = IF a \in indexer.ok THEN embedder ELSE 0]
                ELSE attached[a]]
           /\ vectors' = [a \in Attachments |->
                IF a \in done \cap indexer.ok THEN embedder ELSE vectors[a]]
           /\ outbox' = outbox \ done
           /\ Batching("pending", {}, {}) /\ UNCHANGED vectorCount
        \/ VectorFault /\ PhaseFails("embed") /\ UNCHANGED <<attached, vectors, outbox>>
     /\ UNCHANGED <<lastAttached, sourceState, storeState, batchState, vectorIndex, asked,
                    embedder, embedFailed, notifying, searching>>

(* embed_batch: completed files without vectors of the installed model,    *)
(* those that failed before only when nothing else waits.  A batch ends    *)
(* with a file that fills it; one in which every file fails ends the run,  *)
(* as does a new request between batches.                                  *)
EmbedFiles ==
  LET lacking == {a \in Rows("completed") : attached[a].space # embedder}
      fresh   == lacking \ embedFailed
      queue   == Oldest(IF fresh # {} THEN fresh ELSE lacking, IndexBatchFiles)
  IN /\ IndexerAt("embed")
     /\ IF asked \/ embedder = 0 \/ queue = {}
        THEN indexer' = IdleIndexer /\ UNCHANGED <<embedFailed, vectorCount>>
        ELSE LET batch == {a \in queue : \A b \in queue : b < a => attached[b].source \notin Large}
                 able  == {a \in batch : attached[a].source \notin Unembeddable}
             IN \E good \in SUBSET able :
                  /\ IF good = able THEN UNCHANGED vectorCount ELSE VectorFault
                  /\ embedFailed' = embedFailed \cup (batch \ good)
                  /\ IF good = {} THEN indexer' = IdleIndexer
                     ELSE Batching("vectors", good, {})
     /\ UNCHANGED <<vectorRows, vectorIndex, asked, embedder, notifying, searching>>

(* Only if it is still the same completed attachment without vectors.      *)
StoreVectors ==
  LET still == {a \in indexer.batch \cap Rows("completed") : attached[a].space # embedder}
  IN /\ IndexerAt("vectors")
     /\ \/ /\ vectors' = [a \in Attachments |-> IF a \in still THEN embedder ELSE vectors[a]]
           /\ attached' = [a \in Attachments |->
                IF a \in still THEN [attached[a] EXCEPT !.space = embedder] ELSE attached[a]]
           /\ embedFailed' = embedFailed \ indexer.batch
           /\ Batching("embed", {}, {}) /\ UNCHANGED vectorCount
        \/ /\ VectorFault /\ indexer' = IdleIndexer
           /\ UNCHANGED <<vectors, attached, embedFailed>>
     /\ UNCHANGED <<lastAttached, sourceState, storeState, batchState, outbox, vectorIndex,
                    asked, embedder, notifying, searching>>

(***************************************************************************)
(* Crash, loss of the derived index, and VectorIndex::open, which collects,*)
(* compares documents with chunk rows by number and rebuilds on a mismatch.*)
(* A clean shutdown stops the thread between two steps and loses no more.  *)
(***************************************************************************)
CrashVectors ==
  /\ indexer.at # "down" /\ VectorFault
  /\ indexer' = [IdleIndexer EXCEPT !.at = "down"]
  /\ uncommitted' = {} /\ embedder' = 0 /\ embedFailed' = {}
  /\ notifying' = FALSE /\ searching' = IdleSearch
  /\ UNCHANGED <<vectorRows, docs, asked>>

LoseIndex ==
  /\ indexer.at = "down" /\ lostIndex < MaxLostIndex /\ lostIndex' = lostIndex + 1
  /\ docs' = {}
  /\ UNCHANGED <<vectorRows, uncommitted, vectorThread, notifying, searching, vectorTrouble,
                 changes>>

OpenIndex ==
  /\ indexer.at = "down"
  /\ indexer' = [IdleIndexer EXCEPT !.at = "garbage", !.opening = TRUE]
  /\ asked' = TRUE /\ uncommitted' = {}
  /\ UNCHANGED <<vectorRows, docs, embedder, embedFailed, notifying, searching, vectorCount>>

CheckIndex ==
  LET unconfirmed == Cardinality(docs \cap outbox)
      chunks      == Cardinality(Rows("completed"))
  IN /\ IndexerAt("check")
     /\ \/ /\ indexer' = IF Cardinality(docs) = unconfirmed + chunks
                         THEN [indexer EXCEPT !.at = "repair"]
                         ELSE [indexer EXCEPT !.at = "rebuild", !.rows = Rows("completed")]
           /\ UNCHANGED vectorCount
        \/ VectorFault /\ PhaseFails("down")
     /\ UNCHANGED <<vectorRows, vectorIndex, asked, embedder, embedFailed, notifying, searching>>

Rebuild ==
  /\ IndexerAt("rebuild")
  /\ \/ docs' = indexer.rows /\ IndexerTo("repair") /\ UNCHANGED vectorCount
     \/ VectorFault /\ PhaseFails("down") /\ UNCHANGED docs
  /\ UNCHANGED <<vectorRows, uncommitted, asked, embedder, embedFailed, notifying, searching>>

RepairVectors ==
  LET held == {a \in Rows("completed") : attached[a].space # 0}
      bad  == {a \in held : vectors[a] = 0}
  IN /\ IndexerAt("repair") /\ indexer' = IdleIndexer
     /\ vectors' = [a \in Attachments |-> IF a \in outbox \cup held THEN vectors[a] ELSE 0]
     /\ attached' = [a \in Attachments |->
          IF a \in bad THEN [attached[a] EXCEPT !.space = 0] ELSE attached[a]]
     /\ UNCHANGED <<lastAttached, sourceState, storeState, batchState, outbox, vectorIndex,
                    asked, embedder, embedFailed, notifying, searching, vectorCount>>

(***************************************************************************)
(* search_planned: embed the queries, take one snapshot of the database,   *)
(* then the index as it is by then.                                        *)
(***************************************************************************)
SearchEmbed ==
  /\ Serving /\ searching.at = "idle"
  /\ \E model \in {0, embedder} :
       searching' = [IdleSearch EXCEPT !.at = "snapshot", !.model = model]
  /\ UNCHANGED <<vectorRows, vectorIndex, vectorThread, notifying, vectorCount>>

SearchSnapshot ==
  LET files == {a \in Rows("completed") : sourceState[attached[a].source] = "live"}
  IN /\ searching.at = "snapshot"
     /\ IF storeState # "live" THEN searching' = IdleSearch
        ELSE searching' = [searching EXCEPT !.at = "rank", !.admitted = files,
               !.embedded = IF searching.model = 0 THEN {}
                            ELSE {a \in files : attached[a].space = searching.model /\ vectors[a] # 0}]
     /\ UNCHANGED <<vectorRows, vectorIndex, vectorThread, notifying, vectorCount>>

(* Mutant of SearchRank: one embedded file is taken for all. *)
SearchRankDense ==
  /\ searching.at = "rank"
  /\ searching' = [searching EXCEPT !.at = "answer",
                     !.hits = IF searching.embedded # {} THEN searching.embedded
                              ELSE searching.admitted \cap docs]
  /\ UNCHANGED <<vectorRows, vectorIndex, vectorThread, notifying, vectorCount>>

(* Dense when every admitted file has vectors of the model; otherwise the  *)
(* documents of the index join them (HYBRID), or stand alone (lexical).    *)
SearchRank ==
  LET lexical == searching.admitted \cap docs
      dense   == searching.embedded
      all     == searching.model # 0 /\ searching.admitted \subseteq dense
  IN /\ searching.at = "rank"
     /\ searching' = [searching EXCEPT !.at = "answer",
                        !.hits = IF all THEN dense ELSE lexical \cup dense]
     /\ UNCHANGED <<vectorRows, vectorIndex, vectorThread, notifying, vectorCount>>

SearchAnswer ==
  /\ searching.at = "answer" /\ searching' = IdleSearch
  /\ UNCHANGED <<vectorRows, vectorIndex, vectorThread, notifying, vectorCount>>

IndexerStep ==
  \/ TakeNotification \/ PurgeTimer \/ ReadGarbage \/ DropDocuments \/ ClearOutbox
  \/ ParseSources \/ FailUnparsed \/ ListAttempt \/ WriteDocuments \/ ConfirmFiles
  \/ EmbedFiles \/ StoreVectors \/ OpenIndex \/ CheckIndex \/ Rebuild \/ RepairVectors

VectorsNext ==
  \/ Attach \/ DeleteVectorStoreFile \/ DeleteVectorStore \/ UpdateVectorStore
  \/ CancelVectorStoreFileBatch \/ DeleteSource \/ NotifyIndexer \/ DropHandler
  \/ SetEmbedder \/ ExpireVectorThings \/ IndexerStep \/ CrashVectors \/ LoseIndex
  \/ SearchEmbed \/ SearchSnapshot \/ SearchRank \/ SearchAnswer

VectorsSpec == VectorsInit /\ [][VectorsNext]_vectorVars

(* The thread goes on, its purge timer fires, and a server that is down    *)
(* is started again.                                                       *)
VectorsFairness == WF_vectorVars(IndexerStep)

(***************************************************************************)
(* Properties.                                                             *)
(***************************************************************************)
(* The invariant of vector_stores.rs, "Index and consistency": while the   *)
(* index is in use every completed file has its document, and any other    *)
(* document, like any vector row not of a completed file in its space, is  *)
(* listed for removal; so deletion, cancellation, re-attachment, a failed  *)
(* step or a crash can neither hide a file nor leave garbage for ever.     *)
IndexInvariant ==
  LET completed == Rows("completed")
  IN Serving =>
       /\ completed \subseteq docs
       /\ docs \subseteq completed \cup outbox
       /\ uncommitted \subseteq outbox
       /\ \A a \in Attachments :
            /\ a \in completed => vectors[a] = attached[a].space
            /\ vectors[a] # 0 => a \in completed \cup outbox

(* A search answers from a database snapshot and a later state of the      *)
(* index, and still misses no file that stayed searchable and shows none   *)
(* that was not completed when it looked.                                  *)
SearchFindsAll ==
  searching.at = "answer" =>
    /\ searching.hits \subseteq searching.admitted
    /\ searching.admitted \cap Rows("completed") \subseteq searching.hits

(* What the indexer still owes an attachment: to settle it, or the vectors *)
(* of the installed model.                                                 *)
Owed(a) ==
  \/ attached[a].status = "in_progress"
  \/ /\ attached[a].status = "completed" /\ attached[a].source \notin Unembeddable
     /\ embedder # 0 /\ attached[a].space # embedder

(* Every attached file is settled or removed, and every completed file the *)
(* installed model can embed gets its vectors, even when its notification  *)
(* is lost, the batch fails or another file can never be embedded: the     *)
(* timer's run and the order of the backfill see to it.                    *)
VectorsCatchUp == \A a \in Attachments : Owed(a) ~> ~Owed(a)
=============================================================================
