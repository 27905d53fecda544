------------------------------- MODULE Blobs -------------------------------
(***************************************************************************)
(* The large strings of stored responses, kept once in content-addressed   *)
(* blobs that each record names by hard links (store.rs).  Several         *)
(* processes save, load, delete and sweep the same directory; one action   *)
(* is one file operation, so a crash may fall between any two.             *)
(***************************************************************************)
EXTENDS Naturals, FiniteSets

CONSTANTS
  BlobProcs, Records, Digests,
  MaxBlobFaults,   \* bound: file operations that fail
  MaxBlobCrashes,  \* bound: processes that die
  MaxSaves         \* bound: saves begun

ASSUME BlobsAssumption ==
  MaxBlobFaults \in Nat /\ MaxBlobCrashes \in Nat /\ MaxSaves \in Nat

VARIABLES
  named,      \* per record: whether it is stored, and the blobs its file names
  blobs,      \* the blobs by their own name
  links,      \* the hard links, as (record, digest)
  procs,      \* what each process is doing
  corrupt,    \* whether some load found a stored record broken
  swept,      \* no record went and no save broke off since the last whole collection
  blobFaults, blobCrashes, saves

blobVars == <<named, blobs, links, procs, corrupt, swept, blobFaults, blobCrashes,
              saves>>

Resting == [at |-> "rest", id |-> "", want |-> {}, todo |-> {}, shared |-> FALSE,
            kept |-> {}]

BlobsInit ==
  /\ named = [id \in Records |-> [state |-> "new", of |-> {}]]
  /\ blobs = {} /\ links = {}
  /\ procs = [p \in BlobProcs |-> Resting]
  /\ corrupt = FALSE /\ swept = TRUE
  /\ blobFaults = 0 /\ blobCrashes = 0 /\ saves = 0

Go(p, job) == procs' = [procs EXCEPT ![p] = job]
At(p, where) == procs[p].at = where

(* blob_lock *)
Collecting == {"list", "links", "blobs"}
Exclusive == \E p \in BlobProcs : procs[p].at \in Collecting
Locked == Exclusive \/ \E p \in BlobProcs : procs[p].shared

(* The operation of p fails, and p returns: its locks drop. *)
BlobFault(p) ==
  /\ blobFaults < MaxBlobFaults
  /\ blobFaults' = blobFaults + 1
  /\ swept' = (swept /\ ~procs[p].shared)
  /\ Go(p, Resting)

----------------------------------------------------------------------------
(* save_with: one writer of a record at a time, which holds its lease. *)

Saving(id) ==
  \E p \in BlobProcs : procs[p].at \in {"blob", "rename"} /\ procs[p].id = id

(* Mutant of BeginSave: the blobs are written without the lock. *)
BeginSaveUnlocked(p, id, want) ==
  /\ At(p, "rest") /\ named[id].state # "deleted" /\ ~Saving(id)
  /\ saves < MaxSaves /\ saves' = saves + 1
  /\ Go(p, [Resting EXCEPT !.at = IF want = {} THEN "rename" ELSE "blob",
                           !.id = id, !.want = want, !.todo = want])
  /\ UNCHANGED <<named, blobs, links, corrupt, swept, blobFaults, blobCrashes>>

BeginSave(p, id, want) ==
  /\ At(p, "rest") /\ named[id].state # "deleted" /\ ~Saving(id)
  /\ saves < MaxSaves /\ saves' = saves + 1
  /\ IF want = {}
     THEN Go(p, [Resting EXCEPT !.at = "rename", !.id = id])
     ELSE /\ ~Exclusive
          /\ Go(p, [Resting EXCEPT !.at = "blob", !.id = id, !.want = want,
                                   !.todo = want, !.shared = TRUE])
  /\ UNCHANGED <<named, blobs, links, corrupt, swept, blobFaults, blobCrashes>>

(* write_blobs: a blob that is not stored yet is written and renamed to    *)
(* its name, then linked; one the record links already is left alone.      *)
WriteBlob(p) ==
  LET job == procs[p]
  IN /\ At(p, "blob")
     /\ \/ /\ \E d \in job.todo :
                \/ /\ <<job.id, d>> \in links
                   /\ Go(p, [job EXCEPT !.todo = @ \ {d}])
                   /\ UNCHANGED <<blobs, links>>
                \/ /\ <<job.id, d>> \notin links /\ d \notin blobs
                   /\ blobs' = blobs \cup {d}
                   /\ UNCHANGED <<links, procs>>
                \/ /\ <<job.id, d>> \notin links /\ d \in blobs
                   /\ links' = links \cup {<<job.id, d>>}
                   /\ UNCHANGED <<blobs, procs>>
           /\ UNCHANGED <<swept, blobFaults>>
        \/ /\ job.todo = {}
           /\ Go(p, [job EXCEPT !.at = "rename"])
           /\ UNCHANGED <<blobs, links, swept, blobFaults>>
        \/ /\ BlobFault(p) /\ UNCHANGED <<blobs, links>>
     /\ UNCHANGED <<named, corrupt, blobCrashes, saves>>

(* The record is renamed into place; only then does the lock drop. *)
RenameRecord(p) ==
  LET job == procs[p]
  IN /\ At(p, "rename")
     /\ \/ /\ named' = [named EXCEPT ![job.id] = [state |-> "stored", of |-> job.want]]
           /\ Go(p, Resting) /\ UNCHANGED <<swept, blobFaults>>
        \/ BlobFault(p) /\ UNCHANGED named
     /\ UNCHANGED <<blobs, links, corrupt, blobCrashes, saves>>

----------------------------------------------------------------------------
(* delete and sweep: records go without the lock, then the collection. *)

DeleteRecord(p, id) ==
  /\ At(p, "rest") /\ named[id].state = "stored" /\ ~Saving(id)
  /\ named' = [named EXCEPT ![id] = [state |-> "deleted", of |-> {}]]
  /\ Go(p, [Resting EXCEPT !.at = "collect"])
  /\ swept' = FALSE
  /\ UNCHANGED <<blobs, links, corrupt, blobFaults, blobCrashes, saves>>

SweepBlobs(p) ==
  /\ At(p, "rest") /\ (blobs # {} \/ links # {})
  /\ Go(p, [Resting EXCEPT !.at = "collect"])
  /\ UNCHANGED <<named, blobs, links, corrupt, swept, blobFaults, blobCrashes, saves>>

(* collect_blobs: the exclusive lock, one listing, then every link without *)
(* its record goes, then every blob that no link kept names.               *)
CollectLock(p) ==
  /\ At(p, "collect") /\ ~Locked
  /\ Go(p, [Resting EXCEPT !.at = "list"])
  /\ UNCHANGED <<named, blobs, links, corrupt, swept, blobFaults, blobCrashes, saves>>

Listed == {id \in Records : named[id].state = "stored"}

CollectList(p) ==
  /\ At(p, "list")
  /\ Go(p, [Resting EXCEPT !.at = "links",
                           !.kept = {l \in links : l[1] \in Listed},
                           !.todo = {l \in links : l[1] \notin Listed}])
  /\ swept' = TRUE
  /\ UNCHANGED <<named, blobs, links, corrupt, blobFaults, blobCrashes, saves>>

CollectFault(p) ==
  /\ blobFaults < MaxBlobFaults /\ blobFaults' = blobFaults + 1
  /\ swept' = FALSE /\ Go(p, Resting)

CollectLinks(p) ==
  LET job == procs[p]
      linked == {l[2] : l \in job.kept}
  IN /\ At(p, "links")
     /\ \/ /\ \E l \in job.todo :
                /\ links' = links \ {l}
                /\ Go(p, [job EXCEPT !.todo = @ \ {l}])
           /\ UNCHANGED <<swept, blobFaults>>
        \/ /\ job.todo = {}
           /\ Go(p, [job EXCEPT !.at = "blobs", !.todo = blobs \ linked])
           /\ UNCHANGED <<links, swept, blobFaults>>
        \/ CollectFault(p) /\ UNCHANGED links
     /\ UNCHANGED <<named, blobs, corrupt, blobCrashes, saves>>

CollectBlobs(p) ==
  LET job == procs[p]
  IN /\ At(p, "blobs")
     /\ \/ /\ \E d \in job.todo :
                /\ blobs' = blobs \ {d}
                /\ Go(p, [job EXCEPT !.todo = @ \ {d}])
           /\ UNCHANGED <<swept, blobFaults>>
        \/ job.todo = {} /\ Go(p, Resting) /\ UNCHANGED <<blobs, swept, blobFaults>>
        \/ CollectFault(p) /\ UNCHANGED blobs
     /\ UNCHANGED <<named, links, corrupt, blobCrashes, saves>>

----------------------------------------------------------------------------
(* load and resolve, which take no lock: the record's file, then each blob *)
(* through the record's own link.  A missing link of a record that is gone *)
(* is a deletion meanwhile; of one still there, corruption.                *)

LoadRecord(p, id) ==
  /\ At(p, "rest") /\ named[id].state = "stored"
  /\ Go(p, [Resting EXCEPT !.at = "resolve", !.id = id, !.todo = named[id].of])
  /\ UNCHANGED <<named, blobs, links, corrupt, swept, blobFaults, blobCrashes, saves>>

Resolve(p) ==
  LET job == procs[p]
  IN /\ At(p, "resolve")
     /\ \/ /\ job.todo = {} /\ Go(p, Resting) /\ UNCHANGED corrupt
        \/ \E d \in job.todo :
             IF <<job.id, d>> \in links
             THEN Go(p, [job EXCEPT !.todo = @ \ {d}]) /\ UNCHANGED corrupt
             ELSE /\ corrupt' = (corrupt \/ named[job.id].state = "stored")
                  /\ Go(p, Resting)
     /\ UNCHANGED <<named, blobs, links, swept, blobFaults, blobCrashes, saves>>

(* A process dies: its locks are released with it. *)
BlobCrash(p) ==
  /\ ~At(p, "rest") /\ blobCrashes < MaxBlobCrashes
  /\ blobCrashes' = blobCrashes + 1
  /\ swept' = (swept /\ ~procs[p].shared /\ procs[p].at \notin Collecting)
  /\ Go(p, Resting)
  /\ UNCHANGED <<named, blobs, links, corrupt, blobFaults, saves>>

BlobsNext ==
  \E p \in BlobProcs :
    \/ \E id \in Records, want \in SUBSET Digests : BeginSave(p, id, want)
    \/ \E id \in Records : DeleteRecord(p, id) \/ LoadRecord(p, id)
    \/ WriteBlob(p) \/ RenameRecord(p) \/ SweepBlobs(p) \/ CollectLock(p)
    \/ CollectList(p) \/ CollectLinks(p) \/ CollectBlobs(p) \/ Resolve(p) \/ BlobCrash(p)

BlobsSpec == BlobsInit /\ [][BlobsNext]_blobVars

----------------------------------------------------------------------------
(* Every stored record can be loaded whole, and no load ever finds one     *)
(* broken: no collection, by whichever process and however far it got,     *)
(* takes a link a stored record names or is about to name ("collection     *)
(* never sees a link whose record is about to appear").                    *)
RecordsResolve ==
  /\ \A id \in Records : named[id].of \subseteq {d \in Digests : <<id, d>> \in links}
  /\ ~corrupt

(* After a whole collection nothing is left over: while no save runs and   *)
(* no record went since, every link has its record and every blob a link.  *)
NothingLeftOver ==
  (swept /\ \A p \in BlobProcs : ~procs[p].shared /\ procs[p].at \notin Collecting) =>
    /\ \A l \in links : named[l[1]].state = "stored"
    /\ \A d \in blobs : \E l \in links : l[2] = d

(* Collection takes all that no record names, and nothing else.            *)
BlobsInv == RecordsResolve /\ NothingLeftOver

----------------------------------------------------------------------------
(* The inductive invariant behind BlobsInv (BlobsProofs).                  *)

BlobLinks == Records \X Digests
Places == {"rest", "blob", "rename", "collect", "resolve"} \cup Collecting
BlobJob == [at: Places, id: Records \cup {""}, want: SUBSET Digests,
            todo: SUBSET (Digests \cup BlobLinks), shared: BOOLEAN,
            kept: SUBSET BlobLinks]

BlobsTypeOK ==
  /\ named \in [Records -> [state: {"new", "stored", "deleted"}, of: SUBSET Digests]]
  /\ blobs \subseteq Digests /\ links \subseteq BlobLinks
  /\ procs \in [BlobProcs -> BlobJob]
  /\ corrupt \in BOOLEAN /\ swept \in BOOLEAN
  /\ blobFaults \in Nat /\ blobCrashes \in Nat /\ saves \in Nat

(* Whoever has blobs to name holds the shared lock, until the record names *)
(* them; a collector is alone.                                             *)
LocksHeld ==
  /\ \A p \in BlobProcs :
       /\ procs[p].shared => procs[p].at \in {"blob", "rename"}
       /\ procs[p].at = "blob" => procs[p].shared
       /\ procs[p].at = "rename" /\ procs[p].want # {} => procs[p].shared
  /\ \A p, q \in BlobProcs :
       procs[p].at \in Collecting /\ p # q =>
         procs[q].at \notin Collecting /\ ~procs[q].shared

(* A save has linked what it no longer has to do; nobody deletes the       *)
(* record meanwhile.                                                       *)
SavesLinked ==
  \A p \in BlobProcs :
    /\ procs[p].at \in {"blob", "rename"} =>
         /\ procs[p].id \in Records
         /\ named[procs[p].id].state # "deleted"
         /\ procs[p].todo \subseteq procs[p].want
         /\ \A d \in procs[p].want \ procs[p].todo : <<procs[p].id, d>> \in links
    /\ procs[p].at = "rename" => procs[p].todo = {}

(* The blobs a record names, and those a load is still to read of a record *)
(* that is stored, have their links.                                       *)
NamesLinked ==
  /\ \A id \in Records :
       /\ named[id].state # "stored" => named[id].of = {}
       /\ \A d \in named[id].of : <<id, d>> \in links
  /\ \A p \in BlobProcs : procs[p].at = "resolve" =>
       /\ procs[p].id \in Records
       /\ named[procs[p].id].state \in {"stored", "deleted"}
       /\ procs[p].todo \subseteq Digests
       /\ named[procs[p].id].state = "stored" =>
            \A d \in procs[p].todo : <<procs[p].id, d>> \in links

(* What a collector is about to unlink nobody names or will read, and what *)
(* it keeps is there.                                                      *)
CollectsGarbage ==
  \A p \in BlobProcs :
    /\ procs[p].at = "links" =>
         /\ procs[p].todo \subseteq BlobLinks
         /\ procs[p].kept \subseteq links \ procs[p].todo
         /\ \A l \in procs[p].todo :
              /\ l[2] \notin named[l[1]].of
              /\ \A q \in BlobProcs :
                   procs[q].at = "resolve" /\ procs[q].id = l[1] /\ l[2] \in procs[q].todo
                     => named[l[1]].state = "deleted"
    /\ procs[p].at = "blobs" => procs[p].todo \subseteq Digests

(* Since a whole collection, only saves and the collection under way have  *)
(* links without a record and blobs without a link.                        *)
LeftoversOwned ==
  swept =>
    /\ \A l \in links :
         \/ named[l[1]].state = "stored"
         \/ \E p \in BlobProcs :
              \/ procs[p].shared /\ procs[p].id = l[1]
              \/ procs[p].at = "links" /\ l \in procs[p].todo
    /\ \A d \in blobs :
         \/ \E l \in links : l[2] = d
         \/ \E p \in BlobProcs :
              \/ procs[p].at = "blob" /\ d \in procs[p].todo
              \/ procs[p].at = "links"
              \/ procs[p].at = "blobs" /\ d \in procs[p].todo

BlobsIInv ==
  /\ BlobsTypeOK /\ LocksHeld /\ SavesLinked /\ NamesLinked /\ CollectsGarbage
  /\ LeftoversOwned /\ ~corrupt
============================================================================
