---------------------------- MODULE PromptCache ----------------------------
(***************************************************************************)
(* The disk tier of the prompt cache (local-engine prompt_cache.rs and     *)
(* prompt_cache/writer.rs): in each process one writer thread stores       *)
(* snapshots through a one-slot queue, sweeps abandoned temporaries and    *)
(* trims the directory, which processes share; the engine lists what the   *)
(* writer reports.                                                         *)
(*                                                                         *)
(* A file is a name and an inode: two processes that store the same        *)
(* content use the same names.  The payload is abstracted to whether the   *)
(* inode holds all of it; one action is one system call or one critical    *)
(* section of the writer's mutex.                                          *)
(***************************************************************************)
EXTENDS Eviction

CONSTANTS
  CacheProcs,      \* processes sharing the directory
  CacheJobs,       \* snapshots: [tokens, content, boundary]
  DiskBudget,      \* bytes the committed snapshots may take
  MaxCacheInodes,  \* bound: inodes in use at a time
  MaxSubmissions,  \* bound: snapshots submitted
  MaxCacheFaults,  \* bound: stores that fail on their own
  MaxCacheStops    \* bound: processes that stop

ASSUME CacheBoundsAssumption ==
  /\ IsFiniteSet(CacheProcs)
  /\ CacheJobs \subseteq [tokens : Seq(Nat), content : Nat, boundary : BOOLEAN]
  /\ {DiskBudget, MaxCacheInodes, MaxSubmissions, MaxCacheFaults, MaxCacheStops} \subseteq Nat

VARIABLES
  temps,    \* the .tmp names: the inode of each, 0 for none
  finals,   \* the .bpc entries, oldest first: [name, inode]
  inodes,   \* [whole, boundary, lock]: lock is the set of the locking process
  cache,    \* each process
  submissions, cacheFaults, cacheStops

cacheDir    == <<temps, finals, inodes>>
cacheBounds == <<submissions, cacheFaults, cacheStops>>
cacheVars   == <<cacheDir, cache, cacheBounds>>

(* store names a file by position and content.                             *)
NameOf(j)  == <<j.tokens, j.content>>
CacheNames == {NameOf(j) : j \in CacheJobs}
Inodes     == 1..MaxCacheInodes
NoWrite      == [tokens |-> <<>>, content |-> 0, boundary |-> FALSE]
FreeInode  == [whole |-> FALSE, boundary |-> FALSE, lock |-> {}]
EntryOf(name, boundary) == [name |-> name, tokens |-> name[1], boundary |-> boundary,
                            bytes |-> Len(name[1])]

Down == [at |-> "down", job |-> NoWrite, handle |-> 0, todo |-> <<>>, stored |-> FALSE,
         queued |-> NoWrite, inFlight |-> FALSE, known |-> FALSE, index |-> <<>>,
         completed |-> <<>>, closing |-> "no", abort |-> FALSE, listed |-> {},
         gone |-> {}]

PromptCacheInit ==
  /\ temps = [n \in CacheNames |-> 0] /\ finals = <<>>
  /\ inodes = [i \in Inodes |-> FreeInode]
  /\ cache = [p \in CacheProcs |-> Down]
  /\ submissions = 0 /\ cacheFaults = 0 /\ cacheStops = 0

CacheAt(p, at) == cache[p].at = at
CacheTo(p, at) == cache' = [cache EXCEPT ![p].at = at]
Named(p)       == NameOf(cache[p].job)
Pending(p)     == cache[p].inFlight \/ cache[p].queued # NoWrite
Serves(p)      == cache[p].at \notin {"down", "start sweep", "start unlink", "start trim"}
InUse(i)       == \/ \E n \in CacheNames : temps[n] = i
                  \/ \E k \in DOMAIN finals : finals[k].inode = i
                  \/ \E p \in CacheProcs : cache[p].handle = i
FinalNames     == {finals[k].name : k \in DOMAIN finals}

(* discover: the headers and tokens of the committed files; those of a     *)
(* file being rewritten may or may not be there yet (readable).            *)
Discover(readable) ==
  LET seen == RetainOnly(finals, {k \in DOMAIN finals : inodes[finals[k].inode].whole \/ readable})
  IN [k \in DOMAIN seen |-> EntryOf(seen[k].name, inodes[seen[k].inode].boundary)]

(***************************************************************************)
(* Start: reclaim sweeps and trims, then the engine lists the directory.   *)
(***************************************************************************)
Temporaries == SetToSeq({n \in CacheNames : temps[n] # 0})

StartCache(p) ==
  /\ CacheAt(p, "down")
  /\ cache' = [cache EXCEPT ![p].at = "start sweep", ![p].todo = Temporaries]
  /\ UNCHANGED <<cacheDir, cacheBounds>>

(* evict_over: the files go, the index keeps the rest.                     *)
Trimmed(index) == LET kept == KeptAfter(index, DiskBudget)
                  IN {index[k].name : k \in DOMAIN index \ kept}
KeepNamed(index, names) == RetainOnly(index, {k \in DOMAIN index : index[k].name \notin names})
UnlinkFinals(names)     == finals' = KeepNamed(finals, names)

StartTrim(p) ==
  /\ CacheAt(p, "start trim")
  /\ \E readable \in BOOLEAN :
       LET index == Discover(readable)
       IN /\ UnlinkFinals(Trimmed(index))
          /\ cache' = [cache EXCEPT ![p].at = "wait",
                         ![p].listed = ToSet(KeepNamed(index, Trimmed(index)))]
  /\ UNCHANGED <<temps, inodes, cacheBounds>>

(***************************************************************************)
(* The engine: submit and collect_disk_writes, load.                       *)
(***************************************************************************)
(* enqueue: a newer job replaces the waiting one, but no tail a boundary.  *)
SubmitWrite(p) ==
  \E j \in CacheJobs :
    /\ Serves(p) /\ submissions < MaxSubmissions /\ submissions' = submissions + 1
    /\ cache' = [cache EXCEPT ![p].queued =
         IF cache[p].closing # "no" \/ (@.boundary /\ ~j.boundary) THEN @ ELSE j]
    /\ UNCHANGED <<cacheDir, cacheFaults, cacheStops>>

(* Completions in order: index what was stored, then forget what its trim  *)
(* deleted.                                                                *)
AfterCompletion(listed, c) ==
  {e \in ({d \in listed : c.stored = <<>> \/ d.tokens # c.stored[1].tokens}
           \cup ToSet(c.stored)) : e.name \notin c.evicted}

Collected(p) ==
  LET completed == cache[p].completed
      after[k \in 0..Len(completed)] ==
        IF k = 0 THEN cache[p].listed ELSE AfterCompletion(after[k - 1], completed[k])
  IN after[Len(completed)]

CollectDiskWrites(p) ==
  /\ Serves(p) /\ cache[p].completed # <<>>
  /\ cache' = [cache EXCEPT ![p].listed = Collected(p), ![p].completed = <<>>]
  /\ UNCHANGED <<cacheDir, cacheBounds>>

(* load: a file that is gone or fails its checksums is dropped from the    *)
(* list (restore_disk_snapshot); any other restores.                       *)
LoadFails(p) ==
  /\ Serves(p)
  /\ \E e \in cache[p].listed :
       /\ \A k \in DOMAIN finals : finals[k].name = e.name => ~inodes[finals[k].inode].whole
       /\ cache' = [cache EXCEPT ![p].listed = @ \ {e}]
  /\ UNCHANGED <<cacheDir, cacheBounds>>

(***************************************************************************)
(* The writer thread: run and persist.                                     *)
(***************************************************************************)
Complete(p, stored, evicted) ==
  [cache[p] EXCEPT !.at = "wait", !.job = NoWrite, !.inFlight = FALSE, !.stored = FALSE,
     !.completed = Append(@, [stored |-> stored, evicted |-> evicted])]

(* Without a job the daily write budget refuses nothing; with one it may.  *)
TakeJob(p) ==
  /\ CacheAt(p, "wait") /\ cache[p].queued # NoWrite
  /\ \E within \in BOOLEAN :
       cache' = [cache EXCEPT ![p] =
         IF within THEN [@ EXCEPT !.at = "admit", !.job = cache[p].queued, !.queued = NoWrite,
                                  !.inFlight = TRUE]
         ELSE [Complete(p, <<>>, {}) EXCEPT !.queued = NoWrite]]
  /\ UNCHANGED <<cacheDir, cacheBounds>>

AdmitJob(p) ==
  /\ CacheAt(p, "admit")
  /\ \E readable \in BOOLEAN :
       LET index == IF cache[p].known THEN cache[p].index ELSE Discover(readable)
           new   == EntryOf(Named(p), cache[p].job.boundary)
           next  == IF Admits(index, new, DiskBudget)
                    THEN [cache[p] EXCEPT !.at = "open"] ELSE Complete(p, <<>>, {})
       IN cache' = [cache EXCEPT ![p] = [next EXCEPT !.known = TRUE, !.index = index]]
  /\ UNCHANGED <<cacheDir, cacheBounds>>

(* create_locked: open creates and locks at once, or waits for the lock of *)
(* the inode it found under the name.                                      *)
OpenTemporary(p) ==
  /\ CacheAt(p, "open")
  /\ IF temps[Named(p)] # 0
     THEN /\ cache' = [cache EXCEPT ![p].at = "lock", ![p].handle = temps[Named(p)]]
          /\ UNCHANGED <<temps, inodes>>
     ELSE LET i == CHOOSE i \in Inodes : ~InUse(i)
          IN /\ \E k \in Inodes : ~InUse(k)
             /\ temps' = [temps EXCEPT ![Named(p)] = i]
             /\ inodes' = [inodes EXCEPT ![i] = [whole |-> FALSE, lock |-> {p},
                                                 boundary |-> cache[p].job.boundary]]
             /\ cache' = [cache EXCEPT ![p].at = "write", ![p].handle = i]
  /\ UNCHANGED <<finals, cacheBounds>>

LockTemporary(p) ==
  LET i == cache[p].handle
  IN /\ CacheAt(p, "lock") /\ inodes[i].lock = {}
     /\ inodes' = [inodes EXCEPT ![i] = [whole |-> FALSE, lock |-> {p},
                                         boundary |-> cache[p].job.boundary]]
     /\ CacheTo(p, "write")
     /\ UNCHANGED <<temps, finals, cacheBounds>>

(* write_temporary: all pieces and the fsync, or an abort or error between *)
(* pieces; either way the file, and with it the lock, is dropped as it     *)
(* returns.                                                                *)
WriteTemporary(p) ==
  LET i == cache[p].handle
  IN /\ CacheAt(p, "write")
     /\ \/ /\ cache' = [cache EXCEPT ![p].at = "rename", ![p].handle = 0]
           /\ inodes' = [inodes EXCEPT ![i].whole = TRUE, ![i].lock = {}]
           /\ UNCHANGED cacheFaults
        \/ /\ IF cache[p].abort THEN UNCHANGED cacheFaults
              ELSE cacheFaults < MaxCacheFaults /\ cacheFaults' = cacheFaults + 1
           /\ cache' = [cache EXCEPT ![p].at = "failed", ![p].handle = 0]
           /\ inodes' = [inodes EXCEPT ![i].lock = {}]
     /\ UNCHANGED <<temps, finals, submissions, cacheStops>>

RenameTemporary(p) ==
  LET n == Named(p)
  IN /\ CacheAt(p, "rename")
     /\ IF temps[n] = 0 THEN CacheTo(p, "failed") /\ UNCHANGED <<temps, finals>>
        ELSE /\ finals' = Append(KeepNamed(finals, {n}),
                                 [name |-> n, inode |-> temps[n]])
             /\ temps' = [temps EXCEPT ![n] = 0]
             /\ CacheTo(p, "insert")
     /\ UNCHANGED <<inodes, cacheBounds>>

RemoveFailed(p) ==
  /\ CacheAt(p, "failed")
  /\ temps' = [temps EXCEPT ![Named(p)] = 0]
  /\ CacheTo(p, "list")
  /\ UNCHANGED <<finals, inodes, cacheBounds>>

(* DiskIndex::insert: newest, if the file is still there.                  *)
InsertStored(p) ==
  LET n == Named(p)
      others == KeepNamed(cache[p].index, {n})
  IN /\ CacheAt(p, "insert")
     /\ cache' = [cache EXCEPT ![p].at = "list", ![p].stored = TRUE,
          ![p].gone = @ \ {n},
          ![p].index = IF n \in FinalNames
                       THEN Append(others, EntryOf(n, cache[p].job.boundary)) ELSE others]
     /\ UNCHANGED <<cacheDir, cacheBounds>>

(* sweep_abandoned_temporaries: open, try_lock, and remove by name while   *)
(* holding the lock.                                                       *)
ListTemporaries(p) ==
  /\ CacheAt(p, "list")
  /\ cache' = [cache EXCEPT ![p].at = "sweep", ![p].todo = Temporaries]
  /\ UNCHANGED <<cacheDir, cacheBounds>>

Starting(p) == cache[p].at \in {"start sweep", "start unlink"}

Sweep(p) ==
  LET todo == cache[p].todo
      i    == temps[Head(todo)]
  IN /\ cache[p].at \in {"sweep", "start sweep"}
     /\ IF todo = <<>> THEN CacheTo(p, IF Starting(p) THEN "start trim" ELSE "trim")
                            /\ UNCHANGED inodes
        ELSE IF i = 0 \/ inodes[i].lock # {}
        THEN cache' = [cache EXCEPT ![p].todo = Tail(@)] /\ UNCHANGED inodes
        ELSE /\ inodes' = [inodes EXCEPT ![i].lock = {p}]
             /\ cache' = [cache EXCEPT ![p].handle = i,
                            ![p].at = IF Starting(p) THEN "start unlink" ELSE "unlink"]
     /\ UNCHANGED <<temps, finals, cacheBounds>>

SweepUnlink(p) ==
  LET n == Head(cache[p].todo)
  IN /\ cache[p].at \in {"unlink", "start unlink"}
     /\ temps' = [temps EXCEPT ![n] = 0]
     /\ inodes' = [inodes EXCEPT ![cache[p].handle].lock = {}]
     /\ cache' = [cache EXCEPT ![p].handle = 0, ![p].todo = Tail(@),
                    ![p].at = IF Starting(p) THEN "start sweep" ELSE "sweep"]
     /\ UNCHANGED <<finals, cacheBounds>>

(* Mutant of Trim: the engine is not told what went. *)
TrimUnreported(p) ==
  LET evicted == Trimmed(cache[p].index)
      stored  == IF cache[p].stored
                 THEN <<EntryOf(Named(p), cache[p].job.boundary)>> ELSE <<>>
  IN /\ CacheAt(p, "trim")
     /\ UnlinkFinals(evicted)
     /\ cache' = [cache EXCEPT ![p] =
                    [Complete(p, stored, {}) EXCEPT
                       !.index = KeepNamed(@, evicted), !.gone = @ \cup evicted]]
     /\ UNCHANGED <<temps, inodes, cacheBounds>>

Trim(p) ==
  LET evicted == Trimmed(cache[p].index)
      stored  == IF cache[p].stored
                 THEN <<EntryOf(Named(p), cache[p].job.boundary)>> ELSE <<>>
  IN /\ CacheAt(p, "trim")
     /\ UnlinkFinals(evicted)
     /\ cache' = [cache EXCEPT ![p] =
                    [Complete(p, stored, evicted) EXCEPT
                       !.index = KeepNamed(@, evicted), !.gone = @ \cup evicted]]
     /\ UNCHANGED <<temps, inodes, cacheBounds>>

(***************************************************************************)
(* Closer::close, with its deadline, and the end of a process, which frees *)
(* its locks and leaves its temporary behind.                              *)
(***************************************************************************)
CloseCache(p) ==
  /\ Serves(p) /\ cache[p].closing = "no"
  /\ cache' = [cache EXCEPT ![p].closing = "waiting"]
  /\ UNCHANGED <<cacheDir, cacheBounds>>

WriterFlushed(p) ==
  /\ cache[p].closing \in {"waiting", "aborting"} /\ ~Pending(p)
  /\ cache' = [cache EXCEPT ![p].closing =
                 IF @ = "waiting" THEN "flushed" ELSE "aborted"]
  /\ UNCHANGED <<cacheDir, cacheBounds>>

Deadline(p) ==
  /\ cache[p].closing = "waiting" /\ Pending(p)
  /\ cache' = [cache EXCEPT ![p].closing = "aborting", ![p].queued = NoWrite,
                            ![p].abort = TRUE]
  /\ UNCHANGED <<cacheDir, cacheBounds>>

StopCache(p) ==
  /\ cache[p].at # "down" /\ cacheStops < MaxCacheStops /\ cacheStops' = cacheStops + 1
  /\ cache' = [cache EXCEPT ![p] = Down]
  /\ inodes' = [i \in Inodes |-> [inodes[i] EXCEPT !.lock = @ \ {p}]]
  /\ UNCHANGED <<temps, finals, submissions, cacheFaults>>

PromptCacheNext ==
  \E p \in CacheProcs :
    \/ StartCache(p) \/ StartTrim(p) \/ SubmitWrite(p) \/ CollectDiskWrites(p) \/ LoadFails(p)
    \/ TakeJob(p) \/ AdmitJob(p) \/ OpenTemporary(p) \/ LockTemporary(p)
    \/ WriteTemporary(p) \/ RenameTemporary(p) \/ RemoveFailed(p) \/ InsertStored(p)
    \/ ListTemporaries(p) \/ Sweep(p) \/ SweepUnlink(p) \/ Trim(p)
    \/ CloseCache(p) \/ WriterFlushed(p) \/ Deadline(p) \/ StopCache(p)

PromptCacheSpec == PromptCacheInit /\ [][PromptCacheNext]_cacheVars

(***************************************************************************)
(* Properties.                                                             *)
(***************************************************************************)
Contents == {<<j.tokens, j.content>> : j \in CacheJobs}
OneContent == \A a, b \in Contents : a[1] = b[1] => a = b

(* What the engine lists, once it has collected the completions, is never  *)
(* a file its own writer has deleted since it last wrote it; and a store   *)
(* is not undone by its own trim, as long as the same tokens always have   *)
(* the same content.                                                       *)
ListedIsStored ==
  \A p \in CacheProcs :
    /\ \A e \in Collected(p) : e.name \notin cache[p].gone
    /\ OneContent => \A k \in DOMAIN cache[p].completed :
         LET c == cache[p].completed[k]
         IN \A n \in DOMAIN c.stored : c.stored[n].name \notin c.evicted

(* Once close has returned within its bounds the writer is at rest: it     *)
(* accepts nothing, holds no lock, and no temporary of this process is     *)
(* left for a sweep, unless another process is storing the same content.   *)
ClosedIsQuiet ==
  \A p \in CacheProcs :
    cache[p].closing \in {"flushed", "aborted"} =>
      /\ CacheAt(p, "wait") /\ ~Pending(p) /\ \A i \in Inodes : p \notin inodes[i].lock
      /\ Cardinality({q \in CacheProcs : cache[q].at # "down"}) = 1 /\ cacheStops = 0
           => \A n \in CacheNames : temps[n] = 0

(* The cache's promise to the engine and to the server that closes it.     *)
CacheInv == ListedIsStored /\ ClosedIsQuiet

(* "A sweep can never reclaim a write still running" (O_EXLOCK in          *)
(* prompt_cache.rs): a store whose pieces are all written finds its        *)
(* temporary when it renames it.                                           *)
SweepSparesWrites ==
  \A p \in CacheProcs : CacheAt(p, "rename") => temps[Named(p)] # 0
=============================================================================
