----------------------------- MODULE MCRuntime -----------------------------
(* The parts that live in the server's and the engine's memory, for TLC:   *)
(* the engine's scheduler and its caches, its prompt-cache writer, its     *)
(* worker with the queue in front of it, the prefill shared with the ANE,  *)
(* and the temporary responses.  As in MCStores, `focus' says which one    *)
(* moves.                                                                  *)
EXTENDS MCScheduler, PromptCache, EngineWorker, AneWave, Temporary

CONSTANTS m1, m2, o1

Two      == {m1, m2}
Single   == {o1}
Symmetry == Permutations(Two)

Snapshot(tokens, boundary) == [tokens |-> tokens, content |-> 1, boundary |-> boundary]
Snapshots == {Snapshot(<<1, 1>>, TRUE), Snapshot(<<1, 1, 1>>, TRUE), Snapshot(<<2>>, FALSE)}

VARIABLE focus

RuntimeInit ==
  /\ focus \in {"scheduler", "cache", "worker", "ane", "temporary"}
  /\ SchedulerInit /\ PromptCacheInit /\ WorkerInit /\ WaveInit /\ TemporaryInit

RuntimeNext ==
  /\ UNCHANGED focus
  /\ \/ /\ focus = "scheduler" /\ SchedulerNext
        /\ UNCHANGED <<cacheVars, workerVars, aneVars, briefVars>>
     \/ /\ focus = "cache" /\ PromptCacheNext
        /\ UNCHANGED <<engineVars, workerVars, aneVars, briefVars>>
     \/ /\ focus = "worker" /\ WorkerNext
        /\ UNCHANGED <<engineVars, cacheVars, aneVars, briefVars>>
     \/ /\ focus = "ane" /\ WaveNext
        /\ UNCHANGED <<engineVars, cacheVars, workerVars, briefVars>>
     \/ /\ focus = "temporary" /\ TemporaryNext
        /\ UNCHANGED <<engineVars, cacheVars, workerVars, aneVars>>

runtimeVars == <<focus, engineVars, cacheVars, workerVars, aneVars, briefVars>>
RuntimeSpec == RuntimeInit /\ [][RuntimeNext]_runtimeVars
=============================================================================
