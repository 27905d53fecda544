----------------------------- MODULE MCProgress -----------------------------
(* What must eventually happen, for TLC: the components with a liveness    *)
(* property, side by side as in MCStores, each under its own fairness.     *)
(* (Searches change nothing the indexer reads, and are left out.)          *)
EXTENDS Batches, VectorStores, EngineWorker, AneWave, Temporary, TLC

CONSTANTS m1, o1, f1, f2

Single   == {o1}
Another  == {m1}
TwoFiles == {f1, f2}
HardFile == {f2}
NoFiles  == {}

VARIABLE focus

ProgressInit ==
  /\ focus \in {"batches", "vectors", "worker", "ane", "temporary"}
  /\ BatchesInit /\ VectorsInit /\ WorkerInit /\ WaveInit /\ TemporaryInit

ProgressNext ==
  /\ UNCHANGED focus
  /\ \/ /\ focus = "batches" /\ BatchesNext
        /\ UNCHANGED <<vectorVars, workerVars, aneVars, briefVars>>
     \/ /\ focus = "vectors" /\ VectorsNext /\ UNCHANGED searching
        /\ UNCHANGED <<batchVars, workerVars, aneVars, briefVars>>
     \/ /\ focus = "worker" /\ WorkerNext
        /\ UNCHANGED <<batchVars, vectorVars, aneVars, briefVars>>
     \/ /\ focus = "ane" /\ WaveNext
        /\ UNCHANGED <<batchVars, vectorVars, workerVars, briefVars>>
     \/ /\ focus = "temporary" /\ TemporaryNext
        /\ UNCHANGED <<batchVars, vectorVars, workerVars, aneVars>>

progressVars == <<focus, batchVars, vectorVars, workerVars, aneVars, briefVars>>

(* BatchesFairness, VectorsFairness, WorkerFairness, WaveFairness and      *)
(* TemporaryFairness, each of the component that moves.                    *)
ProgressFairness ==
  /\ \A s \in BatchServers :
       /\ WF_batchVars(focus = "batches" /\ (BatchStep(s) \/ Start(s)))
       /\ SF_batchVars(focus = "batches" /\ Exit(s))
       /\ WF_batchVars(focus = "batches" /\ Notify(s))
       /\ WF_batchVars(focus = "batches" /\ Cancelled(s))
  /\ WF_vectorVars(focus = "vectors" /\ IndexerStep)
  /\ WF_workerVars(focus = "worker" /\ WorkerStep)
  /\ WF_workerVars(focus = "worker" /\ ResumeTask)
  /\ WF_workerVars(focus = "worker" /\ ReaderStep)
  /\ WF_aneVars(focus = "ane" /\ EngineThread /\ ~Begin)
  /\ WF_aneVars(focus = "ane" /\ Gpu)
  /\ WF_aneVars(focus = "ane" /\ ChunkDeadline)
  /\ WF_briefVars(focus = "temporary" /\ ReaperStep)
  /\ WF_briefVars(focus = "temporary" /\ BriefTick)
  /\ \A i \in Briefs : WF_briefVars(focus = "temporary" /\ Retain(i))

ProgressSpec == ProgressInit /\ [][ProgressNext]_progressVars /\ ProgressFairness
=============================================================================
