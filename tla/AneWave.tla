------------------------------- MODULE AneWave -------------------------------
(***************************************************************************)
(* A prefill block run as a wavefront on the GPU and the Neural Engine     *)
(* ("ANE"): local-engine/src/bonsai_native/ane_split.rs over the Handoff   *)
(* of local-metal/src/ane.rs.                                              *)
(*                                                                         *)
(* Five actors: the engine thread encodes the block's commands and hands   *)
(* jobs over; the GPU runs what was submitted, in order; the ANE runs the  *)
(* jobs it was given, in order, each once the GPU has raised `ready' to    *)
(* its number, and raises `done'; the watchdog and the chunk's deadline    *)
(* retire the handoff, which raises both events; the keepalive thread      *)
(* evaluates one of the bindings between chunks.  What the surfaces hold   *)
(* is abstracted to the job whose data it is.                              *)
(*                                                                         *)
(* Jobs are numbered from 1 in each chunk: a chunk whose result is kept    *)
(* leaves no job unreported, so the two counters, which never go back,     *)
(* are read relative to their value when the chunk began.                  *)
(***************************************************************************)
EXTENDS Naturals, Sequences

CONSTANTS
    Layers,         \* the model's layers
    FullAttention,  \* the full-attention layers, a subset of 1..Layers
    Steps,          \* what OutSplit::plan may choose: "ffn", "out", "qkv"
    MaxChunks,      \* bound: prefill blocks
    MaxAneFaults    \* bound: failures of the ANE, the GPU or an encoding

ASSUME AneAssumption ==
    /\ Layers \in Nat \ {0}
    /\ FullAttention \subseteq 1..Layers
    /\ Steps \subseteq {"ffn", "out", "qkv"}
    /\ {MaxChunks, MaxAneFaults} \subseteq Nat

VARIABLES
    wave,      \* the chunk's commands (fixed once the step is planned)
    phase,     \* the engine thread
    encoded,   \* commands encoded and submitted
    gpu,       \* commands the GPU has finished
    ready,     \* the GPU-to-ANE event
    done,      \* the ANE-to-GPU event
    handed,    \* values handed out on each event (next_ready, next_done)
    aneJobs,      \* HandoffInner.jobs: the phase of each job
    ane,       \* the ANE: jobs finished, whether one runs, jobs reported
    retired,   \* HandoffInner.retired
    armed,     \* HandoffInner.deadline is set
    nonfinite, \* the status word, or the logits, are not finite
    weights,   \* the layer each of the two weight sets holds
    surface,   \* per lane: the job whose input x, o and tx hold; y, qkv_y
    wrong,     \* a join consumed something other than its job's output
    keep,      \* the keepalive thread: [evaluating, inChunk]
    mode,      \* AnePrefill: "ready" or "off"
    outcome,   \* how the last chunk ended
    chunks, aneFaults

aneVars == <<wave, phase, encoded, gpu, ready, done, handed, aneJobs, ane, retired, armed,
             nonfinite, weights, surface, wrong, keep, mode, outcome, chunks, aneFaults>>

(***************************************************************************)
(* The commands of a wavefront (encode_wave_batch).  "stage" converts a    *)
(* layer's weights into a set; a launch packs a lane's input and hands a   *)
(* job over; a "join" waits for the lane's last job.                       *)
(***************************************************************************)
Stage(layer) == [op |-> "stage", work |-> "none", lane |-> 0, layer |-> layer]
Launch(work, lane, layer) == [op |-> "launch", work |-> work, lane |-> lane, layer |-> layer]
Join(work, lane, layer) == [op |-> "join", work |-> work, lane |-> lane, layer |-> layer]

Opt(test, commands) == IF test THEN commands ELSE <<>>

(* The mixer's output projection with its leading rows on the ANE and,     *)
(* once those are handed over, `inner' (wave_output).                      *)
WaveOutput(step, lane, layer, inner) ==
    Opt(step # "ffn", <<Launch("out", lane, layer)>>)
      \o inner
      \o Opt(step # "ffn", <<Join("out", lane, layer)>>)

StageNext(layer) == Opt(layer < Layers, <<Stage(layer + 1)>>)

JoinPrevious(layer) == Opt(layer > 1, <<Join("ffn", 1, layer - 1)>>)

(* Both halves' mixers of a full-attention layer at QKV_STEP               *)
(* (wave_attention_qkv).                                                   *)
WaveAttentionQkv(step, layer) ==
    WaveOutput(step, 0, layer, JoinPrevious(layer) \o <<Launch("qkv", 1, layer)>>)
      \o <<Launch("ffn", 0, layer)>>
      \o StageNext(layer)
      \o <<Join("qkv", 1, layer)>>
      \o WaveOutput(step, 1, layer, <<>>)

(* Any other layer's mixers (wave_mixer).                                  *)
WaveMixers(step, layer) ==
    WaveOutput(step, 0, layer, <<>>)
      \o <<Launch("ffn", 0, layer)>>
      \o JoinPrevious(layer)
      \o WaveOutput(step, 1, layer, <<>>)

(* Mutant of WaveLayer: the next layer's weights are converted before the  *)
(* last reader of their set is joined.                                     *)
WaveLayerEarly(step, layer) ==
    LET qkv == step = "qkv" /\ layer \in FullAttention IN
    Opt(~qkv, StageNext(layer))
      \o (IF qkv THEN WaveAttentionQkv(step, layer) ELSE WaveMixers(step, layer))
      \o <<Launch("ffn", 1, layer), Join("ffn", 0, layer)>>

WaveLayer(step, layer) ==
    LET qkv == step = "qkv" /\ layer \in FullAttention IN
    (IF qkv THEN WaveAttentionQkv(step, layer) ELSE WaveMixers(step, layer))
      \o <<Launch("ffn", 1, layer)>>
      \o Opt(~qkv, StageNext(layer))
      \o <<Join("ffn", 0, layer)>>

Wave(step) ==
    LET upTo[layer \in 0..Layers] ==
          IF layer = 0 THEN <<Stage(1)>> ELSE upTo[layer - 1] \o WaveLayer(step, layer)
    IN  upTo[Layers] \o <<Join("ffn", 1, Layers)>>

(* The set a layer's weights are in: layer & 1.                            *)
WeightSet(layer) == layer % 2

(* The number of the job launched by command c, and of the job a join at c *)
(* waits for: the lane's last (lanes[lane].done).                          *)
JobAt(c) == Len(SelectSeq(SubSeq(wave, 1, c), LAMBDA w : w.op = "launch"))

CommandOf(j) == CHOOSE c \in DOMAIN wave : wave[c].op = "launch" /\ JobAt(c) = j

LastJob(lane, c) ==
    LET mine == {b \in 1..c : wave[b].op = "launch" /\ wave[b].lane = lane}
    IN  JobAt(CHOOSE b \in mine : \A a \in mine : a <= b)

(***************************************************************************)
(* Surfaces.                                                               *)
(***************************************************************************)
Blank == [x |-> 0, o |-> 0, tx |-> 0, y |-> 0]

Bad == 99   \* rows no job of the wavefront means: a failed or mixed result

InputOf(work) == IF work = "out" THEN "o" ELSE "x"

(* qkv_y is written only by lane 1's Q, K and V jobs, and shares no reader *)
(* with y; it is the extra field of lane 1.                                *)
Lanes == [lane \in {0, 1, 2} |-> Blank]

OutputLane(job) == IF job.work = "qkv" THEN 2 ELSE job.lane

(* What an evaluation of job j leaves: its own rows if its input and the   *)
(* weights it reads are the ones packed and staged for it.                 *)
Evaluated(j) ==
    LET job == wave[CommandOf(j)] IN
    IF /\ surface[job.lane][InputOf(job.work)] = j
       /\ surface[job.lane].tx = j
       /\ weights[WeightSet(job.layer)] = job.layer
    THEN j ELSE Bad

IdleAne == [finished |-> 0, runs |-> FALSE, reported |-> 0, failed |-> 0, began |-> 0]

Unstaged == [set \in {0, 1} |-> 0]

WaveInit ==
    /\ wave = <<>> /\ phase = "idle" /\ encoded = 0 /\ gpu = 0
    /\ ready = 0 /\ done = 0 /\ handed = 0 /\ aneJobs = <<>>
    /\ ane = IdleAne
    /\ retired = FALSE /\ armed = FALSE /\ nonfinite = FALSE
    /\ weights = Unstaged /\ surface = Lanes /\ wrong = FALSE
    /\ keep = [evaluating |-> FALSE, inChunk |-> FALSE]
    /\ mode = "ready" /\ outcome = "none" /\ chunks = 0 /\ aneFaults = 0

CanFail == aneFaults < MaxAneFaults

(***************************************************************************)
(* retire_locked: give up on the ANE, and let every pending wait pass.     *)
(* From then on waits order nothing, so what the surfaces hold, and how    *)
(* far the ANE is with what it was given, is no longer followed: every     *)
(* later join counts as wrong.                                             *)
(***************************************************************************)
Max2(a, b) == IF a < b THEN b ELSE a

Raised(to) ==
    /\ retired' = TRUE
    /\ ready' = Max2(ready, to)
    /\ done' = Max2(done, to)
    /\ ane' = IdleAne /\ surface' = Lanes /\ weights' = Unstaged

(***************************************************************************)
(* The engine thread: prefill_wave.                                        *)
(***************************************************************************)
(* A block that can use the ANE takes it (take_ane), checkpoints the       *)
(* sequence and keeps the keepalive thread out (begin_chunk, enter).       *)
Begin ==
    /\ phase = "idle" /\ mode = "ready" /\ chunks < MaxChunks
    /\ phase' = "enter"
    /\ chunks' = chunks + 1
    /\ outcome' = "none"
    /\ keep' = [keep EXCEPT !.inChunk = TRUE]
    /\ UNCHANGED <<wave, encoded, gpu, ready, done, handed, aneJobs, ane, retired, armed,
                   nonfinite, weights, surface, wrong, mode, aneFaults>>

(* No keepalive evaluation is in flight: the status word is cleared, the   *)
(* deadline armed, and the step planned.                                   *)
Enter ==
    /\ phase = "enter" /\ ~keep.evaluating
    /\ \E step \in Steps : wave' = Wave(step)
    /\ phase' = "encode"
    /\ armed' = TRUE /\ nonfinite' = FALSE /\ wrong' = FALSE
    /\ encoded' = 0 /\ gpu' = 0 /\ ready' = 0 /\ done' = 0 /\ handed' = 0 /\ aneJobs' = <<>>
    /\ ane' = IdleAne
    /\ surface' = Lanes /\ weights' = Unstaged
    /\ UNCHANGED <<retired, keep, mode, outcome, chunks, aneFaults>>

(* One is, and does not return within KEEP_WAIT.                           *)
EnterTimesOut ==
    /\ phase = "enter" /\ keep.evaluating
    /\ Raised(handed)
    /\ phase' = "fallback"
    /\ UNCHANGED <<wave, encoded, gpu, handed, aneJobs, armed, nonfinite, wrong, keep,
                   mode, outcome, chunks, aneFaults>>

(* The next launch in the wavefront, or its end.                           *)
NextStop ==
    LET later == {c \in encoded + 1..Len(wave) : wave[c].op = "launch"} IN
    IF later = {} THEN Len(wave) ELSE CHOOSE c \in later : \A b \in later : c <= b

(* Encode up to the next launch, hand its job over and submit (hand_over,  *)
(* Handoff::queue).  Once retired nothing is enqueued and the values are   *)
(* raised as they are handed out.                                          *)
Encode ==
    /\ phase = "encode" /\ encoded < Len(wave)
    /\ encoded' = NextStop
    /\ IF wave[NextStop].op = "launch"
       THEN /\ handed' = handed + 1
            /\ \/ /\ ~retired
                  /\ aneJobs' = Append(aneJobs, "queued")
                  /\ UNCHANGED <<ready, done, retired, ane, surface, weights, aneFaults>>
               \/ /\ retired
                  /\ aneJobs' = Append(aneJobs, "failed")
                  /\ Raised(handed + 1)
                  /\ UNCHANGED aneFaults
               \/ /\ ~retired /\ CanFail     \* it could not start
                  /\ aneFaults' = aneFaults + 1
                  /\ aneJobs' = Append(aneJobs, "failed")
                  /\ Raised(handed + 1)
       ELSE UNCHANGED <<handed, aneJobs, ready, done, retired, ane, surface, weights, aneFaults>>
    /\ UNCHANGED <<wave, phase, gpu, armed, nonfinite, wrong,
                   keep, mode, outcome, chunks>>

(* An encoding fails: the waits are released before the batch, dropped,    *)
(* waits for what it submitted.                                            *)
EncodeFails ==
    /\ phase = "encode" /\ CanFail
    /\ aneFaults' = aneFaults + 1
    /\ Raised(handed)
    /\ phase' = "drop"
    /\ UNCHANGED <<wave, encoded, gpu, handed, aneJobs, armed, nonfinite, wrong, keep,
                   mode, outcome, chunks>>

(* The GPU has run all that was submitted (self.finish, or the drop).      *)
Encoded ==
    /\ \/ phase = "encode" /\ encoded = Len(wave)
       \/ phase = "drop"
    /\ gpu = encoded
    /\ phase' = "settle"
    /\ armed' = FALSE
    /\ UNCHANGED <<wave, encoded, gpu, ready, done, handed, aneJobs, ane, retired,
                   nonfinite, weights, surface, wrong, keep, mode, outcome, chunks, aneFaults>>

AllSucceeded == \A j \in DOMAIN aneJobs : aneJobs[j] = "succeeded"

SomeFailed == \E j \in DOMAIN aneJobs : aneJobs[j] = "failed"

(* Handoff::finish and finish_chunk: wait, at most one bound, until every  *)
(* job has reported or one failed; the chunk's rows are kept only if all   *)
(* succeeded, nothing was retired and every joined row was finite.         *)
KeepsOf(reported) ==
    /\ ~retired /\ reported
    /\ ~nonfinite
    /\ encoded = Len(wave)

Finish ==
    /\ phase = "settle"
    /\ SomeFailed \/ AllSucceeded
    /\ phase' = IF KeepsOf(AllSucceeded) THEN "kept" ELSE "fallback"
    /\ keep' = [keep EXCEPT !.inChunk = FALSE]
    /\ UNCHANGED <<wave, encoded, gpu, ready, done, handed, aneJobs, ane, retired, armed,
                   nonfinite, weights, surface, wrong, mode, outcome, chunks, aneFaults>>

FinishTimesOut ==
    /\ phase = "settle"
    /\ ~(SomeFailed \/ AllSucceeded)
    /\ Raised(handed)
    /\ phase' = "fallback"
    /\ keep' = [keep EXCEPT !.inChunk = FALSE]
    /\ UNCHANGED <<wave, encoded, gpu, handed, aneJobs, armed, nonfinite, wrong, mode,
                   outcome, chunks, aneFaults>>

(* The position advances past the chunk's rows, and the split is put back. *)
Keep ==
    /\ phase = "kept"
    /\ phase' = "idle" /\ outcome' = "kept"
    /\ UNCHANGED <<wave, encoded, gpu, ready, done, handed, aneJobs, ane, retired, armed,
                   nonfinite, weights, surface, wrong, keep, mode, chunks, aneFaults>>

(* The checkpoint is restored, the chunk reruns on the GPU, and the ANE is *)
(* not used again.                                                         *)
Fallback ==
    /\ phase = "fallback"
    /\ Raised(handed)
    /\ mode' = "off"
    /\ phase' = "idle" /\ outcome' = "rerun"
    /\ UNCHANGED <<wave, encoded, gpu, handed, aneJobs, armed, nonfinite, wrong, keep,
                   chunks, aneFaults>>

(***************************************************************************)
(* The GPU: one submitted command after the other.                         *)
(***************************************************************************)
GpuStage(c) ==
    /\ wave[c].op = "stage"
    /\ weights' = IF retired THEN weights
                  ELSE [weights EXCEPT ![WeightSet(wave[c].layer)] = wave[c].layer]
    /\ UNCHANGED <<ready, surface, wrong, nonfinite>>

(* Pack the lane's input, then signal `ready'.                             *)
GpuLaunch(c) ==
    /\ wave[c].op = "launch"
    /\ surface' = IF retired THEN surface ELSE [surface EXCEPT ![wave[c].lane] =
          [@ EXCEPT ![InputOf(wave[c].work)] = JobAt(c), !.tx = JobAt(c)]]
    /\ ready' = Max2(ready, JobAt(c))
    /\ UNCHANGED <<weights, wrong, nonfinite>>

(* Wait for `done', then join the lane's rows with the scales of its tx.   *)
(* The kernel raises the status word on a row that is not finite.          *)
GpuJoin(c) ==
    LET job == LastJob(wave[c].lane, c)
        rows == surface[OutputLane(wave[c])].y IN
    /\ wave[c].op = "join"
    /\ done >= job
    /\ wrong' = (wrong \/ retired \/ rows # job \/ surface[wave[c].lane].tx # job)
    /\ nonfinite' \in IF rows = Bad THEN {TRUE, nonfinite} ELSE {nonfinite}
    /\ UNCHANGED <<weights, ready, surface>>

Gpu ==
    /\ gpu < encoded
    /\ GpuStage(gpu + 1) \/ GpuLaunch(gpu + 1) \/ GpuJoin(gpu + 1)
    /\ gpu' = gpu + 1
    /\ UNCHANGED <<wave, phase, encoded, done, handed, aneJobs, ane, retired, armed, keep,
                   mode, outcome, chunks, aneFaults>>

(***************************************************************************)
(* The ANE (external, from Binding::enqueue's contract): jobs in the order *)
(* they were queued, each from its `ready' value on.  It may stop          *)
(* answering at any point.                                                 *)
(***************************************************************************)
AneStart ==
    LET j == ane.finished + 1 IN
    /\ phase \in {"encode", "drop", "settle"} /\ ~retired
    /\ ~ane.runs
    /\ j \in DOMAIN aneJobs /\ aneJobs[j] # "failed" /\ ready >= j
    /\ ane' = [ane EXCEPT !.runs = TRUE, !.began = Evaluated(j)]
    /\ UNCHANGED <<wave, phase, encoded, gpu, ready, done, handed, aneJobs, retired, armed,
                   nonfinite, weights, surface, wrong, keep, mode, outcome, chunks, aneFaults>>

(* An evaluation ends, well or not, having read its surfaces throughout.   *)
AneEnd ==
    LET j == ane.finished + 1
        job == wave[CommandOf(j)]
        rows == IF ane.began = j THEN Evaluated(j) ELSE Bad IN
    /\ phase \in {"encode", "drop", "settle"} /\ ~retired
    /\ ane.runs
    /\ done' = Max2(done, j)
    /\ \/ /\ ane' = [ane EXCEPT !.runs = FALSE, !.finished = j]
          /\ surface' = [surface EXCEPT ![OutputLane(job)].y = rows]
          /\ UNCHANGED aneFaults
       \/ /\ CanFail
          /\ aneFaults' = aneFaults + 1
          /\ ane' = [ane EXCEPT !.runs = FALSE, !.finished = j, !.failed = j]
          /\ surface' = [surface EXCEPT ![OutputLane(job)].y = Bad]
    /\ UNCHANGED <<wave, phase, encoded, gpu, ready, handed, aneJobs, retired, armed, nonfinite,
                   weights, wrong, keep, mode, outcome, chunks>>

(* HandoffState::report, from a callback: a failed evaluation retires the  *)
(* handoff.                                                                *)
Report ==
    LET j == ane.reported + 1 IN
    /\ phase \in {"encode", "drop", "settle"} /\ ~retired
    /\ ane.reported < ane.finished
    /\ IF ane.failed = j
       THEN aneJobs' = [aneJobs EXCEPT ![j] = "failed"] /\ Raised(handed)
       ELSE /\ aneJobs' = [aneJobs EXCEPT ![j] = "succeeded"]
            /\ ane' = [ane EXCEPT !.reported = j]
            /\ UNCHANGED <<retired, ready, done, surface, weights>>
    /\ UNCHANGED <<wave, phase, encoded, gpu, handed, armed, nonfinite, wrong, keep, mode,
                   outcome, chunks, aneFaults>>

(***************************************************************************)
(* The watchdog (HandoffState::watch): a job past its bound since `ready'  *)
(* reached it, or the chunk past its deadline.  A second expiry changes    *)
(* nothing that is read: a retired chunk is not kept.                      *)
(***************************************************************************)
Expire(j) ==
    /\ phase \in {"encode", "drop", "settle"} /\ ~retired
    /\ aneJobs[j] = "queued" /\ ready >= j
    /\ aneJobs' = [aneJobs EXCEPT ![j] = "failed"]
    /\ Raised(handed)
    /\ UNCHANGED <<wave, phase, encoded, gpu, handed, armed, nonfinite, wrong, keep,
                   mode, outcome, chunks, aneFaults>>

(* Mutant of ChunkDeadline: nothing the GPU waits for is raised. *)
ChunkDeadlineUnraised ==
    /\ armed
    /\ armed' = FALSE
    /\ retired' = TRUE
    /\ UNCHANGED <<wave, phase, encoded, gpu, ready, done, handed, aneJobs, ane, nonfinite,
                   weights, surface, wrong, keep, mode, outcome, chunks, aneFaults>>

ChunkDeadline ==
    /\ armed
    /\ armed' = FALSE
    /\ Raised(handed)
    /\ UNCHANGED <<wave, phase, encoded, gpu, handed, aneJobs, nonfinite, wrong, keep,
                   mode, outcome, chunks, aneFaults>>

(***************************************************************************)
(* The keepalive thread, which evaluates lane 0's binding of set 0.        *)
(***************************************************************************)
KeepStart ==
    /\ mode = "ready" /\ ~keep.inChunk /\ ~keep.evaluating
    /\ keep' = [keep EXCEPT !.evaluating = TRUE]
    /\ UNCHANGED <<wave, phase, encoded, gpu, ready, done, handed, aneJobs, ane, retired, armed,
                   nonfinite, weights, surface, wrong, mode, outcome, chunks, aneFaults>>

KeepEnd ==
    /\ keep.evaluating
    /\ keep' = [keep EXCEPT !.evaluating = FALSE]
    /\ surface' = IF retired THEN surface ELSE [surface EXCEPT ![0].y = Bad]
    /\ UNCHANGED <<wave, phase, encoded, gpu, ready, done, handed, aneJobs, ane, retired, armed,
                   nonfinite, weights, wrong, mode, outcome, chunks, aneFaults>>

EngineThread ==
    \/ Begin \/ Enter \/ EnterTimesOut \/ Encode \/ EncodeFails \/ Encoded
    \/ Finish \/ FinishTimesOut \/ Keep \/ Fallback

WaveNext ==
    \/ EngineThread \/ Gpu
    \/ AneStart \/ AneEnd \/ Report
    \/ \E j \in DOMAIN aneJobs : Expire(j)
    \/ ChunkDeadline \/ KeepStart \/ KeepEnd

WaveSpec == WaveInit /\ [][WaveNext]_aneVars

(* The engine thread and the GPU run, and an armed deadline passes; the    *)
(* ANE, its reports and the listener promise nothing.                      *)
WaveFairness ==
    /\ WF_aneVars(EngineThread /\ ~Begin)
    /\ WF_aneVars(Gpu)
    /\ WF_aneVars(ChunkDeadline)

(***************************************************************************)
(* Properties.                                                             *)
(***************************************************************************)
(* A chunk whose rows are kept joined, at every join, the rows of the job  *)
(* it waited for, computed from that job's own input with its own layer's  *)
(* weights: no stage, pack or keepalive evaluation reached a surface the   *)
(* ANE was reading, and rows a released wait let through were never kept.  *)
KeptIsRight == phase = "kept" => ~wrong

(* The wavefront's order is enough on its own: as long as no evaluation    *)
(* failed and nothing was retired, no join has seen another job's rows.    *)
OrderIsEnough == wrong /\ phase # "idle" => retired \/ ane.failed > 0

(* The keepalive thread and a chunk never use the surfaces at once.        *)
KeptApart == keep.evaluating => phase \in {"idle", "enter", "fallback", "kept"}

(* The split prefill is safe: with the ANE on time, late, failing or       *)
(* silent, what is kept is right and the surfaces have one user.           *)
WaveInv == KeptIsRight /\ OrderIsEnough /\ KeptApart

(* A chunk ends, kept or rerun on the GPU, though the ANE never answers.   *)
ChunkEnds == (phase # "idle") ~> (phase = "idle")
=============================================================================
