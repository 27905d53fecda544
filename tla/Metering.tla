------------------------------ MODULE Metering ------------------------------
(***************************************************************************)
(* The usage record of one generation (Meter and Metered of                *)
(* local-ai/src/cli/serve/admin.rs): the consumer of the generation's      *)
(* events writes the record when it reads Finished; a consumer that drops  *)
(* the stream first cancels the generation and leaves a task that reads it *)
(* to its end and writes the record.                                       *)
(***************************************************************************)
EXTENDS Naturals, Sequences

CONSTANTS
    MaxMeteredPieces,   \* bound: events before the generation's last
    MaxUsageFaults      \* bound: failed inserts into usage_records

VARIABLES
    producing,   \* the engine's side: "queued", "running", "dropped", "closed", "failed"
    channel,     \* events sent and not received
    stopped,     \* the generation's cancel flag
    consumer,    \* "reading", "writing", "told", "failed" or "left"
    drainer,     \* the abandoned stream's task: "none", "reading", "writing", "over"
    usageRows,   \* rows of usage_records for this generation
    measured,    \* somebody took its Finished event
    usageFaults

meterVars == <<producing, channel, stopped, consumer, drainer, usageRows, measured, usageFaults>>

MeterInit ==
    /\ producing = "queued" /\ channel = <<>> /\ stopped = FALSE
    /\ consumer = "reading" /\ drainer = "none"
    /\ usageRows = 0 /\ measured = FALSE /\ usageFaults = 0

(***************************************************************************)
(* The engine's side (admit_waiting, Delivery::push and complete,          *)
(* close_generation); the channel stands for the outbox and the bounded    *)
(* channel it is flushed into.  A queued job that is cancelled is dropped  *)
(* without an event.  push refuses every event of a cancelled generation,  *)
(* its Finished included; only an error is queued regardless.              *)
(***************************************************************************)
Start ==
    /\ producing = "queued"
    /\ producing' = IF stopped THEN "dropped" ELSE "running"
    /\ UNCHANGED <<channel, stopped, consumer, drainer, usageRows, measured, usageFaults>>

MeteredPiece ==
    /\ producing = "running" /\ ~stopped
    /\ Len(channel) < MaxMeteredPieces
    /\ channel' = Append(channel, "piece")
    /\ UNCHANGED <<producing, stopped, consumer, drainer, usageRows, measured, usageFaults>>

FinishMetered ==
    /\ producing = "running"
    /\ producing' = "closed"
    /\ channel' = IF stopped THEN channel ELSE Append(channel, "finished")
    /\ UNCHANGED <<stopped, consumer, drainer, usageRows, measured, usageFaults>>

FailGeneration ==
    /\ producing = "running"
    /\ producing' = "failed"
    /\ channel' = Append(channel, "error")
    /\ UNCHANGED <<stopped, consumer, drainer, usageRows, measured, usageFaults>>

Over == producing \in {"dropped", "closed", "failed"}

(***************************************************************************)
(* The consumer (Metered::next_signal and Metered::drop).                  *)
(***************************************************************************)
Read ==
    /\ consumer = "reading"
    /\ \/ /\ channel # <<>>
          /\ channel' = Tail(channel)
          /\ consumer' = CASE Head(channel) = "finished" -> "writing"
                           [] Head(channel) = "error" -> "failed"
                           [] OTHER -> "reading"
          /\ measured' = (measured \/ Head(channel) = "finished")
       \/ /\ channel = <<>> /\ Over
          /\ consumer' = "failed"
          /\ UNCHANGED <<channel, measured>>
    /\ UNCHANGED <<producing, stopped, drainer, usageRows, usageFaults>>

(* Meter::generation: one insert, whose failure is only logged.            *)
Inserted ==
    \/ usageRows' = usageRows + 1 /\ UNCHANGED usageFaults
    \/ /\ usageFaults < MaxUsageFaults
       /\ usageFaults' = usageFaults + 1 /\ UNCHANGED usageRows

(* The record is committed before the consumer is handed Finished.         *)
Record ==
    /\ consumer = "writing"
    /\ Inserted
    /\ consumer' = "told"
    /\ UNCHANGED <<producing, channel, stopped, drainer, measured>>

(* Dropped before its end: cancelled, and read on by a task.               *)
DropMetered ==
    /\ consumer = "reading"
    /\ consumer' = "left"
    /\ stopped' = TRUE
    /\ drainer' = "reading"
    /\ UNCHANGED <<producing, channel, usageRows, measured, usageFaults>>

(***************************************************************************)
(* drain, a task, and its one write on the blocking pool.                  *)
(***************************************************************************)
DrainRead ==
    /\ drainer = "reading"
    /\ \/ /\ channel # <<>>
          /\ channel' = Tail(channel)
          /\ drainer' = IF Head(channel) = "finished" THEN "writing" ELSE "reading"
          /\ measured' = (measured \/ Head(channel) = "finished")
       \/ /\ channel = <<>> /\ Over
          /\ drainer' = "over"
          /\ UNCHANGED <<channel, measured>>
    /\ UNCHANGED <<producing, stopped, consumer, usageRows, usageFaults>>

DrainRecord ==
    /\ drainer = "writing"
    /\ Inserted
    /\ drainer' = "over"
    /\ UNCHANGED <<producing, channel, stopped, consumer, measured>>

MeterNext ==
    \/ Start \/ MeteredPiece \/ FinishMetered \/ FailGeneration
    \/ Read \/ Record \/ DropMetered \/ DrainRead \/ DrainRecord

MeterSpec == MeterInit /\ [][MeterNext]_meterVars

(* What Metered's comment promises: the tokens of a generation whose       *)
(* consumer left before its end are still recorded.                        *)
AbandonedIsRecorded ==
    drainer = "over" /\ producing = "closed" => usageRows + usageFaults = 1
=============================================================================
