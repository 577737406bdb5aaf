------------------------------ MODULE Exporter ------------------------------
(***************************************************************************)
(* The telemetry exporter (src/src/telemetry/exporter.rs): any thread may  *)
(* emit a record without waiting, within budgets kept in two atomics; one  *)
(* task takes records from a bounded channel, batches, retries and splits  *)
(* them, and keeps a health file that counts what was dropped.             *)
(***************************************************************************)
EXTENDS Naturals, Sequences, FiniteSets, SequencesExt

CONSTANTS
  Records, Emitters,
  NoRecord, Shutdown,      \* no record pending; the other exporter command
  Estimate,                \* of a record, in bytes
  Routine,                 \* the records that are not outcomes
  QueueRecords, RoutineLimit, QueueBytes, BatchRecords, BatchBytes,
  Attempts                 \* 3 in the code

ASSUME ExporterAssumption ==
  /\ NoRecord \notin Records /\ Shutdown \notin Records /\ Routine \subseteq Records
  /\ Estimate \in [Records -> Nat \ {0}]
  /\ {QueueRecords, RoutineLimit, QueueBytes, BatchRecords, BatchBytes, Attempts} \subseteq Nat \ {0}

VARIABLES
  emitter,       \* where each emitting thread is, and with what
  commandQueue,       \* the bounded channel
  usedBytes, usedRecords,  \* queued_bytes, queued_records
  dropped,       \* the handle's counter
  health,        \* the health file: dropped, stopped_for_run
  loop,          \* the task: where, its batch, attempt, outcome of the left half
  pending, stopped,
  fate           \* history: what became of each record

budget == <<usedBytes, usedRecords>>
exporterTask == <<loop, pending, stopped>>
exporterVars == <<emitter, commandQueue, budget, dropped, health, exporterTask, fate>>

Resting == [at |-> "idle", rec |-> NoRecord]
Loop(at, batch) == [at |-> at, batch |-> batch, attempt |-> 0, left |-> "none"]
\* The bytes of a set of records, counted one by one.
SizeOfAll(rs) == Cardinality(UNION {{r} \X (1..Estimate[r]) : r \in rs})
Become(rs, what) == fate' = [r \in Records |-> IF r \in rs THEN what ELSE fate[r]]

ExporterInit ==
  /\ emitter = [e \in Emitters |-> Resting]
  /\ commandQueue = <<>>
  /\ usedBytes = 0 /\ usedRecords = 0
  /\ dropped = 0 /\ health = [dropped |-> 0, stopped |-> FALSE]
  /\ loop = Loop("recv", <<>>) /\ pending = NoRecord /\ stopped = FALSE
  /\ fate = [r \in Records |-> "new"]

-----------------------------------------------------------------------------
(* try_emit, on any thread: check the number, claim the bytes, count,      *)
(* send.  Other threads run between any two of these.                      *)

NoteDrop(e) ==
  /\ dropped' = dropped + 1
  /\ Become({emitter'[e].rec}, "dropped")

Rest(e) == emitter' = [emitter EXCEPT ![e].at = "idle"]

NumberAllows(r) ==
  usedRecords < QueueRecords /\ (r \in Routine => usedRecords < RoutineLimit)

TryEmit(e, r) ==
  /\ emitter[e].at = "idle" /\ fate[r] = "new"
  /\ IF Estimate[r] > BatchBytes \/ ~NumberAllows(r)
     THEN emitter' = [emitter EXCEPT ![e] = [at |-> "idle", rec |-> r]] /\ NoteDrop(e)
     ELSE /\ emitter' = [emitter EXCEPT ![e] = [at |-> "checked", rec |-> r]]
          /\ Become({r}, "emitting") /\ UNCHANGED dropped
  /\ UNCHANGED <<commandQueue, budget, health, exporterTask>>

\* compare_exchange_weak: the sum is checked and stored in one step.
Reserve(e) ==
  LET next == usedBytes + Estimate[emitter[e].rec] IN
  /\ emitter[e].at = "checked"
  /\ IF next > QueueBytes
     THEN Rest(e) /\ NoteDrop(e) /\ UNCHANGED usedBytes
     ELSE /\ emitter' = [emitter EXCEPT ![e].at = "reserved"]
          /\ usedBytes' = next /\ UNCHANGED <<dropped, fate>>
  /\ UNCHANGED <<commandQueue, usedRecords, health, exporterTask>>

CountRecord(e) ==
  /\ emitter[e].at = "reserved"
  /\ usedRecords' = usedRecords + 1
  /\ emitter' = [emitter EXCEPT ![e].at = "counted"]
  /\ UNCHANGED <<commandQueue, usedBytes, dropped, health, exporterTask, fate>>

\* Mutant: what could not be sent keeps its share of the budget.
ForgetRelease(rs) ==
  IF loop.at # "flush" THEN UNCHANGED budget
  ELSE /\ usedBytes' = usedBytes - SizeOfAll(rs)
       /\ usedRecords' = usedRecords - Cardinality(rs)

Release(rs) ==
  /\ usedBytes' = usedBytes - SizeOfAll(rs)
  /\ usedRecords' = usedRecords - Cardinality(rs)

\* The receiver is gone once the task has returned.
TrySend(e) ==
  LET r == emitter[e].rec IN
  /\ emitter[e].at = "counted" /\ Rest(e)
  /\ IF loop.at = "done" \/ Len(commandQueue) >= QueueRecords
     THEN Release({r}) /\ NoteDrop(e) /\ UNCHANGED commandQueue
     ELSE /\ commandQueue' = Append(commandQueue, r)
          /\ Become({r}, "queued") /\ UNCHANGED <<budget, dropped>>
  /\ UNCHANGED <<health, exporterTask>>

\* shutdown waits for room in the channel, for a second at most.
AskShutdown ==
  /\ \A i \in DOMAIN commandQueue : commandQueue[i] # Shutdown
  /\ loop.at # "done" /\ Len(commandQueue) < QueueRecords
  /\ commandQueue' = Append(commandQueue, Shutdown)
  /\ UNCHANGED <<emitter, budget, dropped, health, exporterTask, fate>>

-----------------------------------------------------------------------------
(* The task: run, send_with_retries, send_once and update_health.          *)

outsideExporter == <<emitter, budget, dropped, health, stopped, fate>>

ReceivePending ==
  /\ loop.at = "recv" /\ pending # NoRecord
  /\ loop' = Loop("batching", <<pending>>) /\ pending' = NoRecord
  /\ UNCHANGED <<outsideExporter, commandQueue>>

ReceiveCommand ==
  /\ loop.at = "recv" /\ pending = NoRecord /\ commandQueue # <<>>
  /\ commandQueue' = Tail(commandQueue)
  /\ loop' = IF Head(commandQueue) = Shutdown THEN Loop("done", <<>>)
             ELSE Loop("batching", <<Head(commandQueue)>>)
  /\ UNCHANGED <<outsideExporter, pending>>

Gather ==
  LET r == Head(commandQueue) IN
  /\ loop.at = "batching" /\ Len(loop.batch) < BatchRecords /\ commandQueue # <<>>
  /\ r # Shutdown /\ SizeOfAll(Range(loop.batch)) + Estimate[r] <= BatchBytes
  /\ commandQueue' = Tail(commandQueue)
  /\ loop' = [loop EXCEPT !.batch = Append(@, r)]
  /\ UNCHANGED <<outsideExporter, pending>>

\* Mutant: what does not fit the batch is put back to nowhere.
GatherOverflowLost ==
  /\ loop.at = "batching" /\ Len(loop.batch) < BatchRecords /\ commandQueue # <<>>
  /\ Head(commandQueue) # Shutdown
  /\ SizeOfAll(Range(loop.batch)) + Estimate[Head(commandQueue)] > BatchBytes
  /\ commandQueue' = Tail(commandQueue) /\ loop' = [loop EXCEPT !.at = "flush"]
  /\ UNCHANGED <<outsideExporter, pending>>

\* What does not fit the batch is the first of the next.
GatherOverflow ==
  /\ loop.at = "batching" /\ Len(loop.batch) < BatchRecords /\ commandQueue # <<>>
  /\ Head(commandQueue) # Shutdown
  /\ SizeOfAll(Range(loop.batch)) + Estimate[Head(commandQueue)] > BatchBytes
  /\ commandQueue' = Tail(commandQueue) /\ pending' = Head(commandQueue)
  /\ loop' = [loop EXCEPT !.at = "flush"]
  /\ UNCHANGED outsideExporter

\* A shutdown that arrives while a batch is gathered ends the task: the batch
\* is not sent, not counted and not released.
ShutdownWhileBatching ==
  /\ loop.at = "batching" /\ Len(loop.batch) < BatchRecords /\ commandQueue # <<>>
  /\ Head(commandQueue) = Shutdown
  /\ commandQueue' = Tail(commandQueue) /\ loop' = [loop EXCEPT !.at = "done"]
  /\ UNCHANGED <<outsideExporter, pending>>

\* FLUSH_INTERVAL is over, or the batch is full.
FlushDue ==
  /\ loop.at = "batching"
  /\ loop' = [loop EXCEPT !.at = "flush"]
  /\ UNCHANGED <<outsideExporter, commandQueue, pending>>

\* The first records of a batch may have outlived RECORD_TTL behind a slow
\* server: they are left out, and not counted.
Flush ==
  \E n \in 0..Len(loop.batch) :
    LET old == Range(SubSeq(loop.batch, 1, n))
        rest == SubSeq(loop.batch, n + 1, Len(loop.batch)) IN
    /\ loop.at = "flush"
    /\ Release(Range(loop.batch))
    /\ fate' = [r \in Records |-> IF r \in old THEN "expired"
                                  ELSE IF stopped /\ r \in Range(rest) THEN "dropped" ELSE fate[r]]
    /\ dropped' = IF stopped THEN dropped + Len(rest) ELSE dropped
    /\ loop' = IF rest = <<>> \/ stopped THEN Loop("recv", <<>>)
               ELSE [Loop("sending", rest) EXCEPT !.attempt = 1]
    /\ UNCHANGED <<emitter, commandQueue, health, pending, stopped>>

UpdateHealth(lost, stop) ==
  /\ health' = [dropped |-> health.dropped + lost + dropped, stopped |-> health.stopped \/ stop]
  /\ dropped' = 0

BatchOutcomes == {"delivered", "permanent", "retryable", "large", "stop"}
AfterSend == loop' = Loop("recv", <<>>)
lent == <<emitter, commandQueue, budget, pending>>

Retry429 ==
  /\ loop.at = "sending" /\ loop.attempt < Attempts
  /\ loop' = [loop EXCEPT !.attempt = @ + 1]
  /\ UNCHANGED <<lent, dropped, health, stopped, fate>>

Split ==
  /\ loop.at = "sending" /\ Len(loop.batch) > 1
  /\ loop' = [loop EXCEPT !.at = "left"]
  /\ UNCHANGED <<lent, dropped, health, stopped, fate>>

\* The answer that ends the attempts; a last retryable one is permanent.
Sent(outcome) ==
  /\ loop.at = "sending"
  /\ outcome = "retryable" => loop.attempt = Attempts
  /\ outcome = "large" => Len(loop.batch) = 1
  /\ stopped' = (stopped \/ outcome = "stop")
  /\ IF outcome = "delivered"
     THEN UpdateHealth(0, FALSE) /\ Become(Range(loop.batch), "delivered")
     ELSE UpdateHealth(Len(loop.batch), outcome = "stop") /\ Become(Range(loop.batch), "dropped")
  /\ AfterSend /\ UNCHANGED lent

SentLeft(outcome) ==
  /\ loop.at = "left"
  /\ loop' = [loop EXCEPT !.at = "right", !.left = outcome]
  /\ UNCHANGED <<lent, dropped, health, stopped, fate>>

\* combine_split_outcomes: unless both halves arrived the whole batch counts
\* as dropped.  Nothing is said to the loop of a half that was refused.
SentRight(right) ==
  LET middle == Len(loop.batch) \div 2
      halves == {Range(SubSeq(loop.batch, 1, middle)),
                 Range(SubSeq(loop.batch, middle + 1, Len(loop.batch)))}
      both == right = "delivered" /\ loop.left = "delivered"
      arrived(h) == IF 1 \in DOMAIN loop.batch /\ loop.batch[1] \in h
                    THEN loop.left = "delivered" ELSE right = "delivered" IN
  /\ loop.at = "right"
  /\ fate' = [r \in Records |->
               IF \E h \in halves : r \in h /\ arrived(h)
               THEN IF both THEN "delivered" ELSE "half"
               ELSE IF r \in Range(loop.batch) THEN "dropped" ELSE fate[r]]
  /\ IF both THEN UpdateHealth(0, FALSE)
     ELSE UpdateHealth(Len(loop.batch), "stop" \in {loop.left, right})
  /\ AfterSend /\ UNCHANGED <<lent, stopped>>

ExporterStep ==
  \/ ReceivePending \/ ReceiveCommand \/ Gather \/ GatherOverflow \/ ShutdownWhileBatching
  \/ FlushDue \/ Flush \/ Retry429 \/ Split
  \/ \E o \in BatchOutcomes : Sent(o) \/ SentLeft(o) \/ SentRight(o)

EmitterStep(e) == Reserve(e) \/ CountRecord(e) \/ TrySend(e)

ExporterNext ==
  \/ \E e \in Emitters : EmitterStep(e) \/ \E r \in Records : TryEmit(e, r)
  \/ AskShutdown \/ ExporterStep

ExporterSpec == ExporterInit /\ [][ExporterNext]_exporterVars

-----------------------------------------------------------------------------
(* What is promised.                                                       *)

Claimed(stages) == {emitter[e].rec : e \in {i \in Emitters : emitter[i].at \in stages}}
InTask == (IF loop.at \in {"batching", "flush"} THEN Range(loop.batch) ELSE {})
            \cup ({pending} \ {NoRecord})
Waiting == Range(commandQueue) \ {Shutdown}

\* The two atomics are what they stand for, between any two steps of any
\* threads: no record that was refused, overflowed a batch, expired or met a
\* full channel keeps a share of the budget, and none is given back twice.
\* Until a shutdown, after which nobody asks.
BudgetExact ==
  loop.at # "done" =>
    /\ usedBytes = SizeOfAll(Waiting \cup InTask \cup Claimed({"reserved", "counted"}))
    /\ usedRecords = Cardinality(Waiting \cup InTask \cup Claimed({"counted"}))
    /\ usedBytes <= QueueBytes

\* Every dropped record is counted, once, in the handle or in the health
\* file; what is counted without being lost is the half of a split batch
\* that arrived when the other half did not.
DropsAreCounted ==
  LET lost == {r \in Records : fate[r] = "dropped"}
      half == {r \in Records : fate[r] = "half"} IN
  dropped + health.dropped = Cardinality(lost) + Cardinality(half)

\* No record is unaccounted for: it holds its share of the budget or has been
\* given up and counted (TelemetryHandle and run).
RecordsAccounted == BudgetExact /\ DropsAreCounted

\* A queued record leaves the exporter, sent, expired or counted, however the
\* server answers, unless the client shuts down.
QueuedLeaves ==
  \A r \in Records : fate[r] = "queued" ~> (fate[r] # "queued" \/ loop.at = "done")
-----------------------------------------------------------------------------
(* Refuted: what is said or expected and the code does not do; in no run.    *)

\* "Authentication failure stops export for the run" (src/docs/security.md:264).
StopsForTheRun == health.stopped => loop.at # "sending"
=============================================================================
