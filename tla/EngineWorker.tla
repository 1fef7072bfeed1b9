----------------------------- MODULE EngineWorker -----------------------------
(***************************************************************************)
(* The life of one partition worker: startup recovery from the latest      *)
(* checkpoint, silent replay up to the high watermark, the startup         *)
(* liquidation scan, and then the live cycle poll, process, publish,       *)
(* checkpoint, commit.  A step that fails throws, and the process ends; a   *)
(* supervisor starts it again.                                             *)
(*                                                                         *)
(* The runtime is abstracted to which records its state contains, what its *)
(* idempotency maps hold, its next public sequence number and whether a    *)
(* position is liquidatable.  A record that is applied emits one reply and *)
(* one event.  Offsets count from 1; next and resume offsets are exclusive.*)
(***************************************************************************)
EXTENDS Integers, Sequences

CONSTANTS
  Keys,        \* input ids and idempotency keys
  NoKey,       \* a record without an input id is never recognised again
  Kinds,       \* the kinds of record that may reach the partition
  MaxLog,      \* bound: records produced
  MaxFaults    \* bound: crashes and failing calls

ASSUME WorkerAssumption ==
  /\ NoKey \notin Keys
  /\ Kinds \subseteq {"order", "liquidation", "foreign", "malformed"}
  /\ MaxLog \in Nat
  /\ MaxFaults \in Nat

VARIABLES
  log,               \* the input partition
  low,               \* its low watermark
  checkpoint,        \* the latest saved checkpoint
  committed,         \* the group's resume offset at the broker
  replies,           \* replies[n]: replies published for record n
  events,            \* engine.events of this market
  pc,                \* where the worker is
  runtime,           \* the EngineRuntime of the process
  position,          \* the next offset the consumer will fetch
  recovery,          \* next_offset and high watermark of RecoveryResult
  current,           \* the record in the live cycle
  committedOffsets,  \* RedpandaEngineApp::committed_offsets_
  faults

broker == <<log, low>>
outputs == <<replies, events>>
process == <<runtime, position, recovery, current, committedOffsets>>
vars == <<broker, checkpoint, committed, outputs, pc, process, faults>>

Offsets == 1 .. MaxLog
Record == [key : Keys \cup {NoKey}, kind : Kinds]

EmptyRuntime ==
  [applied |-> {}, keys |-> [k \in Keys |-> 0], nextSequence |-> 1,
   liquidatable |-> FALSE]

NoCheckpoint == [nextOffset |-> 0, state |-> EmptyRuntime]
NoRecovery == [nextOffset |-> 0, high |-> 0]
NoRecord == [offset |-> 0, duplicate |-> FALSE, original |-> 0, sequence |-> 0]

HighWatermark == Len(log) + 1

\* auto.offset.reset=earliest: a position that retention has overtaken.
NextRecord == IF position < low THEN low ELSE position

-----------------------------------------------------------------------------
(* EngineRuntime::process.                                                 *)

IsDuplicate(r, state) == r.key # NoKey /\ state.keys[r.key] # 0

\* Public sequence numbers are per market: a foreign record takes none here.
Apply(n, state) ==
  LET r == log[n]
  IN  IF IsDuplicate(r, state) THEN state
      ELSE [applied      |-> state.applied \cup {n},
            keys         |-> IF r.key = NoKey THEN state.keys
                             ELSE [state.keys EXCEPT ![r.key] = n],
            nextSequence |-> state.nextSequence + (IF r.kind = "foreign" THEN 0 ELSE 1),
            liquidatable |-> state.liquidatable \/ r.kind = "liquidation"]

-----------------------------------------------------------------------------
(* Endings.  Whatever the process held in memory is gone.                  *)

Exit ==
  /\ pc' = "down"
  /\ runtime' = EmptyRuntime
  /\ position' = 0
  /\ recovery' = NoRecovery
  /\ current' = NoRecord
  /\ committedOffsets' = {}

Fault ==
  /\ faults < MaxFaults
  /\ faults' = faults + 1

\* The process dies, or another worker's failure stops this one.
Crash ==
  /\ pc # "down"
  /\ Fault
  /\ Exit
  /\ UNCHANGED <<broker, checkpoint, committed, outputs>>

-----------------------------------------------------------------------------
(* The input topic.                                                        *)

Produce(r) ==
  /\ Len(log) < MaxLog
  /\ log' = Append(log, r)
  /\ UNCHANGED <<low, checkpoint, committed, outputs, pc, process, faults>>

\* Time retention deletes the oldest record, whoever still needs it.
DeleteOldest ==
  /\ low < HighWatermark
  /\ low' = low + 1
  /\ UNCHANGED <<log, checkpoint, committed, outputs, pc, process, faults>>

-----------------------------------------------------------------------------
(* RecoveryCoordinator::recover_and_replay.                                *)

Start ==
  /\ pc = "down"
  /\ pc' = "recovering"
  /\ UNCHANGED <<broker, checkpoint, committed, outputs, process, faults>>
\* Variants: going live without replaying; public sequences not restored.
RecoverWithoutReplay(next, state) ==
  /\ pc' = "scanning"
  /\ runtime' = state
  /\ position' = next
  /\ recovery' = [nextOffset |-> next, high |-> HighWatermark]
  /\ UNCHANGED <<broker, checkpoint, committed, outputs, current, committedOffsets,
                 faults>>

RecoverWithoutSequence(next, state) ==
  /\ pc' = IF next < HighWatermark THEN "replaying" ELSE "scanning"
  /\ runtime' = [state EXCEPT !.nextSequence = 1]
  /\ position' = next
  /\ recovery' = [nextOffset |-> next, high |-> HighWatermark]
  /\ UNCHANGED <<broker, checkpoint, committed, outputs, current, committedOffsets,
                 faults>>

RecoverFrom(next, state) ==
  /\ pc' = IF next < HighWatermark THEN "replaying" ELSE "scanning"
  /\ runtime' = state
  /\ position' = next
  /\ recovery' = [nextOffset |-> next, high |-> HighWatermark]
  /\ UNCHANGED <<broker, checkpoint, committed, outputs, current, committedOffsets,
                 faults>>

RecoverWithoutCheckpoint ==
  /\ pc = "recovering"
  /\ checkpoint = NoCheckpoint
  /\ RecoverFrom(low, EmptyRuntime)

RecoverCheckpoint ==
  /\ pc = "recovering"
  /\ checkpoint # NoCheckpoint
  /\ checkpoint.nextOffset \in low .. HighWatermark
  /\ RecoverFrom(checkpoint.nextOffset, checkpoint.state)

\* OffsetBelowLowWatermark: the checkpoint is too old to be replayed from.
RecoveryRefused ==
  /\ pc = "recovering"
  /\ checkpoint # NoCheckpoint
  /\ checkpoint.nextOffset \notin low .. HighWatermark
  /\ Exit
  /\ UNCHANGED <<broker, checkpoint, committed, outputs, faults>>

\* A watermark query, a seek or a poll that fails or times out.
RecoveryFailed ==
  /\ pc \in {"recovering", "replaying"}
  /\ Fault
  /\ Exit
  /\ UNCHANGED <<broker, checkpoint, committed, outputs>>
\* Variant: replay refuses what the live loop refuses.
ReplayableIfOwned(n) == log[n].kind \notin {"malformed", "foreign"}

Replayable(n) == log[n].kind # "malformed"

\* One silent record; the topic and the partition are checked, the market is not.
ReplayRecord ==
  LET n == NextRecord
  IN  /\ pc = "replaying"
      /\ n \in 1 .. Len(log)
      /\ n < recovery.high
      /\ Replayable(n)
      /\ runtime' = Apply(n, runtime)
      /\ position' = n + 1
      /\ recovery' = [recovery EXCEPT !.nextOffset = n + 1]
      /\ pc' = IF n + 1 < recovery.high THEN "replaying" ELSE "scanning"
      /\ UNCHANGED <<broker, checkpoint, committed, outputs, current,
                     committedOffsets, faults>>

\* The record just polled lies past the watermark: replay ends, and the
\* consumer has already moved beyond the record.
ReplayPastWatermark ==
  LET n == NextRecord
  IN  /\ pc = "replaying"
      /\ n \in recovery.high .. Len(log)
      /\ position' = n + 1
      /\ pc' = "scanning"
      /\ UNCHANGED <<broker, checkpoint, committed, outputs, runtime, recovery,
                     current, committedOffsets, faults>>

\* The runtime throws, or retention has left nothing to poll.
ReplayFailed ==
  /\ pc = "replaying"
  /\ NextRecord <= Len(log) => NextRecord < recovery.high /\ ~Replayable(NextRecord)
  /\ Exit
  /\ UNCHANGED <<broker, checkpoint, committed, outputs, faults>>

-----------------------------------------------------------------------------
(* run_startup_automatic_liquidation_scan.                                 *)

ScanNothing ==
  /\ pc = "scanning"
  /\ ~runtime.liquidatable
  /\ pc' = "polling"
  /\ UNCHANGED <<broker, checkpoint, committed, outputs, process, faults>>

ScanLiquidates ==
  /\ pc = "scanning"
  /\ runtime.liquidatable
  /\ runtime' = [runtime EXCEPT !.liquidatable = FALSE, !.nextSequence = @ + 1]
  /\ current' = [NoRecord EXCEPT !.sequence = runtime.nextSequence]
  /\ pc' = "scanned"
  /\ UNCHANGED <<broker, checkpoint, committed, outputs, position, recovery,
                 committedOffsets, faults>>

PublishScan ==
  /\ pc = "scanned"
  /\ events' = Append(events, [offset |-> 0, sequence |-> current.sequence])
  /\ pc' = "scanPublished"
  /\ UNCHANGED <<broker, checkpoint, committed, replies, process, faults>>

CheckpointScan ==
  /\ pc = "scanPublished"
  /\ checkpoint' = [nextOffset |-> recovery.nextOffset, state |-> runtime]
  /\ current' = NoRecord
  /\ pc' = "polling"
  /\ UNCHANGED <<broker, committed, outputs, runtime, position, recovery,
                 committedOffsets, faults>>

-----------------------------------------------------------------------------
(* RedpandaEngineApp::poll_once.                                           *)

Polled(n) ==
  /\ pc = "polling"
  /\ n = NextRecord
  /\ n <= Len(log)

\* ProcessingFailed or RejectedInputMarket, before the runtime is touched.
RejectInput(n) ==
  /\ Polled(n)
  /\ log[n].kind \in {"malformed", "foreign"}
  /\ Exit
  /\ UNCHANGED <<broker, checkpoint, committed, outputs, faults>>

ProcessRecord(n) ==
  /\ Polled(n)
  /\ log[n].kind \notin {"malformed", "foreign"}
  /\ runtime' = Apply(n, runtime)
  /\ current' = [offset    |-> n,
                 duplicate |-> IsDuplicate(log[n], runtime),
                 original  |-> IF IsDuplicate(log[n], runtime)
                               THEN runtime.keys[log[n].key] ELSE 0,
                 sequence  |-> runtime.nextSequence]
  /\ position' = n + 1
  /\ pc' = "processed"
  /\ UNCHANGED <<broker, checkpoint, committed, outputs, recovery,
                 committedOffsets, faults>>

\* What of the output reaches the topics.
Deliver(reply, event) ==
  /\ replies' = IF reply THEN [replies EXCEPT ![current.offset] = @ + 1] ELSE replies
  /\ events' = IF event
               THEN Append(events, [offset   |-> current.offset,
                                    sequence |-> current.sequence])
               ELSE events

Publish ==
  /\ pc = "processed"
  /\ Deliver(~current.duplicate, ~current.duplicate)
  /\ pc' = "published"
  /\ UNCHANGED <<broker, checkpoint, committed, process, faults>>

\* Records that follow a failed one are still produced, and a delivery that
\* is reported as failed may have happened.
PublishFailed ==
  /\ pc = "processed"
  /\ ~current.duplicate
  /\ Fault
  /\ \E reply, event \in BOOLEAN : Deliver(reply, event)
  /\ Exit
  /\ UNCHANGED <<broker, checkpoint, committed>>

\* A duplicate is acknowledged only when this process committed the original.
SafeDuplicate == current.duplicate => current.original \in committedOffsets

UnsafeDuplicate ==
  /\ pc = "published"
  /\ ~SafeDuplicate
  /\ Exit
  /\ UNCHANGED <<broker, checkpoint, committed, outputs, faults>>
\* Variants: the consumed offset as next offset; no checkpoint at all.
SaveCheckpointAtOffset ==
  /\ pc = "published"
  /\ SafeDuplicate
  /\ checkpoint' = [nextOffset |-> current.offset, state |-> runtime]
  /\ pc' = "checkpointed"
  /\ UNCHANGED <<broker, committed, outputs, process, faults>>

SkipCheckpoint ==
  /\ pc = "published"
  /\ SafeDuplicate
  /\ pc' = "checkpointed"
  /\ UNCHANGED <<broker, checkpoint, committed, outputs, process, faults>>

SaveCheckpoint ==
  /\ pc = "published"
  /\ SafeDuplicate
  /\ checkpoint' = [nextOffset |-> current.offset + 1, state |-> runtime]
  /\ pc' = "checkpointed"
  /\ UNCHANGED <<broker, committed, outputs, process, faults>>

\* CheckpointFailed, CommitFailed, or a failure in the startup scan: the call
\* throws or returns an error, and nothing was stored.  A call that is reported
\* as failed but took effect is the call followed by Crash.
CallFailed ==
  /\ pc \in {"scanned", "scanPublished", "published", "checkpointed"}
  /\ Fault
  /\ Exit
  /\ UNCHANGED <<broker, checkpoint, committed, outputs>>

CommitOffset ==
  /\ pc = "checkpointed"
  /\ committed' = current.offset + 1
  /\ committedOffsets' = committedOffsets \cup {current.offset}
  /\ current' = NoRecord
  /\ pc' = "polling"
  /\ UNCHANGED <<broker, checkpoint, outputs, runtime, position, recovery, faults>>

-----------------------------------------------------------------------------
Init ==
  /\ log = <<>>
  /\ low = 1
  /\ checkpoint = NoCheckpoint
  /\ committed = 0
  /\ replies = [n \in Offsets |-> 0]
  /\ events = <<>>
  /\ pc = "down"
  /\ runtime = EmptyRuntime
  /\ position = 0
  /\ recovery = NoRecovery
  /\ current = NoRecord
  /\ committedOffsets = {}
  /\ faults = 0

Recovering ==
  \/ RecoverWithoutCheckpoint \/ RecoverCheckpoint \/ RecoveryRefused
  \/ ReplayRecord \/ ReplayPastWatermark \/ ReplayFailed

Scanning == ScanNothing \/ ScanLiquidates \/ PublishScan \/ CheckpointScan

LiveCycle ==
  \/ \E n \in Offsets : RejectInput(n) \/ ProcessRecord(n)
  \/ Publish \/ UnsafeDuplicate \/ SaveCheckpoint \/ CommitOffset

\* What the code does when nothing fails.
Worker == Recovering \/ Scanning \/ LiveCycle

Failing == Crash \/ RecoveryFailed \/ PublishFailed \/ CallFailed

RetainedNext ==
  \/ \E r \in Record : Produce(r)
  \/ Start
  \/ Worker
  \/ Failing

Next == RetainedNext \/ DeleteOldest

Fairness == WF_vars(Worker) /\ WF_vars(Start)

Spec == Init /\ [][Next]_vars /\ Fairness

\* On a log the broker keeps.
RetainedSpec == Init /\ [][RetainedNext]_vars /\ Fairness

-----------------------------------------------------------------------------
(* Properties.                                                             *)

RuntimeState ==
  [applied : SUBSET Offsets, keys : [Keys -> Offsets \cup {0}],
   nextSequence : Nat, liquidatable : BOOLEAN]

\* The type invariant.
TypeOK ==
  /\ log \in Seq(Record) /\ Len(log) <= MaxLog
  /\ low \in 1 .. HighWatermark
  /\ checkpoint \in [nextOffset : Nat, state : RuntimeState]
  /\ committed \in Nat
  /\ replies \in [Offsets -> Nat]
  /\ events \in Seq([offset : Nat, sequence : Nat])
  /\ pc \in {"down", "recovering", "replaying", "scanning", "scanned",
             "scanPublished", "polling", "processed", "published", "checkpointed"}
  /\ runtime \in RuntimeState
  /\ position \in Nat
  /\ recovery \in [nextOffset : Nat, high : Nat]
  /\ current \in [offset : Nat, duplicate : BOOLEAN, original : Nat, sequence : Nat]
  /\ committedOffsets \subseteq Offsets
  /\ faults \in Nat

Running == pc \notin {"down", "recovering"}

\* The records of the prefix before next that are not repeats of an earlier one.
Originals(next) ==
  {n \in 1 .. next - 1 :
     \A m \in 1 .. n - 1 : log[m].key = NoKey \/ log[m].key # log[n].key}

\* next_offset = N means every input offset < N is in the state, and in it
\* once: whatever crashes, retries, replays and repeated records come between,
\* the checkpoint and the running state contain exactly the prefix they claim,
\* until retention has deleted a first record.
StateCoversLog ==
  low = 1 =>
    /\ checkpoint.nextOffset # 0 =>
         checkpoint.state.applied = Originals(checkpoint.nextOffset)
    /\ Running => runtime.applied = Originals(position)

\* The resume offset at the broker is never ahead of the saved checkpoint.
CommittedWithinCheckpoint == committed <= checkpoint.nextOffset

\* No restart makes the worker answer a request twice or publish the events
\* of an input twice: what was processed before is only replayed in silence.
PublishedAtMostOnce ==
  /\ \A n \in Offsets : replies[n] <= 1
  /\ \A i, j \in 1 .. Len(events) :
       events[i].offset = events[j].offset /\ events[i].offset # 0 => i = j

\* engine_sequence is strictly increasing on every event of the market.
SequencesIncrease ==
  \A i, j \in 1 .. Len(events) : i < j => events[i].sequence < events[j].sequence

\* The same where the startup scan has nothing to publish and recovery finds
\* every record: a restart counts on where the last published event left off,
\* although it applies again what the checkpoint does not contain.
RetainedSequencesIncrease ==
  low = 1 /\ (\A n \in 1 .. Len(log) : log[n].kind # "liquidation") => SequencesIncrease

\* A record that was produced is reached: the live loop gets past it, however
\* often the worker has refused it or died over it, unless retention deleted it
\* or overtook the checkpoint, and then recovery refuses to go on.  Nothing is
\* promised of a log with a record the runtime throws on: no replay passes it.
Progress ==
  \A n \in Offsets :
    [](n <= Len(log) => <>(\/ pc = "polling" /\ position > n
                           \/ \E m \in 1 .. Len(log) : log[m].kind = "malformed"
                           \/ n < low
                           \/ checkpoint.nextOffset \in 1 .. low - 1))
=============================================================================
