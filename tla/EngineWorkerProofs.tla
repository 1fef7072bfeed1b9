-------------------------- MODULE EngineWorkerProofs --------------------------
(***************************************************************************)
(* What EngineWorker guarantees for every number of records, keys and      *)
(* faults.                                                                 *)
(***************************************************************************)
EXTENDS EngineWorker, FiniteSets, FiniteSetTheorems, TLAPS

-----------------------------------------------------------------------------
(* The inductive invariant of Spec: how the consumer's position, the        *)
(* recovery's offsets, the record in hand and the checkpoint relate, and    *)
(* how far publication can have gone.                                       *)

LivePcs == {"processed", "published", "checkpointed"}
ScanPcs == {"scanning", "scanned", "scanPublished"}

Positions ==
  /\ committed <= checkpoint.nextOffset
  /\ Running => /\ position \in 1 .. HighWatermark
                /\ checkpoint.nextOffset <= position
                /\ recovery.high <= HighWatermark
  /\ pc \in ScanPcs \cup {"replaying"} => checkpoint.nextOffset <= recovery.nextOffset
                                         /\ recovery.nextOffset <= position
  /\ Running /\ pc # "replaying" => recovery.high <= position
  /\ pc \in LivePcs => current.offset \in Offsets /\ current.offset + 1 = position
  /\ pc = "checkpointed" => checkpoint.nextOffset = position

\* Every record published so far lies before this offset: a record is published
\* while it is live, and a restart replays at least up to it.
PublishedBound ==
  CASE pc \in {"down", "recovering"} -> HighWatermark
    [] pc = "replaying" -> recovery.high
    [] pc = "processed" -> current.offset
    [] OTHER -> position

PublishedBefore ==
  /\ \A n \in Offsets : replies[n] # 0 => n < PublishedBound
  /\ \A i \in 1 .. Len(events) : events[i].offset < PublishedBound

IInv == TypeOK /\ Positions /\ PublishedBefore /\ PublishedAtMostOnce

-----------------------------------------------------------------------------
(* Types.                                                                  *)

\* The empty runtime of a fresh process is a runtime state.
LEMMA EmptyRuntimeType == EmptyRuntime \in RuntimeState
  BY DEF EmptyRuntime, RuntimeState

\* Applying a record that was polled gives a runtime state.
LEMMA ApplyType ==
  ASSUME TypeOK, NEW n \in 1 .. Len(log), NEW st \in RuntimeState
  PROVE  Apply(n, st) \in RuntimeState
<1>1. n \in Offsets /\ log[n] \in Record
  BY WorkerAssumption DEF TypeOK, Offsets
<1>2. CASE IsDuplicate(log[n], st)
  BY <1>2 DEF Apply
<1>3. CASE ~IsDuplicate(log[n], st)
  <2>1. st.applied \cup {n} \in SUBSET Offsets
    BY <1>1 DEF RuntimeState
  <2>2. (IF log[n].key = NoKey THEN st.keys ELSE [st.keys EXCEPT ![log[n].key] = n])
           \in [Keys -> Offsets \cup {0}]
    BY <1>1 DEF RuntimeState, Record
  <2>3. st.nextSequence + (IF log[n].kind = "foreign" THEN 0 ELSE 1) \in Nat
    BY DEF RuntimeState
  <2>4. (st.liquidatable \/ log[n].kind = "liquidation") \in BOOLEAN
    OBVIOUS
  <2> QED
    BY <1>3, <2>1, <2>2, <2>3, <2>4 DEF Apply, RuntimeState
<1> QED
  BY <1>2, <1>3

\* A process that ends leaves well-typed, empty memory behind.
LEMMA ExitType ==
  ASSUME Exit
  PROVE  /\ pc' = "down"
         /\ runtime' \in RuntimeState
         /\ position' \in Nat
         /\ recovery' \in [nextOffset : Nat, high : Nat]
         /\ current' \in [offset : Nat, duplicate : BOOLEAN, original : Nat, sequence : Nat]
         /\ committedOffsets' \subseteq Offsets
  BY EmptyRuntimeType DEF Exit, NoRecovery, NoRecord

\* The initial state satisfies the invariant.
LEMMA InitIInv == Init => IInv
<1> SUFFICES ASSUME Init PROVE IInv
  OBVIOUS
<1>1. TypeOK
  BY EmptyRuntimeType, WorkerAssumption
  DEF Init, TypeOK, NoCheckpoint, NoRecovery, NoRecord, HighWatermark
<1>2. Positions /\ PublishedBefore /\ PublishedAtMostOnce
  BY DEF Init, Positions, PublishedBefore, PublishedAtMostOnce, Running, ScanPcs,
         LivePcs, NoCheckpoint
<1> QED
  BY <1>1, <1>2 DEF IInv

-----------------------------------------------------------------------------
(* Steps.                                                                  *)

\* An element of a sequence over S is in S.
LEMMA SeqElement ==
  ASSUME NEW S, NEW s \in Seq(S), NEW i \in 1 .. Len(s)
  PROVE  s[i] \in S
  OBVIOUS

\* Published events carry an offset.
LEMMA EventOffsets ==
  ASSUME IInv
  PROVE  Len(events) \in Nat /\ \A i \in 1 .. Len(events) : events[i].offset \in Nat
<1>1. events \in Seq([offset : Nat, sequence : Nat])
  BY DEF IInv, TypeOK
<1>2. \A i \in 1 .. Len(events) : events[i] \in [offset : Nat, sequence : Nat]
  BY <1>1, SeqElement
<1> QED
  BY <1>1, <1>2

\* Publication never reaches past the end of the log.
LEMMA BoundInLog ==
  ASSUME IInv
  PROVE  PublishedBound \in Nat /\ PublishedBound <= HighWatermark
<1>1. Len(log) \in Nat /\ HighWatermark \in Nat
  BY DEF IInv, TypeOK, HighWatermark
<1>2. position \in Nat /\ recovery.high \in Nat /\ current.offset \in Nat
  BY DEF IInv, TypeOK
<1>3. Running => position <= HighWatermark /\ recovery.high <= HighWatermark
  BY DEF IInv, Positions
<1>4. pc = "processed" => current.offset <= HighWatermark
  BY <1>1, <1>2, <1>3 DEF IInv, Positions, LivePcs, Running
<1> QED
  BY <1>1, <1>2, <1>3, <1>4 DEF PublishedBound, Running, IInv, TypeOK

\* A process that ends without publishing anything keeps the invariant: the
\* broker, the checkpoint and the topics are all that survives.
LEMMA ExitStep ==
  ASSUME IInv, Exit, faults' \in Nat,
         UNCHANGED <<broker, checkpoint, committed, outputs>>
  PROVE  IInv'
<1> USE DEF broker, outputs
<1>1. TypeOK'
  BY ExitType DEF IInv, TypeOK, HighWatermark
<1>2. pc' = "down"
  BY ExitType
<1>3. Positions'
  BY <1>2 DEF IInv, Positions, Running, ScanPcs, LivePcs
<1>4. PublishedBefore'
  <2>1. PublishedBound' = HighWatermark
    BY <1>2 DEF PublishedBound, HighWatermark
  <2>2. \A n \in Offsets : replies[n] # 0 => n < HighWatermark
    BY BoundInLog DEF IInv, PublishedBefore, Offsets, TypeOK, HighWatermark
  <2>3. \A i \in 1 .. Len(events) : events[i].offset < HighWatermark
    <3>1. HighWatermark \in Nat
      BY DEF IInv, TypeOK, HighWatermark
    <3> QED
      BY <3>1, BoundInLog, EventOffsets DEF IInv, PublishedBefore
  <2> QED
    BY <2>1, <2>2, <2>3 DEF PublishedBefore
<1>5. PublishedAtMostOnce'
  BY DEF IInv, PublishedAtMostOnce
<1> QED
  BY <1>1, <1>3, <1>4, <1>5 DEF IInv

\* A step that publishes nothing and does not lower the bound keeps what is
\* known of publication.
LEMMA QuietStep ==
  ASSUME IInv, UNCHANGED outputs, PublishedBound' \in Nat,
         PublishedBound <= PublishedBound'
  PROVE  PublishedBefore' /\ PublishedAtMostOnce'
<1> USE DEF outputs
<1>1. \A n \in Offsets : replies[n] # 0 => n < PublishedBound'
  BY BoundInLog DEF IInv, PublishedBefore, Offsets
<1>2. \A i \in 1 .. Len(events) : events[i].offset < PublishedBound'
  BY BoundInLog, EventOffsets DEF IInv, PublishedBefore
<1> QED
  BY <1>1, <1>2 DEF IInv, PublishedBefore, PublishedAtMostOnce

\* New records and retention move the end and the start of the log.
LEMMA BrokerStep ==
  ASSUME IInv, (\E r \in Record : Produce(r)) \/ DeleteOldest
  PROVE  IInv'
<1> USE DEF process, broker
<1>1. log' \in Seq(Record) /\ Len(log') <= MaxLog /\ Len(log) <= Len(log')
      /\ low' \in 1 .. Len(log') + 1 /\ Len(log') \in Nat /\ Len(log) \in Nat
  <2>1. log \in Seq(Record) /\ Len(log) \in Nat /\ Len(log) <= MaxLog
        /\ low \in 1 .. Len(log) + 1
    BY DEF IInv, TypeOK, HighWatermark
  <2>2. ASSUME NEW r \in Record, Produce(r)
        PROVE  log' \in Seq(Record) /\ Len(log') = Len(log) + 1 /\ Len(log) < MaxLog
               /\ low' = low
    BY <2>1, <2>2 DEF Produce
  <2>3. CASE DeleteOldest
    BY <2>1, <2>3 DEF DeleteOldest, HighWatermark
  <2> QED
    BY <2>1, <2>2, <2>3, WorkerAssumption
<1>2. UNCHANGED <<checkpoint, committed, outputs, pc, process, faults>>
  BY DEF Produce, DeleteOldest
<1>3. TypeOK'
  BY <1>1, <1>2 DEF IInv, TypeOK, HighWatermark, outputs
<1>4. Positions'
  BY <1>1, <1>2 DEF IInv, TypeOK, Positions, Running, ScanPcs, LivePcs, HighWatermark
<1>5. PublishedBound' \in Nat /\ PublishedBound <= PublishedBound'
  BY <1>1, <1>2 DEF PublishedBound, HighWatermark, IInv, TypeOK
<1> QED
  BY <1>2, <1>3, <1>4, <1>5, QuietStep DEF IInv

\* Recovery positions the consumer, replays in silence and never goes back
\* behind the checkpoint.
LEMMA RecoverStep ==
  ASSUME IInv, Start \/ RecoverWithoutCheckpoint \/ RecoverCheckpoint
               \/ ReplayRecord \/ ReplayPastWatermark
  PROVE  IInv'
<1> USE DEF process, broker
<1>0. Len(log) \in Nat /\ low \in 1 .. Len(log) + 1 /\ position \in Nat
      /\ checkpoint.nextOffset \in Nat /\ recovery.high \in Nat
      /\ recovery.nextOffset \in Nat /\ HighWatermark = Len(log) + 1
  BY DEF IInv, TypeOK, HighWatermark
<1>1. CASE Start
  <2>1. TypeOK'
    BY <1>1 DEF IInv, TypeOK, HighWatermark, Start, outputs
  <2>2. Positions'
    BY <1>1 DEF IInv, Positions, Start, Running, ScanPcs, LivePcs
  <2>3. PublishedBound' = PublishedBound
    BY <1>1 DEF PublishedBound, Start, HighWatermark
  <2> QED
    BY <1>1, <2>1, <2>2, <2>3, QuietStep, BoundInLog DEF IInv, Start
<1>2. ASSUME NEW next, NEW st \in RuntimeState, RecoverFrom(next, st),
             pc = "recovering", next \in low .. HighWatermark,
             checkpoint.nextOffset <= next
      PROVE  IInv'
  <2>1. TypeOK'
    BY <1>0, <1>2 DEF IInv, TypeOK, HighWatermark, RecoverFrom, outputs
  <2>2. Positions'
    BY <1>0, <1>2 DEF IInv, Positions, RecoverFrom, Running, ScanPcs, LivePcs, HighWatermark
  <2>3. PublishedBound = HighWatermark /\ PublishedBound' \in Nat
        /\ PublishedBound <= PublishedBound'
    BY <1>0, <1>2 DEF PublishedBound, RecoverFrom, HighWatermark
  <2> QED
    BY <1>2, <2>1, <2>2, <2>3, QuietStep DEF IInv, RecoverFrom
<1>3. CASE RecoverWithoutCheckpoint
  BY <1>0, <1>2, <1>3, EmptyRuntimeType DEF RecoverWithoutCheckpoint, NoCheckpoint
<1>4. CASE RecoverCheckpoint
  <2>1. checkpoint.state \in RuntimeState
    BY DEF IInv, TypeOK
  <2> QED
    BY <1>0, <1>2, <1>4, <2>1 DEF RecoverCheckpoint
<1>5. CASE ReplayRecord
  <2> DEFINE n == NextRecord
  <2>1. n \in 1 .. Len(log) /\ n < recovery.high /\ position <= n
    BY <1>0, <1>5 DEF ReplayRecord, NextRecord
  <2>2. position' = n + 1 /\ recovery' = [recovery EXCEPT !.nextOffset = n + 1]
        /\ pc' = (IF n + 1 < recovery.high THEN "replaying" ELSE "scanning")
        /\ runtime' = Apply(n, runtime) /\ pc = "replaying"
    BY <1>5 DEF ReplayRecord
  <2>3. UNCHANGED <<broker, checkpoint, committed, outputs, current, committedOffsets, faults>>
    BY <1>5 DEF ReplayRecord
  <2>4. runtime' \in RuntimeState
    BY <2>1, <2>2, ApplyType DEF IInv, TypeOK
  <2> HIDE DEF n
  <2>5. recovery' \in [nextOffset : Nat, high : Nat] /\ recovery'.high = recovery.high
        /\ recovery'.nextOffset = n + 1
    <3>1. recovery = [nextOffset |-> recovery.nextOffset, high |-> recovery.high]
      BY DEF IInv, TypeOK
    <3>2. recovery' = [nextOffset |-> n + 1, high |-> recovery.high]
      BY <2>2, <3>1
    <3> QED
      BY <1>0, <2>1, <3>2
  <2>6. TypeOK'
    BY <2>1, <2>2, <2>3, <2>4, <2>5 DEF IInv, TypeOK, HighWatermark, outputs
  <2>7. Positions'
    BY <1>0, <2>1, <2>2, <2>3, <2>5
    DEF IInv, Positions, Running, ScanPcs, LivePcs, HighWatermark
  <2>8. PublishedBound = recovery.high /\ PublishedBound' \in Nat
        /\ PublishedBound <= PublishedBound'
    BY <1>0, <2>1, <2>2, <2>5 DEF PublishedBound
  <2> QED
    BY <2>3, <2>6, <2>7, <2>8, QuietStep DEF IInv
<1>6. CASE ReplayPastWatermark
  <2> DEFINE n == NextRecord
  <2>1. n \in recovery.high .. Len(log) /\ position <= n
    BY <1>0, <1>6 DEF ReplayPastWatermark, NextRecord
  <2>2. position' = n + 1 /\ pc' = "scanning" /\ pc = "replaying"
    BY <1>6 DEF ReplayPastWatermark
  <2>3. UNCHANGED <<broker, checkpoint, committed, outputs, runtime, recovery, current,
                    committedOffsets, faults>>
    BY <1>6 DEF ReplayPastWatermark
  <2> HIDE DEF n
  <2>6. TypeOK'
    BY <1>0, <2>1, <2>2, <2>3 DEF IInv, TypeOK, HighWatermark, outputs
  <2>7. Positions'
    BY <1>0, <2>1, <2>2, <2>3
    DEF IInv, Positions, Running, ScanPcs, LivePcs, HighWatermark
  <2>8. PublishedBound = recovery.high /\ PublishedBound' \in Nat
        /\ PublishedBound <= PublishedBound'
    BY <1>0, <2>1, <2>2, <2>3 DEF PublishedBound
  <2> QED
    BY <2>3, <2>6, <2>7, <2>8, QuietStep DEF IInv
<1> QED
  BY <1>1, <1>3, <1>4, <1>5, <1>6

\* The startup scan works between the offsets recovery has reached.
LEMMA ScanStep ==
  ASSUME IInv, Scanning
  PROVE  IInv'
<1> USE DEF process, broker
<1>0. Len(log) \in Nat /\ position \in Nat /\ checkpoint.nextOffset \in Nat
      /\ recovery.nextOffset \in Nat /\ recovery.high \in Nat /\ committed \in Nat
      /\ HighWatermark = Len(log) + 1
  BY DEF IInv, TypeOK, HighWatermark
<1>1. CASE ScanNothing
  <2>1. TypeOK'
    BY <1>1 DEF IInv, TypeOK, HighWatermark, ScanNothing, outputs
  <2>2. Positions'
    BY <1>1 DEF IInv, Positions, HighWatermark, ScanNothing, Running, ScanPcs, LivePcs
  <2>3. PublishedBound' = PublishedBound
    BY <1>1 DEF PublishedBound, ScanNothing
  <2> QED
    BY <1>1, <2>1, <2>2, <2>3, QuietStep, BoundInLog DEF IInv, ScanNothing
<1>2. CASE ScanLiquidates
  <2>0. runtime' \in RuntimeState
    <3>1. runtime = [applied |-> runtime.applied, keys |-> runtime.keys,
                     nextSequence |-> runtime.nextSequence,
                     liquidatable |-> runtime.liquidatable]
          /\ runtime.nextSequence \in Nat /\ runtime.applied \in SUBSET Offsets
          /\ runtime.keys \in [Keys -> Offsets \cup {0}]
      BY DEF IInv, TypeOK, RuntimeState
    <3>2. runtime' = [applied |-> runtime.applied, keys |-> runtime.keys,
                      nextSequence |-> runtime.nextSequence + 1, liquidatable |-> FALSE]
      BY <1>2, <3>1 DEF ScanLiquidates
    <3> QED
      BY <3>1, <3>2 DEF RuntimeState
  <2>01. current' \in [offset : Nat, duplicate : BOOLEAN, original : Nat, sequence : Nat]
    BY <1>2 DEF ScanLiquidates, NoRecord, IInv, TypeOK, RuntimeState
  <2>1. TypeOK'
    BY <1>2, <2>0, <2>01 DEF IInv, TypeOK, HighWatermark, ScanLiquidates, outputs
  <2>2. Positions'
    BY <1>2 DEF IInv, Positions, HighWatermark, ScanLiquidates, Running, ScanPcs, LivePcs
  <2>3. PublishedBound' = PublishedBound
    BY <1>2 DEF PublishedBound, ScanLiquidates
  <2> QED
    BY <1>2, <2>1, <2>2, <2>3, QuietStep, BoundInLog DEF IInv, ScanLiquidates
<1>3. CASE PublishScan
  <2> DEFINE e == [offset |-> 0, sequence |-> current.sequence]
  <2>1. events' = Append(events, e) /\ e \in [offset : Nat, sequence : Nat]
    BY <1>3 DEF PublishScan, IInv, TypeOK
  <2>2. pc = "scanned" /\ pc' = "scanPublished"
        /\ UNCHANGED <<broker, checkpoint, committed, replies, process, faults>>
    BY <1>3 DEF PublishScan
  <2> HIDE DEF e
  <2>3. TypeOK'
    BY <2>1, <2>2 DEF IInv, TypeOK, HighWatermark
  <2>4. Positions'
    BY <2>2 DEF IInv, Positions, HighWatermark, Running, ScanPcs, LivePcs
  <2>5. PublishedBound = position /\ PublishedBound' = position
    BY <2>2 DEF PublishedBound
  <2>6. 0 < position
    BY <1>0, <2>2 DEF IInv, Positions, Running
  <2>7. Len(events') = Len(events) + 1 /\ events'[Len(events) + 1].offset = 0
        /\ \A i \in 1 .. Len(events) : events'[i] = events[i]
    BY <2>1 DEF IInv, TypeOK, e
  <2>8. PublishedBefore'
    BY <2>2, <2>5, <2>6, <2>7, EventOffsets DEF IInv, PublishedBefore
  <2>9. PublishedAtMostOnce'
    BY <2>2, <2>7, EventOffsets DEF IInv, PublishedAtMostOnce
  <2> QED
    BY <2>3, <2>4, <2>8, <2>9 DEF IInv
<1>4. CASE CheckpointScan
  <2>0. checkpoint' = [nextOffset |-> recovery.nextOffset, state |-> runtime]
        /\ current' = NoRecord /\ pc = "scanPublished" /\ pc' = "polling"
        /\ UNCHANGED <<broker, committed, outputs, runtime, position, recovery,
                       committedOffsets, faults>>
    BY <1>4 DEF CheckpointScan
  <2>1. TypeOK'
    BY <1>0, <2>0 DEF IInv, TypeOK, HighWatermark, outputs, NoRecord
  <2>2. Positions'
    BY <1>0, <2>0 DEF IInv, Positions, HighWatermark, Running, ScanPcs, LivePcs
  <2>3. PublishedBound' = PublishedBound
    BY <2>0 DEF PublishedBound
  <2> QED
    BY <2>0, <2>1, <2>2, <2>3, QuietStep, BoundInLog DEF IInv
<1> QED
  BY <1>1, <1>2, <1>3, <1>4 DEF Scanning

\* What the record in hand publishes was never published before.
LEMMA DeliverOnce ==
  ASSUME IInv, pc = "processed",
         NEW reply \in BOOLEAN, NEW event \in BOOLEAN, Deliver(reply, event)
  PROVE  /\ replies' \in [Offsets -> Nat]
         /\ events' \in Seq([offset : Nat, sequence : Nat])
         /\ \A n \in Offsets : replies'[n] # 0 => n <= current.offset
         /\ \A i \in 1 .. Len(events') : events'[i].offset <= current.offset
         /\ PublishedAtMostOnce'
<1>0. current.offset \in Offsets /\ current.offset \in Nat /\ current.sequence \in Nat
      /\ PublishedBound = current.offset /\ replies \in [Offsets -> Nat]
      /\ events \in Seq([offset : Nat, sequence : Nat])
  BY DEF IInv, TypeOK, Positions, LivePcs, PublishedBound
<1>1. \A n \in Offsets : replies[n] <= 1 /\ (replies[n] # 0 => n < current.offset)
  BY <1>0 DEF IInv, PublishedBefore, PublishedAtMostOnce
<1>2. replies' \in [Offsets -> Nat] /\ \A n \in Offsets :
        replies'[n] <= 1 /\ (replies'[n] # 0 => n <= current.offset)
  <2>1. CASE reply
    BY <1>0, <1>1, <2>1 DEF Deliver, Offsets
  <2>2. CASE ~reply
    BY <1>0, <1>1, <2>2 DEF Deliver, Offsets
  <2> QED
    BY <2>1, <2>2
<1>3. \A i \in 1 .. Len(events) : events[i].offset \in Nat /\ events[i].offset < current.offset
  BY <1>0, EventOffsets DEF IInv, PublishedBefore
<1>4. \A i, j \in 1 .. Len(events) :
        events[i].offset = events[j].offset /\ events[i].offset # 0 => i = j
  BY DEF IInv, PublishedAtMostOnce
<1>5. /\ events' \in Seq([offset : Nat, sequence : Nat])
      /\ \A i \in 1 .. Len(events') : events'[i].offset <= current.offset
      /\ \A i, j \in 1 .. Len(events') :
           events'[i].offset = events'[j].offset /\ events'[i].offset # 0 => i = j
  <2>1. CASE event
    <3> DEFINE e == [offset |-> current.offset, sequence |-> current.sequence]
    <3>1. events' = Append(events, e) /\ e \in [offset : Nat, sequence : Nat]
          /\ e.offset = current.offset
      BY <1>0, <2>1 DEF Deliver
    <3> HIDE DEF e
    <3>2. /\ events' \in Seq([offset : Nat, sequence : Nat])
          /\ Len(events') = Len(events) + 1 /\ Len(events) \in Nat
          /\ events'[Len(events) + 1] = e
          /\ \A i \in 1 .. Len(events) : events'[i] = events[i]
      BY <1>0, <3>1
    <3>3. \A i \in 1 .. Len(events') : i \in 1 .. Len(events) \/ i = Len(events) + 1
      BY <3>2
    <3>4. \A i \in 1 .. Len(events') : events'[i].offset <= current.offset
      BY <1>0, <1>3, <3>1, <3>2, <3>3
    <3>5. \A i \in 1 .. Len(events) : events'[i].offset \in Nat
                                      /\ events'[i].offset < events'[Len(events) + 1].offset
      BY <1>0, <1>3, <3>1, <3>2
    <3>6. ASSUME NEW i \in 1 .. Len(events'), NEW j \in 1 .. Len(events'),
                 events'[i].offset = events'[j].offset, events'[i].offset # 0
          PROVE  i = j
      <4>1. CASE i \in 1 .. Len(events) /\ j \in 1 .. Len(events)
        BY <1>4, <3>2, <3>6, <4>1
      <4>2. CASE i = Len(events) + 1 /\ j = Len(events) + 1
        BY <4>2
      <4>3. CASE i \in 1 .. Len(events) /\ j = Len(events) + 1
        BY <1>0, <3>1, <3>2, <3>5, <3>6, <4>3
      <4>4. CASE i = Len(events) + 1 /\ j \in 1 .. Len(events)
        BY <1>0, <3>1, <3>2, <3>5, <3>6, <4>4
      <4> QED
        BY <3>3, <4>1, <4>2, <4>3, <4>4
    <3> QED
      BY <3>2, <3>4, <3>6
  <2>2. CASE ~event
    BY <1>0, <1>3, <1>4, <2>2 DEF Deliver
  <2> QED
    BY <2>1, <2>2
<1> QED
  BY <1>2, <1>5 DEF PublishedAtMostOnce

\* The live cycle: process, publish, checkpoint, commit.
LEMMA LiveStep ==
  ASSUME IInv, NEW n \in Offsets,
         ProcessRecord(n) \/ Publish \/ SaveCheckpoint \/ CommitOffset
  PROVE  IInv'
<1> USE DEF process, broker
<1>0. Len(log) \in Nat /\ position \in Nat /\ checkpoint.nextOffset \in Nat
      /\ recovery.nextOffset \in Nat /\ recovery.high \in Nat /\ committed \in Nat
      /\ low \in Nat /\ HighWatermark = Len(log) + 1
      /\ current.offset \in Nat /\ runtime \in RuntimeState
  BY DEF IInv, TypeOK, HighWatermark
<1>1. CASE ProcessRecord(n)
  <2>0. n \in 1 .. Len(log) /\ position <= n /\ pc = "polling"
    BY <1>0, <1>1 DEF ProcessRecord, Polled, NextRecord, Offsets
  <2>1. pc' = "processed" /\ position' = n + 1 /\ runtime' = Apply(n, runtime)
        /\ UNCHANGED <<broker, checkpoint, committed, outputs, recovery,
                       committedOffsets, faults>>
    BY <1>1 DEF ProcessRecord
  <2>2. runtime' \in RuntimeState
    BY <2>0, <2>1, ApplyType DEF IInv, TypeOK
  <2>3. current'.offset = n
        /\ current' \in [offset : Nat, duplicate : BOOLEAN, original : Nat, sequence : Nat]
    <3>1. log[n] \in Record
      BY <2>0, SeqElement DEF IInv, TypeOK
    <3>2. IsDuplicate(log[n], runtime) \in BOOLEAN
      BY DEF IsDuplicate
    <3>3. (IF IsDuplicate(log[n], runtime) THEN runtime.keys[log[n].key] ELSE 0) \in Nat
      BY <1>0, <3>1 DEF IsDuplicate, RuntimeState, Record, Offsets
    <3>4. runtime.nextSequence \in Nat
      BY <1>0 DEF RuntimeState
    <3> QED
      BY <1>1, <2>0, <3>2, <3>3, <3>4 DEF ProcessRecord
  <2>4. TypeOK'
    BY <1>0, <2>0, <2>1, <2>2, <2>3 DEF IInv, TypeOK, HighWatermark, outputs
  <2>5. Positions'
    BY <1>0, <2>0, <2>1, <2>3
    DEF IInv, Positions, HighWatermark, Running, ScanPcs, LivePcs
  <2>6. PublishedBound = position /\ PublishedBound' = n
    BY <2>0, <2>1, <2>3 DEF PublishedBound
  <2> QED
    BY <2>0, <2>1, <2>4, <2>5, <2>6, QuietStep DEF IInv
<1>2. CASE Publish
  <2>0. pc = "processed" /\ pc' = "published" /\ Deliver(~current.duplicate, ~current.duplicate)
        /\ UNCHANGED <<broker, checkpoint, committed, process, faults>>
    BY <1>2 DEF Publish
  <2>1. /\ replies' \in [Offsets -> Nat]
        /\ events' \in Seq([offset : Nat, sequence : Nat])
        /\ \A m \in Offsets : replies'[m] # 0 => m <= current.offset
        /\ \A i \in 1 .. Len(events') : events'[i].offset <= current.offset
        /\ PublishedAtMostOnce'
    BY <2>0, DeliverOnce DEF IInv, TypeOK
  <2>2. TypeOK'
    BY <2>0, <2>1 DEF IInv, TypeOK, HighWatermark
  <2>3. Positions'
    BY <2>0 DEF IInv, Positions, HighWatermark, Running, ScanPcs, LivePcs
  <2>4. PublishedBound' = current.offset + 1
    BY <2>0 DEF PublishedBound, IInv, Positions, LivePcs
  <2>5. PublishedBefore'
    <3>1. \A i \in 1 .. Len(events') : events'[i] \in [offset : Nat, sequence : Nat]
      BY <2>1, SeqElement
    <3>2. \A i \in 1 .. Len(events') : events'[i].offset < PublishedBound'
      BY <1>0, <2>1, <2>4, <3>1
    <3>3. \A m \in Offsets : replies'[m] # 0 => m < PublishedBound'
      BY <1>0, <2>1, <2>4 DEF Offsets
    <3> QED
      BY <3>2, <3>3 DEF PublishedBefore
  <2> QED
    BY <2>1, <2>2, <2>3, <2>5 DEF IInv
<1>3. CASE SaveCheckpoint
  <2>0. checkpoint' = [nextOffset |-> current.offset + 1, state |-> runtime]
        /\ pc = "published" /\ pc' = "checkpointed"
        /\ UNCHANGED <<broker, committed, outputs, process, faults>>
    BY <1>3 DEF SaveCheckpoint
  <2>1. TypeOK'
    BY <1>0, <2>0 DEF IInv, TypeOK, HighWatermark, outputs
  <2>2. Positions'
    BY <1>0, <2>0 DEF IInv, Positions, HighWatermark, Running, ScanPcs, LivePcs
  <2>3. PublishedBound' = PublishedBound
    BY <2>0 DEF PublishedBound
  <2> QED
    BY <2>0, <2>1, <2>2, <2>3, QuietStep, BoundInLog DEF IInv
<1>4. CASE CommitOffset
  <2>0. committed' = current.offset + 1 /\ pc = "checkpointed" /\ pc' = "polling"
        /\ committedOffsets' = committedOffsets \cup {current.offset}
        /\ current' = NoRecord
        /\ UNCHANGED <<broker, checkpoint, outputs, runtime, position, recovery, faults>>
    BY <1>4 DEF CommitOffset
  <2>1. current.offset \in Offsets
    BY <2>0 DEF IInv, Positions, LivePcs
  <2>2. TypeOK'
    BY <1>0, <2>0, <2>1 DEF IInv, TypeOK, HighWatermark, outputs, NoRecord
  <2>3. Positions'
    BY <1>0, <2>0 DEF IInv, Positions, HighWatermark, Running, ScanPcs, LivePcs
  <2>4. PublishedBound' = PublishedBound
    BY <2>0 DEF PublishedBound
  <2> QED
    BY <2>0, <2>2, <2>3, <2>4, QuietStep, BoundInLog DEF IInv
<1> QED
  BY <1>1, <1>2, <1>3, <1>4

\* A publication that fails half-way is followed by the end of the process.
LEMMA PublishFailedStep ==
  ASSUME IInv, PublishFailed
  PROVE  IInv'
<1> USE DEF process, broker
<1>0. pc = "processed" /\ Exit /\ faults' \in Nat /\ UNCHANGED <<broker, checkpoint, committed>>
  BY DEF PublishFailed, Fault, IInv, TypeOK
<1>1. PICK reply, event \in BOOLEAN : Deliver(reply, event)
  BY DEF PublishFailed
<1>2. /\ replies' \in [Offsets -> Nat]
      /\ events' \in Seq([offset : Nat, sequence : Nat])
      /\ \A n \in Offsets : replies'[n] # 0 => n <= current.offset
      /\ \A i \in 1 .. Len(events') : events'[i].offset <= current.offset
      /\ PublishedAtMostOnce'
  BY <1>0, <1>1, DeliverOnce
<1>3. TypeOK'
  BY <1>0, <1>2, ExitType DEF IInv, TypeOK, HighWatermark
<1>4. pc' = "down"
  BY <1>0, ExitType
<1>5. Positions'
  BY <1>0, <1>4 DEF IInv, Positions, Running, ScanPcs, LivePcs
<1>6. PublishedBound' = HighWatermark
  BY <1>0, <1>4 DEF PublishedBound, HighWatermark
<1>7. HighWatermark \in Nat /\ current.offset \in Nat /\ current.offset < HighWatermark
  BY <1>0 DEF IInv, TypeOK, Positions, Running, LivePcs, HighWatermark
<1>8. \A i \in 1 .. Len(events') : events'[i].offset \in Nat
  <2>1. \A i \in 1 .. Len(events') : events'[i] \in [offset : Nat, sequence : Nat]
    BY <1>2, SeqElement
  <2> QED
    BY <2>1
<1>9. PublishedBefore'
  BY <1>2, <1>6, <1>7, <1>8 DEF PublishedBefore, Offsets
<1> QED
  BY <1>2, <1>3, <1>5, <1>9 DEF IInv

\* Every step keeps the invariant.
LEMMA NextIInv == IInv /\ [Next]_vars => IInv'
<1> SUFFICES ASSUME IInv, [Next]_vars PROVE IInv'
  OBVIOUS
<1> USE DEF process, broker
<1>0. ASSUME Fault PROVE faults' \in Nat
  BY <1>0 DEF Fault, IInv, TypeOK
<1>1. CASE (\E r \in Record : Produce(r)) \/ DeleteOldest
  BY <1>1, BrokerStep
<1>2. CASE Start \/ RecoverWithoutCheckpoint \/ RecoverCheckpoint \/ ReplayRecord
           \/ ReplayPastWatermark
  BY <1>2, RecoverStep
<1>3. CASE RecoveryRefused \/ ReplayFailed \/ UnsafeDuplicate
           \/ \E n \in Offsets : RejectInput(n)
  <2>1. Exit /\ UNCHANGED <<broker, checkpoint, committed, outputs, faults>>
    BY <1>3 DEF RecoveryRefused, ReplayFailed, UnsafeDuplicate, RejectInput
  <2>2. faults' \in Nat
    BY <2>1 DEF IInv, TypeOK
  <2> QED
    BY <2>1, <2>2, ExitStep
<1>4. CASE Crash \/ RecoveryFailed \/ CallFailed
  <2>1. Exit /\ Fault /\ UNCHANGED <<broker, checkpoint, committed, outputs>>
    BY <1>4 DEF Crash, RecoveryFailed, CallFailed
  <2> QED
    BY <1>0, <2>1, ExitStep
<1>5. CASE PublishFailed
  BY <1>5, PublishFailedStep
<1>6. CASE Scanning
  BY <1>6, ScanStep
<1>7. ASSUME NEW n \in Offsets, ProcessRecord(n) PROVE IInv'
  BY <1>7, LiveStep
<1>8. CASE Publish \/ SaveCheckpoint \/ CommitOffset
  <2>1. current.offset \in Offsets
    BY <1>8 DEF Publish, SaveCheckpoint, CommitOffset, IInv, Positions, LivePcs
  <2> QED
    BY <1>8, <2>1, LiveStep
<1>9. CASE UNCHANGED vars
  BY <1>9 DEF vars, outputs, IInv, TypeOK, Positions, PublishedBefore, PublishedAtMostOnce,
              PublishedBound, HighWatermark, Running
<1> QED
  BY <1>1, <1>2, <1>3, <1>4, <1>5, <1>6, <1>7, <1>8, <1>9
  DEF Next, RetainedNext, Worker, Recovering, LiveCycle, Failing

-----------------------------------------------------------------------------
(* Theorems.                                                               *)

\* The inductive invariant holds in every reachable state.
THEOREM WorkerInvariance == Spec => []IInv
  BY InitIInv, NextIInv, PTL DEF Spec

\* Type correctness of the worker: offsets, outputs and the memory of a
\* process stay what they are declared to be across every restart.
THEOREM WorkerTypeCorrect == Spec => []TypeOK
<1>1. IInv => TypeOK
  BY DEF IInv
<1> QED
  BY <1>1, WorkerInvariance, PTL

\* The offset committed at the broker is never ahead of the checkpoint: the
\* checkpoint is saved before the commit in every live cycle, and no restart
\* saves an older one over it.
THEOREM CommitFollowsCheckpoint == Spec => []CommittedWithinCheckpoint
<1>1. IInv => CommittedWithinCheckpoint
  BY DEF IInv, Positions, CommittedWithinCheckpoint
<1> QED
  BY <1>1, WorkerInvariance, PTL

\* No request is answered twice and no input has its events published twice,
\* however often the worker fails between publishing and checkpointing, and
\* whatever retention deletes meanwhile.
THEOREM AtMostOnce == Spec => []PublishedAtMostOnce
<1>1. IInv => PublishedAtMostOnce
  BY DEF IInv
<1> QED
  BY <1>1, WorkerInvariance, PTL

-----------------------------------------------------------------------------
(* While the broker retains what recovery needs, a state is determined by   *)
(* the offset it has reached: its records are the originals of the prefix,  *)
(* and its idempotency map knows exactly the keys of the prefix.            *)

OriginalsOf(lg, next) ==
  {n \in 1 .. next - 1 :
     \A m \in 1 .. n - 1 : lg[m].key = NoKey \/ lg[m].key # lg[n].key}

Covers(lg, st, next) ==
  /\ st.applied = OriginalsOf(lg, next)
  /\ \A k \in Keys :
       /\ st.keys[k] = 0 => \A n \in 1 .. next - 1 : lg[n].key # k
       /\ st.keys[k] # 0 => st.keys[k] \in 1 .. next - 1 /\ lg[st.keys[k]].key = k

Coverage ==
  /\ low = 1
  /\ checkpoint.nextOffset <= HighWatermark
  /\ checkpoint.nextOffset # 0 => Covers(log, checkpoint.state, checkpoint.nextOffset)
  /\ Running => Covers(log, runtime, position)
  /\ pc \in ScanPcs \cup {"replaying"} => recovery.nextOffset = position
  /\ pc = "replaying" => position < recovery.high

\* Coverage is all that is lost when the broker deletes a first record.
CoverageInv == IInv /\ (low = 1 => Coverage)

\* Nothing has been applied before the first offset.
LEMMA EmptyCovers ==
  ASSUME NEW lg
  PROVE  Covers(lg, EmptyRuntime, 1)
  BY DEF Covers, OriginalsOf, EmptyRuntime

\* Covering a prefix does not depend on what follows the prefix.
LEMMA CoversPrefix ==
  ASSUME NEW lg, NEW longer, NEW st, NEW next \in Nat,
         \A m \in 1 .. next - 1 : longer[m] = lg[m],
         Covers(lg, st, next)
  PROVE  Covers(longer, st, next)
<1>1. OriginalsOf(longer, next) = OriginalsOf(lg, next)
  BY DEF OriginalsOf
<1>2. \A k \in Keys :
        /\ st.keys[k] = 0 => \A n \in 1 .. next - 1 : longer[n].key # k
        /\ st.keys[k] # 0 => st.keys[k] \in 1 .. next - 1 /\ longer[st.keys[k]].key = k
  BY DEF Covers
<1> QED
  BY <1>1, <1>2 DEF Covers

\* Processing the next record extends the prefix by one, whether the record is
\* new, repeated or without a key.
LEMMA ApplyCovers ==
  ASSUME TypeOK, NEW n \in 1 .. Len(log), NEW st \in RuntimeState,
         Covers(log, st, n)
  PROVE  Covers(log, Apply(n, st), n + 1)
<1> DEFINE r == log[n]
<1>0. r \in Record /\ n \in Nat \ {0} /\ n + 1 - 1 = n
  BY SeqElement DEF TypeOK
<1>1. st.keys \in [Keys -> Offsets \cup {0}]
  BY DEF RuntimeState
<1>2. \A k \in Keys :
        /\ st.keys[k] = 0 => \A m \in 1 .. n - 1 : log[m].key # k
        /\ st.keys[k] # 0 => st.keys[k] \in 1 .. n - 1 /\ log[st.keys[k]].key = k
  BY DEF Covers
<1>3. r.key # NoKey => r.key \in Keys
  BY <1>0 DEF Record
<1> HIDE DEF r
<1>4. CASE IsDuplicate(r, st)
  <2>1. r.key \in Keys /\ st.keys[r.key] # 0 /\ r.key # NoKey
    BY <1>3, <1>4 DEF IsDuplicate
  <2>2. PICK m \in 1 .. n - 1 : log[m].key = r.key
    BY <1>2, <2>1
  <2>3. OriginalsOf(log, n + 1) = OriginalsOf(log, n)
    BY <1>0, <2>1, <2>2 DEF OriginalsOf, r
  <2>4. Apply(n, st) = st
    BY <1>4 DEF Apply, r
  <2>5. \A k \in Keys :
          /\ st.keys[k] = 0 => \A i \in 1 .. n : log[i].key # k
          /\ st.keys[k] # 0 => st.keys[k] \in 1 .. n /\ log[st.keys[k]].key = k
    <3>1. ASSUME NEW k \in Keys, st.keys[k] = 0, NEW i \in 1 .. n
          PROVE  log[i].key # k
      <4>1. CASE i = n
        BY <2>1, <3>1, <4>1 DEF r
      <4>2. CASE i # n
        BY <1>0, <1>2, <3>1, <4>2
      <4> QED
        BY <4>1, <4>2
    <3>2. ASSUME NEW k \in Keys, st.keys[k] # 0
          PROVE  st.keys[k] \in 1 .. n /\ log[st.keys[k]].key = k
      BY <1>0, <1>2, <3>2
    <3> QED
      BY <3>1, <3>2
  <2> QED
    BY <1>0, <2>3, <2>4, <2>5 DEF Covers
<1>5. CASE ~IsDuplicate(r, st)
  <2>1. \A m \in 1 .. n - 1 : log[m].key = NoKey \/ log[m].key # r.key
    <3>1. CASE r.key = NoKey
      BY <3>1
    <3>2. CASE r.key # NoKey
      BY <1>2, <1>3, <1>5, <3>2 DEF IsDuplicate
    <3> QED
      BY <3>1, <3>2
  <2>2. OriginalsOf(log, n + 1) = OriginalsOf(log, n) \cup {n}
    BY <1>0, <2>1 DEF OriginalsOf, r
  <2> DEFINE keys == IF r.key = NoKey THEN st.keys ELSE [st.keys EXCEPT ![r.key] = n]
  <2>3. Apply(n, st).applied = st.applied \cup {n} /\ Apply(n, st).keys = keys
    BY <1>5 DEF Apply, r
  <2>4. \A k \in Keys : keys[k] = IF r.key = k THEN n ELSE st.keys[k]
    BY <1>1, <1>3, WorkerAssumption
  <2> HIDE DEF keys
  <2>5. \A k \in Keys :
          /\ keys[k] = 0 => \A i \in 1 .. n : log[i].key # k
          /\ keys[k] # 0 => keys[k] \in 1 .. n /\ log[keys[k]].key = k
    <3>1. ASSUME NEW k \in Keys, r.key = k
          PROVE  /\ keys[k] = 0 => \A i \in 1 .. n : log[i].key # k
                 /\ keys[k] # 0 => keys[k] \in 1 .. n /\ log[keys[k]].key = k
      <4>1. keys[k] = n /\ log[n].key = k
        BY <2>4, <3>1 DEF r
      <4> QED
        BY <1>0, <4>1
    <3>2. ASSUME NEW k \in Keys, r.key # k
          PROVE  /\ keys[k] = 0 => \A i \in 1 .. n : log[i].key # k
                 /\ keys[k] # 0 => keys[k] \in 1 .. n /\ log[keys[k]].key = k
      <4>1. keys[k] = st.keys[k]
        BY <2>4, <3>2
      <4>2. \A i \in 1 .. n : i = n \/ i \in 1 .. n - 1
        BY <1>0
      <4>3. log[n].key # k
        BY <3>2 DEF r
      <4> QED
        BY <1>0, <1>2, <4>1, <4>2, <4>3
    <3> QED
      BY <3>1, <3>2
  <2> QED
    BY <1>0, <2>2, <2>3, <2>5 DEF Covers
<1> QED
  BY <1>4, <1>5

\* A worker that is not running, over an unchanged log and checkpoint.
LEMMA StoppedCoverage ==
  ASSUME Coverage, UNCHANGED <<broker, checkpoint>>, pc' \in {"down", "recovering"}
  PROVE  Coverage'
  BY DEF Coverage, broker, Running, ScanPcs, HighWatermark

\* Every step of a worker whose log is retained keeps the coverage.
LEMMA RetainedStep == IInv /\ Coverage /\ [RetainedNext]_vars => Coverage'
<1> SUFFICES ASSUME IInv, Coverage, [RetainedNext]_vars PROVE Coverage'
  OBVIOUS
<1> USE DEF process, broker
<1>0. TypeOK /\ Len(log) \in Nat /\ HighWatermark = Len(log) + 1 /\ position \in Nat
      /\ runtime \in RuntimeState /\ checkpoint.nextOffset \in Nat
      /\ recovery.high \in Nat /\ low = 1
  BY DEF IInv, TypeOK, HighWatermark, Coverage
<1>1. ASSUME NEW r \in Record, Produce(r) PROVE Coverage'
  <2>1. Len(log') = Len(log) + 1 /\ \A m \in 1 .. Len(log) : log'[m] = log[m]
    BY <1>0, <1>1 DEF Produce, TypeOK
  <2>2. UNCHANGED <<low, checkpoint, pc, runtime, position, recovery>>
    BY <1>1 DEF Produce
  <2>3. checkpoint.nextOffset # 0 => Covers(log', checkpoint.state, checkpoint.nextOffset)
    BY <1>0, <2>1, CoversPrefix DEF Coverage
  <2>4. Running => Covers(log', runtime, position)
    <3>1. Running => position <= HighWatermark
      BY DEF IInv, Positions
    <3> QED
      BY <1>0, <2>1, <3>1, CoversPrefix DEF Coverage
  <2> QED
    BY <1>0, <2>1, <2>2, <2>3, <2>4 DEF Coverage, Running, ScanPcs, HighWatermark
<1>2. CASE RecoveryRefused \/ ReplayFailed \/ UnsafeDuplicate \/ Failing \/ Start
           \/ \E n \in Offsets : RejectInput(n)
  <2>1. pc' \in {"down", "recovering"} /\ UNCHANGED <<broker, checkpoint>>
    BY <1>2 DEF RecoveryRefused, ReplayFailed, UnsafeDuplicate, RejectInput, Failing, Start,
                Crash, RecoveryFailed, PublishFailed, CallFailed, Exit
  <2> QED
    BY <2>1, StoppedCoverage
<1>3. ASSUME NEW next \in Nat, NEW st, RecoverFrom(next, st), Covers(log, st, next)
      PROVE  Coverage'
  BY <1>0, <1>3 DEF RecoverFrom, Coverage, Running, ScanPcs, HighWatermark
<1>4. CASE RecoverWithoutCheckpoint
  BY <1>0, <1>3, <1>4, EmptyCovers DEF RecoverWithoutCheckpoint
<1>5. CASE RecoverCheckpoint
  BY <1>0, <1>3, <1>5 DEF RecoverCheckpoint, Coverage
<1>6. Running => NextRecord = position
  BY <1>0 DEF NextRecord, IInv, Positions
<1>7. CASE ReplayRecord
  <2>1. pc = "replaying" /\ position \in 1 .. Len(log) /\ position' = position + 1
        /\ runtime' = Apply(position, runtime) /\ UNCHANGED <<broker, checkpoint>>
        /\ recovery' = [recovery EXCEPT !.nextOffset = position + 1]
        /\ pc' = (IF position + 1 < recovery.high THEN "replaying" ELSE "scanning")
    BY <1>6, <1>7 DEF ReplayRecord, Running
  <2>2. Covers(log, runtime, position)
    BY <2>1 DEF Coverage, Running
  <2>3. Covers(log, Apply(position, runtime), position + 1)
    BY <1>0, <2>1, <2>2, ApplyCovers
  <2>4. recovery'.nextOffset = position + 1 /\ recovery'.high = recovery.high
    BY <1>0, <2>1 DEF TypeOK
  <2> QED
    BY <1>0, <2>1, <2>3, <2>4 DEF Coverage, Running, ScanPcs, HighWatermark
<1>8. CASE ReplayPastWatermark
  <2>1. pc = "replaying" /\ position \in recovery.high .. Len(log)
    BY <1>6, <1>8 DEF ReplayPastWatermark, Running
  <2> QED
    BY <1>0, <2>1 DEF Coverage
<1>9. CASE ScanNothing \/ ScanLiquidates \/ PublishScan
  <2>1. UNCHANGED <<log, low, checkpoint, position, recovery>>
        /\ pc \in ScanPcs /\ pc' \in ScanPcs \cup {"polling"}
    BY <1>9 DEF ScanNothing, ScanLiquidates, PublishScan, ScanPcs
  <2>2. runtime'.applied = runtime.applied /\ runtime'.keys = runtime.keys
    <3>1. CASE ScanLiquidates
      <4>1. runtime = [applied |-> runtime.applied, keys |-> runtime.keys,
                       nextSequence |-> runtime.nextSequence,
                       liquidatable |-> runtime.liquidatable]
        BY <1>0 DEF RuntimeState
      <4>2. runtime' = [applied |-> runtime.applied, keys |-> runtime.keys,
                        nextSequence |-> runtime.nextSequence + 1, liquidatable |-> FALSE]
        BY <3>1, <4>1 DEF ScanLiquidates
      <4> QED
        BY <4>2
    <3>2. CASE ScanNothing \/ PublishScan
      BY <3>2 DEF ScanNothing, PublishScan
    <3> QED
      BY <1>9, <3>1, <3>2
  <2>3. Covers(log, runtime, position)
    BY <2>1 DEF Coverage, Running, ScanPcs
  <2>4. Covers(log, runtime', position)
    BY <2>2, <2>3 DEF Covers
  <2> QED
    BY <1>0, <2>1, <2>4 DEF Coverage, Running, ScanPcs, HighWatermark
<1>10. CASE CheckpointScan
  <2>1. checkpoint' = [nextOffset |-> position, state |-> runtime]
        /\ pc = "scanPublished" /\ pc' = "polling"
        /\ UNCHANGED <<log, low, runtime, position, recovery>>
    BY <1>10 DEF CheckpointScan, Coverage, ScanPcs
  <2>2. Covers(log, runtime, position) /\ position <= HighWatermark
    BY <2>1 DEF Coverage, Running, IInv, Positions
  <2> QED
    BY <1>0, <2>1, <2>2 DEF Coverage, Running, ScanPcs, HighWatermark
<1>11. ASSUME NEW n \in Offsets, ProcessRecord(n) PROVE Coverage'
  <2>1. n = position /\ n \in 1 .. Len(log) /\ pc = "polling" /\ pc' = "processed"
        /\ position' = n + 1 /\ runtime' = Apply(n, runtime)
        /\ UNCHANGED <<log, low, checkpoint, recovery>>
    BY <1>0, <1>6, <1>11 DEF ProcessRecord, Polled, Running, Offsets
  <2>2. Covers(log, runtime, n)
    BY <2>1 DEF Coverage, Running
  <2>3. Covers(log, Apply(n, runtime), n + 1)
    BY <1>0, <2>1, <2>2, ApplyCovers
  <2> QED
    BY <1>0, <2>1, <2>3 DEF Coverage, Running, ScanPcs, HighWatermark
<1>12. CASE SaveCheckpoint
  <2>1. checkpoint' = [nextOffset |-> position, state |-> runtime]
        /\ pc = "published" /\ pc' = "checkpointed"
        /\ UNCHANGED <<log, low, runtime, position, recovery>>
    BY <1>12 DEF SaveCheckpoint, IInv, Positions, LivePcs
  <2>2. Covers(log, runtime, position) /\ position <= HighWatermark
    BY <2>1 DEF Coverage, Running, IInv, Positions
  <2> QED
    BY <1>0, <2>1, <2>2 DEF Coverage, Running, ScanPcs, HighWatermark
<1>13. CASE Publish \/ CommitOffset \/ UNCHANGED vars
  <2>1. UNCHANGED <<log, low, checkpoint, runtime, position, recovery>>
        /\ (pc' = pc \/ pc' \in {"published", "polling"})
        /\ (pc' # pc => Running)
    BY <1>13 DEF Publish, CommitOffset, vars, Running
  <2> QED
    BY <2>1 DEF Coverage, Running, ScanPcs, HighWatermark
<1> QED
  BY <1>1, <1>2, <1>4, <1>5, <1>7, <1>8, <1>9, <1>10, <1>11, <1>12, <1>13
  DEF RetainedNext, Worker, Recovering, Scanning, LiveCycle

\* Only retention moves the first offset the broker keeps.
LEMMA RetainedKeepsLow == [RetainedNext]_vars => low' = low
BY DEF RetainedNext, vars, broker, outputs, process, Produce, Start, Worker, Recovering,
       Scanning, LiveCycle, Failing, Exit, Fault, Crash, RecoverFrom, RecoverWithoutCheckpoint,
       RecoverCheckpoint, RecoveryRefused, RecoveryFailed, ReplayRecord, ReplayPastWatermark,
       ReplayFailed, ScanNothing, ScanLiquidates, PublishScan, CheckpointScan, RejectInput,
       ProcessRecord, Publish, PublishFailed, UnsafeDuplicate, SaveCheckpoint, CallFailed,
       CommitOffset

\* The coverage lasts while the first record does.
LEMMA CoverageNext == CoverageInv /\ [Next]_vars => CoverageInv'
<1> SUFFICES ASSUME CoverageInv, [Next]_vars, low' = 1
             PROVE  Coverage'
  BY NextIInv DEF CoverageInv
<1>1. CASE [RetainedNext]_vars
  BY <1>1, RetainedStep, RetainedKeepsLow DEF CoverageInv
<1>2. CASE DeleteOldest
  BY <1>2 DEF DeleteOldest, CoverageInv, IInv, TypeOK, Offsets
<1> QED
  BY <1>1, <1>2 DEF Next

\* Until the broker deletes a record, a checkpoint with next_offset N and a
\* running state at offset N hold every record below N exactly once, through
\* any sequence of crashes, failed calls, refused records and repeated keys.
THEOREM PrefixCovered == Spec => []StateCoversLog
<1>1. Init => CoverageInv
  <2>1. Init => Coverage
    BY DEF Init, Coverage, NoCheckpoint, HighWatermark, Running, ScanPcs
  <2> QED
    BY <2>1, InitIInv DEF CoverageInv
<1>2. CoverageInv /\ [Next]_vars => CoverageInv'
  BY CoverageNext
<1>3. CoverageInv => StateCoversLog
  <2>1. ASSUME NEW st, NEW next, Covers(log, st, next)
        PROVE  st.applied = Originals(next)
    BY <2>1 DEF Covers, OriginalsOf, Originals
  <2> QED
    BY <2>1 DEF CoverageInv, Coverage, StateCoversLog
<1> QED
  BY <1>1, <1>2, <1>3, PTL DEF Spec
-----------------------------------------------------------------------------
(* Sequence numbers.  On a retained log without startup liquidations the    *)
(* number an event gets is a function of the log alone: one more than the   *)
(* originals before its record that emit an event.  So it does not matter   *)
(* which process publishes it, or from which checkpoint.                    *)

NumberedOf(lg, next) == {n \in OriginalsOf(lg, next) : lg[n].kind # "foreign"}
Count(lg, next) == Cardinality(NumberedOf(lg, next))

Quiet == \A n \in 1 .. Len(log) : log[n].kind # "liquidation"

StateNumbered ==
  /\ checkpoint.nextOffset # 0 =>
       checkpoint.state.nextSequence = Count(log, checkpoint.nextOffset) + 1
  /\ Running => runtime.nextSequence = Count(log, position) + 1
  /\ ~checkpoint.state.liquidatable /\ ~runtime.liquidatable
  /\ pc \notin {"scanned", "scanPublished"}
  /\ pc = "processed" /\ ~current.duplicate =>
       /\ current.offset \in NumberedOf(log, HighWatermark)
       /\ current.sequence = Count(log, current.offset) + 1

EventsNumbered ==
  /\ \A i \in 1 .. Len(events) :
       /\ events[i].offset \in NumberedOf(log, HighWatermark)
       /\ events[i].sequence = Count(log, events[i].offset) + 1
  /\ \A i, j \in 1 .. Len(events) : i < j => events[i].offset < events[j].offset

Numbering == StateNumbered /\ EventsNumbered

SequenceInv == CoverageInv /\ (low = 1 /\ Quiet => Numbering)

\* Counting the numbered records of a prefix.
LEMMA CountFacts ==
  ASSUME NEW lg, NEW next \in Nat
  PROVE  IsFiniteSet(NumberedOf(lg, next)) /\ Count(lg, next) \in Nat
<1>1. NumberedOf(lg, next) \subseteq 1 .. next - 1
  BY DEF NumberedOf, OriginalsOf
<1>2. IsFiniteSet(1 .. next - 1)
  BY FS_Interval
<1>3. IsFiniteSet(NumberedOf(lg, next))
  BY <1>1, <1>2, FS_Subset
<1> QED
  BY <1>3, FS_CardinalityType DEF Count

\* Before the first record there is none.
LEMMA CountStart ==
  ASSUME NEW lg
  PROVE  Count(lg, 1) = 0
<1>1. NumberedOf(lg, 1) = {}
  BY DEF NumberedOf, OriginalsOf
<1> QED
  BY <1>1, FS_EmptySet DEF Count

\* What follows a prefix does not count.
LEMMA CountPrefix ==
  ASSUME NEW lg, NEW longer, NEW next \in Nat,
         \A m \in 1 .. next - 1 : longer[m] = lg[m]
  PROVE  NumberedOf(longer, next) = NumberedOf(lg, next) /\ Count(longer, next) = Count(lg, next)
<1>1. OriginalsOf(longer, next) = OriginalsOf(lg, next)
  BY DEF OriginalsOf
<1>2. OriginalsOf(lg, next) \subseteq 1 .. next - 1
  BY DEF OriginalsOf
<1>3. NumberedOf(longer, next) = NumberedOf(lg, next)
  BY <1>1, <1>2 DEF NumberedOf
<1> QED
  BY <1>3 DEF Count

\* A numbered record belongs to every longer prefix.
LEMMA NumberedStays ==
  ASSUME NEW lg, NEW a \in Nat, NEW b \in Nat, a <= b
  PROVE  NumberedOf(lg, a) \subseteq NumberedOf(lg, b)
  BY DEF NumberedOf, OriginalsOf

\* The number of a record is smaller than that of a later one.
LEMMA CountGrows ==
  ASSUME NEW lg, NEW a \in Nat, NEW b \in Nat, a < b,
         a \in NumberedOf(lg, b)
  PROVE  Count(lg, a) < Count(lg, b)
<1>1. a \notin NumberedOf(lg, a) /\ NumberedOf(lg, a) \cup {a} \subseteq NumberedOf(lg, b)
  BY NumberedStays DEF NumberedOf, OriginalsOf
<1>2. Cardinality(NumberedOf(lg, a) \cup {a}) = Count(lg, a) + 1
  BY <1>1, CountFacts, FS_AddElement DEF Count
<1>3. Cardinality(NumberedOf(lg, a) \cup {a}) <= Count(lg, b)
  BY <1>1, CountFacts, FS_Subset DEF Count
<1>4. Count(lg, a) \in Nat /\ Count(lg, b) \in Nat
  BY CountFacts
<1> QED
  BY <1>2, <1>3, <1>4

\* The runtime's sequence number keeps pace with the log, record by record; a
\* record it does not recognise and the market owns is numbered.
LEMMA ApplyCounts ==
  ASSUME TypeOK, NEW n \in 1 .. Len(log), NEW st \in RuntimeState,
         Covers(log, st, n), st.nextSequence = Count(log, n) + 1
  PROVE  /\ Apply(n, st).nextSequence = Count(log, n + 1) + 1
         /\ ~IsDuplicate(log[n], st) /\ log[n].kind # "foreign"
              => n \in NumberedOf(log, n + 1)
<1>0. n \in Nat /\ n + 1 \in Nat /\ Count(log, n) \in Nat /\ Count(log, n + 1) \in Nat
  BY CountFacts DEF TypeOK
<1>1. st.applied = OriginalsOf(log, n) /\ Apply(n, st).applied = OriginalsOf(log, n + 1)
  BY ApplyCovers DEF Covers
<1>2. CASE IsDuplicate(log[n], st)
  <2>1. Apply(n, st) = st
    BY <1>2 DEF Apply
  <2>2. OriginalsOf(log, n) = OriginalsOf(log, n + 1)
    BY <1>1, <2>1
  <2>3. Count(log, n) = Count(log, n + 1)
    BY <2>2 DEF Count, NumberedOf
  <2> QED
    BY <1>2, <2>1, <2>3
<1>3. CASE ~IsDuplicate(log[n], st)
  <2>1. Apply(n, st).applied = st.applied \cup {n}
    BY <1>3 DEF Apply
  <2>2. Apply(n, st).nextSequence
          = st.nextSequence + (IF log[n].kind = "foreign" THEN 0 ELSE 1)
    BY <1>3 DEF Apply
  <2>3. OriginalsOf(log, n + 1) = OriginalsOf(log, n) \cup {n}
    BY <1>1, <2>1
  <2>4. CASE log[n].kind = "foreign"
    <3>1. NumberedOf(log, n + 1) = NumberedOf(log, n)
      BY <2>3, <2>4 DEF NumberedOf
    <3>2. Count(log, n) = Count(log, n + 1)
      BY <3>1 DEF Count
    <3> QED
      BY <1>0, <2>2, <2>4, <3>2
  <2>5. CASE log[n].kind # "foreign"
    <3>1. NumberedOf(log, n + 1) = NumberedOf(log, n) \cup {n}
      BY <2>3, <2>5 DEF NumberedOf
    <3>2. n \notin NumberedOf(log, n)
      BY <1>0 DEF NumberedOf, OriginalsOf
    <3>3. IsFiniteSet(NumberedOf(log, n))
      BY <1>0, CountFacts
    <3>4. Cardinality(NumberedOf(log, n) \cup {n}) = Cardinality(NumberedOf(log, n)) + 1
      BY <3>2, <3>3, FS_AddElement
    <3>5. Count(log, n + 1) = Count(log, n) + 1
      BY <3>1, <3>4 DEF Count
    <3>6. n \in NumberedOf(log, n + 1)
      BY <3>1
    <3> QED
      BY <1>0, <2>2, <2>5, <3>5, <3>6
  <2> QED
    BY <2>4, <2>5
<1> QED
  BY <1>2, <1>3

\* A record that is not a liquidation leaves no position to liquidate.
LEMMA ApplyQuiet ==
  ASSUME NEW n, NEW st, log[n].kind # "liquidation", ~st.liquidatable
  PROVE  ~Apply(n, st).liquidatable
<1>1. CASE IsDuplicate(log[n], st)
  BY <1>1 DEF Apply
<1>2. CASE ~IsDuplicate(log[n], st)
  BY <1>2 DEF Apply
<1> QED
  BY <1>1, <1>2

\* Publishing appends the record in hand with its number, after all events.
LEMMA DeliverNumbered ==
  ASSUME IInv, Numbering, pc = "processed", UNCHANGED broker,
         NEW reply, NEW event, event => ~current.duplicate, Deliver(reply, event)
  PROVE  EventsNumbered'
<1>0. /\ events \in Seq([offset : Nat, sequence : Nat]) /\ Len(events) \in Nat
      /\ current.offset \in Nat /\ current.sequence \in Nat
      /\ log' = log /\ HighWatermark' = HighWatermark
  BY DEF IInv, TypeOK, broker, HighWatermark
<1>1. CASE ~event
  BY <1>0, <1>1 DEF Deliver, Numbering, EventsNumbered
<1>2. CASE event
  <2> DEFINE e == [offset |-> current.offset, sequence |-> current.sequence]
  <2>1. /\ e.offset = current.offset /\ e.sequence = current.sequence
        /\ events' = Append(events, e) /\ e \in [offset : Nat, sequence : Nat]
    BY <1>0, <1>2 DEF Deliver
  <2> HIDE DEF e
  <2>2. /\ Len(events') = Len(events) + 1 /\ events'[Len(events) + 1] = e
        /\ \A i \in 1 .. Len(events) : events'[i] = events[i]
    BY <1>0, <2>1
  <2>3. /\ current.offset \in NumberedOf(log, HighWatermark)
        /\ current.sequence = Count(log, current.offset) + 1
    BY <1>2 DEF Numbering, StateNumbered
  <2>4. \A i \in 1 .. Len(events) : events[i].offset \in Nat /\ events[i].offset < current.offset
    BY EventOffsets DEF IInv, PublishedBefore, PublishedBound
  <2>5. \A i \in 1 .. Len(events') : i \in 1 .. Len(events) \/ i = Len(events) + 1
    BY <1>0, <2>2
  <2>6. ASSUME NEW i \in 1 .. Len(events')
        PROVE  /\ events'[i].offset \in NumberedOf(log, HighWatermark)
               /\ events'[i].sequence = Count(log, events'[i].offset) + 1
    <3>1. CASE i \in 1 .. Len(events)
      BY <2>2, <3>1 DEF Numbering, EventsNumbered
    <3>2. CASE i = Len(events) + 1
      BY <2>1, <2>2, <2>3, <3>2
    <3> QED
      BY <2>5, <3>1, <3>2
  <2>7. ASSUME NEW i \in 1 .. Len(events'), NEW j \in 1 .. Len(events'), i < j
        PROVE  events'[i].offset < events'[j].offset
    <3>1. i \in 1 .. Len(events)
      BY <1>0, <2>2, <2>7
    <3>2. CASE j \in 1 .. Len(events)
      BY <2>2, <2>7, <3>1, <3>2 DEF Numbering, EventsNumbered
    <3>3. CASE j = Len(events) + 1
      BY <2>1, <2>2, <2>4, <3>1, <3>3
    <3> QED
      BY <2>5, <3>2, <3>3
  <2> QED
    BY <1>0, <2>6, <2>7 DEF EventsNumbered
<1> QED
  BY <1>1, <1>2

\* Events keep their numbers where the log and the events stay.
LEMMA EventsStay ==
  ASSUME Numbering, UNCHANGED <<log, events>>
  PROVE  EventsNumbered'
  BY DEF Numbering, EventsNumbered, HighWatermark

\* A worker that is not running keeps what its checkpoint counts.
LEMMA StoppedNumbered ==
  ASSUME Numbering, UNCHANGED <<broker, checkpoint>>, pc' \in {"down", "recovering"},
         runtime' \in {runtime, EmptyRuntime}
  PROVE  StateNumbered'
  BY DEF Numbering, StateNumbered, broker, Running, EmptyRuntime

\* A new record changes no count of the records before it.
LEMMA ProduceNumbered ==
  ASSUME IInv, Coverage, Numbering, NEW r \in Record, Produce(r)
  PROVE  Numbering'
<1>0. TypeOK /\ Len(log) \in Nat /\ HighWatermark = Len(log) + 1 /\ position \in Nat
      /\ checkpoint.nextOffset \in Nat /\ current.offset \in Nat
  BY DEF IInv, TypeOK, HighWatermark
<1>1. Len(log') = Len(log) + 1 /\ (\A m \in 1 .. Len(log) : log'[m] = log[m])
      /\ HighWatermark' = HighWatermark + 1
  BY <1>0 DEF Produce, TypeOK, HighWatermark
<1>2. UNCHANGED <<checkpoint, events, pc, runtime, position, current>>
  BY DEF Produce, outputs, process
<1>3. \A n \in Nat : n <= HighWatermark =>
        NumberedOf(log', n) = NumberedOf(log, n) /\ Count(log', n) = Count(log, n)
  <2>1. ASSUME NEW n \in Nat, n <= HighWatermark
        PROVE  \A m \in 1 .. n - 1 : log'[m] = log[m]
    BY <1>0, <1>1, <2>1
  <2> QED
    BY <2>1, CountPrefix
<1>4. NumberedOf(log, HighWatermark) \subseteq NumberedOf(log', HighWatermark')
  BY <1>0, <1>1, <1>3, NumberedStays
<1>5. \A n \in NumberedOf(log, HighWatermark) : n \in Nat /\ n <= HighWatermark
  BY <1>0 DEF NumberedOf, OriginalsOf
<1>6. EventsNumbered'
  BY <1>2, <1>3, <1>4, <1>5 DEF Numbering, EventsNumbered
<1>7. checkpoint.nextOffset <= HighWatermark /\ (Running => position <= HighWatermark)
  BY DEF Coverage, IInv, Positions
<1>8. StateNumbered'
  BY <1>0, <1>2, <1>3, <1>4, <1>5, <1>7 DEF Numbering, StateNumbered, Running
<1> QED
  BY <1>6, <1>8 DEF Numbering

\* Recovery, replay and the live cycle take every number from the log.
LEMMA NumberedStep ==
  IInv /\ Coverage /\ Quiet /\ Numbering /\ [RetainedNext]_vars => Numbering'
<1> SUFFICES ASSUME IInv, Coverage, Quiet, Numbering, [RetainedNext]_vars PROVE Numbering'
  OBVIOUS
<1> USE DEF process, broker, outputs
<1>0. TypeOK /\ Len(log) \in Nat /\ HighWatermark = Len(log) + 1 /\ position \in Nat
      /\ runtime \in RuntimeState /\ checkpoint.nextOffset \in Nat /\ low = 1
      /\ log \in Seq(Record)
  BY DEF IInv, TypeOK, HighWatermark, Coverage
<1>1. ASSUME NEW r \in Record, Produce(r) PROVE Numbering'
  BY <1>1, ProduceNumbered
<1>2. CASE RecoveryRefused \/ ReplayFailed \/ UnsafeDuplicate \/ Crash \/ RecoveryFailed
           \/ CallFailed \/ Start \/ \E n \in Offsets : RejectInput(n)
  <2>1. pc' \in {"down", "recovering"} /\ runtime' \in {runtime, EmptyRuntime}
        /\ UNCHANGED <<log, low, checkpoint, events>>
    BY <1>2 DEF RecoveryRefused, ReplayFailed, UnsafeDuplicate, RejectInput, Start,
                Crash, RecoveryFailed, CallFailed, Exit
  <2> QED
    BY <2>1, StoppedNumbered, EventsStay DEF Numbering
<1>3. CASE PublishFailed
  <2>1. pc = "processed" /\ ~current.duplicate /\ pc' = "down" /\ runtime' = EmptyRuntime
        /\ UNCHANGED <<log, low, checkpoint>>
    BY <1>3 DEF PublishFailed, Exit
  <2>2. PICK reply, event \in BOOLEAN : Deliver(reply, event)
    BY <1>3 DEF PublishFailed
  <2> QED
    BY <2>1, <2>2, DeliverNumbered, StoppedNumbered DEF Numbering
<1>4. ASSUME NEW next \in Nat, NEW st, RecoverFrom(next, st),
             st.nextSequence = Count(log, next) + 1, ~st.liquidatable
      PROVE  Numbering'
  <2>1. runtime' = st /\ position' = next /\ pc' \in {"replaying", "scanning"}
        /\ UNCHANGED <<log, checkpoint, events, current>>
    BY <1>4 DEF RecoverFrom
  <2>2. StateNumbered'
    BY <1>4, <2>1 DEF Numbering, StateNumbered
  <2> QED
    BY <2>1, <2>2, EventsStay DEF Numbering
<1>5. CASE RecoverWithoutCheckpoint
  BY <1>0, <1>4, <1>5, CountStart DEF RecoverWithoutCheckpoint, EmptyRuntime
<1>6. CASE RecoverCheckpoint
  BY <1>0, <1>4, <1>6 DEF RecoverCheckpoint, Numbering, StateNumbered
<1>7. Running => /\ NextRecord = position /\ Covers(log, runtime, position)
                 /\ runtime.nextSequence = Count(log, position) + 1
  BY <1>0 DEF NextRecord, IInv, Positions, Coverage, Numbering, StateNumbered
<1>8. CASE ReplayRecord
  <2>1. pc = "replaying" /\ position \in 1 .. Len(log) /\ position' = position + 1
        /\ runtime' = Apply(position, runtime) /\ pc' \in {"replaying", "scanning"}
        /\ UNCHANGED <<log, checkpoint, events, current>>
    BY <1>7, <1>8 DEF ReplayRecord, Running
  <2>2. runtime'.nextSequence = Count(log, position') + 1
    BY <1>0, <1>7, <2>1, ApplyCounts DEF Running
  <2>3. ~runtime'.liquidatable
    BY <2>1, ApplyQuiet DEF Quiet, Numbering, StateNumbered
  <2>4. StateNumbered'
    BY <2>1, <2>2, <2>3 DEF Numbering, StateNumbered
  <2> QED
    BY <2>1, <2>4, EventsStay DEF Numbering
<1>9. CASE ReplayPastWatermark
  BY <1>0, <1>7, <1>9 DEF ReplayPastWatermark, Coverage, Running, IInv, TypeOK
<1>10. CASE ScanLiquidates \/ PublishScan \/ CheckpointScan
  BY <1>10 DEF ScanLiquidates, PublishScan, CheckpointScan, Numbering, StateNumbered
<1>11. ASSUME NEW n \in Offsets, ProcessRecord(n) PROVE Numbering'
  <2>1. n = position /\ n \in 1 .. Len(log) /\ pc = "polling" /\ pc' = "processed"
        /\ position' = n + 1 /\ runtime' = Apply(n, runtime)
        /\ log[n].kind # "foreign" /\ UNCHANGED <<log, checkpoint, events>>
    BY <1>0, <1>7, <1>11 DEF ProcessRecord, Polled, Running, Offsets
  <2>2. current'.offset = n /\ current'.duplicate = IsDuplicate(log[n], runtime)
        /\ current'.sequence = runtime.nextSequence
    BY <1>11 DEF ProcessRecord
  <2>3. /\ runtime'.nextSequence = Count(log, n + 1) + 1
        /\ ~IsDuplicate(log[n], runtime) => n \in NumberedOf(log, n + 1)
    BY <1>0, <1>7, <2>1, ApplyCounts DEF Running
  <2>4. ~runtime'.liquidatable
    BY <2>1, ApplyQuiet DEF Quiet, Numbering, StateNumbered
  <2>5. n + 1 \in Nat /\ n + 1 <= HighWatermark /\ HighWatermark \in Nat
    BY <1>0, <2>1
  <2>6. ~current'.duplicate => current'.offset \in NumberedOf(log, HighWatermark)
    BY <2>2, <2>3, <2>5, NumberedStays
  <2>7. current'.sequence = Count(log, current'.offset) + 1
    BY <1>7, <2>1, <2>2 DEF Running
  <2>8. HighWatermark' = HighWatermark
    BY <2>1 DEF HighWatermark
  <2>9. StateNumbered'
    BY <2>1, <2>3, <2>4, <2>6, <2>7, <2>8
    DEF Numbering, StateNumbered
  <2> QED
    BY <2>1, <2>9, EventsStay DEF Numbering
<1>12. CASE Publish
  <2>1. pc = "processed" /\ pc' = "published" /\ Deliver(~current.duplicate, ~current.duplicate)
        /\ UNCHANGED <<log, low, checkpoint, runtime, position>>
    BY <1>12 DEF Publish
  <2>2. EventsNumbered'
    BY <2>1, DeliverNumbered
  <2>3. StateNumbered'
    BY <2>1 DEF Numbering, StateNumbered, Running
  <2> QED
    BY <2>2, <2>3 DEF Numbering
<1>13. CASE SaveCheckpoint
  <2>1. checkpoint' = [nextOffset |-> position, state |-> runtime]
        /\ pc = "published" /\ pc' = "checkpointed"
        /\ UNCHANGED <<log, runtime, position, events>>
    BY <1>13 DEF SaveCheckpoint, IInv, Positions, LivePcs
  <2>2. checkpoint'.nextOffset = position /\ checkpoint'.state = runtime
    BY <2>1
  <2>3. runtime.nextSequence = Count(log, position) + 1
    BY <1>7, <2>1 DEF Running
  <2>4. StateNumbered'
    BY <2>1, <2>2, <2>3
    DEF Numbering, StateNumbered, Running
  <2> QED
    BY <2>1, <2>4, EventsStay DEF Numbering
<1>14. CASE ScanNothing \/ CommitOffset \/ UNCHANGED vars
  <2>1. UNCHANGED <<log, checkpoint, runtime, position, events>>
        /\ ((pc' = pc /\ current' = current) \/ (pc' = "polling" /\ Running))
    BY <1>14 DEF ScanNothing, CommitOffset, vars, Running
  <2>2. StateNumbered'
    BY <2>1 DEF Numbering, StateNumbered, Running, HighWatermark
  <2> QED
    BY <2>1, <2>2, EventsStay DEF Numbering
<1> QED
  BY <1>1, <1>2, <1>3, <1>5, <1>6, <1>8, <1>9, <1>10, <1>11, <1>12, <1>13, <1>14
  DEF RetainedNext, Worker, Recovering, Scanning, LiveCycle, Failing

\* Records are only added to the log.
LEMMA QuietBefore ==
  ASSUME IInv, [RetainedNext]_vars, Quiet'
  PROVE  Quiet
<1>1. log \in Seq(Record) /\ Len(log) \in Nat
  BY DEF IInv, TypeOK
<1>2. ASSUME NEW r \in Record, Produce(r) PROVE Quiet
  <2>1. Len(log') = Len(log) + 1 /\ \A m \in 1 .. Len(log) : log'[m] = log[m]
    BY <1>1, <1>2 DEF Produce
  <2>2. 1 .. Len(log) \subseteq 1 .. Len(log')
    BY <1>1, <2>1
  <2> QED
    BY <2>1, <2>2 DEF Quiet
<1>3. CASE ~\E r \in Record : Produce(r)
  <2>1. log' = log
    BY <1>3 DEF RetainedNext, vars, broker, outputs, process, Start, Worker, Recovering,
       Scanning, LiveCycle, Failing, Exit, Fault, Crash, RecoverFrom, RecoverWithoutCheckpoint,
       RecoverCheckpoint, RecoveryRefused, RecoveryFailed, ReplayRecord, ReplayPastWatermark,
       ReplayFailed, ScanNothing, ScanLiquidates, PublishScan, CheckpointScan, RejectInput,
       ProcessRecord, Publish, PublishFailed, UnsafeDuplicate, SaveCheckpoint, CallFailed,
       CommitOffset
  <2> QED
    BY <2>1 DEF Quiet
<1> QED
  BY <1>2, <1>3

\* engine_sequence is strictly increasing on the events of a market, through
\* every crash, failed call, repeat and replay, as long as retention has deleted
\* nothing and no startup scan has liquidated.
THEOREM SequencesFollowLog == Spec => []RetainedSequencesIncrease
<1>1. Init => SequenceInv
  <2>1. Init => CoverageInv
    <3>1. Init => Coverage
      BY DEF Init, Coverage, NoCheckpoint, HighWatermark, Running, ScanPcs
    <3> QED
      BY <3>1, InitIInv DEF CoverageInv
  <2>2. Init => Numbering
    BY DEF Init, Numbering, StateNumbered, EventsNumbered, NoCheckpoint, EmptyRuntime, Running
  <2> QED
    BY <2>1, <2>2 DEF SequenceInv
<1>2. SequenceInv /\ [Next]_vars => SequenceInv'
  <2> SUFFICES ASSUME SequenceInv, [Next]_vars PROVE SequenceInv'
    OBVIOUS
  <2>1. CoverageInv'
    BY CoverageNext DEF SequenceInv
  <2>2. ASSUME low' = 1, Quiet' PROVE Numbering'
    <3>1. CASE [RetainedNext]_vars
      <4>1. low = 1 /\ Quiet
        BY <2>2, <3>1, QuietBefore, RetainedKeepsLow DEF SequenceInv, CoverageInv
      <4> QED
        BY <3>1, <4>1, NumberedStep DEF SequenceInv, CoverageInv
    <3>2. CASE DeleteOldest
      BY <2>2, <3>2 DEF DeleteOldest, SequenceInv, CoverageInv, IInv, TypeOK
    <3> QED
      BY <3>1, <3>2 DEF Next
  <2> QED
    BY <2>1, <2>2 DEF SequenceInv
<1>3. SequenceInv => RetainedSequencesIncrease
  <2> SUFFICES ASSUME SequenceInv, low = 1, Quiet,
                      NEW i \in 1 .. Len(events), NEW j \in 1 .. Len(events), i < j
               PROVE  events[i].sequence < events[j].sequence
    BY DEF RetainedSequencesIncrease, SequencesIncrease, Quiet
  <2>1. EventsNumbered /\ IInv
    BY DEF SequenceInv, CoverageInv, Numbering
  <2> DEFINE a == events[i].offset
             b == events[j].offset
  <2>2. a \in Nat /\ b \in Nat /\ a < b /\ a \in NumberedOf(log, HighWatermark)
        /\ events[i].sequence = Count(log, a) + 1 /\ events[j].sequence = Count(log, b) + 1
    BY <2>1, EventOffsets DEF EventsNumbered
  <2> HIDE DEF a, b
  <2>3. a \in NumberedOf(log, b)
    BY <2>2 DEF NumberedOf, OriginalsOf
  <2>4. Count(log, a) < Count(log, b) /\ Count(log, a) \in Nat /\ Count(log, b) \in Nat
    BY <2>2, <2>3, CountGrows, CountFacts
  <2> QED
    BY <2>2, <2>4
<1> QED
  BY <1>1, <1>2, <1>3, PTL DEF Spec
=============================================================================
