-------------------------- MODULE KafkaProducerProofs --------------------------
(***************************************************************************)
(* What a worker may believe of the records it published, for any number   *)
(* of results, records, resends and crashes.                               *)
(***************************************************************************)
EXTENDS KafkaProducer, TLAPS

Publishing == pc \in {"producing", "flushing"}

\* A record was handed to the client before the outbox reached <<Result, next>>.
Handed(r) ==
  /\ r[1] \in 1 .. Result
  /\ r[2] \in 1 .. sizes[r[1]]
  /\ Publishing => Before(r, Current) \/ (pc = "flushing" /\ r = Current)

\* The outbox is inside the last result, and only that one is open.
OutboxAt ==
  /\ Publishing => /\ Result > 0 /\ verdicts[Result] = "open"
                   /\ next <= sizes[Result] + 1
  /\ pc = "flushing" => next <= sizes[Result]
  /\ \A b \in 1 .. Result : verdicts[b] = "open" => b = Result /\ Publishing
  /\ pc = "closing" => Result > 0

\* The record being flushed is there, or the flush cannot succeed without it.
Awaited ==
  pc = "flushing" =>
    \/ Current \in Contents \cup inFlight
    \/ lastError
    \/ \E report \in reports : report.record = Current /\ ~report.ok

\* What was published, and the part of the last result without a failure, arrived.
Arrived ==
  /\ \A b \in 1 .. Result : verdicts[b] = "published" =>
       \A i \in 1 .. sizes[b] : <<b, i>> \in Contents
  /\ Publishing /\ failures = {} =>
       \A i \in 1 .. next - 1 : <<Result, i>> \in Contents

\* A record is on its way, or counted as published, never both.
Settled ==
  /\ \A r \in inFlight \cup wire \cup Contents \cup published : Handed(r)
  /\ published \cap (inFlight \cup wire) = {}
  /\ \A r \in wire : pc \in {"producing", "flushing", "closing"} => r[1] < Result
  /\ pc = "flushing" => Current \notin published

\* The published records are in order, with the one being flushed after them.
Ordered ==
  LET counted == published \cup (IF pc = "flushing" THEN {Current} ELSE {})
  IN  \A i, j \in 1 .. Len(topic) :
        i < j /\ topic[i] \in counted /\ topic[j] \in counted
        => topic[i] = topic[j] \/ Before(topic[i], topic[j])

IInv == TypeOK /\ OutboxAt /\ Awaited /\ Arrived /\ Settled /\ Ordered

-----------------------------------------------------------------------------
(* Facts about the order and about appending to the topic.                 *)

\* What an arrival does to the topics and to the set of what they contain.
LEMMA AppendContents ==
  ASSUME TypeOK, NEW r \in Ids, topic' = Append(topic, r)
  PROVE  /\ topic' \in Seq(Ids)
         /\ Contents' = Contents \cup {r}
         /\ Len(topic') = Len(topic) + 1
         /\ topic'[Len(topic')] = r
         /\ \A i \in 1 .. Len(topic) : topic'[i] = topic[i]
  BY DEF TypeOK, Contents

\* The initial state satisfies the invariant.
LEMMA InitInvariant ==
  ASSUME ProducerAssumption, Init
  PROVE  IInv
  <1>1. TypeOK
    <2>1. <<>> \in Seq(0 .. MaxRecords) /\ <<>> \in Seq({"open", "published", "failed"})
          /\ <<>> \in Seq(Ids) /\ Len(<<>>) = 0
      OBVIOUS
    <2>2. /\ sizes \in Seq(0 .. MaxRecords)
          /\ verdicts \in Seq({"open", "published", "failed"})
          /\ topic \in Seq(Ids)
          /\ Len(verdicts) = Len(sizes) /\ Len(sizes) = 0
      BY <2>1, Zenon DEF Init
    <2>3. next \in 1 .. MaxRecords + 1 /\ 0 <= MaxResults
      BY DEF Init, ProducerAssumption
    <2> QED  BY <2>2, <2>3 DEF TypeOK, Init
  <1>2. OutboxAt /\ Awaited /\ Arrived
    BY DEF OutboxAt, Awaited, Arrived, Publishing, Result, Init
  <1>3. Settled /\ Ordered
    BY DEF Settled, Ordered, Contents, Init
  <1> QED  BY <1>1, <1>2, <1>3 DEF IInv

-----------------------------------------------------------------------------
(* The invariant is preserved: one lemma for each action.                  *)

\* A new result: nothing of it was handed over, nothing is awaited.
LEMMA BeginKeeps ==
  ASSUME ProducerAssumption, IInv, NEW n \in 0 .. MaxRecords, Begin(n)
  PROVE  IInv'
  <1>0. /\ Result \in Nat /\ Result' = Result + 1 /\ next' = 1 /\ failures' = {}
        /\ pc = "polling" /\ pc' = "producing"
        /\ sizes'[Result'] = n /\ verdicts'[Result'] = "open"
        /\ \A b \in 1 .. Result : sizes'[b] = sizes[b] /\ verdicts'[b] = verdicts[b]
    BY DEF TypeOK, Result, IInv, Begin
  <1>1. TypeOK'
    <2>1. Len(sizes') = Len(sizes) + 1 /\ Len(verdicts') = Len(verdicts) + 1
          /\ sizes' \in Seq(0 .. MaxRecords)
          /\ verdicts' \in Seq({"open", "published", "failed"})
      BY DEF TypeOK, IInv, Begin
    <2> QED  BY <2>1 DEF TypeOK, Result, ProducerAssumption, IInv, Begin, client
  <1>2. OutboxAt'
    BY <1>0 DEF OutboxAt, Publishing, IInv
  <1>3. Contents' = Contents
    BY DEF Contents, Begin
  <1>4. Awaited' /\ Arrived'
    <2>1. ASSUME NEW b \in 1 .. Result', verdicts'[b] = "published"
          PROVE  b \in 1 .. Result /\ verdicts[b] = "published" /\ sizes'[b] = sizes[b]
      <3>1. b \in 1 .. Result \/ b = Result'
        BY <1>0
      <3> QED  BY <3>1, <1>0, <2>1
    <2> QED  BY <2>1, <1>0, <1>3 DEF Awaited, Arrived, Publishing, IInv
  <1>5. Settled'
    <2>1. ASSUME NEW r, Handed(r)
          PROVE  Handed(r)' /\ r[1] < Result'
      BY <1>0, <2>1 DEF Handed, Before, Current, Publishing
    <2> QED  BY <2>1, <1>0, <1>3 DEF Settled, Publishing, IInv, Begin, client
  <1>6. Ordered'
    BY <1>0 DEF Ordered, IInv, Begin
  <1> QED  BY <1>1, <1>2, <1>4, <1>5, <1>6 DEF IInv

\* What every action but Begin and those of the broker leaves alone.
LEMMA OutboxFacts ==
  ASSUME ProducerAssumption, IInv
  PROVE  /\ Result \in Nat /\ Result <= MaxResults
         /\ \A b \in 1 .. Result : sizes[b] \in 0 .. MaxRecords
         /\ \A b \in 1 .. Result : verdicts[b] \in {"open", "published", "failed"}
         /\ next \in Nat \ {0}
         /\ Publishing => Result \in 1 .. Result
         /\ Publishing /\ next <= sizes[Result] => Current \in Ids /\ next <= MaxRecords
  <1>1. /\ Result \in Nat /\ Result <= MaxResults
        /\ \A b \in 1 .. Result : sizes[b] \in 0 .. MaxRecords
        /\ \A b \in 1 .. Result : verdicts[b] \in {"open", "published", "failed"}
    BY DEF IInv, TypeOK, Result, ProducerAssumption
  <1>2. next \in Nat \ {0} /\ (Publishing => Result \in 1 .. Result)
    BY <1>1 DEF IInv, TypeOK, OutboxAt, ProducerAssumption
  <1>3. Publishing /\ next <= sizes[Result] => Current \in Ids /\ next <= MaxRecords
    BY <1>1, <1>2 DEF Current, Ids, ProducerAssumption
  <1> QED  BY <1>1, <1>2, <1>3

\* What all ways of finishing the record in hand have in common.
LEMMA RecordedKeeps ==
  ASSUME ProducerAssumption, IInv, NEW failed \in BOOLEAN, Recorded(failed),
         Publishing, next <= sizes[Result],
         ~failed => Current \in Contents /\ Current \notin inFlight /\ pc = "flushing",
         lastError' \in BOOLEAN,
         UNCHANGED <<inFlight, wire, reports, topic>>
  PROVE  IInv'
  <1>0. /\ Result' = Result /\ next' = next + 1 /\ pc' = "producing"
        /\ sizes' = sizes /\ verdicts' = verdicts
        /\ published' \subseteq published \cup {Current}
        /\ failures \subseteq failures' /\ failures' \subseteq failures \cup {next}
        /\ Contents' = Contents
    BY DEF Recorded, Result, Contents
  <1>1. TypeOK'
    BY <1>0, OutboxFacts DEF IInv, TypeOK, ProducerAssumption, Result
  <1>2. OutboxAt' /\ Awaited'
    BY <1>0, OutboxFacts DEF IInv, OutboxAt, Awaited, Publishing
  <1>3. Arrived'
    <2>1. ASSUME failures' = {}, NEW i \in 1 .. next' - 1
          PROVE  <<Result, i>> \in Contents
      <3>1. ~failed /\ failures = {}
        BY <2>1, <1>0 DEF Recorded
      <3>2. CASE i = next
        BY <3>1, <3>2 DEF Current
      <3>3. CASE i # next
        BY <3>1, <3>3, <1>0, OutboxFacts DEF IInv, Arrived
      <3> QED  BY <3>2, <3>3
    <2> QED  BY <2>1, <1>0 DEF IInv, Arrived, Publishing
  <1>4. Settled'
    <2>1. ASSUME NEW r, Handed(r)
          PROVE  Handed(r)'
      <3>1. Before(r, Current) \/ r = Current
        BY <2>1 DEF Handed
      <3>2. Before(r, Current')
        BY <3>1, <1>0, <2>1, OutboxFacts DEF Before, Current, Handed
      <3> QED  BY <3>2, <2>1, <1>0 DEF Handed
    <2>2. ASSUME Current \in published' \ published
          PROVE  Handed(Current) /\ Current \notin inFlight /\ Current \notin wire
      <3>1. ~failed /\ pc = "flushing"
        BY <2>2 DEF Recorded
      <3>2. Current \notin wire
        BY <3>1, OutboxFacts DEF IInv, Settled, Current
      <3> QED  BY <3>1, <3>2, OutboxFacts DEF Handed, Current
    <2>3. \A r \in published' : Handed(r)
      BY <2>2, <1>0 DEF IInv, Settled
    <2>4. published' \cap (inFlight \cup wire) = {}
      BY <2>2, <1>0 DEF IInv, Settled
    <2>5. \A r \in wire : r[1] < Result
      BY DEF IInv, Settled, Publishing
    <2> QED  BY <2>1, <2>3, <2>4, <2>5, <1>0 DEF IInv, Settled
  <1>5. Ordered'
    <2>1. published' \subseteq published \cup (IF pc = "flushing" THEN {Current} ELSE {})
      BY <1>0 DEF Recorded
    <2> QED  BY <2>1, <1>0 DEF IInv, Ordered
  <1> QED  BY <1>1, <1>2, <1>3, <1>4, <1>5 DEF IInv

\* The verdict: without a failure every record of the result has arrived.
LEMMA ReturnKeeps ==
  ASSUME ProducerAssumption, IInv, Return
  PROVE  IInv'
  <1>0. /\ Result' = Result /\ sizes' = sizes /\ next' = next /\ failures' = failures
        /\ pc = "producing" /\ pc' \in {"polling", "closing"}
        /\ next > sizes[Result] /\ Result \in 1 .. Result
        /\ verdicts'[Result] = IF failures = {} THEN "published" ELSE "failed"
        /\ \A b \in 1 .. Result : b # Result => verdicts'[b] = verdicts[b]
        /\ published' = published /\ topic' = topic /\ Contents' = Contents
        /\ inFlight' = inFlight /\ wire' = wire /\ reports' = reports /\ lastError' = lastError
    BY OutboxFacts DEF Return, Result, Contents, client, Publishing, IInv, TypeOK
  <1>1. TypeOK'
    BY <1>0 DEF Return, IInv, TypeOK, Result
  <1>2. OutboxAt' /\ Awaited'
    BY <1>0, OutboxFacts DEF IInv, OutboxAt, Awaited, Publishing
  <1>3. Arrived'
    <2>1. ASSUME NEW b \in 1 .. Result, verdicts'[b] = "published", NEW i \in 1 .. sizes[b]
          PROVE  <<b, i>> \in Contents
      <3>1. CASE b = Result
        BY <3>1, <2>1, <1>0, OutboxFacts DEF IInv, Arrived, Publishing
      <3>2. CASE b # Result
        BY <3>2, <2>1, <1>0 DEF IInv, Arrived
      <3> QED  BY <3>1, <3>2
    <2> QED  BY <2>1, <1>0 DEF Arrived, Publishing
  <1>4. Settled'
    BY <1>0 DEF IInv, Settled, Handed, Publishing
  <1>5. Ordered'
    BY <1>0 DEF IInv, Ordered
  <1> QED  BY <1>1, <1>2, <1>3, <1>4, <1>5 DEF IInv

\* The record in hand goes into flight.
LEMMA ProduceKeeps ==
  ASSUME ProducerAssumption, IInv, Produce
  PROVE  IInv'
  <1>0. /\ Result' = Result /\ sizes' = sizes /\ verdicts' = verdicts /\ next' = next
        /\ pc = "producing" /\ pc' = "flushing" /\ next <= sizes[Result]
        /\ failures' = failures /\ published' = published
        /\ inFlight' = inFlight \cup {Current} /\ wire' = wire /\ reports' = reports
        /\ topic' = topic /\ Contents' = Contents /\ Current' = Current
        /\ Publishing /\ Publishing' /\ Current \in Ids
    BY OutboxFacts DEF Produce, Result, Contents, Current, Publishing
  <1>1. TypeOK'
    BY <1>0 DEF Produce, IInv, TypeOK
  <1>2. OutboxAt' /\ Awaited' /\ Arrived'
    BY <1>0, OutboxFacts DEF IInv, OutboxAt, Awaited, Arrived
  <1>3. \A r : Handed(r) => Before(r, Current) /\ r # Current
    BY <1>0, OutboxFacts DEF Handed, Before, Current
  <1>4. Handed(Current)'
    BY <1>0, OutboxFacts DEF Handed, Current
  <1>5. Current \notin published
    BY <1>3 DEF IInv, Settled
  <1>6. Settled'
    <2>1. \A r : Handed(r) => Handed(r)'
      BY <1>0, <1>3 DEF Handed
    <2>2. \A r \in wire : r[1] < Result
      BY <1>0 DEF IInv, Settled
    <2> QED  BY <2>1, <2>2, <1>4, <1>5, <1>0, OutboxFacts DEF IInv, Settled, Current
  <1>7. Ordered'
    <2>1. Current \notin Contents
      BY <1>3 DEF IInv, Settled
    <2> QED  BY <2>1, <1>0 DEF IInv, Ordered, Contents
  <1> QED  BY <1>1, <1>2, <1>6, <1>7 DEF IInv

\* A refused record counts as failed and was never in flight.
LEMMA ProduceRefusedKeeps ==
  ASSUME ProducerAssumption, IInv, ProduceRefused
  PROVE  IInv'
  BY RecordedKeeps DEF ProduceRefused, Publishing

\* A served report of a failure ends in the error slot.
LEMMA ServeReportKeeps ==
  ASSUME ProducerAssumption, IInv, ServeReport
  PROVE  IInv'
  <1>1. PICK report \in reports : /\ reports' = reports \ {report}
                                  /\ lastError' = (lastError \/ ~report.ok)
    BY DEF ServeReport
  <1>0. /\ UNCHANGED <<sizes, verdicts, pc, next, failures, published, inFlight, wire, topic>>
        /\ Result' = Result /\ Contents' = Contents /\ Current' = Current
        /\ Publishing' = Publishing
    BY DEF ServeReport, outbox, Result, Contents, Current, Publishing
  <1>2. TypeOK'
    BY <1>0, <1>1 DEF IInv, TypeOK
  <1>3. OutboxAt' /\ Arrived'
    BY <1>0 DEF IInv, OutboxAt, Arrived
  <1>4. Awaited'
    <2>1. CASE report.record = Current /\ ~report.ok
      BY <2>1, <1>0, <1>1 DEF Awaited
    <2>2. CASE ~(report.record = Current /\ ~report.ok)
      BY <2>2, <1>0, <1>1 DEF IInv, Awaited
    <2> QED  BY <2>1, <2>2
  <1>5. Settled' /\ Ordered'
    BY <1>0 DEF IInv, Settled, Handed, Ordered
  <1> QED  BY <1>2, <1>3, <1>4, <1>5 DEF IInv

\* A flush that ends is the end of the record in hand, by success, error or timeout.
LEMMA FlushKeeps ==
  ASSUME ProducerAssumption, IInv, Flushed \/ FlushTimedOut
  PROVE  IInv'
  <1>0. pc = "flushing" /\ Publishing /\ next <= sizes[Result] /\ lastError \in BOOLEAN
    BY DEF Flushed, FlushTimedOut, Publishing, IInv, OutboxAt, TypeOK
  <1>1. CASE Flushed
    <2>1. ~lastError => Current \in Contents /\ Current \notin inFlight
      BY <1>0, <1>1 DEF IInv, Awaited, Flushed, Idle
    <2> QED  BY <1>0, <1>1, <2>1, RecordedKeeps DEF Flushed, client
  <1>2. CASE FlushTimedOut
    BY <1>0, <1>2, RecordedKeeps DEF FlushTimedOut, client
  <1> QED  BY <1>1, <1>2

\* What closing and crashing have in common: what is in flight stays on the wire.
LEMMA EndedKeeps ==
  ASSUME ProducerAssumption, IInv, Ended,
         UNCHANGED <<sizes, next, failures, published, topic>>,
         verdicts' = [b \in DOMAIN verdicts |->
                        IF verdicts[b] = "open" THEN "failed" ELSE verdicts[b]]
  PROVE  IInv'
  <1>0. /\ Result' = Result /\ Contents' = Contents /\ pc' = "down" /\ ~Publishing'
        /\ \A b \in 1 .. Result : /\ verdicts'[b] # "open"
                                  /\ verdicts'[b] = "published" <=> verdicts[b] = "published"
    BY DEF IInv, TypeOK, Ended, Result, Contents, Publishing
  <1>1. TypeOK'
    <2> DEFINE Verdicts == {"open", "published", "failed"}
    <2>1. verdicts \in Seq(Verdicts)
      BY DEF IInv, TypeOK
    <2>2. DOMAIN verdicts = 1 .. Len(verdicts) /\ Len(verdicts) \in Nat
          /\ \A b \in DOMAIN verdicts : verdicts[b] \in Verdicts
      BY <2>1
    <2>3. verdicts' \in [1 .. Len(verdicts) -> Verdicts]
      BY <2>2, Zenon
    <2>4. verdicts' \in Seq(Verdicts) /\ Len(verdicts') = Len(verdicts)
      BY <2>2, <2>3
    <2> QED  BY <2>4 DEF IInv, TypeOK, Ended
  <1>2. OutboxAt' /\ Awaited' /\ Arrived'
    BY <1>0 DEF IInv, OutboxAt, Awaited, Arrived
  <1>3. Settled' /\ Ordered'
    <2>1. \A r : Handed(r) => Handed(r)'
      BY <1>0 DEF Handed
    <2>2. inFlight' \cup wire' = inFlight \cup wire
      BY DEF Ended
    <2>3. published' = published /\ topic' = topic
      OBVIOUS
    <2> QED  BY <2>1, <2>2, <2>3, <1>0 DEF IInv, Settled, Ordered
  <1> QED  BY <1>1, <1>2, <1>3 DEF IInv

\* An orderly end.
LEMMA CloseKeeps ==
  ASSUME ProducerAssumption, IInv, Close
  PROVE  IInv'
  <1>1. \A b \in DOMAIN verdicts : verdicts[b] # "open"
    BY DEF IInv, OutboxAt, TypeOK, Close, Result, Publishing
  <1>2. verdicts = [b \in DOMAIN verdicts |->
                      IF verdicts[b] = "open" THEN "failed" ELSE verdicts[b]]
    BY <1>1 DEF IInv, TypeOK
  <1> QED  BY <1>2, EndedKeeps DEF Close

\* A crash.
LEMMA CrashKeeps ==
  ASSUME ProducerAssumption, IInv, Crash
  PROVE  IInv'
  BY EndedKeeps DEF Crash

\* A new process starts with an empty client.
LEMMA StartKeeps ==
  ASSUME ProducerAssumption, IInv, Start
  PROVE  IInv'
  <1>0. /\ UNCHANGED <<sizes, verdicts, next, failures, published, lastError,
                       inFlight, reports, wire, topic>>
        /\ pc = "down" /\ pc' = "polling" /\ Result' = Result /\ Contents' = Contents
        /\ ~Publishing /\ ~Publishing'
    BY DEF Start, client, Result, Contents, Publishing
  <1>1. TypeOK' /\ OutboxAt' /\ Awaited' /\ Arrived'
    BY <1>0 DEF IInv, TypeOK, OutboxAt, Awaited, Arrived
  <1>2. Settled' /\ Ordered'
    BY <1>0 DEF IInv, Settled, Ordered, Handed
  <1> QED  BY <1>1, <1>2 DEF IInv

\* A record that was handed over arrives, and may still be in flight.
LEMMA ArrivalKeeps ==
  ASSUME ProducerAssumption, IInv, NEW r \in inFlight \cup wire,
         topic' = Append(topic, r),
         UNCHANGED outbox, UNCHANGED lastError,
         inFlight' \subseteq inFlight, inFlight \subseteq inFlight' \cup {r},
         wire' \subseteq wire,
         reports \subseteq reports', reports' \subseteq [record : Ids, ok : BOOLEAN]
  PROVE  IInv'
  <1>0. /\ UNCHANGED <<sizes, verdicts, pc, next, failures, published, lastError>>
        /\ Result' = Result /\ Current' = Current /\ Publishing' = Publishing
        /\ r \in Ids /\ Handed(r) /\ r \notin published
    BY DEF outbox, Result, Current, Publishing, IInv, Settled, TypeOK
  <1>1. /\ topic' \in Seq(Ids) /\ Contents' = Contents \cup {r}
        /\ Len(topic') = Len(topic) + 1 /\ topic'[Len(topic')] = r
        /\ \A i \in 1 .. Len(topic) : topic'[i] = topic[i]
        /\ Len(topic) \in Nat
    BY <1>0, AppendContents DEF IInv, TypeOK
  <1>2. TypeOK'
    BY <1>0, <1>1 DEF IInv, TypeOK
  <1>3. OutboxAt' /\ Awaited' /\ Arrived'
    BY <1>0, <1>1 DEF IInv, OutboxAt, Awaited, Arrived
  <1>4. Settled'
    <2>1. \A s : Handed(s) => Handed(s)'
      BY <1>0 DEF Handed
    <2> QED  BY <2>1, <1>0, <1>1 DEF IInv, Settled
  <1>5. Ordered'
    <2> DEFINE counted == published \cup (IF pc = "flushing" THEN {Current} ELSE {})
    <2>1. r \in counted => pc = "flushing" /\ r = Current
      BY <1>0
    <2>2. \A s \in Contents \cap counted : r \in counted => s = r \/ Before(s, r)
      BY <2>1 DEF IInv, Settled, Handed, Publishing
    <2>3. ASSUME NEW i \in 1 .. Len(topic'), NEW j \in 1 .. Len(topic'), i < j,
                 topic'[i] \in counted, topic'[j] \in counted
          PROVE  topic'[i] = topic'[j] \/ Before(topic'[i], topic'[j])
      <3>1. i \in 1 .. Len(topic) /\ topic'[i] = topic[i] /\ topic[i] \in Contents
        BY <2>3, <1>1 DEF Contents
      <3>2. CASE j = Len(topic')
        BY <3>1, <3>2, <2>2, <2>3, <1>1
      <3>3. CASE j # Len(topic')
        BY <3>1, <3>3, <2>3, <1>1 DEF IInv, Ordered
      <3> QED  BY <3>2, <3>3
    <2> QED  BY <2>3, <1>0 DEF Ordered
  <1> QED  BY <1>2, <1>3, <1>4, <1>5 DEF IInv

\* The steps of librdkafka and the broker.
LEMMA BrokerKeeps ==
  ASSUME ProducerAssumption, IInv, Environment
  PROVE  IInv'
  <1>1. ASSUME NEW r \in inFlight, Deliver(r)
        PROVE  IInv'
    <2>1. [record |-> r, ok |-> TRUE] \in [record : Ids, ok : BOOLEAN]
      BY DEF IInv, TypeOK
    <2> QED  BY <1>1, <2>1, ArrivalKeeps DEF Deliver, Report, IInv, TypeOK
  <1>2. ASSUME NEW r \in inFlight, LoseAcknowledgement(r)
        PROVE  IInv'
    BY <1>2, ArrivalKeeps DEF LoseAcknowledgement, client, IInv, TypeOK
  <1>3. ASSUME NEW r \in wire, DeliverLate(r)
        PROVE  IInv'
    BY <1>3, ArrivalKeeps DEF DeliverLate, IInv, TypeOK
  <1>4. ASSUME NEW r \in inFlight, GiveUp(r)
        PROVE  IInv'
    <2> DEFINE report == [record |-> r, ok |-> FALSE]
    <2>0. /\ UNCHANGED <<sizes, verdicts, pc, next, failures, published, lastError, wire, topic>>
          /\ inFlight' = inFlight \ {r}
          /\ reports' = reports \cup {report}
          /\ Result' = Result /\ Current' = Current /\ Contents' = Contents
          /\ Publishing' = Publishing
      BY <1>4 DEF GiveUp, Report, outbox, Result, Current, Contents, Publishing
    <2>4. report \in [record : Ids, ok : BOOLEAN] /\ report.record = r /\ ~report.ok
      BY DEF IInv, TypeOK
    <2> HIDE DEF report
    <2>1. TypeOK' /\ OutboxAt' /\ Arrived'
      <3>1. TypeOK'
        BY <2>0, <2>4 DEF IInv, TypeOK
      <3> QED  BY <3>1, <2>0 DEF IInv, OutboxAt, Arrived
    <2>2. Awaited'
      <3>1. CASE Current = r
        BY <3>1, <2>0, <2>4 DEF Awaited
      <3>2. CASE Current # r
        BY <3>2, <2>0 DEF IInv, Awaited
      <3> QED  BY <3>1, <3>2
    <2>3. Settled' /\ Ordered'
      BY <2>0 DEF IInv, Settled, Handed, Ordered
    <2> QED  BY <2>1, <2>2, <2>3 DEF IInv
  <1> QED  BY <1>1, <1>2, <1>3, <1>4 DEF Environment

\* Every step keeps the invariant.
LEMMA NextKeeps ==
  ASSUME ProducerAssumption, IInv, [Next]_vars
  PROVE  IInv'
  <1>1. CASE UNCHANGED vars
    <2>0. /\ UNCHANGED <<sizes, verdicts, pc, next, failures, published, lastError,
                         inFlight, reports, wire, topic>>
          /\ Result' = Result /\ Current' = Current /\ Contents' = Contents
          /\ Publishing' = Publishing
      BY <1>1 DEF vars, outbox, client, Result, Current, Contents, Publishing
    <2>1. TypeOK' /\ OutboxAt' /\ Awaited' /\ Arrived'
      BY <2>0 DEF IInv, TypeOK, OutboxAt, Awaited, Arrived
    <2>2. Settled' /\ Ordered'
      BY <2>0 DEF IInv, Settled, Ordered, Handed
    <2> QED  BY <2>1, <2>2 DEF IInv
  <1>2. CASE Next
    BY <1>2, BeginKeeps, ReturnKeeps, ProduceKeeps, ProduceRefusedKeeps, ServeReportKeeps,
       FlushKeeps, CloseKeeps, CrashKeeps, StartKeeps, BrokerKeeps DEF Next, Worker
  <1> QED  BY <1>1, <1>2

-----------------------------------------------------------------------------
(* The theorems.                                                           *)

\* The inductive invariant holds in every state, whatever the broker does.
THEOREM Invariant == Spec => []IInv
  <1>1. Init => IInv
    BY InitInvariant, ProducerAssumption
  <1>2. IInv /\ [Next]_vars => IInv'
    BY NextKeeps, ProducerAssumption
  <1> QED  BY <1>1, <1>2, PTL DEF Spec

\* Type correctness: records in flight, on the wire or in a report are records
\* of a result the outbox has begun, and each result has one verdict.
THEOREM TypeCorrect == Spec => []TypeOK
  BY Invariant, PTL DEF IInv

\* The counted records arrive in the order in which they were produced.
THEOREM InOrder == Spec => []PublishedInOrder
  <1>1. IInv => PublishedInOrder
    BY DEF IInv, Ordered, PublishedInOrder
  <1> QED  BY <1>1, Invariant, PTL

\* What arrives was not yet counted as published.
THEOREM NoLateCopy == Spec => SettledWhenPublished
  <1>1. IInv /\ [Next]_vars => [topic' # topic => topic'[Len(topic')] \notin published]_vars
    <2> SUFFICES ASSUME IInv, [Next]_vars, topic' # topic
                 PROVE  topic'[Len(topic')] \notin published
      OBVIOUS
    <2>1. PICK r \in inFlight \cup wire : topic' = Append(topic, r)
      BY DEF Next, Worker, Environment, Begin, Return, Produce, ProduceRefused, ServeReport,
             Flushed, FlushTimedOut, Close, Crash, Start, Deliver, LoseAcknowledgement,
             GiveUp, DeliverLate, vars, outbox, client
    <2>2. r \in Ids /\ r \notin published
      BY DEF IInv, TypeOK, Settled
    <2> QED  BY <2>1, <2>2, AppendContents DEF IInv
  <1> QED  BY <1>1, Invariant, PTL DEF Spec, SettledWhenPublished

-----------------------------------------------------------------------------
(* The outbox and the producer implement Publication.                      *)

\* Begin is the abstract Begin.
LEMMA BeginImplements ==
  ASSUME IInv, NEW n \in 0 .. MaxRecords, Begin(n)
  PROVE  Publications!Begin
  BY DEF Begin, Publications!Begin, Contents

\* Return is the abstract Decide: a result without failures has arrived as a whole.
LEMMA ReturnImplements ==
  ASSUME ProducerAssumption, IInv, Return
  PROVE  Publications!Decide
  <1> DEFINE verdict == IF failures = {} THEN "published" ELSE "failed"
  <1>1. /\ Result \in 1 .. Len(sizes) /\ verdicts[Result] = "open"
        /\ next > sizes[Result] /\ pc = "producing"
    BY OutboxFacts DEF Return, IInv, OutboxAt, Publishing, Result
  <1>2. verdict = "published" => Publications!Records(Result) \subseteq Contents
    <2>1. failures = {} => \A i \in 1 .. sizes[Result] : <<Result, i>> \in Contents
      BY <1>1, OutboxFacts DEF IInv, Arrived, Publishing
    <2> QED  BY <2>1 DEF Publications!Records
  <1>3. /\ verdicts' = [verdicts EXCEPT ![Result] = verdict]
        /\ sizes' = sizes /\ Contents' = Contents
    BY DEF Return, client, Contents
  <1>4. verdict \in {"published", "failed"}
    OBVIOUS
  <1> HIDE DEF verdict
  <1> QED  BY <1>1, <1>2, <1>3, <1>4 DEF Publications!Decide

\* A crash decides the open result as failed, or is a stutter.
LEMMA CrashImplements ==
  ASSUME ProducerAssumption, IInv, Crash
  PROVE  Publications!Decide \/ UNCHANGED Publications!vars
  <1>1. sizes' = sizes /\ Contents' = Contents
    BY DEF Crash, Contents
  <1>2. DOMAIN verdicts = 1 .. Result /\ Result = Len(sizes)
    BY DEF IInv, TypeOK, Result
  <1>3. CASE Publishing
    <2>1. Result \in 1 .. Len(sizes) /\ verdicts[Result] = "open"
      BY <1>3, OutboxFacts DEF IInv, OutboxAt, Result
    <2>2. \A b \in 1 .. Result : verdicts[b] = "open" <=> b = Result
      BY <2>1 DEF IInv, OutboxAt
    <2>3. verdicts' = [verdicts EXCEPT ![Result] = "failed"]
      BY <2>1, <2>2, <1>2 DEF Crash, IInv, TypeOK
    <2> QED  BY <2>1, <2>3, <1>1 DEF Publications!Decide
  <1>4. CASE ~Publishing
    <2>1. \A b \in DOMAIN verdicts : verdicts[b] # "open"
      BY <1>4, <1>2 DEF IInv, OutboxAt
    <2>2. verdicts' = verdicts
      BY <2>1 DEF Crash, IInv, TypeOK
    <2> QED  BY <2>2, <1>1 DEF Publications!vars
  <1> QED  BY <1>3, <1>4

\* An arrival is the abstract Show, or a stutter when a copy is there.
LEMMA ArrivalImplements ==
  ASSUME ProducerAssumption, IInv, NEW r \in inFlight \cup wire,
         topic' = Append(topic, r), sizes' = sizes, verdicts' = verdicts
  PROVE  Publications!Show \/ UNCHANGED Publications!vars
  <1>1. /\ r \in Ids /\ Handed(r) /\ Contents' = Contents \cup {r}
    BY AppendContents DEF IInv, Settled, TypeOK
  <1>2. /\ r[1] \in 1 .. Len(sizes) /\ r[2] \in 1 .. sizes[r[1]]
        /\ r = <<r[1], r[2]>>
    BY <1>1 DEF Handed, Result, Ids
  <1>3. r \in Publications!Records(r[1])
    BY <1>2 DEF Publications!Records
  <1>4. CASE verdicts[r[1]] = "published"
    <2>1. r \in Contents
      BY <1>2, <1>4 DEF IInv, Arrived, Result
    <2> QED  BY <2>1, <1>1 DEF Publications!vars
  <1>5. CASE verdicts[r[1]] # "published"
    BY <1>1, <1>2, <1>3, <1>5 DEF Publications!Show
  <1> QED  BY <1>4, <1>5

\* Every step is an abstract step or a stutter.
LEMMA StepImplements ==
  ASSUME ProducerAssumption, IInv, [Next]_vars
  PROVE  [Publications!Next]_Publications!vars
  <1>1. CASE UNCHANGED <<sizes, verdicts, topic>>
    BY <1>1 DEF Publications!vars, Contents
  <1>2. CASE \E n \in 0 .. MaxRecords : Begin(n)
    BY <1>2, BeginImplements DEF Publications!Next
  <1>3. CASE Return
    BY <1>3, ReturnImplements DEF Publications!Next
  <1>4. CASE Crash
    BY <1>4, CrashImplements DEF Publications!Next
  <1>5. ASSUME NEW r \in inFlight, Deliver(r) \/ LoseAcknowledgement(r)
        PROVE  [Publications!Next]_Publications!vars
    BY <1>5, ArrivalImplements DEF Deliver, LoseAcknowledgement, outbox, Publications!Next
  <1>6. ASSUME NEW r \in wire, DeliverLate(r)
        PROVE  [Publications!Next]_Publications!vars
    BY <1>6, ArrivalImplements DEF DeliverLate, outbox, Publications!Next
  <1>7. \/ UNCHANGED <<sizes, verdicts, topic>>
        \/ \E n \in 0 .. MaxRecords : Begin(n)
        \/ Return \/ Crash
        \/ \E r \in inFlight : Deliver(r) \/ LoseAcknowledgement(r)
        \/ \E r \in wire : DeliverLate(r)
    BY DEF Next, Worker, Environment, Produce, ProduceRefused, Recorded, ServeReport,
           Flushed, FlushTimedOut, Close, Start, GiveUp, vars, outbox, client
  <1> QED  BY <1>1, <1>2, <1>3, <1>4, <1>5, <1>6, <1>7

\* When publish reports success, all the records of the result are there.
THEOREM ImplementsPublication == Spec => Publishes
  <1>1. Init => Publications!Init
    BY DEF Init, Publications!Init, Contents
  <1>2. IInv /\ [Next]_vars => [Publications!Next]_Publications!vars
    BY StepImplements, ProducerAssumption
  <1> QED  BY <1>1, <1>2, Invariant, PTL DEF Spec, Publishes, Publications!Spec
=============================================================================
