----------------------------- MODULE KafkaProducer -----------------------------
(***************************************************************************)
(* EngineOutbox and RdKafkaEngineRecordProducer: the output records of one *)
(* result are produced one by one, and each is flushed before the next.    *)
(* A flush that times out leaves its record in flight: it may still be     *)
(* delivered, or fail, while a later record is flushed.                    *)
(*                                                                         *)
(* Deliver, LoseAcknowledgement, GiveUp and DeliverLate are what the       *)
(* Kafka client and the broker do: a delivery whose acknowledgement is     *)
(* lost is sent again, and what is on the wire when the process ends may   *)
(* still arrive.  Replies and events are one sequence here, in the order   *)
(* of their arrival.                                                       *)
(***************************************************************************)
EXTENDS Integers, Sequences, FiniteSets

CONSTANTS
  MaxResults,   \* bound: results published
  MaxRecords,   \* bound: replies and events of one result
  MaxResends,   \* bound: deliveries made twice
  MaxCrashes    \* bound: crashes

ASSUME ProducerAssumption ==
  MaxResults \in Nat /\ MaxRecords \in Nat /\ MaxResends \in Nat /\ MaxCrashes \in Nat

VARIABLES
  sizes,      \* attempted by the outbox: records of each result
  verdicts,   \* EnginePublishResult::ok(), for each result
  pc,         \* "polling", "producing", "flushing", "closing" or "down"
  next,       \* the index of the record the outbox is at
  failures,   \* result.failures, by index
  published,  \* history: the records counted in result.published
  lastError,  \* DeliveryReporter::last_error_ is set
  inFlight,   \* records the client has and has not reported
  reports,    \* delivery reports not served yet
  wire,       \* records of a dead process that may still arrive
  topic,      \* what arrived
  resends, crashes

outbox == <<sizes, verdicts, pc, next, failures, published>>
client == <<lastError, inFlight, reports, wire>>
vars == <<outbox, client, topic, resends, crashes>>

Result == Len(sizes)
Current == <<Result, next>>

Contents == {topic[i] : i \in 1 .. Len(topic)}

-----------------------------------------------------------------------------
(* EngineOutbox::publish.                                                  *)

\* A duplicate or rejected result has no records.
Begin(n) ==
  /\ pc = "polling"
  /\ Result < MaxResults
  /\ sizes' = Append(sizes, n)
  /\ verdicts' = Append(verdicts, "open")
  /\ next' = 1
  /\ failures' = {}
  /\ pc' = "producing"
  /\ UNCHANGED <<published, client, topic, resends, crashes>>

\* The outbox goes on with the next record whether or not this one failed.
Recorded(failed) ==
  /\ failures' = IF failed THEN failures \cup {next} ELSE failures
  /\ published' = IF failed THEN published ELSE published \cup {Current}
  /\ next' = next + 1
  /\ pc' = "producing"
  /\ UNCHANGED <<sizes, verdicts>>

\* Variant: a result fails only when none of its records was published.
ReturnUnlessNone ==
  /\ pc = "producing"
  /\ next > sizes[Result]
  /\ LET ok == sizes[Result] = 0 \/ Cardinality(failures) < sizes[Result]
     IN  /\ verdicts' = [verdicts EXCEPT ![Result] = IF ok THEN "published" ELSE "failed"]
         /\ pc' = IF ok THEN "polling" ELSE "closing"
  /\ UNCHANGED <<sizes, next, failures, published, client, topic, resends, crashes>>

\* poll_once returns PublishFailed when a record failed, and the worker throws.
Return ==
  /\ pc = "producing"
  /\ next > sizes[Result]
  /\ verdicts' = [verdicts EXCEPT ![Result] = IF failures = {} THEN "published" ELSE "failed"]
  /\ pc' = IF failures = {} THEN "polling" ELSE "closing"
  /\ UNCHANGED <<sizes, next, failures, published, client, topic, resends, crashes>>

-----------------------------------------------------------------------------
(* RdKafkaEngineRecordProducer::produce.                                   *)

\* Variant: the record is handed over and not flushed.
ProduceOnly ==
  /\ pc = "producing"
  /\ next <= sizes[Result]
  /\ lastError' = FALSE
  /\ inFlight' = inFlight \cup {Current}
  /\ Recorded(FALSE)
  /\ UNCHANGED <<reports, wire, topic, resends, crashes>>

Produce ==
  /\ pc = "producing"
  /\ next <= sizes[Result]
  /\ lastError' = FALSE
  /\ inFlight' = inFlight \cup {Current}
  /\ pc' = "flushing"
  /\ UNCHANGED <<sizes, verdicts, next, failures, published, reports, wire, topic,
                 resends, crashes>>

\* The client's queue is full.  Requests are valid: the topics are configured.
ProduceRefused ==
  /\ pc = "producing"
  /\ next <= sizes[Result]
  /\ lastError' = FALSE
  /\ Recorded(TRUE)
  /\ UNCHANGED <<inFlight, reports, wire, topic, resends, crashes>>

\* dr_cb, called by flush.
ServeReport ==
  /\ pc \in {"flushing", "closing"}
  /\ \E report \in reports :
       /\ reports' = reports \ {report}
       /\ lastError' = (lastError \/ ~report.ok)
  /\ UNCHANGED <<outbox, inFlight, wire, topic, resends, crashes>>

Idle == inFlight = {} /\ reports = {}

\* The failure may be that of an earlier record.
Flushed ==
  /\ pc = "flushing"
  /\ Idle
  /\ Recorded(lastError)
  /\ UNCHANGED <<client, topic, resends, crashes>>

\* Variant: without a timeout, flush waits.
FlushForever ==
  /\ pc = "flushing"
  /\ Idle
  /\ Recorded(lastError)
  /\ UNCHANGED <<client, topic, resends, crashes>>

\* Variant: a flush that timed out is not an error.
FlushTimeoutIgnored ==
  /\ pc = "flushing"
  /\ ~Idle
  /\ Recorded(lastError)
  /\ UNCHANGED <<client, topic, resends, crashes>>

FlushTimedOut ==
  /\ pc = "flushing"
  /\ ~Idle
  /\ Recorded(TRUE)
  /\ UNCHANGED <<client, topic, resends, crashes>>

-----------------------------------------------------------------------------
(* The end of a process and the start of the next.                         *)

Ended ==
  /\ pc' = "down"
  /\ lastError' = FALSE
  /\ wire' = wire \cup inFlight
  /\ inFlight' = {}
  /\ reports' = {}

\* The producer's destructor flushes once more, and its result is not read.
Close ==
  /\ pc = "closing"
  /\ Ended
  /\ UNCHANGED <<sizes, verdicts, next, failures, published, topic, resends, crashes>>

Crash ==
  /\ pc # "down"
  /\ crashes < MaxCrashes
  /\ crashes' = crashes + 1
  /\ Ended
  /\ verdicts' = [b \in DOMAIN verdicts |->
                    IF verdicts[b] = "open" THEN "failed" ELSE verdicts[b]]
  /\ UNCHANGED <<sizes, next, failures, published, topic, resends>>

\* Recovery replays silently: no record is produced a second time.
Start ==
  /\ pc = "down"
  /\ pc' = "polling"
  /\ UNCHANGED <<sizes, verdicts, next, failures, published, client, topic, resends,
                 crashes>>

-----------------------------------------------------------------------------
(* The Kafka client's threads and the broker.                              *)

Report(record, ok) ==
  /\ inFlight' = inFlight \ {record}
  /\ reports' = reports \cup {[record |-> record, ok |-> ok]}

Deliver(record) ==
  /\ record \in inFlight
  /\ topic' = Append(topic, record)
  /\ Report(record, TRUE)
  /\ UNCHANGED <<outbox, lastError, wire, resends, crashes>>

LoseAcknowledgement(record) ==
  /\ record \in inFlight
  /\ resends < MaxResends
  /\ resends' = resends + 1
  /\ topic' = Append(topic, record)
  /\ UNCHANGED <<outbox, client, crashes>>

GiveUp(record) ==
  /\ record \in inFlight
  /\ Report(record, FALSE)
  /\ UNCHANGED <<outbox, lastError, wire, topic, resends, crashes>>

DeliverLate(record) ==
  /\ record \in wire
  /\ topic' = Append(topic, record)
  /\ wire' = wire \ {record}
  /\ UNCHANGED <<outbox, lastError, inFlight, reports, resends, crashes>>

-----------------------------------------------------------------------------
Init ==
  /\ sizes = <<>> /\ verdicts = <<>>
  /\ pc = "polling"
  /\ next = 1
  /\ failures = {} /\ published = {}
  /\ lastError = FALSE
  /\ inFlight = {} /\ reports = {} /\ wire = {}
  /\ topic = <<>>
  /\ resends = 0 /\ crashes = 0

Worker ==
  \/ Return \/ Produce \/ ProduceRefused
  \/ ServeReport \/ Flushed \/ FlushTimedOut
  \/ Close

Environment ==
  \/ \E record \in inFlight : Deliver(record) \/ LoseAcknowledgement(record) \/ GiveUp(record)
  \/ \E record \in wire : DeliverLate(record)

Next ==
  \/ \E n \in 0 .. MaxRecords : Begin(n)
  \/ Worker
  \/ Crash \/ Start
  \/ Environment

\* The worker's thread runs, and flush ends at its timeout; nothing is asked of
\* the broker.
Fairness == WF_vars(Worker)

Spec == Init /\ [][Next]_vars /\ Fairness

-----------------------------------------------------------------------------
(* Properties.                                                             *)

Ids == (1 .. MaxResults) \X (1 .. MaxRecords)

\* The type invariant: a verdict for each result, and records of them in flight.
TypeOK ==
  /\ sizes \in Seq(0 .. MaxRecords)
  /\ verdicts \in Seq({"open", "published", "failed"})
  /\ Len(verdicts) = Len(sizes) /\ Len(sizes) <= MaxResults
  /\ pc \in {"polling", "producing", "flushing", "closing", "down"}
  /\ next \in 1 .. MaxRecords + 1
  /\ failures \subseteq 1 .. MaxRecords
  /\ lastError \in BOOLEAN
  /\ published \cup inFlight \cup wire \subseteq Ids
  /\ reports \subseteq [record : Ids, ok : BOOLEAN]
  /\ topic \in Seq(Ids)

Publications == INSTANCE Publication WITH visible <- Contents

\* The outbox and the producer implement Publication: when poll_once goes on
\* to the checkpoint, every reply and event of the input is in its topic,
\* whatever the delivery reports of earlier records said or when they came.
Publishes == Publications!Spec

\* The engine produced r, then s.
Before(r, s) == r[1] < s[1] \/ (r[1] = s[1] /\ r[2] < s[2])

\* Records counted as published arrived in the order in which the engine
\* produced them, resent copies included.
PublishedInOrder ==
  \A i, j \in 1 .. Len(topic) :
    i < j /\ topic[i] \in published /\ topic[j] \in published
    => topic[i] = topic[j] \/ Before(topic[i], topic[j])

\* A record counted as published is settled: no further copy of it arrives.
SettledWhenPublished ==
  [][topic' # topic => topic'[Len(topic')] \notin published]_vars

\* Publishing ends, with a verdict or with the process, though the broker
\* never answers.
PublishingEnds == (pc \in {"producing", "flushing", "closing"}) ~> (pc \in {"polling", "down"})
=============================================================================
