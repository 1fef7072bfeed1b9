# A TLA+ model of the exchange engine

The engine is a perpetual-futures exchange core: one process per deployment,
one worker per market.  A worker consumes one partition of `engine.input`,
matches orders, keeps accounts and risk, and publishes to `engine.replies` and
`engine.events`; its state survives restarts through checkpoints and replay.
This directory models the worker (the matching core, the stored form of a book
side, the accounts, the recovery protocol around them, the two checkpoint
stores it rests on, and the Kafka producer it publishes through), the wire
format on both of its sides, and the process around the workers with its
configuration.

`PROJECT.json` lists the components, the runs, the mutants of the code each
property is tested against, the source lines every definition models, the
disagreements with the documents that were found, the hazards, and the proved
theorems.

To repeat everything: `tlc -workers 2 -config X.cfg M` for a run,
and `tlapm` on `BasicLemmas.tla` and on each module whose name ends in `Proofs`
for the proofs.

## The system

| Part | State | Operations | Talks to |
| --- | --- | --- | --- |
| `EngineCore`, `OrderBook`, `Validation`, `IdempotencyIndex`, `SequenceGenerator` (src/core) | orders by id, a list of orders per price level, client-id map, seen command/order/client ids, counters | place, cancel, snapshot, restore | called by `EngineRuntime` |
| `SideBook`, `RingPriceLadder`, `FarPriceMap`, `PriceLevel` (src/core) | ring of slots with a bitmap, ordered map of far levels, level totals, cached best level | insert, reduce, remove, best, crosses | called by `OrderBook` |
| `EngineRuntime`, `EngineEventTranslator`, `OrderMetadataStore` (src/runtime, src/adapter) | order metadata and reservations, positions, risk, mark price, funding, processed ids | place, cancel, liquidate, mark, funding rate, funding tick; liquidation loop; auto-deleveraging | core below, worker above |
| `RedpandaEngineApp`, `main`'s worker (src/broker, src/app) | consumer position, committed offsets | poll, process, publish, checkpoint, commit; startup scan | broker, checkpoint store |
| `RecoveryCoordinator` (src/recovery) | next offset, watermarks | restore, seek, silent replay | store, broker, runtime |
| `EngineOutbox`, `RdKafkaEngineRecordProducer` (src/runtime, src/broker/rdkafka) | records in flight, the last delivery error | publish replies then events, each produced and flushed | broker |
| checkpoint stores and codec (src/checkpoint) | files or S3 objects | save, load latest | worker, recovery |
| `main`'s threads (src/app) | stop flag, list of errors | spawn, poll, throw, stop, join | one worker per market |
| `EngineAppConfig` (src/app) | the configuration so far, the current file section | environment, arguments, markets file | `main` |
| `EngineInputParser`, `Json`, `Message` (src/runtime, src/protocol) | none | bytes to a JSON value to an input | worker |
| `EngineAdapter` (src/adapter) | the order metadata | input to core command and metadata | runtime, core |
| `EngineOutputSerializer` (src/runtime) | none | reply or event to bytes | outbox |
| `FixedPoint` (src/core) | none | decimal text to ticks; used by no caller | |

A market is single-threaded.  What makes the system hard is not threads inside
a worker but the loops that run over shared maps within one input, and the
process boundary: crashes between publish, checkpoint and commit, records that
arrive while a replay runs, repeated records, a publish that fails, times out
or is answered late, retention that deletes what a recovery needs, and what
survives a restart in which form.  Between workers there is one flag, and what
the configuration has to keep apart.  On the wire the difficulty is in the
edges: what is refused, and what a number may become on its way through
text, signed and unsigned widths.

What makes each part correct:

* core: one consistent, uncrossed book; conserved quantities; price-time
  priority; fill-or-kill all or nothing; ids never reused; every loop ends;
* book side: totals, bitmap and cached best level never go stale;
* runtime: positions of a market balance; reservations are neither lost nor
  spent twice; risk is that of the position and mark of now; reduce-only never
  increases or reverses; deleveraging only after the book; no liquidatable
  account is passed over; funding and trading create no money; wallet, ledger
  and read models are told what happened;
* worker and recovery: a checkpoint contains exactly the prefix it claims, the
  broker's offset never passes it, nothing is published twice, sequences
  increase, every record is eventually processed;
* stores: a checkpoint reads back as it was written or not at all, a start
  finds the latest one, and it is there before the offset is committed;
* publishing: a result that counts as published is in the topics, in order,
  and no copy of it follows; publishing ends though the broker is silent;
* process: a configuration is taken as written or refused, workers share no
  partition, checkpoint scope, market or trade id, one failure ends them all
  and is not reported as success;
* wire: what is read is JSON, what is written reads back as it was, and a
  command says what its sender meant or is refused.

## The modules

| Module | Models |
| --- | --- |
| `OrderList` | a level's intrusive list: what it means to be the list of a set, and unlinking |
| `MatchingEngine` | `EngineCore` and `OrderBook` of one market |
| `MCMatchingEngine` | command sets for its runs |
| `BasicLemmas` | facts about finite sets, sums, division and lists that several proofs use |
| `MatchingEngineProofs` | its invariants and priority, proved |
| `PriceLevels` | one side of a book, abstractly: orders with a price, the best one first |
| `SideBook`, `MCSideBook` | one side as stored; implements `PriceLevels` |
| `SideBookProofs` | its invariants and the refinement, proved |
| `EngineWorker`, `MCEngineWorker` | one worker: `RedpandaEngineApp`, `RecoveryCoordinator`, with broker and store |
| `EngineWorkerProofs` | its invariants, proved |
| `Publication` | what the worker needs of publishing, abstractly |
| `KafkaProducer` | `EngineOutbox` and `RdKafkaEngineRecordProducer`; implements `Publication` |
| `KafkaProducerProofs` | its invariants and the refinement, proved |
| `Margin` | the arithmetic of fills, positions, risk and funding |
| `AccountRuntime`, `MCAccountRuntime` | `EngineRuntime` and `EngineEventTranslator` of one market |
| `AccountEvents`, `MCAccountEvents` | the money and order events of the same steps, and what their readers know |
| `AccountProofs` | the invariants of both, funding and the order of book and deleveraging, proved |
| `CheckpointCodec` | the text of a checkpoint, written and read |
| `FileCheckpointStore`, `MCFileCheckpointStore` | checkpoints as files in a directory |
| `S3CheckpointStore` | checkpoints as objects under a prefix |
| `CheckpointStores`, `MCCheckpointStores` | the configured store, one of the two |
| `CheckpointStoreProofs` | that files read back and starts find the newest save, proved |
| `EngineAppConfig` | `parse_engine_app_config` and the markets file |
| `EngineApp`, `MCEngineApp` | `main`: the threads of the markets; extends `EngineAppConfig` |
| `EngineAppProofs` | its invariants and the reading of markets files, proved |
| `JsonText` | `protocol/Json.cpp`, reading bytes |
| `JsonGrammar` | what JSON is, a reference for reader and writer |
| `EngineOutputSerializer` | writing replies and events |
| `EngineInputParser` | from a JSON value to an engine input |
| `EngineAdapter`, `MCEngineInput` | from an input to a core command and its metadata |

`EngineWorker` uses the others by their promises: one `Publish` that puts all
or, in `PublishFailed`, any of a record's outputs into the topics is
`Publication`; its atomic save and load is what the stores promise; the kinds
of record it meets are what the parser and the adapter take or refuse; its
`Crash` covers the stop that `EngineApp` brings about.

Definitions marked *Variant* are changed forms of the definition that follows
them, as a slip in the code would make it; no specification uses them.

### MatchingEngine

`orderById`, `queue` (the lists, per side and price), `clientOrderIdToOrderId`,
`idempotency` and `seqGen` are the members of the same names.  `AcceptPlace`
is `process` up to the call of `match_incoming_order`; `MatchStep` is one
iteration of its loop; `RestRemainder` and `FinishPlace` are what follows.
`RejectPlace`, `RejectCancel` and `DuplicateCommand` are the early returns.
`BeginRestore`, `RestoreOrder` and `EndRestore` are a snapshot and
`EngineCore::restore`, one order per step.  `pc` keeps other commands out while
a loop runs, as the single thread does.  `placed` and `executed` are history.
Events are reduced to the sequence numbers they take.

### SideBook and PriceLevels

The ring, its bitmap words, the far map, the level totals and the cached
pointer are variables of their own; pointers are prices, and dangle when no
level is stored for the price.  `ImplementsPriceLevels` says that every
operation of the stored side is the operation of the abstract side that
`MatchingEngine` works with, and that the order it offers is the right one.

### EngineWorker

`pc` follows the worker from `down` through `recovering`, `replaying`, the
startup scan and the live cycle `polling`, `processed`, `published`,
`checkpointed`.  Every call that may throw has its own failing action; a
thrown exception ends the process and loses its memory.  The runtime is
reduced to which records its state contains, its two idempotency maps (by
input id and by idempotency key, as one), its next public sequence number and
whether some position is liquidatable.  Record kinds are an order, an input
after which a position is liquidatable, an input of a market the worker does
not own, and one that does not parse.  Retention
(`DeleteOldest`) is part of `Spec` and left out of `RetainedSpec`.
`MCEngineWorker` chooses one of two settings in the first state, so that one
run meets both.

### KafkaProducer and Publication

`Begin` is the call of the outbox with the records of one result, replies
first; `Produce`, `ProduceRefused`, `ServeReport`, `Flushed` and
`FlushTimedOut` are `produce` with its `flush`; `Return` is the verdict that
`poll_once` acts on.  `lastError` is the one slot all delivery reports share.
A flush that times out leaves its record in `inFlight`, and its report may be
served during a later flush.  `Deliver`, `LoseAcknowledgement` (the record is
stored and sent again), `GiveUp` and `DeliverLate` (what is on the wire when
the process ends) are librdkafka and the broker, external and unconstrained.
Replies and events are one sequence in the order of their arrival.

### AccountRuntime and Margin

One action for each input kind and one for each iteration of the loops it
starts: `Trade` (a `TradeExecuted` through `append_trade_executed`, maker then
taker), `Deleverage` (`append_adl_fills`), `AttemptLiquidation` (one candidate
of `evaluate_automatic_liquidations_for_market`), with `Finish...` and
`EndScan` for what follows.  The core appears as what `MatchingEngine` shows
of it: the best-priced, first-queued crossing order trades.  The core runs
before the translator in the code and does not read accounts, so taking both
in one step loses nothing; candidate lists the code computes once are
recomputed here, which is the same because nothing they depend on changes
before the next success.  `Restart` is a restore from a checkpoint of the
current state, as the worker saves one after every record, followed by the
startup scan; a checkpoint holds the metadata of resting orders only, so the
restart drops the rest (`ledger.dropped`).  `liquidationIds` are the liquidation
ids whose orders the core has had.  The command, client and order ids of a
liquidation's order are made of the `liquidation_id` alone
(`synthetic_liquidation_order`), and the core answers an id it has had with a
refusal, while the runtime knows a record again by its `input_id` and
`idempotency_key` only; so a request may repeat an id (`RequestId`), and every
startup scan repeats those of the one before (`AttemptIds`).  The loop of a live
record names that record's offset, and its ids never come again; requests,
automatic liquidations and the clients' own orders are taken to use different
ids.  `ledger` is history.  `Margin`
keeps the code's truncating division; 64-bit overflow is not modelled.  A place
that the core refuses for any of its reasons is `RejectPlace`.

`AccountEvents` extends every action with the events it appends: settlements
and releases, account deltas, opened, traded and cancelled orders.  `told` and
`money` are the sums a wallet, a ledger and a read model keep; `excused` is
whom the last liquidation loop tried.  A step of `AccountEvents` is a step of
`AccountRuntime` with those variables added, so one run checks both.

### CheckpointCodec and the stores

A checkpoint is its position and its sections, a section the set of its
entries' keys.  `WriteCheckpoint` gives the lines of `write_checkpoint`: a
header, then for every section a count and its entries, then `end`.
`ReadCheckpoint` folds `ReadLine` over them as `CheckpointReader` consumes
them: fixed order, sections that older files lack are optional, counts must be
met, a repeated key is an error, and the file is no checkpoint unless `end` is
reached.  The metadata of orders that do not rest is not written, which
`Restored` states independently of the text.  Field formats, the schema
version and the checks on single fields are left out.

In `FileCheckpointStore`, `files` and `temps` are the directory, by the offset
in the name; zero-padding makes names sort as offsets do.  `BeginSave`,
`WriteTemp`, `Rename`, `RemoveFinal` and their failing counterparts are the
system calls of `save` in order; `Start` is `load_latest`, `AfterSave` the
commit that follows.  A write that breaks off leaves an empty temporary file
or one that lacks its last line, the two extremes; no reader opens it.  The
code never syncs, so a file stays in `unsynced` until the system writes it
back, and `PowerLoss` cuts one such file to any prefix.  Positions never go
back: replay reaches the high watermark, which no saved position exceeds.

In `S3CheckpointStore`, `ListPage` is one request of `list_checkpoint_keys`,
`GetObject` and the two `Put...` actions the others.  The server answers a
listing with the next `PageSize` keys in order.  A put that was given up may be
carried out later (`late`), also between two pages or between the listing and
the get; that it does not outlive the next put is an assumption on the
service.  Signing and HTTP are left out.  The checkpoint format is a parameter
of the module, since both stores use one.  `CheckpointStores` is
`make_checkpoint_store`: one of the two stores for the life of the worker,
chosen in the first state; `saved` and the like are shared where they mean the
same.

### EngineAppConfig and EngineApp

`phase` is where the parse is: the environment, then one action per argument,
and one per line of a markets file wherever one is named; the first error
refuses.  The file is the `current` section and the `markets` finished before,
as in `load_markets_config_file`; a section is compared with the others when
the next header or the end of the file finishes it.  `lines` is history, by
which `MarketsAsWritten` compares what is loaded or refused with the text: a
refusal at a header judges the text before it, since the code has not looked
at what the header begins (`Judged`).  Strings that are only
copied are one argument, and the fourteen further fields of a market one key
that is valid or not.

In `EngineApp`, `main` spawns a thread per market and joins them in order; a
worker advances, throws, notes its error, then sets the flag, in separate
steps, and looks at the flag only before a poll.  `SpawnFails` is a thread
that cannot be had: the destructors join what there is and nobody sets the
flag, so such a process ends by a limit or a failure only, which is what
`FailureEndsApp` says.  A worker's first trade id is
`market_id * Namespace + 1`, in the width of trade ids.

### The wire format

`JsonText` reads byte by byte, as the parser does: each operator takes a
position and returns a value with the position after it, or `Failed`.
`JsonGrammar` says what JSON is without positions, by cutting a text into
parts; `ReadsJson` says that they agree.  `EngineOutputSerializer` writes
values, with the bare numbers it makes of the texts of integer fields.
`EngineInputParser` has one table of fields per input, and the envelope;
`EngineAdapter` maps orders and cancels with the casts of the code.  The parts
need different alphabets, bytes for the first and digits and words for the
second, and share no state; `MCEngineInput` holds one of them in `part`.

## The runs

| Run | Instance | Shows |
| --- | --- | --- |
| `Engine` | two workloads. Kinds: 3 orders, 2 prices, every type and time in force, one cancel, one lifetime. Reuse: 4 orders, reused command, order and client ids, a second user, malformed commands, cancels, any number of rebuilds | `FillsAccountForOrders`, `FokAllOrNothing`, `ClientIdsMatchOrders`, `ListsMatchOrders`, `Uncrossed`; `PriorityWithoutRestore`, `LoopsEnd` |
| `SideBook` | 3 orders, 5 prices: 3 slots in two bitmap words, one price below, one above | `LevelsMatchOrders`, `CachedBestIsBest`; `ImplementsPriceLevels`, the refinement of `PriceLevels` |
| `Worker` | 3 records. Recovery: 2 keys, 2 faults, all kinds but liquidations, no retention. Retention: 1 fault, retention, startup scans | `StateCoversLog`, `CommittedWithinCheckpoint`, `PublishedAtMostOnce`; `RetainedSequencesIncrease`, `Progress` |
| `Accounts` | 3 accounts, 4 orders, marks 10 and 20, one funding interval, liquidations requested under new and under repeated ids, one restart | state: `PositionsBalance`, `MetadataMatchesBook`, `ReservationsAddUp`, `RiskIsCurrent`, `ReduceOnlyHolds`; events: `WalletFollowsReservations`, `MoneyIsConserved`, `OpenOrdersFollow`; loop: `LiquidatablesWereTried`, `BookBeforeAdl`, `InputsFinish`; `FundingBalances` |
| `CheckpointStores` | file store: offsets to 2, two runtime states, a file of an older version, 3 faults, one power failure. S3 store: 4 keys in pages of 2, faults, late puts | `FileStoreReadsBack`; `NewestSaveIsFound` |
| `KafkaProducer` | 2 results of up to 2 records, one lost acknowledgement, one crash | `PublishedInOrder`; `Publishes` (the refinement of `Publication`), `SettledWhenPublished`, `PublishingEnds` |
| `EngineApp` | files of up to two sections, two arguments, poll limits 1 and 2; up to two workers | `WorkersApart`, `SuccessIsComplete`; `MarketsAsWritten`, `FailureEndsApp` |
| `EngineInput` | two documents with up to two damaged bytes; payload texts of up to 3 bytes, numerals of up to 4; messages of six kinds with up to two changed fields | `ReadsJson`, `OutputReadsBack`, `CommandSaysWhatWasSent` |
| `EngineRestartPriority` | one rebuild | violation of `PriceTimePriority`: the rebuilt queue is in order-id order |
| `WorkerScanSequence` | a crash in the startup scan | violation of `SequencesIncrease`: sequence numbers are published twice |
| `AccountsRestart` | two restarts, thin margins | violation of `BookBeforeAdl`: the second startup scan is refused as a duplicate and a crossing order is left unused |
| `FileStoreDurable` | one power failure | violation of `CheckpointBeforeCommit`: the committed offset is past any checkpoint the next start finds |

The four violations are disagreements of the code with its documents, quoted
under "findings" in `PROJECT.json`.  Two passing runs state the part that does
hold: price priority always and time priority within one lifetime
(`PriorityWithoutRestore`), and increasing sequences as long as the broker has
deleted nothing and no record of the log leaves the startup scan something to
publish (`RetainedSequencesIncrease`).

More limits of the code are in the models and have no run.

* `StateCoversLog` is claimed only while retention has deleted nothing: recovery
  without a checkpoint starts at the low watermark with an empty state, and a
  position that retention has overtaken is reset to the earliest record, so the
  next checkpoint claims records its state lacks.
* A request that is only ever replayed is never answered: the replay is silent
  (docs/engine-contract.md:86), though each request is to have one reply (:191).
* A record the runtime throws on is met again by every replay, and the worker
  cannot start until it is gone; `Progress` is about the other records.
* The trades of a `LiquidatePosition` request are not followed by the
  liquidation loop, though docs/engine-contract.md:267 has it after every trade.
* A `LiquidatePosition` whose `liquidation_id` has been used before, in a record
  with another `input_id` and `idempotency_key`, makes an order the core refuses
  as a duplicate (EngineRuntime.cpp:883-893, :1668), and the opposing accounts
  are deleveraged (:1424) however much of the book crosses.  That is not what
  docs/engine-contract.md:274 leads one to expect of the available execution
  path.  `Accounts` reaches such requests; `BookBeforeAdl` names them
  (`RepeatedRequest`) and leaves them out, and is violated without that.
* `valid_until_ms` of a mark price is kept and never compared with a clock
  (docs/engine-contract.md:227).
* A fill recomputes equity from margin and profit and drops the funding added
  to it since; `RiskIsCurrent` leaves equity free for that reason.
* A directory that cannot be listed looks like one without checkpoints.

The bounds and why they suffice.  Two prices and four orders give a level with
several orders, a level behind the best one, a taker that sweeps both and a
maker that fills in several pieces.  Three slots in words of two bits put
levels at a word boundary and at both ends of the ring.  Three records, two
keys and two faults allow a repeat of a record that was published but not
checkpointed, a crash during the replay that follows, and a record produced
during that replay.  Three accounts and four orders give a liquidation that
takes part of its lots from the book and the rest from an opposing account, a
self-trade, a reduce-only order larger than its position, and reservations
that do not divide evenly; a mark that moves by a factor of two wipes out a
margin of a fifth.  `MaxAttempts` is 2 for the 16 of the code, so that the cap
is met.  `Accounts` has one restart, with which deleveraging waits for the
book; `AccountsRestart` has the second one, whose startup scan does not.  In
the states of `Accounts` every closing order is within the core's limits, so
the conditions of `BookComesBeforeAdl` hold in all of them.  In
`CheckpointStores` two offsets give an older file behind the newest, and three faults
a failed rename, a failed removal and a failed retry in one save, or a re-save
of an offset after a restart.  Four keys in pages of two give a listing whose
last page is full and one that grows while it is read.  Two results of two
records give a report of the first result that is served while the second is
flushed.  Two sections, with any key given twice, let each check of a section
be the one that refuses: a repeated market id, name or partition, a missing
key, a bad value, a market without trade ids; two workers let one throw at any
point of the other.  In `EngineInput` the widths are scaled, int64 to
-128 .. 127, int32 to -8 .. 7 and the unsigned 32-bit ids to 0 .. 15, and the
numbers sent lie on and around every limit of the three; two damaged bytes
break a surrogate pair, a separator, a key or an exponent and mend it again;
four bytes spell a fraction, an exponent and a sign before a zero, and three
put every kind of escape between others.  `MaxSequence` bounds
how long a repeated command id is answered, as every answer takes a sequence
number.  `CHECK_DEADLOCK FALSE` appears where
the bounded input runs out, or the process has exited: a worker that waits for
records is not stuck.

Fairness.  The loops of `MatchingEngine`, `AccountRuntime` and `AccountEvents`
are weakly fair, since a worker's thread runs a call it has begun to the end;
the arrival of inputs is not fair.  In `EngineWorker` the worker's own steps and
`Start` are weakly fair: a supervisor restarts a process that ended.  Faults,
retention and producers are not fair; `MaxFaults` bounds failures, without
which nothing can be promised.  In `KafkaProducer` the worker's thread is
weakly fair, the timeout of its flush included; nothing is asked of the broker
and the client's threads, and `PublishingEnds` holds when they never act.  In
`EngineApp` main and each thread are weakly fair, as the scheduler runs them
and a call of a worker returns or throws.  `CheckpointStores` and `EngineInput`
state safety only and assume none.

## The proofs

The theorems hold for every value of the constants that satisfies the named
assumptions: any number of orders, prices, records, keys, accounts and faults,
markets files and argument lists of any length.  They are proved in the
modules that follow; each property they state is also checked by a run, which
found the slips of the model and of the invariants before a proof was tried.

`BasicLemmas` has what several of them need: induction over numbers and finite
sets, the sum of a function over a finite set (that any element may be taken
out of it, what an update does to it, that a factor comes out of it), extreme
elements of finite sets, quotients and remainders, and appending to and
unlinking from a level's list.

### MatchingEngine

From `ConstantsAssumption`.  None of the properties is inductive alone:
resting an order keeps `ClientIdsMatchOrders` only if its ids are not in the
book, which needs that the incoming order's ids are burnt and unused
(`IncomingOK`), that an unburnt id has no history (`FreshIds`), and that a
rebuild goes through a snapshot with the same properties as the book it came
from (`SnapshotOK`).  `IInv` is the conjunction of these with the properties;
`NextIInv` has one lemma per action.  Results: `TypeCorrect`,
`ListsConsistent`, `ClientIdsConsistent`, `BookUncrossed`, `FillsAccounted`.

`FokIsAllOrNothing` adds `FokOK`: between two iterations of the loop, the
opposing orders that cross hold at least what is left of a fill-or-kill order,
because each iteration takes from them what it gives to it.  The argument is
about sums over the crossing orders, which `available_crossing_lots` computes before
the loop.

`PriorityWithinLifetime` is price-time priority under `LifetimeSpec`, every
step but `BeginRestore`: a rebuild queues by order id and breaks it, which the
run `EngineRestartPriority` shows.  The invariant (`PriorityInv`) is that every
list is in the order of acceptance and that what rests was accepted before the
order being matched.  `BestPriceComesFirst` is the half that a rebuild leaves
intact: under `Spec`, every trade is at the best price of the resting side.

`LoopsShorten` is the termination argument behind `LoopsEnd`: while a match or
a rebuild runs no command comes between, and each step makes `LeftToDo` (the
lots left, or the orders to put back) smaller.  It rests on resting orders
having something left, which is in the type of a book entry.

### SideBook

From `LadderAssumption`, for every size of ring, position of its head and
width of a bitmap word.  The invariant (`SideBookInvariant`) says that a level
is stored in the slot of its price and marked there or in the far map
(`StoreOK`), that each lists the orders at its price with the sum of what they
have left (`LevelsOK`), and that the cached level is the best.  The work is in
two places: the circular search for the next marked slot, which scans words
and then bits, finds the best live slot whichever way the ring is turned; and
a fill, removal or insertion changes the total of one price by as much as the
level it changes.  Results: `LevelsAlwaysMatchOrders`, `CachedBestAlwaysBest`
and `SideBookImplementsPriceLevels`, in which every operation of the stored
side is the operation of the same name on the abstract queues.

### EngineWorker

From `WorkerAssumption`.  `IInv` adds to the types how position, recovery
offsets, record in hand and checkpoint relate (`Positions`) and a bound below
which everything published lies (`PublishedBefore`): a restart replays silently
at least to the high watermark, hence past it.  Results under `Spec`, retention
included: `WorkerTypeCorrect`, `CommitFollowsCheckpoint`, `AtMostOnce`.  A
second invariant (`CoverageInv`), that state and checkpoint cover the originals
of their prefix while the low watermark is still the first offset, gives
`PrefixCovered`; once retention has deleted a record nothing is claimed.

A third (`SequenceInv`) gives `SequencesFollowLog`: the number an event takes is
one more than the number of originals before its record that emit an event,
a function of the log alone.  So it does not matter which process publishes a
record, from which checkpoint it started, or how often it replayed.

### KafkaProducer

From `ProducerAssumption`.  What the topics hold cannot be read off the
client's state, since a report may be that of an earlier record.  The
inductive invariant therefore says where a record can be: nothing was handed
over past the record in hand (`Settled`, with `Handed`); the record being
flushed is in the topics, still in flight, or its failure is in a report or in
`lastError` (`Awaited`); the records of the open result before the one in hand
have arrived if none failed, and those of a published result have (`Arrived`);
a published record is neither in flight nor on the wire (`Settled`); and what
arrived is in order among the published records and the one being flushed
(`Ordered`).  Results: `TypeCorrect`, `InOrder`, `NoLateCopy`, and
`ImplementsPublication`, in which `Begin` maps to `Begin`, a delivery to `Show`,
`Return` and a crash to `Decide`, and all else to a stutter.

### AccountRuntime

From `RuntimeAssumption` and `NothingAssumption` (the model value for "no
entry" is no entry).  The invariant holds in the middle of every input: it
follows the incoming order while it matches.  Beyond types it says that what
is unspent of a reservation lies within it and is nothing once the order has
filled (`MarginOK`), that the taker's metadata is what the core still has to
match of it and is in nobody's books yet (`PlacingOK`), that a reduce-only
order has no more left than its account's position, in the same direction as
it began (`ReducingOK`), that queue numbers are distinct (`QueueOK`), that
order ids not yet used have no metadata and an empty ledger (`MetadataOK`,
`UnusedOK`), and that an account without a position is not up for liquidation
(`FlatOK`).  `Trade` and `Deleverage` are proved through what one fill does to
one side, for each case of `EntryAndMargin` (opening, increasing, reducing,
closing and reversing), applied twice, so that a trade of an account with
itself is covered.  Results: `AccountsTypeCorrect` (no margin, reservation or
remainder becomes negative), `PositionsAlwaysBalance`,
`MetadataAlwaysMatchesBook`, `ReservationsAlwaysAddUp`, `RiskIsAlwaysCurrent`,
`ReduceOnlyAlwaysHolds`.

`BookComesBeforeAdl` is the action property that a liquidation turns to the
opposing accounts, and an attempt is given up, only when nothing in the book
crosses it or the book has closed the position.  What it leaves out are limits
of the code, not of the proof.  `RepeatedRequest`, in the property itself: a
request under an id the core has had.  `MaxRestarts <= 1`: a startup scan names
its orders by account and attempt, a second one names them again, and the core
refuses what it has seen (`AccountsRestart` shows the step).  `RequestsFit` and
`ForcedOrdersFit`: the core refuses an order above its quantity limit or at a
price outside its range, requested or chosen by the loop, and the code goes on
to the opposing accounts.  The invariant (`AdlInv`) is that a liquidation's order
and its metadata have the same left over while it matches, so that the book is
done with it only when nothing crosses or nothing is left; and that the ids the
core has had of the startup scan belong to attempts that are behind the one to
come, so that an attempt is never refused as a repeat.

`InputsShorten` is the termination argument behind `InputsFinish`: until an
input is dealt with no other is taken, and each step makes a tuple smaller in
the order of its components: whether a placed order is still matching, the
accounts the loop may still attempt, the phase, and the lots left.  It needs
that a trade is never of zero lots, that an account picked for deleveraging has
a position, and that the loop attempts no account twice, not the cap on
attempts.

### AccountEvents

From the same assumptions.  `AInv` joins the accounts' invariant: what was told
of an order agrees with its ledger entry (`WalletOK`), an order's opened and
traded lots give what is left of it during an input too (`OpenOK`), and no
account outside `excused` is liquidatable except within a loop, or after a
place that has traded and before its loop (`TriedOK`).  Results:
`WalletAlwaysFollows`, `MoneyIsAlwaysConserved`, `OpenOrdersAlwaysFollow`,
`LiquidatablesAlwaysTried`.  For the second, each case of a fill is shown to
move as much money as the cost of the position, the price of the fill and the
rounding of its new entry price say.

`FundingAlwaysBalances` is an action property: each payment is off by less than
one unit from the position's share, the shares are a multiple of the
positions, and these add up to nothing.

### EngineAppConfig and EngineApp

From `ConfigAssumption`, `NoneAssumption` (the model value for an empty
optional is no value and no section), `AppAssumption` and `ScopeAssumption` (a
partition has no more digits than a scope has room for; the code formats an
`int32_t` with ten).  The invariant says what the parser's locals and the
threads hold at every stage: the markets so far differ in id, name and
partition, a worker's first trade id is that of its market, an error has been
noted before the flag is set, and `main` has joined no thread that runs.
`WorkersAlwaysApart` needs that padded decimal numerals of distinct partitions
differ, and that the trade ids of two markets do not meet before a namespace
is used up, in the width of trade ids; `SuccessIsAlwaysComplete` follows from
what `main` knows when it exits.

`MarketsAlwaysAsWritten` is about texts of any length.  At every line, the
sections loaded so far correspond one to one to the headers of the text, and
each section holds for each key the one value that the text assigns to it
below its header, or none if there is no assignment (`ReadSoFar`).  Every line
extends the correspondence, and every refusal shows what is wrong with the
text: a malformed line, an assignment before the first header or to a key that
has one, a section that is not complete or repeats an id, name or partition of
another.

### The checkpoint stores

From `CodecAssumption` (the keys of entries are a finite set of numbers),
`NothingAssumption` (the model value for "no checkpoint" is neither a
checkpoint nor a text), `FileStoreAssumption` and `S3StoreAssumption`: any
sections, any files of an earlier version, any number of offsets, failures and
power losses, any page size.

First, the text.  A reader that folds `ReadLine` over a text passes through a
run of states, one per line (`FoldIsRun`), and runs over two texts make one
over their concatenation (`Concatenation`).  `Ready` is the reader's state
between two sections, with the sections read so far.  A section that the file
has takes it from there through the count and one entry at a time, of which
none comes twice, to the next (`SectionIsRead`); one that is left out is
optional and the next count skips it (`PartIsRead`).  So a whole file reads as
what was written, less the metadata of orders that do not rest (`RoundTrip`,
and `CheckpointReadsBack` for files without the optional sections).  Only the
last line says `end`, and no proper prefix of a file has it; a reader that has
met no `end` is not done (`TornIsNothing`, `PrefixIsNothing`).

Then the files.  `FileInv` says that the temporary file is whole from the end
of the write to the rename (`TempIsWhole`), that a file whose data is still in
the cache is whole as long as power lasts (`UnsyncedIsWhole`), that every file
reads back or was torn and none is newer than the latest save
(`FilesAreReadable`), and that this save is what its offset was last renamed
from (`SavedIsStored`).  `CheckpointFilesReadBack` follows, and that the last
file by name is the latest save, unless a re-save removed it.

For the objects, `S3Inv` says that none is newer than the latest save that was
begun, that from the latest save that returned on they are of that save or of
an attempt since, whose put may land at any moment (`NewestIsStored`), and that
a listing whose token has reached that save has one such key among its
candidates (`ListingSeesNewest`).  A truncated page is never empty, so its last
key, the next token, is a candidate itself; a page that is not truncated has
every key there was.  With both, `StartsFindTheNewestSave`.

### Only model-checked

Liveness (`LoopsEnd`, `Progress`, `InputsFinish`, `PublishingEnds`,
`FailureEndsApp`) is out of the prover's reach.  For `LoopsEnd` and
`InputsFinish` the part that does not speak of fairness is proved
(`LoopsShorten`, `InputsShorten`): no loop can go on for ever.  That its next
step is always enabled is left to TLC.  `PriorityWithoutRestore` is the form in
which a run checks what `BestPriceComesFirst` and `PriorityWithinLifetime`
prove.  The
operators of the wire format are recursive over texts of any length,
which the prover does not take, so `ReadsJson`, `OutputReadsBack` and
`CommandSaysWhatWasSent` stay with the run.

The type invariants are proved and take no run of their own.

## Not modelled

The decimal parser of `FixedPoint`, which nothing in the program calls; prices
and quantities are ticks and lots in every module.  The consumer's calls
(poll, seek, watermarks, commit) appear by their outcomes in `EngineWorker`;
librdkafka is external.  Of the events, fees, replies and book deltas are left
out.  64-bit overflow of products of prices and quantities, collisions of the
hash of ids, the depth to which JSON is nested, the names of the integer
fields (a constant), field formats and schema version of a checkpoint, request
signing, the formats of configured integers, usage and error texts, logging,
fixture classification (used by tests) and benchmarks.

## Plan

1. Composition: `EngineWorker` with the file store in place of its atomic save,
   with a checkpoint that is lost or falls back to an older one; and with
   `KafkaProducer` in place of `Publish`, so that a late copy meets the next
   process's outputs.
2. The consumer call by call, with a rebalance and an offset that is reset.
3. Fees and book deltas, and a reader that rebuilds the book from them.
