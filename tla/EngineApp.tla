------------------------------- MODULE EngineApp -------------------------------
(***************************************************************************)
(* main: one thread per configured market, each running                    *)
(* run_engine_partition_worker, that share a stop flag and a list of       *)
(* errors.  A worker that fails notes its error and sets the flag; the     *)
(* others look at the flag before each poll.  What a worker does to its    *)
(* market is EngineWorker; here it only advances or throws.                *)
(***************************************************************************)
EXTENDS EngineAppConfig

CONSTANTS
  TradeIds,        \* the number of TradeId values, 2^64
  Namespace,       \* TradeIdNamespaceSize
  Base, Width      \* digits and width of the partition in a checkpoint scope

ASSUME AppAssumption ==
  /\ TradeIds \in Nat \ {0} /\ Namespace \in Nat \ {0}
  /\ Base \in Nat \ {0, 1} /\ Width \in Nat \ {0}
  /\ None \notin {"success", "failure"}

VARIABLES
  main,       \* [stage, joined]; stages "parsing", "spawning", "joining",
              \* "unwinding" and "exited"
  workers,    \* the threads so far: where each is, its polls, its first trade id
              \* and how many polls it began after the stop flag was set
  stop,       \* stop_requested
  errors,     \* worker_errors, by worker
  exit        \* the process's exit status

app == <<main, workers, stop, errors, exit>>
vars == <<parsing, app>>

\* A worker thread between two of its steps.
Thread(at) == [at |-> at, polls |-> 0, firstTradeId |-> 0]

Started == {"starting", "recovering", "scanning", "looping", "polling"}

-----------------------------------------------------------------------------
(* What keeps the workers of one process apart.                            *)

Power(n) == LET p[i \in Nat] == IF i = 0 THEN 1 ELSE Base * p[i - 1] IN p[n]

\* A partition is an int32_t, whose ten digits the padding holds.
ASSUME ScopeAssumption == \A p \in Partitions : p < Power(Width)

\* The partition's digits, padded with zeros.
Padded(partition) == [i \in 1 .. Width |-> (partition \div Power(Width - i)) % Base]

\* checkpoint_scope_for: the topic is the same for every worker.
CheckpointScope(market) == Padded(market.input_partition)

\* Variant: every market's ids start at the same place.
SharedTradeIds(market) == 1

FirstTradeId(market) == (market.market_id * Namespace + 1) % TradeIds

HasTradeIds(market) == market.market_id <= (TradeIds - 2) \div Namespace

-----------------------------------------------------------------------------
(* main.                                                                   *)

ParsingEnds ==
  /\ main.stage = "parsing"
  /\ \/ /\ phase = "ready"
        /\ main' = [main EXCEPT !.stage = "spawning"]
        /\ UNCHANGED exit
     \/ /\ phase \in {"help", "refused"}
        /\ main' = [main EXCEPT !.stage = "exited"]
        /\ exit' = IF phase = "help" THEN "success" ELSE "failure"
  /\ UNCHANGED <<workers, stop, errors>>

Spawn ==
  /\ main.stage = "spawning"
  /\ Len(workers) < Len(config.markets)
  /\ workers' = Append(workers, Thread("starting"))
  /\ UNCHANGED <<main, stop, errors, exit>>

\* No thread can be had: the exception leaves the block, and the destructors
\* of the threads there are join them.  They are not told to stop.
SpawnFails ==
  /\ main.stage = "spawning"
  /\ Len(workers) < Len(config.markets)
  /\ main' = [main EXCEPT !.stage = "unwinding"]
  /\ UNCHANGED <<workers, stop, errors, exit>>

AllSpawned ==
  /\ main.stage = "spawning"
  /\ Len(workers) = Len(config.markets)
  /\ main' = [main EXCEPT !.stage = "joining"]
  /\ UNCHANGED <<workers, stop, errors, exit>>

\* Variant: threads are not waited for.
JoinWithoutWaiting ==
  /\ main.stage \in {"joining", "unwinding"}
  /\ main.joined < Len(workers)
  /\ main' = [main EXCEPT !.joined = @ + 1]
  /\ UNCHANGED <<workers, stop, errors, exit>>

Join ==
  /\ main.stage \in {"joining", "unwinding"}
  /\ main.joined < Len(workers)
  /\ workers[main.joined + 1].at = "ended"
  /\ main' = [main EXCEPT !.joined = @ + 1]
  /\ UNCHANGED <<workers, stop, errors, exit>>

Return ==
  /\ main.stage \in {"joining", "unwinding"}
  /\ main.joined = Len(workers)
  /\ main' = [main EXCEPT !.stage = "exited"]
  /\ exit' = IF main.stage = "unwinding" \/ errors # {} THEN "failure" ELSE "success"
  /\ UNCHANGED <<workers, stop, errors>>

-----------------------------------------------------------------------------
(* run_engine_partition_worker, on thread w.                               *)

Advance(w, from, to) ==
  /\ workers[w].at = from
  /\ workers' = [workers EXCEPT ![w].at = to]
  /\ UNCHANGED <<main, stop, errors, exit>>

Construct(w) ==
  /\ workers[w].at = "starting"
  /\ HasTradeIds(config.markets[w])
  /\ workers' = [workers EXCEPT ![w].at = "recovering",
                                ![w].firstTradeId = FirstTradeId(config.markets[w])]
  /\ UNCHANGED <<main, stop, errors, exit>>

\* Recovery and the startup scan do not look at the stop flag.
Recover(w) == Advance(w, "recovering", "scanning")
Scan(w) == Advance(w, "scanning", "looping")

MayPoll(w) == ~stop /\ (config.limit # None => workers[w].polls < config.limit)

\* Without a limit the polls are not counted.
LookAtFlag(w) ==
  /\ workers[w].at = "looping"
  /\ workers' = IF MayPoll(w)
                THEN [workers EXCEPT ![w].at = "polling",
                                     ![w].polls = IF config.limit = None THEN @ ELSE @ + 1]
                ELSE [workers EXCEPT ![w].at = "ended"]
  /\ UNCHANGED <<main, stop, errors, exit>>

\* poll_once, which may come after another worker has set the flag.
Poll(w) ==
  /\ workers[w].at = "polling"
  /\ workers' = [workers EXCEPT ![w].at = "looping"]
  /\ UNCHANGED <<main, stop, errors, exit>>

\* Any step may throw; construction does for a market without trade ids.
Throw(w) ==
  /\ workers[w].at \in Started \ {"looping"}
  /\ errors' = errors \cup {w}
  /\ workers' = [workers EXCEPT ![w].at = "failed"]
  /\ UNCHANGED <<main, stop, exit>>

\* Variant: the error is noted and nobody told.
StopNobody(w) ==
  /\ workers[w].at = "failed"
  /\ workers' = [workers EXCEPT ![w].at = "ended"]
  /\ UNCHANGED <<main, stop, errors, exit>>

RequestStop(w) ==
  /\ workers[w].at = "failed"
  /\ stop' = TRUE
  /\ workers' = [workers EXCEPT ![w].at = "ended"]
  /\ UNCHANGED <<main, errors, exit>>

Worker(w) ==
  \/ Construct(w) \/ Recover(w) \/ Scan(w) \/ LookAtFlag(w) \/ Poll(w)
  \/ Throw(w) \/ RequestStop(w)

Main == ParsingEnds \/ Spawn \/ SpawnFails \/ AllSpawned \/ Join \/ Return

-----------------------------------------------------------------------------
Init ==
  /\ ParseInit
  /\ main = [stage |-> "parsing", joined |-> 0]
  /\ workers = <<>>
  /\ stop = FALSE
  /\ errors = {}
  /\ exit = None

Next ==
  \/ Parse /\ UNCHANGED app
  \/ (Main \/ \E w \in DOMAIN workers : Worker(w)) /\ UNCHANGED parsing

\* Every thread is scheduled; a step of a worker ends or throws.
Fairness ==
  /\ WF_vars(Main /\ UNCHANGED parsing)
  /\ \A w \in 1 .. MaxLines :
       WF_vars(w \in DOMAIN workers /\ Worker(w) /\ UNCHANGED parsing)

Spec == Init /\ [][Next]_vars /\ Fairness

-----------------------------------------------------------------------------
(* Properties.                                                             *)

\* Two workers of one process never share an input partition, a checkpoint
\* scope, a market or a trade id.
WorkersApart ==
  \A v, w \in DOMAIN workers : v # w =>
    LET one == config.markets[v]
        two == config.markets[w]
    IN  /\ one.market_id # two.market_id
        /\ one.input_partition # two.input_partition
        /\ CheckpointScope(one) # CheckpointScope(two)
        /\ workers[v].firstTradeId # 0 /\ workers[w].firstTradeId # 0 =>
             {workers[v].firstTradeId + i : i \in 0 .. Namespace - 1}
               \cap {workers[w].firstTradeId + i : i \in 0 .. Namespace - 1} = {}

\* The process reports success only when every market was polled as often as
\* was asked for and no worker failed, at whatever moment one might.
SuccessIsComplete ==
  exit = "success" /\ phase = "ready" =>
    /\ errors = {}
    /\ Len(workers) = Len(config.markets)
    /\ \A w \in DOMAIN workers : workers[w].at = "ended" /\ workers[w].polls = config.limit

\* A failed worker ends the process, with all its other workers, and so does
\* the poll limit.  A process that could not start all its threads is in the
\* same way ended by a failure or a limit, and by nothing else.
FailureEndsApp ==
  (errors # {} \/ (workers # <<>> /\ config.limit # None)) ~> main.stage = "exited"
=============================================================================
