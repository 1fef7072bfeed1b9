---------------------------- MODULE EngineAppConfig ----------------------------
(***************************************************************************)
(* parse_engine_app_config: the environment first, then the arguments one  *)
(* by one, each overriding what came before, and the markets file line by  *)
(* line wherever one is named.  The first error ends the parse.            *)
(*                                                                         *)
(* Strings that are only copied (servers, paths, credentials) stand for    *)
(* one argument "string"; the fourteen integer and Boolean fields of a     *)
(* market's SymbolConfig are one key, "symbol", whose value                *)
(* validate_loaded_market accepts or not.                                  *)
(***************************************************************************)
EXTENDS Integers, SequencesExt

CONSTANTS
  MarketIds, Names, Partitions,   \* the values a file may give: integers, names
  MaxSymbolId,                    \* numeric_limits<SymbolId>::max()
  PollLimits,                     \* the positive limits that may be asked for
  MaxArguments, MaxLines,         \* bounds
  None                            \* an empty optional

ASSUME ConfigAssumption ==
  /\ MarketIds \subseteq Int /\ Partitions \subseteq Int
  /\ MaxSymbolId \in Nat
  /\ PollLimits \subseteq Nat \ {0}
  /\ None \notin PollLimits \cup {1}

Keys == {"market_id", "market_name", "input_partition", "symbol"}

\* What assign_market_key accepts as the value of a key.
Values(key) ==
  CASE key = "market_id" -> MarketIds
    [] key = "market_name" -> Names
    [] key = "input_partition" -> Partitions
    [] key = "symbol" -> {"valid", "invalid"}

\* None is neither a value nor a section.
ASSUME NoneAssumption ==
  /\ \A k \in Keys : None \notin Values(k)
  /\ None \notin [Keys -> Int \cup Names \cup {"valid", "invalid", None}]

Pairs == UNION {[kind : {"pair"}, key : {k}, value : Values(k)] : k \in Keys}

\* A malformed line has no '=', a blank key or value, an unknown key or a value
\* that does not parse.
Lines == {[kind |-> "comment"], [kind |-> "section"], [kind |-> "malformed"]} \cup Pairs

Arguments ==
  {[option |-> "help"], [option |-> "once"], [option |-> "string"],
   [option |-> "markets"], [option |-> "invalid"]}
    \cup [option : {"limit"}, limit : PollLimits]

VARIABLES
  phase,       \* "environment", "arguments", "file", "ready", "help" or "refused"
  config,      \* EngineAppConfig: [markets, limit, once]
  arguments,   \* how many arguments have been taken, and whether one was --help
  file,        \* load_markets_config_file's locals, with the phase it returns to
  lines        \* history: the lines read of the last file

parsing == <<phase, config, arguments, file, lines>>

EmptyBuilder == [k \in Keys |-> None]

\* default_engine_app_config: one market, which validate_loaded_market accepts.
DefaultMarket == [market_id |-> 1, market_name |-> CHOOSE n \in Names : TRUE,
                  input_partition |-> 0, symbol |-> "valid"]

-----------------------------------------------------------------------------
(* load_markets_config_file.                                               *)

OpenFile ==
  /\ file' = [current |-> None, markets |-> <<>>, from |-> phase]
  /\ lines' = <<>>
  /\ phase' = "file"

Refuse == phase' = "refused" /\ UNCHANGED <<config, arguments, file>>

\* build_market_config with validate_loaded_market and symbol_id_from_market_id.
Builds(builder) ==
  /\ \A k \in Keys : builder[k] # None
  /\ builder["market_id"] \in 1 .. MaxSymbolId
  /\ builder["input_partition"] >= 0
  /\ builder["symbol"] = "valid"

\* Variant: markets are not compared with each other.
AppendsAnyway(builder, markets) == Builds(builder)

\* append_market_config: ids, names and partitions are taken once.
Appends(builder, markets) ==
  /\ Builds(builder)
  /\ \A i \in DOMAIN markets : \A k \in Keys \ {"symbol"} : markets[i][k] # builder[k]

Comment(line) ==
  /\ line.kind = "comment"
  /\ UNCHANGED <<phase, config, arguments, file>>

\* A section header ends the market before it and starts a new one.
Section(line) ==
  /\ line.kind = "section"
  /\ IF file.current = None
     THEN /\ file' = [file EXCEPT !.current = EmptyBuilder]
          /\ UNCHANGED <<phase, config, arguments>>
     ELSE IF Appends(file.current, file.markets)
     THEN /\ file' = [file EXCEPT !.current = EmptyBuilder,
                                  !.markets = Append(@, file.current)]
          /\ UNCHANGED <<phase, config, arguments>>
     ELSE Refuse

\* A key is assigned at most once in its section.
Pair(line) ==
  /\ line.kind = "pair"
  /\ IF file.current # None /\ file.current[line.key] = None
     THEN /\ file' = [file EXCEPT !.current[line.key] = line.value]
          /\ UNCHANGED <<phase, config, arguments>>
     ELSE Refuse

ReadLine(line) ==
  /\ phase = "file"
  /\ Len(lines) < MaxLines
  /\ lines' = Append(lines, line)
  /\ \/ Comment(line) \/ Section(line) \/ Pair(line)
     \/ line.kind = "malformed" /\ Refuse

\* The last section is ended by the end of the file.
Loaded == file.markets \o (IF file.current = None THEN <<>> ELSE <<file.current>>)

EndOfFile ==
  /\ phase = "file"
  /\ IF (file.current # None => Appends(file.current, file.markets)) /\ Loaded # <<>>
     THEN /\ config' = [config EXCEPT !.markets = Loaded]
          /\ phase' = file.from
          /\ UNCHANGED <<arguments, file>>
     ELSE Refuse
  /\ UNCHANGED lines

CannotOpen == Refuse /\ UNCHANGED lines

-----------------------------------------------------------------------------
(* apply_environment, whose last variable names the markets file, and the   *)
(* loop over the arguments.                                                *)

Environment ==
  /\ phase = "environment"
  /\ \/ Refuse /\ UNCHANGED lines
     \/ \E limit \in PollLimits \cup {None} :
          /\ config' = [config EXCEPT !.limit = limit]
          /\ \/ phase' = "arguments" /\ UNCHANGED <<file, lines>>
             \/ /\ file' = [current |-> None, markets |-> <<>>, from |-> "arguments"]
                /\ lines' = <<>> /\ phase' = "file"
          /\ UNCHANGED arguments

SetLimit(limit) == config' = [config EXCEPT !.limit = limit, !.once = limit = 1]

Argument(a) ==
  /\ phase = "arguments"
  /\ arguments.taken < MaxArguments
  /\ CASE a.option = "markets" ->
            \/ /\ OpenFile
               /\ arguments' = [arguments EXCEPT !.taken = @ + 1]
               /\ UNCHANGED config
            \/ CannotOpen
       [] a.option = "invalid" -> Refuse /\ UNCHANGED lines
       [] OTHER ->
            /\ arguments' = [taken |-> arguments.taken + 1,
                             help |-> arguments.help \/ a.option = "help"]
            /\ CASE a.option = "once" -> config' = [config EXCEPT !.once = TRUE, !.limit = 1]
                 [] a.option = "limit" -> SetLimit(a.limit)
                 [] OTHER -> UNCHANGED config
            /\ UNCHANGED <<phase, file, lines>>

EndOfArguments ==
  /\ phase = "arguments"
  /\ phase' = IF arguments.help THEN "help" ELSE "ready"
  /\ UNCHANGED <<config, arguments, file, lines>>

-----------------------------------------------------------------------------
ParseInit ==
  /\ phase = "environment"
  /\ config = [markets |-> <<DefaultMarket>>, limit |-> None, once |-> FALSE]
  /\ arguments = [taken |-> 0, help |-> FALSE]
  /\ file = [current |-> None, markets |-> <<>>, from |-> "environment"]
  /\ lines = <<>>

Parse ==
  \/ Environment
  \/ \E a \in Arguments : Argument(a)
  \/ \E line \in Lines : ReadLine(line)
  \/ EndOfFile
  \/ EndOfArguments

-----------------------------------------------------------------------------
(* Properties.                                                             *)

\* The markets file as it is documented: sections of keys, each key once, with
\* no two markets alike in id, name or partition.
Headers(text) == {i \in DOMAIN text : text[i].kind = "section"}

SectionOf(text, i) == {j \in DOMAIN text : j > i /\ \A h \in Headers(text) : h > i => j < h}

Assignments(text, i, key) ==
  {j \in SectionOf(text, i) : text[j].kind = "pair" /\ text[j].key = key}

ValueIn(text, i, key) == text[CHOOSE j \in Assignments(text, i, key) : TRUE].value

WellFormed(text) ==
  /\ Headers(text) # {}
  /\ \A j \in DOMAIN text : text[j].kind # "malformed"
  /\ \A j \in DOMAIN text : text[j].kind = "pair" => \E h \in Headers(text) : h < j
  /\ \A i \in Headers(text), k \in Keys : \E j \in DOMAIN text : Assignments(text, i, k) = {j}
  /\ \A i \in Headers(text) :
       /\ ValueIn(text, i, "market_id") > 0 /\ ValueIn(text, i, "market_id") <= MaxSymbolId
       /\ ValueIn(text, i, "input_partition") >= 0
       /\ ValueIn(text, i, "symbol") = "valid"
       /\ \A h \in Headers(text) \ {i} : \A k \in Keys \ {"symbol"} :
            ValueIn(text, i, k) # ValueIn(text, h, k)

MarketAt(text, i) == [k \in Keys |-> ValueIn(text, i, k)]

\* What a parse that stops judges: at a header, the sections before it.
Judged == IF lines' # lines /\ Last(lines').kind = "section" THEN lines ELSE lines'

\* A markets file is loaded as it is written, the last section included, or the
\* parse is refused: whichever line it stops at, what it judges is refused only
\* if it is not well-formed and loaded only if it is.
MarketsAsWritten ==
  [][phase = "file" /\ phase' # "file" =>
       \A text \in {Judged} :
         IF phase' = "refused" THEN ~WellFormed(text)
         ELSE /\ WellFormed(text)
              /\ ToSet(config'.markets) = {MarketAt(text, i) : i \in Headers(text)}
              /\ Len(config'.markets) = Cardinality(Headers(text))]_parsing
=============================================================================
