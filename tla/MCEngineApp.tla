------------------------------ MODULE MCEngineApp ------------------------------
(***************************************************************************)
(* Markets files of up to two sections and a comment, the keys of a        *)
(* section in one order but any of them twice.  What follows a file is     *)
(* checked for one file of each kind: one market, two, and two of which    *)
(* one has no trade ids.                                                   *)
(***************************************************************************)
EXTENDS EngineApp

CONSTANTS name1, name2

McPartitions == {-1, 0, 2}

KeyOrder == <<"market_id", "market_name", "input_partition", "symbol">>

\* A key comes after those before it in KeyOrder, or once more.
InOrder(line) ==
  line.kind = "pair" =>
    \A i \in 2 .. 4 :
      KeyOrder[i] = line.key => file.current = None \/ file.current[KeyOrder[i - 1]] # None

Written(line) ==
  /\ InOrder(line)
  /\ line.kind = "comment" => Len(lines) < 2

Market(id, name, partition) ==
  [market_id |-> id, market_name |-> name, input_partition |-> partition, symbol |-> "valid"]

Chosen ==
  /\ Len(lines) = 5 * Cardinality(Headers(lines))
  /\ config.markets \in {<<Market(1, name2, 2)>>,
                         <<Market(1, name1, 0), Market(2, name2, 2)>>,
                         <<Market(2, name1, 0), Market(3, name2, 2)>>}

McNext ==
  /\ Next
  /\ phase = "file" /\ lines' # lines => Written(Last(lines'))
  /\ phase = "environment" /\ phase' = "file" => config'.limit = None
  /\ phase = "arguments" /\ lines # <<>> => Chosen
  /\ phase = "arguments" /\ phase' = "file" => arguments'.taken = 1 /\ Len(lines) < 10

McSpec == Init /\ [][McNext]_vars /\ Fairness
=============================================================================
