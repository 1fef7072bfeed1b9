---------------------------- MODULE MCEngineWorker ----------------------------
(***************************************************************************)
(* Two instances of EngineWorker in one.  A behaviour of McSpec meets      *)
(* either repeated keys, records the worker refuses and two faults on a    *)
(* log the broker keeps, or startup liquidations and a log that retention  *)
(* shortens.                                                               *)
(***************************************************************************)
EXTENDS EngineWorker

CONSTANT OnlyKey    \* the one key of the "retention" behaviours

ASSUME OnlyKeyAssumption == OnlyKey \in Keys

VARIABLE setting    \* "recovery" or "retention"

Records ==
  IF setting = "recovery"
  THEN {r \in Record : r.kind # "liquidation"}
  ELSE {r \in Record : r.kind # "malformed" /\ r.key \in {OnlyKey, NoKey}}

McInit == Init /\ setting \in {"recovery", "retention"}

McNext ==
  /\ \/ \E r \in Records : Produce(r)
     \/ Start
     \/ Worker
     \/ Failing /\ (setting = "retention" => faults' <= 1)
     \/ setting = "retention" /\ DeleteOldest
  /\ UNCHANGED setting

McSpec == McInit /\ [][McNext]_<<vars, setting>> /\ Fairness
=============================================================================
