---------------------------- MODULE MCAccountEvents ----------------------------
(***************************************************************************)
(* AccountEvents on the instance of MCAccountRuntime.  One order may be    *)
(* refused (a refused order takes part in nothing that follows), a funding *)
(* rate comes when there is a position to settle, and a restart when there *)
(* are two orders to restore.                                              *)
(***************************************************************************)
EXTENDS MCAccountRuntime, AccountEvents

CONSTANT RefusedId

Refused == processed' # processed /\ pc' = "idle"

McNext ==
  /\ AnnouncedNext
  /\ Refused => RefusedId \in processed' \ processed
  /\ funding' # funding => \E u \in Users : positions[u].quantity # 0
  /\ restarts' # restarts => Cardinality(processed) > 1

McSpec ==
  /\ AnnouncedInit /\ [][McNext]_<<vars, announced>>
  /\ WF_vars(Loop)
=============================================================================
