------------------------ MODULE MCFileCheckpointStore ------------------------
(***************************************************************************)
(* Two runtime states: orders with and without metadata, and sections with *)
(* one entry, several and none.                                            *)
(***************************************************************************)
EXTENDS FileCheckpointStore

McBusy ==
  [EmptySections EXCEPT !["symbols"] = {1, 2}, !["idempotency"] = {1},
                        !["positions"] = {1}, !["metadata"] = {2, 3}]

McQuiet ==
  [EmptySections EXCEPT !["processed_input_ids"] = {1}, !["risk_states"] = {2}]

McStates == {McBusy, McQuiet}

McLegacy ==
  {Checkpoint(1, [EmptySections EXCEPT !["symbols"] = {1}, !["metadata"] = {1}])}
=============================================================================
