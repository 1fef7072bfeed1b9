-------------------------- MODULE MCCheckpointStores --------------------------
(* Sections of the two stores for model checking.                          *)
EXTENDS CheckpointStores, MCFileCheckpointStore

McS3States ==
  {[EmptySections EXCEPT !["symbols"] = {1, 2}, !["metadata"] = {2, 3}],
   [EmptySections EXCEPT !["positions"] = {1}]}
=============================================================================
