------------------------------ MODULE Publication ------------------------------
(***************************************************************************)
(* What the worker needs of publishing the output of one input: it reads   *)
(* the verdict "published" only when every record is in the topics, and a  *)
(* verdict "failed", or a crash, says nothing of what is there.            *)
(***************************************************************************)
EXTENDS Integers, Sequences

CONSTANT MaxRecords   \* bound: records of one result

VARIABLES
  sizes,     \* the number of output records of each result
  verdicts,  \* "open", "published" or "failed", for each result
  visible    \* the records in the topics, each <<result, index>>

vars == <<sizes, verdicts, visible>>

Records(b) == {<<b, i>> : i \in 1 .. sizes[b]}

Init ==
  /\ sizes = <<>>
  /\ verdicts = <<>>
  /\ visible = {}

Begin ==
  /\ \E n \in 0 .. MaxRecords : sizes' = Append(sizes, n)
  /\ verdicts' = Append(verdicts, "open")
  /\ UNCHANGED visible

Show ==
  \E b \in 1 .. Len(sizes) : \E r \in Records(b) :
    /\ verdicts[b] # "published"
    /\ visible' = visible \cup {r}
    /\ UNCHANGED <<sizes, verdicts>>

Decide ==
  \E b \in 1 .. Len(sizes) : \E verdict \in {"published", "failed"} :
    /\ verdicts[b] = "open"
    /\ verdict = "published" => Records(b) \subseteq visible
    /\ verdicts' = [verdicts EXCEPT ![b] = verdict]
    /\ UNCHANGED <<sizes, visible>>

Next == Begin \/ Show \/ Decide

Spec == Init /\ [][Next]_vars
=============================================================================
