------------------------------ MODULE OrderList ------------------------------
(***************************************************************************)
(* The doubly linked list of a PriceLevel, as the sequence of its order    *)
(* ids from head to tail.  push_back is Append and front is Head.          *)
(***************************************************************************)
LOCAL INSTANCE Integers
LOCAL INSTANCE Sequences

Position(q, o) == CHOOSE i \in 1 .. Len(q) : q[i] = o
\* Variant: the head is unlinked, wherever the order stands.
UnlinkHead(q, o) == Tail(q)

\* The pointer surgery of SideBook::remove_order.
Unlink(q, o) ==
  [i \in 1 .. Len(q) - 1 |-> IF i < Position(q, o) THEN q[i] ELSE q[i + 1]]

\* The list q holds every element of S once and nothing else.
IsListOf(q, S) ==
  /\ \A i \in 1 .. Len(q) : q[i] \in S
  /\ \A i, j \in 1 .. Len(q) : q[i] = q[j] => i = j
  /\ \A o \in S : \E i \in 1 .. Len(q) : q[i] = o
=============================================================================
