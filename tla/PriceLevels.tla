----------------------------- MODULE PriceLevels -----------------------------
(***************************************************************************)
(* What one side of the book promises, without saying how: an order joins  *)
(* the back of the queue at its price, a fill takes from the front of the  *)
(* queue at the best price, a removal leaves the others in their order.    *)
(***************************************************************************)
EXTENDS Integers, Sequences, OrderList

CONSTANTS Orders, Prices, MaxQuantity

VARIABLES
  side,       \* "Buy" or "Sell"
  queue,      \* queue[price]: the order ids at that price, front first
  remaining   \* remaining[o]: lots on offer; 0 when o does not rest

vars == <<side, queue, remaining>>

ActivePrices == {p \in Prices : queue[p] # <<>>}

IsBest(p) ==
  /\ p \in ActivePrices
  /\ \A q \in ActivePrices : IF side = "Buy" THEN q <= p ELSE q >= p

Insert(o, p, lots) ==
  /\ remaining[o] = 0
  /\ queue' = [queue EXCEPT ![p] = Append(@, o)]
  /\ remaining' = [remaining EXCEPT ![o] = lots]
  /\ UNCHANGED side

Fill(p, lots) ==
  LET o == Head(queue[p])
  IN  /\ IsBest(p)
      /\ lots <= remaining[o]
      /\ remaining' = [remaining EXCEPT ![o] = @ - lots]
      /\ queue' = IF lots = remaining[o]
                  THEN [queue EXCEPT ![p] = Unlink(@, o)] ELSE queue
      /\ UNCHANGED side

Remove(o, p) ==
  /\ \E i \in 1 .. Len(queue[p]) : queue[p][i] = o
  /\ queue' = [queue EXCEPT ![p] = Unlink(@, o)]
  /\ remaining' = [remaining EXCEPT ![o] = 0]
  /\ UNCHANGED side

Init ==
  /\ side \in {"Buy", "Sell"}
  /\ queue = [p \in Prices |-> <<>>]
  /\ remaining = [o \in Orders |-> 0]

Next ==
  \/ \E o \in Orders, p \in Prices, lots \in 1 .. MaxQuantity : Insert(o, p, lots)
  \/ \E p \in Prices, lots \in 1 .. MaxQuantity : Fill(p, lots)
  \/ \E o \in Orders, p \in Prices : Remove(o, p)

Spec == Init /\ [][Next]_vars
=============================================================================
