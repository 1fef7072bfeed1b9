--------------------------- MODULE MCMatchingEngine ---------------------------
(***************************************************************************)
(* Small instances of MatchingEngine.  The orders of an instance carry     *)
(* their own command and client ids; McReusedPlaces adds commands that     *)
(* share ids with others.  A behaviour of McSpec draws its commands from   *)
(* one of two workloads: every kind of order in one process lifetime, or   *)
(* deep books with reused ids and rebuilds.                                *)
(***************************************************************************)
EXTENDS MatchingEngine

VARIABLE workload   \* "kinds" or "reuse"

Place(command, client, order, user, side, type, tif, price, quantity) ==
  [commandId |-> command, clientOrderId |-> client, orderId |-> order,
   userId |-> user, symbolId |-> Listed, side |-> side, orderType |-> type,
   timeInForce |-> tif, price |-> price, quantity |-> quantity]

Cancel(command, client, order, user, symbol) ==
  [commandId |-> command, clientOrderId |-> client, orderId |-> order,
   userId |-> user, symbolId |-> symbol]

McMaxPrice == 2
McMaxQuantity == 2

\* Two limit orders of either side, and a third order of every kind.
McKinds ==
  {<<"Limit", tif, p>> : tif \in {"GTC", "IOC", "FOK", "PO"}, p \in 1 .. McMaxPrice}
    \cup {<<"Market", "IOC", 0>>, <<"Market", "FOK", 0>>}

McPlaces ==
  {Place(o, o, o, 1, s, "Limit", "GTC", p, q) :
     o \in {1, 2}, s \in Sides, p \in 1 .. McMaxPrice, q \in 1 .. McMaxQuantity}
    \cup {Place(3, 3, 3, 1, s, k[1], k[2], k[3], q) :
            s \in Sides, k \in McKinds, q \in 1 .. McMaxQuantity}

McCancels == {Cancel(11, 1, 1, 1, Listed)}

\* Deeper books: four orders, the bids at one price or the other.
McDeepPlaces ==
  {Place(o, o, o, 1, "Buy", "Limit", "GTC", p, 1) : o \in 1 .. 3, p \in 1 .. McMaxPrice}
    \cup {Place(o, o, o, 1, "Sell", "Limit", "GTC", 1, 2) : o \in 2 .. 4}

\* Commands that take an id from another: a command, an order or a client id
\* that comes again, another user, malformed orders, an unknown symbol.
McReusedPlaces ==
  McDeepPlaces \cup
  {Place(1, 3, 3, 1, "Buy", "Limit", "GTC", 1, 1),
   Place(5, 1, 4, 1, "Sell", "Limit", "GTC", 1, 1),
   Place(5, 2, 1, 1, "Sell", "Limit", "GTC", 1, 1),
   [Place(5, 4, 4, 2, "Buy", "Limit", "GTC", 1, 1) EXCEPT !.symbolId = "other"],
   Place(5, 4, 4, 2, "Buy", "Limit", "GTC", McMaxPrice + 1, 1),
   Place(5, 4, 4, 2, "Buy", "Limit", "GTC", 1, McMaxQuantity + 1)}

McReusedCancels ==
  {Cancel(12, 1, 2, 1, Listed), Cancel(13, 3, 0, 1, Listed), Cancel(13, 1, 3, 2, Listed),
   Cancel(13, 1, 1, 1, "other")}

McAllPlaces == McPlaces \cup McReusedPlaces
McAllCancels == McCancels \cup McReusedCancels

-----------------------------------------------------------------------------
McInit == Init /\ workload \in {"kinds", "reuse"}

Kinds ==
  \/ \E c \in McPlaces : RejectPlace(c) \/ AcceptPlace(c)
  \/ \E c \in McCancels : RejectCancel(c) \/ CancelOrder(c)

Reuse ==
  \/ \E c \in McReusedPlaces : DuplicateCommand(c) \/ RejectPlace(c) \/ AcceptPlace(c)
  \/ \E c \in McReusedCancels : DuplicateCommand(c) \/ RejectCancel(c) \/ CancelOrder(c)
  \/ BeginRestore

\* A step of Spec, with commands of the chosen workload only.
McNext ==
  /\ \/ workload = "kinds" /\ Kinds
     \/ workload = "reuse" /\ Reuse
     \/ Loop
  /\ UNCHANGED workload

McSpec == McInit /\ [][McNext]_<<vars, workload>> /\ WF_vars(Loop)

\* Priority: the order a match takes is the best-priced, through every rebuild as
\* well, and in a process lifetime without one the earliest accepted at its price.
PriorityWithoutRestore ==
  [][TradesAtBestPrice /\ (workload = "kinds" => TradesInPriority)]_vars
=============================================================================
