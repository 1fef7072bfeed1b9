--------------------------- MODULE MCAccountRuntime ---------------------------
(***************************************************************************)
(* Three accounts, four order ids and two price levels a factor of two     *)
(* apart, so that a move of the mark wipes out a margin of a fifth.        *)
(***************************************************************************)
EXTENDS AccountRuntime

Place(orderId, user, side, price, quantity, canRest, reduceOnly, reserved) ==
  [orderId |-> orderId, user |-> user, side |-> side, price |-> price,
   quantity |-> quantity, canRest |-> canRest, reduceOnly |-> reduceOnly,
   reserved |-> reserved, leverage |-> 5]

\* Reservations that do not divide evenly, partial fills, an order that may
\* not rest, reduce-only orders larger than the position, users who meet their
\* own orders, a position that is liquidatable from the start, two bids for one
\* liquidation to meet, and one of them that it turns from short to long.
McPlaces ==
  {Place(1, 1, "Long", 20, 2, TRUE, FALSE, 9),
   [Place(1, 1, "Long", 20, 2, TRUE, FALSE, 2) EXCEPT !.leverage = 20],
   Place(2, 2, "Short", 20, 1, TRUE, FALSE, 4),
   Place(2, 2, "Short", 10, 2, TRUE, FALSE, 5),
   Place(3, 3, "Long", 10, 2, TRUE, FALSE, 5),
   Place(3, 3, "Long", 10, 1, TRUE, FALSE, 2),
   Place(3, 3, "Short", 20, 2, FALSE, FALSE, 9),
   Place(4, 1, "Short", 10, 3, TRUE, TRUE, 5),
   Place(4, 2, "Long", 10, 3, TRUE, FALSE, 0)}

\* Positions whose margin is their maintenance margin from the start, and bids
\* that come one after the other.
McThinPlaces ==
  {[Place(1, 1, "Long", 20, 2, TRUE, FALSE, 2) EXCEPT !.leverage = 20],
   Place(2, 2, "Short", 20, 2, TRUE, FALSE, 8),
   [Place(3, 3, "Long", 20, 1, TRUE, FALSE, 1) EXCEPT !.leverage = 20],
   Place(4, 3, "Long", 20, 1, TRUE, FALSE, 4)}

\* Two liquidations, of a part at a price of the request's and of the whole at
\* the engine's; each may be requested again under its id.
McLiquidations ==
  {[id |-> 1, user |-> 1, side |-> "Long", quantity |-> 1, price |-> 10],
   [id |-> 2, user |-> 1, side |-> "Long", quantity |-> 0, price |-> 0]}

McRates == {[interval |-> 1, rate |-> 4]}
=============================================================================
