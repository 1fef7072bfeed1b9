---------------------------- MODULE MatchingEngine ----------------------------
(***************************************************************************)
(* EngineCore with the OrderBook of the one market a worker owns: command  *)
(* idempotency, validation, price-time matching, resting, cancelling, and  *)
(* rebuilding the book from a snapshot.                                    *)
(*                                                                         *)
(* A book is, per side and price, the FIFO of resting order ids (the       *)
(* linked list of a PriceLevel); SideBook.tla models how the levels are    *)
(* stored, how their totals are kept and how the best one is found.  The   *)
(* two loops of the code, match_incoming_order and EngineCore::restore,    *)
(* take one step per iteration; `pc` keeps every other command out while   *)
(* one of them runs, as the single thread of a worker does.  Events are    *)
(* abstracted to the sequence numbers they consume.                        *)
(***************************************************************************)
EXTENDS Integers, Sequences, FiniteSetsExt, OrderList

CONSTANTS
  OrderIds, ClientIds, Users, CommandIds, SymbolIds,
  Listed,           \* the symbol add_symbol was called with
  MaxPrice,         \* SymbolConfig::maxPrice
  MaxQuantity,      \* SymbolConfig::maxQuantity
  PlaceCommands,    \* the place and cancel commands clients may send
  CancelCommands,
  MaxSequence,      \* bound: command ids are not reused past this sequence
  NoOrder           \* a null Order*

Sides == {"Buy", "Sell"}
Prices == 1 .. MaxPrice

PlaceCommand ==
  [commandId : CommandIds, clientOrderId : ClientIds, orderId : OrderIds,
   userId : Users, symbolId : SymbolIds, side : Sides,
   orderType : {"Limit", "Market"}, timeInForce : {"GTC", "IOC", "FOK", "PO"},
   price : Nat, quantity : Nat]

CancelCommand ==
  [commandId : CommandIds, clientOrderId : ClientIds,
   orderId : OrderIds \cup {0}, userId : Users, symbolId : SymbolIds]

Order ==
  [clientOrderId : ClientIds, userId : Users, side : Sides, price : Prices,
   originalQuantity : Nat, remainingQuantity : Nat \ {0},
   sequenceAccepted : Nat]

ASSUME ConstantsAssumption ==
  /\ OrderIds \subseteq Nat \ {0} /\ IsFiniteSet(OrderIds)
  /\ MaxPrice \in Nat \ {0}
  /\ MaxQuantity \in Nat \ {0}
  /\ MaxSequence \in Nat
  /\ Listed \in SymbolIds
  /\ PlaceCommands \subseteq PlaceCommand
  /\ CancelCommands \subseteq CancelCommand
  /\ NoOrder \notin Order

VARIABLES
  tradingEnabled,          \* SymbolConfig::tradingEnabled
  orderById,               \* OrderBook::orderById
  queue,                   \* queue[side][price]: the level's order ids, head first
  clientOrderIdToOrderId,  \* the book's map; 0 is "absent"
  idempotency,             \* IdempotencyIndex
  seqGen,                  \* SequenceGenerator
  pc,                      \* "idle", "matching" or "restoring"
  incoming,                \* the order match_incoming_order is working on
  snapshot,                \* the OrderBookSnapshot being restored
  placed, executed         \* history: accepted quantity and traded quantity per id

book == <<orderById, queue, clientOrderIdToOrderId>>
vars == <<tradingEnabled, book, idempotency, seqGen, pc, incoming, snapshot,
          placed, executed>>

EmptyQueues == [s \in Sides |-> [p \in Prices |-> <<>>]]
NoOrders == [o \in OrderIds |-> NoOrder]
NoClients == [k \in ClientIds |-> 0]
NoIncoming == [orderId |-> 0]
NoSnapshot == [orders |-> NoOrders, clients |-> NoClients]

Resting == {o \in OrderIds : orderById[o] # NoOrder}

-----------------------------------------------------------------------------
(* One side of the book.                                                   *)

IsBetterPrice(s, candidate, current) ==
  IF s = "Buy" THEN candidate > current ELSE candidate < current

ActivePrices(s) == {p \in Prices : queue[s][p] # <<>>}

BestLevel(s) ==
  CHOOSE p \in ActivePrices(s) :
    \A q \in ActivePrices(s) : ~IsBetterPrice(s, q, p)
\* Variant: an ask at exactly the incoming price is not taken.
CrossesStrictly(restingSide, incomingPrice, restingPrice) ==
  IF restingSide = "Sell" THEN incomingPrice > restingPrice
                          ELSE incomingPrice <= restingPrice

CrossesLevel(restingSide, incomingPrice, restingPrice) ==
  IF restingSide = "Sell" THEN incomingPrice >= restingPrice
                          ELSE incomingPrice <= restingPrice

PriceCrosses(s, price) ==
  ActivePrices(s) # {} /\ CrossesLevel(s, price, BestLevel(s))

Opposite(side) == IF side = "Buy" THEN "Sell" ELSE "Buy"

\* What each resting order has left.
RemainingLots == [o \in Resting |-> orderById[o].remainingQuantity]

\* Variant: the fill-or-kill sum does not stop at the first level that no longer crosses.
AvailableLotsAtAnyPrice(s, price) ==
  SumFunctionOnSet(RemainingLots, {o \in Resting : orderById[o].side = s})

\* The resting orders of a side that a price crosses.
CrossingOrders(s, price) ==
  {o \in Resting : /\ orderById[o].side = s
                   /\ CrossesLevel(s, price, orderById[o].price)}

\* What a fill-or-kill order could take from the opposing side.
AvailableCrossingLots(s, price) == SumFunctionOnSet(RemainingLots, CrossingOrders(s, price))

\* Variant: the client id map keeps the entry of an order that is gone.
RemoveKeepingClientId(o) ==
  LET order == orderById[o]
  IN  /\ orderById' = [orderById EXCEPT ![o] = NoOrder]
      /\ UNCHANGED clientOrderIdToOrderId
      /\ queue' = [queue EXCEPT ![order.side][order.price] = Unlink(@, o)]

\* erase from both maps and SideBook::remove_order
RemoveFromBook(o) ==
  LET order == orderById[o]
  IN  /\ orderById' = [orderById EXCEPT ![o] = NoOrder]
      /\ clientOrderIdToOrderId' =
           [clientOrderIdToOrderId EXCEPT ![order.clientOrderId] = 0]
      /\ queue' = [queue EXCEPT ![order.side][order.price] = Unlink(@, o)]
\* Variants: the order rests with its full quantity; it joins the front.
InsertOriginalAsResting(o, order) ==
  /\ orderById' = [orderById EXCEPT
       ![o] = [order EXCEPT !.remainingQuantity = order.originalQuantity]]
  /\ clientOrderIdToOrderId' =
       [clientOrderIdToOrderId EXCEPT ![order.clientOrderId] = o]
  /\ queue' = [queue EXCEPT ![order.side][order.price] = Append(@, o)]

InsertAtFront(o, order) ==
  /\ orderById' = [orderById EXCEPT ![o] = order]
  /\ clientOrderIdToOrderId' =
       [clientOrderIdToOrderId EXCEPT ![order.clientOrderId] = o]
  /\ queue' = [queue EXCEPT ![order.side][order.price] = <<o>> \o @]

InsertRemainingAsResting(o, order) ==
  /\ orderById' = [orderById EXCEPT ![o] = order]
  /\ clientOrderIdToOrderId' =
       [clientOrderIdToOrderId EXCEPT ![order.clientOrderId] = o]
  /\ queue' = [queue EXCEPT ![order.side][order.price] = Append(@, o)]

-----------------------------------------------------------------------------
(* Validation and idempotency.                                             *)

\* Every event takes an event id and a sequence number.
EmitEvents(n) ==
  seqGen' = [seqGen EXCEPT !.nextSequence = @ + n, !.nextEventId = @ + n]

RecordCommand(c) ==
  idempotency' = [idempotency EXCEPT !.commands = @ \cup {c.commandId}]

ValidateQuantity(q) == q \in 1 .. MaxQuantity
ValidatePrice(p) == p \in Prices

ValidatePlaceOrder(c) ==
  /\ c.orderId \notin idempotency.orderIds
  /\ c.clientOrderId \notin idempotency.clients
  /\ tradingEnabled
  /\ ValidateQuantity(c.quantity)
  /\ c.orderType = "Limit" => ValidatePrice(c.price)

\* Price::max and Price::min stand outside the valid prices.
MatchingPrice(c) ==
  IF c.orderType = "Limit" THEN c.price
  ELSE IF c.side = "Buy" THEN MaxPrice + 1 ELSE 0

\* The checks process_place makes after validate_place_order has passed.
BookAccepts(c) ==
  /\ c.orderId \notin Resting
  /\ clientOrderIdToOrderId[c.clientOrderId] = 0
  /\ c.timeInForce = "PO" => ~PriceCrosses(Opposite(c.side), c.price)
  /\ c.timeInForce = "FOK" =>
       AvailableCrossingLots(Opposite(c.side), MatchingPrice(c)) >= c.quantity

Accepts(c) ==
  c.symbolId = Listed /\ ValidatePlaceOrder(c) /\ BookAccepts(c)

Accepting == pc = "idle"

-----------------------------------------------------------------------------
(* EngineCore::process, PlaceOrder.                                        *)

\* A command id seen before is answered DuplicateCommand, whatever it holds.
DuplicateCommand(c) ==
  /\ Accepting
  /\ seqGen.nextSequence <= MaxSequence
  /\ c.commandId \in idempotency.commands
  /\ EmitEvents(1)
  /\ UNCHANGED <<tradingEnabled, book, idempotency, pc, incoming, snapshot,
                 placed, executed>>

RejectPlace(c) ==
  /\ Accepting
  /\ c.commandId \notin idempotency.commands
  /\ ~Accepts(c)
  /\ EmitEvents(1)
  /\ RecordCommand(c)
  /\ UNCHANGED <<tradingEnabled, book, pc, incoming, snapshot, placed, executed>>

AcceptPlace(c) ==
  /\ Accepting
  /\ c.commandId \notin idempotency.commands
  /\ Accepts(c)
  /\ EmitEvents(1)
  /\ idempotency' = [commands |-> idempotency.commands \cup {c.commandId},
                     orderIds |-> idempotency.orderIds \cup {c.orderId},
                     clients  |-> idempotency.clients \cup {c.clientOrderId}]
  /\ pc' = "matching"
  /\ incoming' = [orderId |-> c.orderId, command |-> c, remaining |-> c.quantity,
                  sequenceAccepted |-> seqGen.nextSequence]
  /\ placed' = [placed EXCEPT ![c.orderId] = c.quantity]
  /\ UNCHANGED <<tradingEnabled, book, snapshot, executed>>

\* The condition of the while loop and its break.
CanMatch ==
  /\ incoming.remaining # 0
  /\ PriceCrosses(Opposite(incoming.command.side), MatchingPrice(incoming.command))

\* One iteration: trade with the head of the best level, at the maker's price.
\* Four events: the trade, the maker's and the taker's fill, the book delta.
MatchStep ==
  LET s     == Opposite(incoming.command.side)
      maker == Head(queue[s][BestLevel(s)])
      order == orderById[maker]
      fill  == IF incoming.remaining < order.remainingQuantity
               THEN incoming.remaining ELSE order.remainingQuantity
  IN  /\ pc = "matching"
      /\ CanMatch
      /\ incoming' = [incoming EXCEPT !.remaining = @ - fill]
      /\ \/ /\ order.remainingQuantity = fill
            /\ RemoveFromBook(maker)
         \/ /\ order.remainingQuantity # fill
            /\ orderById' = [orderById EXCEPT ![maker].remainingQuantity = @ - fill]
            /\ UNCHANGED <<queue, clientOrderIdToOrderId>>
      /\ seqGen' = [nextSequence |-> seqGen.nextSequence + 4,
                    nextEventId  |-> seqGen.nextEventId + 4,
                    nextTradeId  |-> seqGen.nextTradeId + 1]
      /\ executed' = [executed EXCEPT ![maker] = @ + fill,
                                      ![incoming.orderId] = @ + fill]
      /\ UNCHANGED <<tradingEnabled, idempotency, pc, snapshot, placed>>

CanRest(c) == c.orderType = "Limit" /\ c.timeInForce \in {"GTC", "PO"}

RestRemainder ==
  LET c == incoming.command
  IN  /\ pc = "matching"
      /\ ~CanMatch
      /\ incoming.remaining # 0
      /\ CanRest(c)
      /\ InsertRemainingAsResting(incoming.orderId,
           [clientOrderId |-> c.clientOrderId, userId |-> c.userId,
            side |-> c.side, price |-> c.price, originalQuantity |-> c.quantity,
            remainingQuantity |-> incoming.remaining,
            sequenceAccepted |-> incoming.sequenceAccepted])
      /\ EmitEvents(1)
      /\ pc' = "idle"
      /\ incoming' = NoIncoming
      /\ UNCHANGED <<tradingEnabled, idempotency, snapshot, placed, executed>>

\* Variant: the break for a book with nothing left to match is forgotten.
FinishPlaceFilled ==
  /\ pc = "matching"
  /\ ~CanMatch
  /\ incoming.remaining = 0
  /\ pc' = "idle"
  /\ incoming' = NoIncoming
  /\ UNCHANGED <<tradingEnabled, book, idempotency, seqGen, snapshot, placed, executed>>

\* Filled, or a remainder that may not rest, which is dropped without an event.
FinishPlace ==
  /\ pc = "matching"
  /\ ~CanMatch
  /\ incoming.remaining = 0 \/ ~CanRest(incoming.command)
  /\ pc' = "idle"
  /\ incoming' = NoIncoming
  /\ UNCHANGED <<tradingEnabled, book, idempotency, seqGen, snapshot, placed, executed>>

-----------------------------------------------------------------------------
(* EngineCore::process, CancelOrder.                                       *)

CancelTarget(c) ==
  IF c.orderId = 0 THEN clientOrderIdToOrderId[c.clientOrderId] ELSE c.orderId

Cancellable(c) ==
  /\ c.symbolId = Listed
  /\ CancelTarget(c) \in Resting
  /\ orderById[CancelTarget(c)].userId = c.userId

RejectCancel(c) ==
  /\ Accepting
  /\ c.commandId \notin idempotency.commands
  /\ ~Cancellable(c)
  /\ EmitEvents(1)
  /\ RecordCommand(c)
  /\ UNCHANGED <<tradingEnabled, book, pc, incoming, snapshot, placed, executed>>

CancelOrder(c) ==
  /\ Accepting
  /\ c.commandId \notin idempotency.commands
  /\ Cancellable(c)
  /\ RemoveFromBook(CancelTarget(c))
  /\ EmitEvents(2)
  /\ RecordCommand(c)
  /\ UNCHANGED <<tradingEnabled, pc, incoming, snapshot, placed, executed>>

-----------------------------------------------------------------------------
(* EngineCore::snapshot, then EngineCore::restore in a new process.  The    *)
(* sequence and idempotency states and the symbol configuration come back   *)
(* as they were; the active orders are sorted by id when the snapshot is    *)
(* taken and inserted one by one, in that order, into an empty book.        *)

BeginRestore ==
  /\ Accepting
  /\ snapshot' = [orders |-> orderById, clients |-> clientOrderIdToOrderId]
  /\ orderById' = NoOrders
  /\ queue' = EmptyQueues
  /\ clientOrderIdToOrderId' = NoClients
  /\ pc' = "restoring"
  /\ UNCHANGED <<tradingEnabled, idempotency, seqGen, incoming, placed, executed>>

Unrestored == {o \in OrderIds : snapshot.orders[o] # NoOrder} \ Resting

RestoreOrder ==
  /\ pc = "restoring"
  /\ \E o \in Unrestored :
       /\ \A other \in Unrestored : o <= other
       /\ InsertRemainingAsResting(o, snapshot.orders[o])
  /\ UNCHANGED <<tradingEnabled, idempotency, seqGen, pc, incoming, snapshot,
                 placed, executed>>

EndRestore ==
  /\ pc = "restoring"
  /\ Unrestored = {}
  /\ clientOrderIdToOrderId' = snapshot.clients
  /\ snapshot' = NoSnapshot
  /\ pc' = "idle"
  /\ UNCHANGED <<tradingEnabled, orderById, queue, idempotency, seqGen, incoming,
                 placed, executed>>

-----------------------------------------------------------------------------
Init ==
  /\ tradingEnabled \in BOOLEAN
  /\ orderById = NoOrders
  /\ queue = EmptyQueues
  /\ clientOrderIdToOrderId = NoClients
  /\ idempotency = [commands |-> {}, orderIds |-> {}, clients |-> {}]
  /\ seqGen = [nextSequence |-> 1, nextTradeId |-> 1, nextEventId |-> 1]
  /\ pc = "idle"
  /\ incoming = NoIncoming
  /\ snapshot = NoSnapshot
  /\ placed = [o \in OrderIds |-> 0]
  /\ executed = [o \in OrderIds |-> 0]

\* The client's side: commands arrive, in any order and any number of times.
Command ==
  \/ \E c \in PlaceCommands : DuplicateCommand(c) \/ RejectPlace(c) \/ AcceptPlace(c)
  \/ \E c \in CancelCommands : DuplicateCommand(c) \/ RejectCancel(c) \/ CancelOrder(c)

\* The engine's side: the loops it runs to the end once it has started them.
Loop ==
  \/ MatchStep
  \/ RestRemainder
  \/ FinishPlace
  \/ RestoreOrder
  \/ EndRestore

Next == Command \/ Loop \/ BeginRestore

Spec == Init /\ [][Next]_vars /\ WF_vars(Loop)

-----------------------------------------------------------------------------
(* Properties.                                                             *)

IncomingType ==
  [orderId : OrderIds, command : PlaceCommand, remaining : Nat,
   sequenceAccepted : Nat]

\* The type invariant.
TypeOK ==
  /\ tradingEnabled \in BOOLEAN
  /\ orderById \in [OrderIds -> Order \cup {NoOrder}]
  /\ queue \in [Sides -> [Prices -> Seq(OrderIds)]]
  /\ clientOrderIdToOrderId \in [ClientIds -> OrderIds \cup {0}]
  /\ idempotency \in [commands : SUBSET CommandIds, orderIds : SUBSET OrderIds,
                      clients : SUBSET ClientIds]
  /\ seqGen \in [nextSequence : Nat, nextTradeId : Nat, nextEventId : Nat]
  /\ pc \in {"idle", "matching", "restoring"}
  /\ incoming \in IF pc = "matching" THEN IncomingType ELSE {NoIncoming}
  /\ snapshot \in [orders : [OrderIds -> Order \cup {NoOrder}],
                   clients : [ClientIds -> OrderIds \cup {0}]]
  /\ placed \in [OrderIds -> Nat]
  /\ executed \in [OrderIds -> Nat]

RestingAt(s, p) ==
  {o \in Resting : orderById[o].side = s /\ orderById[o].price = p}

\* orderById and the level lists describe the same book through every fill,
\* cancel and rebuild: each resting order is linked exactly once, in the list
\* of its own side and price, and a list holds nothing else.
ListsMatchOrders ==
  \A s \in Sides : \A p \in Prices : IsListOf(queue[s][p], RestingAt(s, p))

\* The client-id map names exactly the resting orders, each by its own client
\* id, and both kinds of id stay burnt in the idempotency index while their
\* order rests: process_place's own duplicate test can never be what rejects.
ClientIdsMatchOrders ==
  /\ \A o \in Resting :
       /\ clientOrderIdToOrderId[orderById[o].clientOrderId] = o
       /\ o \in idempotency.orderIds
       /\ orderById[o].clientOrderId \in idempotency.clients
  /\ \A k \in ClientIds :
       LET o == clientOrderIdToOrderId[k]
       IN  o # 0 => o \in Resting /\ orderById[o].clientOrderId = k

\* No resting bid meets a resting ask, also in the middle of a match or of a
\* rebuild: whatever crossed has been traded before the remainder rested.
Uncrossed ==
  \A b, a \in Resting :
    orderById[b].side = "Buy" /\ orderById[a].side = "Sell" =>
      orderById[b].price < orderById[a].price

\* What an order still offers plus what it has traded is what was accepted;
\* an id whose order is gone can never trade again.
FillsAccountForOrders ==
  /\ \A o \in Resting :
       executed[o] + orderById[o].remainingQuantity = placed[o]
  /\ \A o \in OrderIds : executed[o] <= placed[o]

\* A fill-or-kill order that was accepted on the strength of the level totals
\* is filled completely by the time the matching loop stops.
FokAllOrNothing ==
  pc = "matching" /\ ~CanMatch /\ incoming.command.timeInForce = "FOK" =>
    incoming.remaining = 0

\* The orders a step trades against: those whose remaining quantity shrinks
\* while another order is being matched.
Traded(o) ==
  /\ pc = "matching"
  /\ orderById[o] # NoOrder
  /\ executed'[o] > executed[o]

\* An order trades only when no order on its side has a better price.
TradesAtBestPrice ==
  \A o \in OrderIds : Traded(o) =>
    \A other \in Resting : orderById[other].side = orderById[o].side =>
      ~IsBetterPrice(orderById[o].side, orderById[other].price, orderById[o].price)

\* An order trades only when no order on its side has a better price, or the
\* same price and an earlier acceptance.
TradesInPriority ==
  \A o \in OrderIds : Traded(o) =>
    \A other \in Resting \ {o} : orderById[other].side = orderById[o].side =>
      \/ IsBetterPrice(orderById[o].side, orderById[o].price, orderById[other].price)
      \/ /\ orderById[o].price = orderById[other].price
         /\ orderById[o].sequenceAccepted < orderById[other].sequenceAccepted

\* Price-time priority, through every match, cancel and rebuild.
PriceTimePriority == [][TradesInPriority]_vars

\* Every command the engine starts on it finishes: the loops end.
LoopsEnd == [](pc # "idle" => <>(pc = "idle"))
=============================================================================
