------------------------- MODULE MatchingEngineProofs -------------------------
(***************************************************************************)
(* The book of MatchingEngine stays consistent and uncrossed, and fills    *)
(* account for every order, for every set of ids, price range, quantity    *)
(* bound and set of commands.                                              *)
(***************************************************************************)
EXTENDS MatchingEngine, BasicLemmas

(***************************************************************************)
(* The extreme element of a set of prices.                                 *)
(***************************************************************************)

\* Every nonempty set of numbers up to N has a greatest element.
LEMMA GreatestElement ==
  ASSUME NEW N \in Nat, NEW S \in SUBSET (1 .. N), S # {}
  PROVE  \E m \in S : \A n \in S : n <= m
<1> DEFINE T == 1 .. N
<1>0. S \in SUBSET T /\ S \subseteq Nat
  OBVIOUS
<1>1. IsFiniteSet(T)
  BY FS_Interval
<1> HIDE DEF T
<1>2. IsFiniteSet(S) /\ S \subseteq Nat
  BY <1>0, <1>1, FS_Subset
<1>3. Max(S) \in S /\ \A n \in S : n <= Max(S)
  BY <1>2, MaxExists
<1> QED BY <1>3

\* best_level returns an active price that no active price of the side beats.
LEMMA BestLevelIsBest ==
  ASSUME NEW s \in Sides, ActivePrices(s) # {}
  PROVE  /\ BestLevel(s) \in ActivePrices(s)
         /\ \A q \in ActivePrices(s) : ~IsBetterPrice(s, q, BestLevel(s))
<1>1. ActivePrices(s) \in SUBSET (1 .. MaxPrice) /\ MaxPrice \in Nat
  BY ConstantsAssumption DEF ActivePrices, Prices
<1>2. \E p \in ActivePrices(s) : \A q \in ActivePrices(s) : ~IsBetterPrice(s, q, p)
  <2>1. CASE s = "Buy"
    <3>1. PICK m \in ActivePrices(s) : \A n \in ActivePrices(s) : n <= m
      BY <1>1, GreatestElement
    <3>2. \A n \in ActivePrices(s) : ~(n > m)
      BY <1>1, <3>1
    <3> QED BY <2>1, <3>2 DEF IsBetterPrice
  <2>2. CASE s = "Sell"
    <3>0. ActivePrices(s) \in SUBSET Nat
      BY <1>1
    <3>1. PICK m \in ActivePrices(s) : \A n \in ActivePrices(s) : m <= n
      BY <3>0, LeastNatural
    <3>2. \A n \in ActivePrices(s) : ~(n < m)
      BY <1>1, <3>1
    <3> QED BY <2>2, <3>2 DEF IsBetterPrice
  <2> QED BY <2>1, <2>2 DEF Sides
<1> QED BY <1>2 DEF BestLevel

\* If the best level of a side does not cross a price then no level does.
LEMMA NoCrossingLevel ==
  ASSUME NEW s \in Sides, NEW price \in Int, ~PriceCrosses(s, price),
         NEW q \in ActivePrices(s)
  PROVE  ~CrossesLevel(s, price, q)
<1>1. /\ BestLevel(s) \in ActivePrices(s)
      /\ ~IsBetterPrice(s, q, BestLevel(s))
  BY BestLevelIsBest
<1>2. BestLevel(s) \in Int /\ q \in Int
  BY <1>1 DEF ActivePrices, Prices
<1>3. ~CrossesLevel(s, price, BestLevel(s))
  BY DEF PriceCrosses
<1> QED BY <1>1, <1>2, <1>3 DEF CrossesLevel, IsBetterPrice, Sides

(***************************************************************************)
(* The inductive invariant.  While an order is matched its ids are burnt   *)
(* but not in the book; while a book is rebuilt it is part of a snapshot   *)
(* that satisfies what the book satisfied; an id never accepted has no     *)
(* history.                                                                *)
(***************************************************************************)
IncomingOK ==
  pc = "matching" =>
    LET c == incoming.command
    IN  /\ incoming.orderId \notin Resting
        /\ incoming.orderId \in idempotency.orderIds
        /\ c.clientOrderId \in idempotency.clients
        /\ clientOrderIdToOrderId[c.clientOrderId] = 0
        /\ c.orderType = "Limit" => c.price \in Prices
        /\ executed[incoming.orderId] + incoming.remaining = placed[incoming.orderId]

FreshIds ==
  \A o \in OrderIds \ idempotency.orderIds : executed[o] = 0 /\ placed[o] = 0

InSnapshot == {o \in OrderIds : snapshot.orders[o] # NoOrder}

SnapshotOK ==
  pc = "restoring" =>
    /\ \A o \in Resting : orderById[o] = snapshot.orders[o]
    /\ \A o \in InSnapshot :
         /\ snapshot.clients[snapshot.orders[o].clientOrderId] = o
         /\ o \in idempotency.orderIds
         /\ snapshot.orders[o].clientOrderId \in idempotency.clients
         /\ executed[o] + snapshot.orders[o].remainingQuantity = placed[o]
    /\ \A k \in ClientIds :
         LET o == snapshot.clients[k]
         IN  o # 0 => o \in InSnapshot /\ snapshot.orders[o].clientOrderId = k
    /\ \A b, a \in InSnapshot :
         snapshot.orders[b].side = "Buy" /\ snapshot.orders[a].side = "Sell" =>
           snapshot.orders[b].price < snapshot.orders[a].price

IInv ==
  /\ TypeOK
  /\ ListsMatchOrders
  /\ ClientIdsMatchOrders
  /\ Uncrossed
  /\ FillsAccountForOrders
  /\ IncomingOK
  /\ FreshIds
  /\ SnapshotOK

\* A resting order has a record of type Order.
LEMMA RestingOrder ==
  ASSUME TypeOK, NEW o \in Resting
  PROVE  o \in OrderIds /\ orderById[o] \in Order /\ orderById[o] # NoOrder
BY DEF TypeOK, Resting

\* Taking a resting order out of the book keeps the rest of it consistent.
LEMMA RemoveKeepsBook ==
  ASSUME TypeOK, ListsMatchOrders, ClientIdsMatchOrders,
         NEW o \in Resting, RemoveFromBook(o)
  PROVE  /\ orderById' \in [OrderIds -> Order \cup {NoOrder}]
         /\ queue' \in [Sides -> [Prices -> Seq(OrderIds)]]
         /\ clientOrderIdToOrderId' \in [ClientIds -> OrderIds \cup {0}]
         /\ Resting' = Resting \ {o}
         /\ \A x \in Resting' : orderById'[x] = orderById[x]
         /\ ListsMatchOrders'
         /\ \A x \in Resting' : clientOrderIdToOrderId'[orderById[x].clientOrderId] = x
         /\ \A k \in ClientIds : clientOrderIdToOrderId'[k] # 0 =>
              /\ clientOrderIdToOrderId'[k] = clientOrderIdToOrderId[k]
              /\ clientOrderIdToOrderId[k] # o
<1> DEFINE order == orderById[o]
<1>1. o \in OrderIds /\ order \in Order /\ order # NoOrder
  BY RestingOrder
<1>2. order.side \in Sides /\ order.price \in Prices /\ order.clientOrderId \in ClientIds
  BY <1>1 DEF Order
<1> DEFINE old == queue[order.side][order.price]
<1>3. old \in Seq(OrderIds)
  BY <1>2 DEF TypeOK
<1>4. o \in RestingAt(order.side, order.price)
  BY DEF RestingAt
<1>5. RestingAt(order.side, order.price) \in SUBSET OrderIds
  BY DEF RestingAt, Resting
<1>6. IsListOf(old, RestingAt(order.side, order.price))
  BY <1>2 DEF ListsMatchOrders
<1>7. /\ Unlink(old, o) \in Seq(OrderIds)
      /\ IsListOf(Unlink(old, o), RestingAt(order.side, order.price) \ {o})
  BY <1>3, <1>4, <1>5, <1>6, UnlinkList
<1>8. /\ orderById' = [orderById EXCEPT ![o] = NoOrder]
      /\ clientOrderIdToOrderId' =
           [clientOrderIdToOrderId EXCEPT ![order.clientOrderId] = 0]
      /\ queue' = [queue EXCEPT ![order.side][order.price] = Unlink(old, o)]
  BY DEF RemoveFromBook
<1>9. /\ Resting' = Resting \ {o}
      /\ \A x \in Resting' : orderById'[x] = orderById[x]
  BY <1>1, <1>8 DEF TypeOK, Resting
<1>10. /\ orderById' \in [OrderIds -> Order \cup {NoOrder}]
       /\ queue' \in [Sides -> [Prices -> Seq(OrderIds)]]
       /\ clientOrderIdToOrderId' \in [ClientIds -> OrderIds \cup {0}]
  BY <1>7, <1>8 DEF TypeOK
<1>11. ListsMatchOrders'
  <2> SUFFICES ASSUME NEW s \in Sides, NEW p \in Prices
               PROVE  IsListOf(queue'[s][p], RestingAt(s, p)')
    BY DEF ListsMatchOrders
  <2>1. RestingAt(s, p)' = RestingAt(s, p) \ {o}
    BY <1>9 DEF RestingAt
  <2>2. CASE s = order.side /\ p = order.price
    <3>1. queue'[s][p] = Unlink(old, o)
      BY <1>2, <1>8, <2>2 DEF TypeOK
    <3> QED BY <1>7, <2>1, <2>2, <3>1
  <2>3. CASE ~(s = order.side /\ p = order.price)
    <3>1. queue'[s][p] = queue[s][p]
      BY <1>2, <1>8, <2>3 DEF TypeOK
    <3>2. RestingAt(s, p)' = RestingAt(s, p)
      BY <2>1, <2>3 DEF RestingAt
    <3> QED BY <3>1, <3>2 DEF ListsMatchOrders
  <2> QED BY <2>2, <2>3
<1>12. ASSUME NEW x \in Resting'
       PROVE  clientOrderIdToOrderId'[orderById[x].clientOrderId] = x
  <2>1. x \in Resting /\ x # o
    BY <1>9
  <2>2. orderById[x].clientOrderId \in ClientIds
    BY <2>1, RestingOrder DEF Order
  <2>3. orderById[x].clientOrderId # order.clientOrderId
    BY <2>1 DEF ClientIdsMatchOrders
  <2> QED BY <1>2, <1>8, <2>1, <2>2, <2>3 DEF ClientIdsMatchOrders, TypeOK
<1>13. ASSUME NEW k \in ClientIds, clientOrderIdToOrderId'[k] # 0
       PROVE  /\ clientOrderIdToOrderId'[k] = clientOrderIdToOrderId[k]
              /\ clientOrderIdToOrderId[k] # o
  BY <1>2, <1>8, <1>13 DEF ClientIdsMatchOrders, TypeOK
<1> QED BY <1>9, <1>10, <1>11, <1>12, <1>13

\* Inserting an order whose ids are not in the book keeps it consistent.
LEMMA InsertKeepsBook ==
  ASSUME TypeOK, ListsMatchOrders, ClientIdsMatchOrders,
         NEW o \in OrderIds, o \notin Resting, NEW order \in Order,
         clientOrderIdToOrderId[order.clientOrderId] = 0,
         InsertRemainingAsResting(o, order)
  PROVE  /\ orderById' \in [OrderIds -> Order \cup {NoOrder}]
         /\ queue' \in [Sides -> [Prices -> Seq(OrderIds)]]
         /\ clientOrderIdToOrderId' \in [ClientIds -> OrderIds \cup {0}]
         /\ Resting' = Resting \cup {o}
         /\ orderById'[o] = order
         /\ \A x \in Resting : orderById'[x] = orderById[x]
         /\ ListsMatchOrders'
         /\ \A x \in Resting' : clientOrderIdToOrderId'[orderById'[x].clientOrderId] = x
         /\ \A k \in ClientIds : k # order.clientOrderId =>
              clientOrderIdToOrderId'[k] = clientOrderIdToOrderId[k]
<1>1. /\ order # NoOrder /\ order.side \in Sides /\ order.price \in Prices
      /\ order.clientOrderId \in ClientIds
  BY ConstantsAssumption DEF Order
<1> DEFINE old == queue[order.side][order.price]
<1>2. old \in Seq(OrderIds)
  BY <1>1 DEF TypeOK
<1>3. /\ RestingAt(order.side, order.price) \in SUBSET OrderIds
      /\ o \in OrderIds \ RestingAt(order.side, order.price)
  BY DEF RestingAt, Resting
<1>4. IsListOf(old, RestingAt(order.side, order.price))
  BY <1>1 DEF ListsMatchOrders
<1>5. /\ Append(old, o) \in Seq(OrderIds)
      /\ IsListOf(Append(old, o), RestingAt(order.side, order.price) \cup {o})
  BY <1>2, <1>3, <1>4, AppendList
<1>6. /\ orderById' = [orderById EXCEPT ![o] = order]
      /\ clientOrderIdToOrderId' =
           [clientOrderIdToOrderId EXCEPT ![order.clientOrderId] = o]
      /\ queue' = [queue EXCEPT ![order.side][order.price] = Append(old, o)]
  BY DEF InsertRemainingAsResting
<1>7. /\ Resting' = Resting \cup {o}
      /\ orderById'[o] = order
      /\ \A x \in Resting : orderById'[x] = orderById[x]
  BY <1>1, <1>6 DEF TypeOK, Resting
<1>8. /\ orderById' \in [OrderIds -> Order \cup {NoOrder}]
      /\ queue' \in [Sides -> [Prices -> Seq(OrderIds)]]
      /\ clientOrderIdToOrderId' \in [ClientIds -> OrderIds \cup {0}]
  BY <1>5, <1>6 DEF TypeOK
<1>9. ListsMatchOrders'
  <2> SUFFICES ASSUME NEW s \in Sides, NEW p \in Prices
               PROVE  IsListOf(queue'[s][p], RestingAt(s, p)')
    BY DEF ListsMatchOrders
  <2>1. CASE s = order.side /\ p = order.price
    <3>1. queue'[s][p] = Append(old, o)
      BY <1>1, <1>6, <2>1 DEF TypeOK
    <3>2. RestingAt(s, p)' = RestingAt(s, p) \cup {o}
      BY <1>7, <2>1 DEF RestingAt
    <3> QED BY <1>5, <2>1, <3>1, <3>2
  <2>2. CASE ~(s = order.side /\ p = order.price)
    <3>1. queue'[s][p] = queue[s][p]
      BY <1>1, <1>6, <2>2 DEF TypeOK
    <3>2. RestingAt(s, p)' = RestingAt(s, p)
      BY <1>7, <2>2 DEF RestingAt
    <3> QED BY <3>1, <3>2 DEF ListsMatchOrders
  <2> QED BY <2>1, <2>2
<1>10. ASSUME NEW x \in Resting'
       PROVE  clientOrderIdToOrderId'[orderById'[x].clientOrderId] = x
  <2>1. CASE x = o
    BY <1>1, <1>6, <1>7, <2>1 DEF TypeOK
  <2>2. CASE x \in Resting
    <3>1. orderById[x].clientOrderId \in ClientIds /\ x # 0
      BY <2>2, RestingOrder, ConstantsAssumption DEF Order
    <3>2. orderById[x].clientOrderId # order.clientOrderId
      BY <2>2, <3>1 DEF ClientIdsMatchOrders
    <3> QED BY <1>6, <1>7, <2>2, <3>1, <3>2 DEF ClientIdsMatchOrders, TypeOK
  <2> QED BY <1>7, <2>1, <2>2
<1>11. \A k \in ClientIds : k # order.clientOrderId =>
         clientOrderIdToOrderId'[k] = clientOrderIdToOrderId[k]
  BY <1>6 DEF TypeOK
<1> QED BY <1>7, <1>8, <1>9, <1>10, <1>11

(***************************************************************************)
(* Every action preserves the invariant.                                   *)
(***************************************************************************)

\* A new engine satisfies it.
LEMMA InitIInv == Init => IInv
<1> SUFFICES ASSUME Init PROVE IInv
  OBVIOUS
<1>1. Resting = {}
  BY DEF Init, Resting, NoOrders
<1>2. TypeOK
  BY ConstantsAssumption DEF Init, TypeOK, NoOrders, NoClients, EmptyQueues,
     NoIncoming, NoSnapshot
<1>3. ListsMatchOrders
  <2> SUFFICES ASSUME NEW s \in Sides, NEW p \in Prices
               PROVE  IsListOf(queue[s][p], RestingAt(s, p))
    BY DEF ListsMatchOrders
  <2>1. queue[s][p] = <<>> /\ RestingAt(s, p) = {}
    BY <1>1 DEF Init, EmptyQueues, RestingAt
  <2> QED BY <2>1 DEF IsListOf
<1>4. ClientIdsMatchOrders /\ Uncrossed /\ FillsAccountForOrders
  BY <1>1 DEF Init, ClientIdsMatchOrders, Uncrossed, FillsAccountForOrders, NoClients
<1>5. IncomingOK /\ FreshIds /\ SnapshotOK
  BY DEF Init, IncomingOK, FreshIds, SnapshotOK
<1> QED BY <1>2, <1>3, <1>4, <1>5 DEF IInv

\* What a step that leaves the book alone preserves.
LEMMA BookUnchanged ==
  ASSUME IInv, UNCHANGED book
  PROVE  /\ Resting' = Resting
         /\ ListsMatchOrders'
         /\ Uncrossed'
<1>1. UNCHANGED <<orderById, queue, clientOrderIdToOrderId>>
  BY DEF book
<1>2. Resting' = Resting
  BY <1>1 DEF Resting
<1> QED BY <1>1, <1>2 DEF IInv, ListsMatchOrders, RestingAt, Uncrossed

SeqGenType == [nextSequence : Nat, nextTradeId : Nat, nextEventId : Nat]
IdempotencyType ==
  [commands : SUBSET CommandIds, orderIds : SUBSET OrderIds,
   clients : SUBSET ClientIds]

\* The sequence generator and the idempotency index keep their types.
LEMMA EmitEventsType ==
  ASSUME seqGen \in SeqGenType, NEW n \in Nat, EmitEvents(n)
  PROVE  seqGen' \in SeqGenType
<1>1. seqGen = [nextSequence |-> seqGen.nextSequence,
                nextTradeId |-> seqGen.nextTradeId,
                nextEventId |-> seqGen.nextEventId]
  BY DEF SeqGenType
<1>2. seqGen' = [nextSequence |-> seqGen.nextSequence + n,
                 nextTradeId |-> seqGen.nextTradeId,
                 nextEventId |-> seqGen.nextEventId + n]
  BY <1>1 DEF EmitEvents, SeqGenType
<1>3. seqGen.nextSequence + n \in Nat /\ seqGen.nextEventId + n \in Nat
  BY DEF SeqGenType
<1> QED BY <1>2, <1>3 DEF SeqGenType

\* Recording a command keeps the type of the idempotency index.
LEMMA RecordCommandType ==
  ASSUME idempotency \in IdempotencyType, NEW c, c.commandId \in CommandIds,
         RecordCommand(c)
  PROVE  /\ idempotency' \in IdempotencyType
         /\ idempotency'.orderIds = idempotency.orderIds
         /\ idempotency'.clients = idempotency.clients
<1>1. idempotency = [commands |-> idempotency.commands,
                     orderIds |-> idempotency.orderIds,
                     clients  |-> idempotency.clients]
  BY DEF IdempotencyType
<1>2. idempotency' = [commands |-> idempotency.commands \cup {c.commandId},
                      orderIds |-> idempotency.orderIds,
                      clients  |-> idempotency.clients]
  BY <1>1 DEF RecordCommand, IdempotencyType
<1>3. idempotency.commands \cup {c.commandId} \in SUBSET CommandIds
  BY DEF IdempotencyType
<1> QED BY <1>2, <1>3 DEF IdempotencyType

\* The type invariant fixes the types of the generator and of the index.
LEMMA IInvTypes ==
  ASSUME IInv
  PROVE  seqGen \in SeqGenType /\ idempotency \in IdempotencyType
BY DEF IInv, TypeOK, SeqGenType, IdempotencyType

\* A command answered without touching the book: a duplicate, or a rejection.
LEMMA AnsweredIInv ==
  ASSUME IInv, NEW c \in PlaceCommands \cup CancelCommands,
         DuplicateCommand(c) \/ RejectPlace(c) \/ RejectCancel(c)
  PROVE  IInv'
<1>0. c.commandId \in CommandIds
  BY ConstantsAssumption DEF PlaceCommand, CancelCommand
<1>1. /\ UNCHANGED <<tradingEnabled, pc, incoming, snapshot, placed, executed>>
      /\ UNCHANGED book
      /\ idempotency' = idempotency \/ RecordCommand(c)
      /\ EmitEvents(1)
      /\ pc = "idle"
  BY DEF DuplicateCommand, RejectPlace, RejectCancel, Accepting
<1>2. UNCHANGED <<orderById, queue, clientOrderIdToOrderId>>
  BY <1>1 DEF book
<1>3. /\ idempotency'.orderIds = idempotency.orderIds
      /\ idempotency'.clients = idempotency.clients
      /\ idempotency' \in IdempotencyType
  BY <1>0, <1>1, IInvTypes, RecordCommandType
<1>4. seqGen' \in SeqGenType
  BY <1>1, IInvTypes, EmitEventsType
<1>5. TypeOK'
  BY <1>1, <1>2, <1>3, <1>4 DEF IInv, TypeOK, SeqGenType, IdempotencyType
<1>6. Resting' = Resting /\ ListsMatchOrders' /\ Uncrossed'
  BY <1>1, BookUnchanged
<1>7. ClientIdsMatchOrders' /\ FillsAccountForOrders'
  BY <1>1, <1>2, <1>3, <1>6 DEF IInv, ClientIdsMatchOrders, FillsAccountForOrders
<1>8. IncomingOK' /\ FreshIds' /\ SnapshotOK'
  BY <1>1, <1>3 DEF IInv, IncomingOK, FreshIds, SnapshotOK
<1> QED BY <1>5, <1>6, <1>7, <1>8 DEF IInv

\* Accepting an order burns its ids and starts the matching loop.
LEMMA AcceptPlaceIInv ==
  ASSUME IInv, NEW c \in PlaceCommands, AcceptPlace(c)
  PROVE  IInv'
<1>0. /\ c \in PlaceCommand /\ c.commandId \in CommandIds /\ c.orderId \in OrderIds
      /\ c.clientOrderId \in ClientIds /\ c.quantity \in Nat
  BY ConstantsAssumption DEF PlaceCommand
<1>1. /\ UNCHANGED <<tradingEnabled, snapshot, executed>>
      /\ UNCHANGED book
      /\ pc = "idle" /\ pc' = "matching"
      /\ EmitEvents(1)
      /\ idempotency' = [commands |-> idempotency.commands \cup {c.commandId},
                         orderIds |-> idempotency.orderIds \cup {c.orderId},
                         clients  |-> idempotency.clients \cup {c.clientOrderId}]
      /\ incoming' = [orderId |-> c.orderId, command |-> c, remaining |-> c.quantity,
                      sequenceAccepted |-> seqGen.nextSequence]
      /\ placed' = [placed EXCEPT ![c.orderId] = c.quantity]
  BY DEF AcceptPlace, Accepting
<1>2. /\ c.orderId \notin idempotency.orderIds
      /\ c.orderId \notin Resting
      /\ clientOrderIdToOrderId[c.clientOrderId] = 0
      /\ c.orderType = "Limit" => c.price \in Prices
  BY DEF AcceptPlace, Accepts, ValidatePlaceOrder, BookAccepts, ValidatePrice
<1>3. UNCHANGED <<orderById, queue, clientOrderIdToOrderId>>
  BY <1>1 DEF book
<1>4. Resting' = Resting /\ ListsMatchOrders' /\ Uncrossed'
  BY <1>1, BookUnchanged
<1>5. /\ seqGen' \in SeqGenType
      /\ idempotency' \in IdempotencyType
      /\ incoming' \in IncomingType
      /\ placed' \in [OrderIds -> Nat]
  <2>1. seqGen' \in SeqGenType
    BY <1>1, IInvTypes, EmitEventsType
  <2>2. idempotency' \in IdempotencyType
    BY <1>0, <1>1, IInvTypes DEF IdempotencyType
  <2>3. incoming' \in IncomingType
    BY <1>0, <1>1, IInvTypes DEF IncomingType, SeqGenType
  <2>4. placed' \in [OrderIds -> Nat]
    BY <1>0, <1>1 DEF IInv, TypeOK
  <2> QED BY <2>1, <2>2, <2>3, <2>4
<1>6. TypeOK'
  BY <1>1, <1>3, <1>5 DEF IInv, TypeOK, SeqGenType, IdempotencyType
<1>7. executed[c.orderId] = 0 /\ placed'[c.orderId] = c.quantity
  BY <1>0, <1>1, <1>2 DEF IInv, FreshIds, TypeOK
<1>8. \A o \in OrderIds \ {c.orderId} : placed'[o] = placed[o]
  BY <1>1 DEF IInv, TypeOK
<1>9. ClientIdsMatchOrders'
  BY <1>1, <1>3, <1>4 DEF IInv, ClientIdsMatchOrders
<1>10. FillsAccountForOrders'
  <2>1. Resting \subseteq OrderIds \ {c.orderId}
    BY <1>2 DEF Resting
  <2> QED BY <1>0, <1>1, <1>3, <1>4, <1>7, <1>8, <2>1
          DEF IInv, FillsAccountForOrders
<1>11. IncomingOK'
  BY <1>0, <1>1, <1>2, <1>3, <1>4, <1>7 DEF IncomingOK
<1>12. FreshIds'
  BY <1>1, <1>8 DEF IInv, FreshIds
<1>13. SnapshotOK'
  BY <1>1 DEF SnapshotOK
<1> QED BY <1>4, <1>6, <1>9, <1>10, <1>11, <1>12, <1>13 DEF IInv

\* The order matching trades against: the head of the best opposing level, a
\* resting order of the opposite side.
LEMMA MakerIsResting ==
  ASSUME IInv, NEW s \in Sides, ActivePrices(s) # {}
  PROVE  /\ Head(queue[s][BestLevel(s)]) \in Resting
         /\ orderById[Head(queue[s][BestLevel(s)])].side = s
<1>1. BestLevel(s) \in ActivePrices(s)
  BY BestLevelIsBest
<1>2. BestLevel(s) \in Prices /\ queue[s][BestLevel(s)] # <<>>
  BY <1>1 DEF ActivePrices
<1>3. queue[s][BestLevel(s)] \in Seq(OrderIds)
  BY <1>2 DEF IInv, TypeOK
<1>4. IsListOf(queue[s][BestLevel(s)], RestingAt(s, BestLevel(s)))
  BY <1>2 DEF IInv, ListsMatchOrders
<1>5. RestingAt(s, BestLevel(s)) \in SUBSET OrderIds
  BY DEF RestingAt, Resting
<1>6. Head(queue[s][BestLevel(s)]) \in RestingAt(s, BestLevel(s))
  BY <1>2, <1>3, <1>4, <1>5, HeadOfList
<1> QED BY <1>6 DEF RestingAt

\* One iteration of the matching loop.
LEMMA MatchStepIInv ==
  ASSUME IInv, MatchStep
  PROVE  IInv'
<1> DEFINE s     == Opposite(incoming.command.side)
           maker == Head(queue[s][BestLevel(s)])
           order == orderById[maker]
           fill  == IF incoming.remaining < order.remainingQuantity
                    THEN incoming.remaining ELSE order.remainingQuantity
<1>1. pc = "matching" /\ incoming \in IncomingType
  BY DEF MatchStep, IInv, TypeOK
<1>2. s \in Sides
  BY DEF Opposite, Sides
<1>3. incoming.remaining # 0 /\ ActivePrices(s) # {}
  BY DEF MatchStep, CanMatch, PriceCrosses
<1>4. maker \in Resting /\ order.side = s
  BY <1>2, <1>3, MakerIsResting
<1>5. maker \in OrderIds /\ order \in Order /\ order # NoOrder
  BY <1>4, RestingOrder DEF IInv
<1>6. /\ incoming' = [incoming EXCEPT !.remaining = @ - fill]
      /\ \/ order.remainingQuantity = fill /\ RemoveFromBook(maker)
         \/ /\ order.remainingQuantity # fill
            /\ orderById' = [orderById EXCEPT ![maker].remainingQuantity = @ - fill]
            /\ UNCHANGED <<queue, clientOrderIdToOrderId>>
      /\ seqGen' = [nextSequence |-> seqGen.nextSequence + 4,
                    nextEventId  |-> seqGen.nextEventId + 4,
                    nextTradeId  |-> seqGen.nextTradeId + 1]
      /\ executed' = [executed EXCEPT ![maker] = @ + fill,
                                      ![incoming.orderId] = @ + fill]
      /\ UNCHANGED <<tradingEnabled, idempotency, pc, snapshot, placed>>
  BY DEF MatchStep
<1>7. /\ fill \in Nat \ {0} /\ fill <= incoming.remaining
      /\ fill <= order.remainingQuantity
      /\ order.remainingQuantity \in Nat /\ incoming.remaining \in Nat
  <2>1. order.remainingQuantity \in Nat \ {0} /\ incoming.remaining \in Nat
    BY <1>1, <1>5 DEF Order, IncomingType
  <2> HIDE DEF order
  <2>2. CASE incoming.remaining < order.remainingQuantity
    BY <1>3, <2>1, <2>2
  <2>3. CASE ~(incoming.remaining < order.remainingQuantity)
    BY <2>1, <2>3
  <2> QED BY <2>2, <2>3
<1> HIDE DEF fill, order, maker, s
<1>8. /\ incoming.orderId \notin Resting /\ incoming.orderId \in OrderIds
      /\ incoming.orderId # maker
  BY <1>1, <1>4 DEF IInv, IncomingOK, IncomingType
<1>9. /\ incoming' \in IncomingType
      /\ incoming'.remaining = incoming.remaining - fill
      /\ incoming'.command = incoming.command
      /\ incoming'.orderId = incoming.orderId
  <2>1. incoming = [orderId |-> incoming.orderId, command |-> incoming.command,
                    remaining |-> incoming.remaining,
                    sequenceAccepted |-> incoming.sequenceAccepted]
    BY <1>1 DEF IncomingType
  <2>2. incoming' = [orderId |-> incoming.orderId, command |-> incoming.command,
                     remaining |-> incoming.remaining - fill,
                     sequenceAccepted |-> incoming.sequenceAccepted]
    BY <1>6, <2>1
  <2>3. incoming.remaining - fill \in Nat
    BY <1>7
  <2> QED BY <1>1, <2>2, <2>3 DEF IncomingType
<1>10. /\ executed' \in [OrderIds -> Nat]
       /\ executed'[maker] = executed[maker] + fill
       /\ executed'[incoming.orderId] = executed[incoming.orderId] + fill
       /\ \A o \in OrderIds \ {maker, incoming.orderId} : executed'[o] = executed[o]
  <2>1. executed \in [OrderIds -> Nat]
    BY DEF IInv, TypeOK
  <2>2. executed' = [executed EXCEPT ![maker] = executed[maker] + fill,
                                     ![incoming.orderId] = executed[incoming.orderId] + fill]
    BY <1>6, <1>8
  <2> QED BY <1>5, <1>7, <1>8, <2>1, <2>2
<1>11. seqGen' \in SeqGenType
  BY <1>6, IInvTypes DEF SeqGenType
<1>12. /\ orderById' \in [OrderIds -> Order \cup {NoOrder}]
       /\ queue' \in [Sides -> [Prices -> Seq(OrderIds)]]
       /\ clientOrderIdToOrderId' \in [ClientIds -> OrderIds \cup {0}]
       /\ Resting' \subseteq Resting
       /\ \A o \in Resting' :
            /\ orderById'[o].side = orderById[o].side
            /\ orderById'[o].price = orderById[o].price
            /\ orderById'[o].clientOrderId = orderById[o].clientOrderId
            /\ o # maker => orderById'[o] = orderById[o]
            /\ o = maker => orderById'[o].remainingQuantity
                              = orderById[o].remainingQuantity - fill
       /\ ListsMatchOrders'
       /\ \A o \in Resting' : clientOrderIdToOrderId'[orderById[o].clientOrderId] = o
       /\ \A k \in ClientIds : clientOrderIdToOrderId'[k] # 0 =>
            /\ clientOrderIdToOrderId'[k] = clientOrderIdToOrderId[k]
            /\ clientOrderIdToOrderId[k] \in Resting'
  <2>1. CASE RemoveFromBook(maker)
    <3>1. /\ Resting' = Resting \ {maker}
          /\ \A x \in Resting' : orderById'[x] = orderById[x]
          /\ \A k \in ClientIds : clientOrderIdToOrderId'[k] # 0 =>
               /\ clientOrderIdToOrderId'[k] = clientOrderIdToOrderId[k]
               /\ clientOrderIdToOrderId[k] # maker
      BY <1>4, <2>1, RemoveKeepsBook DEF IInv
    <3>2. /\ orderById' \in [OrderIds -> Order \cup {NoOrder}]
          /\ queue' \in [Sides -> [Prices -> Seq(OrderIds)]]
          /\ clientOrderIdToOrderId' \in [ClientIds -> OrderIds \cup {0}]
          /\ ListsMatchOrders'
          /\ \A x \in Resting' : clientOrderIdToOrderId'[orderById[x].clientOrderId] = x
      BY <1>4, <2>1, RemoveKeepsBook DEF IInv
    <3>3. \A k \in ClientIds : clientOrderIdToOrderId[k] # 0 =>
            clientOrderIdToOrderId[k] \in Resting
      BY DEF IInv, ClientIdsMatchOrders
    <3> QED BY <3>1, <3>2, <3>3
  <2>2. CASE /\ order.remainingQuantity # fill
             /\ orderById' = [orderById EXCEPT ![maker].remainingQuantity = @ - fill]
             /\ UNCHANGED <<queue, clientOrderIdToOrderId>>
    <3> DEFINE new == [order EXCEPT !.remainingQuantity = @ - fill]
    <3>1. order.remainingQuantity - fill \in Nat \ {0}
      BY <1>7, <2>2
    <3>2. order = [clientOrderId |-> order.clientOrderId, userId |-> order.userId,
                   side |-> order.side, price |-> order.price,
                   originalQuantity |-> order.originalQuantity,
                   remainingQuantity |-> order.remainingQuantity,
                   sequenceAccepted |-> order.sequenceAccepted]
      BY <1>5 DEF Order
    <3>3. new = [clientOrderId |-> order.clientOrderId, userId |-> order.userId,
                 side |-> order.side, price |-> order.price,
                 originalQuantity |-> order.originalQuantity,
                 remainingQuantity |-> order.remainingQuantity - fill,
                 sequenceAccepted |-> order.sequenceAccepted]
      BY <3>2
    <3>4. /\ new \in Order /\ new.side = order.side /\ new.price = order.price
          /\ new.clientOrderId = order.clientOrderId
          /\ new.remainingQuantity = order.remainingQuantity - fill
      BY <1>5, <3>1, <3>3 DEF Order
    <3>5. orderById' = [orderById EXCEPT ![maker] = new]
      BY <2>2 DEF order
    <3> HIDE DEF new
    <3>6. new # NoOrder
      BY <3>4, ConstantsAssumption
    <3>7. /\ Resting' = Resting
          /\ orderById' \in [OrderIds -> Order \cup {NoOrder}]
          /\ orderById'[maker] = new
          /\ \A o \in OrderIds \ {maker} : orderById'[o] = orderById[o]
      BY <1>4, <1>5, <3>4, <3>5, <3>6 DEF IInv, TypeOK, Resting
    <3>8. \A o \in Resting :
            /\ orderById'[o].side = orderById[o].side
            /\ orderById'[o].price = orderById[o].price
            /\ orderById'[o].clientOrderId = orderById[o].clientOrderId
            /\ o # maker => orderById'[o] = orderById[o]
            /\ o = maker => orderById'[o].remainingQuantity
                              = orderById[o].remainingQuantity - fill
      BY <3>4, <3>7 DEF Resting, order
    <3>9. \A t \in Sides : \A p \in Prices : RestingAt(t, p)' = RestingAt(t, p)
      BY <3>7, <3>8 DEF RestingAt
    <3>10. ListsMatchOrders'
      BY <2>2, <3>9 DEF IInv, ListsMatchOrders
    <3>11. /\ queue' \in [Sides -> [Prices -> Seq(OrderIds)]]
           /\ clientOrderIdToOrderId' \in [ClientIds -> OrderIds \cup {0}]
      BY <2>2 DEF IInv, TypeOK
    <3>12. /\ \A o \in Resting : clientOrderIdToOrderId'[orderById[o].clientOrderId] = o
           /\ \A k \in ClientIds : clientOrderIdToOrderId'[k] # 0 =>
                /\ clientOrderIdToOrderId'[k] = clientOrderIdToOrderId[k]
                /\ clientOrderIdToOrderId[k] \in Resting
      BY <2>2 DEF IInv, ClientIdsMatchOrders
    <3> QED BY <3>7, <3>8, <3>10, <3>11, <3>12
  <2> QED BY <1>6, <2>1, <2>2
<1>13. TypeOK'
  <2>1. incoming' \in IF pc' = "matching" THEN IncomingType ELSE {NoIncoming}
    BY <1>1, <1>6, <1>9
  <2> QED BY <1>6, <1>10, <1>11, <1>12, <2>1 DEF IInv, TypeOK, SeqGenType
<1>14. ClientIdsMatchOrders'
  <2>1. idempotency' = idempotency
    BY <1>6
  <2> QED BY <1>12, <2>1 DEF IInv, ClientIdsMatchOrders
<1>15. Uncrossed'
  BY <1>12 DEF IInv, Uncrossed
<1>16. FillsAccountForOrders'
  <2>1. placed' = placed
    BY <1>6
  <2>2. ASSUME NEW o \in Resting'
        PROVE  executed'[o] + orderById'[o].remainingQuantity = placed'[o]
    <3>1. /\ o \in Resting /\ o \in OrderIds /\ o # incoming.orderId
          /\ executed[o] + orderById[o].remainingQuantity = placed[o]
          /\ executed[o] \in Nat
      BY <1>8, <1>12, <2>2 DEF IInv, FillsAccountForOrders, Resting, TypeOK
    <3>2. orderById[o].remainingQuantity \in Nat
      BY <3>1, RestingOrder DEF IInv, Order
    <3>3. CASE o = maker
      BY <1>7, <1>10, <1>12, <2>1, <3>1, <3>2, <3>3
    <3>4. CASE o # maker
      BY <1>10, <1>12, <2>1, <3>1, <3>4
    <3> QED BY <3>3, <3>4
  <2>3. ASSUME NEW o \in OrderIds
        PROVE  executed'[o] <= placed'[o]
    <3>1. executed[o] \in Nat /\ placed[o] \in Nat /\ executed[o] <= placed[o]
      BY DEF IInv, FillsAccountForOrders, TypeOK
    <3>2. CASE o = maker
      <4>1. executed[o] + order.remainingQuantity = placed[o]
        BY <1>4, <3>2 DEF IInv, FillsAccountForOrders, order
      <4> QED BY <1>7, <1>10, <2>1, <3>1, <3>2, <4>1
    <3>3. CASE o = incoming.orderId
      <4>1. executed[o] + incoming.remaining = placed[o]
        BY <1>1, <3>3 DEF IInv, IncomingOK
      <4> QED BY <1>7, <1>10, <2>1, <3>1, <3>3, <4>1
    <3>4. CASE o # maker /\ o # incoming.orderId
      BY <1>10, <2>1, <3>1, <3>4
    <3> QED BY <3>2, <3>3, <3>4
  <2> QED BY <2>2, <2>3 DEF FillsAccountForOrders
<1>17. IncomingOK'
  <2>1. /\ incoming.orderId \in idempotency.orderIds
        /\ incoming.command.clientOrderId \in idempotency.clients
        /\ clientOrderIdToOrderId[incoming.command.clientOrderId] = 0
        /\ incoming.command.orderType = "Limit" => incoming.command.price \in Prices
        /\ executed[incoming.orderId] + incoming.remaining = placed[incoming.orderId]
    BY <1>1 DEF IInv, IncomingOK
  <2>2. incoming.command.clientOrderId \in ClientIds
    BY <1>1 DEF IncomingType, PlaceCommand
  <2>3. clientOrderIdToOrderId'[incoming.command.clientOrderId] = 0
    BY <1>12, <2>1, <2>2
  <2>4. executed'[incoming.orderId] + incoming'.remaining = placed'[incoming.orderId]
    <3>1. executed[incoming.orderId] \in Nat
      BY <1>8 DEF IInv, TypeOK
    <3> QED BY <1>6, <1>7, <1>9, <1>10, <2>1, <3>1
  <2>5. incoming.orderId \notin Resting'
    BY <1>8, <1>12
  <2> QED BY <1>6, <1>9, <2>1, <2>3, <2>4, <2>5 DEF IncomingOK
<1>18. FreshIds'
  <2>1. maker \in idempotency.orderIds /\ incoming.orderId \in idempotency.orderIds
    BY <1>1, <1>4 DEF IInv, ClientIdsMatchOrders, IncomingOK
  <2> QED BY <1>6, <1>10, <2>1 DEF IInv, FreshIds
<1>19. SnapshotOK'
  BY <1>1, <1>6 DEF SnapshotOK
<1> QED BY <1>12, <1>13, <1>14, <1>15, <1>16, <1>17, <1>18, <1>19 DEF IInv

\* The level of a resting order is active.
LEMMA RestingPriceActive ==
  ASSUME IInv, NEW o \in Resting
  PROVE  orderById[o].price \in ActivePrices(orderById[o].side)
<1> DEFINE t == orderById[o].side
           p == orderById[o].price
<1>1. t \in Sides /\ p \in Prices
  BY RestingOrder DEF IInv, Order
<1>2. queue[t][p] \in Seq(OrderIds) /\ IsListOf(queue[t][p], RestingAt(t, p))
  BY <1>1 DEF IInv, TypeOK, ListsMatchOrders
<1>3. RestingAt(t, p) \in SUBSET OrderIds /\ o \in RestingAt(t, p)
  BY DEF RestingAt, Resting
<1>4. queue[t][p] # <<>>
  BY <1>2, <1>3, HeadOfList
<1> QED BY <1>1, <1>4 DEF ActivePrices

\* A remainder rests only when nothing on the other side crosses it.
LEMMA RestRemainderIInv ==
  ASSUME IInv, RestRemainder
  PROVE  IInv'
<1> DEFINE c == incoming.command
           o == incoming.orderId
           order == [clientOrderId |-> c.clientOrderId, userId |-> c.userId,
                     side |-> c.side, price |-> c.price,
                     originalQuantity |-> c.quantity,
                     remainingQuantity |-> incoming.remaining,
                     sequenceAccepted |-> incoming.sequenceAccepted]
<1>1. /\ pc = "matching" /\ incoming \in IncomingType /\ ~CanMatch
      /\ incoming.remaining # 0 /\ CanRest(c)
      /\ InsertRemainingAsResting(o, order)
      /\ EmitEvents(1) /\ pc' = "idle" /\ incoming' = NoIncoming
      /\ UNCHANGED <<tradingEnabled, idempotency, snapshot, placed, executed>>
  BY DEF RestRemainder, IInv, TypeOK
<1>2. /\ c \in PlaceCommand /\ o \in OrderIds /\ c.side \in Sides
      /\ incoming.remaining \in Nat \ {0}
  BY <1>1 DEF IncomingType, PlaceCommand
<1>3. /\ o \notin Resting /\ o \in idempotency.orderIds
      /\ c.clientOrderId \in idempotency.clients
      /\ clientOrderIdToOrderId[c.clientOrderId] = 0
      /\ c.price \in Prices /\ c.orderType = "Limit"
      /\ executed[o] + incoming.remaining = placed[o]
  BY <1>1 DEF IInv, IncomingOK, CanRest
<1>4. /\ order \in Order /\ order.clientOrderId = c.clientOrderId
      /\ order.side = c.side /\ order.price = c.price
      /\ order.remainingQuantity = incoming.remaining
  BY <1>1, <1>2, <1>3 DEF Order, PlaceCommand, IncomingType
<1> HIDE DEF order
<1>5. /\ orderById' \in [OrderIds -> Order \cup {NoOrder}]
      /\ queue' \in [Sides -> [Prices -> Seq(OrderIds)]]
      /\ clientOrderIdToOrderId' \in [ClientIds -> OrderIds \cup {0}]
      /\ Resting' = Resting \cup {o}
      /\ orderById'[o] = order
      /\ \A x \in Resting : orderById'[x] = orderById[x]
      /\ ListsMatchOrders'
      /\ \A x \in Resting' : clientOrderIdToOrderId'[orderById'[x].clientOrderId] = x
      /\ \A k \in ClientIds : k # order.clientOrderId =>
           clientOrderIdToOrderId'[k] = clientOrderIdToOrderId[k]
  BY <1>1, <1>2, <1>3, <1>4, InsertKeepsBook DEF IInv
<1>6. TypeOK'
  <2>1. seqGen' \in SeqGenType
    BY <1>1, IInvTypes, EmitEventsType
  <2> QED BY <1>1, <1>5, <2>1 DEF IInv, TypeOK, SeqGenType
<1>7. ClientIdsMatchOrders'
  <2>1. ASSUME NEW x \in Resting'
        PROVE  /\ clientOrderIdToOrderId'[orderById'[x].clientOrderId] = x
               /\ x \in idempotency'.orderIds
               /\ orderById'[x].clientOrderId \in idempotency'.clients
    BY <1>1, <1>3, <1>4, <1>5, <2>1 DEF IInv, ClientIdsMatchOrders
  <2>2. ASSUME NEW k \in ClientIds, clientOrderIdToOrderId'[k] # 0
        PROVE  /\ clientOrderIdToOrderId'[k] \in Resting'
               /\ orderById'[clientOrderIdToOrderId'[k]].clientOrderId = k
    <3>1. CASE k = c.clientOrderId
      <4>1. clientOrderIdToOrderId'[k] = o
        BY <1>4, <1>5, <3>1
      <4> QED BY <1>4, <1>5, <3>1, <4>1
    <3>2. CASE k # c.clientOrderId
      BY <1>4, <1>5, <2>2, <3>2 DEF IInv, ClientIdsMatchOrders
    <3> QED BY <3>1, <3>2
  <2> QED BY <2>1, <2>2 DEF ClientIdsMatchOrders
<1>8. Uncrossed'
  <2>1. ~PriceCrosses(Opposite(c.side), c.price)
    BY <1>1, <1>3 DEF CanMatch, MatchingPrice
  <2>2. c.price \in Int /\ Opposite(c.side) \in Sides
    BY <1>3 DEF Prices, Opposite, Sides
  <2>3. ASSUME NEW x \in Resting, orderById[x].side = Opposite(c.side)
        PROVE  ~CrossesLevel(Opposite(c.side), c.price, orderById[x].price)
    <3>1. orderById[x].price \in ActivePrices(Opposite(c.side))
      BY <2>3, RestingPriceActive
    <3> QED BY <2>1, <2>2, <3>1, NoCrossingLevel
  <2>4. \A x \in Resting : orderById[x].price \in Prices /\ orderById[x].side \in Sides
    BY RestingOrder DEF IInv, Order
  <2>5. ASSUME NEW b \in Resting', NEW a \in Resting',
               orderById'[b].side = "Buy", orderById'[a].side = "Sell"
        PROVE  orderById'[b].price < orderById'[a].price
    <3>1. CASE b = o
      <4>1. c.side = "Buy" /\ orderById'[b].price = c.price /\ a # o
        BY <1>4, <1>5, <2>5, <3>1
      <4>2. /\ a \in Resting /\ orderById[a].side = Opposite(c.side)
            /\ orderById'[a].price = orderById[a].price
        BY <1>5, <2>5, <4>1 DEF Opposite
      <4>3. ~CrossesLevel("Sell", c.price, orderById[a].price)
        BY <2>3, <4>1, <4>2 DEF Opposite
      <4>4. orderById[a].price \in Int
        BY <2>4, <4>2 DEF Prices
      <4> QED BY <2>2, <4>1, <4>2, <4>3, <4>4 DEF CrossesLevel
    <3>2. CASE a = o
      <4>1. c.side = "Sell" /\ orderById'[a].price = c.price /\ b # o
        BY <1>4, <1>5, <2>5, <3>2
      <4>2. /\ b \in Resting /\ orderById[b].side = Opposite(c.side)
            /\ orderById'[b].price = orderById[b].price
        BY <1>5, <2>5, <4>1 DEF Opposite
      <4>3. ~CrossesLevel("Buy", c.price, orderById[b].price)
        BY <2>3, <4>1, <4>2 DEF Opposite
      <4>4. orderById[b].price \in Int
        BY <2>4, <4>2 DEF Prices
      <4> QED BY <2>2, <4>1, <4>2, <4>3, <4>4 DEF CrossesLevel
    <3>3. CASE a # o /\ b # o
      BY <1>5, <2>5, <3>3 DEF IInv, Uncrossed
    <3> QED BY <3>1, <3>2, <3>3
  <2> QED BY <2>5 DEF Uncrossed
<1>9. FillsAccountForOrders'
  BY <1>1, <1>3, <1>4, <1>5 DEF IInv, FillsAccountForOrders
<1>10. IncomingOK' /\ FreshIds' /\ SnapshotOK'
  BY <1>1 DEF IInv, IncomingOK, FreshIds, SnapshotOK
<1> QED BY <1>5, <1>6, <1>7, <1>8, <1>9, <1>10 DEF IInv

\* Dropping the incoming order leaves the book as it is.
LEMMA FinishPlaceIInv ==
  ASSUME IInv, FinishPlace
  PROVE  IInv'
<1>1. /\ pc' = "idle" /\ incoming' = NoIncoming
      /\ UNCHANGED book
      /\ UNCHANGED <<tradingEnabled, idempotency, seqGen, snapshot, placed, executed>>
  BY DEF FinishPlace
<1>2. UNCHANGED <<orderById, queue, clientOrderIdToOrderId>>
  BY <1>1 DEF book
<1>3. Resting' = Resting /\ ListsMatchOrders' /\ Uncrossed'
  BY <1>1, BookUnchanged
<1>4. TypeOK'
  BY <1>1, <1>2 DEF IInv, TypeOK
<1>5. ClientIdsMatchOrders' /\ FillsAccountForOrders'
  BY <1>1, <1>2, <1>3 DEF IInv, ClientIdsMatchOrders, FillsAccountForOrders
<1>6. IncomingOK' /\ FreshIds' /\ SnapshotOK'
  BY <1>1 DEF IInv, IncomingOK, FreshIds, SnapshotOK
<1> QED BY <1>3, <1>4, <1>5, <1>6 DEF IInv

\* A cancel takes one order out of the book.
LEMMA CancelOrderIInv ==
  ASSUME IInv, NEW c \in CancelCommands, CancelOrder(c)
  PROVE  IInv'
<1> DEFINE o == CancelTarget(c)
<1>1. /\ pc = "idle" /\ o \in Resting /\ RemoveFromBook(o)
      /\ EmitEvents(2) /\ RecordCommand(c)
      /\ UNCHANGED <<tradingEnabled, pc, incoming, snapshot, placed, executed>>
  BY DEF CancelOrder, Accepting, Cancellable
<1>2. c.commandId \in CommandIds
  BY ConstantsAssumption DEF CancelCommand
<1> HIDE DEF o
<1>3. /\ orderById' \in [OrderIds -> Order \cup {NoOrder}]
      /\ queue' \in [Sides -> [Prices -> Seq(OrderIds)]]
      /\ clientOrderIdToOrderId' \in [ClientIds -> OrderIds \cup {0}]
      /\ Resting' = Resting \ {o}
      /\ \A x \in Resting' : orderById'[x] = orderById[x]
      /\ ListsMatchOrders'
      /\ \A x \in Resting' : clientOrderIdToOrderId'[orderById[x].clientOrderId] = x
      /\ \A k \in ClientIds : clientOrderIdToOrderId'[k] # 0 =>
           /\ clientOrderIdToOrderId'[k] = clientOrderIdToOrderId[k]
           /\ clientOrderIdToOrderId[k] # o
  BY <1>1, RemoveKeepsBook DEF IInv
<1>4. /\ idempotency' \in IdempotencyType
      /\ idempotency'.orderIds = idempotency.orderIds
      /\ idempotency'.clients = idempotency.clients
      /\ seqGen' \in SeqGenType
  BY <1>1, <1>2, IInvTypes, RecordCommandType, EmitEventsType
<1>5. TypeOK'
  BY <1>1, <1>3, <1>4 DEF IInv, TypeOK, SeqGenType, IdempotencyType
<1>6. ClientIdsMatchOrders'
  BY <1>3, <1>4 DEF IInv, ClientIdsMatchOrders
<1>7. Uncrossed' /\ FillsAccountForOrders'
  BY <1>1, <1>3 DEF IInv, Uncrossed, FillsAccountForOrders
<1>8. IncomingOK' /\ FreshIds' /\ SnapshotOK'
  BY <1>1, <1>4 DEF IInv, IncomingOK, FreshIds, SnapshotOK
<1> QED BY <1>3, <1>5, <1>6, <1>7, <1>8 DEF IInv

\* The snapshot inherits what the book satisfied; the new book is empty.
LEMMA BeginRestoreIInv ==
  ASSUME IInv, BeginRestore
  PROVE  IInv'
<1>1. /\ pc = "idle" /\ pc' = "restoring"
      /\ snapshot' = [orders |-> orderById, clients |-> clientOrderIdToOrderId]
      /\ orderById' = NoOrders /\ queue' = EmptyQueues
      /\ clientOrderIdToOrderId' = NoClients
      /\ UNCHANGED <<tradingEnabled, idempotency, seqGen, incoming, placed, executed>>
  BY DEF BeginRestore, Accepting
<1>2. Resting' = {} /\ InSnapshot' = Resting
  BY <1>1 DEF Resting, NoOrders, InSnapshot
<1>3. TypeOK'
  BY <1>1 DEF IInv, TypeOK, NoOrders, NoClients, EmptyQueues
<1>4. ListsMatchOrders'
  <2> SUFFICES ASSUME NEW s \in Sides, NEW p \in Prices
               PROVE  IsListOf(queue'[s][p], RestingAt(s, p)')
    BY DEF ListsMatchOrders
  <2>1. queue'[s][p] = <<>> /\ RestingAt(s, p)' = {}
    BY <1>1, <1>2 DEF EmptyQueues, RestingAt
  <2> QED BY <2>1 DEF IsListOf
<1>5. ClientIdsMatchOrders' /\ Uncrossed' /\ FillsAccountForOrders'
  BY <1>1, <1>2 DEF IInv, ClientIdsMatchOrders, Uncrossed, FillsAccountForOrders, NoClients
<1>6. IncomingOK' /\ FreshIds'
  BY <1>1 DEF IInv, IncomingOK, FreshIds
<1>7. SnapshotOK'
  <2>1. snapshot'.orders = orderById /\ snapshot'.clients = clientOrderIdToOrderId
    BY <1>1
  <2> QED BY <1>1, <1>2, <2>1
          DEF IInv, SnapshotOK, ClientIdsMatchOrders, Uncrossed, FillsAccountForOrders
<1> QED BY <1>3, <1>4, <1>5, <1>6, <1>7 DEF IInv

\* Re-inserting one order of the snapshot.
LEMMA RestoreOrderIInv ==
  ASSUME IInv, RestoreOrder
  PROVE  IInv'
<1>1. /\ pc = "restoring"
      /\ UNCHANGED <<tradingEnabled, idempotency, seqGen, pc, incoming, snapshot,
                     placed, executed>>
  BY DEF RestoreOrder
<1>2. PICK o \in Unrestored : InsertRemainingAsResting(o, snapshot.orders[o])
  BY DEF RestoreOrder
<1> DEFINE order == snapshot.orders[o]
<1>3. o \in OrderIds /\ o \in InSnapshot /\ o \notin Resting
  BY DEF Unrestored, InSnapshot
<1>4. order \in Order /\ order # NoOrder /\ order.clientOrderId \in ClientIds
  <2>1. snapshot.orders \in [OrderIds -> Order \cup {NoOrder}]
    BY DEF IInv, TypeOK
  <2> QED BY <1>3, <2>1 DEF InSnapshot, Order
<1>5. /\ \A x \in Resting : orderById[x] = snapshot.orders[x] /\ x \in InSnapshot
      /\ \A x \in InSnapshot : snapshot.clients[snapshot.orders[x].clientOrderId] = x
      /\ \A x \in InSnapshot :
           /\ x \in idempotency.orderIds
           /\ snapshot.orders[x].clientOrderId \in idempotency.clients
           /\ executed[x] + snapshot.orders[x].remainingQuantity = placed[x]
      /\ \A b, a \in InSnapshot :
           snapshot.orders[b].side = "Buy" /\ snapshot.orders[a].side = "Sell" =>
             snapshot.orders[b].price < snapshot.orders[a].price
  BY <1>1 DEF IInv, SnapshotOK, Resting, InSnapshot
<1>6. clientOrderIdToOrderId[order.clientOrderId] = 0
  <2> SUFFICES ASSUME clientOrderIdToOrderId[order.clientOrderId] # 0
               PROVE  FALSE
    OBVIOUS
  <2> DEFINE x == clientOrderIdToOrderId[order.clientOrderId]
  <2>1. x \in Resting /\ orderById[x].clientOrderId = order.clientOrderId
    BY <1>4 DEF IInv, ClientIdsMatchOrders
  <2>2. x \in InSnapshot /\ snapshot.orders[x].clientOrderId = order.clientOrderId
    BY <1>5, <2>1
  <2>3. x = o
    BY <1>3, <1>5, <2>2
  <2> QED BY <1>3, <2>1, <2>3
<1> HIDE DEF order
<1>7. /\ orderById' \in [OrderIds -> Order \cup {NoOrder}]
      /\ queue' \in [Sides -> [Prices -> Seq(OrderIds)]]
      /\ clientOrderIdToOrderId' \in [ClientIds -> OrderIds \cup {0}]
      /\ Resting' = Resting \cup {o}
      /\ orderById'[o] = order
      /\ \A x \in Resting : orderById'[x] = orderById[x]
      /\ ListsMatchOrders'
      /\ \A x \in Resting' : clientOrderIdToOrderId'[orderById'[x].clientOrderId] = x
      /\ \A k \in ClientIds : k # order.clientOrderId =>
           clientOrderIdToOrderId'[k] = clientOrderIdToOrderId[k]
  <2>1. InsertRemainingAsResting(o, order)
    BY <1>2 DEF order
  <2> QED BY <1>3, <1>4, <1>6, <2>1, InsertKeepsBook DEF IInv
<1>8. \A x \in Resting' : orderById'[x] = snapshot.orders[x] /\ x \in InSnapshot
  BY <1>3, <1>5, <1>7 DEF order
<1>9. TypeOK'
  BY <1>1, <1>7 DEF IInv, TypeOK
<1>10. ClientIdsMatchOrders'
  <2>1. ASSUME NEW x \in Resting'
        PROVE  /\ clientOrderIdToOrderId'[orderById'[x].clientOrderId] = x
               /\ x \in idempotency'.orderIds
               /\ orderById'[x].clientOrderId \in idempotency'.clients
    BY <1>1, <1>5, <1>7, <1>8, <2>1
  <2>2. ASSUME NEW k \in ClientIds, clientOrderIdToOrderId'[k] # 0
        PROVE  /\ clientOrderIdToOrderId'[k] \in Resting'
               /\ orderById'[clientOrderIdToOrderId'[k]].clientOrderId = k
    <3>1. CASE k = order.clientOrderId
      <4>1. clientOrderIdToOrderId'[k] = o
        BY <1>7, <3>1
      <4> QED BY <1>7, <3>1, <4>1
    <3>2. CASE k # order.clientOrderId
      BY <1>7, <2>2, <3>2 DEF IInv, ClientIdsMatchOrders
    <3> QED BY <3>1, <3>2
  <2> QED BY <2>1, <2>2 DEF ClientIdsMatchOrders
<1>11. Uncrossed'
  BY <1>5, <1>8 DEF Uncrossed
<1>12. FillsAccountForOrders'
  BY <1>1, <1>5, <1>8 DEF IInv, FillsAccountForOrders
<1>13. IncomingOK' /\ FreshIds'
  BY <1>1 DEF IInv, IncomingOK, FreshIds
<1>14. SnapshotOK'
  <2>1. InSnapshot' = InSnapshot
    BY <1>1 DEF InSnapshot
  <2> QED BY <1>1, <1>8, <2>1 DEF IInv, SnapshotOK
<1> QED BY <1>7, <1>9, <1>10, <1>11, <1>12, <1>13, <1>14 DEF IInv

\* When nothing is left to insert, the snapshot's client-id map fits the book.
LEMMA EndRestoreIInv ==
  ASSUME IInv, EndRestore
  PROVE  IInv'
<1>1. /\ pc = "restoring" /\ pc' = "idle" /\ Unrestored = {}
      /\ clientOrderIdToOrderId' = snapshot.clients
      /\ snapshot' = NoSnapshot
      /\ UNCHANGED <<tradingEnabled, orderById, queue, idempotency, seqGen, incoming,
                     placed, executed>>
  BY DEF EndRestore
<1>2. Resting' = Resting /\ Resting = InSnapshot
  <2>1. Resting \subseteq InSnapshot
    BY <1>1 DEF IInv, SnapshotOK, Resting, InSnapshot
  <2> QED BY <1>1, <2>1 DEF Resting, InSnapshot, Unrestored
<1>3. \A o \in Resting : orderById[o] = snapshot.orders[o]
  BY <1>1 DEF IInv, SnapshotOK
<1>4. TypeOK'
  BY <1>1, ConstantsAssumption DEF IInv, TypeOK, NoSnapshot, NoOrders, NoClients
<1>5. ListsMatchOrders' /\ Uncrossed' /\ FillsAccountForOrders'
  BY <1>1, <1>2 DEF IInv, ListsMatchOrders, RestingAt, Uncrossed, FillsAccountForOrders
<1>6. ClientIdsMatchOrders'
  BY <1>1, <1>2, <1>3 DEF IInv, ClientIdsMatchOrders, SnapshotOK
<1>7. IncomingOK' /\ FreshIds' /\ SnapshotOK'
  BY <1>1 DEF IInv, IncomingOK, FreshIds, SnapshotOK
<1> QED BY <1>4, <1>5, <1>6, <1>7 DEF IInv

\* Every step, stuttering included.
LEMMA NextIInv == IInv /\ [Next]_vars => IInv'
<1> SUFFICES ASSUME IInv, [Next]_vars PROVE IInv'
  OBVIOUS
<1>1. CASE Command
  <2>1. ASSUME NEW c \in PlaceCommands,
               DuplicateCommand(c) \/ RejectPlace(c) \/ AcceptPlace(c)
        PROVE  IInv'
    BY <2>1, AnsweredIInv, AcceptPlaceIInv
  <2>2. ASSUME NEW c \in CancelCommands,
               DuplicateCommand(c) \/ RejectCancel(c) \/ CancelOrder(c)
        PROVE  IInv'
    BY <2>2, AnsweredIInv, CancelOrderIInv
  <2> QED BY <1>1, <2>1, <2>2 DEF Command
<1>2. CASE Loop
  BY <1>2, MatchStepIInv, RestRemainderIInv, FinishPlaceIInv, RestoreOrderIInv,
     EndRestoreIInv DEF Loop
<1>3. CASE BeginRestore
  BY <1>3, BeginRestoreIInv
<1>4. CASE UNCHANGED vars
  <2>1. /\ UNCHANGED <<tradingEnabled, orderById, queue, clientOrderIdToOrderId>>
        /\ UNCHANGED <<idempotency, seqGen, pc, incoming, snapshot, placed, executed>>
    BY <1>4 DEF vars, book
  <2>2. UNCHANGED book
    BY <2>1 DEF book
  <2>3. Resting' = Resting /\ ListsMatchOrders' /\ Uncrossed'
    BY <2>2, BookUnchanged
  <2>4. InSnapshot' = InSnapshot
    BY <2>1 DEF InSnapshot
  <2>5. TypeOK'
    BY <2>1 DEF IInv, TypeOK
  <2>6. ClientIdsMatchOrders' /\ FillsAccountForOrders'
    BY <2>1, <2>3 DEF IInv, ClientIdsMatchOrders, FillsAccountForOrders
  <2>7. IncomingOK' /\ FreshIds' /\ SnapshotOK'
    BY <2>1, <2>3, <2>4 DEF IInv, IncomingOK, FreshIds, SnapshotOK
  <2> QED BY <2>3, <2>5, <2>6, <2>7 DEF IInv
<1> QED BY <1>1, <1>2, <1>3, <1>4 DEF Next

\* The inductive invariant holds in every state, with restarts or without.
THEOREM Invariance == Spec => []IInv
<1> QED BY InitIInv, NextIInv, PTL DEF Spec

\* Types are kept: in particular a resting order always has a positive
\* remaining quantity and a valid price.
THEOREM TypeCorrect == Spec => []TypeOK
<1>1. IInv => TypeOK
  BY DEF IInv
<1> QED BY <1>1, Invariance, PTL

\* The level lists hold exactly the orders of orderById, each once, at the
\* level of its side and price.
THEOREM ListsConsistent == Spec => []ListsMatchOrders
<1>1. IInv => ListsMatchOrders
  BY DEF IInv
<1> QED BY <1>1, Invariance, PTL

\* orderById and the client-id map describe one book.
THEOREM ClientIdsConsistent == Spec => []ClientIdsMatchOrders
<1>1. IInv => ClientIdsMatchOrders
  BY DEF IInv
<1> QED BY <1>1, Invariance, PTL

\* The book is never crossed, in the middle of a match or a rebuild either.
THEOREM BookUncrossed == Spec => []Uncrossed
<1>1. IInv => Uncrossed
  BY DEF IInv
<1> QED BY <1>1, Invariance, PTL

\* No order ever trades more than was accepted for it, and a resting order's
\* remainder is exactly what it has not traded, across id reuse and restarts.
THEOREM FillsAccounted == Spec => []FillsAccountForOrders
<1>1. IInv => FillsAccountForOrders
  BY DEF IInv
<1> QED BY <1>1, Invariance, PTL

(***************************************************************************)
(* Fill or kill.  Between two iterations the opposing orders that cross    *)
(* hold at least what is left of the order: each iteration takes from them *)
(* what it gives to it.                                                    *)
(***************************************************************************)
FokOK ==
  pc = "matching" /\ incoming.command.timeInForce = "FOK" =>
    incoming.remaining <=
      AvailableCrossingLots(Opposite(incoming.command.side), MatchingPrice(incoming.command))

\* The orders of the book are finitely many, each with a quantity.
LEMMA CrossingOrdersAreFinite ==
  ASSUME IInv, NEW s, NEW price
  PROVE  /\ IsFiniteSet(CrossingOrders(s, price))
         /\ CrossingOrders(s, price) \subseteq Resting
         /\ \A o \in Resting : RemainingLots[o] = orderById[o].remainingQuantity
         /\ \A o \in Resting : RemainingLots[o] \in Nat \ {0}
<1>1. CrossingOrders(s, price) \subseteq Resting /\ Resting \subseteq OrderIds
  BY DEF CrossingOrders, Resting
<1>2. IsFiniteSet(CrossingOrders(s, price))
  BY <1>1, ConstantsAssumption, FS_Subset
<1>3. \A o \in Resting : RemainingLots[o] = orderById[o].remainingQuantity
  BY DEF RemainingLots
<1>4. \A o \in Resting : orderById[o].remainingQuantity \in Nat \ {0}
  BY RestingOrder DEF IInv, Order
<1> QED BY <1>1, <1>2, <1>3, <1>4

\* A crossing order is taken out of the book.
LEMMA CrossingOrderRemoved ==
  ASSUME IInv, NEW s, NEW price, NEW m \in CrossingOrders(s, price),
         Resting' = Resting \ {m},
         \A o \in Resting' : orderById'[o] = orderById[o]
  PROVE  AvailableCrossingLots(s, price)'
           = AvailableCrossingLots(s, price) - orderById[m].remainingQuantity
<1>1. PICK S : S = CrossingOrders(s, price) OBVIOUS
<1>2. PICK fun : fun = RemainingLots OBVIOUS
<1>3. PICK gun : gun = RemainingLots' OBVIOUS
<1>4. /\ IsFiniteSet(S) /\ S \subseteq Resting /\ m \in S
      /\ \A o \in S : fun[o] \in Int
      /\ fun[m] = orderById[m].remainingQuantity
  BY <1>1, <1>2, CrossingOrdersAreFinite
<1>5. CrossingOrders(s, price)' = S \ {m}
  BY <1>1 DEF CrossingOrders
<1>6. \A o \in S \ {m} : gun[o] = fun[o]
  BY <1>2, <1>3, <1>4 DEF RemainingLots
<1>7. IsFiniteSet(S \ {m})
  BY <1>4, FS_RemoveElement
<1>8. SumFunctionOnSet(gun, S \ {m}) = SumFunctionOnSet(fun, S \ {m})
  BY <1>6, <1>7, SumAgrees
<1>9. SumFunctionOnSet(fun, S) = fun[m] + SumFunctionOnSet(fun, S \ {m})
  BY <1>4, SumTakesOut
<1>10. SumFunctionOnSet(fun, S \ {m}) \in Int /\ fun[m] \in Int
  BY <1>4, <1>7, SumTakesOut
<1>11. /\ AvailableCrossingLots(s, price) = SumFunctionOnSet(fun, S)
       /\ AvailableCrossingLots(s, price)' = SumFunctionOnSet(gun, S \ {m})
  BY <1>1, <1>2, <1>3, <1>5 DEF AvailableCrossingLots
<1> QED BY <1>4, <1>8, <1>9, <1>10, <1>11

\* A crossing order is filled in part.
LEMMA CrossingOrderReduced ==
  ASSUME IInv, NEW s, NEW price, NEW m \in CrossingOrders(s, price), NEW fill \in Nat,
         fill < orderById[m].remainingQuantity,
         orderById' = [orderById EXCEPT ![m].remainingQuantity = @ - fill],
         Resting' = Resting
  PROVE  AvailableCrossingLots(s, price)' = AvailableCrossingLots(s, price) - fill
<1>1. PICK S : S = CrossingOrders(s, price) OBVIOUS
<1>2. PICK fun : fun = RemainingLots OBVIOUS
<1>3. PICK gun : gun = RemainingLots' OBVIOUS
<1>4. /\ IsFiniteSet(S) /\ S \subseteq Resting /\ m \in S
      /\ \A o \in Resting : fun[o] = orderById[o].remainingQuantity
      /\ \A o \in Resting : fun[o] \in Nat
  BY <1>1, <1>2, CrossingOrdersAreFinite
<1>5. /\ \A o \in Resting \ {m} : orderById'[o] = orderById[o]
      /\ orderById'[m].remainingQuantity = fun[m] - fill
      /\ orderById'[m].side = orderById[m].side
      /\ orderById'[m].price = orderById[m].price
  <2>1. orderById \in [OrderIds -> Order \cup {NoOrder}] /\ m \in Resting /\ m \in OrderIds
    BY <1>4 DEF IInv, TypeOK, Resting
  <2>2. PICK order \in Order : order = orderById[m]
    BY <2>1, RestingOrder DEF IInv
  <2>3. orderById'[m] = [order EXCEPT !.remainingQuantity = @ - fill]
    BY <2>1, <2>2
  <2>4. /\ orderById'[m].remainingQuantity = order.remainingQuantity - fill
        /\ orderById'[m].side = order.side
        /\ orderById'[m].price = order.price
    BY <2>2, <2>3 DEF Order
  <2>5. \A o \in Resting \ {m} : orderById'[o] = orderById[o]
    BY <2>1 DEF Resting
  <2> QED BY <1>4, <2>1, <2>2, <2>4, <2>5
<1>6. CrossingOrders(s, price)' = S
  <2>1. \A o \in Resting : /\ orderById'[o].side = orderById[o].side
                           /\ orderById'[o].price = orderById[o].price
    BY <1>5
  <2> QED BY <1>1, <2>1 DEF CrossingOrders
<1>7. /\ gun[m] = fun[m] - fill
      /\ \A o \in S \ {m} : gun[o] = fun[o]
  BY <1>3, <1>4, <1>5 DEF RemainingLots
<1>8. Updates(fun, gun, S, m)
  <2>1. \A o \in S : fun[o] \in Int BY <1>4
  <2>2. gun[m] \in Int BY <1>4, <1>7
  <2>3. \A o \in S : gun[o] \in Int BY <1>7, <2>1, <2>2
  <2> QED BY <1>4, <1>7, <2>1, <2>3 DEF Updates
<1>9. /\ SumFunctionOnSet(fun, S) \in Int
      /\ SumFunctionOnSet(gun, S) = SumFunctionOnSet(fun, S) - fun[m] + gun[m]
  BY <1>4, <1>8, SumOfUpdate
<1>10. /\ AvailableCrossingLots(s, price) = SumFunctionOnSet(fun, S)
       /\ AvailableCrossingLots(s, price)' = SumFunctionOnSet(gun, S)
  BY <1>1, <1>2, <1>3, <1>6 DEF AvailableCrossingLots
<1> DEFINE a == SumFunctionOnSet(fun, S)
<1>11. fun[m] \in Nat /\ a \in Int /\ SumFunctionOnSet(gun, S) = a - fun[m] + (fun[m] - fill)
  BY <1>4, <1>7, <1>9
<1> HIDE DEF a
<1>12. SumFunctionOnSet(gun, S) = a - fill
  BY <1>11
<1> QED BY <1>10, <1>12 DEF a

\* An iteration takes from the crossing orders what it gives to the incoming one.
LEMMA MatchStepFok ==
  ASSUME IInv, FokOK, MatchStep
  PROVE  FokOK'
<1>1. PICK s : s = Opposite(incoming.command.side) OBVIOUS
<1>2. PICK m : m = Head(queue[s][BestLevel(s)]) OBVIOUS
<1>3. PICK rest : rest = orderById[m].remainingQuantity OBVIOUS
<1>4. PICK fill : fill = IF incoming.remaining < rest THEN incoming.remaining ELSE rest
  OBVIOUS
<1>5. PICK price : price = MatchingPrice(incoming.command) OBVIOUS
<1>6. /\ pc = "matching" /\ pc' = pc
      /\ incoming' = [incoming EXCEPT !.remaining = @ - fill]
      /\ \/ rest = fill /\ RemoveFromBook(m)
         \/ /\ rest # fill
            /\ orderById' = [orderById EXCEPT ![m].remainingQuantity = @ - fill]
      /\ ActivePrices(s) # {} /\ CrossesLevel(s, price, BestLevel(s))
  BY <1>1, <1>2, <1>3, <1>4, <1>5 DEF MatchStep, CanMatch, PriceCrosses
<1>7. s \in Sides
  BY <1>1 DEF Opposite, Sides
<1>8. m \in Resting /\ orderById[m].side = s /\ orderById[m].price = BestLevel(s)
  <2>1. BestLevel(s) \in Prices /\ queue[s][BestLevel(s)] # <<>>
    BY <1>6, <1>7, BestLevelIsBest DEF ActivePrices
  <2>2. /\ queue[s][BestLevel(s)] \in Seq(OrderIds)
        /\ IsListOf(queue[s][BestLevel(s)], RestingAt(s, BestLevel(s)))
    BY <1>7, <2>1 DEF IInv, TypeOK, ListsMatchOrders
  <2>3. RestingAt(s, BestLevel(s)) \in SUBSET OrderIds
    BY DEF RestingAt, Resting
  <2>4. m \in RestingAt(s, BestLevel(s))
    BY <1>2, <2>1, <2>2, <2>3, HeadOfList
  <2> QED BY <2>4 DEF RestingAt
<1>9. m \in CrossingOrders(s, price)
  BY <1>6, <1>8 DEF CrossingOrders
<1>10. /\ incoming \in IncomingType /\ incoming.remaining \in Nat
       /\ rest \in Nat /\ fill \in Nat /\ fill <= rest
  <2>1. incoming \in IncomingType /\ incoming.remaining \in Nat
    BY <1>6 DEF IInv, TypeOK, IncomingType
  <2>2. rest \in Nat
    BY <1>3, <1>8, RestingOrder DEF IInv, Order
  <2> QED BY <1>4, <2>1, <2>2
<1>11. /\ incoming'.remaining = incoming.remaining - fill
       /\ incoming'.command = incoming.command
  BY <1>6, <1>10 DEF IncomingType
<1>12. AvailableCrossingLots(s, price)' = AvailableCrossingLots(s, price) - fill
  <2>1. orderById \in [OrderIds -> Order \cup {NoOrder}] /\ m \in OrderIds
        /\ orderById[m] \in Order
    BY <1>8, RestingOrder DEF IInv, TypeOK
  <2>2. CASE rest = fill /\ RemoveFromBook(m)
    <3>1. Resting' = Resting \ {m} /\ \A o \in Resting' : orderById'[o] = orderById[o]
      BY <2>1, <2>2 DEF RemoveFromBook, Resting
    <3> QED BY <1>3, <1>9, <2>2, <3>1, CrossingOrderRemoved
  <2>3. CASE /\ rest # fill
             /\ orderById' = [orderById EXCEPT ![m].remainingQuantity = @ - fill]
    <3>1. fill < orderById[m].remainingQuantity
      BY <1>3, <1>10, <2>3
    <3>2. Resting' = Resting
      <4>1. orderById'[m] = [orderById[m] EXCEPT !.remainingQuantity = @ - fill]
        BY <2>1, <2>3
      <4>2. PICK order \in Order : order = orderById[m]
        BY <2>1
      <4>3. order = [clientOrderId |-> order.clientOrderId, userId |-> order.userId,
                     side |-> order.side, price |-> order.price,
                     originalQuantity |-> order.originalQuantity,
                     remainingQuantity |-> order.remainingQuantity,
                     sequenceAccepted |-> order.sequenceAccepted]
        BY DEF Order
      <4>4. orderById'[m] = [clientOrderId |-> order.clientOrderId, userId |-> order.userId,
                             side |-> order.side, price |-> order.price,
                             originalQuantity |-> order.originalQuantity,
                             remainingQuantity |-> order.remainingQuantity - fill,
                             sequenceAccepted |-> order.sequenceAccepted]
        <5>1. orderById'[m] = [order EXCEPT !.remainingQuantity = @ - fill]
          BY <4>1, <4>2
        <5> QED BY <4>3, <5>1
      <4>5. order.remainingQuantity - fill \in Nat \ {0}
        BY <1>3, <1>10, <3>1, <4>2
      <4>6. orderById'[m] \in Order
        BY <4>4, <4>5 DEF Order
      <4>7. orderById'[m] # NoOrder
        BY <4>6, ConstantsAssumption
      <4>8. \A o \in OrderIds \ {m} : orderById'[o] = orderById[o]
        BY <2>1, <2>3
      <4> QED BY <1>8, <4>7, <4>8 DEF Resting
    <3> QED BY <1>9, <1>10, <2>3, <3>1, <3>2, CrossingOrderReduced
  <2> QED BY <1>6, <2>2, <2>3
<1>13. AvailableCrossingLots(s, price) \in Int
  <2>1. PICK S : S = CrossingOrders(s, price) OBVIOUS
  <2>2. PICK fun : fun = RemainingLots OBVIOUS
  <2>3. IsFiniteSet(S) /\ \A o \in S : fun[o] \in Int
    BY <2>1, <2>2, CrossingOrdersAreFinite
  <2>4. SumFunctionOnSet(fun, S) \in Int
    BY <2>3, SumTakesOut
  <2> QED BY <2>1, <2>2, <2>4 DEF AvailableCrossingLots
<1>14. ASSUME incoming.command.timeInForce = "FOK"
       PROVE  incoming'.remaining <= AvailableCrossingLots(s, price)'
  <2>1. incoming.remaining <= AvailableCrossingLots(s, price)
    BY <1>1, <1>5, <1>6, <1>14 DEF FokOK
  <2> DEFINE a == AvailableCrossingLots(s, price)
             b == AvailableCrossingLots(s, price)'
             left == incoming'.remaining
             before == incoming.remaining
  <2>2. a \in Int /\ b = a - fill /\ before <= a /\ before \in Nat /\ fill \in Nat
        /\ left = before - fill
    BY <1>10, <1>11, <1>12, <1>13, <2>1
  <2> HIDE DEF a, b, left, before
  <2>3. left <= b
    BY <2>2
  <2> QED BY <2>3 DEF left, b
<1>15. /\ Opposite(incoming'.command.side) = s
       /\ MatchingPrice(incoming'.command) = price
  BY <1>1, <1>5, <1>11
<1> QED BY <1>11, <1>14, <1>15 DEF FokOK

\* The check of process_place establishes it, and no other step disturbs it.
LEMMA NextFok == IInv /\ FokOK /\ [Next]_vars => FokOK'
<1> SUFFICES ASSUME IInv, FokOK, [Next]_vars PROVE FokOK'
  OBVIOUS
<1>1. ASSUME NEW c \in PlaceCommands, AcceptPlace(c) PROVE FokOK'
  <2>1. /\ incoming' = [orderId |-> c.orderId, command |-> c, remaining |-> c.quantity,
                        sequenceAccepted |-> seqGen.nextSequence]
        /\ UNCHANGED <<orderById, queue, clientOrderIdToOrderId>>
        /\ c.timeInForce = "FOK" =>
             AvailableCrossingLots(Opposite(c.side), MatchingPrice(c)) >= c.quantity
    BY <1>1 DEF AcceptPlace, Accepts, BookAccepts, book
  <2>2. incoming'.command = c /\ incoming'.remaining = c.quantity
    BY <2>1
  <2>3. PICK s : s = Opposite(c.side) OBVIOUS
  <2>4. PICK price : price = MatchingPrice(c) OBVIOUS
  <2>5. AvailableCrossingLots(s, price)' = AvailableCrossingLots(s, price)
    <3>1. Resting' = Resting BY <2>1 DEF Resting
    <3>2. RemainingLots' = RemainingLots BY <2>1, <3>1 DEF RemainingLots
    <3>3. CrossingOrders(s, price)' = CrossingOrders(s, price)
      BY <2>1, <3>1 DEF CrossingOrders
    <3> QED BY <3>2, <3>3 DEF AvailableCrossingLots
  <2>6. c.quantity \in Nat
    BY ConstantsAssumption DEF PlaceCommand
  <2>7. AvailableCrossingLots(s, price) \in Int
    <3>1. PICK S : S = CrossingOrders(s, price) OBVIOUS
    <3>2. PICK fun : fun = RemainingLots OBVIOUS
    <3>3. IsFiniteSet(S) /\ \A o \in S : fun[o] \in Int
      BY <3>1, <3>2, CrossingOrdersAreFinite
    <3>4. SumFunctionOnSet(fun, S) \in Int
      BY <3>3, SumTakesOut
    <3> QED BY <3>1, <3>2, <3>4 DEF AvailableCrossingLots
  <2>8. ASSUME c.timeInForce = "FOK" PROVE c.quantity <= AvailableCrossingLots(s, price)'
    BY <2>1, <2>3, <2>4, <2>5, <2>6, <2>7, <2>8
  <2> QED BY <2>2, <2>3, <2>4, <2>8 DEF FokOK
<1>2. CASE MatchStep
  BY <1>2, MatchStepFok
<1>3. CASE Loop /\ ~MatchStep
  BY <1>3 DEF Loop, RestRemainder, FinishPlace, RestoreOrder, EndRestore, FokOK
<1>4. CASE BeginRestore
  BY <1>4 DEF BeginRestore, FokOK
<1>5. ASSUME NEW c \in PlaceCommands \cup CancelCommands,
             DuplicateCommand(c) \/ RejectPlace(c) \/ RejectCancel(c) \/ CancelOrder(c)
      PROVE  FokOK'
  BY <1>5 DEF DuplicateCommand, RejectPlace, RejectCancel, CancelOrder, Accepting, FokOK
<1>6. CASE UNCHANGED vars
  <2>1. /\ UNCHANGED <<orderById, queue, clientOrderIdToOrderId>>
        /\ UNCHANGED <<pc, incoming>>
    BY <1>6 DEF vars, book
  <2> QED BY <2>1 DEF FokOK, AvailableCrossingLots, RemainingLots, CrossingOrders, Resting
<1> QED BY <1>1, <1>2, <1>3, <1>4, <1>5, <1>6 DEF Next, Command

\* When nothing crosses any more there is nothing left to fill.
LEMMA FokFilled ==
  ASSUME IInv, FokOK
  PROVE  FokAllOrNothing
<1> SUFFICES ASSUME pc = "matching", ~CanMatch, incoming.command.timeInForce = "FOK",
                    incoming.remaining # 0
             PROVE  FALSE
  BY DEF FokAllOrNothing
<1>1. PICK s : s = Opposite(incoming.command.side) OBVIOUS
<1>2. PICK price : price = MatchingPrice(incoming.command) OBVIOUS
<1>3. ~PriceCrosses(s, price) /\ s \in Sides
  BY <1>1, <1>2 DEF CanMatch, Opposite, Sides
<1>4. price \in Int /\ incoming.remaining \in Nat
  BY <1>2, ConstantsAssumption
     DEF IInv, TypeOK, IncomingType, PlaceCommand, MatchingPrice
<1>5. CrossingOrders(s, price) = {}
  <2> SUFFICES ASSUME NEW o \in CrossingOrders(s, price) PROVE FALSE
    OBVIOUS
  <2>1. /\ o \in Resting /\ orderById[o].side = s
        /\ CrossesLevel(s, price, orderById[o].price)
    BY DEF CrossingOrders
  <2>2. orderById[o].price \in ActivePrices(s)
    BY <2>1, RestingPriceActive
  <2> QED BY <1>3, <1>4, <2>1, <2>2, NoCrossingLevel
<1>6. AvailableCrossingLots(s, price) = 0
  BY <1>5, SumEmpty DEF AvailableCrossingLots
<1>7. incoming.remaining <= 0
  BY <1>1, <1>2, <1>6 DEF FokOK
<1> QED BY <1>4, <1>7

\* A fill-or-kill order that was accepted is filled completely when the matching
\* loop stops, whatever levels and orders it met.
THEOREM FokIsAllOrNothing == Spec => []FokAllOrNothing
<1>1. Init => IInv /\ FokOK
  <2>1. Init => FokOK BY DEF Init, FokOK
  <2> QED BY <2>1, InitIInv
<1>2. IInv /\ FokOK /\ [Next]_vars => (IInv /\ FokOK)'
  BY NextIInv, NextFok
<1>3. IInv /\ FokOK => FokAllOrNothing
  BY FokFilled
<1> QED BY <1>1, <1>2, <1>3, PTL DEF Spec

(***************************************************************************)
(* Price-time priority within one process lifetime.  A level's list is in  *)
(* the order its orders were accepted, since an order joins the tail       *)
(* before any later one is accepted; a rebuild queues them by id instead,  *)
(* so that a step of this specification is any but BeginRestore.           *)
(***************************************************************************)
LifetimeSpec == Init /\ [][Command \/ Loop]_vars

\* The list q is in ascending order of g.
Ascends(q, g) == \A i, j \in 1 .. Len(q) : i < j => g[q[i]] < g[q[j]]

\* An order later than all others joins the tail.
LEMMA AppendAscends ==
  ASSUME NEW T, NEW S \in SUBSET T, NEW q \in Seq(T), NEW o \in T \ S,
         IsListOf(q, S), NEW g, NEW h, Ascends(q, g),
         \A x \in S : h[x] = g[x] /\ g[x] < h[o]
  PROVE  Ascends(Append(q, o), h)
<1>1. /\ Len(Append(q, o)) = Len(q) + 1 /\ Len(q) \in Nat
      /\ \A i \in 1 .. Len(q) : Append(q, o)[i] = q[i]
      /\ Append(q, o)[Len(q) + 1] = o
  OBVIOUS
<1>2. \A i \in 1 .. Len(q) : q[i] \in S
  BY DEF IsListOf
<1>3. ASSUME NEW i \in 1 .. Len(q) + 1, NEW j \in 1 .. Len(q) + 1, i < j
      PROVE  h[Append(q, o)[i]] < h[Append(q, o)[j]]
  <2>1. i \in 1 .. Len(q) BY <1>1, <1>3
  <2>2. CASE j = Len(q) + 1 BY <1>1, <1>2, <2>1, <2>2
  <2>3. CASE j # Len(q) + 1
    <3>1. j \in 1 .. Len(q) BY <1>1, <2>3
    <3>2. g[q[i]] < g[q[j]] BY <1>3, <2>1, <3>1 DEF Ascends
    <3> QED BY <1>1, <1>2, <2>1, <3>1, <3>2
  <2> QED BY <2>2, <2>3
<1> QED BY <1>1, <1>3 DEF Ascends

\* An order leaves.
LEMMA UnlinkAscends ==
  ASSUME NEW T, NEW S \in SUBSET T, NEW q \in Seq(T), NEW o \in S,
         IsListOf(q, S), NEW g, NEW h, Ascends(q, g),
         \A x \in S \ {o} : h[x] = g[x]
  PROVE  Ascends(Unlink(q, o), h)
<1> DEFINE k == Position(q, o)
           n == Len(q)
           r == Unlink(q, o)
<1>1. k \in 1 .. n /\ q[k] = o
  BY DEF IsListOf, Position
<1>2. n \in Nat
  OBVIOUS
<1> HIDE DEF k
<1>3. r = [i \in 1 .. n - 1 |-> IF i < k THEN q[i] ELSE q[i + 1]]
  BY DEF Unlink, k
<1>4. Len(r) = n - 1
  BY <1>1, <1>2, <1>3
<1>5. ASSUME NEW i \in 1 .. n - 1
      PROVE  \E a \in 1 .. n : /\ a # k /\ r[i] = q[a]
                               /\ (i < k => a = i) /\ (~(i < k) => a = i + 1)
  <2> HIDE DEF r
  <2>1. CASE i < k
    <3>1. i \in 1 .. n /\ i # k /\ r[i] = q[i] BY <1>1, <1>2, <1>3, <2>1
    <3> QED BY <2>1, <3>1
  <2>2. CASE ~(i < k)
    <3>1. i + 1 \in 1 .. n /\ i + 1 # k /\ r[i] = q[i + 1] BY <1>1, <1>2, <1>3, <2>2
    <3> QED BY <2>2, <3>1
  <2> QED BY <2>1, <2>2
<1>6. \A a \in 1 .. n : a # k => q[a] \in S \ {o}
  BY <1>1 DEF IsListOf
<1> HIDE DEF r, n
<1>7. ASSUME NEW i \in 1 .. n - 1, NEW j \in 1 .. n - 1, i < j
      PROVE  h[r[i]] < h[r[j]]
  <2>1. PICK a \in 1 .. n : /\ a # k /\ r[i] = q[a]
                            /\ (i < k => a = i) /\ (~(i < k) => a = i + 1)
    BY <1>5
  <2>2. PICK b \in 1 .. n : /\ b # k /\ r[j] = q[b]
                            /\ (j < k => b = j) /\ (~(j < k) => b = j + 1)
    BY <1>5
  <2>3. a < b
    BY <1>1, <1>2, <1>7, <2>1, <2>2
  <2>4. g[q[a]] < g[q[b]]
    BY <2>3 DEF Ascends, n
  <2> QED BY <1>6, <2>1, <2>2, <2>4
<1> QED BY <1>4, <1>7 DEF Ascends, r

\* When each order of the book was accepted.
Acceptance == [o \in Resting |-> orderById[o].sequenceAccepted]

ListsAscend == \A s \in Sides : \A p \in Prices : Ascends(queue[s][p], Acceptance)

\* Whatever rests was accepted before the order being matched, and that before
\* the next.
AcceptedBefore ==
  /\ \A o \in Resting : Acceptance[o] < seqGen.nextSequence
  /\ pc = "matching" =>
       /\ incoming.sequenceAccepted < seqGen.nextSequence
       /\ \A o \in Resting : Acceptance[o] < incoming.sequenceAccepted

PriorityInv == pc # "restoring" /\ ListsAscend /\ AcceptedBefore

\* The lists of a book whose orders keep their places.
LEMMA BookKeepsAscending ==
  ASSUME IInv, ListsAscend, UNCHANGED queue, Resting' = Resting,
         \A o \in Resting : orderById'[o].sequenceAccepted = orderById[o].sequenceAccepted
  PROVE  ListsAscend' /\ Acceptance' = Acceptance
<1>1. Acceptance' = Acceptance
  BY DEF Acceptance
<1> QED BY <1>1 DEF ListsAscend

\* The lists when an order is taken out of the book.
LEMMA RemoveKeepsAscending ==
  ASSUME IInv, ListsAscend, NEW o \in Resting, RemoveFromBook(o)
  PROVE  /\ ListsAscend'
         /\ Resting' \subseteq Resting
         /\ \A x \in Resting' : Acceptance'[x] = Acceptance[x]
<1>1. /\ Resting' = Resting \ {o}
      /\ \A x \in Resting' : orderById'[x] = orderById[x]
  BY RemoveKeepsBook DEF IInv
<1>2. \A x \in Resting \ {o} : Acceptance'[x] = Acceptance[x]
  BY <1>1 DEF Acceptance
<1>3. PICK side : side = orderById[o].side OBVIOUS
<1>4. PICK price : price = orderById[o].price OBVIOUS
<1>5. side \in Sides /\ price \in Prices
  BY <1>3, <1>4, RestingOrder DEF IInv, Order
<1>6. queue' = [queue EXCEPT ![side][price] = Unlink(queue[side][price], o)]
  BY <1>3, <1>4 DEF RemoveFromBook
<1>7. PICK g : g = Acceptance OBVIOUS
<1>8. PICK h : h = Acceptance' OBVIOUS
<1>9. ASSUME NEW s \in Sides, NEW p \in Prices PROVE Ascends(queue'[s][p], h)
  <2>1. PICK S : S = RestingAt(s, p) OBVIOUS
  <2>2. PICK q : q = queue[s][p] OBVIOUS
  <2>3. q \in Seq(OrderIds) /\ IsListOf(q, S) /\ S \in SUBSET OrderIds /\ S \subseteq Resting
    <3>1. q \in Seq(OrderIds) BY <2>2 DEF IInv, TypeOK
    <3>2. IsListOf(q, S) BY <2>1, <2>2 DEF IInv, ListsMatchOrders
    <3>3. S \in SUBSET OrderIds /\ S \subseteq Resting BY <2>1 DEF RestingAt, Resting
    <3> QED BY <3>1, <3>2, <3>3
  <2>4. Ascends(q, g)
    BY <1>7, <2>2 DEF ListsAscend
  <2>5. CASE s = side /\ p = price
    <3>1. queue'[s][p] = Unlink(q, o)
      BY <1>5, <1>6, <2>2, <2>5 DEF IInv, TypeOK
    <3>2. o \in S
      BY <1>3, <1>4, <2>1, <2>5 DEF RestingAt
    <3>3. \A x \in S \ {o} : h[x] = g[x]
      BY <1>2, <1>7, <1>8, <2>3
    <3>4. Ascends(Unlink(q, o), h)
      BY <2>3, <2>4, <3>2, <3>3, UnlinkAscends
    <3> QED BY <3>1, <3>4
  <2>6. CASE ~(s = side /\ p = price)
    <3>1. queue'[s][p] = q
      BY <1>5, <1>6, <2>2, <2>6 DEF IInv, TypeOK
    <3>2. o \notin S
      BY <1>3, <1>4, <2>1, <2>6 DEF RestingAt
    <3>3. \A i \in 1 .. Len(q) : h[q[i]] = g[q[i]]
      BY <1>2, <1>7, <1>8, <2>3, <3>2 DEF IsListOf
    <3> QED BY <2>4, <3>1, <3>3 DEF Ascends
  <2> QED BY <2>5, <2>6
<1> QED BY <1>1, <1>2, <1>8, <1>9 DEF ListsAscend

\* The lists when the order accepted last is put into the book.
LEMMA InsertKeepsAscending ==
  ASSUME IInv, ListsAscend, NEW o \in OrderIds, o \notin Resting, NEW order \in Order,
         clientOrderIdToOrderId[order.clientOrderId] = 0,
         \A x \in Resting : Acceptance[x] < order.sequenceAccepted,
         InsertRemainingAsResting(o, order)
  PROVE  /\ ListsAscend'
         /\ Resting' = Resting \cup {o}
         /\ \A x \in Resting : Acceptance'[x] = Acceptance[x]
         /\ Acceptance'[o] = order.sequenceAccepted
<1>1. /\ Resting' = Resting \cup {o}
      /\ orderById'[o] = order
      /\ \A x \in Resting : orderById'[x] = orderById[x]
  BY InsertKeepsBook DEF IInv
<1>2. /\ \A x \in Resting : Acceptance'[x] = Acceptance[x]
      /\ Acceptance'[o] = order.sequenceAccepted
  BY <1>1 DEF Acceptance
<1>3. PICK side : side = order.side OBVIOUS
<1>4. PICK price : price = order.price OBVIOUS
<1>5. side \in Sides /\ price \in Prices
  BY <1>3, <1>4 DEF Order
<1>6. queue' = [queue EXCEPT ![side][price] = Append(queue[side][price], o)]
  BY <1>3, <1>4 DEF InsertRemainingAsResting
<1>7. PICK g : g = Acceptance OBVIOUS
<1>8. PICK h : h = Acceptance' OBVIOUS
<1>9. ASSUME NEW s \in Sides, NEW p \in Prices PROVE Ascends(queue'[s][p], h)
  <2>1. PICK S : S = RestingAt(s, p) OBVIOUS
  <2>2. PICK q : q = queue[s][p] OBVIOUS
  <2>3. q \in Seq(OrderIds) /\ IsListOf(q, S) /\ S \in SUBSET OrderIds /\ S \subseteq Resting
    <3>1. q \in Seq(OrderIds) BY <2>2 DEF IInv, TypeOK
    <3>2. IsListOf(q, S) BY <2>1, <2>2 DEF IInv, ListsMatchOrders
    <3>3. S \in SUBSET OrderIds /\ S \subseteq Resting BY <2>1 DEF RestingAt, Resting
    <3> QED BY <3>1, <3>2, <3>3
  <2>4. Ascends(q, g)
    BY <1>7, <2>2 DEF ListsAscend
  <2>5. \A x \in S : h[x] = g[x] /\ g[x] < h[o]
    BY <1>2, <1>7, <1>8, <2>3
  <2>6. CASE s = side /\ p = price
    <3>1. queue'[s][p] = Append(q, o)
      BY <1>5, <1>6, <2>2, <2>6 DEF IInv, TypeOK
    <3>2. o \in OrderIds \ S
      BY <2>3
    <3>3. Ascends(Append(q, o), h)
      BY <2>3, <2>4, <2>5, <3>2, AppendAscends
    <3> QED BY <3>1, <3>3
  <2>7. CASE ~(s = side /\ p = price)
    <3>1. queue'[s][p] = q
      BY <1>5, <1>6, <2>2, <2>7 DEF IInv, TypeOK
    <3>2. \A i \in 1 .. Len(q) : h[q[i]] = g[q[i]]
      BY <2>3, <2>5 DEF IsListOf
    <3> QED BY <2>4, <3>1, <3>2 DEF Ascends
  <2> QED BY <2>6, <2>7
<1> QED BY <1>1, <1>2, <1>8, <1>9 DEF ListsAscend

\* Acceptances are sequence numbers.
LEMMA AcceptanceType ==
  ASSUME IInv
  PROVE  /\ \A o \in Resting : Acceptance[o] \in Nat
         /\ seqGen.nextSequence \in Nat
         /\ pc = "matching" => incoming.sequenceAccepted \in Nat
<1>1. \A o \in Resting : Acceptance[o] \in Nat
  BY RestingOrder DEF IInv, Order, Acceptance
<1>2. seqGen.nextSequence \in Nat /\ (pc = "matching" => incoming.sequenceAccepted \in Nat)
  BY DEF IInv, TypeOK, IncomingType
<1> QED BY <1>1, <1>2

\* The maker of an iteration heads the best level of its side.
LEMMA MatchStepTakes ==
  ASSUME IInv, MatchStep
  PROVE  \E m \in Resting, p \in Prices :
           LET s == Opposite(incoming.command.side)
           IN  /\ orderById[m].side = s /\ orderById[m].price = p
               /\ p = BestLevel(s) /\ ActivePrices(s) # {}
               /\ queue[s][p] # <<>> /\ m = Head(queue[s][p])
               /\ \A o \in OrderIds \ {m, incoming.orderId} : executed'[o] = executed[o]
               /\ incoming'.sequenceAccepted = incoming.sequenceAccepted
               /\ seqGen'.nextSequence = seqGen.nextSequence + 4
               /\ pc = "matching" /\ pc' = pc
               /\ \/ RemoveFromBook(m)
                  \/ /\ UNCHANGED queue /\ Resting' = Resting
                     /\ \A o \in Resting : orderById'[o].sequenceAccepted
                                             = orderById[o].sequenceAccepted
<1>1. PICK s : s = Opposite(incoming.command.side) OBVIOUS
<1>2. PICK p : p = BestLevel(s) OBVIOUS
<1>3. PICK m : m = Head(queue[s][p]) OBVIOUS
<1>4. PICK rest : rest = orderById[m].remainingQuantity OBVIOUS
<1>5. PICK fill : fill = IF incoming.remaining < rest THEN incoming.remaining ELSE rest
  OBVIOUS
<1>6. /\ pc = "matching" /\ pc' = pc
      /\ incoming' = [incoming EXCEPT !.remaining = @ - fill]
      /\ \/ rest = fill /\ RemoveFromBook(m)
         \/ /\ rest # fill
            /\ orderById' = [orderById EXCEPT ![m].remainingQuantity = @ - fill]
            /\ UNCHANGED queue
      /\ executed' = [executed EXCEPT ![m] = @ + fill, ![incoming.orderId] = @ + fill]
      /\ seqGen' = [nextSequence |-> seqGen.nextSequence + 4,
                    nextEventId  |-> seqGen.nextEventId + 4,
                    nextTradeId  |-> seqGen.nextTradeId + 1]
      /\ ActivePrices(s) # {}
  BY <1>1, <1>2, <1>3, <1>4, <1>5 DEF MatchStep, CanMatch, PriceCrosses
<1>7. s \in Sides
  BY <1>1 DEF Opposite, Sides
<1>8. p \in Prices /\ queue[s][p] # <<>>
  BY <1>2, <1>6, <1>7, BestLevelIsBest DEF ActivePrices
<1>9. m \in Resting /\ orderById[m].side = s /\ orderById[m].price = p
  <2>1. /\ queue[s][p] \in Seq(OrderIds)
        /\ IsListOf(queue[s][p], RestingAt(s, p))
    BY <1>7, <1>8 DEF IInv, TypeOK, ListsMatchOrders
  <2>2. RestingAt(s, p) \in SUBSET OrderIds
    BY DEF RestingAt, Resting
  <2>3. m \in RestingAt(s, p)
    BY <1>3, <1>8, <2>1, <2>2, HeadOfList
  <2> QED BY <2>3 DEF RestingAt
<1>10. \A o \in OrderIds \ {m, incoming.orderId} : executed'[o] = executed[o]
  BY <1>6 DEF IInv, TypeOK
<1>11. incoming'.sequenceAccepted = incoming.sequenceAccepted
  BY <1>6 DEF IInv, TypeOK, IncomingType
<1>12. seqGen'.nextSequence = seqGen.nextSequence + 4
  BY <1>6
<1>13. CASE /\ rest # fill
            /\ orderById' = [orderById EXCEPT ![m].remainingQuantity = @ - fill]
            /\ UNCHANGED queue
  <2>1. orderById \in [OrderIds -> Order \cup {NoOrder}] /\ m \in OrderIds
    BY <1>9, RestingOrder DEF IInv, TypeOK
  <2>2. PICK order \in Order : order = orderById[m]
    BY <1>9, RestingOrder DEF IInv
  <2>3. orderById'[m] = [order EXCEPT !.remainingQuantity = order.remainingQuantity - fill]
    BY <1>13, <2>1, <2>2
  <2>4. fill < order.remainingQuantity /\ fill \in Nat /\ order.remainingQuantity \in Nat
    <3>1. incoming.remaining \in Nat /\ rest \in Nat
      BY <1>4, <1>6, <2>2 DEF IInv, TypeOK, IncomingType, Order
    <3> QED BY <1>4, <1>5, <1>13, <2>2, <3>1
  <2>5. /\ orderById'[m] \in Order
        /\ orderById'[m].sequenceAccepted = order.sequenceAccepted
    <3>1. PICK left : left = order.remainingQuantity - fill OBVIOUS
    <3>2. left \in Nat \ {0} BY <2>4, <3>1
    <3>3. orderById'[m] = [order EXCEPT !.remainingQuantity = left] BY <2>3, <3>1
    <3> QED BY <3>2, <3>3 DEF Order
  <2>6. orderById'[m] # NoOrder
    BY <2>5, ConstantsAssumption
  <2>7. \A o \in OrderIds \ {m} : orderById'[o] = orderById[o]
    BY <1>13, <2>1
  <2>8. Resting' = Resting
    BY <1>9, <2>6, <2>7 DEF Resting
  <2>9. \A o \in Resting : orderById'[o].sequenceAccepted = orderById[o].sequenceAccepted
    BY <2>2, <2>5, <2>7 DEF Resting
  <2> QED BY <1>1, <1>2, <1>3, <1>6, <1>8, <1>9, <1>10, <1>11, <1>12, <1>13, <2>8, <2>9
<1>14. CASE RemoveFromBook(m)
  BY <1>1, <1>2, <1>3, <1>6, <1>8, <1>9, <1>10, <1>11, <1>12, <1>14
<1> QED BY <1>6, <1>13, <1>14

\* Every step but the rebuild keeps the lists in order.
LEMMA NextPriority ==
  ASSUME IInv, PriorityInv, [Command \/ Loop]_vars
  PROVE  PriorityInv'
<1> DEFINE next == seqGen.nextSequence
<1>0. /\ \A o \in Resting : Acceptance[o] \in Nat
      /\ next \in Nat
      /\ pc = "matching" => incoming.sequenceAccepted \in Nat
      /\ ListsAscend /\ AcceptedBefore /\ pc # "restoring"
  BY AcceptanceType DEF PriorityInv
<1>1. ASSUME UNCHANGED book PROVE ListsAscend' /\ Acceptance' = Acceptance /\ Resting' = Resting
  <2>1. UNCHANGED <<orderById, queue, clientOrderIdToOrderId>> BY <1>1 DEF book
  <2>2. Resting' = Resting BY <2>1 DEF Resting
  <2> QED BY <1>0, <2>1, <2>2, BookKeepsAscending
<1>2. ASSUME NEW n \in Nat, EmitEvents(n) PROVE seqGen'.nextSequence = next + n
  <2>1. seqGen \in SeqGenType BY IInvTypes
  <2> QED BY <1>2, <2>1 DEF EmitEvents, SeqGenType
<1>3. ASSUME NEW c \in PlaceCommands \cup CancelCommands,
             DuplicateCommand(c) \/ RejectPlace(c) \/ RejectCancel(c)
      PROVE  PriorityInv'
  <2>1. UNCHANGED book /\ EmitEvents(1) /\ pc = "idle" /\ pc' = pc
    BY <1>3 DEF DuplicateCommand, RejectPlace, RejectCancel, Accepting
  <2>2. seqGen'.nextSequence = next + 1 BY <1>2, <2>1
  <2> QED BY <1>0, <1>1, <2>1, <2>2 DEF PriorityInv, AcceptedBefore
<1>4. ASSUME NEW c \in PlaceCommands, AcceptPlace(c) PROVE PriorityInv'
  <2>1. /\ UNCHANGED book /\ EmitEvents(1) /\ pc' = "matching"
        /\ incoming'.sequenceAccepted = next
    BY <1>4 DEF AcceptPlace
  <2>2. seqGen'.nextSequence = next + 1 BY <1>2, <2>1
  <2> QED BY <1>0, <1>1, <2>1, <2>2 DEF PriorityInv, AcceptedBefore
<1>5. ASSUME NEW c \in CancelCommands, CancelOrder(c) PROVE PriorityInv'
  <2>1. PICK o : o = CancelTarget(c) OBVIOUS
  <2>2. o \in Resting /\ RemoveFromBook(o) /\ EmitEvents(2) /\ pc = "idle" /\ pc' = pc
    BY <1>5, <2>1 DEF CancelOrder, Cancellable, Accepting
  <2>3. seqGen'.nextSequence = next + 2 BY <1>2, <2>2
  <2>4. /\ ListsAscend' /\ Resting' \subseteq Resting
        /\ \A x \in Resting' : Acceptance'[x] = Acceptance[x]
    BY <1>0, <2>2, RemoveKeepsAscending
  <2>5. \A x \in Resting' : Acceptance'[x] < seqGen'.nextSequence
    BY <1>0, <2>3, <2>4 DEF AcceptedBefore
  <2> QED BY <2>2, <2>4, <2>5 DEF PriorityInv, AcceptedBefore
<1>6. CASE MatchStep
  <2>1. PICK m \in Resting :
          /\ incoming'.sequenceAccepted = incoming.sequenceAccepted
          /\ seqGen'.nextSequence = seqGen.nextSequence + 4
          /\ pc = "matching" /\ pc' = pc
          /\ \/ RemoveFromBook(m)
             \/ /\ UNCHANGED queue /\ Resting' = Resting
                /\ \A o \in Resting : orderById'[o].sequenceAccepted
                                        = orderById[o].sequenceAccepted
    BY <1>6, MatchStepTakes
  <2>2. /\ ListsAscend' /\ Resting' \subseteq Resting
        /\ \A x \in Resting' : Acceptance'[x] = Acceptance[x]
    <3>1. CASE RemoveFromBook(m) BY <1>0, <3>1, RemoveKeepsAscending
    <3>2. CASE /\ UNCHANGED queue /\ Resting' = Resting
               /\ \A o \in Resting : orderById'[o].sequenceAccepted
                                       = orderById[o].sequenceAccepted
      BY <1>0, <3>2, BookKeepsAscending
    <3> QED BY <2>1, <3>1, <3>2
  <2> DEFINE seq == incoming.sequenceAccepted
  <2>3. seq \in Nat /\ seq < next /\ next \in Nat /\ \A x \in Resting : Acceptance[x] < seq
    BY <1>0, <2>1 DEF AcceptedBefore
  <2>4. seqGen'.nextSequence = next + 4 /\ incoming'.sequenceAccepted = seq
    BY <2>1
  <2> HIDE DEF seq, next
  <2>5. seq < seqGen'.nextSequence
    BY <2>3, <2>4
  <2>6. \A x \in Resting' : Acceptance'[x] < seq
    BY <2>2, <2>3
  <2>7. \A x \in Resting' : Acceptance'[x] \in Nat
    BY <1>0, <2>2
  <2>8. \A x \in Resting' : Acceptance'[x] < seqGen'.nextSequence
    BY <2>3, <2>4, <2>6, <2>7
  <2> QED BY <2>1, <2>2, <2>4, <2>5, <2>6, <2>8 DEF PriorityInv, AcceptedBefore
<1>7. CASE RestRemainder
  <2>1. PICK c : c = incoming.command OBVIOUS
  <2>2. PICK o : o = incoming.orderId OBVIOUS
  <2>3. PICK order :
          order = [clientOrderId |-> c.clientOrderId, userId |-> c.userId,
                   side |-> c.side, price |-> c.price, originalQuantity |-> c.quantity,
                   remainingQuantity |-> incoming.remaining,
                   sequenceAccepted |-> incoming.sequenceAccepted]
    OBVIOUS
  <2>4. /\ pc = "matching" /\ incoming \in IncomingType
        /\ incoming.remaining # 0 /\ CanRest(c)
        /\ InsertRemainingAsResting(o, order)
        /\ EmitEvents(1) /\ pc' = "idle"
    BY <1>7, <2>1, <2>2, <2>3 DEF RestRemainder, IInv, TypeOK
  <2>5. /\ o \in OrderIds /\ o \notin Resting
        /\ clientOrderIdToOrderId[c.clientOrderId] = 0
        /\ c.price \in Prices /\ c \in PlaceCommand
    BY <2>1, <2>2, <2>4 DEF IInv, IncomingOK, CanRest, IncomingType
  <2>6. /\ order \in Order /\ order.clientOrderId = c.clientOrderId
        /\ order.sequenceAccepted = incoming.sequenceAccepted
    BY <2>1, <2>3, <2>4, <2>5 DEF Order, PlaceCommand, IncomingType
  <2>7. \A x \in Resting : Acceptance[x] < order.sequenceAccepted
    BY <1>0, <2>4, <2>6 DEF AcceptedBefore
  <2>8. /\ ListsAscend'
        /\ Resting' = Resting \cup {o}
        /\ \A x \in Resting : Acceptance'[x] = Acceptance[x]
        /\ Acceptance'[o] = order.sequenceAccepted
    BY <1>0, <2>4, <2>5, <2>6, <2>7, InsertKeepsAscending
  <2>9. seqGen'.nextSequence = next + 1 BY <1>2, <2>4
  <2>10. incoming.sequenceAccepted < next /\ incoming.sequenceAccepted \in Nat
    BY <1>0, <2>4 DEF AcceptedBefore
  <2>11. \A x \in Resting : Acceptance[x] < next
    BY <1>0 DEF AcceptedBefore
  <2> HIDE DEF next
  <2>12. \A x \in Resting' : Acceptance'[x] < seqGen'.nextSequence
    BY <1>0, <2>6, <2>8, <2>9, <2>10, <2>11
  <2> QED BY <2>4, <2>8, <2>12 DEF PriorityInv, AcceptedBefore
<1>8. CASE FinishPlace
  <2>1. UNCHANGED book /\ UNCHANGED seqGen /\ pc' = "idle"
    BY <1>8 DEF FinishPlace
  <2> QED BY <1>0, <1>1, <2>1 DEF PriorityInv, AcceptedBefore
<1>9. CASE RestoreOrder \/ EndRestore
  BY <1>0, <1>9 DEF RestoreOrder, EndRestore
<1>10. CASE UNCHANGED vars
  <2>1. UNCHANGED book /\ UNCHANGED <<seqGen, pc, incoming>>
    BY <1>10 DEF vars
  <2> QED BY <1>0, <1>1, <2>1 DEF PriorityInv, AcceptedBefore
<1> QED BY <1>3, <1>4, <1>5, <1>6, <1>7, <1>8, <1>9, <1>10 DEF Command, Loop

\* What a step trades against heads the best level of its side.
LEMMA TradedHeadsBest ==
  ASSUME IInv, Next, NEW o \in OrderIds, Traded(o)
  PROVE  \E s \in Sides, p \in Prices :
           /\ o \in Resting /\ orderById[o].side = s /\ orderById[o].price = p
           /\ p = BestLevel(s) /\ ActivePrices(s) # {}
           /\ queue[s][p] # <<>> /\ o = Head(queue[s][p])
<1>1. pc = "matching" /\ o \in Resting /\ executed'[o] > executed[o]
  BY DEF Traded, Resting
<1>2. executed[o] \in Nat
  BY DEF IInv, TypeOK
<1>3. MatchStep
  <2>1. ~UNCHANGED executed
    BY <1>1, <1>2
  <2> QED BY <1>1, <2>1
          DEF Next, Command, Loop, DuplicateCommand, RejectPlace, AcceptPlace, RejectCancel,
              CancelOrder, Accepting, RestRemainder, FinishPlace, RestoreOrder, EndRestore,
              BeginRestore
<1>4. PICK s : s = Opposite(incoming.command.side) OBVIOUS
<1>5. PICK m \in Resting, p \in Prices :
        /\ orderById[m].side = s /\ orderById[m].price = p
        /\ p = BestLevel(s) /\ ActivePrices(s) # {}
        /\ queue[s][p] # <<>> /\ m = Head(queue[s][p])
        /\ \A x \in OrderIds \ {m, incoming.orderId} : executed'[x] = executed[x]
  BY <1>3, <1>4, MatchStepTakes
<1>6. o = m
  <2>1. o # incoming.orderId
    BY <1>1 DEF IInv, IncomingOK
  <2>2. executed'[o] # executed[o]
    BY <1>1, <1>2
  <2> QED BY <1>5, <2>1, <2>2
<1>7. s \in Sides
  BY <1>4 DEF Opposite, Sides
<1> QED BY <1>1, <1>5, <1>6, <1>7

\* No order of its side is priced better.
LEMMA StepAtBestPrice ==
  ASSUME IInv, Next
  PROVE  TradesAtBestPrice
<1> SUFFICES ASSUME NEW o \in OrderIds, Traded(o),
                    NEW other \in Resting, orderById[other].side = orderById[o].side
             PROVE  ~IsBetterPrice(orderById[o].side, orderById[other].price,
                                   orderById[o].price)
  BY DEF TradesAtBestPrice
<1>1. PICK s \in Sides, p \in Prices :
        /\ orderById[o].side = s /\ orderById[o].price = p
        /\ p = BestLevel(s) /\ ActivePrices(s) # {}
  BY TradedHeadsBest
<1>2. orderById[other].price \in ActivePrices(s)
  BY <1>1, RestingPriceActive
<1> QED BY <1>1, <1>2, BestLevelIsBest

\* The head of the best level comes first in price and time.
LEMMA StepInPriority ==
  ASSUME IInv, PriorityInv, Command \/ Loop
  PROVE  TradesInPriority
<1> SUFFICES ASSUME NEW o \in OrderIds, Traded(o),
                    NEW other \in Resting \ {o}, orderById[other].side = orderById[o].side
             PROVE  \/ IsBetterPrice(orderById[o].side, orderById[o].price,
                                     orderById[other].price)
                    \/ /\ orderById[o].price = orderById[other].price
                       /\ orderById[o].sequenceAccepted < orderById[other].sequenceAccepted
  BY DEF TradesInPriority
<1>1. Next
  BY DEF Next
<1>2. PICK s \in Sides, p \in Prices :
        /\ o \in Resting /\ orderById[o].side = s /\ orderById[o].price = p
        /\ queue[s][p] # <<>> /\ o = Head(queue[s][p])
  BY <1>1, TradedHeadsBest
<1>3. PICK r : r = orderById[other].price OBVIOUS
<1>4. r \in ActivePrices(s) /\ r \in Prices
  BY <1>2, <1>3, RestingPriceActive DEF ActivePrices
<1>5. ~IsBetterPrice(s, r, p)
  BY <1>1, <1>2, <1>3, StepAtBestPrice DEF TradesAtBestPrice
<1>6. CASE r # p
  <2>1. r \in Nat /\ p \in Nat BY <1>4 DEF Prices
  <2>2. IsBetterPrice(s, p, r)
    BY <1>5, <1>6, <2>1 DEF IsBetterPrice
  <2> QED BY <1>2, <1>3, <2>2
<1>7. CASE r = p
  <2>1. PICK q : q = queue[s][p] OBVIOUS
  <2>2. /\ q \in Seq(OrderIds) /\ IsListOf(q, RestingAt(s, p)) /\ Ascends(q, Acceptance)
    BY <1>2, <2>1 DEF IInv, TypeOK, ListsMatchOrders, PriorityInv, ListsAscend
  <2>3. other \in RestingAt(s, p)
    BY <1>2, <1>3, <1>7 DEF RestingAt
  <2>4. PICK j \in 1 .. Len(q) : q[j] = other
    BY <2>2, <2>3 DEF IsListOf
  <2>5. q[1] = o /\ 1 \in 1 .. Len(q)
    BY <1>2, <2>1, <2>2
  <2>6. 1 < j
    BY <2>4, <2>5
  <2>7. Acceptance[o] < Acceptance[other]
    BY <2>2, <2>4, <2>5, <2>6 DEF Ascends
  <2>8. orderById[o].sequenceAccepted < orderById[other].sequenceAccepted
    BY <1>2, <2>7 DEF Acceptance
  <2> QED BY <1>2, <1>3, <1>7, <2>8
<1> QED BY <1>6, <1>7

\* Every trade is at the best price of the resting side, through every rebuild of
\* the book from a snapshot as well (best_level of OrderBook.cpp).
THEOREM BestPriceComesFirst == Spec => [][TradesAtBestPrice]_vars
<1>1. IInv /\ [Next]_vars => [TradesAtBestPrice]_vars
  BY StepAtBestPrice
<1> QED BY <1>1, Invariance, PTL DEF Spec

\* As long as the process is not restarted, an order trades only when no resting
\* order of its side has a better price, or the same price and an earlier
\* acceptance.
THEOREM PriorityWithinLifetime == LifetimeSpec => PriceTimePriority
<1>1. Init => IInv /\ PriorityInv
  <2>1. ASSUME Init PROVE PriorityInv
    <3>1. Resting = {} BY <2>1 DEF Init, Resting, NoOrders
    <3>2. \A s \in Sides : \A p \in Prices : queue[s][p] = <<>>
      BY <2>1 DEF Init, EmptyQueues
    <3>3. ListsAscend
      BY <3>2 DEF ListsAscend, Ascends
    <3>4. pc = "idle" BY <2>1 DEF Init
    <3> QED BY <3>1, <3>3, <3>4 DEF PriorityInv, AcceptedBefore
  <2> QED BY <2>1, InitIInv
<1>2. IInv /\ PriorityInv /\ [Command \/ Loop]_vars => (IInv /\ PriorityInv)'
  <2>1. [Command \/ Loop]_vars => [Next]_vars
    BY DEF Next
  <2> QED BY <2>1, NextIInv, NextPriority
<1>3. IInv /\ PriorityInv /\ [Command \/ Loop]_vars => [TradesInPriority]_vars
  BY StepInPriority
<1> QED BY <1>1, <1>2, <1>3, PTL DEF LifetimeSpec, PriceTimePriority

(***************************************************************************)
(* The loops of EngineCore cannot run for ever: each step of one takes     *)
(* from a number that cannot fall below zero.                              *)
(***************************************************************************)

\* What a running loop has left to do, one more than the lots to match or the
\* orders to insert.
LeftToDo ==
  CASE pc = "matching"  -> incoming.remaining + 1
    [] pc = "restoring" -> Cardinality(Unrestored) + 1
    [] OTHER            -> 0

\* The orders still to be put back are finitely many.
LEMMA UnrestoredIsFinite == IsFiniteSet(Unrestored) /\ Cardinality(Unrestored) \in Nat
<1>1. Unrestored \subseteq OrderIds
  BY DEF Unrestored
<1>2. IsFiniteSet(OrderIds)
  BY ConstantsAssumption
<1> QED BY <1>1, <1>2, FS_Subset, FS_CardinalityType

\* A natural number, and zero only when no loop runs.
LEMMA LeftToDoType ==
  ASSUME TypeOK
  PROVE  LeftToDo \in Nat /\ (LeftToDo = 0 <=> pc = "idle")
<1>1. CASE pc = "idle"
  BY <1>1 DEF LeftToDo
<1>2. CASE pc = "matching"
  <2>1. incoming.remaining \in Nat
    BY <1>2 DEF TypeOK, IncomingType
  <2>2. LeftToDo = incoming.remaining + 1
    BY <1>2 DEF LeftToDo
  <2> QED BY <1>2, <2>1, <2>2
<1>3. CASE pc = "restoring"
  <2>1. LeftToDo = Cardinality(Unrestored) + 1
    BY <1>3 DEF LeftToDo
  <2> QED BY <1>3, <2>1, UnrestoredIsFinite
<1> QED BY <1>1, <1>2, <1>3 DEF TypeOK

\* A trade takes at least one lot from the incoming order, since the head of an
\* active level is a resting order and a resting order has something left.
LEMMA MatchStepShrinks ==
  ASSUME IInv, MatchStep
  PROVE  LeftToDo' < LeftToDo
<1> DEFINE s     == Opposite(incoming.command.side)
           maker == Head(queue[s][BestLevel(s)])
           order == orderById[maker]
           fill  == IF incoming.remaining < order.remainingQuantity
                    THEN incoming.remaining ELSE order.remainingQuantity
<1>0. incoming.remaining # 0 /\ ActivePrices(s) # {}
  BY DEF MatchStep, CanMatch, PriceCrosses
<1>1. pc = "matching" /\ pc' = "matching"
  BY Zenon DEF MatchStep
<1>2. incoming \in IncomingType
  BY <1>1 DEF IInv, TypeOK
<1>3. incoming.remaining \in Nat \ {0}
  BY <1>0, <1>2 DEF IncomingType
<1>4. maker \in Resting
  BY <1>0, MakerIsResting DEF Opposite, Sides
<1>5. order.remainingQuantity \in Nat \ {0}
  BY <1>4, RestingOrder DEF IInv, Order
<1>6. incoming'.remaining = incoming.remaining - fill
  <2>1. incoming' = [incoming EXCEPT !.remaining = @ - fill]
    BY Zenon DEF MatchStep
  <2> HIDE DEF fill
  <2> QED BY <1>2, <2>1 DEF IncomingType
<1> HIDE DEF maker, order
<1>7. fill \in Nat \ {0} /\ fill <= incoming.remaining
  BY <1>3, <1>5
<1>8. /\ LeftToDo = incoming.remaining + 1
      /\ LeftToDo' = incoming'.remaining + 1
  BY <1>1 DEF LeftToDo
<1> HIDE DEF fill
<1> QED BY <1>3, <1>6, <1>7, <1>8

\* An order put back is one fewer to put back.
LEMMA RestoreOrderShrinks ==
  ASSUME IInv, RestoreOrder
  PROVE  LeftToDo' < LeftToDo
<1>1. /\ pc = "restoring" /\ pc' = "restoring"
      /\ snapshot' = snapshot
  BY DEF RestoreOrder
<1>2. PICK o \in Unrestored : InsertRemainingAsResting(o, snapshot.orders[o])
  BY DEF RestoreOrder
<1>3. o \in OrderIds /\ snapshot.orders[o] # NoOrder
  BY <1>2 DEF Unrestored
<1>4. orderById' = [orderById EXCEPT ![o] = snapshot.orders[o]]
  BY <1>2 DEF InsertRemainingAsResting
<1>5. orderById \in [OrderIds -> Order \cup {NoOrder}]
  BY DEF IInv, TypeOK
<1>6. Unrestored' = Unrestored \ {o}
  BY <1>1, <1>3, <1>4, <1>5 DEF Unrestored, Resting
<1>7. Cardinality(Unrestored \ {o}) = Cardinality(Unrestored) - 1
  BY <1>2, UnrestoredIsFinite, FS_RemoveElement
<1>8. /\ LeftToDo = Cardinality(Unrestored) + 1
      /\ LeftToDo' = Cardinality(Unrestored') + 1
  BY <1>1 DEF LeftToDo
<1> QED BY <1>6, <1>7, <1>8, UnrestoredIsFinite

\* While a match or a rebuild runs, every step the engine takes shortens it: no
\* command comes between, a trade takes lots from the incoming order, a restored
\* order is one fewer to restore (match_incoming_order and EngineCore::restore).
THEOREM LoopsShorten == Spec => [][pc # "idle" => LeftToDo' < LeftToDo]_vars
<1>1. ASSUME IInv, Next, IInv', pc # "idle" PROVE LeftToDo' < LeftToDo
  <2>1. Loop
    BY <1>1 DEF Next, Command, DuplicateCommand, RejectPlace, AcceptPlace, RejectCancel,
                CancelOrder, BeginRestore, Accepting
  <2>2. CASE MatchStep
    BY <1>1, <2>2, MatchStepShrinks
  <2>3. CASE RestoreOrder
    BY <1>1, <2>3, RestoreOrderShrinks
  <2>4. CASE RestRemainder \/ FinishPlace \/ EndRestore
    <3>1. pc' = "idle"
      BY <2>4 DEF RestRemainder, FinishPlace, EndRestore
    <3>2. LeftToDo' = 0
      BY <3>1 DEF LeftToDo
    <3>3. LeftToDo \in Nat /\ LeftToDo # 0
      BY <1>1, LeftToDoType DEF IInv
    <3> QED BY <3>2, <3>3
  <2> QED BY <2>1, <2>2, <2>3, <2>4 DEF Loop
<1>2. IInv /\ IInv' /\ [Next]_vars => [pc # "idle" => LeftToDo' < LeftToDo]_vars
  BY <1>1
<1> QED BY <1>2, Invariance, PTL DEF Spec
=============================================================================
