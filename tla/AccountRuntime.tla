---------------------------- MODULE AccountRuntime ----------------------------
(***************************************************************************)
(* EngineRuntime and EngineEventTranslator for the market of one worker:   *)
(* order metadata and reservations, positions and risk, mark prices,       *)
(* funding, liquidation and auto-deleveraging.                             *)
(*                                                                         *)
(* The core is abstracted to what MatchingEngine shows of it: an incoming  *)
(* order trades with the best-priced, first-queued resting order while one *)
(* crosses.  Every loop takes one step per iteration (a trade, a           *)
(* liquidation attempt, a deleveraged account) and `pc` keeps every other  *)
(* input out until the thread is idle again.                               *)
(***************************************************************************)
EXTENDS Integers, FiniteSetsExt, Margin

CONSTANTS
  Users, OrderIds,    \* natural numbers; ties are broken by their order
  PlaceInputs,        \* the PlaceOrder records of the input partition
  LiquidateInputs,    \* its LiquidatePosition records
  MarkPrices,         \* the mark prices that may be published
  FundingRates,       \* its FundingRateUpdated records
  RateScale,
  BookPrices,         \* the prices the core accepts
  MaxQuantity,        \* and its largest order
  MaxAttempts,        \* kMaxAutomaticLiquidationAttemptsPerTrigger
  MaxRestarts,        \* bound: restarts of the worker
  Nothing             \* no order, no metadata

ASSUME RuntimeAssumption ==
  /\ Users \subseteq Nat \ {0} /\ IsFiniteSet(Users)
  /\ OrderIds \subseteq Nat \ {0} /\ IsFiniteSet(OrderIds) /\ OrderIds # {}
  /\ MarkPrices \subseteq Nat \ {0}
  /\ BookPrices \subseteq Nat \ {0}
  /\ RateScale \in Nat \ {0}
  /\ MaxQuantity \in Nat \ {0}
  /\ MaxAttempts \in Nat \ {0}
  /\ MaxRestarts \in Nat
  /\ PlaceInputs \subseteq
       [orderId : OrderIds, user : Users, side : {"Long", "Short"},
        price : BookPrices, quantity : Nat \ {0}, canRest : BOOLEAN,
        reduceOnly : BOOLEAN, reserved : Nat, leverage : Nat]
  /\ LiquidateInputs \subseteq
       [id : Nat, user : Users, side : {"Long", "Short"}, quantity : Nat, price : Nat]
  /\ FundingRates \subseteq [interval : Nat \ {0}, rate : Int]

Sides == {"Long", "Short"}

\* OrderMetadata, and an order of the core while it rests.
Metadata ==
  [user : Users, side : Sides, original : Nat, remaining : Nat, reserved : Nat,
   unspent : Nat, leverage : Nat]

RestingOrder ==
  [user : Users, side : Sides, price : BookPrices, remaining : Nat \ {0}, queued : Nat]

ASSUME NothingAssumption == Nothing \notin Metadata \cup RestingOrder

VARIABLES
  book,          \* the core's resting orders
  metadata,      \* OrderMetadataStore
  positions,     \* IsolatedPositionMap
  risks,         \* IsolatedRiskMap
  mark,          \* the latest mark price, 0 before the first
  funding,       \* the latest funding rate
  settled,       \* settled_funding_intervals_
  processed,     \* the order ids of the places already processed
  liquidationIds, \* ids of liquidations whose orders the core has had
  pc,            \* "idle", "matching", "deleveraging" or "scanning"
  taker,         \* the incoming order and its pending metadata
  scan,          \* evaluate_automatic_liquidations_for_market's locals
  arrivals, restarts,
  ledger         \* history: what fills took from each order's reservation, what
                 \* was given back and what a restart dropped

market == <<mark, funding, settled>>
accounts == <<positions, risks>>
orders == <<book, metadata, arrivals>>
vars == <<orders, accounts, market, processed, liquidationIds, pc, taker, scan,
          restarts, ledger>>

NoTaker == [user |-> 0]
NoScan == [running |-> FALSE, startup |-> FALSE, attempted |-> {}]
NoFunding == [interval |-> 0, rate |-> 0]

Resting == {o \in OrderIds : book[o] # Nothing}
Attempts == Cardinality(scan.attempted)

-----------------------------------------------------------------------------
(* The core.                                                               *)

Crosses(side, price, o) ==
  /\ book[o].side = OppositeSide(side)
  /\ IF side = "Long" THEN book[o].price <= price ELSE book[o].price >= price

CrossingOrders(side, price) == {o \in Resting : Crosses(side, price, o)}

\* o is matched before other.
Precedes(o, other) ==
  \/ IF book[o].side = "Long" THEN book[o].price > book[other].price
                              ELSE book[o].price < book[other].price
  \/ book[o].price = book[other].price /\ book[o].queued < book[other].queued

\* The order after a partial fill.
Reduced(order, lots) == [order EXCEPT !.remaining = @ - lots]

BestOrder(candidates) ==
  CHOOSE o \in candidates : \A other \in candidates \ {o} : Precedes(o, other)

-----------------------------------------------------------------------------
(* append_position_and_risk_updates for one side of a trade.               *)

\* Variant: the last trade's price instead of the mark.
PriceOnly(price) == price

MarkOr(price) == IF mark = 0 THEN price ELSE mark

\* acc is the pair of maps; meta belongs to user, whose order is filled.
FillAccount(acc, user, meta, lots, price) ==
  LET position == ApplyPositionFill(acc.positions[user], meta.leverage,
                    SignedFill(meta.side, lots), price,
                    AllocatedMargin(meta, lots, price))
  IN  [positions |-> [acc.positions EXCEPT ![user] = position],
       risks     |-> [acc.risks EXCEPT ![user] = RiskOf(position, MarkOr(price), 0)]]

\* Variant: the taker's position is read before the maker's fill is stored.
ApplyTradeToCopies(makerUser, makerMeta, lots, price) ==
  LET start == [positions |-> positions, risks |-> risks]
      made  == FillAccount(start, makerUser, makerMeta, lots, price)
      done  == FillAccount(start, taker.user, taker.meta, lots, price)
  IN  /\ positions' = [made.positions EXCEPT ![taker.user] = done.positions[taker.user]]
      /\ risks' = [made.risks EXCEPT ![taker.user] = done.risks[taker.user]]

\* Maker first, then taker; the two may be the same user.
ApplyTrade(makerUser, makerMeta, lots, price) ==
  \E made \in {FillAccount([positions |-> positions, risks |-> risks],
                           makerUser, makerMeta, lots, price)} :
  \E done \in {FillAccount(made, taker.user, taker.meta, lots, price)} :
    positions' = done.positions /\ risks' = done.risks

Charge(led, o, meta, lots, price) ==
  IF meta.reserved > 0
  THEN [led EXCEPT ![o].charged = @ + AllocatedMargin(meta, lots, price)]
  ELSE led

Return(led, o, amount) == [led EXCEPT ![o].returned = @ + amount]

-----------------------------------------------------------------------------
(* EngineRuntime::process, PlaceOrder.                                     *)

NewMetadata(c) ==
  [user |-> c.user, side |-> c.side, original |-> c.quantity,
   remaining |-> c.quantity, reserved |-> c.reserved, unspent |-> c.reserved,
   leverage |-> c.leverage]

ReduceOnlyAllowed(c) ==
  c.reduceOnly =>
    /\ positions[c.user].quantity # 0
    /\ c.side = ClosingSide(positions[c.user].quantity)

\* Variant: the full quantity of a reduce-only order reaches the core.
UncappedQuantity(c) == c.quantity

\* A reduce-only order is capped at the position; its metadata is not.
CappedQuantity(c) ==
  IF c.reduceOnly THEN LesserOf(c.quantity, Abs(positions[c.user].quantity))
  ELSE c.quantity

\* Refused as reduce-only, or by the core for any reason it has.
RejectPlace(c) ==
  /\ pc = "idle"
  /\ c.orderId \notin processed
  /\ processed' = processed \cup {c.orderId}
  /\ ledger' = [ledger EXCEPT ![c.orderId].reserved = c.reserved,
                              ![c.orderId].returned = c.reserved]
  /\ UNCHANGED <<orders, accounts, market, liquidationIds, pc, taker, scan, restarts>>

AcceptPlace(c) ==
  /\ pc = "idle"
  /\ c.orderId \notin processed
  /\ ReduceOnlyAllowed(c)
  /\ processed' = processed \cup {c.orderId}
  /\ taker' = [kind |-> "place", orderId |-> c.orderId, user |-> c.user,
               side |-> c.side, price |-> c.price, left |-> CappedQuantity(c),
               meta |-> NewMetadata(c), canRest |-> c.canRest /\ ~c.reduceOnly,
               reduceOnly |-> c.reduceOnly, traded |-> FALSE,
               before |-> positions[c.user].quantity]
  /\ ledger' = [ledger EXCEPT ![c.orderId].reserved = c.reserved]
  /\ pc' = "matching"
  /\ UNCHANGED <<orders, accounts, market, liquidationIds, scan, restarts>>

CanTrade == taker.left > 0 /\ CrossingOrders(taker.side, taker.price) # {}

\* One trade with the best resting order, at its price.  A filled maker
\* leaves the book and the metadata store.
Trade ==
  /\ pc = "matching"
  /\ CanTrade
  /\ \E o \in {BestOrder(CrossingOrders(taker.side, taker.price))} :
       LET lots == LesserOf(taker.left, book[o].remaining)
           gone == lots = book[o].remaining
           made == Charge(ledger, o, metadata[o], lots, book[o].price)
       IN  /\ ApplyTrade(book[o].user, metadata[o], lots, book[o].price)
           /\ book' = [book EXCEPT ![o] =
                IF gone THEN Nothing ELSE Reduced(@, lots)]
           /\ metadata' = [metadata EXCEPT ![o] =
                IF gone THEN Nothing ELSE AfterFill(@, lots, book[o].price)]
           /\ taker' = [taker EXCEPT !.left = @ - lots, !.traded = TRUE,
                                     !.meta = AfterFill(@, lots, book[o].price)]
           /\ ledger' = IF taker.kind = "place"
                        THEN Charge(made, taker.orderId, taker.meta, lots, book[o].price)
                        ELSE made
  /\ UNCHANGED <<arrivals, market, processed, liquidationIds, pc, scan, restarts>>

\* Variant: no loop follows an executed trade.
AfterPlaceWithoutLoop ==
  pc' = "idle" /\ scan' = NoScan /\ taker' = NoTaker

\* An executed trade is followed by the liquidation loop.
AfterPlace ==
  /\ pc' = IF taker.traded THEN "scanning" ELSE "idle"
  /\ scan' = [NoScan EXCEPT !.running = taker.traded]
  /\ taker' = NoTaker

\* The accepted order's metadata is stored and, when the order has filled,
\* dropped again; the remainder of an order that may not rest is forgotten,
\* but its metadata stays.
FinishPlace ==
  LET o == taker.orderId
  IN  /\ pc = "matching"
      /\ taker.kind = "place" /\ ~taker.reduceOnly
      /\ ~CanTrade
      /\ metadata' = [metadata EXCEPT ![o] = IF taker.left = 0 THEN Nothing ELSE taker.meta]
      /\ IF taker.left > 0 /\ taker.canRest
         THEN /\ book' = [book EXCEPT ![o] =
                   [user |-> taker.user, side |-> taker.side, price |-> taker.price,
                    remaining |-> taker.left, queued |-> arrivals]]
              /\ arrivals' = arrivals + 1
         ELSE UNCHANGED <<book, arrivals>>
      /\ AfterPlace
      /\ UNCHANGED <<accounts, market, processed, liquidationIds, restarts, ledger>>

\* A reduce-only order never rests: what is left of it expires, and its
\* reservation with it.
FinishReduceOnly ==
  /\ pc = "matching"
  /\ taker.kind = "place" /\ taker.reduceOnly
  /\ ~CanTrade
  /\ ledger' = Return(ledger, taker.orderId,
                 IF taker.meta.remaining > 0 THEN taker.meta.unspent ELSE 0)
  /\ AfterPlace
  /\ UNCHANGED <<orders, accounts, market, processed, liquidationIds, restarts>>

CancelOrder(o) ==
  /\ pc = "idle"
  /\ o \in Resting
  /\ book' = [book EXCEPT ![o] = Nothing]
  /\ metadata' = [metadata EXCEPT ![o] = Nothing]
  /\ ledger' = Return(ledger, o, metadata[o].unspent)
  /\ UNCHANGED <<arrivals, accounts, market, processed, liquidationIds, pc, taker, scan,
                 restarts>>

-----------------------------------------------------------------------------
(* EngineRuntime::execute_liquidation.                                     *)

\* Lexicographic order of two keys of the same length.
KeyLess(k, l) ==
  \E i \in DOMAIN k : k[i] < l[i] /\ \A j \in 1 .. i - 1 : k[j] = l[j]

\* The element with the least key.
First(key) ==
  CHOOSE u \in DOMAIN key : \A v \in DOMAIN key \ {u} : KeyLess(key[u], key[v])

\* Opposing accounts in profit, the most profitable and most leveraged first.
AdlCandidates(u) ==
  {v \in Users \ {u} : /\ positions[u].quantity * positions[v].quantity < 0
                       /\ risks[v].pnl > 0}

AdlKeys(u) ==
  [v \in AdlCandidates(u) |->
     <<-risks[v].pnl, -risks[v].leverage, MarginRatio(risks[v]),
       -Abs(positions[v].quantity), v>>]

\* liquidation_rejection_reason is empty.
MayLiquidate(u, side) ==
  /\ positions[u].quantity # 0
  /\ side = OppositeSide(ClosingSide(positions[u].quantity))
  /\ risks[u].equity <= risks[u].maintenance

LiquidationLots(u, quantity) ==
  IF quantity <= 0 THEN Abs(positions[u].quantity)
  ELSE LesserOf(quantity, Abs(positions[u].quantity))

LiquidationPrice(u, price) ==
  IF price > 0 THEN price ELSE MarkOr(positions[u].average)

\* The immediate-or-cancel order that closes u's position.
SyntheticOrder(u, lots, price) ==
  LET side == ClosingSide(positions[u].quantity)
  IN  [kind |-> "liquidation", user |-> u, side |-> side, price |-> price,
       left |-> lots, canRest |-> FALSE, reduceOnly |-> TRUE, traded |-> FALSE,
       before |-> positions[u].quantity,
       meta |-> [user |-> u, side |-> side, original |-> lots, remaining |-> lots,
                 reserved |-> 0, unspent |-> 0, leverage |-> positions[u].leverage]]

BookHas(order) == CrossingOrders(order.side, order.price) # {}

\* The core refuses an order it has seen, or that its limits forbid.
CoreTakes(order, seen) ==
  ~seen /\ order.price \in BookPrices /\ order.left <= MaxQuantity

\* The order's request and order ids are made of the liquidation's id alone; the
\* core remembers them from any earlier attempt, taken or refused, and keeps
\* them through a restart.  ids is that id, or empty where it never comes again.
\* The order goes through the book if it crosses and the core takes it, else
\* straight to the opposing accounts; with neither there is no liquidation
\* liquidity.
ExecuteLiquidation(order, ids) ==
  LET seen   == ids \cap liquidationIds # {}
      trades == BookHas(order) /\ CoreTakes(order, seen)
  IN  /\ liquidationIds' = IF BookHas(order) THEN liquidationIds \cup ids
                           ELSE liquidationIds
      /\ \/ /\ trades
            /\ pc' = "matching"
            /\ taker' = order
         \/ /\ ~trades
            /\ AdlCandidates(order.user) # {}
            /\ pc' = "deleveraging"
            /\ taker' = order
         \/ /\ ~trades
            /\ AdlCandidates(order.user) = {}
            /\ UNCHANGED <<pc, taker>>

\* Variant: the loop ends after one trade.
FinishBookEarly ==
  /\ pc = "matching"
  /\ taker.kind = "liquidation"
  /\ taker.traded
  /\ pc' = "deleveraging"
  /\ UNCHANGED <<orders, accounts, market, processed, liquidationIds, taker, scan,
                 restarts, ledger>>

FinishBook ==
  /\ pc = "matching"
  /\ taker.kind = "liquidation"
  /\ ~CanTrade
  /\ pc' = "deleveraging"
  /\ UNCHANGED <<orders, accounts, market, processed, liquidationIds, taker, scan,
                 restarts, ledger>>

AdlLeft == LesserOf(taker.meta.remaining, Abs(positions[taker.user].quantity))

CanDeleverage == AdlLeft > 0 /\ AdlCandidates(taker.user) # {}

\* append_adl_fills: one opposing account, at the liquidation's price.
Deleverage ==
  /\ pc = "deleveraging"
  /\ CanDeleverage
  /\ \E v \in {First(AdlKeys(taker.user))} :
       LET lots == LesserOf(AdlLeft, Abs(positions[v].quantity))
           meta == [user |-> v, side |-> ClosingSide(positions[v].quantity),
                    original |-> lots, remaining |-> lots, reserved |-> 0,
                    unspent |-> 0, leverage |-> positions[v].leverage]
       IN  /\ ApplyTrade(v, meta, lots, taker.price)
           /\ taker' = [taker EXCEPT !.meta = AfterFill(@, lots, taker.price),
                                     !.traded = TRUE]
  /\ UNCHANGED <<orders, market, processed, liquidationIds, pc, scan, restarts, ledger>>

FinishLiquidation ==
  /\ pc = "deleveraging"
  /\ ~CanDeleverage
  /\ pc' = IF scan.running THEN "scanning" ELSE "idle"
  /\ taker' = NoTaker
  /\ UNCHANGED <<orders, accounts, market, processed, liquidationIds, scan, restarts,
                 ledger>>

\* The liquidation_id of a request.  The runtime knows a record again by its
\* input id and idempotency key, so one id may come in several records.
RequestId(l) == <<"request", l.id>>

\* The LiquidatePosition input; no loop follows it.
LiquidatePosition(l) ==
  /\ pc = "idle"
  /\ MayLiquidate(l.user, l.side)
  /\ ExecuteLiquidation(SyntheticOrder(l.user, LiquidationLots(l.user, l.quantity),
                                       LiquidationPrice(l.user, l.price)),
                        {RequestId(l)})
  /\ UNCHANGED <<orders, accounts, market, processed, scan, restarts, ledger>>

-----------------------------------------------------------------------------
(* EngineRuntime::evaluate_automatic_liquidations_for_market.              *)

\* Variant: an account that was attempted stays a candidate.
EveryCandidate ==
  {u \in Users : risks[u].status = "LIQUIDATABLE" /\ positions[u].quantity # 0}

ScanCandidates ==
  {u \in Users \ scan.attempted :
     risks[u].status = "LIQUIDATABLE" /\ positions[u].quantity # 0}

Notional(u) ==
  Abs(positions[u].quantity)
    * (IF risks[u].mark > 0 THEN risks[u].mark ELSE positions[u].average)

ScanKeys ==
  [u \in ScanCandidates |->
     <<MarginRatio(risks[u]), risks[u].equity, -Notional(u), u>>]

CanAttempt == ScanCandidates # {} /\ Attempts < MaxAttempts

\* The id of an automatic liquidation names the record that caused it, the
\* account and the attempt; every startup scan names the same record, and any
\* other scan one that is not processed again.
AttemptIds(u) == IF scan.startup THEN {<<"startup", u, Attempts + 1>>} ELSE {}

AttemptLiquidation ==
  /\ pc = "scanning"
  /\ CanAttempt
  /\ \E u \in {First(ScanKeys)} :
       /\ scan' = [scan EXCEPT !.attempted = @ \cup {u}]
       /\ ExecuteLiquidation(SyntheticOrder(u, LiquidationLots(u, 0),
                                            LiquidationPrice(u, 0)),
                             AttemptIds(u))
  /\ UNCHANGED <<orders, accounts, market, processed, restarts, ledger>>

EndScan ==
  /\ pc = "scanning"
  /\ ~CanAttempt
  /\ pc' = "idle"
  /\ scan' = NoScan
  /\ UNCHANGED <<orders, accounts, market, processed, liquidationIds, taker, restarts,
                 ledger>>

BeginScan(startup) ==
  /\ pc' = "scanning"
  /\ scan' = [NoScan EXCEPT !.running = TRUE, !.startup = startup]

-----------------------------------------------------------------------------
(* Mark prices, funding, and the start of a new process.                   *)

AfterMark(u, p) ==
  IF positions[u].quantity = 0 THEN risks[u]
  ELSE RiskOf(positions[u], p, EquityAdjustment(risks[u]))

UpdateMark(p) ==
  /\ pc = "idle"
  /\ mark' = p
  /\ risks' = [u \in Users |-> AfterMark(u, p)]
  /\ BeginScan(FALSE)
  /\ UNCHANGED <<orders, positions, funding, settled, processed, liquidationIds, taker,
                 restarts, ledger>>

UpdateFunding(f) ==
  /\ pc = "idle"
  /\ funding' = f
  /\ UNCHANGED <<orders, accounts, mark, settled, processed, liquidationIds, pc, taker,
                 scan, restarts, ledger>>

AfterFunding(u) ==
  LET price  == MarkOr(positions[u].average)
      amount == FundingAmount(positions[u], price, funding.rate, RateScale)
  IN  IF positions[u].quantity = 0 \/ amount = 0 THEN risks[u]
      ELSE RiskOf(positions[u], price, EquityAdjustment(risks[u]) + amount)

\* A tick for the interval of the latest rate, the first time it is settled;
\* any other tick changes nothing.
SettleFunding ==
  /\ pc = "idle"
  /\ funding # NoFunding
  /\ funding.interval \notin settled
  /\ risks' = [u \in Users |-> AfterFunding(u)]
  /\ settled' = settled \cup {funding.interval}
  /\ BeginScan(FALSE)
  /\ UNCHANGED <<orders, positions, mark, funding, processed, liquidationIds, taker,
                 restarts, ledger>>

\* The state comes back from the checkpoint, each level queued by order id and
\* without the metadata of orders that do not rest; then the startup scan runs.
Restart ==
  /\ pc = "idle"
  /\ restarts < MaxRestarts
  /\ restarts' = restarts + 1
  /\ book' = [o \in OrderIds |->
       IF book[o] = Nothing THEN Nothing ELSE [book[o] EXCEPT !.queued = o]]
  /\ metadata' = [o \in OrderIds |-> IF o \in Resting THEN metadata[o] ELSE Nothing]
  /\ ledger' = [o \in OrderIds |->
       IF metadata[o] = Nothing \/ o \in Resting THEN ledger[o]
       ELSE [ledger[o] EXCEPT !.dropped = metadata[o].unspent]]
  /\ BeginScan(TRUE)
  /\ UNCHANGED <<arrivals, accounts, market, processed, liquidationIds, taker>>

-----------------------------------------------------------------------------
Init ==
  /\ book = [o \in OrderIds |-> Nothing]
  /\ metadata = [o \in OrderIds |-> Nothing]
  /\ positions = [u \in Users |-> FlatPosition]
  /\ risks = [u \in Users |-> NoRisk]
  /\ mark = 0
  /\ funding = NoFunding
  /\ settled = {}
  /\ processed = {}
  /\ liquidationIds = {}
  /\ pc = "idle"
  /\ taker = NoTaker
  /\ scan = NoScan
  /\ arrivals = Max(OrderIds) + 1
  /\ restarts = 0
  /\ ledger = [o \in OrderIds |->
                 [reserved |-> 0, charged |-> 0, returned |-> 0, dropped |-> 0]]

Input ==
  \/ \E c \in PlaceInputs : RejectPlace(c) \/ AcceptPlace(c)
  \/ \E o \in OrderIds : CancelOrder(o)
  \/ \E l \in LiquidateInputs : LiquidatePosition(l)
  \/ \E p \in MarkPrices : UpdateMark(p)
  \/ \E f \in FundingRates : UpdateFunding(f)
  \/ SettleFunding
  \/ Restart

Loop ==
  \/ Trade \/ FinishPlace \/ FinishReduceOnly
  \/ FinishBook \/ Deleverage \/ FinishLiquidation
  \/ AttemptLiquidation \/ EndScan

Next == Input \/ Loop

Spec == Init /\ [][Next]_vars /\ WF_vars(Loop)

-----------------------------------------------------------------------------
(* Properties.                                                             *)

\* Every contract has two sides: the positions of a market add up to zero
\* after every trade, self-trades, liquidations and deleveraging included.
PositionsBalance ==
  SumFunction([u \in Users |-> positions[u].quantity]) = 0

\* A resting order and its metadata agree on its owner, side and remaining
\* quantity: a trade never finds a maker without metadata, and a cancel
\* returns the reservation of exactly what is left.
MetadataMatchesBook ==
  \A o \in Resting :
    /\ metadata[o] # Nothing
    /\ metadata[o].user = book[o].user
    /\ metadata[o].side = book[o].side
    /\ metadata[o].remaining = book[o].remaining

\* The margin of an order is neither lost nor spent twice: what its fills were
\* charged and what is unspent make up the reservation as long as the order
\* is known, and what was charged and what was returned afterwards.  Only a
\* restart takes reserved margin out of the engine's sight: that of a remainder
\* that neither rested nor was released.
ReservationsAddUp ==
  \A o \in processed :
    LET unspent == IF metadata[o] # Nothing THEN metadata[o].unspent
                   ELSE IF pc = "matching" /\ taker.kind = "place" /\ taker.orderId = o
                   THEN taker.meta.unspent
                   ELSE 0
    IN  /\ ledger[o].charged + unspent + ledger[o].returned + ledger[o].dropped
             = ledger[o].reserved
        /\ ledger[o].dropped > 0 => ledger[o].returned = 0 /\ o \notin Resting

\* The risk a liquidation is decided on is that of the position as it is now,
\* at the latest mark price, whichever of fills, marks and funding came last.
RiskIsCurrent ==
  \A u \in Users : positions[u].quantity # 0 =>
    LET r == risks[u]
    IN  /\ r.quantity = positions[u].quantity
        /\ r.average = positions[u].average
        /\ r.margin = positions[u].margin
        /\ mark # 0 => r.mark = mark
        /\ r.pnl = (r.mark - positions[u].average) * positions[u].quantity
        /\ r.status = "LIQUIDATABLE" <=> r.equity <= r.maintenance

\* A reduce-only order and a liquidation never increase or reverse the
\* position they started from.
ReduceOnlyHolds ==
  taker # NoTaker /\ taker.reduceOnly =>
    LET now == positions[taker.user].quantity
    IN  /\ Abs(now) <= Abs(taker.before)
        /\ now # 0 => SameDirection(now, taker.before)

\* The accounts a liquidation attempt could not help, when the step is one.
Helpless == scan'.attempted \ scan.attempted

\* A liquidation is requested under an id whose order the core has had: the
\* core refuses the order, whatever it crosses.
RepeatedRequest ==
  \E l \in LiquidateInputs :
    LiquidatePosition(l) /\ RequestId(l) \in liquidationIds

\* Opposing accounts are deleveraged, and an attempt is given up, only when no
\* resting order crosses the liquidation price, or the book has closed the
\* position.  What a repeated request leads to is left out.
BookBeforeAdl ==
  [][/\ pc # "deleveraging" /\ pc' = "deleveraging" /\ ~RepeatedRequest =>
          ~BookHas(taker)' \/ taker'.meta.remaining = 0
     /\ pc = "scanning" /\ pc' = "scanning" =>
          \A u \in Helpless : ~BookHas(SyntheticOrder(u, 1, LiquidationPrice(u, 0)))]_vars

\* Every input is finished: matching, deleveraging and the liquidation loop end.
InputsFinish == pc # "idle" ~> pc = "idle"

=============================================================================
