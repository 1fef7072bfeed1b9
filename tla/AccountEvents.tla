----------------------------- MODULE AccountEvents -----------------------------
(***************************************************************************)
(* What the readers of engine.events are told of AccountRuntime's steps:   *)
(* settlements and releases of reservations (wallet), account deltas       *)
(* (ledger), opened, traded and cancelled orders (read models), and which  *)
(* accounts the liquidation loop looked at.  Each action is AccountRuntime's*)
(* with the money and order events EngineEventTranslator and EngineRuntime *)
(* append in it; replies, fees, book levels and ids are left out.          *)
(***************************************************************************)
EXTENDS AccountRuntime

VARIABLES
  told,      \* per order: sums over its settlements, releases and trades, the
             \* quantity it was opened with, and whether its fills settle at all
  money,     \* realised: the sum of all account deltas; rounded: what rounding
             \* entry prices down took from the cost of the positions
  excused    \* accounts that may be left liquidatable: attempted by the last
             \* loop, or all of them when no loop could attempt them

announced == <<told, money, excused>>

-----------------------------------------------------------------------------
(* TradeExecuted, with its settlements, and the AccountDelta of each side.  *)

\* account_effect_for_fill, for the part of the fill that closes.
RealisedPnl(position, fill, price) ==
  IF position.quantity = 0 \/ SameDirection(position.quantity, fill) THEN 0
  ELSE LET closed == LesserOf(Abs(position.quantity), Abs(fill))
       IN  IF position.quantity > 0 THEN (price - position.average) * closed
                                    ELSE (position.average - price) * closed

\* Variant: profit on the whole fill, also on the part that reverses.
PnlOfWholeFill(position, fill, price) ==
  IF position.quantity = 0 \/ SameDirection(position.quantity, fill) THEN 0
  ELSE (position.average - price) * fill

AccountDelta(position, fill, price) == RealisedPnl(position, fill, price)

\* What an entry costs less than its fills when its price is rounded down.
RoundedOff(position, fill, price) ==
  IF SameDirection(position.quantity, fill)
  THEN (IF fill > 0 THEN 1 ELSE -1)
         * ((position.average * Abs(position.quantity) + price * Abs(fill))
              % Abs(position.quantity + fill))
  ELSE 0

\* Both sides of a trade, the maker's fill applied before the taker's is read.
AnnounceAccounts(makerUser, makerMeta, lots, price) ==
  LET start == [positions |-> positions, risks |-> risks]
      made  == FillAccount(start, makerUser, makerMeta, lots, price)
      maker == positions[makerUser]
      other == made.positions[taker.user]
      in    == SignedFill(makerMeta.side, lots)
      out   == SignedFill(taker.meta.side, lots)
  IN  money' = [realised |-> money.realised + AccountDelta(maker, in, price)
                                            + AccountDelta(other, out, price),
                rounded  |-> money.rounded + RoundedOff(maker, in, price)
                                           + RoundedOff(other, out, price)]

\* Variant: the settlement is read from the metadata the fill has changed.
SettledAfterwards(meta, lots, price) ==
  AllocatedMargin(AfterFill(meta, lots, price), lots, price)

\* A settlement is previewed on the metadata as it is before the fill.
Settlement(meta, lots, price) == AllocatedMargin(meta, lots, price)

Settle(tale, o, meta, lots, price) ==
  [tale EXCEPT ![o].traded = @ + lots,
               ![o].settled = @ + IF tale[o].settles THEN Settlement(meta, lots, price)
                                  ELSE 0]

\* A liquidation settles the maker's reservation only.
AnnounceTrade ==
  \E o \in {BestOrder(CrossingOrders(taker.side, taker.price))} :
    LET lots  == LesserOf(taker.left, book[o].remaining)
        price == book[o].price
        made  == Settle(told, o, metadata[o], lots, price)
    IN  /\ told' = IF taker.kind = "place"
                   THEN Settle(made, taker.orderId, taker.meta, lots, price)
                   ELSE made
        /\ AnnounceAccounts(book[o].user, metadata[o], lots, price)
        /\ UNCHANGED excused

\* Auto-deleveraging settles no reservation.
AnnounceAdl ==
  \E v \in {First(AdlKeys(taker.user))} :
    LET lots == LesserOf(AdlLeft, Abs(positions[v].quantity))
        meta == [taker.meta EXCEPT !.side = OppositeSide(@)]
    IN  AnnounceAccounts(v, meta, lots, taker.price) /\ UNCHANGED <<told, excused>>

-----------------------------------------------------------------------------
(* ReservationReleased, OrderOpened, OrderCancelled and OrderExpired.       *)

Release(tale, o, amount) == [tale EXCEPT ![o].released = @ + amount]

AnnounceRefusal(c) ==
  told' = Release(told, c.orderId, c.reserved) /\ UNCHANGED <<money, excused>>

AnnounceAcceptance(c) ==
  told' = [told EXCEPT ![c.orderId].settles = ~c.reduceOnly]
    /\ UNCHANGED <<money, excused>>

\* Variant: opened with what is left after the trades of its own input.
OpenedRemainder(o) ==
  IF taker.canRest /\ taker.left > 0 THEN taker.left ELSE 0

\* An order is announced as open with its full quantity, ahead of its own
\* trades; one that fills at once or cannot rest is not.
OpenedQuantity(o) ==
  IF taker.canRest /\ taker.left > 0 THEN taker.meta.original ELSE 0

AnnounceOpening ==
  /\ told' = [told EXCEPT ![taker.orderId].opened = OpenedQuantity(taker.orderId)]
  /\ UNCHANGED <<money, excused>>

AnnounceExpiry ==
  /\ told' = Release(told, taker.orderId,
               IF taker.meta.remaining > 0 THEN taker.meta.unspent ELSE 0)
  /\ UNCHANGED <<money, excused>>

AnnounceCancel(o) ==
  /\ told' = Release([told EXCEPT ![o].opened = 0], o, metadata[o].unspent)
  /\ UNCHANGED <<money, excused>>

-----------------------------------------------------------------------------
\* The loop attempts every liquidatable account unless it reaches its cap; a
\* requested liquidation is followed by none.
NoteLoopEnd ==
  /\ excused' = IF ScanCandidates = {} THEN scan.attempted ELSE Users
  /\ UNCHANGED <<told, money>>

NoteRequest == excused' = Users /\ UNCHANGED <<told, money>>

AnnouncedInput ==
  \/ \E c \in PlaceInputs : \/ RejectPlace(c) /\ AnnounceRefusal(c)
                            \/ AcceptPlace(c) /\ AnnounceAcceptance(c)
  \/ \E o \in OrderIds : CancelOrder(o) /\ AnnounceCancel(o)
  \/ \E l \in LiquidateInputs : LiquidatePosition(l) /\ NoteRequest
  \/ \E p \in MarkPrices : UpdateMark(p) /\ UNCHANGED announced
  \/ \E f \in FundingRates : UpdateFunding(f) /\ UNCHANGED announced
  \/ SettleFunding /\ UNCHANGED announced
  \/ Restart /\ UNCHANGED announced

AnnouncedLoop ==
  \/ Trade /\ AnnounceTrade
  \/ FinishPlace /\ AnnounceOpening
  \/ FinishReduceOnly /\ AnnounceExpiry
  \/ Deleverage /\ AnnounceAdl
  \/ (FinishBook \/ FinishLiquidation \/ AttemptLiquidation) /\ UNCHANGED announced
  \/ EndScan /\ NoteLoopEnd

AnnouncedInit ==
  /\ Init
  /\ told = [o \in OrderIds |-> [settled |-> 0, released |-> 0, opened |-> 0,
                                 traded |-> 0, settles |-> FALSE]]
  /\ money = [realised |-> 0, rounded |-> 0]
  /\ excused = {}

AnnouncedNext == AnnouncedInput \/ AnnouncedLoop

AnnouncedSpec ==
  /\ AnnouncedInit /\ [][AnnouncedNext]_<<vars, announced>>
  /\ WF_vars(Loop)

-----------------------------------------------------------------------------
(* Properties.                                                             *)

\* The wallet is told to settle exactly the margin the positions received,
\* however an order's fills split its reservation, and settlements and
\* releases together use up the reservation of an order that is done.  Orders
\* whose remainder was dropped without an event, and reduce-only orders, whose
\* fills are charged and never settled, are the exceptions.
WalletFollowsReservations ==
  \A o \in processed : ledger[o].reserved > 0 =>
    /\ told[o].settles => told[o].settled = ledger[o].charged
    /\ told[o].settled + told[o].released <= ledger[o].reserved
    /\ \/ metadata[o] # Nothing
       \/ taker # NoTaker
       \/ ledger[o].dropped > 0
       \/ ~told[o].settles /\ ledger[o].charged > 0
       \/ told[o].settled + told[o].released = ledger[o].reserved

\* Trading creates no money: what the account deltas have paid out and what
\* the open positions cost at their entry prices add up to nothing but the
\* rounding of those prices, self-trades, liquidations and deleveraging
\* included.
MoneyIsConserved ==
  money.realised - SumFunction([u \in Users |->
                                  positions[u].average * positions[u].quantity])
    = money.rounded

\* A reader that follows OrderOpened, TradeExecuted and OrderCancelled knows
\* the resting orders and what is left of them, partial fills of the incoming
\* order, liquidations and restarts included.
OpenOrdersFollow ==
  pc = "idle" =>
    \A o \in OrderIds :
      IF told[o].opened = 0 THEN o \notin Resting
      ELSE told[o].opened - told[o].traded =
             IF o \in Resting THEN book[o].remaining ELSE 0

\* Between inputs no account is liquidatable that the last loop did not
\* attempt, unless the loop was cut off at its cap or the last change of the
\* accounts was a requested liquidation.
LiquidatablesWereTried ==
  pc = "idle" =>
    \A u \in Users \ excused : risks[u].status # "LIQUIDATABLE"

\* Funding moves money between the accounts: with a mark price, what a
\* settlement adds to some equities it takes from others, up to one unit of
\* rounding an account.  Without one, each account pays at its own entry price.
FundingBalances ==
  [][settled' # settled /\ mark # 0 =>
       LET open == {u \in Users : positions[u].quantity # 0}
           paid == [u \in Users |-> EquityAdjustment(risks'[u]) - EquityAdjustment(risks[u])]
       IN  Abs(SumFunctionOnSet(paid, open)) <= Cardinality(open)]_vars
=============================================================================
