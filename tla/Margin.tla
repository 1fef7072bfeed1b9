-------------------------------- MODULE Margin --------------------------------
(***************************************************************************)
(* The arithmetic of isolated margin: what a fill charges to an order's    *)
(* reservation, what it does to a position, and the risk of a position at  *)
(* a mark price.  All amounts are integers; where the code divides a       *)
(* possibly negative number it truncates toward zero.                      *)
(***************************************************************************)
LOCAL INSTANCE Integers

Abs(q) == IF q < 0 THEN -q ELSE q

LesserOf(a, b) == IF a <= b THEN a ELSE b

TruncatedQuotient(a, b) == IF a >= 0 THEN a \div b ELSE -((-a) \div b)

SameDirection(a, b) == (a > 0 /\ b > 0) \/ (a < 0 /\ b < 0)

SignedFill(side, lots) == IF side = "Long" THEN lots ELSE -lots

OppositeSide(side) == IF side = "Long" THEN "Short" ELSE "Long"

\* The side that closes a position of quantity q.
ClosingSide(q) == IF q > 0 THEN "Short" ELSE "Long"

-----------------------------------------------------------------------------
(* Reservations.  meta is the OrderMetadata of an order: its original and   *)
(* remaining quantity, the margin reserved for it and what is unspent.      *)

FallbackMargin(meta, lots, price) ==
  (price * lots) \div (IF meta.leverage <= 0 THEN 1 ELSE meta.leverage)

\* Variant: the last fill is charged its share, not what is left.
AllocatedProRata(meta, lots, price) ==
  IF meta.reserved > 0 /\ meta.original > 0
  THEN LesserOf(meta.unspent, (meta.reserved * lots) \div meta.original)
  ELSE FallbackMargin(meta, lots, price)

\* A fill is charged its share of the reservation, the last one what is left.
AllocatedMargin(meta, lots, price) ==
  IF meta.reserved > 0 /\ meta.original > 0
  THEN IF meta.remaining > 0 /\ lots >= meta.remaining THEN meta.unspent
       ELSE LesserOf(meta.unspent, (meta.reserved * lots) \div meta.original)
  ELSE FallbackMargin(meta, lots, price)

\* Variant: the remaining quantity is left as it was.
ChargedOnly(meta, lots, price) ==
  [meta EXCEPT !.unspent = @ - LesserOf(@, AllocatedMargin(meta, lots, price))]

AfterFill(meta, lots, price) ==
  LET allocated == AllocatedMargin(meta, lots, price)
  IN  [meta EXCEPT !.remaining = @ - LesserOf(@, lots),
                   !.unspent = @ - LesserOf(@, allocated)]

-----------------------------------------------------------------------------
(* Positions.                                                              *)

FlatPosition == [quantity |-> 0, average |-> 0, margin |-> 0, leverage |-> 0]

\* Opening, increasing, closing, reducing and reversing.
EntryAndMargin(position, fill, price, fillMargin) ==
  LET old == position.quantity
      new == old + fill
  IN  CASE old = 0 -> <<price, fillMargin>>
        [] SameDirection(old, fill) ->
             <<(position.average * Abs(old) + price * Abs(fill)) \div Abs(new),
               position.margin + fillMargin>>
        [] old # 0 /\ new = 0 -> <<0, 0>>
        [] SameDirection(old, new) /\ ~SameDirection(old, fill) ->
             <<position.average, (position.margin * Abs(new)) \div Abs(old)>>
        [] OTHER -> <<price, (fillMargin * Abs(new)) \div Abs(fill)>>

ApplyPositionFill(position, leverage, fill, price, fillMargin) ==
  LET result == EntryAndMargin(position, fill, price, fillMargin)
  IN  [quantity |-> position.quantity + fill,
       average  |-> result[1],
       margin   |-> result[2],
       leverage |-> IF position.leverage = 0 \/ position.quantity = 0
                    THEN leverage ELSE position.leverage]

-----------------------------------------------------------------------------
(* Risk.                                                                   *)

NoRisk == [status |-> "NONE", quantity |-> 0, average |-> 0, mark |-> 0,
           margin |-> 0, pnl |-> 0, equity |-> 0, maintenance |-> 0,
           leverage |-> 0]

MaintenanceMargin(quantity, price) == (Abs(quantity) * price) \div 20

MarginRatio(risk) ==
  IF risk.maintenance = 0 THEN 0
  ELSE TruncatedQuotient(risk.equity * 10000, risk.maintenance)

RiskStatus(quantity, equity, maintenance) ==
  IF quantity = 0 THEN "FLAT"
  ELSE IF equity <= maintenance THEN "LIQUIDATABLE" ELSE "HEALTHY"

\* The part of the equity that is neither margin nor profit: funding.
EquityAdjustment(risk) == risk.equity - (risk.margin + risk.pnl)

RiskOf(position, mark, adjustment) ==
  LET pnl         == (mark - position.average) * position.quantity
      maintenance == MaintenanceMargin(position.quantity, mark)
      equity      == position.margin + pnl + adjustment
  IN  [status   |-> RiskStatus(position.quantity, equity, maintenance),
       quantity |-> position.quantity, average |-> position.average,
       mark |-> mark, margin |-> position.margin, pnl |-> pnl,
       equity |-> equity, maintenance |-> maintenance,
       leverage |-> position.leverage]

FundingAmount(position, mark, rate, scale) ==
  -TruncatedQuotient(position.quantity * mark * rate, scale)
=============================================================================
