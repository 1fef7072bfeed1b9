----------------------------- MODULE AccountProofs -----------------------------
(***************************************************************************)
(* The positions of a market balance, the risk of every account is that of *)
(* its position at the latest mark, reservations are neither lost nor      *)
(* spent twice, metadata matches the book, reduce-only orders reduce and   *)
(* the book comes before deleveraging.  What the readers of engine.events  *)
(* are told agrees with it: the wallet settles what was charged, no trade  *)
(* creates money, the open orders can be followed and the liquidation loop *)
(* leaves no account out.  All of it for every set of accounts, orders,    *)
(* prices and inputs.                                                      *)
(***************************************************************************)
EXTENDS AccountEvents, BasicLemmas

(***************************************************************************)
(* The inductive invariant.                                                *)
(***************************************************************************)

PositionRecord == [quantity : Int, average : Nat, margin : Nat, leverage : Nat]

Risk ==
  [status : {"NONE", "FLAT", "HEALTHY", "LIQUIDATABLE"}, quantity : Int,
   average : Nat, mark : Nat, margin : Nat, pnl : Int, equity : Int,
   maintenance : Nat, leverage : Nat]

\* An order of the input partition, or of a liquidation, while it matches.
PlacedOrder ==
  [kind : {"place"}, orderId : OrderIds, user : Users, side : Sides,
   price : BookPrices, left : Nat, meta : Metadata, canRest : BOOLEAN,
   reduceOnly : BOOLEAN, traded : BOOLEAN, before : Int]

LiquidationOrder ==
  [kind : {"liquidation"}, user : Users, side : Sides, price : Nat, left : Nat,
   canRest : {FALSE}, reduceOnly : {TRUE}, traded : BOOLEAN, before : Int,
   meta : Metadata]

Ledger == [reserved : Nat, charged : Nat, returned : Nat, dropped : Nat]

AccountsOK ==
  /\ positions \in [Users -> PositionRecord]
  /\ risks \in [Users -> Risk]

MarketOK ==
  /\ mark \in Nat
  /\ funding \in [interval : Nat, rate : Int]
  /\ settled \subseteq Nat

OrdersOK ==
  /\ book \in [OrderIds -> RestingOrder \cup {Nothing}]
  /\ metadata \in [OrderIds -> Metadata \cup {Nothing}]
  /\ arrivals \in Nat
  /\ processed \subseteq OrderIds
  /\ ledger \in [OrderIds -> Ledger]

ThreadOK ==
  /\ pc \in {"idle", "matching", "deleveraging", "scanning"}
  /\ scan \in [running : BOOLEAN, startup : BOOLEAN, attempted : SUBSET Users]
  /\ pc \in {"idle", "scanning"} => taker = NoTaker
  /\ pc = "matching" => taker \in PlacedOrder \cup LiquidationOrder
  /\ pc = "deleveraging" => taker \in LiquidationOrder
  /\ restarts \in Nat

\* The types of the state, by what the thread is doing.
TypeOK == AccountsOK /\ MarketOK /\ OrdersOK /\ ThreadOK

\* What is unspent of a reservation lies within it, and nothing is when the
\* order has filled.
MarginOK(meta) ==
  /\ meta.original > 0
  /\ meta.unspent <= meta.reserved
  /\ meta.remaining = 0 => meta.unspent = 0

\* No two resting orders were queued at once, and later ones come after them.
QueueOK ==
  /\ \A o \in OrderIds : o < arrivals
  /\ \A o \in Resting : book[o].queued < arrivals
  /\ \A o, other \in Resting : book[o].queued = book[other].queued => o = other

\* An order id has metadata only once its place was processed.
MetadataOK ==
  \A o \in OrderIds : metadata[o] # Nothing =>
    /\ o \in processed
    /\ MarginOK(metadata[o])
    /\ ledger[o].returned = 0
    /\ ledger[o].dropped = 0

\* The ledger of an order id that was not used yet is empty.
UnusedOK ==
  \A o \in OrderIds \ processed :
    ledger[o] = [reserved |-> 0, charged |-> 0, returned |-> 0, dropped |-> 0]

\* The incoming order is in nobody's books yet, and what the core still has to
\* match of it is what its metadata says.
Placing == pc = "matching" /\ taker.kind = "place"

PlacingOK ==
  Placing =>
    /\ taker.orderId \in processed
    /\ metadata[taker.orderId] = Nothing
    /\ MarginOK(taker.meta)
    /\ ledger[taker.orderId].returned = 0
    /\ ledger[taker.orderId].dropped = 0
    /\ ~taker.reduceOnly => taker.left = taker.meta.remaining

Trading == pc \in {"matching", "deleveraging"}

\* A reduce-only order closes the position it found, and has no more left to
\* match than there is to close.
ReducingOK ==
  Trading =>
    LET now == positions[taker.user].quantity
    IN  /\ taker.meta.side = taker.side /\ taker.meta.user = taker.user
        /\ taker.reduceOnly =>
             /\ taker.before # 0
             /\ taker.side = ClosingSide(taker.before)
             /\ Abs(now) <= Abs(taker.before)
             /\ now # 0 => SameDirection(now, taker.before)
             /\ pc = "matching" => taker.left <= Abs(now)

\* An account without a position is not up for liquidation.
FlatOK ==
  \A u \in Users :
    positions[u].quantity = 0 => risks[u].status # "LIQUIDATABLE"

IInv ==
  /\ TypeOK
  /\ QueueOK /\ MetadataOK /\ UnusedOK /\ PlacingOK /\ ReducingOK /\ FlatOK
  /\ PositionsBalance /\ MetadataMatchesBook /\ RiskIsCurrent /\ ReservationsAddUp

(***************************************************************************)
(* Arithmetic.                                                             *)
(***************************************************************************)

\* Products and quotients stay in their sets; the provers are given them as facts.
LEMMA NaturalArithmetic ==
  /\ \A a, b \in Nat : a * b \in Nat
  /\ \A a, b \in Int : a * b \in Int
  /\ \A a \in Nat, b \in Nat \ {0} : a \div b \in Nat
<1>1. ASSUME NEW a \in Nat, NEW b \in Nat PROVE a * b \in Nat
  OBVIOUS
<1>2. ASSUME NEW a \in Int, NEW b \in Int PROVE a * b \in Int
  OBVIOUS
<1>3. ASSUME NEW a \in Nat, NEW b \in Nat \ {0} PROVE a \div b \in Nat
  OBVIOUS
<1> QED BY <1>1, <1>2, <1>3

\* Accounts, orders and prices are natural numbers, and prices positive.
LEMMA ConstantTypes ==
  /\ \A u \in Users : u \in Nat
  /\ \A o \in OrderIds : o \in Nat
  /\ \A p \in BookPrices : p \in Nat /\ p > 0
  /\ \A p \in MarkPrices : p \in Nat /\ p > 0
  /\ IsFiniteSet(Users) /\ IsFiniteSet(OrderIds) /\ OrderIds # {}
BY RuntimeAssumption

\* The size of a position is a natural number, zero for a flat one only.
LEMMA AbsType ==
  \A q \in Int : /\ Abs(q) \in Nat
                 /\ Abs(q) = 0 <=> q = 0
                 /\ ClosingSide(q) \in Sides
BY DEF Abs, ClosingSide, Sides

\* The code's truncating division gives an integer.
LEMMA TruncatedQuotientType ==
  \A a \in Int, b \in Nat \ {0} : TruncatedQuotient(a, b) \in Int
<1> SUFFICES ASSUME NEW a \in Int, NEW b \in Nat \ {0}
             PROVE  TruncatedQuotient(a, b) \in Int
  OBVIOUS
<1>1. CASE a >= 0
  BY <1>1, NaturalArithmetic DEF TruncatedQuotient
<1>2. CASE ~(a >= 0)
  <2>1. -a \in Nat BY <1>2
  <2>2. (-a) \div b \in Nat BY <2>1, NaturalArithmetic
  <2> QED BY <1>2, <2>2 DEF TruncatedQuotient
<1> QED BY <1>1, <1>2

(***************************************************************************)
(* Reservations: what a fill is charged is there to be charged.            *)
(***************************************************************************)

\* A fill charges a natural margin and leaves the order's owner, side and quantity alone.
LEMMA Allocation ==
  ASSUME NEW meta \in Metadata, NEW lots \in Nat, NEW price \in Nat
  PROVE  /\ AllocatedMargin(meta, lots, price) \in Nat
         /\ AfterFill(meta, lots, price) \in Metadata
         /\ AfterFill(meta, lots, price).side = meta.side
         /\ AfterFill(meta, lots, price).user = meta.user
         /\ AfterFill(meta, lots, price).original = meta.original
         /\ AfterFill(meta, lots, price).reserved = meta.reserved
         /\ lots <= meta.remaining =>
              AfterFill(meta, lots, price).remaining = meta.remaining - lots
         /\ MarginOK(meta) =>
              /\ MarginOK(AfterFill(meta, lots, price))
              /\ meta.reserved = 0 => AfterFill(meta, lots, price).unspent = meta.unspent
              /\ meta.reserved > 0 =>
                   AfterFill(meta, lots, price).unspent
                     = meta.unspent - AllocatedMargin(meta, lots, price)
<1> DEFINE a == AllocatedMargin(meta, lots, price)
           after == AfterFill(meta, lots, price)
<1>0. /\ meta.original \in Nat /\ meta.remaining \in Nat /\ meta.reserved \in Nat
      /\ meta.unspent \in Nat /\ meta.leverage \in Nat /\ meta.side \in Sides
      /\ meta.user \in Users
  BY DEF Metadata
<1>1. FallbackMargin(meta, lots, price) \in Nat
  <2>1. price * lots \in Nat BY NaturalArithmetic
  <2>2. (IF meta.leverage <= 0 THEN 1 ELSE meta.leverage) \in Nat \ {0} BY <1>0
  <2> QED BY <2>1, <2>2, NaturalArithmetic DEF FallbackMargin
<1>2. ASSUME meta.original > 0 PROVE (meta.reserved * lots) \div meta.original \in Nat
  <2>1. meta.reserved * lots \in Nat BY <1>0, NaturalArithmetic
  <2>2. meta.original \in Nat \ {0} BY <1>0, <1>2
  <2> QED BY <2>1, <2>2, NaturalArithmetic
<1>3. a \in Nat
  BY <1>0, <1>1, <1>2 DEF AllocatedMargin, LesserOf
<1>4. ASSUME meta.reserved > 0, MarginOK(meta)
      PROVE  a <= meta.unspent /\ (lots >= meta.remaining => a = meta.unspent)
  <2>1. meta.original > 0 BY <1>4 DEF MarginOK
  <2>2. (meta.reserved * lots) \div meta.original \in Nat BY <1>2, <2>1
  <2> DEFINE share == (meta.reserved * lots) \div meta.original
  <2>3. a = IF meta.remaining > 0 /\ lots >= meta.remaining THEN meta.unspent
            ELSE IF meta.unspent <= share THEN meta.unspent ELSE share
    BY <1>4, <2>1 DEF AllocatedMargin, LesserOf
  <2> HIDE DEF a, share
  <2>4. share \in Nat BY <2>2 DEF share
  <2>5. meta.remaining = 0 => meta.unspent = 0 BY <1>4 DEF MarginOK
  <2> QED BY <1>0, <2>3, <2>4, <2>5
<1> HIDE DEF a
<1>5. after = [meta EXCEPT !.remaining = @ - LesserOf(@, lots),
                           !.unspent = @ - LesserOf(@, a)]
  BY DEF AfterFill, a
<1>6. /\ LesserOf(meta.remaining, lots) \in Nat /\ LesserOf(meta.remaining, lots) <= meta.remaining
      /\ LesserOf(meta.unspent, a) \in Nat /\ LesserOf(meta.unspent, a) <= meta.unspent
      /\ lots <= meta.remaining => LesserOf(meta.remaining, lots) = lots
      /\ a <= meta.unspent => LesserOf(meta.unspent, a) = a
      /\ lots >= meta.remaining => LesserOf(meta.remaining, lots) = meta.remaining
      /\ lots < meta.remaining => LesserOf(meta.remaining, lots) = lots
  BY <1>0, <1>3 DEF LesserOf
<1>7. /\ after.remaining = meta.remaining - LesserOf(meta.remaining, lots)
      /\ after.unspent = meta.unspent - LesserOf(meta.unspent, a)
      /\ after.user = meta.user /\ after.side = meta.side
      /\ after.original = meta.original /\ after.reserved = meta.reserved
      /\ after.leverage = meta.leverage
      /\ after = [user |-> meta.user, side |-> meta.side, original |-> meta.original,
                  remaining |-> meta.remaining - LesserOf(meta.remaining, lots),
                  reserved |-> meta.reserved,
                  unspent |-> meta.unspent - LesserOf(meta.unspent, a),
                  leverage |-> meta.leverage]
  BY <1>5 DEF Metadata
<1> HIDE DEF after
<1>8. after \in Metadata
  <2>1. /\ meta.remaining - LesserOf(meta.remaining, lots) \in Nat
        /\ meta.unspent - LesserOf(meta.unspent, a) \in Nat
    BY <1>0, <1>6
  <2> QED BY <1>0, <1>7, <2>1 DEF Metadata
<1>9. ASSUME MarginOK(meta)
      PROVE  /\ MarginOK(after)
             /\ meta.reserved = 0 => after.unspent = meta.unspent
             /\ meta.reserved > 0 => after.unspent = meta.unspent - a
  <2>1. meta.original > 0 /\ meta.unspent <= meta.reserved
    BY <1>9 DEF MarginOK
  <2>2. CASE meta.reserved = 0
    <3>1. meta.unspent = 0 BY <1>0, <2>1, <2>2
    <3>2. after.unspent = 0 BY <1>0, <1>3, <1>6, <1>7, <3>1
    <3> QED BY <1>7, <2>1, <2>2, <3>1, <3>2 DEF MarginOK
  <2>3. CASE meta.reserved > 0
    <3>1. a <= meta.unspent /\ (lots >= meta.remaining => a = meta.unspent)
      BY <1>4, <1>9, <2>3
    <3>2. after.unspent = meta.unspent - a BY <1>6, <1>7, <3>1
    <3>3. after.unspent <= after.reserved BY <1>0, <1>3, <1>7, <2>1, <3>2
    <3>4. after.remaining = 0 => after.unspent = 0
      BY <1>0, <1>3, <1>6, <1>7, <3>1, <3>2
    <3> QED BY <1>7, <2>1, <2>3, <3>2, <3>3, <3>4 DEF MarginOK
  <2> QED BY <1>0, <2>2, <2>3
<1>10. lots <= meta.remaining => after.remaining = meta.remaining - lots
  BY <1>6, <1>7
<1> QED BY <1>3, <1>7, <1>8, <1>9, <1>10 DEF a, after

(***************************************************************************)
(* Positions and risk.                                                     *)
(***************************************************************************)

\* The arguments of ApplyPositionFill.
MayFill(position, leverage, fill, price, fillMargin) ==
  /\ position \in PositionRecord /\ leverage \in Nat /\ fill \in Int
  /\ price \in Nat /\ fillMargin \in Nat

\* apply_position_fill adds the fill to the position, and nothing gets negative.
LEMMA FillPosition ==
  ASSUME NEW position, NEW leverage, NEW fill, NEW price, NEW fillMargin,
         MayFill(position, leverage, fill, price, fillMargin)
  PROVE  /\ ApplyPositionFill(position, leverage, fill, price, fillMargin) \in PositionRecord
         /\ ApplyPositionFill(position, leverage, fill, price, fillMargin).quantity
              = position.quantity + fill
<1> DEFINE old == position.quantity
           new == old + fill
           result == EntryAndMargin(position, fill, price, fillMargin)
<1>0. /\ old \in Int /\ new \in Int /\ position.average \in Nat
      /\ position.margin \in Nat /\ position.leverage \in Nat
      /\ Abs(old) \in Nat /\ Abs(new) \in Nat /\ Abs(fill) \in Nat
  BY AbsType DEF PositionRecord, MayFill
<1>a. leverage \in Nat /\ fill \in Int /\ price \in Nat /\ fillMargin \in Nat
      /\ position \in PositionRecord
  BY DEF MayFill
<1>1. result \in Nat \X Nat
  <2>1. CASE old = 0
    <3>1. result = <<price, fillMargin>>
      BY <1>0, <1>a, <2>1 DEF EntryAndMargin, SameDirection
    <3> HIDE DEF result
    <3> QED BY <1>a, <3>1
  <2>2. CASE old # 0 /\ SameDirection(old, fill)
    <3>1. new # 0 BY <1>0, <1>a, <2>2 DEF SameDirection
    <3>2. Abs(new) \in Nat \ {0} BY <1>0, <1>a, <3>1, AbsType
    <3>3. position.average * Abs(old) \in Nat /\ price * Abs(fill) \in Nat
      BY <1>0, <1>a, NaturalArithmetic
    <3>4. position.average * Abs(old) + price * Abs(fill) \in Nat BY <3>3
    <3>5. (position.average * Abs(old) + price * Abs(fill)) \div Abs(new) \in Nat
      BY <3>2, <3>4, NaturalArithmetic
    <3>6. result = <<(position.average * Abs(old) + price * Abs(fill)) \div Abs(new),
                     position.margin + fillMargin>>
      BY <1>0, <1>a, <2>2, <3>1 DEF EntryAndMargin
    <3>7. position.margin + fillMargin \in Nat BY <1>0, <1>a
    <3> HIDE DEF old, new, result
    <3> QED BY <3>5, <3>6, <3>7
  <2>3. CASE old # 0 /\ ~SameDirection(old, fill) /\ new = 0
    <3>1. result = <<0, 0>>
      BY <1>0, <1>a, <2>3 DEF EntryAndMargin, SameDirection
    <3> HIDE DEF result
    <3> QED BY <3>1
  <2>4. CASE /\ old # 0 /\ ~SameDirection(old, fill) /\ new # 0
             /\ SameDirection(old, new)
    <3>1. Abs(old) \in Nat \ {0} BY <1>0, <1>a, <2>4, AbsType
    <3>2. position.margin * Abs(new) \in Nat BY <1>0, <1>a, NaturalArithmetic
    <3>3. (position.margin * Abs(new)) \div Abs(old) \in Nat
      BY <3>1, <3>2, NaturalArithmetic
    <3>4. result = <<position.average, (position.margin * Abs(new)) \div Abs(old)>>
      BY <2>4 DEF EntryAndMargin
    <3> HIDE DEF old, new, result
    <3> QED BY <1>0, <1>a, <3>3, <3>4
  <2>5. CASE /\ old # 0 /\ ~SameDirection(old, fill) /\ new # 0
             /\ ~SameDirection(old, new)
    <3>1. fill # 0 BY <1>0, <1>a, <2>5 DEF SameDirection
    <3>2. Abs(fill) \in Nat \ {0} BY <1>0, <1>a, <3>1, AbsType
    <3>3. fillMargin * Abs(new) \in Nat BY <1>0, <1>a, NaturalArithmetic
    <3>4. (fillMargin * Abs(new)) \div Abs(fill) \in Nat
      BY <3>2, <3>3, NaturalArithmetic
    <3>5. result = <<price, (fillMargin * Abs(new)) \div Abs(fill)>>
      BY <2>5 DEF EntryAndMargin
    <3> HIDE DEF old, new, result
    <3> QED BY <1>a, <3>4, <3>5
  <2> QED BY <2>1, <2>2, <2>3, <2>4, <2>5
<1>2. result[1] \in Nat /\ result[2] \in Nat
  <2> HIDE DEF result
  <2> QED BY <1>1
<1>3. ApplyPositionFill(position, leverage, fill, price, fillMargin)
        = [quantity |-> new, average |-> result[1], margin |-> result[2],
           leverage |-> IF position.leverage = 0 \/ old = 0
                        THEN leverage ELSE position.leverage]
  BY DEF ApplyPositionFill
<1> HIDE DEF result, new
<1> QED BY <1>0, <1>a, <1>2, <1>3 DEF PositionRecord, new

\* The risk of a position is that of RiskOf with some funding added, m being
\* the latest mark price.
RiskFollows(position, r, m) ==
  IF position.quantity = 0 THEN r.status # "LIQUIDATABLE"
  ELSE /\ r.quantity = position.quantity
       /\ r.average = position.average
       /\ r.margin = position.margin
       /\ m # 0 => r.mark = m
       /\ r.pnl = (r.mark - position.average) * position.quantity
       /\ r.status = "LIQUIDATABLE" <=> r.equity <= r.maintenance

\* A computed risk is a risk, and follows the mark price it was computed with.
LEMMA RiskOfType ==
  ASSUME NEW position \in PositionRecord, NEW price \in Nat, NEW adjustment \in Int, NEW m
  PROVE  /\ RiskOf(position, price, adjustment) \in Risk
         /\ RiskOf(position, price, adjustment).mark = price
         /\ (m # 0 => price = m)
            => RiskFollows(position, RiskOf(position, price, adjustment), m)
<1> DEFINE pnl == (price - position.average) * position.quantity
           maintenance == MaintenanceMargin(position.quantity, price)
           equity == position.margin + pnl + adjustment
           r == RiskOf(position, price, adjustment)
<1>0. /\ position.quantity \in Int /\ position.average \in Nat
      /\ position.margin \in Nat /\ position.leverage \in Nat
  BY DEF PositionRecord
<1>1. pnl \in Int
  <2>1. price - position.average \in Int BY <1>0
  <2> QED BY <1>0, <2>1, NaturalArithmetic
<1>2. maintenance \in Nat
  <2>1. Abs(position.quantity) * price \in Nat BY <1>0, AbsType, NaturalArithmetic
  <2> QED BY <2>1, NaturalArithmetic DEF MaintenanceMargin
<1>3. equity \in Int
  <2> HIDE DEF pnl
  <2> QED BY <1>0, <1>1
<1>4. RiskStatus(position.quantity, equity, maintenance)
        \in {"NONE", "FLAT", "HEALTHY", "LIQUIDATABLE"}
  BY DEF RiskStatus
<1>5. r = [status   |-> RiskStatus(position.quantity, equity, maintenance),
           quantity |-> position.quantity, average |-> position.average,
           mark |-> price, margin |-> position.margin, pnl |-> pnl,
           equity |-> equity, maintenance |-> maintenance,
           leverage |-> position.leverage]
  BY DEF RiskOf
<1>6. position.quantity # 0 =>
        (RiskStatus(position.quantity, equity, maintenance) = "LIQUIDATABLE"
           <=> equity <= maintenance)
  BY DEF RiskStatus
<1>7. position.quantity = 0 =>
        RiskStatus(position.quantity, equity, maintenance) = "FLAT"
  BY DEF RiskStatus
<1>8. pnl = (price - position.average) * position.quantity
  OBVIOUS
<1> HIDE DEF pnl, equity, maintenance, r
<1>9. r \in Risk BY <1>0, <1>1, <1>2, <1>3, <1>4, <1>5 DEF Risk
<1>10. (m # 0 => price = m) => RiskFollows(position, r, m)
  BY <1>5, <1>6, <1>7, <1>8 DEF RiskFollows
<1> QED BY <1>5, <1>9, <1>10 DEF r

\* append_position_and_risk_updates for one side of a trade.
LEMMA FillOfAccount ==
  ASSUME mark \in Nat, NEW acc,
         acc.positions \in [Users -> PositionRecord], acc.risks \in [Users -> Risk],
         NEW user \in Users, NEW meta \in Metadata, NEW lots \in Nat, NEW price \in Nat
  PROVE  LET after == FillAccount(acc, user, meta, lots, price)
         IN  /\ after.positions \in [Users -> PositionRecord]
             /\ after.risks \in [Users -> Risk]
             /\ \A v \in Users \ {user} : /\ after.positions[v] = acc.positions[v]
                                          /\ after.risks[v] = acc.risks[v]
             /\ after.positions[user].quantity
                  = acc.positions[user].quantity + SignedFill(meta.side, lots)
             /\ RiskFollows(after.positions[user], after.risks[user], mark)
<1> DEFINE position == ApplyPositionFill(acc.positions[user], meta.leverage,
                         SignedFill(meta.side, lots), price,
                         AllocatedMargin(meta, lots, price))
           risk == RiskOf(position, MarkOr(price), 0)
           after == FillAccount(acc, user, meta, lots, price)
<1>1. /\ acc.positions[user] \in PositionRecord /\ meta.leverage \in Nat
      /\ SignedFill(meta.side, lots) \in Int
      /\ AllocatedMargin(meta, lots, price) \in Nat
  <2>1. meta.leverage \in Nat BY DEF Metadata
  <2>2. SignedFill(meta.side, lots) \in Int BY DEF SignedFill
  <2>3. AllocatedMargin(meta, lots, price) \in Nat BY Allocation
  <2>4. acc.positions[user] \in PositionRecord OBVIOUS
  <2> QED BY <2>1, <2>2, <2>3, <2>4
<1>2. /\ position \in PositionRecord
      /\ position.quantity = acc.positions[user].quantity + SignedFill(meta.side, lots)
  <2> HIDE DEF position
  <2> DEFINE p == acc.positions[user]
             f == SignedFill(meta.side, lots)
             m == AllocatedMargin(meta, lots, price)
             l == meta.leverage
  <2>1. /\ p \in PositionRecord /\ f \in Int /\ m \in Nat /\ l \in Nat
        /\ position = ApplyPositionFill(p, l, f, price, m)
    BY <1>1 DEF position
  <2> HIDE DEF p, f, m, l, position
  <2>2. /\ ApplyPositionFill(p, l, f, price, m) \in PositionRecord
        /\ ApplyPositionFill(p, l, f, price, m).quantity = p.quantity + f
    <3>1. MayFill(p, l, f, price, m) BY <2>1 DEF MayFill
    <3> QED BY <3>1, FillPosition
  <2>4. position \in PositionRecord /\ position.quantity = p.quantity + f
    BY <2>1, <2>2, Zenon
  <2> QED BY <2>4, Zenon DEF p, f
<1>3. MarkOr(price) \in Nat /\ (mark # 0 => MarkOr(price) = mark)
  BY DEF MarkOr
<1> HIDE DEF position
<1>4. risk \in Risk /\ RiskFollows(position, risk, mark)
  <2>1. 0 \in Int OBVIOUS
  <2> QED BY <1>2, <1>3, <2>1, RiskOfType
<1>5. after = [positions |-> [acc.positions EXCEPT ![user] = position],
               risks     |-> [acc.risks EXCEPT ![user] = risk]]
  BY DEF FillAccount, position
<1> HIDE DEF risk, after
<1> SUFFICES /\ after.positions \in [Users -> PositionRecord]
             /\ after.risks \in [Users -> Risk]
             /\ \A v \in Users \ {user} : /\ after.positions[v] = acc.positions[v]
                                          /\ after.risks[v] = acc.risks[v]
             /\ after.positions[user] = position
             /\ after.risks[user] = risk
  BY <1>2, <1>4 DEF after
<1> QED BY <1>2, <1>4, <1>5

\* A fill moves maker and taker by opposite amounts.
LEMMA OppositeFills ==
  ASSUME NEW side \in Sides, NEW lots \in Int
  PROVE  /\ OppositeSide(side) \in Sides
         /\ SignedFill(side, lots) \in Int
         /\ SignedFill(OppositeSide(side), lots) = -SignedFill(side, lots)
BY DEF Sides, OppositeSide, SignedFill

\* What one fill adds to a position's quantity.
Added(u, v, side, lots) == IF v = u THEN SignedFill(side, lots) ELSE 0

\* Both sides of a trade, in turn, on the same maps.
LEMMA TradeOfAccounts ==
  ASSUME AccountsOK, RiskIsCurrent, FlatOK, mark \in Nat, mark' = mark,
         taker.user \in Users, taker.meta \in Metadata,
         NEW makerUser \in Users, NEW makerMeta \in Metadata,
         NEW lots \in Nat, NEW price \in Nat,
         ApplyTrade(makerUser, makerMeta, lots, price)
  PROVE  /\ AccountsOK'
         /\ RiskIsCurrent'
         /\ FlatOK'
         /\ \A v \in Users :
              positions'[v].quantity
                = positions[v].quantity + Added(makerUser, v, makerMeta.side, lots)
                    + Added(taker.user, v, taker.meta.side, lots)
<1> DEFINE start == [positions |-> positions, risks |-> risks]
<1>1. PICK made, done :
        /\ made = FillAccount(start, makerUser, makerMeta, lots, price)
        /\ done = FillAccount(made, taker.user, taker.meta, lots, price)
        /\ positions' = done.positions /\ risks' = done.risks
  BY DEF ApplyTrade
<1>2. start.positions \in [Users -> PositionRecord] /\ start.risks \in [Users -> Risk]
  BY DEF AccountsOK
<1>3. start.positions = positions /\ start.risks = risks
  OBVIOUS
<1> HIDE DEF start
<1>4. /\ made.positions \in [Users -> PositionRecord]
      /\ made.risks \in [Users -> Risk]
      /\ \A v \in Users \ {makerUser} : /\ made.positions[v] = positions[v]
                                        /\ made.risks[v] = risks[v]
      /\ made.positions[makerUser].quantity
           = positions[makerUser].quantity + SignedFill(makerMeta.side, lots)
      /\ RiskFollows(made.positions[makerUser], made.risks[makerUser], mark)
  BY <1>1, <1>2, <1>3, FillOfAccount
<1>5. /\ done.positions \in [Users -> PositionRecord]
      /\ done.risks \in [Users -> Risk]
      /\ \A v \in Users \ {taker.user} : /\ done.positions[v] = made.positions[v]
                                         /\ done.risks[v] = made.risks[v]
      /\ done.positions[taker.user].quantity
           = made.positions[taker.user].quantity + SignedFill(taker.meta.side, lots)
      /\ RiskFollows(done.positions[taker.user], done.risks[taker.user], mark)
  <2> DEFINE user == taker.user
             meta == taker.meta
  <2>1. user \in Users /\ meta \in Metadata /\ done = FillAccount(made, user, meta, lots, price)
    BY <1>1
  <2> SUFFICES /\ done.positions \in [Users -> PositionRecord]
               /\ done.risks \in [Users -> Risk]
               /\ \A v \in Users \ {user} : /\ done.positions[v] = made.positions[v]
                                             /\ done.risks[v] = made.risks[v]
               /\ done.positions[user].quantity
                    = made.positions[user].quantity + SignedFill(meta.side, lots)
               /\ RiskFollows(done.positions[user], done.risks[user], mark)
    OBVIOUS
  <2> HIDE DEF user, meta
  <2> QED BY <1>4, <2>1, FillOfAccount
<1>6. AccountsOK'
  BY <1>1, <1>5 DEF AccountsOK
<1>7. \A v \in Users : RiskFollows(positions[v], risks[v], mark)
  BY DEF RiskIsCurrent, FlatOK, RiskFollows
<1>8. \A v \in Users : RiskFollows(done.positions[v], done.risks[v], mark)
  <2> TAKE v \in Users
  <2>1. CASE v = taker.user BY <1>5, <2>1
  <2>2. CASE v # taker.user /\ v = makerUser
    <3>1. done.positions[v] = made.positions[v] /\ done.risks[v] = made.risks[v]
      BY <1>5, <2>2
    <3> QED BY <1>4, <2>2, <3>1
  <2>3. CASE v # taker.user /\ v # makerUser
    <3>1. done.positions[v] = made.positions[v] /\ done.risks[v] = made.risks[v]
      BY <1>5, <2>3
    <3>2. made.positions[v] = positions[v] /\ made.risks[v] = risks[v]
      BY <1>4, <2>3
    <3> QED BY <1>7, <3>1, <3>2
  <2> QED BY <2>1, <2>2, <2>3
<1>9. RiskIsCurrent'
  BY <1>1, <1>8 DEF RiskIsCurrent, RiskFollows
<1>10. ASSUME NEW v \in Users
       PROVE  positions'[v].quantity
                = positions[v].quantity + Added(makerUser, v, makerMeta.side, lots)
                    + Added(taker.user, v, taker.meta.side, lots)
  <2>1. positions[v].quantity \in Int /\ made.positions[v].quantity \in Int
    BY <1>4 DEF AccountsOK, PositionRecord
  <2>2. SignedFill(makerMeta.side, lots) \in Int /\ SignedFill(taker.meta.side, lots) \in Int
    BY OppositeFills DEF Metadata
  <2>3. made.positions[v].quantity
          = positions[v].quantity + Added(makerUser, v, makerMeta.side, lots)
    BY <1>4, <2>1, <2>2 DEF Added
  <2>4. positions'[v].quantity
          = made.positions[v].quantity + Added(taker.user, v, taker.meta.side, lots)
    BY <1>1, <1>5, <2>1, <2>2 DEF Added
  <2> QED BY <2>3, <2>4
<1>11. FlatOK'
  BY <1>1, <1>8 DEF FlatOK, RiskFollows
<1> QED BY <1>6, <1>9, <1>10, <1>11

\* The two fills of a trade are opposite, so the sum of the positions stays.
LEMMA TradeBalances ==
  ASSUME AccountsOK, AccountsOK', PositionsBalance,
         taker.user \in Users, NEW makerUser \in Users,
         NEW lots \in Nat, NEW side \in Sides,
         \A v \in Users :
           positions'[v].quantity
             = positions[v].quantity + Added(makerUser, v, OppositeSide(side), lots)
                 + Added(taker.user, v, side, lots)
  PROVE  PositionsBalance'
<1> DEFINE before == [u \in Users |-> positions[u].quantity]
           between == [u \in Users |-> positions[u].quantity
                                         + Added(makerUser, u, OppositeSide(side), lots)]
           after == [u \in Users |-> positions'[u].quantity]
<1>0. IsFiniteSet(Users)
  BY RuntimeAssumption
<1>1. /\ SignedFill(side, lots) \in Int
      /\ SignedFill(OppositeSide(side), lots) = -SignedFill(side, lots)
  BY OppositeFills
<1>2. \A v \in Users : /\ positions[v].quantity \in Int
                       /\ positions'[v].quantity \in Int
  BY DEF AccountsOK, PositionRecord
<1>3. \A v \in Users : /\ before[v] \in Int /\ between[v] \in Int /\ after[v] \in Int
  BY <1>1, <1>2 DEF Added
<1> DEFINE user == taker.user
<1>4. Updates(before, between, Users, makerUser)
  BY <1>2, <1>3 DEF Added, Updates
<1>5. Updates(between, after, Users, user)
  BY <1>1, <1>2, <1>3 DEF Added, Updates
<1>6. between[makerUser] = before[makerUser] - SignedFill(side, lots)
  BY <1>1, <1>2 DEF Added
<1>7. after[user] = between[user] + SignedFill(side, lots)
  BY DEF Added
<1>8. PositionsBalance => SumFunctionOnSet(before, Users) = 0
  BY DEF PositionsBalance, SumFunction
<1>9. SumFunctionOnSet(after, Users) = 0 => PositionsBalance'
  BY DEF PositionsBalance, SumFunction
<1> HIDE DEF before, between, after, user
<1>10. SumFunctionOnSet(after, Users) = SumFunctionOnSet(before, Users)
  BY <1>0, <1>1, <1>4, <1>5, <1>6, <1>7, OpposedUpdates
<1> QED BY <1>8, <1>9, <1>10

(***************************************************************************)
(* Choices: the account with the least key and the best resting order are  *)
(* there to be chosen.                                                     *)
(***************************************************************************)

\* The keys of the elements of S: n integers, the last of them the element.
KeysOf(key, S, n) ==
  /\ DOMAIN key = S
  /\ \A u \in S : key[u] \in [1 .. n -> Int] /\ key[u][n] = u

\* Keys that end in their element are totally ordered.
LEMMA KeysAreOrdered ==
  ASSUME NEW n \in Nat \ {0}, NEW k \in [1 .. n -> Int], NEW l \in [1 .. n -> Int],
         k[n] # l[n]
  PROVE  KeyLess(k, l) \/ KeyLess(l, k)
<1> DEFINE D == {i \in 1 .. n : k[i] # l[i]}
<1>1. n \in D /\ D \subseteq Nat
  OBVIOUS
<1>2. PICK m \in D : \A i \in D : m <= i
  <2> HIDE DEF D
  <2> QED BY <1>1, LeastNatural
<1>3. m \in 1 .. n /\ k[m] # l[m] /\ k[m] \in Int /\ l[m] \in Int
  OBVIOUS
<1>4. \A j \in 1 .. m - 1 : k[j] = l[j]
  BY <1>2, <1>3
<1>5. DOMAIN k = 1 .. n /\ DOMAIN l = 1 .. n
  OBVIOUS
<1>6. CASE k[m] < l[m]
  BY <1>3, <1>4, <1>5, <1>6 DEF KeyLess
<1>7. CASE l[m] < k[m]
  BY <1>3, <1>4, <1>5, <1>7 DEF KeyLess
<1> QED BY <1>3, <1>6, <1>7

\* The lexicographic order of the sort keys is transitive.
LEMMA KeyLessIsTransitive ==
  ASSUME NEW n \in Nat \ {0}, NEW k \in [1 .. n -> Int], NEW l \in [1 .. n -> Int],
         NEW m \in [1 .. n -> Int], KeyLess(k, l), KeyLess(l, m)
  PROVE  KeyLess(k, m)
<1>1. DOMAIN k = 1 .. n /\ DOMAIN l = 1 .. n
  OBVIOUS
<1>2. PICK a \in 1 .. n : k[a] < l[a] /\ \A j \in 1 .. a - 1 : k[j] = l[j]
  BY <1>1 DEF KeyLess
<1>3. PICK b \in 1 .. n : l[b] < m[b] /\ \A j \in 1 .. b - 1 : l[j] = m[j]
  BY <1>1 DEF KeyLess
<1>4. \A i \in 1 .. n : k[i] \in Int /\ l[i] \in Int /\ m[i] \in Int
  OBVIOUS
<1>5. ASSUME NEW i \in 1 .. n, k[i] < m[i], \A j \in 1 .. i - 1 : k[j] = m[j]
      PROVE  KeyLess(k, m)
  BY <1>1, <1>5 DEF KeyLess
<1>6. CASE a <= b
  <2>1. \A j \in 1 .. a - 1 : k[j] = m[j] BY <1>2, <1>3, <1>6
  <2>2. k[a] < m[a]
    <3>1. a < b => l[a] = m[a] BY <1>3
    <3> QED BY <1>2, <1>3, <1>4, <1>6, <3>1
  <2> QED BY <1>5, <2>1, <2>2
<1>7. CASE b < a
  <2>1. \A j \in 1 .. b - 1 : k[j] = m[j] BY <1>2, <1>3, <1>7
  <2>2. k[b] < m[b]
    <3>1. k[b] = l[b] BY <1>2, <1>7
    <3> QED BY <1>3, <1>4, <3>1
  <2> QED BY <1>5, <2>1, <2>2
<1> QED BY <1>6, <1>7

\* execute_liquidation and the liquidation loop choose from their candidates.
LEMMA FirstIsACandidate ==
  ASSUME NEW S, IsFiniteSet(S), S # {}, NEW n \in Nat \ {0}, NEW key,
         KeysOf(key, S, n)
  PROVE  First(key) \in S
<1> DEFINE R == {p \in S \X S : KeyLess(key[p[1]], key[p[2]])}
<1>0. /\ DOMAIN key = S
      /\ \A u \in S : key[u] \in [1 .. n -> Int]
      /\ \A u \in S : key[u][n] = u
  BY DEF KeysOf
<1>1. ASSUME NEW x \in S, NEW y \in S PROVE <<x, y>> \in R <=> KeyLess(key[x], key[y])
  OBVIOUS
<1> HIDE DEF R
<1>2. ASSUME NEW x \in S, NEW y \in S, x # y PROVE <<x, y>> \in R \/ <<y, x>> \in R
  <2>1. key[x][n] # key[y][n] BY <1>0, <1>2
  <2>2. KeyLess(key[x], key[y]) \/ KeyLess(key[y], key[x])
    BY <1>0, <2>1, KeysAreOrdered
  <2> QED BY <1>1, <2>2
<1>3. ASSUME NEW x \in S, NEW y \in S, NEW z \in S, <<x, y>> \in R, <<y, z>> \in R
      PROVE  <<x, z>> \in R
  <2>1. KeyLess(key[x], key[y]) /\ KeyLess(key[y], key[z])
    BY <1>1, <1>3
  <2>2. KeyLess(key[x], key[z])
    BY <1>0, <2>1, KeyLessIsTransitive
  <2> QED BY <1>1, <2>2
<1>4. LinearOn(R, S)
  BY <1>2, <1>3 DEF LinearOn
<1>5. PICK x \in S : \A y \in S \ {x} : <<x, y>> \in R
  BY <1>4, LeastExists
<1>6. \A y \in S \ {x} : KeyLess(key[x], key[y])
  BY <1>1, <1>5
<1>7. \E u \in S : \A v \in S \ {u} : KeyLess(key[u], key[v])
  BY <1>6
<1> QED BY <1>0, <1>7 DEF First

\* Five integers are a key of length five.
LEMMA QuintupleOfIntegers ==
  ASSUME NEW a \in Int, NEW b \in Int, NEW c \in Int, NEW d \in Int, NEW e \in Int
  PROVE  <<a, b, c, d, e>> \in [1 .. 5 -> Int] /\ <<a, b, c, d, e>>[5] = e
OBVIOUS

\* Four integers are a key of length four.
LEMMA QuadrupleOfIntegers ==
  ASSUME NEW a \in Int, NEW b \in Int, NEW c \in Int, NEW d \in Int
  PROVE  <<a, b, c, d>> \in [1 .. 4 -> Int] /\ <<a, b, c, d>>[4] = d
OBVIOUS

\* The margin ratio of a risk is an integer.
LEMMA MarginRatioType ==
  ASSUME NEW r \in Risk
  PROVE  MarginRatio(r) \in Int
<1>1. r.equity \in Int /\ r.maintenance \in Nat
  BY DEF Risk
<1>2. r.equity * 10000 \in Int
  BY <1>1, NaturalArithmetic
<1>3. CASE r.maintenance = 0
  BY <1>3 DEF MarginRatio
<1>4. CASE r.maintenance # 0
  <2>1. r.maintenance \in Nat \ {0} BY <1>1, <1>4
  <2>2. TruncatedQuotient(r.equity * 10000, r.maintenance) \in Int
    BY <1>2, <2>1, TruncatedQuotientType
  <2> QED BY <1>4, <2>2 DEF MarginRatio
<1> QED BY <1>3, <1>4

\* The account that is deleveraged is one of the candidates.
LEMMA AdlCandidateIsChosen ==
  ASSUME AccountsOK, NEW u \in Users, AdlCandidates(u) # {}
  PROVE  First(AdlKeys(u)) \in AdlCandidates(u)
<1> DEFINE S == AdlCandidates(u)
<1>1. S \subseteq Users /\ IsFiniteSet(S)
  BY ConstantTypes, FS_Subset DEF AdlCandidates
<1>2. ASSUME NEW v \in S
      PROVE  AdlKeys(u)[v] \in [1 .. 5 -> Int] /\ AdlKeys(u)[v][5] = v
  <2>0. v \in Users BY <1>1
  <2>1. positions[v] \in PositionRecord /\ risks[v] \in Risk /\ v \in Int
    BY <2>0, ConstantTypes DEF AccountsOK
  <2>2. risks[v].pnl \in Int /\ risks[v].leverage \in Nat
    BY <2>1 DEF Risk
  <2>3. -risks[v].pnl \in Int /\ -risks[v].leverage \in Int
    BY <2>2
  <2>4. MarginRatio(risks[v]) \in Int
    BY <2>1, MarginRatioType
  <2>5. -Abs(positions[v].quantity) \in Int
    BY <2>1, AbsType DEF PositionRecord
  <2>6. AdlKeys(u)[v] = <<-risks[v].pnl, -risks[v].leverage, MarginRatio(risks[v]),
                          -Abs(positions[v].quantity), v>>
    BY DEF AdlKeys
  <2> QED BY <2>1, <2>3, <2>4, <2>5, <2>6, QuintupleOfIntegers
<1>3. KeysOf(AdlKeys(u), S, 5)
  BY <1>2 DEF KeysOf, AdlKeys
<1> HIDE DEF S
<1>4. S # {} /\ 5 \in Nat \ {0}
  BY DEF S
<1> QED BY <1>1, <1>3, <1>4, FirstIsACandidate DEF S

\* The account that is liquidated next is one of the candidates.
LEMMA ScanCandidateIsChosen ==
  ASSUME AccountsOK, ScanCandidates # {}
  PROVE  First(ScanKeys) \in ScanCandidates
<1> DEFINE S == ScanCandidates
<1>1. S \subseteq Users /\ IsFiniteSet(S)
  BY ConstantTypes, FS_Subset DEF ScanCandidates
<1>2. ASSUME NEW v \in S
      PROVE  ScanKeys[v] \in [1 .. 4 -> Int] /\ ScanKeys[v][4] = v
  <2>0. v \in Users BY <1>1
  <2>1. positions[v] \in PositionRecord /\ risks[v] \in Risk /\ v \in Int
    BY <2>0, ConstantTypes DEF AccountsOK
  <2>2. risks[v].equity \in Int
    BY <2>1 DEF Risk
  <2>3. MarginRatio(risks[v]) \in Int
    BY <2>1, MarginRatioType
  <2>4. -Notional(v) \in Int
    <3> DEFINE m == IF risks[v].mark > 0 THEN risks[v].mark ELSE positions[v].average
    <3>1. m \in Nat /\ Abs(positions[v].quantity) \in Nat
      BY <2>1, AbsType DEF PositionRecord, Risk
    <3> HIDE DEF m
    <3>2. Abs(positions[v].quantity) * m \in Nat
      BY <3>1, NaturalArithmetic
    <3> QED BY <3>2 DEF Notional, m
  <2>5. ScanKeys[v] = <<MarginRatio(risks[v]), risks[v].equity, -Notional(v), v>>
    BY DEF ScanKeys
  <2> QED BY <2>1, <2>2, <2>3, <2>4, <2>5, QuadrupleOfIntegers
<1>3. KeysOf(ScanKeys, S, 4)
  BY <1>2 DEF KeysOf, ScanKeys
<1> HIDE DEF S
<1>4. S # {} /\ 4 \in Nat \ {0}
  BY DEF S
<1> QED BY <1>1, <1>3, <1>4, FirstIsACandidate DEF S

\* Resting orders that cross are ordered by price, then by time.
LEMMA BestOrderCrosses ==
  ASSUME OrdersOK, QueueOK, NEW side \in Sides, NEW price,
         CrossingOrders(side, price) # {}
  PROVE  BestOrder(CrossingOrders(side, price)) \in CrossingOrders(side, price)
<1> DEFINE S == CrossingOrders(side, price)
           R == {p \in S \X S : Precedes(p[1], p[2])}
<1>1. S \subseteq Resting /\ IsFiniteSet(S)
  BY ConstantTypes, FS_Subset DEF CrossingOrders, Resting
<1>2. ASSUME NEW o \in S
      PROVE  /\ book[o].side = OppositeSide(side)
             /\ book[o].price \in Int /\ book[o].queued \in Int
  <2>1. book[o] \in RestingOrder
    BY <1>1 DEF OrdersOK, Resting
  <2>2. book[o].price \in BookPrices /\ book[o].queued \in Nat
    BY <2>1 DEF RestingOrder
  <2> QED BY <2>2, ConstantTypes DEF CrossingOrders, Crosses
<1>3. \A o, other \in S : book[o].queued = book[other].queued => o = other
  BY <1>1 DEF QueueOK
<1>4. ASSUME NEW o \in S, NEW other \in S
      PROVE  <<o, other>> \in R <=> Precedes(o, other)
  OBVIOUS
<1> HIDE DEF R, S
<1>5. ASSUME NEW o \in S, NEW other \in S, o # other
      PROVE  Precedes(o, other) \/ Precedes(other, o)
  BY <1>2, <1>3, <1>5 DEF Precedes
<1>6. ASSUME NEW o \in S, NEW other \in S, NEW third \in S,
             Precedes(o, other), Precedes(other, third)
      PROVE  Precedes(o, third)
  <2>1. /\ book[o].side = book[other].side /\ book[other].side = book[third].side
        /\ book[o].price \in Int /\ book[o].queued \in Int
        /\ book[other].price \in Int /\ book[other].queued \in Int
        /\ book[third].price \in Int /\ book[third].queued \in Int
    BY <1>2
  <2> QED BY <1>6, <2>1 DEF Precedes
<1>7. LinearOn(R, S)
  BY <1>4, <1>5, <1>6 DEF LinearOn
<1>8. PICK o \in S : \A other \in S \ {o} : <<o, other>> \in R
  <2>1. S # {} BY DEF S
  <2> QED BY <1>1, <1>7, <2>1, LeastExists
<1>9. \E best \in S : \A other \in S \ {best} : Precedes(best, other)
  BY <1>4, <1>8
<1> QED BY <1>9 DEF BestOrder, S

(***************************************************************************)
(* Steps that leave the accounts, or the orders, alone.                    *)
(***************************************************************************)

\* The parts of IInv about accounts hold on where positions, risks and mark stay.
LEMMA AccountsStay ==
  ASSUME IInv, UNCHANGED <<positions, risks, mark>>
  PROVE  AccountsOK' /\ PositionsBalance' /\ RiskIsCurrent' /\ FlatOK'
<1>1. AccountsOK /\ PositionsBalance /\ RiskIsCurrent /\ FlatOK
  BY DEF IInv, TypeOK
<1>2. AccountsOK'
  BY <1>1 DEF AccountsOK
<1>3. PositionsBalance'
  BY <1>1 DEF PositionsBalance
<1>4. RiskIsCurrent'
  BY <1>1 DEF RiskIsCurrent
<1>5. FlatOK'
  BY <1>1 DEF FlatOK
<1> QED BY <1>2, <1>3, <1>4, <1>5

\* What the reservation of o still has: in the store, or with the taker.
Unspent(o) ==
  IF metadata[o] # Nothing THEN metadata[o].unspent
  ELSE IF pc = "matching" /\ taker.kind = "place" /\ taker.orderId = o
  THEN taker.meta.unspent
  ELSE 0

AddsUp(o) ==
  /\ ledger[o].charged + Unspent(o) + ledger[o].returned + ledger[o].dropped
       = ledger[o].reserved
  /\ ledger[o].dropped > 0 => ledger[o].returned = 0 /\ o \notin Resting

\* ReservationsAddUp, order by order.
LEMMA ReservationsAreKept ==
  /\ ReservationsAddUp <=> \A o \in processed : AddsUp(o)
  /\ ReservationsAddUp' <=> \A o \in processed' : AddsUp(o)'
BY DEF ReservationsAddUp, AddsUp, Unspent

\* The parts of IInv about orders hold on where book, metadata and ledger stay.
LEMMA OrdersStay ==
  ASSUME IInv, UNCHANGED <<book, metadata, arrivals, processed, ledger>>
  PROVE  /\ OrdersOK' /\ QueueOK' /\ MetadataOK' /\ UnusedOK' /\ MetadataMatchesBook'
         /\ ~Placing /\ ~Placing' => ReservationsAddUp'
<1>1. OrdersOK /\ QueueOK /\ MetadataOK /\ UnusedOK /\ MetadataMatchesBook
      /\ ReservationsAddUp
  BY DEF IInv, TypeOK
<1>2. OrdersOK'
  BY <1>1 DEF OrdersOK
<1>3. QueueOK'
  BY <1>1 DEF QueueOK, Resting
<1>4. MetadataOK'
  BY <1>1 DEF MetadataOK
<1>5. UnusedOK'
  BY <1>1 DEF UnusedOK
<1>6. MetadataMatchesBook'
  BY <1>1 DEF MetadataMatchesBook, Resting
<1>7. ASSUME ~Placing, ~Placing' PROVE ReservationsAddUp'
  <2>1. \A o \in processed : AddsUp(o)
    BY <1>1, ReservationsAreKept
  <2>2. \A o \in processed : Unspent(o)' = Unspent(o)
    BY <1>7 DEF Unspent, Placing
  <2>3. \A o \in processed : AddsUp(o)'
    BY <2>1, <2>2 DEF AddsUp, Resting
  <2> QED BY <2>3, ReservationsAreKept
<1> QED BY <1>2, <1>3, <1>4, <1>5, <1>6, <1>7

(***************************************************************************)
(* The initial state, and the inputs that place and cancel orders.         *)
(***************************************************************************)

\* The initial state satisfies the invariant.
LEMMA InitEstablishes == Init => IInv
<1> SUFFICES ASSUME Init PROVE IInv
  OBVIOUS
<1>0. Resting = {} /\ pc = "idle" /\ taker = NoTaker /\ processed = {}
  BY DEF Init, Resting
<1>1. AccountsOK
  <2>1. FlatPosition \in PositionRecord BY DEF FlatPosition, PositionRecord
  <2>2. NoRisk \in Risk BY DEF NoRisk, Risk
  <2> QED BY <2>1, <2>2 DEF Init, AccountsOK
<1>2. MarketOK
  BY DEF Init, MarketOK, NoFunding
<1>3. arrivals \in Nat /\ \A o \in OrderIds : o < arrivals
  <2>1. OrderIds \subseteq Nat BY ConstantTypes
  <2>2. Max(OrderIds) \in OrderIds /\ \A o \in OrderIds : o <= Max(OrderIds)
    BY <2>1, ConstantTypes, MaxExists
  <2>3. arrivals = Max(OrderIds) + 1 BY DEF Init
  <2>4. Max(OrderIds) \in Nat BY <2>1, <2>2
  <2>5. ASSUME NEW o \in OrderIds PROVE o < arrivals
    <3>1. o \in Nat /\ o <= Max(OrderIds) BY <2>1, <2>2
    <3> QED BY <2>3, <2>4, <3>1
  <2> QED BY <2>3, <2>4, <2>5
<1>4. OrdersOK
  <2>1. ledger \in [OrderIds -> Ledger] BY DEF Init, Ledger
  <2>2. book \in [OrderIds -> RestingOrder \cup {Nothing}] BY DEF Init
  <2>3. metadata \in [OrderIds -> Metadata \cup {Nothing}] BY DEF Init
  <2> QED BY <1>0, <1>3, <2>1, <2>2, <2>3 DEF OrdersOK
<1>5. ThreadOK
  <2>1. scan \in [running : BOOLEAN, startup : BOOLEAN, attempted : SUBSET Users]
    BY DEF Init, NoScan
  <2>2. restarts \in Nat BY DEF Init
  <2> QED BY <1>0, <2>1, <2>2 DEF ThreadOK
<1>6. QueueOK
  BY <1>0, <1>3 DEF QueueOK
<1>7. MetadataOK
  BY DEF MetadataOK, Init
<1>8. UnusedOK
  BY DEF UnusedOK, Init
<1>9. PlacingOK /\ ReducingOK
  BY <1>0 DEF PlacingOK, Placing, ReducingOK, Trading
<1>10. FlatOK
  BY DEF FlatOK, Init, NoRisk
<1>11. PositionsBalance
  <2> DEFINE q == [u \in Users |-> positions[u].quantity]
  <2>1. \A u \in Users : q[u] = 0 BY DEF Init, FlatPosition
  <2>2. SumFunction(q) = SumFunctionOnSet(q, Users) BY DEF SumFunction
  <2> HIDE DEF q
  <2>3. SumFunctionOnSet(q, Users) = 0 BY <2>1, ConstantTypes, SumOfZeros
  <2> QED BY <2>2, <2>3 DEF PositionsBalance, q
<1>12. MetadataMatchesBook
  BY <1>0 DEF MetadataMatchesBook
<1>13. RiskIsCurrent
  BY DEF RiskIsCurrent, Init, FlatPosition
<1>14. ReservationsAddUp
  BY <1>0 DEF ReservationsAddUp
<1> QED
  BY <1>1, <1>2, <1>4, <1>5, <1>6, <1>7, <1>8, <1>9, <1>10, <1>11, <1>12, <1>13, <1>14
     DEF IInv, TypeOK

\* A place request names an account, an order id, a price and quantities.
LEMMA PlaceInputType ==
  ASSUME NEW c \in PlaceInputs
  PROVE  /\ c.orderId \in OrderIds /\ c.user \in Users /\ c.side \in Sides
         /\ c.price \in BookPrices /\ c.quantity \in Nat /\ c.quantity > 0
         /\ c.canRest \in BOOLEAN /\ c.reduceOnly \in BOOLEAN
         /\ c.reserved \in Nat /\ c.leverage \in Nat
BY RuntimeAssumption DEF Sides

\* The parts of the invariant that a step may leave to be looked at again.
LEMMA InvariantParts ==
  ASSUME IInv
  PROVE  /\ AccountsOK /\ MarketOK /\ OrdersOK /\ ThreadOK
         /\ QueueOK /\ MetadataOK /\ UnusedOK /\ PlacingOK /\ ReducingOK /\ FlatOK
         /\ PositionsBalance /\ MetadataMatchesBook /\ RiskIsCurrent
         /\ \A o \in processed : AddsUp(o)
BY ReservationsAreKept DEF IInv, TypeOK

\* An order id that was not processed has no metadata, no place in the book and no ledger.
LEMMA UnusedOrder ==
  ASSUME IInv, NEW o \in OrderIds \ processed
  PROVE  /\ metadata[o] = Nothing /\ o \notin Resting
         /\ ledger[o] = [reserved |-> 0, charged |-> 0, returned |-> 0, dropped |-> 0]
<1>1. metadata[o] = Nothing
  BY InvariantParts DEF MetadataOK
<1>2. o \notin Resting
  BY <1>1, InvariantParts DEF MetadataMatchesBook
<1> QED BY <1>1, <1>2, InvariantParts DEF UnusedOK

\* The updates of a ledger entry, field by field.
LEMMA LedgerUpdates ==
  ASSUME NEW entry \in Ledger, NEW r
  PROVE  /\ [entry EXCEPT !.reserved = r]
              = [reserved |-> r, charged |-> entry.charged,
                 returned |-> entry.returned, dropped |-> entry.dropped]
         /\ \A t : [entry EXCEPT !.reserved = r, !.returned = t]
                    = [reserved |-> r, charged |-> entry.charged,
                       returned |-> t, dropped |-> entry.dropped]
         /\ [entry EXCEPT !.charged = r]
              = [reserved |-> entry.reserved, charged |-> r,
                 returned |-> entry.returned, dropped |-> entry.dropped]
         /\ [entry EXCEPT !.returned = r]
              = [reserved |-> entry.reserved, charged |-> entry.charged,
                 returned |-> r, dropped |-> entry.dropped]
         /\ [entry EXCEPT !.dropped = r]
              = [reserved |-> entry.reserved, charged |-> entry.charged,
                 returned |-> entry.returned, dropped |-> r]
<1>1. [entry EXCEPT !.reserved = r]
        = [reserved |-> r, charged |-> entry.charged,
           returned |-> entry.returned, dropped |-> entry.dropped]
  BY DEF Ledger
<1>2. [entry EXCEPT !.charged = r]
        = [reserved |-> entry.reserved, charged |-> r,
           returned |-> entry.returned, dropped |-> entry.dropped]
  BY DEF Ledger
<1>3. [entry EXCEPT !.returned = r]
        = [reserved |-> entry.reserved, charged |-> entry.charged,
           returned |-> r, dropped |-> entry.dropped]
  BY DEF Ledger
<1>4. [entry EXCEPT !.dropped = r]
        = [reserved |-> entry.reserved, charged |-> entry.charged,
           returned |-> entry.returned, dropped |-> r]
  BY DEF Ledger
<1>5. ASSUME NEW t
      PROVE  [entry EXCEPT !.reserved = r, !.returned = t]
               = [reserved |-> r, charged |-> entry.charged,
                  returned |-> t, dropped |-> entry.dropped]
  <2> DEFINE first == [entry EXCEPT !.reserved = r]
             second == [entry EXCEPT !.reserved = r, !.returned = t]
  <2>1. second = [first EXCEPT !.returned = t]
    OBVIOUS
  <2>2. first = [reserved |-> r, charged |-> entry.charged,
                 returned |-> entry.returned, dropped |-> entry.dropped]
    BY <1>1
  <2> HIDE DEF first, second
  <2>3. second = [reserved |-> r, charged |-> entry.charged,
                  returned |-> t, dropped |-> entry.dropped]
    BY <2>1, <2>2
  <2> QED BY <2>3 DEF second
<1> QED BY <1>1, <1>2, <1>3, <1>4, <1>5

\* A refused place only marks its id as processed.
LEMMA RejectPlacePreserves ==
  ASSUME IInv, NEW c \in PlaceInputs, RejectPlace(c)
  PROVE  IInv'
<1> DEFINE id == c.orderId
<1>0. /\ c.reserved \in Nat /\ id \in OrderIds \ processed
      /\ pc = "idle" /\ pc' = pc /\ taker' = taker
      /\ processed' = processed \cup {id}
      /\ ledger' = [ledger EXCEPT ![id].reserved = c.reserved,
                                  ![id].returned = c.reserved]
      /\ UNCHANGED <<book, metadata, arrivals, positions, risks, mark, funding,
                     settled, scan, restarts>>
  BY PlaceInputType DEF RejectPlace, orders, accounts, market
<1>1. /\ metadata[id] = Nothing /\ id \notin Resting
      /\ ledger[id] = [reserved |-> 0, charged |-> 0, returned |-> 0, dropped |-> 0]
  BY <1>0, UnusedOrder
<1> HIDE DEF id
<1>2. /\ ledger'[id] = [reserved |-> c.reserved, charged |-> 0,
                        returned |-> c.reserved, dropped |-> 0]
      /\ \A o \in OrderIds \ {id} : ledger'[o] = ledger[o]
      /\ DOMAIN ledger' = OrderIds /\ ledger' \in [OrderIds -> Ledger]
  <2>1. ledger \in [OrderIds -> Ledger] BY InvariantParts DEF OrdersOK
  <2>2. [reserved |-> c.reserved, charged |-> 0,
         returned |-> c.reserved, dropped |-> 0] \in Ledger
    BY <1>0 DEF Ledger
  <2>3. ledger'[id] = [reserved |-> c.reserved, charged |-> 0,
                       returned |-> c.reserved, dropped |-> 0]
    <3>1. ledger'[id] = [ledger[id] EXCEPT !.reserved = c.reserved,
                                           !.returned = c.reserved]
      BY <1>0, <2>1
    <3>2. ledger[id] \in Ledger /\ ledger[id].charged = 0 /\ ledger[id].dropped = 0
      BY <1>0, <1>1, <2>1
    <3> DEFINE entry == ledger[id]
               r == c.reserved
    <3>3. entry \in Ledger /\ entry.charged = 0 /\ entry.dropped = 0
      BY <3>2
    <3>4. ledger'[id] = [entry EXCEPT !.reserved = r, !.returned = r]
      BY <3>1
    <3> HIDE DEF entry, r
    <3>5. ledger'[id] = [reserved |-> r, charged |-> entry.charged,
                         returned |-> r, dropped |-> entry.dropped]
      BY <3>3, <3>4, LedgerUpdates
    <3> QED BY <3>3, <3>5 DEF r
  <2>4. /\ \A o \in OrderIds \ {id} : ledger'[o] = ledger[o]
        /\ ledger' = [o \in OrderIds |-> ledger'[o]]
    BY <1>0, <2>1
  <2> QED BY <2>1, <2>2, <2>3, <2>4
<1>3. AccountsOK' /\ PositionsBalance' /\ RiskIsCurrent' /\ FlatOK'
  BY <1>0, AccountsStay
<1>4. MarketOK' /\ ThreadOK'
  BY <1>0, InvariantParts DEF MarketOK, ThreadOK
<1>5. OrdersOK' /\ QueueOK' /\ MetadataMatchesBook'
  BY <1>0, <1>2, InvariantParts DEF OrdersOK, QueueOK, MetadataMatchesBook, Resting
<1>6. MetadataOK'
  BY <1>0, <1>1, <1>2, InvariantParts DEF MetadataOK
<1>7. UnusedOK'
  BY <1>0, <1>2, InvariantParts DEF UnusedOK
<1>8. PlacingOK' /\ ReducingOK'
  BY <1>0 DEF PlacingOK, Placing, ReducingOK, Trading
<1>9. ASSUME NEW o \in processed' PROVE AddsUp(o)'
  <2>1. Unspent(o)' = Unspent(o) /\ Resting' = Resting
    BY <1>0 DEF Unspent, Resting
  <2>2. CASE o = id
    <3>1. Unspent(o) = 0 BY <1>0, <1>1, <2>2 DEF Unspent
    <3> QED BY <1>0, <1>1, <1>2, <2>1, <2>2, <3>1 DEF AddsUp
  <2>3. CASE o # id
    <3>1. o \in processed /\ o \in OrderIds
      BY <1>0, <2>3, InvariantParts DEF OrdersOK
    <3>2. AddsUp(o) BY <3>1, InvariantParts
    <3> QED BY <1>2, <2>1, <2>3, <3>1, <3>2 DEF AddsUp
  <2> QED BY <2>2, <2>3
<1>10. ReservationsAddUp'
  BY <1>9, ReservationsAreKept
<1> QED
  BY <1>3, <1>4, <1>5, <1>6, <1>7, <1>8, <1>10 DEF IInv, TypeOK

\* Only the entry of o differs, and its fields are these.
EntryIs(led, o, reserved, charged, returned, dropped) ==
  led[o] = [reserved |-> reserved, charged |-> charged, returned |-> returned,
            dropped |-> dropped]

OthersStay(led, new, o) ==
  /\ new \in [OrderIds -> Ledger]
  /\ \A other \in OrderIds \ {o} : new[other] = led[other]

\* What is returned is added to the entry.
LEMMA ReturnUpdates ==
  ASSUME NEW led \in [OrderIds -> Ledger], NEW o \in OrderIds, NEW amount \in Nat
  PROVE  /\ OthersStay(led, Return(led, o, amount), o)
         /\ EntryIs(Return(led, o, amount), o, led[o].reserved, led[o].charged,
                    led[o].returned + amount, led[o].dropped)
<1> DEFINE entry == led[o]
           new == Return(led, o, amount)
           r == entry.returned + amount
<1>1. /\ entry \in Ledger /\ entry.reserved \in Nat /\ entry.charged \in Nat
      /\ entry.returned \in Nat /\ entry.dropped \in Nat /\ r \in Nat
  BY DEF Ledger
<1>2. new = [led EXCEPT ![o] = [entry EXCEPT !.returned = r]]
  BY DEF Return
<1> HIDE DEF entry, new, r
<1>3. [entry EXCEPT !.returned = r]
        = [reserved |-> entry.reserved, charged |-> entry.charged,
           returned |-> r, dropped |-> entry.dropped]
  BY <1>1, LedgerUpdates
<1>4. [reserved |-> entry.reserved, charged |-> entry.charged,
       returned |-> r, dropped |-> entry.dropped] \in Ledger
  BY <1>1 DEF Ledger
<1>5. OthersStay(led, new, o)
  BY <1>2, <1>3, <1>4 DEF OthersStay
<1>6. new[o] = [reserved |-> entry.reserved, charged |-> entry.charged,
                returned |-> r, dropped |-> entry.dropped]
  BY <1>2, <1>3
<1> QED BY <1>5, <1>6 DEF EntryIs, new, entry, r

\* What is reserved is written to the entry.
LEMMA ReserveUpdates ==
  ASSUME NEW led \in [OrderIds -> Ledger], NEW o \in OrderIds, NEW r \in Nat
  PROVE  /\ OthersStay(led, [led EXCEPT ![o].reserved = r], o)
         /\ EntryIs([led EXCEPT ![o].reserved = r], o, r, led[o].charged,
                    led[o].returned, led[o].dropped)
<1> DEFINE entry == led[o]
           new == [led EXCEPT ![o].reserved = r]
<1>1. /\ entry \in Ledger /\ entry.charged \in Nat
      /\ entry.returned \in Nat /\ entry.dropped \in Nat
  BY DEF Ledger
<1>2. new = [led EXCEPT ![o] = [entry EXCEPT !.reserved = r]]
  OBVIOUS
<1> HIDE DEF entry, new
<1>3. [entry EXCEPT !.reserved = r]
        = [reserved |-> r, charged |-> entry.charged,
           returned |-> entry.returned, dropped |-> entry.dropped]
  BY <1>1, LedgerUpdates
<1>4. [reserved |-> r, charged |-> entry.charged,
       returned |-> entry.returned, dropped |-> entry.dropped] \in Ledger
  BY <1>1 DEF Ledger
<1>5. OthersStay(led, new, o)
  BY <1>2, <1>3, <1>4 DEF OthersStay
<1>6. new[o] = [reserved |-> r, charged |-> entry.charged,
                returned |-> entry.returned, dropped |-> entry.dropped]
  BY <1>2, <1>3
<1> QED BY <1>5, <1>6 DEF EntryIs, new, entry

\* A fill is charged to an order with a reservation.
LEMMA ChargeUpdates ==
  ASSUME NEW led \in [OrderIds -> Ledger], NEW o \in OrderIds,
         NEW meta \in Metadata, NEW lots \in Nat, NEW price \in Nat
  PROVE  /\ OthersStay(led, Charge(led, o, meta, lots, price), o)
         /\ EntryIs(Charge(led, o, meta, lots, price), o, led[o].reserved,
              IF meta.reserved > 0
              THEN led[o].charged + AllocatedMargin(meta, lots, price)
              ELSE led[o].charged,
              led[o].returned, led[o].dropped)
<1> DEFINE entry == led[o]
           new == Charge(led, o, meta, lots, price)
           a == AllocatedMargin(meta, lots, price)
           r == entry.charged + a
<1>1. /\ entry \in Ledger /\ entry.reserved \in Nat /\ entry.charged \in Nat
      /\ entry.returned \in Nat /\ entry.dropped \in Nat
      /\ entry = [reserved |-> entry.reserved, charged |-> entry.charged,
                  returned |-> entry.returned, dropped |-> entry.dropped]
  BY DEF Ledger
<1>2. a \in Nat
  BY Allocation
<1>3. r \in Nat
  <2> HIDE DEF entry, a
  <2> QED BY <1>1, <1>2
<1>4. meta.reserved > 0 => new = [led EXCEPT ![o] = [entry EXCEPT !.charged = r]]
  BY DEF Charge
<1>5. ~(meta.reserved > 0) => new = led
  BY DEF Charge
<1> HIDE DEF entry, new, r
<1>6. [entry EXCEPT !.charged = r]
        = [reserved |-> entry.reserved, charged |-> r,
           returned |-> entry.returned, dropped |-> entry.dropped]
  BY <1>1, LedgerUpdates
<1>7. [reserved |-> entry.reserved, charged |-> r,
       returned |-> entry.returned, dropped |-> entry.dropped] \in Ledger
  BY <1>1, <1>3 DEF Ledger
<1>8. CASE meta.reserved > 0
  <2>1. OthersStay(led, new, o)
    BY <1>4, <1>6, <1>7, <1>8 DEF OthersStay
  <2>2. new[o] = [reserved |-> entry.reserved, charged |-> r,
                  returned |-> entry.returned, dropped |-> entry.dropped]
    BY <1>4, <1>6, <1>8
  <2> QED BY <1>8, <2>1, <2>2 DEF EntryIs, new, entry, r, a
<1>9. CASE ~(meta.reserved > 0)
  <2>1. OthersStay(led, new, o)
    BY <1>5, <1>9 DEF OthersStay
  <2>2. new[o] = [reserved |-> entry.reserved, charged |-> entry.charged,
                  returned |-> entry.returned, dropped |-> entry.dropped]
    BY <1>1, <1>5, <1>9 DEF entry
  <2> QED BY <1>9, <2>1, <2>2 DEF EntryIs, new, entry
<1> QED BY <1>8, <1>9

\* An accepted place stores metadata and reservation of an unused id.
LEMMA AcceptPlacePreserves ==
  ASSUME IInv, NEW c \in PlaceInputs, AcceptPlace(c)
  PROVE  IInv'
<1> DEFINE id == c.orderId
           r == c.reserved
           before == positions[c.user].quantity
           meta == NewMetadata(c)
           left == CappedQuantity(c)
<1>0. /\ c.reserved \in Nat /\ id \in OrderIds \ processed
      /\ pc = "idle" /\ pc' = "matching"
      /\ processed' = processed \cup {id}
      /\ ledger' = [ledger EXCEPT ![id].reserved = r]
      /\ UNCHANGED <<book, metadata, arrivals, positions, risks, mark, funding,
                     settled, scan, restarts>>
      /\ ReduceOnlyAllowed(c)
  BY PlaceInputType DEF AcceptPlace, orders, accounts, market
<1>a. taker' = [kind |-> "place", orderId |-> id, user |-> c.user,
               side |-> c.side, price |-> c.price, left |-> left,
               meta |-> meta, canRest |-> c.canRest /\ ~c.reduceOnly,
               reduceOnly |-> c.reduceOnly, traded |-> FALSE, before |-> before]
  BY DEF AcceptPlace
<1>1. /\ metadata[id] = Nothing /\ id \notin Resting
      /\ ledger[id] = [reserved |-> 0, charged |-> 0, returned |-> 0, dropped |-> 0]
  BY <1>0, UnusedOrder
<1>b. /\ meta \in Metadata /\ MarginOK(meta) /\ meta.side = c.side /\ meta.user = c.user
      /\ meta.remaining = c.quantity /\ meta.unspent = c.reserved
  BY PlaceInputType DEF NewMetadata, Metadata, MarginOK
<1>c. before \in Int
  BY PlaceInputType, InvariantParts DEF AccountsOK, PositionRecord
<1>d. /\ left \in Nat
      /\ c.reduceOnly => left <= Abs(before)
      /\ ~c.reduceOnly => left = c.quantity
  <2>1. Abs(before) \in Nat BY <1>c, AbsType
  <2> QED BY <2>1, PlaceInputType DEF CappedQuantity, LesserOf
<1>e. c.reduceOnly => before # 0 /\ c.side = ClosingSide(before)
  BY <1>0 DEF ReduceOnlyAllowed
<1> HIDE DEF id, r, meta, left
<1>2. /\ ledger'[id] = [reserved |-> r, charged |-> 0, returned |-> 0, dropped |-> 0]
      /\ ledger' \in [OrderIds -> Ledger]
      /\ \A o \in OrderIds \ {id} : ledger'[o] = ledger[o]
  <2>1. ledger \in [OrderIds -> Ledger] BY InvariantParts DEF OrdersOK
  <2>2. r \in Nat BY <1>0 DEF r
  <2>3. /\ OthersStay(ledger, ledger', id)
        /\ EntryIs(ledger', id, r, ledger[id].charged, ledger[id].returned,
                   ledger[id].dropped)
    BY <1>0, <2>1, <2>2, ReserveUpdates
  <2>4. ledger[id].charged = 0 /\ ledger[id].returned = 0 /\ ledger[id].dropped = 0
    BY <1>1
  <2> QED BY <2>3, <2>4 DEF OthersStay, EntryIs
<1>3. AccountsOK' /\ PositionsBalance' /\ RiskIsCurrent' /\ FlatOK'
  BY <1>0, AccountsStay
<1>4. MarketOK'
  BY <1>0, InvariantParts DEF MarketOK
<1>5. ThreadOK'
  <2>1. taker' \in PlacedOrder
    BY <1>0, <1>a, <1>b, <1>c, <1>d, PlaceInputType DEF PlacedOrder
  <2> QED BY <1>0, <2>1, InvariantParts DEF ThreadOK
<1>6. OrdersOK' /\ QueueOK' /\ MetadataMatchesBook'
  BY <1>0, <1>2, InvariantParts DEF OrdersOK, QueueOK, MetadataMatchesBook, Resting
<1>7. MetadataOK'
  BY <1>0, <1>1, <1>2, InvariantParts DEF MetadataOK
<1>8. UnusedOK'
  BY <1>0, <1>2, InvariantParts DEF UnusedOK
<1>9. PlacingOK'
  BY <1>0, <1>1, <1>2, <1>a, <1>b, <1>d DEF PlacingOK, Placing
<1>10. ReducingOK'
  <2>1. before # 0 => SameDirection(before, before)
    BY <1>c DEF SameDirection
  <2>2. Abs(before) <= Abs(before)
    BY <1>c, AbsType
  <2>3. positions'[taker'.user].quantity = before
    BY <1>0, <1>a
  <2> HIDE DEF before
  <2> QED BY <1>0, <1>a, <1>b, <1>d, <1>e, <2>1, <2>2, <2>3 DEF ReducingOK, Trading
<1>11. ASSUME NEW o \in processed' PROVE AddsUp(o)'
  <2>1. Resting' = Resting
    BY <1>0 DEF Resting
  <2>2. CASE o = id
    <3>1. Unspent(o)' = r BY <1>0, <1>1, <1>a, <1>b, <2>2 DEF Unspent, r
    <3>2. r \in Nat BY <1>0 DEF r
    <3> QED BY <1>2, <2>1, <2>2, <3>1, <3>2 DEF AddsUp
  <2>3. CASE o # id
    <3>1. o \in processed /\ o \in OrderIds
      BY <1>0, <2>3, InvariantParts DEF OrdersOK
    <3>2. AddsUp(o) BY <3>1, InvariantParts
    <3>3. Unspent(o)' = Unspent(o)
      BY <1>0, <1>a, <2>3 DEF Unspent
    <3> QED BY <1>2, <2>1, <2>3, <3>1, <3>2, <3>3 DEF AddsUp
  <2> QED BY <2>2, <2>3
<1>12. ReservationsAddUp'
  BY <1>11, ReservationsAreKept
<1> QED
  BY <1>3, <1>4, <1>5, <1>6, <1>7, <1>8, <1>9, <1>10, <1>12 DEF IInv, TypeOK

(***************************************************************************)
(* Cancelling, and the end of a place.                                     *)
(***************************************************************************)

\* What is known of a resting order.
LEMMA RestingType ==
  ASSUME IInv, NEW o \in Resting
  PROVE  /\ o \in OrderIds /\ o \in processed
         /\ book[o] \in RestingOrder /\ book[o] # Nothing
         /\ metadata[o] \in Metadata /\ metadata[o] # Nothing
         /\ MarginOK(metadata[o])
         /\ metadata[o].user = book[o].user
         /\ metadata[o].side = book[o].side
         /\ metadata[o].remaining = book[o].remaining
<1>1. o \in OrderIds /\ book[o] # Nothing
  BY DEF Resting
<1>2. book[o] \in RestingOrder
  BY <1>1, InvariantParts DEF OrdersOK
<1>3. /\ metadata[o] # Nothing
      /\ metadata[o].user = book[o].user
      /\ metadata[o].side = book[o].side
      /\ metadata[o].remaining = book[o].remaining
  BY InvariantParts DEF MetadataMatchesBook
<1>4. metadata[o] \in Metadata
  BY <1>1, <1>3, InvariantParts DEF OrdersOK
<1>5. o \in processed /\ MarginOK(metadata[o])
  BY <1>1, <1>3, InvariantParts DEF MetadataOK
<1> QED BY <1>1, <1>2, <1>3, <1>4, <1>5

\* A cancel returns what is left of the reservation with the metadata.
LEMMA CancelOrderPreserves ==
  ASSUME IInv, NEW o \in OrderIds, CancelOrder(o)
  PROVE  IInv'
<1> DEFINE amount == metadata[o].unspent
<1>0. /\ pc = "idle" /\ o \in Resting /\ pc' = pc /\ taker' = taker
      /\ book' = [book EXCEPT ![o] = Nothing]
      /\ metadata' = [metadata EXCEPT ![o] = Nothing]
      /\ ledger' = Return(ledger, o, amount)
      /\ UNCHANGED <<arrivals, positions, risks, mark, funding, settled, scan,
                     restarts, processed>>
  BY DEF CancelOrder, accounts, market
<1>1. /\ metadata[o] \in Metadata /\ metadata[o] # Nothing /\ o \in processed
      /\ ledger[o].returned = 0 /\ ledger[o].dropped = 0
  BY <1>0, RestingType, InvariantParts DEF MetadataOK
<1>2. amount \in Nat
  BY <1>1 DEF Metadata
<1> HIDE DEF amount
<1>3. ledger \in [OrderIds -> Ledger] /\ processed \subseteq OrderIds
  BY InvariantParts DEF OrdersOK
<1>4. /\ OthersStay(ledger, ledger', o)
      /\ EntryIs(ledger', o, ledger[o].reserved, ledger[o].charged,
                 ledger[o].returned + amount, ledger[o].dropped)
  BY <1>0, <1>2, <1>3, ReturnUpdates
<1>5. /\ Resting' = Resting \ {o}
      /\ \A other \in OrderIds \ {o} : book'[other] = book[other]
      /\ \A other \in OrderIds \ {o} : metadata'[other] = metadata[other]
      /\ book' \in [OrderIds -> RestingOrder \cup {Nothing}]
      /\ metadata' \in [OrderIds -> Metadata \cup {Nothing}]
      /\ metadata'[o] = Nothing
  BY <1>0, InvariantParts DEF OrdersOK, Resting
<1>6. AccountsOK' /\ PositionsBalance' /\ RiskIsCurrent' /\ FlatOK'
  BY <1>0, AccountsStay
<1>7. MarketOK' /\ ThreadOK'
  BY <1>0, InvariantParts DEF MarketOK, ThreadOK
<1>8. OrdersOK'
  BY <1>0, <1>4, <1>5, InvariantParts DEF OrdersOK, OthersStay
<1>9. QueueOK'
  <2>1. \A p \in Resting' : p \in Resting /\ p \in OrderIds /\ book'[p] = book[p]
    BY <1>5 DEF Resting
  <2> QED BY <1>0, <2>1, InvariantParts DEF QueueOK
<1>10. MetadataMatchesBook'
  BY <1>5, InvariantParts DEF MetadataMatchesBook, Resting
<1>11. MetadataOK'
  BY <1>0, <1>4, <1>5, InvariantParts DEF MetadataOK, OthersStay
<1>12. UnusedOK'
  BY <1>0, <1>1, <1>4, InvariantParts DEF UnusedOK, OthersStay
<1>13. PlacingOK' /\ ReducingOK'
  BY <1>0 DEF PlacingOK, Placing, ReducingOK, Trading
<1>14. ASSUME NEW p \in processed' PROVE AddsUp(p)'
  <2>0. p \in processed /\ p \in OrderIds /\ AddsUp(p)
    BY <1>0, <1>3, InvariantParts
  <2>1. CASE p = o
    <3>1. Unspent(o) = amount /\ Unspent(o)' = 0
      BY <1>0, <1>1, <1>5 DEF Unspent, amount
    <3>2. ledger[o].charged \in Nat /\ ledger[o].reserved \in Nat
      BY <1>3 DEF Ledger
    <3> QED BY <1>1, <1>2, <1>4, <2>0, <2>1, <3>1, <3>2 DEF AddsUp, EntryIs
  <2>2. CASE p # o
    <3>1. Unspent(p)' = Unspent(p)
      BY <1>0, <1>5, <2>0, <2>2 DEF Unspent
    <3> QED BY <1>4, <1>5, <2>0, <2>2, <3>1 DEF AddsUp, OthersStay
  <2> QED BY <2>1, <2>2
<1>15. ReservationsAddUp'
  BY <1>14, ReservationsAreKept
<1> QED
  BY <1>6, <1>7, <1>8, <1>9, <1>10, <1>11, <1>12, <1>13, <1>15 DEF IInv, TypeOK

\* What an accepted order brings to the end of its matching.
LEMMA PlacedOrderType ==
  ASSUME IInv, Placing
  PROVE  /\ taker \in PlacedOrder
         /\ taker.orderId \in OrderIds /\ taker.orderId \in processed
         /\ taker.meta \in Metadata /\ MarginOK(taker.meta)
         /\ taker.meta.side = taker.side /\ taker.meta.user = taker.user
         /\ metadata[taker.orderId] = Nothing /\ taker.orderId \notin Resting
         /\ ledger[taker.orderId].returned = 0 /\ ledger[taker.orderId].dropped = 0
         /\ taker.left \in Nat /\ taker.meta.unspent \in Nat
         /\ taker.traded \in BOOLEAN
         /\ ~taker.reduceOnly => taker.left = taker.meta.remaining
<1>1. taker \in PlacedOrder
  BY InvariantParts DEF ThreadOK, Placing, LiquidationOrder
<1>2. /\ taker.orderId \in OrderIds /\ taker.meta \in Metadata /\ taker.left \in Nat
      /\ taker.traded \in BOOLEAN
  BY <1>1 DEF PlacedOrder
<1>3. taker.meta.side = taker.side /\ taker.meta.user = taker.user
  BY InvariantParts DEF ReducingOK, Trading, Placing
<1>4. /\ taker.orderId \in processed
      /\ metadata[taker.orderId] = Nothing
      /\ MarginOK(taker.meta)
      /\ ledger[taker.orderId].returned = 0
      /\ ledger[taker.orderId].dropped = 0
      /\ ~taker.reduceOnly => taker.left = taker.meta.remaining
  BY InvariantParts DEF PlacingOK
<1>5. taker.orderId \notin Resting
  BY <1>4, InvariantParts DEF MetadataMatchesBook
<1>6. taker.meta.unspent \in Nat
  BY <1>2 DEF Metadata
<1> QED BY <1>1, <1>2, <1>3, <1>4, <1>5, <1>6

\* After a place the thread looks for liquidations or is done.
LEMMA AfterPlaceType ==
  ASSUME IInv, Placing, AfterPlace, restarts' = restarts
  PROVE  ThreadOK' /\ pc' \in {"scanning", "idle"}
<1>1. taker.traded \in BOOLEAN
  BY PlacedOrderType
<1>2. scan' = [running |-> taker.traded, startup |-> FALSE, attempted |-> {}]
  BY DEF AfterPlace, NoScan
<1>3. scan' \in [running : BOOLEAN, startup : BOOLEAN, attempted : SUBSET Users]
  BY <1>1, <1>2
<1>4. pc' \in {"scanning", "idle"} /\ taker' = NoTaker
  BY DEF AfterPlace
<1> QED BY <1>3, <1>4, InvariantParts DEF ThreadOK

\* After the trades: the remainder rests, or is dropped by the core.
LEMMA FinishPlacePreserves ==
  ASSUME IInv, FinishPlace
  PROVE  IInv'
<1> DEFINE o == taker.orderId
           meta == taker.meta
           left == taker.left
           rests == taker.left > 0 /\ taker.canRest
           resting == [user |-> taker.user, side |-> taker.side, price |-> taker.price,
                       remaining |-> taker.left, queued |-> arrivals]
<1>0. /\ Placing /\ ~taker.reduceOnly
      /\ metadata' = [metadata EXCEPT ![o] = IF left = 0 THEN Nothing ELSE meta]
      /\ rests => /\ book' = [book EXCEPT ![o] = resting]
                  /\ arrivals' = arrivals + 1
      /\ ~rests => book' = book /\ arrivals' = arrivals
      /\ UNCHANGED <<positions, risks, mark, funding, settled, processed, restarts,
                     ledger>>
      /\ AfterPlace
  BY DEF FinishPlace, Placing, accounts, market
<1>1. /\ o \in OrderIds /\ o \in processed
      /\ meta \in Metadata /\ MarginOK(meta)
      /\ meta.side = taker.side /\ meta.user = taker.user
      /\ metadata[o] = Nothing /\ o \notin Resting
      /\ ledger[o].returned = 0 /\ ledger[o].dropped = 0
      /\ left \in Nat /\ meta.unspent \in Nat /\ left = meta.remaining
  BY <1>0, PlacedOrderType
<1>2. ThreadOK' /\ pc' \in {"scanning", "idle"}
  BY <1>0, AfterPlaceType
<1>3. arrivals \in Nat /\ arrivals' \in Nat /\ arrivals <= arrivals'
  BY <1>0, InvariantParts DEF OrdersOK
<1>4. rests => /\ resting \in RestingOrder
               /\ resting.user = meta.user /\ resting.side = meta.side
               /\ resting.remaining = meta.remaining /\ resting.queued = arrivals
               /\ left # 0 /\ arrivals' = arrivals + 1
  <2>1. taker.user \in Users /\ taker.side \in Sides /\ taker.price \in BookPrices
    BY <1>0, PlacedOrderType DEF PlacedOrder
  <2> QED BY <1>0, <1>1, <1>3, <2>1 DEF RestingOrder
<1>5. Nothing \notin Metadata /\ Nothing \notin RestingOrder
  BY NothingAssumption
<1> HIDE DEF o, meta, left, rests, resting
<1>6. /\ metadata' \in [OrderIds -> Metadata \cup {Nothing}]
      /\ metadata'[o] = IF left = 0 THEN Nothing ELSE meta
      /\ \A other \in OrderIds \ {o} : metadata'[other] = metadata[other]
  <2>1. metadata \in [OrderIds -> Metadata \cup {Nothing}]
    BY InvariantParts DEF OrdersOK
  <2> QED BY <1>0, <1>1, <2>1
<1>7. /\ book' \in [OrderIds -> RestingOrder \cup {Nothing}]
      /\ book'[o] = IF rests THEN resting ELSE Nothing
      /\ \A other \in OrderIds \ {o} : book'[other] = book[other]
      /\ Resting' = IF rests THEN Resting \cup {o} ELSE Resting
  <2>1. book \in [OrderIds -> RestingOrder \cup {Nothing}]
    BY InvariantParts DEF OrdersOK
  <2>2. book[o] = Nothing BY <1>1 DEF Resting
  <2>3. CASE rests
    <3>1. book'[o] = resting BY <1>0, <1>1, <2>1, <2>3
    <3> QED BY <1>0, <1>1, <1>4, <1>5, <2>1, <2>3, <3>1 DEF Resting
  <2>4. CASE ~rests
    BY <1>0, <2>1, <2>2, <2>4 DEF Resting
  <2> QED BY <2>3, <2>4
<1>8. AccountsOK' /\ PositionsBalance' /\ RiskIsCurrent' /\ FlatOK'
  BY <1>0, AccountsStay
<1>9. MarketOK'
  BY <1>0, InvariantParts DEF MarketOK
<1>10. OrdersOK'
  BY <1>0, <1>3, <1>6, <1>7, InvariantParts DEF OrdersOK
<1>11. QueueOK'
  <2>1. \A p \in OrderIds : p \in Nat BY ConstantTypes
  <2>2. ASSUME NEW p \in OrderIds PROVE p < arrivals'
    <3>1. p < arrivals BY InvariantParts DEF QueueOK
    <3> QED BY <1>3, <2>1, <3>1
  <2>3. ASSUME NEW p \in Resting
        PROVE  p \in Resting' /\ book'[p] = book[p] /\ book[p].queued \in Nat
               /\ book[p].queued < arrivals
    <3>1. p \in OrderIds /\ p # o BY <1>1, RestingType
    <3>2. book[p] \in RestingOrder BY RestingType
    <3>3. book[p].queued \in Nat BY <3>2 DEF RestingOrder
    <3> QED BY <1>7, <3>1, <3>3, InvariantParts DEF QueueOK
  <2>4. CASE rests
    <3>1. Resting' = Resting \cup {o} /\ book'[o].queued = arrivals
      BY <1>4, <1>7, <2>4
    <3>2. \A p \in Resting' : book'[p].queued < arrivals'
      BY <1>3, <1>4, <2>3, <2>4, <3>1
    <3>3. \A p, q \in Resting' : book'[p].queued = book'[q].queued => p = q
      BY <1>3, <2>3, <3>1, InvariantParts DEF QueueOK
    <3> QED BY <2>2, <3>2, <3>3 DEF QueueOK
  <2>5. CASE ~rests
    <3>1. Resting' = Resting /\ arrivals' = arrivals BY <1>0, <1>7, <2>5
    <3> QED BY <2>2, <2>3, <3>1, InvariantParts DEF QueueOK
  <2> QED BY <2>4, <2>5
<1>12. MetadataMatchesBook'
  <2> SUFFICES ASSUME NEW p \in Resting'
               PROVE  /\ metadata'[p] # Nothing
                      /\ metadata'[p].user = book'[p].user
                      /\ metadata'[p].side = book'[p].side
                      /\ metadata'[p].remaining = book'[p].remaining
    BY DEF MetadataMatchesBook
  <2>1. CASE p = o
    <3>1. rests BY <1>1, <1>7, <2>1
    <3>2. metadata'[o] = meta /\ book'[o] = resting
      BY <1>4, <1>6, <1>7, <3>1
    <3> QED BY <1>1, <1>4, <1>5, <2>1, <3>1, <3>2
  <2>2. CASE p # o
    <3>1. p \in Resting BY <1>7, <2>2
    <3>2. p \in OrderIds BY <3>1 DEF Resting
    <3> QED BY <1>6, <1>7, <2>2, <3>1, <3>2, RestingType
  <2> QED BY <2>1, <2>2
<1>13. MetadataOK'
  BY <1>0, <1>1, <1>6, InvariantParts DEF MetadataOK
<1>14. UnusedOK'
  BY <1>0, InvariantParts DEF UnusedOK
<1>15. PlacingOK' /\ ReducingOK'
  BY <1>2 DEF PlacingOK, Placing, ReducingOK, Trading
<1>16. ASSUME NEW p \in processed' PROVE AddsUp(p)'
  <2>0. p \in processed /\ p \in OrderIds /\ AddsUp(p)
    BY <1>0, InvariantParts DEF OrdersOK
  <2>1. CASE p = o
    <3>1. Unspent(p) = meta.unspent
      BY <1>0, <1>1, <2>1 DEF Unspent, Placing, o, meta
    <3>2. Unspent(p)' = meta.unspent
      <4>1. CASE left = 0
        <5>1. meta.unspent = 0 BY <1>1, <4>1 DEF MarginOK
        <5>2. Unspent(p)' = 0 BY <1>2, <1>6, <2>1, <4>1 DEF Unspent
        <5> QED BY <5>1, <5>2
      <4>2. CASE left # 0
        <5>1. metadata'[o] = meta BY <1>6, <4>2
        <5> QED BY <1>1, <1>5, <2>1, <5>1 DEF Unspent
      <4> QED BY <4>1, <4>2
    <3>3. ~(ledger'[p].dropped > 0)
      BY <1>0, <1>1, <2>1
    <3> QED BY <1>0, <2>0, <2>1, <3>1, <3>2, <3>3 DEF AddsUp
  <2>2. CASE p # o
    <3>1. Unspent(p)' = Unspent(p)
      BY <1>0, <1>2, <1>6, <2>0, <2>2 DEF Unspent, o
    <3>2. p \in Resting' => p \in Resting
      BY <1>7, <2>2
    <3> QED BY <1>0, <2>0, <3>1, <3>2 DEF AddsUp
  <2> QED BY <2>1, <2>2
<1>17. ReservationsAddUp'
  BY <1>16, ReservationsAreKept
<1> QED
  BY <1>2, <1>8, <1>9, <1>10, <1>11, <1>12, <1>13, <1>14, <1>15, <1>17 DEF IInv, TypeOK

\* The same for a reduce-only order, which rests no more than its position.
LEMMA FinishReduceOnlyPreserves ==
  ASSUME IInv, FinishReduceOnly
  PROVE  IInv'
<1> DEFINE o == taker.orderId
           meta == taker.meta
           amount == IF taker.meta.remaining > 0 THEN taker.meta.unspent ELSE 0
<1>0. /\ Placing
      /\ ledger' = Return(ledger, o, amount)
      /\ UNCHANGED <<book, metadata, arrivals, positions, risks, mark, funding, settled,
                     processed, restarts>>
      /\ AfterPlace
  BY DEF FinishReduceOnly, Placing, orders, accounts, market
<1>1. /\ o \in OrderIds /\ o \in processed
      /\ meta \in Metadata /\ MarginOK(meta)
      /\ metadata[o] = Nothing /\ o \notin Resting
      /\ ledger[o].returned = 0 /\ ledger[o].dropped = 0
      /\ meta.unspent \in Nat
  BY <1>0, PlacedOrderType
<1>2. amount = meta.unspent /\ amount \in Nat
  <2>1. meta.remaining \in Nat BY <1>1 DEF Metadata
  <2>2. meta.remaining = 0 => meta.unspent = 0 BY <1>1 DEF MarginOK
  <2> QED BY <1>1, <2>1, <2>2
<1>3. ThreadOK' /\ pc' \in {"scanning", "idle"}
  BY <1>0, AfterPlaceType
<1> HIDE DEF amount
<1>4. ledger \in [OrderIds -> Ledger] /\ processed \subseteq OrderIds
  BY InvariantParts DEF OrdersOK
<1>5. /\ OthersStay(ledger, ledger', o)
      /\ EntryIs(ledger', o, ledger[o].reserved, ledger[o].charged,
                 ledger[o].returned + amount, ledger[o].dropped)
  BY <1>0, <1>1, <1>2, <1>4, ReturnUpdates
<1> HIDE DEF o, meta
<1>6. AccountsOK' /\ PositionsBalance' /\ RiskIsCurrent' /\ FlatOK'
  BY <1>0, AccountsStay
<1>7. MarketOK'
  BY <1>0, InvariantParts DEF MarketOK
<1>8. OrdersOK' /\ QueueOK' /\ MetadataMatchesBook'
  BY <1>0, <1>5, InvariantParts
     DEF OrdersOK, OthersStay, QueueOK, MetadataMatchesBook, Resting
<1>9. MetadataOK'
  BY <1>0, <1>1, <1>5, InvariantParts DEF MetadataOK, OthersStay
<1>10. UnusedOK'
  BY <1>0, <1>1, <1>5, InvariantParts DEF UnusedOK, OthersStay
<1>11. PlacingOK' /\ ReducingOK'
  BY <1>3 DEF PlacingOK, Placing, ReducingOK, Trading
<1>12. ASSUME NEW p \in processed' PROVE AddsUp(p)'
  <2>0. p \in processed /\ p \in OrderIds /\ AddsUp(p) /\ Resting' = Resting
    BY <1>0, <1>4, InvariantParts DEF Resting
  <2>1. CASE p = o
    <3>1. Unspent(p) = amount /\ Unspent(p)' = 0
      BY <1>0, <1>1, <1>2, <1>3, <2>1 DEF Unspent, Placing, o, meta
    <3>2. ledger[o].charged \in Nat /\ ledger[o].reserved \in Nat
      BY <1>1, <1>4 DEF Ledger
    <3> QED BY <1>1, <1>2, <1>5, <2>0, <2>1, <3>1, <3>2 DEF AddsUp, EntryIs
  <2>2. CASE p # o
    <3>1. Unspent(p)' = Unspent(p)
      BY <1>0, <1>3, <2>2 DEF Unspent, o
    <3> QED BY <1>5, <2>0, <2>2, <3>1 DEF AddsUp, OthersStay
  <2> QED BY <2>1, <2>2
<1>13. ReservationsAddUp'
  BY <1>12, ReservationsAreKept
<1> QED
  BY <1>3, <1>6, <1>7, <1>8, <1>9, <1>10, <1>11, <1>13 DEF IInv, TypeOK

(***************************************************************************)
(* Liquidations: their start and end, and the loop.                        *)
(***************************************************************************)

\* A step of the thread that touches neither orders nor accounts and neither
\* starts nor ends a place.
LEMMA ThreadStep ==
  ASSUME IInv, ~Placing, ~Placing', ThreadOK', ReducingOK',
         UNCHANGED <<book, metadata, arrivals, processed, ledger, positions, risks,
                     mark, funding, settled>>
  PROVE  IInv'
<1>1. AccountsOK' /\ PositionsBalance' /\ RiskIsCurrent' /\ FlatOK'
  BY AccountsStay
<1>2. /\ OrdersOK' /\ QueueOK' /\ MetadataOK' /\ UnusedOK' /\ MetadataMatchesBook'
      /\ ReservationsAddUp'
  BY OrdersStay
<1>3. MarketOK'
  BY InvariantParts DEF MarketOK
<1>4. PlacingOK'
  BY DEF PlacingOK
<1> QED BY <1>1, <1>2, <1>3, <1>4 DEF IInv, TypeOK

\* The order that closes a position, or a part of it.
LEMMA SyntheticOrderType ==
  ASSUME IInv, NEW u \in Users, NEW lots \in Nat, NEW price \in Nat
  PROVE  LET order == SyntheticOrder(u, lots, price)
         IN  /\ order \in LiquidationOrder
             /\ order.user = u /\ order.meta.user = u
             /\ order.side = ClosingSide(positions[u].quantity)
             /\ order.meta.side = order.side
             /\ order.left = lots
             /\ order.before = positions[u].quantity
             /\ order.kind = "liquidation"
<1> DEFINE q == positions[u].quantity
           side == ClosingSide(q)
           leverage == positions[u].leverage
           meta == [user |-> u, side |-> side, original |-> lots, remaining |-> lots,
                    reserved |-> 0, unspent |-> 0, leverage |-> leverage]
           order == SyntheticOrder(u, lots, price)
<1>1. q \in Int /\ leverage \in Nat
  BY InvariantParts DEF AccountsOK, PositionRecord
<1>2. side \in Sides
  BY <1>1, AbsType
<1>3. order = [kind |-> "liquidation", user |-> u, side |-> side, price |-> price,
               left |-> lots, canRest |-> FALSE, reduceOnly |-> TRUE, traded |-> FALSE,
               before |-> q, meta |-> meta]
  BY DEF SyntheticOrder
<1> HIDE DEF order, side, q, leverage
<1>4. meta \in Metadata /\ meta.side = side /\ meta.user = u
  BY <1>1, <1>2 DEF Metadata
<1> HIDE DEF meta
<1>5. order \in LiquidationOrder
  BY <1>1, <1>2, <1>3, <1>4 DEF LiquidationOrder
<1> QED BY <1>3, <1>4, <1>5 DEF order, side, q

\* A synthetic order of at most the position's lots starts a liquidation.
LEMMA LiquidationStarts ==
  ASSUME IInv, pc \in {"idle", "scanning"},
         NEW u \in Users, positions[u].quantity # 0,
         NEW lots \in Nat, lots <= Abs(positions[u].quantity), NEW price \in Nat,
         NEW ids, ExecuteLiquidation(SyntheticOrder(u, lots, price), ids),
         scan' \in [running : BOOLEAN, startup : BOOLEAN, attempted : SUBSET Users],
         UNCHANGED <<book, metadata, arrivals, processed, ledger, positions, risks,
                     mark, funding, settled, restarts>>
  PROVE  IInv'
<1> DEFINE order == SyntheticOrder(u, lots, price)
           q == positions[u].quantity
<1>0. q \in Int /\ Abs(q) \in Nat
  BY InvariantParts, AbsType DEF AccountsOK, PositionRecord
<1>1. /\ order \in LiquidationOrder
      /\ order.user = u /\ order.meta.user = u
      /\ order.side = ClosingSide(q) /\ order.meta.side = order.side
      /\ order.left = lots /\ order.before = q /\ order.kind = "liquidation"
  BY SyntheticOrderType
<1>2. \/ /\ pc' \in {"matching", "deleveraging"} /\ taker' = order
      \/ /\ pc' = pc /\ taker' = taker
  BY DEF ExecuteLiquidation
<1> HIDE DEF order
<1>3. taker = NoTaker
  BY InvariantParts DEF ThreadOK
<1>4. ~Placing
  BY DEF Placing
<1>5. ~Placing'
  BY <1>1, <1>2 DEF Placing
<1>6. ThreadOK'
  BY <1>1, <1>2, <1>3, InvariantParts DEF ThreadOK
<1>7. ReducingOK'
  <2>1. CASE pc' = pc
    BY <2>1 DEF ReducingOK, Trading
  <2>2. CASE pc' \in {"matching", "deleveraging"} /\ taker' = order
    <3>1. SameDirection(q, q) BY <1>0 DEF SameDirection, q
    <3>2. positions'[taker'.user].quantity = q BY <1>1, <2>2
    <3>3. lots <= Abs(q) /\ q # 0 OBVIOUS
    <3> HIDE DEF q
    <3> QED BY <1>0, <1>1, <2>2, <3>1, <3>2, <3>3 DEF ReducingOK, Trading
  <2> QED BY <1>2, <2>1, <2>2
<1> QED BY <1>4, <1>5, <1>6, <1>7, ThreadStep

\* A liquidation takes at most the position's lots, at a natural price.
LEMMA LiquidationTerms ==
  ASSUME IInv, NEW u \in Users, NEW quantity \in Int, NEW price \in Int
  PROVE  /\ LiquidationLots(u, quantity) \in Nat
         /\ LiquidationLots(u, quantity) <= Abs(positions[u].quantity)
         /\ LiquidationPrice(u, price) \in Nat
<1>1. positions[u].quantity \in Int /\ positions[u].average \in Nat /\ mark \in Nat
  BY InvariantParts DEF AccountsOK, PositionRecord, MarketOK
<1>2. Abs(positions[u].quantity) \in Nat
  BY <1>1, AbsType
<1>3. LiquidationLots(u, quantity) \in Nat
      /\ LiquidationLots(u, quantity) <= Abs(positions[u].quantity)
  BY <1>2 DEF LiquidationLots, LesserOf
<1>4. LiquidationPrice(u, price) \in Nat
  BY <1>1 DEF LiquidationPrice, MarkOr
<1> QED BY <1>3, <1>4

\* A requested liquidation.
LEMMA LiquidatePositionPreserves ==
  ASSUME IInv, NEW l \in LiquidateInputs, LiquidatePosition(l)
  PROVE  IInv'
<1> DEFINE u == l.user
           quantity == l.quantity
           given == l.price
           lots == LiquidationLots(u, quantity)
           price == LiquidationPrice(u, given)
<1>1. u \in Users /\ quantity \in Int /\ given \in Int
  BY RuntimeAssumption
<1>2. /\ pc = "idle" /\ MayLiquidate(u, l.side)
      /\ ExecuteLiquidation(SyntheticOrder(u, lots, price), {RequestId(l)})
      /\ UNCHANGED <<book, metadata, arrivals, processed, ledger, positions, risks,
                     mark, funding, settled, restarts, scan>>
  BY DEF LiquidatePosition, orders, accounts, market
<1>3. positions[u].quantity # 0
  BY <1>2 DEF MayLiquidate
<1> HIDE DEF u, quantity, given
<1>4. lots \in Nat /\ lots <= Abs(positions[u].quantity) /\ price \in Nat
  BY <1>1, LiquidationTerms
<1> HIDE DEF lots, price
<1>5. scan' \in [running : BOOLEAN, startup : BOOLEAN, attempted : SUBSET Users]
  BY <1>2, InvariantParts DEF ThreadOK
<1> QED BY <1>1, <1>2, <1>3, <1>4, <1>5, LiquidationStarts

\* One candidate of the liquidation loop.
LEMMA AttemptLiquidationPreserves ==
  ASSUME IInv, AttemptLiquidation
  PROVE  IInv'
<1>1. /\ pc = "scanning" /\ ScanCandidates # {}
      /\ UNCHANGED <<book, metadata, arrivals, processed, ledger, positions, risks,
                     mark, funding, settled, restarts>>
  BY DEF AttemptLiquidation, CanAttempt, orders, accounts, market
<1>2. PICK u \in {First(ScanKeys)} :
        /\ scan' = [scan EXCEPT !.attempted = @ \cup {u}]
        /\ ExecuteLiquidation(SyntheticOrder(u, LiquidationLots(u, 0),
                                             LiquidationPrice(u, 0)), AttemptIds(u))
  BY DEF AttemptLiquidation
<1>3. u \in Users /\ positions[u].quantity # 0
  BY <1>1, ScanCandidateIsChosen, InvariantParts DEF ScanCandidates
<1> DEFINE lots == LiquidationLots(u, 0)
           price == LiquidationPrice(u, 0)
<1>4. ExecuteLiquidation(SyntheticOrder(u, lots, price), AttemptIds(u))
  BY <1>2
<1>5. lots \in Nat /\ lots <= Abs(positions[u].quantity) /\ price \in Nat
  BY <1>3, LiquidationTerms
<1> HIDE DEF lots, price
<1>6. scan' \in [running : BOOLEAN, startup : BOOLEAN, attempted : SUBSET Users]
  BY <1>2, <1>3, InvariantParts DEF ThreadOK
<1> QED BY <1>1, <1>3, <1>4, <1>5, <1>6, LiquidationStarts

\* The book has nothing more to give: deleveraging is next.
LEMMA FinishBookPreserves ==
  ASSUME IInv, FinishBook
  PROVE  IInv'
<1>1. /\ pc = "matching" /\ taker.kind = "liquidation" /\ pc' = "deleveraging"
      /\ UNCHANGED <<book, metadata, arrivals, processed, ledger, positions, risks,
                     mark, funding, settled, restarts, scan, taker>>
  BY DEF FinishBook, orders, accounts, market
<1>2. taker \in LiquidationOrder
  BY <1>1, InvariantParts DEF ThreadOK, PlacedOrder
<1>3. ThreadOK'
  BY <1>1, <1>2, InvariantParts DEF ThreadOK
<1>4. ReducingOK'
  BY <1>1, InvariantParts DEF ReducingOK, Trading
<1> QED BY <1>1, <1>3, <1>4, ThreadStep DEF Placing

\* The end of one liquidation.
LEMMA FinishLiquidationPreserves ==
  ASSUME IInv, FinishLiquidation
  PROVE  IInv'
<1>1. /\ pc = "deleveraging" /\ pc' \in {"scanning", "idle"} /\ taker' = NoTaker
      /\ UNCHANGED <<book, metadata, arrivals, processed, ledger, positions, risks,
                     mark, funding, settled, restarts, scan>>
  BY DEF FinishLiquidation, orders, accounts, market
<1>2. ThreadOK'
  BY <1>1, InvariantParts DEF ThreadOK
<1> QED BY <1>1, <1>2, ThreadStep DEF Placing, ReducingOK, Trading

\* The end of the liquidation loop.
LEMMA EndScanPreserves ==
  ASSUME IInv, EndScan
  PROVE  IInv'
<1>1. /\ pc = "scanning" /\ pc' = "idle" /\ scan' = NoScan
      /\ UNCHANGED <<book, metadata, arrivals, processed, ledger, positions, risks,
                     mark, funding, settled, restarts, taker>>
  BY DEF EndScan, orders, accounts, market
<1>2. NoScan \in [running : BOOLEAN, startup : BOOLEAN, attempted : SUBSET Users]
  BY DEF NoScan
<1>3. ThreadOK'
  BY <1>1, <1>2, InvariantParts DEF ThreadOK
<1> QED BY <1>1, <1>3, ThreadStep DEF Placing, ReducingOK, Trading

(***************************************************************************)
(* Mark prices, funding and restarts.                                      *)
(***************************************************************************)

\* What funding added to the equity is an integer.
LEMMA EquityAdjustmentType ==
  ASSUME NEW r \in Risk
  PROVE  EquityAdjustment(r) \in Int
BY DEF Risk, EquityAdjustment

\* A funding payment is an integer.
LEMMA FundingAmountType ==
  ASSUME NEW position \in PositionRecord, NEW price \in Nat, NEW rate \in Int
  PROVE  FundingAmount(position, price, rate, RateScale) \in Int
<1> DEFINE q == position.quantity
           base == q * price * rate
<1>1. q \in Int
  BY DEF PositionRecord
<1> HIDE DEF q
<1>2. q * price \in Int
  BY <1>1, NaturalArithmetic
<1>3. base \in Int
  BY <1>2, NaturalArithmetic
<1>4. RateScale \in Nat \ {0}
  BY RuntimeAssumption
<1> HIDE DEF base
<1>5. TruncatedQuotient(base, RateScale) \in Int
  BY <1>3, <1>4, TruncatedQuotientType
<1> QED BY <1>5 DEF FundingAmount, base, q

\* The thread starts looking for liquidations.
LEMMA ScanStarts ==
  ASSUME IInv, NEW startup \in BOOLEAN, BeginScan(startup), taker' = taker,
         pc = "idle", restarts' \in Nat
  PROVE  ThreadOK' /\ ReducingOK' /\ PlacingOK' /\ ~Placing /\ ~Placing'
<1>1. pc' = "scanning" /\ scan' = [running |-> TRUE, startup |-> startup, attempted |-> {}]
  BY DEF BeginScan, NoScan
<1>2. scan' \in [running : BOOLEAN, startup : BOOLEAN, attempted : SUBSET Users]
  BY <1>1
<1>3. ThreadOK'
  BY <1>1, <1>2, InvariantParts DEF ThreadOK
<1> QED BY <1>1, <1>3 DEF ReducingOK, Trading, PlacingOK, Placing

\* Risk that is computed anew for every account, or stays where there is no
\* position.
LEMMA RisksAreRecomputed ==
  ASSUME IInv, positions' = positions,
         risks' \in [Users -> Risk],
         \A u \in Users : RiskFollows(positions[u], risks'[u], mark')
  PROVE  AccountsOK' /\ PositionsBalance' /\ RiskIsCurrent' /\ FlatOK'
<1>1. AccountsOK'
  BY InvariantParts DEF AccountsOK
<1>2. PositionsBalance'
  BY InvariantParts DEF PositionsBalance
<1>3. RiskIsCurrent' /\ FlatOK'
  BY DEF RiskIsCurrent, FlatOK, RiskFollows
<1> QED BY <1>1, <1>2, <1>3

\* A mark price recomputes the risk of every open position.
LEMMA UpdateMarkPreserves ==
  ASSUME IInv, NEW p \in MarkPrices, UpdateMark(p)
  PROVE  IInv'
<1>1. /\ pc = "idle" /\ mark' = p /\ taker' = taker /\ BeginScan(FALSE)
      /\ risks' = [u \in Users |-> AfterMark(u, p)]
      /\ UNCHANGED <<book, metadata, arrivals, positions, funding, settled, processed,
                     restarts, ledger>>
  BY DEF UpdateMark, orders
<1>2. p \in Nat
  BY ConstantTypes
<1>3. ASSUME NEW u \in Users
      PROVE  /\ AfterMark(u, p) \in Risk
             /\ RiskFollows(positions[u], AfterMark(u, p), p)
  <2> DEFINE position == positions[u]
             a == EquityAdjustment(risks[u])
  <2>1. position \in PositionRecord /\ risks[u] \in Risk
    BY InvariantParts DEF AccountsOK
  <2>2. a \in Int
    BY <2>1, EquityAdjustmentType
  <2>3. CASE positions[u].quantity = 0
    BY <2>1, <2>3, InvariantParts DEF AfterMark, RiskFollows, FlatOK
  <2>4. CASE positions[u].quantity # 0
    <3>1. AfterMark(u, p) = RiskOf(position, p, a) BY <2>4 DEF AfterMark
    <3> HIDE DEF position, a
    <3>2. RiskOf(position, p, a) \in Risk /\ RiskFollows(position, RiskOf(position, p, a), p)
      BY <1>2, <2>1, <2>2, RiskOfType
    <3> QED BY <3>1, <3>2 DEF position
  <2> QED BY <2>3, <2>4
<1>4. /\ risks' \in [Users -> Risk]
      /\ \A u \in Users : RiskFollows(positions[u], risks'[u], mark')
  BY <1>1, <1>3
<1>5. AccountsOK' /\ PositionsBalance' /\ RiskIsCurrent' /\ FlatOK'
  BY <1>1, <1>4, RisksAreRecomputed
<1>6. ThreadOK' /\ ReducingOK' /\ PlacingOK' /\ ~Placing /\ ~Placing'
  BY <1>1, ScanStarts, InvariantParts DEF ThreadOK
<1>7. MarketOK'
  BY <1>1, <1>2, InvariantParts DEF MarketOK
<1>8. /\ OrdersOK' /\ QueueOK' /\ MetadataOK' /\ UnusedOK' /\ MetadataMatchesBook'
      /\ ReservationsAddUp'
  BY <1>1, <1>6, OrdersStay
<1> QED BY <1>5, <1>6, <1>7, <1>8 DEF IInv, TypeOK

\* A funding rate is stored and touches no account.
LEMMA UpdateFundingPreserves ==
  ASSUME IInv, NEW f \in FundingRates, UpdateFunding(f)
  PROVE  IInv'
<1>1. /\ pc = "idle" /\ pc' = pc /\ taker' = taker /\ funding' = f
      /\ UNCHANGED <<book, metadata, arrivals, positions, risks, mark, settled,
                     processed, restarts, ledger, scan>>
  BY DEF UpdateFunding, orders, accounts
<1>2. AccountsOK' /\ PositionsBalance' /\ RiskIsCurrent' /\ FlatOK'
  BY <1>1, AccountsStay
<1>3. /\ ~Placing /\ ~Placing' /\ PlacingOK' /\ ReducingOK'
  BY <1>1 DEF Placing, PlacingOK, ReducingOK, Trading
<1>4. ThreadOK'
  BY <1>1, InvariantParts DEF ThreadOK
<1>5. MarketOK'
  <2>1. f \in [interval : Nat, rate : Int] BY RuntimeAssumption
  <2> QED BY <1>1, <2>1, InvariantParts DEF MarketOK
<1>6. /\ OrdersOK' /\ QueueOK' /\ MetadataOK' /\ UnusedOK' /\ MetadataMatchesBook'
      /\ ReservationsAddUp'
  BY <1>1, <1>3, OrdersStay
<1> QED BY <1>2, <1>3, <1>4, <1>5, <1>6 DEF IInv, TypeOK

\* A funding tick moves equity and leaves positions and margins alone.
LEMMA SettleFundingPreserves ==
  ASSUME IInv, SettleFunding
  PROVE  IInv'
<1>1. /\ pc = "idle" /\ taker' = taker /\ BeginScan(FALSE)
      /\ risks' = [u \in Users |-> AfterFunding(u)]
      /\ settled' = settled \cup {funding.interval}
      /\ UNCHANGED <<book, metadata, arrivals, positions, mark, funding, processed,
                     restarts, ledger>>
  BY DEF SettleFunding, orders
<1>2. mark \in Nat /\ funding.interval \in Nat /\ funding.rate \in Int
  BY InvariantParts DEF MarketOK
<1>3. ASSUME NEW u \in Users
      PROVE  /\ AfterFunding(u) \in Risk
             /\ RiskFollows(positions[u], AfterFunding(u), mark)
  <2> DEFINE position == positions[u]
             rate == funding.rate
             price == MarkOr(position.average)
             amount == FundingAmount(position, price, rate, RateScale)
             a == EquityAdjustment(risks[u]) + amount
  <2>1. position \in PositionRecord /\ risks[u] \in Risk
    BY InvariantParts DEF AccountsOK
  <2>2. price \in Nat /\ (mark # 0 => price = mark)
    BY <1>2, <2>1 DEF MarkOr, PositionRecord
  <2>3. AfterFunding(u) = IF position.quantity = 0 \/ amount = 0 THEN risks[u]
                          ELSE RiskOf(position, price, a)
    BY DEF AfterFunding
  <2>4. RiskFollows(position, risks[u], mark)
    BY InvariantParts DEF RiskFollows, RiskIsCurrent, FlatOK
  <2>5. amount \in Int
    <3>1. rate \in Int BY <1>2
    <3> HIDE DEF position, rate, price
    <3> QED BY <2>1, <2>2, <3>1, FundingAmountType
  <2>6. EquityAdjustment(risks[u]) \in Int
    BY <2>1, EquityAdjustmentType
  <2> HIDE DEF amount
  <2>7. a \in Int
    BY <2>5, <2>6
  <2> HIDE DEF position, price, a
  <2>8. RiskOf(position, price, a) \in Risk
        /\ RiskFollows(position, RiskOf(position, price, a), mark)
    BY <2>1, <2>2, <2>7, RiskOfType
  <2>9. AfterFunding(u) \in Risk /\ RiskFollows(position, AfterFunding(u), mark)
    BY <2>1, <2>3, <2>4, <2>8
  <2> QED BY <2>9 DEF position
<1>4. /\ risks' \in [Users -> Risk]
      /\ \A u \in Users : RiskFollows(positions[u], risks'[u], mark')
  BY <1>1, <1>3
<1>5. AccountsOK' /\ PositionsBalance' /\ RiskIsCurrent' /\ FlatOK'
  BY <1>1, <1>4, RisksAreRecomputed
<1>6. ThreadOK' /\ ReducingOK' /\ PlacingOK' /\ ~Placing /\ ~Placing'
  BY <1>1, ScanStarts, InvariantParts DEF ThreadOK
<1>7. MarketOK'
  BY <1>1, <1>2, InvariantParts DEF MarketOK
<1>8. /\ OrdersOK' /\ QueueOK' /\ MetadataOK' /\ UnusedOK' /\ MetadataMatchesBook'
      /\ ReservationsAddUp'
  BY <1>1, <1>6, OrdersStay
<1> QED BY <1>5, <1>6, <1>7, <1>8 DEF IInv, TypeOK

\* A restart queues every resting order by its id and drops the metadata of
\* the others.
LEMMA RestartStep ==
  ASSUME IInv, Restart
  PROVE  /\ Resting' = Resting /\ DOMAIN book' = OrderIds /\ DOMAIN metadata' = OrderIds
         /\ book' = [o \in OrderIds |-> book'[o]]
         /\ \A o \in OrderIds :
              /\ book[o] = Nothing => book'[o] = Nothing
              /\ book[o] # Nothing =>
                   /\ book'[o] \in RestingOrder /\ book'[o] # Nothing
                   /\ book'[o].queued = o
                   /\ book'[o].user = book[o].user /\ book'[o].side = book[o].side
                   /\ book'[o].remaining = book[o].remaining
              /\ ledger'[o] \in Ledger
              /\ metadata[o] = Nothing \/ o \in Resting => ledger'[o] = ledger[o]
              /\ ~(metadata[o] = Nothing \/ o \in Resting) =>
                   EntryIs(ledger', o, ledger[o].reserved, ledger[o].charged,
                           ledger[o].returned, metadata[o].unspent)
<1>1. /\ book' = [o \in OrderIds |->
           IF book[o] = Nothing THEN Nothing ELSE [book[o] EXCEPT !.queued = o]]
      /\ metadata' = [o \in OrderIds |-> IF o \in Resting THEN metadata[o] ELSE Nothing]
      /\ ledger' = [o \in OrderIds |->
           IF metadata[o] = Nothing \/ o \in Resting THEN ledger[o]
           ELSE [ledger[o] EXCEPT !.dropped = metadata[o].unspent]]
  BY DEF Restart
<1>5. ASSUME NEW o \in OrderIds
      PROVE  /\ book[o] = Nothing => book'[o] = Nothing
             /\ book[o] # Nothing =>
                  /\ book'[o] \in RestingOrder /\ book'[o] # Nothing
                  /\ book'[o].queued = o
                  /\ book'[o].user = book[o].user /\ book'[o].side = book[o].side
                  /\ book'[o].remaining = book[o].remaining
  <2>1. CASE book[o] = Nothing
    BY <1>1, <2>1
  <2>2. CASE book[o] # Nothing
    <3> DEFINE b == book[o]
               new == [b EXCEPT !.queued = o]
    <3>1. b \in RestingOrder BY <2>2, InvariantParts DEF OrdersOK
    <3>2. book'[o] = new BY <1>1, <2>2
    <3>3. o \in Nat BY ConstantTypes
    <3> HIDE DEF b
    <3>4. /\ new \in RestingOrder /\ new.queued = o /\ new.user = b.user
          /\ new.side = b.side /\ new.remaining = b.remaining
      BY <3>1, <3>3 DEF RestingOrder
    <3> HIDE DEF new
    <3>5. new # Nothing BY <3>4, NothingAssumption
    <3> QED BY <2>2, <3>2, <3>4, <3>5 DEF b
  <2> QED BY <2>1, <2>2
<1>6. Resting' = Resting /\ DOMAIN book' = OrderIds /\ DOMAIN metadata' = OrderIds
      /\ book' = [o \in OrderIds |-> book'[o]]
  BY <1>1, <1>5 DEF Resting
<1>9. ASSUME NEW o \in OrderIds
      PROVE  /\ ledger'[o] \in Ledger
             /\ metadata[o] = Nothing \/ o \in Resting => ledger'[o] = ledger[o]
             /\ ~(metadata[o] = Nothing \/ o \in Resting) =>
                  EntryIs(ledger', o, ledger[o].reserved, ledger[o].charged,
                          ledger[o].returned, metadata[o].unspent)
  <2>1. ledger[o] \in Ledger
    BY InvariantParts DEF OrdersOK
  <2>2. CASE metadata[o] = Nothing \/ o \in Resting
    BY <1>1, <2>1, <2>2
  <2>3. CASE ~(metadata[o] = Nothing \/ o \in Resting)
    <3> DEFINE entry == ledger[o]
               u == metadata[o].unspent
    <3>1. entry \in Ledger /\ entry.reserved \in Nat /\ entry.charged \in Nat
          /\ entry.returned \in Nat
      BY <2>1 DEF Ledger
    <3>2. metadata[o] \in Metadata BY <2>3, InvariantParts DEF OrdersOK
    <3>3. u \in Nat BY <3>2 DEF Metadata
    <3>4. ledger'[o] = [entry EXCEPT !.dropped = u] BY <1>1, <2>3
    <3> HIDE DEF entry, u
    <3>5. ledger'[o] = [reserved |-> entry.reserved, charged |-> entry.charged,
                        returned |-> entry.returned, dropped |-> u]
      BY <3>1, <3>4, LedgerUpdates
    <3>6. ledger'[o] \in Ledger BY <3>1, <3>3, <3>5 DEF Ledger
    <3> QED BY <2>3, <3>5, <3>6 DEF EntryIs, entry, u
  <2> QED BY <2>2, <2>3
<1> QED BY <1>5, <1>6, <1>9

\* A restart forgets the metadata of orders that do not rest.
LEMMA RestartPreserves ==
  ASSUME IInv, Restart
  PROVE  IInv'
<1>1. /\ pc = "idle" /\ BeginScan(TRUE) /\ taker' = taker
      /\ restarts' = restarts + 1
      /\ book' = [o \in OrderIds |->
           IF book[o] = Nothing THEN Nothing ELSE [book[o] EXCEPT !.queued = o]]
      /\ metadata' = [o \in OrderIds |-> IF o \in Resting THEN metadata[o] ELSE Nothing]
      /\ ledger' = [o \in OrderIds |->
           IF metadata[o] = Nothing \/ o \in Resting THEN ledger[o]
           ELSE [ledger[o] EXCEPT !.dropped = metadata[o].unspent]]
      /\ UNCHANGED <<arrivals, positions, risks, mark, funding, settled, processed>>
  BY DEF Restart, accounts, market
<1>2. AccountsOK' /\ PositionsBalance' /\ RiskIsCurrent' /\ FlatOK'
  BY <1>1, AccountsStay
<1>3. ThreadOK' /\ ReducingOK' /\ PlacingOK' /\ ~Placing /\ ~Placing'
  <2>1. restarts' \in Nat BY <1>1, InvariantParts DEF ThreadOK
  <2>2. TRUE \in BOOLEAN OBVIOUS
  <2> QED BY <1>1, <2>1, <2>2, ScanStarts
<1>4. MarketOK'
  BY <1>1, InvariantParts DEF MarketOK
<1>5. \A o \in OrderIds :
        /\ book[o] = Nothing => book'[o] = Nothing
        /\ book[o] # Nothing =>
             /\ book'[o] \in RestingOrder /\ book'[o] # Nothing
             /\ book'[o].queued = o
             /\ book'[o].user = book[o].user /\ book'[o].side = book[o].side
             /\ book'[o].remaining = book[o].remaining
  BY RestartStep
<1>6. Resting' = Resting /\ DOMAIN book' = OrderIds /\ DOMAIN metadata' = OrderIds
      /\ book' = [o \in OrderIds |-> book'[o]]
  BY RestartStep
<1>7. book' \in [OrderIds -> RestingOrder \cup {Nothing}]
  BY <1>5, <1>6
<1>8. metadata' \in [OrderIds -> Metadata \cup {Nothing}]
  BY <1>1, InvariantParts DEF OrdersOK
<1>9. \A o \in OrderIds :
        /\ ledger'[o] \in Ledger
        /\ metadata[o] = Nothing \/ o \in Resting => ledger'[o] = ledger[o]
        /\ ~(metadata[o] = Nothing \/ o \in Resting) =>
             EntryIs(ledger', o, ledger[o].reserved, ledger[o].charged,
                     ledger[o].returned, metadata[o].unspent)
  BY RestartStep
<1>10. OrdersOK'
  <2>1. ledger' \in [OrderIds -> Ledger]
    <3>1. ledger' = [o \in OrderIds |-> ledger'[o]] BY <1>1
    <3> QED BY <1>9, <3>1
  <2> QED BY <1>1, <1>7, <1>8, <2>1, InvariantParts DEF OrdersOK
<1>11. QueueOK'
  <2>1. \A o \in OrderIds : o < arrivals' BY <1>1, InvariantParts DEF QueueOK
  <2>2. ASSUME NEW o \in Resting' PROVE o \in OrderIds /\ book'[o].queued = o
    <3>1. o \in OrderIds /\ book[o] # Nothing BY <1>6 DEF Resting
    <3> QED BY <1>5, <3>1
  <2> QED BY <2>1, <2>2 DEF QueueOK
<1>12. MetadataMatchesBook'
  <2> SUFFICES ASSUME NEW o \in Resting
               PROVE  /\ metadata'[o] # Nothing
                      /\ metadata'[o].user = book'[o].user
                      /\ metadata'[o].side = book'[o].side
                      /\ metadata'[o].remaining = book'[o].remaining
    BY <1>6 DEF MetadataMatchesBook
  <2>1. o \in OrderIds /\ book[o] # Nothing /\ metadata[o] # Nothing
        /\ metadata[o].user = book[o].user
        /\ metadata[o].side = book[o].side
        /\ metadata[o].remaining = book[o].remaining
    BY RestingType
  <2>2. metadata'[o] = metadata[o] BY <1>1, <2>1
  <2> QED BY <1>5, <2>1, <2>2
<1>13. MetadataOK'
  <2> SUFFICES ASSUME NEW o \in OrderIds, metadata'[o] # Nothing
               PROVE  /\ o \in processed /\ MarginOK(metadata'[o])
                      /\ ledger'[o].returned = 0 /\ ledger'[o].dropped = 0
    BY <1>1 DEF MetadataOK
  <2>1. o \in Resting /\ metadata'[o] = metadata[o] BY <1>1
  <2>2. ledger'[o] = ledger[o] /\ metadata[o] # Nothing BY <1>9, <2>1
  <2> QED BY <2>1, <2>2, InvariantParts DEF MetadataOK
<1>14. UnusedOK'
  <2> SUFFICES ASSUME NEW o \in OrderIds \ processed
               PROVE  ledger'[o] = [reserved |-> 0, charged |-> 0, returned |-> 0,
                                    dropped |-> 0]
    BY <1>1 DEF UnusedOK
  <2>1. metadata[o] = Nothing BY UnusedOrder
  <2>2. ledger'[o] = ledger[o] BY <1>9, <2>1
  <2> QED BY <2>2, UnusedOrder
<1>15. ASSUME NEW o \in processed' PROVE AddsUp(o)'
  <2>0. o \in processed /\ o \in OrderIds /\ AddsUp(o)
    BY <1>1, InvariantParts DEF OrdersOK
  <2>1. Unspent(o) = IF metadata[o] # Nothing THEN metadata[o].unspent ELSE 0
    BY <1>1 DEF Unspent
  <2>2. Unspent(o)' = IF o \in Resting THEN metadata[o].unspent ELSE 0
    <3>1. o \in Resting => metadata[o] # Nothing BY RestingType
    <3> QED BY <1>1, <1>3, <2>0, <3>1 DEF Unspent, BeginScan
  <2>3. CASE metadata[o] = Nothing \/ o \in Resting
    <3>1. Unspent(o)' = Unspent(o)
      <4>1. o \in Resting => metadata[o] # Nothing BY RestingType
      <4> QED BY <2>1, <2>2, <2>3, <4>1
    <3> QED BY <1>6, <1>9, <2>0, <2>3, <3>1 DEF AddsUp
  <2>4. CASE ~(metadata[o] = Nothing \/ o \in Resting)
    <3> DEFINE u == metadata[o].unspent
    <3>1. ledger[o].returned = 0 /\ ledger[o].dropped = 0
      BY <2>0, <2>4, InvariantParts DEF MetadataOK
    <3>2. metadata[o] \in Metadata /\ ledger[o] \in Ledger
      BY <2>0, <2>4, InvariantParts DEF OrdersOK
    <3>3. u \in Nat /\ ledger[o].charged \in Nat /\ ledger[o].reserved \in Nat
      BY <3>2 DEF Metadata, Ledger
    <3>4. Unspent(o) = u /\ Unspent(o)' = 0 BY <2>1, <2>2, <2>4
    <3>5. EntryIs(ledger', o, ledger[o].reserved, ledger[o].charged,
                  ledger[o].returned, u)
      BY <1>9, <2>0, <2>4
    <3> HIDE DEF u
    <3>6. ledger[o].charged + u = ledger[o].reserved
      BY <2>0, <3>1, <3>3, <3>4 DEF AddsUp
    <3> QED BY <1>6, <2>4, <3>1, <3>3, <3>4, <3>5, <3>6 DEF AddsUp, EntryIs
  <2> QED BY <2>3, <2>4
<1>16. ReservationsAddUp'
  BY <1>15, ReservationsAreKept
<1> QED
  BY <1>2, <1>3, <1>4, <1>10, <1>11, <1>12, <1>13, <1>14, <1>16 DEF IInv, TypeOK

(***************************************************************************)
(* Trades, through the book and by deleveraging.                           *)
(***************************************************************************)

\* Positions of opposite signs are closed on opposite sides.
LEMMA OppositeSigns ==
  ASSUME NEW a \in Int, NEW b \in Int, a * b < 0
  PROVE  a # 0 /\ b # 0 /\ ClosingSide(b) = OppositeSide(ClosingSide(a))
<1>1. ~(a > 0 /\ b > 0)
  OBVIOUS
<1>2. ~(a < 0 /\ b < 0)
  OBVIOUS
<1>3. a # 0 /\ b # 0
  OBVIOUS
<1> QED BY <1>1, <1>2, <1>3 DEF ClosingSide, OppositeSide

\* A fill on the closing side of no more than the position reduces it.
LEMMA ReducingFill ==
  ASSUME NEW now \in Int, NEW before \in Int, now # 0, SameDirection(now, before),
         NEW lots \in Nat, lots <= Abs(now)
  PROVE  LET after == now + SignedFill(ClosingSide(before), lots)
         IN  /\ after \in Int
             /\ Abs(after) = Abs(now) - lots
             /\ after # 0 => SameDirection(after, before)
BY DEF SameDirection, SignedFill, ClosingSide, Abs

\* The trading order, whichever kind it is.
LEMMA TakerType ==
  ASSUME IInv, Trading
  PROVE  /\ taker \in PlacedOrder \cup LiquidationOrder
         /\ taker.user \in Users /\ taker.side \in Sides /\ taker.meta \in Metadata
         /\ taker.left \in Nat /\ taker.price \in Nat /\ taker.before \in Int
         /\ taker.reduceOnly \in BOOLEAN
         /\ taker.meta.side = taker.side /\ taker.meta.user = taker.user
<1>1. taker \in PlacedOrder \cup LiquidationOrder
  BY InvariantParts DEF ThreadOK, Trading
<1>2. /\ taker.user \in Users /\ taker.side \in Sides /\ taker.meta \in Metadata
      /\ taker.left \in Nat /\ taker.before \in Int /\ taker.reduceOnly \in BOOLEAN
  BY <1>1 DEF PlacedOrder, LiquidationOrder
<1>3. taker.price \in Nat
  BY <1>1, ConstantTypes DEF PlacedOrder, LiquidationOrder
<1>4. taker.meta.side = taker.side /\ taker.meta.user = taker.user
  BY InvariantParts DEF ReducingOK
<1> QED BY <1>1, <1>2, <1>3, <1>4

\* A trade of the taker on its side with a maker on the other.
LEMMA TradePreservesAccounts ==
  ASSUME IInv, Trading, mark' = mark,
         NEW makerUser \in Users, NEW makerMeta \in Metadata,
         makerMeta.side = OppositeSide(taker.side),
         NEW lots \in Nat, NEW price \in Nat,
         ApplyTrade(makerUser, makerMeta, lots, price)
  PROVE  /\ AccountsOK' /\ RiskIsCurrent' /\ FlatOK' /\ PositionsBalance'
         /\ positions'[taker.user].quantity
              = positions[taker.user].quantity
                  + (IF makerUser = taker.user THEN 0 ELSE SignedFill(taker.side, lots))
<1> DEFINE side == taker.side
           user == taker.user
<1>0. /\ user \in Users /\ taker.meta \in Metadata /\ side \in Sides
      /\ taker.meta.side = side
      /\ AccountsOK /\ RiskIsCurrent /\ FlatOK /\ PositionsBalance /\ mark \in Nat
  BY TakerType, InvariantParts DEF MarketOK
<1>1. /\ AccountsOK' /\ RiskIsCurrent' /\ FlatOK'
      /\ \A v \in Users :
           positions'[v].quantity
             = positions[v].quantity + Added(makerUser, v, makerMeta.side, lots)
                 + Added(taker.user, v, taker.meta.side, lots)
  BY <1>0, TradeOfAccounts
<1>2. \A v \in Users :
        positions'[v].quantity
          = positions[v].quantity + Added(makerUser, v, OppositeSide(side), lots)
              + Added(taker.user, v, side, lots)
  BY <1>0, <1>1
<1>3. PositionsBalance'
  <2> HIDE DEF side, user
  <2> QED BY <1>0, <1>1, <1>2, TradeBalances DEF user
<1>4. /\ SignedFill(side, lots) \in Int
      /\ SignedFill(OppositeSide(side), lots) = -SignedFill(side, lots)
  BY <1>0, OppositeFills
<1>5. positions[user].quantity \in Int
  BY <1>0 DEF AccountsOK, PositionRecord
<1>6. positions'[user].quantity
        = positions[user].quantity
            + (IF makerUser = user THEN 0 ELSE SignedFill(side, lots))
  BY <1>0, <1>2, <1>4, <1>5 DEF Added
<1> QED BY <1>1, <1>3, <1>6

\* A reduce-only order still reduces after a trade of no more than the position.
LEMMA TradeStillReduces ==
  ASSUME IInv, Trading, AccountsOK', pc' = pc,
         NEW lots \in Nat, lots <= Abs(positions[taker.user].quantity) \/ ~taker.reduceOnly,
         NEW makerUser \in Users,
         positions'[taker.user].quantity
           = positions[taker.user].quantity
               + (IF makerUser = taker.user THEN 0 ELSE SignedFill(taker.side, lots)),
         taker'.user = taker.user, taker'.side = taker.side,
         taker'.before = taker.before, taker'.reduceOnly = taker.reduceOnly,
         taker'.meta.side = taker.meta.side, taker'.meta.user = taker.meta.user,
         pc = "matching" => taker'.left = taker.left - lots /\ lots <= taker.left,
         taker.reduceOnly => positions[taker.user].quantity # 0
  PROVE  ReducingOK'
<1> DEFINE now == positions[taker.user].quantity
           next == positions'[taker.user].quantity
           before == taker.before
           left == taker.left
           side == taker.side
           fill == SignedFill(side, lots)
<1>0. /\ taker.meta.side = taker.side /\ taker.meta.user = taker.user
      /\ before \in Int /\ left \in Nat
  BY TakerType
<1>1. now \in Int
  BY TakerType, InvariantParts DEF AccountsOK, PositionRecord
<1>2. CASE ~taker.reduceOnly
  BY <1>0, <1>2 DEF ReducingOK
<1>3. CASE taker.reduceOnly
  <2>1. /\ before # 0 /\ side = ClosingSide(before) /\ Abs(now) <= Abs(before)
        /\ now # 0 /\ SameDirection(now, before) /\ lots <= Abs(now)
        /\ pc = "matching" => left <= Abs(now)
    BY <1>3, InvariantParts DEF ReducingOK
  <2>2. Abs(now) \in Nat /\ Abs(before) \in Nat
    BY <1>0, <1>1, AbsType
  <2>3. /\ now + fill \in Int
        /\ Abs(now + fill) = Abs(now) - lots
        /\ now + fill # 0 => SameDirection(now + fill, before)
    <3> HIDE DEF now, before
    <3> QED BY <1>0, <1>1, <2>1, ReducingFill
  <2>4. CASE makerUser = taker.user
    <3>1. next = now BY <1>1, <2>4
    <3>2. pc = "matching" => taker'.left <= Abs(next)
      <4>1. pc = "matching" => taker'.left = left - lots OBVIOUS
      <4> HIDE DEF left, next, now
      <4> QED BY <1>0, <2>1, <2>2, <3>1, <4>1
    <3>3. Abs(next) <= Abs(before) /\ (next # 0 => SameDirection(next, before))
      BY <2>1, <3>1
    <3>4. before # 0 /\ side = ClosingSide(before) BY <2>1
    <3>5. positions'[taker'.user].quantity = next OBVIOUS
    <3> HIDE DEF next, now, left, fill
    <3> QED BY <1>0, <3>2, <3>3, <3>4, <3>5 DEF ReducingOK
  <2>5. CASE makerUser # taker.user
    <3>1. next = now + fill BY <2>5
    <3>2. pc = "matching" => taker'.left <= Abs(next)
      <4>1. pc = "matching" => taker'.left = left - lots /\ lots <= left OBVIOUS
      <4> HIDE DEF left, next, now, fill
      <4> QED BY <1>0, <2>1, <2>2, <2>3, <3>1, <4>1
    <3>3. Abs(next) <= Abs(before) /\ (next # 0 => SameDirection(next, before))
      <4> HIDE DEF next, now, fill, before
      <4> QED BY <2>1, <2>2, <2>3, <3>1
    <3>4. before # 0 /\ side = ClosingSide(before) BY <2>1
    <3>5. positions'[taker'.user].quantity = next OBVIOUS
    <3> HIDE DEF next, now, left, fill
    <3> QED BY <1>0, <3>2, <3>3, <3>4, <3>5 DEF ReducingOK
  <2> QED BY <2>4, <2>5
<1> QED BY <1>2, <1>3

\* The account that is deleveraged, and the fill of its side.
Opponent == First(AdlKeys(taker.user))

AdlLots == LesserOf(AdlLeft, Abs(positions[Opponent].quantity))

AdlMetadata ==
  [user |-> Opponent, side |-> ClosingSide(positions[Opponent].quantity),
   original |-> AdlLots, remaining |-> AdlLots, reserved |-> 0, unspent |-> 0,
   leverage |-> positions[Opponent].leverage]

\* A deleveraging is a trade with another account, of no more than the position.
LEMMA DeleverageStep ==
  ASSUME IInv, Deleverage
  PROVE  /\ Trading /\ taker \in LiquidationOrder
         /\ Opponent \in Users /\ Opponent # taker.user
         /\ AdlLots \in Nat /\ AdlLots <= Abs(positions[taker.user].quantity)
         /\ positions[taker.user].quantity # 0
         /\ AdlMetadata \in Metadata /\ AdlMetadata.side = OppositeSide(taker.side)
         /\ ApplyTrade(Opponent, AdlMetadata, AdlLots, taker.price)
         /\ taker' = [taker EXCEPT !.meta = AfterFill(@, AdlLots, taker.price),
                                   !.traded = TRUE]
<1> DEFINE u == taker.user
           now == positions[u].quantity
           price == taker.price
<1>1. /\ pc = "deleveraging" /\ pc' = pc /\ CanDeleverage
      /\ UNCHANGED <<book, metadata, arrivals, mark, funding, settled, processed, scan,
                     restarts, ledger>>
  BY DEF Deleverage, orders, market
<1>2. PICK v, lots, meta :
        /\ v = Opponent /\ lots = AdlLots /\ meta = AdlMetadata
        /\ v = First(AdlKeys(u))
        /\ lots = LesserOf(AdlLeft, Abs(positions[v].quantity))
        /\ meta = [user |-> v, side |-> ClosingSide(positions[v].quantity),
                   original |-> lots, remaining |-> lots, reserved |-> 0,
                   unspent |-> 0, leverage |-> positions[v].leverage]
        /\ ApplyTrade(v, meta, lots, price)
        /\ taker' = [taker EXCEPT !.meta = AfterFill(@, lots, price), !.traded = TRUE]
  BY DEF Deleverage, Opponent, AdlLots, AdlMetadata
<1>3. Trading /\ taker \in LiquidationOrder
  BY <1>1, InvariantParts DEF Trading, ThreadOK
<1>4. /\ u \in Users /\ taker.side \in Sides /\ taker.meta \in Metadata
      /\ taker.meta.side = taker.side /\ taker.meta.user = u /\ price \in Nat
  BY <1>3, TakerType
<1>5. v \in AdlCandidates(u)
  BY <1>1, <1>2, <1>4, AdlCandidateIsChosen, InvariantParts DEF CanDeleverage
<1>6. v \in Users /\ v # u /\ now * positions[v].quantity < 0
  BY <1>5 DEF AdlCandidates
<1>7. /\ positions[v].quantity \in Int /\ positions[v].leverage \in Nat
      /\ now \in Int
  BY <1>4, <1>6, InvariantParts DEF AccountsOK, PositionRecord
<1>8. /\ now # 0 /\ positions[v].quantity # 0
      /\ ClosingSide(positions[v].quantity) = OppositeSide(ClosingSide(now))
  <2> DEFINE q == positions[v].quantity
  <2>1. now * q < 0 /\ q \in Int BY <1>6, <1>7
  <2> HIDE DEF q, now
  <2>2. now # 0 /\ q # 0 /\ ClosingSide(q) = OppositeSide(ClosingSide(now))
    BY <1>7, <2>1, OppositeSigns
  <2> QED BY <2>2 DEF q
<1>9. taker.side = ClosingSide(now)
  <2>1. taker.reduceOnly BY <1>3 DEF LiquidationOrder
  <2>2. taker.side = ClosingSide(taker.before) /\ SameDirection(now, taker.before)
    BY <1>3, <1>8, <2>1, InvariantParts DEF ReducingOK
  <2> QED BY <1>4, <1>7, <2>2, TakerType, <1>3 DEF SameDirection, ClosingSide
<1>10. lots \in Nat /\ lots <= Abs(now)
  <2>1. taker.meta.remaining \in Nat BY <1>4 DEF Metadata
  <2>2. Abs(now) \in Nat /\ Abs(positions[v].quantity) \in Nat BY <1>7, AbsType
  <2> QED BY <1>2, <2>1, <2>2 DEF AdlLeft, LesserOf
<1>11. meta \in Metadata /\ meta.side = OppositeSide(taker.side)
  <2>1. ClosingSide(positions[v].quantity) \in Sides BY <1>7, AbsType
  <2> QED BY <1>2, <1>6, <1>7, <1>8, <1>9, <1>10, <2>1 DEF Metadata
<1> QED BY <1>2, <1>3, <1>6, <1>8, <1>10, <1>11

\* One fill of auto-deleveraging: both accounts by the same lots, in opposite directions.
LEMMA DeleveragePreserves ==
  ASSUME IInv, Deleverage
  PROVE  IInv'
<1> DEFINE u == taker.user
           now == positions[u].quantity
           price == taker.price
<1>1. /\ pc = "deleveraging" /\ pc' = pc
      /\ UNCHANGED <<book, metadata, arrivals, mark, funding, settled, processed, scan,
                     restarts, ledger>>
  BY DEF Deleverage, orders, market
<1>2. PICK v, lots, meta :
        /\ v \in Users /\ v # u /\ lots \in Nat /\ lots <= Abs(now)
        /\ now # 0 /\ meta \in Metadata /\ meta.side = OppositeSide(taker.side)
        /\ ApplyTrade(v, meta, lots, price)
        /\ taker' = [taker EXCEPT !.meta = AfterFill(@, lots, price), !.traded = TRUE]
  BY DeleverageStep
<1>3. Trading /\ taker \in LiquidationOrder
  BY DeleverageStep
<1>4. /\ u \in Users /\ taker.side \in Sides /\ taker.meta \in Metadata
      /\ taker.meta.side = taker.side /\ taker.meta.user = u /\ price \in Nat
  BY <1>3, TakerType
<1>5. /\ AccountsOK' /\ RiskIsCurrent' /\ FlatOK' /\ PositionsBalance'
       /\ positions'[u].quantity
            = now + (IF v = u THEN 0 ELSE SignedFill(taker.side, lots))
  BY <1>1, <1>2, <1>3, <1>4, TradePreservesAccounts
<1>6. /\ taker' \in LiquidationOrder
       /\ taker'.user = u /\ taker'.side = taker.side /\ taker'.before = taker.before
       /\ taker'.reduceOnly = taker.reduceOnly /\ taker'.kind = "liquidation"
       /\ taker'.meta.side = taker.meta.side /\ taker'.meta.user = taker.meta.user
  <2> DEFINE after == AfterFill(taker.meta, lots, price)
  <2>1. after \in Metadata /\ after.side = taker.meta.side /\ after.user = taker.meta.user
    <3> DEFINE old == taker.meta
    <3>1. old \in Metadata BY <1>4
    <3> HIDE DEF old
    <3>2. /\ AfterFill(old, lots, price) \in Metadata
          /\ AfterFill(old, lots, price).side = old.side
          /\ AfterFill(old, lots, price).user = old.user
      BY <1>4, <1>2, <3>1, Allocation
    <3> QED BY <3>2 DEF old
  <2>2. taker' = [taker EXCEPT !.meta = after, !.traded = TRUE]
    BY <1>2
  <2> HIDE DEF after
  <2> QED BY <1>3, <2>1, <2>2 DEF LiquidationOrder
<1>7. ThreadOK'
  BY <1>1, <1>6, InvariantParts DEF ThreadOK
<1>8. ReducingOK'
  <2>1. positions'[taker.user].quantity
          = positions[taker.user].quantity
              + (IF v = taker.user THEN 0 ELSE SignedFill(taker.side, lots))
    BY <1>5
  <2> QED BY <1>1, <1>3, <1>2, <1>5, <1>6, <2>1, TradeStillReduces
<1>9. ~Placing /\ ~Placing'
  BY <1>1 DEF Placing
<1>10. /\ OrdersOK' /\ QueueOK' /\ MetadataOK' /\ UnusedOK' /\ MetadataMatchesBook'
       /\ ReservationsAddUp'
  BY <1>1, <1>9, OrdersStay
<1>11. MarketOK' /\ PlacingOK'
  BY <1>1, <1>9, InvariantParts DEF MarketOK, PlacingOK
<1> QED BY <1>5, <1>7, <1>8, <1>10, <1>11 DEF IInv, TypeOK

\* The metadata and ledger entry of one order through a fill: what it is
\* charged is what its unspent margin loses.
LEMMA FillKeepsReservation ==
  ASSUME NEW led \in [OrderIds -> Ledger], NEW o \in OrderIds,
         NEW meta \in Metadata, MarginOK(meta), NEW lots \in Nat, NEW price \in Nat,
         led[o].returned = 0, led[o].dropped = 0,
         led[o].charged + meta.unspent = led[o].reserved
  PROVE  LET new == Charge(led, o, meta, lots, price)
             after == AfterFill(meta, lots, price)
         IN  /\ OthersStay(led, new, o)
             /\ new[o].returned = 0 /\ new[o].dropped = 0
             /\ new[o].charged + after.unspent = new[o].reserved
<1> DEFINE new == Charge(led, o, meta, lots, price)
           after == AfterFill(meta, lots, price)
           a == AllocatedMargin(meta, lots, price)
<1>1. /\ OthersStay(led, new, o)
      /\ EntryIs(new, o, led[o].reserved,
           IF meta.reserved > 0 THEN led[o].charged + a ELSE led[o].charged,
           led[o].returned, led[o].dropped)
  BY ChargeUpdates
<1>2. /\ a \in Nat /\ after \in Metadata
      /\ meta.reserved = 0 => after.unspent = meta.unspent
      /\ meta.reserved > 0 => after.unspent = meta.unspent - a
  BY Allocation
<1>3. /\ meta.reserved \in Nat /\ meta.unspent \in Nat /\ led[o].charged \in Nat
      /\ led[o].reserved \in Nat
  BY DEF Metadata, Ledger
<1> HIDE DEF new, after, a
<1>4. new[o].returned = 0 /\ new[o].dropped = 0
  BY <1>1 DEF EntryIs
<1>5. new[o].charged + after.unspent = new[o].reserved
  <2>1. CASE meta.reserved > 0
    <3>1. new[o].charged = led[o].charged + a /\ new[o].reserved = led[o].reserved
      BY <1>1, <2>1 DEF EntryIs
    <3>2. after.unspent = meta.unspent - a BY <1>2, <2>1
    <3> QED BY <1>2, <1>3, <3>1, <3>2
  <2>2. CASE ~(meta.reserved > 0)
    <3>1. new[o].charged = led[o].charged /\ new[o].reserved = led[o].reserved
      BY <1>1, <2>2 DEF EntryIs
    <3>2. after.unspent = meta.unspent BY <1>2, <1>3, <2>2
    <3> QED BY <1>3, <3>1, <3>2
  <2> QED BY <2>1, <2>2
<1> QED BY <1>1, <1>4, <1>5 DEF new, after

\* The best crossing order, and what is traded with it.
Maker == BestOrder(CrossingOrders(taker.side, taker.price))

TradeLots == LesserOf(taker.left, book[Maker].remaining)

TradeWith(o, lots) ==
  LET price == book[o].price
      gone  == lots = book[o].remaining
      made  == Charge(ledger, o, metadata[o], lots, price)
  IN  /\ ApplyTrade(book[o].user, metadata[o], lots, price)
      /\ book' = [book EXCEPT ![o] = IF gone THEN Nothing ELSE Reduced(@, lots)]
      /\ metadata' = [metadata EXCEPT ![o] =
           IF gone THEN Nothing ELSE AfterFill(@, lots, price)]
      /\ taker' = [taker EXCEPT !.left = @ - lots, !.traded = TRUE,
                                !.meta = AfterFill(@, lots, price)]
      /\ ledger' = IF taker.kind = "place"
                   THEN Charge(made, taker.orderId, taker.meta, lots, price)
                   ELSE made

\* A trade is with an order that rests on the other side, of no more than is
\* left of either.
LEMMA TradeStep ==
  ASSUME IInv, Trade
  PROVE  /\ pc = "matching" /\ Trading
         /\ Maker \in Resting /\ TradeLots \in Nat
         /\ TradeLots > 0 /\ TradeLots <= taker.left
         /\ TradeLots <= book[Maker].remaining
         /\ metadata[Maker].side = OppositeSide(taker.side)
         /\ TradeWith(Maker, TradeLots)
<1>1. pc = "matching" /\ CanTrade
  BY DEF Trade
<1>2. TradeWith(Maker, TradeLots)
  BY DEF Trade, TradeWith, Maker, TradeLots
<1>3. Trading
  BY <1>1 DEF Trading
<1>4. taker.left \in Nat /\ taker.left > 0 /\ taker.side \in Sides
  BY <1>1, <1>3, TakerType DEF CanTrade
<1>5. Maker \in Resting /\ book[Maker].side = OppositeSide(taker.side)
  <2>1. Maker \in CrossingOrders(taker.side, taker.price)
    BY <1>1, <1>4, BestOrderCrosses, InvariantParts DEF CanTrade, Maker
  <2> QED BY <2>1 DEF CrossingOrders, Crosses
<1> DEFINE remaining == book[Maker].remaining
           left == taker.left
<1>6. remaining \in Nat /\ remaining > 0
      /\ metadata[Maker].side = OppositeSide(taker.side)
  <2>1. book[Maker] \in RestingOrder BY <1>5, RestingType
  <2> QED BY <1>5, <2>1, RestingType DEF RestingOrder
<1>7. /\ TradeLots \in Nat /\ TradeLots > 0 /\ TradeLots <= left
      /\ TradeLots <= remaining
  <2>1. TradeLots = LesserOf(left, remaining) BY DEF TradeLots
  <2>2. left \in Nat /\ left > 0 BY <1>4
  <2> HIDE DEF left, remaining
  <2> QED BY <1>6, <2>1, <2>2 DEF LesserOf
<1> QED BY <1>1, <1>2, <1>3, <1>5, <1>6, <1>7

\* A trade preserves the invariant.
LEMMA TradePreserves ==
  ASSUME IInv, Trade
  PROVE  IInv'
<1> DEFINE u == taker.user
           side == taker.side
           meta == taker.meta
           left == taker.left
           id == taker.orderId
           placed == taker.kind = "place"
<1>1. /\ pc = "matching" /\ pc' = pc
      /\ UNCHANGED <<arrivals, mark, funding, settled, processed, scan, restarts>>
  BY DEF Trade, market
<1>2. PICK o \in Resting, lots \in Nat :
        /\ lots > 0 /\ lots <= left /\ lots <= book[o].remaining
        /\ metadata[o].side = OppositeSide(side)
        /\ TradeWith(o, lots)
  BY TradeStep
<1> DEFINE price == book[o].price
           gone == lots = book[o].remaining
           maker == metadata[o]
           made == Charge(ledger, o, maker, lots, price)
           makerUser == book[o].user
<1>a. /\ ApplyTrade(makerUser, maker, lots, price)
      /\ book' = [book EXCEPT ![o] = IF gone THEN Nothing ELSE Reduced(@, lots)]
      /\ metadata' = [metadata EXCEPT ![o] =
           IF gone THEN Nothing ELSE AfterFill(@, lots, price)]
      /\ taker' = [taker EXCEPT !.left = @ - lots, !.traded = TRUE,
                                !.meta = AfterFill(@, lots, price)]
      /\ ledger' = IF placed THEN Charge(made, id, meta, lots, price) ELSE made
  BY <1>2 DEF TradeWith
<1>b. made = Charge(ledger, o, maker, lots, price) /\ maker = metadata[o]
  OBVIOUS
<1>3. Trading
  BY <1>1 DEF Trading
<1>4. /\ u \in Users /\ side \in Sides /\ meta \in Metadata /\ meta.side = side
      /\ meta.user = u /\ left \in Nat /\ left > 0
      /\ taker \in PlacedOrder \cup LiquidationOrder
  BY <1>2, <1>3, TakerType
<1>5. o \in Resting
  BY <1>2
<1>6. /\ o \in OrderIds /\ o \in processed
      /\ book[o] \in RestingOrder /\ maker \in Metadata /\ maker # Nothing
      /\ metadata[o] = maker
      /\ MarginOK(maker) /\ maker.user = book[o].user
      /\ maker.side = OppositeSide(side) /\ maker.remaining = book[o].remaining
      /\ book[o].user \in Users /\ price \in Nat
      /\ book[o].remaining \in Nat /\ book[o].remaining > 0
  <2>1. book[o] \in RestingOrder BY <1>5, RestingType
  <2>2. /\ book[o].user \in Users /\ book[o].price \in BookPrices
        /\ book[o].remaining \in Nat /\ book[o].remaining > 0
    BY <2>1 DEF RestingOrder
  <2> QED BY <1>2, <2>1, <2>2, RestingType, ConstantTypes
<1>7. /\ lots \in Nat /\ lots > 0 /\ lots <= left /\ lots <= maker.remaining
      /\ gone <=> lots = maker.remaining
  BY <1>2, <1>6
<1> HIDE DEF gone, maker, made, price
<1> DEFINE makerAfter == AfterFill(maker, lots, price)
           takerAfter == AfterFill(meta, lots, price)
<1>8. /\ makerAfter \in Metadata /\ makerAfter.user = maker.user
      /\ makerAfter.side = maker.side /\ MarginOK(makerAfter)
      /\ makerAfter.remaining = maker.remaining - lots
  BY <1>6, <1>7, Allocation
<1>9. /\ takerAfter \in Metadata /\ takerAfter.user = meta.user
      /\ takerAfter.side = meta.side
      /\ MarginOK(meta) => MarginOK(takerAfter)
      /\ lots <= meta.remaining => takerAfter.remaining = meta.remaining - lots
  <2> HIDE DEF meta
  <2>1. meta \in Metadata /\ price \in Nat BY <1>4, <1>6
  <2> QED BY <2>1, Allocation
<1>10. /\ AccountsOK' /\ RiskIsCurrent' /\ FlatOK' /\ PositionsBalance'
       /\ positions'[taker.user].quantity
            = positions[taker.user].quantity
                + (IF book[o].user = taker.user THEN 0 ELSE SignedFill(taker.side, lots))
  <2> DEFINE user == book[o].user
  <2>1. /\ user \in Users /\ maker.side = OppositeSide(taker.side)
        /\ ApplyTrade(user, maker, lots, price)
    BY <1>a, <1>6
  <2> HIDE DEF user
  <2>2. /\ AccountsOK' /\ RiskIsCurrent' /\ FlatOK' /\ PositionsBalance'
        /\ positions'[taker.user].quantity
             = positions[taker.user].quantity
                 + (IF user = taker.user THEN 0 ELSE SignedFill(taker.side, lots))
    BY <1>1, <1>3, <1>6, <1>7, <2>1, TradePreservesAccounts
  <2> QED BY <2>2 DEF user
<1>11. /\ taker' = [taker EXCEPT !.left = left - lots, !.traded = TRUE,
                                 !.meta = takerAfter]
       /\ left - lots \in Nat
  <2>1. left - lots \in Nat BY <1>4, <1>7
  <2> QED BY <1>a, <2>1
<1> HIDE DEF makerAfter, takerAfter
<1>12. /\ taker' \in PlacedOrder \cup LiquidationOrder
       /\ taker'.user = u /\ taker'.side = side /\ taker'.before = taker.before
       /\ taker'.reduceOnly = taker.reduceOnly /\ taker'.kind = taker.kind
       /\ taker'.left = left - lots /\ taker'.meta = takerAfter
       /\ placed => taker'.orderId = id
  <2> HIDE DEF left, id, meta
  <2>1. CASE taker \in PlacedOrder
    <3>1. taker' \in PlacedOrder BY <1>9, <1>11, <2>1 DEF PlacedOrder
    <3> QED BY <1>11, <2>1, <3>1 DEF PlacedOrder, id
  <2>2. CASE taker \in LiquidationOrder
    <3>1. taker' \in LiquidationOrder BY <1>9, <1>11, <2>2 DEF LiquidationOrder
    <3> QED BY <1>11, <2>2, <3>1 DEF LiquidationOrder
  <2> QED BY <1>4, <2>1, <2>2
<1>13. ThreadOK'
  BY <1>1, <1>12, InvariantParts DEF ThreadOK
<1>14. ReducingOK'
  <2>1. taker.reduceOnly =>
          /\ left <= Abs(positions[taker.user].quantity)
          /\ positions[taker.user].quantity # 0
    <3> DEFINE now == positions[taker.user].quantity
    <3>1. taker.reduceOnly => left <= Abs(now)
      BY <1>1, <1>3, InvariantParts DEF ReducingOK
    <3>2. now \in Int BY <1>4, InvariantParts DEF AccountsOK, PositionRecord
    <3>3. Abs(now) \in Nat /\ (Abs(now) = 0 <=> now = 0) BY <3>2, AbsType
    <3> HIDE DEF now
    <3>4. taker.reduceOnly => left <= Abs(now) /\ now # 0
      <4> HIDE DEF left
      <4> QED BY <1>4, <3>1, <3>3
    <3> QED BY <3>4 DEF now
  <2>2. lots <= Abs(positions[taker.user].quantity) \/ ~taker.reduceOnly
    <3>1. Abs(positions[taker.user].quantity) \in Nat
      BY <1>4, AbsType, InvariantParts DEF AccountsOK, PositionRecord
    <3> QED BY <1>4, <1>7, <2>1, <3>1
  <2>3. /\ taker'.user = taker.user /\ taker'.side = taker.side
        /\ taker'.before = taker.before /\ taker'.reduceOnly = taker.reduceOnly
        /\ taker'.meta.side = taker.meta.side /\ taker'.meta.user = taker.meta.user
        /\ taker'.left = taker.left - lots /\ lots <= taker.left
    BY <1>7, <1>9, <1>12
  <2> DEFINE user == book[o].user
  <2>4. user \in Users
        /\ positions'[taker.user].quantity
             = positions[taker.user].quantity
                 + (IF user = taker.user THEN 0 ELSE SignedFill(taker.side, lots))
    BY <1>6, <1>10
  <2> HIDE DEF user
  <2> QED BY <1>1, <1>3, <1>7, <1>10, <2>1, <2>2, <2>3, <2>4, TradeStillReduces
<1>15. IsFiniteSet(OrderIds) /\ Nothing \notin Metadata /\ Nothing \notin RestingOrder
  BY ConstantTypes, NothingAssumption
<1>16. /\ book' \in [OrderIds -> RestingOrder \cup {Nothing}]
       /\ \A p \in OrderIds \ {o} : book'[p] = book[p]
       /\ gone => book'[o] = Nothing
       /\ ~gone => /\ book'[o] \in RestingOrder /\ book'[o] # Nothing
                   /\ book'[o].user = book[o].user /\ book'[o].side = book[o].side
                   /\ book'[o].remaining = book[o].remaining - lots
                   /\ book'[o].queued = book[o].queued
  <2> DEFINE b == book[o]
             new == Reduced(b, lots)
  <2>1. book \in [OrderIds -> RestingOrder \cup {Nothing}]
    BY InvariantParts DEF OrdersOK
  <2>2. book' = [book EXCEPT ![o] = IF gone THEN Nothing ELSE new]
    BY <1>a
  <2>3. b \in RestingOrder /\ b.remaining \in Nat /\ lots <= b.remaining
        /\ (gone <=> lots = b.remaining)
    BY <1>6, <1>7
  <2>4. ~gone => b.remaining - lots \in Nat \ {0}
    <3> HIDE DEF b
    <3> QED BY <1>7, <2>3
  <2> HIDE DEF b
  <2>5. ~gone => /\ new \in RestingOrder /\ new.user = b.user /\ new.side = b.side
                 /\ new.remaining = b.remaining - lots /\ new.queued = b.queued
    BY <2>3, <2>4 DEF RestingOrder, Reduced
  <2> HIDE DEF new
  <2>6. book'[o] = IF gone THEN Nothing ELSE new
    BY <1>6, <2>1, <2>2
  <2>7. \A p \in OrderIds \ {o} : book'[p] = book[p]
    BY <2>1, <2>2
  <2>8. book' \in [OrderIds -> RestingOrder \cup {Nothing}]
    BY <2>1, <2>2, <2>5
  <2>9. ~gone => new # Nothing
    BY <1>15, <2>5
  <2> QED BY <2>5, <2>6, <2>7, <2>8, <2>9 DEF b
<1>17. /\ metadata' \in [OrderIds -> Metadata \cup {Nothing}]
       /\ \A p \in OrderIds \ {o} : metadata'[p] = metadata[p]
       /\ metadata'[o] = IF gone THEN Nothing ELSE makerAfter
  <2>1. metadata \in [OrderIds -> Metadata \cup {Nothing}]
    BY InvariantParts DEF OrdersOK
  <2>2. metadata' = [metadata EXCEPT ![o] = IF gone THEN Nothing ELSE makerAfter]
    BY <1>a, <1>b DEF makerAfter
  <2> QED BY <1>6, <1>8, <2>1, <2>2
<1>18. Resting' = IF gone THEN Resting \ {o} ELSE Resting
  BY <1>5, <1>16 DEF Resting
<1>19. QueueOK'
  <2>1. \A p \in OrderIds : p < arrivals' BY <1>1, InvariantParts DEF QueueOK
  <2>2. ASSUME NEW p \in Resting'
        PROVE  p \in Resting /\ book'[p].queued = book[p].queued
    <3>1. p \in Resting BY <1>5, <1>18
    <3>2. p \in OrderIds BY <3>1 DEF Resting
    <3>3. p = o => ~gone BY <1>18
    <3> QED BY <1>16, <3>1, <3>2, <3>3
  <2> QED BY <1>1, <2>1, <2>2, InvariantParts DEF QueueOK
<1>20. MetadataMatchesBook'
  <2> SUFFICES ASSUME NEW p \in Resting'
               PROVE  /\ metadata'[p] # Nothing
                      /\ metadata'[p].user = book'[p].user
                      /\ metadata'[p].side = book'[p].side
                      /\ metadata'[p].remaining = book'[p].remaining
    BY DEF MetadataMatchesBook
  <2>1. p \in Resting BY <1>5, <1>18
  <2>2. CASE p = o
    <3>1. ~gone /\ metadata'[o] = makerAfter BY <1>17, <1>18, <2>2
    <3>2. /\ book'[o].user = book[o].user /\ book'[o].side = book[o].side
          /\ book'[o].remaining = book[o].remaining - lots
      BY <1>16, <3>1
    <3>3. book[o].side = maker.side BY <1>5, <1>6, RestingType
    <3> QED BY <1>6, <1>8, <1>15, <2>2, <3>1, <3>2, <3>3
  <2>3. CASE p # o
    <3>1. p \in OrderIds BY <2>1 DEF Resting
    <3> QED BY <1>16, <1>17, <2>1, <2>3, <3>1, RestingType
  <2> QED BY <2>2, <2>3
<1>21. /\ ledger \in [OrderIds -> Ledger]
       /\ ledger[o].returned = 0 /\ ledger[o].dropped = 0
       /\ ledger[o].charged + maker.unspent = ledger[o].reserved
  <2>1. ledger \in [OrderIds -> Ledger] BY InvariantParts DEF OrdersOK
  <2>2. ledger[o].returned = 0 /\ ledger[o].dropped = 0
    BY <1>6, InvariantParts DEF MetadataOK
  <2>3. AddsUp(o) /\ Unspent(o) = maker.unspent
    BY <1>6, InvariantParts DEF Unspent
  <2>4. ledger[o].charged \in Nat /\ maker.unspent \in Nat
    BY <1>6, <2>1 DEF Ledger, Metadata
  <2>5. ledger[o].charged + maker.unspent = ledger[o].reserved
    <3>1. ledger[o].charged + maker.unspent + ledger[o].returned + ledger[o].dropped
            = ledger[o].reserved
      BY <2>3 DEF AddsUp
    <3> QED BY <2>2, <2>4, <3>1
  <2> QED BY <2>1, <2>2, <2>5
<1>22. /\ OthersStay(ledger, made, o)
       /\ made[o].returned = 0 /\ made[o].dropped = 0
       /\ made[o].charged + makerAfter.unspent = made[o].reserved
  BY <1>b, <1>6, <1>7, <1>21, FillKeepsReservation DEF makerAfter
<1>23. placed => /\ id \in OrderIds /\ id # o /\ id \in processed
                 /\ metadata[id] = Nothing /\ MarginOK(meta) /\ meta.unspent \in Nat
                 /\ ledger[id].returned = 0 /\ ledger[id].dropped = 0
                 /\ ledger[id].charged + meta.unspent = ledger[id].reserved
                 /\ (~taker.reduceOnly => left = meta.remaining)
  <2> SUFFICES ASSUME placed
               PROVE  /\ id \in OrderIds /\ id # o /\ id \in processed
                      /\ metadata[id] = Nothing /\ MarginOK(meta) /\ meta.unspent \in Nat
                      /\ ledger[id].returned = 0 /\ ledger[id].dropped = 0
                      /\ ledger[id].charged + meta.unspent = ledger[id].reserved
                      /\ (~taker.reduceOnly => left = meta.remaining)
    OBVIOUS
  <2>1. /\ id \in OrderIds /\ id # o /\ id \in processed
        /\ metadata[id] = Nothing /\ MarginOK(meta) /\ meta.unspent \in Nat
        /\ ledger[id].returned = 0 /\ ledger[id].dropped = 0
        /\ (~taker.reduceOnly => left = meta.remaining)
    BY <1>1, <1>5, PlacedOrderType DEF Placing
  <2>2. AddsUp(id) BY <2>1, InvariantParts
  <2>3. Unspent(id) = meta.unspent BY <1>1, <2>1 DEF Unspent
  <2>4. ledger[id].charged \in Nat BY <1>21, <2>1 DEF Ledger
  <2>5. ledger[id].charged + meta.unspent + ledger[id].returned + ledger[id].dropped
          = ledger[id].reserved
    BY <2>2, <2>3 DEF AddsUp
  <2> QED BY <2>1, <2>4, <2>5
<1>24. /\ ledger' \in [OrderIds -> Ledger]
       /\ \A p \in OrderIds : p # o /\ ~(placed /\ p = id) => ledger'[p] = ledger[p]
       /\ ledger'[o].returned = 0 /\ ledger'[o].dropped = 0
       /\ ledger'[o].charged + makerAfter.unspent = ledger'[o].reserved
       /\ placed => /\ ledger'[id].returned = 0 /\ ledger'[id].dropped = 0
                    /\ ledger'[id].charged + takerAfter.unspent = ledger'[id].reserved
  <2>1. CASE placed
    <3>1. ledger' = Charge(made, id, meta, lots, price) BY <1>a, <2>1
    <3>2. made \in [OrderIds -> Ledger] /\ made[id] = ledger[id]
      BY <1>22, <1>23, <2>1 DEF OthersStay
    <3>3. /\ OthersStay(made, ledger', id)
          /\ ledger'[id].returned = 0 /\ ledger'[id].dropped = 0
          /\ ledger'[id].charged + takerAfter.unspent = ledger'[id].reserved
      <4> HIDE DEF id, meta
      <4> QED BY <1>4, <1>6, <1>7, <1>23, <2>1, <3>1, <3>2, FillKeepsReservation
              DEF takerAfter
    <3> HIDE DEF id
    <3>4. ledger'[o] = made[o] BY <1>6, <1>23, <2>1, <3>3 DEF OthersStay
    <3> QED BY <1>22, <2>1, <3>3, <3>4 DEF OthersStay
  <2>2. CASE ~placed
    BY <1>a, <1>22, <2>2 DEF OthersStay
  <2> QED BY <2>1, <2>2
<1> HIDE DEF id, meta, left, u, side
<1>25. OrdersOK'
  BY <1>1, <1>16, <1>17, <1>24, InvariantParts DEF OrdersOK
<1>26. MetadataOK'
  <2> SUFFICES ASSUME NEW p \in OrderIds, metadata'[p] # Nothing
               PROVE  /\ p \in processed /\ MarginOK(metadata'[p])
                      /\ ledger'[p].returned = 0 /\ ledger'[p].dropped = 0
    BY <1>1 DEF MetadataOK
  <2>1. CASE p = o
    <3>1. metadata'[p] = makerAfter BY <1>17, <2>1
    <3> QED BY <1>6, <1>8, <1>24, <2>1, <3>1
  <2>2. CASE p # o
    <3>1. metadata'[p] = metadata[p] BY <1>17, <2>2
    <3>2. ~(placed /\ p = id) BY <1>23, <3>1
    <3>3. ledger'[p] = ledger[p] BY <1>24, <2>2, <3>2
    <3> QED BY <3>1, <3>3, InvariantParts DEF MetadataOK
  <2> QED BY <2>1, <2>2
<1>27. UnusedOK'
  <2> SUFFICES ASSUME NEW p \in OrderIds \ processed
               PROVE  ledger'[p] = [reserved |-> 0, charged |-> 0, returned |-> 0,
                                    dropped |-> 0]
    BY <1>1 DEF UnusedOK
  <2>1. p # o /\ ~(placed /\ p = id) BY <1>6, <1>23
  <2>2. ledger'[p] = ledger[p] BY <1>24, <2>1
  <2> QED BY <2>2, UnusedOrder
<1>28. PlacingOK'
  <2> SUFFICES ASSUME placed
               PROVE  /\ id \in processed'
                      /\ metadata'[id] = Nothing
                      /\ MarginOK(taker'.meta)
                      /\ ledger'[id].returned = 0
                      /\ ledger'[id].dropped = 0
                      /\ ~taker'.reduceOnly => taker'.left = taker'.meta.remaining
    BY <1>12 DEF PlacingOK, Placing
  <2>1. metadata'[id] = Nothing BY <1>17, <1>23
  <2>2. MarginOK(taker'.meta) BY <1>9, <1>12, <1>23
  <2>3. ~taker'.reduceOnly => taker'.left = taker'.meta.remaining
    <3>1. ~taker.reduceOnly => left = meta.remaining BY <1>23
    <3> QED BY <1>7, <1>9, <1>12, <3>1
  <2> QED BY <1>1, <1>23, <1>24, <2>1, <2>2, <2>3
<1>29. ASSUME NEW p \in processed' PROVE AddsUp(p)'
  <2>0. p \in processed /\ p \in OrderIds /\ AddsUp(p)
    BY <1>1, InvariantParts DEF OrdersOK
  <2>1. CASE p = o
    <3>1. Unspent(p)' = makerAfter.unspent
      <4>1. CASE gone
        <5>1. makerAfter.remaining = 0 BY <1>6, <1>7, <1>8, <4>1
        <5>2. makerAfter.unspent = 0 BY <1>8, <5>1 DEF MarginOK
        <5>3. ~(taker'.kind = "place" /\ taker'.orderId = p)
          BY <1>12, <1>23, <2>1
        <5> QED BY <1>17, <2>1, <4>1, <5>2, <5>3 DEF Unspent
      <4>2. CASE ~gone
        <5>1. metadata'[p] = makerAfter BY <1>17, <2>1, <4>2
        <5> QED BY <1>8, <1>15, <5>1 DEF Unspent
      <4> QED BY <4>1, <4>2
    <3>2. makerAfter.unspent \in Nat BY <1>8 DEF Metadata
    <3>3. ledger'[p] \in Ledger BY <1>24, <2>0
    <3>4. ledger'[p].charged \in Nat BY <3>3 DEF Ledger
    <3> QED BY <1>24, <2>1, <3>1, <3>2, <3>4 DEF AddsUp
  <2>2. CASE placed /\ p = id
    <3>1. metadata'[p] = Nothing BY <1>17, <1>23, <2>2
    <3>2. Unspent(p)' = takerAfter.unspent
      BY <1>1, <1>12, <2>2, <3>1 DEF Unspent
    <3>3. takerAfter.unspent \in Nat BY <1>9 DEF Metadata
    <3>4. ledger'[p] \in Ledger BY <1>24, <2>0
    <3>5. ledger'[p].charged \in Nat BY <3>4 DEF Ledger
    <3> QED BY <1>24, <2>2, <3>2, <3>3, <3>5 DEF AddsUp
  <2>3. CASE p # o /\ ~(placed /\ p = id)
    <3>1. ledger'[p] = ledger[p] /\ metadata'[p] = metadata[p]
      BY <1>17, <1>24, <2>0, <2>3
    <3>2. Unspent(p)' = Unspent(p)
      <4>1. ~(taker'.kind = "place" /\ taker'.orderId = p)
        BY <1>12, <2>3
      <4>2. ~(taker.kind = "place" /\ taker.orderId = p)
        BY <2>3 DEF id
      <4> QED BY <3>1, <4>1, <4>2 DEF Unspent
    <3>3. p \in Resting' => p \in Resting BY <1>18
    <3> QED BY <2>0, <3>1, <3>2, <3>3 DEF AddsUp
  <2> QED BY <2>1, <2>2, <2>3
<1>30. ReservationsAddUp'
  BY <1>29, ReservationsAreKept
<1>31. MarketOK'
  BY <1>1, InvariantParts DEF MarketOK
<1> QED
  BY <1>10, <1>13, <1>14, <1>19, <1>20, <1>25, <1>26, <1>27, <1>28, <1>30, <1>31
     DEF IInv, TypeOK

(***************************************************************************)
(* Theorems.                                                               *)
(***************************************************************************)

\* Every step preserves the invariant.
LEMMA NextPreserves == IInv /\ [Next]_vars => IInv'
<1> SUFFICES ASSUME IInv, [Next]_vars PROVE IInv'
  OBVIOUS
<1>1. ASSUME NEW c \in PlaceInputs, RejectPlace(c) PROVE IInv'
  BY <1>1, RejectPlacePreserves
<1>2. ASSUME NEW c \in PlaceInputs, AcceptPlace(c) PROVE IInv'
  BY <1>2, AcceptPlacePreserves
<1>3. ASSUME NEW o \in OrderIds, CancelOrder(o) PROVE IInv'
  BY <1>3, CancelOrderPreserves
<1>4. ASSUME NEW l \in LiquidateInputs, LiquidatePosition(l) PROVE IInv'
  BY <1>4, LiquidatePositionPreserves
<1>5. ASSUME NEW p \in MarkPrices, UpdateMark(p) PROVE IInv'
  BY <1>5, UpdateMarkPreserves
<1>6. ASSUME NEW f \in FundingRates, UpdateFunding(f) PROVE IInv'
  BY <1>6, UpdateFundingPreserves
<1>7. CASE SettleFunding
  BY <1>7, SettleFundingPreserves
<1>8. CASE Restart
  BY <1>8, RestartPreserves
<1>9. CASE Trade
  BY <1>9, TradePreserves
<1>10. CASE FinishPlace
  BY <1>10, FinishPlacePreserves
<1>11. CASE FinishReduceOnly
  BY <1>11, FinishReduceOnlyPreserves
<1>12. CASE FinishBook
  BY <1>12, FinishBookPreserves
<1>13. CASE Deleverage
  BY <1>13, DeleveragePreserves
<1>14. CASE FinishLiquidation
  BY <1>14, FinishLiquidationPreserves
<1>15. CASE AttemptLiquidation
  BY <1>15, AttemptLiquidationPreserves
<1>16. CASE EndScan
  BY <1>16, EndScanPreserves
<1>17. CASE UNCHANGED vars
  <2>1. /\ UNCHANGED <<book, metadata, arrivals, positions, risks, mark, funding, settled>>
        /\ UNCHANGED <<processed, pc, taker, scan, restarts, ledger>>
    BY <1>17 DEF vars, orders, accounts, market
  <2>2. AccountsOK' /\ PositionsBalance' /\ RiskIsCurrent' /\ FlatOK'
    BY <2>1, AccountsStay
  <2>3. OrdersOK' /\ QueueOK' /\ MetadataOK' /\ UnusedOK' /\ MetadataMatchesBook'
    BY <2>1, OrdersStay
  <2>4. MarketOK' /\ ThreadOK' /\ PlacingOK' /\ ReducingOK'
    BY <2>1, InvariantParts
       DEF MarketOK, ThreadOK, PlacingOK, Placing, ReducingOK, Trading
  <2>5. ReservationsAddUp'
    <3>1. \A o \in processed : AddsUp(o)' <=> AddsUp(o)
      BY <2>1 DEF AddsUp, Unspent, Resting
    <3> QED BY <2>1, <3>1, InvariantParts, ReservationsAreKept
  <2> QED BY <2>2, <2>3, <2>4, <2>5 DEF IInv, TypeOK
<1> QED
  BY <1>1, <1>2, <1>3, <1>4, <1>5, <1>6, <1>7, <1>8, <1>9, <1>10, <1>11, <1>12, <1>13,
     <1>14, <1>15, <1>16, <1>17 DEF Next, Input, Loop

\* Every state of the accounts satisfies the inductive invariant.
THEOREM AccountsInvariant == Spec => []IInv
<1>1. Init => IInv
  BY InitEstablishes
<1>2. IInv /\ [Next]_vars => IInv'
  BY NextPreserves
<1> QED BY <1>1, <1>2, PTL DEF Spec

\* The runtime's maps, orders, funding and thread stay well typed: in
\* particular a margin, an unspent reservation and a resting quantity are never
\* negative, whatever the fills, prices and leverages are.
THEOREM AccountsTypeCorrect == Spec => []TypeOK
<1>1. IInv => TypeOK
  BY DEF IInv
<1> QED BY <1>1, AccountsInvariant, PTL

\* append_position_and_risk_updates fills both sides of every trade: the
\* positions of a market add up to zero.
THEOREM PositionsAlwaysBalance == Spec => []PositionsBalance
<1>1. IInv => PositionsBalance
  BY DEF IInv
<1> QED BY <1>1, AccountsInvariant, PTL

\* OrderMetadataStore agrees with the book about every resting order.
THEOREM MetadataAlwaysMatchesBook == Spec => []MetadataMatchesBook
<1>1. IInv => MetadataMatchesBook
  BY DEF IInv
<1> QED BY <1>1, AccountsInvariant, PTL

\* A reservation is charged, unspent, returned or, by a restart, dropped: what
\* rounding takes from one fill is charged to the last.
THEOREM ReservationsAlwaysAddUp == Spec => []ReservationsAddUp
<1>1. IInv => ReservationsAddUp
  BY DEF IInv
<1> QED BY <1>1, AccountsInvariant, PTL

\* update_risk has seen the latest fill, mark price and funding.
THEOREM RiskIsAlwaysCurrent == Spec => []RiskIsCurrent
<1>1. IInv => RiskIsCurrent
  BY DEF IInv
<1> QED BY <1>1, AccountsInvariant, PTL

\* The cap of a reduce-only order is taken before it trades; no trade of it,
\* not even with its own account, increases or reverses the position.
THEOREM ReduceOnlyAlwaysHolds == Spec => []ReduceOnlyHolds
<1>1. IInv => ReduceOnlyHolds
  <2> SUFFICES ASSUME IInv, taker # NoTaker, taker.reduceOnly PROVE ReduceOnlyHolds
    BY DEF ReduceOnlyHolds
  <2>1. Trading
    BY InvariantParts DEF Trading, ThreadOK
  <2> QED BY <2>1, InvariantParts DEF ReducingOK, ReduceOnlyHolds
<1> QED BY <1>1, AccountsInvariant, PTL

(***************************************************************************)
(* The book before deleveraging.                                           *)
(***************************************************************************)

\* What the core's limits would refuse is out of the property's reach: the
\* order that closes a liquidatable position is small enough and, if it crosses
\* the book at the price the code picks, is priced within them.
ForcedOrdersFit ==
  \A u \in Users : risks[u].status = "LIQUIDATABLE" =>
    /\ Abs(positions[u].quantity) <= MaxQuantity
    /\ LET price == LiquidationPrice(u, 0)
       IN  BookHas(SyntheticOrder(u, 1, price)) => price \in BookPrices

\* A price that a LiquidatePosition names is one the core accepts.
RequestsFit == \A l \in LiquidateInputs : l.price > 0 => l.price \in BookPrices

\* A liquidation matches what its metadata says.
BookSpentOK ==
  pc = "matching" /\ taker.kind = "liquidation" => taker.left = taker.meta.remaining

\* Of startup scans the core has had the attempts of the only one so far; what
\* it has had of requests does not matter.
StartupOK ==
  /\ restarts <= MaxRestarts
  /\ restarts = 0 => ~scan.startup
  /\ \A u \in Users, n \in Nat :
       <<"startup", u, n>> \in liquidationIds =>
         /\ restarts > 0
         /\ scan.startup => n <= Attempts

AdlInv == BookSpentOK /\ StartupOK

\* Whether an order crosses depends on its side and its price only.
LEMMA SyntheticOrderCrosses ==
  ASSUME NEW u, NEW lots, NEW price
  PROVE  LET order == SyntheticOrder(u, lots, price)
         IN  /\ BookHas(order) <=>
                  CrossingOrders(ClosingSide(positions[u].quantity), price) # {}
             /\ order.left = lots /\ order.price = price /\ order.kind = "liquidation"
             /\ order.meta.remaining = lots
BY DEF SyntheticOrder, BookHas

\* The core takes the order of an attempt that crosses the book, unless it has
\* seen the order's id.
LEMMA ForcedOrderIsTaken ==
  ASSUME IInv, ForcedOrdersFit, NEW u \in Users, NEW lots \in Nat, NEW price \in Nat,
         positions[u].quantity # 0, risks[u].equity <= risks[u].maintenance,
         lots <= Abs(positions[u].quantity),
         price = LiquidationPrice(u, 0) \/ price \in BookPrices,
         BookHas(SyntheticOrder(u, lots, price))
  PROVE  CoreTakes(SyntheticOrder(u, lots, price), FALSE)
<1>1. risks[u].status = "LIQUIDATABLE"
  BY InvariantParts DEF RiskIsCurrent
<1>2. Abs(positions[u].quantity) <= MaxQuantity
  BY <1>1 DEF ForcedOrdersFit
<1>3. price \in BookPrices
  <2>1. CASE price = LiquidationPrice(u, 0)
    <3>1. BookHas(SyntheticOrder(u, 1, price))
      BY SyntheticOrderCrosses
    <3> QED BY <1>1, <2>1, <3>1 DEF ForcedOrdersFit
  <2> QED BY <2>1
<1>4. lots <= MaxQuantity
  <2>1. Abs(positions[u].quantity) \in Nat
    BY InvariantParts, AbsType DEF AccountsOK, PositionRecord
  <2>2. MaxQuantity \in Nat BY RuntimeAssumption
  <2> DEFINE q == Abs(positions[u].quantity)
  <2> HIDE DEF q
  <2> QED BY <1>2, <2>1, <2>2 DEF q
<1> QED BY <1>3, <1>4, SyntheticOrderCrosses DEF CoreTakes

\* A liquidation that starts to match has its whole quantity to match.
LEMMA ExecutionKeepsBookSpent ==
  ASSUME NEW u, NEW lots, NEW price, NEW ids, pc \in {"idle", "scanning"},
         ExecuteLiquidation(SyntheticOrder(u, lots, price), ids)
  PROVE  BookSpentOK'
<1> DEFINE order == SyntheticOrder(u, lots, price)
<1>1. order.left = lots /\ order.meta.remaining = lots
  BY SyntheticOrderCrosses
<1>2. pc' = "matching" => taker' = order
  BY DEF ExecuteLiquidation
<1> HIDE DEF order
<1> QED BY <1>1, <1>2 DEF BookSpentOK

\* Under an id that is new to the core a liquidation goes to the opposing
\* accounts at once only when nothing crosses its order.
LEMMA ExecutionUsesBook ==
  ASSUME IInv, ForcedOrdersFit, NEW u \in Users, NEW lots \in Nat, NEW price \in Nat,
         positions[u].quantity # 0, risks[u].equity <= risks[u].maintenance,
         lots <= Abs(positions[u].quantity),
         price = LiquidationPrice(u, 0) \/ price \in BookPrices,
         pc \in {"idle", "scanning"}, book' = book,
         NEW ids, ids \cap liquidationIds = {},
         ExecuteLiquidation(SyntheticOrder(u, lots, price), ids)
  PROVE  /\ pc' = "deleveraging" => ~BookHas(taker)'
         /\ pc' = "scanning" => ~BookHas(SyntheticOrder(u, lots, price))
<1> DEFINE order == SyntheticOrder(u, lots, price)
<1>1. BookHas(order) => CoreTakes(order, FALSE)
  BY ForcedOrderIsTaken
<1>2. \/ pc' = "matching"
      \/ pc' = "deleveraging" /\ taker' = order /\ ~BookHas(order)
      \/ pc' = pc /\ ~BookHas(order)
  BY <1>1 DEF ExecuteLiquidation
<1>3. BookHas(taker)' <=> CrossingOrders(taker'.side, taker'.price) # {}
  BY DEF BookHas, CrossingOrders, Crosses, Resting
<1> HIDE DEF order
<1>4. pc' = "deleveraging" => ~BookHas(taker)'
  BY <1>2, <1>3 DEF BookHas
<1>5. pc' = "scanning" => ~BookHas(order)
  BY <1>2
<1> QED BY <1>4, <1>5 DEF order

\* An attempt is for an account that was not attempted yet.
LEMMA AttemptsCount ==
  ASSUME IInv, NEW u \in Users \ scan.attempted, scan'.attempted = scan.attempted \cup {u}
  PROVE  Attempts \in Nat /\ Attempts' = Attempts + 1
<1>1. scan.attempted \subseteq Users
  BY InvariantParts DEF ThreadOK
<1>2. IsFiniteSet(scan.attempted)
  BY <1>1, ConstantTypes, FS_Subset
<1> QED BY <1>2, FS_AddElement, FS_CardinalityType DEF Attempts

\* No id of a request is one of a startup scan's.
LEMMA RequestsAreNotAttempts ==
  ASSUME NEW l, NEW u, NEW n
  PROVE  RequestId(l) # <<"startup", u, n>>
<1>1. RequestId(l)[1] = "request" /\ <<"startup", u, n>>[1] = "startup"
  BY DEF RequestId
<1> QED BY <1>1

\* One candidate of the loop: its id is new to the core, in a startup scan as
\* well, as long as there is one startup scan.
LEMMA AttemptUsesBook ==
  ASSUME IInv, AdlInv, ForcedOrdersFit, MaxRestarts <= 1, AttemptLiquidation
  PROVE  /\ AdlInv'
         /\ pc' = "deleveraging" => ~BookHas(taker)'
         /\ pc' = "scanning" =>
              \A u \in Helpless : ~BookHas(SyntheticOrder(u, 1, LiquidationPrice(u, 0)))
<1> DEFINE u == First(ScanKeys)
           lots == LiquidationLots(u, 0)
           price == LiquidationPrice(u, 0)
           order == SyntheticOrder(u, lots, price)
<1>1. /\ pc = "scanning" /\ ScanCandidates # {}
      /\ scan' = [scan EXCEPT !.attempted = @ \cup {u}]
      /\ ExecuteLiquidation(order, AttemptIds(u))
      /\ book' = book /\ restarts' = restarts
  BY DEF AttemptLiquidation, CanAttempt, orders
<1>2. /\ u \in Users \ scan.attempted /\ positions[u].quantity # 0
      /\ risks[u].equity <= risks[u].maintenance
  <2>1. u \in ScanCandidates
    BY <1>1, ScanCandidateIsChosen, InvariantParts
  <2>2. u \in Users /\ positions[u].quantity # 0 /\ risks[u].status = "LIQUIDATABLE"
    BY <2>1 DEF ScanCandidates
  <2> QED BY <2>1, <2>2, InvariantParts DEF ScanCandidates, RiskIsCurrent
<1>3. lots \in Nat /\ lots <= Abs(positions[u].quantity) /\ price \in Nat
  BY <1>2, LiquidationTerms
<1>4. /\ scan \in [running : BOOLEAN, startup : BOOLEAN, attempted : SUBSET Users]
      /\ restarts \in Nat
  BY InvariantParts DEF ThreadOK
<1> HIDE DEF u
<1>5. scan'.startup = scan.startup /\ scan'.attempted = scan.attempted \cup {u}
  BY <1>1, <1>4
<1>6. Attempts \in Nat /\ Attempts' = Attempts + 1
  BY <1>2, <1>5, AttemptsCount
<1>7. AttemptIds(u) \cap liquidationIds = {}
  <2>1. SUFFICES ASSUME scan.startup, <<"startup", u, Attempts + 1>> \in liquidationIds
                 PROVE  FALSE
    BY DEF AttemptIds
  <2>2. Attempts + 1 <= Attempts
    BY <1>2, <1>6, <2>1 DEF AdlInv, StartupOK
  <2> QED BY <1>6, <2>2
<1> HIDE DEF lots, price
<1>8. BookSpentOK'
  BY <1>1, ExecutionKeepsBookSpent
<1>9. /\ pc' = "deleveraging" => ~BookHas(taker)'
      /\ pc' = "scanning" => ~BookHas(order)
  BY <1>1, <1>2, <1>3, <1>7, ExecutionUsesBook DEF price
<1>10. StartupOK'
  <2>1. liquidationIds' \subseteq liquidationIds \cup AttemptIds(u)
    BY <1>1 DEF ExecuteLiquidation
  <2> HIDE DEF order
  <2>2. SUFFICES ASSUME NEW v \in Users, NEW n \in Nat,
                        <<"startup", v, n>> \in liquidationIds'
                 PROVE  restarts > 0 /\ (scan.startup => n <= Attempts')
    BY <1>1, <1>5 DEF AdlInv, StartupOK
  <2>3. CASE <<"startup", v, n>> \in liquidationIds
    BY <1>6, <2>3 DEF AdlInv, StartupOK
  <2>4. CASE <<"startup", v, n>> \in AttemptIds(u)
    <3>1. scan.startup /\ <<"startup", v, n>> = <<"startup", u, Attempts + 1>>
      BY <2>4 DEF AttemptIds
    <3>2. n = Attempts + 1 BY <3>1
    <3>3. restarts # 0 BY <3>1 DEF AdlInv, StartupOK
    <3> QED BY <1>4, <1>6, <3>2, <3>3
  <2> QED BY <2>1, <2>2, <2>3, <2>4
<1>11. Helpless = {u}
  BY <1>2, <1>5 DEF Helpless
<1>12. BookHas(SyntheticOrder(u, 1, price)) <=> BookHas(order)
  BY SyntheticOrderCrosses
<1> QED BY <1>8, <1>9, <1>10, <1>11, <1>12 DEF AdlInv, price

\* A requested liquidation: under an id that is new to the core it is deleveraged
\* at once only when nothing crosses its order.
LEMMA RequestUsesBook ==
  ASSUME IInv, AdlInv, ForcedOrdersFit, RequestsFit, NEW l \in LiquidateInputs,
         LiquidatePosition(l)
  PROVE  /\ AdlInv'
         /\ RequestId(l) \notin liquidationIds /\ pc' = "deleveraging" =>
              ~BookHas(taker)'
<1> DEFINE u == l.user
           quantity == l.quantity
           given == l.price
           lots == LiquidationLots(u, quantity)
           price == LiquidationPrice(u, given)
<1>1. u \in Users /\ quantity \in Int /\ given \in Int
  BY RuntimeAssumption
<1>2. /\ pc = "idle" /\ MayLiquidate(u, l.side) /\ book' = book
      /\ ExecuteLiquidation(SyntheticOrder(u, lots, price), {RequestId(l)})
      /\ UNCHANGED <<scan, restarts>>
  BY DEF LiquidatePosition, orders
<1>3. positions[u].quantity # 0 /\ risks[u].equity <= risks[u].maintenance
  BY <1>2 DEF MayLiquidate
<1>4. price = LiquidationPrice(u, 0) \/ price \in BookPrices
  BY <1>1 DEF LiquidationPrice, RequestsFit
<1> HIDE DEF u, quantity, given
<1>5. lots \in Nat /\ lots <= Abs(positions[u].quantity) /\ price \in Nat
  BY <1>1, LiquidationTerms
<1> HIDE DEF lots, price
<1>6. BookSpentOK'
  BY <1>2, ExecutionKeepsBookSpent
<1>7. StartupOK'
  <2>1. liquidationIds' \subseteq liquidationIds \cup {RequestId(l)}
    BY <1>2 DEF ExecuteLiquidation
  <2>2. \A v \in Users, n \in Nat :
          <<"startup", v, n>> \in liquidationIds' => <<"startup", v, n>> \in liquidationIds
    BY <2>1, RequestsAreNotAttempts
  <2> QED BY <1>2, <2>2 DEF AdlInv, StartupOK, Attempts
<1>8. RequestId(l) \notin liquidationIds /\ pc' = "deleveraging" => ~BookHas(taker)'
  <2>1. SUFFICES ASSUME RequestId(l) \notin liquidationIds
                 PROVE  pc' = "deleveraging" => ~BookHas(taker)'
    OBVIOUS
  <2>2. {RequestId(l)} \cap liquidationIds = {}
    BY <2>1
  <2> QED BY <1>1, <1>2, <1>3, <1>4, <1>5, <2>2, ExecutionUsesBook
<1> QED BY <1>6, <1>7, <1>8 DEF AdlInv

\* A trade takes from a liquidation order what it takes from its metadata.
LEMMA TradeKeepsBookSpent ==
  ASSUME IInv, BookSpentOK, Trade
  PROVE  BookSpentOK'
<1> DEFINE lots == TradeLots
           price == book[Maker].price
           meta == taker.meta
<1>1. /\ pc = "matching" /\ pc' = pc /\ Trading
      /\ Maker \in Resting /\ lots \in Nat /\ lots <= taker.left
      /\ TradeWith(Maker, lots)
  BY TradeStep DEF Trade
<1>2. taker \in PlacedOrder \cup LiquidationOrder /\ meta \in Metadata /\ taker.left \in Nat
  BY <1>1, TakerType
<1>3. taker' = [taker EXCEPT !.left = @ - lots, !.traded = TRUE,
                             !.meta = AfterFill(@, lots, price)]
  BY <1>1 DEF TradeWith
<1>4. price \in Nat
  BY <1>1, RestingType, ConstantTypes DEF RestingOrder
<1>5. /\ taker'.left = taker.left - lots /\ taker'.kind = taker.kind
      /\ taker'.meta = AfterFill(meta, lots, price)
  BY <1>2, <1>3 DEF PlacedOrder, LiquidationOrder
<1>b. lots \in Nat /\ meta \in Metadata
  BY <1>1, <1>2
<1> HIDE DEF meta, lots, price
<1>c. lots <= meta.remaining =>
        AfterFill(meta, lots, price).remaining = meta.remaining - lots
  BY <1>b, <1>4, Allocation
<1>6. lots <= meta.remaining => taker'.meta.remaining = meta.remaining - lots
  BY <1>5, <1>c
<1>7. CASE taker.kind = "liquidation"
  <2>1. taker.left = meta.remaining BY <1>1, <1>7 DEF BookSpentOK, meta
  <2> QED BY <1>1, <1>5, <1>6, <2>1 DEF BookSpentOK
<1> QED BY <1>1, <1>5, <1>7 DEF BookSpentOK

\* A step that starts no liquidation, does none and names no startup id.
LEMMA OtherStepsKeepAdlInv ==
  ASSUME IInv, AdlInv, restarts' = restarts, liquidationIds' = liquidationIds,
         scan' = scan \/ scan' = [running |-> scan'.running, startup |-> FALSE,
                                  attempted |-> {}],
         pc' # "matching"
  PROVE  AdlInv'
BY DEF AdlInv, BookSpentOK, StartupOK, Attempts

\* What BookBeforeAdl says of one step.
UsesBook ==
  /\ pc # "deleveraging" /\ pc' = "deleveraging" /\ ~RepeatedRequest =>
       ~BookHas(taker)' \/ taker'.meta.remaining = 0
  /\ pc = "scanning" /\ pc' = "scanning" =>
       \A u \in Helpless : ~BookHas(SyntheticOrder(u, 1, LiquidationPrice(u, 0)))

\* Every step keeps the invariant and goes past the book only when it is spent.
LEMMA StepsUseBook ==
  ASSUME MaxRestarts <= 1, RequestsFit, IInv, AdlInv, ForcedOrdersFit, [Next]_vars
  PROVE  AdlInv' /\ UsesBook
<1>a. ASSUME AdlInv', pc \in {"idle", "matching"}, pc' # "deleveraging"
      PROVE  AdlInv' /\ UsesBook
  BY <1>a DEF UsesBook
<1>1. ASSUME NEW c \in PlaceInputs, RejectPlace(c) PROVE AdlInv' /\ UsesBook
  <2>1. pc = "idle" /\ pc' = pc /\ UNCHANGED <<scan, restarts, liquidationIds>>
    BY <1>1 DEF RejectPlace
  <2> QED BY <1>a, <2>1, OtherStepsKeepAdlInv
<1>2. ASSUME NEW c \in PlaceInputs, AcceptPlace(c) PROVE AdlInv' /\ UsesBook
  <2>1. /\ pc = "idle" /\ pc' = "matching" /\ taker'.kind = "place"
        /\ UNCHANGED <<scan, restarts, liquidationIds>>
    BY <1>2 DEF AcceptPlace
  <2>2. AdlInv' BY <2>1 DEF AdlInv, BookSpentOK, StartupOK, Attempts
  <2> QED BY <1>a, <2>1, <2>2
<1>3. ASSUME NEW o \in OrderIds, CancelOrder(o) PROVE AdlInv' /\ UsesBook
  <2>1. pc = "idle" /\ pc' = pc /\ UNCHANGED <<scan, restarts, liquidationIds>>
    BY <1>3 DEF CancelOrder
  <2> QED BY <1>a, <2>1, OtherStepsKeepAdlInv
<1>4. ASSUME NEW l \in LiquidateInputs, LiquidatePosition(l) PROVE AdlInv' /\ UsesBook
  <2>1. pc = "idle"
    BY <1>4 DEF LiquidatePosition
  <2>2. RequestId(l) \in liquidationIds => RepeatedRequest
    BY <1>4 DEF RepeatedRequest
  <2>3. AdlInv' /\ (~RepeatedRequest /\ pc' = "deleveraging" => ~BookHas(taker)')
    BY <1>4, <2>2, RequestUsesBook
  <2> QED BY <2>1, <2>3 DEF UsesBook
<1>5. ASSUME NEW p \in MarkPrices, UpdateMark(p) PROVE AdlInv' /\ UsesBook
  <2>1. /\ pc = "idle" /\ pc' = "scanning" /\ UNCHANGED <<restarts, liquidationIds>>
        /\ scan' = [running |-> TRUE, startup |-> FALSE, attempted |-> {}]
    BY <1>5 DEF UpdateMark, BeginScan, NoScan
  <2> QED BY <1>a, <2>1, OtherStepsKeepAdlInv
<1>6. ASSUME NEW f \in FundingRates, UpdateFunding(f) PROVE AdlInv' /\ UsesBook
  <2>1. pc = "idle" /\ pc' = pc /\ UNCHANGED <<scan, restarts, liquidationIds>>
    BY <1>6 DEF UpdateFunding
  <2> QED BY <1>a, <2>1, OtherStepsKeepAdlInv
<1>7. CASE SettleFunding
  <2>1. /\ pc = "idle" /\ pc' = "scanning" /\ UNCHANGED <<restarts, liquidationIds>>
        /\ scan' = [running |-> TRUE, startup |-> FALSE, attempted |-> {}]
    BY <1>7 DEF SettleFunding, BeginScan, NoScan
  <2> QED BY <1>a, <2>1, OtherStepsKeepAdlInv
<1>8. CASE Restart
  <2>1. /\ pc = "idle" /\ pc' = "scanning" /\ restarts < MaxRestarts
        /\ restarts' = restarts + 1 /\ liquidationIds' = liquidationIds
        /\ scan' = [running |-> TRUE, startup |-> TRUE, attempted |-> {}]
    BY <1>8 DEF Restart, BeginScan, NoScan
  <2>2. restarts \in Nat /\ MaxRestarts \in Nat
    BY RuntimeAssumption, InvariantParts DEF ThreadOK
  <2>3. restarts = 0 BY <2>1, <2>2
  <2>4. AdlInv' BY <2>1, <2>2, <2>3 DEF AdlInv, BookSpentOK, StartupOK
  <2> QED BY <1>a, <2>1, <2>4
<1>9. CASE Trade
  <2>1. pc = "matching" /\ UNCHANGED <<scan, restarts, liquidationIds>>
    BY <1>9 DEF Trade
  <2>2. BookSpentOK' BY <1>9, TradeKeepsBookSpent DEF AdlInv
  <2>3. StartupOK' BY <2>1 DEF AdlInv, StartupOK, Attempts
  <2>4. pc' = pc BY <1>9 DEF Trade
  <2> QED BY <1>a, <2>1, <2>2, <2>3, <2>4 DEF AdlInv
<1>10. CASE FinishPlace \/ FinishReduceOnly
  <2>1. /\ pc = "matching" /\ pc' \in {"idle", "scanning"}
        /\ UNCHANGED <<restarts, liquidationIds>>
        /\ scan' = [running |-> taker.traded, startup |-> FALSE, attempted |-> {}]
    BY <1>10 DEF FinishPlace, FinishReduceOnly, AfterPlace, NoScan
  <2> QED BY <1>a, <2>1, OtherStepsKeepAdlInv
<1>11. CASE FinishBook
  <2>1. /\ pc = "matching" /\ pc' = "deleveraging" /\ taker.kind = "liquidation"
        /\ ~CanTrade /\ UNCHANGED <<scan, restarts, liquidationIds, book, taker>>
    BY <1>11 DEF FinishBook, orders
  <2>2. taker.left \in Nat BY <2>1, TakerType DEF Trading
  <2>3. ~BookHas(taker) \/ taker.meta.remaining = 0
    BY <2>1, <2>2 DEF CanTrade, BookHas, AdlInv, BookSpentOK
  <2>4. ~BookHas(taker)' \/ taker'.meta.remaining = 0
    BY <2>1, <2>3 DEF BookHas, CrossingOrders, Crosses, Resting
  <2>5. AdlInv' BY <2>1, OtherStepsKeepAdlInv
  <2> QED BY <2>1, <2>4, <2>5 DEF UsesBook
<1>12. CASE Deleverage
  <2>1. pc = "deleveraging" /\ pc' = pc /\ UNCHANGED <<scan, restarts, liquidationIds>>
    BY <1>12 DEF Deleverage
  <2>2. AdlInv' BY <2>1, OtherStepsKeepAdlInv
  <2> QED BY <2>1, <2>2 DEF UsesBook
<1>13. CASE FinishLiquidation
  <2>1. /\ pc = "deleveraging" /\ pc' \in {"idle", "scanning"}
        /\ UNCHANGED <<scan, restarts, liquidationIds>>
    BY <1>13 DEF FinishLiquidation
  <2>2. AdlInv' BY <2>1, OtherStepsKeepAdlInv
  <2> QED BY <2>1, <2>2 DEF UsesBook
<1>14. CASE AttemptLiquidation
  <2>1. pc = "scanning" BY <1>14 DEF AttemptLiquidation
  <2> QED BY <1>14, <2>1, AttemptUsesBook DEF UsesBook
<1>15. CASE EndScan
  <2>1. /\ pc = "scanning" /\ pc' = "idle" /\ UNCHANGED <<restarts, liquidationIds>>
        /\ scan' = [running |-> FALSE, startup |-> FALSE, attempted |-> {}]
    BY <1>15 DEF EndScan, NoScan
  <2>2. AdlInv' BY <2>1, OtherStepsKeepAdlInv
  <2> QED BY <2>1, <2>2 DEF UsesBook
<1>16. CASE UNCHANGED vars
  <2>1. UNCHANGED <<book, positions, pc, taker, scan, restarts, liquidationIds>>
    BY <1>16 DEF vars, orders, accounts
  <2>2. AdlInv'
    BY <2>1 DEF AdlInv, BookSpentOK, StartupOK, Attempts, BookHas, CrossingOrders,
                Crosses, Resting
  <2>3. Helpless = {} BY <2>1 DEF Helpless
  <2> QED BY <2>1, <2>2, <2>3 DEF UsesBook
<1> QED
  BY <1>1, <1>2, <1>3, <1>4, <1>5, <1>6, <1>7, <1>8, <1>9, <1>10, <1>11, <1>12, <1>13,
     <1>14, <1>15, <1>16 DEF Next, Input, Loop

\* execute_liquidation turns to opposing accounts, and the loop gives an
\* attempt up, only when no resting order crosses or the book has closed the
\* position: true of every liquidation but those requested under an id the core
\* has had, as long as the worker is restarted at most once and the core's limits
\* admit the closing orders.
THEOREM BookComesBeforeAdl ==
  ASSUME MaxRestarts <= 1, RequestsFit
  PROVE  Spec /\ []ForcedOrdersFit => BookBeforeAdl
<1>1. Init => AdlInv
  <2> SUFFICES ASSUME Init PROVE AdlInv
    OBVIOUS
  <2>1. pc = "idle" /\ restarts = 0 /\ liquidationIds = {} /\ scan.startup = FALSE
    BY DEF Init, NoScan
  <2>2. MaxRestarts \in Nat BY RuntimeAssumption
  <2> QED BY <2>1, <2>2 DEF AdlInv, BookSpentOK, StartupOK
<1>2. IInv /\ AdlInv /\ ForcedOrdersFit /\ [Next]_vars => AdlInv'
  BY StepsUseBook
<1>3. IInv /\ AdlInv /\ ForcedOrdersFit /\ [Next]_vars =>
        [/\ pc # "deleveraging" /\ pc' = "deleveraging" /\ ~RepeatedRequest =>
              ~BookHas(taker)' \/ taker'.meta.remaining = 0
         /\ pc = "scanning" /\ pc' = "scanning" =>
              \A u \in Helpless :
                ~BookHas(SyntheticOrder(u, 1, LiquidationPrice(u, 0)))]_vars
  BY StepsUseBook DEF UsesBook
<1> QED BY <1>1, <1>2, <1>3, AccountsInvariant, PTL DEF Spec, BookBeforeAdl

(***************************************************************************)
(* The loops of an input cannot run for ever: each step of one makes a     *)
(* tuple of natural numbers smaller in the order of its components.        *)
(***************************************************************************)

\* The accounts the running liquidation loop may still attempt.
Unattempted == IF scan.running THEN Cardinality(Users \ scan.attempted) ELSE 0

Phase ==
  CASE pc = "matching"     -> 3
    [] pc = "deleveraging" -> 2
    [] pc = "scanning"     -> 1
    [] OTHER               -> 0

\* What matching or deleveraging has still to close.
LotsLeft ==
  CASE pc = "matching"     -> taker.left
    [] pc = "deleveraging" -> taker.meta.remaining
    [] OTHER               -> 0

\* A placed order comes before the loop its trades start; an account of the
\* loop is matched, then deleveraged, before the next is picked.
LeftToDo == <<IF Placing THEN 1 ELSE 0, Unattempted, Phase, LotsLeft>>

\* Within the liquidation loop its locals are set.
ScanOK == pc = "scanning" => scan.running

\* The accounts not yet attempted are finitely many.
LEMMA UnattemptedType ==
  ASSUME IInv
  PROVE  Unattempted \in Nat
<1>1. IsFiniteSet(Users \ scan.attempted)
  BY ConstantTypes, FS_Subset
<1> QED BY <1>1, FS_CardinalityType DEF Unattempted

\* The components are natural numbers, so no descent goes on for ever.
LEMMA LeftToDoType ==
  ASSUME IInv
  PROVE  LeftToDo \in Nat \X Nat \X Nat \X Nat
<1>1. Phase \in Nat
  BY DEF Phase
<1>2. LotsLeft \in Nat
  <2>1. CASE Trading
    BY <2>1, TakerType DEF LotsLeft, Trading, Metadata
  <2>2. CASE ~Trading
    BY <2>2 DEF LotsLeft, Trading
  <2> QED BY <2>1, <2>2
<1> QED BY <1>1, <1>2, UnattemptedType DEF LeftToDo

\* The order of tuples: equal up to a component that is smaller.
LEMMA Descends ==
  ASSUME NEW a1, NEW a2, NEW a3, NEW a4, NEW b1, NEW b2, NEW b3, NEW b4,
         \/ a1 < b1
         \/ a1 = b1 /\ a2 < b2
         \/ a1 = b1 /\ a2 = b2 /\ a3 < b3
         \/ a1 = b1 /\ a2 = b2 /\ a3 = b3 /\ a4 < b4
  PROVE  KeyLess(<<a1, a2, a3, a4>>, <<b1, b2, b3, b4>>)
<1> DEFINE k == <<a1, a2, a3, a4>>
           l == <<b1, b2, b3, b4>>
<1> SUFFICES \E i \in 1 .. 4 : k[i] < l[i] /\ \A j \in 1 .. i - 1 : k[j] = l[j]
  BY DEF KeyLess
<1>1. CASE a1 < b1
  <2>1. 1 \in 1 .. 4 /\ k[1] < l[1] /\ \A j \in 1 .. 1 - 1 : k[j] = l[j]
    BY <1>1
  <2> QED BY <2>1
<1>2. CASE a1 = b1 /\ a2 < b2
  <2>1. 2 \in 1 .. 4 /\ k[2] < l[2] /\ \A j \in 1 .. 2 - 1 : k[j] = l[j]
    BY <1>2
  <2> QED BY <2>1
<1>3. CASE a1 = b1 /\ a2 = b2 /\ a3 < b3
  <2>1. 3 \in 1 .. 4 /\ k[3] < l[3] /\ \A j \in 1 .. 3 - 1 : k[j] = l[j]
    BY <1>3
  <2> QED BY <2>1
<1>4. CASE a1 = b1 /\ a2 = b2 /\ a3 = b3 /\ a4 < b4
  <2>1. 4 \in 1 .. 4 /\ k[4] < l[4] /\ \A j \in 1 .. 4 - 1 : k[j] = l[j]
    BY <1>4
  <2> QED BY <2>1
<1> QED BY <1>1, <1>2, <1>3, <1>4

\* The liquidation loop is at work in every step of it: scan.running is the
\* flag that brings a liquidation back to the loop it came from.
LEMMA NextScanOK ==
  ASSUME IInv, ScanOK, [Next]_vars
  PROVE  ScanOK'
<1>0. scan \in [running : BOOLEAN, startup : BOOLEAN, attempted : SUBSET Users]
  BY InvariantParts DEF ThreadOK
<1>1. CASE Input
  <2>1. CASE pc' # "scanning"
    BY <2>1 DEF ScanOK
  <2>2. CASE pc' = "scanning"
    <3>1. \/ \E startup \in BOOLEAN : BeginScan(startup)
          \/ pc = "idle" /\ UNCHANGED pc
          \/ \E l \in LiquidateInputs : LiquidatePosition(l)
      BY <1>1, <2>2 DEF Input, RejectPlace, AcceptPlace, CancelOrder, UpdateMark,
                        UpdateFunding, SettleFunding, Restart
    <3>2. \A l \in LiquidateInputs : LiquidatePosition(l) => pc' # "scanning"
      BY DEF LiquidatePosition, ExecuteLiquidation
    <3> QED BY <2>2, <3>1, <3>2 DEF BeginScan, NoScan, ScanOK
  <2> QED BY <2>1, <2>2
<1>2. CASE FinishPlace \/ FinishReduceOnly
  <2>1. /\ pc' = IF taker.traded THEN "scanning" ELSE "idle"
        /\ scan' = [NoScan EXCEPT !.running = taker.traded]
    BY <1>2 DEF FinishPlace, FinishReduceOnly, AfterPlace
  <2> QED BY <2>1 DEF ScanOK, NoScan
<1>3. CASE FinishLiquidation
  BY <1>3 DEF FinishLiquidation, ScanOK
<1>4. CASE AttemptLiquidation
  <2>1. PICK u : pc = "scanning" /\ scan' = [scan EXCEPT !.attempted = @ \cup {u}]
    BY <1>4 DEF AttemptLiquidation
  <2> QED BY <1>0, <2>1 DEF ScanOK
<1>5. CASE Trade \/ FinishBook \/ Deleverage \/ EndScan
  BY <1>5 DEF Trade, FinishBook, Deleverage, EndScan, ScanOK
<1>6. CASE UNCHANGED vars
  BY <1>6 DEF vars, ScanOK
<1> QED BY <1>1, <1>2, <1>3, <1>4, <1>5, <1>6 DEF Next, Loop

\* A trade takes lots from the incoming order.
LEMMA TradeDescends ==
  ASSUME IInv, Trade
  PROVE  KeyLess(LeftToDo', LeftToDo)
<1>1. /\ pc = "matching" /\ pc' = pc /\ scan' = scan
      /\ TradeLots \in Nat /\ TradeLots > 0 /\ Trading
      /\ TradeWith(Maker, TradeLots)
  BY TradeStep DEF Trade
<1>2. taker.left \in Nat /\ taker \in PlacedOrder \cup LiquidationOrder
  BY <1>1, TakerType
<1>3. taker'.left = taker.left - TradeLots /\ taker'.kind = taker.kind
  <2>1. PICK meta : taker' = [taker EXCEPT !.left = @ - TradeLots, !.traded = TRUE,
                                           !.meta = meta]
    BY <1>1 DEF TradeWith
  <2> QED BY <1>2, <2>1 DEF PlacedOrder, LiquidationOrder
<1>4. taker'.left < taker.left
  BY <1>1, <1>2, <1>3
<1>5. /\ Placing' = Placing /\ Unattempted' = Unattempted /\ Phase' = Phase
      /\ LotsLeft = taker.left /\ LotsLeft' = taker'.left
  BY <1>1, <1>3 DEF Placing, Unattempted, Phase, LotsLeft
<1> QED BY <1>4, <1>5, Descends DEF LeftToDo

\* An opposing account has a position, and closes part of what is left.
LEMMA DeleverageDescends ==
  ASSUME IInv, Deleverage
  PROVE  KeyLess(LeftToDo', LeftToDo)
<1>1. pc = "deleveraging" /\ pc' = pc /\ scan' = scan /\ CanDeleverage
  BY DEF Deleverage
<1>2. /\ Trading /\ taker \in LiquidationOrder /\ AdlLots \in Nat
      /\ taker' = [taker EXCEPT !.meta = AfterFill(@, AdlLots, taker.price),
                                !.traded = TRUE]
  BY DeleverageStep
<1>3. taker.meta \in Metadata /\ taker.user \in Users /\ taker.price \in Nat
  BY <1>2, TakerType
<1>4. AdlLots > 0 /\ AdlLots <= taker.meta.remaining
  <2> DEFINE q == Abs(positions[taker.user].quantity)
             r == taker.meta.remaining
             a == Abs(positions[Opponent].quantity)
  <2>1. Opponent \in AdlCandidates(taker.user)
    BY <1>1, <1>3, AdlCandidateIsChosen, InvariantParts DEF CanDeleverage, Opponent
  <2>2. /\ Opponent \in Users
        /\ positions[taker.user].quantity * positions[Opponent].quantity < 0
    BY <2>1 DEF AdlCandidates
  <2>3. positions[taker.user].quantity \in Int /\ positions[Opponent].quantity \in Int
    BY <1>3, <2>2, InvariantParts DEF AccountsOK, PositionRecord
  <2>4. positions[Opponent].quantity # 0
    BY <2>2, <2>3, OppositeSigns
  <2>5. q \in Nat /\ a \in Nat /\ a # 0 /\ r \in Nat
    BY <1>3, <2>3, <2>4, AbsType DEF Metadata
  <2>6. LesserOf(r, q) > 0 /\ AdlLots = LesserOf(LesserOf(r, q), a)
    BY <1>1 DEF CanDeleverage, AdlLeft, AdlLots
  <2> HIDE DEF q, r, a
  <2>7. AdlLots > 0 /\ AdlLots <= r
    BY <2>5, <2>6 DEF LesserOf
  <2> QED BY <2>7 DEF r
<1>5. taker'.kind = taker.kind
      /\ taker'.meta.remaining = taker.meta.remaining - AdlLots
  <2>1. AfterFill(taker.meta, AdlLots, taker.price).remaining
          = taker.meta.remaining - AdlLots
    BY <1>2, <1>3, <1>4, Allocation
  <2> QED BY <1>2, <2>1 DEF LiquidationOrder
<1>6. taker'.meta.remaining < taker.meta.remaining
  BY <1>2, <1>3, <1>4, <1>5 DEF Metadata
<1>7. /\ Placing' = Placing /\ Unattempted' = Unattempted /\ Phase' = Phase
      /\ LotsLeft = taker.meta.remaining /\ LotsLeft' = taker'.meta.remaining
  BY <1>1, <1>5 DEF Placing, Unattempted, Phase, LotsLeft
<1> QED BY <1>6, <1>7, Descends DEF LeftToDo

\* The loop never picks an account twice, whatever becomes of the attempt.
LEMMA AttemptDescends ==
  ASSUME IInv, ScanOK, AttemptLiquidation
  PROVE  KeyLess(LeftToDo', LeftToDo)
<1> DEFINE u == First(ScanKeys)
           order == SyntheticOrder(u, LiquidationLots(u, 0), LiquidationPrice(u, 0))
<1>1. /\ pc = "scanning" /\ ScanCandidates # {}
      /\ scan' = [scan EXCEPT !.attempted = @ \cup {u}]
      /\ ExecuteLiquidation(order, AttemptIds(u))
  BY DEF AttemptLiquidation, CanAttempt
<1>2. u \in Users \ scan.attempted
  <2>1. u \in ScanCandidates
    BY <1>1, ScanCandidateIsChosen, InvariantParts
  <2> QED BY <2>1 DEF ScanCandidates
<1>3. ~Placing /\ ~Placing'
  <2>1. order.kind = "liquidation"
    BY SyntheticOrderCrosses
  <2> HIDE DEF order
  <2>2. pc' = "matching" => taker' = order
    BY <1>1 DEF ExecuteLiquidation
  <2> QED BY <1>1, <2>1, <2>2 DEF Placing
<1> HIDE DEF u
<1>4. scan'.attempted = scan.attempted \cup {u} /\ scan'.running /\ scan.running
  BY <1>1, InvariantParts DEF ThreadOK, ScanOK
<1>5. Unattempted' < Unattempted
  <2> DEFINE S == Users \ scan.attempted
  <2>1. Users \ scan'.attempted = S \ {u}
    BY <1>4
  <2>2. IsFiniteSet(S)
    BY ConstantTypes, FS_Subset
  <2>3. Cardinality(S \ {u}) = Cardinality(S) - 1 /\ Cardinality(S) \in Nat
    BY <1>2, <2>2, FS_RemoveElement, FS_CardinalityType
  <2> QED BY <1>4, <2>1, <2>3 DEF Unattempted
<1> QED BY <1>3, <1>5, Descends DEF LeftToDo

\* The end of a phase leads to an earlier one.
LEMMA EndOfPhaseDescends ==
  ASSUME IInv, FinishPlace \/ FinishReduceOnly \/ FinishBook \/ FinishLiquidation \/ EndScan
  PROVE  KeyLess(LeftToDo', LeftToDo)
<1>1. CASE FinishPlace \/ FinishReduceOnly
  <2>1. Placing /\ ~Placing'
    BY <1>1 DEF FinishPlace, FinishReduceOnly, AfterPlace, Placing
  <2> QED BY <2>1, Descends DEF LeftToDo
<1>2. CASE FinishBook \/ FinishLiquidation
  <2>1. /\ ~Placing /\ ~Placing' /\ scan' = scan
        /\ Phase' < Phase
    BY <1>2 DEF FinishBook, FinishLiquidation, Placing, Phase
  <2>2. Unattempted' = Unattempted
    BY <2>1 DEF Unattempted
  <2> QED BY <2>1, <2>2, Descends DEF LeftToDo
<1>3. CASE EndScan
  <2>1. ~Placing /\ ~Placing' /\ Phase' < Phase
    BY <1>3 DEF EndScan, Placing, Phase
  <2>2. Unattempted' = 0
    BY <1>3 DEF EndScan, NoScan, Unattempted
  <2>3. Unattempted' < Unattempted \/ Unattempted' = Unattempted
    BY <2>2, UnattemptedType
  <2> QED BY <2>1, <2>3, Descends DEF LeftToDo
<1> QED BY <1>1, <1>2, <1>3

\* Until an input is dealt with, no other is taken, and every step of matching,
\* deleveraging and the liquidation loop leaves less to do: the loop attempts no
\* account twice, and neither a trade nor a deleveraging is of nothing
\* (evaluate_automatic_liquidations_for_market, execute_liquidation).
THEOREM InputsShorten == Spec => [][pc # "idle" => KeyLess(LeftToDo', LeftToDo)]_vars
<1>1. Init => ScanOK
  BY DEF Init, ScanOK
<1>2. IInv /\ ScanOK /\ [Next]_vars => ScanOK'
  BY NextScanOK
<1>3. ASSUME IInv, ScanOK, Next, pc # "idle" PROVE KeyLess(LeftToDo', LeftToDo)
  <2>1. Loop
    BY <1>3 DEF Next, Input, RejectPlace, AcceptPlace, CancelOrder, LiquidatePosition,
                UpdateMark, UpdateFunding, SettleFunding, Restart
  <2>2. CASE Trade
    BY <1>3, <2>2, TradeDescends
  <2>3. CASE Deleverage
    BY <1>3, <2>3, DeleverageDescends
  <2>4. CASE AttemptLiquidation
    BY <1>3, <2>4, AttemptDescends
  <2>5. CASE FinishPlace \/ FinishReduceOnly \/ FinishBook \/ FinishLiquidation \/ EndScan
    BY <1>3, <2>5, EndOfPhaseDescends
  <2> QED BY <2>1, <2>2, <2>3, <2>4, <2>5 DEF Loop
<1>4. IInv /\ ScanOK /\ [Next]_vars => [pc # "idle" => KeyLess(LeftToDo', LeftToDo)]_vars
  BY <1>3
<1> QED BY <1>1, <1>2, <1>4, AccountsInvariant, PTL DEF Spec

(***************************************************************************)
(* What is announced: the inductive invariant.                             *)
(***************************************************************************)

Tale ==
  [settled : Nat, released : Nat, opened : Nat, traded : Nat, settles : BOOLEAN]

AnnouncedTypeOK ==
  /\ told \in [OrderIds -> Tale]
  /\ money \in [realised : Int, rounded : Int]
  /\ excused \subseteq Users

\* Nothing was told of an order id that was not used yet.
UntoldOK ==
  \A o \in OrderIds \ processed :
    told[o] = [settled |-> 0, released |-> 0, opened |-> 0, traded |-> 0,
               settles |-> FALSE]

\* Metadata holds the reservation the wallet made for the order; all that the
\* ledger returned was released, and all it charged settled, if fills settle.
WalletAgrees(o) ==
  /\ metadata[o] # Nothing => metadata[o].reserved = ledger[o].reserved
  /\ told[o].released = ledger[o].returned
  /\ ledger[o].reserved > 0 =>
       told[o].settled = IF told[o].settles THEN ledger[o].charged ELSE 0

WalletOK ==
  /\ \A o \in OrderIds : WalletAgrees(o)
  /\ Placing => taker.meta.reserved = ledger[taker.orderId].reserved

\* OpenOrdersFollow holds during an input too.  The incoming order is not open
\* before its last trade.
OpenAgrees(o) ==
  IF told[o].opened = 0 THEN o \notin Resting
  ELSE told[o].opened - told[o].traded =
         IF o \in Resting THEN book[o].remaining ELSE 0

OpenOK ==
  /\ \A o \in OrderIds : OpenAgrees(o)
  /\ Placing => /\ told[taker.orderId].opened = 0
                /\ ~taker.reduceOnly =>
                     told[taker.orderId].traded + taker.meta.remaining
                       = taker.meta.original

NoneLeft == \A u \in Users \ excused : risks[u].status # "LIQUIDATABLE"

\* A loop runs while accounts are scanned, and follows every place that has
\* traded; a liquidation outside a loop was requested.
TriedOK ==
  /\ pc = "scanning" => scan.running
  /\ Trading /\ taker.kind = "liquidation" /\ ~scan.running => excused = Users
  /\ pc = "idle" \/ (Placing /\ ~taker.traded) => NoneLeft

AInv ==
  /\ AnnouncedTypeOK
  /\ UntoldOK /\ WalletOK /\ OpenOK /\ TriedOK /\ MoneyIsConserved

(***************************************************************************)
(* Money.  What a fill realises, and what it changes of the position's     *)
(* cost, come to the price of the fill and the rounding of the entry.      *)
(***************************************************************************)

\* What a position cost at its entry price.
Cost(position) == position.average * position.quantity

\* What the cases of a fill need of products.
LEMMA ProductLaws ==
  ASSUME NEW a \in Int, NEW p \in Int, NEW q \in Int, NEW f \in Int
  PROVE  /\ a * q \in Int /\ p * q \in Int /\ a * f \in Int /\ p * f \in Int
         /\ a * (-q) = -(a * q) /\ p * (-f) = -(p * f)
         /\ a * (q + f) = a * q + a * f
         /\ p * (q + f) = p * q + p * f
         /\ (p - a) * q = p * q - a * q /\ (p - a) * (-f) = a * f - p * f
         /\ (a - p) * (-q) = p * q - a * q /\ (a - p) * f = a * f - p * f
<1>1. \A x, y \in Int : x * y \in Int /\ x * (-y) = -(x * y)
  OBVIOUS
<1>2. \A x, y, z \in Int : x * (y + z) = x * y + x * z
  OBVIOUS
<1>3. \A x, y, z \in Int : (x - y) * z = x * z - y * z
  OBVIOUS
<1>4. /\ (p - a) * (-f) = -((p - a) * f) /\ (a - p) * (-q) = -((a - p) * q)
  BY <1>1
<1> QED BY <1>1, <1>2, <1>3, <1>4

\* The quantity and the entry price that a fill leaves, by case.
LEMMA FillCost ==
  ASSUME NEW position, NEW leverage, NEW fill, NEW price, NEW fillMargin,
         MayFill(position, leverage, fill, price, fillMargin)
  PROVE  LET after == ApplyPositionFill(position, leverage, fill, price, fillMargin)
         IN  /\ RealisedPnl(position, fill, price) \in Int
             /\ RoundedOff(position, fill, price) \in Int
             /\ Cost(position) \in Int /\ Cost(after) \in Int
             /\ RealisedPnl(position, fill, price) - Cost(after) + Cost(position)
                  = RoundedOff(position, fill, price) - price * fill
<1> DEFINE q == position.quantity
           a == position.average
           new == q + fill
           entry == EntryAndMargin(position, fill, price, fillMargin)[1]
           after == ApplyPositionFill(position, leverage, fill, price, fillMargin)
           realised == RealisedPnl(position, fill, price)
           rounded == RoundedOff(position, fill, price)
<1>1. q \in Int /\ a \in Nat /\ fill \in Int /\ price \in Nat /\ new \in Int
  BY DEF MayFill, PositionRecord
<1>2. Cost(position) = a * q /\ Cost(after) = entry * new
  BY DEF Cost, ApplyPositionFill
<1> SUFFICES /\ realised \in Int /\ rounded \in Int /\ a * q \in Int /\ entry * new \in Int
             /\ realised - entry * new + a * q = rounded - price * fill
  BY <1>2
<1>3. CASE q = 0
  <2>1. realised = 0 /\ rounded = 0
    BY <1>1, <1>3 DEF RealisedPnl, RoundedOff, SameDirection
  <2>2. entry = price /\ new = fill
    BY <1>1, <1>3 DEF EntryAndMargin, SameDirection
  <2>3. a * q = 0 /\ price * fill \in Int
    BY <1>1, <1>3, ProductLaws
  <2> HIDE DEF entry, new, realised, rounded, q, a
  <2> QED BY <2>1, <2>2, <2>3
<1>4. CASE SameDirection(q, fill)
  <2> DEFINE whole == a * Abs(q) + price * Abs(fill)
             n == Abs(new)
             r == whole % n
  <2>1. q # 0 /\ new # 0
    BY <1>1, <1>4 DEF SameDirection
  <2>2. realised = 0
    BY <1>4 DEF RealisedPnl
  <2>3. rounded = (IF fill > 0 THEN 1 ELSE -1) * r
    BY <1>4 DEF RoundedOff
  <2>4. entry = whole \div n
    BY <1>1, <1>4, <2>1 DEF EntryAndMargin
  <2>5. whole \in Nat /\ n \in Nat \ {0}
    <3>1. Abs(q) \in Nat /\ Abs(fill) \in Nat /\ n \in Nat \ {0}
      BY <1>1, <2>1, AbsType
    <3>2. a * Abs(q) \in Nat /\ price * Abs(fill) \in Nat
      BY <1>1, <3>1, NaturalArithmetic
    <3> HIDE DEF n
    <3> QED BY <3>1, <3>2
  <2>6. entry \in Int /\ r \in Int /\ entry * n = whole - r
    <3>1. entry = whole \div n /\ r = whole % n
      BY <2>4
    <3> HIDE DEF whole, n, entry, r
    <3> QED BY <2>5, <3>1, DivisionLaw
  <2> HIDE DEF r
  <2>7. /\ a * q \in Int /\ price * fill \in Int
        /\ a * (-q) = -(a * q) /\ price * (-fill) = -(price * fill)
    BY <1>1, ProductLaws
  <2>8. CASE fill > 0
    <3>1. q > 0 /\ n = new /\ whole = a * q + price * fill
      BY <1>1, <1>4, <2>8 DEF SameDirection, Abs
    <3>2. rounded = r
      <4> HIDE DEF rounded, entry, whole, n
      <4> QED BY <2>3, <2>6, <2>8
    <3>3. entry * new = whole - r
      BY <2>6, <3>1
    <3> DEFINE c == entry * new
               aq == a * q
               pf == price * fill
    <3>4. /\ r \in Int /\ c = whole - r /\ rounded = r /\ whole = aq + pf
          /\ aq \in Int /\ pf \in Int
      <4> HIDE DEF whole, n, realised, rounded, entry, new, q, a
      <4> QED BY <2>5, <2>6, <2>7, <3>1, <3>2, <3>3
    <3> HIDE DEF r, c, aq, pf, realised, rounded, whole
    <3>5. realised - c + aq = rounded - pf /\ rounded \in Int /\ c \in Int
          /\ realised \in Int
      BY <2>2, <3>4
    <3> QED BY <3>4, <3>5 DEF c, aq, pf
  <2>9. CASE ~(fill > 0)
    <3>1. fill < 0 /\ q < 0 /\ n = -new /\ whole = a * (-q) + price * (-fill)
      BY <1>1, <1>4, <2>9 DEF SameDirection, Abs
    <3>2. rounded = -r
      <4> HIDE DEF rounded, entry, whole, n
      <4> QED BY <2>3, <2>6, <2>9
    <3> DEFINE c == entry * new
               aq == a * q
               pf == price * fill
    <3>3. entry * n = -c /\ c \in Int
      <4> HIDE DEF entry, new, n
      <4>1. entry * (-new) = -(entry * new) /\ entry * new \in Int
        BY <1>1, <2>6, ProductLaws
      <4> QED BY <3>1, <4>1
    <3>4. /\ r \in Int /\ -c = whole - r /\ rounded = -r /\ c \in Int
          /\ aq \in Int /\ pf \in Int /\ whole = (-aq) + (-pf)
      <4> HIDE DEF whole, n, realised, rounded, entry, new, q, a
      <4> QED BY <2>5, <2>6, <2>7, <3>1, <3>2, <3>3
    <3> HIDE DEF r, c, aq, pf, realised, rounded, whole
    <3>5. realised - c + aq = rounded - pf /\ rounded \in Int /\ realised \in Int
      BY <2>2, <3>4
    <3> QED BY <3>4, <3>5 DEF c, aq, pf
  <2> QED BY <2>8, <2>9
<1>5. CASE q # 0 /\ ~SameDirection(q, fill)
  <2> DEFINE closed == LesserOf(Abs(q), Abs(fill))
  <2>1. rounded = 0
    BY <1>5 DEF RoundedOff
  <2>2. realised = IF q > 0 THEN (price - a) * closed ELSE (a - price) * closed
    BY <1>5 DEF RealisedPnl
  <2>3. /\ a * q \in Int /\ price * q \in Int /\ a * fill \in Int /\ price * fill \in Int
        /\ a * (q + fill) = a * q + a * fill
        /\ price * (q + fill) = price * q + price * fill
        /\ (price - a) * q = price * q - a * q
        /\ (price - a) * (-fill) = a * fill - price * fill
        /\ (a - price) * (-q) = price * q - a * q
        /\ (a - price) * fill = a * fill - price * fill
    <3> a \in Int /\ price \in Int
      BY <1>1
    <3> HIDE DEF a, q
    <3> QED BY <1>1, ProductLaws
  <2>4. CASE new = 0
    <3>1. entry = 0
      BY <1>1, <1>5, <2>4 DEF EntryAndMargin, SameDirection
    <3>2. closed = IF q > 0 THEN q ELSE -q
      BY <1>1, <2>4 DEF LesserOf, Abs
    <3>3. realised = price * q - a * q
      <4> HIDE DEF closed, q, a, realised
      <4> QED BY <2>2, <2>3, <3>2
    <3>4. price * fill = -(price * q)
      <4>1. price * (q + fill) = 0 BY <1>1, <2>4
      <4> HIDE DEF q, a
      <4> QED BY <2>3, <4>1
    <3>5. entry * new = 0 BY <2>4, <3>1
    <3> DEFINE aq == a * q
               pq == price * q
               pf == price * fill
               c == entry * new
    <3>6. aq \in Int /\ pq \in Int /\ pf \in Int BY <2>3
    <3>7. realised = pq - aq /\ pf = -pq /\ c = 0 /\ rounded = 0
      BY <2>1, <3>3, <3>4, <3>5
    <3> HIDE DEF entry, new, realised, rounded, q, a, aq, pq, pf, c
    <3>8. realised - c + aq = rounded - pf /\ realised \in Int /\ rounded \in Int
          /\ c \in Int
      BY <3>6, <3>7
    <3> QED BY <3>6, <3>8 DEF aq, pf, c
  <2>5. CASE new # 0 /\ SameDirection(q, new)
    <3>1. entry = a
      BY <1>1, <1>5, <2>5 DEF EntryAndMargin, SameDirection
    <3>2. closed = IF q > 0 THEN -fill ELSE fill
      BY <1>1, <1>5, <2>5 DEF LesserOf, Abs, SameDirection
    <3>3. realised = a * fill - price * fill
      <4> HIDE DEF closed, q, a, realised
      <4> QED BY <2>2, <2>3, <3>2
    <3>4. entry * new = a * q + a * fill BY <2>3, <3>1
    <3> HIDE DEF entry, new, realised, rounded, q, a
    <3> QED BY <2>1, <2>3, <3>3, <3>4
  <2>6. CASE new # 0 /\ ~SameDirection(q, new)
    <3>1. entry = price
      BY <1>1, <1>5, <2>6 DEF EntryAndMargin
    <3>2. closed = IF q > 0 THEN q ELSE -q
      BY <1>1, <1>5, <2>6 DEF LesserOf, Abs, SameDirection
    <3>3. realised = price * q - a * q
      <4> HIDE DEF closed, q, a, realised
      <4> QED BY <2>2, <2>3, <3>2
    <3>4. entry * new = price * q + price * fill BY <2>3, <3>1
    <3> HIDE DEF entry, new, realised, rounded, q, a
    <3> QED BY <2>1, <2>3, <3>3, <3>4
  <2> QED BY <2>4, <2>5, <2>6
<1> QED BY <1>3, <1>4, <1>5

\* What all open positions cost at their entry prices.
CostOf(accountPositions) ==
  SumFunction([u \in Users |-> accountPositions[u].average * accountPositions[u].quantity])

\* One side of a trade, for the maps of positions before and after it.
MovesMoney(before, after, user, fill, price) ==
  /\ after \in [Users -> PositionRecord]
  /\ \A v \in Users \ {user} : after[v] = before[v]
  /\ AccountDelta(before[user], fill, price) \in Int
  /\ RoundedOff(before[user], fill, price) \in Int
  /\ CostOf(before) \in Int /\ CostOf(after) \in Int
  /\ AccountDelta(before[user], fill, price) - CostOf(after) + CostOf(before)
       = RoundedOff(before[user], fill, price) - price * fill

\* One fill moves the account's ledger by what it moves the cost of its position.
LEMMA FillMovesMoney ==
  ASSUME NEW acc, acc.positions \in [Users -> PositionRecord],
         NEW user \in Users, NEW meta \in Metadata, NEW lots \in Nat, NEW price \in Nat
  PROVE  MovesMoney(acc.positions, FillAccount(acc, user, meta, lots, price).positions,
                    user, SignedFill(meta.side, lots), price)
<1> DEFINE after == FillAccount(acc, user, meta, lots, price)
           p == acc.positions[user]
           fill == SignedFill(meta.side, lots)
           margin == AllocatedMargin(meta, lots, price)
           leverage == meta.leverage
           new == ApplyPositionFill(p, leverage, fill, price, margin)
           delta == RealisedPnl(p, fill, price)
           rounded == RoundedOff(p, fill, price)
<1>1. MayFill(p, leverage, fill, price, margin)
  <2>1. meta.leverage \in Nat BY DEF Metadata
  <2>2. fill \in Int BY DEF SignedFill
  <2>3. margin \in Nat BY Allocation
  <2>4. p \in PositionRecord OBVIOUS
  <2> HIDE DEF p, fill, margin
  <2> QED BY <2>1, <2>2, <2>3, <2>4 DEF MayFill
<1>2. after.positions = [acc.positions EXCEPT ![user] = new]
  BY DEF FillAccount
<1>3. p \in PositionRecord /\ fill \in Int
  BY <1>1 DEF MayFill
<1>4. AccountDelta(p, fill, price) = delta
  BY DEF AccountDelta
<1>5. /\ new \in PositionRecord
      /\ delta \in Int /\ rounded \in Int /\ Cost(p) \in Int /\ Cost(new) \in Int
      /\ delta - Cost(new) + Cost(p) = rounded - price * fill
  <2> HIDE DEF p, fill, margin, leverage
  <2>1. new \in PositionRecord BY <1>1, FillPosition
  <2> QED BY <1>1, <2>1, FillCost
<1> DEFINE before == [u \in Users |-> acc.positions[u].average * acc.positions[u].quantity]
           then == [u \in Users |-> after.positions[u].average * after.positions[u].quantity]
<1> HIDE DEF after, fill, margin, leverage, new, delta, rounded
<1>6. /\ after.positions \in [Users -> PositionRecord]
      /\ after.positions[user] = new
      /\ \A v \in Users \ {user} : after.positions[v] = acc.positions[v]
  BY <1>2, <1>5
<1>7. before[user] = Cost(p) /\ then[user] = Cost(new)
  BY <1>6 DEF Cost
<1>8. Updates(before, then, Users, user)
  <2>1. ASSUME NEW v \in Users PROVE before[v] \in Int /\ then[v] \in Int
    <3>1. /\ acc.positions[v].average \in Int /\ acc.positions[v].quantity \in Int
          /\ after.positions[v].average \in Int /\ after.positions[v].quantity \in Int
      BY <1>6 DEF PositionRecord
    <3> QED BY <3>1, NaturalArithmetic
  <2>2. \A v \in Users \ {user} : then[v] = before[v]
    BY <1>6
  <2> HIDE DEF before, then
  <2> QED BY <2>1, <2>2 DEF Updates
<1>9. CostOf(acc.positions) = SumFunctionOnSet(before, Users)
      /\ CostOf(after.positions) = SumFunctionOnSet(then, Users)
  BY DEF CostOf, SumFunction
<1> DEFINE c == CostOf(acc.positions)
           d == CostOf(after.positions)
<1>10. c \in Int /\ d = c - Cost(p) + Cost(new)
  <2> HIDE DEF before, then, p
  <2>1. IsFiniteSet(Users) BY ConstantTypes
  <2> QED BY <1>7, <1>8, <1>9, <2>1, SumOfUpdate
<1> DEFINE paid == price * fill
<1>11. paid \in Int
  BY <1>3, NaturalArithmetic
<1>12. delta - d + c = rounded - paid /\ d \in Int
  <2>1. delta - Cost(new) + Cost(p) = rounded - paid BY <1>5
  <2> HIDE DEF c, d, paid, p
  <2> QED BY <1>5, <1>10, <1>11, <2>1
<1> HIDE DEF c, d, paid
<1>13. MovesMoney(acc.positions, after.positions, user, fill, price)
  BY <1>4, <1>5, <1>6, <1>10, <1>12 DEF MovesMoney, c, d, paid, rounded
<1> QED BY <1>13 DEF after, fill

\* MoneyIsConserved, said with the hidden sum CostOf.
LEMMA MoneyIsCostOf ==
  /\ MoneyIsConserved <=> money.realised - CostOf(positions) = money.rounded
  /\ MoneyIsConserved' <=> money'.realised - CostOf(positions') = money'.rounded
BY DEF MoneyIsConserved, CostOf

\* A deleveraging shows the maker's side of the trade with other metadata,
\* which makes no difference to the taker's side as they are two accounts.
LEMMA TradeConservesMoney ==
  ASSUME IInv, Trading, AnnouncedTypeOK, MoneyIsConserved,
         NEW makerUser \in Users, NEW makerMeta \in Metadata,
         makerMeta.side = OppositeSide(taker.side),
         NEW lots \in Nat, NEW price \in Nat,
         NEW shown \in Metadata, shown.side = makerMeta.side,
         shown = makerMeta \/ makerUser # taker.user,
         ApplyTrade(makerUser, makerMeta, lots, price),
         AnnounceAccounts(makerUser, shown, lots, price)
  PROVE  money' \in [realised : Int, rounded : Int] /\ MoneyIsConserved'
<1> DEFINE start == [positions |-> positions, risks |-> risks]
           user == taker.user
           meta == taker.meta
           side == taker.side
<1>1. PICK made, done :
        /\ made = FillAccount(start, makerUser, makerMeta, lots, price)
        /\ done = FillAccount(made, user, meta, lots, price)
        /\ positions' = done.positions
  BY DEF ApplyTrade
<1>2. /\ user \in Users /\ meta \in Metadata /\ side \in Sides /\ meta.side = side
      /\ positions \in [Users -> PositionRecord]
  BY TakerType, InvariantParts DEF AccountsOK
<1> DEFINE maker == positions[makerUser]
           other == made.positions[user]
           in == SignedFill(makerMeta.side, lots)
           out == SignedFill(meta.side, lots)
           pre == FillAccount(start, makerUser, shown, lots, price)
           first == AccountDelta(maker, in, price)
           second == AccountDelta(other, out, price)
           round1 == RoundedOff(maker, in, price)
           round2 == RoundedOff(other, out, price)
           cost0 == CostOf(positions)
           cost1 == CostOf(made.positions)
           cost2 == CostOf(done.positions)
<1>3. start.positions = positions
  OBVIOUS
<1>a. MovesMoney(positions, made.positions, makerUser, in, price)
  <2> HIDE DEF start
  <2> QED BY <1>1, <1>2, <1>3, FillMovesMoney
<1>b. MovesMoney(made.positions, done.positions, user, out, price)
  <2>1. made.positions \in [Users -> PositionRecord] BY <1>a DEF MovesMoney
  <2> HIDE DEF user, meta, start
  <2> QED BY <1>1, <1>2, <2>1, FillMovesMoney
<1>c. MovesMoney(positions, pre.positions, makerUser, SignedFill(shown.side, lots), price)
  <2> HIDE DEF start
  <2> QED BY <1>1, <1>2, <1>3, FillMovesMoney
<1>4. pre.positions[user] = other
  <2>1. CASE shown = makerMeta
    BY <1>1, <2>1
  <2>2. CASE makerUser # user
    <3> HIDE DEF pre, user
    <3>1. pre.positions[user] = positions[user]
      BY <1>c, <1>2, <2>2 DEF MovesMoney
    <3>2. made.positions[user] = positions[user]
      BY <1>a, <1>2, <2>2 DEF MovesMoney
    <3> QED BY <3>1, <3>2
  <2> QED BY <2>1, <2>2
<1>5. money' = [realised |-> money.realised + first + second,
                rounded |-> money.rounded + round1 + round2]
  <2>1. SignedFill(shown.side, lots) = in
    OBVIOUS
  <2> QED BY <1>4, <2>1 DEF AnnounceAccounts
<1>6. /\ made.positions \in [Users -> PositionRecord]
      /\ first \in Int /\ round1 \in Int /\ cost0 \in Int /\ cost1 \in Int
      /\ first - cost1 + cost0 = round1 - price * in
  <2> HIDE DEF in
  <2> QED BY <1>a DEF MovesMoney
<1>7. /\ second \in Int /\ round2 \in Int /\ cost2 \in Int
      /\ second - cost2 + cost1 = round2 - price * out
  <2> HIDE DEF out, user
  <2> QED BY <1>b DEF MovesMoney
<1>8. out \in Int /\ in = -out
  <2> HIDE DEF side
  <2> QED BY <1>2, OppositeFills DEF side
<1> DEFINE paid == price * out
<1>9. paid \in Int /\ price * in = -paid
  <2> HIDE DEF in, out
  <2> QED BY <1>8, ProductLaws
<1>10. money.realised \in Int /\ money.rounded \in Int
       /\ money.realised - cost0 = money.rounded
  BY MoneyIsCostOf DEF AnnouncedTypeOK
<1> DEFINE r == money.realised
           s == money.rounded
<1>11. /\ r + first + second \in Int /\ s + round1 + round2 \in Int
       /\ (r + first + second) - cost2 = s + round1 + round2
  <2>1. /\ r \in Int /\ s \in Int /\ r - cost0 = s
        /\ first - cost1 + cost0 = round1 - (-paid)
        /\ second - cost2 + cost1 = round2 - paid
    BY <1>6, <1>7, <1>9, <1>10
  <2> HIDE DEF r, s, first, second, round1, round2, cost0, cost1, cost2, paid
  <2> QED BY <1>6, <1>7, <1>9, <2>1
<1> HIDE DEF r, s, first, second, round1, round2, cost0, cost1, cost2
<1>12. money' = [realised |-> r + first + second, rounded |-> s + round1 + round2]
  BY <1>5 DEF r, s
<1>13. CostOf(positions') = cost2
  BY <1>1 DEF cost2
<1> DEFINE x == r + first + second
           y == s + round1 + round2
<1>14. money' = [realised |-> x, rounded |-> y] /\ x \in Int /\ y \in Int /\ x - cost2 = y
  BY <1>11, <1>12, Zenon
<1> HIDE DEF x, y
<1>15. money' \in [realised : Int, rounded : Int]
  BY <1>14
<1>16. money'.realised = x /\ money'.rounded = y
  BY <1>14
<1>17. money'.realised - CostOf(positions') = money'.rounded
  BY <1>13, <1>14, <1>16
<1>18. MoneyIsConserved'
  BY <1>17, MoneyIsCostOf, Zenon
<1> QED BY <1>15, <1>18

(***************************************************************************)
(* What is told of the orders.                                             *)
(***************************************************************************)

TaleIs(tale, o, paid, released, opened, traded, settles) ==
  tale[o] = [settled |-> paid, released |-> released, opened |-> opened,
             traded |-> traded, settles |-> settles]

OtherTalesStay(tale, new, o) ==
  /\ new \in [OrderIds -> Tale]
  /\ \A other \in OrderIds \ {o} : new[other] = tale[other]

\* The fields of a tale.
LEMMA TaleType ==
  ASSUME NEW tale \in [OrderIds -> Tale], NEW o \in OrderIds
  PROVE  /\ tale[o].settled \in Nat /\ tale[o].released \in Nat
         /\ tale[o].opened \in Nat /\ tale[o].traded \in Nat
         /\ tale[o].settles \in BOOLEAN
         /\ TaleIs(tale, o, tale[o].settled, tale[o].released, tale[o].opened,
                   tale[o].traded, tale[o].settles)
<1>1. tale[o] \in Tale
  OBVIOUS
<1> QED BY <1>1 DEF Tale, TaleIs

\* A tale with one field written.
LEMMA TaleUpdates ==
  ASSUME NEW t \in Tale, NEW x
  PROVE  /\ [t EXCEPT !.settled = x]
              = [settled |-> x, released |-> t.released, opened |-> t.opened,
                 traded |-> t.traded, settles |-> t.settles]
         /\ [t EXCEPT !.released = x]
              = [settled |-> t.settled, released |-> x, opened |-> t.opened,
                 traded |-> t.traded, settles |-> t.settles]
         /\ [t EXCEPT !.opened = x]
              = [settled |-> t.settled, released |-> t.released, opened |-> x,
                 traded |-> t.traded, settles |-> t.settles]
         /\ [t EXCEPT !.traded = x]
              = [settled |-> t.settled, released |-> t.released, opened |-> t.opened,
                 traded |-> x, settles |-> t.settles]
         /\ [t EXCEPT !.settles = x]
              = [settled |-> t.settled, released |-> t.released, opened |-> t.opened,
                 traded |-> t.traded, settles |-> x]
<1>1. [t EXCEPT !.settled = x]
        = [settled |-> x, released |-> t.released, opened |-> t.opened,
           traded |-> t.traded, settles |-> t.settles]
  BY DEF Tale
<1>2. [t EXCEPT !.released = x]
        = [settled |-> t.settled, released |-> x, opened |-> t.opened,
           traded |-> t.traded, settles |-> t.settles]
  BY DEF Tale
<1>3. [t EXCEPT !.opened = x]
        = [settled |-> t.settled, released |-> t.released, opened |-> x,
           traded |-> t.traded, settles |-> t.settles]
  BY DEF Tale
<1>4. [t EXCEPT !.traded = x]
        = [settled |-> t.settled, released |-> t.released, opened |-> t.opened,
           traded |-> x, settles |-> t.settles]
  BY DEF Tale
<1>5. [t EXCEPT !.settles = x]
        = [settled |-> t.settled, released |-> t.released, opened |-> t.opened,
           traded |-> t.traded, settles |-> x]
  BY DEF Tale
<1> QED BY <1>1, <1>2, <1>3, <1>4, <1>5

\* A settlement adds the lots of the fill, and its margin if fills settle.
LEMMA SettleUpdates ==
  ASSUME NEW tale \in [OrderIds -> Tale], NEW o \in OrderIds,
         NEW meta \in Metadata, NEW lots \in Nat, NEW price \in Nat
  PROVE  /\ OtherTalesStay(tale, Settle(tale, o, meta, lots, price), o)
         /\ TaleIs(Settle(tale, o, meta, lots, price), o,
              tale[o].settled
                + (IF tale[o].settles THEN AllocatedMargin(meta, lots, price) ELSE 0),
              tale[o].released, tale[o].opened, tale[o].traded + lots, tale[o].settles)
<1> DEFINE t == tale[o]
           new == Settle(tale, o, meta, lots, price)
           amount == IF t.settles THEN AllocatedMargin(meta, lots, price) ELSE 0
           x == t.settled + amount
           y == t.traded + lots
           first == [t EXCEPT !.traded = y]
           second == [first EXCEPT !.settled = x]
           third == [t EXCEPT !.traded = y, !.settled = x]
<1>1. t \in Tale /\ t.settled \in Nat /\ t.released \in Nat /\ t.opened \in Nat
      /\ t.traded \in Nat /\ t.settles \in BOOLEAN
  BY DEF Tale
<1>2. amount \in Nat
  BY Allocation
<1>3. x \in Nat /\ y \in Nat
  <2> HIDE DEF t, amount
  <2> QED BY <1>1, <1>2
<1>4. new = [tale EXCEPT ![o] = third]
  BY DEF Settle, Settlement
<1>5. third = second
  OBVIOUS
<1> HIDE DEF t, x, y, new, third, second, amount
<1>6. first = [settled |-> t.settled, released |-> t.released, opened |-> t.opened,
               traded |-> y, settles |-> t.settles]
  BY <1>1, TaleUpdates
<1>7. first \in Tale
  BY <1>1, <1>3, <1>6 DEF Tale
<1> HIDE DEF first
<1>8. second = [settled |-> x, released |-> first.released, opened |-> first.opened,
                traded |-> first.traded, settles |-> first.settles]
  BY <1>7, TaleUpdates DEF second
<1>9. second = [settled |-> x, released |-> t.released, opened |-> t.opened,
                traded |-> y, settles |-> t.settles]
  BY <1>6, <1>8
<1>10. second \in Tale
  BY <1>1, <1>3, <1>9 DEF Tale
<1>11. OtherTalesStay(tale, new, o)
  BY <1>4, <1>5, <1>10 DEF OtherTalesStay
<1>12. new[o] = second
  BY <1>4, <1>5
<1> QED BY <1>9, <1>11, <1>12 DEF TaleIs, new, x, y, t, amount

\* A release adds its amount.
LEMMA ReleaseUpdates ==
  ASSUME NEW tale \in [OrderIds -> Tale], NEW o \in OrderIds, NEW amount \in Nat
  PROVE  /\ OtherTalesStay(tale, Release(tale, o, amount), o)
         /\ TaleIs(Release(tale, o, amount), o, tale[o].settled,
                   tale[o].released + amount, tale[o].opened, tale[o].traded,
                   tale[o].settles)
<1> DEFINE t == tale[o]
           new == Release(tale, o, amount)
           x == t.released + amount
           after == [t EXCEPT !.released = x]
<1>1. t \in Tale /\ t.settled \in Nat /\ t.released \in Nat /\ t.opened \in Nat
      /\ t.traded \in Nat /\ t.settles \in BOOLEAN /\ x \in Nat
  BY DEF Tale
<1>2. new = [tale EXCEPT ![o] = after]
  BY DEF Release
<1> HIDE DEF t, x, new
<1>3. after = [settled |-> t.settled, released |-> x, opened |-> t.opened,
               traded |-> t.traded, settles |-> t.settles]
  BY <1>1, TaleUpdates
<1>4. after \in Tale
  BY <1>1, <1>3 DEF Tale
<1> HIDE DEF after
<1>5. OtherTalesStay(tale, new, o)
  BY <1>2, <1>4 DEF OtherTalesStay
<1>6. new[o] = after
  BY <1>2
<1> QED BY <1>3, <1>5, <1>6 DEF TaleIs, new, x, t

\* An order is announced as open, or no longer open.
LEMMA OpenUpdates ==
  ASSUME NEW tale \in [OrderIds -> Tale], NEW o \in OrderIds, NEW q \in Nat
  PROVE  /\ OtherTalesStay(tale, [tale EXCEPT ![o].opened = q], o)
         /\ TaleIs([tale EXCEPT ![o].opened = q], o, tale[o].settled,
                   tale[o].released, q, tale[o].traded, tale[o].settles)
<1> DEFINE t == tale[o]
           new == [tale EXCEPT ![o].opened = q]
           after == [t EXCEPT !.opened = q]
<1>1. t \in Tale /\ t.settled \in Nat /\ t.released \in Nat /\ t.opened \in Nat
      /\ t.traded \in Nat /\ t.settles \in BOOLEAN
  BY DEF Tale
<1>2. new = [tale EXCEPT ![o] = after]
  OBVIOUS
<1> HIDE DEF t, new
<1>3. after = [settled |-> t.settled, released |-> t.released, opened |-> q,
               traded |-> t.traded, settles |-> t.settles]
  BY <1>1, TaleUpdates
<1>4. after \in Tale
  BY <1>1, <1>3 DEF Tale
<1> HIDE DEF after
<1>5. OtherTalesStay(tale, new, o)
  BY <1>2, <1>4 DEF OtherTalesStay
<1>6. new[o] = after
  BY <1>2
<1> QED BY <1>3, <1>5, <1>6 DEF TaleIs, new, t

\* It is decided whether the fills of an order settle.
LEMMA SettlesUpdates ==
  ASSUME NEW tale \in [OrderIds -> Tale], NEW o \in OrderIds, NEW b \in BOOLEAN
  PROVE  /\ OtherTalesStay(tale, [tale EXCEPT ![o].settles = b], o)
         /\ TaleIs([tale EXCEPT ![o].settles = b], o, tale[o].settled,
                   tale[o].released, tale[o].opened, tale[o].traded, b)
<1> DEFINE t == tale[o]
           new == [tale EXCEPT ![o].settles = b]
           after == [t EXCEPT !.settles = b]
<1>1. t \in Tale /\ t.settled \in Nat /\ t.released \in Nat /\ t.opened \in Nat
      /\ t.traded \in Nat /\ t.settles \in BOOLEAN
  BY DEF Tale
<1>2. new = [tale EXCEPT ![o] = after]
  OBVIOUS
<1> HIDE DEF t, new
<1>3. after = [settled |-> t.settled, released |-> t.released, opened |-> t.opened,
               traded |-> t.traded, settles |-> b]
  BY <1>1, TaleUpdates
<1>4. after \in Tale
  BY <1>1, <1>3 DEF Tale
<1> HIDE DEF after
<1>5. OtherTalesStay(tale, new, o)
  BY <1>2, <1>4 DEF OtherTalesStay
<1>6. new[o] = after
  BY <1>2
<1> QED BY <1>3, <1>5, <1>6 DEF TaleIs, new, t

(***************************************************************************)
(* Steps that tell nothing of the orders.                                  *)
(***************************************************************************)

\* The conjuncts of AInv, one by one.
LEMMA AnnouncedParts ==
  ASSUME AInv
  PROVE  /\ told \in [OrderIds -> Tale] /\ money \in [realised : Int, rounded : Int]
         /\ excused \subseteq Users
         /\ UntoldOK /\ WalletOK /\ OpenOK /\ TriedOK /\ MoneyIsConserved
BY DEF AInv, AnnouncedTypeOK

\* Neither the orders nor the tales change.
LEMMA TalesStay ==
  ASSUME AInv, UNCHANGED <<told, book, metadata, ledger, processed>>,
         Placing' => Placing /\ taker' = taker
  PROVE  UntoldOK' /\ WalletOK' /\ OpenOK'
<1>1. UntoldOK'
  BY AnnouncedParts DEF UntoldOK
<1>2. WalletOK'
  BY AnnouncedParts DEF WalletOK, WalletAgrees
<1>3. OpenOK'
  BY AnnouncedParts DEF OpenOK, OpenAgrees, Resting
<1> QED BY <1>1, <1>2, <1>3

\* No trade, and nothing to tell of it.
LEMMA QuietStep ==
  ASSUME AInv, UNCHANGED <<told, money, book, metadata, ledger, processed, positions>>,
         Placing' => Placing /\ taker' = taker,
         excused' \subseteq Users, TriedOK'
  PROVE  AInv'
<1>1. UntoldOK' /\ WalletOK' /\ OpenOK'
  BY TalesStay
<1>2. MoneyIsConserved'
  BY AnnouncedParts DEF MoneyIsConserved
<1>3. AnnouncedTypeOK'
  BY AnnouncedParts DEF AnnouncedTypeOK
<1> QED BY <1>1, <1>2, <1>3 DEF AInv

\* A liquidation begins with its own order, or does not.
LEMMA LiquidationBegins ==
  ASSUME NEW u, NEW lots, NEW price, NEW ids,
         ExecuteLiquidation(SyntheticOrder(u, lots, price), ids)
  PROVE  \/ pc' \in {"matching", "deleveraging"} /\ taker'.kind = "liquidation"
         \/ pc' = pc /\ taker' = taker
<1>1. SyntheticOrder(u, lots, price).kind = "liquidation"
  BY DEF SyntheticOrder
<1> QED BY <1>1 DEF ExecuteLiquidation

\* A requested liquidation excuses every account.
LEMMA LiquidatePositionAnnounced ==
  ASSUME IInv, AInv, NEW l \in LiquidateInputs, LiquidatePosition(l), NoteRequest
  PROVE  AInv'
<1>1. /\ pc = "idle" /\ excused' = Users
      /\ UNCHANGED <<book, metadata, ledger, processed, positions, scan, told, money>>
  BY DEF LiquidatePosition, NoteRequest, orders, accounts
<1>2. \/ pc' \in {"matching", "deleveraging"} /\ taker'.kind = "liquidation"
      \/ pc' = pc /\ taker' = taker
  BY LiquidationBegins DEF LiquidatePosition
<1>3. ~Placing'
  BY <1>1, <1>2 DEF Placing
<1>4. TriedOK'
  <2>1. NoneLeft' BY <1>1 DEF NoneLeft
  <2>2. pc' # "scanning" BY <1>1, <1>2
  <2> QED BY <1>1, <2>1, <2>2 DEF TriedOK
<1> QED BY <1>1, <1>3, <1>4, QuietStep

\* A loop begins: an account may be liquidatable until it ends.
LEMMA ScanBegins ==
  ASSUME AInv, NEW startup, BeginScan(startup), excused' = excused
  PROVE  ~Placing' /\ excused' \subseteq Users /\ TriedOK'
<1>1. pc' = "scanning" /\ scan' = [running |-> TRUE, startup |-> startup, attempted |-> {}]
  BY DEF BeginScan, NoScan
<1>2. ~Placing' /\ ~Trading'
  BY <1>1 DEF Placing, Trading
<1>3. scan'.running
  BY <1>1
<1> QED BY <1>1, <1>2, <1>3, AnnouncedParts DEF TriedOK

\* update_mark_price announces nothing the readers of AInv keep.
LEMMA UpdateMarkAnnounced ==
  ASSUME IInv, AInv, NEW p \in MarkPrices, UpdateMark(p), UNCHANGED announced
  PROVE  AInv'
<1>1. /\ UNCHANGED <<book, metadata, ledger, processed, positions, told, money, excused>>
      /\ BeginScan(FALSE)
  BY DEF UpdateMark, orders, announced
<1> QED BY <1>1, ScanBegins, QuietStep

\* A funding tick leaves what was announced as it was.
LEMMA SettleFundingAnnounced ==
  ASSUME IInv, AInv, SettleFunding, UNCHANGED announced
  PROVE  AInv'
<1>1. /\ UNCHANGED <<book, metadata, ledger, processed, positions, told, money, excused>>
      /\ BeginScan(FALSE)
  BY DEF SettleFunding, orders, announced
<1> QED BY <1>1, ScanBegins, QuietStep

\* A funding rate leaves what was announced as it was.
LEMMA UpdateFundingAnnounced ==
  ASSUME IInv, AInv, NEW f \in FundingRates, UpdateFunding(f), UNCHANGED announced
  PROVE  AInv'
<1>1. /\ pc = "idle"
      /\ UNCHANGED <<book, metadata, ledger, processed, positions, risks, pc, taker, scan,
                     told, money, excused>>
  BY DEF UpdateFunding, orders, accounts, announced
<1>2. ~Placing'
  BY <1>1 DEF Placing
<1>3. TriedOK'
  BY <1>1, AnnouncedParts DEF TriedOK, NoneLeft, Trading, Placing
<1> QED BY <1>1, <1>2, <1>3, AnnouncedParts, QuietStep

\* Liquidation: the book is done, the liquidation is done, another begins.
LEMMA LiquidationLoopAnnounced ==
  ASSUME IInv, AInv, UNCHANGED announced,
         FinishBook \/ FinishLiquidation \/ AttemptLiquidation
  PROVE  AInv'
<1>1. UNCHANGED <<book, metadata, ledger, processed, positions, told, money, excused>>
  BY DEF FinishBook, FinishLiquidation, AttemptLiquidation, orders, accounts, announced
<1>2. CASE FinishBook
  <2>1. /\ pc = "matching" /\ taker.kind = "liquidation" /\ pc' = "deleveraging"
        /\ taker' = taker /\ scan' = scan
    BY <1>2 DEF FinishBook
  <2>2. ~Placing'
    BY <2>1 DEF Placing
  <2>3. TriedOK'
    BY <1>1, <2>1, <2>2, AnnouncedParts DEF TriedOK, Trading
  <2> QED BY <1>1, <2>2, <2>3, AnnouncedParts, QuietStep
<1>3. CASE FinishLiquidation
  <2>1. /\ pc = "deleveraging" /\ pc' = (IF scan.running THEN "scanning" ELSE "idle")
        /\ scan' = scan /\ risks' = risks
    BY <1>3 DEF FinishLiquidation, accounts
  <2>2. taker \in LiquidationOrder
    BY <2>1, InvariantParts DEF ThreadOK
  <2>3. taker.kind = "liquidation"
    BY <2>2 DEF LiquidationOrder
  <2>4. ~Placing' /\ ~Trading'
    BY <2>1 DEF Placing, Trading
  <2>5. ~scan.running => NoneLeft'
    <3>1. ~scan.running => excused = Users
      BY <2>1, <2>3, AnnouncedParts DEF TriedOK, Trading
    <3> QED BY <1>1, <3>1 DEF NoneLeft
  <2>6. TriedOK'
    BY <1>1, <2>1, <2>4, <2>5 DEF TriedOK
  <2> QED BY <1>1, <2>4, <2>6, AnnouncedParts, QuietStep
<1>4. CASE AttemptLiquidation
  <2>1. pc = "scanning" /\ taker = NoTaker
    BY <1>4, InvariantParts DEF AttemptLiquidation, ThreadOK
  <2>2. PICK u :
          /\ ExecuteLiquidation(SyntheticOrder(u, LiquidationLots(u, 0),
                                               LiquidationPrice(u, 0)),
                                AttemptIds(u))
          /\ scan' = [scan EXCEPT !.attempted = @ \cup {u}]
    BY <1>4 DEF AttemptLiquidation
  <2>7. \/ pc' \in {"matching", "deleveraging"} /\ taker'.kind = "liquidation"
        \/ pc' = pc /\ taker' = taker
    BY <2>2, LiquidationBegins
  <2>3. scan.running
    BY <2>1, AnnouncedParts DEF TriedOK
  <2>4. scan'.running
    BY <2>2, <2>3, InvariantParts DEF ThreadOK
  <2>5. ~Placing' /\ pc' # "idle"
    BY <2>1, <2>7 DEF Placing
  <2>6. TriedOK'
    BY <2>4, <2>5 DEF TriedOK
  <2> QED BY <1>1, <2>5, <2>6, AnnouncedParts, QuietStep
<1> QED BY <1>2, <1>3, <1>4

\* The loop ends with every liquidatable account attempted, or at its cap.
LEMMA EndScanAnnounced ==
  ASSUME IInv, AInv, EndScan, NoteLoopEnd
  PROVE  AInv'
<1>1. /\ UNCHANGED <<book, metadata, ledger, processed, positions, risks, told, money>>
      /\ pc' = "idle"
      /\ excused' = IF ScanCandidates = {} THEN scan.attempted ELSE Users
  BY DEF EndScan, NoteLoopEnd, orders, accounts
<1>2. ~Placing' /\ ~Trading'
  BY <1>1 DEF Placing, Trading
<1>3. excused' \subseteq Users
  BY <1>1, InvariantParts DEF ThreadOK
<1>4. NoneLeft'
  <2> SUFFICES ASSUME NEW u \in Users \ excused' PROVE risks[u].status # "LIQUIDATABLE"
    BY <1>1 DEF NoneLeft
  <2>1. ScanCandidates = {} /\ u \notin scan.attempted
    BY <1>1
  <2>2. risks[u].status = "LIQUIDATABLE" => positions[u].quantity # 0
    BY InvariantParts DEF FlatOK
  <2> QED BY <2>1, <2>2 DEF ScanCandidates
<1>5. TriedOK'
  BY <1>1, <1>2, <1>4 DEF TriedOK
<1> QED BY <1>1, <1>2, <1>3, <1>5, QuietStep


\* Deleveraging moves money as any trade, and tells nothing of the orders.
LEMMA DeleverageAnnounced ==
  ASSUME IInv, AInv, Deleverage, AnnounceAdl
  PROVE  AInv'
<1> DEFINE old == taker.meta
           shown == [old EXCEPT !.side = OppositeSide(@)]
           price == taker.price
<1>1. /\ UNCHANGED <<told, excused, book, metadata, ledger, processed, pc, scan>>
      /\ pc = "deleveraging"
      /\ AnnounceAccounts(Opponent, shown, AdlLots, price)
  BY DEF Deleverage, AnnounceAdl, orders, Opponent, AdlLots
<1>2. /\ Trading /\ taker \in LiquidationOrder
      /\ Opponent \in Users /\ Opponent # taker.user /\ AdlLots \in Nat
      /\ AdlMetadata \in Metadata /\ AdlMetadata.side = OppositeSide(taker.side)
      /\ ApplyTrade(Opponent, AdlMetadata, AdlLots, price)
      /\ taker' = [taker EXCEPT !.meta = AfterFill(@, AdlLots, taker.price),
                                !.traded = TRUE]
  BY DeleverageStep
<1>3. old \in Metadata /\ old.side = taker.side /\ taker.side \in Sides /\ price \in Nat
  BY <1>2, TakerType DEF LiquidationOrder
<1>4. shown \in Metadata /\ shown.side = AdlMetadata.side
  <2> HIDE DEF old
  <2>1. OppositeSide(old.side) \in Sides BY DEF OppositeSide, Sides
  <2>2. shown \in Metadata /\ shown.side = OppositeSide(old.side)
    BY <1>3, <2>1 DEF Metadata
  <2> QED BY <1>2, <1>3, <2>2
<1> HIDE DEF shown, price, old
<1>5. money' \in [realised : Int, rounded : Int] /\ MoneyIsConserved'
  BY <1>1, <1>2, <1>3, <1>4, TradeConservesMoney DEF AInv
<1>6. ~Placing' /\ pc' = "deleveraging"
  BY <1>1 DEF Placing
<1>7. UntoldOK' /\ WalletOK' /\ OpenOK'
  BY <1>1, <1>6, TalesStay
<1>8. TriedOK'
  <2>1. taker.kind = "liquidation" BY <1>2 DEF LiquidationOrder
  <2> QED BY <1>1, <1>2, <1>6, <2>1, AnnouncedParts DEF TriedOK
<1>9. AnnouncedTypeOK'
  BY <1>1, <1>5, AnnouncedParts DEF AnnouncedTypeOK
<1> QED BY <1>5, <1>7, <1>8, <1>9 DEF AInv

\* A restart keeps what the tales are about.
LEMMA RestartAnnounced ==
  ASSUME IInv, AInv, Restart, UNCHANGED announced
  PROVE  AInv'
<1>1. /\ UNCHANGED <<told, money, excused, processed, positions>>
      /\ BeginScan(TRUE)
      /\ metadata' = [o \in OrderIds |-> IF o \in Resting THEN metadata[o] ELSE Nothing]
  BY DEF Restart, accounts, announced
<1>2. ~Placing' /\ excused' \subseteq Users /\ TriedOK'
  BY <1>1, ScanBegins
<1>3. Resting' = Resting
      /\ \A o \in OrderIds : /\ ledger'[o].reserved = ledger[o].reserved
                             /\ ledger'[o].charged = ledger[o].charged
                             /\ ledger'[o].returned = ledger[o].returned
                             /\ o \in Resting => book'[o].remaining = book[o].remaining
  <2>1. Resting' = Resting BY RestartStep
  <2>2. ASSUME NEW o \in OrderIds
        PROVE  /\ ledger'[o].reserved = ledger[o].reserved
               /\ ledger'[o].charged = ledger[o].charged
               /\ ledger'[o].returned = ledger[o].returned
               /\ o \in Resting => book'[o].remaining = book[o].remaining
    <3>1. o \in Resting => book'[o].remaining = book[o].remaining
      BY RestartStep DEF Resting
    <3>2. CASE metadata[o] = Nothing \/ o \in Resting
      <4>1. ledger'[o] = ledger[o] BY <3>2, RestartStep
      <4> QED BY <3>1, <4>1
    <3>3. CASE ~(metadata[o] = Nothing \/ o \in Resting)
      <4>1. EntryIs(ledger', o, ledger[o].reserved, ledger[o].charged,
                    ledger[o].returned, metadata[o].unspent)
        BY <3>3, RestartStep
      <4> QED BY <3>1, <4>1 DEF EntryIs
    <3> QED BY <3>2, <3>3
  <2> QED BY <2>1, <2>2
<1>4. UntoldOK'
  BY <1>1, AnnouncedParts DEF UntoldOK
<1>5. WalletOK'
  <2>1. \A o \in OrderIds : metadata'[o] # Nothing => metadata'[o] = metadata[o]
    BY <1>1
  <2> QED BY <1>1, <1>2, <1>3, <2>1, AnnouncedParts DEF WalletOK, WalletAgrees
<1>6. OpenOK'
  BY <1>1, <1>2, <1>3, AnnouncedParts DEF OpenOK, OpenAgrees
<1>7. MoneyIsConserved' /\ AnnouncedTypeOK'
  BY <1>1, <1>2, AnnouncedParts DEF MoneyIsConserved, AnnouncedTypeOK
<1> QED BY <1>2, <1>4, <1>5, <1>6, <1>7 DEF AInv

(***************************************************************************)
(* Steps about one order.                                                  *)
(***************************************************************************)

\* The tale of the order agrees with what became of it, and nothing else
\* happened.
LEMMA OneOrderStep ==
  ASSUME AInv, NEW o \in OrderIds,
         OtherTalesStay(told, told', o), OthersStay(ledger, ledger', o),
         \A other \in OrderIds \ {o} :
           metadata'[other] = metadata[other] /\ book'[other] = book[other],
         o \in processed', processed \subseteq processed',
         WalletAgrees(o)', OpenAgrees(o)',
         Placing' => /\ taker'.meta.reserved = ledger'[taker'.orderId].reserved
                     /\ told'[taker'.orderId].opened = 0
                     /\ ~taker'.reduceOnly =>
                          told'[taker'.orderId].traded + taker'.meta.remaining
                            = taker'.meta.original,
         UNCHANGED <<money, excused, positions>>, TriedOK'
  PROVE  AInv'
<1>1. ASSUME NEW p \in OrderIds \ {o} PROVE WalletAgrees(p)' /\ OpenAgrees(p)'
  <2>1. /\ told'[p] = told[p] /\ ledger'[p] = ledger[p]
        /\ metadata'[p] = metadata[p] /\ book'[p] = book[p]
    BY DEF OtherTalesStay, OthersStay
  <2>2. p \in Resting' <=> p \in Resting
    BY <2>1 DEF Resting
  <2>3. WalletAgrees(p) /\ OpenAgrees(p)
    BY AnnouncedParts DEF WalletOK, OpenOK
  <2> QED BY <2>1, <2>2, <2>3 DEF WalletAgrees, OpenAgrees
<1>2. \A p \in OrderIds : WalletAgrees(p)' /\ OpenAgrees(p)'
  BY <1>1
<1>3. WalletOK'
  BY <1>2 DEF WalletOK
<1>4. OpenOK'
  BY <1>2 DEF OpenOK
<1>5. UntoldOK'
  BY AnnouncedParts DEF UntoldOK, OtherTalesStay
<1>6. MoneyIsConserved'
  BY AnnouncedParts DEF MoneyIsConserved
<1>7. AnnouncedTypeOK'
  BY AnnouncedParts DEF AnnouncedTypeOK, OtherTalesStay
<1> QED BY <1>3, <1>4, <1>5, <1>6, <1>7 DEF AInv

\* A refusal releases what was reserved.
LEMMA RejectPlaceAnnounced ==
  ASSUME IInv, AInv, NEW c \in PlaceInputs, RejectPlace(c), AnnounceRefusal(c)
  PROVE  AInv'
<1> DEFINE o == c.orderId
           r == c.reserved
           first == [ledger EXCEPT ![o].reserved = r]
           second == [first EXCEPT ![o].returned = r]
<1>1. /\ pc = "idle" /\ o \in OrderIds \ processed /\ r \in Nat
      /\ processed' = processed \cup {o}
      /\ UNCHANGED <<money, excused, book, metadata, positions, risks, pc, taker, scan>>
      /\ told' = Release(told, o, r)
  BY PlaceInputType DEF RejectPlace, AnnounceRefusal, orders, accounts
<1>2. ledger' = second
  BY DEF RejectPlace
<1>3. /\ metadata[o] = Nothing /\ o \notin Resting
      /\ ledger[o] = [reserved |-> 0, charged |-> 0, returned |-> 0, dropped |-> 0]
      /\ told[o] = [settled |-> 0, released |-> 0, opened |-> 0, traded |-> 0,
                    settles |-> FALSE]
  BY <1>1, UnusedOrder, AnnouncedParts DEF UntoldOK
<1>4. told \in [OrderIds -> Tale] /\ ledger \in [OrderIds -> Ledger]
  BY AnnouncedParts, InvariantParts DEF OrdersOK
<1>5. /\ OthersStay(ledger, ledger', o)
      /\ EntryIs(ledger', o, r, 0, r, 0)
  <2>1. /\ OthersStay(ledger, first, o)
        /\ EntryIs(first, o, r, ledger[o].charged, ledger[o].returned, ledger[o].dropped)
    BY <1>1, <1>4, ReserveUpdates
  <2>2. first \in [OrderIds -> Ledger] BY <2>1 DEF OthersStay
  <2>3. first[o] = [reserved |-> r, charged |-> 0, returned |-> 0, dropped |-> 0]
    BY <1>3, <2>1 DEF EntryIs
  <2>4. second = [first EXCEPT ![o] = [first[o] EXCEPT !.returned = r]]
    OBVIOUS
  <2>5. [first[o] EXCEPT !.returned = r]
          = [reserved |-> r, charged |-> 0, returned |-> r, dropped |-> 0]
    BY <2>3
  <2>6. [reserved |-> r, charged |-> 0, returned |-> r, dropped |-> 0] \in Ledger
    BY <1>1 DEF Ledger
  <2> HIDE DEF first
  <2>7. second \in [OrderIds -> Ledger]
        /\ second[o] = [reserved |-> r, charged |-> 0, returned |-> r, dropped |-> 0]
        /\ \A other \in OrderIds \ {o} : second[other] = first[other]
    BY <1>1, <2>2, <2>4, <2>5, <2>6
  <2> QED BY <1>2, <2>1, <2>7 DEF OthersStay, EntryIs
<1>6. /\ OtherTalesStay(told, told', o)
      /\ TaleIs(told', o, told[o].settled, told[o].released + r, told[o].opened,
                told[o].traded, told[o].settles)
  BY <1>1, <1>4, ReleaseUpdates
<1>7. told'[o] = [settled |-> 0, released |-> r, opened |-> 0, traded |-> 0,
                  settles |-> FALSE]
  <2> HIDE DEF o, r
  <2>1. told[o].released + r = r BY <1>1, <1>3
  <2>2. /\ told[o].settled = 0 /\ told[o].opened = 0 /\ told[o].traded = 0
        /\ told[o].settles = FALSE
    BY <1>3
  <2> QED BY <1>6, <2>1, <2>2 DEF TaleIs
<1> HIDE DEF o, r
<1>8. WalletAgrees(o)' /\ OpenAgrees(o)'
  <2>1. o \notin Resting' BY <1>1, <1>3 DEF Resting
  <2>2. metadata'[o] = Nothing BY <1>1, <1>3
  <2> QED BY <1>5, <1>7, <2>1, <2>2 DEF WalletAgrees, OpenAgrees, EntryIs
<1>9. ~Placing' /\ TriedOK'
  BY <1>1, AnnouncedParts DEF TriedOK, NoneLeft, Trading, Placing
<1> QED BY <1>1, <1>5, <1>6, <1>8, <1>9, OneOrderStep

\* It is known from the start whether the fills of an order settle.
LEMMA AcceptPlaceAnnounced ==
  ASSUME IInv, AInv, NEW c \in PlaceInputs, AcceptPlace(c), AnnounceAcceptance(c)
  PROVE  AInv'
<1> DEFINE o == c.orderId
           r == c.reserved
           b == ~c.reduceOnly
<1>1. /\ pc = "idle" /\ pc' = "matching" /\ o \in OrderIds \ processed /\ r \in Nat
      /\ b \in BOOLEAN
      /\ processed' = processed \cup {o}
      /\ UNCHANGED <<money, excused, book, metadata, positions, risks, scan>>
      /\ told' = [told EXCEPT ![o].settles = b]
      /\ ledger' = [ledger EXCEPT ![o].reserved = r]
  BY PlaceInputType DEF AcceptPlace, AnnounceAcceptance, orders, accounts
<1>2. /\ taker'.kind = "place" /\ taker'.orderId = o /\ taker'.traded = FALSE
      /\ taker'.meta = NewMetadata(c)
  BY DEF AcceptPlace
<1>3. /\ taker'.meta.reserved = r
      /\ taker'.meta.remaining = taker'.meta.original /\ taker'.meta.original \in Nat
  BY <1>2, PlaceInputType DEF NewMetadata
<1>4. /\ metadata[o] = Nothing /\ o \notin Resting
      /\ ledger[o] = [reserved |-> 0, charged |-> 0, returned |-> 0, dropped |-> 0]
      /\ told[o] = [settled |-> 0, released |-> 0, opened |-> 0, traded |-> 0,
                    settles |-> FALSE]
  BY <1>1, UnusedOrder, AnnouncedParts DEF UntoldOK
<1>5. told \in [OrderIds -> Tale] /\ ledger \in [OrderIds -> Ledger]
  BY AnnouncedParts, InvariantParts DEF OrdersOK
<1> HIDE DEF o, r, b
<1>6. /\ OthersStay(ledger, ledger', o)
      /\ EntryIs(ledger', o, r, ledger[o].charged, ledger[o].returned,
                 ledger[o].dropped)
  BY <1>1, <1>5, ReserveUpdates
<1>7. /\ OtherTalesStay(told, told', o)
      /\ TaleIs(told', o, told[o].settled, told[o].released, told[o].opened,
                told[o].traded, b)
  BY <1>1, <1>5, SettlesUpdates
<1>8. /\ told'[o] = [settled |-> 0, released |-> 0, opened |-> 0, traded |-> 0,
                     settles |-> b]
      /\ ledger'[o] = [reserved |-> r, charged |-> 0, returned |-> 0, dropped |-> 0]
  BY <1>4, <1>6, <1>7 DEF TaleIs, EntryIs
<1>9. WalletAgrees(o)' /\ OpenAgrees(o)'
  <2>1. o \notin Resting' BY <1>1, <1>4 DEF Resting
  <2>2. metadata'[o] = Nothing BY <1>1, <1>4
  <2> QED BY <1>8, <2>1, <2>2 DEF WalletAgrees, OpenAgrees
<1>10. /\ taker'.meta.reserved = ledger'[taker'.orderId].reserved
       /\ told'[taker'.orderId].opened = 0
       /\ told'[taker'.orderId].traded + taker'.meta.remaining = taker'.meta.original
  BY <1>2, <1>3, <1>8
<1>11. TriedOK'
  <2>1. NoneLeft' BY <1>1, AnnouncedParts DEF TriedOK, NoneLeft
  <2>2. taker'.kind # "liquidation" BY <1>2
  <2> QED BY <1>1, <2>1, <2>2 DEF TriedOK
<1> QED BY <1>1, <1>6, <1>7, <1>9, <1>10, <1>11, OneOrderStep

\* A cancel closes the order and releases what is unspent.
LEMMA CancelOrderAnnounced ==
  ASSUME IInv, AInv, NEW o \in OrderIds, CancelOrder(o), AnnounceCancel(o)
  PROVE  AInv'
<1> DEFINE amount == metadata[o].unspent
           closed == [told EXCEPT ![o].opened = 0]
<1>1. /\ pc = "idle" /\ o \in Resting
      /\ UNCHANGED <<money, excused, positions, risks, pc, taker, scan, processed>>
      /\ book' = [book EXCEPT ![o] = Nothing]
      /\ metadata' = [metadata EXCEPT ![o] = Nothing]
      /\ ledger' = Return(ledger, o, amount)
      /\ told' = Release(closed, o, amount)
  BY DEF CancelOrder, AnnounceCancel, accounts
<1>2. metadata[o] \in Metadata /\ o \in processed
  BY <1>1, RestingType
<1>3. amount \in Nat
  BY <1>2 DEF Metadata
<1>4. told \in [OrderIds -> Tale] /\ ledger \in [OrderIds -> Ledger]
      /\ book \in [OrderIds -> RestingOrder \cup {Nothing}]
      /\ metadata \in [OrderIds -> Metadata \cup {Nothing}]
  BY AnnouncedParts, InvariantParts DEF OrdersOK
<1> HIDE DEF amount, closed
<1>5. /\ OthersStay(ledger, ledger', o)
      /\ EntryIs(ledger', o, ledger[o].reserved, ledger[o].charged,
                 ledger[o].returned + amount, ledger[o].dropped)
  BY <1>1, <1>3, <1>4, ReturnUpdates
<1>6. /\ OtherTalesStay(told, closed, o)
      /\ TaleIs(closed, o, told[o].settled, told[o].released, 0, told[o].traded,
                told[o].settles)
  <2>1. 0 \in Nat OBVIOUS
  <2> QED BY <1>4, <2>1, OpenUpdates DEF closed
<1>7. closed \in [OrderIds -> Tale]
  BY <1>6 DEF OtherTalesStay
<1>8. /\ OtherTalesStay(closed, told', o)
      /\ TaleIs(told', o, closed[o].settled, closed[o].released + amount,
                closed[o].opened, closed[o].traded, closed[o].settles)
  BY <1>1, <1>3, <1>7, ReleaseUpdates
<1>9. /\ OtherTalesStay(told, told', o)
      /\ TaleIs(told', o, told[o].settled, told[o].released + amount, 0,
                told[o].traded, told[o].settles)
  BY <1>6, <1>8 DEF OtherTalesStay, TaleIs
<1>10. /\ \A other \in OrderIds \ {o} :
            metadata'[other] = metadata[other] /\ book'[other] = book[other]
       /\ metadata'[o] = Nothing /\ book'[o] = Nothing
  BY <1>1, <1>4
<1>11. WalletAgrees(o)' /\ OpenAgrees(o)'
  <2>1. o \notin Resting' BY <1>10 DEF Resting
  <2>2. WalletAgrees(o) BY AnnouncedParts DEF WalletOK
  <2> QED BY <1>5, <1>9, <1>10, <2>1, <2>2
          DEF WalletAgrees, OpenAgrees, EntryIs, TaleIs
<1>12. ~Placing' /\ TriedOK'
  BY <1>1, AnnouncedParts DEF TriedOK, NoneLeft, Trading, Placing
<1> QED BY <1>1, <1>2, <1>5, <1>9, <1>10, <1>11, <1>12, OneOrderStep

\* What AfterPlace leaves of the thread.
LEMMA AfterPlaceTries ==
  ASSUME IInv, AInv, Placing, AfterPlace, excused' = excused, risks' = risks
  PROVE  ~Placing' /\ TriedOK'
<1>1. /\ pc' = IF taker.traded THEN "scanning" ELSE "idle"
      /\ scan' = [running |-> taker.traded, startup |-> FALSE, attempted |-> {}]
  BY DEF AfterPlace, NoScan
<1>2. ~Placing' /\ ~Trading'
  BY <1>1 DEF Placing, Trading
<1>3. CASE taker.traded
  BY <1>1, <1>2, <1>3 DEF TriedOK
<1>4. CASE ~taker.traded
  <2>1. NoneLeft' BY <1>4, AnnouncedParts DEF TriedOK, NoneLeft
  <2> QED BY <1>1, <1>2, <1>4, <2>1 DEF TriedOK
<1> QED BY <1>2, <1>3, <1>4

\* An order that comes to rest is opened with its full quantity, of which its
\* own trades have already been told.
LEMMA FinishPlaceAnnounced ==
  ASSUME IInv, AInv, FinishPlace, AnnounceOpening
  PROVE  AInv'
<1>0. PICK o \in OrderIds : o = taker.orderId
  <2>1. Placing BY DEF FinishPlace, Placing
  <2> QED BY <2>1, PlacedOrderType
<1> DEFINE meta == taker.meta
           left == taker.left
           rests == taker.left > 0 /\ taker.canRest
           q == OpenedQuantity(taker.orderId)
           resting == [user |-> taker.user, side |-> taker.side, price |-> taker.price,
                       remaining |-> taker.left, queued |-> arrivals]
<1>1. /\ Placing /\ ~taker.reduceOnly /\ AfterPlace
      /\ metadata' = [metadata EXCEPT ![o] = IF left = 0 THEN Nothing ELSE meta]
      /\ rests => book' = [book EXCEPT ![o] = resting]
      /\ ~rests => book' = book
      /\ UNCHANGED <<positions, risks, processed, ledger, money, excused>>
      /\ told' = [told EXCEPT ![o].opened = q]
  BY <1>0 DEF FinishPlace, AnnounceOpening, Placing, accounts
<1>2. /\ o \in OrderIds /\ o \in processed /\ meta \in Metadata
      /\ metadata[o] = Nothing /\ o \notin Resting
      /\ left \in Nat /\ left = meta.remaining
      /\ meta.original \in Nat /\ meta.original > 0
  <2>1. /\ o \in OrderIds /\ o \in processed /\ meta \in Metadata /\ MarginOK(meta)
        /\ metadata[o] = Nothing /\ o \notin Resting
        /\ left \in Nat /\ left = meta.remaining
    BY <1>0, <1>1, PlacedOrderType
  <2> QED BY <2>1 DEF Metadata, MarginOK
<1>3. /\ told \in [OrderIds -> Tale] /\ ledger \in [OrderIds -> Ledger]
      /\ book \in [OrderIds -> RestingOrder \cup {Nothing}]
      /\ metadata \in [OrderIds -> Metadata \cup {Nothing}]
  BY AnnouncedParts, InvariantParts DEF OrdersOK
<1>4. /\ meta.reserved = ledger[o].reserved
      /\ told[o].opened = 0 /\ told[o].traded + meta.remaining = meta.original
  BY <1>0, <1>1, AnnouncedParts DEF WalletOK, OpenOK
<1>5. q = IF rests THEN meta.original ELSE 0
  BY DEF OpenedQuantity
<1>6. rests => /\ resting # Nothing /\ resting.remaining = left
  <2>1. CASE rests
    <3>1. taker.user \in Users /\ taker.side \in Sides /\ taker.price \in BookPrices
      BY <1>1, PlacedOrderType DEF PlacedOrder
    <3>2. arrivals \in Nat BY InvariantParts DEF OrdersOK
    <3>3. resting \in RestingOrder BY <1>2, <2>1, <3>1, <3>2 DEF RestingOrder
    <3> QED BY <3>3, NothingAssumption
  <2> QED BY <2>1
<1> HIDE DEF meta, left, rests, q, resting
<1>7. q \in Nat
  BY <1>2, <1>5
<1>8. /\ OtherTalesStay(told, told', o)
      /\ TaleIs(told', o, told[o].settled, told[o].released, q, told[o].traded,
                told[o].settles)
  BY <1>1, <1>2, <1>3, <1>7, OpenUpdates
<1>9. OthersStay(ledger, ledger', o)
  BY <1>1, <1>3 DEF OthersStay
<1>10. /\ \A other \in OrderIds \ {o} :
            metadata'[other] = metadata[other] /\ book'[other] = book[other]
       /\ metadata'[o] = Nothing \/ metadata'[o] = meta
       /\ book'[o] = IF rests THEN resting ELSE Nothing
  <2>1. metadata'[o] = (IF left = 0 THEN Nothing ELSE meta)
        /\ \A other \in OrderIds \ {o} : metadata'[other] = metadata[other]
    BY <1>1, <1>2, <1>3
  <2>2. book'[o] = (IF rests THEN resting ELSE Nothing)
        /\ \A other \in OrderIds \ {o} : book'[other] = book[other]
    <3>1. book[o] = Nothing BY <1>2 DEF Resting
    <3>2. CASE rests BY <1>1, <1>2, <1>3, <3>2
    <3>3. CASE ~rests BY <1>1, <3>1, <3>3
    <3> QED BY <3>2, <3>3
  <2> QED BY <2>1, <2>2
<1>11. WalletAgrees(o)'
  <2>1. WalletAgrees(o) BY <1>2, AnnouncedParts DEF WalletOK
  <2> QED BY <1>1, <1>4, <1>8, <1>10, <2>1 DEF WalletAgrees, TaleIs
<1>12. OpenAgrees(o)'
  <2>1. told'[o].opened = q /\ told'[o].traded = told[o].traded
        /\ told[o].traded \in Nat
    <3>1. told[o].traded \in Nat BY <1>3, TaleType
    <3> QED BY <1>8, <3>1 DEF TaleIs
  <2>2. CASE rests
    <3>1. o \in Resting' /\ book'[o].remaining = left
      BY <1>2, <1>6, <1>10, <2>2 DEF Resting
    <3>2. q = meta.original BY <1>5, <2>2
    <3> QED BY <1>2, <1>4, <2>1, <3>1, <3>2 DEF OpenAgrees
  <2>3. CASE ~rests
    <3>1. o \notin Resting' BY <1>10, <2>3 DEF Resting
    <3> QED BY <1>5, <2>1, <2>3, <3>1 DEF OpenAgrees
  <2> QED BY <2>2, <2>3
<1>13. ~Placing' /\ TriedOK'
  BY <1>1, AfterPlaceTries
<1> QED BY <1>1, <1>2, <1>8, <1>9, <1>10, <1>11, <1>12, <1>13, OneOrderStep

\* What a reduce-only order leaves of its reservation is released.
LEMMA FinishReduceOnlyAnnounced ==
  ASSUME IInv, AInv, FinishReduceOnly, AnnounceExpiry
  PROVE  AInv'
<1>0. PICK o \in OrderIds : o = taker.orderId
  <2>1. Placing BY DEF FinishReduceOnly, Placing
  <2> QED BY <2>1, PlacedOrderType
<1> DEFINE amount == IF taker.meta.remaining > 0 THEN taker.meta.unspent ELSE 0
<1>1. /\ Placing /\ AfterPlace
      /\ ledger' = Return(ledger, o, amount)
      /\ told' = Release(told, o, amount)
      /\ UNCHANGED <<book, metadata, positions, risks, processed, money, excused>>
  BY <1>0 DEF FinishReduceOnly, AnnounceExpiry, Placing, orders, accounts
<1>2. /\ o \in OrderIds /\ o \in processed
      /\ metadata[o] = Nothing /\ o \notin Resting
      /\ taker.meta.unspent \in Nat
  BY <1>0, <1>1, PlacedOrderType
<1>3. amount \in Nat
  BY <1>2
<1>4. told \in [OrderIds -> Tale] /\ ledger \in [OrderIds -> Ledger]
  BY AnnouncedParts, InvariantParts DEF OrdersOK
<1>5. told[o].opened = 0
  BY <1>0, <1>1, AnnouncedParts DEF OpenOK
<1> HIDE DEF amount
<1>6. /\ OthersStay(ledger, ledger', o)
      /\ EntryIs(ledger', o, ledger[o].reserved, ledger[o].charged,
                 ledger[o].returned + amount, ledger[o].dropped)
  BY <1>1, <1>2, <1>3, <1>4, ReturnUpdates
<1>7. /\ OtherTalesStay(told, told', o)
      /\ TaleIs(told', o, told[o].settled, told[o].released + amount, told[o].opened,
                told[o].traded, told[o].settles)
  BY <1>1, <1>2, <1>3, <1>4, ReleaseUpdates
<1>8. WalletAgrees(o)' /\ OpenAgrees(o)'
  <2>1. o \notin Resting' BY <1>1, <1>2 DEF Resting
  <2>2. WalletAgrees(o) BY <1>2, AnnouncedParts DEF WalletOK
  <2>3. metadata'[o] = Nothing /\ told'[o].opened = 0
    BY <1>1, <1>2, <1>5, <1>7 DEF TaleIs
  <2> QED BY <1>6, <1>7, <2>1, <2>2, <2>3 DEF WalletAgrees, OpenAgrees, EntryIs, TaleIs
<1>9. ~Placing' /\ TriedOK'
  BY <1>1, AfterPlaceTries
<1> QED BY <1>1, <1>2, <1>6, <1>7, <1>8, <1>9, OneOrderStep

(***************************************************************************)
(* Trades.                                                                 *)
(***************************************************************************)

\* The tale of an order agrees with its ledger entry.
Agree(led, tale, o) ==
  /\ tale[o].released = led[o].returned
  /\ led[o].reserved > 0 =>
       tale[o].settled = IF tale[o].settles THEN led[o].charged ELSE 0

\* A fill charges what it settles.
LEMMA FillIsTold ==
  ASSUME NEW led \in [OrderIds -> Ledger], NEW tale \in [OrderIds -> Tale],
         NEW o \in OrderIds, NEW meta \in Metadata, meta.reserved = led[o].reserved,
         NEW lots \in Nat, NEW price \in Nat, Agree(led, tale, o)
  PROVE  LET then == Charge(led, o, meta, lots, price)
             said == Settle(tale, o, meta, lots, price)
         IN  /\ OthersStay(led, then, o) /\ OtherTalesStay(tale, said, o)
             /\ Agree(then, said, o)
             /\ then[o].reserved = led[o].reserved
             /\ said[o].opened = tale[o].opened
             /\ said[o].traded = tale[o].traded + lots
<1> DEFINE then == Charge(led, o, meta, lots, price)
           said == Settle(tale, o, meta, lots, price)
           a == AllocatedMargin(meta, lots, price)
           r == led[o].reserved
           c == led[o].charged
           s == tale[o].settled
           b == tale[o].settles
<1>1. /\ OthersStay(led, then, o)
      /\ EntryIs(then, o, r, IF meta.reserved > 0 THEN c + a ELSE c,
                 led[o].returned, led[o].dropped)
  BY ChargeUpdates
<1>2. /\ OtherTalesStay(tale, said, o)
      /\ TaleIs(said, o, s + (IF b THEN a ELSE 0), tale[o].released, tale[o].opened,
                tale[o].traded + lots, b)
  BY SettleUpdates
<1>3. a \in Nat /\ r \in Nat /\ c \in Nat /\ s \in Nat /\ b \in BOOLEAN
  <2>1. led[o] \in Ledger OBVIOUS
  <2>2. r \in Nat /\ c \in Nat BY <2>1 DEF Ledger
  <2> QED BY <2>2, Allocation, TaleType
<1>4. r > 0 => s = IF b THEN c ELSE 0
  BY DEF Agree
<1>5. meta.reserved = r
  OBVIOUS
<1> HIDE DEF then, said, a, r, c, s, b
<1>6. /\ then[o].reserved = r /\ then[o].returned = led[o].returned
      /\ r > 0 => then[o].charged = c + a
  BY <1>1, <1>5 DEF EntryIs
<1>7. /\ said[o].settled = s + (IF b THEN a ELSE 0) /\ said[o].settles = b
      /\ said[o].released = tale[o].released /\ said[o].opened = tale[o].opened
      /\ said[o].traded = tale[o].traded + lots
  BY <1>2 DEF TaleIs
<1>8. r > 0 => s + (IF b THEN a ELSE 0) = IF b THEN c + a ELSE 0
  BY <1>3, <1>4
<1>9. Agree(then, said, o)
  <2>1. said[o].released = then[o].returned BY <1>6, <1>7 DEF Agree
  <2>2. then[o].reserved > 0 =>
          said[o].settled = IF said[o].settles THEN then[o].charged ELSE 0
    BY <1>3, <1>6, <1>7, <1>8
  <2> QED BY <2>1, <2>2 DEF Agree
<1> QED BY <1>1, <1>2, <1>6, <1>7, <1>9 DEF then, said, r

\* Both sides of a trade are told, the maker's first.
LEMMA TradeAnnounced ==
  ASSUME IInv, AInv, Trade, AnnounceTrade
  PROVE  AInv'
<1>1. PICK o, lots, price, id :
        /\ o = Maker /\ lots = TradeLots /\ price = book[o].price
        /\ id = taker.orderId
  OBVIOUS
<1>2. /\ o \in Resting /\ lots \in Nat /\ lots > 0 /\ lots <= taker.left
      /\ lots <= book[o].remaining
      /\ pc = "matching" /\ Trading
      /\ metadata[o].side = OppositeSide(taker.side)
      /\ TradeWith(o, lots)
  BY <1>1, TradeStep
<1> DEFINE maker == metadata[o]
           meta == taker.meta
           left == taker.left
           remaining == book[o].remaining
           gone == lots = remaining
           placed == taker.kind = "place"
           charged == Charge(ledger, o, maker, lots, price)
           settledFirst == Settle(told, o, maker, lots, price)
<1>3. /\ told' = IF placed THEN Settle(settledFirst, id, meta, lots, price)
                 ELSE settledFirst
      /\ AnnounceAccounts(book[o].user, maker, lots, price)
      /\ excused' = excused
  BY <1>1 DEF AnnounceTrade, Maker, TradeLots
<1>4. /\ ApplyTrade(book[o].user, maker, lots, price)
      /\ book' = [book EXCEPT ![o] = IF gone THEN Nothing ELSE Reduced(@, lots)]
      /\ metadata' = [metadata EXCEPT ![o] =
           IF gone THEN Nothing ELSE AfterFill(@, lots, price)]
      /\ taker' = [taker EXCEPT !.left = @ - lots, !.traded = TRUE,
                                !.meta = AfterFill(@, lots, price)]
      /\ ledger' = IF placed THEN Charge(charged, id, meta, lots, price) ELSE charged
  BY <1>1, <1>2 DEF TradeWith
<1>5. /\ o \in OrderIds /\ o \in processed
      /\ book[o] \in RestingOrder /\ maker \in Metadata /\ maker # Nothing
      /\ book[o].user \in Users /\ price \in Nat /\ remaining \in Nat
  <2>1. book[o] \in RestingOrder BY <1>2, RestingType
  <2>2. /\ book[o].user \in Users /\ book[o].price \in BookPrices
        /\ book[o].remaining \in Nat
    BY <2>1 DEF RestingOrder
  <2> QED BY <1>1, <1>2, <2>1, <2>2, RestingType, ConstantTypes
<1>6. /\ UNCHANGED <<pc, scan, processed>>
      /\ book \in [OrderIds -> RestingOrder \cup {Nothing}]
      /\ metadata \in [OrderIds -> Metadata \cup {Nothing}]
      /\ ledger \in [OrderIds -> Ledger] /\ told \in [OrderIds -> Tale]
  BY AnnouncedParts, InvariantParts DEF OrdersOK, Trade
<1>7. money' \in [realised : Int, rounded : Int] /\ MoneyIsConserved'
  <2> DEFINE user == book[o].user
  <2>1. /\ user \in Users /\ maker \in Metadata /\ price \in Nat /\ lots \in Nat
        /\ maker.side = OppositeSide(taker.side)
        /\ ApplyTrade(user, maker, lots, price)
        /\ AnnounceAccounts(user, maker, lots, price)
    BY <1>2, <1>3, <1>4, <1>5
  <2> HIDE DEF user, maker
  <2> QED BY <1>2, <2>1, TradeConservesMoney DEF AInv
<1>8. ASSUME placed
      PROVE  /\ Placing /\ id \in OrderIds /\ id # o /\ id \in processed
             /\ metadata[id] = Nothing /\ id \notin Resting
             /\ ~taker.reduceOnly => left = meta.remaining
             /\ meta.reserved = ledger[id].reserved
             /\ told[id].opened = 0
             /\ ~taker.reduceOnly => told[id].traded + meta.remaining = meta.original
  <2>1. Placing BY <1>2, <1>8 DEF Placing
  <2>2. /\ id \in OrderIds /\ id \in processed /\ metadata[id] = Nothing
        /\ id \notin Resting
        /\ ~taker.reduceOnly => left = meta.remaining
    BY <1>1, <2>1, PlacedOrderType
  <2>3. /\ meta.reserved = ledger[id].reserved /\ told[id].opened = 0
        /\ ~taker.reduceOnly => told[id].traded + meta.remaining = meta.original
    BY <1>1, <2>1, AnnouncedParts DEF WalletOK, OpenOK
  <2>4. id # o BY <1>2, <2>2
  <2> HIDE DEF meta, left
  <2> QED BY <2>1, <2>2, <2>3, <2>4
<1>9. meta \in Metadata /\ taker \in PlacedOrder \cup LiquidationOrder /\ left \in Nat
  BY <1>2, TakerType
<1>10. /\ OthersStay(ledger, charged, o) /\ OtherTalesStay(told, settledFirst, o)
       /\ Agree(charged, settledFirst, o)
       /\ charged[o].reserved = ledger[o].reserved
       /\ settledFirst[o].opened = told[o].opened
       /\ settledFirst[o].traded = told[o].traded + lots
  <2>1. WalletAgrees(o) BY <1>5, AnnouncedParts DEF WalletOK
  <2>2. Agree(ledger, told, o) /\ maker.reserved = ledger[o].reserved
    BY <1>5, <2>1 DEF WalletAgrees, Agree
  <2> HIDE DEF maker
  <2> QED BY <1>2, <1>5, <1>6, <2>2, FillIsTold
<1>11. placed => /\ OthersStay(charged, ledger', id) /\ OtherTalesStay(settledFirst, told', id)
                 /\ Agree(ledger', told', id)
                 /\ ledger'[id].reserved = ledger[id].reserved
                 /\ told'[id].opened = told[id].opened
                 /\ told'[id].traded = told[id].traded + lots
  <2> HAVE placed
  <2>1. WalletAgrees(id) BY <1>8, AnnouncedParts DEF WalletOK
  <2> HIDE DEF charged, settledFirst, maker
  <2>2. charged[id] = ledger[id] /\ settledFirst[id] = told[id]
        /\ charged \in [OrderIds -> Ledger] /\ settledFirst \in [OrderIds -> Tale]
    BY <1>8, <1>10 DEF OthersStay, OtherTalesStay
  <2>3. Agree(charged, settledFirst, id) /\ meta.reserved = charged[id].reserved
    BY <1>8, <2>1, <2>2 DEF WalletAgrees, Agree
  <2>4. ledger' = Charge(charged, id, meta, lots, price)
        /\ told' = Settle(settledFirst, id, meta, lots, price)
    BY <1>3, <1>4
  <2> HIDE DEF meta
  <2>5. id \in OrderIds BY <1>8
  <2> QED BY <1>2, <1>5, <1>9, <2>2, <2>3, <2>4, <2>5, FillIsTold
<1> HIDE DEF charged, settledFirst
<1>12. /\ \A p \in OrderIds \ {o} : metadata'[p] = metadata[p] /\ book'[p] = book[p]
       /\ metadata'[o] # Nothing => metadata'[o].reserved = maker.reserved
       /\ gone => book'[o] = Nothing
       /\ ~gone => book'[o] # Nothing /\ book'[o].remaining = remaining - lots
  <2>1. \A p \in OrderIds \ {o} : metadata'[p] = metadata[p] /\ book'[p] = book[p]
    BY <1>4, <1>6
  <2>2. CASE gone
    BY <1>4, <1>5, <1>6, <2>1, <2>2
  <2>3. CASE ~gone
    <3> DEFINE after == AfterFill(maker, lots, price)
               b == book[o]
               reduced == [b EXCEPT !.remaining = @ - lots]
    <3>1. metadata'[o] = after /\ after.reserved = maker.reserved
      BY <1>2, <1>4, <1>5, <1>6, <2>3, Allocation
    <3>2. book'[o] = reduced
      BY <1>4, <1>5, <1>6, <2>3 DEF Reduced
    <3>3. b.remaining - lots \in Nat \ {0}
      BY <1>2, <1>5, <2>3
    <3> HIDE DEF b
    <3>4. b \in RestingOrder BY <1>5 DEF b
    <3>5. reduced \in RestingOrder /\ reduced.remaining = b.remaining - lots
      BY <3>3, <3>4 DEF RestingOrder
    <3> HIDE DEF reduced
    <3>6. book'[o] # Nothing BY <3>2, <3>5, NothingAssumption
    <3>7. book'[o].remaining = remaining - lots BY <3>2, <3>5 DEF b
    <3> QED BY <2>1, <2>3, <3>1, <3>6, <3>7
  <2> QED BY <2>2, <2>3
<1>13. /\ taker'.kind = taker.kind /\ taker'.traded
       /\ placed => taker'.orderId = id
       /\ taker'.reduceOnly = taker.reduceOnly
       /\ taker'.meta.reserved = meta.reserved
       /\ taker'.meta.original = meta.original
       /\ lots <= meta.remaining => taker'.meta.remaining = meta.remaining - lots
  <2> DEFINE after == AfterFill(meta, lots, price)
  <2>1. /\ after.reserved = meta.reserved /\ after.original = meta.original
        /\ lots <= meta.remaining => after.remaining = meta.remaining - lots
    <3> HIDE DEF meta
    <3> QED BY <1>2, <1>5, <1>9, Allocation
  <2>2. taker' = [taker EXCEPT !.left = left - lots, !.traded = TRUE, !.meta = after]
    BY <1>4
  <2> HIDE DEF after, left
  <2>3. CASE taker \in PlacedOrder
    <3>1. taker'.meta = after BY <2>2, <2>3 DEF PlacedOrder
    <3> QED BY <1>1, <2>1, <2>2, <2>3, <3>1 DEF PlacedOrder
  <2>4. CASE taker \in LiquidationOrder
    <3>1. taker'.meta = after BY <2>2, <2>4 DEF LiquidationOrder
    <3>2. ~placed BY <2>4 DEF LiquidationOrder
    <3> QED BY <2>1, <2>2, <2>4, <3>1, <3>2 DEF LiquidationOrder
  <2> QED BY <1>9, <2>3, <2>4
<1> HIDE DEF maker, meta, left, remaining, gone
<1>14. /\ told' \in [OrderIds -> Tale]
       /\ \A p \in OrderIds : p # o /\ (placed => p # id) =>
            told'[p] = told[p] /\ ledger'[p] = ledger[p]
  BY <1>3, <1>4, <1>8, <1>10, <1>11 DEF OtherTalesStay, OthersStay
<1>15. /\ Agree(ledger', told', o) /\ ledger'[o].reserved = ledger[o].reserved
       /\ told'[o].opened = told[o].opened /\ told'[o].traded = told[o].traded + lots
  <2>1. ledger'[o] = charged[o] /\ told'[o] = settledFirst[o]
    BY <1>3, <1>4, <1>5, <1>8, <1>11 DEF OtherTalesStay, OthersStay
  <2> QED BY <1>10, <2>1 DEF Agree
<1>16. WalletAgrees(o)' /\ OpenAgrees(o)'
  <2>1. WalletAgrees(o) /\ OpenAgrees(o)
    BY <1>5, AnnouncedParts DEF WalletOK, OpenOK
  <2>2. WalletAgrees(o)'
    <3>1. maker.reserved = ledger[o].reserved
      BY <1>5, <2>1 DEF WalletAgrees, maker
    <3> QED BY <1>12, <1>15, <3>1 DEF WalletAgrees, Agree
  <2>3. told[o].opened # 0 /\ told[o].opened - told[o].traded = remaining
    BY <1>2, <2>1 DEF OpenAgrees, remaining
  <2>4. told[o].opened \in Nat /\ told[o].traded \in Nat
    BY <1>5, <1>6, TaleType
  <2>5. told'[o].opened # 0 /\ told'[o].opened - told'[o].traded = remaining - lots
    BY <1>2, <1>5, <1>15, <2>3, <2>4
  <2>6. CASE gone
    <3>1. o \notin Resting' BY <1>12, <2>6 DEF Resting
    <3>2. remaining - lots = 0 BY <1>2, <1>5, <2>6 DEF gone
    <3> QED BY <2>2, <2>5, <3>1, <3>2 DEF OpenAgrees
  <2>7. CASE ~gone
    <3>1. o \in Resting' BY <1>5, <1>12, <2>7 DEF Resting
    <3> QED BY <1>12, <2>2, <2>5, <2>7, <3>1 DEF OpenAgrees
  <2> QED BY <2>6, <2>7
<1>17. ASSUME placed PROVE WalletAgrees(id)' /\ OpenAgrees(id)'
  <2>1. metadata'[id] = Nothing /\ id \notin Resting' /\ told'[id].opened = 0
    BY <1>8, <1>11, <1>12, <1>17 DEF Resting
  <2>2. Agree(ledger', told', id)
    BY <1>11, <1>17
  <2> QED BY <2>1, <2>2 DEF WalletAgrees, OpenAgrees, Agree
<1>18. ASSUME NEW p \in OrderIds, p # o, placed => p # id
       PROVE  WalletAgrees(p)' /\ OpenAgrees(p)'
  <2>1. /\ told'[p] = told[p] /\ ledger'[p] = ledger[p]
        /\ metadata'[p] = metadata[p] /\ book'[p] = book[p]
    BY <1>12, <1>14, <1>18
  <2>2. p \in Resting' <=> p \in Resting
    BY <2>1 DEF Resting
  <2>3. WalletAgrees(p) /\ OpenAgrees(p)
    BY AnnouncedParts DEF WalletOK, OpenOK
  <2> QED BY <2>1, <2>2, <2>3 DEF WalletAgrees, OpenAgrees
<1>19. \A p \in OrderIds : WalletAgrees(p)' /\ OpenAgrees(p)'
  BY <1>16, <1>17, <1>18
<1>20. Placing' => placed /\ taker'.orderId = id
  BY <1>13 DEF Placing
<1>21. WalletOK'
  BY <1>8, <1>11, <1>13, <1>19, <1>20 DEF WalletOK
<1>22. OpenOK'
  <2>1. ASSUME Placing'
        PROVE  /\ told'[taker'.orderId].opened = 0
               /\ ~taker'.reduceOnly =>
                    told'[taker'.orderId].traded + taker'.meta.remaining
                      = taker'.meta.original
    <3>1. placed /\ taker'.orderId = id BY <1>20, <2>1
    <3>2. told'[id].opened = 0 BY <1>8, <1>11, <3>1
    <3>3. ASSUME ~taker'.reduceOnly
          PROVE  told'[id].traded + taker'.meta.remaining = taker'.meta.original
      <4>1. ~taker.reduceOnly BY <1>13, <3>3
      <4>2. left = meta.remaining /\ told[id].traded + meta.remaining = meta.original
        BY <1>8, <3>1, <4>1
      <4>3. lots <= meta.remaining BY <1>2, <4>2 DEF left
      <4>4. /\ taker'.meta.remaining = meta.remaining - lots
            /\ taker'.meta.original = meta.original
            /\ told'[id].traded = told[id].traded + lots
        BY <1>11, <1>13, <3>1, <4>3
      <4>5. told[id].traded \in Nat /\ meta.remaining \in Nat
        <5>1. id \in OrderIds BY <1>8, <3>1
        <5> QED BY <1>6, <1>9, <5>1, TaleType DEF Metadata
      <4> QED BY <1>2, <4>2, <4>4, <4>5
    <3> QED BY <3>1, <3>2, <3>3
  <2> QED BY <1>19, <2>1 DEF OpenOK
<1>23. UntoldOK'
  BY <1>5, <1>6, <1>8, <1>14, AnnouncedParts DEF UntoldOK
<1>24. TriedOK'
  <2>1. pc' = "matching" /\ scan' = scan BY <1>2, <1>6
  <2>2. taker.kind = "liquidation" /\ ~scan.running => excused = Users
    BY <1>2, AnnouncedParts DEF TriedOK
  <2> QED BY <1>3, <1>13, <2>1, <2>2 DEF TriedOK
<1>25. AnnouncedTypeOK'
  BY <1>3, <1>7, <1>14, AnnouncedParts DEF AnnouncedTypeOK
<1> QED BY <1>7, <1>21, <1>22, <1>23, <1>24, <1>25 DEF AInv

(***************************************************************************)
(* Theorems.                                                               *)
(***************************************************************************)

\* Nothing was told of the initial state, and nothing is to be told.
LEMMA InitIsTold == AnnouncedInit => AInv
<1> SUFFICES ASSUME AnnouncedInit PROVE AInv
  OBVIOUS
<1>1. /\ Resting = {} /\ pc = "idle" /\ metadata = [o \in OrderIds |-> Nothing]
      /\ \A o \in OrderIds : ledger[o] = [reserved |-> 0, charged |-> 0, returned |-> 0,
                                          dropped |-> 0]
      /\ \A o \in OrderIds : told[o] = [settled |-> 0, released |-> 0, opened |-> 0,
                                        traded |-> 0, settles |-> FALSE]
  BY DEF AnnouncedInit, Init, Resting
<1>2. AnnouncedTypeOK
  BY DEF AnnouncedInit, AnnouncedTypeOK, Tale
<1>3. UntoldOK
  BY <1>1 DEF UntoldOK
<1>4. WalletOK
  BY <1>1 DEF WalletOK, WalletAgrees, Placing
<1>5. OpenOK
  BY <1>1 DEF OpenOK, OpenAgrees, Placing
<1>6. TriedOK
  BY <1>1 DEF TriedOK, Trading, NoneLeft, AnnouncedInit, Init, NoRisk
<1>7. MoneyIsConserved
  <2> DEFINE c == [u \in Users |-> positions[u].average * positions[u].quantity]
  <2>1. \A u \in Users : c[u] = 0
    BY DEF AnnouncedInit, Init, FlatPosition
  <2>2. SumFunction(c) = SumFunctionOnSet(c, Users) BY DEF SumFunction
  <2> HIDE DEF c
  <2>3. SumFunctionOnSet(c, Users) = 0 BY <2>1, ConstantTypes, SumOfZeros
  <2>4. money.realised = 0 /\ money.rounded = 0 BY DEF AnnouncedInit
  <2> QED BY <2>2, <2>3, <2>4 DEF MoneyIsConserved, c
<1> QED BY <1>2, <1>3, <1>4, <1>5, <1>6, <1>7 DEF AInv

\* A step that tells of itself is a step of the accounts.
LEMMA AnnouncedStepIsAStep == AnnouncedNext => Next
BY DEF AnnouncedNext, AnnouncedInput, AnnouncedLoop, Next, Input, Loop

\* Every step of the announced specification preserves AInv, with the accounts' IInv at hand.
LEMMA AnnouncedNextPreserves ==
  IInv /\ AInv /\ [AnnouncedNext]_<<vars, announced>> => AInv'
<1> SUFFICES ASSUME IInv, AInv, [AnnouncedNext]_<<vars, announced>> PROVE AInv'
  OBVIOUS
<1>1. ASSUME NEW c \in PlaceInputs, RejectPlace(c), AnnounceRefusal(c) PROVE AInv'
  BY <1>1, RejectPlaceAnnounced
<1>2. ASSUME NEW c \in PlaceInputs, AcceptPlace(c), AnnounceAcceptance(c) PROVE AInv'
  BY <1>2, AcceptPlaceAnnounced
<1>3. ASSUME NEW o \in OrderIds, CancelOrder(o), AnnounceCancel(o) PROVE AInv'
  BY <1>3, CancelOrderAnnounced
<1>4. ASSUME NEW l \in LiquidateInputs, LiquidatePosition(l), NoteRequest PROVE AInv'
  BY <1>4, LiquidatePositionAnnounced
<1>5. ASSUME NEW p \in MarkPrices, UpdateMark(p), UNCHANGED announced PROVE AInv'
  BY <1>5, UpdateMarkAnnounced
<1>6. ASSUME NEW f \in FundingRates, UpdateFunding(f), UNCHANGED announced PROVE AInv'
  BY <1>6, UpdateFundingAnnounced
<1>7. CASE SettleFunding /\ UNCHANGED announced
  BY <1>7, SettleFundingAnnounced
<1>8. CASE Restart /\ UNCHANGED announced
  BY <1>8, RestartAnnounced
<1>9. CASE Trade /\ AnnounceTrade
  BY <1>9, TradeAnnounced
<1>10. CASE FinishPlace /\ AnnounceOpening
  BY <1>10, FinishPlaceAnnounced
<1>11. CASE FinishReduceOnly /\ AnnounceExpiry
  BY <1>11, FinishReduceOnlyAnnounced
<1>12. CASE Deleverage /\ AnnounceAdl
  BY <1>12, DeleverageAnnounced
<1>13. CASE (FinishBook \/ FinishLiquidation \/ AttemptLiquidation) /\ UNCHANGED announced
  BY <1>13, LiquidationLoopAnnounced
<1>14. CASE EndScan /\ NoteLoopEnd
  BY <1>14, EndScanAnnounced
<1>15. CASE UNCHANGED <<vars, announced>>
  <2>1. UNCHANGED <<told, money, excused, book, metadata, ledger, processed, positions,
                    risks, pc, taker, scan>>
    BY <1>15 DEF vars, announced, orders, accounts
  <2>2. Placing' => Placing
    BY <2>1 DEF Placing
  <2>3. TriedOK'
    BY <2>1, AnnouncedParts DEF TriedOK, Trading, Placing, NoneLeft
  <2> QED BY <2>1, <2>2, <2>3, AnnouncedParts, QuietStep
<1> QED
  BY <1>1, <1>2, <1>3, <1>4, <1>5, <1>6, <1>7, <1>8, <1>9, <1>10, <1>11, <1>12, <1>13,
     <1>14, <1>15 DEF AnnouncedNext, AnnouncedInput, AnnouncedLoop

\* Every state of the accounts and of what was announced satisfies the two
\* inductive invariants.
THEOREM AnnouncedInvariant == AnnouncedSpec => [](IInv /\ AInv)
<1>1. AnnouncedInit => IInv /\ AInv
  BY InitEstablishes, InitIsTold DEF AnnouncedInit
<1>2. IInv /\ AInv /\ [AnnouncedNext]_<<vars, announced>> => (IInv /\ AInv)'
  <2> SUFFICES ASSUME IInv, AInv, [AnnouncedNext]_<<vars, announced>>
               PROVE  IInv' /\ AInv'
    OBVIOUS
  <2>1. [Next]_vars
    BY AnnouncedStepIsAStep
  <2> QED BY <2>1, NextPreserves, AnnouncedNextPreserves
<1> QED BY <1>1, <1>2, PTL DEF AnnouncedSpec

(***************************************************************************)
(* Funding.  A payment is the position's share with its fraction cut off,  *)
(* and the shares of a market add up to nothing.                           *)
(***************************************************************************)

\* Truncation changes a quotient by less than one.
LEMMA TruncationLaw ==
  ASSUME NEW x \in Int, NEW b \in Nat \ {0}, NEW t, t = TruncatedQuotient(x, b)
  PROVE  t \in Int /\ t * b - x <= b /\ x - t * b <= b
<1>1. CASE x >= 0
  <2> DEFINE d == x \div b
             m == x % b
  <2>0. x \in Nat BY <1>1
  <2>1. d \in Int /\ m \in Int /\ d * b = x - m BY <2>0, DivisionLaw
  <2>2. m \in Nat /\ m < b BY RemainderLaw
  <2>3. t = d BY <1>1 DEF TruncatedQuotient
  <2> HIDE DEF d, m
  <2> QED BY <2>1, <2>2, <2>3
<1>2. CASE x < 0
  <2> DEFINE y == -x
             d == y \div b
             m == y % b
  <2>0. y \in Nat BY <1>2
  <2>1. d \in Int /\ m \in Int /\ d * b = y - m
    <3> HIDE DEF y
    <3> QED BY <2>0, DivisionLaw
  <2>2. m \in Nat /\ m < b BY <2>0, RemainderLaw
  <2>3. t = -d BY <1>2 DEF TruncatedQuotient
  <2>4. y = -x OBVIOUS
  <2> HIDE DEF d, m, y
  <2>5. t * b = -(d * b) BY <2>1, <2>3
  <2> QED BY <2>0, <2>1, <2>2, <2>3, <2>4, <2>5
<1> QED BY <1>1, <1>2

\* What each of them is off by adds up to at most one for each.
LEMMA RoundedSum ==
  ASSUME NEW S, IsFiniteSet(S), NEW b \in Nat \ {0}, NEW d, NEW x,
         \A u \in S : /\ d[u] \in Int /\ x[u] \in Int
                      /\ -b <= d[u] * b + x[u] /\ d[u] * b + x[u] <= b
  PROVE  /\ SumFunctionOnSet(d, S) \in Int /\ SumFunctionOnSet(x, S) \in Int
         /\ -(Cardinality(S) * b) <= SumFunctionOnSet(d, S) * b + SumFunctionOnSet(x, S)
         /\ SumFunctionOnSet(d, S) * b + SumFunctionOnSet(x, S) <= Cardinality(S) * b
<1> DEFINE Near(T) ==
             /\ -(Cardinality(T) * b) <= SumFunctionOnSet(d, T) * b + SumFunctionOnSet(x, T)
             /\ SumFunctionOnSet(d, T) * b + SumFunctionOnSet(x, T) <= Cardinality(T) * b
           F == {T \in SUBSET S : Near(T)}
<1>1. {} \in F
  <2>1. Cardinality({}) = 0 BY FS_EmptySet
  <2> QED BY <2>1, SumEmpty
<1>2. ASSUME NEW T \in SUBSET S, NEW u \in S \ T, T \in F PROVE T \cup {u} \in F
  <2>1. IsFiniteSet(T) /\ u \notin T BY FS_Subset
  <2>2. /\ \A y \in T \cup {u} : d[y] \in Int
        /\ \A y \in T \cup {u} : x[y] \in Int
    OBVIOUS
  <2>3. Near(T) BY <1>2
  <2> DEFINE dt == SumFunctionOnSet(d, T)
             xt == SumFunctionOnSet(x, T)
             n == Cardinality(T)
             du == d[u]
             xu == x[u]
  <2>4. n \in Nat /\ Cardinality(T \cup {u}) = n + 1
    BY <2>1, FS_CardinalityType, FS_AddElement
  <2>5. dt \in Int /\ xt \in Int
    <3> HIDE DEF F, Near
    <3> QED BY <2>1, <2>2, SumTakesOut
  <2>6. SumFunctionOnSet(d, T \cup {u}) = dt + du
    <3> HIDE DEF F, Near
    <3> QED BY <2>1, <2>2, SumOfAdded
  <2>7. SumFunctionOnSet(x, T \cup {u}) = xt + xu
    <3> HIDE DEF F, Near
    <3> QED BY <2>1, <2>2, SumOfAdded
  <2>8. du \in Int /\ xu \in Int /\ -b <= du * b + xu /\ du * b + xu <= b
    OBVIOUS
  <2>9. -(n * b) <= dt * b + xt /\ dt * b + xt <= n * b
    BY <2>3
  <2> HIDE DEF dt, xt, n, du, xu
  <2>10. (dt + du) * b = dt * b + du * b /\ (n + 1) * b = n * b + b
    BY <2>4, <2>5, <2>8
  <2>11. dt * b \in Int /\ du * b \in Int /\ n * b \in Int
    BY <2>4, <2>5, <2>8
  <2>12. /\ -((n + 1) * b) <= (dt + du) * b + (xt + xu)
         /\ (dt + du) * b + (xt + xu) <= (n + 1) * b
    <3> DEFINE p == dt * b
               q == du * b
               r == n * b
    <3>1. p \in Int /\ q \in Int /\ r \in Int BY <2>11
    <3>2. (dt + du) * b = p + q /\ (n + 1) * b = r + b BY <2>10
    <3>3. -r <= p + xt /\ p + xt <= r /\ -b <= q + xu /\ q + xu <= b BY <2>8, <2>9
    <3> HIDE DEF p, q, r
    <3>4. -(r + b) <= (p + q) + (xt + xu) /\ (p + q) + (xt + xu) <= r + b
      BY <2>5, <2>8, <3>1, <3>3
    <3> QED BY <3>2, <3>4
  <2> QED BY <2>4, <2>6, <2>7, <2>12
<1>3. S \in F
  <2> HIDE DEF F
  <2> QED BY <1>1, <1>2, SetInduction
<1>4. SumFunctionOnSet(d, S) \in Int /\ SumFunctionOnSet(x, S) \in Int
  <2> HIDE DEF F
  <2>1. (\A u \in S : d[u] \in Int) /\ (\A u \in S : x[u] \in Int) OBVIOUS
  <2> QED BY <2>1, SumTakesOut
<1> QED BY <1>3, <1>4

\* Only a tick settles an interval.
LEMMA TickSettles ==
  ASSUME [Next]_vars, settled' # settled
  PROVE  SettleFunding
<1>1. ASSUME NEW c \in PlaceInputs, RejectPlace(c) \/ AcceptPlace(c) PROVE FALSE
  BY <1>1 DEF RejectPlace, AcceptPlace, market
<1>2. ASSUME NEW o \in OrderIds, CancelOrder(o) PROVE FALSE
  BY <1>2 DEF CancelOrder, market
<1>3. ASSUME NEW l \in LiquidateInputs, LiquidatePosition(l) PROVE FALSE
  BY <1>3 DEF LiquidatePosition, market
<1>4. ASSUME NEW p \in MarkPrices, UpdateMark(p) PROVE FALSE
  BY <1>4 DEF UpdateMark, market
<1>5. ASSUME NEW f \in FundingRates, UpdateFunding(f) PROVE FALSE
  BY <1>5 DEF UpdateFunding, market
<1>6. CASE Restart
  BY <1>6 DEF Restart, market
<1>7. CASE Trade
  BY <1>7 DEF Trade, market
<1>8. CASE FinishPlace \/ FinishReduceOnly \/ FinishBook
  BY <1>8 DEF FinishPlace, FinishReduceOnly, FinishBook, market
<1>9. CASE Deleverage \/ FinishLiquidation
  BY <1>9 DEF Deleverage, FinishLiquidation, market
<1>10. CASE AttemptLiquidation \/ EndScan
  BY <1>10 DEF AttemptLiquidation, EndScan, market
<1>11. CASE UNCHANGED vars
  BY <1>11 DEF vars, market
<1> QED
  BY <1>1, <1>2, <1>3, <1>4, <1>5, <1>6, <1>7, <1>8, <1>9, <1>10, <1>11
     DEF Next, Input, Loop

\* What RiskOf is given as an adjustment is the adjustment of its equity.
LEMMA AdjustmentOfRisk ==
  ASSUME NEW position \in PositionRecord, NEW price \in Nat, NEW a \in Int
  PROVE  EquityAdjustment(RiskOf(position, price, a)) = a
<1> DEFINE margin == position.margin
           pnl == (price - position.average) * position.quantity
<1>1. margin \in Int /\ position.average \in Int /\ position.quantity \in Int
  BY DEF PositionRecord
<1>2. EquityAdjustment(RiskOf(position, price, a)) = (margin + pnl + a) - (margin + pnl)
  BY DEF RiskOf, EquityAdjustment
<1>3. pnl \in Int
  <2> DEFINE d == price - position.average
             q == position.quantity
  <2>1. d \in Int /\ q \in Int BY <1>1
  <2> HIDE DEF d, q
  <2>2. d * q \in Int BY <2>1
  <2> QED BY <2>2 DEF d, q
<1> HIDE DEF margin, pnl
<1> QED BY <1>1, <1>2, <1>3

\* What an account with a position is paid at a mark price.
LEMMA FundingPaid ==
  ASSUME IInv, SettleFunding, mark # 0,
         NEW u \in Users, positions[u].quantity # 0,
         NEW share, share = positions[u].quantity * (mark * funding.rate),
         NEW paid, paid = EquityAdjustment(risks'[u]) - EquityAdjustment(risks[u])
  PROVE  /\ paid \in Int /\ share \in Int
         /\ -RateScale <= paid * RateScale + share /\ paid * RateScale + share <= RateScale
<1> DEFINE position == positions[u]
           q == position.quantity
           rate == funding.rate
           amount == FundingAmount(position, mark, rate, RateScale)
           before == EquityAdjustment(risks[u])
<1>1. /\ position \in PositionRecord /\ risks[u] \in Risk /\ mark \in Nat /\ rate \in Int
      /\ RateScale \in Nat \ {0}
  BY InvariantParts, RuntimeAssumption DEF AccountsOK, MarketOK
<1>2. q \in Int /\ before \in Int
  BY <1>1, EquityAdjustmentType DEF PositionRecord
<1>3. risks'[u] = IF amount = 0 THEN risks[u] ELSE RiskOf(position, mark, before + amount)
  <2>1. MarkOr(position.average) = mark BY DEF MarkOr
  <2>2. AfterFunding(u) = IF amount = 0 THEN risks[u]
                          ELSE RiskOf(position, mark, before + amount)
    BY <2>1 DEF AfterFunding
  <2>3. risks'[u] = AfterFunding(u) BY DEF SettleFunding
  <2> QED BY <2>2, <2>3
<1> DEFINE base == q * mark * rate
           t == TruncatedQuotient(base, RateScale)
<1>4. base = share /\ base \in Int
  <2> HIDE DEF q, rate
  <2>1. q * mark \in Int /\ mark * rate \in Int BY <1>1, <1>2
  <2>2. (q * mark) * rate = q * (mark * rate) BY <1>1, <1>2
  <2>3. (q * mark) * rate \in Int
    <3> DEFINE z == q * mark
    <3>1. z \in Int BY <2>1
    <3> HIDE DEF z
    <3>2. z * rate \in Int BY <1>1, <3>1
    <3> QED BY <3>2 DEF z
  <2> QED BY <2>2, <2>3 DEF q, rate
<1>5. amount = -t
  BY DEF FundingAmount
<1> HIDE DEF base
<1>6. t \in Int /\ t * RateScale - base <= RateScale /\ base - t * RateScale <= RateScale
  BY <1>1, <1>4, TruncationLaw
<1> HIDE DEF t
<1>7. paid = amount
  <2>1. CASE amount = 0 BY <1>2, <1>3, <2>1
  <2>2. CASE amount # 0
    <3>1. EquityAdjustment(risks'[u]) = before + amount
      <4> DEFINE a == before + amount
      <4>1. a \in Int BY <1>2, <1>5, <1>6
      <4>2. risks'[u] = RiskOf(position, mark, a) BY <1>3, <2>2
      <4> HIDE DEF position, a
      <4>3. EquityAdjustment(RiskOf(position, mark, a)) = a
        BY <1>1, <4>1, AdjustmentOfRisk
      <4> QED BY <4>2, <4>3 DEF a
    <3> QED BY <3>1, <1>2, <1>5, <1>6
  <2> QED BY <2>1, <2>2
<1>8. paid * RateScale = -(t * RateScale) /\ t * RateScale \in Int
  BY <1>1, <1>5, <1>6, <1>7
<1> QED BY <1>1, <1>4, <1>5, <1>6, <1>7, <1>8

\* At a mark price, the payments of a settlement balance but for the rounding.
LEMMA SettlementBalances ==
  ASSUME IInv, [Next]_vars, settled' # settled, mark # 0,
         NEW open, open = {u \in Users : positions[u].quantity # 0},
         NEW paid, paid = [u \in Users |-> EquityAdjustment(risks'[u]) - EquityAdjustment(risks[u])]
  PROVE  Abs(SumFunctionOnSet(paid, open)) <= Cardinality(open)
<1> DEFINE k == mark * funding.rate
           quantity == [u \in Users |-> positions[u].quantity]
           share == [u \in Users |-> positions[u].quantity * k]
           b == RateScale
<1>1. SettleFunding
  BY TickSettles
<1>2. /\ IsFiniteSet(Users) /\ IsFiniteSet(open) /\ open \in SUBSET Users
      /\ b \in Nat \ {0}
  BY RuntimeAssumption, FS_Subset
<1>3. k \in Int /\ \A u \in Users : quantity[u] \in Int
  BY InvariantParts DEF AccountsOK, MarketOK, PositionRecord
<1>4. ASSUME NEW u \in open
      PROVE  /\ paid[u] \in Int /\ share[u] \in Int
             /\ -b <= paid[u] * b + share[u] /\ paid[u] * b + share[u] <= b
  <2>1. u \in Users /\ positions[u].quantity # 0 OBVIOUS
  <2>2. paid[u] = EquityAdjustment(risks'[u]) - EquityAdjustment(risks[u]) BY <2>1
  <2>3. share[u] = positions[u].quantity * (mark * funding.rate) BY <2>1
  <2> HIDE DEF share, k
  <2> QED BY <1>1, <2>1, <2>2, <2>3, FundingPaid
<1>5. \A u \in open : quantity[u] \in Int /\ share[u] = k * quantity[u]
  <2> TAKE u \in open
  <2>1. u \in Users /\ quantity[u] \in Int BY <1>2, <1>3
  <2>2. share[u] = quantity[u] * k BY <2>1
  <2> HIDE DEF share, quantity, k
  <2>3. quantity[u] * k = k * quantity[u] BY <1>3, <2>1
  <2> QED BY <2>1, <2>2, <2>3
<1>6. SumFunctionOnSet(quantity, open) = 0
  <2>1. SumFunctionOnSet(quantity, Users) = 0
    BY InvariantParts DEF PositionsBalance, SumFunction
  <2>2. \A u \in Users \ open : quantity[u] = 0 OBVIOUS
  <2> HIDE DEF quantity
  <2> QED BY <1>2, <1>3, <2>1, <2>2, SumOfSupport
<1> HIDE DEF k, quantity, share
<1>7. SumFunctionOnSet(share, open) = 0
  <2>1. SumFunctionOnSet(share, open) = k * SumFunctionOnSet(quantity, open)
    BY <1>2, <1>3, <1>5, SumOfMultiples
  <2> QED BY <1>3, <1>6, <2>1
<1> DEFINE sum == SumFunctionOnSet(paid, open)
           n == Cardinality(open)
<1>8. sum \in Int /\ -(n * b) <= sum * b + 0 /\ sum * b + 0 <= n * b
  <2> HIDE DEF b
  <2> QED BY <1>2, <1>4, <1>7, RoundedSum
<1>9. n \in Nat
  BY <1>2, FS_CardinalityType
<1> HIDE DEF sum, n, b
<1>10. sum <= n
  <2> SUFFICES ASSUME sum >= n + 1 PROVE FALSE BY <1>8, <1>9
  <2>1. sum * b >= (n + 1) * b /\ (n + 1) * b = n * b + b BY <1>2, <1>8, <1>9
  <2>2. sum * b \in Int /\ n * b \in Int BY <1>2, <1>8, <1>9
  <2> QED BY <1>2, <1>8, <2>1, <2>2
<1>11. sum >= -n
  <2> SUFFICES ASSUME sum <= -n - 1 PROVE FALSE BY <1>8, <1>9
  <2>1. sum * b <= (-n - 1) * b /\ (-n - 1) * b = -(n * b) - b BY <1>2, <1>8, <1>9
  <2>2. sum * b \in Int /\ n * b \in Int BY <1>2, <1>8, <1>9
  <2> QED BY <1>2, <1>8, <2>1, <2>2
<1> QED BY <1>8, <1>9, <1>10, <1>11 DEF Abs, sum, n

\* WalletSettlement and ReservationReleased carry what
\* append_position_and_risk_updates charges and what the engine gives back, for
\* every split of an order into fills.
THEOREM WalletAlwaysFollows == AnnouncedSpec => []WalletFollowsReservations
<1>1. IInv /\ AInv => WalletFollowsReservations
  <2> SUFFICES ASSUME IInv, AInv, NEW o \in processed, ledger[o].reserved > 0
               PROVE  /\ told[o].settles => told[o].settled = ledger[o].charged
                      /\ told[o].settled + told[o].released <= ledger[o].reserved
                      /\ \/ metadata[o] # Nothing
                         \/ taker # NoTaker
                         \/ ledger[o].dropped > 0
                         \/ ~told[o].settles /\ ledger[o].charged > 0
                         \/ told[o].settled + told[o].released = ledger[o].reserved
    BY DEF WalletFollowsReservations
  <2> DEFINE e == ledger[o]
             t == told[o]
             unspent == Unspent(o)
  <2>1. o \in OrderIds /\ AddsUp(o) /\ WalletAgrees(o)
    BY InvariantParts, AnnouncedParts DEF OrdersOK, WalletOK
  <2>2. /\ e.reserved \in Nat /\ e.charged \in Nat /\ e.returned \in Nat
        /\ e.dropped \in Nat /\ t.settled \in Nat /\ t.released \in Nat
        /\ t.settles \in BOOLEAN
    <3>1. e \in Ledger /\ t \in Tale
      BY <2>1, InvariantParts, AnnouncedParts DEF OrdersOK
    <3> QED BY <3>1 DEF Ledger, Tale
  <2>3. unspent \in Nat
    <3>1. CASE metadata[o] # Nothing
      <4>1. metadata[o] \in Metadata BY <2>1, <3>1, InvariantParts DEF OrdersOK
      <4> QED BY <3>1, <4>1 DEF Unspent, Metadata
    <3>2. CASE metadata[o] = Nothing
      <4>1. Placing => taker.meta.unspent \in Nat BY PlacedOrderType
      <4> QED BY <3>2, <4>1 DEF Unspent, Placing
    <3> QED BY <3>1, <3>2
  <2>4. metadata[o] = Nothing /\ taker = NoTaker => unspent = 0
    <3>1. taker = NoTaker => ~Placing
      BY PlacedOrderType DEF NoTaker, PlacedOrder
    <3> QED BY <3>1 DEF Unspent, Placing
  <2>5. /\ e.charged + unspent + e.returned + e.dropped = e.reserved
        /\ t.released = e.returned
        /\ t.settled = IF t.settles THEN e.charged ELSE 0
    BY <2>1 DEF AddsUp, WalletAgrees
  <2> HIDE DEF e, t, unspent
  <2>6. /\ t.settles => t.settled = e.charged
        /\ t.settled + t.released <= e.reserved
    BY <2>2, <2>3, <2>5
  <2>7. ASSUME unspent = 0, ~(e.dropped > 0), ~(~t.settles /\ e.charged > 0)
        PROVE  t.settled + t.released = e.reserved
    BY <2>2, <2>3, <2>5, <2>7
  <2> QED BY <2>4, <2>6, <2>7 DEF e, t
<1> QED BY <1>1, AnnouncedInvariant, PTL

\* The account deltas of every trade, liquidation and deleveraging pay out
\* what the positions lose, up to the rounding of entry prices.
THEOREM MoneyIsAlwaysConserved == AnnouncedSpec => []MoneyIsConserved
<1>1. AInv => MoneyIsConserved
  BY DEF AInv
<1> QED BY <1>1, AnnouncedInvariant, PTL

\* OrderOpened, TradeExecuted and OrderCancelled suffice to know the book.
THEOREM OpenOrdersAlwaysFollow == AnnouncedSpec => []OpenOrdersFollow
<1>1. AInv => OpenOrdersFollow
  BY DEF AInv, OpenOK, OpenAgrees, OpenOrdersFollow
<1> QED BY <1>1, AnnouncedInvariant, PTL

\* evaluate_automatic_liquidations_for_market ends with every liquidatable
\* account attempted or its cap reached, and it runs after every change of the
\* accounts that no liquidation was requested for.
THEOREM LiquidatablesAlwaysTried == AnnouncedSpec => []LiquidatablesWereTried
<1>1. AInv => LiquidatablesWereTried
  BY DEF AInv, TriedOK, NoneLeft, LiquidatablesWereTried
<1> QED BY <1>1, AnnouncedInvariant, PTL

\* A funding settlement tick adds to the equities of one side what it takes
\* from the other, each payment cut off by less than one unit.
THEOREM FundingAlwaysBalances == AnnouncedSpec => FundingBalances
<1>1. IInv /\ [AnnouncedNext]_<<vars, announced>> =>
        [settled' # settled /\ mark # 0 =>
           LET open == {u \in Users : positions[u].quantity # 0}
               paid == [u \in Users |-> EquityAdjustment(risks'[u]) - EquityAdjustment(risks[u])]
           IN  Abs(SumFunctionOnSet(paid, open)) <= Cardinality(open)]_vars
  <2> SUFFICES ASSUME IInv, [AnnouncedNext]_<<vars, announced>>, settled' # settled, mark # 0
               PROVE  LET open == {u \in Users : positions[u].quantity # 0}
                          paid == [u \in Users |-> EquityAdjustment(risks'[u])
                                                     - EquityAdjustment(risks[u])]
                      IN  Abs(SumFunctionOnSet(paid, open)) <= Cardinality(open)
    OBVIOUS
  <2>1. [Next]_vars BY AnnouncedStepIsAStep
  <2> QED BY <2>1, SettlementBalances
<1> QED BY <1>1, AnnouncedInvariant, PTL DEF AnnouncedSpec, FundingBalances
=============================================================================
