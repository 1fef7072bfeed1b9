------------------------------- MODULE SideBook -------------------------------
(***************************************************************************)
(* One side of the book as it is stored: a ladder of slots around the base *)
(* tick with a bitmap of the active slots, an ordered map for the prices   *)
(* outside the ladder, a running total in each level, and a cached pointer *)
(* to the best level.                                                      *)
(*                                                                         *)
(* The price of a level names the level: a pointer to it is its price, and *)
(* it dangles when no level is stored for that price.  A bitmap word is    *)
(* the set of its bits that are 1.                                         *)
(***************************************************************************)
EXTENDS Integers, Sequences, FiniteSetsExt, Functions, OrderList

CONSTANTS
  Orders,
  Prices,       \* the prices validate_price lets through, in ticks
  TickSize,     \* SymbolConfig::tickSize
  BaseTick,     \* SymbolConfig::initialBaseTick
  Capacity,     \* SymbolConfig::ringCapacityTicks
  HeadIndex,    \* RingPriceLadder::headIndex, which the code leaves at 0
  WordBits,     \* kBitmapWordBits, 64 in the code
  MaxQuantity,
  NoLevel,      \* a null PriceLevel*
  NoPrice       \* a null cachedBestLevel

\* A PriceLevel.
Level == [price : Prices, list : Seq(Orders), total : Nat]

ASSUME LadderAssumption ==
  /\ IsFiniteSet(Orders)
  /\ TickSize \in Nat \ {0}
  /\ Prices \subseteq {p \in Nat \ {0} : p % TickSize = 0}
  /\ BaseTick \in Int
  /\ Capacity \in Nat \ {0}
  /\ HeadIndex \in 0 .. Capacity - 1
  /\ WordBits \in Nat \ {0}
  /\ MaxQuantity \in Nat \ {0}
  /\ NoPrice \notin Prices
  /\ NoLevel \notin Level

VARIABLES
  side,            \* Buy or Sell, fixed by the constructor
  slots,           \* RingPriceLadder::slots
  bitmap,          \* RingPriceLadder::activeSlotBitmap
  far,             \* FarPriceMap::levels
  cachedBest,      \* cachedBestLevel
  order            \* order[o]: price and remaining quantity of each Order

ladder == <<slots, bitmap>>
vars == <<side, ladder, far, cachedBest, order>>

Slots == 0 .. Capacity - 1
Words == 0 .. (Capacity - 1) \div WordBits
NotResting == [price |-> NoPrice, remaining |-> 0]

IsBetterPrice(candidate, current) ==
  IF side = "Buy" THEN candidate > current ELSE candidate < current

-----------------------------------------------------------------------------
(* Where a price is stored.                                                *)

PriceToLadderTick(p) == p \div TickSize
ContainsTick(t) == t >= BaseTick /\ t - BaseTick < Capacity
PriceTickToSlot(t) == (HeadIndex + (t - BaseTick)) % Capacity

InLadder(p) == ContainsTick(PriceToLadderTick(p))
SlotOf(p) == PriceTickToSlot(PriceToLadderTick(p))

GetLevel(p) == IF InLadder(p) THEN slots[SlotOf(p)] ELSE far[p]

GetOrCreateLevel(p) ==
  IF GetLevel(p) = NoLevel THEN [price |-> p, list |-> <<>>, total |-> 0]
                           ELSE GetLevel(p)

-----------------------------------------------------------------------------
(* The active bitmap.                                                      *)
MarkActive(bm, slot) ==
  [bm EXCEPT ![slot \div WordBits] = @ \cup {slot % WordBits}]

MarkInactive(bm, slot) ==
  [bm EXCEPT ![slot \div WordBits] = @ \ {slot % WordBits}]

\* The slots whose bit survives the masks of the first and the last word.
MarkedInRange(bm, firstSlot, lastSlot) ==
  LET firstWord == firstSlot \div WordBits
      lastWord  == lastSlot \div WordBits
      Bits(w)   == {b \in bm[w] : /\ w = firstWord => b >= firstSlot % WordBits
                                  /\ w = lastWord => b <= lastSlot % WordBits}
  IN  IF firstSlot > lastSlot THEN {}
      ELSE UNION {{w * WordBits + b : b \in Bits(w)} : w \in firstWord .. lastWord}
\* Variant: both sides scan upwards.
LowestSlotIn(sl, marked) ==
  LET live == {i \in marked : i < Capacity /\ sl[i] # NoLevel}
  IN  IF live = {} THEN {} ELSE {Min(live)}

\* first_active_level_in_range of an ask ladder, last_active_... of a bid one.
BestSlotIn(sl, marked) ==
  LET live == {i \in marked : i < Capacity /\ sl[i] # NoLevel}
  IN  IF live = {} THEN {}
      ELSE {IF side = "Buy" THEN Max(live) ELSE Min(live)}

\* advance_best_after_empty: the slots from the head to the end hold the lower
\* prices, the ones before the head the higher.
RingBestSlot(sl, bm) ==
  LET low    == MarkedInRange(bm, HeadIndex, Capacity - 1)
      high   == MarkedInRange(bm, 0, HeadIndex - 1)
      first  == BestSlotIn(sl, IF side = "Buy" THEN high ELSE low)
      second == BestSlotIn(sl, IF side = "Buy" THEN low ELSE high)
  IN  IF first # {} THEN first ELSE second

\* The scan clears the bits of empty slots it passes on its way.
BitmapAfterScan(sl, bm) ==
  LET rank(i)   == (i - HeadIndex) % Capacity
      found     == RingBestSlot(sl, bm)
      passed(i) == \A f \in found :
                     IF side = "Buy" THEN rank(i) > rank(f) ELSE rank(i) < rank(f)
  IN  [w \in Words |->
         {b \in bm[w] : LET i == w * WordBits + b
                        IN  i \in Slots => sl[i] # NoLevel \/ ~passed(i)}]

-----------------------------------------------------------------------------
(* The cached best level.                                                  *)

FarBest(fr) ==
  LET nonEmpty == {p \in Prices : fr[p] # NoLevel /\ fr[p].list # <<>>}
  IN  IF nonEmpty = {} THEN NoPrice
      ELSE IF side = "Buy" THEN Max(nonEmpty) ELSE Min(nonEmpty)

RingBest(sl, bm) ==
  LET found == RingBestSlot(sl, bm)
  IN  IF found = {} THEN NoPrice ELSE sl[CHOOSE i \in found : TRUE].price

RefreshedBest(ringBest, farBest) ==
  CASE ringBest = NoPrice -> farBest
    [] farBest = NoPrice -> ringBest
    [] OTHER -> IF IsBetterPrice(ringBest, farBest) THEN ringBest ELSE farBest

BestLevel ==
  IF cachedBest = NoPrice \/ GetLevel(cachedBest).list = <<>> THEN NoPrice
  ELSE cachedBest
\* Variant: the newest order of the level is served first.
NewestOrder == LET list == GetLevel(BestLevel).list IN list[Len(list)]

BestOrder == Head(GetLevel(BestLevel).list)

\* The price level becomes `level`, which is dropped when it holds nothing;
\* the cached best is searched again if it is this level or holds nothing.
UpdateAfterFillOrCancel(p, level) ==
  LET drop    == level.list = <<>> \/ level.total = 0
      value   == IF drop THEN NoLevel ELSE level
      sl      == IF InLadder(p) THEN [slots EXCEPT ![SlotOf(p)] = value] ELSE slots
      bm      == IF InLadder(p) /\ drop THEN MarkInactive(bitmap, SlotOf(p)) ELSE bitmap
      fr      == IF InLadder(p) THEN far ELSE [far EXCEPT ![p] = value]
      refresh == \/ cachedBest \in {p, NoPrice}
                 \/ GetLevel(cachedBest).list = <<>>
  IN  /\ slots' = sl
      /\ far' = fr
      /\ bitmap' = IF refresh THEN BitmapAfterScan(sl, bm) ELSE bm
      /\ cachedBest' = IF refresh THEN RefreshedBest(RingBest(sl, bm), FarBest(fr))
                                  ELSE cachedBest
\* Variant: a total is only ever cleared.
ClearTotal(total, lots) == IF lots >= total THEN 0 ELSE total

DecreaseTotal(total, lots) == IF lots >= total THEN 0 ELSE total - lots

-----------------------------------------------------------------------------
(* Operations.                                                             *)

InsertRestingOrder(o, p, lots) ==
  LET level == GetOrCreateLevel(p)
      grown == [level EXCEPT !.list = Append(@, o), !.total = @ + lots]
  IN  /\ order[o] = NotResting
      /\ order' = [order EXCEPT ![o] = [price |-> p, remaining |-> lots]]
      /\ \/ /\ InLadder(p)
            /\ slots' = [slots EXCEPT ![SlotOf(p)] = grown]
            /\ bitmap' = MarkActive(bitmap, SlotOf(p))
            /\ UNCHANGED far
         \/ /\ ~InLadder(p)
            /\ far' = [far EXCEPT ![p] = grown]
            /\ UNCHANGED ladder
      /\ cachedBest' = IF cachedBest = NoPrice \/ IsBetterPrice(p, cachedBest)
                       THEN p ELSE cachedBest
      /\ UNCHANGED side

\* remove_order: unlink, take what is left of the order out of the total.
RemoveOrder(o) ==
  LET p     == order[o].price
      level == GetLevel(p)
  IN  /\ order[o] # NotResting
      /\ order' = [order EXCEPT ![o] = NotResting]
      /\ UpdateAfterFillOrCancel(p,
           [level EXCEPT !.list = Unlink(@, o),
                         !.total = DecreaseTotal(@, order[o].remaining)])
      /\ UNCHANGED side

\* The order after a partial fill.
Reduced(o, lots) == [order[o] EXCEPT !.remaining = @ - lots]

\* What an iteration of match_incoming_order does to the maker's side.
FillBestOrder(lots) ==
  LET p      == BestLevel
      o      == BestOrder
      level  == GetLevel(p)
      total  == DecreaseTotal(level.total, lots)
      filled == lots = order[o].remaining
  IN  /\ BestLevel # NoPrice
      /\ lots <= order[o].remaining
      /\ order' = [order EXCEPT
           ![o] = IF filled THEN NotResting ELSE Reduced(o, lots)]
      /\ UpdateAfterFillOrCancel(p,
           [level EXCEPT !.list = IF filled THEN Unlink(@, o) ELSE @,
                         !.total = IF filled THEN DecreaseTotal(total, 0) ELSE total])
      /\ UNCHANGED side

Init ==
  /\ side \in {"Buy", "Sell"}
  /\ slots = [i \in Slots |-> NoLevel]
  /\ bitmap = [w \in Words |-> {}]
  /\ far = [p \in Prices |-> NoLevel]
  /\ cachedBest = NoPrice
  /\ order = [o \in Orders |-> NotResting]

Next ==
  \/ \E o \in Orders, p \in Prices, lots \in 1 .. MaxQuantity :
       InsertRestingOrder(o, p, lots)
  \/ \E o \in Orders : RemoveOrder(o)
  \/ \E lots \in 1 .. MaxQuantity : FillBestOrder(lots)

Spec == Init /\ [][Next]_vars

-----------------------------------------------------------------------------
(* Properties.                                                             *)

RestingAt(p) == {o \in Orders : order[o].price = p}

LotsAt(p) ==
  SumFunctionOnSet([o \in Orders |-> order[o].remaining], RestingAt(p))

\* A price has a level exactly when orders rest at it; the level sits in its own
\* slot or in the far map but never in both, and the bitmap marks exactly the
\* slots that hold one.  Its running total, which the book deltas publish and
\* fill-or-kill orders rely on, is the sum of what its orders have left.
LevelsMatchOrders ==
  /\ \A p \in Prices :
       LET level == GetLevel(p)
       IN  /\ (level # NoLevel) <=> (RestingAt(p) # {})
           /\ level # NoLevel =>
                /\ level.price = p
                /\ level.total = LotsAt(p)
           /\ InLadder(p) => far[p] = NoLevel
  /\ \A i \in Slots :
       /\ (slots[i] # NoLevel) <=> (i % WordBits \in bitmap[i \div WordBits])
       /\ slots[i] # NoLevel => SlotOf(slots[i].price) = i

\* The cached pointer never dangles and is never stale: it is the best price
\* at which an order rests, wherever fills and cancels emptied the levels.
CachedBestIsBest ==
  LET active == {p \in Prices : RestingAt(p) # {}}
  IN  IF active = {} THEN cachedBest = NoPrice
      ELSE /\ cachedBest \in active
           /\ \A p \in active : ~IsBetterPrice(p, cachedBest)

\* The ladder, the far map and the cache together implement the queues.
Abstract ==
  INSTANCE PriceLevels WITH
    queue     <- [p \in Prices |->
                    IF GetLevel(p) = NoLevel THEN <<>> ELSE GetLevel(p).list],
    remaining <- [o \in Orders |-> order[o].remaining]

ImplementsPriceLevels == Abstract!Spec
=============================================================================
