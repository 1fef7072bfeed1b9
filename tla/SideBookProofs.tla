---------------------------- MODULE SideBookProofs ----------------------------
(***************************************************************************)
(* The levels of one side of the book agree with its orders, the cached    *)
(* best level is the best, and the side implements the queues of           *)
(* PriceLevels, for every ladder, every set of prices and every set of     *)
(* orders.                                                                 *)
(***************************************************************************)
EXTENDS SideBook, BasicLemmas

(***************************************************************************)
(* The inductive invariant.                                                *)
(***************************************************************************)

RestingOrder == [price : Prices, remaining : Nat \ {0}]

Bits == 0 .. WordBits - 1

\* The bit of the slot is 1.
Marked(bm, i) == i % WordBits \in bm[i \div WordBits]

\* A level in the ladder sits in the slot of its price and is marked; a level
\* in the far map is under its price, which is not one of the ladder's.
StoreOK(sl, bm, fr) ==
  /\ sl \in [Slots -> Level \cup {NoLevel}]
  /\ bm \in [Words -> SUBSET Bits]
  /\ fr \in [Prices -> Level \cup {NoLevel}]
  /\ \A i \in Slots : sl[i] # NoLevel => InLadder(sl[i].price) /\ SlotOf(sl[i].price) = i
  /\ \A i \in Slots : sl[i] # NoLevel <=> Marked(bm, i)
  /\ \A p \in Prices : fr[p] # NoLevel => fr[p].price = p /\ ~InLadder(p)

TypeOK ==
  /\ side \in {"Buy", "Sell"}
  /\ StoreOK(slots, bitmap, far)
  /\ cachedBest \in Prices \cup {NoPrice}
  /\ order \in [Orders -> RestingOrder \cup {NotResting}]

\* The level holds the orders in queue, and the sum of what they have left.
LevelIs(level, queued, lots) ==
  /\ level # NoLevel <=> queued # {}
  /\ level # NoLevel => IsListOf(level.list, queued) /\ level.total = lots

LevelsOK == \A p \in Prices : LevelIs(GetLevel(p), RestingAt(p), LotsAt(p))

IInv == TypeOK /\ LevelsOK /\ CachedBestIsBest

(***************************************************************************)
(* Prices, slots and bits.                                                 *)
(***************************************************************************)

\* The assumptions on the constants, in the form the proofs cite.
LEMMA Constants ==
  /\ IsFiniteSet(Orders) /\ NoPrice \notin Prices /\ NoLevel \notin Level
  /\ TickSize \in Nat \ {0} /\ WordBits \in Nat \ {0} /\ BaseTick \in Int
  /\ Capacity \in Nat /\ Capacity > 0
  /\ HeadIndex \in Nat /\ HeadIndex < Capacity
  /\ \A p \in Prices : p \in Nat /\ p > 0 /\ p % TickSize = 0
BY LadderAssumption

\* Prices are ordered as their ticks are.
LEMMA TickOrder ==
  ASSUME NEW p \in Prices, NEW q \in Prices
  PROVE  /\ PriceToLadderTick(p) \in Nat /\ PriceToLadderTick(q) \in Nat
         /\ p <= q <=> PriceToLadderTick(p) <= PriceToLadderTick(q)
         /\ p = q <=> PriceToLadderTick(p) = PriceToLadderTick(q)
<1>1. p \in Nat /\ q \in Nat /\ p % TickSize = 0 /\ q % TickSize = 0
      /\ TickSize \in Nat \ {0}
  BY Constants
<1>2. /\ p \div TickSize \in Nat /\ q \div TickSize \in Nat
      /\ p <= q <=> \/ p \div TickSize < q \div TickSize
                    \/ p \div TickSize = q \div TickSize /\ p % TickSize <= q % TickSize
      /\ p = q <=> p \div TickSize = q \div TickSize /\ p % TickSize = q % TickSize
  BY <1>1, DivisionOrder
<1> DEFINE s == p \div TickSize
           t == q \div TickSize
<1>3. /\ s \in Nat /\ t \in Nat
      /\ p <= q <=> (s < t \/ s = t)
      /\ p = q <=> s = t
  BY <1>1, <1>2
<1>4. s <= t <=> (s < t \/ s = t)
  <2> HIDE DEF s, t
  <2> QED BY <1>3
<1> QED BY <1>3, <1>4 DEF PriceToLadderTick

\* The slots from the head on hold the ticks from the base on; the ones before
\* the head follow.
LEMMA SlotOfPrice ==
  ASSUME NEW p \in Prices, InLadder(p)
  PROVE  LET ahead == PriceToLadderTick(p) - BaseTick
         IN  /\ ahead \in Nat /\ ahead < Capacity
             /\ SlotOf(p) \in Slots
             /\ SlotOf(p) = IF HeadIndex + ahead < Capacity THEN HeadIndex + ahead
                            ELSE (HeadIndex + ahead) - Capacity
<1> DEFINE ahead == PriceToLadderTick(p) - BaseTick
           sum == HeadIndex + ahead
<1>1. PriceToLadderTick(p) \in Nat
  BY TickOrder
<1>2. ahead \in Nat /\ ahead < Capacity
  BY <1>1, Constants DEF InLadder, ContainsTick
<1>3. SlotOf(p) = sum % Capacity
  BY DEF SlotOf, PriceTickToSlot
<1> HIDE DEF ahead
<1>4. CASE sum < Capacity
  <2>1. sum \in Nat /\ Capacity \in Nat \ {0} BY <1>2, Constants
  <2> HIDE DEF sum
  <2>2. sum % Capacity = sum BY <1>4, <2>1, RingIndex
  <2>3. SlotOf(p) = sum BY <1>3, <2>2
  <2>4. sum \in Slots BY <1>4, <2>1, Constants DEF Slots
  <2> QED BY <1>2, <1>4, <2>3, <2>4 DEF sum, ahead
<1>5. CASE ~(sum < Capacity)
  <2> DEFINE rest == sum - Capacity
  <2>1. rest \in Nat /\ rest < Capacity /\ sum = Capacity + rest
         /\ Capacity \in Nat \ {0}
    BY <1>2, <1>5, Constants
  <2> HIDE DEF sum, rest
  <2>2. (Capacity + rest) % Capacity = rest BY <2>1, RingIndex
  <2>0. sum % Capacity = rest BY <2>1, <2>2
  <2>3. SlotOf(p) = rest BY <1>3, <2>0
  <2>4. rest \in Slots BY <2>1, Constants DEF Slots
  <2> QED BY <1>2, <1>5, <2>3, <2>4 DEF rest, sum, ahead
<1> QED BY <1>4, <1>5

\* The order of the slots is that of their prices, the head the lowest.
LEMMA SlotOrder ==
  ASSUME NEW p \in Prices, NEW q \in Prices, InLadder(p), InLadder(q)
  PROVE  /\ SlotOf(p) = SlotOf(q) => p = q
         /\ SlotOf(p) < HeadIndex /\ HeadIndex <= SlotOf(q) => q < p
         /\ SlotOf(p) < HeadIndex /\ SlotOf(q) < HeadIndex /\ SlotOf(p) <= SlotOf(q) =>
              p <= q
         /\ HeadIndex <= SlotOf(p) /\ SlotOf(p) <= SlotOf(q) => p <= q
<1> DEFINE s == PriceToLadderTick(p)
           t == PriceToLadderTick(q)
           a == s - BaseTick
           b == t - BaseTick
           i == SlotOf(p)
           j == SlotOf(q)
<1>1. /\ s \in Nat /\ t \in Nat /\ p \in Nat /\ q \in Nat
      /\ p <= q <=> s <= t
      /\ q <= p <=> t <= s
      /\ p = q <=> s = t
  BY TickOrder, Constants
<1>2. /\ a \in Nat /\ a < Capacity
      /\ i = IF HeadIndex + a < Capacity THEN HeadIndex + a ELSE (HeadIndex + a) - Capacity
  BY SlotOfPrice
<1>3. /\ b \in Nat /\ b < Capacity
      /\ j = IF HeadIndex + b < Capacity THEN HeadIndex + b ELSE (HeadIndex + b) - Capacity
  BY SlotOfPrice
<1>4. s = BaseTick + a /\ t = BaseTick + b
  BY <1>1, Constants
<1>5. BaseTick \in Int /\ Capacity \in Nat /\ HeadIndex \in Nat /\ HeadIndex < Capacity
  BY Constants
<1> HIDE DEF s, t, a, b, i, j
<1>6. i = j => p = q
  BY <1>1, <1>2, <1>3, <1>4, <1>5
<1>7. i < HeadIndex /\ HeadIndex <= j => q < p
  BY <1>1, <1>2, <1>3, <1>4, <1>5
<1>8. i < HeadIndex /\ j < HeadIndex /\ i <= j => p <= q
  BY <1>1, <1>2, <1>3, <1>4, <1>5
<1>9. HeadIndex <= i /\ i <= j => p <= q
  BY <1>1, <1>2, <1>3, <1>4, <1>5
<1> QED BY <1>6, <1>7, <1>8, <1>9 DEF i, j

\* A slot has its own bit in a word of the bitmap.
LEMMA SlotBit ==
  ASSUME NEW i \in Slots, NEW j \in Slots
  PROVE  /\ i \div WordBits \in Words /\ i % WordBits \in Bits
         /\ i \div WordBits = j \div WordBits /\ i % WordBits = j % WordBits => i = j
<1>1. i \in Nat /\ j \in Nat /\ i <= Capacity - 1 /\ Capacity - 1 \in Nat
      /\ WordBits \in Nat \ {0}
  BY Constants DEF Slots
<1> DEFINE last == Capacity - 1
<1>2. /\ i \div WordBits \in Nat /\ last \div WordBits \in Nat
      /\ i % WordBits \in Nat /\ i % WordBits < WordBits
      /\ i <= last <=> \/ i \div WordBits < last \div WordBits
                       \/ i \div WordBits = last \div WordBits
                            /\ i % WordBits <= last % WordBits
  BY <1>1, DivisionOrder
<1>3. i \div WordBits <= last \div WordBits
  <2> DEFINE d == i \div WordBits
             e == last \div WordBits
  <2>1. d \in Nat /\ e \in Nat /\ (d < e \/ d = e) BY <1>1, <1>2
  <2> HIDE DEF d, e
  <2>2. d <= e BY <2>1
  <2> QED BY <2>2 DEF d, e
<1>4. i \div WordBits \in Words
  BY <1>2, <1>3 DEF Words
<1>5. i % WordBits \in Bits
  BY <1>1, <1>2 DEF Bits
<1>6. i = j <=> i \div WordBits = j \div WordBits /\ i % WordBits = j % WordBits
  BY <1>1, DivisionOrder
<1> QED BY <1>4, <1>5, <1>6
\* The masks of the first and the last word leave the marked slots of the range.
LEMMA MarkedInRangeIs ==
  ASSUME NEW bm \in [Words -> SUBSET Bits], NEW first \in Slots, NEW last \in Slots \cup {-1}
  PROVE  /\ MarkedInRange(bm, first, last) \subseteq Nat
         /\ \A i \in Slots : i \in MarkedInRange(bm, first, last) <=>
              first <= i /\ i <= last /\ Marked(bm, i)
<1> DEFINE R == MarkedInRange(bm, first, last)
<1>0. first \in Nat /\ WordBits \in Nat \ {0} /\ \A i \in Slots : i \in Nat
  BY Constants DEF Slots
<1>1. CASE first > last
  <2>1. R = {} BY <1>1 DEF MarkedInRange
  <2>2. \A i \in Slots : ~(first <= i /\ i <= last)
    BY <1>0, <1>1
  <2> QED BY <2>1, <2>2
<1>2. CASE ~(first > last)
  <2> DEFINE fw == first \div WordBits
             lw == last \div WordBits
             fb == first % WordBits
             lb == last % WordBits
             BitsOf(w) == {b \in bm[w] : (w = fw => b >= fb) /\ (w = lw => b <= lb)}
             SlotsOf(w) == {w * WordBits + b : b \in BitsOf(w)}
  <2>1. last \in Slots /\ last \in Nat /\ first <= last
    BY <1>0, <1>2
  <2>2. fw \in Nat /\ lw \in Words /\ lw \in Nat /\ fb \in Nat /\ lb \in Nat
    BY <1>0, <2>1, DivisionOrder, SlotBit
  <2>3. R = UNION {SlotsOf(w) : w \in fw .. lw}
    BY <1>2 DEF MarkedInRange
  <2>4. \A w \in fw .. lw : w \in Nat /\ w \in Words
    <3> DEFINE top == (Capacity - 1) \div WordBits
    <3>1. Capacity - 1 \in Nat BY Constants
    <3>2. top \in Nat BY <1>0, <3>1, DivisionOrder
    <3>3. Words = 0 .. top BY DEF Words
    <3> HIDE DEF fw, lw, top
    <3> QED BY <2>2, <3>2, <3>3
  <2>5. \A w \in fw .. lw : \A b \in BitsOf(w) : b \in Nat /\ b < WordBits
    BY <1>0, <2>4 DEF Bits
  <2>6. ASSUME NEW i \in Nat
        PROVE  /\ i \div WordBits \in Nat /\ i % WordBits \in Nat
               /\ first <= i <=> \/ fw < i \div WordBits
                                 \/ fw = i \div WordBits /\ fb <= i % WordBits
               /\ i <= last <=> \/ i \div WordBits < lw
                                \/ i \div WordBits = lw /\ i % WordBits <= lb
    BY <1>0, <2>1, DivisionOrder
  <2> HIDE DEF fw, lw, fb, lb
  <2>7. ASSUME NEW w \in fw .. lw, NEW b \in BitsOf(w), NEW i, i = w * WordBits + b
        PROVE  i \in Nat /\ first <= i /\ i <= last /\ Marked(bm, i)
    <3>1. w \in Nat /\ b \in Nat /\ b < WordBits /\ b \in bm[w]
      BY <2>4, <2>5
    <3>2. i \div WordBits = w /\ i % WordBits = b
      BY <1>0, <2>7, <3>1, DivisionIsUnique
    <3>3. w * WordBits \in Nat BY <1>0, <3>1
    <3>4. i \in Nat BY <2>7, <3>1, <3>3
    <3>5. (w = fw => b >= fb) /\ (w = lw => b <= lb) /\ fw <= w /\ w <= lw
      BY <2>2
    <3>6. first <= i BY <2>2, <2>6, <3>1, <3>2, <3>4, <3>5
    <3>7. i <= last BY <2>2, <2>6, <3>1, <3>2, <3>4, <3>5
    <3>8. Marked(bm, i) BY <3>1, <3>2 DEF Marked
    <3> QED BY <3>4, <3>6, <3>7, <3>8
  <2>8. ASSUME NEW i \in Slots, first <= i, i <= last, Marked(bm, i)
        PROVE  i \in R
    <3> DEFINE w == i \div WordBits
               b == i % WordBits
    <3>1. i \in Nat /\ w \in Nat /\ b \in Nat /\ b \in bm[w]
      BY <1>0, <2>6, <2>8 DEF Marked
    <3>2. /\ fw < w \/ (fw = w /\ fb <= b)
          /\ w < lw \/ (w = lw /\ b <= lb)
      BY <2>6, <2>8, <3>1
    <3>3. i = w * WordBits + b
      <4>1. w \in Int /\ b \in Int /\ w * WordBits = i - b
        BY <1>0, <3>1, DivisionLaw
      <4> DEFINE x == w * WordBits
      <4>2. x = i - b BY <4>1
      <4> HIDE DEF w, b, x
      <4>3. i = x + b BY <3>1, <4>1, <4>2
      <4> QED BY <4>3 DEF x
    <3> HIDE DEF w, b
    <3>4. w \in fw .. lw /\ b \in BitsOf(w)
      BY <2>2, <3>1, <3>2
    <3>5. i \in SlotsOf(w)
      BY <3>3, <3>4
    <3> HIDE DEF SlotsOf
    <3> QED BY <2>3, <3>4, <3>5
  <2>9. ASSUME NEW i \in R PROVE i \in Nat /\ first <= i /\ i <= last /\ Marked(bm, i)
    <3>1. PICK w \in fw .. lw : i \in SlotsOf(w) BY <2>3
    <3>2. PICK b \in BitsOf(w) : i = w * WordBits + b BY <3>1
    <3> HIDE DEF BitsOf, SlotsOf
    <3> QED BY <2>7, <3>2
  <2> QED BY <2>8, <2>9
<1> QED BY <1>1, <1>2

\* Setting or clearing the bit of a slot changes no other slot's.
LEMMA MarkingIs ==
  ASSUME NEW bm \in [Words -> SUBSET Bits], NEW i \in Slots
  PROVE  /\ MarkActive(bm, i) \in [Words -> SUBSET Bits]
         /\ MarkInactive(bm, i) \in [Words -> SUBSET Bits]
         /\ \A j \in Slots : Marked(MarkActive(bm, i), j) <=> j = i \/ Marked(bm, j)
         /\ \A j \in Slots : Marked(MarkInactive(bm, i), j) <=> j # i /\ Marked(bm, j)
<1>1. i \div WordBits \in Words /\ i % WordBits \in Bits
  BY SlotBit
<1>2. \A j \in Slots :
        /\ j \div WordBits \in Words
        /\ i \div WordBits = j \div WordBits /\ i % WordBits = j % WordBits => i = j
  BY SlotBit
<1>3. /\ MarkActive(bm, i) \in [Words -> SUBSET Bits]
      /\ MarkInactive(bm, i) \in [Words -> SUBSET Bits]
  BY <1>1 DEF MarkActive, MarkInactive
<1>4. ASSUME NEW j \in Slots
      PROVE  /\ Marked(MarkActive(bm, i), j) <=> j = i \/ Marked(bm, j)
             /\ Marked(MarkInactive(bm, i), j) <=> j # i /\ Marked(bm, j)
  <2> DEFINE w == i \div WordBits
             b == i % WordBits
             v == j \div WordBits
             c == j % WordBits
  <2>1. /\ w \in Words /\ v \in Words
        /\ (w = v /\ b = c) => i = j
        /\ i = j => (w = v /\ b = c)
    BY <1>1, <1>2
  <2> HIDE DEF w, b, v, c
  <2>2. c \in [bm EXCEPT ![w] = @ \cup {b}][v] <=> j = i \/ c \in bm[v]
    BY <2>1
  <2>3. c \in [bm EXCEPT ![w] = @ \ {b}][v] <=> j # i /\ c \in bm[v]
    BY <2>1
  <2> QED BY <2>2, <2>3 DEF Marked, MarkActive, MarkInactive, w, b, v, c
<1> QED BY <1>3, <1>4

(***************************************************************************)
(* The best level.                                                         *)
(***************************************************************************)

\* The level of a price in a given store.
LevelIn(sl, fr, p) == IF InLadder(p) THEN sl[SlotOf(p)] ELSE fr[p]

\* No price of S is better than best; there is no best when S is empty.
BestOf(best, S) ==
  IF S = {} THEN best = NoPrice
  ELSE best \in S /\ \A q \in S : ~IsBetterPrice(q, best)

\* Slot i is in the range that is searched, and holds a level.
LiveIn(sl, first, last) == {i \in Slots : first <= i /\ i <= last /\ sl[i] # NoLevel}

\* A scan of a range of slots finds its last level for bids, its first for asks.
LEMMA BestSlotInRange ==
  ASSUME side \in {"Buy", "Sell"}, NEW sl, NEW bm, NEW fr, StoreOK(sl, bm, fr),
         NEW first \in Slots, NEW last \in Slots \cup {-1}
  PROVE  LET live == LiveIn(sl, first, last)
             best == BestSlotIn(sl, MarkedInRange(bm, first, last))
         IN  \/ live = {} /\ best = {}
             \/ \E i \in live : /\ best = {i}
                                /\ \A j \in live : /\ side = "Buy" => j <= i
                                                   /\ side = "Sell" => i <= j
<1> DEFINE marked == MarkedInRange(bm, first, last)
           live == LiveIn(sl, first, last)
           found == {i \in marked : i < Capacity /\ sl[i] # NoLevel}
<1>1. /\ bm \in [Words -> SUBSET Bits]
      /\ \A i \in Slots : sl[i] # NoLevel <=> Marked(bm, i)
  BY DEF StoreOK
<1>2. /\ marked \subseteq Nat
      /\ \A i \in Slots : i \in marked <=> first <= i /\ i <= last /\ Marked(bm, i)
  BY <1>1, MarkedInRangeIs
<1>3. \A i \in Nat : i < Capacity <=> i \in Slots
  BY Constants DEF Slots
<1> HIDE DEF marked
<1>4. found = live
  BY <1>1, <1>2, <1>3 DEF LiveIn
<1>5. BestSlotIn(sl, marked) =
        IF found = {} THEN {} ELSE {IF side = "Buy" THEN Max(found) ELSE Min(found)}
  BY DEF BestSlotIn
<1> HIDE DEF found
<1>6. live \subseteq Nat /\ IsFiniteSet(live)
  <2>1. live \subseteq Slots BY DEF LiveIn
  <2>2. 0 \in Int /\ Capacity - 1 \in Int BY Constants
  <2>3. IsFiniteSet(Slots) BY <2>2, FS_Interval DEF Slots
  <2>4. Slots \subseteq Nat BY Constants DEF Slots
  <2> HIDE DEF live
  <2> QED BY <2>1, <2>3, <2>4, FS_Subset
<1> HIDE DEF live
<1>7. CASE live = {}
  BY <1>4, <1>5, <1>7 DEF marked, live
<1>8. CASE live # {}
  <2>1. Max(live) \in live /\ \A n \in live : n <= Max(live)
    BY <1>6, <1>8, MaxExists
  <2>2. Min(live) \in live /\ \A n \in live : Min(live) <= n
    BY <1>6, <1>8, MinExists
  <2> DEFINE i == IF side = "Buy" THEN Max(live) ELSE Min(live)
  <2>3. i \in live /\ \A j \in live : (side = "Buy" => j <= i) /\ (side = "Sell" => i <= j)
    BY <2>1, <2>2
  <2>4. BestSlotIn(sl, marked) = {i}
    BY <1>4, <1>5, <1>8
  <2> HIDE DEF i
  <2> QED BY <2>3, <2>4 DEF marked, live
<1> QED BY <1>7, <1>8

\* What a level in a slot says of its price.
LEMMA SlotHoldsPrice ==
  ASSUME NEW sl, NEW bm, NEW fr, StoreOK(sl, bm, fr), NEW i \in Slots, sl[i] # NoLevel
  PROVE  /\ sl[i] \in Level /\ sl[i].price \in Prices
         /\ InLadder(sl[i].price) /\ SlotOf(sl[i].price) = i
<1>1. sl[i] \in Level
  BY DEF StoreOK
<1> QED BY <1>1 DEF StoreOK, Level

\* The slots of the ladder that hold a level.
Live(sl) == {i \in Slots : sl[i] # NoLevel}

\* Searching first one part of the ring and then the other finds its best level.
LEMMA RingBestSlotIs ==
  ASSUME side \in {"Buy", "Sell"}, NEW sl, NEW bm, NEW fr, StoreOK(sl, bm, fr)
  PROVE  \/ Live(sl) = {} /\ RingBestSlot(sl, bm) = {}
         \/ \E i \in Live(sl) :
              /\ RingBestSlot(sl, bm) = {i}
              /\ \A j \in Live(sl) : ~IsBetterPrice(sl[j].price, sl[i].price)
<1> DEFINE low  == LiveIn(sl, HeadIndex, Capacity - 1)
           high == LiveIn(sl, 0, HeadIndex - 1)
           lowBest  == BestSlotIn(sl, MarkedInRange(bm, HeadIndex, Capacity - 1))
           highBest == BestSlotIn(sl, MarkedInRange(bm, 0, HeadIndex - 1))
           Best(live, best) ==
             \/ live = {} /\ best = {}
             \/ \E i \in live : /\ best = {i}
                                /\ \A j \in live : /\ side = "Buy" => j <= i
                                                   /\ side = "Sell" => i <= j
<1>1. /\ HeadIndex \in Slots /\ 0 \in Slots /\ Capacity - 1 \in Slots \cup {-1}
      /\ HeadIndex - 1 \in Slots \cup {-1}
  BY Constants DEF Slots
<1>2. Best(low, lowBest)
  BY <1>1, BestSlotInRange
<1>3. Best(high, highBest)
  BY <1>1, BestSlotInRange
<1>4. RingBestSlot(sl, bm) =
        IF side = "Buy" THEN (IF highBest # {} THEN highBest ELSE lowBest)
                        ELSE (IF lowBest # {} THEN lowBest ELSE highBest)
  BY DEF RingBestSlot
<1>5. /\ \A i \in low : i \in Nat /\ HeadIndex <= i
      /\ \A i \in high : i \in Nat /\ i < HeadIndex
      /\ Live(sl) = low \cup high
  BY Constants DEF Live, LiveIn, Slots
<1> HIDE DEF low, high, lowBest, highBest
<1> DEFINE P(i) == sl[i].price
<1>6. ASSUME NEW i \in Live(sl), NEW j \in Live(sl)
      PROVE  /\ P(i) \in Nat /\ P(j) \in Nat
             /\ i < HeadIndex /\ HeadIndex <= j => P(j) < P(i)
             /\ i < HeadIndex /\ j < HeadIndex /\ i <= j => P(i) <= P(j)
             /\ HeadIndex <= i /\ i <= j => P(i) <= P(j)
  <2> DEFINE p == P(i)
             q == P(j)
  <2>1. p \in Prices /\ InLadder(p) /\ SlotOf(p) = i
    BY SlotHoldsPrice DEF Live
  <2>2. q \in Prices /\ InLadder(q) /\ SlotOf(q) = j
    BY SlotHoldsPrice DEF Live
  <2>3. p \in Nat /\ q \in Nat
    BY <2>1, <2>2, Constants
  <2> HIDE DEF p, q
  <2>4. /\ SlotOf(p) < HeadIndex /\ HeadIndex <= SlotOf(q) => q < p
        /\ SlotOf(p) < HeadIndex /\ SlotOf(q) < HeadIndex /\ SlotOf(p) <= SlotOf(q) => p <= q
        /\ HeadIndex <= SlotOf(p) /\ SlotOf(p) <= SlotOf(q) => p <= q
    BY <2>1, <2>2, SlotOrder
  <2> QED BY <2>1, <2>2, <2>3, <2>4 DEF p, q
<1>7. HeadIndex \in Nat
  BY Constants
<1> HIDE DEF P
<1>8. ASSUME NEW i \in Live(sl), RingBestSlot(sl, bm) = {i},
             \A j \in Live(sl) : ~IsBetterPrice(P(j), P(i))
      PROVE  \E k \in Live(sl) :
               /\ RingBestSlot(sl, bm) = {k}
               /\ \A j \in Live(sl) : ~IsBetterPrice(sl[j].price, sl[k].price)
  BY <1>8 DEF P
<1>9. CASE side = "Buy"
  <2>1. ASSUME high # {} PROVE \E i \in high : highBest = {i} /\ \A j \in high : j <= i
    BY <1>3, <1>9, <2>1
  <2>2. ASSUME low # {} PROVE \E i \in low : lowBest = {i} /\ \A j \in low : j <= i
    BY <1>2, <1>9, <2>2
  <2>3. CASE high # {}
    <3>1. PICK i \in high : highBest = {i} /\ \A j \in high : j <= i BY <2>1, <2>3
    <3>2. \A j \in Live(sl) : P(j) <= P(i)
      <4> SUFFICES ASSUME NEW j \in Live(sl) PROVE P(j) <= P(i) OBVIOUS
      <4>1. i \in Live(sl) /\ i < HeadIndex /\ i \in Nat /\ j \in Nat BY <1>5, <3>1
      <4>2. CASE j \in high BY <1>5, <1>6, <3>1, <4>1, <4>2
      <4>3. CASE j \in low
        <5>1. P(j) < P(i) /\ P(j) \in Nat /\ P(i) \in Nat BY <1>5, <1>6, <4>1, <4>3
        <5> QED BY <5>1
      <4> QED BY <1>5, <4>2, <4>3
    <3>3. \A j \in Live(sl) : ~IsBetterPrice(P(j), P(i))
      BY <1>5, <1>6, <1>9, <3>1, <3>2 DEF IsBetterPrice
    <3>4. RingBestSlot(sl, bm) = {i} BY <1>4, <1>9, <3>1
    <3> QED BY <1>5, <1>8, <3>1, <3>3, <3>4
  <2>4. CASE high = {} /\ low # {}
    <3>1. PICK i \in low : lowBest = {i} /\ \A j \in low : j <= i BY <2>2, <2>4
    <3>2. highBest = {} BY <1>3, <2>4
    <3>3. \A j \in Live(sl) : P(j) <= P(i) BY <1>5, <1>6, <2>4, <3>1
    <3>4. \A j \in Live(sl) : ~IsBetterPrice(P(j), P(i))
      BY <1>5, <1>6, <1>9, <3>1, <3>3 DEF IsBetterPrice
    <3>5. RingBestSlot(sl, bm) = {i} BY <1>4, <1>9, <3>1, <3>2
    <3> QED BY <1>5, <1>8, <3>1, <3>4, <3>5
  <2>5. CASE high = {} /\ low = {}
    BY <1>2, <1>3, <1>4, <1>5, <2>5
  <2> QED BY <2>3, <2>4, <2>5
<1>10. CASE side = "Sell"
  <2>1. ASSUME high # {} PROVE \E i \in high : highBest = {i} /\ \A j \in high : i <= j
    BY <1>3, <1>10, <2>1
  <2>2. ASSUME low # {} PROVE \E i \in low : lowBest = {i} /\ \A j \in low : i <= j
    BY <1>2, <1>10, <2>2
  <2>3. CASE low # {}
    <3>1. PICK i \in low : lowBest = {i} /\ \A j \in low : i <= j BY <2>2, <2>3
    <3>2. \A j \in Live(sl) : P(i) <= P(j)
      <4> SUFFICES ASSUME NEW j \in Live(sl) PROVE P(i) <= P(j) OBVIOUS
      <4>1. i \in Live(sl) /\ HeadIndex <= i /\ i \in Nat /\ j \in Nat BY <1>5, <3>1
      <4>2. CASE j \in low BY <1>5, <1>6, <3>1, <4>1, <4>2
      <4>3. CASE j \in high
        <5>1. P(i) < P(j) /\ P(j) \in Nat /\ P(i) \in Nat BY <1>5, <1>6, <4>1, <4>3
        <5> QED BY <5>1
      <4> QED BY <1>5, <4>2, <4>3
    <3>3. \A j \in Live(sl) : ~IsBetterPrice(P(j), P(i))
      BY <1>5, <1>6, <1>10, <3>1, <3>2 DEF IsBetterPrice
    <3>4. RingBestSlot(sl, bm) = {i} BY <1>4, <1>10, <3>1
    <3> QED BY <1>5, <1>8, <3>1, <3>3, <3>4
  <2>4. CASE low = {} /\ high # {}
    <3>1. PICK i \in high : highBest = {i} /\ \A j \in high : i <= j BY <2>1, <2>4
    <3>2. lowBest = {} BY <1>2, <2>4
    <3>3. \A j \in Live(sl) : P(i) <= P(j) BY <1>5, <1>6, <2>4, <3>1
    <3>4. \A j \in Live(sl) : ~IsBetterPrice(P(j), P(i))
      BY <1>5, <1>6, <1>10, <3>1, <3>3 DEF IsBetterPrice
    <3>5. RingBestSlot(sl, bm) = {i} BY <1>4, <1>10, <3>1, <3>2
    <3> QED BY <1>5, <1>8, <3>1, <3>4, <3>5
  <2>5. CASE high = {} /\ low = {}
    BY <1>2, <1>3, <1>4, <1>5, <2>5
  <2> QED BY <2>3, <2>4, <2>5
<1> QED BY <1>9, <1>10

\* A scan finds no marked slot empty, so it clears no bit.
LEMMA ScanKeepsBitmap ==
  ASSUME NEW sl, NEW bm, NEW fr, StoreOK(sl, bm, fr)
  PROVE  BitmapAfterScan(sl, bm) = bm
<1>1. /\ bm \in [Words -> SUBSET Bits]
      /\ \A i \in Slots : sl[i] # NoLevel <=> Marked(bm, i)
  BY DEF StoreOK
<1>2. ASSUME NEW w \in Words, NEW b \in bm[w], w * WordBits + b \in Slots
      PROVE  sl[w * WordBits + b] # NoLevel
  <2> DEFINE i == w * WordBits + b
  <2>1. w \in Nat /\ b \in Nat /\ b < WordBits /\ WordBits \in Nat \ {0}
    BY <1>1, Constants DEF Words, Bits
  <2>2. i \div WordBits = w /\ i % WordBits = b
    BY <2>1, DivisionIsUnique
  <2>3. Marked(bm, i)
    BY <2>2 DEF Marked
  <2> HIDE DEF i
  <2>4. sl[i] # NoLevel
    BY <1>1, <1>2, <2>3 DEF i
  <2> QED BY <2>4 DEF i
<1>3. \A w \in Words :
        {b \in bm[w] : LET i == w * WordBits + b
                           passed == \A f \in RingBestSlot(sl, bm) :
                              IF side = "Buy"
                              THEN (i - HeadIndex) % Capacity > (f - HeadIndex) % Capacity
                              ELSE (i - HeadIndex) % Capacity < (f - HeadIndex) % Capacity
                       IN  i \in Slots => sl[i] # NoLevel \/ ~passed} = bm[w]
  BY <1>2
<1> QED BY <1>1, <1>3 DEF BitmapAfterScan

\* The refreshed pointer is the best of the levels stored in the ladder and the map.
LEMMA RefreshedBestIs ==
  ASSUME side \in {"Buy", "Sell"}, NEW sl, NEW bm, NEW fr, StoreOK(sl, bm, fr),
         NEW S, S = {p \in Prices : LevelIn(sl, fr, p) # NoLevel}, IsFiniteSet(S),
         \A p \in S : LevelIn(sl, fr, p).list # <<>>
  PROVE  BestOf(RefreshedBest(RingBest(sl, bm), FarBest(fr)), S)
<1> DEFINE In == {p \in S : InLadder(p)}
           Out == {p \in S : ~InLadder(p)}
           ring == RingBest(sl, bm)
           rest == FarBest(fr)
<1>1. \A p \in S : p \in Prices /\ p \in Nat /\ p # NoPrice
  BY Constants
<1>2. BestOf(ring, In)
  <2>1. ASSUME NEW i \in Live(sl) PROVE sl[i].price \in In
    <3> DEFINE p == sl[i].price
    <3>1. p \in Prices /\ InLadder(p) /\ SlotOf(p) = i BY SlotHoldsPrice DEF Live
    <3>2. sl[i] # NoLevel BY DEF Live
    <3> HIDE DEF p
    <3>3. p \in In BY <3>1, <3>2 DEF LevelIn
    <3> QED BY <3>3 DEF p
  <2>2. ASSUME NEW p \in In PROVE \E i \in Live(sl) : sl[i].price = p
    <3>1. p \in Prices /\ InLadder(p) /\ sl[SlotOf(p)] # NoLevel BY DEF LevelIn
    <3>2. SlotOf(p) \in Slots BY <3>1, SlotOfPrice
    <3> DEFINE q == sl[SlotOf(p)].price
    <3>3. q \in Prices /\ InLadder(q) /\ SlotOf(q) = SlotOf(p)
      BY <3>1, <3>2, SlotHoldsPrice
    <3> HIDE DEF q
    <3>4. q = p BY <3>1, <3>3, SlotOrder
    <3>5. SlotOf(p) \in Live(sl) BY <3>1, <3>2 DEF Live
    <3> QED BY <3>4, <3>5 DEF q
  <2>3. CASE Live(sl) = {} /\ RingBestSlot(sl, bm) = {}
    <3>1. ring = NoPrice BY <2>3 DEF RingBest
    <3>2. In = {} BY <2>2, <2>3
    <3> QED BY <3>1, <3>2 DEF BestOf
  <2>4. CASE \E i \in Live(sl) :
               /\ RingBestSlot(sl, bm) = {i}
               /\ \A j \in Live(sl) : ~IsBetterPrice(sl[j].price, sl[i].price)
    <3>1. PICK i \in Live(sl) :
               /\ RingBestSlot(sl, bm) = {i}
               /\ \A j \in Live(sl) : ~IsBetterPrice(sl[j].price, sl[i].price)
      BY <2>4
    <3>2. ring = sl[i].price BY <3>1 DEF RingBest
    <3>3. \A q \in In : ~IsBetterPrice(q, ring)
      <4> SUFFICES ASSUME NEW q \in In PROVE ~IsBetterPrice(q, ring) OBVIOUS
      <4>1. PICK j \in Live(sl) : sl[j].price = q BY <2>2
      <4>2. ~IsBetterPrice(sl[j].price, sl[i].price) BY <3>1
      <4> HIDE DEF ring
      <4> QED BY <3>2, <4>1, <4>2
    <3>4. ring \in In BY <2>1, <3>2
    <3> HIDE DEF ring, In
    <3> QED BY <3>3, <3>4 DEF BestOf
  <2> QED BY <2>3, <2>4, RingBestSlotIs
<1>3. BestOf(rest, Out)
  <2> DEFINE filled == {p \in Prices : fr[p] # NoLevel /\ fr[p].list # <<>>}
  <2>1. filled = Out
    <3>1. \A p \in Prices : fr[p] # NoLevel => ~InLadder(p) BY DEF StoreOK
    <3> QED BY <3>1 DEF LevelIn
  <2>2. IsFiniteSet(Out) /\ Out \subseteq Nat
    <3>1. Out \subseteq S OBVIOUS
    <3>2. Out \subseteq Nat BY <1>1
    <3> HIDE DEF Out
    <3> QED BY <3>1, <3>2, FS_Subset
  <2>3. rest = IF filled = {} THEN NoPrice
               ELSE IF side = "Buy" THEN Max(filled) ELSE Min(filled)
    BY DEF FarBest
  <2> HIDE DEF filled, Out, rest
  <2>4. CASE Out = {} BY <2>1, <2>3, <2>4 DEF BestOf
  <2>5. CASE Out # {}
    <3>1. Max(Out) \in Out /\ \A n \in Out : n <= Max(Out) BY <2>2, <2>5, MaxExists
    <3>2. Min(Out) \in Out /\ \A n \in Out : Min(Out) <= n BY <2>2, <2>5, MinExists
    <3>3. CASE side = "Buy"
      <4>1. rest = Max(Out) BY <2>1, <2>3, <2>5, <3>3
      <4>2. rest \in Out /\ \A n \in Out : n <= rest BY <3>1, <4>1
      <4> QED BY <2>2, <2>5, <3>3, <4>2 DEF BestOf, IsBetterPrice
    <3>4. CASE side = "Sell"
      <4>1. rest = Min(Out) BY <2>1, <2>3, <2>5, <3>4
      <4>2. rest \in Out /\ \A n \in Out : rest <= n BY <3>2, <4>1
      <4> QED BY <2>2, <2>5, <3>4, <4>2 DEF BestOf, IsBetterPrice
    <3> QED BY <3>3, <3>4
  <2> QED BY <2>4, <2>5
<1>4. S = In \cup Out
  OBVIOUS
<1>5. /\ \A p \in In : p \in S
      /\ \A p \in Out : p \in S
  OBVIOUS
<1> DEFINE best == RefreshedBest(ring, rest)
<1>6. best = CASE ring = NoPrice -> rest
               [] rest = NoPrice -> ring
               [] OTHER -> IF IsBetterPrice(ring, rest) THEN ring ELSE rest
  BY DEF RefreshedBest
<1> SUFFICES BestOf(best, S)
  OBVIOUS
<1> HIDE DEF In, Out, ring, rest, best
<1>7. CASE In = {}
  <2>1. ring = NoPrice BY <1>2, <1>7 DEF BestOf
  <2>2. best = rest BY <1>6, <2>1
  <2> QED BY <1>3, <1>4, <1>7, <2>2
<1>8. CASE In # {} /\ Out = {}
  <2>1. ring # NoPrice /\ rest = NoPrice BY <1>1, <1>2, <1>3, <1>5, <1>8 DEF BestOf
  <2>2. best = ring BY <1>6, <2>1
  <2> QED BY <1>2, <1>4, <1>8, <2>2
<1>9. CASE In # {} /\ Out # {}
  <2>1. /\ ring \in In /\ \A q \in In : ~IsBetterPrice(q, ring)
        /\ rest \in Out /\ \A q \in Out : ~IsBetterPrice(q, rest)
    BY <1>2, <1>3, <1>9 DEF BestOf
  <2>2. /\ ring # NoPrice /\ rest # NoPrice /\ ring \in Nat /\ rest \in Nat
        /\ ring \in S /\ rest \in S
    BY <1>1, <1>5, <2>1
  <2>3. best = IF IsBetterPrice(ring, rest) THEN ring ELSE rest
    BY <1>6, <2>2
  <2>4. ASSUME NEW q \in S PROVE ~IsBetterPrice(q, best)
    <3>1. q \in Nat /\ (q \in In \/ q \in Out) BY <1>1, <1>4
    <3>2. ~IsBetterPrice(q, ring) \/ ~IsBetterPrice(q, rest) BY <2>1, <3>1
    <3> QED BY <2>2, <2>3, <3>1, <3>2 DEF IsBetterPrice
  <2>5. best \in S /\ S # {} BY <2>2, <2>3
  <2> QED BY <2>4, <2>5 DEF BestOf
<1> QED BY <1>7, <1>8, <1>9

(***************************************************************************)
(* Storing a level.                                                        *)
(***************************************************************************)

\* The store tl, cm, gr is sl, bm, fr with value as the level of p.
Stored(sl, bm, fr, p, value, tl, cm, gr) ==
  \/ /\ InLadder(p)
     /\ tl = [sl EXCEPT ![SlotOf(p)] = value]
     /\ cm \in [Words -> SUBSET Bits]
     /\ \A j \in Slots : Marked(cm, j) <=> IF j = SlotOf(p) THEN value # NoLevel
                                                          ELSE Marked(bm, j)
     /\ gr = fr
  \/ /\ ~InLadder(p)
     /\ tl = sl
     /\ cm = bm
     /\ gr = [fr EXCEPT ![p] = value]

\* Storing the level of a price moves no other price's.
LEMMA StoringIs ==
  ASSUME NEW sl, NEW bm, NEW fr, StoreOK(sl, bm, fr), NEW p \in Prices,
         NEW value, value = NoLevel \/ (value \in Level /\ value.price = p),
         NEW tl, NEW cm, NEW gr, Stored(sl, bm, fr, p, value, tl, cm, gr)
  PROVE  /\ StoreOK(tl, cm, gr)
         /\ \A q \in Prices :
              LevelIn(tl, gr, q) = IF q = p THEN value ELSE LevelIn(sl, fr, q)
<1>1. /\ sl \in [Slots -> Level \cup {NoLevel}]
      /\ bm \in [Words -> SUBSET Bits]
      /\ fr \in [Prices -> Level \cup {NoLevel}]
      /\ \A i \in Slots : sl[i] # NoLevel => InLadder(sl[i].price) /\ SlotOf(sl[i].price) = i
      /\ \A i \in Slots : sl[i] # NoLevel <=> Marked(bm, i)
      /\ \A q \in Prices : fr[q] # NoLevel => fr[q].price = q /\ ~InLadder(q)
  BY DEF StoreOK
<1>2. value \in Level \cup {NoLevel}
  OBVIOUS
<1>3. CASE InLadder(p)
  <2>1. /\ tl = [sl EXCEPT ![SlotOf(p)] = value]
        /\ cm \in [Words -> SUBSET Bits]
        /\ \A j \in Slots : Marked(cm, j) <=> IF j = SlotOf(p) THEN value # NoLevel
                                                             ELSE Marked(bm, j)
        /\ gr = fr
    BY <1>3 DEF Stored
  <2>2. SlotOf(p) \in Slots BY <1>3, SlotOfPrice
  <2>3. tl \in [Slots -> Level \cup {NoLevel}] BY <1>1, <1>2, <2>1
  <2>4. \A i \in Slots : tl[i] = IF i = SlotOf(p) THEN value ELSE sl[i]
    BY <1>1, <2>1
  <2>5. \A i \in Slots : tl[i] # NoLevel => InLadder(tl[i].price) /\ SlotOf(tl[i].price) = i
    BY <1>1, <1>3, <2>4
  <2>6. \A i \in Slots : tl[i] # NoLevel <=> Marked(cm, i)
    BY <1>1, <2>1, <2>4
  <2>7. StoreOK(tl, cm, gr)
    BY <1>1, <2>1, <2>3, <2>5, <2>6 DEF StoreOK
  <2>8. ASSUME NEW q \in Prices
        PROVE  LevelIn(tl, gr, q) = IF q = p THEN value ELSE LevelIn(sl, fr, q)
    <3>1. CASE ~InLadder(q) BY <1>3, <2>1, <3>1 DEF LevelIn
    <3>2. CASE InLadder(q)
      <4>1. SlotOf(q) \in Slots BY <3>2, SlotOfPrice
      <4>2. SlotOf(q) = SlotOf(p) => q = p BY <1>3, <3>2, SlotOrder
      <4> QED BY <2>4, <3>2, <4>1, <4>2 DEF LevelIn
    <3> QED BY <3>1, <3>2
  <2> QED BY <2>7, <2>8
<1>4. CASE ~InLadder(p)
  <2>1. tl = sl /\ cm = bm /\ gr = [fr EXCEPT ![p] = value]
    BY <1>4 DEF Stored
  <2>2. gr \in [Prices -> Level \cup {NoLevel}] BY <1>1, <1>2, <2>1
  <2>3. \A q \in Prices : gr[q] = IF q = p THEN value ELSE fr[q]
    BY <1>1, <2>1
  <2>4. \A q \in Prices : gr[q] # NoLevel => gr[q].price = q /\ ~InLadder(q)
    BY <1>1, <1>4, <2>3
  <2>5. StoreOK(tl, cm, gr)
    BY <1>1, <2>1, <2>2, <2>4 DEF StoreOK
  <2>6. \A q \in Prices :
          LevelIn(tl, gr, q) = IF q = p THEN value ELSE LevelIn(sl, fr, q)
    BY <1>4, <2>1, <2>3 DEF LevelIn
  <2> QED BY <2>5, <2>6
<1> QED BY <1>3, <1>4

\* The level stored for a price is a level of that price.
LEMMA LevelHasPrice ==
  ASSUME NEW sl, NEW bm, NEW fr, StoreOK(sl, bm, fr), NEW p \in Prices,
         LevelIn(sl, fr, p) # NoLevel
  PROVE  /\ LevelIn(sl, fr, p) \in Level
         /\ LevelIn(sl, fr, p).price = p
         /\ InLadder(p) => fr[p] = NoLevel
<1>1. CASE InLadder(p)
  <2>1. SlotOf(p) \in Slots BY <1>1, SlotOfPrice
  <2> DEFINE level == sl[SlotOf(p)]
             q == level.price
  <2>2. level # NoLevel /\ LevelIn(sl, fr, p) = level BY <1>1 DEF LevelIn
  <2>3. level \in Level /\ q \in Prices /\ InLadder(q) /\ SlotOf(q) = SlotOf(p)
    BY <2>1, <2>2, SlotHoldsPrice
  <2> HIDE DEF q
  <2>4. q = p BY <1>1, <2>3, SlotOrder
  <2>5. fr[p] = NoLevel BY <1>1 DEF StoreOK
  <2> QED BY <2>2, <2>3, <2>4, <2>5 DEF q
<1>2. CASE ~InLadder(p)
  BY <1>2 DEF LevelIn, StoreOK
<1> QED BY <1>1, <1>2

(***************************************************************************)
(* The orders at a price, and the sum of what they have left.              *)
(***************************************************************************)

AtIn(ord, p) == {o \in Orders : ord[o].price = p}
LotsIn(ord, p) == SumFunctionOnSet([o \in Orders |-> ord[o].remaining], AtIn(ord, p))

OrdersOK(ord) == ord \in [Orders -> RestingOrder \cup {NotResting}]

\* The lots at a price are a natural number; every order at it has some, and no
\* more than all of them.
LEMMA LotsAreNatural ==
  ASSUME NEW ord, OrdersOK(ord), NEW p \in Prices
  PROVE  /\ LotsIn(ord, p) \in Nat
         /\ \A o \in AtIn(ord, p) : /\ ord[o].remaining \in Nat \ {0}
                                    /\ ord[o].remaining <= LotsIn(ord, p)
<1> DEFINE fun == [o \in Orders |-> ord[o].remaining]
           S == AtIn(ord, p)
<1>1. IsFiniteSet(S)
  <2>1. S \subseteq Orders BY DEF AtIn
  <2> HIDE DEF S
  <2> QED BY <2>1, Constants, FS_Subset
<1>2. \A o \in S : ord[o].remaining \in Nat \ {0} /\ fun[o] = ord[o].remaining
  BY Constants DEF AtIn, OrdersOK, NotResting, RestingOrder
<1>3. LotsIn(ord, p) = SumFunctionOnSet(fun, S)
  BY DEF LotsIn
<1> HIDE DEF fun, S
<1>4. \A o \in S : fun[o] \in Nat
  BY <1>2
<1>5. /\ SumFunctionOnSet(fun, S) \in Nat
      /\ \A o \in S : fun[o] <= SumFunctionOnSet(fun, S)
  BY <1>1, <1>4, SumOfNaturals
<1> QED BY <1>2, <1>3, <1>5 DEF S

\* A change of one order leaves the prices alone at which it rests neither
\* before nor after.
LEMMA OtherLots ==
  ASSUME NEW ord, OrdersOK(ord), NEW new, OrdersOK(new), NEW o \in Orders,
         \A x \in Orders \ {o} : new[x] = ord[x],
         NEW q \in Prices, ord[o].price # q, new[o].price # q
  PROVE  AtIn(new, q) = AtIn(ord, q) /\ LotsIn(new, q) = LotsIn(ord, q)
<1> DEFINE fun == [x \in Orders |-> ord[x].remaining]
           gun == [x \in Orders |-> new[x].remaining]
           S == AtIn(ord, q)
<1>1. AtIn(new, q) = S
  BY DEF AtIn
<1>2. \A x \in S : fun[x] = gun[x]
  BY DEF AtIn
<1>3. IsFiniteSet(S)
  <2>1. S \subseteq Orders BY DEF AtIn
  <2> HIDE DEF S
  <2> QED BY <2>1, Constants, FS_Subset
<1>4. LotsIn(ord, q) = SumFunctionOnSet(fun, S) /\ LotsIn(new, q) = SumFunctionOnSet(gun, S)
  BY <1>1 DEF LotsIn
<1> HIDE DEF fun, gun, S
<1>5. SumFunctionOnSet(fun, S) = SumFunctionOnSet(gun, S)
  BY <1>2, <1>3, SumAgrees
<1> QED BY <1>1, <1>4, <1>5 DEF S

\* How an operation changes its order, from ord to new.
Inserts(ord, new, o, p, lots) ==
  /\ ord[o] = NotResting
  /\ new = [ord EXCEPT ![o] = [price |-> p, remaining |-> lots]]

Removes(ord, new, o, p) ==
  /\ ord[o] # NotResting
  /\ p = ord[o].price
  /\ new = [ord EXCEPT ![o] = NotResting]

Fills(ord, new, o, p, lots) ==
  /\ ord[o] # NotResting
  /\ p = ord[o].price
  /\ lots < ord[o].remaining
  /\ new = [ord EXCEPT ![o] = [ord[o] EXCEPT !.remaining = @ - lots]]

\* Only the price p sees the change.
OthersKeep(ord, new, p) ==
  \A q \in Prices \ {p} : AtIn(new, q) = AtIn(ord, q) /\ LotsIn(new, q) = LotsIn(ord, q)

\* An order that comes to rest adds its lots.
LEMMA LotsOfInserted ==
  ASSUME NEW ord, OrdersOK(ord), NEW o \in Orders, NEW p \in Prices,
         NEW lots \in Nat \ {0}, NEW new, Inserts(ord, new, o, p, lots)
  PROVE  /\ OrdersOK(new)
         /\ o \notin AtIn(ord, p)
         /\ AtIn(new, p) = AtIn(ord, p) \cup {o}
         /\ LotsIn(new, p) = LotsIn(ord, p) + lots
         /\ OthersKeep(ord, new, p)
<1>a. /\ ord[o] = NotResting
      /\ new = [ord EXCEPT ![o] = [price |-> p, remaining |-> lots]]
  BY DEF Inserts
<1> USE <1>a
<1> DEFINE fun == [x \in Orders |-> ord[x].remaining]
           gun == [x \in Orders |-> new[x].remaining]
           S == AtIn(ord, p)
<1>1. OrdersOK(new)
  BY DEF OrdersOK, RestingOrder
<1>2. /\ new[o] = [price |-> p, remaining |-> lots]
      /\ \A x \in Orders \ {o} : new[x] = ord[x]
      /\ ord[o].price = NoPrice
  BY DEF OrdersOK, NotResting
<1>3. o \notin S /\ AtIn(new, p) = S \cup {o}
  BY <1>2, Constants DEF AtIn
<1>4. \A q \in Prices \ {p} : AtIn(new, q) = AtIn(ord, q) /\ LotsIn(new, q) = LotsIn(ord, q)
  <2> SUFFICES ASSUME NEW q \in Prices \ {p}
               PROVE  AtIn(new, q) = AtIn(ord, q) /\ LotsIn(new, q) = LotsIn(ord, q)
    OBVIOUS
  <2>1. ord[o].price # q /\ new[o].price # q
    BY <1>2, Constants
  <2> QED BY <1>1, <1>2, <2>1, OtherLots
<1>5. \A x \in S : fun[x] = gun[x] /\ gun[x] \in Nat
  <2>1. \A x \in S : ord[x].remaining \in Nat
    BY LotsAreNatural
  <2> QED BY <1>2, <1>3, <2>1 DEF AtIn
<1>6. gun[o] = lots
  BY <1>2
<1>7. IsFiniteSet(S)
  <2>1. S \subseteq Orders BY DEF AtIn
  <2> HIDE DEF S
  <2> QED BY <2>1, Constants, FS_Subset
<1>8. LotsIn(ord, p) = SumFunctionOnSet(fun, S)
      /\ LotsIn(new, p) = SumFunctionOnSet(gun, S \cup {o})
  BY <1>3 DEF LotsIn
<1> HIDE DEF fun, gun, S
<1>9. SumFunctionOnSet(fun, S) = SumFunctionOnSet(gun, S)
  BY <1>5, <1>7, SumAgrees
<1>10. SumFunctionOnSet(gun, S \cup {o}) = SumFunctionOnSet(gun, S) + gun[o]
  <2>1. \A y \in S \cup {o} : gun[y] \in Int BY <1>5, <1>6
  <2> QED BY <1>3, <1>7, <2>1, SumOfAdded
<1> QED BY <1>1, <1>3, <1>4, <1>6, <1>8, <1>9, <1>10 DEF S, OthersKeep

\* An order that leaves takes what it had left with it.
LEMMA LotsOfRemoved ==
  ASSUME NEW ord, OrdersOK(ord), NEW o \in Orders, NEW p, NEW new,
         Removes(ord, new, o, p)
  PROVE  /\ OrdersOK(new)
         /\ p \in Prices
         /\ o \in AtIn(ord, p)
         /\ AtIn(new, p) = AtIn(ord, p) \ {o}
         /\ LotsIn(new, p) = LotsIn(ord, p) - ord[o].remaining
         /\ OthersKeep(ord, new, p)
<1>a. ord[o] # NotResting /\ p = ord[o].price /\ new = [ord EXCEPT ![o] = NotResting]
  BY DEF Removes
<1> USE <1>a
<1> DEFINE fun == [x \in Orders |-> ord[x].remaining]
           gun == [x \in Orders |-> new[x].remaining]
           S == AtIn(ord, p)
<1>1. OrdersOK(new)
  BY DEF OrdersOK
<1>2. /\ new[o] = NotResting
      /\ \A x \in Orders \ {o} : new[x] = ord[x]
      /\ p \in Prices /\ o \in S
  BY DEF OrdersOK, RestingOrder, AtIn
<1>3. new[o].price = NoPrice
  BY <1>2 DEF NotResting
<1>4. AtIn(new, p) = S \ {o}
  BY <1>2, <1>3, Constants DEF AtIn
<1>4a. \A x \in Orders \ {o} : new[x] = ord[x]
  BY <1>2
<1>4b. ASSUME NEW q \in Prices, ord[o].price # q, new[o].price # q
       PROVE  AtIn(new, q) = AtIn(ord, q) /\ LotsIn(new, q) = LotsIn(ord, q)
  BY ONLY OrdersOK(ord), o \in Orders, <1>1, <1>4a, <1>4b, OtherLots
<1>5. \A q \in Prices \ {p} : AtIn(new, q) = AtIn(ord, q) /\ LotsIn(new, q) = LotsIn(ord, q)
  <2> SUFFICES ASSUME NEW q \in Prices \ {p}
               PROVE  AtIn(new, q) = AtIn(ord, q) /\ LotsIn(new, q) = LotsIn(ord, q)
    OBVIOUS
  <2>1. q \in Prices /\ ord[o].price # q /\ new[o].price # q
    BY <1>3, Constants
  <2> QED BY <1>4b, <2>1
<1>6. \A x \in S : fun[x] \in Int
  <2>1. \A x \in S : ord[x].remaining \in Nat
    BY <1>2, LotsAreNatural
  <2> QED BY <2>1 DEF AtIn
<1>7. \A x \in S \ {o} : fun[x] = gun[x]
  BY <1>2 DEF AtIn
<1>8. fun[o] = ord[o].remaining
  OBVIOUS
<1>9. IsFiniteSet(S) /\ IsFiniteSet(S \ {o})
  <2>1. S \subseteq Orders /\ S \ {o} \subseteq S BY DEF AtIn
  <2> HIDE DEF S
  <2> QED BY <2>1, Constants, FS_Subset
<1>10. LotsIn(ord, p) = SumFunctionOnSet(fun, S)
       /\ LotsIn(new, p) = SumFunctionOnSet(gun, S \ {o})
  BY <1>4 DEF LotsIn
<1> HIDE DEF fun, gun, S
<1>11. /\ SumFunctionOnSet(fun, S) \in Int
       /\ SumFunctionOnSet(fun, S) = fun[o] + SumFunctionOnSet(fun, S \ {o})
  BY <1>2, <1>6, <1>9, SumTakesOut
<1>12. SumFunctionOnSet(fun, S \ {o}) = SumFunctionOnSet(gun, S \ {o})
  BY <1>7, <1>9, SumAgrees
<1>13. SumFunctionOnSet(fun, S \ {o}) \in Int
  <2>1. \A x \in S \ {o} : fun[x] \in Int BY <1>6
  <2> QED BY <1>9, <2>1, SumTakesOut
<1>14. fun[o] \in Int
  BY <1>2, <1>6
<1>15. LotsIn(new, p) = LotsIn(ord, p) - ord[o].remaining
  <2> DEFINE a == SumFunctionOnSet(fun, S)
             b == SumFunctionOnSet(fun, S \ {o})
             c == fun[o]
  <2>1. a \in Int /\ b \in Int /\ c \in Int /\ a = c + b
    BY <1>11, <1>13, <1>14
  <2> HIDE DEF a, b, c
  <2>2. b = a - c BY <2>1
  <2>3. LotsIn(new, p) = b /\ LotsIn(ord, p) = a /\ ord[o].remaining = c
    BY <1>8, <1>10, <1>12 DEF a, b, c
  <2> QED BY <2>2, <2>3
<1> QED BY <1>1, <1>2, <1>4, <1>5, <1>15 DEF S, OthersKeep

\* A partial fill takes its lots and leaves the order at its price.
LEMMA LotsOfFilled ==
  ASSUME NEW ord, OrdersOK(ord), NEW o \in Orders, NEW p,
         NEW lots \in Nat \ {0}, NEW new, Fills(ord, new, o, p, lots)
  PROVE  /\ OrdersOK(new)
         /\ p \in Prices
         /\ AtIn(new, p) = AtIn(ord, p)
         /\ LotsIn(new, p) = LotsIn(ord, p) - lots
         /\ OthersKeep(ord, new, p)
<1>a. /\ ord[o] # NotResting /\ p = ord[o].price /\ lots < ord[o].remaining
      /\ new = [ord EXCEPT ![o] = [ord[o] EXCEPT !.remaining = @ - lots]]
  BY DEF Fills
<1> USE <1>a
<1> DEFINE fun == [x \in Orders |-> ord[x].remaining]
           gun == [x \in Orders |-> new[x].remaining]
           S == AtIn(ord, p)
<1>0. /\ ord[o] \in RestingOrder /\ p \in Prices /\ o \in S
      /\ ord[o].remaining \in Nat
  BY DEF OrdersOK, RestingOrder, AtIn
<1>1. /\ new[o].price = p /\ new[o].remaining = ord[o].remaining - lots
      /\ new[o] \in RestingOrder
      /\ \A x \in Orders \ {o} : new[x] = ord[x]
  <2>1. new[o] = [ord[o] EXCEPT !.remaining = @ - lots] BY DEF OrdersOK
  <2>2. \A x \in Orders \ {o} : new[x] = ord[x] BY DEF OrdersOK
  <2>3. ord[o].remaining - lots \in Nat \ {0} BY <1>0
  <2> QED BY <1>0, <2>1, <2>2, <2>3 DEF RestingOrder
<1>2. OrdersOK(new)
  BY <1>1 DEF OrdersOK
<1>3. AtIn(new, p) = S
  BY <1>0, <1>1 DEF AtIn
<1>4. \A q \in Prices \ {p} : AtIn(new, q) = AtIn(ord, q) /\ LotsIn(new, q) = LotsIn(ord, q)
  <2> SUFFICES ASSUME NEW q \in Prices \ {p}
               PROVE  AtIn(new, q) = AtIn(ord, q) /\ LotsIn(new, q) = LotsIn(ord, q)
    OBVIOUS
  <2>1. ord[o].price # q /\ new[o].price # q
    BY <1>1
  <2> QED BY <1>1, <1>2, <2>1, OtherLots
<1>5. \A x \in S : fun[x] \in Int /\ gun[x] \in Int
  <2>1. \A x \in S : ord[x].remaining \in Nat BY <1>0, LotsAreNatural
  <2>2. \A x \in S : new[x].remaining \in Nat BY <1>0, <1>2, <1>3, LotsAreNatural
  <2> QED BY <2>1, <2>2 DEF AtIn
<1>6. \A x \in S \ {o} : gun[x] = fun[x]
  BY <1>1 DEF AtIn
<1>7. fun[o] = ord[o].remaining /\ gun[o] = ord[o].remaining - lots
  BY <1>1
<1>8. IsFiniteSet(S)
  <2>1. S \subseteq Orders BY DEF AtIn
  <2> HIDE DEF S
  <2> QED BY <2>1, Constants, FS_Subset
<1>9. LotsIn(ord, p) = SumFunctionOnSet(fun, S)
      /\ LotsIn(new, p) = SumFunctionOnSet(gun, S)
  BY <1>3 DEF LotsIn
<1> HIDE DEF fun, gun, S
<1>10. Updates(fun, gun, S, o)
  BY <1>0, <1>5, <1>6 DEF Updates
<1>11. /\ SumFunctionOnSet(fun, S) \in Int
       /\ SumFunctionOnSet(gun, S) = SumFunctionOnSet(fun, S) - fun[o] + gun[o]
  BY <1>8, <1>10, SumOfUpdate
<1>12. LotsIn(new, p) = LotsIn(ord, p) - lots
  BY <1>0, <1>7, <1>9, <1>11
<1> QED BY <1>0, <1>2, <1>3, <1>4, <1>12 DEF S, OthersKeep

(***************************************************************************)
(* The steps.                                                              *)
(***************************************************************************)

\* The invariant speaks of the state as the lemmas above do.
LEMMA StateIs ==
  /\ \A p : RestingAt(p) = AtIn(order, p)
  /\ \A p : LotsAt(p) = LotsIn(order, p)
  /\ \A p : GetLevel(p) = LevelIn(slots, far, p)
  /\ CachedBestIsBest <=> BestOf(cachedBest, {p \in Prices : AtIn(order, p) # {}})
<1>1. /\ \A p : RestingAt(p) = AtIn(order, p)
      /\ \A p : LotsAt(p) = LotsIn(order, p)
  BY DEF RestingAt, LotsAt, AtIn, LotsIn
<1>2. \A p : GetLevel(p) = LevelIn(slots, far, p)
  BY DEF GetLevel, LevelIn
<1>3. CachedBestIsBest <=> BestOf(cachedBest, {p \in Prices : AtIn(order, p) # {}})
  BY <1>1 DEF CachedBestIsBest, BestOf
<1> QED BY <1>1, <1>2, <1>3

\* What the invariant says of the levels and the orders, as one predicate.
Agree(sl, fr, ord) ==
  \A p \in Prices : LevelIs(LevelIn(sl, fr, p), AtIn(ord, p), LotsIn(ord, p))

\* The invariant in these terms.
LEMMA IInvIs ==
  IInv <=> /\ side \in {"Buy", "Sell"}
           /\ StoreOK(slots, bitmap, far)
           /\ cachedBest \in Prices \cup {NoPrice}
           /\ OrdersOK(order)
           /\ Agree(slots, far, order)
           /\ BestOf(cachedBest, {p \in Prices : AtIn(order, p) # {}})
<1>1. TypeOK <=> /\ side \in {"Buy", "Sell"}
                 /\ StoreOK(slots, bitmap, far)
                 /\ cachedBest \in Prices \cup {NoPrice}
                 /\ OrdersOK(order)
  BY DEF TypeOK, OrdersOK
<1>2. LevelsOK <=> Agree(slots, far, order)
  BY StateIs DEF LevelsOK, Agree
<1>3. CachedBestIsBest <=> BestOf(cachedBest, {p \in Prices : AtIn(order, p) # {}})
  BY StateIs
<1> HIDE DEF TypeOK, LevelsOK, CachedBestIsBest
<1> QED BY <1>1, <1>2, <1>3 DEF IInv

\* The same after a step.
LEMMA IInvIsNext ==
  IInv' <=> /\ side' \in {"Buy", "Sell"}
            /\ StoreOK(slots', bitmap', far')
            /\ cachedBest' \in Prices \cup {NoPrice}
            /\ OrdersOK(order')
            /\ Agree(slots', far', order')
            /\ (BestOf(cachedBest, {p \in Prices : AtIn(order, p) # {}}))'
<1>1. (IInv <=> /\ side \in {"Buy", "Sell"}
                /\ StoreOK(slots, bitmap, far)
                /\ cachedBest \in Prices \cup {NoPrice}
                /\ OrdersOK(order)
                /\ Agree(slots, far, order)
                /\ BestOf(cachedBest, {p \in Prices : AtIn(order, p) # {}}))'
  BY IInvIs, PTL
<1>2. /\ StoreOK(slots, bitmap, far)' <=> StoreOK(slots', bitmap', far')
      /\ OrdersOK(order)' <=> OrdersOK(order')
      /\ Agree(slots, far, order)' <=> Agree(slots', far', order')
  BY DEF StoreOK, OrdersOK, Agree, LevelIn, LevelIs, AtIn, LotsIn
<1> QED BY <1>1, <1>2

\* Orders rest at finitely many prices.
LEMMA ActiveIsFinite ==
  ASSUME NEW ord, OrdersOK(ord)
  PROVE  IsFiniteSet({p \in Prices : AtIn(ord, p) # {}})
<1> DEFINE price == [o \in Orders |-> ord[o].price]
           image == {price[o] : o \in Orders}
           active == {p \in Prices : AtIn(ord, p) # {}}
<1>1. active \subseteq image
  BY DEF AtIn
<1>2. IsFiniteSet(image)
  <2> HIDE DEF price
  <2> QED BY Constants, ImageIsFinite
<1> HIDE DEF active, image
<1>3. IsFiniteSet(active)
  BY <1>1, <1>2, FS_Subset
<1> QED BY <1>3 DEF active

\* A level that lists the orders at its price.
LEMMA LevelListed ==
  ASSUME NEW level \in Level, NEW ord, OrdersOK(ord), NEW p \in Prices,
         IsListOf(level.list, AtIn(ord, p)), level.total = LotsIn(ord, p)
  PROVE  /\ AtIn(ord, p) = {} => level.list = <<>>
         /\ AtIn(ord, p) # {} => level.list # <<>> /\ level.total # 0
<1> DEFINE q == level.list
           S == AtIn(ord, p)
<1>1. q \in Seq(Orders) /\ level.total = LotsIn(ord, p)
  BY DEF Level
<1>2. S \in SUBSET Orders /\ IsListOf(q, S)
  BY DEF AtIn
<1>3. /\ LotsIn(ord, p) \in Nat
      /\ \A o \in S : ord[o].remaining \in Nat \ {0} /\ ord[o].remaining <= LotsIn(ord, p)
  BY LotsAreNatural
<1> HIDE DEF q, S
<1>4. S = {} => q = <<>>
  <2>1. S = {} => ~(1 \in 1 .. Len(q)) BY <1>2 DEF IsListOf
  <2>2. Len(q) \in Nat BY <1>1
  <2>3. S = {} => Len(q) = 0 BY <2>1, <2>2
  <2> QED BY <1>1, <2>3
<1>5. S # {} => q # <<>>
  BY <1>1, <1>2, HeadOfList
<1>6. S # {} => level.total # 0
  BY <1>1, <1>3
<1> QED BY <1>4, <1>5, <1>6 DEF q, S

\* The level lists what a fill or a removal leaves at its price.
Lists(level, ord, new, p) ==
  /\ level \in Level /\ level.price = p
  /\ OrdersOK(new) /\ AtIn(new, p) \subseteq AtIn(ord, p)
  /\ OthersKeep(ord, new, p)
  /\ IsListOf(level.list, AtIn(new, p)) /\ level.total = LotsIn(new, p)

\* A level that a fill or a removal has changed is stored, or dropped when it
\* holds nothing; the cached best is searched again when it may have been it.
LEMMA UpdateKeepsInvariant ==
  ASSUME IInv, NEW p \in Prices, GetLevel(p) # NoLevel,
         NEW level, Lists(level, order, order', p),
         UpdateAfterFillOrCancel(p, level), side' = side
  PROVE  /\ IInv'
         /\ \A q \in Prices :
              LevelIn(slots', far', q) = IF q = p
                                         THEN IF AtIn(order', p) = {} THEN NoLevel ELSE level
                                         ELSE LevelIn(slots, far, q)
<1> DEFINE drop  == level.list = <<>> \/ level.total = 0
           value == IF drop THEN NoLevel ELSE level
           sl    == IF InLadder(p) THEN [slots EXCEPT ![SlotOf(p)] = value] ELSE slots
           bm    == IF InLadder(p) /\ drop THEN MarkInactive(bitmap, SlotOf(p)) ELSE bitmap
           fr    == IF InLadder(p) THEN far ELSE [far EXCEPT ![p] = value]
           refresh == cachedBest \in {p, NoPrice} \/ GetLevel(cachedBest).list = <<>>
           active  == {q \in Prices : AtIn(order, q) # {}}
           after   == {q \in Prices : AtIn(order', q) # {}}
<1>0. /\ level \in Level /\ level.price = p
      /\ OrdersOK(order') /\ AtIn(order', p) \subseteq AtIn(order, p)
      /\ \A q \in Prices \ {p} : /\ AtIn(order', q) = AtIn(order, q)
                                 /\ LotsIn(order', q) = LotsIn(order, q)
      /\ IsListOf(level.list, AtIn(order', p)) /\ level.total = LotsIn(order', p)
  BY DEF Lists, OthersKeep
<1> USE <1>0
<1>1. /\ side \in {"Buy", "Sell"}
      /\ StoreOK(slots, bitmap, far)
      /\ cachedBest \in Prices \cup {NoPrice}
      /\ OrdersOK(order)
      /\ Agree(slots, far, order)
      /\ BestOf(cachedBest, active)
  BY IInvIs
<1>2. /\ slots' = sl
      /\ far' = fr
      /\ bitmap' = IF refresh THEN BitmapAfterScan(sl, bm) ELSE bm
      /\ cachedBest' = IF refresh THEN RefreshedBest(RingBest(sl, bm), FarBest(fr))
                                  ELSE cachedBest
  BY DEF UpdateAfterFillOrCancel
<1>3. /\ drop <=> AtIn(order', p) = {}
      /\ value = IF AtIn(order', p) = {} THEN NoLevel ELSE level
  <2>1. drop <=> AtIn(order', p) = {}
    BY LevelListed
  <2> QED BY <2>1
<1>4. value = NoLevel \/ (value \in Level /\ value.price = p)
  BY <1>3
<1>5. value # NoLevel <=> ~drop
  BY Constants
<1>6. Stored(slots, bitmap, far, p, value, sl, bm, fr)
  <2>1. CASE InLadder(p)
    <3>1. SlotOf(p) \in Slots BY <2>1, SlotOfPrice
    <3>2. bitmap \in [Words -> SUBSET Bits] BY <1>1 DEF StoreOK
    <3>3. slots[SlotOf(p)] # NoLevel BY <2>1 DEF GetLevel
    <3>4. Marked(bitmap, SlotOf(p)) BY <1>1, <3>1, <3>3 DEF StoreOK
    <3>5. CASE drop
      <4>1. bm = MarkInactive(bitmap, SlotOf(p)) BY <2>1, <3>5
      <4> HIDE DEF bm, value, drop
      <4>2. /\ bm \in [Words -> SUBSET Bits]
            /\ \A j \in Slots : Marked(bm, j) <=> j # SlotOf(p) /\ Marked(bitmap, j)
        BY <3>1, <3>2, <4>1, MarkingIs
      <4>3. \A j \in Slots : Marked(bm, j) <=> IF j = SlotOf(p) THEN value # NoLevel
                                                                ELSE Marked(bitmap, j)
        BY <1>5, <3>5, <4>2
      <4> QED BY <2>1, <4>2, <4>3 DEF Stored
    <3>6. CASE ~drop
      <4>1. bm = bitmap BY <3>6
      <4> HIDE DEF bm, value, drop
      <4>2. \A j \in Slots : Marked(bm, j) <=> IF j = SlotOf(p) THEN value # NoLevel
                                                                ELSE Marked(bitmap, j)
        BY <1>5, <3>4, <3>6, <4>1
      <4> QED BY <2>1, <3>2, <4>1, <4>2 DEF Stored
    <3> QED BY <3>5, <3>6
  <2>2. CASE ~InLadder(p)
    <3> HIDE DEF value, drop
    <3> QED BY <2>2 DEF Stored
  <2> QED BY <2>1, <2>2
<1> HIDE DEF drop, value, sl, bm, fr, refresh, active, after
<1>7. /\ StoreOK(sl, bm, fr)
      /\ \A q \in Prices : LevelIn(sl, fr, q) = IF q = p THEN value ELSE LevelIn(slots, far, q)
  BY <1>1, <1>4, <1>6, StoringIs
<1>8. Agree(sl, fr, order')
  <2> SUFFICES ASSUME NEW q \in Prices
               PROVE  LevelIs(LevelIn(sl, fr, q), AtIn(order', q), LotsIn(order', q))
    BY DEF Agree
  <2>1. CASE q = p
    <3>1. LevelIn(sl, fr, q) = value BY <1>7, <2>1
    <3> QED BY <1>3, <1>5, <2>1, <3>1 DEF LevelIs
  <2>2. CASE q # p
    <3>1. LevelIn(sl, fr, q) = LevelIn(slots, far, q) BY <1>7, <2>2
    <3>2. AtIn(order', q) = AtIn(order, q) /\ LotsIn(order', q) = LotsIn(order, q) BY <2>2
    <3>3. LevelIs(LevelIn(slots, far, q), AtIn(order, q), LotsIn(order, q))
      BY <1>1 DEF Agree
    <3> QED BY <3>1, <3>2, <3>3
  <2> QED BY <2>1, <2>2
<1>9. /\ \A q \in active : q \in Prices
      /\ after \subseteq active /\ p \in active
      /\ \A q \in active : q # p => q \in after
  <2>1. AtIn(order, p) # {}
    <3>1. LevelIs(LevelIn(slots, far, p), AtIn(order, p), LotsIn(order, p))
      BY <1>1 DEF Agree
    <3>2. LevelIn(slots, far, p) # NoLevel BY StateIs
    <3> QED BY <3>1, <3>2 DEF LevelIs
  <2> QED BY <2>1 DEF active, after
<1>10. BestOf(cachedBest', after) /\ bitmap' = bm
  <2>1. CASE refresh
    <3>1. after = {q \in Prices : LevelIn(sl, fr, q) # NoLevel}
      BY <1>8 DEF after, Agree, LevelIs
    <3>2. IsFiniteSet(after) BY ActiveIsFinite DEF after
    <3>3. ASSUME NEW q \in after PROVE LevelIn(sl, fr, q).list # <<>>
      <4> DEFINE stored == LevelIn(sl, fr, q)
      <4>0. q \in Prices /\ stored # NoLevel /\ AtIn(order', q) # {}
        BY <3>1 DEF after
      <4>1. stored \in Level BY <1>7, <4>0, LevelHasPrice
      <4>2. IsListOf(stored.list, AtIn(order', q)) /\ stored.total = LotsIn(order', q)
        BY <1>8, <4>0 DEF Agree, LevelIs
      <4> HIDE DEF stored
      <4>3. stored.list # <<>> BY <4>0, <4>1, <4>2, LevelListed
      <4> QED BY <4>3 DEF stored
    <3>4. BestOf(RefreshedBest(RingBest(sl, bm), FarBest(fr)), after)
      BY <1>1, <1>7, <3>1, <3>2, <3>3, RefreshedBestIs
    <3>5. BitmapAfterScan(sl, bm) = bm BY <1>7, ScanKeepsBitmap
    <3> QED BY <1>2, <2>1, <3>4, <3>5
  <2>2. CASE ~refresh
    <3>1. cachedBest # p /\ cachedBest # NoPrice BY <2>2 DEF refresh
    <3>2. active # {} /\ cachedBest \in active /\ \A q \in active : ~IsBetterPrice(q, cachedBest)
      BY <1>1, <3>1 DEF BestOf
    <3>3. cachedBest \in after /\ \A q \in after : ~IsBetterPrice(q, cachedBest)
      BY <1>9, <3>1, <3>2
    <3> QED BY <1>2, <2>2, <3>3 DEF BestOf
  <2> QED BY <2>1, <2>2
<1>11. cachedBest' \in Prices \cup {NoPrice}
  BY <1>9, <1>10 DEF BestOf
<1>12. (BestOf(cachedBest, {q \in Prices : AtIn(order, q) # {}}))'
  <2>1. (BestOf(cachedBest, {q \in Prices : AtIn(order, q) # {}}))'
          <=> BestOf(cachedBest', after)
    BY DEF BestOf, IsBetterPrice, AtIn, after
  <2> QED BY <1>10, <2>1
<1>13. IInv'
  <2>1. side' \in {"Buy", "Sell"} BY <1>1
  <2>2. StoreOK(slots', bitmap', far') BY <1>2, <1>7, <1>10
  <2>3. Agree(slots', far', order') BY <1>2, <1>8
  <2> QED BY <1>11, <1>12, <2>1, <2>2, <2>3, IInvIsNext
<1> QED BY <1>2, <1>3, <1>7, <1>13

\* The queue at a price, as PriceLevels sees it.
QueueIn(sl, fr, p) == IF LevelIn(sl, fr, p) = NoLevel THEN <<>> ELSE LevelIn(sl, fr, p).list

\* An empty side satisfies the invariant.
LEMMA InitInvariant == Init => IInv
<1> SUFFICES ASSUME Init PROVE IInv
  OBVIOUS
<1>1. StoreOK(slots, bitmap, far)
  <2>1. \A i \in Slots : ~Marked(bitmap, i)
    BY SlotBit DEF Init, Marked
  <2> QED BY <2>1 DEF Init, StoreOK
<1>2. OrdersOK(order)
  BY DEF Init, OrdersOK
<1>3. \A p \in Prices : AtIn(order, p) = {}
  BY Constants DEF Init, AtIn, NotResting
<1>4. \A p \in Prices : LevelIn(slots, far, p) = NoLevel
  BY SlotOfPrice DEF Init, LevelIn
<1>5. Agree(slots, far, order)
  BY <1>3, <1>4 DEF Agree, LevelIs
<1>6. BestOf(cachedBest, {p \in Prices : AtIn(order, p) # {}})
  BY <1>3 DEF Init, BestOf
<1>7. side \in {"Buy", "Sell"} /\ cachedBest \in Prices \cup {NoPrice}
  BY DEF Init
<1> QED BY <1>1, <1>2, <1>5, <1>6, <1>7, IInvIs

\* An inserted order joins the back of its queue.
LEMMA InsertStep ==
  ASSUME IInv, NEW o \in Orders, NEW p \in Prices, NEW lots \in 1 .. MaxQuantity,
         InsertRestingOrder(o, p, lots)
  PROVE  /\ IInv'
         /\ order[o] = NotResting
         /\ order' = [order EXCEPT ![o] = [price |-> p, remaining |-> lots]]
         /\ \A q \in Prices : QueueIn(slots', far', q) =
              IF q = p THEN Append(QueueIn(slots, far, p), o) ELSE QueueIn(slots, far, q)
<1> DEFINE level == GetOrCreateLevel(p)
           old == LevelIn(slots, far, p)
           grown == [level EXCEPT !.list = Append(@, o), !.total = @ + lots]
           active == {q \in Prices : AtIn(order, q) # {}}
           after  == {q \in Prices : AtIn(order', q) # {}}
<1>1. /\ side \in {"Buy", "Sell"}
      /\ StoreOK(slots, bitmap, far)
      /\ cachedBest \in Prices \cup {NoPrice}
      /\ OrdersOK(order)
      /\ Agree(slots, far, order)
      /\ BestOf(cachedBest, active)
  BY IInvIs
<1>2. /\ order[o] = NotResting
      /\ order' = [order EXCEPT ![o] = [price |-> p, remaining |-> lots]]
      /\ \/ /\ InLadder(p)
            /\ slots' = [slots EXCEPT ![SlotOf(p)] = grown]
            /\ bitmap' = MarkActive(bitmap, SlotOf(p))
            /\ far' = far
         \/ /\ ~InLadder(p)
            /\ far' = [far EXCEPT ![p] = grown]
            /\ slots' = slots /\ bitmap' = bitmap
      /\ cachedBest' = IF cachedBest = NoPrice \/ IsBetterPrice(p, cachedBest)
                       THEN p ELSE cachedBest
      /\ side' = side
  BY DEF InsertRestingOrder, ladder
<1>3. lots \in Nat \ {0}
  OBVIOUS
<1>4. /\ OrdersOK(order')
      /\ o \notin AtIn(order, p)
      /\ AtIn(order', p) = AtIn(order, p) \cup {o}
      /\ LotsIn(order', p) = LotsIn(order, p) + lots
      /\ \A q \in Prices \ {p} : /\ AtIn(order', q) = AtIn(order, q)
                                 /\ LotsIn(order', q) = LotsIn(order, q)
  <2>1. PICK new : new = order' OBVIOUS
  <2>2. Inserts(order, new, o, p, lots) BY <1>2, <2>1 DEF Inserts
  <2>3. OrdersOK(order) BY <1>1
  <2>4. /\ OrdersOK(new)
        /\ o \notin AtIn(order, p)
        /\ AtIn(new, p) = AtIn(order, p) \cup {o}
        /\ LotsIn(new, p) = LotsIn(order, p) + lots
        /\ OthersKeep(order, new, p)
    BY <1>3, <2>2, <2>3, LotsOfInserted
  <2> QED BY <2>1, <2>4 DEF OthersKeep
<1>5. LevelIs(old, AtIn(order, p), LotsIn(order, p))
  BY <1>1 DEF Agree
<1>6. /\ level \in Level /\ level.price = p
      /\ level.list = QueueIn(slots, far, p)
      /\ IsListOf(level.list, AtIn(order, p))
      /\ level.total = LotsIn(order, p)
  <2>1. GetLevel(p) = old BY StateIs
  <2>2. CASE old = NoLevel
    <3>1. level = [price |-> p, list |-> <<>>, total |-> 0]
      BY <2>1, <2>2 DEF GetOrCreateLevel
    <3>2. level \in Level /\ level.price = p /\ level.list = <<>> /\ level.total = 0
      BY <3>1 DEF Level
    <3> HIDE DEF level, old
    <3>3. AtIn(order, p) = {} BY <1>5, <2>2 DEF LevelIs
    <3>4. LotsIn(order, p) = 0 BY <3>3, SumEmpty DEF LotsIn
    <3>5. IsListOf(<<>>, {}) BY DEF IsListOf
    <3>6. QueueIn(slots, far, p) = <<>> BY <2>2 DEF QueueIn, old
    <3> QED BY <3>2, <3>3, <3>4, <3>5, <3>6
  <2>3. CASE old # NoLevel
    <3>1. level = old BY <2>1, <2>3 DEF GetOrCreateLevel
    <3>2. old \in Level /\ old.price = p BY <1>1, <2>3, LevelHasPrice
    <3>3. QueueIn(slots, far, p) = old.list BY <2>3 DEF QueueIn
    <3> HIDE DEF level, old
    <3> QED BY <1>5, <2>3, <3>1, <3>2, <3>3 DEF LevelIs
  <2> QED BY <2>2, <2>3
<1> HIDE DEF level
<1>7. /\ grown \in Level /\ grown.price = p
      /\ grown.list = Append(QueueIn(slots, far, p), o)
      /\ grown.total = LotsIn(order', p)
      /\ IsListOf(grown.list, AtIn(order', p))
  <2>1. level.list \in Seq(Orders) /\ level.total \in Nat
    BY <1>6 DEF Level
  <2>2. AtIn(order, p) \in SUBSET Orders BY DEF AtIn
  <2> DEFINE q == level.list
             S == AtIn(order, p)
  <2>3. Append(q, o) \in Seq(Orders) /\ IsListOf(Append(q, o), S \cup {o})
    <3>1. q \in Seq(Orders) /\ S \in SUBSET Orders /\ IsListOf(q, S) /\ o \in Orders \ S
      BY <1>4, <1>6, <2>1, <2>2
    <3> HIDE DEF q, S
    <3> QED BY <3>1, AppendList
  <2> DEFINE total == level.total + lots
  <2>4. grown = [price |-> p, list |-> Append(q, o), total |-> total]
    <3>1. level = [price |-> level.price, list |-> level.list, total |-> level.total]
      BY <1>6 DEF Level
    <3>2. grown = [level EXCEPT !.list = Append(q, o), !.total = total] OBVIOUS
    <3> HIDE DEF grown, q, total
    <3> QED BY <1>6, <3>1, <3>2
  <2>5. total \in Nat BY <1>3, <2>1
  <2>6. total = LotsIn(order', p) BY <1>4, <1>6
  <2> HIDE DEF total
  <2>7. grown \in Level BY <2>3, <2>4, <2>5 DEF Level
  <2> QED BY <1>4, <1>6, <2>3, <2>4, <2>6, <2>7
<1> HIDE DEF grown, old, active, after
<1>8. grown # NoLevel
  BY <1>7, Constants
<1>9. Stored(slots, bitmap, far, p, grown, slots', bitmap', far')
  <2>1. CASE InLadder(p)
    <3>1. SlotOf(p) \in Slots BY <2>1, SlotOfPrice
    <3>2. bitmap \in [Words -> SUBSET Bits] BY <1>1 DEF StoreOK
    <3>3. bitmap' = MarkActive(bitmap, SlotOf(p)) BY <1>2, <2>1
    <3>4. /\ bitmap' \in [Words -> SUBSET Bits]
          /\ \A j \in Slots : Marked(bitmap', j) <=> j = SlotOf(p) \/ Marked(bitmap, j)
      BY <3>1, <3>2, <3>3, MarkingIs
    <3>5. \A j \in Slots : Marked(bitmap', j) <=> IF j = SlotOf(p) THEN grown # NoLevel
                                                                  ELSE Marked(bitmap, j)
      BY <1>8, <3>4
    <3> QED BY <1>2, <2>1, <3>4, <3>5 DEF Stored
  <2>2. CASE ~InLadder(p) BY <1>2, <2>2 DEF Stored
  <2> QED BY <2>1, <2>2
<1>10. /\ StoreOK(slots', bitmap', far')
       /\ \A q \in Prices :
            LevelIn(slots', far', q) = IF q = p THEN grown ELSE LevelIn(slots, far, q)
  BY <1>1, <1>7, <1>9, StoringIs
<1>11. Agree(slots', far', order')
  <2> SUFFICES ASSUME NEW q \in Prices
               PROVE  LevelIs(LevelIn(slots', far', q), AtIn(order', q), LotsIn(order', q))
    BY DEF Agree
  <2>1. CASE q = p BY <1>4, <1>7, <1>8, <1>10, <2>1 DEF LevelIs
  <2>2. CASE q # p
    <3>1. LevelIn(slots', far', q) = LevelIn(slots, far, q) BY <1>10, <2>2
    <3>2. AtIn(order', q) = AtIn(order, q) /\ LotsIn(order', q) = LotsIn(order, q)
      BY <1>4, <2>2
    <3>3. LevelIs(LevelIn(slots, far, q), AtIn(order, q), LotsIn(order, q))
      BY <1>1 DEF Agree
    <3> QED BY <3>1, <3>2, <3>3
  <2> QED BY <2>1, <2>2
<1>12. BestOf(cachedBest', after)
  <2>1. after = active \cup {p}
    BY <1>4 DEF active, after
  <2>2. p \in Nat /\ \A q \in active : q \in Nat /\ q # NoPrice
    BY Constants DEF active
  <2>3. CASE active = {}
    <3>1. cachedBest = NoPrice BY <1>1, <2>3 DEF BestOf
    <3>2. cachedBest' = p /\ after = {p} BY <1>2, <2>1, <2>3, <3>1
    <3> QED BY <2>2, <3>2 DEF BestOf, IsBetterPrice
  <2>4. CASE active # {}
    <3>1. cachedBest \in active /\ \A q \in active : ~IsBetterPrice(q, cachedBest)
      BY <1>1, <2>4 DEF BestOf
    <3>2. cachedBest' = IF IsBetterPrice(p, cachedBest) THEN p ELSE cachedBest
      BY <1>2, <2>2, <3>1
    <3>3. \A q \in after : ~IsBetterPrice(q, cachedBest')
      BY <2>1, <2>2, <3>1, <3>2 DEF IsBetterPrice
    <3> QED BY <2>1, <3>1, <3>2, <3>3 DEF BestOf
  <2> QED BY <2>3, <2>4
<1>13. (BestOf(cachedBest, {q \in Prices : AtIn(order, q) # {}}))'
  <2>1. (BestOf(cachedBest, {q \in Prices : AtIn(order, q) # {}}))'
          <=> BestOf(cachedBest', after)
    BY <1>2 DEF BestOf, IsBetterPrice, AtIn, after
  <2> QED BY <1>12, <2>1
<1>14. IInv'
  <2>1. side' \in {"Buy", "Sell"} /\ cachedBest' \in Prices \cup {NoPrice}
    BY <1>1, <1>2
  <2> QED BY <1>4, <1>10, <1>11, <1>13, <2>1, IInvIsNext
<1>15. \A q \in Prices : QueueIn(slots', far', q) =
         IF q = p THEN Append(QueueIn(slots, far, p), o) ELSE QueueIn(slots, far, q)
  BY <1>7, <1>8, <1>10 DEF QueueIn
<1> QED BY <1>2, <1>14, <1>15

\* What the invariant says of the level of a resting order.
LEMMA RestingLevel ==
  ASSUME IInv, NEW p \in Prices, AtIn(order, p) # {}
  PROVE  LET level == LevelIn(slots, far, p)
         IN  /\ GetLevel(p) = level /\ level # NoLevel
             /\ level \in Level /\ level.price = p
             /\ IsListOf(level.list, AtIn(order, p))
             /\ level.total = LotsIn(order, p)
             /\ QueueIn(slots, far, p) = level.list
<1> DEFINE level == LevelIn(slots, far, p)
<1>1. StoreOK(slots, bitmap, far) /\ Agree(slots, far, order)
  BY IInvIs
<1>2. LevelIs(level, AtIn(order, p), LotsIn(order, p))
  BY <1>1 DEF Agree
<1>3. level # NoLevel
  BY <1>2 DEF LevelIs
<1>4. level \in Level /\ level.price = p
  BY <1>1, <1>3, LevelHasPrice
<1>5. GetLevel(p) = level
  BY StateIs
<1> QED BY <1>2, <1>3, <1>4, <1>5 DEF LevelIs, QueueIn

\* The level left is the level without the order o and its lots.
Unlinks(level, left, o, lots) ==
  left = [level EXCEPT !.list = Unlink(@, o), !.total = @ - lots]

\* The level holds the orders at its price.
Holds(level, ord, p) ==
  /\ level \in Level /\ level.price = p
  /\ IsListOf(level.list, AtIn(ord, p)) /\ level.total = LotsIn(ord, p)

\* The level without an order that leaves it, whose lots are taken from its total.
LEMMA LevelWithout ==
  ASSUME NEW ord, OrdersOK(ord), NEW new, NEW o \in Orders, NEW p, Removes(ord, new, o, p),
         NEW level, Holds(level, ord, p),
         NEW left, Unlinks(level, left, o, ord[o].remaining)
  PROVE  /\ Lists(left, ord, new, p)
         /\ left.list = Unlink(level.list, o)
         /\ AtIn(new, p) = {} => left.list = <<>>
<1> DEFINE total == level.total - ord[o].remaining
<1>0. /\ level \in Level /\ level.price = p
      /\ IsListOf(level.list, AtIn(ord, p)) /\ level.total = LotsIn(ord, p)
  BY DEF Holds
<1>1. /\ OrdersOK(new)
      /\ p \in Prices
      /\ o \in AtIn(ord, p)
      /\ AtIn(new, p) = AtIn(ord, p) \ {o}
      /\ LotsIn(new, p) = LotsIn(ord, p) - ord[o].remaining
      /\ OthersKeep(ord, new, p)
  BY LotsOfRemoved
<1>2. LotsIn(new, p) \in Nat
  BY <1>1, LotsAreNatural
<1> DEFINE q == level.list
           S == AtIn(ord, p)
<1>3. q \in Seq(Orders) /\ S \in SUBSET Orders /\ IsListOf(q, S)
  BY <1>0 DEF Level, AtIn
<1>4. left = [price |-> p, list |-> Unlink(q, o), total |-> total]
  <2>1. level = [price |-> level.price, list |-> level.list, total |-> level.total]
    BY <1>0 DEF Level
  <2>2. left = [level EXCEPT !.list = Unlink(q, o), !.total = total] BY DEF Unlinks
  <2> HIDE DEF q, total
  <2> QED BY <1>0, <2>1, <2>2
<1>6. total = LotsIn(new, p)
  BY <1>0, <1>1
<1> HIDE DEF q, S, total
<1>5. Unlink(q, o) \in Seq(Orders) /\ IsListOf(Unlink(q, o), S \ {o})
  BY <1>1, <1>3, UnlinkList DEF S
<1>7. left \in Level /\ left.price = p /\ left.list = Unlink(q, o) /\ left.total = total
  <2> DEFINE u == Unlink(q, o)
  <2>1. u \in Seq(Orders) /\ total \in Nat /\ p \in Prices BY <1>1, <1>2, <1>5, <1>6
  <2>2. left = [price |-> p, list |-> u, total |-> total] BY <1>4
  <2> HIDE DEF u
  <2>3. left \in Level /\ left.price = p /\ left.list = u /\ left.total = total
    BY ONLY <2>1, <2>2 DEF Level
  <2> QED BY <2>3 DEF u
<1>8. IsListOf(left.list, AtIn(new, p))
  BY <1>1, <1>5, <1>7 DEF S
<1>9. AtIn(new, p) = {} => left.list = <<>>
  BY <1>1, <1>6, <1>7, <1>8, LevelListed
<1> QED BY <1>1, <1>6, <1>7, <1>8, <1>9 DEF Lists, q

\* A removed order leaves its queue; the others keep their places.
LEMMA RemoveStep ==
  ASSUME IInv, NEW o \in Orders, RemoveOrder(o)
  PROVE  /\ IInv'
         /\ \E p \in Prices :
              /\ Removes(order, order', o, p)
              /\ \E i \in 1 .. Len(QueueIn(slots, far, p)) : QueueIn(slots, far, p)[i] = o
              /\ \A q \in Prices : QueueIn(slots', far', q) =
                   IF q = p THEN Unlink(QueueIn(slots, far, p), o) ELSE QueueIn(slots, far, q)
<1>1. PICK p : p = order[o].price
  OBVIOUS
<1>3. PICK left : left = [GetLevel(p) EXCEPT
                            !.list = Unlink(@, o), !.total = DecreaseTotal(@, order[o].remaining)]
  OBVIOUS
<1>4. /\ Removes(order, order', o, p)
      /\ UpdateAfterFillOrCancel(p, left)
      /\ side' = side
  <2>1. order[o] # NotResting /\ order' = [order EXCEPT ![o] = NotResting] /\ side' = side
    BY DEF RemoveOrder
  <2>2. UpdateAfterFillOrCancel(p, left)
    BY <1>1, <1>3 DEF RemoveOrder
  <2> QED BY <1>1, <2>1, <2>2 DEF Removes
<1>5. OrdersOK(order)
  BY IInvIs
<1>6. PICK new : new = order'
  OBVIOUS
<1>7. Removes(order, new, o, p)
  BY <1>4, <1>6
<1>8. p \in Prices /\ o \in AtIn(order, p)
  BY <1>5, <1>7, LotsOfRemoved
<1> DEFINE level == LevelIn(slots, far, p)
<1>9. /\ GetLevel(p) = level /\ level # NoLevel
      /\ level \in Level /\ level.price = p
      /\ IsListOf(level.list, AtIn(order, p))
      /\ level.total = LotsIn(order, p)
      /\ QueueIn(slots, far, p) = level.list
  BY <1>8, RestingLevel
<1> HIDE DEF level
<1>10. Holds(level, order, p)
  BY <1>9 DEF Holds
<1>11. Unlinks(level, left, o, order[o].remaining)
  <2>1. /\ LotsIn(order, p) \in Nat
        /\ order[o].remaining \in Nat \ {0} /\ order[o].remaining <= LotsIn(order, p)
    BY <1>5, <1>8, LotsAreNatural
  <2>2. DecreaseTotal(level.total, order[o].remaining) = level.total - order[o].remaining
    BY <1>9, <2>1 DEF DecreaseTotal
  <2> QED BY <1>3, <1>9, <2>2 DEF Unlinks
<1>12. /\ Lists(left, order, new, p)
       /\ left.list = Unlink(level.list, o)
       /\ AtIn(new, p) = {} => left.list = <<>>
  <2>1. PICK ord : ord = order OBVIOUS
  <2>2. PICK lv : lv = level OBVIOUS
  <2>3. OrdersOK(ord) /\ Removes(ord, new, o, p) BY <1>5, <1>7, <2>1
  <2>4. Holds(lv, ord, p) BY <1>10, <2>1, <2>2
  <2>5. Unlinks(lv, left, o, ord[o].remaining) BY <1>11, <2>1, <2>2
  <2>6. /\ Lists(left, ord, new, p)
        /\ left.list = Unlink(lv.list, o)
        /\ AtIn(new, p) = {} => left.list = <<>>
    BY ONLY o \in Orders, <2>3, <2>4, <2>5, LevelWithout
  <2> QED BY <2>1, <2>2, <2>6
<1>13. Lists(left, order, order', p)
  BY <1>6, <1>12
<1>14. /\ IInv'
       /\ \A q \in Prices :
            LevelIn(slots', far', q) = IF q = p
                                       THEN IF AtIn(order', p) = {} THEN NoLevel ELSE left
                                       ELSE LevelIn(slots, far, q)
  BY <1>4, <1>8, <1>9, <1>13, UpdateKeepsInvariant
<1>15. left # NoLevel
  BY <1>12, Constants DEF Lists
<1>16. \A q \in Prices : QueueIn(slots', far', q) =
         IF q = p THEN Unlink(QueueIn(slots, far, p), o) ELSE QueueIn(slots, far, q)
  BY <1>6, <1>9, <1>12, <1>14, <1>15 DEF QueueIn
<1>17. \E i \in 1 .. Len(QueueIn(slots, far, p)) : QueueIn(slots, far, p)[i] = o
  BY <1>8, <1>9 DEF IsListOf
<1> QED BY <1>4, <1>8, <1>14, <1>16, <1>17

\* The best level is the level of the best price at which orders rest.
LEMMA BestLevelIs ==
  ASSUME IInv, BestLevel # NoPrice
  PROVE  /\ BestLevel = cachedBest
         /\ cachedBest \in Prices /\ AtIn(order, cachedBest) # {}
         /\ \A q \in Prices : AtIn(order, q) # {} => ~IsBetterPrice(q, cachedBest)
<1>1. BestLevel = cachedBest /\ cachedBest # NoPrice
  BY DEF BestLevel
<1>2. BestOf(cachedBest, {q \in Prices : AtIn(order, q) # {}})
  BY IInvIs
<1> QED BY <1>1, <1>2 DEF BestOf

\* The level after a partial fill: only its total changes.
LEMMA LevelFilled ==
  ASSUME NEW ord, OrdersOK(ord), NEW new, NEW o \in Orders, NEW p,
         NEW lots \in Nat \ {0}, Fills(ord, new, o, p, lots),
         NEW level, Holds(level, ord, p),
         NEW left, left = [level EXCEPT !.total = @ - lots]
  PROVE  /\ Lists(left, ord, new, p)
         /\ left.list = level.list
         /\ AtIn(new, p) = AtIn(ord, p)
<1> DEFINE total == level.total - lots
<1>0. /\ level \in Level /\ level.price = p
      /\ IsListOf(level.list, AtIn(ord, p)) /\ level.total = LotsIn(ord, p)
  BY DEF Holds
<1>1. /\ OrdersOK(new)
      /\ p \in Prices
      /\ AtIn(new, p) = AtIn(ord, p)
      /\ LotsIn(new, p) = LotsIn(ord, p) - lots
      /\ OthersKeep(ord, new, p)
  BY LotsOfFilled
<1>2. LotsIn(new, p) \in Nat
  BY <1>1, LotsAreNatural
<1>3. total = LotsIn(new, p)
  BY <1>0, <1>1
<1>4. left = [price |-> p, list |-> level.list, total |-> total]
  <2>1. level = [price |-> level.price, list |-> level.list, total |-> level.total]
    BY <1>0 DEF Level
  <2>2. left = [level EXCEPT !.total = total] OBVIOUS
  <2> HIDE DEF total
  <2> QED BY <1>0, <2>1, <2>2
<1>5. level.list \in Seq(Orders)
  BY <1>0 DEF Level
<1> DEFINE list == level.list
<1> HIDE DEF total, list
<1>6. left \in Level /\ left.price = p /\ left.list = list /\ left.total = total
  <2>1. list \in Seq(Orders) /\ total \in Nat /\ p \in Prices BY <1>1, <1>2, <1>3, <1>5 DEF list
  <2>2. left = [price |-> p, list |-> list, total |-> total] BY <1>4 DEF list
  <2> QED BY ONLY <2>1, <2>2 DEF Level
<1>7. IsListOf(list, AtIn(new, p))
  BY <1>0, <1>1 DEF list
<1>8. AtIn(new, p) \subseteq AtIn(ord, p)
  BY <1>1
<1> QED BY <1>1, <1>3, <1>6, <1>7, <1>8 DEF Lists, list

\* A fill takes from the front of the best queue; a filled order leaves it.
LEMMA FillStep ==
  ASSUME IInv, NEW lots \in 1 .. MaxQuantity, FillBestOrder(lots)
  PROVE  /\ IInv'
         /\ \E p \in Prices : \E o \in Orders :
              /\ QueueIn(slots, far, p) # <<>> /\ o = Head(QueueIn(slots, far, p))
              /\ \A q \in Prices : AtIn(order, q) # {} => ~IsBetterPrice(q, p)
              /\ \/ /\ lots = order[o].remaining
                    /\ Removes(order, order', o, p)
                    /\ \A q \in Prices : QueueIn(slots', far', q) =
                         IF q = p THEN Unlink(QueueIn(slots, far, p), o)
                                  ELSE QueueIn(slots, far, q)
                 \/ /\ Fills(order, order', o, p, lots)
                    /\ \A q \in Prices : QueueIn(slots', far', q) = QueueIn(slots, far, q)
<1>1. PICK p : p = BestLevel
  OBVIOUS
<1>2. PICK level : level = GetLevel(p)
  OBVIOUS
<1>3. PICK o : o = BestOrder
  OBVIOUS
<1>4. PICK ord : ord = order
  OBVIOUS
<1>5. PICK new : new = order'
  OBVIOUS
<1>6. p # NoPrice /\ lots <= ord[o].remaining /\ side' = side
  BY <1>1, <1>3, <1>4 DEF FillBestOrder
<1>7. /\ p \in Prices /\ AtIn(ord, p) # {}
      /\ \A q \in Prices : AtIn(order, q) # {} => ~IsBetterPrice(q, p)
  BY <1>1, <1>4, <1>6, BestLevelIs
<1>8. OrdersOK(ord)
  BY <1>4, IInvIs
<1>9. /\ GetLevel(p) = LevelIn(slots, far, p) /\ GetLevel(p) # NoLevel
      /\ Holds(level, ord, p)
      /\ QueueIn(slots, far, p) = level.list
  BY <1>2, <1>4, <1>7, RestingLevel DEF Holds
<1>10. level.list # <<>> /\ o = Head(level.list) /\ o \in AtIn(ord, p)
  <2> DEFINE q == level.list
             S == AtIn(ord, p)
  <2>1. q \in Seq(Orders) /\ S \in SUBSET Orders /\ IsListOf(q, S) /\ S # {}
    BY <1>7, <1>9 DEF Holds, Level, AtIn
  <2>2. o = Head(q)
    BY <1>1, <1>2, <1>3 DEF BestOrder
  <2> HIDE DEF q, S
  <2>3. q # <<>> /\ Head(q) \in S
    BY <2>1, HeadOfList
  <2> QED BY <2>2, <2>3 DEF q, S
<1>11. /\ o \in Orders /\ ord[o].price = p
       /\ ord[o].remaining \in Nat \ {0} /\ ord[o].remaining <= LotsIn(ord, p)
       /\ LotsIn(ord, p) \in Nat
  BY <1>7, <1>8, <1>10, LotsAreNatural DEF AtIn
<1>12. ord[o] # NotResting
  BY <1>7, <1>11, Constants DEF NotResting
<1>13. lots \in Nat \ {0}
  OBVIOUS
<1>14. DecreaseTotal(level.total, lots) = level.total - lots
  BY <1>6, <1>9, <1>11, <1>13 DEF Holds, DecreaseTotal
<1>15. DecreaseTotal(level.total - lots, 0) = level.total - lots
  <2>1. level.total - lots \in Nat BY <1>6, <1>9, <1>11, <1>13 DEF Holds
  <2> QED BY <2>1 DEF DecreaseTotal
<1> DEFINE filled == lots = ord[o].remaining
<1>16. PICK left : left = [level EXCEPT !.list = IF filled THEN Unlink(@, o) ELSE @,
                                        !.total = level.total - lots]
  OBVIOUS
<1>17. /\ order' = [order EXCEPT ![o] = IF filled THEN NotResting ELSE Reduced(o, lots)]
       /\ UpdateAfterFillOrCancel(p, left)
  <2> DEFINE total == DecreaseTotal(level.total, lots)
  <2>1. order' = [order EXCEPT ![o] = IF filled THEN NotResting ELSE Reduced(o, lots)]
    BY <1>3, <1>4 DEF FillBestOrder
  <2>2. UpdateAfterFillOrCancel(p,
           [level EXCEPT !.list = IF filled THEN Unlink(@, o) ELSE @,
                         !.total = IF filled THEN DecreaseTotal(total, 0) ELSE total])
    BY <1>1, <1>2, <1>3, <1>4 DEF FillBestOrder
  <2>3. (IF filled THEN DecreaseTotal(total, 0) ELSE total) = level.total - lots
    BY <1>14, <1>15
  <2> HIDE DEF total, filled
  <2> QED BY <1>16, <2>1, <2>2, <2>3
<1>18. o \in Orders /\ OrdersOK(ord) /\ Holds(level, ord, p)
  BY <1>8, <1>9, <1>11
<1>19. CASE filled
  <2>1. new = [ord EXCEPT ![o] = NotResting]
    BY <1>4, <1>5, <1>17, <1>19
  <2>2. Removes(ord, new, o, p)
    BY <1>11, <1>12, <2>1 DEF Removes
  <2>3. Unlinks(level, left, o, ord[o].remaining)
    BY <1>16, <1>19 DEF Unlinks
  <2>4. /\ Lists(left, ord, new, p)
        /\ left.list = Unlink(level.list, o)
        /\ AtIn(new, p) = {} => left.list = <<>>
    BY ONLY <1>18, <2>2, <2>3, LevelWithout
  <2>5. Lists(left, order, order', p)
    BY <1>4, <1>5, <2>4
  <2>6. /\ IInv'
        /\ \A q \in Prices :
             LevelIn(slots', far', q) = IF q = p
                                        THEN IF AtIn(order', p) = {} THEN NoLevel ELSE left
                                        ELSE LevelIn(slots, far, q)
    BY <1>6, <1>7, <1>9, <1>17, <2>5, UpdateKeepsInvariant
  <2>7. left # NoLevel
    BY <2>4, Constants DEF Lists
  <2>8. \A q \in Prices : QueueIn(slots', far', q) =
          IF q = p THEN Unlink(QueueIn(slots, far, p), o) ELSE QueueIn(slots, far, q)
    BY <1>5, <1>9, <2>4, <2>6, <2>7 DEF QueueIn
  <2>9. lots = order[o].remaining /\ Removes(order, order', o, p)
    BY <1>4, <1>5, <1>19, <2>2
  <2> QED BY <1>7, <1>9, <1>10, <1>11, <2>6, <2>8, <2>9
<1>20. CASE ~filled
  <2>1. new = [ord EXCEPT ![o] = [ord[o] EXCEPT !.remaining = @ - lots]]
    BY <1>4, <1>5, <1>17, <1>20 DEF Reduced
  <2>2. Fills(ord, new, o, p, lots)
    <3>1. lots < ord[o].remaining BY <1>6, <1>11, <1>13, <1>20
    <3> QED BY <1>11, <1>12, <2>1, <3>1 DEF Fills
  <2>3. left = [level EXCEPT !.total = @ - lots]
    <3>1. level = [price |-> level.price, list |-> level.list, total |-> level.total]
      BY <1>9 DEF Holds, Level
    <3> DEFINE total == level.total - lots
    <3>2. left = [level EXCEPT !.list = level.list, !.total = total]
      BY <1>16, <1>20
    <3> HIDE DEF total
    <3>3. left = [level EXCEPT !.total = total] BY <3>1, <3>2
    <3> QED BY <3>3 DEF total
  <2>4. /\ Lists(left, ord, new, p)
        /\ left.list = level.list
        /\ AtIn(new, p) = AtIn(ord, p)
    BY ONLY <1>18, <1>13, <2>2, <2>3, LevelFilled
  <2>5. Lists(left, order, order', p)
    BY <1>4, <1>5, <2>4
  <2>6. /\ IInv'
        /\ \A q \in Prices :
             LevelIn(slots', far', q) = IF q = p
                                        THEN IF AtIn(order', p) = {} THEN NoLevel ELSE left
                                        ELSE LevelIn(slots, far, q)
    BY <1>6, <1>7, <1>9, <1>17, <2>5, UpdateKeepsInvariant
  <2>7. left # NoLevel
    BY <2>4, Constants DEF Lists
  <2>8. \A q \in Prices : QueueIn(slots', far', q) = QueueIn(slots, far, q)
    BY <1>5, <1>7, <1>9, <2>4, <2>6, <2>7 DEF QueueIn
  <2>9. Fills(order, order', o, p, lots)
    BY <1>4, <1>5, <2>2
  <2> QED BY <1>7, <1>9, <1>10, <1>11, <2>6, <2>8, <2>9
<1> HIDE DEF filled
<1> QED BY <1>19, <1>20

\* Every step preserves the invariant.
LEMMA NextInvariant == IInv /\ [Next]_vars => IInv'
<1> SUFFICES ASSUME IInv, [Next]_vars PROVE IInv'
  OBVIOUS
<1>1. CASE \E o \in Orders, p \in Prices, lots \in 1 .. MaxQuantity :
             InsertRestingOrder(o, p, lots)
  BY <1>1, InsertStep
<1>2. CASE \E o \in Orders : RemoveOrder(o)
  BY <1>2, RemoveStep
<1>3. CASE \E lots \in 1 .. MaxQuantity : FillBestOrder(lots)
  BY <1>3, FillStep
<1>4. CASE UNCHANGED vars
  <2>1. /\ side' = side /\ slots' = slots /\ bitmap' = bitmap /\ far' = far
        /\ cachedBest' = cachedBest /\ order' = order
    BY <1>4 DEF vars, ladder
  <2>2. (BestOf(cachedBest, {p \in Prices : AtIn(order, p) # {}}))'
          <=> BestOf(cachedBest, {p \in Prices : AtIn(order, p) # {}})
    BY <2>1 DEF BestOf, IsBetterPrice, AtIn
  <2>3. /\ side' \in {"Buy", "Sell"}
        /\ StoreOK(slots', bitmap', far')
        /\ cachedBest' \in Prices \cup {NoPrice}
        /\ OrdersOK(order')
        /\ Agree(slots', far', order')
        /\ (BestOf(cachedBest, {p \in Prices : AtIn(order, p) # {}}))'
    BY <2>1, <2>2, IInvIs
  <2> QED BY <2>3, IInvIsNext
<1> QED BY <1>1, <1>2, <1>3, <1>4 DEF Next

\* The levels, their totals, the bitmap and the cached best stay consistent
\* through every insertion, fill and removal of InsertRestingOrder,
\* match_incoming_order and remove_order.
THEOREM SideBookInvariant == Spec => []IInv
<1>1. Init => IInv
  BY InitInvariant
<1>2. IInv /\ [Next]_vars => IInv'
  BY NextInvariant
<1> QED BY <1>1, <1>2, PTL DEF Spec

\* A level stands exactly where orders rest, in its slot or in the far map, and
\* its total is the sum of what they have left: the totals that fill-or-kill
\* orders and book deltas read are never stale.
THEOREM LevelsAlwaysMatchOrders == Spec => []LevelsMatchOrders
<1>1. IInv => LevelsMatchOrders
  <2> SUFFICES ASSUME IInv PROVE LevelsMatchOrders
    OBVIOUS
  <2>1. StoreOK(slots, bitmap, far) /\ Agree(slots, far, order)
    BY IInvIs
  <2>2. ASSUME NEW p \in Prices
        PROVE  /\ (GetLevel(p) # NoLevel) <=> (RestingAt(p) # {})
               /\ GetLevel(p) # NoLevel =>
                    /\ GetLevel(p).price = p
                    /\ GetLevel(p).total = LotsAt(p)
               /\ InLadder(p) => far[p] = NoLevel
    <3>1. LevelIs(LevelIn(slots, far, p), AtIn(order, p), LotsIn(order, p))
      BY <2>1 DEF Agree
    <3>2. LevelIs(GetLevel(p), RestingAt(p), LotsAt(p))
      BY <3>1, StateIs
    <3>3. GetLevel(p) = LevelIn(slots, far, p)
      BY StateIs
    <3>4. GetLevel(p) # NoLevel => GetLevel(p).price = p
      BY <2>1, <3>3, LevelHasPrice
    <3>5. InLadder(p) => far[p] = NoLevel
      BY <2>1 DEF StoreOK
    <3> QED BY <3>2, <3>4, <3>5 DEF LevelIs
  <2>3. \A i \in Slots :
          /\ (slots[i] # NoLevel) <=> (i % WordBits \in bitmap[i \div WordBits])
          /\ slots[i] # NoLevel => SlotOf(slots[i].price) = i
    BY <2>1 DEF StoreOK, Marked
  <2> QED BY <2>2, <2>3 DEF LevelsMatchOrders
<1> QED BY <1>1, SideBookInvariant, PTL

\* The cached pointer is always the best level at which an order rests: no fill
\* or cancel leaves it dangling on a dropped level or behind a better one.
THEOREM CachedBestAlwaysBest == Spec => []CachedBestIsBest
<1>1. IInv => CachedBestIsBest
  BY DEF IInv
<1> QED BY <1>1, SideBookInvariant, PTL

(***************************************************************************)
(* The refinement of PriceLevels.                                          *)
(***************************************************************************)

Queues == [p \in Prices |-> QueueIn(slots, far, p)]
Remaining == [o \in Orders |-> order[o].remaining]

\* The mapped variables are the queues and what the orders have left.
LEMMA MappedState ==
  /\ Queues = [p \in Prices |-> IF GetLevel(p) = NoLevel THEN <<>> ELSE GetLevel(p).list]
  /\ \A p \in Prices : Queues[p] = QueueIn(slots, far, p)
  /\ \A p \in Prices : Queues'[p] = QueueIn(slots', far', p)
  /\ \A o \in Orders : Remaining[o] = order[o].remaining
  /\ \A o \in Orders : Remaining'[o] = order'[o].remaining
BY StateIs DEF Queues, QueueIn, Remaining, LevelIn

\* A step on one order changes what is left of this order alone.
LEMMA RemainingIs ==
  ASSUME IInv, NEW o \in Orders, NEW value, order' = [order EXCEPT ![o] = value]
  PROVE  Remaining' = [Remaining EXCEPT ![o] = value.remaining]
<1>1. order \in [Orders -> RestingOrder \cup {NotResting}]
  BY IInvIs DEF OrdersOK
<1>2. \A x \in Orders : order'[x] = IF x = o THEN value ELSE order[x]
  BY <1>1
<1>3. \A x \in Orders : order'[x].remaining = IF x = o THEN value.remaining ELSE order[x].remaining
  BY <1>2
<1> QED BY <1>3 DEF Remaining

\* A step that changes the queue of one price.
LEMMA QueuesAre ==
  ASSUME NEW p \in Prices, NEW value,
         \A q \in Prices : QueueIn(slots', far', q) = IF q = p THEN value
                                                      ELSE QueueIn(slots, far, q)
  PROVE  Queues' = [Queues EXCEPT ![p] = value]
<1>1. Queues' = [q \in Prices |-> QueueIn(slots', far', q)]
  BY DEF Queues, QueueIn, LevelIn
<1> QED BY <1>1 DEF Queues

\* What PriceLevels reads, before and after a step.
LEMMA MappedStep ==
  /\ [p \in Prices |-> IF GetLevel(p) = NoLevel THEN <<>> ELSE GetLevel(p).list] = Queues
  /\ [p \in Prices |-> IF GetLevel(p) = NoLevel THEN <<>> ELSE GetLevel(p).list]' = Queues'
  /\ [o \in Orders |-> order[o].remaining] = Remaining
  /\ [o \in Orders |-> order[o].remaining]' = Remaining'
BY DEF Queues, QueueIn, LevelIn, GetLevel, Remaining

\* PriceLevels unlinks as the book does.
LEMMA SameUnlink == \A q, o : Abstract!Unlink(q, o) = Unlink(q, o)
BY DEF Abstract!Unlink, Abstract!Position, Unlink, Position

\* An insertion is an insertion.
LEMMA InsertRefines ==
  ASSUME IInv, NEW o \in Orders, NEW p \in Prices, NEW lots \in 1 .. MaxQuantity,
         InsertRestingOrder(o, p, lots)
  PROVE  Abstract!Insert(o, p, lots)
<1>1. /\ order[o] = NotResting
      /\ order' = [order EXCEPT ![o] = [price |-> p, remaining |-> lots]]
      /\ \A q \in Prices : QueueIn(slots', far', q) =
           IF q = p THEN Append(QueueIn(slots, far, p), o) ELSE QueueIn(slots, far, q)
  BY InsertStep
<1>2. Remaining' = [Remaining EXCEPT ![o] = lots]
  <2> DEFINE value == [price |-> p, remaining |-> lots]
  <2>1. value.remaining = lots OBVIOUS
  <2> HIDE DEF value
  <2>2. Remaining' = [Remaining EXCEPT ![o] = value.remaining]
    <3>1. order' = [order EXCEPT ![o] = value] BY <1>1 DEF value
    <3> QED BY <3>1, RemainingIs
  <2> QED BY <2>1, <2>2
<1>3. Queues' = [Queues EXCEPT ![p] = Append(Queues[p], o)]
  <2>1. Queues' = [Queues EXCEPT ![p] = Append(QueueIn(slots, far, p), o)]
    BY <1>1, QueuesAre
  <2> QED BY <2>1, MappedState
<1>4. Remaining[o] = 0
  BY <1>1, MappedState DEF NotResting
<1>5. side' = side
  BY DEF InsertRestingOrder
<1> HIDE DEF Queues, Remaining
<1> QED BY <1>2, <1>3, <1>4, <1>5, MappedStep DEF Abstract!Insert

\* A removal is the removal of the order from the queue at its price.
LEMMA RemoveRefines ==
  ASSUME IInv, NEW o \in Orders, RemoveOrder(o)
  PROVE  \E p \in Prices : Abstract!Remove(o, p)
<1>1. PICK p \in Prices :
        /\ Removes(order, order', o, p)
        /\ \E i \in 1 .. Len(QueueIn(slots, far, p)) : QueueIn(slots, far, p)[i] = o
        /\ \A q \in Prices : QueueIn(slots', far', q) =
             IF q = p THEN Unlink(QueueIn(slots, far, p), o) ELSE QueueIn(slots, far, q)
  BY RemoveStep
<1>2. Remaining' = [Remaining EXCEPT ![o] = 0]
  <2>1. order' = [order EXCEPT ![o] = NotResting] BY <1>1 DEF Removes
  <2>2. Remaining' = [Remaining EXCEPT ![o] = NotResting.remaining] BY <2>1, RemainingIs
  <2> QED BY <2>2 DEF NotResting
<1>3. Queues' = [Queues EXCEPT ![p] = Unlink(Queues[p], o)]
  <2>1. Queues' = [Queues EXCEPT ![p] = Unlink(QueueIn(slots, far, p), o)]
    BY <1>1, QueuesAre
  <2> QED BY <2>1, MappedState
<1>4. \E i \in 1 .. Len(Queues[p]) : Queues[p][i] = o
  BY <1>1, MappedState
<1>5. side' = side
  BY DEF RemoveOrder
<1>6. Abstract!Remove(o, p)
  BY <1>2, <1>3, <1>4, <1>5, MappedStep, SameUnlink DEF Abstract!Remove
<1> QED BY <1>6

\* A fill is a fill of the front order of the best queue.
LEMMA FillRefines ==
  ASSUME IInv, NEW lots \in 1 .. MaxQuantity, FillBestOrder(lots)
  PROVE  \E p \in Prices : Abstract!Fill(p, lots)
<1>1. PICK p \in Prices, o \in Orders :
        /\ QueueIn(slots, far, p) # <<>> /\ o = Head(QueueIn(slots, far, p))
        /\ \A q \in Prices : AtIn(order, q) # {} => ~IsBetterPrice(q, p)
        /\ \/ /\ lots = order[o].remaining
              /\ Removes(order, order', o, p)
              /\ \A q \in Prices : QueueIn(slots', far', q) =
                   IF q = p THEN Unlink(QueueIn(slots, far, p), o)
                            ELSE QueueIn(slots, far, q)
           \/ /\ Fills(order, order', o, p, lots)
              /\ \A q \in Prices : QueueIn(slots', far', q) = QueueIn(slots, far, q)
  BY FillStep
<1>2. Queues[p] # <<>> /\ o = Head(Queues[p])
  BY <1>1, MappedState
<1>3. Abstract!IsBest(p)
  <2>1. Agree(slots, far, order)
    BY IInvIs
  <2>2. ASSUME NEW q \in Prices, Queues[q] # <<>> PROVE AtIn(order, q) # {}
    <3>1. QueueIn(slots, far, q) # <<>> BY <2>2, MappedState
    <3>2. LevelIn(slots, far, q) # NoLevel BY <3>1 DEF QueueIn
    <3> QED BY <2>1, <3>2 DEF Agree, LevelIs
  <2>3. \A q \in Prices : Queues[q] # <<>> => IF side = "Buy" THEN q <= p ELSE q >= p
    <3> SUFFICES ASSUME NEW q \in Prices, Queues[q] # <<>>
                 PROVE  IF side = "Buy" THEN q <= p ELSE q >= p
      OBVIOUS
    <3>1. ~IsBetterPrice(q, p) BY <1>1, <2>2
    <3>2. q \in Nat /\ p \in Nat BY Constants
    <3> QED BY <3>1, <3>2 DEF IsBetterPrice
  <2> QED BY <1>2, <2>3, MappedStep DEF Abstract!IsBest, Abstract!ActivePrices
<1>4. side' = side
  BY DEF FillBestOrder
<1>5. Remaining[o] = order[o].remaining
  BY MappedState
<1>6. CASE /\ lots = order[o].remaining
           /\ Removes(order, order', o, p)
           /\ \A q \in Prices : QueueIn(slots', far', q) =
                IF q = p THEN Unlink(QueueIn(slots, far, p), o) ELSE QueueIn(slots, far, q)
  <2>1. Queues' = [Queues EXCEPT ![p] = Unlink(Queues[p], o)]
    <3>1. Queues' = [Queues EXCEPT ![p] = Unlink(QueueIn(slots, far, p), o)]
      BY <1>6, QueuesAre
    <3> QED BY <3>1, MappedState
  <2>2. Remaining' = [Remaining EXCEPT ![o] = 0]
    <3>1. order' = [order EXCEPT ![o] = NotResting] BY <1>6 DEF Removes
    <3>2. Remaining' = [Remaining EXCEPT ![o] = NotResting.remaining] BY <3>1, RemainingIs
    <3> QED BY <3>2 DEF NotResting
  <2>3. lots \in Nat /\ lots = Remaining[o] /\ Remaining[o] - lots = 0 /\ lots <= Remaining[o]
    BY <1>5, <1>6
  <2>4. Remaining' = [Remaining EXCEPT ![o] = Remaining[o] - lots]
    BY <2>2, <2>3
  <2>5. Abstract!Fill(p, lots)
    BY <1>2, <1>3, <1>4, <2>1, <2>3, <2>4, MappedStep, SameUnlink DEF Abstract!Fill
  <2> QED BY <2>5
<1>7. CASE /\ Fills(order, order', o, p, lots)
           /\ \A q \in Prices : QueueIn(slots', far', q) = QueueIn(slots, far, q)
  <2>1. Queues' = Queues
    <3>1. Queues' = [q \in Prices |-> QueueIn(slots', far', q)]
      BY DEF Queues, QueueIn, LevelIn
    <3> QED BY <1>7, <3>1 DEF Queues
  <2>2. /\ order' = [order EXCEPT ![o] = [order[o] EXCEPT !.remaining = @ - lots]]
        /\ lots < order[o].remaining /\ order[o] # NotResting
    BY <1>7 DEF Fills
  <2>3. order[o] \in RestingOrder /\ order[o].remaining \in Nat
    BY <2>2, IInvIs DEF OrdersOK, RestingOrder
  <2>4. Remaining' = [Remaining EXCEPT ![o] = Remaining[o] - lots]
    <3> DEFINE less == order[o].remaining - lots
               value == [order[o] EXCEPT !.remaining = less]
    <3>1. value.remaining = less
      <4> HIDE DEF less
      <4> QED BY <2>3 DEF RestingOrder
    <3> HIDE DEF value
    <3>2. Remaining' = [Remaining EXCEPT ![o] = value.remaining]
      <4>1. order' = [order EXCEPT ![o] = value] BY <2>2 DEF value
      <4> QED BY <4>1, RemainingIs
    <3> QED BY <1>5, <3>1, <3>2
  <2>5. lots # Remaining[o] /\ lots <= Remaining[o]
    BY <1>5, <2>2, <2>3
  <2>6. Abstract!Fill(p, lots)
    BY <1>2, <1>3, <1>4, <2>1, <2>4, <2>5, MappedStep DEF Abstract!Fill
  <2> QED BY <2>6
<1> QED BY <1>1, <1>6, <1>7

\* The ladder with its bitmap, the far map, the totals and the cached best level
\* together do what a queue at each price does: an order joins the back, a fill
\* takes from the front of the best queue, a removal keeps the others' places.
THEOREM SideBookImplementsPriceLevels == Spec => ImplementsPriceLevels
<1>1. Init => Abstract!Init
  <2> SUFFICES ASSUME Init PROVE Abstract!Init
    OBVIOUS
  <2>1. \A p \in Prices : GetLevel(p) = NoLevel
    BY SlotOfPrice DEF Init, GetLevel
  <2>2. \A o \in Orders : order[o].remaining = 0
    BY DEF Init, NotResting
  <2> QED BY <2>1, <2>2 DEF Init, Abstract!Init
<1>2. IInv /\ [Next]_vars => [Abstract!Next]_(Abstract!vars)
  <2> SUFFICES ASSUME IInv, [Next]_vars PROVE [Abstract!Next]_(Abstract!vars)
    OBVIOUS
  <2>1. CASE \E o \in Orders, p \in Prices, lots \in 1 .. MaxQuantity :
               InsertRestingOrder(o, p, lots)
    BY <2>1, InsertRefines DEF Abstract!Next
  <2>2. CASE \E o \in Orders : RemoveOrder(o)
    BY <2>2, RemoveRefines DEF Abstract!Next
  <2>3. CASE \E lots \in 1 .. MaxQuantity : FillBestOrder(lots)
    BY <2>3, FillRefines DEF Abstract!Next
  <2>4. CASE UNCHANGED vars
    <3>1. side' = side /\ slots' = slots /\ far' = far /\ order' = order
      BY <2>4 DEF vars, ladder
    <3>2. Queues' = Queues /\ Remaining' = Remaining
      BY <3>1 DEF Queues, QueueIn, LevelIn, Remaining
    <3> QED BY <3>1, <3>2, MappedStep DEF Abstract!vars
  <2> QED BY <2>1, <2>2, <2>3, <2>4 DEF Next
<1> QED BY <1>1, <1>2, SideBookInvariant, PTL DEF Spec, ImplementsPriceLevels, Abstract!Spec
=============================================================================
