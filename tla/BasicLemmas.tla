------------------------------ MODULE BasicLemmas ------------------------------
(***************************************************************************)
(* Facts the proofs share: induction over the natural numbers and over     *)
(* finite sets, sums over finite sets, least and greatest elements,        *)
(* division with remainder, and lists of orders.                           *)
(*                                                                         *)
(* SumFunction and SumFunctionOnSet fold with a recursive function that    *)
(* CHOOSEs its next element; the lemmas free a proof of that choice.       *)
(***************************************************************************)
EXTENDS Integers, Sequences, OrderList, FiniteSetsExt, FiniteSetTheorems, TLAPS

\* Induction over the natural numbers, with the induction hypothesis as a set.
LEMMA NaturalInduction ==
  ASSUME NEW N, 0 \in N, \A n \in Nat : n \in N => n + 1 \in N
  PROVE  Nat \subseteq N
<1> DEFINE Bad == Nat \ N
<1> SUFFICES ASSUME Bad # {} PROVE FALSE
  OBVIOUS
<1>1. PICK m \in Bad : \A n \in Bad : <<n, m>> \notin OpToRel(<, Nat)
  <2>1. Bad \subseteq Nat
    OBVIOUS
  <2> HIDE DEF Bad
  <2> QED BY <2>1, NatLessThanWellFounded, WFMin
<1>2. m # 0 /\ m - 1 \in Nat
  OBVIOUS
<1>3. <<m - 1, m>> \in OpToRel(<, Nat)
  BY <1>2 DEF OpToRel
<1>4. m - 1 \in N
  BY <1>1, <1>2, <1>3
<1> QED
  BY <1>2, <1>4

\* Induction over the subsets of a finite set, likewise.
LEMMA SetInduction ==
  ASSUME NEW S, IsFiniteSet(S), NEW F, {} \in F,
         \A T \in SUBSET S : \A x \in S \ T : T \in F => T \cup {x} \in F
  PROVE  S \in F
<1> DEFINE Bad == {T \in SUBSET S : T \notin F}
<1> SUFFICES ASSUME S \notin F PROVE FALSE
  OBVIOUS
<1>1. IsWellFoundedOn(StrictSubsetOrdering(S), SUBSET S)
  BY FS_StrictSubsetOrderingWellFounded, FS_FiniteSubsetsOfFinite
<1>2. PICK T \in Bad : \A U \in Bad : ~ <<U, T>> \in StrictSubsetOrdering(S)
  <2>1. Bad \subseteq SUBSET S /\ Bad # {}
    OBVIOUS
  <2> HIDE DEF Bad
  <2> QED BY <1>1, <2>1, WFMin
<1>3. PICK x \in T : TRUE
  OBVIOUS
<1>4. T \ {x} \in F
  <2>1. T \ {x} \in SUBSET S /\ T \in SUBSET S /\ T \ {x} # T
    BY <1>3
  <2>2. <<T \ {x}, T>> \in StrictSubsetOrdering(S)
    BY <2>1, Zenon DEF StrictSubsetOrdering
  <2> QED BY <1>2, <2>1, <2>2
<1>5. (T \ {x}) \cup {x} = T
  BY <1>3
<1> QED
  BY <1>3, <1>4, <1>5

\* The values of a function on a finite set are finitely many.
LEMMA ImageIsFinite ==
  ASSUME NEW S, IsFiniteSet(S), NEW fun
  PROVE  IsFiniteSet({fun[x] : x \in S})
<1> DEFINE Image(T) == {fun[x] : x \in T}
           F == {T \in SUBSET S : IsFiniteSet(Image(T))}
<1>1. {} \in F
  <2>1. Image({}) = {} OBVIOUS
  <2>2. IsFiniteSet(Image({})) BY <2>1, FS_EmptySet
  <2> QED BY <2>2
<1>2. ASSUME NEW T \in SUBSET S, NEW x \in S \ T, T \in F PROVE T \cup {x} \in F
  <2>1. Image(T \cup {x}) = Image(T) \cup {fun[x]} OBVIOUS
  <2>2. IsFiniteSet(Image(T)) BY <1>2
  <2> DEFINE old == Image(T)
             y == fun[x]
  <2>3. IsFiniteSet(old \cup {y})
    <3>1. IsFiniteSet(old) BY <2>2
    <3> HIDE DEF old, y
    <3> QED BY <3>1, FS_AddElement
  <2> QED BY <2>1, <2>3
<1>3. S \in F
  <2> HIDE DEF F
  <2> QED BY <1>1, <1>2, SetInduction
<1> QED BY <1>3

\* The recursion that a sum over S unfolds to.
Unfolds(g, fun, D) ==
  g = [s \in D |->
         IF s = {} THEN 0
         ELSE LET x == CHOOSE x \in s : TRUE IN fun[x] + g[s \ {x}]]

\* The definition of SumFunctionOnSet, unfolded to the function it chooses.
LEMMA SumIsChosen ==
  ASSUME NEW fun, NEW S
  PROVE  SumFunctionOnSet(fun, S) = (CHOOSE g : Unfolds(g, fun, SUBSET S))[S]
  BY DEF SumFunctionOnSet, FoldFunctionOnSet, MapThenFoldSet, Unfolds

\* On the subsets of a finite set that function exists.
LEMMA UnfoldingExists ==
  ASSUME NEW fun, NEW S, IsFiniteSet(S)
  PROVE  \E g : Unfolds(g, fun, SUBSET S)
<1> DEFINE Small(n) == {s \in SUBSET S : Cardinality(s) <= n}
           N == {n \in Nat : \E g : Unfolds(g, fun, Small(n))}
<1>0. \A s \in SUBSET S : IsFiniteSet(s) /\ Cardinality(s) \in Nat
  BY FS_Subset, FS_CardinalityType
<1>1. 0 \in N
  <2>1. \A s \in Small(0) : s = {}
    BY <1>0, FS_EmptySet
  <2>2. Unfolds([s \in Small(0) |-> 0], fun, Small(0))
    BY <2>1 DEF Unfolds
  <2> QED BY <2>2
<1>2. ASSUME NEW n \in Nat, n \in N PROVE n + 1 \in N
  <2>1. PICK g : Unfolds(g, fun, Small(n))
    BY <1>2
  <2> DEFINE Next(s) == IF s = {} THEN 0
                        ELSE LET x == CHOOSE x \in s : TRUE IN fun[x] + g[s \ {x}]
             h == [s \in Small(n + 1) |-> Next(s)]
  <2>2. \A s \in Small(n) : h[s] = g[s]
    <3> SUFFICES ASSUME NEW s \in Small(n) PROVE h[s] = g[s]
      OBVIOUS
    <3>1. s \in Small(n + 1)
      BY <1>0
    <3>2. h[s] = Next(s)
      BY <3>1
    <3>3. g[s] = Next(s)
      BY <2>1 DEF Unfolds
    <3> QED BY <3>2, <3>3
  <2>3. ASSUME NEW s \in Small(n + 1), NEW x \in s PROVE s \ {x} \in Small(n)
    <3>1. Cardinality(s \ {x}) = Cardinality(s) - 1
      BY <1>0, FS_RemoveElement
    <3> QED BY <1>0, <3>1
  <2>4. Unfolds(h, fun, Small(n + 1))
    <3> DEFINE Again(s) == IF s = {} THEN 0
                           ELSE LET x == CHOOSE x \in s : TRUE IN fun[x] + h[s \ {x}]
    <3>1. ASSUME NEW s \in Small(n + 1) PROVE Next(s) = Again(s)
      <4>1. CASE s = {} BY <4>1
      <4>2. CASE s # {}
        <5> DEFINE x == CHOOSE x \in s : TRUE
        <5>1. x \in s BY <4>2
        <5>2. s \ {x} \in Small(n) BY <2>3, <5>1
        <5>3. h[s \ {x}] = g[s \ {x}] BY <2>2, <5>2
        <5> HIDE DEF h, Small
        <5> QED BY <4>2, <5>3
      <4> QED BY <4>1, <4>2
    <3>2. h = [s \in Small(n + 1) |-> Again(s)]
      <4> HIDE DEF Small, Next, Again
      <4> QED BY <3>1
    <3> HIDE DEF h, Small
    <3> QED BY <3>2 DEF Unfolds
  <2> QED BY <2>4
<1>3. Nat \subseteq N
  <2> HIDE DEF N
  <2> QED BY <1>1, <1>2, NaturalInduction
<1>4. Small(Cardinality(S)) = SUBSET S
  BY <1>0, FS_Subset
<1>5. Cardinality(S) \in Nat
  BY FS_CardinalityType
<1> QED
  BY <1>3, <1>4, <1>5

\* Two such functions agree where the summands do, whatever sets they are defined on.
LEMMA UnfoldingsAgree ==
  ASSUME NEW fun, NEW gun, NEW S, IsFiniteSet(S), \A x \in S : fun[x] = gun[x],
         NEW g, NEW h, NEW D, SUBSET S \subseteq D,
         Unfolds(g, fun, D), Unfolds(h, gun, SUBSET S)
  PROVE  g[S] = h[S]
<1> DEFINE N == {n \in Nat : \A s \in SUBSET S : Cardinality(s) <= n => g[s] = h[s]}
<1>0. \A s \in SUBSET S : IsFiniteSet(s) /\ Cardinality(s) \in Nat
  BY FS_Subset, FS_CardinalityType
<1>1. g[{}] = 0 /\ h[{}] = 0
  BY DEF Unfolds
<1>2. 0 \in N
  <2>1. \A s \in SUBSET S : Cardinality(s) <= 0 => s = {} BY <1>0, FS_EmptySet
  <2> QED BY <1>1, <2>1
<1>3. ASSUME NEW n \in N PROVE n + 1 \in N
  <2> SUFFICES ASSUME NEW s \in SUBSET S, Cardinality(s) <= n + 1 PROVE g[s] = h[s]
    OBVIOUS
  <2>1. CASE s = {} BY <1>1, <2>1
  <2>2. CASE s # {}
    <3> DEFINE x == CHOOSE x \in s : TRUE
    <3>1. x \in s BY <2>2
    <3>2. Cardinality(s \ {x}) <= n /\ s \ {x} \in SUBSET S
      <4> HIDE DEF x
      <4>1. n \in Nat /\ IsFiniteSet(s) /\ Cardinality(s) \in Nat BY <1>0
      <4> HIDE DEF N
      <4>2. Cardinality(s \ {x}) = Cardinality(s) - 1 BY <3>1, <4>1, FS_RemoveElement
      <4> QED BY <4>1, <4>2
    <3>3. g[s \ {x}] = h[s \ {x}]
      <4> HIDE DEF x
      <4> QED BY <1>3, <3>2
    <3>4. g[s] = fun[x] + g[s \ {x}] BY <2>2 DEF Unfolds
    <3>5. h[s] = gun[x] + h[s \ {x}] BY <2>2 DEF Unfolds
    <3> QED BY <3>1, <3>3, <3>4, <3>5
  <2> QED BY <2>1, <2>2
<1>4. Nat \subseteq N
  <2> HIDE DEF N
  <2> QED BY <1>2, <1>3, NaturalInduction
<1> QED BY <1>0, <1>4

\* Hence the sum of a subset is read off any of them.
LEMMA SumUnfolds ==
  ASSUME NEW fun, NEW S, IsFiniteSet(S), NEW s \in SUBSET S, NEW g,
         Unfolds(g, fun, SUBSET S)
  PROVE  SumFunctionOnSet(fun, s) = g[s]
<1>1. IsFiniteSet(s) /\ SUBSET s \subseteq SUBSET S
  BY FS_Subset
<1>2. PICK h : h = CHOOSE k : Unfolds(k, fun, SUBSET s)
  OBVIOUS
<1>3. Unfolds(h, fun, SUBSET s)
  BY <1>1, <1>2, UnfoldingExists
<1>4. Unfolds(g, fun, SUBSET S)
  OBVIOUS
<1>5. g[s] = h[s]
  <2> DEFINE D == SUBSET S
  <2>1. SUBSET s \subseteq D /\ Unfolds(g, fun, D) BY <1>1, <1>4
  <2>2. \A x \in s : fun[x] = fun[x] OBVIOUS
  <2> HIDE DEF D
  <2> QED BY <1>1, <1>3, <2>1, <2>2, UnfoldingsAgree
<1> QED BY <1>2, <1>5, SumIsChosen

\* Two functions that agree on a set have the same sum over it.
LEMMA SumAgrees ==
  ASSUME NEW S, IsFiniteSet(S), NEW fun, NEW gun, \A x \in S : fun[x] = gun[x]
  PROVE  SumFunctionOnSet(fun, S) = SumFunctionOnSet(gun, S)
<1>1. PICK g : Unfolds(g, fun, SUBSET S) BY UnfoldingExists
<1>2. PICK h : Unfolds(h, gun, SUBSET S) BY UnfoldingExists
<1>3. g[S] = h[S] BY <1>1, <1>2, UnfoldingsAgree
<1>4. S \in SUBSET S OBVIOUS
<1>5. SumFunctionOnSet(fun, S) = g[S] BY <1>1, <1>4, SumUnfolds
<1>6. SumFunctionOnSet(gun, S) = h[S] BY <1>2, <1>4, SumUnfolds
<1> QED BY <1>3, <1>5, <1>6

\* The sum of nothing.
LEMMA SumEmpty == \A fun : SumFunctionOnSet(fun, {}) = 0
<1> SUFFICES ASSUME NEW fun PROVE SumFunctionOnSet(fun, {}) = 0 OBVIOUS
<1>1. IsFiniteSet({}) BY FS_EmptySet
<1>2. PICK g : Unfolds(g, fun, SUBSET {}) BY <1>1, UnfoldingExists
<1>3. g[{}] = 0 BY <1>2 DEF Unfolds
<1>4. {} \in SUBSET {} OBVIOUS
<1>5. SumFunctionOnSet(fun, {}) = g[{}] BY <1>1, <1>2, <1>4, SumUnfolds
<1> QED BY <1>3, <1>5

\* A sum is some summand and the sum of the others.
LEMMA SumOfChosen ==
  ASSUME NEW fun, NEW S, IsFiniteSet(S), S # {}
  PROVE  \E x \in S : SumFunctionOnSet(fun, S) = fun[x] + SumFunctionOnSet(fun, S \ {x})
<1>1. PICK g : Unfolds(g, fun, SUBSET S) BY UnfoldingExists
<1> DEFINE x == CHOOSE x \in S : TRUE
<1>2. g[S] = fun[x] + g[S \ {x}] BY <1>1 DEF Unfolds
<1>3. S \ {x} \in SUBSET S /\ S \in SUBSET S /\ x \in S OBVIOUS
<1>4. g[S] = SumFunctionOnSet(fun, S) /\ g[S \ {x}] = SumFunctionOnSet(fun, S \ {x})
  <2> HIDE DEF x
  <2> QED BY <1>1, <1>3, SumUnfolds
<1> QED BY <1>2, <1>3, <1>4

\* A sum of integers is an integer, and any element may be taken out of it.
LEMMA SumTakesOut ==
  ASSUME NEW S, IsFiniteSet(S), NEW fun, \A x \in S : fun[x] \in Int
  PROVE  /\ SumFunctionOnSet(fun, S) \in Int
         /\ \A x \in S : SumFunctionOnSet(fun, S) = fun[x] + SumFunctionOnSet(fun, S \ {x})
<1> DEFINE Sum(s) == SumFunctionOnSet(fun, s)
           Law(s) == Sum(s) \in Int /\ \A x \in s : Sum(s) = fun[x] + Sum(s \ {x})
           N == {n \in Nat : \A s \in SUBSET S : Cardinality(s) <= n => Law(s)}
<1>0. \A s \in SUBSET S : IsFiniteSet(s) /\ Cardinality(s) \in Nat
  BY FS_Subset, FS_CardinalityType
<1>1. Law({})
  BY SumEmpty
<1>2. 0 \in N
  <2> HIDE DEF Law
  <2> QED BY <1>0, <1>1, FS_EmptySet
<1>3. ASSUME NEW n \in N PROVE n + 1 \in N
  <2> SUFFICES ASSUME NEW s \in SUBSET S, Cardinality(s) <= n + 1, s # {} PROVE Law(s)
    <3> HIDE DEF Law
    <3> QED BY <1>1
  <2> n \in Nat OBVIOUS
  <2>0. \A x \in s : s \ {x} \in SUBSET S /\ Cardinality(s \ {x}) <= n
    <3> SUFFICES ASSUME NEW x \in s PROVE Cardinality(s \ {x}) <= n
      OBVIOUS
    <3>1. IsFiniteSet(s) /\ Cardinality(s) \in Nat BY <1>0
    <3> HIDE DEF N, Law
    <3>2. Cardinality(s \ {x}) = Cardinality(s) - 1 BY <3>1, FS_RemoveElement
    <3> QED BY <3>1, <3>2
  <2>1. \A x \in s : Law(s \ {x})
    <3> HIDE DEF Law
    <3> QED BY <1>3, <2>0
  <2>2. PICK y \in s : Sum(s) = fun[y] + Sum(s \ {y})
    BY <1>0, SumOfChosen
  <2>3. fun[y] \in Int /\ Sum(s \ {y}) \in Int BY <2>1, <2>2
  <2>4. ASSUME NEW x \in s, x # y PROVE Sum(s) = fun[x] + Sum(s \ {x})
    <3>1. Sum(s \ {y}) = fun[x] + Sum((s \ {y}) \ {x}) BY <2>1, <2>4
    <3>2. Sum(s \ {x}) = fun[y] + Sum((s \ {x}) \ {y}) BY <2>1, <2>4
    <3>3. (s \ {y}) \ {x} = (s \ {x}) \ {y} OBVIOUS
    <3>4. fun[x] \in Int OBVIOUS
    <3>5. Sum((s \ {x}) \ {y}) \in Int
      <4>1. Cardinality((s \ {x}) \ {y}) <= n
        <5>1. IsFiniteSet(s \ {x}) /\ y \in s \ {x} BY <1>0, <2>0, <2>4
        <5>2. Cardinality((s \ {x}) \ {y}) = Cardinality(s \ {x}) - 1
          <6> HIDE DEF N, Law, Sum
          <6> QED BY <5>1, FS_RemoveElement
        <5>3. Cardinality(s \ {x}) \in Nat BY <1>0, <2>0
        <5> HIDE DEF N, Law, Sum
        <5> QED BY <2>0, <5>2, <5>3
      <4>2. (s \ {x}) \ {y} \in SUBSET S OBVIOUS
      <4>3. Law((s \ {x}) \ {y})
        <5> HIDE DEF Law
        <5> QED BY <1>3, <4>1, <4>2
      <4> HIDE DEF Sum
      <4> QED BY <4>3
    <3>6. Sum((s \ {y}) \ {x}) = Sum((s \ {x}) \ {y}) BY <3>3
    <3> HIDE DEF Sum, N, Law
    <3> QED BY <2>2, <2>3, <3>1, <3>2, <3>4, <3>5, <3>6
  <2>5. \A x \in s : Sum(s) = fun[x] + Sum(s \ {x})
    <3> HIDE DEF Sum
    <3> QED BY <2>2, <2>4
  <2>6. Sum(s) \in Int
    <3> HIDE DEF Sum, N, Law
    <3> QED BY <2>2, <2>3
  <2> HIDE DEF Sum, N
  <2> QED BY <2>5, <2>6
<1>4. Nat \subseteq N
  <2> HIDE DEF N
  <2> QED BY <1>2, <1>3, NaturalInduction
<1> HIDE DEF Law
<1>5. Law(S) BY <1>0, <1>4
<1> QED BY <1>5 DEF Law

\* gun is fun with another value for u.
Updates(fun, gun, S, u) ==
  /\ u \in S
  /\ \A x \in S : fun[x] \in Int /\ gun[x] \in Int
  /\ \A x \in S \ {u} : gun[x] = fun[x]

\* One value changes: the sum changes by as much.
LEMMA SumOfUpdate ==
  ASSUME NEW S, IsFiniteSet(S), NEW fun, NEW gun, NEW u, Updates(fun, gun, S, u)
  PROVE  /\ SumFunctionOnSet(fun, S) \in Int
         /\ SumFunctionOnSet(gun, S) = SumFunctionOnSet(fun, S) - fun[u] + gun[u]
<1>0. /\ u \in S
      /\ \A x \in S : fun[x] \in Int
      /\ \A x \in S : gun[x] \in Int
      /\ \A x \in S \ {u} : gun[x] = fun[x]
  BY DEF Updates
<1>1. SumFunctionOnSet(gun, S) = gun[u] + SumFunctionOnSet(gun, S \ {u})
  BY <1>0, SumTakesOut
<1>2. SumFunctionOnSet(fun, S) = fun[u] + SumFunctionOnSet(fun, S \ {u})
  BY <1>0, SumTakesOut
<1>3. IsFiniteSet(S \ {u})
  BY FS_RemoveElement
<1>4. SumFunctionOnSet(gun, S \ {u}) = SumFunctionOnSet(fun, S \ {u})
  BY <1>0, <1>3, SumAgrees
<1>5. SumFunctionOnSet(fun, S \ {u}) \in Int
  BY <1>0, <1>3, SumTakesOut
<1>6. SumFunctionOnSet(fun, S) \in Int
  BY <1>0, SumTakesOut
<1> QED BY <1>0, <1>1, <1>2, <1>4, <1>5, <1>6

\* Two updates that take away and add the same leave the sum as it was.
LEMMA OpposedUpdates ==
  ASSUME NEW S, IsFiniteSet(S), NEW fun, NEW gun, NEW hun, NEW u, NEW v,
         Updates(fun, gun, S, u), Updates(gun, hun, S, v),
         NEW d \in Int, gun[u] = fun[u] - d, hun[v] = gun[v] + d
  PROVE  SumFunctionOnSet(hun, S) = SumFunctionOnSet(fun, S)
<1>1. /\ SumFunctionOnSet(fun, S) \in Int
      /\ SumFunctionOnSet(gun, S) = SumFunctionOnSet(fun, S) - fun[u] + gun[u]
  BY SumOfUpdate
<1>2. /\ SumFunctionOnSet(gun, S) \in Int
      /\ SumFunctionOnSet(hun, S) = SumFunctionOnSet(gun, S) - gun[v] + hun[v]
  BY SumOfUpdate
<1>3. fun[u] \in Int /\ gun[u] \in Int /\ gun[v] \in Int /\ hun[v] \in Int
  BY DEF Updates
<1> QED BY <1>1, <1>2, <1>3

\* A sum grows by the element that is added to the set.
LEMMA SumOfAdded ==
  ASSUME NEW S, IsFiniteSet(S), NEW x, x \notin S, NEW fun,
         \A y \in S \cup {x} : fun[y] \in Int
  PROVE  SumFunctionOnSet(fun, S \cup {x}) = SumFunctionOnSet(fun, S) + fun[x]
<1>1. IsFiniteSet(S \cup {x}) BY FS_AddElement
<1>2. (S \cup {x}) \ {x} = S OBVIOUS
<1>3. SumFunctionOnSet(fun, S) \in Int BY SumTakesOut
<1>4. SumFunctionOnSet(fun, S \cup {x}) = fun[x] + SumFunctionOnSet(fun, S)
  BY <1>1, <1>2, SumTakesOut
<1> QED BY <1>3, <1>4

\* A sum of zeros.
LEMMA SumOfZeros ==
  ASSUME NEW S, IsFiniteSet(S), NEW fun, \A x \in S : fun[x] = 0
  PROVE  SumFunctionOnSet(fun, S) = 0
<1> DEFINE F == {T \in SUBSET S : SumFunctionOnSet(fun, T) = 0}
<1>1. {} \in F BY SumEmpty
<1>2. ASSUME NEW T \in SUBSET S, NEW x \in S \ T, T \in F PROVE T \cup {x} \in F
  <2>1. IsFiniteSet(T) /\ x \notin T BY FS_Subset
  <2>2. \A y \in T \cup {x} : fun[y] \in Int OBVIOUS
  <2>3. SumFunctionOnSet(fun, T \cup {x}) = SumFunctionOnSet(fun, T) + fun[x]
    <3> HIDE DEF F
    <3> QED BY <2>1, <2>2, SumOfAdded
  <2> QED BY <1>2, <2>3
<1>3. S \in F
  <2> HIDE DEF F
  <2> QED BY <1>1, <1>2, SetInduction
<1> QED BY <1>3

\* A sum is that of the elements that are not zero.
LEMMA SumOfSupport ==
  ASSUME NEW S, IsFiniteSet(S), NEW T \in SUBSET S, NEW fun,
         \A x \in S : fun[x] \in Int, \A x \in S \ T : fun[x] = 0
  PROVE  SumFunctionOnSet(fun, S) = SumFunctionOnSet(fun, T)
<1> DEFINE F == {R \in SUBSET (S \ T) : SumFunctionOnSet(fun, T \cup R) = SumFunctionOnSet(fun, T)}
<1>1. {} \in F
  <2>1. T \cup {} = T OBVIOUS
  <2> QED BY <2>1
<1>2. ASSUME NEW R \in SUBSET (S \ T), NEW x \in (S \ T) \ R, R \in F
      PROVE  R \cup {x} \in F
  <2> DEFINE U == T \cup R
  <2>1. U \in SUBSET S /\ x \notin U /\ IsFiniteSet(U) /\ IsFiniteSet(T)
    BY FS_Subset
  <2>2. SumFunctionOnSet(fun, U) = SumFunctionOnSet(fun, T)
    BY <1>2
  <2>3. \A y \in U \cup {x} : fun[y] \in Int
    BY <2>1
  <2>4. T \cup (R \cup {x}) = U \cup {x}
    OBVIOUS
  <2> HIDE DEF U, F
  <2>5. SumFunctionOnSet(fun, U \cup {x}) = SumFunctionOnSet(fun, U) + fun[x]
    BY <2>1, <2>3, SumOfAdded
  <2>6. SumFunctionOnSet(fun, T) \in Int
    BY <2>1, SumTakesOut
  <2>7. SumFunctionOnSet(fun, T \cup (R \cup {x})) = SumFunctionOnSet(fun, T)
    <3>1. (S \ T) \ R \subseteq S \ T OBVIOUS
    <3>2. \A y \in S \ T : fun[y] = 0 OBVIOUS
    <3>3. fun[x] = 0 BY <3>1, <3>2
    <3> DEFINE sum == SumFunctionOnSet(fun, T)
               more == SumFunctionOnSet(fun, U \cup {x})
    <3>4. more = sum + 0 /\ sum \in Int BY <2>2, <2>5, <2>6, <3>3
    <3>5. SumFunctionOnSet(fun, T \cup (R \cup {x})) = more BY <2>4, Zenon
    <3> HIDE DEF sum, more
    <3>6. more = sum BY <3>4
    <3> QED BY <3>5, <3>6, Zenon DEF sum
  <2> QED BY <2>7 DEF F
<1>3. S \ T \in F
  <2>1. IsFiniteSet(S \ T) BY FS_Subset
  <2> HIDE DEF F
  <2> QED BY <1>1, <1>2, <2>1, SetInduction
<1>4. T \cup (S \ T) = S
  OBVIOUS
<1> QED BY <1>3, <1>4

\* A factor comes out of a sum.
LEMMA SumOfMultiples ==
  ASSUME NEW S, IsFiniteSet(S), NEW k \in Int, NEW fun, NEW gun,
         \A x \in S : fun[x] \in Int /\ gun[x] = k * fun[x]
  PROVE  SumFunctionOnSet(gun, S) = k * SumFunctionOnSet(fun, S)
<1> DEFINE F == {T \in SUBSET S : SumFunctionOnSet(gun, T) = k * SumFunctionOnSet(fun, T)}
<1>1. {} \in F
  BY SumEmpty
<1>2. ASSUME NEW T \in SUBSET S, NEW x \in S \ T, T \in F PROVE T \cup {x} \in F
  <2>1. IsFiniteSet(T) /\ x \notin T BY FS_Subset
  <2>2. /\ \A y \in T \cup {x} : fun[y] \in Int
        /\ \A y \in T \cup {x} : gun[y] \in Int
    OBVIOUS
  <2>3. SumFunctionOnSet(gun, T) = k * SumFunctionOnSet(fun, T)
    BY <1>2
  <2> HIDE DEF F
  <2>4. SumFunctionOnSet(fun, T \cup {x}) = SumFunctionOnSet(fun, T) + fun[x]
    BY <2>1, <2>2, SumOfAdded
  <2>5. SumFunctionOnSet(gun, T \cup {x}) = SumFunctionOnSet(gun, T) + gun[x]
    BY <2>1, <2>2, SumOfAdded
  <2>6. SumFunctionOnSet(fun, T) \in Int
    BY <2>1, <2>2, SumTakesOut
  <2>7. SumFunctionOnSet(gun, T \cup {x}) = k * SumFunctionOnSet(fun, T \cup {x})
    <3> DEFINE a == SumFunctionOnSet(fun, T)
               b == fun[x]
    <3>1. a \in Int /\ b \in Int /\ gun[x] = k * b BY <2>2, <2>6
    <3>2. SumFunctionOnSet(gun, T \cup {x}) = k * a + k * b BY <2>3, <2>5, <3>1
    <3>3. SumFunctionOnSet(fun, T \cup {x}) = a + b BY <2>4
    <3> HIDE DEF a, b
    <3>4. k * (a + b) = k * a + k * b BY <3>1
    <3> QED BY <3>2, <3>3, <3>4
  <2> QED BY <2>7 DEF F
<1>3. S \in F
  <2> HIDE DEF F
  <2> QED BY <1>1, <1>2, SetInduction
<1> QED BY <1>3

\* A sum of naturals is a natural, no less than any of its parts.
LEMMA SumOfNaturals ==
  ASSUME NEW S, IsFiniteSet(S), NEW fun, \A x \in S : fun[x] \in Nat
  PROVE  /\ SumFunctionOnSet(fun, S) \in Nat
         /\ \A x \in S : fun[x] <= SumFunctionOnSet(fun, S)
<1> DEFINE F == {T \in SUBSET S : SumFunctionOnSet(fun, T) \in Nat}
<1>1. {} \in F BY SumEmpty
<1>2. ASSUME NEW T \in SUBSET S, NEW x \in S \ T, T \in F PROVE T \cup {x} \in F
  <2>1. IsFiniteSet(T) /\ x \notin T BY FS_Subset
  <2>2. \A y \in T \cup {x} : fun[y] \in Int OBVIOUS
  <2>3. SumFunctionOnSet(fun, T \cup {x}) = SumFunctionOnSet(fun, T) + fun[x]
    <3> HIDE DEF F
    <3> QED BY <2>1, <2>2, SumOfAdded
  <2> QED BY <1>2, <2>3
<1>3. S \in F
  <2> HIDE DEF F
  <2> QED BY <1>1, <1>2, SetInduction
<1>4. ASSUME NEW x \in S PROVE fun[x] <= SumFunctionOnSet(fun, S)
  <2>1. S \ {x} \in F
    <3>1. IsFiniteSet(S \ {x}) BY FS_RemoveElement
    <3> DEFINE G == {T \in SUBSET (S \ {x}) : SumFunctionOnSet(fun, T) \in Nat}
    <3>2. {} \in G BY SumEmpty
    <3>3. \A T \in SUBSET (S \ {x}) : \A y \in (S \ {x}) \ T : T \in G => T \cup {y} \in G
      BY <1>2
    <3>4. S \ {x} \in G
      <4> HIDE DEF G
      <4> QED BY <3>1, <3>2, <3>3, SetInduction
    <3> QED BY <3>4
  <2>2. SumFunctionOnSet(fun, S) = fun[x] + SumFunctionOnSet(fun, S \ {x})
    BY SumTakesOut
  <2> QED BY <2>1, <2>2
<1> QED BY <1>3, <1>4

\* R is transitive on S and compares any two elements of it.
LinearOn(R, S) ==
  /\ \A x, y \in S : x # y => <<x, y>> \in R \/ <<y, x>> \in R
  /\ \A x, y, z \in S : <<x, y>> \in R /\ <<y, z>> \in R => <<x, z>> \in R

\* A finite set has a least element in such an order.
LEMMA LeastExists ==
  ASSUME NEW S, IsFiniteSet(S), S # {}, NEW R, LinearOn(R, S)
  PROVE  \E x \in S : \A y \in S \ {x} : <<x, y>> \in R
<1>0. /\ \A x, y \in S : x # y => <<x, y>> \in R \/ <<y, x>> \in R
      /\ \A x, y, z \in S : <<x, y>> \in R /\ <<y, z>> \in R => <<x, z>> \in R
  BY DEF LinearOn
<1> DEFINE Least(T, x) == x \in T /\ \A y \in T \ {x} : <<x, y>> \in R
           F == {T \in SUBSET S : T = {} \/ \E x \in T : Least(T, x)}
<1>1. {} \in F
  OBVIOUS
<1>2. ASSUME NEW T \in SUBSET S, NEW x \in S \ T, T \in F PROVE T \cup {x} \in F
  <2>1. CASE T = {}
    <3>1. Least(T \cup {x}, x) BY <2>1
    <3> HIDE DEF Least
    <3> QED BY <3>1
  <2>2. ASSUME NEW y \in T, Least(T, y) PROVE T \cup {x} \in F
    <3>1. Least(T \cup {x}, x) \/ Least(T \cup {x}, y)
      <4>1. CASE <<y, x>> \in R BY <2>2, <4>1
      <4>0. <<x, y>> \in R \/ <<y, x>> \in R BY <1>0, <2>2
      <4>2. CASE <<x, y>> \in R
        <5>1. \A z \in T : <<x, z>> \in R BY <1>0, <2>2, <4>2
        <5> QED BY <5>1
      <4> QED BY <4>0, <4>1, <4>2
    <3> HIDE DEF Least
    <3> QED BY <3>1
  <2> HIDE DEF Least
  <2> QED BY <1>2, <2>1, <2>2
<1>3. S \in F
  <2> HIDE DEF F
  <2> QED BY <1>1, <1>2, SetInduction
<1>4. PICK x \in S : Least(S, x)
  <2> HIDE DEF Least
  <2> QED BY <1>3
<1> QED BY <1>4

\* A nonempty set of natural numbers has a least element.
LEMMA LeastNatural ==
  ASSUME NEW S, S \subseteq Nat, S # {}
  PROVE  \E m \in S : \A n \in S : m <= n
<1>1. PICK m \in S : \A n \in S : <<n, m>> \notin OpToRel(<, Nat)
  BY NatLessThanWellFounded, WFMin
<1>2. \A n \in S : ~(n < m)
  BY <1>1 DEF OpToRel
<1> QED BY <1>2

\* The greatest element of a finite set of natural numbers.
LEMMA MaxExists ==
  ASSUME NEW S, IsFiniteSet(S), S # {}, S \subseteq Nat
  PROVE  Max(S) \in S /\ \A n \in S : n <= Max(S)
<1> DEFINE R == {p \in S \X S : p[1] > p[2]}
<1>0. \A x \in S : x \in Nat
  OBVIOUS
<1>1. ASSUME NEW x \in S, NEW y \in S PROVE <<x, y>> \in R <=> x > y
  OBVIOUS
<1> HIDE DEF R
<1>2. \A x, y \in S : x # y => <<x, y>> \in R \/ <<y, x>> \in R
  <2> TAKE x, y \in S
  <2>1. x \in Nat /\ y \in Nat BY <1>0
  <2>2. x # y => x > y \/ y > x BY <2>1
  <2> QED BY <1>1, <2>2
<1>3. \A x, y, z \in S : <<x, y>> \in R /\ <<y, z>> \in R => <<x, z>> \in R
  <2> TAKE x, y, z \in S
  <2>1. x \in Nat /\ y \in Nat /\ z \in Nat BY <1>0
  <2>2. x > y /\ y > z => x > z BY <2>1
  <2> QED BY <1>1, <2>2
<1>4. PICK x \in S : \A y \in S \ {x} : <<x, y>> \in R
  <2>1. LinearOn(R, S) BY <1>2, <1>3 DEF LinearOn
  <2> QED BY <2>1, LeastExists
<1>5. \A y \in S : x >= y
  <2> TAKE y \in S
  <2>1. x \in Nat /\ y \in Nat BY <1>0
  <2>2. y # x => x > y BY <1>1, <1>4
  <2> QED BY <2>1, <2>2
<1>6. \E z \in S : \A y \in S : z >= y
  BY <1>5
<1>7. Max(S) \in S /\ \A y \in S : Max(S) >= y
  BY <1>6, Zenon DEF Max
<1> QED
  <2> SUFFICES ASSUME NEW y \in S PROVE y <= Max(S) BY <1>7
  <2>1. Max(S) \in Nat /\ y \in Nat BY <1>0, <1>7
  <2> QED BY <1>7, <2>1

\* The least element of a nonempty set of natural numbers.
LEMMA MinExists ==
  ASSUME NEW S, S \subseteq Nat, S # {}
  PROVE  Min(S) \in S /\ \A n \in S : Min(S) <= n
<1>1. \E m \in S : \A n \in S : m <= n
  BY LeastNatural
<1> QED BY <1>1, Zenon DEF Min

(***************************************************************************)
(* Division with remainder.                                                *)
(***************************************************************************)

\* Quotient and remainder make up the dividend.
LEMMA DivisionLaw ==
  ASSUME NEW a \in Nat, NEW b \in Nat \ {0}, NEW d, NEW m, d = a \div b, m = a % b
  PROVE  d \in Int /\ m \in Int /\ d * b = a - m
<1>1. a \in Int /\ b \in Int /\ b > 0 /\ d \in Int /\ m \in Int
  OBVIOUS
<1> QED BY <1>1

\* The remainder is less than the divisor.
LEMMA RemainderLaw ==
  ASSUME NEW a \in Int, NEW b \in Nat \ {0}
  PROVE  a % b \in Nat /\ a % b < b
OBVIOUS

\* No other quotient and remainder do.
LEMMA DivisionIsUnique ==
  ASSUME NEW b \in Nat \ {0}, NEW d \in Nat, NEW m \in Nat, m < b,
         NEW a, a = d * b + m
  PROVE  a \div b = d /\ a % b = m
<1>1. d * b \in Nat
  OBVIOUS
<1>2. a \in Nat
  BY <1>1
<1> DEFINE e == a \div b
           n == a % b
<1>3. e \in Int /\ n \in Int /\ e * b = a - n
  BY <1>2, DivisionLaw
<1>4. n \in Nat /\ n < b
  BY <1>2, RemainderLaw
<1> HIDE DEF e, n
<1>5. (e - d) * b = m - n
  BY <1>1, <1>3, <1>4
<1>6. -b < m - n /\ m - n < b
  BY <1>4
<1>7. e - d = 0
  <2> DEFINE k == e - d
  <2>1. k \in Int BY <1>3
  <2>2. k >= 1 => k * b >= b
    <3> HIDE DEF k
    <3> QED BY <2>1
  <2>3. k <= -1 => k * b <= -b
    <3> HIDE DEF k
    <3> QED BY <2>1
  <2>4. k * b = m - n /\ k * b \in Int
    <3> HIDE DEF k
    <3>1. k * b \in Int BY <2>1
    <3> QED BY <1>5, <3>1 DEF k
  <2> HIDE DEF k
  <2>5. k = 0
    <3> DEFINE z == k * b
    <3>1. /\ k >= 1 => z >= b
          /\ k <= -1 => z <= -b
          /\ z = m - n /\ z \in Int
      BY <2>2, <2>3, <2>4
    <3> HIDE DEF z
    <3> QED BY <1>4, <2>1, <3>1
  <2> QED BY <2>5 DEF k
<1>8. m - n = 0
  BY <1>3, <1>5, <1>7
<1> QED BY <1>3, <1>4, <1>7, <1>8 DEF e, n

\* Numbers are ordered by their quotients first and their remainders next.
LEMMA DivisionOrder ==
  ASSUME NEW a \in Nat, NEW c \in Nat, NEW b \in Nat \ {0}
  PROVE  /\ a \div b \in Nat /\ c \div b \in Nat
         /\ a % b \in Nat /\ a % b < b /\ c % b \in Nat /\ c % b < b
         /\ a <= c <=> \/ a \div b < c \div b
                       \/ a \div b = c \div b /\ a % b <= c % b
         /\ a = c <=> a \div b = c \div b /\ a % b = c % b
<1> DEFINE d == a \div b
           m == a % b
           e == c \div b
           n == c % b
<1>1. d \in Nat /\ e \in Nat
  OBVIOUS
<1>2. /\ m \in Nat /\ m < b /\ d * b = a - m
      /\ n \in Nat /\ n < b /\ e * b = c - n
  BY DivisionLaw, RemainderLaw
<1> HIDE DEF d, m, e, n
<1>3. \A x, y \in Nat : x < y => x * b + b <= y * b
  <2>1. ASSUME NEW x \in Nat, NEW k \in Nat PROVE (x + 1 + k) * b >= x * b + b
    <3>1. (x + 1 + k) * b = x * b + b + k * b OBVIOUS
    <3>2. x * b \in Nat /\ k * b \in Nat OBVIOUS
    <3> QED BY <3>1, <3>2
  <2> TAKE x, y \in Nat
  <2> HAVE x < y
  <2> DEFINE k == y - x - 1
  <2>2. k \in Nat /\ y = x + 1 + k OBVIOUS
  <2> HIDE DEF k
  <2>3. y * b >= x * b + b BY <2>1, <2>2
  <2>4. x * b \in Nat /\ y * b \in Nat OBVIOUS
  <2> QED BY <2>3, <2>4
<1>4. d * b \in Nat /\ e * b \in Nat
  BY <1>1
<1> DEFINE x == d * b
           y == e * b
<1>5. /\ d < e => x + b <= y
      /\ e < d => y + b <= x
      /\ d = e => x = y
  BY <1>1, <1>3
<1>6. x \in Nat /\ y \in Nat /\ x = a - m /\ y = c - n
  BY <1>2, <1>4
<1> HIDE DEF x, y
<1>7. a <= c <=> (d < e \/ (d = e /\ m <= n))
  BY <1>1, <1>2, <1>5, <1>6
<1>8. a = c <=> (d = e /\ m = n)
  BY <1>1, <1>2, <1>5, <1>6
<1> QED BY <1>1, <1>2, <1>7, <1>8 DEF d, m, e, n

\* Dividing twice is dividing by the product.
LEMMA DivisionTwice ==
  ASSUME NEW a \in Nat, NEW b \in Nat \ {0}, NEW c \in Nat \ {0}, NEW bc, bc = b * c
  PROVE  bc \in Nat \ {0} /\ (a \div b) \div c = a \div bc
<1> DEFINE d == a \div b
           m == a % b
           e == d \div c
           n == d % c
<1>1. d \in Nat /\ d * b = a - m /\ m \in Nat /\ m < b
  BY DivisionLaw, RemainderLaw
<1> HIDE DEF d, m
<1>2. e \in Nat /\ e * c = d - n /\ n \in Nat /\ n < c
  BY <1>1, DivisionLaw, RemainderLaw
<1> HIDE DEF e, n
<1>3. bc \in Nat \ {0}
  OBVIOUS
<1>4. a = e * bc + (n * b + m)
  <2>1. e * bc = (e * c) * b BY <1>2
  <2>2. d = e * c + n BY <1>1, <1>2
  <2>3. d * b = (e * c) * b + n * b BY <1>1, <1>2, <2>2
  <2> DEFINE x == d * b
             y == (e * c) * b
             z == n * b
             w == e * bc
  <2>4. x \in Int /\ y \in Int /\ z \in Int /\ w \in Int BY <1>1, <1>2, <1>3
  <2>5. x = a - m /\ w = y /\ x = y + z BY <1>1, <2>1, <2>3
  <2> HIDE DEF x, y, z, w
  <2>6. a = w + (z + m) BY <1>1, <2>4, <2>5
  <2> QED BY <2>6 DEF z, w
<1>5. n * b + m \in Nat /\ n * b + m < bc
  <2> DEFINE k == c - 1 - n
  <2>1. k \in Nat /\ c = n + 1 + k BY <1>2
  <2> HIDE DEF k
  <2>2. bc = n * b + b + k * b BY <1>2, <2>1
  <2> DEFINE x == n * b
             y == k * b
  <2>3. x \in Nat /\ y \in Nat BY <1>2, <2>1
  <2>4. bc = x + b + y BY <2>2
  <2> HIDE DEF x, y
  <2>5. x + m \in Nat /\ x + m < bc BY <1>1, <2>3, <2>4
  <2> QED BY <2>5 DEF x
<1> DEFINE r == n * b + m
<1>6. r \in Nat /\ r < bc /\ a = e * bc + r
  BY <1>4, <1>5
<1> HIDE DEF r
<1>7. a \div bc = e
  BY <1>2, <1>3, <1>6, DivisionIsUnique
<1> QED BY <1>3, <1>7 DEF d, e

\* An index that runs past the end of a ring once starts again at its front.
LEMMA RingIndex ==
  ASSUME NEW b \in Nat \ {0}, NEW m \in Nat, m < b
  PROVE  m % b = m /\ (b + m) % b = m
<1>1. ASSUME NEW d \in Nat, NEW a, a = d * b + m PROVE a % b = m
  BY <1>1, DivisionIsUnique
<1>2. m = 0 * b + m /\ b + m = 1 * b + m
  OBVIOUS
<1>3. m % b = m
  BY <1>1, <1>2
<1>4. (b + m) % b = m
  BY <1>1, <1>2
<1> QED BY <1>3, <1>4

(***************************************************************************)
(* Lists of orders.                                                        *)
(***************************************************************************)

\* PriceLevel::push_back of an order that is not in the list yet.
LEMMA AppendList ==
  ASSUME NEW T, NEW S \in SUBSET T, NEW q \in Seq(T), NEW o \in T \ S,
         IsListOf(q, S)
  PROVE  /\ Append(q, o) \in Seq(T)
         /\ IsListOf(Append(q, o), S \cup {o})
<1>2. /\ Append(q, o) \in Seq(T)
      /\ Len(Append(q, o)) = Len(q) + 1
      /\ \A i \in 1 .. Len(q) : Append(q, o)[i] = q[i]
      /\ Append(q, o)[Len(q) + 1] = o
  OBVIOUS
<1>3. Len(q) \in Nat
  OBVIOUS
<1> QED BY <1>2, <1>3 DEF IsListOf

\* Unlinking an order of the list keeps the others, in their order.
LEMMA UnlinkList ==
  ASSUME NEW T, NEW S \in SUBSET T, NEW q \in Seq(T), NEW o \in S,
         IsListOf(q, S)
  PROVE  /\ Unlink(q, o) \in Seq(T)
         /\ IsListOf(Unlink(q, o), S \ {o})
<1> DEFINE k == Position(q, o)
<1>1. k \in 1 .. Len(q) /\ q[k] = o
  BY DEF IsListOf, Position
<1> HIDE DEF k
<1>2. Unlink(q, o) = [i \in 1 .. Len(q) - 1 |-> IF i < k THEN q[i] ELSE q[i + 1]]
  BY DEF Unlink, k
<1>3. Len(q) \in Nat /\ Len(q) - 1 \in Nat
  BY <1>1
<1>4. /\ Unlink(q, o) \in Seq(T)
      /\ Len(Unlink(q, o)) = Len(q) - 1
  BY <1>1, <1>2, <1>3
<1>5. ASSUME NEW i \in 1 .. Len(q) - 1
      PROVE  /\ i < k => Unlink(q, o)[i] = q[i]
             /\ ~(i < k) => Unlink(q, o)[i] = q[i + 1]
  BY <1>2
<1>6. \A i \in 1 .. Len(q) : i # k => q[i] \in S \ {o}
  BY <1>1 DEF IsListOf
<1>7. ASSUME NEW i \in 1 .. Len(q) - 1 PROVE Unlink(q, o)[i] \in S \ {o}
  <2>1. CASE i < k BY <1>1, <1>3, <1>5, <1>6, <2>1
  <2>2. CASE ~(i < k) BY <1>1, <1>3, <1>5, <1>6, <2>2
  <2> QED BY <2>1, <2>2
<1>8. ASSUME NEW i \in 1 .. Len(q) - 1, NEW j \in 1 .. Len(q) - 1,
             Unlink(q, o)[i] = Unlink(q, o)[j]
      PROVE  i = j
  BY <1>1, <1>3, <1>5, <1>8 DEF IsListOf
<1>9. ASSUME NEW x \in S \ {o} PROVE \E i \in 1 .. Len(q) - 1 : Unlink(q, o)[i] = x
  <2>1. PICK i \in 1 .. Len(q) : q[i] = x
    BY DEF IsListOf
  <2>2. i # k
    BY <1>1, <2>1
  <2>3. CASE i < k
    BY <1>1, <1>3, <1>5, <2>1, <2>3
  <2>4. CASE i > k
    <3>1. i - 1 \in 1 .. Len(q) - 1 /\ ~(i - 1 < k)
      BY <1>1, <1>3, <2>4
    <3>2. Unlink(q, o)[i - 1] = q[(i - 1) + 1]
      BY <1>5, <3>1
    <3> QED BY <2>1, <3>1, <3>2
  <2> QED BY <1>1, <2>2, <2>3, <2>4
<1> QED BY <1>4, <1>7, <1>8, <1>9 DEF IsListOf

\* The head of a nonempty list of S is in S; the list of an occupied set is
\* not empty.
LEMMA HeadOfList ==
  ASSUME NEW T, NEW S \in SUBSET T, NEW q \in Seq(T), IsListOf(q, S)
  PROVE  /\ q # <<>> => Head(q) \in S
         /\ S # {} => q # <<>>
<1>1. q # <<>> => Len(q) >= 1 /\ Head(q) = q[1]
  OBVIOUS
<1> QED BY <1>1 DEF IsListOf
=============================================================================
