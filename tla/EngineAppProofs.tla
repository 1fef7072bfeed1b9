--------------------------- MODULE EngineAppProofs ---------------------------
(***************************************************************************)
(* The workers of one process stay apart, and the process reports success  *)
(* only when all its work is done, for every markets file and every list   *)
(* of arguments.                                                           *)
(***************************************************************************)
EXTENDS EngineApp, SequenceTheorems, FunctionTheorems, BasicLemmas

(***************************************************************************)
(* The powers of the base, and the digits of a partition.                  *)
(***************************************************************************)

\* g holds the powers of the base up to the n-th.
PowersUpTo(g, n) ==
  /\ g \in [0 .. n -> Nat \ {0}]
  /\ g[0] = 1
  /\ \A i \in 1 .. n : g[i] = Base * g[i - 1]

\* The powers can be computed one by one.
LEMMA PowersExist == \A n \in Nat : \E g : PowersUpTo(g, n)
<1> DEFINE N == {n \in Nat : \E g : PowersUpTo(g, n)}
<1>1. 0 \in N
  <2>1. PowersUpTo([i \in 0 .. 0 |-> 1], 0) BY DEF PowersUpTo
  <2> QED BY <2>1
<1>2. ASSUME NEW n \in Nat, n \in N PROVE n + 1 \in N
  <2>1. PICK g : PowersUpTo(g, n) BY <1>2
  <2> DEFINE next == Base * g[n]
             h == [i \in 0 .. n + 1 |-> IF i = n + 1 THEN next ELSE g[i]]
  <2>2. g \in [0 .. n -> Nat \ {0}] /\ g[n] \in Nat \ {0} BY <2>1 DEF PowersUpTo
  <2>3. next \in Nat \ {0} BY <2>2, AppAssumption
  <2> HIDE DEF next
  <2>4. h \in [0 .. n + 1 -> Nat \ {0}] /\ h[0] = 1 BY <2>1, <2>2, <2>3 DEF PowersUpTo
  <2>5. ASSUME NEW i \in 1 .. n + 1 PROVE h[i] = Base * h[i - 1]
    <3>1. CASE i = n + 1 BY <3>1 DEF next
    <3>2. CASE i # n + 1 BY <2>1, <3>2 DEF PowersUpTo
    <3> QED BY <3>1, <3>2
  <2> HIDE DEF h
  <2> QED BY <2>4, <2>5 DEF PowersUpTo
<1> HIDE DEF N
<1>3. Nat \subseteq N
  BY <1>1, <1>2, NaturalInduction
<1> QED BY <1>3 DEF N

\* They are the same however far one computes.
LEMMA PowersAgree ==
  ASSUME NEW n \in Nat, NEW m \in Nat, n <= m, NEW g, NEW h,
         PowersUpTo(g, n), PowersUpTo(h, m)
  PROVE  \A i \in 0 .. n : g[i] = h[i]
<1> DEFINE N == {i \in Nat : i <= n => g[i] = h[i]}
<1>1. 0 \in N
  BY DEF PowersUpTo
<1>2. ASSUME NEW i \in Nat, i \in N PROVE i + 1 \in N
  <2>1. CASE i + 1 <= n
    <3>1. i + 1 \in 1 .. n /\ i + 1 \in 1 .. m /\ (i + 1) - 1 = i BY <2>1
    <3>2. g[i + 1] = Base * g[i] /\ h[i + 1] = Base * h[i] BY <3>1 DEF PowersUpTo
    <3>3. g[i] = h[i] BY <1>2, <2>1
    <3> QED BY <3>2, <3>3
  <2> QED BY <2>1
<1> HIDE DEF N
<1>3. Nat \subseteq N
  BY <1>1, <1>2, NaturalInduction
<1> QED BY <1>3 DEF N

\* Power computes them.
LEMMA PowerLaw ==
  /\ Power(0) = 1
  /\ \A n \in Nat : Power(n) \in Nat \ {0} /\ Power(n + 1) = Base * Power(n)
<1> DEFINE upTo(n) == CHOOSE g : PowersUpTo(g, n)
           f == [n \in Nat |-> upTo(n)[n]]
           IsPowers(p) == p = [i \in Nat |-> IF i = 0 THEN 1 ELSE Base * p[i - 1]]
<1>1. \A n \in Nat : PowersUpTo(upTo(n), n)
  BY PowersExist
<1> HIDE DEF upTo
<1>2. f[0] = 1
  BY <1>1 DEF PowersUpTo
<1>3. ASSUME NEW n \in Nat PROVE f[n + 1] = Base * f[n] /\ f[n] \in Nat \ {0}
  <2>1. PICK g : g = upTo(n) OBVIOUS
  <2>2. PICK h : h = upTo(n + 1) OBVIOUS
  <2>3. PowersUpTo(g, n) /\ PowersUpTo(h, n + 1) BY <1>1, <2>1, <2>2
  <2>4. n + 1 \in Nat /\ n <= n + 1 /\ n \in 0 .. n /\ n + 1 \in 1 .. n + 1 /\ (n + 1) - 1 = n
    OBVIOUS
  <2>5. g[n] = h[n] BY <2>3, <2>4, PowersAgree
  <2>6. h[n + 1] = Base * h[n] BY <2>3, <2>4 DEF PowersUpTo
  <2>7. g[n] \in Nat \ {0} BY <2>3, <2>4 DEF PowersUpTo
  <2>8. f[n] = g[n] /\ f[n + 1] = h[n + 1] BY <2>1, <2>2, <2>4
  <2> HIDE DEF f
  <2> QED BY <2>5, <2>6, <2>7, <2>8
<1>4. IsPowers(f)
  <2>1. ASSUME NEW i \in Nat PROVE f[i] = IF i = 0 THEN 1 ELSE Base * f[i - 1]
    <3>1. CASE i = 0 BY <1>2, <3>1
    <3>2. CASE i # 0
      <4>1. i - 1 \in Nat /\ (i - 1) + 1 = i BY <3>2
      <4> HIDE DEF f
      <4>2. f[(i - 1) + 1] = Base * f[i - 1] BY <1>3, <4>1
      <4> QED BY <3>2, <4>1, <4>2
    <3> QED BY <3>1, <3>2
  <2>2. f = [i \in Nat |-> f[i]] OBVIOUS
  <2> HIDE DEF f
  <2> QED BY <2>1, <2>2
<1>5. PICK p : p = CHOOSE q : IsPowers(q)
  OBVIOUS
<1>6. IsPowers(p)
  <2> HIDE DEF IsPowers, f
  <2> QED BY <1>4, <1>5
<1>7. \A n \in Nat : Power(n) = p[n]
  BY <1>5 DEF Power
<1>8. p[0] = 1
  BY <1>6
<1>9. ASSUME NEW n \in Nat PROVE p[n + 1] = Base * p[n]
  <2>1. n + 1 \in Nat /\ n + 1 # 0 /\ (n + 1) - 1 = n OBVIOUS
  <2> QED BY <1>6, <2>1
<1> DEFINE N == {n \in Nat : p[n] \in Nat \ {0}}
<1>10. Nat \subseteq N
  <2>1. 0 \in N BY <1>8
  <2>2. ASSUME NEW n \in Nat, n \in N PROVE n + 1 \in N
    <3> HIDE DEF IsPowers
    <3>1. p[n] \in Nat \ {0} /\ p[n + 1] = Base * p[n] BY <1>9, <2>2
    <3> DEFINE x == p[n]
               y == p[n + 1]
    <3>2. x \in Nat \ {0} /\ y = Base * x BY <3>1
    <3> HIDE DEF x, y
    <3>3. y \in Nat \ {0} BY <3>2, AppAssumption
    <3> QED BY <3>3 DEF y
  <2> HIDE DEF N
  <2> QED BY <2>1, <2>2, NaturalInduction
<1> HIDE DEF IsPowers
<1>11. \A n \in Nat : Power(n) \in Nat \ {0}
  BY <1>7, <1>10
<1>12. \A n \in Nat : Power(n + 1) = Base * Power(n)
  <2> SUFFICES ASSUME NEW n \in Nat PROVE Power(n + 1) = Base * Power(n) OBVIOUS
  <2>1. n + 1 \in Nat OBVIOUS
  <2>2. Power(n + 1) = p[n + 1] /\ Power(n) = p[n] BY <1>7, <2>1
  <2> QED BY <1>9, <2>2
<1> QED BY <1>7, <1>8, <1>11, <1>12

\* Two partitions with the same padded digits are the same.
LEMMA PaddedApart ==
  ASSUME NEW x \in Nat, NEW y \in Nat, x < Power(Width), y < Power(Width),
         Padded(x) = Padded(y)
  PROVE  x = y
<1>0. Width \in Nat /\ Base \in Nat \ {0}
  BY AppAssumption
<1> DEFINE Above(j) == x \div Power(Width - j) = y \div Power(Width - j)
           N == {j \in Nat : j <= Width => Above(j)}
<1>1. 0 \in N
  <2>1. Width - 0 = Width BY <1>0
  <2> DEFINE b == Power(Width)
  <2>2. b \in Nat \ {0} BY <1>0, PowerLaw
  <2>3. x < b /\ y < b OBVIOUS
  <2> HIDE DEF b
  <2>4. x = 0 * b + x /\ y = 0 * b + y BY <2>2
  <2>5. \A z \in Nat : z < b /\ z = 0 * b + z => z \div b = 0
    BY <2>2, DivisionIsUnique
  <2>6. x \div b = 0 /\ y \div b = 0 BY <2>3, <2>4, <2>5
  <2> QED BY <2>1, <2>6 DEF b
<1>2. ASSUME NEW j \in Nat, j \in N PROVE j + 1 \in N
  <2> SUFFICES ASSUME j + 1 <= Width PROVE Above(j + 1)
    OBVIOUS
  <2> DEFINE k == Width - (j + 1)
  <2>1. k \in Nat /\ Width - j = k + 1 /\ Width - k \in 1 .. Width /\ Width - (Width - k) = k
    BY <1>0
  <2>2. x \div Power(k + 1) = y \div Power(k + 1)
    <3> DEFINE t == Width - j
    <3>1. x \div Power(t) = y \div Power(t) BY <1>0, <1>2
    <3>2. t = k + 1 BY <2>1
    <3> HIDE DEF t, k
    <3> QED BY <3>1, <3>2
  <2> HIDE DEF k
  <2> DEFINE b == Power(k)
             c == Power(k + 1)
  <2>3. b \in Nat \ {0} /\ c = b * Base
    BY <1>0, <2>1, PowerLaw
  <2> HIDE DEF b, c
  <2>4. (x \div b) \div Base = x \div c /\ (y \div b) \div Base = y \div c
    <3>1. ASSUME NEW z \in Nat PROVE (z \div b) \div Base = z \div c
      <4> DEFINE base == Base
      <4>1. base \in Nat \ {0} /\ c = b * base BY <1>0, <2>3
      <4> HIDE DEF base
      <4>2. (z \div b) \div base = z \div c
        BY ONLY <4>1, <2>3, <3>1, DivisionTwice
      <4> QED BY <4>2 DEF base
    <3> QED BY <3>1
  <2>5. (x \div b) % Base = (y \div b) % Base
    <3>1. /\ Padded(x)[Width - k] = (x \div Power(Width - (Width - k))) % Base
          /\ Padded(y)[Width - k] = (y \div Power(Width - (Width - k))) % Base
      BY <2>1 DEF Padded
    <3> QED BY <2>1, <3>1 DEF b
  <2> DEFINE u == x \div b
             v == y \div b
  <2>6. u \in Nat /\ v \in Nat
    BY <2>3, DivisionOrder
  <2>7. u \div Base = v \div Base /\ u % Base = v % Base
    BY <2>2, <2>4, <2>5 DEF c
  <2> HIDE DEF u, v
  <2>8. u = v
    BY <1>0, <2>6, <2>7, DivisionOrder
  <2>9. x \div b = y \div b
    BY <2>8 DEF u, v
  <2> QED BY <2>9 DEF b, k
<1> HIDE DEF N
<1>3. Nat \subseteq N
  BY <1>1, <1>2, NaturalInduction
<1>4. Above(Width)
  BY <1>0, <1>3 DEF N
<1>5. Width - Width = 0
  BY <1>0
<1>6. x \div 1 = y \div 1
  BY <1>4, <1>5, PowerLaw
<1>7. x \div 1 = x /\ y \div 1 = y
  OBVIOUS
<1> QED BY <1>6, <1>7

(***************************************************************************)
(* The inductive invariant.                                                *)
(***************************************************************************)

\* What a key of a section may hold.
Settings == Int \cup Names \cup {"valid", "invalid", None, DefaultMarket.market_name}

\* A section being read.
Builders == {b \in [Keys -> Settings] : \A k \in Keys : b[k] \in Values(k) \cup {None}}

\* A market that was accepted.
Markets ==
  {m \in [Keys -> Settings] :
     /\ m.market_id \in Nat \ {0}
     /\ m.input_partition \in Nat
     /\ m.input_partition < Power(Width)}

\* Markets no two of which are alike in id, name or partition.
AllDiffer(markets) ==
  \A i, j \in DOMAIN markets :
    i # j => \A k \in Keys \ {"symbol"} : markets[i][k] # markets[j][k]

Threads ==
  [at : Started \cup {"failed", "ended"}, polls : Nat, firstTradeId : Nat]

Stages == {"parsing", "spawning", "joining", "unwinding", "exited"}

\* What the parser holds, at whatever line it is.
ParsingInv ==
  /\ config \in [markets : Seq(Markets), limit : PollLimits \cup {1, None}, once : BOOLEAN]
  /\ AllDiffer(config.markets)
  /\ file \in [current : Builders \cup {None}, markets : Seq(Markets),
               from : {"environment", "arguments"}]
  /\ AllDiffer(file.markets)

\* What the process holds.
AppTypes ==
  /\ main \in [stage : Stages, joined : Nat]
  /\ workers \in Seq(Threads)
  /\ stop \in BOOLEAN

\* main starts no thread before the parse has ended, none but for a market, and
\* has joined no thread that runs.
MainInv ==
  /\ main.stage = "parsing" => workers = <<>>
  /\ main.stage # "parsing" => phase \in {"ready", "help", "refused"}
  /\ Len(workers) <= Len(config.markets)
  /\ main.stage = "joining" => Len(workers) = Len(config.markets)
  /\ main.joined <= Len(workers)
  /\ \A w \in 1 .. main.joined : workers[w].at = "ended"

\* A worker that has trade ids has those of its market.
TradeIdsInv ==
  \A w \in DOMAIN workers :
    workers[w].firstTradeId # 0 =>
      /\ workers[w].firstTradeId = FirstTradeId(config.markets[w])
      /\ HasTradeIds(config.markets[w])

\* A worker ends after an error or at the limit.
EndInv ==
  /\ stop => errors # {}
  /\ \A w \in DOMAIN workers :
       /\ workers[w].at = "failed" => errors # {}
       /\ config.limit # None => workers[w].polls <= config.limit
       /\ errors = {} /\ workers[w].at = "ended" =>
            config.limit # None /\ workers[w].polls = config.limit

\* The process reports success at its end only, when all workers have ended.
ExitInv ==
  exit = "success" =>
    /\ main.stage = "exited"
    /\ phase = "ready" => /\ errors = {}
                          /\ Len(workers) = Len(config.markets)
                          /\ \A w \in DOMAIN workers : workers[w].at = "ended"

AppInv == AppTypes /\ MainInv /\ EndInv /\ ExitInv
IInv == ParsingInv /\ AppInv /\ TradeIdsInv

(***************************************************************************)
(* Trade ids.                                                              *)
(***************************************************************************)

\* The ids of a market that has some are not wrapped.
LEMMA TradeIdsDoNotWrap ==
  ASSUME NEW market \in Markets, HasTradeIds(market)
  PROVE  FirstTradeId(market) = market.market_id * Namespace + 1
<1> DEFINE id == market.market_id
           n == Namespace
           t == TradeIds
           a == t - 2
           d == a \div n
           first == id * n + 1
<1>1. id \in Nat \ {0} /\ id <= d
  BY DEF Markets, HasTradeIds
<1>2. n \in Nat \ {0} /\ t \in Nat \ {0} /\ a \in Int
  BY AppAssumption
<1>3. d \in Int /\ d * n <= a
  <2> HIDE DEF n, a
  <2>1. d \in Int /\ a % n \in Nat /\ d * n = a - (a % n)
    BY <1>2
  <2> HIDE DEF d
  <2> DEFINE m == a % n
             p == d * n
  <2>2. p \in Int BY <1>2, <2>1
  <2>3. m \in Nat /\ p = a - m BY <2>1
  <2> HIDE DEF m, p
  <2>4. p <= a BY <1>2, <2>2, <2>3
  <2> QED BY <2>1, <2>4 DEF p
<1>4. first \in Nat /\ first < t
  <2> HIDE DEF id, n, d, t
  <2>1. id * n \in Nat /\ id * n <= d * n /\ d * n \in Int
    BY <1>1, <1>2, <1>3
  <2> DEFINE p == id * n
             q == d * n
  <2>2. p \in Nat /\ p <= q /\ q \in Int /\ q <= t - 2 BY <1>3, <2>1
  <2> HIDE DEF p, q
  <2>3. p + 1 \in Nat /\ p + 1 < t BY <1>2, <2>2
  <2> QED BY <2>3 DEF p
<1>5. first % t = first
  <2> HIDE DEF first, t
  <2> QED BY <1>2, <1>4, RingIndex
<1> QED BY <1>5 DEF FirstTradeId

\* Two markets with other ids have no trade id in common.
LEMMA TradeIdsApart ==
  ASSUME NEW v \in Nat, NEW w \in Nat, v # w,
         NEW i \in 0 .. Namespace - 1, NEW j \in 0 .. Namespace - 1
  PROVE  (v * Namespace + 1) + i # (w * Namespace + 1) + j
<1> DEFINE n == Namespace
<1>1. n \in Nat \ {0} /\ i \in Nat /\ i < n /\ j \in Nat /\ j < n
  BY AppAssumption
<1>2. v * n \in Nat /\ w * n \in Nat
  BY <1>1
<1> SUFFICES ASSUME (v * n + 1) + i = (w * n + 1) + j PROVE FALSE
  OBVIOUS
<1> DEFINE p == v * n
           q == w * n
           a == p + i
<1>3. a = q + j
  <2>1. p \in Nat /\ q \in Nat /\ (p + 1) + i = (q + 1) + j BY <1>2
  <2> HIDE DEF p, q
  <2> QED BY <1>1, <2>1
<1>4. a = v * n + i /\ a = w * n + j
  BY <1>3
<1> HIDE DEF n, a
<1>5. a \div n = v
  BY <1>1, <1>4, DivisionIsUnique
<1>6. a \div n = w
  BY <1>1, <1>4, DivisionIsUnique
<1> QED BY <1>5, <1>6

\* What the invariant says of the workers.
LEMMA WorkersAreApart ==
  ASSUME IInv
  PROVE  WorkersApart
<1> USE DEF IInv, AppInv, AppTypes
<1> SUFFICES ASSUME NEW v \in DOMAIN workers, NEW w \in DOMAIN workers, v # w
             PROVE  LET one == config.markets[v]
                        two == config.markets[w]
                    IN  /\ one.market_id # two.market_id
                        /\ one.input_partition # two.input_partition
                        /\ CheckpointScope(one) # CheckpointScope(two)
                        /\ workers[v].firstTradeId # 0 /\ workers[w].firstTradeId # 0 =>
                             {workers[v].firstTradeId + i : i \in 0 .. Namespace - 1}
                               \cap {workers[w].firstTradeId + i : i \in 0 .. Namespace - 1}
                             = {}
  BY DEF WorkersApart
<1>1. PICK one : one = config.markets[v]
  OBVIOUS
<1>2. PICK two : two = config.markets[w]
  OBVIOUS
<1>3. /\ config.markets \in Seq(Markets)
      /\ v \in DOMAIN config.markets /\ w \in DOMAIN config.markets
  BY DEF ParsingInv, MainInv
<1>4. one \in Markets /\ two \in Markets
  BY <1>1, <1>2, <1>3
<1>5. one.market_id # two.market_id /\ one.input_partition # two.input_partition
  BY <1>1, <1>2, <1>3 DEF ParsingInv, AllDiffer, Keys
<1>6. CheckpointScope(one) # CheckpointScope(two)
  BY <1>4, <1>5, PaddedApart DEF CheckpointScope, Markets
<1>7. ASSUME workers[v].firstTradeId # 0, workers[w].firstTradeId # 0
      PROVE  {workers[v].firstTradeId + i : i \in 0 .. Namespace - 1}
               \cap {workers[w].firstTradeId + i : i \in 0 .. Namespace - 1} = {}
  <2>1. /\ workers[v].firstTradeId = one.market_id * Namespace + 1
        /\ workers[w].firstTradeId = two.market_id * Namespace + 1
    BY <1>1, <1>2, <1>4, <1>7, TradeIdsDoNotWrap DEF TradeIdsInv
  <2>2. one.market_id \in Nat /\ two.market_id \in Nat
    BY <1>4 DEF Markets
  <2> DEFINE x == workers[v].firstTradeId
             y == workers[w].firstTradeId
             a == one.market_id
             b == two.market_id
  <2>3. x = a * Namespace + 1 /\ y = b * Namespace + 1 /\ a \in Nat /\ b \in Nat /\ a # b
    BY <1>5, <2>1, <2>2
  <2> HIDE DEF x, y, a, b
  <2>4. \A i, j \in 0 .. Namespace - 1 : x + i # y + j
    BY <2>3, TradeIdsApart
  <2>5. {x + i : i \in 0 .. Namespace - 1} \cap {y + i : i \in 0 .. Namespace - 1} = {}
    BY <2>4
  <2> QED BY <2>5 DEF x, y
<1> QED BY <1>1, <1>2, <1>5, <1>6, <1>7

(***************************************************************************)
(* The parser.                                                             *)
(***************************************************************************)

\* A market that append_market_config takes differs from those before it.
LEMMA MarketAdded ==
  ASSUME NEW markets \in Seq(Markets), AllDiffer(markets),
         NEW builder \in Builders, Appends(builder, markets)
  PROVE  /\ builder \in Markets
         /\ Append(markets, builder) \in Seq(Markets)
         /\ AllDiffer(Append(markets, builder))
<1>1. builder \in Markets
  <2>1. "input_partition" \in Keys /\ "market_id" \in Keys
    BY DEF Keys
  <2>2. builder["input_partition"] \in Partitions
    BY <2>1 DEF Builders, Values, Appends, Builds
  <2>3. builder["market_id"] \in 1 .. MaxSymbolId /\ builder["input_partition"] >= 0
    BY DEF Appends, Builds
  <2>4. builder["market_id"] \in Nat \ {0}
    BY <2>3, ConfigAssumption
  <2>5. builder["input_partition"] \in Nat /\ builder["input_partition"] < Power(Width)
    <3>1. PICK partition \in Partitions : partition = builder["input_partition"] BY <2>2
    <3>2. partition \in Nat BY <2>3, <3>1, ConfigAssumption
    <3>3. partition < Power(Width) BY <3>1, ScopeAssumption, Zenon
    <3> QED BY <3>1, <3>2, <3>3, Zenon
  <2> QED BY <2>4, <2>5 DEF Builders, Markets
<1>2. PICK q : q = Append(markets, builder)
  OBVIOUS
<1>3. /\ q \in Seq(Markets) /\ Len(q) = Len(markets) + 1
      /\ \A i \in 1 .. Len(markets) : q[i] = markets[i]
      /\ q[Len(markets) + 1] = builder
  BY <1>1, <1>2
<1>4. ASSUME NEW i \in DOMAIN q, NEW j \in DOMAIN q, i # j, NEW k \in Keys \ {"symbol"}
      PROVE  q[i][k] # q[j][k]
  <2>1. \A n \in DOMAIN markets : markets[n][k] # builder[k]
    BY DEF Appends
  <2>2. CASE i \in DOMAIN markets /\ j \in DOMAIN markets
    BY <1>3, <1>4, <2>2 DEF AllDiffer
  <2>3. CASE i \in DOMAIN markets /\ j \notin DOMAIN markets
    BY <1>3, <1>4, <2>1, <2>3
  <2>4. CASE i \notin DOMAIN markets /\ j \in DOMAIN markets
    BY <1>3, <1>4, <2>1, <2>4
  <2>5. CASE i \notin DOMAIN markets /\ j \notin DOMAIN markets
    BY <1>3, <1>4, <2>5
  <2> QED BY <2>2, <2>3, <2>4, <2>5
<1> QED BY <1>1, <1>2, <1>3, <1>4 DEF AllDiffer

\* The markets of a file that is accepted.
LEMMA LoadedDiffer ==
  ASSUME ParsingInv, file.current # None => Appends(file.current, file.markets)
  PROVE  Loaded \in Seq(Markets) /\ AllDiffer(Loaded)
<1>1. file.markets \in Seq(Markets) /\ AllDiffer(file.markets)
  BY DEF ParsingInv
<1>2. CASE file.current = None
  <2>1. Loaded = file.markets BY <1>1, <1>2 DEF Loaded
  <2> QED BY <1>1, <2>1
<1>3. CASE file.current # None
  <2>1. file.current \in Builders BY <1>3 DEF ParsingInv
  <2>2. /\ file.current \in Markets
        /\ Append(file.markets, file.current) \in Seq(Markets)
        /\ AllDiffer(Append(file.markets, file.current))
    BY <1>1, <1>3, <2>1, MarketAdded
  <2>3. Loaded = Append(file.markets, file.current)
    BY <1>1, <1>3, <2>2, AppendIsConcat DEF Loaded
  <2> QED BY <2>2, <2>3
<1> QED BY <1>2, <1>3

\* A file just opened.
LEMMA OpenedFile ==
  ASSUME NEW from \in {"environment", "arguments"},
         file' = [current |-> None, markets |-> <<>>, from |-> from]
  PROVE  /\ file' \in [current : Builders \cup {None}, markets : Seq(Markets),
                       from : {"environment", "arguments"}]
         /\ AllDiffer(file'.markets)
<1>1. <<>> \in Seq(Markets) /\ AllDiffer(<<>>)
  BY DEF AllDiffer
<1> QED BY <1>1

\* What reading a line does to the parser's state.
LEMMA ReadLineKeeps ==
  ASSUME ParsingInv, NEW line \in Lines, ReadLine(line)
  PROVE  ParsingInv'
<1>0. file.markets \in Seq(Markets) /\ AllDiffer(file.markets)
  BY DEF ParsingInv
<1>1. CASE Comment(line)
  BY <1>1 DEF ParsingInv, Comment
<1>2. CASE line.kind = "malformed" /\ Refuse
  BY <1>2 DEF ParsingInv, Refuse
<1>3. CASE Section(line)
  <2>0. EmptyBuilder \in Builders
    BY DEF EmptyBuilder, Builders, Settings
  <2>1. CASE Refuse BY <2>1 DEF ParsingInv, Refuse
  <2>2. CASE file' = [file EXCEPT !.current = EmptyBuilder] /\ UNCHANGED config
    BY <2>0, <2>2 DEF ParsingInv
  <2>3. CASE /\ file.current # None
             /\ Appends(file.current, file.markets)
             /\ file' = [file EXCEPT !.current = EmptyBuilder,
                                     !.markets = Append(@, file.current)]
             /\ UNCHANGED config
    <3>1. file.current \in Builders BY <2>3 DEF ParsingInv
    <3>2. /\ Append(file.markets, file.current) \in Seq(Markets)
          /\ AllDiffer(Append(file.markets, file.current))
      BY <1>0, <2>3, <3>1, MarketAdded
    <3> QED BY <2>0, <2>3, <3>2 DEF ParsingInv
  <2> QED BY <1>3, <2>1, <2>2, <2>3 DEF Section
<1>4. CASE Pair(line)
  <2>1. CASE Refuse BY <2>1 DEF ParsingInv, Refuse
  <2>2. CASE /\ file.current # None
             /\ file' = [file EXCEPT !.current[line.key] = line.value]
             /\ UNCHANGED config
    <3>1. line.key \in Keys /\ line.value \in Values(line.key)
      BY <1>4 DEF Pair, Lines, Pairs
    <3>2. line.value \in Settings
      BY <3>1, ConfigAssumption DEF Values, Settings, Keys
    <3> DEFINE b == file.current
               c == [b EXCEPT ![line.key] = line.value]
    <3>3. b \in Builders BY <2>2 DEF ParsingInv
    <3>4. c \in Builders
      <4>1. PICK key : key = line.key OBVIOUS
      <4>2. PICK value : value = line.value OBVIOUS
      <4>3. c = [b EXCEPT ![key] = value] BY <4>1, <4>2
      <4>4. key \in Keys /\ value \in Values(key) /\ value \in Settings
        BY <3>1, <3>2, <4>1, <4>2
      <4> HIDE DEF b, c
      <4>5. c \in [Keys -> Settings] BY <3>3, <4>3, <4>4 DEF Builders
      <4>6. \A k \in Keys : c[k] \in Values(k) \cup {None}
        BY <3>3, <4>3, <4>4 DEF Builders
      <4> QED BY <4>5, <4>6 DEF Builders
    <3>5. file' = [file EXCEPT !.current = c]
      BY <2>2 DEF ParsingInv
    <3> HIDE DEF b, c
    <3> QED BY <2>2, <3>4, <3>5 DEF ParsingInv
  <2> QED BY <1>4, <2>1, <2>2 DEF Pair
<1> QED BY <1>1, <1>2, <1>3, <1>4 DEF ReadLine

\* What an argument does to the parser's state.
LEMMA ArgumentKeeps ==
  ASSUME ParsingInv, NEW a \in Arguments, Argument(a)
  PROVE  ParsingInv'
<1>0. phase = "arguments"
  BY DEF Argument
<1>1. CASE a.option = "markets"
  <2>1. CASE CannotOpen BY <2>1 DEF CannotOpen, Refuse, ParsingInv
  <2>2. CASE OpenFile /\ UNCHANGED config
    <3>1. file' = [current |-> None, markets |-> <<>>, from |-> phase]
      BY <2>2 DEF OpenFile
    <3> QED BY <1>0, <2>2, <3>1, OpenedFile DEF ParsingInv
  <2> QED BY <1>1, <2>1, <2>2 DEF Argument
<1>2. CASE a.option = "invalid"
  BY <1>2 DEF Argument, Refuse, ParsingInv
<1>3. CASE a.option \notin {"markets", "invalid"}
  <2>1. file' = file
    BY <1>3 DEF Argument
  <2>2. \/ UNCHANGED config
        \/ a.option = "once" /\ config' = [config EXCEPT !.once = TRUE, !.limit = 1]
        \/ a.option = "limit" /\ SetLimit(a.limit)
    BY <1>3 DEF Argument
  <2>3. CASE UNCHANGED config
    BY <2>1, <2>3 DEF ParsingInv
  <2>4. CASE a.option = "once" /\ config' = [config EXCEPT !.once = TRUE, !.limit = 1]
    BY <2>1, <2>4 DEF ParsingInv
  <2>5. CASE a.option = "limit" /\ SetLimit(a.limit)
    <3>1. a.limit \in PollLimits BY <2>5 DEF Arguments
    <3> QED BY <2>1, <2>5, <3>1 DEF ParsingInv, SetLimit
  <2> QED BY <2>2, <2>3, <2>4, <2>5
<1> QED BY <1>1, <1>2, <1>3

\* What the parser does preserves what it holds.
LEMMA ParseKeeps ==
  ASSUME ParsingInv, Parse
  PROVE  ParsingInv'
<1>1. CASE Environment
  <2>1. CASE Refuse BY <2>1 DEF Refuse, ParsingInv
  <2>2. ASSUME NEW limit \in PollLimits \cup {None},
               config' = [config EXCEPT !.limit = limit],
               \/ UNCHANGED file
               \/ file' = [current |-> None, markets |-> <<>>, from |-> "arguments"]
        PROVE  ParsingInv'
    <3>1. /\ config' \in [markets : Seq(Markets), limit : PollLimits \cup {1, None},
                          once : BOOLEAN]
          /\ config'.markets = config.markets
      BY <2>2 DEF ParsingInv
    <3>2. CASE UNCHANGED file BY <3>1, <3>2 DEF ParsingInv
    <3>3. CASE file' = [current |-> None, markets |-> <<>>, from |-> "arguments"]
      BY <3>1, <3>3, OpenedFile DEF ParsingInv
    <3> QED BY <2>2, <3>2, <3>3
  <2> QED BY <1>1, <2>1, <2>2 DEF Environment
<1>2. CASE \E a \in Arguments : Argument(a)
  BY <1>2, ArgumentKeeps
<1>3. CASE \E line \in Lines : ReadLine(line)
  BY <1>3, ReadLineKeeps
<1>4. CASE EndOfFile
  <2>1. CASE Refuse BY <2>1 DEF Refuse, ParsingInv
  <2>2. CASE /\ file.current # None => Appends(file.current, file.markets)
             /\ config' = [config EXCEPT !.markets = Loaded]
             /\ UNCHANGED file
    <3>1. Loaded \in Seq(Markets) /\ AllDiffer(Loaded) BY <2>2, LoadedDiffer
    <3> QED BY <2>2, <3>1 DEF ParsingInv
  <2> QED BY <1>4, <2>1, <2>2 DEF EndOfFile
<1>5. CASE EndOfArguments
  BY <1>5 DEF EndOfArguments, ParsingInv
<1> QED BY <1>1, <1>2, <1>3, <1>4, <1>5 DEF Parse

(***************************************************************************)
(* The worker threads.                                                     *)
(***************************************************************************)

\* What a step of worker w leaves alone, and what it may make of the worker.
StepsTo(w, t) ==
  /\ UNCHANGED <<phase, config, file, main, exit>>
  /\ workers' = [workers EXCEPT ![w] = t]
  /\ workers[w].at # "ended"
  /\ t \in Threads

\* The errors and the flag go on saying what they said.
Reports(w, t) ==
  /\ stop' \in BOOLEAN
  /\ errors # {} => errors' # {}
  /\ stop' => errors' # {}
  /\ t.at = "failed" => errors' # {}
  /\ errors' = {} /\ t.at = "ended" => config.limit # None /\ t.polls = config.limit

\* The polls stay within the limit, the trade ids those of the market.
Counts(w, t) ==
  /\ config.limit # None => t.polls <= config.limit
  /\ \/ t.firstTradeId = workers[w].firstTradeId
     \/ /\ t.firstTradeId = FirstTradeId(config.markets[w])
        /\ HasTradeIds(config.markets[w])

\* A step of one worker keeps the invariant when these hold of it.
LEMMA WorkerStep ==
  ASSUME IInv, NEW w \in DOMAIN workers, NEW t,
         StepsTo(w, t), Reports(w, t), Counts(w, t)
  PROVE  IInv'
<1>1. /\ workers \in Seq(Threads) /\ w \in 1 .. Len(workers)
      /\ phase' = phase /\ config' = config /\ file' = file /\ main' = main /\ exit' = exit
      /\ workers' = [workers EXCEPT ![w] = t] /\ t \in Threads
  BY DEF IInv, AppInv, AppTypes, StepsTo
<1>2. /\ workers' \in Seq(Threads) /\ Len(workers') = Len(workers)
      /\ DOMAIN workers' = DOMAIN workers
      /\ workers'[w] = t
      /\ \A v \in DOMAIN workers : v # w => workers'[v] = workers[v]
  BY <1>1
<1>3. ParsingInv'
  BY <1>1 DEF IInv, ParsingInv
<1>4. AppTypes'
  BY <1>1, <1>2 DEF IInv, AppInv, AppTypes, Reports
<1>5. MainInv'
  <2>1. ASSUME NEW v \in 1 .. main.joined PROVE workers'[v].at = "ended"
    <3>1. workers[v].at = "ended" /\ main.joined \in Nat /\ main.joined <= Len(workers)
      BY DEF IInv, AppInv, AppTypes, MainInv
    <3>2. v # w BY <3>1 DEF StepsTo
    <3>3. v \in DOMAIN workers BY <1>1, <3>1
    <3> QED BY <1>2, <3>1, <3>2, <3>3
  <2>2. workers # <<>> BY <1>1
  <2> QED BY <1>1, <1>2, <2>1, <2>2 DEF IInv, AppInv, MainInv
<1>6. TradeIdsInv'
  <2> SUFFICES ASSUME NEW v \in DOMAIN workers, workers'[v].firstTradeId # 0
               PROVE  /\ workers'[v].firstTradeId = FirstTradeId(config.markets[v])
                      /\ HasTradeIds(config.markets[v])
    BY <1>1, <1>2 DEF TradeIdsInv, FirstTradeId, HasTradeIds
  <2>1. workers[v].firstTradeId # 0 => /\ workers[v].firstTradeId = FirstTradeId(config.markets[v])
                                       /\ HasTradeIds(config.markets[v])
    BY DEF IInv, TradeIdsInv
  <2>2. CASE v = w BY <1>2, <2>1, <2>2 DEF Counts
  <2>3. CASE v # w BY <1>2, <2>1, <2>3
  <2> QED BY <2>2, <2>3
<1>7. EndInv'
  <2>1. (errors # {} => errors' # {}) /\ (stop' => errors' # {})
    BY DEF Reports
  <2>2. ASSUME NEW v \in DOMAIN workers
        PROVE  /\ workers'[v].at = "failed" => errors' # {}
               /\ config.limit # None => workers'[v].polls <= config.limit
               /\ errors' = {} /\ workers'[v].at = "ended" =>
                    config.limit # None /\ workers'[v].polls = config.limit
    <3>1. CASE v = w BY <1>2, <3>1 DEF Reports, Counts
    <3>2. CASE v # w
      <4>1. workers'[v] = workers[v] BY <1>2, <3>2
      <4>2. /\ workers[v].at = "failed" => errors # {}
            /\ config.limit # None => workers[v].polls <= config.limit
            /\ errors = {} /\ workers[v].at = "ended" =>
                 config.limit # None /\ workers[v].polls = config.limit
        BY DEF IInv, AppInv, EndInv
      <4> QED BY <2>1, <4>1, <4>2
    <3> QED BY <3>1, <3>2
  <2> QED BY <1>1, <1>2, <2>1, <2>2 DEF EndInv
<1>8. ExitInv'
  <2>1. exit = "success" => phase # "ready"
    BY DEF IInv, AppInv, ExitInv, StepsTo
  <2> QED BY <1>1, <2>1 DEF IInv, AppInv, ExitInv
<1> QED BY <1>3, <1>4, <1>5, <1>6, <1>7, <1>8 DEF IInv, AppInv

\* A worker between two steps.
LEMMA ThreadFields ==
  ASSUME IInv, NEW w \in DOMAIN workers, NEW t, t = workers[w]
  PROVE  /\ t \in Threads
         /\ t = [at |-> t.at, polls |-> t.polls, firstTradeId |-> t.firstTradeId]
         /\ stop \in BOOLEAN /\ (stop => errors # {})
         /\ t.at = "failed" => errors # {}
         /\ config.limit # None => t.polls <= config.limit
         /\ config.limit # None => config.limit \in Nat \ {0}
         /\ t.polls \in Nat /\ t.firstTradeId \in Nat
         /\ w \in DOMAIN config.markets /\ config.markets[w] \in Markets
<1>1. t \in Threads /\ stop \in BOOLEAN
  BY DEF IInv, AppInv, AppTypes
<1>2. /\ stop => errors # {}
      /\ t.at = "failed" => errors # {}
      /\ config.limit # None => t.polls <= config.limit
  BY DEF IInv, AppInv, EndInv
<1>3. config.limit # None => config.limit \in Nat \ {0}
  <2>1. PICK limit \in PollLimits \cup {1, None} : limit = config.limit
    BY DEF IInv, ParsingInv
  <2>2. limit # None => limit \in Nat \ {0} BY ConfigAssumption
  <2> QED BY <2>1, <2>2
<1>4. w \in DOMAIN config.markets /\ config.markets[w] \in Markets
  <2>1. config.markets \in Seq(Markets) /\ workers \in Seq(Threads)
    BY DEF IInv, ParsingInv, AppInv, AppTypes
  <2>2. Len(workers) <= Len(config.markets)
    BY DEF IInv, AppInv, MainInv
  <2> QED BY <2>1, <2>2
<1> QED BY <1>1, <1>2, <1>3, <1>4 DEF Threads

\* Two fields of a thread change.
LEMMA TwoFieldsChange ==
  ASSUME NEW t \in Threads, NEW x, NEW y
  PROVE  [[t EXCEPT !.at = x] EXCEPT !.firstTradeId = y]
           = [at |-> x, polls |-> t.polls, firstTradeId |-> y]
<1>1. PICK at, polls, id : t = [at |-> at, polls |-> polls, firstTradeId |-> id]
  BY DEF Threads
<1>2. PICK s : s = [t EXCEPT !.at = x]
  OBVIOUS
<1>3. s = [at |-> x, polls |-> polls, firstTradeId |-> id]
  BY <1>1, <1>2
<1>4. [s EXCEPT !.firstTradeId = y] = [at |-> x, polls |-> polls, firstTradeId |-> y]
  BY <1>3
<1>5. t.polls = polls
  BY <1>1
<1> QED BY <1>2, <1>4, <1>5

\* Every step of a worker keeps the invariant.
LEMMA WorkerKeeps ==
  ASSUME IInv, NEW w \in DOMAIN workers, Worker(w), UNCHANGED parsing
  PROVE  IInv'
<1>1. PICK t : t = workers[w]
  OBVIOUS
<1>2. /\ t \in Threads
      /\ t = [at |-> t.at, polls |-> t.polls, firstTradeId |-> t.firstTradeId]
      /\ stop \in BOOLEAN /\ (stop => errors # {})
      /\ t.at = "failed" => errors # {}
      /\ config.limit # None => t.polls <= config.limit
      /\ config.limit # None => config.limit \in Nat \ {0}
      /\ t.polls \in Nat /\ t.firstTradeId \in Nat
      /\ w \in DOMAIN config.markets /\ config.markets[w] \in Markets
  BY <1>1, ThreadFields
<1>3. workers \in Seq(Threads)
  BY DEF IInv, AppInv, AppTypes
<1>4. phase' = phase /\ config' = config /\ file' = file
  BY DEF parsing
<1>5. ASSUME NEW from \in {"recovering", "scanning", "polling"},
             NEW to \in {"scanning", "looping"},
             Advance(w, from, to)
      PROVE  IInv'
  <2> DEFINE u == [t EXCEPT !.at = to]
  <2>1. u \in Threads /\ u.at = to /\ u.polls = t.polls /\ u.firstTradeId = t.firstTradeId
    BY <1>2 DEF Threads, Started
  <2>2. workers' = [workers EXCEPT ![w] = u]
    BY <1>1, <1>3, <1>5 DEF Advance
  <2> HIDE DEF u
  <2>3. StepsTo(w, u) BY <1>1, <1>4, <1>5, <2>1, <2>2 DEF StepsTo, Advance
  <2>4. Reports(w, u) BY <1>2, <1>5, <2>1 DEF Reports, Advance
  <2>5. Counts(w, u) BY <1>1, <1>2, <2>1 DEF Counts
  <2> QED BY <2>3, <2>4, <2>5, WorkerStep
<1>6. CASE Recover(w) BY <1>5, <1>6 DEF Recover
<1>7. CASE Scan(w) BY <1>5, <1>7 DEF Scan
<1>8. CASE Poll(w)
  <2>1. Advance(w, "polling", "looping") BY <1>8 DEF Poll, Advance
  <2> QED BY <1>5, <2>1
<1>9. CASE Construct(w)
  <2> DEFINE first == FirstTradeId(config.markets[w])
             u == [at |-> "recovering", polls |-> t.polls, firstTradeId |-> first]
  <2>1. first \in Nat
    <3>1. PICK market \in Markets : market = config.markets[w] BY <1>2
    <3>2. FirstTradeId(market) = market.market_id * Namespace + 1
      BY <1>9, <3>1, TradeIdsDoNotWrap DEF Construct
    <3>3. market.market_id \in Nat /\ Namespace \in Nat BY <3>1, AppAssumption DEF Markets
    <3> QED BY <3>1, <3>2, <3>3
  <2> HIDE DEF first
  <2>2. u \in Threads /\ u.at = "recovering" /\ u.polls = t.polls /\ u.firstTradeId = first
    BY <1>2, <2>1 DEF Threads, Started
  <2>3. workers' = [workers EXCEPT ![w] = u]
    <3>1. workers' = [workers EXCEPT ![w] = [[t EXCEPT !.at = "recovering"]
                                                EXCEPT !.firstTradeId = first]]
      BY <1>1, <1>3, <1>9 DEF Construct, first
    <3>2. [[t EXCEPT !.at = "recovering"] EXCEPT !.firstTradeId = first] = u
      BY <1>2, TwoFieldsChange
    <3> QED BY <3>1, <3>2
  <2> HIDE DEF u
  <2>4. StepsTo(w, u) BY <1>1, <1>4, <1>9, <2>2, <2>3 DEF StepsTo, Construct
  <2>5. Reports(w, u) BY <1>2, <1>9, <2>2 DEF Reports, Construct
  <2>6. Counts(w, u) BY <1>1, <1>2, <1>9, <2>2 DEF Counts, Construct, first
  <2> QED BY <2>4, <2>5, <2>6, WorkerStep
<1>10. CASE LookAtFlag(w)
  <2>1. CASE MayPoll(w)
    <3> DEFINE polls == IF config.limit = None THEN t.polls ELSE t.polls + 1
               u == [at |-> "polling", polls |-> polls, firstTradeId |-> t.firstTradeId]
    <3>1. polls \in Nat /\ (config.limit # None => polls <= config.limit)
      BY <1>1, <1>2, <2>1 DEF MayPoll
    <3>2. workers' = [workers EXCEPT ![w] = u]
      <4>1. workers' = [workers EXCEPT ![w] = [[t EXCEPT !.at = "polling"]
                                                  EXCEPT !.polls = polls]]
        BY <1>1, <1>3, <1>10, <2>1 DEF LookAtFlag
      <4> HIDE DEF polls
      <4>2. [[t EXCEPT !.at = "polling"] EXCEPT !.polls = polls] = u
        <5>1. PICK y : y = polls OBVIOUS
        <5>2. [[t EXCEPT !.at = "polling"] EXCEPT !.polls = y]
                = [at |-> "polling", polls |-> y, firstTradeId |-> t.firstTradeId]
          <6>1. PICK at, n, id : t = [at |-> at, polls |-> n, firstTradeId |-> id]
            BY <1>2
          <6>2. PICK s : s = [t EXCEPT !.at = "polling"] OBVIOUS
          <6>3. s = [at |-> "polling", polls |-> n, firstTradeId |-> id] BY <6>1, <6>2
          <6>4. [s EXCEPT !.polls = y] = [at |-> "polling", polls |-> y, firstTradeId |-> id]
            BY <6>3
          <6> QED BY <6>1, <6>2, <6>4
        <5> QED BY <5>1, <5>2
      <4> HIDE DEF u
      <4> QED BY <4>1, <4>2
    <3> HIDE DEF polls
    <3>3. u \in Threads /\ u.at = "polling" /\ u.polls = polls /\ u.firstTradeId = t.firstTradeId
      BY <1>2, <3>1 DEF Threads, Started
    <3> HIDE DEF u
    <3>4. StepsTo(w, u) BY <1>1, <1>4, <1>10, <3>2, <3>3 DEF StepsTo, LookAtFlag
    <3>5. Reports(w, u) BY <1>2, <1>10, <3>3 DEF Reports, LookAtFlag
    <3>6. Counts(w, u) BY <1>1, <3>1, <3>3 DEF Counts
    <3> QED BY <3>4, <3>5, <3>6, WorkerStep
  <2>2. CASE ~MayPoll(w)
    <3> DEFINE u == [t EXCEPT !.at = "ended"]
    <3>1. workers' = [workers EXCEPT ![w] = u]
      BY <1>1, <1>3, <1>10, <2>2 DEF LookAtFlag
    <3>2. u \in Threads /\ u.at = "ended" /\ u.polls = t.polls /\ u.firstTradeId = t.firstTradeId
      BY <1>2 DEF Threads, Started
    <3>3. stop \/ (config.limit # None /\ t.polls = config.limit)
      BY <1>1, <1>2, <2>2 DEF MayPoll
    <3> HIDE DEF u
    <3>4. StepsTo(w, u) BY <1>1, <1>4, <1>10, <3>1, <3>2 DEF StepsTo, LookAtFlag
    <3>5. Reports(w, u) BY <1>2, <1>10, <3>2, <3>3 DEF Reports, LookAtFlag
    <3>6. Counts(w, u) BY <1>1, <1>2, <3>2 DEF Counts
    <3> QED BY <3>4, <3>5, <3>6, WorkerStep
  <2> QED BY <2>1, <2>2
<1>11. CASE Throw(w)
  <2> DEFINE u == [t EXCEPT !.at = "failed"]
  <2>1. u \in Threads /\ u.at = "failed" /\ u.polls = t.polls /\ u.firstTradeId = t.firstTradeId
    BY <1>2 DEF Threads, Started
  <2>2. workers' = [workers EXCEPT ![w] = u]
    BY <1>1, <1>3, <1>11 DEF Throw
  <2>3. errors' # {} BY <1>11 DEF Throw
  <2> HIDE DEF u
  <2>4. StepsTo(w, u) BY <1>1, <1>4, <1>11, <2>1, <2>2 DEF StepsTo, Throw, Started
  <2>5. Reports(w, u) BY <1>2, <1>11, <2>1, <2>3 DEF Reports, Throw
  <2>6. Counts(w, u) BY <1>1, <1>2, <2>1 DEF Counts
  <2> QED BY <2>4, <2>5, <2>6, WorkerStep
<1>12. CASE RequestStop(w)
  <2> DEFINE u == [t EXCEPT !.at = "ended"]
  <2>1. u \in Threads /\ u.at = "ended" /\ u.polls = t.polls /\ u.firstTradeId = t.firstTradeId
    BY <1>2 DEF Threads, Started
  <2>2. workers' = [workers EXCEPT ![w] = u]
    BY <1>1, <1>3, <1>12 DEF RequestStop
  <2>3. errors # {} /\ errors' = errors /\ stop' = TRUE
    BY <1>1, <1>2, <1>12 DEF RequestStop
  <2> HIDE DEF u
  <2>4. StepsTo(w, u) BY <1>1, <1>4, <1>12, <2>1, <2>2 DEF StepsTo, RequestStop
  <2>5. Reports(w, u) BY <2>1, <2>3 DEF Reports
  <2>6. Counts(w, u) BY <1>1, <1>2, <2>1 DEF Counts
  <2> QED BY <2>4, <2>5, <2>6, WorkerStep
<1> QED BY <1>6, <1>7, <1>8, <1>9, <1>10, <1>11, <1>12 DEF Worker

(***************************************************************************)
(* main, and the theorems.                                                 *)
(***************************************************************************)

\* What main does not touch goes on holding.
LEMMA MainLeavesTheRest ==
  ASSUME IInv, UNCHANGED <<phase, config, file, stop, errors>>,
         main' \in [stage : Stages, joined : Nat]
  PROVE  /\ ParsingInv'
         /\ UNCHANGED workers => AppTypes' /\ EndInv' /\ TradeIdsInv'
<1>1. ParsingInv'
  BY DEF IInv, ParsingInv
<1>2. ASSUME UNCHANGED workers PROVE AppTypes' /\ EndInv' /\ TradeIdsInv'
  <2>1. AppTypes'
    BY <1>2 DEF IInv, AppInv, AppTypes
  <2>2. EndInv'
    BY <1>2 DEF IInv, AppInv, EndInv
  <2>3. TradeIdsInv'
    BY <1>2 DEF IInv, TradeIdsInv, FirstTradeId, HasTradeIds
  <2> QED BY <2>1, <2>2, <2>3
<1> QED BY <1>1, <1>2

\* A thread is started.
LEMMA SpawnKeeps ==
  ASSUME IInv, Spawn, UNCHANGED parsing
  PROVE  IInv'
<1>1. PICK t : t = Thread("starting")
  OBVIOUS
<1>2. /\ t \in Threads /\ t.at = "starting" /\ t.polls = 0 /\ t.firstTradeId = 0
  BY <1>1 DEF Thread, Threads, Started
<1>3. PICK new : new = workers'
  OBVIOUS
<1>4. /\ workers \in Seq(Threads) /\ new = Append(workers, t)
      /\ main.stage = "spawning" /\ Len(workers) < Len(config.markets)
      /\ phase' = phase /\ config' = config /\ file' = file
      /\ main' = main /\ stop' = stop /\ errors' = errors /\ exit' = exit
  BY <1>1, <1>3 DEF IInv, AppInv, AppTypes, Spawn, parsing
<1>5. /\ new \in Seq(Threads) /\ Len(new) = Len(workers) + 1
      /\ \A w \in DOMAIN workers : new[w] = workers[w]
      /\ \A w \in DOMAIN new : w \in DOMAIN workers \/ new[w] = t
      /\ DOMAIN workers = 1 .. Len(workers) /\ Len(workers) \in Nat
  BY <1>2, <1>4
<1>6. main \in [stage : Stages, joined : Nat] /\ config.markets \in Seq(Markets)
  BY DEF IInv, AppInv, AppTypes, ParsingInv
<1>7. ParsingInv'
  BY <1>4, <1>6, MainLeavesTheRest
<1>8. AppTypes'
  BY <1>3, <1>4, <1>5 DEF IInv, AppInv, AppTypes
<1>9. MainInv'
  <2>1. /\ main.joined <= Len(workers) /\ main.joined \in Nat
        /\ \A w \in 1 .. main.joined : workers[w].at = "ended"
        /\ phase \in {"ready", "help", "refused"}
    BY <1>4, <1>6 DEF IInv, AppInv, MainInv
  <2>2. main.joined <= Len(new)
    BY <1>5, <2>1
  <2>3. Len(new) <= Len(config.markets)
    BY <1>4, <1>5, <1>6
  <2>4. \A w \in 1 .. main.joined : new[w].at = "ended"
    BY <1>5, <2>1
  <2> QED BY <1>3, <1>4, <2>1, <2>2, <2>3, <2>4 DEF MainInv
<1>10. EndInv'
  <2>1. stop => errors # {}
    BY DEF IInv, AppInv, EndInv
  <2>2. config.limit # None => 0 <= config.limit
    <3>1. PICK limit \in PollLimits \cup {1, None} : limit = config.limit
      BY DEF IInv, ParsingInv
    <3>2. limit # None => limit \in Nat BY ConfigAssumption
    <3> QED BY <3>1, <3>2
  <2>3. ASSUME NEW w \in DOMAIN new
        PROVE  /\ new[w].at = "failed" => errors # {}
               /\ config.limit # None => new[w].polls <= config.limit
               /\ errors = {} /\ new[w].at = "ended" =>
                    config.limit # None /\ new[w].polls = config.limit
    <3>1. CASE w \in DOMAIN workers
      <4>1. new[w] = workers[w] BY <1>5, <3>1
      <4> QED BY <3>1, <4>1 DEF IInv, AppInv, EndInv
    <3>2. CASE new[w] = t
      BY <1>2, <2>2, <3>2
    <3> QED BY <1>5, <3>1, <3>2
  <2> QED BY <1>3, <1>4, <2>1, <2>3 DEF EndInv
<1>11. TradeIdsInv'
  <2>1. ASSUME NEW w \in DOMAIN new, new[w].firstTradeId # 0
        PROVE  /\ new[w].firstTradeId = FirstTradeId(config.markets[w])
               /\ HasTradeIds(config.markets[w])
    <3>1. w \in DOMAIN workers /\ new[w] = workers[w] BY <1>2, <1>5, <2>1
    <3> QED BY <2>1, <3>1 DEF IInv, TradeIdsInv
  <2> QED BY <1>3, <1>4, <2>1 DEF TradeIdsInv, FirstTradeId, HasTradeIds
<1>12. ExitInv'
  BY <1>4 DEF IInv, AppInv, ExitInv
<1> QED BY <1>7, <1>8, <1>9, <1>10, <1>11, <1>12 DEF IInv, AppInv

\* Every step of main keeps the invariant.
LEMMA MainKeeps ==
  ASSUME IInv, Main, UNCHANGED parsing
  PROVE  IInv'
<1>1. /\ phase' = phase /\ config' = config /\ file' = file
      /\ main \in [stage : Stages, joined : Nat] /\ workers \in Seq(Threads)
  BY DEF parsing, IInv, AppInv, AppTypes
<1>2. CASE Spawn
  BY <1>2, SpawnKeeps
<1>3. CASE ~Spawn
  <2>1. UNCHANGED <<workers, stop, errors>>
    BY <1>3 DEF Main, ParsingEnds, SpawnFails, AllSpawned, Join, Return
  <2>2. main' \in [stage : Stages, joined : Nat]
    BY <1>1, <1>3 DEF Main, ParsingEnds, SpawnFails, AllSpawned, Join, Return, Stages
  <2>3. ParsingInv' /\ AppTypes' /\ EndInv' /\ TradeIdsInv'
    BY <1>1, <2>1, <2>2, MainLeavesTheRest
  <2>4. MainInv /\ ExitInv
    BY DEF IInv, AppInv
  <2>5. MainInv' /\ ExitInv'
    <3>1. CASE ParsingEnds
      <4>1. main.stage = "parsing" /\ workers = <<>> /\ main.joined <= Len(workers)
            /\ main'.stage \in {"spawning", "exited"} /\ main'.joined = main.joined
            /\ phase \in {"ready", "help", "refused"}
        BY <1>1, <2>4, <3>1 DEF ParsingEnds, MainInv
      <4>2. exit' = "success" => main'.stage = "exited" /\ phase = "help"
        <5>1. CASE exit' = exit
          BY <2>4, <4>1, <5>1 DEF ExitInv
        <5>2. CASE exit' = IF phase = "help" THEN "success" ELSE "failure"
          BY <1>1, <3>1, <5>2, <2>4, <4>1 DEF ParsingEnds, ExitInv
        <5> QED BY <3>1, <5>1, <5>2 DEF ParsingEnds
      <4>3. MainInv' BY <1>1, <2>1, <2>4, <4>1 DEF MainInv
      <4> QED BY <1>1, <2>1, <4>2, <4>3 DEF ExitInv
    <3>2. CASE SpawnFails
      BY <1>1, <2>1, <2>4, <3>2 DEF SpawnFails, MainInv, ExitInv
    <3>3. CASE AllSpawned
      BY <1>1, <2>1, <2>4, <3>3 DEF AllSpawned, MainInv, ExitInv
    <3>4. CASE Join
      <4>1. /\ main.stage \in {"joining", "unwinding"}
            /\ main'.stage = main.stage /\ main'.joined = main.joined + 1
            /\ main.joined < Len(workers) /\ workers[main.joined + 1].at = "ended"
            /\ exit' = exit
        BY <1>1, <3>4 DEF Join
      <4>2. main.joined \in Nat /\ Len(workers) \in Nat
        BY <1>1
      <4>3. main'.joined <= Len(workers)
        BY <4>1, <4>2
      <4>4. \A w \in 1 .. main'.joined : workers[w].at = "ended"
        <5> SUFFICES ASSUME NEW w \in 1 .. main'.joined PROVE workers[w].at = "ended"
          OBVIOUS
        <5>1. w \in 1 .. main.joined \/ w = main.joined + 1
          BY <4>1, <4>2
        <5> QED BY <2>4, <4>1, <5>1 DEF MainInv
      <4>5. MainInv'
        BY <1>1, <2>1, <2>4, <4>1, <4>3, <4>4 DEF MainInv
      <4>6. ExitInv'
        BY <1>1, <2>1, <2>4, <4>1 DEF ExitInv
      <4> QED BY <4>5, <4>6
    <3>5. CASE Return
      <4>1. /\ main.stage \in {"joining", "unwinding"}
            /\ main'.stage = "exited" /\ main'.joined = main.joined
            /\ main.joined = Len(workers)
            /\ exit' = IF main.stage = "unwinding" \/ errors # {} THEN "failure" ELSE "success"
        BY <1>1, <3>5 DEF Return
      <4>2. MainInv'
        BY <1>1, <2>1, <2>4, <4>1 DEF MainInv
      <4>3. ASSUME exit' = "success"
            PROVE  /\ errors = {}
                   /\ Len(workers) = Len(config.markets)
                   /\ \A w \in DOMAIN workers : workers[w].at = "ended"
        <5>1. main.stage = "joining" /\ errors = {} BY <4>1, <4>3
        <5>2. DOMAIN workers = 1 .. main.joined BY <1>1, <4>1
        <5> QED BY <2>4, <5>1, <5>2 DEF MainInv
      <4> QED BY <1>1, <2>1, <4>1, <4>2, <4>3 DEF ExitInv
    <3> QED BY <1>3, <3>1, <3>2, <3>3, <3>4, <3>5 DEF Main
  <2> QED BY <2>3, <2>5 DEF IInv, AppInv
<1> QED BY <1>2, <1>3

\* It holds at the start.
LEMMA InitInv == Init => IInv
<1> SUFFICES ASSUME Init PROVE IInv
  OBVIOUS
<1>1. /\ config = [markets |-> <<DefaultMarket>>, limit |-> None, once |-> FALSE]
      /\ file = [current |-> None, markets |-> <<>>, from |-> "environment"]
      /\ main = [stage |-> "parsing", joined |-> 0]
      /\ workers = <<>> /\ stop = FALSE /\ errors = {} /\ exit = None
  BY DEF Init, ParseInit
<1>2. DefaultMarket \in Markets
  <2>1. PICK name : name = DefaultMarket.market_name OBVIOUS
  <2>2. DefaultMarket = [market_id |-> 1, market_name |-> name,
                         input_partition |-> 0, symbol |-> "valid"]
    BY <2>1 DEF DefaultMarket
  <2>3. 0 < Power(Width)
    <3>1. Power(Width) \in Nat \ {0} BY PowerLaw, AppAssumption
    <3> QED BY <3>1
  <2>4. DefaultMarket \in [Keys -> Settings]
    BY <2>1, <2>2 DEF Keys, Settings
  <2> QED BY <2>2, <2>3, <2>4 DEF Markets
<1>3. /\ <<DefaultMarket>> \in Seq(Markets) /\ AllDiffer(<<DefaultMarket>>)
      /\ <<>> \in Seq(Markets) /\ AllDiffer(<<>>)
  <2> HIDE DEF DefaultMarket
  <2> QED BY <1>2 DEF AllDiffer
<1>4. ParsingInv
  BY <1>1, <1>3 DEF ParsingInv
<1>5. AppTypes
  <2>1. main \in [stage : Stages, joined : Nat] BY <1>1 DEF Stages
  <2>2. <<>> \in Seq(Threads) OBVIOUS
  <2> QED BY <1>1, <2>1, <2>2 DEF AppTypes
<1>6. MainInv
  BY <1>1, <1>3 DEF MainInv
<1>7. EndInv /\ TradeIdsInv
  BY <1>1 DEF EndInv, TradeIdsInv
<1>8. ExitInv
  BY <1>1, AppAssumption DEF ExitInv
<1> QED BY <1>4, <1>5, <1>6, <1>7, <1>8 DEF IInv, AppInv

\* Every step keeps it.
LEMMA NextInv == IInv /\ [Next]_vars => IInv'
<1> SUFFICES ASSUME IInv, [Next]_vars PROVE IInv'
  OBVIOUS
<1>1. CASE Parse /\ UNCHANGED app
  <2>1. phase \in {"environment", "arguments", "file"}
    BY <1>1 DEF Parse, Environment, Argument, ReadLine, EndOfFile, EndOfArguments
  <2>2. UNCHANGED <<main, workers, stop, errors, exit>>
    BY <1>1 DEF app
  <2>3. main.stage = "parsing" /\ workers = <<>>
    BY <2>1 DEF IInv, AppInv, MainInv
  <2>4. ParsingInv'
    BY <1>1, ParseKeeps DEF IInv
  <2>5. AppTypes'
    BY <2>2 DEF IInv, AppInv, AppTypes
  <2>6. MainInv'
    <3>1. config'.markets \in Seq(Markets) BY <2>4 DEF ParsingInv
    <3>2. Len(workers) = 0 /\ Len(config'.markets) \in Nat BY <2>3, <3>1
    <3> QED BY <2>2, <2>3, <3>2 DEF IInv, AppInv, MainInv
  <2>7. EndInv' /\ TradeIdsInv'
    BY <2>2, <2>3 DEF IInv, AppInv, EndInv, TradeIdsInv
  <2>8. ExitInv'
    BY <2>2, <2>3 DEF IInv, AppInv, ExitInv
  <2> QED BY <2>4, <2>5, <2>6, <2>7, <2>8 DEF IInv, AppInv
<1>2. CASE Main /\ UNCHANGED parsing
  BY <1>2, MainKeeps
<1>3. CASE (\E w \in DOMAIN workers : Worker(w)) /\ UNCHANGED parsing
  BY <1>3, WorkerKeeps
<1>4. CASE UNCHANGED vars
  <2>1. UNCHANGED <<phase, config, file, main, workers, stop, errors, exit>>
    BY <1>4 DEF vars, parsing, app
  <2>2. main \in [stage : Stages, joined : Nat] BY DEF IInv, AppInv, AppTypes
  <2>3. ParsingInv' /\ AppTypes' /\ EndInv' /\ TradeIdsInv'
    BY <2>1, <2>2, MainLeavesTheRest
  <2>4. MainInv' /\ ExitInv'
    BY <2>1 DEF IInv, AppInv, MainInv, ExitInv
  <2> QED BY <2>3, <2>4 DEF IInv, AppInv
<1> QED BY <1>1, <1>2, <1>3, <1>4 DEF Next

\* What the invariant says of a process that reports success.
LEMMA SuccessIsEarned ==
  ASSUME IInv
  PROVE  SuccessIsComplete
  BY DEF SuccessIsComplete, IInv, AppInv, ExitInv, EndInv

\* The state of the process is as the sections above describe it, whatever the
\* file and the arguments say.
THEOREM AppInvariant == Spec => []IInv
  BY InitInv, NextInv, PTL DEF Spec

\* Two workers never share a partition, a checkpoint scope, a market or a trade
\* id: main starts one for each accepted market and append_market_config has
\* compared them all.
THEOREM WorkersAlwaysApart == Spec => []WorkersApart
  BY AppInvariant, WorkersAreApart, PTL

\* The exit status is success only when each market was polled as often as was
\* asked for and no worker has noted an error.
THEOREM SuccessIsAlwaysComplete == Spec => []SuccessIsComplete
  BY AppInvariant, SuccessIsEarned, PTL

(***************************************************************************)
(* Markets files.  At every line the sections read so far are those of the *)
(* text, in one-to-one correspondence with its headers.                    *)
(***************************************************************************)

\* Section i of the text gives each key the value b has, or none.
Says(text, i, b) ==
  \A k \in Keys :
    IF b[k] = None THEN Assignments(text, i, k) = {}
    ELSE \E j \in DOMAIN text : Assignments(text, i, k) = {j} /\ text[j].value = b[k]

\* f takes the sections that were loaded to their headers, the last to the last.
ReadSoFar(text, loaded, f) ==
  /\ \A j \in DOMAIN text : text[j].kind # "malformed"
  /\ \A j \in DOMAIN text : text[j].kind = "pair" => \E h \in Headers(text) : h < j
  /\ f \in [1 .. Len(loaded) -> Headers(text)]
  /\ \A i, j \in 1 .. Len(loaded) : f[i] = f[j] => i = j
  /\ \A h \in Headers(text) : \E i \in 1 .. Len(loaded) : f[i] = h
  /\ \A i \in 1 .. Len(loaded) : Says(text, f[i], loaded[i])
  /\ \A h \in Headers(text) : h <= f[Len(loaded)]

\* What the parser holds of a file corresponds to the lines it has read.
FileInv ==
  phase = "file" =>
    /\ lines \in Seq(Lines)
    /\ file.markets \in Seq(Builders)
    /\ \A i \in 1 .. Len(file.markets) : Builds(file.markets[i])
    /\ file.current = None => file.markets = <<>>
    /\ \E f : ReadSoFar(lines, Loaded, f)

\* A section being read is a section.
LEMMA BuilderIsSome == None \notin Builders
<1>1. ASSUME NEW b \in Builders
      PROVE  b \in [Keys -> Int \cup Names \cup {"valid", "invalid", None}]
  <2>1. \A k \in Keys : Values(k) \subseteq Int \cup Names \cup {"valid", "invalid"}
    BY ConfigAssumption DEF Values, Keys
  <2>2. \A k \in Keys : b[k] \in Int \cup Names \cup {"valid", "invalid", None}
    BY <2>1 DEF Builders
  <2> QED BY <2>2 DEF Builders
<1> QED BY <1>1, NoneAssumption

\* The fields of a line.
LEMMA LineKinds ==
  ASSUME NEW line \in Lines
  PROVE  /\ line.kind \in {"comment", "section", "malformed", "pair"}
         /\ line.kind = "pair" => line.key \in Keys /\ line.value \in Values(line.key)
                                  /\ line.value # None
  BY NoneAssumption DEF Lines, Pairs

\* A line is read.
Adds(q, text, line) == q = Append(text, line)

\* What a new line adds to the headers and to the sections before it.
LEMMA LineAdded ==
  ASSUME NEW text \in Seq(Lines), NEW line \in Lines, NEW q, Adds(q, text, line)
  PROVE  /\ q \in Seq(Lines) /\ Len(q) = Len(text) + 1 /\ DOMAIN q = 1 .. Len(text) + 1
         /\ q[Len(text) + 1] = line /\ \A j \in DOMAIN text : q[j] = text[j]
         /\ DOMAIN text = 1 .. Len(text) /\ Len(text) \in Nat
         /\ Headers(q) = Headers(text) \cup
                           (IF line.kind = "section" THEN {Len(text) + 1} ELSE {})
         /\ Headers(text) \subseteq 1 .. Len(text)
<1>1. /\ q \in Seq(Lines) /\ Len(q) = Len(text) + 1 /\ DOMAIN q = 1 .. Len(text) + 1
      /\ q[Len(text) + 1] = line /\ \A j \in DOMAIN text : q[j] = text[j]
      /\ DOMAIN text = 1 .. Len(text) /\ Len(text) \in Nat
  BY DEF Adds
<1>2. \A j \in 1 .. Len(text) + 1 : j \in 1 .. Len(text) \/ j = Len(text) + 1
  BY <1>1
<1>3. Headers(q) = Headers(text) \cup
                     (IF line.kind = "section" THEN {Len(text) + 1} ELSE {})
  <2>1. ASSUME NEW j
        PROVE  j \in Headers(q) <=> \/ j \in Headers(text)
                                    \/ line.kind = "section" /\ j = Len(text) + 1
    BY <1>1, <1>2 DEF Headers
  <2> QED BY <2>1
<1> QED BY <1>1, <1>3 DEF Headers

\* Only a header adds a header.
LEMMA HeadersStay ==
  ASSUME NEW text \in Seq(Lines), NEW line \in Lines, NEW q, Adds(q, text, line),
         line.kind # "section"
  PROVE  Headers(q) = Headers(text)
<1>1. Headers(q) = Headers(text) \cup
                     (IF line.kind = "section" THEN {Len(text) + 1} ELSE {})
  BY LineAdded
<1> QED BY <1>1

\* The assignments of a section that is there before the new line.
LEMMA AssignmentsAdded ==
  ASSUME NEW text \in Seq(Lines), NEW line \in Lines, NEW q, Adds(q, text, line),
         NEW i \in Headers(text), NEW k
  PROVE  Assignments(q, i, k) =
           Assignments(text, i, k) \cup
             (IF /\ line.kind = "pair" /\ line.key = k
                 /\ \A h \in Headers(text) : h <= i
              THEN {Len(text) + 1} ELSE {})
<1> DEFINE n == Len(text)
<1>a. /\ DOMAIN q = 1 .. Len(text) + 1 /\ q[Len(text) + 1] = line /\ DOMAIN text = 1 .. Len(text)
      /\ Len(text) \in Nat /\ \A j \in DOMAIN text : q[j] = text[j]
      /\ Headers(q) = Headers(text) \cup
                        (IF line.kind = "section" THEN {Len(text) + 1} ELSE {})
      /\ Headers(text) \subseteq 1 .. Len(text)
  BY LineAdded
<1>0. /\ DOMAIN q = 1 .. n + 1 /\ q[n + 1] = line /\ DOMAIN text = 1 .. n /\ n \in Nat
      /\ \A j \in DOMAIN text : q[j] = text[j]
      /\ Headers(q) = Headers(text) \cup (IF line.kind = "section" THEN {n + 1} ELSE {})
      /\ Headers(text) \subseteq 1 .. n
  BY ONLY <1>a DEF n
<1> HIDE DEF n
<1>1. ASSUME NEW j \in 1 .. n
      PROVE  j \in Assignments(q, i, k) <=> j \in Assignments(text, i, k)
  <2>1. \A h \in Headers(q) : h \in Headers(text) \/ h = n + 1
    BY <1>0
  <2>2. Headers(text) \subseteq Headers(q)
    BY <1>0
  <2>3. j < n + 1 /\ j \in DOMAIN q /\ j \in DOMAIN text /\ q[j] = text[j]
    BY <1>0
  <2>4. (\A h \in Headers(q) : h > i => j < h) <=> (\A h \in Headers(text) : h > i => j < h)
    BY <2>1, <2>2, <2>3
  <2> QED BY <2>3, <2>4 DEF Assignments, SectionOf
<1>2. n + 1 \in Assignments(q, i, k) <=>
        /\ line.kind = "pair" /\ line.key = k
        /\ \A h \in Headers(text) : h <= i
  <2>1. CASE line.kind # "pair"
    BY <1>0, <2>1 DEF Assignments
  <2>2. CASE line.kind = "pair"
    <3>1. Headers(q) = Headers(text) /\ i \in 1 .. n /\ n + 1 > i
      BY <1>0, <2>2
    <3>2. (\A h \in Headers(q) : h > i => n + 1 < h) <=> (\A h \in Headers(text) : h <= i)
      BY <1>0, <3>1
    <3>3. n + 1 \in SectionOf(q, i) <=> \A h \in Headers(text) : h <= i
      BY <1>0, <3>1, <3>2 DEF SectionOf
    <3> QED BY <1>0, <2>2, <3>3 DEF Assignments
  <2> QED BY <2>1, <2>2
<1>3. \A j : j \in Assignments(q, i, k) => j \in 1 .. n \/ j = n + 1
  BY <1>0 DEF Assignments, SectionOf
<1>4. \A j : j \in Assignments(text, i, k) => j \in 1 .. n
  BY <1>0 DEF Assignments, SectionOf
<1> QED BY <1>1, <1>2, <1>3, <1>4 DEF n

\* A comment says nothing, and a header nothing about the sections before it.
LEMMA SaysAgain ==
  ASSUME NEW text \in Seq(Lines), NEW line \in Lines, NEW q, Adds(q, text, line),
         NEW i \in Headers(text), NEW b, Says(text, i, b),
         \/ line.kind # "pair"
         \/ \E h \in Headers(text) : h > i
  PROVE  Says(q, i, b)
<1>1. ASSUME NEW k PROVE Assignments(q, i, k) = Assignments(text, i, k)
  <2>1. Headers(text) \subseteq Nat
    BY LineAdded
  <2>2. ~ (/\ line.kind = "pair" /\ line.key = k
           /\ \A h \in Headers(text) : h <= i)
    BY <2>1
  <2>3. Assignments(q, i, k) =
           Assignments(text, i, k) \cup
             (IF /\ line.kind = "pair" /\ line.key = k
                 /\ \A h \in Headers(text) : h <= i
              THEN {Len(text) + 1} ELSE {})
    BY AssignmentsAdded
  <2> QED BY <2>2, <2>3
<1>2. DOMAIN text \subseteq DOMAIN q /\ \A j \in DOMAIN text : q[j] = text[j]
  BY LineAdded
<1> QED BY <1>1, <1>2 DEF Says

\* A new header is a section that says nothing yet.
LEMMA EmptySays ==
  ASSUME NEW text \in Seq(Lines), NEW line \in Lines, NEW q, Adds(q, text, line)
  PROVE  Says(q, Len(text) + 1, EmptyBuilder)
<1>1. DOMAIN q = 1 .. Len(text) + 1 /\ Len(text) \in Nat
  BY LineAdded
<1>2. \A k : Assignments(q, Len(text) + 1, k) = {}
  BY <1>1 DEF Assignments, SectionOf
<1> QED BY <1>2 DEF Says, EmptyBuilder

\* An assignment is said of the last section, and only of its key.
LEMMA PairSays ==
  ASSUME NEW text \in Seq(Lines), NEW line \in Lines, NEW q, Adds(q, text, line),
         NEW i \in Headers(text), \A h \in Headers(text) : h <= i,
         line.kind = "pair",
         NEW b \in Builders, Says(text, i, b), b[line.key] = None,
         NEW c, c = [b EXCEPT ![line.key] = line.value]
  PROVE  Says(q, i, c)
<1> DEFINE n == Len(text) + 1
           key == line.key
           value == line.value
<1>0. key \in Keys /\ value # None
  BY LineKinds
<1>1. /\ DOMAIN q = 1 .. n /\ q[n] = line /\ DOMAIN text = 1 .. Len(text)
      /\ Len(text) \in Nat /\ \A j \in DOMAIN text : q[j] = text[j]
  BY LineAdded
<1>2. \A k : Assignments(q, i, k) =
               Assignments(text, i, k) \cup (IF key = k THEN {n} ELSE {})
  <2> TAKE k
  <2>1. Assignments(q, i, k) =
          Assignments(text, i, k) \cup
             (IF /\ line.kind = "pair" /\ line.key = k
                 /\ \A h \in Headers(text) : h <= i
              THEN {Len(text) + 1} ELSE {})
    BY AssignmentsAdded
  <2> QED BY <2>1
<1>3. n \in DOMAIN q /\ q[n].value = value /\ DOMAIN text \subseteq DOMAIN q
  BY <1>1
<1>4. c[key] = value /\ \A k \in Keys \ {key} : c[k] = b[k]
  BY <1>0 DEF Builders
<1>5. ASSUME NEW k \in Keys
      PROVE  IF c[k] = None THEN Assignments(q, i, k) = {}
             ELSE \E j \in DOMAIN q : Assignments(q, i, k) = {j} /\ q[j].value = c[k]
  <2>1. CASE k = key
    <3>1. Assignments(text, i, k) = {} BY <2>1, <1>0 DEF Says
    <3>2. Assignments(q, i, k) = {n} BY <3>1, <1>2, <2>1
    <3> QED BY <3>2, <1>3, <1>4, <1>0, <2>1
  <2>2. CASE k # key
    <3>1. Assignments(q, i, k) = Assignments(text, i, k) BY <1>2, <2>2
    <3>2. c[k] = b[k] BY <1>4, <2>2
    <3>3. CASE b[k] = None BY <3>1, <3>2, <3>3 DEF Says
    <3>4. CASE b[k] # None
      <4>1. PICK j \in DOMAIN text : Assignments(text, i, k) = {j} /\ text[j].value = b[k]
        BY <3>4 DEF Says
      <4>2. j \in DOMAIN q /\ q[j] = text[j] BY <1>1, <1>3
      <4> QED BY <4>1, <4>2, <3>1, <3>2, <3>4
    <3> QED BY <3>3, <3>4
  <2> QED BY <2>1, <2>2
<1> HIDE DEF n, key, value
<1> QED BY <1>5 DEF Says

\* A comment leaves the sections as they are.
LEMMA CommentRead ==
  ASSUME NEW text \in Seq(Lines), NEW line \in Lines, NEW q, Adds(q, text, line),
         line.kind = "comment",
         NEW loaded \in Seq(Builders), NEW f, ReadSoFar(text, loaded, f)
  PROVE  ReadSoFar(q, loaded, f)
<1>1. /\ DOMAIN q = 1 .. Len(text) + 1 /\ q[Len(text) + 1] = line /\ DOMAIN text = 1 .. Len(text)
      /\ Len(text) \in Nat /\ \A j \in DOMAIN text : q[j] = text[j]
      /\ Headers(q) = Headers(text)
  <2>1. Headers(q) = Headers(text) BY HeadersStay, line.kind # "section"
  <2> QED BY <2>1, LineAdded
<1>2. \A j \in DOMAIN q : j \in DOMAIN text \/ j = Len(text) + 1
  BY <1>1
<1>3. /\ \A j \in DOMAIN q : q[j].kind # "malformed"
      /\ \A j \in DOMAIN q : q[j].kind = "pair" => \E h \in Headers(q) : h < j
  BY <1>1, <1>2 DEF ReadSoFar
<1>4. ASSUME NEW i \in 1 .. Len(loaded) PROVE Says(q, f[i], loaded[i])
  <2>1. f[i] \in Headers(text) /\ Says(text, f[i], loaded[i]) BY DEF ReadSoFar
  <2>2. line.kind # "pair" OBVIOUS
  <2> QED BY <2>1, <2>2, SaysAgain
<1> QED BY <1>1, <1>3, <1>4 DEF ReadSoFar

\* A header ends the section before it and starts one that says nothing.
LEMMA SectionRead ==
  ASSUME NEW text \in Seq(Lines), NEW line \in Lines, NEW q, Adds(q, text, line),
         line.kind = "section",
         NEW loaded \in Seq(Builders), NEW f, ReadSoFar(text, loaded, f),
         NEW more, Adds(more, loaded, EmptyBuilder)
  PROVE  \E g : ReadSoFar(q, more, g)
<1> DEFINE m == Len(loaded)
           n == Len(text) + 1
           g == [i \in 1 .. m + 1 |-> IF i = m + 1 THEN n ELSE f[i]]
<1>1. /\ DOMAIN q = 1 .. n /\ q[n] = line /\ DOMAIN text = 1 .. n - 1
      /\ n \in Nat /\ \A j \in DOMAIN text : q[j] = text[j]
      /\ Headers(q) = Headers(text) \cup {n} /\ Headers(text) \subseteq 1 .. n - 1
  BY LineAdded
<1>2. \A j \in DOMAIN q : j \in DOMAIN text \/ j = n
  BY <1>1
<1>3. /\ m \in Nat /\ Len(more) = m + 1 /\ more[m + 1] = EmptyBuilder
      /\ \A i \in 1 .. m : more[i] = loaded[i]
  BY DEF Adds
<1>4. Says(q, n, EmptyBuilder)
  BY EmptySays
<1> HIDE DEF m, n
<1>5. \A i \in 1 .. m + 1 : i \in 1 .. m \/ i = m + 1
  BY <1>3
<1>6. m + 1 \notin 1 .. m /\ m + 1 \in 1 .. m + 1 /\ 1 .. m \subseteq 1 .. m + 1
  BY <1>3
<1>7. /\ f \in [1 .. m -> Headers(text)]
      /\ \A i, j \in 1 .. m : f[i] = f[j] => i = j
      /\ \A h \in Headers(text) : \E i \in 1 .. m : f[i] = h
  BY DEF ReadSoFar, m
<1>8. g[m + 1] = n /\ \A i \in 1 .. m : g[i] = f[i]
  BY <1>6
<1>9. /\ \A j \in DOMAIN q : q[j].kind # "malformed"
      /\ \A j \in DOMAIN q : q[j].kind = "pair" => \E h \in Headers(q) : h < j
  BY <1>1, <1>2 DEF ReadSoFar
<1>10. g \in [1 .. m + 1 -> Headers(q)]
  BY <1>1, <1>5, <1>7
<1>11. \A i, j \in 1 .. m + 1 : g[i] = g[j] => i = j
  <2>1. n \notin Headers(text) BY <1>1
  <2> HIDE DEF g
  <2> QED BY <2>1, <1>5, <1>7, <1>8
<1>12. \A h \in Headers(q) : \E i \in 1 .. m + 1 : g[i] = h
  <2> HIDE DEF g
  <2> QED BY <1>1, <1>6, <1>7, <1>8
<1>13. ASSUME NEW i \in 1 .. m + 1 PROVE Says(q, g[i], more[i])
  <2>1. CASE i = m + 1 BY <2>1, <1>3, <1>4
  <2>2. CASE i # m + 1
    <3>1. i \in 1 .. m BY <2>2, <1>5
    <3>2. f[i] \in Headers(text) /\ Says(text, f[i], loaded[i]) BY <3>1 DEF ReadSoFar, m
    <3>3. line.kind # "pair" OBVIOUS
    <3>4. Says(q, f[i], loaded[i]) BY <3>2, <3>3, SaysAgain
    <3> QED BY <3>1, <3>4, <1>3, <1>8
  <2> QED BY <2>1, <2>2
<1>14. \A h \in Headers(q) : h <= g[m + 1]
  <2> HIDE DEF g
  <2> QED BY <1>1, <1>8
<1> HIDE DEF g
<1>15. ReadSoFar(q, more, g)
  BY <1>3, <1>9, <1>10, <1>11, <1>12, <1>13, <1>14 DEF ReadSoFar
<1> QED BY <1>15

\* An assignment is taken up by the last section.
LEMMA PairRead ==
  ASSUME NEW text \in Seq(Lines), NEW line \in Lines, NEW q, Adds(q, text, line),
         line.kind = "pair",
         NEW loaded \in Seq(Builders), NEW f, ReadSoFar(text, loaded, f),
         Len(loaded) > 0, NEW b, b = loaded[Len(loaded)], b[line.key] = None,
         NEW next \in Seq(Builders), Len(next) = Len(loaded),
         \A i \in 1 .. Len(loaded) - 1 : next[i] = loaded[i],
         next[Len(loaded)] = [b EXCEPT ![line.key] = line.value]
  PROVE  ReadSoFar(q, next, f)
<1> DEFINE m == Len(loaded)
           n == Len(text) + 1
<1>1. /\ DOMAIN q = 1 .. n /\ q[n] = line /\ DOMAIN text = 1 .. n - 1
      /\ n \in Nat /\ \A j \in DOMAIN text : q[j] = text[j]
      /\ Headers(q) = Headers(text) /\ Headers(text) \subseteq 1 .. n - 1
  <2>1. Headers(q) = Headers(text) BY HeadersStay, line.kind # "section"
  <2> QED BY <2>1, LineAdded
<1>2. \A j \in DOMAIN q : j \in DOMAIN text \/ j = n
  BY <1>1
<1>3. m \in Nat /\ m \in 1 .. m /\ b \in Builders /\ m = Len(loaded)
  OBVIOUS
<1>4. /\ f \in [1 .. m -> Headers(text)]
      /\ \A i, j \in 1 .. m : f[i] = f[j] => i = j
      /\ \A i \in 1 .. m : Says(text, f[i], loaded[i])
      /\ \A h \in Headers(text) : h <= f[m]
  BY DEF ReadSoFar
<1>5. f[m] < n /\ f[m] \in Headers(q)
  BY <1>1, <1>3, <1>4
<1> HIDE DEF m, n
<1>6. /\ \A j \in DOMAIN q : q[j].kind # "malformed"
      /\ \A j \in DOMAIN q : q[j].kind = "pair" => \E h \in Headers(q) : h < j
  <2>1. ASSUME NEW j \in DOMAIN q, j \in DOMAIN text
        PROVE  q[j].kind # "malformed"
               /\ (q[j].kind = "pair" => \E h \in Headers(q) : h < j)
    BY <2>1, <1>1 DEF ReadSoFar
  <2>2. q[n].kind # "malformed" /\ \E h \in Headers(q) : h < n
    BY <1>1, <1>5
  <2> QED BY <2>1, <2>2, <1>2
<1>7. ASSUME NEW i \in 1 .. m PROVE Says(q, f[i], next[i])
  <2>1. CASE i = m
    <3>1. Says(text, f[m], b) BY <1>3, <1>4
    <3>2. f[m] \in Headers(text) BY <1>1, <1>5
    <3>3. next[m] = [b EXCEPT ![line.key] = line.value] BY DEF m
    <3>4. Says(q, f[m], next[m]) BY <3>1, <3>2, <3>3, <1>3, <1>4, PairSays
    <3> QED BY <3>4, <2>1
  <2>2. CASE i # m
    <3>1. i \in 1 .. m - 1 /\ f[i] # f[m] BY <2>2, <1>3, <1>4
    <3>2. f[i] \in Headers(text) /\ f[m] \in Headers(text) BY <1>3, <1>4
    <3>3. f[i] \in Nat /\ f[m] \in Nat BY <3>2, <1>1
    <3>4. \E h \in Headers(text) : h > f[i] BY <3>1, <3>2, <3>3, <1>4
    <3>5. Says(q, f[i], loaded[i]) BY <3>2, <3>4, <1>4, SaysAgain
    <3> QED BY <3>1, <3>5, <1>3
  <2> QED BY <2>1, <2>2
<1>8. Len(next) = m BY DEF m
<1> QED BY <1>1, <1>6, <1>7, <1>8, <1>3 DEF ReadSoFar

\* What a section says of a key is what the text gives it.
LEMMA SaidOnce ==
  ASSUME NEW text, NEW i, NEW b, Says(text, i, b), NEW k \in Keys, b[k] # None
  PROVE  /\ \E j \in DOMAIN text : Assignments(text, i, k) = {j}
         /\ ValueIn(text, i, k) = b[k]
<1>1. PICK j \in DOMAIN text : Assignments(text, i, k) = {j} /\ text[j].value = b[k]
  BY DEF Says
<1>2. (CHOOSE x \in Assignments(text, i, k) : TRUE) = j
  BY <1>1
<1> QED BY <1>1, <1>2 DEF ValueIn

\* In a well-formed text it is said of every key.
LEMMA SaidOfAll ==
  ASSUME NEW text, WellFormed(text), NEW i \in Headers(text), NEW b, Says(text, i, b),
         NEW k \in Keys
  PROVE  b[k] # None /\ ValueIn(text, i, k) = b[k]
<1>1. \E j \in DOMAIN text : Assignments(text, i, k) = {j}
  BY DEF WellFormed
<1>2. b[k] # None
  BY <1>1 DEF Says
<1> QED BY <1>2, SaidOnce

\* The fields of a market.
LEMMA KeysAre ==
  /\ "market_id" \in Keys /\ "input_partition" \in Keys /\ "symbol" \in Keys
  /\ "market_name" \in Keys
  BY DEF Keys

\* A section of a well-formed text builds.
LEMMA WellFormedBuilds ==
  ASSUME NEW text, WellFormed(text), NEW i \in Headers(text),
         NEW b \in Builders, Says(text, i, b)
  PROVE  Builds(b)
<1>1. \A k \in Keys : b[k] # None /\ ValueIn(text, i, k) = b[k]
  BY SaidOfAll
<1>2. /\ b["market_id"] > 0 /\ b["market_id"] <= MaxSymbolId
      /\ b["input_partition"] >= 0
      /\ b["symbol"] = "valid"
  BY <1>1, KeysAre DEF WellFormed
<1>3. b["market_id"] \in Int
  BY <1>1, KeysAre, ConfigAssumption DEF Builders, Values
<1>4. b["market_id"] \in 1 .. MaxSymbolId
  BY <1>2, <1>3, ConfigAssumption
<1> QED BY <1>1, <1>2, <1>4 DEF Builds

\* A section that append_market_config refuses is not well-formed, or is like
\* one before it.
LEMMA RefusedSection ==
  ASSUME NEW text, NEW markets \in Seq(Builders), NEW current \in Builders,
         NEW loaded, Adds(loaded, markets, current),
         NEW f, ReadSoFar(text, loaded, f), ~ Appends(current, markets)
  PROVE  ~ WellFormed(text)
<1> SUFFICES ASSUME WellFormed(text) PROVE FALSE
  OBVIOUS
<1> DEFINE m == Len(markets) + 1
<1>1. /\ m \in Nat /\ Len(loaded) = m /\ loaded[m] = current /\ m \in 1 .. m
      /\ \A n \in DOMAIN markets : n \in 1 .. m /\ n # m /\ loaded[n] = markets[n]
  BY DEF Adds
<1> HIDE DEF m
<1>2. /\ \A n \in 1 .. m : f[n] \in Headers(text) /\ Says(text, f[n], loaded[n])
      /\ \A n \in 1 .. m : n # m => f[n] # f[m]
  BY <1>1 DEF ReadSoFar
<1>3. f[m] \in Headers(text) /\ Says(text, f[m], current)
  BY <1>1, <1>2
<1>4. Builds(current)
  BY <1>3, WellFormedBuilds
<1>5. PICK n \in DOMAIN markets : \E k \in Keys \ {"symbol"} : markets[n][k] = current[k]
  BY <1>4 DEF Appends
<1>6. PICK k \in Keys \ {"symbol"} : markets[n][k] = current[k]
  BY <1>5
<1>7. f[n] \in Headers(text) /\ f[n] # f[m] /\ Says(text, f[n], markets[n])
  BY <1>1, <1>2
<1>8. ValueIn(text, f[m], k) = current[k]
  BY <1>3, <1>6, SaidOfAll
<1>9. ValueIn(text, f[n], k) = markets[n][k]
  BY <1>6, <1>7, SaidOfAll
<1>10. ValueIn(text, f[m], k) # ValueIn(text, f[n], k)
  BY <1>3, <1>6, <1>7 DEF WellFormed
<1> QED BY <1>6, <1>8, <1>9, <1>10

\* The sections that were accepted are those of a well-formed text, one for
\* each header.
LEMMA AcceptedSections ==
  ASSUME NEW text, NEW loaded \in Seq(Builders), loaded # <<>>,
         \A n \in 1 .. Len(loaded) : Builds(loaded[n]), AllDiffer(loaded),
         NEW f, ReadSoFar(text, loaded, f)
  PROVE  /\ WellFormed(text)
         /\ ToSet(loaded) = {MarketAt(text, i) : i \in Headers(text)}
         /\ Len(loaded) = Cardinality(Headers(text))
<1> DEFINE m == Len(loaded)
<1>1. m \in Nat \ {0} /\ 1 \in 1 .. m /\ DOMAIN loaded = 1 .. m
  OBVIOUS
<1>2. /\ f \in [1 .. m -> Headers(text)]
      /\ \A i, j \in 1 .. m : f[i] = f[j] => i = j
      /\ \A h \in Headers(text) : \E i \in 1 .. m : f[i] = h
      /\ \A i \in 1 .. m : Says(text, f[i], loaded[i]) /\ Builds(loaded[i])
  BY DEF ReadSoFar
<1> HIDE DEF m
<1>3. ASSUME NEW n \in 1 .. m, NEW k \in Keys
      PROVE  /\ \E j \in DOMAIN text : Assignments(text, f[n], k) = {j}
             /\ ValueIn(text, f[n], k) = loaded[n][k]
  <2>1. loaded[n][k] # None /\ Says(text, f[n], loaded[n]) BY <1>2 DEF Builds
  <2> QED BY <2>1, SaidOnce
<1>4. WellFormed(text)
  <2>1. Headers(text) # {} BY <1>1, <1>2
  <2>2. /\ \A j \in DOMAIN text : text[j].kind # "malformed"
        /\ \A j \in DOMAIN text : text[j].kind = "pair" => \E h \in Headers(text) : h < j
    BY DEF ReadSoFar
  <2>3. ASSUME NEW i \in Headers(text), NEW k \in Keys
        PROVE  \E j \in DOMAIN text : Assignments(text, i, k) = {j}
    <3>1. PICK n \in 1 .. m : f[n] = i BY <1>2
    <3> QED BY <3>1, <1>3
  <2>4. ASSUME NEW i \in Headers(text)
        PROVE  /\ ValueIn(text, i, "market_id") > 0
               /\ ValueIn(text, i, "market_id") <= MaxSymbolId
               /\ ValueIn(text, i, "input_partition") >= 0
               /\ ValueIn(text, i, "symbol") = "valid"
    <3>1. PICK n \in 1 .. m : f[n] = i BY <1>2
    <3>2. Builds(loaded[n]) BY <1>2
    <3>3. \A k \in Keys : ValueIn(text, i, k) = loaded[n][k] BY <3>1, <1>3
    <3>4. loaded[n]["market_id"] > 0 /\ loaded[n]["market_id"] <= MaxSymbolId
      BY <3>2, ConfigAssumption DEF Builds
    <3> QED BY <3>2, <3>3, <3>4, KeysAre DEF Builds
  <2>5. ASSUME NEW i \in Headers(text), NEW h \in Headers(text) \ {i}, NEW k \in Keys \ {"symbol"}
        PROVE  ValueIn(text, i, k) # ValueIn(text, h, k)
    <3>1. PICK n \in 1 .. m : f[n] = i BY <1>2
    <3>2. PICK p \in 1 .. m : f[p] = h BY <1>2
    <3>3. n # p BY <3>1, <3>2
    <3>4. loaded[n][k] # loaded[p][k] BY <3>3, <1>1 DEF AllDiffer
    <3> QED BY <3>1, <3>2, <3>4, <1>3
  <2> QED BY <2>1, <2>2, <2>3, <2>4, <2>5 DEF WellFormed
<1>5. \A n \in 1 .. m : loaded[n] = MarketAt(text, f[n])
  <2> TAKE n \in 1 .. m
  <2>1. loaded[n] \in [Keys -> Settings] BY DEF Builders, m
  <2>2. \A k \in Keys : loaded[n][k] = ValueIn(text, f[n], k) BY <1>3
  <2> QED BY <2>1, <2>2 DEF MarketAt
<1>6. ToSet(loaded) = {MarketAt(text, i) : i \in Headers(text)}
  <2>1. ToSet(loaded) = {loaded[n] : n \in 1 .. m} BY <1>1 DEF ToSet
  <2> QED BY <2>1, <1>2, <1>5
<1>7. m = Cardinality(Headers(text))
  <2>1. f \in Bijection(1 .. m, Headers(text))
    BY <1>2 DEF Bijection, Injection, IsInjective, Surjection
  <2>2. ExistsBijection(1 .. m, Headers(text)) BY <2>1 DEF ExistsBijection
  <2> QED BY <2>2, <1>1, FS_CountingElements
<1> QED BY <1>4, <1>6, <1>7 DEF m

\* The sections loaded are those that were accepted and the one being read.
LEMMA LoadedIs ==
  ASSUME NEW markets \in Seq(Builders), NEW current \in Builders \cup {None},
         NEW loaded, loaded = markets \o (IF current = None THEN <<>> ELSE <<current>>)
  PROVE  /\ loaded \in Seq(Builders)
         /\ current = None => loaded = markets
         /\ current # None => Adds(loaded, markets, current)
<1>1. CASE current = None
  <2>1. loaded = markets BY <1>1
  <2> QED BY <1>1, <2>1
<1>2. CASE current # None
  <2>1. current \in Builders BY <1>2
  <2>2. loaded = Append(markets, current) BY <1>2, <2>1, AppendIsConcat
  <2> QED BY <1>2, <2>1, <2>2 DEF Adds
<1> QED BY <1>1, <1>2

\* A file just opened has no sections.
LEMMA NothingRead == \E f : ReadSoFar(<<>>, <<>>, f)
<1>1. ReadSoFar(<<>>, <<>>, [i \in 1 .. 0 |-> 0])
  BY DEF ReadSoFar, Headers
<1> QED BY <1>1

\* Reading a line keeps the correspondence.
LEMMA ReadLineCorresponds ==
  ASSUME ParsingInv, FileInv, NEW line \in Lines, ReadLine(line), phase' = "file"
  PROVE  FileInv'
<1> DEFINE text == lines
           markets == file.markets
           current == file.current
           loaded == Loaded
<1>1. /\ text \in Seq(Lines) /\ markets \in Seq(Builders)
      /\ \A i \in 1 .. Len(markets) : Builds(markets[i])
      /\ current = None => markets = <<>>
      /\ \E f : ReadSoFar(text, loaded, f)
  BY DEF FileInv, ReadLine
<1>2. Adds(lines', text, line)
  BY DEF ReadLine, Adds
<1>3. lines' \in Seq(Lines)
  BY <1>1, <1>2 DEF Adds
<1>4. current \in Builders \cup {None}
  BY DEF ParsingInv
<1>5. loaded = markets \o (IF current = None THEN <<>> ELSE <<current>>)
  BY DEF Loaded
<1>6. Loaded' = file'.markets \o (IF file'.current = None THEN <<>> ELSE <<file'.current>>)
  BY DEF Loaded
<1> HIDE DEF text, markets, current, loaded
<1>7. /\ loaded \in Seq(Builders)
      /\ current = None => loaded = markets
      /\ current # None => Adds(loaded, markets, current)
  BY <1>1, <1>4, <1>5, LoadedIs
<1>8. PICK f : ReadSoFar(text, loaded, f)
  BY <1>1
<1>9. EmptyBuilder \in Builders /\ EmptyBuilder # None
  <2>1. EmptyBuilder \in Builders
    BY DEF EmptyBuilder, Builders, Settings
  <2> QED BY <2>1, BuilderIsSome
<1>10. CASE Comment(line)
  <2>1. file' = file /\ line.kind = "comment" BY <1>10 DEF Comment
  <2>2. Loaded' = loaded BY <2>1, <1>5, <1>6 DEF markets, current
  <2>3. ReadSoFar(lines', loaded, f) BY <2>1, <1>1, <1>2, <1>7, <1>8, CommentRead
  <2>4. \E g : ReadSoFar(lines', Loaded', g) BY <2>2, <2>3
  <2>5. file'.markets = markets /\ file'.current = current BY <2>1 DEF markets, current
  <2> QED BY <2>4, <2>5, <1>1, <1>3 DEF FileInv
<1>11. CASE Section(line)
  <2>1. line.kind = "section" BY <1>11 DEF Section
  <2>2. ASSUME NEW more, Adds(more, loaded, EmptyBuilder)
        PROVE  \E g : ReadSoFar(lines', more, g)
    BY <2>1, <2>2, <1>1, <1>2, <1>7, <1>8, SectionRead
  <2>3. file'.current = EmptyBuilder /\ file'.markets = loaded
    <3>1. phase' # "refused" OBVIOUS
    <3>2. CASE current = None
      BY <3>2, <1>7, <1>11 DEF Section, ParsingInv, current, markets
    <3>3. CASE current # None
      <4>1. file' = [file EXCEPT !.current = EmptyBuilder,
                                 !.markets = Append(@, file.current)]
        BY <3>1, <3>3, <1>11 DEF Section, Refuse, current
      <4>2. loaded = Append(markets, current) BY <3>3, <1>7 DEF Adds
      <4> QED BY <4>1, <4>2 DEF ParsingInv, current, markets
    <3> QED BY <3>2, <3>3
  <2>4. \A i \in 1 .. Len(loaded) : Builds(loaded[i])
    <3>1. CASE current = None BY <3>1, <1>1, <1>7
    <3>2. CASE current # None
      <4>1. Appends(current, markets)
        BY <3>2, <1>11 DEF Section, Refuse, current, markets
      <4>2. Builds(current) BY <4>1 DEF Appends
      <4>3. loaded = Append(markets, current) BY <3>2, <1>7 DEF Adds
      <4>4. current \in Builders BY <3>2, <1>4
      <4> QED BY <4>2, <4>3, <4>4, <1>1
    <3> QED BY <3>1, <3>2
  <2>5. Adds(Loaded', loaded, EmptyBuilder)
    <3>1. Loaded' = file'.markets \o (IF file'.current = None THEN <<>> ELSE <<file'.current>>)
      BY <1>6
    <3>2. Loaded' = loaded \o <<EmptyBuilder>> BY <3>1, <2>3, <1>9
    <3> QED BY <3>2, <1>7, <1>9, AppendIsConcat DEF Adds
  <2>6. \E g : ReadSoFar(lines', Loaded', g) BY <2>2, <2>5
  <2> QED BY <2>3, <2>4, <2>6, <1>3, <1>7, <1>9 DEF FileInv
<1>12. CASE Pair(line)
  <2>1. line.kind = "pair" /\ line.key \in Keys /\ line.value \in Values(line.key)
    BY <1>12, LineKinds DEF Pair
  <2> DEFINE key == line.key
             value == line.value
             next == [current EXCEPT ![key] = value]
  <2>2. current # None /\ current[key] = None
        /\ file' = [file EXCEPT !.current = next]
    <3>1. phase' # "refused" OBVIOUS
    <3>2. file.current # None /\ file.current[line.key] = None
          /\ file' = [file EXCEPT !.current[line.key] = line.value]
      BY <3>1, <1>12 DEF Pair, Refuse
    <3>3. file' = [file EXCEPT !.current = [file.current EXCEPT ![line.key] = line.value]]
      BY <3>2 DEF ParsingInv
    <3> QED BY <3>2, <3>3 DEF current
  <2>3. file'.current = next /\ file'.markets = markets
    <3>1. file' = [file EXCEPT !.current = next] BY <2>2
    <3> HIDE DEF next
    <3> QED BY <3>1 DEF ParsingInv, markets
  <2>4. current \in Builders BY <2>2, <1>4
  <2>5. next \in Builders
    <3>1. file'.current \in Builders \cup {None}
      BY ReadLineKeeps DEF ParsingInv
    <3>2. next # None
      <4>1. key \in Keys /\ value \in Values(key) BY <2>1
      <4> HIDE DEF key, value
      <4>2. value \in Settings
        BY <4>1, ConfigAssumption DEF Values, Settings, Keys
      <4>3. next \in Builders BY <2>4, <4>1, <4>2 DEF Builders
      <4> QED BY <4>3, BuilderIsSome
    <3> QED BY <3>1, <3>2, <2>3
  <2> HIDE DEF next
  <2>6. Adds(loaded, markets, current) BY <2>2, <1>7
  <2>7. Adds(Loaded', markets, next) /\ Loaded' \in Seq(Builders)
    <3>1. next # None BY <2>5, BuilderIsSome
    <3>2. Loaded' = markets \o <<next>> BY <3>1, <2>3, <1>6
    <3>3. Loaded' = Append(markets, next) BY <3>2, <2>5, <1>1, AppendIsConcat
    <3> QED BY <3>3, <2>5, <1>1 DEF Adds
  <2>8. ReadSoFar(lines', Loaded', f)
    <3> DEFINE m == Len(markets) + 1
               after == Loaded'
    <3>1. /\ Len(loaded) = m /\ loaded[m] = current /\ m \in Nat /\ m > 0
          /\ \A i \in 1 .. m - 1 : loaded[i] = markets[i]
      BY <2>4, <2>6, <1>1 DEF Adds
    <3>2. /\ Len(after) = m /\ after[m] = next
          /\ \A i \in 1 .. m - 1 : after[i] = markets[i]
      BY <2>5, <2>7, <1>1 DEF Adds
    <3> HIDE DEF m
    <3>3. after \in Seq(Builders) BY <2>7
    <3>4. current[line.key] = None BY <2>2
    <3>5. next = [current EXCEPT ![line.key] = line.value] BY DEF next
    <3> HIDE DEF after, key, value
    <3>6. /\ Len(loaded) > 0 /\ current = loaded[Len(loaded)] /\ Len(after) = Len(loaded)
          /\ \A i \in 1 .. Len(loaded) - 1 : after[i] = loaded[i]
          /\ after[Len(loaded)] = [current EXCEPT ![line.key] = line.value]
      BY <3>1, <3>2, <3>5
    <3>7. text \in Seq(Lines) /\ loaded \in Seq(Builders) /\ line.kind = "pair"
      BY <2>1, <1>1, <1>7
    <3> HIDE DEF next
    <3>8. ReadSoFar(lines', after, f)
      BY ONLY <3>3, <3>4, <3>6, <3>7, <1>2, <1>8, PairRead, line \in Lines
    <3> QED BY <3>8 DEF after
  <2> QED BY <2>3, <2>5, <2>8, <1>1, <1>3, BuilderIsSome DEF FileInv
<1>13. CASE line.kind = "malformed" /\ Refuse
  BY <1>13 DEF Refuse
<1> QED BY <1>10, <1>11, <1>12, <1>13 DEF ReadLine

\* So does every other step of the parse.
LEMMA ParseCorresponds ==
  ASSUME ParsingInv, FileInv, Parse
  PROVE  FileInv'
<1> SUFFICES ASSUME phase' = "file" PROVE FileInv'
  BY DEF FileInv
<1>1. ASSUME file'.current = None, file'.markets = <<>>, lines' = <<>> PROVE FileInv'
  <2>1. <<>> \in Seq(Lines) /\ <<>> \in Seq(Builders) /\ Len(<<>>) = 0
    OBVIOUS
  <2>2. Loaded' = <<>> BY <1>1 DEF Loaded
  <2>3. \E f : ReadSoFar(lines', Loaded', f) BY <1>1, <2>2, NothingRead
  <2> QED BY <1>1, <2>1, <2>3 DEF FileInv
<1>2. CASE Environment
  BY <1>1, <1>2 DEF Environment, Refuse
<1>3. CASE \E a \in Arguments : Argument(a)
  BY <1>1, <1>3 DEF Argument, OpenFile, CannotOpen, Refuse
<1>4. CASE \E line \in Lines : ReadLine(line)
  BY <1>4, ReadLineCorresponds
<1>5. CASE EndOfFile
  BY <1>5 DEF EndOfFile, Refuse, ParsingInv
<1>6. CASE EndOfArguments
  BY <1>6 DEF EndOfArguments
<1> QED BY <1>2, <1>3, <1>4, <1>5, <1>6 DEF Parse

\* What the file says when the parse stops at it.
AsWritten(text) ==
  IF phase' = "refused" THEN ~ WellFormed(text)
  ELSE /\ WellFormed(text)
       /\ ToSet(config'.markets) = {MarketAt(text, i) : i \in Headers(text)}
       /\ Len(config'.markets) = Cardinality(Headers(text))

\* A line that is refused ends a text that is not well-formed; a header, the
\* text before it.
LEMMA ReadLineJudges ==
  ASSUME ParsingInv, FileInv, NEW line \in Lines, ReadLine(line), phase' # "file"
  PROVE  AsWritten(Judged)
<1> DEFINE text == lines
           more == lines'
           markets == file.markets
           current == file.current
           loaded == Loaded
<1>1. /\ text \in Seq(Lines) /\ markets \in Seq(Builders)
      /\ current = None => markets = <<>>
      /\ \E f : ReadSoFar(text, loaded, f)
  BY DEF FileInv, ReadLine
<1>2. Adds(more, text, line)
  BY DEF ReadLine, Adds
<1>3. current \in Builders \cup {None}
  BY DEF ParsingInv
<1>4. loaded = markets \o (IF current = None THEN <<>> ELSE <<current>>)
  BY DEF Loaded
<1>5. Judged = IF more # text /\ Last(more).kind = "section" THEN text ELSE more
  BY DEF Judged
<1>6. phase' = "refused"
  BY DEF ReadLine, Comment, Section, Pair, Refuse
<1>7. \/ line.kind = "malformed"
      \/ line.kind = "section" /\ current # None /\ ~ Appends(current, markets)
      \/ line.kind = "pair" /\ ~ (current # None /\ current[line.key] = None)
  BY DEF ReadLine, Comment, Section, Pair
<1> HIDE DEF text, more, markets, current, loaded
<1>8. /\ loaded \in Seq(Builders)
      /\ current = None => loaded = markets
      /\ current # None => Adds(loaded, markets, current)
  BY <1>1, <1>3, <1>4, LoadedIs
<1>9. PICK f : ReadSoFar(text, loaded, f)
  BY <1>1
<1>10. /\ DOMAIN more = 1 .. Len(text) + 1 /\ more[Len(text) + 1] = line
       /\ Len(more) = Len(text) + 1 /\ Len(text) \in Nat
       /\ DOMAIN text = 1 .. Len(text) /\ \A j \in DOMAIN text : more[j] = text[j]
       /\ Headers(text) \subseteq 1 .. Len(text)
  BY <1>1, <1>2, LineAdded
<1>11. more # text /\ Last(more) = line
  BY <1>10 DEF Last
<1>12. CASE line.kind = "malformed"
  <2>1. Judged = more BY <1>5, <1>11, <1>12
  <2>2. ~ WellFormed(more) BY <1>10, <1>12 DEF WellFormed
  <2> QED BY <2>1, <2>2, <1>6 DEF AsWritten
<1>13. CASE line.kind = "section" /\ current # None /\ ~ Appends(current, markets)
  <2>1. Judged = text BY <1>5, <1>11, <1>13
  <2>2. current \in Builders BY <1>3, <1>13
  <2>3. ~ WellFormed(text) BY <2>2, <1>1, <1>8, <1>9, <1>13, RefusedSection
  <2> QED BY <2>1, <2>3, <1>6 DEF AsWritten
<1>14. CASE line.kind = "pair" /\ ~ (current # None /\ current[line.key] = None)
  <2>1. Judged = more BY <1>5, <1>11, <1>14
  <2>2. line.kind # "section" BY <1>14
  <2>3. Headers(more) = Headers(text) BY <2>2, <1>1, <1>2, HeadersStay
  <2>4. CASE current = None
    <3>1. loaded = <<>> BY <2>4, <1>1, <1>8
    <3>2. Headers(text) = {} BY <3>1, <1>9 DEF ReadSoFar
    <3>3. ~ WellFormed(more) BY <3>2, <2>3 DEF WellFormed
    <3> QED BY <3>3, <2>1, <1>6 DEF AsWritten
  <2>5. CASE current # None
    <3> DEFINE n == Len(text) + 1
               m == Len(loaded)
               key == line.key
               i == f[m]
    <3>1. key \in Keys BY <1>14, LineKinds
    <3>2. current \in Builders /\ current[key] # None BY <2>5, <1>3, <1>14
    <3>3. m \in 1 .. m /\ loaded[m] = current BY <2>5, <3>2, <1>1, <1>8 DEF Adds
    <3>4. i \in Headers(text) /\ Says(text, i, current) /\ \A h \in Headers(text) : h <= i
      BY <3>3, <1>9 DEF ReadSoFar
    <3>5. PICK j \in DOMAIN text : Assignments(text, i, key) = {j}
      BY <3>1, <3>2, <3>4 DEF Says
    <3>6. Assignments(more, i, key) =
            Assignments(text, i, key) \cup
               (IF /\ line.kind = "pair" /\ line.key = key
                   /\ \A h \in Headers(text) : h <= i
                THEN {Len(text) + 1} ELSE {})
      BY <3>4, <1>1, <1>2, AssignmentsAdded
    <3>7. Assignments(more, i, key) = {j, n} /\ j # n
      BY <3>4, <3>5, <3>6, <1>10, <1>14
    <3> HIDE DEF i, key, n
    <3>8. ~ \E x \in DOMAIN more : Assignments(more, i, key) = {x}
      BY <3>7
    <3>9. ~ WellFormed(more) BY <3>1, <3>4, <3>8, <2>3 DEF WellFormed
    <3> QED BY <3>9, <2>1, <1>6 DEF AsWritten
  <2> QED BY <2>4, <2>5
<1> QED BY <1>7, <1>12, <1>13, <1>14

\* The end of the file accepts its sections just if the text is well-formed.
LEMMA EndOfFileJudges ==
  ASSUME ParsingInv, FileInv, EndOfFile
  PROVE  AsWritten(Judged)
<1> DEFINE text == lines
           markets == file.markets
           current == file.current
           loaded == Loaded
           accepted == (current # None => Appends(current, markets)) /\ loaded # <<>>
<1>1. /\ text \in Seq(Lines) /\ markets \in Seq(Builders)
      /\ \A i \in 1 .. Len(markets) : Builds(markets[i])
      /\ current = None => markets = <<>>
      /\ \E f : ReadSoFar(text, loaded, f)
  BY DEF FileInv, EndOfFile
<1>2. current \in Builders \cup {None}
  BY DEF ParsingInv
<1>3. loaded = markets \o (IF current = None THEN <<>> ELSE <<current>>)
  BY DEF Loaded
<1>4. Judged = text
  BY DEF Judged, EndOfFile
<1>5. IF accepted THEN phase' # "refused" /\ config'.markets = loaded
                  ELSE phase' = "refused"
  BY DEF EndOfFile, Refuse, ParsingInv
<1>6. accepted => AllDiffer(loaded)
  BY LoadedDiffer
<1> HIDE DEF text, markets, current, loaded
<1>7. /\ loaded \in Seq(Builders)
      /\ current = None => loaded = markets
      /\ current # None => Adds(loaded, markets, current)
  BY <1>1, <1>2, <1>3, LoadedIs
<1>8. PICK f : ReadSoFar(text, loaded, f)
  BY <1>1
<1>9. CASE accepted
  <2>1. \A n \in 1 .. Len(loaded) : Builds(loaded[n])
    <3>1. CASE current = None BY <3>1, <1>1, <1>7
    <3>2. CASE current # None
      <4>1. Builds(current) BY <3>2, <1>9 DEF Appends
      <4>2. loaded = Append(markets, current) BY <3>2, <1>7 DEF Adds
      <4>3. current \in Builders BY <3>2, <1>2
      <4> QED BY <4>1, <4>2, <4>3, <1>1
    <3> QED BY <3>1, <3>2
  <2>2. loaded # <<>> /\ AllDiffer(loaded) BY <1>6, <1>9
  <2>3. /\ WellFormed(text)
        /\ ToSet(loaded) = {MarketAt(text, i) : i \in Headers(text)}
        /\ Len(loaded) = Cardinality(Headers(text))
    BY <2>1, <2>2, <1>7, <1>8, AcceptedSections
  <2> QED BY <2>3, <1>4, <1>5, <1>9 DEF AsWritten
<1>10. CASE current # None /\ ~ Appends(current, markets)
  <2>1. current \in Builders BY <1>2, <1>10
  <2>2. ~ WellFormed(text) BY <2>1, <1>1, <1>7, <1>8, <1>10, RefusedSection
  <2> QED BY <2>2, <1>4, <1>5, <1>10 DEF AsWritten
<1>11. CASE loaded = <<>>
  <2>1. Headers(text) = {} BY <1>8, <1>11 DEF ReadSoFar
  <2>2. ~ WellFormed(text) BY <2>1 DEF WellFormed
  <2> QED BY <2>2, <1>4, <1>5, <1>11 DEF AsWritten
<1> QED BY <1>9, <1>10, <1>11

\* At every step of the process the correspondence is kept, and what the parse
\* stops at is judged by it.
LEMMA FileStep ==
  ASSUME IInv, FileInv, [Next]_vars
  PROVE  /\ FileInv'
         /\ phase = "file" /\ phase' # "file" => AsWritten(Judged)
<1>1. ParsingInv
  BY DEF IInv
<1>2. CASE Parse
  <2>1. FileInv' BY <1>1, <1>2, ParseCorresponds
  <2>2. ASSUME phase = "file", phase' # "file" PROVE AsWritten(Judged)
    <3>1. (\E line \in Lines : ReadLine(line)) \/ EndOfFile
      BY <1>2, <2>2 DEF Parse, Environment, Argument, EndOfArguments
    <3> QED BY <3>1, <1>1, <2>2, ReadLineJudges, EndOfFileJudges
  <2> QED BY <2>1, <2>2
<1>3. CASE UNCHANGED parsing
  BY <1>3 DEF parsing, FileInv, Loaded
<1> QED BY <1>2, <1>3 DEF Next, vars

\* A markets file is loaded as it is written, or refused because what was read
\* of it is not well-formed, for every file: load_markets_config_file's sections
\* correspond to the headers of the text at every line.
THEOREM MarketsAlwaysAsWritten == Spec => MarketsAsWritten
<1>1. Init => FileInv
  BY DEF Init, ParseInit, FileInv
<1>2. IInv /\ FileInv /\ [Next]_vars => FileInv'
  BY FileStep
<1>3. IInv /\ FileInv /\ [Next]_vars =>
        [phase = "file" /\ phase' # "file" =>
           \A text \in {Judged} :
             IF phase' = "refused" THEN ~WellFormed(text)
             ELSE /\ WellFormed(text)
                  /\ ToSet(config'.markets) = {MarketAt(text, i) : i \in Headers(text)}
                  /\ Len(config'.markets) = Cardinality(Headers(text))]_parsing
  BY FileStep DEF AsWritten
<1> QED BY <1>1, <1>2, <1>3, AppInvariant, PTL DEF Spec, MarketsAsWritten
=============================================================================
