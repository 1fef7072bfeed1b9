------------------------- MODULE CheckpointStoreProofs -------------------------
(***************************************************************************)
(* Both checkpoint stores, for every set of entries, number of offsets,    *)
(* page size and number of failures: what is written reads back, a torn    *)
(* file is refused, and a start finds the newest save.  The text of a      *)
(* checkpoint is a concatenation of sections and the reader a fold over    *)
(* its lines; both are unfolded into runs that are put one after another.  *)
(***************************************************************************)
EXTENDS CheckpointStores, BasicLemmas

(***************************************************************************)
(* Reading line by line.                                                   *)
(***************************************************************************)

\* The states rs of the reader while it reads the lines.
Run(rs, from, lines) ==
  /\ rs[0] = from
  /\ \A i \in 1 .. Len(lines) : rs[i] = ReadLine(rs[i - 1], lines[i])

\* The recursion that the fold over the lines unfolds to.
ReadingUnfolds(g, lines, D) ==
  g = [s \in D |->
         IF s = {} THEN NewReader
         ELSE LET m == Max(s) IN ReadLine(g[s \ {m}], lines[m])]

\* The fold, unfolded to the function it chooses.
LEMMA ReadingIsChosen ==
  ASSUME NEW lines
  PROVE  FoldLeft(ReadLine, NewReader, lines)
           = (CHOOSE g : ReadingUnfolds(g, lines, SUBSET (DOMAIN lines)))[DOMAIN lines]
  BY DEF FoldLeft, MapThenFoldSet, ReadingUnfolds

\* The greatest element of a set that ends in n.
LEMMA MaxOfPrefix ==
  ASSUME NEW n \in Nat, NEW s \in SUBSET (1 .. n + 1)
  PROVE  /\ n + 1 \in s => Max(s) = n + 1
         /\ n + 1 \notin s => s \in SUBSET (1 .. n)
         /\ s # {} => Max(s) \in s /\ \A i \in s : i <= Max(s)
<1>1. IsFiniteSet(1 .. n + 1)
  BY FS_Interval
<1>2. IsFiniteSet(s) /\ s \subseteq Nat
  <2>1. IsFiniteSet(s)
    BY <1>1, FS_Subset
  <2>2. s \subseteq Nat
    OBVIOUS
  <2> QED BY <2>1, <2>2
<1>3. s # {} => Max(s) \in s /\ \A i \in s : i <= Max(s)
  BY <1>2, MaxExists
<1>4. ASSUME n + 1 \in s PROVE Max(s) = n + 1
  <2>1. Max(s) \in 1 .. n + 1 /\ n + 1 <= Max(s)
    BY <1>3, <1>4
  <2> QED BY <2>1
<1>5. n + 1 \notin s => s \in SUBSET (1 .. n)
  <2> SUFFICES ASSUME n + 1 \notin s, NEW i \in s PROVE i \in 1 .. n
    OBVIOUS
  <2>1. i \in 1 .. n + 1 /\ i # n + 1
    OBVIOUS
  <2> QED BY <2>1
<1> QED BY <1>3, <1>4, <1>5

\* That function exists.
LEMMA ReadingExists ==
  ASSUME NEW lines, NEW n \in Nat
  PROVE  \E g : ReadingUnfolds(g, lines, SUBSET (1 .. n))
<1> DEFINE N == {k \in Nat : \E g : ReadingUnfolds(g, lines, SUBSET (1 .. k))}
<1>1. 0 \in N
  <2>1. SUBSET (1 .. 0) = {{}}
    OBVIOUS
  <2> DEFINE g == [s \in {{}} |-> NewReader]
  <2>2. ReadingUnfolds(g, lines, {{}})
    BY DEF ReadingUnfolds
  <2> QED BY <2>1, <2>2
<1>2. ASSUME NEW k \in Nat, k \in N PROVE k + 1 \in N
  <2>1. PICK g : ReadingUnfolds(g, lines, SUBSET (1 .. k))
    BY <1>2
  <2> DEFINE h == [s \in SUBSET (1 .. k + 1) |->
                     IF k + 1 \in s THEN ReadLine(g[s \ {k + 1}], lines[k + 1]) ELSE g[s]]
  <2>2. ASSUME NEW s \in SUBSET (1 .. k + 1)
        PROVE  h[s] = IF s = {} THEN NewReader
                      ELSE LET m == Max(s) IN ReadLine(h[s \ {m}], lines[m])
    <3>0. \A t \in SUBSET (1 .. k) : t \in SUBSET (1 .. k + 1) /\ k + 1 \notin t
      OBVIOUS
    <3>1. CASE k + 1 \in s
      <4>1. Max(s) = k + 1
        BY <3>1, MaxOfPrefix
      <4>2. s \ {k + 1} \in SUBSET (1 .. k + 1) /\ k + 1 \notin s \ {k + 1}
        OBVIOUS
      <4>3. h[s \ {k + 1}] = g[s \ {k + 1}]
        BY <4>2
      <4>4. h[s] = ReadLine(g[s \ {k + 1}], lines[k + 1])
        BY <3>1
      <4> HIDE DEF h
      <4> QED BY <3>1, <4>1, <4>3, <4>4
    <3>2. CASE k + 1 \notin s
      <4>1. s \in SUBSET (1 .. k)
        BY <3>2, MaxOfPrefix
      <4>2. g[s] = IF s = {} THEN NewReader
                   ELSE LET m == Max(s) IN ReadLine(g[s \ {m}], lines[m])
        BY <2>1, <4>1 DEF ReadingUnfolds
      <4>3. s \ {Max(s)} \in SUBSET (1 .. k)
        BY <4>1
      <4>4. h[s] = g[s] /\ h[s \ {Max(s)}] = g[s \ {Max(s)}]
        BY <3>0, <3>2, <4>1, <4>3
      <4> HIDE DEF h
      <4> QED BY <4>2, <4>4
    <3> QED BY <3>1, <3>2
  <2>3. h = [s \in SUBSET (1 .. k + 1) |-> h[s]]
    OBVIOUS
  <2> HIDE DEF h
  <2>4. ReadingUnfolds(h, lines, SUBSET (1 .. k + 1))
    BY <2>2, <2>3, Zenon DEF ReadingUnfolds
  <2> QED BY <2>4
<1> HIDE DEF N
<1>3. Nat \subseteq N
  BY <1>1, <1>2, NaturalInduction
<1> QED BY <1>3 DEF N

\* So the fold is the last state of a run.
LEMMA FoldIsRun ==
  ASSUME NEW lines, Len(lines) \in Nat, DOMAIN lines = 1 .. Len(lines)
  PROVE  \E rs : /\ Run(rs, NewReader, lines)
                 /\ rs[Len(lines)] = FoldLeft(ReadLine, NewReader, lines)
<1> DEFINE n == Len(lines)
           g == CHOOSE f : ReadingUnfolds(f, lines, SUBSET (1 .. n))
           rs == [k \in 0 .. n |-> g[1 .. k]]
<1>1. ReadingUnfolds(g, lines, SUBSET (1 .. n))
  BY ReadingExists
<1>2. FoldLeft(ReadLine, NewReader, lines) = g[1 .. n]
  BY ReadingIsChosen
<1>3. ASSUME NEW s \in SUBSET (1 .. n)
      PROVE  g[s] = IF s = {} THEN NewReader
                    ELSE LET m == Max(s) IN ReadLine(g[s \ {m}], lines[m])
  BY <1>1 DEF ReadingUnfolds
<1> HIDE DEF g
<1>4. g[1 .. 0] = NewReader
  <2>1. 1 .. 0 = {} /\ {} \in SUBSET (1 .. n)
    OBVIOUS
  <2> QED BY <1>3, <2>1
<1>5. ASSUME NEW k \in 1 .. n PROVE g[1 .. k] = ReadLine(g[1 .. k - 1], lines[k])
  <2>1. k - 1 \in Nat /\ (k - 1) + 1 = k
    OBVIOUS
  <2>2. 1 .. k \in SUBSET (1 .. n) /\ 1 .. k # {} /\ k \in 1 .. k
    <3>1. k \in Nat /\ 1 <= k /\ k <= n
      OBVIOUS
    <3>2. k \in 1 .. k
      BY <3>1
    <3>3. \A i \in 1 .. k : i \in 1 .. n
      BY <3>1
    <3> QED BY <3>2, <3>3
  <2>3. Max(1 .. k) = k
    BY <2>1, <2>2, MaxOfPrefix
  <2>4. (1 .. k) \ {k} = 1 .. k - 1
    OBVIOUS
  <2> QED BY <1>3, <2>2, <2>3, <2>4
<1>6. rs[0] = NewReader /\ rs[n] = g[1 .. n]
  BY <1>4
<1>7. ASSUME NEW k \in 1 .. n PROVE rs[k] = ReadLine(rs[k - 1], lines[k])
  <2>1. k \in 0 .. n /\ k - 1 \in 0 .. n
    OBVIOUS
  <2> QED BY <1>5, <2>1
<1> HIDE DEF rs
<1> QED BY <1>2, <1>6, <1>7 DEF Run

\* The lines determine the run.
LEMMA RunsAgree ==
  ASSUME NEW lines, Len(lines) \in Nat, NEW from, NEW rs, NEW qs,
         Run(rs, from, lines), Run(qs, from, lines)
  PROVE  rs[Len(lines)] = qs[Len(lines)]
<1> DEFINE N == {k \in Nat : k <= Len(lines) => rs[k] = qs[k]}
<1>1. 0 \in N
  BY DEF Run
<1>2. ASSUME NEW k \in Nat, k \in N PROVE k + 1 \in N
  <2> SUFFICES ASSUME k + 1 <= Len(lines) PROVE rs[k + 1] = qs[k + 1]
    OBVIOUS
  <2>1. k + 1 \in 1 .. Len(lines) /\ (k + 1) - 1 = k /\ rs[k] = qs[k]
    BY <1>2
  <2> QED BY <2>1 DEF Run
<1> HIDE DEF N
<1>3. Nat \subseteq N
  BY <1>1, <1>2, NaturalInduction
<1> QED BY <1>3 DEF N

\* Reading the lines takes the reader from one state to another.
Reads(from, lines, to) == \E rs : Run(rs, from, lines) /\ rs[Len(lines)] = to

\* What is read of a file.
LEMMA FoldIsRead ==
  ASSUME NEW T, NEW lines \in Seq(T), NEW to, Reads(NewReader, lines, to)
  PROVE  FoldLeft(ReadLine, NewReader, lines) = to
<1>1. Len(lines) \in Nat /\ DOMAIN lines = 1 .. Len(lines)
  OBVIOUS
<1>2. PICK rs : Run(rs, NewReader, lines) /\ rs[Len(lines)] = to
  BY DEF Reads
<1>3. PICK qs : /\ Run(qs, NewReader, lines)
                /\ qs[Len(lines)] = FoldLeft(ReadLine, NewReader, lines)
  BY <1>1, FoldIsRun
<1> QED BY <1>1, <1>2, <1>3, RunsAgree

\* One sequence after another.
LEMMA Concatenation ==
  ASSUME NEW T, NEW s \in Seq(T), NEW t \in Seq(T)
  PROVE  /\ s \o t \in Seq(T)
         /\ Len(s) \in Nat /\ Len(t) \in Nat
         /\ Len(s \o t) = Len(s) + Len(t)
         /\ \A i \in 1 .. Len(s) : (s \o t)[i] = s[i]
         /\ \A i \in 1 .. Len(t) : (s \o t)[Len(s) + i] = t[i]
<1>1. Len(s) \in Nat /\ Len(t) \in Nat /\ Len(s \o t) = Len(s) + Len(t)
  OBVIOUS
<1>2. \A i \in 1 .. Len(s) : (s \o t)[i] = s[i]
  OBVIOUS
<1>3. ASSUME NEW i \in 1 .. Len(t) PROVE (s \o t)[Len(s) + i] = t[i]
  <2>1. Len(s) + i \in 1 .. Len(s) + Len(t) /\ ~(Len(s) + i <= Len(s)) /\ (Len(s) + i) - Len(s) = i
    BY <1>1
  <2> QED BY <2>1
<1>4. s \o t \in Seq(T)
  OBVIOUS
<1> QED BY <1>4, <1>1, <1>2, <1>3

\* One element before a sequence.
LEMMA Prepended ==
  ASSUME NEW T, NEW x \in T, NEW s \in Seq(T), NEW q, q = <<x>> \o s
  PROVE  /\ q \in Seq(T) /\ Len(q) = Len(s) + 1 /\ q[1] = x
         /\ \A i \in 1 .. Len(s) : q[i + 1] = s[i]
<1>1. PICK one : one = <<x>>
  OBVIOUS
<1>2. one \in Seq(T) /\ Len(one) = 1 /\ one[1] = x
  BY <1>1
<1>3. q = one \o s
  BY <1>1
<1>4. /\ q \in Seq(T) /\ Len(s) \in Nat /\ Len(q) = 1 + Len(s)
      /\ \A i \in 1 .. 1 : q[i] = one[i]
      /\ \A i \in 1 .. Len(s) : q[1 + i] = s[i]
  BY <1>2, <1>3, Concatenation
<1>5. \A i \in 1 .. Len(s) : 1 + i = i + 1
  BY <1>4
<1>6. q[1] = x
  <2>1. 1 \in 1 .. 1
    OBVIOUS
  <2> QED BY <1>2, <1>4, <2>1
<1>7. Len(q) = Len(s) + 1
  BY <1>4
<1> QED BY <1>4, <1>5, <1>6, <1>7

\* One part of a file after the other.
LEMMA ReadsOn ==
  ASSUME NEW T, NEW s \in Seq(T), NEW t \in Seq(T), NEW from, NEW mid, NEW to,
         Reads(from, s, mid), Reads(mid, t, to)
  PROVE  Reads(from, s \o t, to)
<1>1. PICK rs : Run(rs, from, s) /\ rs[Len(s)] = mid
  BY DEF Reads
<1>2. PICK qs : Run(qs, mid, t) /\ qs[Len(t)] = to
  BY DEF Reads
<1>3. /\ Len(s) \in Nat /\ Len(t) \in Nat
      /\ Len(s \o t) = Len(s) + Len(t)
      /\ \A i \in 1 .. Len(s) : (s \o t)[i] = s[i]
      /\ \A i \in 1 .. Len(t) : (s \o t)[Len(s) + i] = t[i]
  BY Concatenation
<1> DEFINE n == Len(s)
           u == s \o t
           ps == [k \in 0 .. Len(u) |-> IF k <= n THEN rs[k] ELSE qs[k - n]]
<1> HIDE DEF n, u
<1>4. n \in Nat /\ Len(t) \in Nat /\ Len(u) = n + Len(t)
  BY <1>3 DEF n, u
<1>5. ps[0] = from
  BY <1>1, <1>4 DEF Run
<1>6. ps[Len(u)] = to
  <2>1. CASE Len(t) = 0
    <3>1. ps[Len(u)] = rs[n] BY <1>4, <2>1
    <3>2. qs[0] = mid /\ qs[0] = to BY <1>2, <2>1 DEF Run
    <3> QED BY <1>1, <3>1, <3>2 DEF n
  <2>2. CASE Len(t) # 0
    <3>1. Len(u) \in 0 .. Len(u) /\ ~ (Len(u) <= n) /\ Len(u) - n = Len(t)
      BY <1>4, <2>2
    <3>2. ps[Len(u)] = qs[Len(t)] BY <3>1
    <3> QED BY <1>2, <3>2
  <2> QED BY <2>1, <2>2
<1>7. ASSUME NEW i \in 1 .. Len(u) PROVE ps[i] = ReadLine(ps[i - 1], u[i])
  <2>0. i \in 0 .. Len(u) /\ i - 1 \in 0 .. Len(u) /\ i \in Nat
    BY <1>4
  <2>1. CASE i <= n
    <3>1. i \in 1 .. n /\ i - 1 <= n BY <1>4, <2>1
    <3>2. u[i] = s[i] /\ rs[i] = ReadLine(rs[i - 1], s[i])
      BY <1>1, <1>3, <3>1 DEF Run, n, u
    <3>3. ps[i] = rs[i] /\ ps[i - 1] = rs[i - 1]
      BY <2>0, <2>1, <3>1
    <3> QED BY <3>2, <3>3
  <2>2. CASE ~ (i <= n)
    <3>1. i - n \in 1 .. Len(t) /\ n + (i - n) = i BY <1>4, <2>2
    <3>2. u[i] = t[i - n] /\ qs[i - n] = ReadLine(qs[(i - n) - 1], t[i - n])
      BY <1>2, <1>3, <3>1 DEF Run, n, u
    <3>3. ps[i] = qs[i - n]
      BY <2>0, <2>2
    <3>4. ps[i - 1] = qs[(i - n) - 1]
      <4>1. CASE i - 1 <= n
        <5>1. i - 1 = n /\ (i - n) - 1 = 0 BY <1>4, <2>0, <2>2, <4>1
        <5>2. ps[i - 1] = rs[n] BY <2>0, <4>1, <5>1
        <5>3. qs[(i - n) - 1] = mid BY <1>2, <5>1 DEF Run
        <5> QED BY <1>1, <5>2, <5>3 DEF n
      <4>2. CASE ~ (i - 1 <= n)
        <5>1. (i - 1) - n = (i - n) - 1 BY <1>4, <2>0
        <5>2. ps[i - 1] = qs[(i - 1) - n] BY <2>0, <4>2
        <5> QED BY <5>1, <5>2
      <4> QED BY <4>1, <4>2
    <3> QED BY <3>2, <3>3, <3>4
  <2> QED BY <2>1, <2>2
<1> HIDE DEF ps
<1>8. Run(ps, from, u) /\ ps[Len(u)] = to
  BY <1>5, <1>6, <1>7 DEF Run
<1> QED BY <1>8 DEF Reads, u

\* One line.
LEMMA ReadsLine ==
  ASSUME NEW from, NEW line
  PROVE  Reads(from, <<line>>, ReadLine(from, line))
<1> DEFINE rs == [k \in 0 .. 1 |-> IF k = 0 THEN from ELSE ReadLine(from, line)]
<1>1. Len(<<line>>) = 1 /\ <<line>>[1] = line
  OBVIOUS
<1>2. rs[0] = from /\ rs[1] = ReadLine(from, line)
  OBVIOUS
<1> HIDE DEF rs
<1>3. Run(rs, from, <<line>>)
  BY <1>1, <1>2 DEF Run
<1> QED BY <1>1, <1>2, <1>3 DEF Reads

\* No line at all.
LEMMA ReadsNothing ==
  ASSUME NEW from
  PROVE  Reads(from, <<>>, from)
<1> DEFINE rs == [k \in {0} |-> from]
<1>1. Run(rs, from, <<>>) /\ rs[Len(<<>>)] = from
  BY DEF Run
<1> QED BY <1>1 DEF Reads

(***************************************************************************)
(* The text of a checkpoint.                                               *)
(***************************************************************************)

\* The tags of the sections are eleven different ones, the last not optional.
LEMMA TagsAreDistinct ==
  /\ Len(SectionTags) = 11 /\ DOMAIN SectionTags = 1 .. 11
  /\ \A i \in 1 .. 11 : SectionTags[i] \in Range(SectionTags)
  /\ \A t \in Range(SectionTags) : \E i \in 1 .. 11 : t = SectionTags[i]
  /\ \A i, j \in 1 .. 11 : SectionTags[i] = SectionTags[j] => i = j
  /\ SectionTags[11] \notin OptionalTags
  /\ {"symbols", "metadata"} \subseteq Range(SectionTags)
<1>1. Len(SectionTags) = 11 /\ DOMAIN SectionTags = 1 .. 11
  BY DEF SectionTags
<1>2. \A i \in 1 .. 11 : SectionTags[i] \in Range(SectionTags)
  BY <1>1 DEF Range
<1>3. \A t \in Range(SectionTags) : \E i \in 1 .. 11 : t = SectionTags[i]
  BY <1>1 DEF Range
<1>0. /\ SectionTags[1] = "symbols" /\ SectionTags[2] = "idempotency"
      /\ SectionTags[3] = "public_sequences" /\ SectionTags[4] = "mark_prices"
      /\ SectionTags[5] = "funding_rates" /\ SectionTags[6] = "settled_funding_intervals"
      /\ SectionTags[7] = "positions" /\ SectionTags[8] = "risk_states"
      /\ SectionTags[9] = "metadata" /\ SectionTags[10] = "processed_input_ids"
      /\ SectionTags[11] = "processed_idempotency_keys"
  BY DEF SectionTags
<1>9. \A i \in 1 .. 11 : \/ i = 1 \/ i = 2 \/ i = 3 \/ i = 4 \/ i = 5 \/ i = 6
                         \/ i = 7 \/ i = 8 \/ i = 9 \/ i = 10 \/ i = 11
  OBVIOUS
<1> DEFINE Index(t) ==
             IF t = "symbols" THEN 1 ELSE IF t = "idempotency" THEN 2
             ELSE IF t = "public_sequences" THEN 3 ELSE IF t = "mark_prices" THEN 4
             ELSE IF t = "funding_rates" THEN 5
             ELSE IF t = "settled_funding_intervals" THEN 6
             ELSE IF t = "positions" THEN 7 ELSE IF t = "risk_states" THEN 8
             ELSE IF t = "metadata" THEN 9 ELSE IF t = "processed_input_ids" THEN 10
             ELSE 11
<1>5. \A i \in 1 .. 11 : Index(SectionTags[i]) = i
  BY <1>0, <1>9
<1> HIDE DEF Index
<1>6. \A i, j \in 1 .. 11 : SectionTags[i] = SectionTags[j] => i = j
  BY <1>5
<1>7. SectionTags[11] \notin OptionalTags /\ SectionTags[1] = "symbols" /\ SectionTags[9] = "metadata"
  BY DEF SectionTags, OptionalTags
<1>8. {"symbols", "metadata"} \subseteq Range(SectionTags)
  BY <1>2, <1>7
<1> QED BY <1>1, <1>2, <1>3, <1>6, <1>7, <1>8

\* The elements of a finite set, one after the other.
LEMMA SetToSeqLists ==
  ASSUME NEW S, IsFiniteSet(S), NEW e, e = SetToSeq(S)
  PROVE  /\ Cardinality(S) \in Nat /\ e \in Seq(S) /\ Len(e) = Cardinality(S)
         /\ \A i \in 1 .. Len(e) : e[i] \in S
         /\ \A i, j \in 1 .. Len(e) : e[i] = e[j] => i = j
         /\ \A x \in S : \E i \in 1 .. Len(e) : e[i] = x
<1> DEFINE n == Cardinality(S)
<1>1. n \in Nat
  BY FS_CardinalityType
<1>2. PICK f \in Bijection(1 .. n, S) : TRUE
  BY FS_CardinalityType, Zenon DEF ExistsBijection
<1>3. f \in [1 .. n -> S] /\ \A a, b \in 1 .. n : f[a] = f[b] => a = b
  BY <1>2 DEF Bijection, Injection, IsInjective
<1>4. IsInjective(f)
  BY <1>3 DEF IsInjective
<1>5. e \in [1 .. n -> S] /\ IsInjective(e)
  BY <1>3, <1>4, Zenon DEF SetToSeq
<1>6. e \in Seq(S) /\ Len(e) = n /\ DOMAIN e = 1 .. n
  BY <1>1, <1>5
<1>7. \A i, j \in 1 .. n : e[i] = e[j] => i = j
  BY <1>5, <1>6 DEF IsInjective
<1>8. \A x \in S : \E i \in 1 .. n : e[i] = x
  <2>1. e \in Injection(1 .. n, S)
    BY <1>5, <1>7 DEF Injection, IsInjective
  <2>2. IsFiniteSet(1 .. n) /\ Cardinality(1 .. n) = n
    BY <1>1, FS_Interval
  <2>3. e \in Surjection(1 .. n, S)
    BY <2>1, <2>2, FS_Injection
  <2> QED BY <2>3 DEF Surjection
<1> QED BY <1>1, <1>5, <1>6, <1>7, <1>8

\* f[i] is the first i sequences, one after the other.
Concatenates(f, seqs) ==
  /\ f[1] = seqs[1]
  /\ \A i \in 2 .. Len(seqs) : f[i] = f[i - 1] \o seqs[i]

\* The sequences concatenated one by one.
LEMMA FlattenUnfolds ==
  ASSUME NEW T, NEW seqs \in Seq(Seq(T)), Len(seqs) >= 1
  PROVE  \E f : Concatenates(f, seqs) /\ FlattenSeq(seqs) = f[Len(seqs)]
<1> DEFINE n == Len(seqs)
           Unfolded(f, k) == f = [i \in 1 .. k |-> IF i = 1 THEN seqs[i] ELSE f[i - 1] \o seqs[i]]
           N == {k \in Nat : \E f : Unfolded(f, k)}
<1>0. n \in Nat /\ n >= 1
  OBVIOUS
<1>1. 0 \in N
  <2> DEFINE f == [i \in 1 .. 0 |-> seqs[i]]
  <2>1. f = [i \in 1 .. 0 |-> IF i = 1 THEN seqs[i] ELSE f[i - 1] \o seqs[i]]
    OBVIOUS
  <2> HIDE DEF f
  <2> QED BY <2>1
<1>2. ASSUME NEW k \in Nat, k \in N PROVE k + 1 \in N
  <2>1. PICK f : Unfolded(f, k)
    BY <1>2
  <2> DEFINE g == [i \in 1 .. k + 1 |-> IF i = 1 THEN seqs[i] ELSE f[i - 1] \o seqs[i]]
  <2>2. ASSUME NEW i \in 1 .. k + 1
        PROVE  g[i] = IF i = 1 THEN seqs[i] ELSE g[i - 1] \o seqs[i]
    <3>1. CASE i = 1
      BY <3>1
    <3>2. CASE i # 1
      <4>1. i - 1 \in 1 .. k /\ i - 1 \in 1 .. k + 1
        BY <3>2
      <4>2. f[i - 1] = IF i - 1 = 1 THEN seqs[i - 1] ELSE f[(i - 1) - 1] \o seqs[i - 1]
        BY <2>1, <4>1
      <4>3. g[i - 1] = IF i - 1 = 1 THEN seqs[i - 1] ELSE f[(i - 1) - 1] \o seqs[i - 1]
        BY <4>1
      <4>4. g[i] = f[i - 1] \o seqs[i]
        BY <3>2
      <4> HIDE DEF g
      <4> QED BY <3>2, <4>2, <4>3, <4>4
    <3> QED BY <3>1, <3>2
  <2>3. g = [i \in 1 .. k + 1 |-> g[i]]
    OBVIOUS
  <2> HIDE DEF g
  <2>4. Unfolded(g, k + 1)
    BY <2>2, <2>3
  <2> HIDE DEF Unfolded
  <2> QED BY <2>4
<1>3. Nat \subseteq N
  <2> HIDE DEF N
  <2> QED BY <1>1, <1>2, NaturalInduction
<1> DEFINE f == CHOOSE h : Unfolded(h, n)
<1>4. Unfolded(f, n)
  <2> HIDE DEF Unfolded
  <2> QED BY <1>0, <1>3
<1>5. FlattenSeq(seqs) = f[n]
  BY <1>0, n # 0 DEF FlattenSeq
<1> HIDE DEF f
<1>6. ASSUME NEW i \in 1 .. n PROVE f[i] = IF i = 1 THEN seqs[i] ELSE f[i - 1] \o seqs[i]
  BY <1>4
<1> HIDE DEF Unfolded
<1>7. f[1] = seqs[1]
  BY <1>0, <1>6
<1>8. ASSUME NEW i \in 2 .. n PROVE f[i] = f[i - 1] \o seqs[i]
  <2>1. i \in 1 .. n /\ i # 1
    BY <1>0
  <2> QED BY <1>6, <2>1
<1> QED BY <1>5, <1>7, <1>8 DEF Concatenates

(***************************************************************************)
(* Reading one section.                                                    *)
(***************************************************************************)

\* The sections that have been read up to the i-th, if the file has those
\* whose tags are in T.
SectionsRead(c, T, i) ==
  [t \in Range(SectionTags) |->
     IF t \in T /\ \E j \in 1 .. i : SectionTags[j] = t
     THEN WrittenEntries(c.sections, t) ELSE {}]

\* The reader within a section: next is expected after it, left entries are to
\* come.
Reading(c, next, tag, left, sections) ==
  [status |-> "reading", expect |-> next, tag |-> tag, left |-> left,
   position |-> c.position, sections |-> sections]

\* The file has none of the sections from the first to the last.
LeftOut(T, first, last) == \A j \in first .. last : SectionTags[j] \notin T

Tag(i) == SectionTags[i]

\* The reader has read the sections up to the i-th.
Ready(r, c, T, i) ==
  \E next \in 1 .. i + 1, tag \in Range(SectionTags) \cup {"header"} :
    /\ LeftOut(T, next, i)
    /\ r = Reading(c, next, tag, 0, SectionsRead(c, T, i))

\* The sections a file has: all but optional ones.
AllowedTags(T) ==
  /\ T \subseteq Range(SectionTags)
  /\ \A t \in Range(SectionTags) : t \notin OptionalTags => t \in T

\* What is written of a section are finitely many keys.
LEMMA WrittenIsFinite ==
  ASSUME NEW sections \in Sections, NEW t \in Range(SectionTags)
  PROVE  /\ WrittenEntries(sections, t) \subseteq Ids
         /\ WrittenEntries(sections, t) \subseteq Nat
         /\ IsFiniteSet(WrittenEntries(sections, t))
<1>1. sections["metadata"] \in SUBSET Ids /\ sections["symbols"] \in SUBSET Ids
  BY TagsAreDistinct DEF Sections
<1>2. sections[t] \in SUBSET Ids
  BY DEF Sections
<1>3. WrittenEntries(sections, t) \subseteq Ids
  BY <1>1, <1>2 DEF WrittenEntries
<1> QED BY <1>3, CodecAssumption, FS_Subset

\* The lines of a section: how many entries, then each of them once.
LEMMA SectionForm ==
  ASSUME NEW sections \in Sections, NEW t \in Range(SectionTags),
         NEW e, e = SetToSeq(WrittenEntries(sections, t))
  PROVE  LET lines == SectionLines(sections, t)
         IN  /\ lines \in Seq(Lines) /\ Len(e) \in Nat /\ Len(lines) = Len(e) + 1
             /\ lines[1] = Line(t, "count", Len(e))
             /\ \A i \in 1 .. Len(e) : lines[i + 1] = Line(t, "entry", e[i]) /\ e[i] \in Nat
             /\ \A i \in 1 .. Len(lines) : lines[i].kind # "end"
             /\ \A i, j \in 1 .. Len(e) : e[i] = e[j] => i = j
             /\ {e[i] : i \in 1 .. Len(e)} = WrittenEntries(sections, t)
<1> DEFINE W == WrittenEntries(sections, t)
           lines == SectionLines(sections, t)
           rest == [i \in DOMAIN e |-> Line(t, "entry", e[i])]
<1>1. W \subseteq Nat /\ IsFiniteSet(W)
  BY WrittenIsFinite
<1>2. /\ e \in Seq(W) /\ Len(e) \in Nat
      /\ \A i \in 1 .. Len(e) : e[i] \in W
      /\ \A i, j \in 1 .. Len(e) : e[i] = e[j] => i = j
      /\ \A x \in W : \E i \in 1 .. Len(e) : e[i] = x
  <2> HIDE DEF W
  <2> QED BY <1>1, SetToSeqLists DEF W
<1>3. DOMAIN e = 1 .. Len(e)
  BY <1>2
<1>4. lines = <<Line(t, "count", Len(e))>> \o rest
  BY DEF SectionLines
<1> HIDE DEF W, lines
<1>5. Line(t, "count", Len(e)) \in Lines /\ Line(t, "count", Len(e)).kind # "end"
  BY <1>2 DEF Line, Lines
<1>6. \A i \in 1 .. Len(e) : /\ rest[i] = Line(t, "entry", e[i]) /\ rest[i] \in Lines
                             /\ rest[i].kind # "end" /\ e[i] \in Nat
  BY <1>1, <1>2, <1>3 DEF Line, Lines
<1>7. rest \in Seq(Lines) /\ Len(rest) = Len(e)
  BY <1>2, <1>3, <1>6
<1> HIDE DEF rest
<1>9. /\ lines \in Seq(Lines) /\ Len(lines) = Len(rest) + 1
      /\ lines[1] = Line(t, "count", Len(e))
      /\ \A i \in 1 .. Len(rest) : lines[i + 1] = rest[i]
  BY <1>4, <1>5, <1>7, Prepended
<1>10. Len(lines) = Len(e) + 1 /\ \A i \in 1 .. Len(e) : lines[i + 1] = rest[i]
  BY <1>7, <1>9
<1>11. \A i \in 1 .. Len(lines) : lines[i].kind # "end"
  <2> TAKE i \in 1 .. Len(lines)
  <2>1. i = 1 \/ (i - 1 \in 1 .. Len(e) /\ (i - 1) + 1 = i)
    BY <1>2, <1>10
  <2> QED BY <1>5, <1>6, <1>9, <1>10, <2>1
<1>12. {e[i] : i \in 1 .. Len(e)} = W
  BY <1>2
<1> QED BY <1>2, <1>6, <1>9, <1>10, <1>11, <1>12 DEF W, lines

\* Which part of the reader reads a line.
LEMMA ReadLineCases ==
  ASSUME NEW r, NEW line, r.status = "reading", r.left \in Nat, r.expect \in Nat
  PROVE  ReadLine(r, line) =
           IF r.left > 0 THEN ReadEntry(r, line)
           ELSE IF r.expect = 0 THEN ReadHeader(r, line)
           ELSE IF r.expect > 11 THEN ReadEnd(r, line)
           ELSE ReadCount(r, line)
<1>1. Len(SectionTags) = 11
  BY TagsAreDistinct
<1> QED BY <1>1 DEF ReadLine

\* The section that comes next is the one whose count follows.
LEMMA CountIsRead ==
  ASSUME NEW c, NEW T, AllowedTags(T), NEW i \in Nat, i \in 1 .. 11,
         NEW next \in Nat, next \in 1 .. i, LeftOut(T, next, i - 1),
         NEW tag, NEW sections, NEW n \in Nat
  PROVE  ReadLine(Reading(c, next, tag, 0, sections), Line(Tag(i), "count", n))
           = Reading(c, i + 1, Tag(i), n, sections)
<1> DEFINE t == Tag(i)
           r == Reading(c, next, tag, 0, sections)
           line == Line(t, "count", n)
<1>1. /\ r.status = "reading" /\ r.left = 0 /\ r.expect = next /\ r.expect \in Nat
      /\ line.tag = t /\ line.kind = "count" /\ line.value = n
  BY DEF Reading, Line
<1>2. ReadLine(r, line) = ReadCount(r, line)
  <2> HIDE DEF r, line
  <2> QED BY <1>1, ReadLineCases
<1>3. SectionsNext(r, line) = {i}
  <2>1. Len(SectionTags) = 11 BY TagsAreDistinct
  <2>2. i \in SectionsNext(r, line)
    <3>1. i \in next .. 11 BY <2>1
    <3>2. ASSUME NEW j \in next .. i - 1 PROVE SectionTags[j] \in OptionalTags
      <4>1. j \in 1 .. 11 BY <1>1
      <4>2. SectionTags[j] \notin T
        BY DEF LeftOut
      <4> QED BY <4>1, <4>2, TagsAreDistinct DEF AllowedTags
    <3> HIDE DEF r, line
    <3> QED BY <1>1, <2>1, <3>1, <3>2 DEF SectionsNext, Tag
  <2>3. ASSUME NEW j \in SectionsNext(r, line) PROVE j = i
    <3> HIDE DEF r, line
    <3>1. j \in next .. 11 /\ SectionTags[j] = t
      BY <1>1, <2>1 DEF SectionsNext, Tag
    <3>2. j \in 1 .. 11 BY <3>1
    <3>3. SectionTags[j] = SectionTags[i] BY <3>1 DEF Tag
    <3> QED BY <3>2, <3>3, TagsAreDistinct
  <2> QED BY <2>2, <2>3
<1>4. Max({i}) = i
  <2>0. IsFiniteSet({i})
    BY FS_Singleton
  <2>1. {i} # {} /\ {i} \subseteq Nat
    OBVIOUS
  <2>2. Max({i}) \in {i}
    BY <2>0, <2>1, MaxExists
  <2> QED BY <2>2
<1>5. ReadCount(r, line) = [r EXCEPT !.expect = i + 1, !.tag = t, !.left = n]
  <2> HIDE DEF r, line
  <2> QED BY <1>1, <1>3, <1>4 DEF ReadCount
<1>6. [r EXCEPT !.expect = i + 1, !.tag = t, !.left = n] = Reading(c, i + 1, t, n, sections)
  <2>1. [r EXCEPT !.expect = i + 1, !.tag = t, !.left = n]
          = [[[r EXCEPT !.expect = i + 1] EXCEPT !.tag = t] EXCEPT !.left = n]
    BY DEF Reading
  <2>2. [r EXCEPT !.expect = i + 1] = Reading(c, i + 1, tag, 0, sections)
    BY DEF Reading
  <2>3. [Reading(c, i + 1, tag, 0, sections) EXCEPT !.tag = t] = Reading(c, i + 1, t, 0, sections)
    BY DEF Reading
  <2>4. [Reading(c, i + 1, t, 0, sections) EXCEPT !.left = n] = Reading(c, i + 1, t, n, sections)
    BY DEF Reading
  <2> QED BY <2>1, <2>2, <2>3, <2>4
<1> QED BY <1>2, <1>5, <1>6

\* One entry that is not there yet.
LEMMA EntryIsRead ==
  ASSUME NEW c, NEW t, NEW next \in Nat, NEW n \in Nat, n > 0,
         NEW before, NEW x, x \notin before[t],
         NEW after, after = [before EXCEPT ![t] = before[t] \cup {x}]
  PROVE  ReadLine(Reading(c, next, t, n, before), Line(t, "entry", x))
           = Reading(c, next, t, n - 1, after)
<1> DEFINE r == Reading(c, next, t, n, before)
           line == Line(t, "entry", x)
<1>1. /\ r.status = "reading" /\ r.left = n /\ r.expect = next /\ r.tag = t
      /\ r.sections = before
      /\ line.tag = t /\ line.kind = "entry" /\ line.value = x
  BY DEF Reading, Line
<1>2. ReadLine(r, line) = ReadEntry(r, line)
  <2> HIDE DEF r, line
  <2> QED BY <1>1, ReadLineCases
<1>3. [r EXCEPT !.sections[t] = @ \cup {x}, !.left = @ - 1]
        = [r EXCEPT !.sections = after, !.left = n - 1]
  BY DEF Reading
<1>4. ReadEntry(r, line) = [r EXCEPT !.sections = after, !.left = n - 1]
  <2> HIDE DEF r, line
  <2> QED BY <1>1, <1>3 DEF ReadEntry
<1>5. [r EXCEPT !.sections = after, !.left = n - 1] = Reading(c, next, t, n - 1, after)
  <2>1. [r EXCEPT !.sections = after, !.left = n - 1]
          = [[r EXCEPT !.sections = after] EXCEPT !.left = n - 1]
    BY DEF Reading
  <2>2. [r EXCEPT !.sections = after] = Reading(c, next, t, n, after)
    BY DEF Reading
  <2>3. [Reading(c, next, t, n, after) EXCEPT !.left = n - 1] = Reading(c, next, t, n - 1, after)
    BY DEF Reading
  <2> QED BY <2>1, <2>2, <2>3
<1> QED BY <1>2, <1>4, <1>5

\* A section that the file has takes the reader to the next one.
LEMMA SectionIsRead ==
  ASSUME NEW c, c.sections \in Sections, NEW T, AllowedTags(T), NEW i \in 1 .. 11,
         Tag(i) \in T, NEW r, Ready(r, c, T, i - 1)
  PROVE  \E q : Reads(r, SectionLines(c.sections, Tag(i)), q) /\ Ready(q, c, T, i)
<1> DEFINE t == Tag(i)
           e == SetToSeq(WrittenEntries(c.sections, t))
           n == Len(e)
           lines == SectionLines(c.sections, t)
           before == SectionsRead(c, T, i - 1)
           after == SectionsRead(c, T, i)
<1>1. t \in Range(SectionTags)
  BY TagsAreDistinct DEF Tag
<1>2. /\ lines \in Seq(Lines) /\ n \in Nat /\ Len(lines) = n + 1
      /\ lines[1] = Line(t, "count", n)
      /\ \A j \in 1 .. n : lines[j + 1] = Line(t, "entry", e[j])
      /\ \A j, k \in 1 .. n : e[j] = e[k] => j = k
      /\ {e[j] : j \in 1 .. n} = WrittenEntries(c.sections, t)
  BY <1>1, SectionForm
<1>3. PICK next \in 1 .. (i - 1) + 1, tag \in Range(SectionTags) \cup {"header"} :
        /\ LeftOut(T, next, i - 1)
        /\ r = Reading(c, next, tag, 0, before)
  BY Zenon DEF Ready
<1>4. next \in 1 .. i
  OBVIOUS
<1> HIDE DEF e, n, lines
<1> DEFINE Seen(k) == {e[j] : j \in 1 .. k}
           Filled(k) == [before EXCEPT ![t] = Seen(k)]
           Within(k) == Reading(c, i + 1, t, n - k, Filled(k))
           rs == [m \in 0 .. n + 1 |-> IF m = 0 THEN r ELSE Within(m - 1)]
<1>5. /\ before = [u \in Range(SectionTags) |-> before[u]] /\ before[t] = {}
      /\ [before EXCEPT ![t] = WrittenEntries(c.sections, t)] = after
  <2>1. DOMAIN before = Range(SectionTags) /\ DOMAIN after = Range(SectionTags)
    BY DEF SectionsRead
  <2>2. ~ \E j \in 1 .. i - 1 : SectionTags[j] = t
    <3> SUFFICES ASSUME NEW j \in 1 .. i - 1, SectionTags[j] = t PROVE FALSE
      BY DEF Tag
    <3>1. j \in 1 .. 11 /\ j # i
      OBVIOUS
    <3> QED BY <3>1, TagsAreDistinct DEF Tag
  <2>3. before[t] = {}
    BY <1>1, <2>2 DEF SectionsRead
  <2>4. after[t] = WrittenEntries(c.sections, t)
    <3>1. i \in 1 .. i
      OBVIOUS
    <3> QED BY <1>1, <3>1 DEF SectionsRead, Tag
  <2>5. ASSUME NEW u \in Range(SectionTags), u # t PROVE after[u] = before[u]
    <3>1. (\E j \in 1 .. i : SectionTags[j] = u) <=> (\E j \in 1 .. i - 1 : SectionTags[j] = u)
      <4>1. ASSUME NEW j \in 1 .. i, SectionTags[j] = u PROVE j \in 1 .. i - 1
        <5>1. j # i
          BY <2>5, <4>1 DEF Tag
        <5> QED BY <5>1
      <4>2. \A j \in 1 .. i - 1 : j \in 1 .. i
        OBVIOUS
      <4> QED BY <4>1, <4>2
    <3> QED BY <3>1 DEF SectionsRead
  <2>6. [before EXCEPT ![t] = WrittenEntries(c.sections, t)] = after
    <3>1. after = [u \in Range(SectionTags) |-> after[u]]
      BY DEF SectionsRead
    <3>2. [before EXCEPT ![t] = WrittenEntries(c.sections, t)]
            = [u \in Range(SectionTags) |-> IF u = t THEN WrittenEntries(c.sections, t) ELSE before[u]]
      <4> HIDE DEF before, t
      <4> QED BY <1>1, <2>1
    <3> HIDE DEF before, after, t
    <3> QED BY <2>4, <2>5, <3>1, <3>2
  <2>7. before = [u \in Range(SectionTags) |-> before[u]]
    BY DEF SectionsRead
  <2> QED BY <2>3, <2>6, <2>7
<1> HIDE DEF before, after, t
<1>6. rs[0] = r /\ rs[1] = Within(0)
  BY <1>2
<1>7. \A k \in 1 .. n : rs[k] = Within(k - 1) /\ rs[k + 1] = Within(k)
  <2> TAKE k \in 1 .. n
  <2>1. k \in 0 .. n + 1 /\ k # 0 /\ k + 1 \in 0 .. n + 1 /\ k + 1 # 0 /\ (k + 1) - 1 = k
    BY <1>2
  <2> HIDE DEF Within
  <2> QED BY <2>1
<1>8. ReadLine(r, lines[1]) = Within(0)
  <2>1. ReadLine(r, Line(t, "count", n)) = Reading(c, i + 1, t, n, before)
    <3>1. n \in Nat
      BY <1>2
    <3> HIDE DEF Within, rs
    <3> QED BY <1>3, <1>4, <3>1, CountIsRead DEF t
  <2>2. Seen(0) = {} /\ n - 0 = n
    BY <1>2
  <2>3. [before EXCEPT ![t] = {}] = before
    BY <1>5
  <2> QED BY <1>2, <2>1, <2>2, <2>3
<1>9. ASSUME NEW k \in 1 .. n PROVE ReadLine(Within(k - 1), lines[k + 1]) = Within(k)
  <2>1. n - (k - 1) \in Nat /\ n - (k - 1) > 0 /\ (n - (k - 1)) - 1 = n - k /\ i + 1 \in Nat
    BY <1>2
  <2>2. e[k] \notin Seen(k - 1)
    <3> SUFFICES ASSUME NEW j \in 1 .. k - 1, e[j] = e[k] PROVE FALSE
      OBVIOUS
    <3>1. j \in 1 .. n /\ j # k
      BY <1>2
    <3> QED BY <1>2, <3>1
  <2>3. Seen(k) = Seen(k - 1) \cup {e[k]}
    <3>1. 1 .. k = (1 .. k - 1) \cup {k}
      BY <1>2
    <3> QED BY <3>1
  <2> HIDE DEF Seen
  <2>4. Filled(k - 1)[t] = Seen(k - 1)
    BY <1>1, <1>5
  <2>5. Filled(k) = [Filled(k - 1) EXCEPT ![t] = Seen(k - 1) \cup {e[k]}]
    BY <1>1, <1>5, <2>3
  <2> HIDE DEF Filled
  <2>6. ReadLine(Reading(c, i + 1, t, n - (k - 1), Filled(k - 1)), Line(t, "entry", e[k]))
          = Reading(c, i + 1, t, (n - (k - 1)) - 1, Filled(k))
    BY <2>1, <2>2, <2>4, <2>5, EntryIsRead
  <2> QED BY <1>2, <2>1, <2>6
<1>10. Within(n) = Reading(c, i + 1, t, 0, after)
  <2>1. n - n = 0
    BY <1>2
  <2> QED BY <1>2, <1>5, <2>1
<1>11. Ready(Within(n), c, T, i)
  <2>1. i + 1 \in 1 .. i + 1 /\ (i + 1) .. i = {}
    OBVIOUS
  <2> HIDE DEF Within
  <2> QED BY <1>1, <1>10, <2>1 DEF Ready, LeftOut, after
<1> HIDE DEF rs, Within
<1>12. Run(rs, r, lines)
  <2>1. ASSUME NEW m \in 1 .. n + 1 PROVE rs[m] = ReadLine(rs[m - 1], lines[m])
    <3>1. CASE m = 1
      BY <1>6, <1>8, <3>1
    <3>2. CASE m # 1
      <4>1. m - 1 \in 1 .. n /\ (m - 1) + 1 = m
        BY <1>2, <3>2
      <4> QED BY <1>7, <1>9, <4>1
    <3> QED BY <3>1, <3>2
  <2> QED BY <1>2, <1>6, <2>1 DEF Run
<1>13. rs[Len(lines)] = Within(n)
  <2>1. n = 0 \/ n \in 1 .. n
    BY <1>2
  <2> QED BY <1>2, <1>6, <1>7, <2>1
<1> QED BY <1>11, <1>12, <1>13 DEF Reads, lines, t

\* The lines of the i-th section, none if the file does not have it.
PartAt(c, T, i) == IF Tag(i) \in T THEN SectionLines(c.sections, Tag(i)) ELSE <<>>

\* What the sections of a file are read as.
LEMMA PartIsRead ==
  ASSUME NEW c, c.sections \in Sections, NEW T, AllowedTags(T),
         NEW i \in Nat, i \in 1 .. 11, NEW r, Ready(r, c, T, i - 1)
  PROVE  \E q : Reads(r, PartAt(c, T, i), q) /\ Ready(q, c, T, i)
<1>1. CASE Tag(i) \in T
  BY <1>1, SectionIsRead DEF PartAt
<1>2. CASE Tag(i) \notin T
  <2>1. Reads(r, PartAt(c, T, i), r)
    BY <1>2, ReadsNothing DEF PartAt
  <2>2. PICK next \in 1 .. (i - 1) + 1, tag \in Range(SectionTags) \cup {"header"} :
          /\ LeftOut(T, next, i - 1)
          /\ r = Reading(c, next, tag, 0, SectionsRead(c, T, i - 1))
    BY Zenon DEF Ready
  <2>3. next \in 1 .. i + 1
    OBVIOUS
  <2>4. LeftOut(T, next, i)
    <3> SUFFICES ASSUME NEW j \in next .. i PROVE SectionTags[j] \notin T
      BY DEF LeftOut
    <3>1. j = i \/ j \in next .. i - 1
      OBVIOUS
    <3> QED BY <1>2, <2>2, <3>1 DEF LeftOut, Tag
  <2>5. SectionsRead(c, T, i) = SectionsRead(c, T, i - 1)
    <3> SUFFICES ASSUME NEW t \in Range(SectionTags)
                 PROVE  (t \in T /\ \E j \in 1 .. i : SectionTags[j] = t)
                          <=> (t \in T /\ \E j \in 1 .. i - 1 : SectionTags[j] = t)
      BY DEF SectionsRead
    <3>1. ASSUME NEW j \in 1 .. i, SectionTags[j] = t, t \in T PROVE j \in 1 .. i - 1
      <4>1. j # i
        BY <1>2, <3>1 DEF Tag
      <4> QED BY <4>1
    <3>2. \A j \in 1 .. i - 1 : j \in 1 .. i
      OBVIOUS
    <3> QED BY <3>1, <3>2
  <2>6. Ready(r, c, T, i)
    BY <2>2, <2>3, <2>4, <2>5, Zenon DEF Ready
  <2> QED BY <2>1, <2>6
<1> QED BY <1>1, <1>2

\* The lines of a section are lines.
LEMMA PartIsLines ==
  ASSUME NEW c, c.sections \in Sections, NEW T, NEW i \in 1 .. 11
  PROVE  /\ PartAt(c, T, i) \in Seq(Lines)
         /\ \A j \in 1 .. Len(PartAt(c, T, i)) : PartAt(c, T, i)[j].kind # "end"
<1>1. CASE Tag(i) \in T
  <2>1. Tag(i) \in Range(SectionTags)
    BY TagsAreDistinct DEF Tag
  <2>2. PICK e : e = SetToSeq(WrittenEntries(c.sections, Tag(i)))
    OBVIOUS
  <2> QED BY <1>1, <2>1, <2>2, SectionForm DEF PartAt
<1>2. CASE Tag(i) \notin T
  BY <1>2 DEF PartAt
<1> QED BY <1>1, <1>2

\* The middle of a file, section by section: what it is read as, and that it does
\* not have the last line.
LEMMA PartsAreRead ==
  ASSUME NEW c, c.sections \in Sections, NEW T, AllowedTags(T),
         NEW r, Ready(r, c, T, 0), NEW middle,
         middle = FlattenSeq([i \in DOMAIN SectionTags |-> PartAt(c, T, i)])
  PROVE  /\ middle \in Seq(Lines)
         /\ \A j \in 1 .. Len(middle) : middle[j].kind # "end"
         /\ \E q : Reads(r, middle, q) /\ Ready(q, c, T, 11)
<1> DEFINE seqs == [i \in 1 .. 11 |-> PartAt(c, T, i)]
<1>1. /\ DOMAIN SectionTags = 1 .. 11
      /\ \A i \in 1 .. 11 : seqs[i] = PartAt(c, T, i) /\ seqs[i] \in Seq(Lines)
  BY TagsAreDistinct, PartIsLines
<1>2. seqs \in Seq(Seq(Lines)) /\ Len(seqs) = 11
  BY <1>1
<1>3. middle = FlattenSeq(seqs)
  BY <1>1
<1> HIDE DEF seqs
<1>4. PICK f : Concatenates(f, seqs) /\ FlattenSeq(seqs) = f[Len(seqs)]
  <2>1. Len(seqs) >= 1
    BY <1>2
  <2> QED BY <1>2, <2>1, FlattenUnfolds
<1>9. /\ f[1] = seqs[1] /\ FlattenSeq(seqs) = f[11]
      /\ \A i \in 2 .. 11 : f[i] = f[i - 1] \o seqs[i]
  BY <1>2, <1>4 DEF Concatenates
<1> DEFINE Good(i) ==
             /\ f[i] \in Seq(Lines)
             /\ \A j \in 1 .. Len(f[i]) : f[i][j].kind # "end"
             /\ \E q : Reads(r, f[i], q) /\ Ready(q, c, T, i)
           N == {k \in Nat : k + 1 <= 11 => Good(k + 1)}
<1>5. 0 \in N
  <2>1. f[1] = PartAt(c, T, 1) /\ 1 \in Nat /\ 1 \in 1 .. 11 /\ 1 - 1 = 0
    BY <1>1, <1>9
  <2>2. \E q : Reads(r, PartAt(c, T, 1), q) /\ Ready(q, c, T, 1)
    BY <2>1, PartIsRead
  <2>3. Good(1)
    BY <2>1, <2>2, PartIsLines
  <2> HIDE DEF Good
  <2> QED BY <2>3
<1>6. ASSUME NEW k \in Nat, k \in N PROVE k + 1 \in N
  <2> SUFFICES ASSUME (k + 1) + 1 <= 11 PROVE Good((k + 1) + 1)
    OBVIOUS
  <2> DEFINE i == k + 1
             m == i + 1
  <2>1. Good(i)
    BY <1>6
  <2>2. m \in Nat /\ m \in 2 .. 11 /\ m \in 1 .. 11 /\ m - 1 = i
    OBVIOUS
  <2> HIDE DEF i, m
  <2>3. f[m] = f[i] \o PartAt(c, T, m)
    BY <1>1, <1>9, <2>2
  <2>4. PartAt(c, T, m) \in Seq(Lines) /\ f[i] \in Seq(Lines)
    BY <1>1, <2>1, <2>2
  <2>5. PICK q : Reads(r, f[i], q) /\ Ready(q, c, T, i)
    BY <2>1
  <2>6. PICK p : Reads(q, PartAt(c, T, m), p) /\ Ready(p, c, T, m)
    BY <2>2, <2>5, PartIsRead
  <2>7. Reads(r, f[m], p)
    BY <2>3, <2>4, <2>5, <2>6, ReadsOn
  <2>8. \A j \in 1 .. Len(f[m]) : f[m][j].kind # "end"
    <3> TAKE j \in 1 .. Len(f[m])
    <3> DEFINE s == f[i]
               t == PartAt(c, T, m)
    <3>1. \A l \in 1 .. Len(s) : s[l].kind # "end"
      BY <2>1
    <3>2. \A l \in 1 .. Len(t) : t[l].kind # "end"
      BY <2>2, PartIsLines
    <3>3. /\ Len(s) \in Nat /\ Len(t) \in Nat /\ Len(f[m]) = Len(s) + Len(t)
          /\ \A l \in 1 .. Len(s) : f[m][l] = s[l]
          /\ \A l \in 1 .. Len(t) : f[m][Len(s) + l] = t[l]
      BY <2>3, <2>4, Concatenation
    <3> HIDE DEF s, t
    <3>4. j \in 1 .. Len(s) \/ (j - Len(s) \in 1 .. Len(t) /\ Len(s) + (j - Len(s)) = j)
      BY <3>3
    <3> QED BY <3>1, <3>2, <3>3, <3>4
  <2>9. f[m] \in Seq(Lines)
    BY <2>3, <2>4, Concatenation
  <2>10. Good(m)
    BY <2>6, <2>7, <2>8, <2>9
  <2> HIDE DEF Good
  <2> QED BY <2>10 DEF m, i
<1> HIDE DEF N
<1>7. Nat \subseteq N
  BY <1>5, <1>6, NaturalInduction
<1>8. Good(11)
  <2>1. 10 \in N /\ 10 + 1 = 11
    BY <1>7
  <2> HIDE DEF Good
  <2> QED BY <2>1 DEF N
<1> QED BY <1>3, <1>8, <1>9

(***************************************************************************)
(* A whole file, and a part of one.                                        *)
(***************************************************************************)

\* A file is a header, the sections and the line that says end.
LEMMA FileForm ==
  ASSUME NEW c, NEW T
  PROVE  LinesWith(c, T) =
           <<Line("header", "header", c.position)>>
             \o FlattenSeq([i \in DOMAIN SectionTags |-> PartAt(c, T, i)])
             \o <<Line("end", "end", 0)>>
<1>1. \A i : PartAt(c, T, i)
               = IF SectionTags[i] \in T THEN SectionLines(c.sections, SectionTags[i]) ELSE <<>>
  BY DEF PartAt, Tag
<1>2. [i \in DOMAIN SectionTags |-> PartAt(c, T, i)]
        = [i \in DOMAIN SectionTags |->
             IF SectionTags[i] \in T THEN SectionLines(c.sections, SectionTags[i]) ELSE <<>>]
  BY <1>1
<1> QED BY <1>2, Zenon DEF LinesWith

\* A file reads as the checkpoint whose sections are those it has; its last line
\* alone says end.
LEMMA FileIsRead ==
  ASSUME NEW c, c.position \in Nat, c.sections \in Sections, NEW T, AllowedTags(T),
         NEW lines, lines = LinesWith(c, T)
  PROVE  /\ ReadCheckpoint(lines) = Checkpoint(c.position, SectionsRead(c, T, 11))
         /\ lines \in Seq(Lines) /\ Len(lines) >= 1
         /\ \A j \in 1 .. Len(lines) - 1 : lines[j].kind # "end"
<1> DEFINE head == <<Line("header", "header", c.position)>>
           middle == FlattenSeq([i \in DOMAIN SectionTags |-> PartAt(c, T, i)])
           last == <<Line("end", "end", 0)>>
           r == Reading(c, 1, "header", 0, SectionsRead(c, T, 0))
<1>1. lines = (head \o middle) \o last
  BY FileForm
<1>2. /\ Line("header", "header", c.position) \in Lines
      /\ Line("header", "header", c.position).kind # "end"
      /\ Line("end", "end", 0) \in Lines
  BY DEF Lines, Line
<1>3. ReadLine(NewReader, Line("header", "header", c.position)) = r
  <2> DEFINE line == Line("header", "header", c.position)
  <2>1. /\ NewReader.status = "reading" /\ NewReader.left = 0 /\ NewReader.expect = 0
        /\ line.tag = "header" /\ line.value = c.position
    BY DEF NewReader, Line
  <2> HIDE DEF line
  <2>2. ReadLine(NewReader, line) = [NewReader EXCEPT !.position = c.position, !.expect = 1]
    <3>1. ReadLine(NewReader, line) = ReadHeader(NewReader, line)
      BY <2>1, ReadLineCases
    <3> QED BY <2>1, <3>1 DEF ReadHeader
  <2>3. [NewReader EXCEPT !.position = c.position, !.expect = 1]
          = [[NewReader EXCEPT !.position = c.position] EXCEPT !.expect = 1]
    BY DEF NewReader
  <2>4. [NewReader EXCEPT !.position = c.position]
          = [status |-> "reading", expect |-> 0, tag |-> "header", left |-> 0,
             position |-> c.position, sections |-> EmptySections]
    BY DEF NewReader
  <2>5. [[status |-> "reading", expect |-> 0, tag |-> "header", left |-> 0,
          position |-> c.position, sections |-> EmptySections] EXCEPT !.expect = 1]
          = Reading(c, 1, "header", 0, EmptySections)
    BY DEF Reading
  <2>6. SectionsRead(c, T, 0) = EmptySections
    <3>1. 1 .. 0 = {}
      OBVIOUS
    <3> QED BY <3>1 DEF SectionsRead, EmptySections
  <2> QED BY <2>2, <2>3, <2>4, <2>5, <2>6 DEF line
<1>4. Ready(r, c, T, 0)
  <2>1. 1 \in 1 .. 0 + 1 /\ "header" \in Range(SectionTags) \cup {"header"} /\ LeftOut(T, 1, 0)
    BY DEF LeftOut
  <2> QED BY <2>1 DEF Ready
<1> HIDE DEF r, middle
<1>5. /\ middle \in Seq(Lines)
      /\ \A j \in 1 .. Len(middle) : middle[j].kind # "end"
      /\ \E q : Reads(r, middle, q) /\ Ready(q, c, T, 11)
  BY <1>4, PartsAreRead DEF middle
<1>6. PICK q : Reads(r, middle, q) /\ Ready(q, c, T, 11)
  BY <1>5
<1>7. q.status = "reading" /\ q.left = 0 /\ q.expect = 12
      /\ q.position = c.position /\ q.sections = SectionsRead(c, T, 11)
  <2>1. PICK next \in 1 .. 11 + 1, tag \in Range(SectionTags) \cup {"header"} :
          /\ LeftOut(T, next, 11)
          /\ q = Reading(c, next, tag, 0, SectionsRead(c, T, 11))
    BY <1>6, Zenon DEF Ready
  <2>2. SectionTags[11] \in T
    BY TagsAreDistinct DEF AllowedTags
  <2>3. next = 12
    <3> SUFFICES ASSUME next # 12 PROVE FALSE
      OBVIOUS
    <3>1. 11 \in next .. 11
      OBVIOUS
    <3> QED BY <2>1, <2>2, <3>1 DEF LeftOut
  <2> QED BY <2>1, <2>3 DEF Reading
<1> DEFINE p == ReadLine(q, Line("end", "end", 0))
<1>8. p.status = "done" /\ p.position = c.position /\ p.sections = SectionsRead(c, T, 11)
  <2>1. Line("end", "end", 0).kind = "end"
    BY DEF Line
  <2>2. p = [q EXCEPT !.status = "done"]
    BY <1>7, <2>1, ReadLineCases DEF ReadEnd
  <2>3. PICK next, tag : q = Reading(c, next, tag, 0, SectionsRead(c, T, 11))
    BY <1>6, Zenon DEF Ready
  <2> HIDE DEF p
  <2> QED BY <2>2, <2>3 DEF Reading
<1> HIDE DEF p
<1>9. head \in Seq(Lines) /\ Len(head) = 1 /\ last \in Seq(Lines) /\ Len(last) = 1
      /\ head[1].kind # "end"
  BY <1>2
<1>10. Reads(NewReader, head, r)
  BY <1>3, ReadsLine
<1>11. Reads(q, last, p)
  BY ReadsLine DEF p
<1> HIDE DEF head, last
<1>12. Reads(NewReader, head \o middle, q)
  BY <1>5, <1>6, <1>9, <1>10, ReadsOn
<1> DEFINE front == head \o middle
<1>13. /\ front \in Seq(Lines) /\ Len(middle) \in Nat
       /\ Len(front) = Len(middle) + 1 /\ front[1] = head[1]
       /\ \A j \in 1 .. Len(middle) : front[j + 1] = middle[j]
  <2>1. front = <<Line("header", "header", c.position)>> \o middle
    BY DEF head
  <2> HIDE DEF front
  <2>2. head[1] = Line("header", "header", c.position)
    BY DEF head
  <2> QED BY <1>2, <1>5, <2>1, <2>2, Prepended
<1>14. \A j \in 1 .. Len(front) : front[j].kind # "end"
  <2> TAKE j \in 1 .. Len(front)
  <2>1. j = 1 \/ (j - 1 \in 1 .. Len(middle) /\ (j - 1) + 1 = j)
    BY <1>13
  <2> HIDE DEF front
  <2> QED BY <1>5, <1>9, <1>13, <2>1
<1> HIDE DEF front
<1>15. front \in Seq(Lines) /\ Len(front) \in Nat
  BY <1>13
<1>16. lines = front \o last
  BY <1>1 DEF front
<1>17. /\ lines \in Seq(Lines) /\ Len(lines) = Len(front) + 1
       /\ \A j \in 1 .. Len(front) : lines[j] = front[j]
  BY <1>9, <1>15, <1>16, Concatenation
<1>18. Reads(NewReader, lines, p)
  BY <1>9, <1>11, <1>12, <1>15, <1>16, ReadsOn DEF front
<1>19. FoldLeft(ReadLine, NewReader, lines) = p
  BY <1>17, <1>18, FoldIsRead
<1>20. ReadCheckpoint(lines) = Checkpoint(c.position, SectionsRead(c, T, 11))
  BY <1>8, <1>19 DEF ReadCheckpoint
<1>21. Len(lines) >= 1 /\ Len(lines) - 1 = Len(front)
  BY <1>15, <1>17
<1> QED BY <1>14, <1>17, <1>20, <1>21

\* A whole file, with every section or with the optional ones empty.
LEMMA CheckpointReadsBack ==
  ASSUME NEW c \in Checkpoints, NEW T, AllowedTags(T),
         \A t \in Range(SectionTags) \ T : c.sections[t] = {}
  PROVE  ReadCheckpoint(LinesWith(c, T)) = Restored(c)
<1>1. c.position \in Nat /\ c.sections \in Sections
  BY DEF Checkpoints
<1>2. ReadCheckpoint(LinesWith(c, T)) = Checkpoint(c.position, SectionsRead(c, T, 11))
  BY <1>1, FileIsRead
<1> DEFINE kept == c.sections["metadata"] \cap c.sections["symbols"]
           sections == [c.sections EXCEPT !["metadata"] = kept]
<1>3. Restored(c) = [c EXCEPT !.sections = sections]
  BY <1>1 DEF Restored, Checkpoints
<1>4. [c EXCEPT !.sections = sections] = Checkpoint(c.position, sections)
  <2> HIDE DEF sections
  <2> QED BY DEF Checkpoints, Checkpoint
<1>5. SectionsRead(c, T, 11) = sections
  <2>1. DOMAIN c.sections = Range(SectionTags) /\ c.sections \in [Range(SectionTags) -> SUBSET Ids]
    BY <1>1 DEF Sections
  <2>2. sections = [t \in Range(SectionTags) |-> IF t = "metadata" THEN kept ELSE c.sections[t]]
    <3> HIDE DEF kept
    <3> QED BY <2>1
  <2>3. ASSUME NEW t \in Range(SectionTags)
        PROVE  (IF t \in T /\ \E j \in 1 .. 11 : SectionTags[j] = t
                THEN WrittenEntries(c.sections, t) ELSE {})
                 = IF t = "metadata" THEN kept ELSE c.sections[t]
    <3>1. \E j \in 1 .. 11 : SectionTags[j] = t
      BY TagsAreDistinct
    <3>2. CASE t \in T
      BY <3>1, <3>2 DEF WrittenEntries
    <3>3. CASE t \notin T
      <4>1. c.sections[t] = {}
        BY <3>3
      <4> QED BY <3>3, <4>1
    <3> QED BY <3>2, <3>3
  <2> HIDE DEF sections, kept
  <2> QED BY <2>2, <2>3 DEF SectionsRead
<1> QED BY <1>2, <1>3, <1>4, <1>5

\* A run without a line that says end does not end.
LEMMA TornIsNothing ==
  ASSUME NEW lines \in Seq(Lines), \A j \in 1 .. Len(lines) : lines[j].kind # "end"
  PROVE  ReadCheckpoint(lines) = Nothing
<1>1. Len(lines) \in Nat /\ DOMAIN lines = 1 .. Len(lines)
  OBVIOUS
<1>2. PICK rs : /\ Run(rs, NewReader, lines)
                /\ rs[Len(lines)] = FoldLeft(ReadLine, NewReader, lines)
  BY <1>1, FoldIsRun
<1> DEFINE N == {k \in Nat : k <= Len(lines) => rs[k].status # "done"}
<1>3. 0 \in N
  BY <1>2 DEF Run, NewReader
<1>4. ASSUME NEW k \in Nat, k \in N PROVE k + 1 \in N
  <2> SUFFICES ASSUME k + 1 <= Len(lines) PROVE rs[k + 1].status # "done"
    OBVIOUS
  <2>1. k + 1 \in 1 .. Len(lines) /\ (k + 1) - 1 = k /\ rs[k].status # "done"
    BY <1>4
  <2> DEFINE r == rs[k]
             line == lines[k + 1]
  <2>2. rs[k + 1] = ReadLine(r, line) /\ line.kind # "end"
    BY <1>2, <2>1 DEF Run
  <2>3. r.status # "done"
    BY <2>1
  <2> HIDE DEF r, line
  <2>4. ReadLine(r, line).status # "done"
    BY <2>2, <2>3 DEF ReadLine, ReadEntry, ReadHeader, ReadEnd, ReadCount, Failed
  <2> QED BY <2>2, <2>4
<1> HIDE DEF N
<1>5. Nat \subseteq N
  BY <1>3, <1>4, NaturalInduction
<1>6. rs[Len(lines)].status # "done"
  BY <1>1, <1>5 DEF N
<1> QED BY <1>2, <1>6 DEF ReadCheckpoint

\* What a power failure leaves of a file.
LEMMA PrefixIsNothing ==
  ASSUME NEW c \in Checkpoints, NEW T, AllowedTags(T),
         NEW k \in 0 .. Len(LinesWith(c, T))
  PROVE  LET part == SubSeq(LinesWith(c, T), 1, k)
         IN  part = LinesWith(c, T) \/ ReadCheckpoint(part) = Nothing
<1> DEFINE lines == LinesWith(c, T)
           part == SubSeq(lines, 1, k)
<1>1. c.position \in Nat /\ c.sections \in Sections
  BY DEF Checkpoints
<1>2. /\ lines \in Seq(Lines) /\ Len(lines) >= 1
      /\ \A j \in 1 .. Len(lines) - 1 : lines[j].kind # "end"
  BY <1>1, FileIsRead
<1> HIDE DEF lines
<1>3. k \in 0 .. Len(lines) /\ Len(lines) \in Nat
  BY <1>2 DEF lines
<1>4. CASE k = Len(lines)
  <2>1. part = lines
    BY <1>2, <1>3, <1>4
  <2> QED BY <2>1 DEF lines
<1>5. CASE k # Len(lines)
  <2>1. part \in Seq(Lines) /\ Len(part) = k
    BY <1>2, <1>3
  <2>2. \A j \in 1 .. k : part[j] = lines[j] /\ j \in 1 .. Len(lines) - 1
    BY <1>2, <1>3, <1>5
  <2> HIDE DEF part
  <2>3. ReadCheckpoint(part) = Nothing
    BY <1>2, <2>1, <2>2, TornIsNothing
  <2> QED BY <2>3 DEF part, lines
<1> QED BY <1>4, <1>5

-----------------------------------------------------------------------------
(***************************************************************************)
(* The inductive invariants.                                               *)
(***************************************************************************)

\* What is where: a checkpoint is stored under its own offset.
FileShape ==
  /\ DOMAIN files = Offsets /\ DOMAIN temps = Offsets /\ DOMAIN stored = Offsets
  /\ unsynced \subseteq Offsets
  /\ powerLosses \in Nat
  /\ saving \in Checkpoints /\ Target \in Offsets
  /\ \A m \in Offsets : stored[m] # Nothing =>
       stored[m] \in Checkpoints /\ stored[m].position = m

\* The latest checkpoint that was renamed into place is the last in its file, and
\* positions never go back.
SavedIsStored ==
  saved # Nothing =>
    /\ saved \in Checkpoints /\ saved.position \in Offsets
    /\ saved.position <= Target
    /\ stored[saved.position] = saved

\* The temporary file is whole when it is renamed.
TempIsWhole ==
  pc \in {"renaming", "removing", "renamingAgain"} => temps[Target] = WriteCheckpoint(saving)

\* So is every file that a power failure may still tear.
UnsyncedIsWhole ==
  \A m \in unsynced : stored[m] # Nothing /\ files[m] = WriteCheckpoint(stored[m])

\* No file is newer than the latest save, and each reads back or is torn.
FilesAreReadable ==
  \A m \in Offsets : files[m] # Nothing =>
    /\ saved # Nothing /\ m <= saved.position
    /\ stored[m] # Nothing
    /\ \/ ReadCheckpoint(files[m]) = Restored(stored[m])
       \/ powerLosses > 0 /\ ReadCheckpoint(files[m]) = Nothing

\* What the steps of the file store keep.
FileInv ==
  FileShape /\ SavedIsStored /\ TempIsWhole /\ UnsyncedIsWhole /\ FilesAreReadable

\* The offsets the S3 store has keys for.
Keys == 1 .. S3MaxOffset

\* The checkpoints the S3 store may be asked to save.
Saves == {Checkpoint(m, s) : m \in Keys, s \in S3RuntimeStates}

\* A checkpoint that a start may return.
Newest == IF saved = Nothing THEN {} ELSE attempts \cup {saved}

\* What is remembered of the saves of the S3 store.
S3Shape ==
  /\ DOMAIN objects = Keys
  /\ saving \in Checkpoints
  /\ token \in Nat
  /\ candidates \subseteq Keys
  /\ attempts \subseteq Saves
  /\ \A c \in attempts : c.position <= saving.position
  /\ saved # Nothing => saved \in Saves /\ saved.position <= saving.position
  /\ late # Nothing => late \in attempts
  /\ pc = "putting" => late = Nothing /\ saving \in attempts /\ ~ fresh

\* No object is newer than the latest save that was begun, and those from the
\* latest save that returned on are of that save or of attempts since.
NewestIsStored ==
  /\ \A m \in Keys : objects[m] # Nothing => m <= saving.position
  /\ saved # Nothing =>
       /\ objects[saved.position] # Nothing
       /\ \A m \in Keys : m >= saved.position /\ objects[m] # Nothing =>
            \E c \in Newest : objects[m] = WriteCheckpoint(c)

\* A listing that has gone past the latest save has seen it or a newer one.
ListingSeesNewest ==
  /\ \A m \in candidates : objects[m] # Nothing
  /\ pc = "listing" /\ saved # Nothing /\ token >= saved.position =>
       \E m \in candidates : m >= saved.position
  /\ pc = "getting" =>
       /\ candidates # {}
       /\ saved # Nothing => \E m \in candidates : m >= saved.position
  /\ pc = "idle" /\ fresh /\ saved # Nothing =>
       \E c \in Newest : body = WriteCheckpoint(c)

\* What the steps of the S3 store keep.
S3Inv == S3Shape /\ NewestIsStored /\ ListingSeesNewest

\* The invariant of the store the worker was given.
StoreInv == (kind = "file" => FileInv) /\ (kind = "s3" => S3Inv)

-----------------------------------------------------------------------------
(***************************************************************************)
(* The file store.                                                         *)
(***************************************************************************)

\* Neither a checkpoint nor what comes back of it is the absence of one.
LEMMA RestoredIsSomething ==
  ASSUME NEW c \in Checkpoints
  PROVE  Restored(c) # Nothing /\ c # Nothing
<1> DEFINE kept == c.sections["metadata"] \cap c.sections["symbols"]
           sections == [c.sections EXCEPT !["metadata"] = kept]
<1>1. c.position \in Nat /\ c.sections \in Sections
  BY DEF Checkpoints
<1>2. kept \in SUBSET Ids
  BY <1>1, TagsAreDistinct DEF Sections
<1>3. sections \in Sections
  <2> HIDE DEF kept
  <2> QED BY <1>1, <1>2 DEF Sections
<1>4. Restored(c) = [c EXCEPT !.sections = sections]
  BY <1>1 DEF Restored, Checkpoints
<1>5. [c EXCEPT !.sections = sections] \in Checkpoints
  <2> HIDE DEF sections
  <2> QED BY <1>3 DEF Checkpoints
<1> QED BY <1>4, <1>5, NothingAssumption

\* Both sets of tags a file may have are allowed.
LEMMA FilesAreAllowed ==
  AllowedTags(Range(SectionTags)) /\ AllowedTags(Range(SectionTags) \ OptionalTags)
  BY DEF AllowedTags

\* A checkpoint that was written reads back.
LEMMA RoundTrip ==
  ASSUME NEW c \in Checkpoints
  PROVE  ReadCheckpoint(WriteCheckpoint(c)) = Restored(c)
<1>1. \A t \in Range(SectionTags) \ Range(SectionTags) : c.sections[t] = {}
  OBVIOUS
<1> QED BY <1>1, FilesAreAllowed, CheckpointReadsBack DEF WriteCheckpoint

\* The text of a checkpoint is lines.
LEMMA WrittenIsSomething ==
  ASSUME NEW c \in Checkpoints
  PROVE  WriteCheckpoint(c) # Nothing
<1>1. c.position \in Nat /\ c.sections \in Sections
  BY DEF Checkpoints
<1>2. WriteCheckpoint(c) \in Seq(Lines)
  BY <1>1, FilesAreAllowed, FileIsRead DEF WriteCheckpoint
<1> QED BY <1>2, NothingAssumption

\* The store starts with an empty directory or with one file of an earlier version.
LEMMA FileInvInit == Init => FileInv
<1> SUFFICES ASSUME Init PROVE FileInv
  OBVIOUS
<1>1. PICK c \in LegacyFiles \cup {Checkpoint(0, EmptySections)} :
        /\ saving = c
        /\ files = [m \in Offsets |->
             IF c.position = m /\ m > 0
             THEN LinesWith(c, Range(SectionTags) \ OptionalTags) ELSE Nothing]
        /\ stored = [m \in Offsets |-> IF c.position = m /\ m > 0 THEN c ELSE Nothing]
        /\ saved = IF c.position > 0 THEN c ELSE Nothing
  BY DEF Init
<1>2. /\ temps = [m \in Offsets |-> Nothing] /\ unsynced = {} /\ pc = "down" /\ powerLosses = 0
  BY DEF Init
<1>3. c \in Checkpoints /\ c.position \in Offsets
  <2>1. EmptySections \in Sections
    BY DEF EmptySections, Sections
  <2>2. 0 \in Offsets /\ Offsets \subseteq Nat
    BY FileStoreAssumption DEF Offsets
  <2>3. CASE c = Checkpoint(0, EmptySections)
    BY <2>1, <2>2, <2>3 DEF Checkpoint, Checkpoints
  <2>4. CASE c \in LegacyFiles
    <3>1. c \in [position : Offsets, sections : Sections]
      BY <2>4, FileStoreAssumption
    <3> QED BY <2>2, <3>1 DEF Checkpoints
  <2> QED BY <2>3, <2>4
<1>4. c.position > 0 => ReadCheckpoint(LinesWith(c, Range(SectionTags) \ OptionalTags)) = Restored(c)
  <2> SUFFICES ASSUME c.position > 0
               PROVE  ReadCheckpoint(LinesWith(c, Range(SectionTags) \ OptionalTags)) = Restored(c)
    OBVIOUS
  <2>1. c \in LegacyFiles
    BY DEF Checkpoint
  <2>2. \A t \in OptionalTags : c.sections[t] = {}
    BY <2>1, FileStoreAssumption
  <2>3. \A t \in Range(SectionTags) \ (Range(SectionTags) \ OptionalTags) : c.sections[t] = {}
    BY <2>2
  <2> QED BY <1>3, <2>3, FilesAreAllowed, CheckpointReadsBack
<1>5. c # Nothing /\ Offsets \subseteq Nat
  BY <1>3, RestoredIsSomething, FileStoreAssumption DEF Offsets
<1>6. \A m \in Offsets : files[m] # Nothing =>
        m = c.position /\ m > 0 /\ files[m] = LinesWith(c, Range(SectionTags) \ OptionalTags)
  BY <1>1
<1>7. \A m \in Offsets : stored[m] # Nothing => m = c.position /\ stored[m] = c
  BY <1>1
<1>8. c.position > 0 => saved = c /\ stored[c.position] = c
  BY <1>1, <1>3
<1>9. DOMAIN files = Offsets /\ DOMAIN temps = Offsets /\ DOMAIN stored = Offsets
  BY <1>1, <1>2
<1>10. saved # Nothing => saved = c /\ c.position > 0
  BY <1>1
<1>11. c.position <= c.position
  <2>1. c.position \in Nat
    BY <1>3, <1>5
  <2> QED BY <2>1
<1>12. FileShape
  BY <1>1, <1>2, <1>3, <1>7, <1>9 DEF FileShape, Target
<1>13. SavedIsStored
  BY <1>1, <1>3, <1>8, <1>10, <1>11 DEF SavedIsStored, Target
<1>14. TempIsWhole /\ UnsyncedIsWhole
  BY <1>2 DEF TempIsWhole, UnsyncedIsWhole
<1>15. FilesAreReadable
  BY <1>4, <1>5, <1>6, <1>8, <1>11 DEF FilesAreReadable
<1> QED BY <1>12, <1>13, <1>14, <1>15 DEF FileInv

\* What a power failure leaves of a file is the whole file or nothing to read.
LEMMA TornWrite ==
  ASSUME NEW c \in Checkpoints, NEW k \in 0 .. Len(WriteCheckpoint(c))
  PROVE  LET part == SubSeq(WriteCheckpoint(c), 1, k)
         IN  ReadCheckpoint(part) = Restored(c) \/ ReadCheckpoint(part) = Nothing
<1> DEFINE part == SubSeq(WriteCheckpoint(c), 1, k)
<1>1. k \in 0 .. Len(LinesWith(c, Range(SectionTags)))
  BY DEF WriteCheckpoint
<1>2. part = WriteCheckpoint(c) \/ ReadCheckpoint(part) = Nothing
  BY <1>1, FilesAreAllowed, PrefixIsNothing DEF WriteCheckpoint
<1> QED BY <1>2, RoundTrip

\* Every step of a save, of a start and of the machine keeps the invariant.
LEMMA FileInvNext == FileInv /\ [Next]_vars => FileInv'
<1> SUFFICES ASSUME FileInv, [Next]_vars PROVE FileInv'
  OBVIOUS
<1>0. /\ FileShape /\ SavedIsStored /\ TempIsWhole /\ UnsyncedIsWhole /\ FilesAreReadable
      /\ Offsets \subseteq Nat
  BY FileStoreAssumption DEF FileInv, Offsets
<1> USE DEF Target
\* Steps that touch neither the files nor what they were written from.
<1>1. ASSUME UNCHANGED <<files, temps, unsynced, saving, stored, saved, powerLosses>>,
             pc' \in {"renaming", "removing", "renamingAgain"} => pc \in {"renaming", "removing", "renamingAgain"}
      PROVE  FileInv'
  <2>1. FileShape' BY <1>0, <1>1 DEF FileShape
  <2>2. SavedIsStored' BY <1>0, <1>1 DEF SavedIsStored
  <2>3. TempIsWhole' BY <1>0, <1>1 DEF TempIsWhole
  <2>4. UnsyncedIsWhole' BY <1>0, <1>1 DEF UnsyncedIsWhole
  <2>5. FilesAreReadable' BY <1>0, <1>1 DEF FilesAreReadable
  <2> QED BY <2>1, <2>2, <2>3, <2>4, <2>5 DEF FileInv
<1>2. CASE Start \/ StartWithoutListing \/ RenameFails \/ AfterSave \/ Crash \/ UNCHANGED vars
  <2>1. UNCHANGED <<files, temps, unsynced, saving, stored, saved, powerLosses>>
    BY <1>2 DEF Start, StartWithoutListing, RenameFails, AfterSave, Crash, Fault, vars,
                disk, history, bounds
  <2>2. pc' \in {"renaming", "removing", "renamingAgain"}
          => pc \in {"renaming", "removing", "renamingAgain"}
    BY <1>2 DEF Start, StartWithoutListing, RenameFails, AfterSave, Crash, vars
  <2> QED BY <1>1, <2>1, <2>2
<1>3. ASSUME NEW m \in Offsets \ {0}, NEW s \in RuntimeStates, BeginSave(m, s) PROVE FileInv'
  <2>1. /\ UNCHANGED <<files, temps, unsynced, stored, saved, powerLosses>> /\ pc' = "writing"
        /\ saving' = Checkpoint(m, s) /\ saving.position <= m
    <3>1. saving.position \in Nat /\ m \in Nat
      BY <1>0 DEF FileShape
    <3> QED BY <1>3, <3>1 DEF BeginSave, disk, history, bounds
  <2>2. saving' \in Checkpoints /\ saving'.position = m
    BY <1>0, <2>1, FileStoreAssumption DEF Checkpoint, Checkpoints
  <2>3. FileShape' BY <1>0, <2>1, <2>2 DEF FileShape
  <2>4. SavedIsStored'
    <3> SUFFICES ASSUME saved # Nothing
                 PROVE  /\ saved \in Checkpoints /\ saved.position \in Offsets
                        /\ saved.position <= m /\ stored[saved.position] = saved
      BY <2>1, <2>2 DEF SavedIsStored
    <3>1. /\ saved \in Checkpoints /\ saved.position \in Offsets
          /\ saved.position <= saving.position /\ stored[saved.position] = saved
      BY <1>0 DEF SavedIsStored
    <3>2. saved.position \in Nat /\ saving.position \in Nat /\ m \in Nat
      BY <1>0, <3>1 DEF FileShape
    <3> QED BY <2>1, <3>1, <3>2
  <2>5. TempIsWhole' BY <2>1 DEF TempIsWhole
  <2>6. UnsyncedIsWhole' BY <1>0, <2>1 DEF UnsyncedIsWhole
  <2>7. FilesAreReadable' BY <1>0, <2>1 DEF FilesAreReadable
  <2> QED BY <2>3, <2>4, <2>5, <2>6, <2>7 DEF FileInv
\* Steps that touch the temporary file only.
<1>4. CASE WriteTemp \/ WriteFails \/ RenameFailsAgain
  <2>1. UNCHANGED <<files, unsynced, saving, stored, saved, powerLosses>>
    BY <1>4 DEF WriteTemp, WriteFails, RenameFailsAgain, Fault, history, bounds
  <2>2. DOMAIN temps' = Offsets
    BY <1>0, <1>4 DEF WriteTemp, WriteFails, RenameFailsAgain, FileShape
  <2>3. TempIsWhole'
    <3>1. CASE WriteTemp
      BY <1>0, <2>1, <3>1 DEF WriteTemp, TempIsWhole, FileShape
    <3>2. CASE WriteFails \/ RenameFailsAgain
      BY <3>2 DEF WriteFails, RenameFailsAgain, TempIsWhole
    <3> QED BY <1>4, <3>1, <3>2
  <2>4. FileShape' BY <1>0, <2>1, <2>2 DEF FileShape
  <2>5. SavedIsStored' BY <1>0, <2>1 DEF SavedIsStored
  <2>6. UnsyncedIsWhole' BY <1>0, <2>1 DEF UnsyncedIsWhole
  <2>7. FilesAreReadable' BY <1>0, <2>1 DEF FilesAreReadable
  <2> QED BY <2>3, <2>4, <2>5, <2>6, <2>7 DEF FileInv
<1>5. CASE Rename
  <2> DEFINE n == saving.position
  <2>1. /\ files' = [files EXCEPT ![n] = temps[n]] /\ temps' = [temps EXCEPT ![n] = Nothing]
        /\ unsynced' = unsynced \cup {n} /\ stored' = [stored EXCEPT ![n] = saving]
        /\ saved' = saving /\ pc' = "saved" /\ UNCHANGED <<saving, powerLosses>>
    BY <1>5 DEF Rename, RenameTemp, bounds
  <2>2. temps[n] = WriteCheckpoint(saving)
    BY <1>0, <1>5 DEF Rename, TempIsWhole
  <2>3. n \in Offsets /\ n \in Nat /\ saving \in Checkpoints /\ saving # Nothing
    BY <1>0, RestoredIsSomething DEF FileShape
  <2>4. ReadCheckpoint(WriteCheckpoint(saving)) = Restored(saving)
    BY <2>3, RoundTrip
  <2>5. /\ DOMAIN files = Offsets /\ DOMAIN stored = Offsets
        /\ files'[n] = WriteCheckpoint(saving) /\ stored'[n] = saving
        /\ \A m \in Offsets \ {n} : files'[m] = files[m] /\ stored'[m] = stored[m]
    BY <1>0, <2>1, <2>2, <2>3 DEF FileShape
  <2>6. FileShape'
    <3>1. /\ DOMAIN files' = Offsets /\ DOMAIN temps' = Offsets /\ DOMAIN stored' = Offsets
          /\ unsynced' \subseteq Offsets /\ powerLosses' \in Nat
          /\ saving' \in Checkpoints /\ saving'.position \in Offsets
      BY <1>0, <2>1, <2>3 DEF FileShape
    <3>2. \A m \in Offsets : stored'[m] # Nothing =>
            stored'[m] \in Checkpoints /\ stored'[m].position = m
      BY <1>0, <2>3, <2>5 DEF FileShape
    <3> QED BY <3>1, <3>2 DEF FileShape
  <2>7. SavedIsStored'
    BY <2>1, <2>3, <2>5 DEF SavedIsStored
  <2>8. TempIsWhole' BY <2>1 DEF TempIsWhole
  <2>9. UnsyncedIsWhole'
    <3> SUFFICES ASSUME NEW m \in unsynced'
                 PROVE  stored'[m] # Nothing /\ files'[m] = WriteCheckpoint(stored'[m])
      BY DEF UnsyncedIsWhole
    <3>1. CASE m = n
      BY <2>3, <2>5, <3>1
    <3>2. CASE m # n
      <4>1. m \in unsynced /\ m \in Offsets \ {n}
        BY <1>0, <2>1, <3>2 DEF FileShape
      <4> QED BY <1>0, <2>5, <4>1 DEF UnsyncedIsWhole
    <3> QED BY <3>1, <3>2
  <2>10. FilesAreReadable'
    <3> SUFFICES ASSUME NEW m \in Offsets, files'[m] # Nothing
                 PROVE  /\ saving # Nothing /\ m <= n /\ stored'[m] # Nothing
                        /\ \/ ReadCheckpoint(files'[m]) = Restored(stored'[m])
                           \/ powerLosses > 0 /\ ReadCheckpoint(files'[m]) = Nothing
      BY <2>1 DEF FilesAreReadable
    <3>1. CASE m = n
      BY <2>3, <2>4, <2>5, <3>1
    <3>2. CASE m # n
      <4>1. files[m] # Nothing /\ files'[m] = files[m] /\ stored'[m] = stored[m]
        BY <2>5, <3>2
      <4>2. /\ saved # Nothing /\ m <= saved.position /\ stored[m] # Nothing
            /\ \/ ReadCheckpoint(files[m]) = Restored(stored[m])
               \/ powerLosses > 0 /\ ReadCheckpoint(files[m]) = Nothing
        BY <1>0, <4>1 DEF FilesAreReadable
      <4>3. saved.position \in Offsets /\ saved.position <= n
        BY <1>0, <4>2 DEF SavedIsStored
      <4>4. m <= n
        <5>1. m \in Nat /\ saved.position \in Nat
          BY <1>0, <4>3
        <5> HIDE DEF n
        <5> QED BY <2>3, <4>2, <4>3, <5>1
      <4> QED BY <2>3, <4>1, <4>2, <4>4
    <3> QED BY <3>1, <3>2
  <2> QED BY <2>6, <2>7, <2>8, <2>9, <2>10 DEF FileInv
\* Steps that remove a file, tear one or write one back.
<1>6. ASSUME UNCHANGED <<temps, saving, stored, saved>>,
             pc' \in {"renaming", "removing", "renamingAgain"}
               => pc \in {"renaming", "removing", "renamingAgain"},
             DOMAIN files' = Offsets, unsynced' \subseteq unsynced,
             powerLosses' \in Nat, powerLosses <= powerLosses',
             \A m \in unsynced' : files'[m] = files[m],
             \A m \in Offsets : files'[m] # Nothing =>
               \/ files'[m] = files[m]
               \/ /\ powerLosses' > 0 /\ m \in unsynced
                  /\ \/ ReadCheckpoint(files'[m]) = Restored(stored[m])
                     \/ ReadCheckpoint(files'[m]) = Nothing
      PROVE  FileInv'
  <2>1. FileShape'
    <3>1. unsynced' \subseteq Offsets
      BY <1>0, <1>6 DEF FileShape
    <3> QED BY <1>0, <1>6, <3>1 DEF FileShape
  <2>2. SavedIsStored' BY <1>0, <1>6 DEF SavedIsStored
  <2>3. TempIsWhole' BY <1>0, <1>6 DEF TempIsWhole
  <2>4. UnsyncedIsWhole'
    <3> SUFFICES ASSUME NEW m \in unsynced'
                 PROVE  stored[m] # Nothing /\ files'[m] = WriteCheckpoint(stored[m])
      BY <1>6 DEF UnsyncedIsWhole
    <3>1. m \in unsynced /\ files'[m] = files[m]
      BY <1>6
    <3> QED BY <1>0, <3>1 DEF UnsyncedIsWhole
  <2>5. FilesAreReadable'
    <3> SUFFICES ASSUME NEW m \in Offsets, files'[m] # Nothing
                 PROVE  /\ saved # Nothing /\ m <= saved.position /\ stored[m] # Nothing
                        /\ \/ ReadCheckpoint(files'[m]) = Restored(stored[m])
                           \/ powerLosses' > 0 /\ ReadCheckpoint(files'[m]) = Nothing
      BY <1>6 DEF FilesAreReadable
    <3>1. files[m] # Nothing
      <4>1. CASE m \in unsynced
        <5>1. stored[m] \in Checkpoints /\ files[m] = WriteCheckpoint(stored[m])
          BY <1>0, <4>1 DEF UnsyncedIsWhole, FileShape
        <5> QED BY <5>1, WrittenIsSomething
      <4> QED BY <1>6, <4>1
    <3>2. /\ saved # Nothing /\ m <= saved.position /\ stored[m] # Nothing
          /\ \/ ReadCheckpoint(files[m]) = Restored(stored[m])
             \/ powerLosses > 0 /\ ReadCheckpoint(files[m]) = Nothing
      BY <1>0, <3>1 DEF FilesAreReadable
    <3>3. powerLosses > 0 => powerLosses' > 0
      BY <1>0, <1>6 DEF FileShape
    <3> QED BY <1>6, <3>2, <3>3
  <2> QED BY <2>1, <2>2, <2>3, <2>4, <2>5 DEF FileInv
<1>7. CASE RemoveFinal
  <2> DEFINE n == saving.position
  <2>1. /\ UNCHANGED <<temps, saving, stored, saved, powerLosses>>
        /\ pc = "removing"
        /\ \/ files' = [files EXCEPT ![n] = Nothing] /\ unsynced' = unsynced \ {n}
           \/ UNCHANGED <<files, unsynced>>
    BY <1>7 DEF RemoveFinal, history
  <2>2. DOMAIN files = Offsets /\ powerLosses \in Nat /\ unsynced \subseteq Offsets
    BY <1>0 DEF FileShape
  <2>3. DOMAIN files' = Offsets /\ unsynced' \subseteq unsynced
    BY <2>1, <2>2
  <2>4. \A m \in unsynced' : files'[m] = files[m]
    BY <2>1, <2>2
  <2>5. \A m \in Offsets : files'[m] # Nothing => files'[m] = files[m]
    BY <2>1, <2>2
  <2>6. powerLosses' \in Nat /\ powerLosses <= powerLosses'
    BY <2>1, <2>2
  <2> HIDE DEF n
  <2> QED BY <1>6, <2>1, <2>3, <2>4, <2>5, <2>6
<1>8. CASE PowerLoss
  <2>1. /\ powerLosses' = powerLosses + 1 /\ unsynced' = {} /\ pc' = "down"
        /\ UNCHANGED <<temps, saving, stored, saved>>
    BY <1>8 DEF PowerLoss, history
  <2>2. PICK n \in unsynced : \E k \in 0 .. Len(files[n]) :
          files' = [files EXCEPT ![n] = SubSeq(files[n], 1, k)]
    BY <1>8 DEF PowerLoss
  <2>3. PICK k \in 0 .. Len(files[n]) : files' = [files EXCEPT ![n] = SubSeq(files[n], 1, k)]
    BY <2>2
  <2>4. /\ stored[n] \in Checkpoints /\ files[n] = WriteCheckpoint(stored[n])
        /\ DOMAIN files = Offsets /\ n \in Offsets /\ powerLosses \in Nat
    BY <1>0 DEF UnsyncedIsWhole, FileShape
  <2>5. \/ ReadCheckpoint(files'[n]) = Restored(stored[n])
        \/ ReadCheckpoint(files'[n]) = Nothing
    <3>1. files'[n] = SubSeq(WriteCheckpoint(stored[n]), 1, k)
      BY <2>3, <2>4
    <3>2. k \in 0 .. Len(WriteCheckpoint(stored[n]))
      BY <2>4
    <3> QED BY <2>4, <3>1, <3>2, TornWrite
  <2>6. \A m \in Offsets \ {n} : files'[m] = files[m]
    BY <2>3, <2>4
  <2>7. DOMAIN files' = Offsets
    BY <2>3, <2>4
  <2>8. powerLosses' \in Nat /\ powerLosses <= powerLosses' /\ powerLosses' > 0
    BY <2>1, <2>4
  <2>9. \A m \in Offsets : files'[m] # Nothing =>
          \/ files'[m] = files[m]
          \/ /\ powerLosses' > 0 /\ m \in unsynced
             /\ \/ ReadCheckpoint(files'[m]) = Restored(stored[m])
                \/ ReadCheckpoint(files'[m]) = Nothing
    BY <2>4, <2>5, <2>6, <2>8
  <2> QED BY <1>6, <2>1, <2>7, <2>8, <2>9
<1>9. ASSUME NEW m \in Offsets, Sync(m) PROVE FileInv'
  <2>1. /\ UNCHANGED <<files, temps, saving, stored, saved, powerLosses, pc>>
        /\ unsynced' \subseteq unsynced
    BY <1>9 DEF Sync, history, bounds
  <2>2. DOMAIN files' = Offsets /\ powerLosses' \in Nat /\ powerLosses <= powerLosses'
    BY <1>0, <2>1 DEF FileShape
  <2> QED BY <1>6, <2>1, <2>2
<1> QED BY <1>2, <1>3, <1>4, <1>5, <1>7, <1>8, <1>9 DEF Next

\* A start finds the file of the latest save, the last one by name, unless a
\* re-save of that offset removed it.
LEMMA FileStart ==
  FileInv => StartsFromNewestSave
<1> SUFFICES ASSUME FileInv, Start, powerLosses = 0, saved # Nothing,
                    files[saved.position] # Nothing
             PROVE  loaded' = Restored(saved)
  BY DEF StartsFromNewestSave
<1> DEFINE Present == {m \in Offsets : files[m] # Nothing}
           n == saved.position
<1>1. n \in Offsets /\ stored[n] = saved /\ n \in Present
  BY DEF FileInv, SavedIsStored
<1>2. \A m \in Present : m <= n
  BY DEF FileInv, FilesAreReadable
<1>3. Offsets \subseteq Nat
  BY FileStoreAssumption DEF Offsets
<1>4. Max(Present) = n
  <2>1. \A m \in Present : n >= m
    BY <1>1, <1>2, <1>3
  <2>2. \A x \in Present : (\A m \in Present : x >= m) => x = n
    <3> SUFFICES ASSUME NEW x \in Present, \A m \in Present : x >= m PROVE x = n
      OBVIOUS
    <3>1. x >= n /\ n >= x
      BY <1>1, <2>1
    <3>2. x \in Nat /\ n \in Nat
      BY <1>1, <1>3
    <3> HIDE DEF n
    <3> QED BY <3>1, <3>2
  <2> HIDE DEF Present, n
  <2> QED BY <1>1, <2>1, <2>2 DEF Max
<1>5. LatestCheckpointPath = n
  BY <1>4 DEF LatestCheckpointPath
<1>6. LoadLatest = ReadCheckpoint(files[n])
  BY <1>1, <1>5 DEF LoadLatest
<1>7. ReadCheckpoint(files[n]) = Restored(saved)
  BY <1>1 DEF FileInv, FilesAreReadable
<1> QED BY <1>6, <1>7 DEF Start

-----------------------------------------------------------------------------
(***************************************************************************)
(* The S3 store.                                                           *)
(***************************************************************************)

\* Every checkpoint the S3 store saves is one the format can hold.
LEMMA SavesAreCheckpoints ==
  /\ S3MaxOffset \in Nat \ {0} /\ S3PageSize \in Nat \ {0} /\ Keys \subseteq Nat
  /\ S3!Offsets = Keys
  /\ \A c \in Saves : c \in Checkpoints /\ c.position \in Keys /\ c # Nothing
                      /\ WriteCheckpoint(c) # Nothing
<1>1. /\ S3MaxOffset \in Nat \ {0} /\ S3PageSize \in Nat \ {0} /\ S3RuntimeStates \subseteq Sections
      /\ Keys \subseteq Nat /\ S3!Offsets = Keys
  BY S3StoreAssumption DEF S3!S3StoreConstants, Keys, S3!Offsets
<1>2. ASSUME NEW c \in Saves
      PROVE  c \in Checkpoints /\ c.position \in Keys
  BY <1>1 DEF Saves, Checkpoint, Checkpoints
<1> QED BY <1>1, <1>2, RestoredIsSomething, WrittenIsSomething

\* The S3 store starts with no object.
LEMMA S3InvInit == S3Init => S3Inv
<1> SUFFICES ASSUME S3Init PROVE S3Inv
  OBVIOUS
<1>1. /\ objects = [m \in Keys |-> Nothing] /\ late = Nothing /\ pc = "down"
      /\ saving = Checkpoint(0, EmptySections) /\ token = 0 /\ candidates = {}
      /\ saved = Nothing /\ attempts = {}
  BY SavesAreCheckpoints DEF S3Init, S3!Init
<1>2. saving \in Checkpoints
  <2>1. EmptySections \in Sections
    BY DEF EmptySections, Sections
  <2> QED BY <1>1, <2>1 DEF Checkpoint, Checkpoints
<1> QED BY <1>1, <1>2, SavesAreCheckpoints DEF S3Inv, S3Shape, NewestIsStored, ListingSeesNewest

\* A response lists keys that come after the previous page, and the last one of
\* them when there are more.
LEMMA PageLists ==
  ASSUME S3Shape
  PROVE  /\ S3!KeysAfter(token) = {m \in Keys : m > token /\ objects[m] # Nothing}
         /\ S3!Page \subseteq S3!KeysAfter(token)
         /\ S3!IsTruncated => S3!Max(S3!Page) \in S3!Page
<1> DEFINE After == S3!KeysAfter(token)
           first == Min(After)
<1>1. After = {m \in Keys : m > token /\ objects[m] # Nothing}
  BY SavesAreCheckpoints DEF S3!KeysAfter
<1>2. S3!Page \subseteq After
  BY DEF S3!Page
<1>3. After \subseteq Nat /\ Keys \subseteq Nat
  BY <1>1, SavesAreCheckpoints
<1>4. ASSUME S3!IsTruncated PROVE S3!Max(S3!Page) \in S3!Page
  <2>1. After # {}
    BY <1>2, <1>4 DEF S3!IsTruncated
  <2>2. first \in After /\ \A l \in After : first <= l
    <3> HIDE DEF After
    <3> QED BY <1>3, <2>1, MinExists
  <2>3. {l \in After : l < first} = {}
    <3> SUFFICES ASSUME NEW l \in After, l < first PROVE FALSE
      OBVIOUS
    <3>1. l \in Nat /\ first \in Nat /\ first <= l
      BY <1>3, <2>2
    <3> HIDE DEF first, After
    <3> QED BY <3>1
  <2>4. S3!Cardinality({l \in After : l < first}) < S3PageSize
    <3>1. Cardinality({}) = 0
      BY FS_EmptySet
    <3>2. S3!Cardinality({}) = Cardinality({})
      BY DEF S3!Cardinality, Cardinality
    <3> QED BY <2>3, <3>1, <3>2, SavesAreCheckpoints
  <2>5. S3!Page # {}
    BY <2>2, <2>4 DEF S3!Page
  <2>6. S3!Page \subseteq Nat /\ S3!Page \subseteq 1 .. S3MaxOffset
    BY <1>1, <1>2, <1>3 DEF Keys
  <2>7. IsFiniteSet(S3!Page)
    <3>1. IsFiniteSet(1 .. S3MaxOffset)
      BY SavesAreCheckpoints, FS_Interval
    <3> QED BY <2>6, <3>1, FS_Subset
  <2>8. Max(S3!Page) \in S3!Page
    BY <2>5, <2>6, <2>7, MaxExists
  <2> QED BY <2>8 DEF S3!Max, Max
<1> QED BY <1>1, <1>2, <1>4

\* Requests that are answered, fail, or are carried out late keep the invariant.
LEMMA S3InvNext == S3Inv /\ [S3!Next]_(S3!vars) => S3Inv'
<1> SUFFICES ASSUME S3Inv, [S3!Next]_(S3!vars) PROVE S3Inv'
  OBVIOUS
<1>0. S3Shape /\ NewestIsStored /\ ListingSeesNewest /\ Keys \subseteq Nat
  BY SavesAreCheckpoints DEF S3Inv
<1>s. saved # Nothing => saved \in Saves /\ saved.position \in Keys /\ saved.position \in Nat
  BY <1>0, SavesAreCheckpoints DEF S3Shape
<1> USE DEF S3!Target
\* Steps that leave the objects and the saves alone.
<1>1. ASSUME UNCHANGED <<objects, saving, saved, attempts>>,
             token' \in Nat, candidates' \subseteq Keys,
             late' # Nothing => late' \in attempts, pc' # "putting",
             ListingSeesNewest'
      PROVE  S3Inv'
  <2>1. S3Shape' BY <1>0, <1>1 DEF S3Shape
  <2>2. NewestIsStored' BY <1>0, <1>1 DEF NewestIsStored, Newest
  <2> QED BY <1>1, <2>1, <2>2 DEF S3Inv
<1>2. CASE S3!Start
  <2>1. /\ UNCHANGED <<objects, late, saving, saved, attempts>>
        /\ token' = 0 /\ candidates' = {} /\ pc' = "listing"
    BY <1>2 DEF S3!Start, S3!history
  <2>2. ListingSeesNewest'
    <3>1. saved # Nothing => ~(0 >= saved.position)
      BY <1>s, SavesAreCheckpoints DEF Keys
    <3> QED BY <2>1, <3>1 DEF ListingSeesNewest
  <2>3. late' # Nothing => late' \in attempts
    BY <1>0, <2>1 DEF S3Shape
  <2> QED BY <1>1, <2>1, <2>2, <2>3
<1>3. CASE S3!ListPage
  <2>1. /\ UNCHANGED <<objects, late, saving, fresh, saved, attempts>>
        /\ candidates' = candidates \cup S3!Page /\ pc = "listing"
        /\ \/ S3!IsTruncated /\ token' = S3!Max(S3!Page) /\ pc' = pc
           \/ /\ ~ S3!IsTruncated /\ token' = token
              /\ \/ candidates' = {} /\ pc' = "idle"
                 \/ candidates' # {} /\ pc' = "getting"
    BY <1>3 DEF S3!ListPage, S3!history
  <2>2. /\ S3!KeysAfter(token) = {m \in Keys : m > token /\ objects[m] # Nothing}
        /\ S3!Page \subseteq S3!KeysAfter(token)
        /\ S3!IsTruncated => S3!Max(S3!Page) \in S3!Page
    BY <1>0, PageLists
  <2>3. S3!Page \subseteq Keys /\ \A m \in S3!Page : objects[m] # Nothing
    BY <2>2
  <2>4. candidates' \subseteq Keys /\ \A m \in candidates' : objects[m] # Nothing
    BY <1>0, <2>1, <2>3 DEF S3Shape, ListingSeesNewest
  <2>5. late' # Nothing => late' \in attempts
    BY <1>0, <2>1 DEF S3Shape
  <2>6. CASE S3!IsTruncated
    <3>1. token' = S3!Max(S3!Page) /\ pc' = "listing" /\ S3!Max(S3!Page) \in S3!Page
      BY <2>1, <2>2, <2>6
    <3>2. token' \in Nat /\ token' \in candidates'
      BY <1>0, <2>1, <2>3, <3>1
    <3>3. ListingSeesNewest'
      BY <2>1, <2>4, <3>1, <3>2 DEF ListingSeesNewest
    <3> QED BY <1>1, <2>1, <2>4, <2>5, <3>1, <3>2, <3>3
  <2>7. CASE ~ S3!IsTruncated
    <3>1. token' = token /\ token \in Nat
      BY <1>0, <2>1, <2>7 DEF S3Shape
    <3>2. saved # Nothing => \E m \in candidates' : m >= saved.position
      <4> SUFFICES ASSUME saved # Nothing PROVE \E m \in candidates' : m >= saved.position
        OBVIOUS
      <4> DEFINE n == saved.position
      <4>1. n \in Keys /\ n \in Nat /\ objects[n] # Nothing
        BY <1>0, <1>s DEF NewestIsStored
      <4>2. CASE token >= n
        BY <1>0, <2>1, <4>2 DEF ListingSeesNewest
      <4>3. CASE ~(token >= n)
        <5>1. n > token /\ n >= n
          <6> HIDE DEF n
          <6> QED BY <3>1, <4>1, <4>3
        <5>2. n \in S3!Page
          BY <2>2, <2>7, <4>1, <5>1 DEF S3!IsTruncated
        <5> QED BY <2>1, <5>1, <5>2
      <4> QED BY <4>2, <4>3
    <3>3. \/ candidates' = {} /\ pc' = "idle"
          \/ candidates' # {} /\ pc' = "getting"
      BY <2>1, <2>7
    <3>4. ListingSeesNewest'
      BY <2>1, <2>4, <3>2, <3>3 DEF ListingSeesNewest
    <3>5. pc' # "putting"
      BY <3>3
    <3> QED BY <1>1, <2>1, <2>4, <2>5, <3>1, <3>4, <3>5
  <2> QED BY <2>6, <2>7
<1>4. CASE S3!GetObject
  <2>1. /\ UNCHANGED <<objects, late, saving, fresh, token, candidates, saved, attempts>>
        /\ body' = objects[S3!Max(candidates)] /\ pc = "getting" /\ pc' = "idle"
    BY <1>4 DEF S3!GetObject, S3!history
  <2>2. /\ candidates # {} /\ candidates \subseteq Keys
        /\ \A m \in candidates : objects[m] # Nothing
        /\ saved # Nothing => \E m \in candidates : m >= saved.position
    BY <1>0, <2>1 DEF S3Shape, ListingSeesNewest
  <2>3. IsFiniteSet(candidates)
    <3>1. IsFiniteSet(1 .. S3MaxOffset)
      BY SavesAreCheckpoints, FS_Interval
    <3> QED BY <2>2, <3>1, FS_Subset DEF Keys
  <2>4. Max(candidates) \in candidates /\ \A m \in candidates : m <= Max(candidates)
    <3>1. candidates \subseteq Nat
      BY <1>0, <2>2
    <3> QED BY <2>2, <2>3, <3>1, MaxExists
  <2>5. S3!Max(candidates) = Max(candidates)
    BY DEF S3!Max, Max
  <2>6. saved # Nothing => \E c \in Newest : body' = WriteCheckpoint(c)
    <3> SUFFICES ASSUME saved # Nothing PROVE \E c \in Newest : body' = WriteCheckpoint(c)
      OBVIOUS
    <3> DEFINE top == Max(candidates)
    <3>1. PICK m \in candidates : m >= saved.position
      BY <2>2
    <3>2. m \in Nat /\ top \in Nat /\ m <= top /\ saved.position \in Nat
      BY <1>0, <1>s, <2>2, <2>4
    <3>3. top >= saved.position
      <4> HIDE DEF top
      <4> QED BY <3>1, <3>2
    <3>4. top \in Keys /\ objects[top] # Nothing /\ body' = objects[top]
      BY <2>1, <2>2, <2>4, <2>5
    <3> HIDE DEF top
    <3> QED BY <1>0, <3>3, <3>4 DEF NewestIsStored
  <2>7. ListingSeesNewest'
    BY <2>1, <2>2, <2>6 DEF ListingSeesNewest, Newest
  <2> QED BY <1>0, <1>1, <2>1, <2>7 DEF S3Shape
<1>5. CASE S3!LoadFails \/ S3!PutFails \/ S3!Crash \/ UNCHANGED S3!vars
  <2>1. /\ UNCHANGED <<objects, saving, fresh, token, candidates, body, saved, attempts>>
        /\ \/ pc' = "down" /\ late' \in {Nothing, late, saving} /\ (late' = late \/ pc = "putting")
           \/ pc' = pc /\ late' = late
    BY <1>5 DEF S3!LoadFails, S3!PutFails, S3!Crash, S3!vars, S3!process, S3!history, S3!Fault
  <2>2. late' # Nothing => late' \in attempts
    BY <1>0, <2>1 DEF S3Shape
  <2>3. pc' = "putting" => pc = "putting" /\ late' = late
    BY <2>1
  <2>4. S3Shape'
    BY <1>0, <2>1, <2>2, <2>3 DEF S3Shape
  <2>5. NewestIsStored'
    BY <1>0, <2>1 DEF NewestIsStored, Newest
  <2>6. ListingSeesNewest'
    <3>1. pc' = "down" \/ pc' = pc
      BY <2>1
    <3> QED BY <1>0, <2>1, <3>1 DEF ListingSeesNewest, Newest
  <2> QED BY <2>4, <2>5, <2>6 DEF S3Inv
<1>6. ASSUME NEW m \in Keys, NEW s \in S3RuntimeStates, S3!BeginSave(m, s) PROVE S3Inv'
  <2>1. /\ UNCHANGED <<objects, token, candidates, body, saved>>
        /\ saving' = Checkpoint(m, s) /\ fresh' = FALSE /\ late' = Nothing
        /\ attempts' = attempts \cup {saving'} /\ pc' = "putting"
        /\ saving.position <= m
    <3>1. saving.position \in Nat /\ m \in Nat
      BY <1>0 DEF S3Shape, Checkpoints
    <3> QED BY <1>6, <3>1 DEF S3!BeginSave
  <2>2. saving' \in Saves /\ saving' \in Checkpoints /\ saving'.position = m
    <3>1. saving' \in Saves
      BY <2>1 DEF Saves
    <3> QED BY <2>1, <3>1, SavesAreCheckpoints DEF Checkpoint
  <2>3. m \in Nat /\ saving.position \in Nat
    BY <1>0 DEF S3Shape, Checkpoints
  <2>4. S3Shape'
    <3>1. \A c \in attempts' : c.position <= m
      <4> SUFFICES ASSUME NEW c \in attempts' PROVE c.position <= m
        OBVIOUS
      <4>1. CASE c = saving'
        BY <2>2, <2>3, <4>1
      <4>2. CASE c \in attempts
        <5>1. c.position <= saving.position /\ c \in Saves
          BY <1>0, <4>2 DEF S3Shape
        <5>2. c.position \in Nat
          BY <1>0, <5>1, SavesAreCheckpoints
        <5> QED BY <2>1, <2>3, <5>1, <5>2
      <4> QED BY <2>1, <4>1, <4>2
    <3>2. saved # Nothing => saved \in Saves /\ saved.position <= m
      BY <1>0, <1>s, <2>1, <2>3 DEF S3Shape
    <3>3. attempts' \subseteq Saves
      BY <1>0, <2>1, <2>2 DEF S3Shape
    <3> QED BY <1>0, <2>1, <2>2, <3>1, <3>2, <3>3 DEF S3Shape
  <2>5. NewestIsStored'
    <3>1. \A k \in Keys : objects[k] # Nothing => k <= m
      <4> SUFFICES ASSUME NEW k \in Keys, objects[k] # Nothing PROVE k <= m
        OBVIOUS
      <4>1. k <= saving.position /\ k \in Nat
        BY <1>0 DEF NewestIsStored
      <4> QED BY <2>1, <2>3, <4>1
    <3>2. Newest \subseteq Newest'
      BY <2>1 DEF Newest
    <3> QED BY <1>0, <2>1, <2>2, <3>1, <3>2 DEF NewestIsStored
  <2>6. ListingSeesNewest'
    BY <1>0, <2>1 DEF ListingSeesNewest
  <2> QED BY <2>4, <2>5, <2>6 DEF S3Inv
<1>7. CASE S3!PutSucceeds
  <2> DEFINE n == saving.position
  <2>1. /\ UNCHANGED <<late, saving, fresh, token, candidates, body>>
        /\ objects' = [objects EXCEPT ![n] = WriteCheckpoint(saving)]
        /\ saved' = saving /\ attempts' = {} /\ pc = "putting" /\ pc' = "idle"
    BY <1>7 DEF S3!PutSucceeds, S3!process
  <2>2. saving \in Saves /\ late = Nothing /\ ~ fresh
    BY <1>0, <2>1 DEF S3Shape
  <2>3. /\ n \in Keys /\ n \in Nat /\ saving # Nothing /\ WriteCheckpoint(saving) # Nothing
    BY <1>0, <2>2, SavesAreCheckpoints
  <2>4. /\ DOMAIN objects = Keys /\ objects'[n] = WriteCheckpoint(saving)
        /\ \A m \in Keys \ {n} : objects'[m] = objects[m]
    BY <1>0, <2>1, <2>3 DEF S3Shape
  <2>5. S3Shape'
    BY <1>0, <2>1, <2>2, <2>3 DEF S3Shape
  <2>6. NewestIsStored'
    <3>1. \A m \in Keys : objects'[m] # Nothing => m <= n
      BY <1>0, <2>3, <2>4 DEF NewestIsStored
    <3>2. ASSUME NEW m \in Keys, m >= n, objects'[m] # Nothing PROVE m = n
      <4>1. m \in Nat /\ m <= n
        BY <1>0, <3>1, <3>2
      <4> HIDE DEF n
      <4> QED BY <2>3, <3>2, <4>1
    <3>3. saving \in Newest'
      BY <2>1, <2>3 DEF Newest
    <3>4. \A m \in Keys : m >= n /\ objects'[m] # Nothing =>
            \E c \in Newest' : objects'[m] = WriteCheckpoint(c)
      BY <2>4, <3>2, <3>3
    <3> QED BY <2>1, <2>3, <2>4, <3>1, <3>4 DEF NewestIsStored
  <2>7. ListingSeesNewest'
    BY <1>0, <2>1, <2>2, <2>3, <2>4 DEF ListingSeesNewest, S3Shape
  <2> QED BY <2>5, <2>6, <2>7 DEF S3Inv
<1>8. CASE S3!PutLate
  <2> DEFINE n == late.position
  <2>1. /\ UNCHANGED <<pc, saving, fresh, token, candidates, body, saved, attempts>>
        /\ objects' = [objects EXCEPT ![n] = WriteCheckpoint(late)]
        /\ late' = Nothing /\ late # Nothing
    BY <1>8 DEF S3!PutLate, S3!process, S3!history
  <2>2. late \in attempts /\ late \in Saves /\ n <= saving.position
    BY <1>0, <2>1 DEF S3Shape
  <2>3. n \in Keys /\ WriteCheckpoint(late) # Nothing
    BY <2>2, SavesAreCheckpoints
  <2>4. /\ DOMAIN objects = Keys /\ objects'[n] = WriteCheckpoint(late)
        /\ \A m \in Keys \ {n} : objects'[m] = objects[m]
    BY <1>0, <2>1, <2>3 DEF S3Shape
  <2>5. S3Shape'
    BY <1>0, <2>1, <2>4 DEF S3Shape
  <2>6. NewestIsStored'
    <3>1. \A m \in Keys : objects'[m] # Nothing => m <= saving.position
      BY <1>0, <2>2, <2>4 DEF NewestIsStored
    <3>2. saved # Nothing => late \in Newest /\ Newest' = Newest
      BY <2>1, <2>2 DEF Newest
    <3>3. saved # Nothing => objects'[saved.position] # Nothing
      BY <1>0, <1>s, <2>3, <2>4 DEF NewestIsStored
    <3>4. saved # Nothing =>
            \A m \in Keys : m >= saved.position /\ objects'[m] # Nothing =>
              \E c \in Newest : objects'[m] = WriteCheckpoint(c)
      BY <1>0, <2>4, <3>2 DEF NewestIsStored
    <3> QED BY <2>1, <3>1, <3>2, <3>3, <3>4 DEF NewestIsStored
  <2>7. ListingSeesNewest'
    <3>1. \A m \in candidates : objects'[m] # Nothing
      BY <1>0, <2>3, <2>4 DEF ListingSeesNewest, S3Shape
    <3>2. Newest' = Newest
      BY <2>1 DEF Newest
    <3> QED BY <1>0, <2>1, <3>1, <3>2 DEF ListingSeesNewest
  <2> QED BY <2>5, <2>6, <2>7 DEF S3Inv
<1> QED
  <2>1. S3!Offsets = Keys
    BY SavesAreCheckpoints
  <2> QED BY <1>2, <1>3, <1>4, <1>5, <1>6, <1>7, <1>8, <2>1 DEF S3!Next, S3!Load

\* What the get returned, when there is a save to find.
LEMMA S3Start == S3Inv => S3!LoadsNewestSave
<1> SUFFICES ASSUME S3Inv, pc = "idle", fresh, saved # Nothing
             PROVE  S3!Loaded \in {Restored(c) : c \in attempts \cup {saved}}
  BY DEF S3!LoadsNewestSave
<1>1. PICK c \in attempts \cup {saved} : body = WriteCheckpoint(c)
  BY DEF S3Inv, ListingSeesNewest, Newest
<1>2. c \in Saves
  BY DEF S3Inv, S3Shape
<1>3. body # Nothing /\ ReadCheckpoint(body) = Restored(c)
  BY <1>1, <1>2, SavesAreCheckpoints, RoundTrip
<1> QED BY <1>3 DEF S3!Loaded

-----------------------------------------------------------------------------
(***************************************************************************)
(* The two stores.                                                         *)
(***************************************************************************)

\* Each store keeps its invariant, and neither touches the other's.
LEMMA StoresKeepTheirInvariants == StoreSpec => []StoreInv
<1>1. StoreInit => StoreInv
  BY FileInvInit, S3InvInit DEF StoreInit, FileInit, S3Init, StoreInv
<1>2. StoreInv /\ [StoreNext]_storeVars => StoreInv'
  <2> SUFFICES ASSUME StoreInv, [StoreNext]_storeVars PROVE StoreInv'
    OBVIOUS
  <2>1. CASE kind = "file" /\ kind' = kind
    <3>1. [Next]_vars
      BY <2>1 DEF StoreNext, storeVars
    <3> QED BY <2>1, <3>1, FileInvNext DEF StoreInv
  <2>2. CASE kind = "s3" /\ kind' = kind
    <3>1. [S3!Next]_(S3!vars)
      BY <2>2 DEF StoreNext, storeVars, vars, s3Only, history, bounds,
                  S3!vars, S3!process, S3!history
    <3> QED BY <2>2, <3>1, S3InvNext DEF StoreInv
  <2>3. CASE kind \notin {"file", "s3"} /\ kind' = kind
    BY <2>3 DEF StoreInv
  <2>4. kind' = kind
    BY DEF StoreNext, storeVars
  <2> QED BY <2>1, <2>2, <2>3, <2>4
<1> QED BY <1>1, <1>2, PTL DEF StoreSpec

\* Every checkpoint file reads back as the checkpoint it was renamed from, through
\* failed calls and crashes between any two of them; one that a power failure tore
\* at any line is not taken for a checkpoint (write_checkpoint, rename_into_place
\* and CheckpointReader of FileCheckpointStore.cpp).
THEOREM CheckpointFilesReadBack == StoreSpec => []FileStoreReadsBack
<1>1. StoreInv => FileStoreReadsBack
  BY DEF StoreInv, FileInv, FilesAreReadable, FileStoreReadsBack, FilesReadBack
<1> QED BY <1>1, StoresKeepTheirInvariants, PTL

\* load_latest of either store returns the newest save, or, from the S3 store, one
\* begun later whose put timed out: at every number of offsets, page size and
\* order of puts and pages.
THEOREM StartsFindTheNewestSave == StoreSpec => NewestSaveIsFound
<1>1. StoreInv => (kind = "s3" => S3!LoadsNewestSave)
  BY S3Start DEF StoreInv
<1>2. StoreInv /\ [StoreNext]_storeVars => [kind = "file" => StartsFromNewestSave]_vars
  BY FileStart DEF StoreInv
<1> QED BY <1>1, <1>2, StoresKeepTheirInvariants, PTL DEF StoreSpec, NewestSaveIsFound
=============================================================================
