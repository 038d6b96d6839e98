--------------------------- MODULE SequenceLemmas ---------------------------
(***************************************************************************)
(* Facts about the sequence operators the models are built from, for every *)
(* sequence.  Induction goes by the least counterexample (MinOfNats).      *)
(***************************************************************************)
EXTENDS Integers, SequencesExt, FiniteSetTheorems, SequenceTheorems,
        WellFoundedInduction, TLAPS

\* A nonempty set of naturals has a least element, and Min picks one.
LEMMA MinOfNats ==
  ASSUME NEW S \in SUBSET Nat, S # {}
  PROVE  /\ Min(S) \in S
         /\ \A x \in S : Min(S) <= x
<1>1. PICK m \in S : \A y \in S : ~ (<<y, m>> \in OpToRel(<, Nat))
  BY NatLessThanWellFounded, WFMin, Zenon
<1>2. \A y \in S : ~ (y < m)
  BY <1>1 DEF OpToRel
<1>3. \A y \in S : m <= y
  BY <1>2
<1>4. QED
  BY <1>3 DEF Min

\* A nonempty set of naturals with a bound has a greatest, and Max picks one.
LEMMA MaxOfNats ==
  ASSUME NEW S \in SUBSET Nat, S # {}, NEW n \in Nat, \A x \in S : x <= n
  PROVE  /\ Max(S) \in S
         /\ \A x \in S : x <= Max(S)
<1> DEFINE T == {n - x : x \in S}
<1>1. T \in SUBSET Nat /\ T # {}
  <2>1. \A x \in S : n - x \in Nat
    OBVIOUS
  <2>2. QED
    BY <2>1
<1>2. PICK m \in T : \A y \in T : m <= y
  BY <1>1, MinOfNats
<1>3. PICK k \in S : m = n - k
  BY <1>2
<1>4. \A x \in S : k >= x
  <2>1. ASSUME NEW x \in S PROVE k >= x
    <3>1. n - x \in T
      OBVIOUS
    <3>2. n - k <= n - x
      BY <1>2, <1>3, <3>1
    <3>3. QED
      BY <3>2
  <2>2. QED
    BY <2>1
<1>5. QED
  BY <1>4 DEF Max

-----------------------------------------------------------------------------
\* Removing an element.

\* RemoveAt shortens a sequence by one and moves what comes after the hole.
LEMMA RemoveAtProperties ==
  ASSUME NEW S, NEW s \in Seq(S), NEW k \in 1 .. Len(s)
  PROVE  /\ RemoveAt(s, k) \in Seq(S)
         /\ Len(RemoveAt(s, k)) = Len(s) - 1
         /\ \A i \in 1 .. Len(s) - 1 :
              RemoveAt(s, k)[i] = IF i < k THEN s[i] ELSE s[i + 1]
<1> DEFINE u == SubSeq(s, 1, k - 1)
           v == SubSeq(s, k + 1, Len(s))
           t == u \o v
<1>1. k \in Nat /\ k >= 1 /\ k <= Len(s) /\ Len(s) \in Nat
  OBVIOUS
<1>2. u \in Seq(S) /\ Len(u) = k - 1 /\ \A i \in 1 .. k - 1 : u[i] = s[i]
  BY <1>1
<1>3. v \in Seq(S) /\ Len(v) = Len(s) - k /\ \A i \in 1 .. Len(s) - k : v[i] = s[k + i]
  BY <1>1
<1>4. RemoveAt(s, k) = t /\ t = u \o v
  BY DEF RemoveAt
<1> HIDE DEF u, v, t
<1>5. t \in Seq(S) /\ Len(t) = Len(s) - 1
  BY <1>1, <1>2, <1>3, <1>4
<1>6. ASSUME NEW i \in 1 .. Len(s) - 1 PROVE t[i] = IF i < k THEN s[i] ELSE s[i + 1]
  <2>1. CASE i < k
    BY <1>1, <1>2, <1>3, <1>4, <2>1
  <2>2. CASE i >= k
    <3>1. i - (k - 1) \in 1 .. Len(s) - k
      BY <1>1, <2>2
    <3>2. t[i] = v[i - (k - 1)]
      BY <1>1, <1>2, <1>3, <1>4, <3>1, <2>2
    <3>3. v[i - (k - 1)] = s[i + 1]
      BY <1>1, <1>3, <3>1
    <3>4. QED
      BY <2>2, <3>2, <3>3, <1>1
  <2>3. QED
    BY <1>1, <2>1, <2>2
<1>7. QED
  BY <1>4, <1>5, <1>6

\* What RemoveAt leaves out of a sequence without duplicates is one element.
LEMMA RemoveAtOfInjective ==
  ASSUME NEW S, NEW s \in Seq(S), NEW k \in 1 .. Len(s),
         \A i, j \in 1 .. Len(s) : s[i] = s[j] => i = j
  PROVE  LET t == RemoveAt(s, k) IN
         /\ Range(t) = Range(s) \ {s[k]}
         /\ \A i, j \in 1 .. Len(t) : t[i] = t[j] => i = j
<1> DEFINE t == RemoveAt(s, k)
<1>1. /\ t \in Seq(S) /\ Len(t) = Len(s) - 1 /\ Len(s) \in Nat /\ k \in Nat
      /\ \A i \in 1 .. Len(t) : t[i] = IF i < k THEN s[i] ELSE s[i + 1]
  BY RemoveAtProperties
<1> HIDE DEF t
<1> DEFINE At(i) == IF i < k THEN i ELSE i + 1
<1>2. ASSUME NEW i \in 1 .. Len(t), NEW j \in 1 .. Len(t), t[i] = t[j] PROVE i = j
  <2>1. /\ At(i) \in 1 .. Len(s) /\ At(j) \in 1 .. Len(s)
        /\ At(i) = At(j) => i = j
    BY <1>1
  <2>2. s[At(i)] = t[i] /\ s[At(j)] = t[j]
    BY <1>1
  <2> HIDE DEF At
  <2>3. QED
    BY <1>2, <2>1, <2>2
<1>3. ASSUME NEW i \in 1 .. Len(t) PROVE \E j \in 1 .. Len(s) : s[j] = t[i] /\ t[i] # s[k]
  <2>1. CASE i < k
    BY <1>1, <2>1
  <2>2. CASE i >= k
    BY <1>1, <2>2
  <2>3. QED
    BY <1>1, <2>1, <2>2
<1>4. ASSUME NEW j \in 1 .. Len(s), s[j] # s[k] PROVE \E i \in 1 .. Len(t) : t[i] = s[j]
  <2>1. CASE j < k
    BY <1>1, <2>1
  <2>2. CASE j > k
    <3>1. j - 1 \in 1 .. Len(t) /\ ~(j - 1 < k) /\ (j - 1) + 1 = j
      BY <1>1, <2>2
    <3>2. QED
      BY <1>1, <3>1
  <2>3. QED
    BY <1>1, <1>4, <2>1, <2>2
<1>5. DOMAIN t = 1 .. Len(t) /\ DOMAIN s = 1 .. Len(s)
  BY <1>1
<1>6. Range(t) = Range(s) \ {s[k]}
  <2>1. Range(t) \subseteq Range(s) \ {s[k]}
    BY <1>3, <1>5 DEF Range
  <2>2. ASSUME NEW x \in Range(s) \ {s[k]} PROVE x \in Range(t)
    <3>1. PICK j \in 1 .. Len(s) : s[j] = x
      BY <1>5 DEF Range
    <3>2. QED
      BY <1>4, <1>5, <3>1 DEF Range
  <2>3. QED
    BY <2>1, <2>2
<1>7. QED
  BY <1>2, <1>6 DEF t

\* RemoveFirst removes nothing, or at the first place of its element.
LEMMA RemoveFirstCases ==
  ASSUME NEW S, NEW s \in Seq(S), NEW e
  PROVE  \/ RemoveFirst(s, e) = s /\ \A i \in 1 .. Len(s) : s[i] # e
         \/ \E k \in 1 .. Len(s) : s[k] = e /\ RemoveFirst(s, e) = RemoveAt(s, k)
<1>1. CASE ~ \E i \in 1 .. Len(s) : s[i] = e
  BY <1>1 DEF RemoveFirst
<1>2. CASE \E i \in 1 .. Len(s) : s[i] = e
  <2> DEFINE I == {i \in 1 .. Len(s) : s[i] = e}
             k == SelectInSeq(s, LAMBDA v : v = e)
  <2>1. I # {} /\ I \in SUBSET Nat
    BY <1>2
  <2>2. k = Min(I)
    BY <2>1 DEF SelectInSeq
  <2>3. k \in 1 .. Len(s) /\ s[k] = e
    BY <2>1, <2>2, MinOfNats
  <2>4. RemoveFirst(s, e) = RemoveAt(s, k)
    BY <1>2 DEF RemoveFirst
  <2> HIDE DEF k
  <2>5. QED
    BY <2>3, <2>4
<1>3. QED
  BY <1>1, <1>2

\* RemoveFirst gives a sequence that loses nothing but the element it is told
\* to remove.
LEMMA RemoveFirstProperties ==
  ASSUME NEW S, NEW s \in Seq(S), NEW e
  PROVE  /\ RemoveFirst(s, e) \in Seq(S)
         /\ ToSet(RemoveFirst(s, e)) \subseteq ToSet(s)
         /\ ToSet(s) \ {e} \subseteq ToSet(RemoveFirst(s, e))
<1>1. CASE RemoveFirst(s, e) = s
  BY <1>1
<1>2. CASE \E k \in 1 .. Len(s) : s[k] = e /\ RemoveFirst(s, e) = RemoveAt(s, k)
  <2>1. PICK k \in 1 .. Len(s) : s[k] = e /\ RemoveFirst(s, e) = RemoveAt(s, k)
    BY <1>2
  <2> DEFINE t == RemoveAt(s, k)
  <2>2. /\ t \in Seq(S) /\ Len(t) = Len(s) - 1 /\ Len(s) \in Nat /\ k \in Nat
        /\ \A i \in 1 .. Len(t) : t[i] = IF i < k THEN s[i] ELSE s[i + 1]
    BY RemoveAtProperties
  <2> HIDE DEF t
  <2>3. ToSet(t) \subseteq ToSet(s)
    <3>1. ASSUME NEW i \in 1 .. Len(t) PROVE \E j \in 1 .. Len(s) : t[i] = s[j]
      BY <2>2
    <3>2. DOMAIN t = 1 .. Len(t) /\ DOMAIN s = 1 .. Len(s)
      BY <2>2
    <3>3. QED
      BY <3>1, <3>2, Zenon DEF ToSet
  <2>4. ASSUME NEW x \in ToSet(s) \ {e} PROVE x \in ToSet(t)
    <3>1. PICK i \in 1 .. Len(s) : s[i] = x
      BY DEF ToSet
    <3>2. i # k
      BY <2>1, <3>1
    <3>3. \E j \in 1 .. Len(t) : t[j] = x
      <4>1. CASE i < k
        BY <2>2, <3>1, <4>1
      <4>2. CASE i > k
        <5>1. i - 1 \in 1 .. Len(t) /\ ~(i - 1 < k) /\ (i - 1) + 1 = i
          BY <2>2, <4>2
        <5>2. QED
          BY <2>2, <5>1, <3>1
      <4>3. QED
        BY <2>2, <3>2, <4>1, <4>2
    <3>4. QED
      BY <2>2, <3>3 DEF ToSet
  <2>5. QED
    BY <2>1, <2>2, <2>3, <2>4 DEF t
<1>3. QED
  BY <1>1, <1>2, RemoveFirstCases

\* A sequence without duplicates loses all of that element, and gains none.
LEMMA RemoveFirstOfInjective ==
  ASSUME NEW S, NEW s \in Seq(S), NEW e,
         \A i, j \in 1 .. Len(s) : s[i] = s[j] => i = j
  PROVE  LET t == RemoveFirst(s, e) IN
         /\ t \in Seq(S)
         /\ Range(t) = Range(s) \ {e}
         /\ \A i, j \in 1 .. Len(t) : t[i] = t[j] => i = j
<1>1. CASE RemoveFirst(s, e) = s /\ \A i \in 1 .. Len(s) : s[i] # e
  <2>1. e \notin Range(s)
    BY <1>1 DEF Range
  <2>2. QED
    BY <1>1, <2>1
<1>2. CASE \E k \in 1 .. Len(s) : s[k] = e /\ RemoveFirst(s, e) = RemoveAt(s, k)
  <2>1. PICK k \in 1 .. Len(s) : s[k] = e /\ RemoveFirst(s, e) = RemoveAt(s, k)
    BY <1>2
  <2>2. RemoveAt(s, k) \in Seq(S)
    BY RemoveAtProperties
  <2>3. QED
    BY <2>1, <2>2, RemoveAtOfInjective
<1>3. QED
  BY <1>1, <1>2, RemoveFirstCases

-----------------------------------------------------------------------------
\* Prefixes and lengths.

\* A prefix agrees with the longer sequence wherever it is defined.
LEMMA PrefixPointwise ==
  ASSUME NEW S, NEW s \in Seq(S), NEW t \in Seq(S)
  PROVE  IsPrefix(s, t) <=> /\ Len(s) <= Len(t)
                            /\ \A i \in 1 .. Len(s) : s[i] = t[i]
<1>1. Len(s) \in Nat /\ Len(t) \in Nat
  OBVIOUS
<1>2. SubSeq(s, 1, Len(s)) = s
  BY SubSeqFull
<1> DEFINE u == SubSeq(t, 1, Len(s))
<1>3. ASSUME Len(s) <= Len(t)
      PROVE  u \in Seq(S) /\ Len(u) = Len(s) /\ \A i \in 1 .. Len(s) : u[i] = t[i]
  BY <1>1, <1>3
<1>4. ASSUME Len(s) <= Len(t), s = u PROVE \A i \in 1 .. Len(s) : s[i] = t[i]
  BY <1>3, <1>4
<1>5. ASSUME Len(s) <= Len(t), \A i \in 1 .. Len(s) : s[i] = t[i] PROVE s = u
  <2> HIDE DEF u
  <2>1. u \in Seq(S) /\ Len(u) = Len(s) /\ \A i \in 1 .. Len(s) : u[i] = s[i]
    BY <1>3, <1>5
  <2>2. QED
    BY <2>1, SeqEqual
<1>6. IsPrefix(s, t) <=> Len(s) <= Len(t) /\ s = u
  BY <1>2 DEF IsPrefix
<1>7. QED
  BY <1>4, <1>5, <1>6

\* A sequence without duplicates is as long as the set of its elements is large.
LEMMA InjectiveLength ==
  ASSUME NEW S, NEW s \in Seq(S),
         \A i, j \in 1 .. Len(s) : s[i] = s[j] => i = j
  PROVE  IsFiniteSet(Range(s)) /\ Cardinality(Range(s)) = Len(s)
<1>1. Len(s) \in Nat /\ DOMAIN s = 1 .. Len(s) /\ s \in [1 .. Len(s) -> S]
  BY LenProperties
<1>2. IsFiniteSet(1 .. Len(s)) /\ Cardinality(1 .. Len(s)) = Len(s)
  BY <1>1, FS_Interval
<1>3. s \in [1 .. Len(s) -> Range(s)]
  BY <1>1 DEF Range
<1>4. s \in Bijection(1 .. Len(s), Range(s))
  BY <1>1, <1>3 DEF Bijection, Injection, Surjection, IsInjective, Range
<1>5. ExistsBijection(1 .. Len(s), Range(s))
  BY <1>4 DEF ExistsBijection
<1>6. QED
  BY <1>2, <1>5, FS_Bijection

-----------------------------------------------------------------------------
\* FlattenSeq.

\* What the flattening function is at each place, up to place n.
Flattening(f, seqs, n) ==
  f = [i \in 1 .. n |-> IF i = 1 THEN seqs[i] ELSE f[i - 1] \o seqs[i]]

\* There is such a function for every sequence of sequences.
LEMMA FlatteningExists ==
  ASSUME NEW seqs, NEW n \in Nat
  PROVE  \E f : Flattening(f, seqs, n)
<1> DEFINE Bad == {k \in Nat : ~ \E f : Flattening(f, seqs, k)}
<1>1. SUFFICES ASSUME Bad # {} PROVE FALSE
  OBVIOUS
<1>2. PICK k \in Bad : \A m \in Bad : k <= m
  <2>1. Min(Bad) \in Bad /\ \A m \in Bad : Min(Bad) <= m
    BY <1>1, MinOfNats
  <2>2. QED
    BY <2>1
<1>3. CASE k = 0
  <2>1. Flattening(<< >>, seqs, 0)
    BY DEF Flattening
  <2>2. QED
    BY <1>2, <1>3, <2>1
<1>4. CASE k > 0
  <2>1. k - 1 \in Nat /\ k - 1 \notin Bad
    BY <1>2, <1>4
  <2>2. PICK f : Flattening(f, seqs, k - 1)
    BY <2>1
  <2> DEFINE g == [i \in 1 .. k |-> IF i < k THEN f[i]
                                   ELSE IF i = 1 THEN seqs[i] ELSE f[i - 1] \o seqs[i]]
  <2>3. ASSUME NEW i \in 1 .. k
        PROVE  g[i] = IF i = 1 THEN seqs[i] ELSE g[i - 1] \o seqs[i]
    <3>1. k \in Nat /\ i \in Nat
      BY <1>2
    <3>2. CASE i < k
      <4>1. i \in 1 .. k - 1
        BY <3>1, <3>2
      <4>2. f[i] = IF i = 1 THEN seqs[i] ELSE f[i - 1] \o seqs[i]
        BY <2>2, <4>1 DEF Flattening
      <4>3. i # 1 => i - 1 \in 1 .. k /\ i - 1 < k
        BY <3>1, <3>2
      <4>4. QED
        BY <3>2, <4>2, <4>3
    <3>3. CASE i = k
      <4>1. i # 1 => i - 1 \in 1 .. k /\ i - 1 < k
        BY <3>1, <3>3
      <4>2. QED
        BY <3>3, <4>1
    <3>4. QED
      BY <3>1, <3>2, <3>3
  <2>4. Flattening(g, seqs, k)
    <3>1. g = [i \in 1 .. k |-> g[i]]
      OBVIOUS
    <3> HIDE DEF g
    <3>2. [i \in 1 .. k |-> g[i]]
            = [i \in 1 .. k |-> IF i = 1 THEN seqs[i] ELSE g[i - 1] \o seqs[i]]
      BY <2>3
    <3>3. QED
      BY <3>1, <3>2 DEF Flattening
  <2>5. QED
    BY <1>2, <2>4
<1>5. QED
  BY <1>2, <1>3, <1>4

\* What a concatenation holds.
LEMMA RangeConcat ==
  ASSUME NEW S, NEW s \in Seq(S), NEW t \in Seq(S)
  PROVE  Range(s \o t) = Range(s) \cup Range(t)
<1>1. /\ s \o t \in Seq(S) /\ Len(s \o t) = Len(s) + Len(t)
      /\ Len(s) \in Nat /\ Len(t) \in Nat
      /\ \A i \in 1 .. Len(s) + Len(t) :
           (s \o t)[i] = IF i <= Len(s) THEN s[i] ELSE t[i - Len(s)]
  BY ConcatProperties
<1>2. ASSUME NEW x \in Range(s \o t) PROVE x \in Range(s) \cup Range(t)
  <2>1. PICK i \in 1 .. Len(s) + Len(t) : x = (s \o t)[i]
    BY <1>1, <1>2 DEF Range
  <2>2. CASE i <= Len(s)
    BY <1>1, <2>1, <2>2 DEF Range
  <2>3. CASE i > Len(s)
    <3>1. i - Len(s) \in 1 .. Len(t) /\ x = t[i - Len(s)]
      BY <1>1, <2>1, <2>3
    <3>2. QED
      BY <3>1 DEF Range
  <2>4. QED
    BY <1>1, <2>2, <2>3
<1>3. ASSUME NEW i \in 1 .. Len(s) PROVE s[i] \in Range(s \o t)
  <2>1. i \in 1 .. Len(s) + Len(t) /\ (s \o t)[i] = s[i]
    BY <1>1
  <2>2. i \in DOMAIN (s \o t)
    BY ONLY <1>1, <2>1
  <2>3. QED
    BY ONLY <2>1, <2>2 DEF Range
<1>4. ASSUME NEW i \in 1 .. Len(t) PROVE t[i] \in Range(s \o t)
  <2> DEFINE k == Len(s) + i
  <2>1. k \in 1 .. Len(s) + Len(t) /\ ~ (k <= Len(s)) /\ k - Len(s) = i
    BY <1>1
  <2>2. (s \o t)[k] = t[i]
    <3> HIDE DEF k
    <3>1. QED
      BY <1>1, <2>1
  <2>3. QED
    <3> HIDE DEF k
    <3>1. QED
      BY <1>1, <2>1, <2>2 DEF Range
<1>5. Range(s) \subseteq Range(s \o t) /\ Range(t) \subseteq Range(s \o t)
  <2>1. ASSUME NEW x \in Range(s) PROVE x \in Range(s \o t)
    <3>1. PICK i \in 1 .. Len(s) : x = s[i]
      BY <2>1 DEF Range
    <3>2. QED
      BY <1>3, <3>1
  <2>2. ASSUME NEW x \in Range(t) PROVE x \in Range(s \o t)
    <3>1. PICK i \in 1 .. Len(t) : x = t[i]
      BY <2>2 DEF Range
    <3>2. QED
      BY <1>4, <3>1
  <2>3. QED
    BY <2>1, <2>2
<1>6. QED
  BY <1>2, <1>5, Zenon

\* Flattening sequences over S gives a sequence over S, no shorter than the
\* first of them.
LEMMA FlattenSeqProperties ==
  ASSUME NEW S, NEW seqs \in Seq(Seq(S))
  PROVE  /\ FlattenSeq(seqs) \in Seq(S)
         /\ seqs # << >> => Len(seqs[1]) <= Len(FlattenSeq(seqs))
<1>1. CASE seqs = << >>
  BY <1>1 DEF FlattenSeq
<1>2. CASE seqs # << >>
  <2> DEFINE n == Len(seqs)
             f == CHOOSE h : Flattening(h, seqs, n)
  <2>1. n \in Nat /\ n > 0 /\ \A i \in 1 .. n : seqs[i] \in Seq(S)
    BY <1>2
  <2>2. Flattening(f, seqs, n)
    BY <2>1, FlatteningExists
  <2>3. FlattenSeq(seqs) = f[n]
    BY <2>1 DEF FlattenSeq, Flattening
  <2> HIDE DEF f
  <2> DEFINE Bad == {i \in 1 .. n : ~ (f[i] \in Seq(S) /\ Len(seqs[1]) <= Len(f[i]))}
  <2> HIDE DEF n
  <2>4. ASSUME Bad # {} PROVE FALSE
    <3>1. PICK k \in Bad : \A m \in Bad : k <= m
      <4>1. Bad \in SUBSET Nat
        BY <2>1
      <4>2. QED
        BY <2>4, <4>1, MinOfNats
    <3>2. k \in 1 .. n /\ k \in Nat
      BY <2>1, <3>1
    <3>3. f[k] = IF k = 1 THEN seqs[k] ELSE f[k - 1] \o seqs[k]
      BY <2>2, <3>2 DEF Flattening
    <3>4. CASE k = 1
      BY <2>1, <3>1, <3>2, <3>3, <3>4
    <3>5. CASE k > 1
      <4>1. k - 1 \in 1 .. n /\ k - 1 \notin Bad
        BY <2>1, <3>1, <3>2, <3>5
      <4>2. f[k - 1] \in Seq(S) /\ Len(seqs[1]) <= Len(f[k - 1])
        BY <4>1
      <4>3. seqs[k] \in Seq(S) /\ seqs[1] \in Seq(S)
        BY <2>1, <3>2
      <4>4. f[k] = f[k - 1] \o seqs[k]
        <5>1. k # 1
          BY <3>2, <3>5
        <5>2. QED
          BY <3>3, <5>1, Zenon
      <4>5. f[k] \in Seq(S) /\ Len(f[k]) = Len(f[k - 1]) + Len(seqs[k])
        BY <4>2, <4>3, <4>4
      <4>6. Len(seqs[1]) \in Nat /\ Len(f[k - 1]) \in Nat /\ Len(seqs[k]) \in Nat
        BY <4>2, <4>3
      <4>7. Len(seqs[1]) <= Len(f[k])
        <5> DEFINE a == Len(seqs[1])
                   b == Len(f[k - 1])
                   c == Len(seqs[k])
        <5>1. a \in Nat /\ b \in Nat /\ c \in Nat /\ a <= b
          BY <4>2, <4>6
        <5>2. Len(f[k]) = b + c
          BY <4>5
        <5> HIDE DEF a, b, c
        <5>3. a <= b + c
          BY <5>1
        <5>4. QED
          BY <5>2, <5>3 DEF a
      <4>8. QED
        BY <3>1, <4>5, <4>7
    <3>6. QED
      BY <3>2, <3>4, <3>5
  <2>5. n \in 1 .. n
    BY <2>1
  <2>6. QED
    BY <2>3, <2>4, <2>5
<1>3. QED
  BY <1>1, <1>2

\* Flattening sequences of one element each puts the elements in a row.
LEMMA FlattenSingletons ==
  ASSUME NEW S, NEW s \in Seq(S), NEW seqs,
         seqs = [i \in 1 .. Len(s) |-> <<s[i]>>]
  PROVE  FlattenSeq(seqs) = s
<1> DEFINE n == Len(s)
<1>0. /\ n \in Nat /\ DOMAIN s = 1 .. n /\ \A i \in 1 .. n : s[i] \in S /\ seqs[i] = <<s[i]>>
      /\ seqs \in Seq(Seq(S)) /\ Len(seqs) = n
  OBVIOUS
<1>1. CASE n = 0
  BY <1>0, <1>1 DEF FlattenSeq
<1>2. CASE n > 0
  <2> DEFINE f == CHOOSE h : Flattening(h, seqs, n)
  <2>1. Flattening(f, seqs, n)
    BY <1>0, FlatteningExists
  <2>2. FlattenSeq(seqs) = f[n]
    BY <1>0, <1>2 DEF FlattenSeq, Flattening
  <2> HIDE DEF f
  <2> DEFINE Row(i) == f[i] \in Seq(S) /\ Len(f[i]) = i /\ \A j \in 1 .. i : f[i][j] = s[j]
             Bad == {i \in 1 .. n : ~Row(i)}
  <2> HIDE DEF n
  <2>3. ASSUME Bad # {} PROVE FALSE
    <3>1. PICK k \in Bad : \A m \in Bad : k <= m
      <4>1. Bad \in SUBSET Nat
        BY <1>0
      <4> HIDE DEF Bad
      <4>2. QED
        BY <2>3, <4>1, MinOfNats
    <3>2. k \in 1 .. n /\ k \in Nat
      BY <1>0, <3>1
    <3>3. f[k] = IF k = 1 THEN seqs[k] ELSE f[k - 1] \o seqs[k]
      BY <2>1, <3>2 DEF Flattening
    <3>4. s[k] \in S /\ seqs[k] = <<s[k]>>
      BY <1>0, <3>2
    <3>5. CASE k = 1
      <4>1. f[k] = <<s[k]>>
        BY <3>3, <3>4, <3>5, Zenon
      <4>2. f[k] \in Seq(S) /\ Len(f[k]) = 1 /\ f[k][1] = s[k]
        BY <3>4, <4>1
      <4>3. Row(k)
        BY <3>5, <4>2
      <4>4. QED
        BY <3>1, <4>3
    <3>6. CASE k > 1
      <4>1. k - 1 \in 1 .. n /\ k - 1 \notin Bad
        BY <1>0, <3>1, <3>2, <3>6
      <4>2. Row(k - 1)
        BY <4>1
      <4>3. f[k] = f[k - 1] \o <<s[k]>>
        <5>1. k # 1
          BY <3>2, <3>6
        <5>2. QED
          BY <3>3, <3>4, <5>1, Zenon
      <4>4. f[k] \in Seq(S) /\ Len(f[k]) = k
        BY <3>2, <3>4, <4>2, <4>3
      <4>5. ASSUME NEW j \in 1 .. k PROVE f[k][j] = s[j]
        <5>1. CASE j = k
          BY <3>2, <3>4, <4>2, <4>3, <5>1
        <5>2. CASE j # k
          <6>1. j \in 1 .. k - 1
            BY <3>2, <5>2
          <6>2. f[k][j] = f[k - 1][j]
            BY <3>4, <4>2, <4>3, <6>1
          <6>3. QED
            BY <4>2, <6>1, <6>2
        <5>3. QED
          BY <5>1, <5>2
      <4>6. QED
        BY <3>1, <4>4, <4>5
    <3>7. QED
      BY <3>2, <3>5, <3>6
  <2>4. n \in 1 .. n
    BY <1>0, <1>2
  <2>5. Row(n)
    BY <2>3, <2>4
  <2>6. f[n] = s
    BY <1>0, <2>5
  <2>7. QED
    BY <2>2, <2>6
<1>3. QED
  BY <1>0, <1>1, <1>2

\* Flattening keeps every element and adds none.
LEMMA FlattenSeqRange ==
  ASSUME NEW S, NEW seqs \in Seq(Seq(S)), NEW x
  PROVE  x \in Range(FlattenSeq(seqs)) <=> \E k \in 1 .. Len(seqs) : x \in Range(seqs[k])
<1>1. CASE seqs = << >>
  BY <1>1 DEF FlattenSeq, Range
<1>2. CASE seqs # << >>
  <2> DEFINE n == Len(seqs)
             f == CHOOSE h : Flattening(h, seqs, n)
             In(i) == \E k \in 1 .. i : x \in Range(seqs[k])
  <2>1. n \in Nat /\ n > 0 /\ \A i \in 1 .. n : seqs[i] \in Seq(S)
    BY <1>2
  <2>2. Flattening(f, seqs, n)
    BY <2>1, FlatteningExists
  <2>3. FlattenSeq(seqs) = f[n]
    BY <2>1 DEF FlattenSeq, Flattening
  <2> HIDE DEF f
  <2> DEFINE Bad == {i \in 1 .. n : ~ (f[i] \in Seq(S) /\ (x \in Range(f[i]) <=> In(i)))}
  <2> HIDE DEF n
  <2>4. ASSUME Bad # {} PROVE FALSE
    <3>1. PICK k \in Bad : \A m \in Bad : k <= m
      <4>1. Bad \in SUBSET Nat
        BY <2>1
      <4>2. QED
        BY <2>4, <4>1, MinOfNats
    <3>2. k \in 1 .. n /\ k \in Nat
      BY <2>1, <3>1
    <3>3. f[k] = IF k = 1 THEN seqs[k] ELSE f[k - 1] \o seqs[k]
      BY <2>2, <3>2 DEF Flattening
    <3>4. CASE k = 1
      <4>1. f[k] = seqs[1]
        BY <3>3, <3>4
      <4>2. In(k) <=> x \in Range(seqs[1])
        BY <3>4
      <4>3. seqs[1] \in Seq(S)
        BY <2>1
      <4>4. QED
        BY <3>1, <4>1, <4>2, <4>3, Zenon
    <3>5. CASE k > 1
      <4>1. k - 1 \in 1 .. n /\ k - 1 \notin Bad
        BY <2>1, <3>1, <3>2, <3>5
      <4>2. f[k - 1] \in Seq(S) /\ (x \in Range(f[k - 1]) <=> In(k - 1))
        BY <4>1
      <4>3. seqs[k] \in Seq(S)
        BY <2>1, <3>2
      <4>4. f[k] = f[k - 1] \o seqs[k]
        <5>1. k # 1
          BY <3>2, <3>5
        <5>2. QED
          BY <3>3, <5>1, Zenon
      <4>5. In(k) <=> In(k - 1) \/ x \in Range(seqs[k])
        <5>1. 1 .. k = (1 .. k - 1) \cup {k}
          BY <3>2, <3>5
        <5>2. QED
          BY <5>1
      <4>6. f[k] \in Seq(S) /\ (x \in Range(f[k]) <=> x \in Range(f[k - 1]) \/ x \in Range(seqs[k]))
        BY <4>2, <4>3, <4>4, RangeConcat
      <4>7. QED
        <5> HIDE DEF In
        <5>1. f[k] \in Seq(S) /\ (x \in Range(f[k]) <=> In(k))
          BY <4>2, <4>5, <4>6
        <5>2. QED
          BY <3>1, <5>1
    <3>6. QED
      BY <3>2, <3>4, <3>5
  <2>5. n \in 1 .. n
    BY <2>1
  <2>6. x \in Range(f[n]) <=> In(n)
    <3> HIDE DEF In
    <3>1. QED
      BY <2>4, <2>5
  <2>7. QED
    BY <2>3, <2>6 DEF n
<1>3. QED
  BY <1>1, <1>2

-----------------------------------------------------------------------------
\* SumFunctionOnSet.

\* The sum over s, when f is the sum over every smaller set.
SumStep(f, w, s) == IF s = {} THEN 0
                    ELSE LET x == CHOOSE y \in s : TRUE IN w[x] + f[s \ {x}]
SmallSets(S, n)  == {s \in SUBSET S : Cardinality(s) <= n}
Summing(f, w, D) == f = [s \in D |-> SumStep(f, w, s)]

\* There is a function that sums w over the sets of at most n elements.
LEMMA SummingExists ==
  ASSUME NEW S, IsFiniteSet(S), NEW w, NEW n \in Nat
  PROVE  \E f : Summing(f, w, SmallSets(S, n))
<1> DEFINE Bad == {k \in Nat : ~ \E f : Summing(f, w, SmallSets(S, k))}
<1>1. SUFFICES ASSUME Bad # {} PROVE FALSE
  OBVIOUS
<1>2. PICK k \in Bad : \A m \in Bad : k <= m
  <2>1. Min(Bad) \in Bad /\ \A m \in Bad : Min(Bad) <= m
    BY <1>1, MinOfNats
  <2>2. QED
    BY <2>1
<1>3. ASSUME NEW s \in SUBSET S, s # {}
      PROVE  LET x == CHOOSE y \in s : TRUE IN
             /\ x \in s /\ s \ {x} \in SUBSET S
             /\ Cardinality(s) \in Nat /\ Cardinality(s \ {x}) = Cardinality(s) - 1
  <2> DEFINE x == CHOOSE y \in s : TRUE
  <2>1. x \in s
    BY <1>3
  <2> HIDE DEF x
  <2>2. IsFiniteSet(s)
    BY FS_Subset
  <2>3. QED
    BY <2>1, <2>2, FS_RemoveElement, FS_CardinalityType
<1>4. CASE k = 0
  <2>1. ASSUME NEW s \in SmallSets(S, 0) PROVE s = {}
    <3>1. IsFiniteSet(s) /\ Cardinality(s) \in Nat /\ Cardinality(s) <= 0
      BY <2>1, FS_Subset, FS_CardinalityType DEF SmallSets
    <3>2. QED
      BY <3>1, FS_EmptySet
  <2> DEFINE f == [s \in SmallSets(S, 0) |-> 0]
  <2>2. Summing(f, w, SmallSets(S, 0))
    BY <2>1 DEF Summing, SumStep
  <2>3. QED
    BY <1>2, <1>4, <2>2
<1>5. CASE k > 0
  <2>1. k - 1 \in Nat /\ k - 1 \notin Bad
    BY <1>2, <1>5
  <2>2. PICK f : Summing(f, w, SmallSets(S, k - 1))
    BY <2>1
  <2> DEFINE D == SmallSets(S, k)
             E == SmallSets(S, k - 1)
             g == [s \in D |-> IF s \in E THEN f[s] ELSE SumStep(f, w, s)]
  <2>3. ASSUME NEW s \in D PROVE g[s] = SumStep(g, w, s)
    <3>1. CASE s = {}
      <4>1. Cardinality(s) = 0
        BY <3>1, FS_EmptySet
      <4>2. s \in E
        BY <2>1, <3>1, <4>1 DEF SmallSets
      <4>3. QED
        BY <2>2, <3>1, <4>2 DEF Summing, SumStep
    <3>2. CASE s # {}
      <4> DEFINE x == CHOOSE y \in s : TRUE
                 t == s \ {x}
      <4>1. /\ t \in SUBSET S /\ Cardinality(s) \in Nat /\ Cardinality(t) = Cardinality(s) - 1
        BY <1>3, <3>2 DEF SmallSets
      <4>2. t \in D /\ t \in E
        BY <1>2, <2>1, <4>1 DEF SmallSets
      <4> HIDE DEF D, E
      <4>3. g[t] = f[t]
        BY <4>2
      <4>4. SumStep(g, w, s) = w[x] + f[t]
        BY <3>2, <4>3, Zenon DEF SumStep
      <4>5. SumStep(f, w, s) = w[x] + f[t]
        BY <3>2, Zenon DEF SumStep
      <4>6. s \in E => f[s] = SumStep(f, w, s)
        BY <2>2, Zenon DEF Summing, E
      <4>7. QED
        BY <4>4, <4>5, <4>6
    <3>3. QED
      BY <3>1, <3>2
  <2>4. Summing(g, w, D)
    <3>1. g = [s \in D |-> g[s]]
      OBVIOUS
    <3> HIDE DEF g, D
    <3>2. [s \in D |-> g[s]] = [s \in D |-> SumStep(g, w, s)]
      BY <2>3
    <3>3. QED
      BY <3>1, <3>2 DEF Summing
  <2>5. QED
    <3> HIDE DEF g
    <3>1. QED
      BY <1>2, <2>4 DEF D
<1>6. QED
  BY <1>2, <1>4, <1>5

\* The sum of naturals over a finite set is a natural.
LEMMA SumOfNats ==
  ASSUME NEW S, IsFiniteSet(S), NEW w, \A x \in S : w[x] \in Nat
  PROVE  SumFunctionOnSet(w, S) \in Nat
<1> DEFINE n == Cardinality(S)
           D == SUBSET S
           f == CHOOSE h : Summing(h, w, D)
<1>1. n \in Nat
  BY FS_CardinalityType
<1>2. SmallSets(S, n) = D
  BY FS_Subset DEF SmallSets
<1>3. Summing(f, w, D)
  <2>1. \E h : Summing(h, w, SmallSets(S, n))
    BY <1>1, SummingExists
  <2>2. \E h : Summing(h, w, D)
    BY <1>2, <2>1
  <2> HIDE DEF D
  <2>3. QED
    BY <2>2
<1>4. SumFunctionOnSet(w, S) = f[S]
  BY DEF SumFunctionOnSet, FoldFunctionOnSet, MapThenFoldSet, Summing, SumStep
<1> HIDE DEF f
<1> DEFINE Bad  == {s \in D : f[s] \notin Nat}
           Size == {Cardinality(s) : s \in Bad}
<1>5. \A s \in D : IsFiniteSet(s) /\ Cardinality(s) \in Nat
  BY FS_Subset, FS_CardinalityType
<1>6. ASSUME Bad # {} PROVE FALSE
  <2>1. Size \in SUBSET Nat /\ Size # {}
    BY <1>5, <1>6
  <2>2. Min(Size) \in Size /\ \A k \in Size : Min(Size) <= k
    <3> HIDE DEF Size
    <3>1. QED
      BY <2>1, MinOfNats
  <2>3. PICK s \in Bad : Cardinality(s) = Min(Size)
    BY <2>2
  <2>4. \A t \in Bad : Cardinality(s) <= Cardinality(t)
    BY <2>2, <2>3
  <2>5. s \in D /\ f[s] \notin Nat /\ f[s] = SumStep(f, w, s)
    BY <1>3, <2>3 DEF Summing
  <2>6. s # {}
    BY <2>5 DEF SumStep
  <2> DEFINE x == CHOOSE y \in s : TRUE
             t == s \ {x}
  <2>7. x \in s
    BY <2>6
  <2>8. f[s] = w[x] + f[t]
    BY <2>5, <2>6, Zenon DEF SumStep
  <2> HIDE DEF x
  <2>9. t \in D /\ Cardinality(t) = Cardinality(s) - 1
    BY <1>5, <2>5, <2>7, FS_RemoveElement
  <2>10. t \notin Bad
    BY <1>5, <2>4, <2>5, <2>9
  <2>11. f[t] \in Nat /\ w[x] \in Nat
    BY <2>5, <2>7, <2>9, <2>10
  <2>12. QED
    BY <2>5, <2>8, <2>11
<1>7. QED
  BY <1>4, <1>6

\* What is left to prove for all subsets of a finite set, when a smallest one
\* that fails cannot be.
LEMMA SmallestSubset ==
  ASSUME NEW S, IsFiniteSet(S), NEW Bad \in SUBSET (SUBSET S), Bad # {}
  PROVE  \E s \in Bad : \A t \in SUBSET S : Cardinality(t) < Cardinality(s) => t \notin Bad
<1> DEFINE Size == {Cardinality(s) : s \in Bad}
<1>1. \A s \in SUBSET S : Cardinality(s) \in Nat
  BY FS_Subset, FS_CardinalityType
<1>2. Size \in SUBSET Nat /\ Size # {}
  BY <1>1
<1>3. Min(Size) \in Size /\ \A k \in Size : Min(Size) <= k
  <2> HIDE DEF Size
  <2>1. QED
    BY <1>2, MinOfNats
<1>4. PICK s \in Bad : Cardinality(s) = Min(Size)
  BY <1>3
<1>5. ASSUME NEW t \in SUBSET S, Cardinality(t) < Cardinality(s), t \in Bad PROVE FALSE
  <2>1. Cardinality(s) <= Cardinality(t)
    BY <1>3, <1>4, <1>5
  <2>2. Cardinality(s) \in Nat /\ Cardinality(t) \in Nat
    BY <1>1
  <2>3. QED
    BY <1>5, <2>1, <2>2
<1>6. QED
  BY <1>5

\* Taking an element off a subset of a finite set.
LEMMA WithoutOne ==
  ASSUME NEW S, IsFiniteSet(S), NEW s \in SUBSET S, NEW x \in s
  PROVE  s \ {x} \in SUBSET S /\ Cardinality(s \ {x}) < Cardinality(s)
<1>1. IsFiniteSet(s) /\ Cardinality(s) \in Nat
  BY FS_Subset, FS_CardinalityType
<1>2. Cardinality(s \ {x}) = Cardinality(s) - 1
  BY <1>1, FS_RemoveElement
<1>3. QED
  BY <1>1, <1>2

\* There is a function that sums w over all subsets of a finite set.
LEMMA SummingSubsets ==
  ASSUME NEW S, IsFiniteSet(S), NEW w
  PROVE  \E f : Summing(f, w, SUBSET S)
<1>1. SmallSets(S, Cardinality(S)) = SUBSET S
  BY FS_Subset DEF SmallSets
<1>2. \E f : Summing(f, w, SmallSets(S, Cardinality(S)))
  BY FS_CardinalityType, SummingExists
<1>3. QED
  BY <1>1, <1>2

\* SumFunctionOnSet is what such a function gives: two of them agree.
LEMMA SumIs ==
  ASSUME NEW S, IsFiniteSet(S), NEW w, NEW f, Summing(f, w, SUBSET S), NEW T \in SUBSET S
  PROVE  SumFunctionOnSet(w, T) = f[T]
<1> DEFINE g == CHOOSE h : Summing(h, w, SUBSET T)
<1>1. IsFiniteSet(T)
  BY FS_Subset
<1>2. Summing(g, w, SUBSET T)
  BY <1>1, SummingSubsets
<1>3. SumFunctionOnSet(w, T) = g[T]
  BY DEF SumFunctionOnSet, FoldFunctionOnSet, MapThenFoldSet, Summing, SumStep
<1> HIDE DEF g
<1>4. \A s \in SUBSET T : f[s] = g[s]
  <2> DEFINE Bad == {s \in SUBSET T : f[s] # g[s]}
  <2>1. SUFFICES ASSUME Bad # {} PROVE FALSE
    OBVIOUS
  <2>2. IsFiniteSet(T) /\ Bad \in SUBSET (SUBSET T)
    BY FS_Subset
  <2>3. PICK s \in Bad : \A t \in SUBSET T : Cardinality(t) < Cardinality(s) => t \notin Bad
    <3> HIDE DEF Bad
    <3>1. QED
      BY <2>1, <2>2, SmallestSubset
  <2>4. /\ f[s] = SumStep(f, w, s) /\ g[s] = SumStep(g, w, s) /\ f[s] # g[s]
        /\ s \in SUBSET T
    <3>1. s \in SUBSET T /\ s \in SUBSET S /\ f[s] # g[s]
      BY <2>3
    <3>2. QED
      BY <1>2, <3>1 DEF Summing
  <2>5. s # {}
    BY <2>4 DEF SumStep
  <2> DEFINE x == CHOOSE y \in s : TRUE
             t == s \ {x}
  <2>6. x \in s
    BY <2>5
  <2>7. f[s] = w[x] + f[t] /\ g[s] = w[x] + g[t]
    BY <2>4, <2>5, Zenon DEF SumStep
  <2> HIDE DEF x
  <2>8. t \in SUBSET T /\ Cardinality(t) < Cardinality(s)
    BY <2>2, <2>4, <2>6, WithoutOne
  <2>9. f[t] = g[t]
    BY <2>3, <2>8
  <2>10. QED
    BY <2>4, <2>7, <2>9
<1>5. QED
  BY <1>3, <1>4

\* The sum over nothing.
LEMMA SumOfNone ==
  ASSUME NEW w
  PROVE  SumFunctionOnSet(w, {}) = 0
<1>1. IsFiniteSet({})
  BY FS_EmptySet
<1>2. PICK f : Summing(f, w, SUBSET {})
  BY <1>1, SummingSubsets
<1>3. f[{}] = 0
  BY <1>2 DEF Summing, SumStep
<1>4. QED
  BY <1>1, <1>2, <1>3, SumIs

\* An element can be taken off a sum, whatever the order of summing.
LEMMA SumSplits ==
  ASSUME NEW S, IsFiniteSet(S), NEW w, \A x \in S : w[x] \in Nat, NEW x \in S
  PROVE  SumFunctionOnSet(w, S) = w[x] + SumFunctionOnSet(w, S \ {x})
<1>1. PICK f : Summing(f, w, SUBSET S)
  BY SummingSubsets
<1>2. \A s \in SUBSET S : f[s] = SumFunctionOnSet(w, s) /\ IsFiniteSet(s) /\ f[s] \in Nat
  <2>1. ASSUME NEW s \in SUBSET S PROVE f[s] = SumFunctionOnSet(w, s) /\ IsFiniteSet(s) /\ f[s] \in Nat
    <3>1. f[s] = SumFunctionOnSet(w, s) /\ IsFiniteSet(s)
      BY <1>1, SumIs, FS_Subset
    <3>2. QED
      BY <3>1, SumOfNats
  <2>2. QED
    BY <2>1
<1> DEFINE Bad == {s \in SUBSET S : \E y \in s : f[s] # w[y] + f[s \ {y}]}
<1>3. ASSUME Bad # {} PROVE FALSE
  <2>1. PICK s \in Bad : \A t \in SUBSET S : Cardinality(t) < Cardinality(s) => t \notin Bad
    <3>1. Bad \in SUBSET (SUBSET S)
      OBVIOUS
    <3> HIDE DEF Bad
    <3>2. QED
      BY <1>3, <3>1, SmallestSubset
  <2>2. PICK y \in s : f[s] # w[y] + f[s \ {y}]
    BY <2>1
  <2> DEFINE z == CHOOSE v \in s : TRUE
  <2>3. s \in SUBSET S /\ z \in s /\ f[s] = w[z] + f[s \ {z}]
    <3>1. s \in SUBSET S /\ s # {}
      BY <2>1, <2>2
    <3>2. f[s] = SumStep(f, w, s)
      BY <1>1, <3>1 DEF Summing
    <3>3. QED
      BY <3>1, <3>2, Zenon DEF SumStep
  <2> HIDE DEF z
  <2>4. z # y
    BY <2>2, <2>3
  <2> DEFINE u == (s \ {y}) \ {z}
  <2>5. f[s \ {z}] = w[y] + f[u]
    <3>1. s \ {z} \in SUBSET S /\ s \ {z} \notin Bad
      BY <2>1, <2>3, WithoutOne
    <3>2. y \in s \ {z} /\ (s \ {z}) \ {y} = u
      BY <2>2, <2>4
    <3>3. QED
      BY <3>1, <3>2
  <2>6. f[s \ {y}] = w[z] + f[u]
    <3>1. s \ {y} \in SUBSET S /\ s \ {y} \notin Bad
      BY <2>1, <2>2, <2>3, WithoutOne
    <3>2. z \in s \ {y}
      BY <2>3, <2>4
    <3>3. QED
      BY <3>1, <3>2
  <2>7. w[y] \in Nat /\ w[z] \in Nat /\ f[u] \in Nat
    BY <1>2, <2>2, <2>3
  <2>8. QED
    <3> HIDE DEF u
    <3>1. QED
      BY <2>2, <2>3, <2>5, <2>6, <2>7
<1>4. f[S] = w[x] + f[S \ {x}]
  BY <1>3
<1>5. QED
  BY <1>2, <1>4

\* A part sums up to no more than the whole.
LEMMA SumOfPart ==
  ASSUME NEW S, IsFiniteSet(S), NEW w, \A x \in S : w[x] \in Nat, NEW T \in SUBSET S
  PROVE  SumFunctionOnSet(w, T) <= SumFunctionOnSet(w, S)
<1> DEFINE Sum(s) == SumFunctionOnSet(w, s)
           Bad == {s \in SUBSET S : T \subseteq s /\ ~ (Sum(T) <= Sum(s))}
<1>1. \A s \in SUBSET S : Sum(s) \in Nat /\ IsFiniteSet(s)
  <2>1. ASSUME NEW s \in SUBSET S PROVE Sum(s) \in Nat /\ IsFiniteSet(s)
    BY FS_Subset, SumOfNats
  <2>2. QED
    BY <2>1
<1>2. ASSUME NEW s \in SUBSET S, NEW x \in s PROVE Sum(s) = w[x] + Sum(s \ {x})
  BY <1>1, SumSplits
<1> HIDE DEF Sum
<1>3. ASSUME Bad # {} PROVE FALSE
  <2>1. PICK s \in Bad : \A t \in SUBSET S : Cardinality(t) < Cardinality(s) => t \notin Bad
    <3>1. Bad \in SUBSET (SUBSET S)
      OBVIOUS
    <3> HIDE DEF Bad
    <3>2. QED
      BY <1>3, <3>1, SmallestSubset
  <2>2. s \in SUBSET S /\ T \subseteq s /\ ~ (Sum(T) <= Sum(s))
    BY <2>1
  <2>3. s # T
    BY <1>1, <2>2
  <2>4. PICK x \in s : x \notin T
    BY <2>2, <2>3
  <2>5. Sum(T) <= Sum(s \ {x})
    <3>1. s \ {x} \in SUBSET S /\ s \ {x} \notin Bad
      BY <2>1, <2>2, <2>4, WithoutOne
    <3>2. QED
      BY <2>2, <2>4, <3>1
  <2>6. Sum(s) = w[x] + Sum(s \ {x})
    BY <1>2, <2>2, <2>4
  <2>7. Sum(T) \in Nat /\ Sum(s \ {x}) \in Nat /\ w[x] \in Nat
    BY <1>1, <2>2, <2>4
  <2>8. QED
    BY <2>2, <2>5, <2>6, <2>7
<1>4. QED
  BY <1>3 DEF Sum

-----------------------------------------------------------------------------
\* Heads of sequences, and sequences in two parts.

\* The head of a head of a sequence is a head of the sequence.
LEMMA HeadOfHead ==
  ASSUME NEW S, NEW s \in Seq(S), NEW n \in Nat, n <= Len(s), NEW m \in Nat, m <= n
  PROVE  SubSeq(SubSeq(s, 1, n), 1, m) = SubSeq(s, 1, m)
<1>1. SubSeq(s, 1, n) \in Seq(S) /\ Len(SubSeq(s, 1, n)) = n
  OBVIOUS
<1>2. \A x \in 1 .. m : SubSeq(s, 1, n)[x] = s[x]
  OBVIOUS
<1>3. QED
  BY <1>1, <1>2

\* The head of a concatenation, where it ends within the first part.
LEMMA HeadOfConcat ==
  ASSUME NEW S, NEW s \in Seq(S), NEW t \in Seq(S), NEW m \in Nat, m <= Len(s)
  PROVE  SubSeq(s \o t, 1, m) = SubSeq(s, 1, m)
OBVIOUS

\* A sequence in two parts.
LEMMA InParts ==
  ASSUME NEW S, NEW a \in Seq(S), NEW b \in Seq(S), NEW c \in Seq(S),
         Len(c) = Len(a) + Len(b),
         \A i \in 1 .. Len(a) : c[i] = a[i],
         \A i \in 1 .. Len(b) : c[Len(a) + i] = b[i]
  PROVE  a \o b = c
<1>1. /\ a \o b \in Seq(S) /\ Len(a \o b) = Len(a) + Len(b)
      /\ \A i \in 1 .. Len(a) + Len(b) :
           (a \o b)[i] = IF i <= Len(a) THEN a[i] ELSE b[i - Len(a)]
  BY ConcatProperties
<1>2. Len(a) \in Nat /\ Len(b) \in Nat
  OBVIOUS
<1>3. ASSUME NEW i \in 1 .. Len(c) PROVE (a \o b)[i] = c[i]
  <2>1. CASE i <= Len(a)
    <3>1. i \in 1 .. Len(a) /\ i \in 1 .. Len(a) + Len(b)
      BY <1>2, <2>1
    <3>2. QED
      BY <1>1, <2>1, <3>1
  <2>2. CASE ~(i <= Len(a))
    <3>1. i - Len(a) \in 1 .. Len(b) /\ Len(a) + (i - Len(a)) = i
          /\ i \in 1 .. Len(a) + Len(b)
      BY <1>2, <2>2
    <3>2. c[i] = b[i - Len(a)]
      BY <3>1
    <3>3. QED
      BY <1>1, <2>2, <3>1, <3>2
  <2>3. QED
    BY <2>1, <2>2
<1>4. QED
  BY <1>1, <1>3

\* The head of a sequence in two parts.
LEMMA HeadInParts ==
  ASSUME NEW S, NEW s \in Seq(S), NEW new \in Seq(S), NEW k \in Nat, NEW n \in Nat,
         n <= Len(new), k + n <= Len(s), \A i \in 1 .. Len(new) : new[i] = s[k + i]
  PROVE  SubSeq(s, 1, k) \o SubSeq(new, 1, n) = SubSeq(s, 1, k + n)
<1>1. PICK a, b, c : a = SubSeq(s, 1, k) /\ b = SubSeq(new, 1, n) /\ c = SubSeq(s, 1, k + n)
  OBVIOUS
<1>2. a \in Seq(S) /\ Len(a) = k /\ \A i \in 1 .. k : a[i] = s[i]
  BY <1>1
<1>3. b \in Seq(S) /\ Len(b) = n /\ \A i \in 1 .. n : b[i] = new[i]
  BY <1>1
<1>4. c \in Seq(S) /\ Len(c) = k + n /\ \A i \in 1 .. k + n : c[i] = s[i]
  <2>1. PICK x : x = k + n
    OBVIOUS
  <2>2. x \in Nat /\ x <= Len(s) /\ c = SubSeq(s, 1, x)
    BY ONLY <1>1, <2>1, k \in Nat, n \in Nat, k + n <= Len(s)
  <2>3. c \in Seq(S) /\ Len(c) = x /\ \A i \in 1 .. x : c[i] = s[i]
    BY ONLY <2>2, s \in Seq(S)
  <2>4. QED
    BY ONLY <2>1, <2>3
<1>5. \A i \in 1 .. k : c[i] = a[i]
  BY <1>2, <1>4
<1>6. ASSUME NEW i \in 1 .. n PROVE c[k + i] = b[i]
  <2>1. k + i \in 1 .. k + n /\ i \in 1 .. Len(new)
    OBVIOUS
  <2>2. c[k + i] = s[k + i] /\ b[i] = new[i] /\ new[i] = s[k + i]
    BY <1>3, <1>4, <2>1
  <2>3. QED
    BY <2>2
<1>7. a \o b = c
  BY <1>2, <1>3, <1>4, <1>5, <1>6, InParts, ZenonT(60)
<1>8. QED
  BY <1>1, <1>7

=============================================================================
