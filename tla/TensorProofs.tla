---------------------------- MODULE TensorProofs ----------------------------
(***************************************************************************)
(* Proofs about the machines that compute addresses.  TensorViews: for any *)
(* shapes and any number of operations a chain of views implements arrays  *)
(* without addresses.  BatchAttention: for any calls, page tables and      *)
(* scratch buffer every row attends to its own request's past.  Last, the  *)
(* machines below the forward together: each keeps its own specification   *)
(* and its types.                                                          *)
(***************************************************************************)
EXTENDS MCKernels, KernelsProofs

-----------------------------------------------------------------------------
\* The sum of the first r of some numbers.
Total(w, r) == SumFunctionOnSet(w, 1 .. r)

\* A total is a number, and grows by the number it takes in.
LEMMA TotalIs ==
  ASSUME NEW n \in Nat, NEW w, \A i \in 1 .. n : w[i] \in Nat
  PROVE  /\ Total(w, 0) = 0
         /\ \A r \in 0 .. n : Total(w, r) \in Nat
         /\ \A r \in 1 .. n : Total(w, r) = Total(w, r - 1) + w[r]
<1>1. Total(w, 0) = 0
  <2>1. 1 .. 0 = {}
    OBVIOUS
  <2>2. QED
    BY <2>1, SumOfNone DEF Total
<1>2. ASSUME NEW r \in 0 .. n PROVE Total(w, r) \in Nat
  <2>1. IsFiniteSet(1 .. r) /\ \A x \in 1 .. r : w[x] \in Nat
    <3>1. 1 \in Int /\ r \in Int
      OBVIOUS
    <3>2. IsFiniteSet(1 .. r)
      BY <3>1, FS_Interval
    <3>3. QED
      BY <3>2
  <2>2. QED
    BY <2>1, SumOfNats DEF Total
<1>3. ASSUME NEW r \in 1 .. n PROVE Total(w, r) = Total(w, r - 1) + w[r]
  <2>1. IsFiniteSet(1 .. r) /\ (\A x \in 1 .. r : w[x] \in Nat) /\ r \in 1 .. r
    <3>1. 1 \in Int /\ r \in Int
      OBVIOUS
    <3>2. IsFiniteSet(1 .. r)
      BY <3>1, FS_Interval
    <3>3. QED
      BY <3>2
  <2>2. (1 .. r) \ {r} = 1 .. r - 1
    OBVIOUS
  <2>3. SumFunctionOnSet(w, 1 .. r) = w[r] + SumFunctionOnSet(w, (1 .. r) \ {r})
    BY ONLY <2>1, SumSplits
  <2>4. Total(w, r) = w[r] + Total(w, r - 1)
    BY <2>2, <2>3 DEF Total
  <2>5. Total(w, r - 1) \in Nat /\ w[r] \in Nat
    <3>1. r - 1 \in 0 .. n
      OBVIOUS
    <3>2. QED
      BY <1>2, <3>1
  <2>6. QED
    BY <2>4, <2>5
<1>4. QED
  BY <1>1, <1>2, <1>3

\* Totals grow.
LEMMA TotalGrows ==
  ASSUME NEW n \in Nat, NEW w, \A i \in 1 .. n : w[i] \in Nat,
         NEW a \in 0 .. n, NEW b \in 0 .. n, a <= b
  PROVE  Total(w, a) <= Total(w, b)
<1> DEFINE Bad == {r \in 0 .. n : a <= r /\ ~ (Total(w, a) <= Total(w, r))}
<1>0. /\ \A r \in 0 .. n : Total(w, r) \in Nat
      /\ \A r \in 1 .. n : Total(w, r) = Total(w, r - 1) + w[r]
  BY TotalIs
<1>1. SUFFICES ASSUME Bad # {} PROVE FALSE
  OBVIOUS
<1>2. PICK r \in Bad : \A m \in Bad : r <= m
  <2>1. Bad \in SUBSET Nat
    OBVIOUS
  <2> HIDE DEF Bad
  <2>2. Min(Bad) \in Bad /\ \A m \in Bad : Min(Bad) <= m
    BY <1>1, <2>1, MinOfNats
  <2>3. QED
    BY <2>2
<1>3. r \in 0 .. n /\ a <= r /\ ~ (Total(w, a) <= Total(w, r))
  OBVIOUS
<1>4. r # a
  BY <1>0, <1>3
<1>5. r \in 1 .. n /\ r - 1 \in 0 .. n /\ a <= r - 1 /\ ~ (r <= r - 1)
  BY <1>3, <1>4
<1>6. Total(w, a) <= Total(w, r - 1)
  BY <1>2, <1>5
<1>7. QED
  <2>1. PICK x, y, z, u : x = Total(w, a) /\ y = Total(w, r - 1) /\ z = Total(w, r) /\ u = w[r]
    OBVIOUS
  <2>2. x \in Nat /\ y \in Nat /\ z \in Nat /\ u \in Nat /\ z = y + u /\ x <= y /\ ~ (x <= z)
    BY <1>0, <1>3, <1>5, <1>6, <2>1
  <2>3. QED
    BY ONLY <2>2

-----------------------------------------------------------------------------
\* Quotients and remainders of b * n + c.
LEMMA DivideSum ==
  ASSUME NEW b \in Nat, NEW n \in Nat \ {0}, NEW c \in 0 .. n - 1
  PROVE  (b * n + c) \div n = b /\ (b * n + c) % n = c
<1>1. PICK a \in Nat : a = b * n + c
  OBVIOUS
<1>2. PICK q, m : q = a \div n /\ m = a % n
  OBVIOUS
<1>3. q \in Nat /\ m \in 0 .. n - 1 /\ a = n * q + m
  BY <1>2
<1>4. n * q + m = b * n + c /\ n \in Nat /\ n > 0 /\ b \in Nat /\ c \in Nat /\ c < n
      /\ q \in Nat /\ m \in Nat /\ m < n
  BY <1>1, <1>3
<1>5. q = b
  <2>1. ~ (q < b)
    <3>1. SUFFICES ASSUME q + 1 <= b PROVE FALSE
      BY <1>4
    <3>2. n * (q + 1) <= n * b
      BY ONLY <1>4, <3>1
    <3>3. n * (q + 1) = n * q + n /\ n * b = b * n
      BY ONLY <1>4
    <3>4. PICK x, y : x = n * q /\ y = b * n
      OBVIOUS
    <3>5. x \in Nat /\ y \in Nat /\ x + n <= y /\ x + m = y + c
      BY ONLY <1>4, <3>2, <3>3, <3>4
    <3>6. QED
      BY ONLY <1>4, <3>5
  <2>2. ~ (b < q)
    <3>1. SUFFICES ASSUME b + 1 <= q PROVE FALSE
      BY <1>4
    <3>2. n * (b + 1) <= n * q
      BY ONLY <1>4, <3>1
    <3>3. n * (b + 1) = b * n + n
      BY ONLY <1>4
    <3>4. PICK x, y : x = n * q /\ y = b * n
      OBVIOUS
    <3>5. x \in Nat /\ y \in Nat /\ y + n <= x /\ x + m = y + c
      BY ONLY <1>4, <3>2, <3>3, <3>4
    <3>6. QED
      BY ONLY <1>4, <3>5
  <2>3. QED
    BY <1>4, <2>1, <2>2
<1>6. m = c
  <2>1. PICK x : x = n * q
    OBVIOUS
  <2>2. n * q = b * n
    BY ONLY <1>4, <1>5
  <2>3. x \in Nat /\ x + m = x + c
    BY ONLY <1>4, <2>1, <2>2
  <2>4. QED
    BY ONLY <1>4, <2>3
<1>7. QED
  BY <1>1, <1>2, <1>5, <1>6

\* A number within m * n is a place of n by m.
LEMMA PlaceWithin ==
  ASSUME NEW m \in Nat, NEW n \in Nat \ {0}, NEW a \in 0 .. m * n - 1
  PROVE  /\ a \div n \in 0 .. m - 1 /\ a % n \in 0 .. n - 1
         /\ a = (a \div n) * n + (a % n)
<1>1. PICK x \in Nat : x = m * n
  OBVIOUS
<1>2. a \in Nat /\ a < x
  BY ONLY <1>1, a \in 0 .. m * n - 1
<1>3. PICK q, r : q = a \div n /\ r = a % n
  OBVIOUS
<1>4. q \in Nat /\ r \in 0 .. n - 1 /\ a = n * q + r
  BY ONLY <1>2, <1>3, n \in Nat \ {0}
<1>5. a = q * n + r
  BY ONLY <1>4, n \in Nat \ {0}
<1>6. q < m
  <2>1. SUFFICES ASSUME m <= q PROVE FALSE
    BY <1>4
  <2>2. m * n <= q * n
    BY ONLY <1>4, <2>1, m \in Nat, n \in Nat \ {0}
  <2>3. PICK y \in Nat : y = q * n
    BY <1>4
  <2>4. x <= y /\ a = y + r /\ r \in Nat
    BY ONLY <1>1, <1>4, <1>5, <2>2, <2>3
  <2>5. QED
    BY ONLY <1>1, <1>2, <2>3, <2>4
<1>7. QED
  BY ONLY <1>3, <1>4, <1>5, <1>6, m \in Nat

\* The cell of a place in a buffer of m rows of n cells lies in it.
LEMMA WithinPlace ==
  ASSUME NEW m \in Nat, NEW n \in Nat \ {0}, NEW b \in 0 .. m - 1, NEW c \in 0 .. n - 1
  PROVE  b * n + c \in 0 .. m * n - 1
<1>1. b + 1 <= m /\ b \in Nat
  OBVIOUS
<1>2. (b + 1) * n <= m * n
  BY ONLY <1>1, m \in Nat, n \in Nat \ {0}
<1>3. (b + 1) * n = b * n + n
  BY ONLY <1>1, n \in Nat \ {0}
<1>4. PICK x \in Nat, y \in Nat : x = b * n /\ y = m * n
  BY ONLY <1>1, m \in Nat, n \in Nat \ {0}
<1>5. x + n <= y
  BY ONLY <1>2, <1>3, <1>4
<1>6. QED
  BY ONLY <1>4, <1>5, n \in Nat \ {0}, c \in 0 .. n - 1

-----------------------------------------------------------------------------
\* Views.

\* The largest of the first numbers is the last of them.
LEMMA LastOfFirst ==
  ASSUME NEW n \in Nat, NEW T \in SUBSET (1 .. n), n \in T
  PROVE  Max(T) = n
<1>1. /\ T \in SUBSET Nat /\ T # {} /\ \A i \in T : i <= n
  OBVIOUS
<1>2. Max(T) \in T /\ \A i \in T : i <= Max(T)
  BY ONLY <1>1, n \in Nat, MaxOfNats
<1>3. PICK m : m = Max(T)
  OBVIOUS
<1>4. m \in T /\ m <= n /\ n <= m /\ m \in Nat
  BY <1>1, <1>2, <1>3
<1>5. QED
  BY ONLY <1>3, <1>4, n \in Nat

\* The product of a shape is what multiplying up finds.
TimesStep(f, s, T) == IF T = {} THEN 1 ELSE f[T \ {Max(T)}] * s[Max(T)]
Timing(f, s, n)    == f = [T \in SUBSET (1 .. n) |-> TimesStep(f, s, T)]

\* Numel is a fold: the value of a recursive function at the whole shape.
LEMMA NumelByFold ==
  ASSUME NEW s, NEW n, DOMAIN s = 1 .. n
  PROVE  Numel(s) = (CHOOSE f : Timing(f, s, n))[1 .. n]
<1>1. Numel(s) = (CHOOSE f : f = [T \in SUBSET (DOMAIN s) |-> TimesStep(f, s, T)])[DOMAIN s]
  BY Zenon DEF Numel, FoldLeft, MapThenFoldSet, TimesStep
<1>2. QED
  BY <1>1 DEF Timing

\* There is such a function for every shape.
LEMMA TimingExists ==
  ASSUME NEW n \in Nat, NEW s
  PROVE  \E f : Timing(f, s, n)
<1> DEFINE Bad == {k \in Nat : ~ \E f : Timing(f, s, k)}
<1>1. SUFFICES ASSUME Bad # {} PROVE FALSE
  OBVIOUS
<1>2. PICK k \in Bad : \A m \in Bad : k <= m
  <2>1. Bad \in SUBSET Nat
    OBVIOUS
  <2> HIDE DEF Bad
  <2>2. Min(Bad) \in Bad /\ \A m \in Bad : Min(Bad) <= m
    BY <1>1, <2>1, MinOfNats
  <2>3. QED
    BY <2>2
<1>3. k \in Nat /\ ~ \E f : Timing(f, s, k)
  OBVIOUS
<1>4. k # 0
  <2>1. PICK g : g = [T \in {{}} |-> 1]
    OBVIOUS
  <2>2. SUBSET (1 .. 0) = {{}}
    OBVIOUS
  <2>3. \A T \in {{}} : TimesStep(g, s, T) = g[T]
    BY <2>1 DEF TimesStep
  <2>4. g = [T \in {{}} |-> TimesStep(g, s, T)]
    BY <2>1, <2>3
  <2>5. Timing(g, s, 0)
    BY ONLY <2>2, <2>4 DEF Timing
  <2>6. QED
    BY <1>3, <2>5
<1>5. k - 1 \in Nat /\ ~ (k <= k - 1) /\ 1 .. k - 1 \subseteq 1 .. k /\ k \notin 1 .. k - 1
  BY <1>3, <1>4
<1>6. PICK f : Timing(f, s, k - 1)
  BY <1>2, <1>5
<1> HIDE DEF Bad
<1>7. PICK g : g = [T \in SUBSET (1 .. k) |-> IF k \in T THEN f[T \ {k}] * s[k] ELSE f[T]]
  OBVIOUS
<1>8. ASSUME NEW T \in SUBSET (1 .. k - 1) PROVE g[T] = f[T] /\ f[T] = TimesStep(f, s, T)
  <2>1. T \in SUBSET (1 .. k) /\ k \notin T
    BY <1>5
  <2>2. g[T] = f[T]
    BY ONLY <1>7, <2>1
  <2>3. QED
    BY ONLY <1>6, <2>2, T \in SUBSET (1 .. k - 1) DEF Timing
<1>9. ASSUME NEW T \in SUBSET (1 .. k) PROVE g[T] = TimesStep(g, s, T)
  <2>1. CASE k \in T
    <3>1. T \ {k} \in SUBSET (1 .. k - 1) /\ T # {}
      BY <1>3, <2>1
    <3>2. Max(T) = k
      BY <1>3, <2>1, LastOfFirst
    <3>3. g[T \ {k}] = f[T \ {k}]
      BY <1>8, <3>1
    <3>4. g[T] = f[T \ {k}] * s[k]
      BY ONLY <1>7, <2>1, T \in SUBSET (1 .. k)
    <3>5. QED
      BY ONLY <3>1, <3>2, <3>3, <3>4 DEF TimesStep
  <2>2. CASE k \notin T
    <3>1. T \in SUBSET (1 .. k - 1)
      BY <1>3, <2>2
    <3>2. g[T] = TimesStep(f, s, T)
      BY <1>8, <3>1
    <3>3. CASE T = {}
      BY ONLY <3>2, <3>3 DEF TimesStep
    <3>4. CASE T # {}
      <4>1. Max(T) \in T
        <5>1. T \in SUBSET Nat /\ k \in Nat /\ \A i \in T : i <= k
          BY <1>3
        <5>2. QED
          BY ONLY <3>4, <5>1, MaxOfNats
      <4>2. T \ {Max(T)} \in SUBSET (1 .. k - 1)
        BY ONLY <3>1
      <4>3. g[T \ {Max(T)}] = f[T \ {Max(T)}]
        BY <1>8, <4>2
      <4>4. QED
        BY ONLY <3>2, <4>3 DEF TimesStep
    <3>5. QED
      BY <3>3, <3>4
  <2>3. QED
    BY <2>1, <2>2
<1>10. Timing(g, s, k)
  <2>1. g = [T \in SUBSET (1 .. k) |-> g[T]]
    BY <1>7
  <2>2. QED
    BY ONLY <1>9, <2>1 DEF Timing
<1>11. QED
  BY <1>3, <1>10

\* So there are the products of the first numbers of a shape.
LEMMA Products ==
  ASSUME NEW s \in Seq(Nat)
  PROVE  \E p \in [0 .. Len(s) -> Nat] :
           /\ p[0] = 1 /\ (\A k \in 1 .. Len(s) : p[k] = p[k - 1] * s[k])
           /\ Numel(s) = p[Len(s)]
<1>1. PICK n : n = Len(s)
  OBVIOUS
<1>2. n \in Nat /\ DOMAIN s = 1 .. n /\ \A k \in 1 .. n : s[k] \in Nat
  BY <1>1
<1>3. PICK f : f = CHOOSE h : Timing(h, s, n)
  OBVIOUS
<1>4. Timing(f, s, n)
  <2>1. \E h : Timing(h, s, n)
    BY <1>2, TimingExists
  <2>2. QED
    BY ONLY <1>3, <2>1
<1>5. f[{}] = 1
  <2>1. {} \in SUBSET (1 .. n)
    OBVIOUS
  <2>2. QED
    BY ONLY <1>4, <2>1 DEF Timing, TimesStep
<1>6. ASSUME NEW k \in 1 .. n PROVE f[1 .. k] = f[1 .. k - 1] * s[k]
  <2>1. k \in Nat /\ 1 .. k \in SUBSET (1 .. n) /\ 1 .. k # {} /\ k \in 1 .. k
    <3>1. n \in Nat /\ k \in Nat /\ 1 <= k /\ k <= n
      BY ONLY <1>2, k \in 1 .. n
    <3>2. \A i \in 1 .. k : i \in 1 .. n
      BY ONLY <3>1
    <3>3. k \in 1 .. k
      BY ONLY <3>1
    <3>4. QED
      BY ONLY <3>1, <3>2, <3>3
  <2>2. (1 .. k) \ {k} = 1 .. k - 1
    BY ONLY <2>1
  <2>3. Max(1 .. k) = k
    BY ONLY <2>1, LastOfFirst
  <2>4. f[1 .. k] = TimesStep(f, s, 1 .. k)
    BY ONLY <1>4, <2>1 DEF Timing
  <2>5. QED
    BY ONLY <2>1, <2>2, <2>3, <2>4 DEF TimesStep
<1>7. PICK p : p = [k \in 0 .. n |-> f[1 .. k]]
  OBVIOUS
<1>8. p[0] = 1 /\ \A k \in 1 .. n : p[k] = p[k - 1] * s[k]
  <2>1. 1 .. 0 = {} /\ 0 \in 0 .. n /\ \A k \in 1 .. n : k \in 0 .. n /\ k - 1 \in 0 .. n
    BY <1>2
  <2>2. QED
    BY ONLY <1>5, <1>6, <1>7, <2>1
<1> DEFINE Bad == {k \in 0 .. n : p[k] \notin Nat}
<1>9. ASSUME Bad # {} PROVE FALSE
  <2>1. PICK k \in Bad : \A m \in Bad : k <= m
    <3>1. Bad \in SUBSET Nat
      OBVIOUS
    <3> HIDE DEF Bad
    <3>2. Min(Bad) \in Bad /\ \A m \in Bad : Min(Bad) <= m
      BY <1>9, <3>1, MinOfNats
    <3>3. QED
      BY <3>2
  <2>2. k \in 0 .. n /\ p[k] \notin Nat
    OBVIOUS
  <2>3. k \in 1 .. n /\ k - 1 \in 0 .. n /\ ~ (k <= k - 1)
    BY <1>2, <1>8, <2>2
  <2>4. p[k - 1] \in Nat
    BY <2>1, <2>3
  <2>5. PICK x \in Nat, y \in Nat : x = p[k - 1] /\ y = s[k]
    BY <1>2, <2>3, <2>4
  <2>6. p[k] = x * y
    BY <1>8, <2>3, <2>5
  <2>7. QED
    BY ONLY <2>2, <2>5, <2>6
<1>10. p \in [0 .. n -> Nat]
  BY <1>7, <1>9
<1>11. Numel(s) = p[n]
  <2>1. Numel(s) = f[1 .. n]
    BY ONLY <1>2, <1>3, NumelByFold
  <2>2. n \in 0 .. n
    BY <1>2
  <2>3. QED
    BY ONLY <1>7, <2>1, <2>2
<1>12. QED
  BY <1>1, <1>8, <1>10, <1>11

\* A shape has as many elements as its first dimension times the rest.
LEMMA NumelOfTail ==
  ASSUME NEW u \in Seq(Nat), NEW v \in Seq(Nat), Len(u) = Len(v) + 1,
         \A j \in 1 .. Len(v) : u[j + 1] = v[j]
  PROVE  Numel(u) = u[1] * Numel(v)
<1>0. \A j \in 1 .. Len(v) : u[j + 1] = v[j] /\ v[j] \in Nat
  OBVIOUS
<1>1. PICK n, a : n = Len(v) /\ a = u[1]
  OBVIOUS
<1>2. n \in Nat /\ Len(u) = n + 1 /\ a \in Nat
  <2>1. n \in Nat /\ Len(u) = n + 1
    BY <1>1
  <2>2. 1 \in 1 .. Len(u)
    BY ONLY <2>1
  <2>3. u[1] \in Nat
    BY ONLY <2>2, u \in Seq(Nat)
  <2>4. QED
    BY ONLY <1>1, <2>1, <2>3
<1>3. PICK p \in [0 .. Len(u) -> Nat] :
        /\ p[0] = 1 /\ (\A k \in 1 .. Len(u) : p[k] = p[k - 1] * u[k])
        /\ Numel(u) = p[Len(u)]
  BY Products
<1>4. PICK q \in [0 .. Len(v) -> Nat] :
        /\ q[0] = 1 /\ (\A k \in 1 .. Len(v) : q[k] = q[k - 1] * v[k])
        /\ Numel(v) = q[Len(v)]
  BY Products
<1> DEFINE Bad == {k \in 0 .. n : p[k + 1] # a * q[k]}
<1>5. ASSUME Bad # {} PROVE FALSE
  <2>1. PICK k \in Bad : \A m \in Bad : k <= m
    <3>1. Bad \in SUBSET Nat
      OBVIOUS
    <3> HIDE DEF Bad
    <3>2. Min(Bad) \in Bad /\ \A m \in Bad : Min(Bad) <= m
      BY <1>5, <3>1, MinOfNats
    <3>3. QED
      BY <3>2
  <2>2. k \in 0 .. n /\ p[k + 1] # a * q[k]
    OBVIOUS
  <2>3. k # 0
    <3>1. 1 \in 1 .. Len(u) /\ 1 - 1 = 0 /\ 0 + 1 = 1
      BY <1>2
    <3>2. p[1] = 1 * a
      BY ONLY <1>1, <1>3, <3>1
    <3>3. p[0 + 1] = a * q[0]
      BY ONLY <1>2, <1>4, <3>1, <3>2
    <3>4. QED
      BY ONLY <2>2, <3>3
  <2>4. /\ k \in 1 .. n /\ k - 1 \in 0 .. n /\ ~ (k <= k - 1) /\ k + 1 \in 1 .. Len(u)
        /\ k + 1 - 1 = k /\ k - 1 + 1 = k
    BY ONLY <1>2, <2>2, <2>3
  <2>5. p[k] = a * q[k - 1]
    <3>1. p[k - 1 + 1] = a * q[k - 1]
      BY <2>1, <2>4
    <3>2. QED
      BY ONLY <2>4, <3>1
  <2>6. p[k + 1] = p[k] * v[k] /\ q[k] = q[k - 1] * v[k]
    <3>1. p[k + 1] = p[k] * u[k + 1]
      BY ONLY <1>3, <2>4
    <3>2. u[k + 1] = v[k]
      BY ONLY <1>0, <1>1, <2>4
    <3>3. q[k] = q[k - 1] * v[k]
      BY ONLY <1>1, <1>4, <2>4
    <3>4. QED
      BY ONLY <3>1, <3>2, <3>3
  <2>7. PICK x, y : x = q[k - 1] /\ y = v[k]
    OBVIOUS
  <2>8. x \in Nat /\ y \in Nat
    <3>1. q[k - 1] \in Nat
      BY ONLY <1>1, <2>4, q \in [0 .. Len(v) -> Nat]
    <3>2. v[k] \in Nat
      BY ONLY <1>0, <1>1, <2>4
    <3>3. QED
      BY ONLY <2>7, <3>1, <3>2
  <2>9. (a * x) * y = a * (x * y)
    BY ONLY <1>2, <2>8
  <2>10. QED
    BY ONLY <2>2, <2>5, <2>6, <2>7, <2>9
<1>6. p[n + 1] = a * q[n]
  <2>1. n \in 0 .. n
    BY <1>2
  <2>2. QED
    BY <1>5, <2>1
<1>7. QED
  BY ONLY <1>1, <1>2, <1>3, <1>4, <1>6

\* The elements of the dimensions from k on.
Span(s, k) == Numel(SubSeq(s, k, Len(s)))

\* The elements from a dimension on, one dimension at a time.
LEMMA SpanIs ==
  ASSUME NEW s \in Seq(Nat)
  PROVE  /\ \A k \in 1 .. Len(s) + 1 : Span(s, k) \in Nat
         /\ Span(s, Len(s) + 1) = 1 /\ Span(s, 1) = Numel(s)
         /\ \A k \in 1 .. Len(s) : Span(s, k) = s[k] * Span(s, k + 1)
<1>1. PICK n : n = Len(s)
  OBVIOUS
<1>2. n \in Nat /\ \A k \in 1 .. n : s[k] \in Nat
  BY <1>1
<1>3. ASSUME NEW k \in 1 .. n + 1, NEW u, u = SubSeq(s, k, n)
      PROVE  /\ u \in Seq(Nat) /\ Len(u) = n + 1 - k
             /\ \A i \in 1 .. n + 1 - k : u[i] = s[k + i - 1]
  <2>1. k \in Int /\ n \in Int /\ (\A i \in k .. n : s[i] \in Nat) /\ n - k + 1 = n + 1 - k
    BY <1>2
  <2>2. /\ SubSeq(s, k, n) \in Seq(Nat)
        /\ Len(SubSeq(s, k, n)) = IF k <= n THEN n - k + 1 ELSE 0
        /\ \A i \in 1 .. n - k + 1 : SubSeq(s, k, n)[i] = s[k + i - 1]
    BY ONLY <2>1, SubSeqProperties
  <2>3. (IF k <= n THEN n - k + 1 ELSE 0) = n + 1 - k
    BY <1>2
  <2>4. QED
    BY ONLY <1>3, <2>1, <2>2, <2>3
<1>4. ASSUME NEW k \in 1 .. n + 1 PROVE Span(s, k) \in Nat
  <2>1. PICK u : u = SubSeq(s, k, n)
    OBVIOUS
  <2>2. u \in Seq(Nat)
    BY <1>3, <2>1
  <2>3. PICK p \in [0 .. Len(u) -> Nat] : Numel(u) = p[Len(u)]
    BY <2>2, Products
  <2>4. Len(u) \in 0 .. Len(u)
    BY <2>2
  <2>5. QED
    BY <1>1, <2>1, <2>3, <2>4 DEF Span
<1>5. Span(s, n + 1) = 1
  <2>1. PICK u : u = SubSeq(s, n + 1, n)
    OBVIOUS
  <2>2. n + 1 \in 1 .. n + 1 /\ n + 1 - (n + 1) = 0
    BY <1>2
  <2>3. u \in Seq(Nat) /\ Len(u) = 0
    BY <1>3, <2>1, <2>2
  <2>4. PICK p \in [0 .. Len(u) -> Nat] : p[0] = 1 /\ Numel(u) = p[Len(u)]
    BY <2>3, Products
  <2>5. QED
    BY ONLY <1>1, <2>1, <2>3, <2>4 DEF Span
<1>6. Span(s, 1) = Numel(s)
  <2>1. PICK u : u = SubSeq(s, 1, n)
    OBVIOUS
  <2>2. 1 \in 1 .. n + 1 /\ n + 1 - 1 = n /\ \A i \in 1 .. n : 1 + i - 1 = i
    BY <1>2
  <2>3. u \in Seq(Nat) /\ Len(u) = n /\ \A i \in 1 .. n : u[i] = s[i]
    <3>1. /\ u \in Seq(Nat) /\ Len(u) = n + 1 - 1
          /\ \A i \in 1 .. n + 1 - 1 : u[i] = s[1 + i - 1]
      BY <1>3, <2>1, <2>2
    <3>2. QED
      BY ONLY <2>2, <3>1
  <2>4. u = s
    <3>1. Len(u) = Len(s) /\ \A i \in 1 .. Len(u) : u[i] = s[i]
      BY ONLY <1>1, <2>3
    <3>2. QED
      BY ONLY <2>3, <3>1, s \in Seq(Nat), SeqEqual
  <2>5. QED
    BY <1>1, <2>1, <2>4 DEF Span
<1>7. ASSUME NEW k \in 1 .. n PROVE Span(s, k) = s[k] * Span(s, k + 1)
  <2>1. PICK u, v : u = SubSeq(s, k, n) /\ v = SubSeq(s, k + 1, n)
    OBVIOUS
  <2>2. k \in 1 .. n + 1 /\ k + 1 \in 1 .. n + 1 /\ k \in Nat
    BY ONLY <1>2, k \in 1 .. n
  <2>3. u \in Seq(Nat) /\ Len(u) = n + 1 - k /\ \A i \in 1 .. n + 1 - k : u[i] = s[k + i - 1]
    BY ONLY <1>3, <2>1, <2>2, ZenonT(60)
  <2>4. /\ v \in Seq(Nat) /\ Len(v) = n + 1 - (k + 1)
        /\ \A i \in 1 .. n + 1 - (k + 1) : v[i] = s[k + 1 + i - 1]
    BY ONLY <1>3, <2>1, <2>2, ZenonT(60)
  <2>5. Len(v) = n - k /\ Len(u) = Len(v) + 1
    BY ONLY <1>2, <2>2, <2>3, <2>4
  <2>6. ASSUME NEW j \in 1 .. Len(v) PROVE u[j + 1] = v[j]
    <3>1. /\ j + 1 \in 1 .. n + 1 - k /\ j \in 1 .. n + 1 - (k + 1)
          /\ k + (j + 1) - 1 = k + 1 + j - 1
      BY ONLY <1>2, <2>2, <2>5, j \in 1 .. Len(v)
    <3>2. QED
      BY ONLY <2>3, <2>4, <3>1
  <2>7. u[1] = s[k]
    <3>1. 1 \in 1 .. n + 1 - k /\ k + 1 - 1 = k
      BY ONLY <1>2, <2>2, k \in 1 .. n
    <3>2. QED
      BY ONLY <2>3, <3>1
  <2>8. Numel(u) = u[1] * Numel(v)
    BY ONLY <2>3, <2>4, <2>5, <2>6, NumelOfTail
  <2>9. QED
    BY ONLY <1>1, <2>1, <2>7, <2>8 DEF Span
<1>8. QED
  BY ONLY <1>1, <1>4, <1>5, <1>6, <1>7

\* The strides without gaps are the elements of the later dimensions.
LEMMA RowMajorIs ==
  ASSUME NEW s \in Seq(Nat)
  PROVE  /\ RowMajor(s) \in Seq(Nat) /\ Len(RowMajor(s)) = Len(s)
         /\ \A i \in 1 .. Len(s) : RowMajor(s)[i] = Span(s, i + 1)
<1>1. PICK n : n = Len(s)
  OBVIOUS
<1>2. n \in Nat /\ DOMAIN s = 1 .. n
  BY <1>1
<1>3. RowMajor(s) = [i \in 1 .. n |-> Span(s, i + 1)]
  BY <1>1, <1>2 DEF RowMajor, Span
<1>4. \A i \in 1 .. n : Span(s, i + 1) \in Nat
  <2>1. \A i \in 1 .. n : i + 1 \in 1 .. n + 1
    BY <1>2
  <2>2. QED
    BY <1>1, <2>1, SpanIs
<1>5. RowMajor(s) \in [1 .. n -> Nat]
  BY ONLY <1>3, <1>4
<1>6. RowMajor(s) \in Seq(Nat) /\ Len(RowMajor(s)) = n
  BY ONLY <1>2, <1>5
<1>7. QED
  BY ONLY <1>1, <1>3, <1>6

\* What the dimensions of an index add to its address, and their sum.
Terms(u, ix) == [i \in DOMAIN ix |-> ix[i] * u.strides[i]]
AddressStep(f, u, ix, seq, T) ==
  IF T = {} THEN 0
  ELSE f[T \ {Max(T)}] + ix[seq[Max(T)]] * u.strides[seq[Max(T)]]
Addressing(f, u, ix, seq) == f = [T \in SUBSET (DOMAIN seq) |-> AddressStep(f, u, ix, seq, T)]

\* Address is a fold: the value of a recursive function at all dimensions.
LEMMA AddressByFold ==
  ASSUME NEW u, NEW ix, NEW seq, seq = [i \in DOMAIN ix |-> i]
  PROVE  Address(u, ix) = u.offset + (CHOOSE f : Addressing(f, u, ix, seq))[DOMAIN seq]
<1>1. Address(u, ix)
        = u.offset + (CHOOSE f : Addressing(f, u, ix, [i \in DOMAIN ix |-> i]))
                       [DOMAIN [i \in DOMAIN ix |-> i]]
  BY Zenon DEF Address, FoldLeft, MapThenFoldSet, AddressStep, Addressing
<1>2. QED
  BY ONLY <1>1, seq = [i \in DOMAIN ix |-> i]

\* What that function sums up is a sum over the dimensions.
LEMMA AddressSums ==
  ASSUME NEW u, NEW n \in Nat, NEW ix, DOMAIN ix = 1 .. n,
         \A i \in 1 .. n : ix[i] * u.strides[i] \in Nat
  PROVE  Address(u, ix) = u.offset + SumFunctionOnSet(Terms(u, ix), 1 .. n)
<1>1. PICK w, seq : w = Terms(u, ix) /\ seq = [i \in DOMAIN ix |-> i]
  OBVIOUS
<1>2. /\ DOMAIN seq = 1 .. n /\ \A i \in 1 .. n : seq[i] = i
      /\ \A i \in 1 .. n : w[i] = ix[i] * u.strides[i]
  BY <1>1 DEF Terms
<1>3. \A i \in 1 .. n : w[i] \in Nat
  BY <1>2
<1> DEFINE Sums(T) == SumFunctionOnSet(w, T)
<1>4. ASSUME NEW T \in SUBSET (1 .. n)
      PROVE  /\ Sums(T) \in Nat
             /\ T = {} => Sums(T) = 0
             /\ T # {} => /\ Max(T) \in T
                          /\ Sums(T) = Sums(T \ {Max(T)}) + w[Max(T)]
                          /\ Sums(T \ {Max(T)}) \in Nat
  <2>1. IsFiniteSet(T) /\ \A x \in T : w[x] \in Nat
    <3>1. 1 \in Int /\ n \in Int
      OBVIOUS
    <3>2. IsFiniteSet(1 .. n)
      BY <3>1, FS_Interval
    <3>3. QED
      BY <1>3, <3>2, FS_Subset
  <2>2. Sums(T) \in Nat
    BY ONLY <2>1, SumOfNats
  <2>3. CASE T = {}
    BY <2>2, <2>3, SumOfNone
  <2>4. CASE T # {}
    <3>1. T \in SUBSET Nat /\ n \in Nat /\ \A i \in T : i <= n
      OBVIOUS
    <3>2. PICK m : m = Max(T)
      OBVIOUS
    <3>3. m \in T
      BY <2>4, <3>1, <3>2, MaxOfNats
    <3>4. Sums(T) = w[m] + Sums(T \ {m})
      BY ONLY <2>1, <3>3, SumSplits
    <3>5. IsFiniteSet(T \ {m}) /\ \A x \in T \ {m} : w[x] \in Nat
      BY <2>1, FS_Subset
    <3>6. Sums(T \ {m}) \in Nat
      BY ONLY <3>5, SumOfNats
    <3>7. w[m] \in Nat
      BY <2>1, <3>3
    <3> HIDE DEF Sums
    <3>8. QED
      BY ONLY <2>2, <2>4, <3>2, <3>3, <3>4, <3>6, <3>7
  <2>5. QED
    BY <2>3, <2>4
<1> HIDE DEF Sums
<1>5. ASSUME NEW f, NEW T \in SUBSET (1 .. n)
      PROVE  AddressStep(f, u, ix, seq, T)
               = IF T = {} THEN 0 ELSE f[T \ {Max(T)}] + w[Max(T)]
  <2>1. CASE T = {}
    BY <2>1 DEF AddressStep
  <2>2. CASE T # {}
    <3>1. Max(T) \in 1 .. n
      BY <1>4, <2>2
    <3>2. seq[Max(T)] = Max(T) /\ w[Max(T)] = ix[Max(T)] * u.strides[Max(T)]
      BY ONLY <1>2, <3>1
    <3>3. QED
      BY ONLY <2>2, <3>2 DEF AddressStep
  <2>3. QED
    BY <2>1, <2>2
<1>6. PICK g : g = [T \in SUBSET (1 .. n) |-> Sums(T)]
  OBVIOUS
<1>7. Addressing(g, u, ix, seq)
  <2>1. ASSUME NEW T \in SUBSET (1 .. n) PROVE g[T] = AddressStep(g, u, ix, seq, T)
    <3>1. T \ {Max(T)} \in SUBSET (1 .. n)
      OBVIOUS
    <3>2. g[T] = Sums(T) /\ g[T \ {Max(T)}] = Sums(T \ {Max(T)})
      BY ONLY <1>6, <3>1, T \in SUBSET (1 .. n)
    <3>3. Sums(T) = IF T = {} THEN 0 ELSE Sums(T \ {Max(T)}) + w[Max(T)]
      BY ONLY <1>4, T \in SUBSET (1 .. n)
    <3>4. QED
      BY ONLY <1>5, <3>2, <3>3, T \in SUBSET (1 .. n)
  <2>2. g = [T \in SUBSET (1 .. n) |-> g[T]]
    BY <1>6
  <2>3. QED
    BY ONLY <1>2, <2>1, <2>2 DEF Addressing
<1>8. PICK f : f = CHOOSE h : Addressing(h, u, ix, seq)
  OBVIOUS
<1>9. Addressing(f, u, ix, seq)
  BY ONLY <1>7, <1>8
<1>10. \A T \in SUBSET (1 .. n) : f[T] = IF T = {} THEN 0 ELSE f[T \ {Max(T)}] + w[Max(T)]
  <2>1. \A T \in SUBSET (1 .. n) : f[T] = AddressStep(f, u, ix, seq, T)
    BY ONLY <1>2, <1>9 DEF Addressing
  <2>2. QED
    BY ONLY <1>5, <2>1
<1> DEFINE Bad == {T \in SUBSET (1 .. n) : f[T] # Sums(T)}
<1>11. ASSUME Bad # {} PROVE FALSE
  <2>1. IsFiniteSet(1 .. n)
    <3>1. 1 \in Int /\ n \in Int
      OBVIOUS
    <3>2. QED
      BY <3>1, FS_Interval
  <2>2. Bad \in SUBSET (SUBSET (1 .. n))
    OBVIOUS
  <2>3. PICK T \in Bad : \A s \in SUBSET (1 .. n) : Cardinality(s) < Cardinality(T) => s \notin Bad
    <3> HIDE DEF Bad
    <3>1. QED
      BY ONLY <1>11, <2>1, <2>2, SmallestSubset
  <2>4. T \in SUBSET (1 .. n) /\ f[T] # Sums(T)
    OBVIOUS
  <2>5. T # {}
    BY ONLY <1>4, <1>10, <2>4
  <2>6. PICK m : m = Max(T)
    OBVIOUS
  <2>7. m \in T /\ T \ {m} \in SUBSET (1 .. n)
    BY ONLY <1>4, <2>4, <2>5, <2>6
  <2>8. Cardinality(T \ {m}) < Cardinality(T)
    <3>1. IsFiniteSet(T)
      BY <2>1, <2>4, FS_Subset
    <3>2. Cardinality(T \ {m}) = Cardinality(T) - 1 /\ Cardinality(T) \in Nat
      BY <2>7, <3>1, FS_RemoveElement, FS_CardinalityType
    <3>3. QED
      BY ONLY <3>2
  <2>9. f[T \ {m}] = Sums(T \ {m})
    BY <2>3, <2>7, <2>8
  <2>10. Sums(T) = Sums(T \ {m}) + w[m]
    BY ONLY <1>4, <2>4, <2>5, <2>6
  <2>11. f[T] = f[T \ {m}] + w[m]
    BY ONLY <1>10, <2>4, <2>5, <2>6
  <2>12. QED
    BY ONLY <2>4, <2>9, <2>10, <2>11
<1>12. f[1 .. n] = Sums(1 .. n)
  <2>1. 1 .. n \in SUBSET (1 .. n)
    OBVIOUS
  <2>2. QED
    BY <1>11, <2>1
<1>13. Address(u, ix) = u.offset + f[DOMAIN seq]
  BY ONLY <1>1, <1>8, AddressByFold
<1>14. QED
  BY ONLY <1>1, <1>2, <1>12, <1>13 DEF Sums

\* A sum does not depend on what its numbers are filed under.
LEMMA SumMapped ==
  ASSUME NEW S, IsFiniteSet(S), NEW v, NEW w, NEW p,
         \A x \in S : v[x] \in Nat /\ w[p[x]] = v[x],
         \A x, y \in S : p[x] = p[y] => x = y
  PROVE  SumFunctionOnSet(v, S) = SumFunctionOnSet(w, {p[x] : x \in S})
<1> DEFINE Image(T) == {p[x] : x \in T}
           Bad == {T \in SUBSET S : SumFunctionOnSet(v, T) # SumFunctionOnSet(w, Image(T))}
<1>1. SUFFICES ASSUME Bad # {} PROVE FALSE
  <2>1. S \in SUBSET S
    OBVIOUS
  <2>2. QED
    BY <2>1
<1>2. PICK T \in Bad : \A s \in SUBSET S : Cardinality(s) < Cardinality(T) => s \notin Bad
  <2>1. Bad \in SUBSET (SUBSET S) /\ IsFiniteSet(S)
    OBVIOUS
  <2> HIDE DEF Bad
  <2>2. QED
    BY ONLY <1>1, <2>1, SmallestSubset
<1>3. T \in SUBSET S /\ SumFunctionOnSet(v, T) # SumFunctionOnSet(w, Image(T))
  OBVIOUS
<1>4. IsFiniteSet(T) /\ IsFiniteSet(Image(T))
  <2>1. IsFiniteSet(T)
    BY <1>3, FS_Subset
  <2>2. PICK f : f = [x \in T |-> p[x]]
    OBVIOUS
  <2>3. f \in Surjection(T, Image(T))
    BY <2>2 DEF Surjection
  <2>4. QED
    BY <2>1, <2>3, FS_Surjection
<1>5. T # {}
  <2>1. SUFFICES ASSUME T = {} PROVE FALSE
    OBVIOUS
  <2>2. Image(T) = {}
    BY <2>1
  <2> HIDE DEF Image
  <2>3. QED
    BY ONLY <1>3, <2>1, <2>2, SumOfNone
<1>6. PICK x \in T : TRUE
  BY <1>5
<1>7. Image(T) \ {p[x]} = Image(T \ {x}) /\ p[x] \in Image(T) /\ x \in S
  BY <1>3
<1>8. \A y \in Image(T) : w[y] \in Nat
  BY <1>3
<1>9. \A y \in T : v[y] \in Nat
  BY <1>3
<1>10. w[p[x]] = v[x]
  BY <1>7
<1>11. SumFunctionOnSet(v, T \ {x}) = SumFunctionOnSet(w, Image(T \ {x}))
  <2>1. T \ {x} \in SUBSET S
    BY <1>3
  <2>2. Cardinality(T \ {x}) < Cardinality(T)
    <3>1. Cardinality(T \ {x}) = Cardinality(T) - 1 /\ Cardinality(T) \in Nat
      BY <1>4, FS_RemoveElement, FS_CardinalityType
    <3>2. QED
      BY ONLY <3>1
  <2>3. T \ {x} \notin Bad
    BY <1>2, <2>1, <2>2
  <2>4. QED
    BY <2>1, <2>3
<1> HIDE DEF Image, Bad
<1>12. SumFunctionOnSet(v, T) = v[x] + SumFunctionOnSet(v, T \ {x})
  BY ONLY <1>4, <1>9, x \in T, SumSplits
<1>13. SumFunctionOnSet(w, Image(T)) = w[p[x]] + SumFunctionOnSet(w, Image(T) \ {p[x]})
  BY ONLY <1>4, <1>7, <1>8, SumSplits
<1>14. QED
  BY ONLY <1>3, <1>7, <1>10, <1>11, <1>12, <1>13

\* Two sums of the same numbers are the same.
LEMMA SumAgrees ==
  ASSUME NEW S, IsFiniteSet(S), NEW v, NEW w, \A x \in S : v[x] \in Nat /\ w[x] = v[x]
  PROVE  SumFunctionOnSet(v, S) = SumFunctionOnSet(w, S)
<1>1. PICK p : p = [x \in S |-> x]
  OBVIOUS
<1>2. /\ \A x \in S : v[x] \in Nat /\ w[p[x]] = v[x]
      /\ \A x, y \in S : p[x] = p[y] => x = y
  BY <1>1
<1>3. SumFunctionOnSet(v, S) = SumFunctionOnSet(w, {p[x] : x \in S})
  BY ONLY <1>2, IsFiniteSet(S), SumMapped
<1>4. {p[x] : x \in S} = S
  BY <1>1
<1>5. QED
  BY ONLY <1>3, <1>4

-----------------------------------------------------------------------------
\* How many elements of a shape lie before an index, and what its dimensions
\* from k on have to do with it.
Flats(s, ix)   == [i \in 1 .. Len(s) |-> ix[i] * Span(s, i + 1)]
FlatFrom(s, ix, k) == SumFunctionOnSet(Flats(s, ix), k .. Len(s))
Flat(s, ix)    == FlatFrom(s, ix, 1)

\* The place of an index among the elements, one dimension at a time.
LEMMA FlatFromIs ==
  ASSUME NEW s \in Seq(Nat), NEW ix, \A i \in 1 .. Len(s) : ix[i] \in Nat
  PROVE  /\ \A k \in 1 .. Len(s) + 1 : FlatFrom(s, ix, k) \in Nat
         /\ FlatFrom(s, ix, Len(s) + 1) = 0
         /\ \A k \in 1 .. Len(s) : FlatFrom(s, ix, k) = ix[k] * Span(s, k + 1) + FlatFrom(s, ix, k + 1)
<1>1. PICK n, w : n = Len(s) /\ w = Flats(s, ix)
  OBVIOUS
<1>2. n \in Nat
  BY <1>1
<1>3. \A i \in 1 .. n : w[i] = ix[i] * Span(s, i + 1) /\ w[i] \in Nat
  <2>1. ASSUME NEW i \in 1 .. n PROVE ix[i] * Span(s, i + 1) \in Nat
    <3>1. i + 1 \in 1 .. n + 1
      BY <1>2
    <3>2. ix[i] \in Nat /\ Span(s, i + 1) \in Nat
      BY <1>1, <3>1, SpanIs
    <3>3. QED
      BY ONLY <3>2
  <2>2. \A i \in 1 .. n : w[i] = ix[i] * Span(s, i + 1)
    BY <1>1 DEF Flats
  <2>3. QED
    BY ONLY <2>1, <2>2
<1>4. ASSUME NEW k \in 1 .. n + 1
      PROVE  IsFiniteSet(k .. n) /\ \A x \in k .. n : w[x] \in Nat
  <2>1. k \in Int /\ n \in Int /\ \A x \in k .. n : x \in 1 .. n
    BY <1>2
  <2>2. IsFiniteSet(k .. n)
    BY <2>1, FS_Interval
  <2>3. QED
    BY ONLY <1>3, <2>1, <2>2
<1>5. ASSUME NEW k \in 1 .. n + 1 PROVE SumFunctionOnSet(w, k .. n) \in Nat
  BY ONLY <1>4, k \in 1 .. n + 1, SumOfNats
<1>6. SumFunctionOnSet(w, n + 1 .. n) = 0
  <2>1. n + 1 .. n = {}
    BY <1>2
  <2>2. QED
    BY ONLY <2>1, SumOfNone
<1>7. ASSUME NEW k \in 1 .. n
      PROVE  SumFunctionOnSet(w, k .. n) = ix[k] * Span(s, k + 1) + SumFunctionOnSet(w, k + 1 .. n)
  <2>1. k \in 1 .. n + 1 /\ k \in k .. n /\ (k .. n) \ {k} = k + 1 .. n
    BY <1>2
  <2>2. SumFunctionOnSet(w, k .. n) = w[k] + SumFunctionOnSet(w, (k .. n) \ {k})
    BY ONLY <1>4, <2>1, SumSplits
  <2>3. QED
    BY ONLY <1>3, <2>1, <2>2, k \in 1 .. n
<1>8. QED
  BY ONLY <1>1, <1>5, <1>6, <1>7 DEF FlatFrom

\* An index that fits lies within its shape.
LEMMA FlatFromBelow ==
  ASSUME NEW s \in Seq(Nat), NEW ix, \A i \in 1 .. Len(s) : ix[i] \in Nat,
         NEW k \in 1 .. Len(s) + 1, \A i \in k .. Len(s) : ix[i] < s[i]
  PROVE  FlatFrom(s, ix, k) < Span(s, k)
<1>1. PICK n : n = Len(s)
  OBVIOUS
<1>2. n \in Nat /\ k \in 1 .. n + 1
  BY <1>1
<1>3. /\ \A j \in 1 .. n + 1 : FlatFrom(s, ix, j) \in Nat /\ Span(s, j) \in Nat
      /\ FlatFrom(s, ix, n + 1) = 0 /\ Span(s, n + 1) = 1
      /\ \A j \in 1 .. n : /\ FlatFrom(s, ix, j) = ix[j] * Span(s, j + 1) + FlatFrom(s, ix, j + 1)
                           /\ Span(s, j) = s[j] * Span(s, j + 1)
  BY <1>1, FlatFromIs, SpanIs
<1> DEFINE Bad == {j \in k .. n + 1 : ~ (FlatFrom(s, ix, j) < Span(s, j))}
<1>4. ASSUME Bad # {} PROVE FALSE
  <2>1. PICK j \in Bad : \A m \in Bad : m <= j
    <3>1. Bad \in SUBSET Nat /\ n + 1 \in Nat /\ \A m \in Bad : m <= n + 1
      BY <1>2
    <3> HIDE DEF Bad
    <3>2. Max(Bad) \in Bad /\ \A m \in Bad : m <= Max(Bad)
      BY ONLY <1>4, <3>1, MaxOfNats
    <3>3. QED
      BY <3>2
  <2>2. j \in k .. n + 1 /\ ~ (FlatFrom(s, ix, j) < Span(s, j))
    OBVIOUS
  <2>3. j # n + 1
    BY <1>3, <2>2
  <2>4. j \in 1 .. n /\ j \in k .. n /\ j + 1 \in k .. n + 1 /\ j + 1 \in 1 .. n + 1 /\ ~ (j + 1 <= j)
    BY ONLY <1>2, <2>2, <2>3
  <2>5. FlatFrom(s, ix, j + 1) < Span(s, j + 1)
    BY <2>1, <2>4
  <2>6. PICK a, m, S, r : a = ix[j] /\ m = s[j] /\ S = Span(s, j + 1) /\ r = FlatFrom(s, ix, j + 1)
    OBVIOUS
  <2>7. a \in Nat /\ m \in Nat /\ a < m /\ S \in Nat /\ r \in Nat /\ r < S
    <3>1. a \in Nat /\ m \in Nat /\ a < m
      BY <1>1, <2>4, <2>6
    <3>2. S \in Nat /\ r \in Nat /\ r < S
      BY ONLY <1>3, <2>4, <2>5, <2>6
    <3>3. QED
      BY ONLY <3>1, <3>2
  <2>8. a * S + r \in 0 .. m * S - 1
    <3>1. S \in Nat \ {0} /\ a \in 0 .. m - 1 /\ r \in 0 .. S - 1
      BY ONLY <2>7
    <3>2. QED
      BY ONLY <2>7, <3>1, WithinPlace
  <2>9. PICK x, y : x = a * S + r /\ y = m * S
    OBVIOUS
  <2>10. y \in Nat /\ x < y
    BY ONLY <2>7, <2>8, <2>9
  <2>11. QED
    BY ONLY <1>3, <2>2, <2>4, <2>6, <2>9, <2>10
<1>5. QED
  <2>1. k \in k .. n + 1
    BY <1>2
  <2>2. QED
    BY <1>4, <2>1

\* It depends on the later dimensions of the index only.
LEMMA FlatFromAgrees ==
  ASSUME NEW s \in Seq(Nat), NEW ix, \A i \in 1 .. Len(s) : ix[i] \in Nat,
         NEW jx, NEW k \in 1 .. Len(s) + 1, \A i \in k .. Len(s) : jx[i] = ix[i]
  PROVE  FlatFrom(s, ix, k) = FlatFrom(s, jx, k)
<1>1. PICK n, v, w : n = Len(s) /\ v = Flats(s, ix) /\ w = Flats(s, jx)
  OBVIOUS
<1>2. n \in Nat /\ k \in 1 .. n + 1 /\ \A i \in k .. n : i \in 1 .. n
  BY <1>1
<1>3. ASSUME NEW i \in k .. n PROVE v[i] \in Nat /\ w[i] = v[i]
  <2>1. i \in 1 .. n /\ i + 1 \in 1 .. n + 1
    BY <1>2
  <2>2. v[i] = ix[i] * Span(s, i + 1) /\ w[i] = jx[i] * Span(s, i + 1) /\ jx[i] = ix[i]
    BY <1>1, <2>1 DEF Flats
  <2>3. ix[i] \in Nat /\ Span(s, i + 1) \in Nat
    BY <1>1, <2>1, SpanIs
  <2>4. ix[i] * Span(s, i + 1) \in Nat
    BY ONLY <2>3
  <2>5. QED
    BY ONLY <2>2, <2>4
<1>4. IsFiniteSet(k .. n)
  <2>1. k \in Int /\ n \in Int
    BY <1>2
  <2>2. QED
    BY <2>1, FS_Interval
<1>5. SumFunctionOnSet(v, k .. n) = SumFunctionOnSet(w, k .. n)
  BY ONLY <1>3, <1>4, SumAgrees
<1>6. QED
  BY ONLY <1>1, <1>5 DEF FlatFrom

\* Every element of the dimensions from k on has an index.
LEMMA FlatFromHits ==
  ASSUME NEW s \in Seq(Nat), NEW k \in 1 .. Len(s) + 1, NEW a \in 0 .. Span(s, k) - 1
  PROVE  \E ix \in [1 .. Len(s) -> Nat] :
           (\A i \in k .. Len(s) : ix[i] < s[i]) /\ FlatFrom(s, ix, k) = a
<1>1. PICK n : n = Len(s)
  OBVIOUS
<1>2. n \in Nat /\ k \in 1 .. n + 1 /\ \A i \in 1 .. n : s[i] \in Nat
  BY <1>1
<1>3. /\ \A j \in 1 .. n + 1 : Span(s, j) \in Nat
      /\ Span(s, n + 1) = 1
      /\ \A j \in 1 .. n : Span(s, j) = s[j] * Span(s, j + 1)
  BY <1>1, SpanIs
<1> DEFINE Hit(j, b) == \E ix \in [1 .. n -> Nat] :
                          (\A i \in j .. n : ix[i] < s[i]) /\ FlatFrom(s, ix, j) = b
           Bad == {j \in 1 .. n + 1 : \E b \in 0 .. Span(s, j) - 1 : ~ Hit(j, b)}
<1>4. ASSUME Bad # {} PROVE FALSE
  <2>1. PICK j \in Bad : \A m \in Bad : m <= j
    <3>1. Bad \in SUBSET Nat /\ n + 1 \in Nat /\ \A m \in Bad : m <= n + 1
      BY <1>2
    <3> HIDE DEF Bad
    <3>2. Max(Bad) \in Bad /\ \A m \in Bad : m <= Max(Bad)
      BY ONLY <1>4, <3>1, MaxOfNats
    <3>3. QED
      BY <3>2
  <2>2. PICK b \in 0 .. Span(s, j) - 1 : ~ Hit(j, b)
    OBVIOUS
  <2>3. j \in 1 .. n + 1
    OBVIOUS
  <2>4. j # n + 1
    <3>1. SUFFICES ASSUME j = n + 1 PROVE FALSE
      OBVIOUS
    <3>2. b = 0
      <4>1. b \in 0 .. 1 - 1
        BY ONLY <1>3, <3>1, b \in 0 .. Span(s, j) - 1
      <4>2. QED
        BY ONLY <4>1
    <3>3. PICK z : z = [i \in 1 .. n |-> 0]
      OBVIOUS
    <3>4. z \in [1 .. n -> Nat] /\ \A i \in 1 .. Len(s) : z[i] \in Nat
      BY <1>1, <3>3
    <3>5. FlatFrom(s, z, n + 1) = 0
      BY <1>1, <3>4, FlatFromIs
    <3>6. j .. n = {}
      BY <1>2, <3>1
    <3>7. Hit(j, b)
      BY ONLY <3>1, <3>2, <3>4, <3>5, <3>6
    <3>8. QED
      BY <2>2, <3>7
  <2>5. j \in 1 .. n /\ j + 1 \in 1 .. n + 1 /\ ~ (j + 1 <= j) /\ j \in Nat
    BY ONLY <1>2, <2>3, <2>4
  <2>6. PICK m, S : m = s[j] /\ S = Span(s, j + 1)
    OBVIOUS
  <2>7. m \in Nat /\ S \in Nat
    BY <1>2, <1>3, <2>5, <2>6
  <2>8. b \in 0 .. m * S - 1
    BY ONLY <1>3, <2>5, <2>6, b \in 0 .. Span(s, j) - 1
  <2>9. S # 0
    <3>1. SUFFICES ASSUME S = 0 PROVE FALSE
      OBVIOUS
    <3>2. m * S = 0
      BY ONLY <2>7, <3>1
    <3>3. b \in 0 .. 0 - 1
      BY ONLY <2>8, <3>2
    <3>4. QED
      BY ONLY <3>3
  <2>10. PICK q, r : q = b \div S /\ r = b % S
    OBVIOUS
  <2>11. q \in 0 .. m - 1 /\ r \in 0 .. S - 1 /\ b = q * S + r
    <3>1. S \in Nat \ {0}
      BY <2>7, <2>9
    <3>2. QED
      BY ONLY <2>7, <2>8, <2>10, <3>1, PlaceWithin
  <2>12. Hit(j + 1, r)
    <3>1. j + 1 \notin Bad
      BY <2>1, <2>5
    <3>2. QED
      BY <2>5, <2>6, <2>11, <3>1
  <2>13. PICK g \in [1 .. n -> Nat] :
           (\A i \in j + 1 .. n : g[i] < s[i]) /\ FlatFrom(s, g, j + 1) = r
    BY <2>12
  <2>14. PICK f : f = [i \in 1 .. n |-> IF i = j THEN q ELSE g[i]]
    OBVIOUS
  <2> HIDE DEF Bad
  <2>15. f \in [1 .. n -> Nat] /\ f[j] = q
    <3>1. q \in Nat
      BY <2>7, <2>11
    <3>2. QED
      BY ONLY <2>5, <2>14, <3>1, g \in [1 .. n -> Nat]
  <2>16. \A i \in j .. n : f[i] < s[i]
    <3>1. ASSUME NEW i \in j .. n PROVE f[i] < s[i]
      <4>1. CASE i = j
        <5>1. q < m
          BY ONLY <2>7, <2>11
        <5>2. f[i] = q /\ s[i] = m
          BY ONLY <2>6, <2>15, <4>1
        <5>3. QED
          BY ONLY <5>1, <5>2
      <4>2. CASE i # j
        <5>1. i \in 1 .. n /\ i \in j + 1 .. n
          BY <1>2, <2>5, <4>2
        <5>2. f[i] = g[i]
          BY ONLY <2>14, <4>2, <5>1
        <5>3. QED
          BY ONLY <2>13, <5>1, <5>2
      <4>3. QED
        BY <4>1, <4>2
    <3>2. QED
      BY <3>1
  <2>17. FlatFrom(s, f, j + 1) = r
    <3>1. \A i \in j + 1 .. n : f[i] = g[i]
      <4>1. \A i \in j + 1 .. n : i \in 1 .. n /\ i # j
        BY <1>2, <2>5
      <4>2. QED
        BY ONLY <2>14, <4>1
    <3>2. \A i \in 1 .. n : g[i] \in Nat
      OBVIOUS
    <3>3. FlatFrom(s, g, j + 1) = FlatFrom(s, f, j + 1)
      BY ONLY <1>1, <2>5, <3>1, <3>2, s \in Seq(Nat), FlatFromAgrees
    <3>4. QED
      BY ONLY <2>13, <3>3
  <2>18. FlatFrom(s, f, j) = b
    <3>1. \A i \in 1 .. Len(s) : f[i] \in Nat
      BY <1>1, <2>15
    <3>2. FlatFrom(s, f, j) = f[j] * Span(s, j + 1) + FlatFrom(s, f, j + 1)
      BY <1>1, <2>5, <3>1, FlatFromIs
    <3>3. QED
      BY ONLY <2>6, <2>11, <2>15, <2>17, <3>2
  <2>19. QED
    BY ONLY <2>2, <2>15, <2>16, <2>18
<1>5. Hit(k, a)
  BY <1>2, <1>4
<1>6. QED
  BY <1>1, <1>5

-----------------------------------------------------------------------------
\* An index is a sequence of numbers below the dimensions.
LEMMA IndicesAre ==
  ASSUME NEW s \in Seq(Nat), NEW ix
  PROVE  ix \in Indices(s)
           <=> ix \in [1 .. Len(s) -> Nat] /\ \A i \in 1 .. Len(s) : ix[i] < s[i]
<1>1. PICK n : n = Len(s)
  OBVIOUS
<1>2. n \in Nat /\ DOMAIN s = 1 .. n /\ \A i \in 1 .. n : s[i] \in Nat
  BY <1>1
<1>3. PICK B : B = UNION {0 .. s[i] - 1 : i \in 1 .. n}
  OBVIOUS
<1>4. Indices(s) = {jx \in [1 .. n -> B] : \A i \in 1 .. n : jx[i] < s[i]}
  BY <1>2, <1>3 DEF Indices
<1>5. B \subseteq Nat
  BY <1>2, <1>3
<1>6. ASSUME ix \in [1 .. n -> Nat], \A i \in 1 .. n : ix[i] < s[i] PROVE ix \in [1 .. n -> B]
  <2>1. ASSUME NEW i \in 1 .. n PROVE ix[i] \in B
    <3>1. ix[i] \in 0 .. s[i] - 1
      BY <1>2, <1>6
    <3>2. QED
      BY <1>3, <3>1
  <2>2. QED
    BY <1>6, <2>1
<1>7. QED
  BY <1>1, <1>4, <1>5, <1>6

\* The indices of a shape count its elements.
LEMMA FlatIs ==
  ASSUME NEW s \in Seq(Nat)
  PROVE  /\ Numel(s) \in Nat
         /\ \A ix \in Indices(s) : Flat(s, ix) \in 0 .. Numel(s) - 1
         /\ \A a \in 0 .. Numel(s) - 1 : \E ix \in Indices(s) : Flat(s, ix) = a
<1>1. PICK n, N : n = Len(s) /\ N = Numel(s)
  OBVIOUS
<1>2. n \in Nat /\ 1 \in 1 .. n + 1
  BY <1>1
<1>3. Span(s, 1) = N /\ N \in Nat
  BY <1>1, <1>2, SpanIs
<1>4. ASSUME NEW ix \in Indices(s) PROVE Flat(s, ix) \in 0 .. N - 1
  <2>1. ix \in [1 .. n -> Nat] /\ \A i \in 1 .. n : ix[i] < s[i]
    BY <1>1, IndicesAre
  <2>2. \A i \in 1 .. n : ix[i] \in Nat
    BY <2>1
  <2>3. FlatFrom(s, ix, 1) < Span(s, 1)
    BY ONLY <1>1, <1>2, <2>1, <2>2, s \in Seq(Nat), FlatFromBelow
  <2>4. FlatFrom(s, ix, 1) \in Nat
    BY <1>1, <1>2, <2>2, FlatFromIs
  <2>5. QED
    BY ONLY <1>3, <2>3, <2>4 DEF Flat
<1>5. ASSUME NEW a \in 0 .. N - 1 PROVE \E ix \in Indices(s) : Flat(s, ix) = a
  <2>1. PICK ix \in [1 .. n -> Nat] : (\A i \in 1 .. n : ix[i] < s[i]) /\ FlatFrom(s, ix, 1) = a
    <3>1. 1 \in 1 .. Len(s) + 1 /\ a \in 0 .. Span(s, 1) - 1
      BY <1>1, <1>2, <1>3
    <3>2. QED
      BY ONLY <1>1, <3>1, s \in Seq(Nat), FlatFromHits
  <2>2. ix \in Indices(s)
    BY <1>1, <2>1, IndicesAre
  <2>3. QED
    BY <2>1, <2>2 DEF Flat
<1>6. QED
  BY ONLY <1>1, <1>3, <1>4, <1>5

\* An index before another counts fewer elements before it.
LEMMA BeforeLess ==
  ASSUME NEW s \in Seq(Nat), NEW ix \in Indices(s), NEW jx \in Indices(s), Arrays!Before(jx, ix)
  PROVE  Flat(s, jx) < Flat(s, ix)
<1>1. PICK n : n = Len(s)
  OBVIOUS
<1>2. /\ n \in Nat
      /\ ix \in [1 .. n -> Nat] /\ jx \in [1 .. n -> Nat]
      /\ (\A i \in 1 .. n : ix[i] < s[i]) /\ \A i \in 1 .. n : jx[i] < s[i]
  BY <1>1, IndicesAre
<1>3. PICK i \in 1 .. n : jx[i] < ix[i] /\ \A j \in 1 .. i - 1 : jx[j] = ix[j]
  BY <1>2 DEF Arrays!Before
<1>4. \A x \in 1 .. n : ix[x] \in Nat /\ jx[x] \in Nat
  BY <1>2
<1>5. /\ \A k \in 1 .. n + 1 : FlatFrom(s, ix, k) \in Nat /\ FlatFrom(s, jx, k) \in Nat
      /\ \A k \in 1 .. n :
           /\ FlatFrom(s, ix, k) = ix[k] * Span(s, k + 1) + FlatFrom(s, ix, k + 1)
           /\ FlatFrom(s, jx, k) = jx[k] * Span(s, k + 1) + FlatFrom(s, jx, k + 1)
  <2>1. (\A x \in 1 .. Len(s) : ix[x] \in Nat) /\ \A x \in 1 .. Len(s) : jx[x] \in Nat
    BY <1>1, <1>4
  <2>2. /\ \A k \in 1 .. n + 1 : FlatFrom(s, ix, k) \in Nat
        /\ \A k \in 1 .. n : FlatFrom(s, ix, k) = ix[k] * Span(s, k + 1) + FlatFrom(s, ix, k + 1)
    BY ONLY <1>1, <2>1, s \in Seq(Nat), FlatFromIs
  <2>3. /\ \A k \in 1 .. n + 1 : FlatFrom(s, jx, k) \in Nat
        /\ \A k \in 1 .. n : FlatFrom(s, jx, k) = jx[k] * Span(s, k + 1) + FlatFrom(s, jx, k + 1)
    BY ONLY <1>1, <2>1, s \in Seq(Nat), FlatFromIs
  <2>4. QED
    BY ONLY <2>2, <2>3
<1>6. FlatFrom(s, jx, i) < FlatFrom(s, ix, i)
  <2>1. i + 1 \in 1 .. n + 1
    BY <1>2
  <2>2. FlatFrom(s, jx, i + 1) < Span(s, i + 1)
    <3>1. (\A x \in 1 .. Len(s) : jx[x] \in Nat) /\ \A x \in i + 1 .. Len(s) : jx[x] < s[x]
      BY <1>1, <1>2, <1>4
    <3>2. QED
      BY ONLY <1>1, <2>1, <3>1, s \in Seq(Nat), FlatFromBelow
  <2>3. PICK b, c, S, r, t_1 : /\ b = jx[i] /\ c = ix[i] /\ S = Span(s, i + 1)
                               /\ r = FlatFrom(s, jx, i + 1) /\ t_1 = FlatFrom(s, ix, i + 1)
    OBVIOUS
  <2>4. b \in Nat /\ c \in Nat /\ b < c /\ S \in Nat /\ r \in Nat /\ t_1 \in Nat /\ r < S
    BY <1>1, <1>3, <1>4, <1>5, <2>1, <2>2, <2>3, SpanIs
  <2>5. b * S + r \in 0 .. c * S - 1
    <3>1. S \in Nat \ {0} /\ b \in 0 .. c - 1 /\ r \in 0 .. S - 1
      BY ONLY <2>4
    <3>2. QED
      BY ONLY <2>4, <3>1, WithinPlace
  <2>6. PICK x, y : x = b * S + r /\ y = c * S
    OBVIOUS
  <2>7. y \in Nat
    BY ONLY <2>4, <2>6
  <2>8. x < y + t_1
    BY ONLY <2>4, <2>5, <2>6, <2>7
  <2>9. QED
    BY ONLY <1>5, <2>3, <2>6, <2>8, i \in 1 .. n
<1> DEFINE Bad == {k \in 1 .. i : ~ (FlatFrom(s, jx, k) < FlatFrom(s, ix, k))}
<1>7. ASSUME Bad # {} PROVE FALSE
  <2>1. PICK k \in Bad : \A m \in Bad : m <= k
    <3>1. Bad \in SUBSET Nat /\ i \in Nat /\ \A m \in Bad : m <= i
      BY <1>2
    <3> HIDE DEF Bad
    <3>2. Max(Bad) \in Bad /\ \A m \in Bad : m <= Max(Bad)
      BY ONLY <1>7, <3>1, MaxOfNats
    <3>3. QED
      BY <3>2
  <2>2. k \in 1 .. i /\ ~ (FlatFrom(s, jx, k) < FlatFrom(s, ix, k))
    OBVIOUS
  <2>3. k # i
    BY <1>6, <2>2
  <2>4. /\ k \in 1 .. n /\ k \in 1 .. i - 1 /\ k + 1 \in 1 .. i /\ k + 1 \in 1 .. n + 1
        /\ ~ (k + 1 <= k)
    BY ONLY <1>2, <2>2, <2>3, i \in 1 .. n
  <2>5. FlatFrom(s, jx, k + 1) < FlatFrom(s, ix, k + 1)
    BY <2>1, <2>4
  <2>6. jx[k] = ix[k]
    BY <1>3, <2>4
  <2>7. PICK x, r, u : /\ x = ix[k] * Span(s, k + 1) /\ r = FlatFrom(s, jx, k + 1)
                       /\ u = FlatFrom(s, ix, k + 1)
    OBVIOUS
  <2>8. x \in Nat
    <3>1. ix[k] \in Nat /\ Span(s, k + 1) \in Nat
      BY <1>1, <1>4, <2>4, SpanIs
    <3>2. QED
      BY ONLY <2>7, <3>1
  <2>9. r \in Nat /\ u \in Nat /\ r < u
    BY ONLY <1>5, <2>4, <2>5, <2>7
  <2>10. x + r < x + u
    BY ONLY <2>8, <2>9
  <2>11. QED
    BY ONLY <1>5, <2>2, <2>4, <2>6, <2>7, <2>10
<1>8. QED
  <2>1. 1 \in 1 .. i
    BY <1>2
  <2>2. FlatFrom(s, jx, 1) < FlatFrom(s, ix, 1)
    BY <1>7, <2>1
  <2>3. QED
    BY ONLY <2>2 DEF Flat

\* Of two indices one is before the other.
LEMMA BeforeTotal ==
  ASSUME NEW s \in Seq(Nat), NEW ix \in Indices(s), NEW jx \in Indices(s), ix # jx
  PROVE  Arrays!Before(jx, ix) \/ Arrays!Before(ix, jx)
<1>1. PICK n : n = Len(s)
  OBVIOUS
<1>2. n \in Nat /\ ix \in [1 .. n -> Nat] /\ jx \in [1 .. n -> Nat]
  BY <1>1, IndicesAre
<1> DEFINE D == {i \in 1 .. n : ix[i] # jx[i]}
<1>3. D # {} /\ D \in SUBSET Nat
  <2>1. SUFFICES ASSUME D = {} PROVE FALSE
    BY <1>2
  <2>2. \A i \in 1 .. n : ix[i] = jx[i]
    BY <2>1
  <2>3. ix = [i \in 1 .. n |-> ix[i]] /\ jx = [i \in 1 .. n |-> jx[i]]
    BY <1>2
  <2>4. ix = jx
    BY ONLY <2>2, <2>3
  <2>5. QED
    BY <2>4
<1>4. PICK i : i = Min(D)
  OBVIOUS
<1>5. i \in D /\ \A j \in D : i <= j
  <2> HIDE DEF D
  <2>1. QED
    BY ONLY <1>3, <1>4, MinOfNats
<1>6. i \in 1 .. n /\ ix[i] # jx[i] /\ ix[i] \in Nat /\ jx[i] \in Nat
  BY <1>2, <1>5
<1>7. \A j \in 1 .. i - 1 : ix[j] = jx[j]
  <2>1. ASSUME NEW j \in 1 .. i - 1 PROVE ix[j] = jx[j]
    <3>1. j \in 1 .. n /\ ~ (i <= j)
      BY <1>2, <1>6
    <3>2. QED
      BY <1>5, <3>1
  <2>2. QED
    BY <2>1
<1>8. jx[i] < ix[i] \/ ix[i] < jx[i]
  BY ONLY <1>6
<1>9. DOMAIN ix = 1 .. n /\ DOMAIN jx = 1 .. n
  BY <1>2
<1>10. QED
  BY ONLY <1>6, <1>7, <1>8, <1>9 DEF Arrays!Before

\* So the elements before an index are those before it when counted.
LEMMA FlatOrders ==
  ASSUME NEW s \in Seq(Nat), NEW ix \in Indices(s), NEW jx \in Indices(s)
  PROVE  /\ Flat(s, ix) = Flat(s, jx) => ix = jx
         /\ Arrays!Before(jx, ix) <=> Flat(s, jx) < Flat(s, ix)
<1>1. PICK a, b, N : a = Flat(s, ix) /\ b = Flat(s, jx) /\ N = Numel(s)
  OBVIOUS
<1>2. N \in Nat /\ a \in 0 .. N - 1 /\ b \in 0 .. N - 1
  BY <1>1, FlatIs
<1>3. a \in Nat /\ b \in Nat
  BY ONLY <1>2
<1>4. Arrays!Before(jx, ix) => b < a
  BY <1>1, BeforeLess
<1>5. Arrays!Before(ix, jx) => a < b
  BY <1>1, BeforeLess
<1>6. ix # jx => Arrays!Before(jx, ix) \/ Arrays!Before(ix, jx)
  BY BeforeTotal
<1>7. ix = jx => a = b
  BY <1>1
<1>8. (a = b => ix = jx) /\ (b < a => Arrays!Before(jx, ix))
  BY ONLY <1>3, <1>4, <1>5, <1>6, <1>7
<1>9. QED
  BY <1>1, <1>4, <1>8

\* What is counted by the numbers below m has m elements.
LEMMA CountByFlat ==
  ASSUME NEW s \in Seq(Nat), NEW m \in Nat, NEW B \in SUBSET Indices(s),
         \A ix \in B : Flat(s, ix) \in 0 .. m - 1,
         \A a \in 0 .. m - 1 : \E ix \in B : Flat(s, ix) = a
  PROVE  Cardinality(B) = m
<1>1. PICK f : f = [a \in 0 .. m - 1 |-> CHOOSE ix \in B : Flat(s, ix) = a]
  OBVIOUS
<1>2. \A a \in 0 .. m - 1 : f[a] \in B /\ Flat(s, f[a]) = a
  BY <1>1
<1>3. \A ix \in B : f[Flat(s, ix)] = ix
  <2>1. ASSUME NEW ix \in B PROVE f[Flat(s, ix)] = ix
    <3>1. PICK a \in 0 .. m - 1 : a = Flat(s, ix)
      OBVIOUS
    <3>2. f[a] \in B /\ Flat(s, f[a]) = Flat(s, ix)
      BY <1>2, <3>1
    <3>3. f[a] = ix
      BY <3>2, FlatOrders
    <3>4. QED
      BY ONLY <3>1, <3>3
  <2>2. QED
    BY <2>1
<1>4. f \in Bijection(0 .. m - 1, B)
  <2>1. f \in [0 .. m - 1 -> B]
    BY <1>1, <1>2
  <2>2. \A a, b \in 0 .. m - 1 : f[a] = f[b] => a = b
    BY <1>2
  <2>3. \A ix \in B : \E a \in 0 .. m - 1 : f[a] = ix
    BY <1>3
  <2>4. QED
    BY ONLY <2>1, <2>2, <2>3 DEF Bijection, Injection, Surjection, IsInjective
<1>5. IsFiniteSet(0 .. m - 1) /\ Cardinality(0 .. m - 1) = m
  <2>1. 0 \in Int /\ m - 1 \in Int
    OBVIOUS
  <2>2. IsFiniteSet(0 .. m - 1) /\ Cardinality(0 .. m - 1) = IF 0 > m - 1 THEN 0 ELSE m - 1 - 0 + 1
    BY ONLY <2>1, FS_Interval
  <2>3. (IF 0 > m - 1 THEN 0 ELSE m - 1 - 0 + 1) = m
    OBVIOUS
  <2>4. QED
    BY <2>2, <2>3
<1>6. QED
  BY <1>4, <1>5, FS_Bijection DEF ExistsBijection

\* Cardinality means the same in the instance of Array.
LEMMA SameCardinality == \A S : Arrays!Cardinality(S) = Cardinality(S)
  BY Zenon DEF Arrays!Cardinality, Cardinality

\* What Array counts is what the strides without gaps count.
LEMMA RankIs ==
  ASSUME NEW s \in Seq(Nat)
  PROVE  /\ Arrays!Cells(s) = Indices(s)
         /\ Cardinality(Arrays!Cells(s)) = Numel(s)
         /\ \A ix \in Indices(s) : Arrays!Rank(s, ix) = Flat(s, ix)
<1>1. Arrays!Cells(s) = Indices(s)
  BY DEF Arrays!Cells, Arrays!Below, Indices
<1>2. Cardinality(Indices(s)) = Numel(s)
  BY FlatIs, CountByFlat
<1>3. ASSUME NEW ix \in Indices(s) PROVE Arrays!Rank(s, ix) = Flat(s, ix)
  <2>1. PICK m, N : m = Flat(s, ix) /\ N = Numel(s)
    OBVIOUS
  <2>2. N \in Nat /\ m \in 0 .. N - 1 /\ m \in Nat
    BY <2>1, FlatIs
  <2>3. PICK B : B = {jx \in Indices(s) : Arrays!Before(jx, ix)}
    OBVIOUS
  <2>4. B = {jx \in Indices(s) : Flat(s, jx) < m}
    BY <2>1, <2>3, FlatOrders
  <2>5. \A jx \in B : Flat(s, jx) \in 0 .. m - 1
    <3>1. ASSUME NEW jx \in B PROVE Flat(s, jx) \in 0 .. m - 1
      <4>1. Flat(s, jx) \in 0 .. N - 1 /\ Flat(s, jx) < m
        BY <2>1, <2>4, FlatIs
      <4>2. QED
        BY <2>2, <4>1
    <3>2. QED
      BY <3>1
  <2>6. \A a \in 0 .. m - 1 : \E jx \in B : Flat(s, jx) = a
    <3>1. ASSUME NEW a \in 0 .. m - 1 PROVE \E jx \in B : Flat(s, jx) = a
      <4>1. a \in 0 .. N - 1 /\ a < m
        BY <2>2
      <4>2. PICK jx \in Indices(s) : Flat(s, jx) = a
        BY <2>1, <4>1, FlatIs
      <4>3. QED
        BY <2>4, <4>1, <4>2
    <3>2. QED
      BY <3>1
  <2>7. B \in SUBSET Indices(s)
    BY <2>3
  <2>8. Cardinality(B) = m
    BY ONLY <2>2, <2>5, <2>6, <2>7, s \in Seq(Nat), CountByFlat
  <2>9. QED
    BY <1>1, <2>1, <2>3, <2>8, SameCardinality DEF Arrays!Rank
<1>4. QED
  BY <1>1, <1>2, <1>3

\* A view with a stride to each dimension.
Fits(u) ==
  /\ u \in [shape : Seq(Nat), strides : Seq(Nat), offset : Nat]
  /\ Len(u.strides) = Len(u.shape)

\* Its indices have elements of the storage, each its own.
Lies(u) ==
  /\ \A ix \in Indices(u.shape) : Address(u, ix) \in 0 .. Numel(Base) - 1
  /\ \A ix, jx \in Indices(u.shape) : Address(u, ix) = Address(u, jx) => ix = jx

\* What one view shows at an index another shows where f says.
Mirrors(u, v, f) ==
  /\ \A jx \in Indices(u.shape) : f[jx] \in Indices(v.shape) /\ Address(u, jx) = Address(v, f[jx])
  /\ \A ix, jx \in Indices(u.shape) : f[ix] = f[jx] => ix = jx

\* A view that shows what another does stays inside the storage as that one.
LEMMA SeesLies ==
  ASSUME NEW u, NEW v, NEW f, Lies(v), Mirrors(u, v, f)
  PROVE  Lies(u)
BY DEF Lies, Mirrors

\* An address is the offset and a sum of naturals.
LEMMA AddressIs ==
  ASSUME NEW u, Fits(u), NEW ix \in Indices(u.shape)
  PROVE  /\ \A i \in 1 .. Len(u.shape) : Terms(u, ix)[i] = ix[i] * u.strides[i] /\ Terms(u, ix)[i] \in Nat
         /\ Address(u, ix) = u.offset + SumFunctionOnSet(Terms(u, ix), 1 .. Len(u.shape))
<1>1. PICK n : n = Len(u.shape)
  OBVIOUS
<1>2. n \in Nat /\ u.shape \in Seq(Nat) /\ u.strides \in Seq(Nat) /\ Len(u.strides) = n
  BY <1>1 DEF Fits
<1>3. ix \in [1 .. n -> Nat]
  BY <1>1, <1>2, IndicesAre
<1>4. ASSUME NEW i \in 1 .. n
      PROVE  Terms(u, ix)[i] = ix[i] * u.strides[i] /\ ix[i] * u.strides[i] \in Nat
  <2>1. Terms(u, ix)[i] = ix[i] * u.strides[i]
    BY <1>3 DEF Terms
  <2>2. ix[i] \in Nat /\ u.strides[i] \in Nat
    BY <1>2, <1>3
  <2>3. ix[i] * u.strides[i] \in Nat
    BY ONLY <2>2
  <2>4. QED
    BY ONLY <2>1, <2>3
<1>5. DOMAIN ix = 1 .. n
  BY <1>3
<1>6. \A i \in 1 .. n : ix[i] * u.strides[i] \in Nat
  BY ONLY <1>4
<1>7. Address(u, ix) = u.offset + SumFunctionOnSet(Terms(u, ix), 1 .. n)
  BY ONLY <1>2, <1>5, <1>6, AddressSums
<1>8. QED
  BY ONLY <1>1, <1>4, <1>7

\* Without gaps the elements of a view lie in the order of its indices.
LEMMA ContiguousIs ==
  ASSUME NEW u, Fits(u), u.strides = RowMajor(u.shape), NEW ix \in Indices(u.shape)
  PROVE  Address(u, ix) = u.offset + Flat(u.shape, ix)
<1>1. PICK s, n : s = u.shape /\ n = Len(s)
  OBVIOUS
<1>2. s \in Seq(Nat) /\ n \in Nat
  BY <1>1 DEF Fits
<1>3. ix \in [1 .. n -> Nat]
  BY <1>1, <1>2, IndicesAre
<1>4. ASSUME NEW i \in 1 .. n PROVE Terms(u, ix)[i] \in Nat /\ Flats(s, ix)[i] = Terms(u, ix)[i]
  <2>1. Terms(u, ix)[i] \in Nat /\ Terms(u, ix)[i] = ix[i] * u.strides[i]
    BY <1>1, AddressIs
  <2>2. u.strides[i] = Span(s, i + 1)
    BY <1>1, <1>2, RowMajorIs
  <2>3. Flats(s, ix)[i] = ix[i] * Span(s, i + 1)
    BY <1>1 DEF Flats
  <2>4. QED
    BY ONLY <2>1, <2>2, <2>3
<1>5. IsFiniteSet(1 .. n)
  <2>1. n \in Int /\ 1 \in Int
    BY ONLY <1>2
  <2>2. QED
    BY ONLY <2>1, FS_Interval
<1>6. SumFunctionOnSet(Terms(u, ix), 1 .. n) = SumFunctionOnSet(Flats(s, ix), 1 .. n)
  BY ONLY <1>4, <1>5, SumAgrees
<1>7. Address(u, ix) = u.offset + SumFunctionOnSet(Terms(u, ix), 1 .. n)
  BY <1>1, AddressIs
<1>8. QED
  BY ONLY <1>1, <1>6, <1>7 DEF Flat, FlatFrom

\* A new tensor, and its part that a view without gaps is.
LEMMA CreateIs ==
  ASSUME NEW s \in Seq(Nat)
  PROVE  /\ Fits(Create(s)) /\ Create(s).shape = s /\ Create(s).offset = 0
         /\ Create(s).strides = RowMajor(s)
         /\ \A ix \in Indices(s) : Address(Create(s), ix) = Flat(s, ix)
<1>1. /\ Create(s).shape = s /\ Create(s).offset = 0 /\ Create(s).strides = RowMajor(s)
      /\ Create(s) = [shape |-> s, strides |-> RowMajor(s), offset |-> 0]
  BY DEF Create
<1>2. RowMajor(s) \in Seq(Nat) /\ Len(RowMajor(s)) = Len(s)
  BY RowMajorIs
<1>3. Fits(Create(s))
  BY ONLY <1>1, <1>2, s \in Seq(Nat) DEF Fits
<1>4. ASSUME NEW ix \in Indices(s) PROVE Address(Create(s), ix) = Flat(s, ix)
  <2>1. Address(Create(s), ix) = Create(s).offset + Flat(Create(s).shape, ix)
    BY ONLY <1>1, <1>3, ix \in Indices(s), ContiguousIs
  <2>2. Flat(s, ix) \in Int
    BY FlatIs
  <2>3. QED
    BY ONLY <1>1, <2>1, <2>2
<1>5. QED
  BY ONLY <1>1, <1>3, <1>4

\* The index of the tensor at an address, and back.
LEMMA IndexAtIs ==
  /\ \A a \in 0 .. Numel(Base) - 1 : IndexAt(a) \in Indices(Base) /\ Flat(Base, IndexAt(a)) = a
  /\ \A ix \in Indices(Base) : IndexAt(Flat(Base, ix)) = ix
<1>1. Base \in Seq(Nat)
  BY ViewsAssumption
<1>2. \A ix \in Indices(Base) : Address(Create(Base), ix) = Flat(Base, ix)
  BY <1>1, CreateIs
<1>3. ASSUME NEW a \in 0 .. Numel(Base) - 1
      PROVE  IndexAt(a) \in Indices(Base) /\ Flat(Base, IndexAt(a)) = a
  <2>1. PICK ix \in Indices(Base) : Flat(Base, ix) = a
    BY <1>1, FlatIs
  <2>2. \E jx \in Indices(Base) : Address(Create(Base), jx) = a
    BY <1>2, <2>1
  <2>3. IndexAt(a) \in Indices(Base) /\ Address(Create(Base), IndexAt(a)) = a
    BY ONLY <2>2, Zenon DEF IndexAt
  <2>4. QED
    BY <1>2, <2>3
<1>4. ASSUME NEW ix \in Indices(Base) PROVE IndexAt(Flat(Base, ix)) = ix
  <2>1. PICK a : a = Flat(Base, ix)
    OBVIOUS
  <2>2. a \in 0 .. Numel(Base) - 1
    BY <1>1, <2>1, FlatIs
  <2>3. IndexAt(a) \in Indices(Base) /\ Flat(Base, IndexAt(a)) = a
    BY <1>3, <2>2
  <2>4. IndexAt(a) = ix
    BY <1>1, <2>1, <2>3, FlatOrders
  <2>5. QED
    BY ONLY <2>1, <2>4
<1>5. QED
  BY <1>3, <1>4

\* An order of the dimensions has a place for each of them.
LEMMA OrderIsOnto ==
  ASSUME NEW n \in Nat, NEW p \in [1 .. n -> 1 .. n],
         \A i, j \in 1 .. n : p[i] = p[j] => i = j
  PROVE  /\ \A j \in 1 .. n : \E i \in 1 .. n : p[i] = j
         /\ {p[i] : i \in 1 .. n} = 1 .. n
<1>1. IsFiniteSet(1 .. n)
  BY FS_Interval
<1>2. p \in Injection(1 .. n, 1 .. n)
  BY DEF Injection, IsInjective
<1>3. p \in Surjection(1 .. n, 1 .. n)
  BY ONLY <1>1, <1>2, FS_Injection
<1>4. \A j \in 1 .. n : \E i \in 1 .. n : p[i] = j
  BY ONLY <1>3 DEF Surjection
<1>5. QED
  BY <1>4

Moved(p, ix) == [i \in DOMAIN p |-> ix[p[i]]]
MovedFrom(u, p) ==
  [jx \in Indices(Permute(u, p).shape) |-> CHOOSE ix \in Indices(u.shape) : Moved(p, ix) = jx]

\* A permuted view has its dimensions and strides in the new order.
LEMMA PermutedIs ==
  ASSUME NEW u, Fits(u), NEW p \in [DOMAIN u.shape -> DOMAIN u.shape], PermuteFits(u, p)
  PROVE  LET v == Permute(u, p)
             n == Len(u.shape) IN
         /\ Fits(v) /\ v.offset = u.offset /\ Len(v.shape) = n
         /\ p \in [1 .. n -> 1 .. n] /\ (\A i, j \in 1 .. n : p[i] = p[j] => i = j)
         /\ \A i \in 1 .. n : v.shape[i] = u.shape[p[i]] /\ v.strides[i] = u.strides[p[i]]
<1>1. PICK n : n = Len(u.shape)
  OBVIOUS
<1>2. n \in Nat /\ u.shape \in Seq(Nat) /\ u.strides \in Seq(Nat) /\ Len(u.strides) = n /\ u.offset \in Nat
  BY <1>1 DEF Fits
<1>3. DOMAIN u.shape = 1 .. n /\ p \in [1 .. n -> 1 .. n] /\ DOMAIN p = 1 .. n
  <2>1. DOMAIN u.shape = 1 .. n
    BY ONLY <1>1, <1>2
  <2>2. p \in [1 .. n -> 1 .. n]
    BY ONLY <2>1, p \in [DOMAIN u.shape -> DOMAIN u.shape]
  <2>3. QED
    BY ONLY <2>1, <2>2
<1>4. \A i, j \in 1 .. n : p[i] = p[j] => i = j
  BY <1>3 DEF PermuteFits, IsInjective
<1>5. PICK a, b : a = [i \in 1 .. n |-> u.shape[p[i]]] /\ b = [i \in 1 .. n |-> u.strides[p[i]]]
  OBVIOUS
<1>6. a \in Seq(Nat) /\ b \in Seq(Nat) /\ Len(a) = n /\ Len(b) = n
  <2>1. a \in [1 .. n -> Nat] /\ b \in [1 .. n -> Nat]
    <3>1. \A i \in 1 .. n : p[i] \in 1 .. n
      BY ONLY <1>3
    <3>0. PICK s, d : s = u.shape /\ d = u.strides
      OBVIOUS
    <3>2. \A j \in 1 .. n : u.shape[j] \in Nat
      <4>1. s \in Seq(Nat) /\ Len(s) = n
        BY ONLY <1>1, <1>2, <3>0
      <4>2. \A j \in 1 .. n : s[j] \in Nat
        BY ONLY <4>1
      <4>3. QED
        BY ONLY <3>0, <4>2
    <3>3. \A j \in 1 .. n : u.strides[j] \in Nat
      <4>1. d \in Seq(Nat) /\ Len(d) = n
        BY ONLY <1>2, <3>0
      <4>2. \A j \in 1 .. n : d[j] \in Nat
        BY ONLY <4>1
      <4>3. QED
        BY ONLY <3>0, <4>2
    <3>4. QED
      BY ONLY <1>5, <3>1, <3>2, <3>3
  <2>2. QED
    BY ONLY <1>2, <2>1
<1>7. u = [shape |-> u.shape, strides |-> u.strides, offset |-> u.offset]
  BY DEF Fits
<1>8. Permute(u, p) = [shape |-> a, strides |-> b, offset |-> u.offset]
  <2>1. PICK s, d, o : s = u.shape /\ d = u.strides /\ o = u.offset
    OBVIOUS
  <2>2. u = [shape |-> s, strides |-> d, offset |-> o]
    BY ONLY <1>7, <2>1
  <2>3. a = [i \in DOMAIN p |-> s[p[i]]] /\ b = [i \in DOMAIN p |-> d[p[i]]]
    BY ONLY <1>3, <1>5, <2>1
  <2>4. Permute(u, p) = [u EXCEPT !.shape = a, !.strides = b]
    BY ONLY <2>1, <2>3 DEF Permute
  <2>5. QED
    BY ONLY <2>1, <2>2, <2>4
<1>9. Fits(Permute(u, p))
  BY ONLY <1>2, <1>6, <1>8 DEF Fits
<1>10. QED
  BY ONLY <1>1, <1>3, <1>4, <1>5, <1>6, <1>8, <1>9

\* A permuted view shows at an index what the view shows where it came from.
LEMMA PermuteSees ==
  ASSUME NEW u, Fits(u), NEW p \in [DOMAIN u.shape -> DOMAIN u.shape], PermuteFits(u, p)
  PROVE  Mirrors(Permute(u, p), u, MovedFrom(u, p))
<1>1. PICK v, n, f : v = Permute(u, p) /\ n = Len(u.shape) /\ f = MovedFrom(u, p)
  OBVIOUS
<1>2. /\ Fits(v) /\ v.offset = u.offset /\ Len(v.shape) = n
      /\ p \in [1 .. n -> 1 .. n] /\ (\A i, j \in 1 .. n : p[i] = p[j] => i = j)
      /\ \A i \in 1 .. n : v.shape[i] = u.shape[p[i]] /\ v.strides[i] = u.strides[p[i]]
  BY <1>1, PermutedIs
<1>3. n \in Nat /\ u.shape \in Seq(Nat) /\ v.shape \in Seq(Nat)
  BY <1>1, <1>2 DEF Fits
<1>4. /\ \A j \in 1 .. n : \E i \in 1 .. n : p[i] = j
      /\ {p[i] : i \in 1 .. n} = 1 .. n
  <2>1. n \in Nat /\ p \in [1 .. n -> 1 .. n] /\ (\A i, j \in 1 .. n : p[i] = p[j] => i = j)
    BY ONLY <1>2, <1>3
  <2>2. QED
    BY ONLY <2>1, OrderIsOnto
<1>5. DOMAIN p = 1 .. n
  BY <1>2
\* every index of the permuted view was moved there
<1>6. ASSUME NEW jx \in Indices(v.shape)
      PROVE  f[jx] \in Indices(u.shape) /\ Moved(p, f[jx]) = jx
  <2>1. jx \in [1 .. n -> Nat] /\ \A i \in 1 .. n : jx[i] < v.shape[i]
    BY <1>2, <1>3, IndicesAre
  <2>2. PICK ix : ix = [j \in 1 .. n |-> jx[CHOOSE i \in 1 .. n : p[i] = j]]
    OBVIOUS
  <2>3. ASSUME NEW j \in 1 .. n PROVE ix[j] \in Nat /\ ix[j] < u.shape[j]
    <3>1. PICK i \in 1 .. n : p[i] = j /\ ix[j] = jx[i]
      BY <1>4, <2>2
    <3>2. jx[i] \in Nat /\ jx[i] < v.shape[i] /\ v.shape[i] = u.shape[j]
      BY <1>2, <2>1, <3>1
    <3>3. QED
      BY ONLY <3>1, <3>2
  <2>4. ix \in Indices(u.shape)
    <3>1. ix \in [1 .. n -> Nat]
      BY <2>2, <2>3
    <3>2. QED
      BY <1>1, <1>3, <2>3, <3>1, IndicesAre
  <2>5. Moved(p, ix) = jx
    <3>1. ASSUME NEW i \in 1 .. n PROVE ix[p[i]] = jx[i]
      <4>1. p[i] \in 1 .. n
        BY <1>2
      <4>2. PICK k : k = CHOOSE m \in 1 .. n : p[m] = p[i]
        OBVIOUS
      <4>3. k \in 1 .. n /\ p[k] = p[i]
        BY <4>2
      <4>4. k = i
        BY <1>2, <4>3
      <4>5. QED
        BY <2>2, <4>1, <4>2, <4>4
    <3>2. jx = [i \in 1 .. n |-> jx[i]]
      BY <2>1
    <3>3. Moved(p, ix) = [i \in 1 .. n |-> ix[p[i]]]
      BY <1>5 DEF Moved
    <3>4. QED
      BY ONLY <3>1, <3>2, <3>3
  <2>6. f[jx] = CHOOSE kx \in Indices(u.shape) : Moved(p, kx) = jx
    BY <1>1 DEF MovedFrom
  <2>7. QED
    BY ONLY <2>4, <2>5, <2>6
\* and has the address it had there
<1>7. ASSUME NEW jx \in Indices(v.shape) PROVE Address(v, jx) = Address(u, f[jx])
  <2>1. PICK ix : ix = f[jx]
    OBVIOUS
  <2>2. ix \in Indices(u.shape) /\ jx = Moved(p, ix)
    BY <1>6, <2>1
  <2>3. \A i \in 1 .. n : jx[i] = ix[p[i]]
    BY <1>5, <2>2 DEF Moved
  <2>4. ASSUME NEW i \in 1 .. n
        PROVE  Terms(v, jx)[i] \in Nat /\ Terms(u, ix)[p[i]] = Terms(v, jx)[i]
    <3>1. p[i] \in 1 .. n
      BY <1>2
    <3>2. Terms(v, jx)[i] = jx[i] * v.strides[i] /\ Terms(v, jx)[i] \in Nat
      BY <1>2, AddressIs
    <3>3. Terms(u, ix)[p[i]] = ix[p[i]] * u.strides[p[i]]
      BY <1>1, <2>2, <3>1, AddressIs
    <3>4. jx[i] = ix[p[i]] /\ v.strides[i] = u.strides[p[i]]
      BY <1>2, <2>3
    <3>5. QED
      BY ONLY <3>2, <3>3, <3>4
  <2>5. IsFiniteSet(1 .. n)
    <3>1. n \in Int /\ 1 \in Int
      BY ONLY <1>3
    <3>2. QED
      BY ONLY <3>1, FS_Interval
  <2>6. \A i, j \in 1 .. n : p[i] = p[j] => i = j
    BY <1>2
  <2>7. SumFunctionOnSet(Terms(v, jx), 1 .. n)
          = SumFunctionOnSet(Terms(u, ix), {p[i] : i \in 1 .. n})
    <3>1. PICK x, y : x = Terms(v, jx) /\ y = Terms(u, ix)
      OBVIOUS
    <3>2. \A i \in 1 .. n : x[i] \in Nat /\ y[p[i]] = x[i]
      BY ONLY <2>4, <3>1
    <3>3. PICK S : S = 1 .. n
      OBVIOUS
    <3>4. IsFiniteSet(S) /\ (\A i \in S : x[i] \in Nat /\ y[p[i]] = x[i])
          /\ \A i, j \in S : p[i] = p[j] => i = j
      BY ONLY <2>5, <2>6, <3>2, <3>3
    <3>5. SumFunctionOnSet(x, S) = SumFunctionOnSet(y, {p[i] : i \in S})
      BY ONLY <3>4, SumMapped
    <3>6. QED
      BY ONLY <3>1, <3>3, <3>5
  <2>8. Address(v, jx) = v.offset + SumFunctionOnSet(Terms(v, jx), 1 .. n)
    BY <1>2, AddressIs
  <2>9. Address(u, ix) = u.offset + SumFunctionOnSet(Terms(u, ix), 1 .. n)
    BY <1>1, <2>2, AddressIs
  <2>10. QED
    BY ONLY <1>2, <1>4, <2>1, <2>7, <2>8, <2>9
<1>8. ASSUME NEW ix \in Indices(v.shape), NEW jx \in Indices(v.shape), f[ix] = f[jx] PROVE ix = jx
  BY <1>6, <1>8
<1>9. QED
  BY ONLY <1>1, <1>6, <1>7, <1>8 DEF Mirrors

SlicedFrom(v, dim, start) ==
  [jx \in Indices(v.shape) |-> [jx EXCEPT ![dim] = @ + start]]

\* A slice is shorter in one dimension and begins further on.
LEMMA SlicedIs ==
  ASSUME NEW u, Fits(u), NEW dim \in DOMAIN u.shape, NEW start \in Nat, NEW end \in Nat,
         SliceFits(u, dim, start, end)
  PROVE  LET v == Slice(u, dim, start, end) IN
         /\ Fits(v) /\ v.strides = u.strides /\ Len(v.shape) = Len(u.shape)
         /\ v.shape = [u.shape EXCEPT ![dim] = end - start]
         /\ v.offset = u.offset + start * u.strides[dim]
<1>1. PICK s, d, o, x : /\ s = u.shape /\ d = u.strides /\ o = u.offset
                        /\ x = start * d[dim]
  OBVIOUS
<1>2. s \in Seq(Nat) /\ d \in Seq(Nat) /\ o \in Nat /\ Len(d) = Len(s) /\ dim \in 1 .. Len(s)
  BY <1>1 DEF Fits
<1>3. u = [shape |-> s, strides |-> d, offset |-> o]
  BY <1>1 DEF Fits
<1>4. x \in Nat
  <2>1. d[dim] \in Nat
    BY ONLY <1>2
  <2>2. QED
    BY ONLY <1>1, <2>1, start \in Nat
<1>5. end - start \in Nat
  BY ONLY SliceFits(u, dim, start, end), start \in Nat, end \in Nat DEF SliceFits
<1>6. PICK a : a = [s EXCEPT ![dim] = end - start]
  OBVIOUS
<1>7. a \in Seq(Nat) /\ Len(a) = Len(s)
  BY ONLY <1>2, <1>5, <1>6
<1>8. Slice(u, dim, start, end) = [shape |-> a, strides |-> d, offset |-> o + x]
  <2>1. Slice(u, dim, start, end)
          = [u EXCEPT !.shape[dim] = end - start, !.offset = u.offset + start * u.strides[dim]]
    BY ONLY Zenon DEF Slice
  <2>2. PICK y : y = o + x
    OBVIOUS
  <2>3. y = u.offset + start * u.strides[dim]
    BY ONLY <1>1, <2>2
  <2>4. Slice(u, dim, start, end) = [u EXCEPT !.shape[dim] = end - start, !.offset = y]
    BY ONLY <2>1, <2>3
  <2>5. PICK z : z = end - start
    OBVIOUS
  <2>6. a = [u.shape EXCEPT ![dim] = z]
    BY ONLY <1>1, <1>6, <2>5
  <2>7. Slice(u, dim, start, end) = [u EXCEPT !.shape = a, !.offset = y]
    BY ONLY <1>3, <2>4, <2>5, <2>6
  <2>8. QED
    BY ONLY <1>3, <2>2, <2>7
<1>9. o + x \in Nat
  BY ONLY <1>2, <1>4
<1>10. Fits(Slice(u, dim, start, end))
  BY ONLY <1>2, <1>7, <1>8, <1>9 DEF Fits
<1>11. QED
  BY ONLY <1>1, <1>6, <1>7, <1>8, <1>10

\* A slice shows at an index what the view shows further on in that dimension.
LEMMA SliceSees ==
  ASSUME NEW u, Fits(u), NEW dim \in DOMAIN u.shape, NEW start \in Nat, NEW end \in Nat,
         SliceFits(u, dim, start, end)
  PROVE  LET v == Slice(u, dim, start, end)
         IN  Mirrors(v, u, SlicedFrom(v, dim, start))
<1>1. PICK v, n, f : /\ v = Slice(u, dim, start, end) /\ n = Len(u.shape)
                     /\ f = SlicedFrom(v, dim, start)
  OBVIOUS
<1>2. /\ Fits(v) /\ v.strides = u.strides /\ Len(v.shape) = n
      /\ v.shape = [u.shape EXCEPT ![dim] = end - start]
      /\ v.offset = u.offset + start * u.strides[dim]
  BY <1>1, SlicedIs
<1>3. /\ n \in Nat /\ u.shape \in Seq(Nat) /\ v.shape \in Seq(Nat) /\ dim \in 1 .. n
      /\ u.offset \in Nat /\ u.strides \in Seq(Nat) /\ Len(u.strides) = n
  <2>1. /\ u.shape \in Seq(Nat) /\ u.offset \in Nat /\ u.strides \in Seq(Nat)
        /\ Len(u.strides) = Len(u.shape) /\ v.shape \in Seq(Nat)
    BY ONLY <1>2, Fits(u) DEF Fits
  <2>2. n \in Nat /\ DOMAIN u.shape = 1 .. n
    BY ONLY <1>1, <2>1
  <2>3. QED
    BY ONLY <1>1, <2>1, <2>2, dim \in DOMAIN u.shape
<1>4. /\ \A i \in (1 .. n) \ {dim} : v.shape[i] = u.shape[i]
      /\ v.shape[dim] = end - start
  BY ONLY <1>1, <1>2, <1>3
<1>5. end <= u.shape[dim]
  BY DEF SliceFits
<1>6. ASSUME NEW jx \in Indices(v.shape)
      PROVE  /\ jx \in [1 .. n -> Nat] /\ f[jx] \in [1 .. n -> Nat]
             /\ f[jx][dim] = jx[dim] + start
             /\ \A i \in (1 .. n) \ {dim} : f[jx][i] = jx[i]
             /\ \A i \in 1 .. n : jx[i] < v.shape[i]
  <2>1. jx \in [1 .. n -> Nat] /\ \A i \in 1 .. n : jx[i] < v.shape[i]
    BY <1>2, <1>3, IndicesAre
  <2>2. f[jx] = [jx EXCEPT ![dim] = jx[dim] + start]
    BY ONLY <1>1, jx \in Indices(v.shape) DEF SlicedFrom
  <2>3. jx[dim] + start \in Nat
    <3>1. jx[dim] \in Nat
      BY ONLY <1>3, <2>1
    <3>2. QED
      BY ONLY <3>1, start \in Nat
  <2>4. QED
    BY ONLY <1>3, <2>1, <2>2, <2>3
<1>7. ASSUME NEW jx \in Indices(v.shape) PROVE f[jx] \in Indices(u.shape)
  <2>1. ASSUME NEW i \in 1 .. n PROVE f[jx][i] < u.shape[i]
    <3>1. PICK a, b, c, d : a = jx[i] /\ b = f[jx][i] /\ c = v.shape[i] /\ d = u.shape[i]
      OBVIOUS
    <3>2. a \in Nat /\ b \in Nat /\ c \in Nat /\ d \in Nat /\ a < c
      <4>1. jx \in [1 .. n -> Nat] /\ f[jx] \in [1 .. n -> Nat] /\ jx[i] < v.shape[i]
        BY <1>6
      <4>2. v.shape[i] \in Nat /\ u.shape[i] \in Nat
        <5>1. PICK p, q : p = v.shape /\ q = u.shape
          OBVIOUS
        <5>2. p \in Seq(Nat) /\ q \in Seq(Nat) /\ Len(p) = n /\ Len(q) = n
          BY ONLY <1>1, <1>2, <1>3, <5>1
        <5>3. p[i] \in Nat /\ q[i] \in Nat
          BY ONLY <5>2, i \in 1 .. n
        <5>4. QED
          BY ONLY <5>1, <5>3
      <4>3. QED
        BY ONLY <3>1, <4>1, <4>2, i \in 1 .. n
    <3>3. CASE i = dim
      BY <1>4, <1>5, <1>6, <3>1, <3>2, <3>3
    <3>4. CASE i # dim
      BY <1>4, <1>6, <3>1, <3>2, <3>4
    <3>5. QED
      BY <3>3, <3>4
  <2>2. f[jx] \in [1 .. n -> Nat]
    BY <1>6
  <2>3. QED
    BY <1>1, <1>3, <2>1, <2>2, IndicesAre
<1>8. ASSUME NEW jx \in Indices(v.shape) PROVE Address(v, jx) = Address(u, f[jx])
  <2>1. PICK ix, S, x, y : /\ ix = f[jx] /\ S = 1 .. n
                           /\ x = Terms(v, jx) /\ y = Terms(u, ix)
    OBVIOUS
  <2>2. ix \in Indices(u.shape)
    BY <1>7, <2>1
  <2>3. \A i \in S : x[i] = jx[i] * v.strides[i] /\ x[i] \in Nat
    BY <1>2, <2>1, AddressIs
  <2>4. \A i \in S : y[i] = ix[i] * u.strides[i] /\ y[i] \in Nat
    BY <1>1, <2>1, <2>2, AddressIs
  <2>5. dim \in S /\ IsFiniteSet(S) /\ IsFiniteSet(S \ {dim})
    <3>1. IsFiniteSet(S)
      <4>1. n \in Int /\ 1 \in Int /\ S = 1 .. n
        BY ONLY <1>3, <2>1
      <4>2. IsFiniteSet(1 .. n)
        BY ONLY <4>1, FS_Interval
      <4>3. QED
        BY ONLY <4>1, <4>2
    <3>2. QED
      BY ONLY <1>3, <2>1, <3>1, FS_RemoveElement
  <2>6. \A i \in S \ {dim} : x[i] \in Nat /\ y[i] = x[i]
    <3>1. ASSUME NEW i \in S \ {dim} PROVE x[i] \in Nat /\ y[i] = x[i]
      <4>1. x[i] = jx[i] * v.strides[i] /\ x[i] \in Nat /\ y[i] = ix[i] * u.strides[i]
        BY ONLY <2>3, <2>4, i \in S \ {dim}
      <4>2. ix[i] = jx[i]
        BY <1>6, <2>1
      <4>3. QED
        BY ONLY <1>2, <4>1, <4>2
    <3>2. QED
      BY ONLY <3>1
  <2>7. SumFunctionOnSet(x, S) = x[dim] + SumFunctionOnSet(x, S \ {dim})
    <3>1. \A i \in S : x[i] \in Nat
      BY ONLY <2>3
    <3>2. QED
      BY ONLY <2>5, <3>1, SumSplits
  <2>8. SumFunctionOnSet(y, S) = y[dim] + SumFunctionOnSet(y, S \ {dim})
    <3>1. \A i \in S : y[i] \in Nat
      BY ONLY <2>4
    <3>2. QED
      BY ONLY <2>5, <3>1, SumSplits
  <2>9. SumFunctionOnSet(x, S \ {dim}) = SumFunctionOnSet(y, S \ {dim})
    BY ONLY <2>5, <2>6, SumAgrees
  <2>10. SumFunctionOnSet(x, S \ {dim}) \in Nat
    BY <2>5, <2>6, SumOfNats
  <2>11. PICK m, k, w, e : /\ m = jx[dim] /\ k = u.strides[dim] /\ w = start * k
                           /\ e = SumFunctionOnSet(x, S \ {dim})
    OBVIOUS
  <2>12. m \in Nat /\ k \in Nat
    <3>1. jx \in [1 .. n -> Nat]
      BY <1>6
    <3>2. QED
      <4>1. jx[dim] \in Nat
        BY ONLY <1>3, <3>1
      <4>2. u.strides[dim] \in Nat
        BY ONLY <1>3
      <4>3. QED
        BY ONLY <2>11, <4>1, <4>2
  <2>13. x[dim] = m * k /\ y[dim] = (m + start) * k
    BY ONLY <1>2, <1>6, <2>1, <2>3, <2>4, <2>5, <2>11, jx \in Indices(v.shape)
  <2>14. (m + start) * k = m * k + w /\ w \in Nat /\ m * k \in Nat
    BY ONLY <2>11, <2>12, start \in Nat
  <2>15. Address(v, jx) = v.offset + SumFunctionOnSet(x, S)
    BY <1>2, <2>1, AddressIs
  <2>16. Address(u, ix) = u.offset + SumFunctionOnSet(y, S)
    BY <1>1, <2>1, <2>2, AddressIs
  <2>17. PICK q, o, z, g : /\ q = m * k /\ o = u.offset /\ z = y[dim] /\ g = x[dim]
    OBVIOUS
  <2>18. q \in Nat /\ o \in Nat /\ e \in Nat /\ w \in Nat /\ g = q /\ z = q + w
    BY ONLY <1>3, <2>10, <2>11, <2>13, <2>14, <2>17
  <2>19. SumFunctionOnSet(x, S) = g + e /\ SumFunctionOnSet(y, S) = z + e
    BY ONLY <2>7, <2>8, <2>9, <2>11, <2>17
  <2>20. v.offset = o + w
    BY ONLY <1>2, <2>11, <2>17
  <2>21. QED
    <3>1. (o + w) + (g + e) = o + (z + e)
      BY ONLY <2>18
    <3>2. Address(v, jx) = (o + w) + (g + e)
      BY ONLY <2>15, <2>19, <2>20
    <3>3. Address(u, ix) = o + (z + e)
      BY ONLY <2>16, <2>17, <2>19
    <3>4. QED
      BY ONLY <2>1, <3>1, <3>2, <3>3
<1>9. ASSUME NEW ix \in Indices(v.shape), NEW jx \in Indices(v.shape), f[ix] = f[jx] PROVE ix = jx
  <2>1. ASSUME NEW i \in 1 .. n PROVE ix[i] = jx[i]
    <3>1. ix[i] \in Nat /\ jx[i] \in Nat
      BY <1>6
    <3>2. CASE i = dim
      BY <1>6, <1>9, <3>1, <3>2
    <3>3. CASE i # dim
      BY <1>6, <1>9, <3>3
    <3>4. QED
      BY <3>2, <3>3
  <2>2. ix = [i \in 1 .. n |-> ix[i]] /\ jx = [i \in 1 .. n |-> jx[i]]
    BY <1>6
  <2>3. PICK a, b : a = [i \in 1 .. n |-> ix[i]] /\ b = [i \in 1 .. n |-> jx[i]]
    OBVIOUS
  <2>4. a = b
    BY ONLY <2>1, <2>3
  <2>5. QED
    BY ONLY <2>2, <2>3, <2>4
<1>10. QED
  BY ONLY <1>1, <1>7, <1>8, <1>9 DEF Mirrors

ViewedFrom(u, s) ==
  [jx \in Indices(s) |-> CHOOSE ix \in Indices(u.shape) : Flat(u.shape, ix) = Flat(s, jx)]

\* A view in another shape shows the same elements in the same order.
LEMMA ViewSees ==
  ASSUME NEW u, Fits(u), NEW s \in Seq(Nat), ViewFits(u, s)
  PROVE  /\ Fits(View(u, s)) /\ View(u, s).shape = s
         /\ Mirrors(View(u, s), u, ViewedFrom(u, s))
<1>1. PICK v, f, o, r : v = View(u, s) /\ f = ViewedFrom(u, s) /\ o = u.offset /\ r = u.shape
  OBVIOUS
<1>2. o \in Nat /\ r \in Seq(Nat)
  BY <1>1 DEF Fits
<1>3. /\ v = [shape |-> s, strides |-> RowMajor(s), offset |-> o]
  <2>1. Create(s) = [shape |-> s, strides |-> RowMajor(s), offset |-> 0]
    BY DEF Create
  <2>2. v = [Create(s) EXCEPT !.offset = o]
    BY ONLY <1>1 DEF View
  <2>3. QED
    BY ONLY <2>1, <2>2
<1>4. Fits(v) /\ v.shape = s /\ v.strides = RowMajor(v.shape) /\ v.offset = o
  <2>1. RowMajor(s) \in Seq(Nat) /\ Len(RowMajor(s)) = Len(s)
    BY RowMajorIs
  <2>2. QED
    BY ONLY <1>2, <1>3, <2>1, s \in Seq(Nat) DEF Fits
<1>5. Numel(s) = Numel(r) /\ u.strides = RowMajor(u.shape)
  BY <1>1 DEF ViewFits, IsContiguous
<1>6. ASSUME NEW jx \in Indices(s) PROVE f[jx] \in Indices(r) /\ Flat(r, f[jx]) = Flat(s, jx)
  <2>1. PICK a : a = Flat(s, jx)
    OBVIOUS
  <2>2. a \in 0 .. Numel(r) - 1
    BY <1>5, <2>1, FlatIs
  <2>3. \E ix \in Indices(r) : Flat(r, ix) = a
    BY <1>2, <2>2, FlatIs
  <2>4. f[jx] = CHOOSE ix \in Indices(r) : Flat(r, ix) = a
    BY <1>1, <2>1 DEF ViewedFrom
  <2>5. QED
    BY ONLY <2>1, <2>3, <2>4
<1>7. ASSUME NEW jx \in Indices(s) PROVE Address(v, jx) = Address(u, f[jx])
  <2>1. Address(v, jx) = o + Flat(s, jx)
    BY <1>4, ContiguousIs
  <2>2. Address(u, f[jx]) = o + Flat(r, f[jx])
    BY <1>1, <1>5, <1>6, ContiguousIs
  <2>3. QED
    BY ONLY <1>6, <2>1, <2>2, jx \in Indices(s)
<1>8. ASSUME NEW ix \in Indices(s), NEW jx \in Indices(s), f[ix] = f[jx] PROVE ix = jx
  <2>1. Flat(s, ix) = Flat(s, jx)
    BY <1>6, <1>8
  <2>2. QED
    BY <2>1, FlatOrders
<1>9. QED
  BY ONLY <1>1, <1>4, <1>6, <1>7, <1>8 DEF Mirrors

ViewInv ==
  /\ ops \in 0 .. MaxOps
  /\ DOMAIN mem = 0 .. Numel(Base) - 1
  /\ Fits(view) /\ Lies(view)

\* What the reader of the arrays is told.
Elements == [ix \in Indices(Base) |-> mem[Address(Create(Base), ix)]]
Names(u) == [ix \in Indices(u.shape) |-> IndexAt(Address(u, ix))]

\* The types are part of the invariant.
LEMMA ViewsTypes ==
  ASSUME ViewInv
  PROVE  ViewsTypeOK
<1>1. /\ view \in [shape : Seq(Nat), strides : Seq(Nat), offset : Nat] /\ Len(view.strides) = Len(view.shape)
      /\ \A ix \in Indices(view.shape) : Address(view, ix) \in DOMAIN mem
      /\ ops \in 0 .. MaxOps
  BY DEF ViewInv, Fits, Lies
<1>2. PICK s, d : s = view.shape /\ d = view.strides
  OBVIOUS
<1>3. s \in Seq(Nat) /\ d \in Seq(Nat) /\ Len(d) = Len(s) /\ view.offset \in Nat
  BY ONLY <1>1, <1>2
<1>4. DOMAIN d = DOMAIN s
  BY ONLY <1>3
<1>5. QED
  BY ONLY <1>1, <1>2, <1>3, <1>4 DEF ViewsTypeOK

\* A new view that shows what the last one did keeps the invariant, and tells
\* of the same elements.
LEMMA ViewedKeeps ==
  ASSUME ViewInv, ops < MaxOps, NEW u, NEW f, Fits(u), Mirrors(u, view, f), Viewed(u)
  PROVE  /\ ViewInv'
         /\ view' = u /\ Elements' = Elements
         /\ Names(u) = [jx \in Indices(u.shape) |-> Names(view)[f[jx]]]
<1>1. view' = u /\ ops' = ops + 1 /\ mem' = mem
  BY DEF Viewed
<1>2. Lies(u)
  BY SeesLies DEF ViewInv
<1>3. ops' \in 0 .. MaxOps
  BY <1>1, ViewsAssumption DEF ViewInv
<1>4. DOMAIN mem = 0 .. Numel(Base) - 1
  BY DEF ViewInv
<1>5. ViewInv'
  BY ONLY <1>1, <1>2, <1>3, <1>4, Fits(u) DEF ViewInv, Fits, Lies
<1>6. Elements' = Elements
  BY <1>1 DEF Elements
<1>7. ASSUME NEW jx \in Indices(u.shape) PROVE IndexAt(Address(u, jx)) = Names(view)[f[jx]]
  BY DEF Mirrors, Names
<1>8. Names(u) = [jx \in Indices(u.shape) |-> Names(view)[f[jx]]]
  BY ONLY <1>7 DEF Names
<1>9. QED
  BY ONLY <1>1, <1>5, <1>6, <1>8

\* Telling a new view and its names is a Show of Array.
LEMMA ShowIs ==
  ASSUME NEW u, view' = u, Elements' = Elements, NEW cell, Names(u) = cell
  PROVE  Arrays!Show(u.shape, cell)
<1>1. view.shape' = u.shape
  OBVIOUS
<1>2. [ix \in Indices(view.shape) |-> IndexAt(Address(view, ix))]' = cell
  BY DEF Names
<1>3. [ix \in Indices(Base) |-> mem[Address(Create(Base), ix)]]'
        = [ix \in Indices(Base) |-> mem[Address(Create(Base), ix)]]
  BY DEF Elements
<1>4. QED
  BY ONLY <1>1, <1>2, <1>3 DEF Arrays!Show

\* The three operations on views.
LEMMA PermuteImplements ==
  ASSUME ViewInv, ops < MaxOps, NEW p \in [DOMAIN view.shape -> DOMAIN view.shape],
         PermuteFits(view, p), Viewed(Permute(view, p))
  PROVE  ViewInv' /\ Arrays!Permute
<1>1. PICK u, f, n : u = Permute(view, p) /\ f = MovedFrom(view, p) /\ n = Len(view.shape)
  OBVIOUS
<1>2. Fits(view)
  BY DEF ViewInv
<1>3. /\ Fits(u) /\ n = Len(u.shape)
      /\ p \in [1 .. n -> 1 .. n] /\ \A i, j \in 1 .. n : p[i] = p[j] => i = j
  BY <1>1, <1>2, PermutedIs
<1>4. Mirrors(u, view, f)
  BY <1>1, <1>2, PermuteSees
<1>5. /\ ViewInv' /\ view' = u /\ Elements' = Elements
      /\ Names(u) = [jx \in Indices(u.shape) |-> Names(view)[f[jx]]]
  BY <1>1, <1>3, <1>4, ViewedKeeps
<1>6. DOMAIN p = 1 .. n
  BY <1>3
<1>7. u.shape = [i \in DOMAIN p |-> view.shape[p[i]]]
  <2>1. PICK a, b : /\ a = [i \in DOMAIN p |-> view.shape[p[i]]]
                    /\ b = [i \in DOMAIN p |-> view.strides[p[i]]]
    OBVIOUS
  <2>2. u = [view EXCEPT !.shape = a, !.strides = b]
    BY ONLY <1>1, <2>1 DEF Permute
  <2>3. PICK s, d, o : s = view.shape /\ d = view.strides /\ o = view.offset
    OBVIOUS
  <2>4. view = [shape |-> s, strides |-> d, offset |-> o]
    BY ONLY <1>2, <2>3 DEF Fits
  <2>5. QED
    BY ONLY <2>1, <2>2, <2>4
<1>8. u.shape \in Seq(Nat) /\ view.shape \in Seq(Nat)
  BY <1>2, <1>3 DEF Fits
<1>9. Arrays!Cells(u.shape) = Indices(u.shape) /\ Arrays!Cells(view.shape) = Indices(view.shape)
  BY <1>8, RankIs
<1>10. ASSUME NEW jx \in Indices(u.shape)
       PROVE  f[jx] = CHOOSE ix \in Indices(view.shape) : [i \in DOMAIN p |-> ix[p[i]]] = jx
  BY <1>1 DEF MovedFrom, Moved
<1>11. QED
  <2>1. PICK cell : cell = [jx \in Indices(u.shape) |-> Names(view)[f[jx]]]
    OBVIOUS
  <2>2. Arrays!Show(u.shape, cell)
    BY ONLY <1>5, <2>1, ShowIs
  <2>3. cell = [jx \in Arrays!Cells(u.shape) |->
                  Names(view)[CHOOSE ix \in Arrays!Cells(view.shape) : [i \in DOMAIN p |-> ix[p[i]]] = jx]]
    <3>1. \A jx \in Indices(u.shape) :
            Names(view)[f[jx]]
              = Names(view)[CHOOSE ix \in Indices(view.shape) : [i \in DOMAIN p |-> ix[p[i]]] = jx]
      BY ONLY <1>10
    <3>2. cell = [jx \in Indices(u.shape) |->
                    Names(view)[CHOOSE ix \in Indices(view.shape) : [i \in DOMAIN p |-> ix[p[i]]] = jx]]
      BY ONLY <2>1, <3>1, Zenon
    <3>3. QED
      BY ONLY <1>9, <3>2
  <2>4. Arrays!Show([i \in DOMAIN p |-> view.shape[p[i]]],
                    [jx \in Arrays!Cells([i \in DOMAIN p |-> view.shape[p[i]]]) |->
                      Names(view)[CHOOSE ix \in Arrays!Cells(view.shape) : [i \in DOMAIN p |-> ix[p[i]]] = jx]])
    BY ONLY <1>7, <2>2, <2>3
  <2>5. p \in [1 .. Len(view.shape) -> 1 .. Len(view.shape)] /\ \A i, j \in DOMAIN p : p[i] = p[j] => i = j
    BY ONLY <1>1, <1>3, <1>6
  <2>6. Arrays!Permute
    BY ONLY <2>4, <2>5, Zenon DEF Arrays!Permute, Names
  <2>7. QED
    BY <1>5, <2>6

\* Another shape for a view without gaps.
LEMMA ViewImplements ==
  ASSUME ViewInv, ops < MaxOps, NEW s \in Shapes, ViewFits(view, s), Viewed(View(view, s))
  PROVE  ViewInv' /\ Arrays!View
<1>1. PICK u, f : u = View(view, s) /\ f = ViewedFrom(view, s)
  OBVIOUS
<1>2. s \in Seq(Nat) /\ Fits(view) /\ view.shape \in Seq(Nat)
  BY ViewsAssumption DEF ViewInv, Fits
<1>3. Fits(u) /\ u.shape = s /\ Mirrors(u, view, f)
  BY <1>1, <1>2, ViewSees
<1>4. /\ ViewInv' /\ view' = u /\ Elements' = Elements
      /\ Names(u) = [jx \in Indices(u.shape) |-> Names(view)[f[jx]]]
  BY <1>1, <1>3, ViewedKeeps
<1>5. Arrays!Cells(s) = Indices(s) /\ Arrays!Cells(view.shape) = Indices(view.shape)
  BY <1>2, RankIs
<1>6. Arrays!Cardinality(Arrays!Cells(s)) = Arrays!Cardinality(Arrays!Cells(view.shape))
  <2>1. Cardinality(Arrays!Cells(s)) = Numel(s) /\ Cardinality(Arrays!Cells(view.shape)) = Numel(view.shape)
    BY <1>2, RankIs
  <2>2. QED
    BY <2>1, SameCardinality DEF ViewFits
<1>7. /\ \A jx \in Indices(s) : Arrays!Rank(s, jx) = Flat(s, jx)
      /\ \A ix \in Indices(view.shape) : Arrays!Rank(view.shape, ix) = Flat(view.shape, ix)
  BY <1>2, RankIs
<1>8. ASSUME NEW jx \in Indices(s)
      PROVE  f[jx] = CHOOSE ix \in Indices(view.shape) : Arrays!Rank(view.shape, ix) = Arrays!Rank(s, jx)
  <2>1. f[jx] = CHOOSE ix \in Indices(view.shape) : Flat(view.shape, ix) = Flat(s, jx)
    BY <1>1 DEF ViewedFrom
  <2>2. \A ix \in Indices(view.shape) :
          (Flat(view.shape, ix) = Flat(s, jx)) <=> (Arrays!Rank(view.shape, ix) = Arrays!Rank(s, jx))
    BY <1>7
  <2>3. QED
    BY <2>1, <2>2
<1>9. QED
  <2>1. PICK cell : cell = [jx \in Indices(u.shape) |-> Names(view)[f[jx]]]
    OBVIOUS
  <2>2. Arrays!Show(s, cell)
    BY ONLY <1>3, <1>4, <2>1, ShowIs
  <2>3. cell = [jx \in Arrays!Cells(s) |->
                  Names(view)[CHOOSE ix \in Arrays!Cells(view.shape) :
                             Arrays!Rank(view.shape, ix) = Arrays!Rank(s, jx)]]
    <3>1. cell = [jx \in Indices(s) |-> Names(view)[f[jx]]]
      BY ONLY <1>3, <2>1
    <3>2. \A jx \in Indices(s) : f[jx] = CHOOSE ix \in Arrays!Cells(view.shape) :
                                            Arrays!Rank(view.shape, ix) = Arrays!Rank(s, jx)
      BY ONLY <1>5, <1>8
    <3>3. QED
      BY ONLY <1>5, <3>1, <3>2
  <2>4. Arrays!Show(s, [jx \in Arrays!Cells(s) |->
                  Names(view)[CHOOSE ix \in Arrays!Cells(view.shape) :
                             Arrays!Rank(view.shape, ix) = Arrays!Rank(s, jx)]])
    BY ONLY <2>2, <2>3
  <2>5. Arrays!View
    BY ONLY <1>6, <2>4, s \in Shapes, Zenon DEF Arrays!View, Names
  <2>6. QED
    BY <1>4, <2>5

\* A part of one dimension.
LEMMA SliceImplements ==
  ASSUME ViewInv, ops < MaxOps, NEW dim \in DOMAIN view.shape,
         NEW start \in 0 .. Numel(Base), NEW end \in 0 .. Numel(Base),
         SliceFits(view, dim, start, end), Viewed(Slice(view, dim, start, end))
  PROVE  ViewInv' /\ Arrays!Slice
<1>1. PICK u, f : u = Slice(view, dim, start, end) /\ f = SlicedFrom(u, dim, start)
  OBVIOUS
<1>2. Fits(view) /\ view.shape \in Seq(Nat)
  BY DEF ViewInv, Fits
<1>3. Numel(Base) \in Nat /\ start \in Nat /\ end \in Nat
  BY ViewsAssumption, FlatIs
<1>4. Fits(u) /\ u.shape = [view.shape EXCEPT ![dim] = end - start]
  BY <1>1, <1>2, <1>3, SlicedIs
<1>5. Mirrors(u, view, f)
  BY <1>1, <1>2, <1>3, SliceSees
<1>6. /\ ViewInv' /\ view' = u /\ Elements' = Elements
      /\ Names(u) = [jx \in Indices(u.shape) |-> Names(view)[f[jx]]]
  BY <1>1, <1>4, <1>5, ViewedKeeps
<1>7. u.shape \in Seq(Nat)
  BY <1>4 DEF Fits
<1>8. Arrays!Cells(u.shape) = Indices(u.shape)
  BY <1>7, RankIs
<1>9. end \in 0 .. view.shape[dim] /\ start \in 0 .. end
  <2>1. view.shape[dim] \in Nat /\ start <= end /\ end <= view.shape[dim]
    BY <1>2 DEF SliceFits
  <2>2. QED
    BY ONLY <1>3, <2>1
<1>10. ASSUME NEW jx \in Indices(u.shape) PROVE f[jx] = [jx EXCEPT ![dim] = jx[dim] + start]
  BY <1>1 DEF SlicedFrom
<1>11. PICK cell : cell = [jx \in Indices(u.shape) |-> Names(view)[f[jx]]]
  OBVIOUS
<1>12. Arrays!Show(u.shape, cell)
  BY ONLY <1>6, <1>11, ShowIs
<1>13. cell = [jx \in Arrays!Cells(u.shape) |-> Names(view)[[jx EXCEPT ![dim] = jx[dim] + start]]]
  BY ONLY <1>8, <1>10, <1>11
<1>14. Arrays!Show([view.shape EXCEPT ![dim] = end - start],
                   [jx \in Arrays!Cells([view.shape EXCEPT ![dim] = end - start]) |->
                     Names(view)[[jx EXCEPT ![dim] = jx[dim] + start]]])
  BY ONLY <1>4, <1>12, <1>13
<1>15. Arrays!Slice
  BY ONLY <1>9, <1>14, dim \in DOMAIN view.shape, Zenon DEF Arrays!Slice, Names
<1>16. QED
  BY <1>6, <1>15

\* What a load through a view without gaps writes.
LEMMA LoadImplements ==
  ASSUME ViewInv, ops < MaxOps, NEW src \in Sources, IsContiguous(view),
         mem' = Load(mem, view, src), ops' = ops + 1, UNCHANGED view
  PROVE  ViewInv' /\ Arrays!Load
<1>1. PICK s, o, N, M : s = view.shape /\ o = view.offset /\ N = Numel(s) /\ M = Numel(Base)
  OBVIOUS
<1>2. /\ Fits(view) /\ Lies(view) /\ DOMAIN mem = 0 .. M - 1
      /\ s \in Seq(Nat) /\ o \in Nat /\ Base \in Seq(Nat)
  BY <1>1, ViewsAssumption DEF ViewInv, Fits
<1>3. N \in Nat /\ M \in Nat
  BY <1>1, <1>2, FlatIs
<1>4. \A a \in 0 .. M - 1 : mem'[a] = IF a - o \in 0 .. N - 1 THEN src[a - o] ELSE mem[a]
  BY ONLY <1>1, <1>2, mem' = Load(mem, view, src) DEF Load
<1>5. DOMAIN mem' = 0 .. M - 1
  BY ONLY <1>2, mem' = Load(mem, view, src) DEF Load
<1>6. ViewInv'
  <2>1. ops' \in 0 .. MaxOps
    BY ViewsAssumption DEF ViewInv
  <2>2. view' = view
    OBVIOUS
  <2>3. QED
    BY ONLY <1>1, <1>2, <1>5, <2>1, <2>2 DEF ViewInv, Fits, Lies
<1>7. ASSUME NEW ix \in Indices(s)
      PROVE  Address(view, ix) = o + Flat(s, ix) /\ Address(view, ix) \in 0 .. M - 1
  BY <1>1, <1>2, ContiguousIs DEF IsContiguous, Lies
\* a view names an element where it has its address
<1>8. ASSUME NEW ix \in Indices(s), NEW c \in Indices(Base)
      PROVE  Names(view)[ix] = c <=> o + Flat(s, ix) = Flat(Base, c)
  <2>1. PICK a : a = Address(view, ix)
    OBVIOUS
  <2>2. a \in 0 .. M - 1 /\ a = o + Flat(s, ix)
    BY ONLY <1>7, <2>1, ix \in Indices(s)
  <2>3. Names(view)[ix] = IndexAt(a)
    BY <1>1, <2>1 DEF Names
  <2>4. IndexAt(a) \in Indices(Base) /\ Flat(Base, IndexAt(a)) = a
    BY <1>1, <2>2, IndexAtIs
  <2>5. Flat(Base, c) = a => IndexAt(a) = c
    BY <1>2, <2>4, FlatOrders
  <2>6. QED
    BY ONLY <2>2, <2>3, <2>4, <2>5
<1>9. ASSUME NEW c \in Indices(Base)
      PROVE  mem'[Flat(Base, c)]
               = IF \E ix \in Indices(s) : Names(view)[ix] = c
                 THEN src[Flat(s, CHOOSE ix \in Indices(s) : Names(view)[ix] = c)]
                 ELSE mem[Flat(Base, c)]
  <2>1. PICK a : a = Flat(Base, c)
    OBVIOUS
  <2>2. a \in 0 .. M - 1 /\ a \in Nat
    BY <1>1, <1>2, <2>1, FlatIs
  <2>3. CASE \E ix \in Indices(s) : Names(view)[ix] = c
    <3>1. PICK kx : kx = CHOOSE ix \in Indices(s) : Names(view)[ix] = c
      OBVIOUS
    <3>2. kx \in Indices(s) /\ Names(view)[kx] = c
      BY ONLY <2>3, <3>1
    <3>3. PICK b : b = Flat(s, kx)
      OBVIOUS
    <3>4. b \in 0 .. N - 1
      BY <1>1, <1>2, <3>2, <3>3, FlatIs
    <3>5. o + b = a
      BY <1>8, <2>1, <3>2, <3>3
    <3>6. a - o = b
      BY ONLY <1>2, <1>3, <2>2, <3>4, <3>5
    <3>7. mem'[a] = src[b]
      BY ONLY <1>4, <2>2, <3>4, <3>6
    <3>8. QED
      BY ONLY <2>1, <2>3, <3>1, <3>3, <3>7
  <2>4. CASE ~ \E ix \in Indices(s) : Names(view)[ix] = c
    <3>1. a - o \notin 0 .. N - 1
      <4>1. SUFFICES ASSUME a - o \in 0 .. N - 1 PROVE FALSE
        OBVIOUS
      <4>2. PICK ix \in Indices(s) : Flat(s, ix) = a - o
        BY <1>1, <1>2, <4>1, FlatIs
      <4>3. o + Flat(s, ix) = a
        BY ONLY <1>2, <2>2, <4>2
      <4>4. QED
        BY <1>8, <2>1, <2>4, <4>3
    <3>2. mem'[a] = mem[a]
      BY ONLY <1>4, <2>2, <3>1
    <3>3. QED
      BY ONLY <2>1, <2>4, <3>2
  <2>5. QED
    BY <2>3, <2>4
<1>10. \A c \in Indices(Base) : Address(Create(Base), c) = Flat(Base, c)
  BY <1>2, CreateIs
<1>11. DOMAIN Elements = Indices(Base) /\ \A c \in Indices(Base) : Elements[c] = mem[Flat(Base, c)]
  BY <1>10 DEF Elements
<1>12. Elements' = [c \in Indices(Base) |-> mem'[Flat(Base, c)]]
  BY <1>10 DEF Elements
<1>13. Arrays!Cells(s) = Indices(s) /\ \A ix \in Indices(s) : Arrays!Rank(s, ix) = Flat(s, ix)
  BY <1>2, RankIs
<1>14. ASSUME NEW c \in Indices(Base)
       PROVE  mem'[Flat(Base, c)]
                = IF \E ix \in Arrays!Cells(s) : Names(view)[ix] = c
                  THEN src[Arrays!Rank(s, CHOOSE ix \in Arrays!Cells(s) : Names(view)[ix] = c)]
                  ELSE Elements[c]
  <2>1. CASE \E ix \in Indices(s) : Names(view)[ix] = c
    <3>1. PICK kx : kx = CHOOSE ix \in Indices(s) : Names(view)[ix] = c
      OBVIOUS
    <3>2. kx \in Indices(s)
      BY ONLY <2>1, <3>1
    <3>3. mem'[Flat(Base, c)] = src[Flat(s, kx)]
      BY ONLY <1>9, <2>1, <3>1, c \in Indices(Base)
    <3>4. Arrays!Rank(s, kx) = Flat(s, kx)
      BY ONLY <1>13, <3>2
    <3>5. QED
      BY ONLY <1>13, <2>1, <3>1, <3>3, <3>4
  <2>2. CASE ~ \E ix \in Indices(s) : Names(view)[ix] = c
    BY ONLY <1>9, <1>11, <1>13, <2>2, c \in Indices(Base)
  <2>3. QED
    BY <2>1, <2>2
<1>15. Elements' = [c \in DOMAIN Elements |->
                      IF \E ix \in Arrays!Cells(view.shape) : Names(view)[ix] = c
                      THEN src[Arrays!Rank(view.shape, CHOOSE ix \in Arrays!Cells(view.shape) : Names(view)[ix] = c)]
                      ELSE Elements[c]]
  BY ONLY <1>1, <1>11, <1>12, <1>14
<1>16. view.shape' = view.shape /\ Names(view)' = Names(view)
  <2>1. view' = view
    OBVIOUS
  <2>2. QED
    BY ONLY <2>1 DEF Names
<1>17. Arrays!Load
  BY ONLY <1>15, <1>16, src \in Sources, Zenon DEF Arrays!Load, Names, Elements
<1>18. QED
  BY <1>6, <1>17

\* A new tensor shows each of its elements at the element's own index.
LEMMA ViewsStart ==
  ASSUME ViewsInit
  PROVE  ViewInv /\ Arrays!Init
<1>1. /\ view = Create(Base) /\ ops = 0
      /\ mem = [a \in 0 .. Numel(Base) - 1 |-> a] /\ Base \in Seq(Nat) /\ MaxOps \in Nat
  BY ViewsAssumption DEF ViewsInit
<1>2. /\ Fits(view) /\ view.shape = Base
      /\ \A ix \in Indices(Base) : Address(view, ix) = Flat(Base, ix)
  BY <1>1, CreateIs
<1>3. \A ix \in Indices(Base) : Flat(Base, ix) \in 0 .. Numel(Base) - 1
  BY <1>1, FlatIs
<1>4. \A ix, jx \in Indices(Base) : Flat(Base, ix) = Flat(Base, jx) => ix = jx
  BY <1>1, FlatOrders
<1>5. Lies(view)
  BY ONLY <1>2, <1>3, <1>4 DEF Lies
<1>6. ViewInv
  <2>1. DOMAIN mem = 0 .. Numel(Base) - 1 /\ ops \in 0 .. MaxOps
    BY ONLY <1>1
  <2>2. QED
    BY ONLY <1>2, <1>5, <2>1 DEF ViewInv
<1>7. Arrays!Cells(Base) = Indices(Base)
  BY <1>1, RankIs
<1>8. ASSUME NEW ix \in Indices(Base) PROVE IndexAt(Address(view, ix)) = ix
  BY <1>2, IndexAtIs
<1>9. [ix \in Indices(view.shape) |-> IndexAt(Address(view, ix))] = [ix \in Arrays!Cells(view.shape) |-> ix]
  BY ONLY <1>2, <1>7, <1>8
<1>10. DOMAIN [ix \in Indices(Base) |-> mem[Address(Create(Base), ix)]] = Arrays!Cells(view.shape)
  BY ONLY <1>2, <1>7
<1>11. QED
  BY ONLY <1>6, <1>9, <1>10 DEF Arrays!Init

\* Every step of the views is a step of arrays, or none.
LEMMA ViewsStep ==
  ASSUME ViewInv, [ViewsNext]_viewVars
  PROVE  ViewInv' /\ [Arrays!Next]_<<Elements, view.shape, Names(view)>>
<1>1. CASE UNCHANGED viewVars
  BY <1>1 DEF viewVars, ViewInv, Fits, Lies, Elements, Names
<1>2. CASE ViewsNext
  <2>1. ops < MaxOps
    BY <1>2 DEF ViewsNext
  <2>2. ASSUME NEW order \in [DOMAIN view.shape -> DOMAIN view.shape],
               PermuteFits(view, order), Viewed(Permute(view, order))
        PROVE  ViewInv' /\ Arrays!Next
    BY <2>1, <2>2, PermuteImplements DEF Arrays!Next
  <2>3. ASSUME NEW shape \in Shapes, ViewFits(view, shape), Viewed(View(view, shape))
        PROVE  ViewInv' /\ Arrays!Next
    BY <2>1, <2>3, ViewImplements DEF Arrays!Next
  <2>4. ASSUME NEW dim \in DOMAIN view.shape,
               NEW start \in 0 .. Numel(Base), NEW end \in 0 .. Numel(Base),
               SliceFits(view, dim, start, end), Viewed(Slice(view, dim, start, end))
        PROVE  ViewInv' /\ Arrays!Next
    BY <2>1, <2>4, SliceImplements DEF Arrays!Next
  <2>5. ASSUME NEW src \in Sources, IsContiguous(view),
               mem' = Load(mem, view, src), ops' = ops + 1, UNCHANGED view
        PROVE  ViewInv' /\ Arrays!Next
    BY <2>1, <2>5, LoadImplements DEF Arrays!Next
  <2>6. QED
    BY <1>2, <2>2, <2>3, <2>4, <2>5 DEF ViewsNext
<1>3. QED
  BY <1>1, <1>2

\* An address of a view lies within the storage (tensor.cpp permute, view, slice).
LEMMA ViewsTypeCorrect == ViewsSpec => []ViewsTypeOK
<1>1. ViewsSpec => []ViewInv
  BY ViewsStart, ViewsStep, PTL DEF ViewsSpec
<1>2. ViewInv => ViewsTypeOK
  BY ViewsTypes
<1>3. QED
  BY <1>1, <1>2, PTL

\* The chain of views implements arrays without addresses (tensor.cpp permute,
\* view, slice, load).
THEOREM ViewsAreArraysAlways == ViewsSpec => ViewsAreArrays
<1>1. ViewsInit => ViewInv /\ Arrays!Init
  BY ViewsStart
<1>2. ViewInv /\ [ViewsNext]_viewVars
        => ViewInv' /\ [Arrays!Permute \/ Arrays!View \/ Arrays!Slice \/ Arrays!Load]_
                         <<Elements, view.shape, Names(view)>>
  BY ViewsStep DEF Arrays!Next
<1>3. QED
  BY <1>1, <1>2, PTL DEF ViewsSpec, ViewsAreArrays, Arrays!Spec, Arrays!Next, Elements, Names

-----------------------------------------------------------------------------
\* Attention: the kernels on flat buffers, then the gathering of pages, then the
\* places of a request's rows in the packed buffers; last the steps of a call.

\* A call that the validation lets pass, with rows.
Shaped(S) ==
  /\ S.q_len \in Nat \ {0} /\ S.kv_len \in Nat /\ S.q_len <= S.kv_len
  /\ S.nhead \in Nat \ {0} /\ S.nkvh \in Nat \ {0} /\ S.nhead % S.nkvh = 0

\* What head h of row i attends to, in flat buffers.
Cell(S, q, k, v, i, h) ==
  {[q |-> q[i * S.nhead + h], k |-> k[(h \div Group(S)) + at * S.nkvh],
    v |-> v[(h \div Group(S)) + at * S.nkvh]] : at \in 0 .. S.kv_len - S.q_len + i}

\* A head lies in one of the groups.
LEMMA GroupIs ==
  ASSUME NEW S, Shaped(S)
  PROVE  /\ Group(S) \in Nat \ {0} /\ S.nhead = S.nkvh * Group(S)
         /\ \A h \in 0 .. S.nhead - 1 :
              /\ h \div Group(S) \in 0 .. S.nkvh - 1 /\ h % Group(S) \in 0 .. Group(S) - 1
              /\ h = (h \div Group(S)) * Group(S) + (h % Group(S))
<1>1. PICK nh, nk, G : nh = S.nhead /\ nk = S.nkvh /\ G = nh \div nk
  OBVIOUS
<1>2. nh \in Nat \ {0} /\ nk \in Nat \ {0} /\ nh % nk = 0
  BY <1>1 DEF Shaped
<1>3. G \in Nat /\ nh = nk * G + (nh % nk)
  <2>1. G = nh \div nk
    BY <1>1
  <2>2. nh \div nk \in Nat /\ nh = nk * (nh \div nk) + (nh % nk)
    BY ONLY <1>2
  <2>3. QED
    BY ONLY <2>1, <2>2
<1>4. nh = nk * G
  BY ONLY <1>2, <1>3
<1>5. G # 0
  BY ONLY <1>2, <1>4
<1>6. G \in Nat \ {0} /\ nk \in Nat
  BY <1>2, <1>3, <1>5
<1>7. \A h \in 0 .. nk * G - 1 : /\ h \div G \in 0 .. nk - 1 /\ h % G \in 0 .. G - 1
                                 /\ h = (h \div G) * G + (h % G)
  BY ONLY <1>6, PlaceWithin
<1>8. Group(S) = G
  BY <1>1 DEF Group
<1>9. \A h \in 0 .. nh - 1 : /\ h \div G \in 0 .. nk - 1 /\ h % G \in 0 .. G - 1
                             /\ h = (h \div G) * G + (h % G)
  BY ONLY <1>4, <1>7
<1>10. QED
  BY ONLY <1>1, <1>4, <1>6, <1>8, <1>9

\* The CPU kernel.
LEMMA CpuCells ==
  ASSUME NEW S, Shaped(S), NEW q, NEW k, NEW v,
         NEW i \in 0 .. S.q_len - 1, NEW h \in 0 .. S.nhead - 1
  PROVE  CpuAttention(S, q, k, v)[i * S.nhead + h] = Cell(S, q, k, v, i, h)
<1> DEFINE past == S.kv_len - S.q_len
           Out(a, b) == {[q |-> q[a * S.nhead + b],
                          k |-> k[b \div (S.nhead \div S.nkvh) + at * S.nkvh],
                          v |-> v[b \div (S.nhead \div S.nkvh) + at * S.nkvh]] :
                           at \in 0 .. past + a}
           o == i * S.nhead + h
<1>1. CpuAttention(S, q, k, v)
        = [x \in 0 .. S.q_len * S.nhead - 1 |-> Out(x \div S.nhead, x % S.nhead)]
  BY Zenon DEF CpuAttention
<1>2. S.q_len \in Nat /\ S.nhead \in Nat \ {0} /\ i \in Nat
  BY DEF Shaped
<1>3. o \in 0 .. S.q_len * S.nhead - 1
  BY <1>2, WithinPlace
<1>4. o \div S.nhead = i /\ o % S.nhead = h
  BY <1>2, DivideSum
<1>5. Out(i, h) = Cell(S, q, k, v, i, h)
  BY Zenon DEF Cell, Group
<1> HIDE DEF Out, o
<1>6. CpuAttention(S, q, k, v)[o] = Out(o \div S.nhead, o % S.nhead)
  BY <1>1, <1>3
<1>7. QED
  BY <1>4, <1>5, <1>6 DEF o

-----------------------------------------------------------------------------
\* The places of a score cell, by key, row and head.
LEMMA ScoreArith ==
  ASSUME NEW G \in Nat \ {0}, NEW Q \in Nat \ {0}, NEW KV \in Nat \ {0},
         NEW g \in Nat, NEW b \in Nat, NEW i \in Nat
  PROVE  g * G * Q * KV + b * Q * KV + i * KV = ((g * G + b) * Q + i) * KV
<1>1. PICK x \in Nat, y \in Nat, z \in Nat :
        x = g * G * Q /\ y = b * Q /\ z = x + y + i
  OBVIOUS
<1>2. (g * G + b) * Q = g * G * Q + b * Q
  <2>1. PICK w \in Nat : w = g * G
    OBVIOUS
  <2>2. (w + b) * Q = w * Q + b * Q
    BY ONLY w \in Nat, b \in Nat, Q \in Nat \ {0}
  <2>3. QED
    BY ONLY <2>1, <2>2
<1>3. (x + y + i) * KV = x * KV + y * KV + i * KV
  BY ONLY x \in Nat, y \in Nat, i \in Nat, KV \in Nat \ {0}
<1>4. (g * G + b) * Q + i = x + y + i
  BY ONLY <1>1, <1>2
<1>5. QED
  BY ONLY <1>1, <1>3, <1>4

\* The cells of a score row are those of its head and row of the query.
LEMMA ScoreAtIs ==
  ASSUME NEW S, Shaped(S), NEW g \in 0 .. S.nkvh - 1, NEW b \in 0 .. Group(S) - 1,
         NEW i \in 0 .. S.q_len - 1, NEW p \in 0 .. S.kv_len - 1,
         NEW c, c = ScoreAt(S, g, b, i) + p
  PROVE  /\ c \in 0 .. ScoreCells(S) - 1
         /\ c - ScoreAt(S, g, b, i) = p
         /\ c % S.kv_len = p
         /\ (c \div S.kv_len) % S.q_len = i
         /\ (c \div S.kv_len) \div S.q_len = g * Group(S) + b
         /\ g * Group(S) + b \in 0 .. S.nhead - 1
         /\ (g * Group(S) + b) \div Group(S) = g /\ (g * Group(S) + b) % Group(S) = b
         /\ c \div S.kv_len < S.nhead * S.q_len
<1>1. PICK Q, KV, NH, NK, G : /\ Q = S.q_len /\ KV = S.kv_len /\ NH = S.nhead
                              /\ NK = S.nkvh /\ G = Group(S)
  OBVIOUS
<1>2. /\ Q \in Nat \ {0} /\ KV \in Nat \ {0} /\ NH \in Nat \ {0} /\ NK \in Nat \ {0}
      /\ G \in Nat \ {0} /\ NH = NK * G
      /\ g \in 0 .. NK - 1 /\ b \in 0 .. G - 1 /\ i \in 0 .. Q - 1 /\ p \in 0 .. KV - 1
  <2>1. KV \in Nat \ {0}
    <3>1. KV \in Nat /\ p \in 0 .. KV - 1
      BY <1>1 DEF Shaped
    <3>2. QED
      BY ONLY <3>1
  <2>2. G \in Nat \ {0} /\ NH = NK * G
    BY <1>1, GroupIs
  <2>3. QED
    BY <1>1, <2>1, <2>2 DEF Shaped
<1>3. PICK h : h = g * G + b
  OBVIOUS
<1>4. h \in 0 .. NK * G - 1 /\ h \div G = g /\ h % G = b
  <2>1. NK \in Nat /\ G \in Nat \ {0} /\ g \in 0 .. NK - 1 /\ b \in 0 .. G - 1 /\ g \in Nat
    BY ONLY <1>2
  <2>2. g * G + b \in 0 .. NK * G - 1
    BY ONLY <2>1, WithinPlace
  <2>3. (g * G + b) \div G = g /\ (g * G + b) % G = b
    BY ONLY <2>1, DivideSum
  <2>4. QED
    BY ONLY <1>3, <2>2, <2>3
<1>5. h \in 0 .. NH - 1 /\ h \in Nat
  BY ONLY <1>2, <1>4
<1>6. PICK line : line = h * Q + i
  OBVIOUS
<1>7. line \in 0 .. NH * Q - 1 /\ line \div Q = h /\ line % Q = i
  <2>1. NH \in Nat /\ Q \in Nat \ {0} /\ h \in 0 .. NH - 1 /\ i \in 0 .. Q - 1 /\ h \in Nat
    BY ONLY <1>2, <1>5
  <2>2. h * Q + i \in 0 .. NH * Q - 1
    BY ONLY <2>1, WithinPlace
  <2>3. (h * Q + i) \div Q = h /\ (h * Q + i) % Q = i
    BY ONLY <2>1, DivideSum
  <2>4. QED
    BY ONLY <1>6, <2>2, <2>3
<1>8. PICK lines \in Nat : lines = NH * Q
  BY ONLY <1>2
<1>9. line \in 0 .. lines - 1 /\ line \in Nat
  BY ONLY <1>7, <1>8
<1>10. PICK at : at = line * KV
  OBVIOUS
<1>11. /\ at + p \in 0 .. lines * KV - 1 /\ at \in Nat
       /\ (at + p) \div KV = line /\ (at + p) % KV = p
  <2>1. lines \in Nat /\ KV \in Nat \ {0} /\ line \in 0 .. lines - 1 /\ p \in 0 .. KV - 1 /\ line \in Nat
    BY ONLY <1>2, <1>8, <1>9
  <2>2. line * KV + p \in 0 .. lines * KV - 1
    BY ONLY <2>1, WithinPlace
  <2>3. (line * KV + p) \div KV = line /\ (line * KV + p) % KV = p
    BY ONLY <2>1, DivideSum
  <2>4. line * KV \in Nat
    BY ONLY <2>1
  <2>5. QED
    BY ONLY <1>10, <2>2, <2>3, <2>4
<1>12. ScoreAt(S, g, b, i) = at
  <2>1. ScoreAt(S, g, b, i) = g * G * Q * KV + b * Q * KV + i * KV
    BY <1>1 DEF ScoreAt
  <2>2. /\ G \in Nat \ {0} /\ Q \in Nat \ {0} /\ KV \in Nat \ {0}
        /\ g \in Nat /\ b \in Nat /\ i \in Nat
    BY ONLY <1>2
  <2>3. g * G * Q * KV + b * Q * KV + i * KV = ((g * G + b) * Q + i) * KV
    BY ONLY <2>2, ScoreArith
  <2>4. QED
    BY ONLY <1>3, <1>6, <1>10, <2>1, <2>3
<1>13. ScoreCells(S) = lines * KV
  BY <1>1, <1>8 DEF ScoreCells
<1>14. c = at + p /\ c - at = p
  BY <1>2, <1>11, <1>12
<1>15. line < lines
  BY ONLY <1>8, <1>9
<1>16. /\ c \in 0 .. ScoreCells(S) - 1 /\ c - ScoreAt(S, g, b, i) = p /\ c % KV = p
       /\ (c \div KV) % Q = i /\ (c \div KV) \div Q = h
  BY ONLY <1>7, <1>11, <1>12, <1>13, <1>14
<1>17. h \in 0 .. NH - 1 /\ h \div G = g /\ h % G = b /\ c \div KV < NH * Q
  BY ONLY <1>4, <1>5, <1>8, <1>11, <1>14, <1>15
<1>18. QED
  BY ONLY <1>1, <1>3, <1>16, <1>17

\* A score cell is of one key of one lane.
LEMMA LaneIs ==
  ASSUME NEW S, Shaped(S), NEW x \in Lanes(S), NEW c,
         c \in Nat, c - ScoreAt(S, x[1], x[2], x[3]) \in 0 .. S.kv_len - 1
  PROVE  x = <<((c \div S.kv_len) \div S.q_len) \div Group(S),
               ((c \div S.kv_len) \div S.q_len) % Group(S), (c \div S.kv_len) % S.q_len>>
<1>1. PICK g \in 0 .. S.nkvh - 1, b \in 0 .. Group(S) - 1, i \in 0 .. S.q_len - 1 :
        x = <<g, b, i>>
  BY DEF Lanes
<1>2. x[1] = g /\ x[2] = b /\ x[3] = i
  BY <1>1
<1>3. PICK p : p = c - ScoreAt(S, g, b, i)
  OBVIOUS
<1>4. p \in 0 .. S.kv_len - 1
  BY <1>2, <1>3
<1>5. ScoreAt(S, g, b, i) \in Int
  <2>1. Group(S) \in Nat /\ S.q_len \in Nat /\ S.kv_len \in Nat /\ S.nkvh \in Nat
    BY GroupIs DEF Shaped
  <2>2. PICK G \in Nat, Q \in Nat, KV \in Nat : G = Group(S) /\ Q = S.q_len /\ KV = S.kv_len
    BY <2>1
  <2>3. g \in Nat /\ b \in Nat /\ i \in Nat
    BY <2>1, <2>2
  <2>4. g * G * Q * KV + b * Q * KV + i * KV \in Int
    BY ONLY <2>3, G \in Nat, Q \in Nat, KV \in Nat
  <2>5. QED
    BY <2>2, <2>4 DEF ScoreAt
<1>6. c = ScoreAt(S, g, b, i) + p
  BY <1>3, <1>5
<1>7. /\ (c \div S.kv_len) % S.q_len = i
      /\ ((c \div S.kv_len) \div S.q_len) \div Group(S) = g
      /\ ((c \div S.kv_len) \div S.q_len) % Group(S) = b
  <2>1. /\ Shaped(S) /\ g \in 0 .. S.nkvh - 1 /\ b \in 0 .. Group(S) - 1
        /\ i \in 0 .. S.q_len - 1 /\ p \in 0 .. S.kv_len - 1 /\ c = ScoreAt(S, g, b, i) + p
    BY <1>4, <1>6
  <2>2. /\ (c \div S.kv_len) % S.q_len = i
        /\ (c \div S.kv_len) \div S.q_len = g * Group(S) + b
        /\ (g * Group(S) + b) \div Group(S) = g /\ (g * Group(S) + b) % Group(S) = b
    BY ONLY <2>1, ScoreAtIs
  <2>3. QED
    BY ONLY <2>2
<1>8. QED
  BY ONLY <1>1, <1>7

\* The lane of an output cell.
LEMMA LaneOfCell ==
  ASSUME NEW S, Shaped(S), NEW i \in 0 .. S.q_len - 1, NEW h \in 0 .. S.nhead - 1,
         NEW o, o = i * S.nhead + h
  PROVE  (CHOOSE x \in Lanes(S) : x[1] * Group(S) + x[2] + x[3] * S.nhead = o)
           = <<h \div Group(S), h % Group(S), i>>
<1> DEFINE lane == <<h \div Group(S), h % Group(S), i>>
<1>1. PICK NH, NK, G : NH = S.nhead /\ NK = S.nkvh /\ G = Group(S)
  OBVIOUS
<1>2. /\ NH \in Nat \ {0} /\ NK \in Nat \ {0} /\ G \in Nat \ {0} /\ NH = NK * G
      /\ i \in Nat /\ h \in 0 .. NH - 1
      /\ h \div G \in 0 .. NK - 1 /\ h % G \in 0 .. G - 1
      /\ h = (h \div G) * G + (h % G)
  <2>1. G \in Nat \ {0} /\ NH = NK * G
        /\ h \div G \in 0 .. NK - 1 /\ h % G \in 0 .. G - 1
        /\ h = (h \div G) * G + (h % G)
    BY <1>1, GroupIs
  <2>2. QED
    BY <1>1, <2>1 DEF Shaped
<1>3. lane \in Lanes(S)
  BY <1>1, <1>2 DEF Lanes
<1>4. (h \div G) * G + (h % G) + i * NH = o
  <2>1. PICK y \in Nat : y = i * NH
    BY ONLY <1>2
  <2>2. o = y + h
    BY <1>1, <2>1
  <2>3. QED
    BY ONLY <1>2, <2>1, <2>2
<1>5. ASSUME NEW x \in Lanes(S), x[1] * Group(S) + x[2] + x[3] * S.nhead = o
      PROVE  x = lane
  <2>1. PICK g \in 0 .. NK - 1, b \in 0 .. G - 1, j \in 0 .. S.q_len - 1 : x = <<g, b, j>>
    BY <1>1 DEF Lanes
  <2>2. g * G + b + j * NH = o /\ g \in Nat /\ b \in Nat /\ j \in Nat
    <3>1. x[1] = g /\ x[2] = b /\ x[3] = j
      BY <2>1
    <3>2. NK \in Nat /\ G \in Nat /\ S.q_len \in Nat
      BY <1>2 DEF Shaped
    <3>3. QED
      BY <1>1, <1>5, <3>1, <3>2
  <2>3. PICK hh : hh = g * G + b
    OBVIOUS
  <2>4. hh \in 0 .. NH - 1 /\ hh \div G = g /\ hh % G = b
    <3>1. NK \in Nat /\ G \in Nat \ {0} /\ g \in 0 .. NK - 1 /\ b \in 0 .. G - 1 /\ g \in Nat
      BY <1>2, <2>2
    <3>2. g * G + b \in 0 .. NK * G - 1
      BY ONLY <3>1, WithinPlace
    <3>3. (g * G + b) \div G = g /\ (g * G + b) % G = b
      BY ONLY <3>1, DivideSum
    <3>4. QED
      BY ONLY <1>2, <2>3, <3>2, <3>3
  <2>5. (j * NH + hh) \div NH = j /\ (j * NH + hh) % NH = hh
    <3>1. NH \in Nat \ {0} /\ j \in Nat /\ hh \in 0 .. NH - 1
      BY ONLY <1>2, <2>2, <2>4
    <3>2. QED
      BY ONLY <3>1, DivideSum
  <2>6. (i * NH + h) \div NH = i /\ (i * NH + h) % NH = h
    <3>1. NH \in Nat \ {0} /\ i \in Nat /\ h \in 0 .. NH - 1
      BY ONLY <1>2
    <3>2. QED
      BY ONLY <3>1, DivideSum
  <2>7. j * NH + hh = i * NH + h
    <3>1. PICK y \in Nat, z \in Nat : y = j * NH /\ z = i * NH
      BY ONLY <1>2, <2>2
    <3>2. hh + y = o /\ o = z + h
      BY <1>1, <2>2, <2>3, <3>1
    <3>3. QED
      BY ONLY <1>2, <2>4, <3>1, <3>2
  <2>8. j = i /\ hh = h
    BY ONLY <2>5, <2>6, <2>7
  <2>9. x = <<h \div G, h % G, i>>
    BY ONLY <2>1, <2>4, <2>8
  <2>10. QED
    BY <1>1, <2>9
<1>6. lane[1] * Group(S) + lane[2] + lane[3] * S.nhead = o
  BY <1>1, <1>4
<1> HIDE DEF lane
<1>7. (CHOOSE x \in Lanes(S) : x[1] * Group(S) + x[2] + x[3] * S.nhead = o) = lane
  BY <1>3, <1>5, <1>6
<1>8. QED
  BY <1>7 DEF lane

\* The score of head g * Group + b, row i and key p, before the mask.
Product(S, q, k, g, b, i, p) ==
  [q |-> q[g * Group(S) + b + i * S.nhead], k |-> k[g + p * S.nkvh]]

\* What the product puts at the place of a score.
LEMMA ScoresAt ==
  ASSUME NEW S, Shaped(S), NEW q, NEW k, NEW room,
         \A c \in 0 .. ScoreCells(S) - 1 : c \in DOMAIN room,
         NEW g \in 0 .. S.nkvh - 1, NEW b \in 0 .. Group(S) - 1,
         NEW i \in 0 .. S.q_len - 1, NEW p \in 0 .. S.kv_len - 1,
         NEW c, c = ScoreAt(S, g, b, i) + p
  PROVE  /\ c \in DOMAIN Scores(S, q, k, room)
         /\ Scores(S, q, k, room)[c] = Product(S, q, k, g, b, i, p)
<1> DEFINE Holds(d, x) == d - ScoreAt(S, x[1], x[2], x[3]) \in 0 .. S.kv_len - 1
           Of(d, x) == [q |-> q[x[1] * Group(S) + x[2] + x[3] * S.nhead],
                        k |-> k[x[1] + (d - ScoreAt(S, x[1], x[2], x[3])) * S.nkvh]]
           lane == <<g, b, i>>
<1>1. Scores(S, q, k, room)
        = [d \in DOMAIN room |->
            IF \E x \in Lanes(S) : Holds(d, x)
            THEN Of(d, CHOOSE x \in Lanes(S) : Holds(d, x)) ELSE room[d]]
  BY Zenon DEF Scores
<1>2. /\ c \in 0 .. ScoreCells(S) - 1 /\ c - ScoreAt(S, g, b, i) = p
  BY ScoreAtIs
<1>3. c \in DOMAIN room /\ c \in Nat
  BY <1>2
<1>4. lane \in Lanes(S) /\ lane[1] = g /\ lane[2] = b /\ lane[3] = i
  BY DEF Lanes
<1>5. Holds(c, lane)
  BY <1>2, <1>4
<1>6. ASSUME NEW x \in Lanes(S), Holds(c, x) PROVE x = lane
  <2>1. \A y \in Lanes(S) : Holds(c, y) =>
          y = <<((c \div S.kv_len) \div S.q_len) \div Group(S),
                ((c \div S.kv_len) \div S.q_len) % Group(S), (c \div S.kv_len) % S.q_len>>
    BY <1>3, LaneIs
  <2> HIDE DEF lane, Holds
  <2>2. QED
    BY ONLY <1>4, <1>5, <1>6, <2>1
<1>7. (CHOOSE x \in Lanes(S) : Holds(c, x)) = lane
  <2> HIDE DEF lane, Holds
  <2>1. QED
    BY <1>4, <1>5, <1>6
<1>8. Of(c, lane) = Product(S, q, k, g, b, i, p)
  BY <1>2, <1>4 DEF Product
<1> HIDE DEF Holds, Of, lane
<1>9. Scores(S, q, k, room)[c] = Of(c, lane) /\ DOMAIN Scores(S, q, k, room) = DOMAIN room
  BY <1>1, <1>3, <1>4, <1>5, <1>7
<1>10. QED
  BY <1>3, <1>8, <1>9

\* The mask leaves of them what lies up to the row's own position.
LEMMA MaskedAt ==
  ASSUME NEW S, Shaped(S), NEW q, NEW k, NEW room,
         \A c \in 0 .. ScoreCells(S) - 1 : c \in DOMAIN room,
         NEW g \in 0 .. S.nkvh - 1, NEW b \in 0 .. Group(S) - 1,
         NEW i \in 0 .. S.q_len - 1, NEW p \in 0 .. S.kv_len - 1
  PROVE  GpuScores(S, q, k, room)[ScoreAt(S, g, b, i) + p]
           = IF p > i + (S.kv_len - S.q_len) THEN Zero ELSE Product(S, q, k, g, b, i, p)
<1>1. PICK c : c = ScoreAt(S, g, b, i) + p
  OBVIOUS
<1>2. PICK f : f = Scores(S, q, k, room)
  OBVIOUS
<1>3. c \in DOMAIN f /\ f[c] = Product(S, q, k, g, b, i, p)
  BY <1>1, <1>2, ScoresAt
<1>4. /\ c % S.kv_len = p /\ (c \div S.kv_len) % S.q_len = i
      /\ c \div S.kv_len < S.nhead * S.q_len
  BY <1>1, ScoreAtIs
<1> DEFINE Off(d) == /\ d \div S.kv_len < S.nhead * S.q_len
                     /\ d % S.kv_len > ((d \div S.kv_len) % S.q_len) + (S.kv_len - S.q_len)
<1>5. GpuScores(S, q, k, room) = [d \in DOMAIN f |-> IF Off(d) THEN Zero ELSE f[d]]
  BY <1>2, Zenon DEF GpuScores, Softmax
<1>6. Off(c) <=> p > i + (S.kv_len - S.q_len)
  BY <1>4
<1> HIDE DEF Off
<1>7. GpuScores(S, q, k, room)[c] = IF Off(c) THEN Zero ELSE f[c]
  BY <1>3, <1>5
<1>8. QED
  BY <1>1, <1>3, <1>6, <1>7

\* The GPU kernels, whatever was in the scratch buffer.
LEMMA GpuCells ==
  ASSUME NEW S, Shaped(S), NEW q, NEW k, NEW v, NEW room,
         \A c \in 0 .. ScoreCells(S) - 1 : c \in DOMAIN room,
         \A a \in 0 .. S.q_len * S.nhead - 1, d \in 0 .. S.kv_len * S.nkvh - 1 :
           [q |-> q[a], k |-> k[d]] # Zero,
         NEW i \in 0 .. S.q_len - 1, NEW h \in 0 .. S.nhead - 1
  PROVE  Weighted(S, GpuScores(S, q, k, room), v)[i * S.nhead + h] = Cell(S, q, k, v, i, h)
<1>1. PICK G, o, g, b, scores : /\ G = Group(S) /\ o = i * S.nhead + h
                                /\ g = h \div G /\ b = h % G
                                /\ scores = GpuScores(S, q, k, room)
  OBVIOUS
<1>2. PICK Q, KV, NH, NK : Q = S.q_len /\ KV = S.kv_len /\ NH = S.nhead /\ NK = S.nkvh
  OBVIOUS
<1>3. /\ Q \in Nat \ {0} /\ KV \in Nat /\ Q <= KV /\ NH \in Nat \ {0} /\ NK \in Nat \ {0}
      /\ i \in 0 .. Q - 1 /\ h \in 0 .. NH - 1 /\ i \in Nat
  BY <1>2 DEF Shaped
<1>4. g \in 0 .. NK - 1 /\ b \in 0 .. G - 1 /\ h = g * G + b /\ G \in Nat \ {0}
  BY <1>1, <1>2, GroupIs
<1> DEFINE last == i + (KV - Q)
           Seen(gg, bb, ii) == {m \in 0 .. S.kv_len - 1 : scores[ScoreAt(S, gg, bb, ii) + m] # Zero}
           Term(gg, bb, ii, n) == [q |-> scores[ScoreAt(S, gg, bb, ii) + n].q,
                                   k |-> scores[ScoreAt(S, gg, bb, ii) + n].k,
                                   v |-> v[gg + n * S.nkvh]]
           Out(gg, bb, ii) == {Term(gg, bb, ii, n) : n \in Seen(gg, bb, ii)}
           From(x) == CHOOSE y \in Lanes(S) : y[1] * Group(S) + y[2] + y[3] * S.nhead = x
<1>5. Weighted(S, scores, v) = [x \in 0 .. S.q_len * S.nhead - 1 |->
                                  Out(From(x)[1], From(x)[2], From(x)[3])]
  BY Zenon DEF Weighted
<1>6. From(o) = <<g, b, i>>
  BY <1>1, LaneOfCell
<1>7. o \in 0 .. S.q_len * S.nhead - 1
  BY <1>1, <1>2, <1>3, WithinPlace
<1>8. Weighted(S, scores, v)[o] = Out(g, b, i)
  <2> HIDE DEF Out, From
  <2>1. QED
    BY <1>5, <1>6, <1>7
<1>9. PICK at : at = g * G + b + i * NH
  OBVIOUS
<1>10. at = o /\ o \in 0 .. Q * NH - 1
  <2>1. PICK y \in Nat : y = i * NH
    BY ONLY <1>3
  <2>2. o = y + h /\ at = g * G + b + y
    BY <1>1, <1>2, <1>9, <2>1
  <2>3. PICK z : z = g * G
    OBVIOUS
  <2>4. z \in Nat
    BY ONLY <1>3, <1>4, <2>3
  <2>5. at = o
    BY ONLY <1>3, <1>4, <2>1, <2>2, <2>3, <2>4
  <2>6. QED
    BY <1>2, <1>7, <2>5
<1>11. ASSUME NEW p \in 0 .. KV - 1
       PROVE  /\ g + p * NK \in 0 .. KV * NK - 1
              /\ Product(S, q, k, g, b, i, p) = [q |-> q[o], k |-> k[g + p * NK]]
              /\ [q |-> q[o], k |-> k[g + p * NK]] # Zero
  <2>1. KV \in Nat /\ NK \in Nat \ {0} /\ p \in 0 .. KV - 1 /\ g \in 0 .. NK - 1
    BY ONLY <1>3, <1>4, p \in 0 .. KV - 1
  <2>2. p * NK + g \in 0 .. KV * NK - 1
    BY ONLY <2>1, WithinPlace
  <2>3. PICK y : y = p * NK
    OBVIOUS
  <2>4. y \in Nat /\ g \in Nat
    BY ONLY <2>1, <2>3
  <2>5. p * NK + g = g + p * NK
    BY ONLY <2>3, <2>4
  <2>6. g + p * NK \in 0 .. KV * NK - 1
    BY ONLY <2>2, <2>5
  <2>7. Product(S, q, k, g, b, i, p) = [q |-> q[o], k |-> k[g + p * NK]]
    BY <1>1, <1>2, <1>9, <1>10 DEF Product
  <2>8. [q |-> q[o], k |-> k[g + p * NK]] # Zero
    BY <1>2, <1>10, <2>6
  <2>9. QED
    BY <2>6, <2>7, <2>8
<1>12. ASSUME NEW p \in 0 .. KV - 1
       PROVE  scores[ScoreAt(S, g, b, i) + p]
                = IF p > last THEN Zero ELSE [q |-> q[o], k |-> k[g + p * NK]]
  <2>1. /\ Shaped(S) /\ (\A c \in 0 .. ScoreCells(S) - 1 : c \in DOMAIN room)
        /\ g \in 0 .. S.nkvh - 1 /\ b \in 0 .. Group(S) - 1
        /\ i \in 0 .. S.q_len - 1 /\ p \in 0 .. S.kv_len - 1
    BY <1>1, <1>2, <1>4
  <2>2. GpuScores(S, q, k, room)[ScoreAt(S, g, b, i) + p]
          = IF p > i + (S.kv_len - S.q_len) THEN Zero ELSE Product(S, q, k, g, b, i, p)
    BY ONLY <2>1, MaskedAt
  <2>3. QED
    BY <1>1, <1>2, <1>11, <2>2
<1>13. last \in Nat /\ last <= KV - 1 /\ S.kv_len - S.q_len + i = last
  BY <1>2, <1>3
<1>14. Seen(g, b, i) = 0 .. last
  <2> HIDE DEF last
  <2>1. \A m : m \in 0 .. last <=> m \in 0 .. KV - 1 /\ ~ (m > last)
    BY <1>3, <1>13
  <2>2. \A m \in 0 .. KV - 1 : scores[ScoreAt(S, g, b, i) + m] # Zero <=> ~ (m > last)
    BY <1>11, <1>12
  <2>3. QED
    BY <1>2, <2>1, <2>2
<1>15. \A n \in 0 .. last : Term(g, b, i, n) = [q |-> q[o], k |-> k[g + n * NK], v |-> v[g + n * NK]]
  <2>1. ASSUME NEW n \in 0 .. last
        PROVE  Term(g, b, i, n) = [q |-> q[o], k |-> k[g + n * NK], v |-> v[g + n * NK]]
    <3>1. n \in 0 .. KV - 1 /\ ~ (n > last)
      <4> HIDE DEF last
      <4>1. QED
        BY <1>3, <1>13
    <3>2. scores[ScoreAt(S, g, b, i) + n] = [q |-> q[o], k |-> k[g + n * NK]]
      BY <1>12, <3>1
    <3> HIDE DEF last
    <3>3. QED
      BY <1>2, <3>2
  <2>2. QED
    BY <2>1
<1>16. Out(g, b, i) = {[q |-> q[o], k |-> k[g + n * NK], v |-> v[g + n * NK]] : n \in 0 .. last}
  <2> HIDE DEF last, Term, Seen
  <2>1. QED
    BY <1>14, <1>15
<1>17. Cell(S, q, k, v, i, h)
         = {[q |-> q[o], k |-> k[g + n * NK], v |-> v[g + n * NK]] : n \in 0 .. last}
  <2> HIDE DEF last
  <2>1. QED
    BY <1>1, <1>2, <1>13 DEF Cell
<1>18. QED
  BY <1>1, <1>8, <1>16, <1>17

-----------------------------------------------------------------------------
\* A sum that is folded up from the left.
AddStep(f, s, T) == IF T = {} THEN 0 ELSE f[T \ {Max(T)}] + s[Max(T)]
Adding(f, s)     == f = [T \in SUBSET (DOMAIN s) |-> AddStep(f, s, T)]

\* The sum of a sequence is what adding up finds, and adding up works.
LEMMA SumByFold ==
  ASSUME NEW s
  PROVE  Sum(s) = (CHOOSE f : Adding(f, s))[DOMAIN s]
  BY Zenon DEF Sum, FoldLeft, MapThenFoldSet, AddStep, Adding

\* There is such a function for every sequence.
LEMMA AddingExists ==
  ASSUME NEW n \in Nat, NEW w, \A i \in 1 .. n : w[i] \in Nat,
         NEW s, s = [i \in 1 .. n |-> w[i]]
  PROVE  \E f : Adding(f, s)
<1> DEFINE g == [T \in SUBSET (1 .. n) |-> SumFunctionOnSet(w, T)]
<1>1. DOMAIN s = 1 .. n
  OBVIOUS
<1>2. ASSUME NEW T \in SUBSET (1 .. n) PROVE g[T] = AddStep(g, s, T)
  <2>1. CASE T = {}
    BY <2>1, SumOfNone DEF AddStep
  <2>2. CASE T # {}
    <3>1. T \in SUBSET Nat /\ n \in Nat /\ \A i \in T : i <= n
      OBVIOUS
    <3>2. PICK m : m = Max(T)
      OBVIOUS
    <3>3. m \in T
      BY <2>2, <3>1, <3>2, MaxOfNats
    <3>4. IsFiniteSet(T)
      <4>1. 1 \in Int /\ n \in Int
        OBVIOUS
      <4>2. IsFiniteSet(1 .. n)
        BY <4>1, FS_Interval
      <4>3. QED
        BY <4>2, FS_Subset
    <3>5. \A x \in T : w[x] \in Nat
      OBVIOUS
    <3>6. SumFunctionOnSet(w, T) = w[m] + SumFunctionOnSet(w, T \ {m})
      BY ONLY <3>3, <3>4, <3>5, SumSplits
    <3>7. SumFunctionOnSet(w, T \ {m}) \in Nat /\ w[m] \in Nat
      <4>1. IsFiniteSet(T \ {m}) /\ \A x \in T \ {m} : w[x] \in Nat
        BY <3>4, <3>5, FS_Subset
      <4>2. QED
        BY <3>3, <3>5, <4>1, SumOfNats
    <3>8. s[m] = w[m] /\ T \ {m} \in SUBSET (1 .. n)
      BY <3>3
    <3>9. AddStep(g, s, T) = g[T \ {m}] + s[m]
      BY <2>2, <3>2 DEF AddStep
    <3>10. g[T \ {m}] = SumFunctionOnSet(w, T \ {m}) /\ g[T] = SumFunctionOnSet(w, T)
      BY <3>8
    <3> HIDE DEF g
    <3>11. QED
      BY ONLY <3>6, <3>7, <3>8, <3>9, <3>10
  <2>3. QED
    BY <2>1, <2>2
<1>3. g = [T \in SUBSET (1 .. n) |-> g[T]]
  OBVIOUS
<1> HIDE DEF g
<1>4. Adding(g, s)
  BY <1>1, <1>2, <1>3 DEF Adding
<1>5. QED
  BY <1>4

\* The sum of the first r numbers of a sequence is their total.
LEMMA SumIsTotal ==
  ASSUME NEW n \in Nat, NEW w, \A i \in 1 .. n : w[i] \in Nat,
         NEW s, s = [i \in 1 .. n |-> w[i]]
  PROVE  Sum(s) = Total(w, n)
<1>1. PICK f : f = CHOOSE h : Adding(h, s)
  OBVIOUS
<1>2. Adding(f, s)
  <2>1. \E h : Adding(h, s)
    BY AddingExists
  <2>2. QED
    BY ONLY <1>1, <2>1
<1>3. DOMAIN s = 1 .. n /\ \A i \in 1 .. n : s[i] = w[i]
  OBVIOUS
<1>4. f[{}] = 0
  BY <1>2, <1>3 DEF Adding, AddStep
<1>5. ASSUME NEW k \in 1 .. n PROVE f[1 .. k] = f[1 .. k - 1] + w[k]
  <2>1. 1 .. k \in SUBSET (1 .. n) /\ 1 .. k # {} /\ (1 .. k) \ {k} = 1 .. k - 1
    <3>1. k \in 1 .. n /\ n \in Nat /\ k \in Nat
      OBVIOUS
    <3>2. 1 .. k \in SUBSET (1 .. n) /\ 1 .. k # {}
      BY ONLY <3>1
    <3>3. (1 .. k) \ {k} = 1 .. k - 1
      BY ONLY <3>1
    <3>4. QED
      BY <3>2, <3>3
  <2>2. Max(1 .. k) = k
    <3>1. /\ 1 .. k \in SUBSET Nat /\ 1 .. k # {} /\ k \in Nat
          /\ \A i \in 1 .. k : i <= k
      OBVIOUS
    <3>2. /\ Max(1 .. k) \in 1 .. k /\ \A i \in 1 .. k : i <= Max(1 .. k)
      BY ONLY <3>1, MaxOfNats
    <3>3. k \in 1 .. k
      OBVIOUS
    <3>4. PICK m : m = Max(1 .. k)
      OBVIOUS
    <3>5. m \in 1 .. k /\ k <= m
      BY ONLY <3>2, <3>3, <3>4
    <3>6. QED
      BY ONLY <3>1, <3>4, <3>5
  <2>3. f[1 .. k] = AddStep(f, s, 1 .. k)
    BY <1>2, <1>3, <2>1 DEF Adding
  <2>4. QED
    BY <1>3, <2>1, <2>2, <2>3 DEF AddStep
<1>6. /\ Total(w, 0) = 0 /\ \A r \in 1 .. n : Total(w, r) = Total(w, r - 1) + w[r]
  BY TotalIs
<1> DEFINE Bad == {k \in 0 .. n : f[1 .. k] # Total(w, k)}
<1>7. ASSUME Bad # {} PROVE FALSE
  <2>1. PICK k \in Bad : \A m \in Bad : k <= m
    <3>1. Bad \in SUBSET Nat
      OBVIOUS
    <3> HIDE DEF Bad
    <3>2. Min(Bad) \in Bad /\ \A m \in Bad : Min(Bad) <= m
      BY <1>7, <3>1, MinOfNats
    <3>3. QED
      BY <3>2
  <2>2. k \in 0 .. n /\ f[1 .. k] # Total(w, k)
    OBVIOUS
  <2>3. k # 0
    <3>1. 1 .. 0 = {}
      OBVIOUS
    <3>2. QED
      BY <1>4, <1>6, <2>2, <3>1
  <2>4. k \in 1 .. n /\ k - 1 \in 0 .. n /\ ~ (k <= k - 1)
    BY <2>2, <2>3
  <2>5. f[1 .. k - 1] = Total(w, k - 1)
    BY <2>1, <2>4
  <2>6. QED
    BY ONLY <1>5, <1>6, <2>2, <2>4, <2>5
<1>8. f[1 .. n] = Total(w, n)
  <2>1. n \in 0 .. n
    OBVIOUS
  <2>2. QED
    BY <1>7, <2>1
<1>9. Sum(s) = f[DOMAIN s]
  BY ONLY <1>1, SumByFold
<1>10. QED
  BY ONLY <1>3, <1>8, <1>9

-----------------------------------------------------------------------------
\* w are the lengths of the sequences.
Measured(S, seqs, w) ==
  seqs \in Seq(Seq(S)) /\ \A i \in 1 .. Len(seqs) : w[i] = Len(seqs[i])

\* The place of a sequence within the sequences it is flattened with.
LEMMA FlattenPlace ==
  ASSUME NEW S, NEW seqs, NEW w, Measured(S, seqs, w),
         NEW r \in 1 .. Len(seqs), NEW p \in 1 .. Len(seqs[r])
  PROVE  FlattenSeq(seqs)[Total(w, r - 1) + p] = seqs[r][p]
<1> USE DEF Measured
<1>1. PICK n \in Nat : n = Len(seqs) /\ n > 0
  OBVIOUS
<1>2. \A i \in 1 .. n : seqs[i] \in Seq(S) /\ w[i] \in Nat /\ w[i] = Len(seqs[i])
  BY <1>1
<1>3. PICK f : f = CHOOSE h : Flattening(h, seqs, n)
  OBVIOUS
<1>4. Flattening(f, seqs, n)
  <2>1. \E h : Flattening(h, seqs, n)
    BY FlatteningExists
  <2>2. QED
    BY ONLY <1>3, <2>1
<1>5. FlattenSeq(seqs) = f[n]
  BY <1>1, <1>3 DEF FlattenSeq, Flattening
<1>6. /\ Total(w, 0) = 0 /\ (\A k \in 0 .. n : Total(w, k) \in Nat)
      /\ \A k \in 1 .. n : Total(w, k) = Total(w, k - 1) + w[k]
  <2>1. \A i \in 1 .. n : w[i] \in Nat
    BY <1>2
  <2>2. QED
    BY ONLY n \in Nat, <2>1, TotalIs
<1> DEFINE Placed(k) ==
             /\ f[k] \in Seq(S) /\ Len(f[k]) = Total(w, k)
             /\ r <= k => Total(w, r - 1) + p \in 1 .. Len(f[k])
                          /\ f[k][Total(w, r - 1) + p] = seqs[r][p]
           Bad == {k \in 1 .. n : ~ Placed(k)}
<1>7. ASSUME Bad # {} PROVE FALSE
  <2>1. PICK k \in Bad : \A m \in Bad : k <= m
    <3>1. Bad \in SUBSET Nat
      OBVIOUS
    <3> HIDE DEF Bad
    <3>2. Min(Bad) \in Bad /\ \A m \in Bad : Min(Bad) <= m
      BY <1>7, <3>1, MinOfNats
    <3>3. QED
      BY <3>2
  <2>2. k \in 1 .. n /\ ~ Placed(k)
    OBVIOUS
  <2> HIDE DEF Placed
  <2>3. f[k] = IF k = 1 THEN seqs[k] ELSE f[k - 1] \o seqs[k]
    BY <1>4, <2>2 DEF Flattening
  <2>4. PICK x : x = Total(w, r - 1) + p
    OBVIOUS
  <2>5. r - 1 \in 0 .. n /\ Total(w, r - 1) \in Nat /\ x \in Nat /\ p \in 1 .. w[r] /\ r \in 1 .. n
    <3>1. r \in 1 .. n /\ p \in 1 .. w[r]
      BY <1>1, <1>2
    <3>2. r - 1 \in 0 .. n
      BY <3>1
    <3>3. Total(w, r - 1) \in Nat /\ w[r] \in Nat
      BY <1>2, <1>6, <3>1, <3>2
    <3>4. QED
      BY ONLY <2>4, <3>1, <3>2, <3>3
  <2>6. CASE k = 1
    <3>1. f[k] = seqs[1] /\ seqs[1] \in Seq(S) /\ Len(seqs[1]) = w[1] /\ w[1] \in Nat
      BY <1>2, <2>2, <2>3, <2>6
    <3>2. Total(w, 1) = w[1]
      <4>1. 1 \in 1 .. n /\ 1 - 1 = 0
        BY <2>2, <2>6
      <4>2. Total(w, 1) = Total(w, 0) + w[1]
        BY ONLY <1>6, <4>1
      <4>3. QED
        BY <1>6, <3>1, <4>2
    <3>3. ASSUME r <= k PROVE x \in 1 .. Len(f[k]) /\ f[k][x] = seqs[r][p]
      <4>1. r = 1
        BY <2>5, <2>6, <3>3
      <4>2. x = p
        <5>1. Total(w, r - 1) = 0
          BY <1>6, <4>1
        <5>2. QED
          BY <2>4, <2>5, <3>1, <4>1, <5>1
      <4>3. QED
        BY <2>5, <3>1, <4>1, <4>2
    <3>4. QED
      BY <2>2, <2>4, <2>6, <3>1, <3>2, <3>3 DEF Placed
  <2>7. CASE k # 1
    <3>1. k - 1 \in 1 .. n /\ k - 1 \notin Bad /\ k \in Nat
      <4>1. k - 1 \in 1 .. n /\ ~ (k <= k - 1) /\ k \in Nat
        BY <2>2, <2>7
      <4>2. QED
        BY ONLY <2>1, <4>1
    <3>2. PICK a, b : a = f[k - 1] /\ b = seqs[k]
      OBVIOUS
    <3>3. Placed(k - 1)
      BY <3>1
    <3>4. /\ a \in Seq(S) /\ Len(a) = Total(w, k - 1)
          /\ r <= k - 1 => x \in 1 .. Len(a) /\ a[x] = seqs[r][p]
      BY <2>4, <3>2, <3>3 DEF Placed
    <3>5. b \in Seq(S) /\ Len(b) = w[k] /\ f[k] = a \o b
      BY <1>2, <2>2, <2>3, <2>7, <3>2
    <3>6. /\ f[k] \in Seq(S) /\ Len(f[k]) = Len(a) + Len(b)
          /\ \A i \in 1 .. Len(a) + Len(b) :
               f[k][i] = IF i <= Len(a) THEN a[i] ELSE b[i - Len(a)]
      <4>1. a \in Seq(S) /\ b \in Seq(S)
        BY <3>4, <3>5
      <4>2. /\ a \o b \in Seq(S) /\ Len(a \o b) = Len(a) + Len(b)
            /\ \A i \in 1 .. Len(a) + Len(b) :
                 (a \o b)[i] = IF i <= Len(a) THEN a[i] ELSE b[i - Len(a)]
        BY ONLY <4>1, ConcatProperties
      <4>3. QED
        BY ONLY <3>5, <4>2
    <3>7. Len(f[k]) = Total(w, k)
      BY <1>6, <2>2, <3>4, <3>5, <3>6
    <3>8. PICK la, lb : la = Len(a) /\ lb = Len(b)
      OBVIOUS
    <3>9. la \in Nat /\ lb \in Nat
      BY <3>4, <3>5, <3>8
    <3>10. ASSUME r <= k PROVE x \in 1 .. Len(f[k]) /\ f[k][x] = seqs[r][p]
      <4>1. CASE r <= k - 1
        <5>1. x \in 1 .. la /\ a[x] = seqs[r][p]
          BY <3>4, <3>8, <4>1
        <5>2. x \in 1 .. la + lb /\ x <= la
          BY ONLY <3>9, <5>1
        <5>3. QED
          BY ONLY <3>6, <3>8, <5>1, <5>2
      <4>2. CASE r = k
        <5>1. x = la + p /\ p \in 1 .. lb
          BY <2>4, <2>5, <3>4, <3>5, <3>8, <4>2
        <5>2. x \in 1 .. la + lb /\ ~ (x <= la) /\ x - la = p
          BY ONLY <3>9, <5>1
        <5>3. QED
          BY ONLY <3>2, <3>6, <3>8, <4>2, <5>2
      <4>3. QED
        BY <2>5, <3>1, <3>10, <4>1, <4>2
    <3>11. QED
      BY <2>2, <2>4, <3>6, <3>7, <3>10 DEF Placed
  <2>8. QED
    BY <2>6, <2>7
<1>8. Placed(n)
  <2>1. n \in 1 .. n
    BY <1>1
  <2> HIDE DEF Placed
  <2>2. QED
    BY <1>7, <2>1
<1>9. QED
  BY <1>1, <1>5, <1>8

-----------------------------------------------------------------------------
\* What gather_kv_cpu has after the pages of T, each below the last.
CopyPage(name, c, r, buf, p) ==
  [cell \in DOMAIN buf |->
     IF cell \div c.nkvh - p * PageSize
          \in 0 .. (IF c.reqs[r].kv_len - p * PageSize < PageSize
                    THEN c.reqs[r].kv_len - p * PageSize ELSE PageSize) - 1
     THEN BigCell(name, c, TablePage(c, r, p) * PageSize + (cell \div c.nkvh - p * PageSize),
                  cell % c.nkvh)
     ELSE buf[cell]]
EmptyRows(c, r) == [cell \in 0 .. c.reqs[r].kv_len * c.nkvh - 1 |-> Zero]
CopyStep(f, name, c, r, T) ==
  IF T = {} THEN EmptyRows(c, r)
  ELSE CopyPage(name, c, r, f[T \ {Max(T)}], [p \in DOMAIN c.reqs[r].table |-> p][Max(T)] - 1)
Copying(f, name, c, r) ==
  f = [T \in SUBSET (DOMAIN [p \in DOMAIN c.reqs[r].table |-> p]) |-> CopyStep(f, name, c, r, T)]

\* Gathering page by page is copying them one after the other.
LEMMA GatherByFold ==
  ASSUME NEW name, NEW c, NEW r
  PROVE  CpuGather(name, c, r)
           = (CHOOSE f : Copying(f, name, c, r))[DOMAIN [p \in DOMAIN c.reqs[r].table |-> p]]
  BY Zenon DEF CpuGather, FoldLeft, MapThenFoldSet, CopyStep, Copying, CopyPage, EmptyRows

\* A row is among those page p brings exactly when it is a row of page p.
LEMMA RowOfPage ==
  ASSUME NEW size \in Nat \ {0}, NEW n \in Nat, NEW line \in 0 .. n - 1, NEW p \in Nat
  PROVE  /\ line - p * size \in 0 .. (IF n - p * size < size THEN n - p * size ELSE size) - 1
              <=> line \div size = p
         /\ line \div size = p => line - p * size = line % size
<1>1. PICK q, m : q = line \div size /\ m = line % size
  OBVIOUS
<1>2. line \in Nat /\ line < n
  OBVIOUS
<1>3. q \in Nat /\ m \in 0 .. size - 1 /\ line = size * q + m
  BY ONLY <1>1, <1>2, size \in Nat \ {0}
<1>4. PICK x, y : x = p * size /\ y = size * q
  OBVIOUS
<1>5. x \in Nat /\ y \in Nat /\ line = y + m
  BY ONLY <1>3, <1>4, size \in Nat \ {0}, p \in Nat
<1>6. CASE q = p
  <2>1. x = y
    BY ONLY <1>4, <1>6, size \in Nat \ {0}, p \in Nat
  <2>2. line - x = m
    BY ONLY <1>3, <1>5, <2>1, size \in Nat \ {0}
  <2>3. m < n - x
    BY ONLY <1>2, <1>3, <1>5, <2>2, n \in Nat, size \in Nat \ {0}
  <2>4. line - x \in 0 .. (IF n - x < size THEN n - x ELSE size) - 1
    BY ONLY <1>3, <1>5, <2>2, <2>3, n \in Nat, size \in Nat \ {0}
  <2>5. QED
    BY ONLY <1>1, <1>4, <1>6, <2>2, <2>4
<1>7. CASE q < p
  <2>1. size * (q + 1) <= size * p
    BY ONLY <1>3, <1>7, size \in Nat \ {0}, p \in Nat
  <2>2. size * (q + 1) = size * q + size /\ size * p = p * size
    BY ONLY <1>3, size \in Nat \ {0}, p \in Nat
  <2>3. y + size <= x
    BY ONLY <1>4, <2>1, <2>2
  <2>4. line - x < 0
    BY ONLY <1>3, <1>5, <2>3, size \in Nat \ {0}
  <2>5. ~ (line - x \in 0 .. (IF n - x < size THEN n - x ELSE size) - 1)
    BY ONLY <1>2, <1>5, <2>4
  <2>6. q # p
    BY ONLY <1>3, <1>7, p \in Nat
  <2>7. QED
    BY ONLY <1>1, <1>4, <2>5, <2>6
<1>8. CASE p < q
  <2>1. size * (p + 1) <= size * q
    BY ONLY <1>3, <1>8, size \in Nat \ {0}, p \in Nat
  <2>2. size * (p + 1) = size * p + size /\ size * p = p * size
    BY ONLY size \in Nat \ {0}, p \in Nat
  <2>3. x + size <= y
    BY ONLY <1>4, <2>1, <2>2
  <2>4. size <= line - x /\ line - x \in Int /\ n - x \in Int
    BY ONLY <1>2, <1>3, <1>5, <2>3, size \in Nat \ {0}, n \in Nat
  <2>5. ~ (line - x \in 0 .. (IF n - x < size THEN n - x ELSE size) - 1)
    BY ONLY <2>4, size \in Nat \ {0}
  <2>6. q # p
    BY ONLY <1>3, <1>8, p \in Nat
  <2>7. QED
    BY ONLY <1>1, <1>4, <2>5, <2>6
<1>9. QED
  BY <1>3, <1>6, <1>7, <1>8

\* The cell that is brought to a place of the gathered rows.
Brought(name, c, r, cell) ==
  BigCell(name, c, TablePage(c, r, (cell \div c.nkvh) \div PageSize) * PageSize
                   + ((cell \div c.nkvh) % PageSize), cell % c.nkvh)
WithPages(name, c, r, T) ==
  [cell \in 0 .. c.reqs[r].kv_len * c.nkvh - 1 |->
     IF (cell \div c.nkvh) \div PageSize + 1 \in T THEN Brought(name, c, r, cell) ELSE Zero]

\* Copying one page more brings the rows of that page.
LEMMA WithPageMore ==
  ASSUME NEW name, NEW c, NEW r, c.reqs[r].kv_len \in Nat, c.nkvh \in Nat \ {0},
         NEW T, NEW m \in T, m \in Nat \ {0}
  PROVE  CopyPage(name, c, r, WithPages(name, c, r, T \ {m}), m - 1) = WithPages(name, c, r, T)
<1>1. PICK n, k, p, buf : /\ n = c.reqs[r].kv_len /\ k = c.nkvh /\ p = m - 1
                          /\ buf = WithPages(name, c, r, T \ {m})
  OBVIOUS
<1>2. n \in Nat /\ k \in Nat \ {0} /\ p \in Nat /\ PageSize \in Nat \ {0}
  BY <1>1, PageAssumption
<1> DEFINE In(cell)  == cell \div k - p * PageSize
                          \in 0 .. (IF n - p * PageSize < PageSize
                                    THEN n - p * PageSize ELSE PageSize) - 1
           New(cell) == BigCell(name, c, TablePage(c, r, p) * PageSize
                                         + (cell \div k - p * PageSize), cell % k)
           On(cell, U) == (cell \div k) \div PageSize + 1 \in U
<1>3. CopyPage(name, c, r, buf, p)
        = [cell \in DOMAIN buf |-> IF In(cell) THEN New(cell) ELSE buf[cell]]
  BY <1>1, Zenon DEF CopyPage
<1>4. \A U : WithPages(name, c, r, U)
               = [cell \in 0 .. n * k - 1 |->
                    IF On(cell, U) THEN Brought(name, c, r, cell) ELSE Zero]
  BY <1>1, Zenon DEF WithPages
<1>5. ASSUME NEW cell \in 0 .. n * k - 1
      PROVE  /\ In(cell) <=> (cell \div k) \div PageSize = p
             /\ In(cell) => New(cell) = Brought(name, c, r, cell)
             /\ On(cell, T) <=> On(cell, T \ {m}) \/ In(cell)
  <2>1. PICK line : line = cell \div k
    OBVIOUS
  <2>2. line \in 0 .. n - 1
    BY ONLY <1>2, <2>1, cell \in 0 .. n * k - 1, PlaceWithin
  <2>3. /\ In(cell) <=> line \div PageSize = p
        /\ line \div PageSize = p => line - p * PageSize = line % PageSize
    <3>1. PageSize \in Nat \ {0} /\ n \in Nat /\ line \in 0 .. n - 1 /\ p \in Nat
      BY ONLY <1>2, <2>2
    <3>2. /\ line - p * PageSize \in 0 .. (IF n - p * PageSize < PageSize
                                          THEN n - p * PageSize ELSE PageSize) - 1
               <=> line \div PageSize = p
          /\ line \div PageSize = p => line - p * PageSize = line % PageSize
      BY ONLY <3>1, RowOfPage
    <3>3. QED
      BY ONLY <2>1, <3>2
  <2>4. In(cell) => New(cell) = Brought(name, c, r, cell)
    <3>1. ASSUME line \div PageSize = p, line - p * PageSize = line % PageSize
          PROVE  New(cell) = Brought(name, c, r, cell)
      BY <1>1, <2>1, <3>1 DEF Brought
    <3> HIDE DEF In, New
    <3>2. QED
      BY ONLY <2>3, <3>1
  <2>5. On(cell, T) <=> On(cell, T \ {m}) \/ line \div PageSize = p
    <3>1. line \div PageSize \in Nat
      BY <1>2, <2>2
    <3>2. PICK q : q = line \div PageSize
      OBVIOUS
    <3>3. q + 1 = m <=> q = p
      BY <1>1, <3>1, <3>2
    <3>4. q + 1 \in T <=> q + 1 \in T \ {m} \/ q + 1 = m
      OBVIOUS
    <3>5. QED
      BY ONLY <2>1, <3>2, <3>3, <3>4
  <2> HIDE DEF In, New, On
  <2>6. QED
    BY ONLY <2>1, <2>3, <2>4, <2>5
<1> HIDE DEF In, New, On
<1>6. DOMAIN buf = 0 .. n * k - 1
  BY <1>1, <1>4
<1>7. \A cell \in 0 .. n * k - 1 :
        buf[cell] = IF On(cell, T \ {m}) THEN Brought(name, c, r, cell) ELSE Zero
  BY <1>1, <1>4
<1>8. ASSUME NEW cell \in 0 .. n * k - 1
      PROVE  (IF In(cell) THEN New(cell) ELSE buf[cell])
               = IF On(cell, T) THEN Brought(name, c, r, cell) ELSE Zero
  BY <1>5, <1>7
<1>9. CopyPage(name, c, r, buf, p)
        = [cell \in 0 .. n * k - 1 |-> IF On(cell, T) THEN Brought(name, c, r, cell) ELSE Zero]
  BY ONLY <1>3, <1>6, <1>8
<1>10. QED
  BY ONLY <1>1, <1>4, <1>9

\* What the pages copied so far have brought.
LEMMA GatherCopies ==
  ASSUME NEW name, NEW c, NEW r, c.reqs[r].kv_len \in Nat, c.nkvh \in Nat \ {0},
         NEW P \in Nat, DOMAIN c.reqs[r].table = 1 .. P
  PROVE  CpuGather(name, c, r) = WithPages(name, c, r, 1 .. P)
<1> DEFINE s == [p \in DOMAIN c.reqs[r].table |-> p]
           W(T) == WithPages(name, c, r, T)
           g == [T \in SUBSET (1 .. P) |-> W(T)]
<1>1. DOMAIN s = 1 .. P /\ \A m \in 1 .. P : s[m] = m
  OBVIOUS
<1>2. W({}) = EmptyRows(c, r)
  BY DEF WithPages, EmptyRows
<1>3. ASSUME NEW T, NEW m \in T, m \in Nat \ {0}
      PROVE  CopyPage(name, c, r, W(T \ {m}), m - 1) = W(T)
  <2>1. /\ c.reqs[r].kv_len \in Nat /\ c.nkvh \in Nat \ {0}
        /\ m \in T /\ m \in Nat \ {0}
    BY <1>3
  <2>2. CopyPage(name, c, r, WithPages(name, c, r, T \ {m}), m - 1) = WithPages(name, c, r, T)
    BY ONLY <2>1, WithPageMore
  <2>3. QED
    BY <2>2
<1> HIDE DEF W
<1>4. ASSUME NEW T \in SUBSET (1 .. P), T # {}
      PROVE  Max(T) \in T /\ \A i \in T : i <= Max(T)
  <2>1. T \in SUBSET Nat /\ P \in Nat /\ \A i \in T : i <= P
    OBVIOUS
  <2>2. QED
    BY ONLY <1>4, <2>1, MaxOfNats
<1>5. Copying(g, name, c, r)
  <2>1. ASSUME NEW T \in SUBSET (1 .. P) PROVE g[T] = CopyStep(g, name, c, r, T)
    <3>1. CASE T = {}
      BY <1>2, <3>1 DEF CopyStep
    <3>2. CASE T # {}
      <4>1. PICK m : m = Max(T)
        OBVIOUS
      <4>2. m \in T /\ m \in 1 .. P /\ m \in Nat \ {0}
        <5>1. Max(T) \in T
          BY ONLY <1>4, <3>2, T \in SUBSET (1 .. P)
        <5>2. m \in T /\ m \in 1 .. P
          BY ONLY <4>1, <5>1, T \in SUBSET (1 .. P)
        <5>3. QED
          BY ONLY <5>2, P \in Nat
      <4>3. CopyPage(name, c, r, W(T \ {m}), m - 1) = W(T)
        BY <1>3, <4>2
      <4>4. g[T] = W(T) /\ g[T \ {m}] = W(T \ {m})
        BY <4>2
      <4>5. s[m] = m
        BY <1>1, <4>2
      <4> HIDE DEF g
      <4>6. CopyStep(g, name, c, r, T) = CopyPage(name, c, r, g[T \ {m}], s[m] - 1)
        BY <3>2, <4>1, Zenon DEF CopyStep
      <4> HIDE DEF s
      <4>7. QED
        BY ONLY <4>3, <4>4, <4>5, <4>6
    <3>3. QED
      BY <3>1, <3>2
  <2>2. g = [T \in SUBSET (1 .. P) |-> g[T]]
    OBVIOUS
  <2>3. g = [T \in SUBSET (1 .. P) |-> CopyStep(g, name, c, r, T)]
    <3> HIDE DEF g
    <3>1. QED
      BY <2>1, <2>2
  <2> HIDE DEF g
  <2>4. QED
    BY <1>1, <2>3, Zenon DEF Copying
<1>6. PICK f : f = CHOOSE h : Copying(h, name, c, r)
  OBVIOUS
<1>7. Copying(f, name, c, r)
  <2> HIDE DEF g
  <2>1. QED
    BY ONLY <1>5, <1>6
<1>8. \A T \in SUBSET (1 .. P) : f[T] = CopyStep(f, name, c, r, T)
  BY <1>1, <1>7 DEF Copying
<1>9. f[{}] = W({})
  BY <1>2, <1>8 DEF CopyStep
<1>10. ASSUME NEW k \in 1 .. P, f[1 .. k - 1] = W(1 .. k - 1)
       PROVE  f[1 .. k] = W(1 .. k)
  <2>1. k \in 1 .. P /\ P \in Nat /\ k \in Nat \ {0}
    OBVIOUS
  <2>2. 1 .. k \in SUBSET (1 .. P) /\ 1 .. k # {} /\ k \in 1 .. k
    BY ONLY <2>1
  <2>3. (1 .. k) \ {k} = 1 .. k - 1
    BY ONLY <2>1
  <2>4. Max(1 .. k) = k
    <3>1. PICK m : m = Max(1 .. k)
      OBVIOUS
    <3>2. m \in 1 .. k /\ k <= m
      BY <1>4, <2>2, <3>1
    <3>3. QED
      BY ONLY <2>1, <3>1, <3>2
  <2>5. f[1 .. k] = CopyStep(f, name, c, r, 1 .. k)
    BY <1>8, <2>2
  <2>6. CopyStep(f, name, c, r, 1 .. k)
          = CopyPage(name, c, r, f[(1 .. k) \ {Max(1 .. k)}], s[Max(1 .. k)] - 1)
    BY <2>2, Zenon DEF CopyStep
  <2>7. CopyPage(name, c, r, W((1 .. k) \ {k}), k - 1) = W(1 .. k)
    BY <1>3, <2>1, <2>2
  <2>8. s[k] = k
    BY <1>1
  <2> HIDE DEF s
  <2>9. QED
    BY ONLY <1>10, <2>3, <2>4, <2>5, <2>6, <2>7, <2>8
<1> DEFINE Bad == {k \in 0 .. P : f[1 .. k] # W(1 .. k)}
<1>11. ASSUME Bad # {} PROVE FALSE
  <2>1. PICK k \in Bad : \A m \in Bad : k <= m
    <3>1. Bad \in SUBSET Nat
      OBVIOUS
    <3> HIDE DEF Bad
    <3>2. Min(Bad) \in Bad /\ \A m \in Bad : Min(Bad) <= m
      BY <1>11, <3>1, MinOfNats
    <3>3. QED
      BY <3>2
  <2>2. k \in 0 .. P /\ f[1 .. k] # W(1 .. k)
    OBVIOUS
  <2>3. k # 0
    <3>1. 1 .. 0 = {}
      OBVIOUS
    <3>2. QED
      BY <1>9, <2>2, <3>1
  <2>4. k \in 1 .. P /\ k - 1 \in 0 .. P /\ ~ (k <= k - 1)
    BY <2>2, <2>3
  <2>5. f[1 .. k - 1] = W(1 .. k - 1)
    BY <2>1, <2>4
  <2>6. QED
    BY <1>10, <2>2, <2>4, <2>5
<1>12. f[1 .. P] = W(1 .. P)
  <2>1. P \in 0 .. P
    OBVIOUS
  <2>2. QED
    BY <1>11, <2>1
<1>13. CpuGather(name, c, r) = f[DOMAIN s]
  BY <1>6, GatherByFold, Zenon
<1> HIDE DEF s
<1>14. CpuGather(name, c, r) = W(1 .. P)
  BY ONLY <1>1, <1>12, <1>13
<1>15. QED
  BY <1>14 DEF W

-----------------------------------------------------------------------------
\* The sizes of a request's keys: k heads, n positions, P pages.
Sized(c, r, k, n, P) ==
  /\ k \in Nat \ {0} /\ n \in Nat /\ P \in Nat
  /\ k = c.nkvh /\ n = c.reqs[r].kv_len /\ P = Len(c.reqs[r].table)

\* The request's page table has its pages.
Tabled(c, r, n, P) ==
  /\ c.kind # "varlen" /\ DOMAIN c.reqs[r].table = 1 .. P /\ n <= P * PageSize
  /\ \A p \in 0 .. P - 1 : TablePage(c, r, p) = c.reqs[r].table[p + 1]

\* On either device a place of the gathered rows gets the key, or value, of its
\* position by the table, when that has the pages.
LEMMA GatheredIs ==
  ASSUME NEW name, NEW c, NEW r, NEW k, NEW n, NEW P,
         Sized(c, r, k, n, P), Tabled(c, r, n, P),
         NEW at \in 0 .. n - 1, NEW g \in 0 .. k - 1
  PROVE  Gathered(name, c, r)[g + at * k] = <<name, KeyCell(c, r, at, g)>>
<1> USE DEF Tabled
<1>0. /\ n = c.reqs[r].kv_len /\ P = Len(c.reqs[r].table)
      /\ k \in Nat \ {0} /\ n \in Nat /\ P \in Nat /\ k = c.nkvh
  BY DEF Sized
<1>1. PICK cell, q : k = c.nkvh /\ cell = at * k + g /\ q = at \div PageSize
  BY <1>0
<1>2. /\ k \in Nat \ {0} /\ n \in Nat /\ PageSize \in Nat \ {0} /\ P \in Nat
      /\ at \in 0 .. n - 1 /\ at \in Nat /\ g \in 0 .. k - 1
  BY <1>0, <1>1, PageAssumption
<1>3. cell \in 0 .. n * k - 1 /\ cell \div k = at /\ cell % k = g
  <2>1. at * k + g \in 0 .. n * k - 1
    BY ONLY <1>2, WithinPlace
  <2>2. (at * k + g) \div k = at /\ (at * k + g) % k = g
    BY ONLY <1>2, DivideSum
  <2>3. QED
    BY ONLY <1>1, <2>1, <2>2
<1>4. q \in 0 .. P - 1
  <2>1. PICK m : m = P * PageSize
    OBVIOUS
  <2>2. m \in Nat /\ n <= m
    BY <1>0, <1>2, <2>1
  <2>3. at \in 0 .. m - 1
    BY ONLY <1>2, <2>2
  <2>4. at \div PageSize \in 0 .. P - 1
    BY ONLY <1>2, <2>1, <2>3, PlaceWithin
  <2>5. QED
    BY ONLY <1>1, <2>4
<1>5. Brought(name, c, r, cell) = <<name, KeyCell(c, r, at, g)>>
  <2>1. TablePage(c, r, q) = c.reqs[r].table[q + 1]
    BY <1>0, <1>4
  <2>2. Brought(name, c, r, cell) = BigCell(name, c, TablePage(c, r, q) * PageSize + (at % PageSize), g)
    BY <1>1, <1>3, Zenon DEF Brought
  <2>3. KeyCell(c, r, at, g) = <<c.reqs[r].table[q + 1] * PageSize + (at % PageSize), g>>
    BY <1>1 DEF KeyCell
  <2>4. QED
    BY <2>1, <2>2, <2>3 DEF BigCell
<1>6. CpuGather(name, c, r)[cell] = Brought(name, c, r, cell)
  <2>1. CpuGather(name, c, r) = WithPages(name, c, r, 1 .. P)
    BY <1>0, GatherCopies
  <2>2. q + 1 \in 1 .. P
    BY ONLY <1>2, <1>4
  <2>3. WithPages(name, c, r, 1 .. P)[cell] = Brought(name, c, r, cell)
    BY <1>0, <1>1, <1>3, <2>2 DEF WithPages
  <2>4. QED
    BY ONLY <2>1, <2>3
<1>7. GpuGather(name, c, r)[cell] = Brought(name, c, r, cell)
  <2> DEFINE Of(x) == IF (x \div c.nkvh) \div PageSize >= P THEN Garbage
                      ELSE Brought(name, c, r, x)
  <2>1. GpuGather(name, c, r) = [x \in 0 .. n * k - 1 |-> Of(x)]
    BY <1>0, <1>1, Zenon DEF GpuGather, Brought
  <2>2. ~ (q >= P)
    BY ONLY <1>2, <1>4
  <2>3. Of(cell) = Brought(name, c, r, cell)
    BY ONLY <1>1, <1>3, <2>2
  <2> HIDE DEF Of
  <2>4. QED
    BY ONLY <1>3, <2>1, <2>3
<1>8. g + at * k = cell
  <2>1. PICK y : y = at * k
    OBVIOUS
  <2>2. y \in Nat
    BY ONLY <1>2, <2>1
  <2>3. g + y = y + g
    BY ONLY <1>2, <2>2
  <2>4. QED
    BY ONLY <1>1, <2>1, <2>3
<1>9. QED
  BY ONLY <1>5, <1>6, <1>7, <1>8 DEF Gathered

\* The keys, and values, of a varlen block.
LEMMA BlockIs ==
  ASSUME NEW name, NEW c, NEW r, NEW k, NEW n, NEW P,
         Sized(c, r, k, n, P), c.kind = "varlen",
         NEW at \in 0 .. n - 1, NEW g \in 0 .. k - 1
  PROVE  Block(name, c, r)[g + at * k] = <<name, KeyCell(c, r, at, g)>>
<1>0. n = c.reqs[r].kv_len /\ k \in Nat \ {0} /\ n \in Nat /\ k = c.nkvh
  BY DEF Sized
<1>1. PICK cell : k = c.nkvh /\ cell = at * k + g
  BY <1>0
<1>2. k \in Nat \ {0} /\ n \in Nat /\ at \in 0 .. n - 1 /\ at \in Nat /\ g \in 0 .. k - 1
  BY <1>0, <1>1
<1>3. cell \in 0 .. n * k - 1 /\ cell \div k = at /\ cell % k = g
  <2>1. at * k + g \in 0 .. n * k - 1
    BY ONLY <1>2, WithinPlace
  <2>2. (at * k + g) \div k = at /\ (at * k + g) % k = g
    BY ONLY <1>2, DivideSum
  <2>3. QED
    BY ONLY <1>1, <2>1, <2>2
<1>4. g + at * k = cell
  <2>1. PICK y : y = at * k
    OBVIOUS
  <2>2. y \in Nat
    BY ONLY <1>2, <2>1
  <2>3. g + y = y + g
    BY ONLY <1>2, <2>2
  <2>4. QED
    BY ONLY <1>1, <2>1, <2>3
<1>5. Block(name, c, r)[cell] = BlockCell(name, c, r, at, g)
  BY <1>0, <1>1, <1>3 DEF Block
<1>6. QED
  BY <1>4, <1>5 DEF BlockCell, KeyCell

-----------------------------------------------------------------------------
\* The calls.
QLens(c)     == [r \in Batch(c) |-> c.reqs[r].q_len]
TableLens(c) == [r \in Batch(c) |-> Len(c.reqs[r].table)]

\* The rows and the pages of the requests before r + 1.
RowsBefore(c, r)  == Total(QLens(c), r)
PagesBefore(c, r) == Total(TableLens(c), r)

\* The parts of a call and of a request.
LEMMA CallIs ==
  ASSUME NEW c \in Calls
  PROVE  /\ c.kind \in {"paged", "varlen"} /\ c.device \in {"cpu", "gpu"}
         /\ c.nhead \in Nat \ {0} /\ c.nkvh \in Nat \ {0} /\ c.nhead % c.nkvh = 0
         /\ Len(c.reqs) \in Nat /\ Batch(c) = 1 .. Len(c.reqs)
  BY CallAssumption DEF BatchCall, Batch

\* A request of a call, and its lengths.
LEMMA RequestIs ==
  ASSUME NEW c \in Calls, NEW r \in 1 .. Len(c.reqs)
  PROVE  /\ c.reqs[r].q_len \in Nat /\ c.reqs[r].kv_len \in Nat
         /\ c.reqs[r].table \in Seq(Nat) /\ Len(c.reqs[r].table) \in Nat
         /\ DOMAIN c.reqs[r].table = 1 .. Len(c.reqs[r].table)
         /\ QLens(c)[r] = c.reqs[r].q_len /\ TableLens(c)[r] = Len(c.reqs[r].table)
<1>1. c.reqs \in Seq([q_len : Nat, kv_len : Nat, table : Seq(Nat)]) /\ Batch(c) = 1 .. Len(c.reqs)
  BY CallIs, CallAssumption DEF BatchCall
<1>2. c.reqs[r] \in [q_len : Nat, kv_len : Nat, table : Seq(Nat)]
  <2>1. PICK s, R : s = c.reqs /\ R = [q_len : Nat, kv_len : Nat, table : Seq(Nat)]
    OBVIOUS
  <2>2. s \in Seq(R) /\ r \in 1 .. Len(s)
    BY <1>1, <2>1
  <2>3. s[r] \in R
    BY ONLY <2>2
  <2>4. QED
    BY ONLY <2>1, <2>3
<1>3. c.reqs[r].q_len \in Nat /\ c.reqs[r].kv_len \in Nat /\ c.reqs[r].table \in Seq(Nat)
  BY ONLY <1>2
<1>4. Len(c.reqs[r].table) \in Nat /\ DOMAIN c.reqs[r].table = 1 .. Len(c.reqs[r].table)
  BY ONLY <1>3
<1>5. QLens(c)[r] = c.reqs[r].q_len /\ TableLens(c)[r] = Len(c.reqs[r].table)
  BY ONLY <1>1, r \in 1 .. Len(c.reqs) DEF QLens, TableLens
<1>6. QED
  BY <1>3, <1>4, <1>5

\* The rows, and the pages, before a request are totals.
LEMMA RowsBeforeIs ==
  ASSUME NEW c \in Calls
  PROVE  /\ RowsBefore(c, 0) = 0 /\ \A r \in 0 .. Len(c.reqs) : RowsBefore(c, r) \in Nat
         /\ \A r \in 1 .. Len(c.reqs) : RowsBefore(c, r) = RowsBefore(c, r - 1) + c.reqs[r].q_len
         /\ \A a, b \in 0 .. Len(c.reqs) : a <= b => RowsBefore(c, a) <= RowsBefore(c, b)
         /\ \A r \in 0 .. Len(c.reqs) : cu_seqlens_q(c, r) = RowsBefore(c, r)
<1>1. PICK n, w : n = Len(c.reqs) /\ w = QLens(c)
  OBVIOUS
<1>2. n \in Nat /\ \A r \in 1 .. n : w[r] \in Nat /\ w[r] = c.reqs[r].q_len
  BY <1>1, CallIs, RequestIs
<1>3. \A r \in 1 .. n : w[r] \in Nat
  BY <1>2
<1>4. /\ Total(w, 0) = 0 /\ (\A r \in 0 .. n : Total(w, r) \in Nat)
      /\ \A r \in 1 .. n : Total(w, r) = Total(w, r - 1) + w[r]
  BY ONLY <1>2, <1>3, TotalIs
<1>5. ASSUME NEW a \in 0 .. n, NEW b \in 0 .. n, a <= b PROVE Total(w, a) <= Total(w, b)
  BY ONLY <1>2, <1>3, <1>5, TotalGrows
<1>6. ASSUME NEW r \in 0 .. n PROVE cu_seqlens_q(c, r) = Total(w, r)
  <2>1. r \in Nat /\ \A i \in 1 .. r : w[i] \in Nat /\ w[i] = c.reqs[i].q_len
    BY <1>2
  <2>2. PICK s : s = [j \in 1 .. r |-> c.reqs[j].q_len]
    OBVIOUS
  <2>3. s = [j \in 1 .. r |-> w[j]] /\ \A i \in 1 .. r : w[i] \in Nat
    BY <2>1, <2>2
  <2>4. Sum(s) = Total(w, r)
    BY ONLY <2>1, <2>3, SumIsTotal
  <2>5. QED
    BY <2>2, <2>4 DEF cu_seqlens_q
<1>7. QED
  BY <1>1, <1>2, <1>4, <1>5, <1>6 DEF RowsBefore

\* The pages before a request, one request at a time.
LEMMA PagesBeforeIs ==
  ASSUME NEW c \in Calls
  PROVE  /\ PagesBefore(c, 0) = 0
         /\ \A r \in 0 .. Len(c.reqs) : PagesBefore(c, r) \in Nat
         /\ \A r \in 1 .. Len(c.reqs) :
              PagesBefore(c, r) = PagesBefore(c, r - 1) + Len(c.reqs[r].table)
<1>1. PICK n, w : n = Len(c.reqs) /\ w = TableLens(c)
  OBVIOUS
<1>2. n \in Nat /\ \A r \in 1 .. n : w[r] \in Nat /\ w[r] = Len(c.reqs[r].table)
  BY <1>1, CallIs, RequestIs
<1>3. \A r \in 1 .. n : w[r] \in Nat
  BY <1>2
<1>4. /\ Total(w, 0) = 0 /\ (\A r \in 0 .. n : Total(w, r) \in Nat)
      /\ \A r \in 1 .. n : Total(w, r) = Total(w, r - 1) + w[r]
  BY ONLY <1>2, <1>3, TotalIs
<1>5. QED
  BY <1>1, <1>2, <1>4 DEF PagesBefore

\* At bt_offset begins the table of the request.
LEMMA TablePageIs ==
  ASSUME NEW c \in Calls, NEW r \in 1 .. Len(c.reqs), bt_offset = PagesBefore(c, r - 1),
         NEW p \in 0 .. Len(c.reqs[r].table) - 1
  PROVE  TablePage(c, r, p) = c.reqs[r].table[p + 1]
<1>1. PICK seqs : seqs = [i \in Batch(c) |-> c.reqs[i].table]
  OBVIOUS
<1>2. PICK n : n = Len(c.reqs)
  OBVIOUS
<1>3. n \in Nat /\ Batch(c) = 1 .. n /\ r \in 1 .. n
  BY <1>2, CallIs
<1>4. ASSUME NEW i \in 1 .. n
      PROVE  seqs[i] = c.reqs[i].table /\ c.reqs[i].table \in Seq(Nat)
             /\ TableLens(c)[i] = Len(c.reqs[i].table)
  BY <1>1, <1>2, <1>3, RequestIs
<1>5. seqs \in Seq(Seq(Nat)) /\ Len(seqs) = n
  <2>1. seqs = [i \in 1 .. n |-> seqs[i]] /\ \A i \in 1 .. n : seqs[i] \in Seq(Nat)
    BY <1>1, <1>3, <1>4
  <2>2. PICK T : T = Seq(Nat)
    OBVIOUS
  <2>3. seqs \in [1 .. n -> T] /\ n \in Nat
    BY ONLY <1>3, <2>1, <2>2
  <2>4. seqs \in Seq(T) /\ Len(seqs) = n
    BY ONLY <2>3
  <2>5. QED
    BY ONLY <2>2, <2>4
<1>6. Len(c.reqs[r].table) \in Nat
  BY RequestIs
<1>7. p + 1 \in 1 .. Len(seqs[r]) /\ r \in 1 .. Len(seqs)
      /\ \A i \in 1 .. Len(seqs) : TableLens(c)[i] = Len(seqs[i])
  <2>1. seqs[r] = c.reqs[r].table
    BY <1>3, <1>4
  <2>2. PICK l : l = Len(c.reqs[r].table)
    OBVIOUS
  <2>3. l \in Nat /\ p \in 0 .. l - 1
    BY <1>6, <2>2
  <2>4. p + 1 \in 1 .. l
    BY ONLY <2>3
  <2>5. QED
    BY ONLY <1>3, <1>4, <1>5, <2>1, <2>2, <2>4
<1>8. FlattenSeq(seqs)[Total(TableLens(c), r - 1) + (p + 1)] = seqs[r][p + 1]
  <2>1. PICK w, k : w = TableLens(c) /\ k = p + 1
    OBVIOUS
  <2>2. /\ seqs \in Seq(Seq(Nat)) /\ (\A i \in 1 .. Len(seqs) : w[i] = Len(seqs[i]))
        /\ r \in 1 .. Len(seqs) /\ k \in 1 .. Len(seqs[r])
    BY ONLY <1>5, <1>7, <2>1
  <2>3. Measured(Nat, seqs, w) /\ r \in 1 .. Len(seqs) /\ k \in 1 .. Len(seqs[r])
    BY ONLY <2>2, Zenon DEF Measured
  <2>4. FlattenSeq(seqs)[Total(w, r - 1) + k] = seqs[r][k]
    BY ONLY <2>3, FlattenPlace
  <2>5. QED
    BY ONLY <2>1, <2>4
<1>9. bt_offset \in Nat /\ p \in Nat
  <2>1. r - 1 \in 0 .. Len(c.reqs)
    BY <1>2, <1>3
  <2>2. QED
    BY <1>6, <2>1, PagesBeforeIs
<1>10. bt_offset + p + 1 = bt_offset + (p + 1)
  BY ONLY <1>9
<1>11. TablePage(c, r, p) = FlattenSeq(seqs)[bt_offset + p + 1]
  BY <1>1 DEF TablePage, BlockTables
<1>12. QED
  BY <1>3, <1>4, <1>8, <1>10, <1>11 DEF PagesBefore

\* The keys, or values, a request attends to.
Rowed(name, c, r) == IF c.kind = "paged" THEN Gathered(name, c, r) ELSE Block(name, c, r)

\* The keys, or values, of a request lie where KeyCell says.
LEMMA RowedIs ==
  ASSUME NEW c \in Calls, Valid(c), NEW r \in 1 .. Len(c.reqs),
         bt_offset = PagesBefore(c, r - 1), NEW name,
         NEW at \in 0 .. c.reqs[r].kv_len - 1, NEW g \in 0 .. c.nkvh - 1
  PROVE  Rowed(name, c, r)[g + at * c.nkvh] = <<name, KeyCell(c, r, at, g)>>
<1>1. /\ c.kind \in {"paged", "varlen"} /\ c.nkvh \in Nat \ {0}
      /\ c.reqs[r].kv_len \in Nat /\ Len(c.reqs[r].table) \in Nat
      /\ DOMAIN c.reqs[r].table = 1 .. Len(c.reqs[r].table)
      /\ at \in 0 .. c.reqs[r].kv_len - 1 /\ g \in 0 .. c.nkvh - 1
  BY CallIs, RequestIs
<1>2. PICK k, n, P : k = c.nkvh /\ n = c.reqs[r].kv_len /\ P = Len(c.reqs[r].table)
  OBVIOUS
<1>3. Sized(c, r, k, n, P) /\ at \in 0 .. n - 1 /\ g \in 0 .. k - 1
  BY ONLY <1>1, <1>2 DEF Sized
<1>4. CASE c.kind = "varlen"
  <2>1. Block(name, c, r)[g + at * k] = <<name, KeyCell(c, r, at, g)>>
    BY ONLY <1>3, <1>4, BlockIs
  <2>2. c.kind # "paged"
    BY ONLY <1>4
  <2>3. QED
    BY ONLY <1>2, <2>1, <2>2 DEF Rowed
<1>5. CASE c.kind = "paged"
  <2>1. n <= P * PageSize
    BY <1>2, <1>5, CallIs DEF Valid, ValidPaged
  <2>2. \A p \in 0 .. P - 1 : TablePage(c, r, p) = c.reqs[r].table[p + 1]
    BY <1>2, TablePageIs
  <2>3. Tabled(c, r, n, P)
    BY ONLY <1>1, <1>2, <1>5, <2>1, <2>2 DEF Tabled
  <2>4. Gathered(name, c, r)[g + at * k] = <<name, KeyCell(c, r, at, g)>>
    BY ONLY <1>3, <2>3, GatheredIs
  <2>5. QED
    BY ONLY <1>2, <1>5, <2>4 DEF Rowed
<1>6. QED
  BY ONLY <1>1, <1>4, <1>5

-----------------------------------------------------------------------------
\* The packed buffers.
LEMMA NumelOfTwo ==
  ASSUME NEW m \in Nat, NEW n \in Nat
  PROVE  Numel(<<m, n>>) = m * n
<1>0. PICK mn \in Nat : mn = m * n
  OBVIOUS
<1> DEFINE e == <<m, n>>
           P(f) == f = [s \in SUBSET (DOMAIN e) |-> FoldStep(f, e, s)]
           Parts == {{}, {1}, {2}, {1, 2}}
           g == [s \in Parts |-> IF s = {} THEN 1 ELSE IF s = {1} THEN m
                                 ELSE IF s = {2} THEN n ELSE mn]
<1>1. DOMAIN e = {1, 2} /\ SUBSET (DOMAIN e) = Parts /\ e[1] = m /\ e[2] = n
  OBVIOUS
<1>2. Max({1}) = 1 /\ Max({2}) = 2 /\ Max({1, 2}) = 2
  <2>1. ASSUME NEW S \in SUBSET {1, 2}, S # {} PROVE Max(S) \in S /\ \A x \in S : x <= Max(S)
    <3>1. S \in SUBSET Nat /\ 2 \in Nat /\ \A x \in S : x <= 2
      OBVIOUS
    <3>2. QED
      BY ONLY <2>1, <3>1, MaxOfNats
  <2>2. Max({1}) \in {1} /\ Max({2}) \in {2}
    BY <2>1
  <2>3. Max({1, 2}) \in {1, 2} /\ 2 <= Max({1, 2})
    BY <2>1
  <2>4. PICK x : x = Max({1, 2})
    OBVIOUS
  <2>5. x = 2
    BY ONLY <2>3, <2>4
  <2>6. QED
    BY <2>2, <2>4, <2>5
<1>3. /\ {1} \ {1} = {} /\ {2} \ {2} = {} /\ {1, 2} \ {2} = {1}
      /\ {1} # {} /\ {2} # {} /\ {1, 2} # {} /\ {1} # {2} /\ {1, 2} # {1} /\ {1, 2} # {2}
  OBVIOUS
<1>4. \A f : /\ FoldStep(f, e, {}) = 1
             /\ FoldStep(f, e, {1}) = f[{}] * m
             /\ FoldStep(f, e, {2}) = f[{}] * n
             /\ FoldStep(f, e, {1, 2}) = f[{1}] * n
  <2> HIDE DEF e
  <2>1. QED
    BY <1>1, <1>2, <1>3 DEF FoldStep
<1>5. P(g)
  <2>1. g[{}] = 1 /\ g[{1}] = m /\ g[{2}] = n /\ g[{1, 2}] = mn
    BY <1>3
  <2>2. g = [s \in Parts |-> g[s]]
    OBVIOUS
  <2>3. 1 * m = m /\ 1 * n = n
    OBVIOUS
  <2> HIDE DEF g, e
  <2>4. \A s \in Parts : g[s] = FoldStep(g, e, s)
    BY <1>0, <1>4, <2>1, <2>3
  <2> HIDE DEF Parts
  <2>5. QED
    BY <1>1, <2>2, <2>4
<1>6. P(CHOOSE f : P(f))
  <2> HIDE DEF P, g
  <2>1. QED
    BY <1>5
<1>7. PICK f : f = CHOOSE h : P(h)
  OBVIOUS
<1>8. \A s \in Parts : f[s] = FoldStep(f, e, s)
  <2>1. P(f)
    <3> HIDE DEF P
    <3>1. QED
      BY ONLY <1>6, <1>7
  <2> HIDE DEF Parts, e
  <2>2. QED
    BY <1>1, <2>1
<1>9. f[{}] = 1 /\ f[{1}] = f[{}] * m /\ f[{1, 2}] = f[{1}] * n
  <2> HIDE DEF e
  <2>1. {} \in Parts /\ {1} \in Parts /\ {1, 2} \in Parts
    OBVIOUS
  <2> HIDE DEF Parts
  <2>2. QED
    BY ONLY <1>4, <1>8, <2>1
<1>10. f[DOMAIN e] = m * n
  <2>1. f[{1}] = m
    BY <1>9
  <2> HIDE DEF e
  <2>2. QED
    BY ONLY <1>1, <1>9, <2>1
<1>11. Numel(e) = (CHOOSE h : P(h))[DOMAIN e]
  BY NumelIs, Zenon
<1> HIDE DEF P
<1>12. Numel(e) = m * n
  BY ONLY <1>7, <1>10, <1>11
<1>13. QED
  BY <1>12

\* The rows from a to b of a buffer of m rows of n cells.
FromTo(m, n, a, b) == Slice(Create(<<m, n>>), 1, a, b)

\* Where a slice of rows starts and how many cells it has.
LEMMA SliceOfRows ==
  ASSUME NEW m \in Nat, NEW n \in Nat, NEW a \in Nat, NEW b \in Nat, a <= b,
         NEW t, t = FromTo(m, n, a, b)
  PROVE  t.offset = a * n /\ Numel(t.shape) = (b - a) * n
<1>1. RowMajor(<<m, n>>)[1] = n
  <2>1. PICK s : s = <<m, n>>
    OBVIOUS
  <2>2. s \in Seq(Nat) /\ Len(s) = 2 /\ s[2] = n /\ 1 \in DOMAIN s /\ 1 + 1 = 2
    BY <2>1
  <2>3. SubSeq(s, 2, 2) = <<s[2]>>
    <3>1. PICK u : u = SubSeq(s, 2, 2)
      OBVIOUS
    <3>2. 2 \in 1 .. Len(s) + 1 /\ 2 \in 2 - 1 .. Len(s) /\ 2 - 2 + 1 = 1 /\ 2 + 1 - 1 = 2
      BY ONLY <2>2
    <3>3. /\ SubSeq(s, 2, 2) \in Seq(Nat) /\ Len(SubSeq(s, 2, 2)) = 2 - 2 + 1
          /\ \A i \in 1 .. 2 - 2 + 1 : SubSeq(s, 2, 2)[i] = s[2 + i - 1]
      BY ONLY <2>2, <3>2, SubSeqProperties
    <3>4. u \in Seq(Nat) /\ Len(u) = 1 /\ u[1] = s[2]
      BY ONLY <3>1, <3>2, <3>3
    <3>5. u = <<u[1]>>
      BY ONLY <3>4
    <3>6. QED
      BY ONLY <3>1, <3>4, <3>5
  <2>4. RowMajor(s)[1] = Numel(SubSeq(s, 1 + 1, Len(s)))
    BY <2>2 DEF RowMajor
  <2>5. QED
    BY <2>1, <2>2, <2>3, <2>4, NumelOfOne
<1>2. PICK c : c = Create(<<m, n>>)
  OBVIOUS
<1>3. c = [shape |-> <<m, n>>, strides |-> RowMajor(<<m, n>>), offset |-> 0]
  BY <1>2 DEF Create
<1>4. Slice(c, 1, a, b) = [c EXCEPT !.shape[1] = b - a, !.offset = @ + a * c.strides[1]]
  BY DEF Slice
<1>5. Slice(c, 1, a, b).offset = 0 + a * c.strides[1]
  BY <1>3, <1>4
<1>6. Slice(c, 1, a, b).shape = <<b - a, n>>
  <2>1. Slice(c, 1, a, b).shape = [c.shape EXCEPT ![1] = b - a]
    BY <1>3, <1>4
  <2>2. c.shape = <<m, n>>
    BY <1>3
  <2>3. \A x : [<<x, n>> EXCEPT ![1] = b - a] = <<b - a, n>>
    OBVIOUS
  <2>4. QED
    BY <2>1, <2>2, <2>3
<1>7. c.strides[1] = n
  BY <1>1, <1>3
<1>8. Slice(c, 1, a, b).offset = a * n
  <2>1. PICK x \in Nat : x = a * n
    OBVIOUS
  <2>2. Slice(c, 1, a, b).offset = 0 + x
    BY <1>5, <1>7, <2>1
  <2>3. QED
    BY <2>1, <2>2
<1>9. Numel(<<b - a, n>>) = (b - a) * n
  <2>1. b - a \in Nat
    OBVIOUS
  <2>2. QED
    BY <2>1, NumelOfTwo
<1>10. QED
  BY <1>2, <1>6, <1>8, <1>9 DEF FromTo

\* Where the rows of a request begin in the packed buffers.
LEMMA SliceStart ==
  ASSUME NEW m \in Nat, NEW n \in Nat, NEW a \in Nat, NEW b \in Nat, a <= b
  PROVE  FromTo(m, n, a, b).offset = a * n
  BY SliceOfRows

\* How many of them there are.
LEMMA SliceSize ==
  ASSUME NEW m \in Nat, NEW n \in Nat, NEW a \in Nat, NEW b \in Nat, a <= b
  PROVE  Numel(FromTo(m, n, a, b).shape) = (b - a) * n
  BY SliceOfRows

\* The slice of a request begins behind the rows before it.
LEMMA RowsOfRequest ==
  ASSUME NEW c \in Calls, NEW r \in 1 .. Len(c.reqs), NEW t,
         t = Slice(Create(<<cu_seqlens_q(c, Len(c.reqs)), c.nhead>>), 1,
                   cu_seqlens_q(c, r - 1), cu_seqlens_q(c, r))
  PROVE  /\ t.offset = RowsBefore(c, r - 1) * c.nhead
         /\ Numel(t.shape) = c.reqs[r].q_len * c.nhead
<1>1. PICK m, n, a, b, q : /\ m = RowsBefore(c, Len(c.reqs)) /\ n = c.nhead
                           /\ a = RowsBefore(c, r - 1) /\ b = RowsBefore(c, r)
                           /\ q = c.reqs[r].q_len
  OBVIOUS
<1>2. r - 1 \in 0 .. Len(c.reqs) /\ r \in 0 .. Len(c.reqs) /\ Len(c.reqs) \in 0 .. Len(c.reqs)
  BY CallIs
<1>3. m \in Nat /\ n \in Nat /\ a \in Nat /\ b \in Nat /\ b = a + q /\ q \in Nat
  BY <1>1, <1>2, CallIs, RequestIs, RowsBeforeIs
<1>4. a <= b /\ b - a = q
  BY ONLY <1>3
<1>7. /\ cu_seqlens_q(c, Len(c.reqs)) = m /\ cu_seqlens_q(c, r - 1) = a
      /\ cu_seqlens_q(c, r) = b
  BY <1>1, <1>2, RowsBeforeIs
<1>5. t = FromTo(m, n, a, b)
  BY <1>1, <1>7 DEF FromTo
<1>6. t.offset = a * n /\ Numel(t.shape) = q * n
  <2>1. m \in Nat /\ n \in Nat /\ a \in Nat /\ b \in Nat /\ a <= b
    BY ONLY <1>3, <1>4
  <2>2. FromTo(m, n, a, b).offset = a * n
    BY ONLY <2>1, SliceStart
  <2>3. Numel(FromTo(m, n, a, b).shape) = (b - a) * n
    BY ONLY <2>1, SliceSize
  <2>4. QED
    BY ONLY <1>4, <1>5, <2>2, <2>3
<1>8. QED
  BY ONLY <1>1, <1>6

\* The packed queries of a request.
LEMMA QueriesAre ==
  ASSUME NEW c \in Calls, NEW r \in 1 .. Len(c.reqs),
         NEW i \in 0 .. c.reqs[r].q_len - 1, NEW h \in 0 .. c.nhead - 1
  PROVE  /\ (RowsBefore(c, r - 1) + i) * c.nhead + h
              \in 0 .. RowsBefore(c, Len(c.reqs)) * c.nhead - 1
         /\ Queries(c)[(RowsBefore(c, r - 1) + i) * c.nhead + h] = <<r, i, h>>
<1>0. PICK q : q = c.reqs[r].q_len
  OBVIOUS
<1>1. PICK m, n, a, b, N : /\ m = RowsBefore(c, Len(c.reqs)) /\ n = c.nhead
                           /\ a = RowsBefore(c, r - 1) /\ b = RowsBefore(c, r)
                           /\ N = Len(c.reqs)
  OBVIOUS
<1>2. N \in Nat /\ r \in 1 .. N /\ r - 1 \in 0 .. N /\ r \in 0 .. N /\ N \in 0 .. N /\ r <= N
  BY <1>1, CallIs
<1>3. /\ m \in Nat /\ n \in Nat \ {0} /\ a \in Nat /\ b \in Nat /\ b <= m
      /\ b = a + q /\ q \in Nat /\ i \in 0 .. q - 1 /\ i \in Nat /\ h \in 0 .. n - 1
  <2>1. n \in Nat \ {0} /\ h \in 0 .. n - 1
    BY <1>1, CallIs
  <2>2. q \in Nat /\ i \in 0 .. q - 1
    BY <1>0, RequestIs
  <2>3. m \in Nat /\ a \in Nat /\ b \in Nat /\ b <= m /\ b = a + q
    <3>1. /\ \A s \in 0 .. N : RowsBefore(c, s) \in Nat
          /\ \A s \in 1 .. N : RowsBefore(c, s) = RowsBefore(c, s - 1) + c.reqs[s].q_len
          /\ \A s, t \in 0 .. N : s <= t => RowsBefore(c, s) <= RowsBefore(c, t)
      BY <1>1, RowsBeforeIs
    <3>2. QED
      BY ONLY <1>0, <1>1, <1>2, <3>1
  <2>4. i \in Nat
    BY ONLY <2>2
  <2>5. QED
    BY ONLY <2>1, <2>2, <2>3, <2>4
<1>4. PICK line : line = a + i
  OBVIOUS
<1>5. line \in 0 .. m - 1 /\ a <= line /\ line < b /\ line - a = i /\ line \in Nat
  BY ONLY <1>3, <1>4
<1>6. PICK x : x = line * n + h
  OBVIOUS
<1>7. x \in 0 .. m * n - 1 /\ x \div n = line /\ x % n = h
  BY ONLY <1>3, <1>5, <1>6, WithinPlace, DivideSum
<1> DEFINE Of(y) == CHOOSE s \in Batch(c) : /\ cu_seqlens_q(c, s - 1) <= y
                                            /\ y < cu_seqlens_q(c, s)
<1>8. Queries(c) = [y \in 0 .. m * n - 1 |->
        <<Of(y \div n), (y \div n) - cu_seqlens_q(c, Of(y \div n) - 1), y % n>>]
  <2>1. cu_seqlens_q(c, Len(c.reqs)) = m
    BY <1>1, <1>2, RowsBeforeIs
  <2>2. Queries(c) = [y \in 0 .. cu_seqlens_q(c, Len(c.reqs)) * c.nhead - 1 |->
          <<Of(y \div c.nhead), (y \div c.nhead) - cu_seqlens_q(c, Of(y \div c.nhead) - 1),
            y % c.nhead>>]
    BY Zenon DEF Queries
  <2> HIDE DEF Of
  <2>3. c.nhead = n
    BY <1>1
  <2>4. QED
    BY ONLY <2>1, <2>2, <2>3
<1>9. Of(line) = r
  <2>1. \A s \in 1 .. N : /\ cu_seqlens_q(c, s - 1) = RowsBefore(c, s - 1)
                          /\ cu_seqlens_q(c, s) = RowsBefore(c, s)
    <3>1. ASSUME NEW s \in 1 .. N PROVE s - 1 \in 0 .. Len(c.reqs) /\ s \in 0 .. Len(c.reqs)
      BY <1>1, <1>2
    <3>2. QED
      BY <3>1, RowsBeforeIs
  <2>2. ASSUME NEW s \in 1 .. N, RowsBefore(c, s - 1) <= line, line < RowsBefore(c, s)
        PROVE  s = r
    <3>1. s - 1 \in 0 .. N /\ s \in 0 .. N /\ s \in Nat /\ r \in Nat
      BY <1>2
    <3>2. RowsBefore(c, s - 1) \in Nat /\ RowsBefore(c, s) \in Nat
      BY <1>1, <3>1, RowsBeforeIs
    <3>3. ~ (s <= r - 1)
      <4>1. SUFFICES ASSUME s <= r - 1 PROVE FALSE
        OBVIOUS
      <4>2. RowsBefore(c, s) <= a
        BY <1>1, <1>2, <3>1, <4>1, RowsBeforeIs
      <4>3. QED
        <5>1. PICK u : u = RowsBefore(c, s)
          OBVIOUS
        <5>2. u \in Nat /\ line < u /\ u <= a
          BY ONLY <2>2, <3>2, <4>2, <5>1
        <5>3. QED
          BY ONLY <1>3, <1>5, <5>2
    <3>4. ~ (r <= s - 1)
      <4>1. SUFFICES ASSUME r <= s - 1 PROVE FALSE
        OBVIOUS
      <4>2. b <= RowsBefore(c, s - 1)
        BY <1>1, <1>2, <3>1, <4>1, RowsBeforeIs
      <4>3. QED
        BY ONLY <1>3, <1>5, <2>2, <3>2, <4>2
    <3>5. QED
      BY ONLY <3>1, <3>3, <3>4
  <2>3. Batch(c) = 1 .. N
    BY <1>1, CallIs
  <2>4. r \in Batch(c) /\ cu_seqlens_q(c, r - 1) <= line /\ line < cu_seqlens_q(c, r)
    BY <1>1, <1>2, <1>5, <2>1, <2>3
  <2>5. \A s \in Batch(c) : cu_seqlens_q(c, s - 1) <= line /\ line < cu_seqlens_q(c, s) => s = r
    BY ONLY <2>1, <2>2, <2>3
  <2>6. QED
    BY ONLY <2>4, <2>5
<1>10. cu_seqlens_q(c, r - 1) = a
  BY <1>1, <1>2, RowsBeforeIs
<1> HIDE DEF Of
<1>11. Queries(c)[x] = <<Of(x \div n), (x \div n) - cu_seqlens_q(c, Of(x \div n) - 1), x % n>>
  BY ONLY <1>7, <1>8
<1>12. Queries(c)[x] = <<r, i, h>>
  BY ONLY <1>5, <1>7, <1>9, <1>10, <1>11
<1>13. QED
  BY ONLY <1>1, <1>4, <1>6, <1>7, <1>12

\* The numbers of request r of a call.
ShapeOf(c, r) == [q_len |-> c.reqs[r].q_len, kv_len |-> c.reqs[r].kv_len,
                  nhead |-> c.nhead, nkvh |-> c.nkvh]

\* A request with rows has the shape that the kernels expect.
LEMMA ShapeIs ==
  ASSUME NEW c \in Calls, Valid(c), NEW r \in 1 .. Len(c.reqs), c.reqs[r].q_len # 0
  PROVE  Shaped(ShapeOf(c, r))
<1>1. c.reqs[r].q_len \in Nat \ {0} /\ c.reqs[r].kv_len \in Nat
  BY RequestIs
<1>2. c.reqs[r].q_len <= c.reqs[r].kv_len
  <2>1. r \in Batch(c)
    BY CallIs
  <2>2. QED
    BY <2>1 DEF Valid, ValidPaged, ValidVarlen
<1>3. c.nhead \in Nat \ {0} /\ c.nkvh \in Nat \ {0} /\ c.nhead % c.nkvh = 0
  BY CallIs
<1>4. QED
  BY <1>1, <1>2, <1>3 DEF Shaped, ShapeOf

\* The fields of the shape of a request.
LEMMA ShapeFields ==
  ASSUME NEW c, NEW r
  PROVE  /\ ShapeOf(c, r).q_len = c.reqs[r].q_len /\ ShapeOf(c, r).kv_len = c.reqs[r].kv_len
         /\ ShapeOf(c, r).nhead = c.nhead /\ ShapeOf(c, r).nkvh = c.nkvh
  BY DEF ShapeOf

\* A key's place is a sequence of numbers.
LEMMA KeyCellIs ==
  ASSUME NEW c \in Calls, Valid(c), NEW r \in 1 .. Len(c.reqs),
         NEW p \in 0 .. c.reqs[r].kv_len - 1, NEW g \in Nat
  PROVE  KeyCell(c, r, p, g) \in Seq(Nat)
<1>1. c.kind \in {"paged", "varlen"} /\ Len(c.reqs) \in Nat /\ r \in Batch(c)
  BY CallIs
<1>2. PICK n, table : n = c.reqs[r].kv_len /\ table = c.reqs[r].table
  OBVIOUS
<1>3. n \in Nat /\ table \in Seq(Nat) /\ Len(table) \in Nat /\ p \in 0 .. n - 1
  BY <1>2, RequestIs
<1>4. CASE c.kind = "varlen"
  <2>1. r \in Nat /\ p \in Nat /\ g \in Nat
    BY <1>1, <1>3
  <2>2. KeyCell(c, r, p, g) = <<r, p, g>>
    BY <1>4 DEF KeyCell
  <2>3. QED
    BY <2>1, <2>2
<1>5. CASE c.kind = "paged"
  <2>1. PICK P, q, m : P = Len(table) /\ q = p \div PageSize /\ m = p % PageSize
    OBVIOUS
  <2>2. n <= P * PageSize
    BY <1>1, <1>2, <1>5, <2>1 DEF Valid, ValidPaged
  <2>3. P \in Nat /\ PageSize \in Nat \ {0} /\ p \in Nat
    BY <1>3, <2>1, PageAssumption
  <2>4. q \in 0 .. P - 1 /\ m \in Nat
    <3>1. PICK x \in Nat : x = P * PageSize
      BY <2>3
    <3>2. p \in 0 .. x - 1
      BY ONLY <1>3, <2>2, <3>1
    <3>3. p \in 0 .. P * PageSize - 1
      BY ONLY <3>1, <3>2
    <3>4. p \div PageSize \in 0 .. P - 1 /\ p % PageSize \in 0 .. PageSize - 1
      BY ONLY <2>3, <3>3, PlaceWithin
    <3>5. QED
      BY ONLY <2>1, <2>3, <3>4
  <2>5. table[q + 1] \in Nat
    <3>1. q + 1 \in 1 .. Len(table)
      BY ONLY <2>1, <2>3, <2>4
    <3>2. QED
      BY ONLY <1>3, <3>1
  <2>6. PICK z \in Nat : z = table[q + 1] * PageSize + m
    <3>1. table[q + 1] * PageSize \in Nat
      BY ONLY <2>3, <2>5
    <3>2. QED
      BY <2>4, <3>1
  <2>7. KeyCell(c, r, p, g) = <<z, g>>
    BY <1>2, <1>5, <2>1, <2>6 DEF KeyCell
  <2>8. QED
    BY <2>7
<1>6. QED
  BY <1>1, <1>4, <1>5

\* A buffer of some cells from 0 on; the scratch buffer is one and gets room.
Buffer(f) == \E n \in Nat : DOMAIN f = 0 .. n - 1

\* There is room for what is asked for.
LEMMA RoomIs ==
  ASSUME NEW f, Buffer(f), NEW n \in Nat, NEW x
  PROVE  /\ Buffer(Scratch(f, n, x))
         /\ \A a \in 0 .. n - 1 : a \in DOMAIN Scratch(f, n, x)
<1>1. CASE n > 0 /\ n - 1 \notin DOMAIN f
  BY <1>1 DEF Scratch, Buffer
<1>2. CASE ~ (n > 0 /\ n - 1 \notin DOMAIN f)
  <2>1. Scratch(f, n, x) = f
    BY <1>2 DEF Scratch
  <2>2. PICK m \in Nat : DOMAIN f = 0 .. m - 1
    BY DEF Buffer
  <2>3. ASSUME NEW a \in 0 .. n - 1 PROVE a \in 0 .. m - 1
    BY <1>2, <2>2
  <2>4. QED
    BY <2>1, <2>2, <2>3
<1>3. QED
  BY <1>1, <1>2

\* What row i of request r attends to with head h.
Sees(c, r, i, h) ==
  {[q |-> <<r, i, h>>, k |-> <<"k", KeyCell(c, r, p, h \div (c.nhead \div c.nkvh))>>,
    v |-> <<"v", KeyCell(c, r, p, h \div (c.nhead \div c.nkvh))>>] :
     p \in 0 .. c.reqs[r].kv_len - c.reqs[r].q_len + i}

\* The cell a kernel computes is what the row should see.
LEMMA CellSees ==
  ASSUME NEW c \in Calls, Valid(c), NEW r \in 1 .. Len(c.reqs), c.reqs[r].q_len # 0,
         NEW i \in 0 .. c.reqs[r].q_len - 1, NEW h \in 0 .. c.nhead - 1,
         NEW q, q[i * c.nhead + h] = <<r, i, h>>, NEW k, NEW v,
         \A p \in 0 .. c.reqs[r].kv_len - 1, g \in 0 .. c.nkvh - 1 :
           /\ k[g + p * c.nkvh] = <<"k", KeyCell(c, r, p, g)>>
           /\ v[g + p * c.nkvh] = <<"v", KeyCell(c, r, p, g)>>
  PROVE  Cell(ShapeOf(c, r), q, k, v, i, h) = Sees(c, r, i, h)
<1>1. PICK S : S = ShapeOf(c, r)
  OBVIOUS
<1>2. Shaped(S) /\ S.q_len = c.reqs[r].q_len /\ S.kv_len = c.reqs[r].kv_len
      /\ S.nhead = c.nhead /\ S.nkvh = c.nkvh
  BY <1>1, ShapeIs, ShapeFields
<1>3. PICK g : g = h \div Group(S)
  OBVIOUS
<1>4. g \in 0 .. c.nkvh - 1
  BY <1>2, <1>3, GroupIs
<1>5. h \div (c.nhead \div c.nkvh) = g
  BY <1>2, <1>3 DEF Group
<1>6. PICK last : last = c.reqs[r].kv_len - c.reqs[r].q_len + i
  OBVIOUS
<1>7. \A p \in 0 .. last : p \in 0 .. c.reqs[r].kv_len - 1
  <2>1. PICK Q, KV : Q = c.reqs[r].q_len /\ KV = c.reqs[r].kv_len
    OBVIOUS
  <2>2. Q \in Nat /\ KV \in Nat /\ i \in 0 .. Q - 1 /\ last = KV - Q + i
    BY <1>2, <1>6, <2>1 DEF Shaped
  <2>3. \A p \in 0 .. last : p \in 0 .. KV - 1
    BY ONLY <2>2
  <2>4. QED
    BY ONLY <2>1, <2>3
<1> DEFINE Term(p) == [q |-> <<r, i, h>>, k |-> <<"k", KeyCell(c, r, p, g)>>,
                       v |-> <<"v", KeyCell(c, r, p, g)>>]
           Read(p) == [q |-> q[i * c.nhead + h], k |-> k[g + p * c.nkvh],
                       v |-> v[g + p * c.nkvh]]
<1>8. \A p \in 0 .. last : Read(p) = Term(p)
  BY <1>4, <1>7
<1>9. Cell(S, q, k, v, i, h) = {Read(p) : p \in 0 .. last}
  BY <1>2, <1>3, <1>6 DEF Cell
<1>10. Sees(c, r, i, h) = {Term(p) : p \in 0 .. last}
  BY <1>5, <1>6 DEF Sees
<1> HIDE DEF Term, Read
<1>11. QED
  BY <1>1, <1>8, <1>9, <1>10

\* The packed rows of a request, its keys (or values), and its answers.
Queried(q, c, r) ==
  \A i \in 0 .. c.reqs[r].q_len - 1, h \in 0 .. c.nhead - 1 :
    q[i * c.nhead + h] = <<r, i, h>>
Keyed(name, b, c, r) ==
  \A p \in 0 .. c.reqs[r].kv_len - 1, g \in 0 .. c.nkvh - 1 :
    b[g + p * c.nkvh] = <<name, KeyCell(c, r, p, g)>>
Answered(b, c, r) ==
  \A i \in 0 .. c.reqs[r].q_len - 1, h \in 0 .. c.nhead - 1 :
    b[i * c.nhead + h] = Sees(c, r, i, h)

\* A query and a key make no 0.
LEMMA ScoreIsNotZero ==
  ASSUME NEW c \in Calls, Valid(c), NEW r \in 1 .. Len(c.reqs),
         NEW q, Queried(q, c, r), NEW k, Keyed("k", k, c, r),
         NEW a \in 0 .. c.reqs[r].q_len * c.nhead - 1,
         NEW d \in 0 .. c.reqs[r].kv_len * c.nkvh - 1
  PROVE  [q |-> q[a], k |-> k[d]] # Zero
<1>1. PICK Q, KV, NH, NK : /\ Q = c.reqs[r].q_len /\ KV = c.reqs[r].kv_len
                           /\ NH = c.nhead /\ NK = c.nkvh
  OBVIOUS
<1>2. /\ Q \in Nat /\ KV \in Nat /\ NH \in Nat \ {0} /\ NK \in Nat \ {0} /\ r \in Nat
      /\ a \in 0 .. Q * NH - 1 /\ d \in 0 .. KV * NK - 1
  <2>1. Q \in Nat /\ KV \in Nat /\ NH \in Nat \ {0} /\ NK \in Nat \ {0} /\ r \in Nat
    <3>1. /\ c.reqs[r].q_len \in Nat /\ c.reqs[r].kv_len \in Nat /\ Len(c.reqs) \in Nat
          /\ c.nhead \in Nat \ {0} /\ c.nkvh \in Nat \ {0}
      BY ONLY c \in Calls, r \in 1 .. Len(c.reqs), CallIs, RequestIs
    <3>2. r \in Nat
      BY ONLY <3>1, r \in 1 .. Len(c.reqs)
    <3>3. QED
      BY ONLY <1>1, <3>1, <3>2
  <2>2. a \in 0 .. Q * NH - 1 /\ d \in 0 .. KV * NK - 1
    BY ONLY <1>1, a \in 0 .. c.reqs[r].q_len * c.nhead - 1,
            d \in 0 .. c.reqs[r].kv_len * c.nkvh - 1
  <2>3. QED
    BY ONLY <2>1, <2>2
<1>3. PICK i, h, p, g : i = a \div NH /\ h = a % NH /\ p = d \div NK /\ g = d % NK
  OBVIOUS
<1>4. i \in 0 .. Q - 1 /\ h \in 0 .. NH - 1 /\ a = i * NH + h
  BY ONLY <1>2, <1>3, PlaceWithin
<1>5. p \in 0 .. KV - 1 /\ g \in 0 .. NK - 1 /\ d = p * NK + g
  BY ONLY <1>2, <1>3, PlaceWithin
<1>6. q[a] = <<r, i, h>> /\ i \in Nat /\ h \in Nat
  <2>1. q[i * NH + h] = <<r, i, h>>
    BY <1>1, <1>4 DEF Queried
  <2>2. i \in Nat /\ h \in Nat
    BY ONLY <1>2, <1>4
  <2>3. QED
    BY <1>4, <2>1, <2>2
<1>7. k[d] = <<"k", KeyCell(c, r, p, g)>> /\ g \in Nat
  <2>1. PICK y \in Nat : y = p * NK
    BY <1>2, <1>5
  <2>2. g \in Nat
    BY ONLY <1>2, <1>5
  <2>3. g + y = y + g
    BY <2>2
  <2>4. k[g + p * NK] = <<"k", KeyCell(c, r, p, g)>>
    BY <1>1, <1>5 DEF Keyed
  <2>5. QED
    BY ONLY <1>5, <2>1, <2>2, <2>3, <2>4
<1>8. KeyCell(c, r, p, g) \in Seq(Nat)
  BY <1>1, <1>5, <1>7, KeyCellIs
<1>9. q[a] \in Nat \X Nat \X Nat /\ k[d] \in {"k"} \X Seq(Nat)
  BY <1>2, <1>6, <1>7, <1>8
<1>10. PICK qa, kd : qa = q[a] /\ kd = k[d]
  OBVIOUS
<1>11. [q |-> qa, k |-> kd] \in [q : Nat \X Nat \X Nat, k : {"k"} \X Seq(Nat)]
  BY ONLY <1>9, <1>10
<1>12. QED
  BY <1>10, <1>11, ZeroAssumption

\* On either device every row of a request sees what it should.
LEMMA CellAnswers ==
  ASSUME NEW c \in Calls, Valid(c), NEW r \in 1 .. Len(c.reqs), c.reqs[r].q_len # 0,
         NEW q, Queried(q, c, r), NEW k, Keyed("k", k, c, r), NEW v, Keyed("v", v, c, r),
         NEW i \in 0 .. c.reqs[r].q_len - 1, NEW h \in 0 .. c.nhead - 1
  PROVE  Cell(ShapeOf(c, r), q, k, v, i, h) = Sees(c, r, i, h)
<1>1. q[i * c.nhead + h] = <<r, i, h>>
  BY DEF Queried
<1>2. \A p \in 0 .. c.reqs[r].kv_len - 1, g \in 0 .. c.nkvh - 1 :
        /\ k[g + p * c.nkvh] = <<"k", KeyCell(c, r, p, g)>>
        /\ v[g + p * c.nkvh] = <<"v", KeyCell(c, r, p, g)>>
  BY DEF Keyed
<1>3. QED
  BY <1>1, <1>2, CellSees

\* So does the CPU kernel, and so do the GPU kernels.
LEMMA CpuAnswers ==
  ASSUME NEW c \in Calls, Valid(c), NEW r \in 1 .. Len(c.reqs), c.reqs[r].q_len # 0,
         NEW q, Queried(q, c, r), NEW k, Keyed("k", k, c, r), NEW v, Keyed("v", v, c, r)
  PROVE  Answered(CpuAttention(ShapeOf(c, r), q, k, v), c, r)
<1>1. PICK S : S = ShapeOf(c, r)
  OBVIOUS
<1>2. Shaped(S) /\ S.q_len = c.reqs[r].q_len /\ S.nhead = c.nhead
  BY <1>1, ShapeIs, ShapeFields
<1>3. ASSUME NEW i \in 0 .. c.reqs[r].q_len - 1, NEW h \in 0 .. c.nhead - 1
      PROVE  CpuAttention(S, q, k, v)[i * c.nhead + h] = Sees(c, r, i, h)
  <2>1. Cell(S, q, k, v, i, h) = Sees(c, r, i, h)
    BY <1>1, CellAnswers
  <2>2. i \in 0 .. S.q_len - 1 /\ h \in 0 .. S.nhead - 1
    BY <1>2
  <2>3. CpuAttention(S, q, k, v)[i * S.nhead + h] = Cell(S, q, k, v, i, h)
    BY ONLY <1>2, <2>2, CpuCells
  <2>4. QED
    BY ONLY <1>2, <2>1, <2>3
<1>4. QED
  BY ONLY <1>1, <1>3 DEF Answered

\* On the GPU a row gets the answer of its request, whatever the scratch held.
LEMMA GpuAnswers ==
  ASSUME NEW c \in Calls, Valid(c), NEW r \in 1 .. Len(c.reqs), c.reqs[r].q_len # 0,
         NEW q, Queried(q, c, r), NEW k, Keyed("k", k, c, r), NEW v, Keyed("v", v, c, r),
         NEW room, \A a \in 0 .. ScoreCells(ShapeOf(c, r)) - 1 : a \in DOMAIN room
  PROVE  Answered(Weighted(ShapeOf(c, r), GpuScores(ShapeOf(c, r), q, k, room), v), c, r)
<1>1. PICK S : S = ShapeOf(c, r)
  OBVIOUS
<1>2. Shaped(S) /\ S.q_len = c.reqs[r].q_len /\ S.kv_len = c.reqs[r].kv_len
      /\ S.nhead = c.nhead /\ S.nkvh = c.nkvh
  BY <1>1, ShapeIs, ShapeFields
<1>3. \A a \in 0 .. S.q_len * S.nhead - 1, d \in 0 .. S.kv_len * S.nkvh - 1 :
        [q |-> q[a], k |-> k[d]] # Zero
  <2>1. ASSUME NEW a \in 0 .. c.reqs[r].q_len * c.nhead - 1,
               NEW d \in 0 .. c.reqs[r].kv_len * c.nkvh - 1
        PROVE  [q |-> q[a], k |-> k[d]] # Zero
    BY ScoreIsNotZero
  <2>2. QED
    BY ONLY <1>2, <2>1
<1>4. \A a \in 0 .. ScoreCells(S) - 1 : a \in DOMAIN room
  BY <1>1
<1>5. ASSUME NEW i \in 0 .. c.reqs[r].q_len - 1, NEW h \in 0 .. c.nhead - 1
      PROVE  Weighted(S, GpuScores(S, q, k, room), v)[i * c.nhead + h] = Sees(c, r, i, h)
  <2>1. Cell(S, q, k, v, i, h) = Sees(c, r, i, h)
    BY <1>1, CellAnswers
  <2>2. i \in 0 .. S.q_len - 1 /\ h \in 0 .. S.nhead - 1
    BY <1>2
  <2>3. Weighted(S, GpuScores(S, q, k, room), v)[i * S.nhead + h] = Cell(S, q, k, v, i, h)
    BY ONLY <1>2, <1>3, <1>4, <2>2, GpuCells
  <2>4. QED
    BY ONLY <1>2, <2>1, <2>3
<1>6. QED
  BY ONLY <1>1, <1>5 DEF Answered

-----------------------------------------------------------------------------
\* Serving a request fills its rows and leaves those of the requests before it.
LEMMA AttendFills ==
  ASSUME call \in Calls, Valid(call), NEW r \in 1 .. Len(call.reqs), call.reqs[r].q_len # 0,
         bt_offset = PagesBefore(call, r - 1), Buffer(scratch),
         DOMAIN out = 0 .. RowsBefore(call, Len(call.reqs)) * call.nhead - 1,
         Attend(r, Rowed("k", call, r), Rowed("v", call, r))
  PROVE  /\ DOMAIN out' = DOMAIN out /\ Buffer(scratch')
         /\ \A i \in 0 .. call.reqs[r].q_len - 1, h \in 0 .. call.nhead - 1 :
              out'[(RowsBefore(call, r - 1) + i) * call.nhead + h] = Sees(call, r, i, h)
         /\ \A x \in DOMAIN out :
              x < RowsBefore(call, r - 1) * call.nhead => out'[x] = out[x]
<1>1. PICK c, t, k, v, S, room, start, size :
        /\ c = call
        /\ t = Slice(Create(<<cu_seqlens_q(call, Len(call.reqs)), call.nhead>>), 1,
                     cu_seqlens_q(call, r - 1), cu_seqlens_q(call, r))
        /\ k = Rowed("k", call, r) /\ v = Rowed("v", call, r) /\ S = ShapeOf(call, r)
        /\ room = Scratch(scratch, ScoreCells(S), Garbage)
        /\ start = t.offset /\ size = Numel(t.shape)
  OBVIOUS
<1>2. PICK q : q = [x \in 0 .. Numel(t.shape) - 1 |-> Queries(call)[t.offset + x]]
  OBVIOUS
<1>3. \/ /\ scratch' = GpuScores(S, q, k, room)
         /\ out' = Load(out, t, Weighted(S, GpuScores(S, q, k, room), v))
      \/ /\ scratch' = scratch
         /\ out' = Load(out, t, CpuAttention(S, q, k, v))
  <2>1. \/ /\ scratch' = GpuScores(S, q, k, room)
           /\ out' = Load(out, t, Weighted(S, scratch', v))
        \/ /\ scratch' = scratch
           /\ out' = Load(out, t, CpuAttention(S, q, k, v))
    BY <1>1, <1>2, Zenon DEF Attend, ShapeOf
  <2>2. QED
    BY <2>1
<1>4. PICK nh, Q, m, a : /\ nh = c.nhead /\ Q = c.reqs[r].q_len
                         /\ m = RowsBefore(c, Len(c.reqs)) /\ a = RowsBefore(c, r - 1)
  OBVIOUS
<1>5. /\ c \in Calls /\ Valid(c) /\ r \in 1 .. Len(c.reqs) /\ c.reqs[r].q_len # 0
      /\ bt_offset = PagesBefore(c, r - 1) /\ DOMAIN out = 0 .. m * nh - 1
  BY <1>1, <1>4
<1>6. nh \in Nat \ {0} /\ Q \in Nat /\ m \in Nat /\ a \in Nat
  <2>1. r - 1 \in 0 .. Len(c.reqs) /\ Len(c.reqs) \in 0 .. Len(c.reqs)
    BY <1>5, CallIs
  <2>2. QED
    BY <1>4, <1>5, <2>1, CallIs, RequestIs, RowsBeforeIs
<1>7. start = a * nh /\ size = Q * nh
  BY <1>1, <1>4, RowsOfRequest
<1>8. ASSUME NEW i \in 0 .. Q - 1, NEW h \in 0 .. nh - 1
      PROVE  /\ i * nh + h \in 0 .. size - 1 /\ i * nh + h \in Nat
             /\ start + (i * nh + h) = (a + i) * nh + h
             /\ ((a + i) * nh + h) - start = i * nh + h
             /\ (a + i) * nh + h \in DOMAIN out
             /\ q[i * nh + h] = <<r, i, h>>
  <2>1. PICK x : x = i * nh + h
    OBVIOUS
  <2>2. i \in Nat /\ h \in Nat
    BY <1>6
  <2>3. x \in 0 .. size - 1
    BY ONLY <1>6, <1>7, <2>1, i \in 0 .. Q - 1, h \in 0 .. nh - 1, WithinPlace
  <2>4. x \in Nat
    BY ONLY <2>3
  <2>5. start + x = (a + i) * nh + h /\ ((a + i) * nh + h) - start = x
    <3>1. (a + i) * nh = a * nh + i * nh
      BY ONLY <1>6, <2>2
    <3>2. PICK y \in Nat, z \in Nat : y = a * nh /\ z = i * nh
      BY ONLY <1>6, <2>2
    <3>3. start = y /\ x = z + h /\ (a + i) * nh = y + z
      BY ONLY <1>7, <2>1, <3>1, <3>2
    <3>4. QED
      BY ONLY <2>2, <3>2, <3>3
  <2>6. /\ (a + i) * nh + h \in DOMAIN out
        /\ Queries(c)[(a + i) * nh + h] = <<r, i, h>>
    BY <1>4, <1>5, QueriesAre
  <2>7. q[x] = Queries(c)[start + x]
    BY <1>1, <1>2, <2>3
  <2>8. QED
    BY ONLY <2>1, <2>3, <2>4, <2>5, <2>6, <2>7
<1>9. ScoreCells(S) \in Nat
  <2>1. /\ S.nhead = c.nhead /\ S.q_len = c.reqs[r].q_len /\ S.kv_len = c.reqs[r].kv_len
    BY <1>1, ShapeFields
  <2>2. c.nhead \in Nat /\ c.reqs[r].q_len \in Nat /\ c.reqs[r].kv_len \in Nat
    BY <1>5, CallIs, RequestIs
  <2>3. PICK x \in Nat, y \in Nat, z \in Nat : x = S.nhead /\ y = S.q_len /\ z = S.kv_len
    BY <2>1, <2>2
  <2>4. x * y * z \in Nat
    OBVIOUS
  <2>5. QED
    BY <2>3, <2>4 DEF ScoreCells
<1>10. Buffer(room) /\ \A x \in 0 .. ScoreCells(S) - 1 : x \in DOMAIN room
  BY <1>1, <1>9, RoomIs
<1>11. Queried(q, c, r) /\ Keyed("k", k, c, r) /\ Keyed("v", v, c, r)
  <2>1. ASSUME NEW p \in 0 .. c.reqs[r].kv_len - 1, NEW g \in 0 .. c.nkvh - 1, NEW name
        PROVE  Rowed(name, c, r)[g + p * c.nkvh] = <<name, KeyCell(c, r, p, g)>>
    BY ONLY <1>5, p \in 0 .. c.reqs[r].kv_len - 1, g \in 0 .. c.nkvh - 1, RowedIs
  <2>2. k = Rowed("k", c, r) /\ v = Rowed("v", c, r)
    BY <1>1
  <2>3. Keyed("k", k, c, r) /\ Keyed("v", v, c, r)
    BY ONLY <2>1, <2>2 DEF Keyed
  <2>4. Queried(q, c, r)
    BY <1>4, <1>8 DEF Queried
  <2>5. QED
    BY ONLY <2>3, <2>4
<1>12. /\ Answered(CpuAttention(S, q, k, v), c, r)
       /\ Answered(Weighted(S, GpuScores(S, q, k, room), v), c, r)
  <2>1. S = ShapeOf(c, r) /\ \A x \in 0 .. ScoreCells(ShapeOf(c, r)) - 1 : x \in DOMAIN room
    BY <1>1, <1>10
  <2>2. Answered(CpuAttention(S, q, k, v), c, r)
    BY ONLY <1>5, <1>11, <2>1, CpuAnswers
  <2>3. Answered(Weighted(S, GpuScores(S, q, k, room), v), c, r)
    BY ONLY <1>5, <1>11, <2>1, GpuAnswers
  <2>4. QED
    BY ONLY <2>2, <2>3
<1>13. PICK W : out' = Load(out, t, W) /\ Answered(W, c, r)
  BY <1>3, <1>12
<1>14. out' = [x \in DOMAIN out |-> IF x - start \in 0 .. size - 1 THEN W[x - start] ELSE out[x]]
  BY <1>1, <1>13 DEF Load
<1>15. ASSUME NEW i \in 0 .. Q - 1, NEW h \in 0 .. nh - 1
       PROVE  out'[(a + i) * nh + h] = Sees(c, r, i, h)
  <2>1. PICK x, y : x = (a + i) * nh + h /\ y = i * nh + h
    OBVIOUS
  <2>2. x \in DOMAIN out /\ x - start = y /\ y \in 0 .. size - 1
    BY <1>8, <2>1
  <2>3. W[y] = Sees(c, r, i, h)
    BY <1>4, <1>13, <2>1 DEF Answered
  <2>4. QED
    BY ONLY <1>14, <2>1, <2>2, <2>3
<1>16. ASSUME NEW x \in DOMAIN out, x < a * nh PROVE out'[x] = out[x]
  <2>1. PICK y \in Nat, z \in Nat : y = a * nh /\ z = m * nh
    BY <1>6
  <2>2. x \in 0 .. z - 1 /\ start = y /\ x < y
    BY <1>5, <1>7, <1>16, <2>1
  <2>3. x - start < 0
    BY ONLY <2>1, <2>2
  <2>4. ~ (x - start \in 0 .. size - 1)
    BY ONLY <2>3
  <2>5. QED
    BY ONLY <1>14, <2>4, x \in DOMAIN out
<1>17. Buffer(scratch')
  <2>1. DOMAIN GpuScores(S, q, k, room) = DOMAIN room
    BY DEF GpuScores, Softmax, Scores
  <2>2. CASE scratch' = GpuScores(S, q, k, room)
    BY <1>10, <2>1, <2>2 DEF Buffer
  <2>3. CASE scratch' = scratch
    BY <2>3 DEF Buffer
  <2>4. QED
    BY <1>3, <2>2, <2>3
<1>18. DOMAIN out' = DOMAIN out
  BY <1>14
<1>19. QED
  BY <1>1, <1>4, <1>15, <1>16, <1>17, <1>18

-----------------------------------------------------------------------------
\* The largest scratch of a call is a number.
LEMMA LargestIs ==
  ASSUME NEW c \in Calls, Valid(c)
  PROVE  Largest(c) \in Nat
<1> DEFINE Cells(r) == ScoreCells([q_len |-> c.reqs[r].q_len, kv_len |-> c.reqs[r].kv_len,
                                   nhead |-> c.nhead])
<1>1. PICK n : n = Len(c.reqs)
  OBVIOUS
<1>2. n \in Nat /\ Batch(c) = 1 .. n /\ 1 \in 1 .. n
  <2>1. n \in Nat /\ Batch(c) = 1 .. n
    BY <1>1, CallIs
  <2>2. c.reqs # << >>
    BY CallIs DEF Valid, ValidPaged, ValidVarlen
  <2>3. n # 0
    <3>1. c.reqs \in Seq([q_len : Nat, kv_len : Nat, table : Seq(Nat)])
      BY CallAssumption DEF BatchCall
    <3>2. PICK s, R : s = c.reqs /\ R = [q_len : Nat, kv_len : Nat, table : Seq(Nat)]
      OBVIOUS
    <3>3. s \in Seq(R) /\ s # << >> /\ n = Len(s)
      BY <1>1, <2>2, <3>1, <3>2
    <3>4. QED
      BY ONLY <3>3, EmptySeq
  <2>4. QED
    BY ONLY <2>1, <2>3
<1>3. ASSUME NEW r \in 1 .. n PROVE Cells(r) \in Nat
  <2>1. c.reqs[r].q_len \in Nat /\ c.reqs[r].kv_len \in Nat /\ c.nhead \in Nat
    BY <1>1, CallIs, RequestIs
  <2>2. PICK x \in Nat, y \in Nat, z \in Nat :
          x = c.nhead /\ y = c.reqs[r].q_len /\ z = c.reqs[r].kv_len
    BY <2>1
  <2>3. x * y * z \in Nat
    OBVIOUS
  <2>4. Cells(r) = x * y * z
    BY <2>2 DEF ScoreCells
  <2>5. QED
    BY ONLY <2>3, <2>4
<1> HIDE DEF Cells
<1>4. PICK w : w = [r \in 1 .. n |-> Cells(r)]
  OBVIOUS
<1>5. \A r \in 1 .. n : w[r] \in Nat /\ w[r] = Cells(r)
  BY ONLY <1>3, <1>4
<1>6. PICK S : S = {Cells(r) : r \in Batch(c)}
  OBVIOUS
<1>7. S \in SUBSET Nat /\ S # {}
  BY ONLY <1>2, <1>3, <1>6
<1>8. ASSUME NEW r \in 1 .. n PROVE Cells(r) <= Total(w, n)
  <2>1. \A i \in 1 .. n : w[i] \in Nat
    BY ONLY <1>5
  <2>2. /\ \A i \in 0 .. n : Total(w, i) \in Nat
        /\ \A i \in 1 .. n : Total(w, i) = Total(w, i - 1) + w[i]
    BY ONLY <1>2, <2>1, TotalIs
  <2>3. r \in 0 .. n /\ n \in 0 .. n /\ r <= n /\ r - 1 \in 0 .. n
    BY ONLY <1>2, r \in 1 .. n
  <2>4. Total(w, r) <= Total(w, n)
    BY ONLY <1>2, <2>1, <2>3, TotalGrows
  <2>5. PICK x, y, z, u : x = Total(w, r) /\ y = Total(w, r - 1) /\ z = w[r] /\ u = Total(w, n)
    OBVIOUS
  <2>6. x \in Nat /\ y \in Nat /\ z \in Nat /\ u \in Nat /\ x = y + z /\ x <= u
    BY ONLY <1>5, <2>2, <2>3, <2>4, <2>5, r \in 1 .. n
  <2>7. z <= u
    BY ONLY <2>6
  <2>8. QED
    BY ONLY <1>5, <2>5, <2>7, r \in 1 .. n
<1>9. \E m \in S : \A x \in S : x <= m
  <2>1. PICK u : u = Total(w, n)
    OBVIOUS
  <2>2. u \in Nat
    <3>1. n \in 0 .. n /\ \A i \in 1 .. n : w[i] \in Nat
      BY ONLY <1>2, <1>5
    <3>2. QED
      BY ONLY <1>2, <2>1, <3>1, TotalIs
  <2>3. \A x \in S : x <= u
    BY ONLY <1>2, <1>6, <1>8, <2>1
  <2>4. Max(S) \in S /\ \A x \in S : x <= Max(S)
    BY ONLY <1>7, <2>2, <2>3, MaxOfNats
  <2>5. QED
    BY ONLY <2>4
<1>10. Largest(c) = CHOOSE m \in S : \A x \in S : x <= m
  BY <1>6, Zenon DEF Largest, Cells
<1>11. QED
  BY ONLY <1>7, <1>9, <1>10

\* What holds between the actions of a call.
AttnInv ==
  /\ Buffer(scratch)
  /\ call = NoCall => served = 0 /\ bt_offset = 0
  /\ call # NoCall =>
       /\ call \in Calls /\ Valid(call) /\ served \in 0 .. Len(call.reqs)
       /\ bt_offset = PagesBefore(call, served)
       /\ DOMAIN out = 0 .. RowsBefore(call, Len(call.reqs)) * call.nhead - 1

\* The rows told to the reader.
Told == [r \in 1 .. served |-> RowsOf(r)]

\* Taking a call and returning from it.
LEMMA TakeImplements ==
  ASSUME AttnInv, NEW c \in Calls, Take(c)
  PROVE  AttnInv' /\ Causal!Take
<1>1. /\ call = NoCall /\ Valid(c) /\ call' = c /\ served' = 0 /\ bt_offset' = 0
      /\ out' = [o \in 0 .. cu_seqlens_q(c, Len(c.reqs)) * c.nhead - 1 |-> Garbage]
      /\ scratch' = IF c.kind = "varlen" /\ c.device = "gpu"
                    THEN Scratch(scratch, Largest(c), Garbage) ELSE scratch
  BY DEF Take
<1>2. Buffer(scratch')
  <2>1. Buffer(scratch) /\ Largest(c) \in Nat
    BY <1>1, LargestIs DEF AttnInv
  <2>2. Buffer(Scratch(scratch, Largest(c), Garbage))
    BY ONLY <2>1, RoomIs
  <2>3. CASE c.kind = "varlen" /\ c.device = "gpu"
    <3>1. scratch' = Scratch(scratch, Largest(c), Garbage)
      BY <1>1, <2>3
    <3>2. QED
      BY ONLY <2>2, <3>1 DEF Buffer
  <2>4. CASE ~ (c.kind = "varlen" /\ c.device = "gpu")
    <3>1. scratch' = scratch
      BY <1>1, <2>4
    <3>2. QED
      BY ONLY <2>1, <3>1 DEF Buffer
  <2>5. QED
    BY <2>3, <2>4
<1>3. /\ Len(c.reqs) \in Nat /\ RowsBefore(c, Len(c.reqs)) = cu_seqlens_q(c, Len(c.reqs))
      /\ PagesBefore(c, 0) = 0
  <2>1. Len(c.reqs) \in 0 .. Len(c.reqs)
    BY CallIs
  <2>2. QED
    BY <2>1, CallIs, RowsBeforeIs, PagesBeforeIs
<1>4. call' # NoCall
  BY <1>1, CallAssumption
<1>5. AttnInv'
  <2>1. /\ call' \in Calls /\ Valid(call') /\ served' \in 0 .. Len(call'.reqs)
        /\ bt_offset' = PagesBefore(call', served')
    BY <1>1, <1>3
  <2>2. DOMAIN out' = 0 .. RowsBefore(call', Len(call'.reqs)) * call'.nhead - 1
    BY <1>1, <1>3
  <2>3. QED
    BY <1>2, <1>4, <2>1, <2>2 DEF AttnInv
<1>6. Told' = << >>
  <2>1. 1 .. served' = {}
    BY <1>1
  <2>2. QED
    BY ONLY <2>1 DEF Told
<1>7. Causal!Take
  BY <1>1, <1>6 DEF Causal!Take, Told
<1>8. QED
  BY <1>5, <1>7

\* A call that is done is taken from the reader.
LEMMA ReturnImplements ==
  ASSUME AttnInv, Return
  PROVE  AttnInv' /\ Causal!Return
<1>1. /\ call # NoCall /\ served = Len(call.reqs) /\ call' = NoCall /\ served' = 0
      /\ bt_offset' = 0 /\ scratch' = scratch
  BY DEF Return
<1>2. Told' = << >>
  <2>1. 1 .. served' = {}
    BY <1>1
  <2>2. QED
    BY ONLY <2>1 DEF Told
<1>3. Buffer(scratch')
  <2>1. Buffer(scratch)
    BY DEF AttnInv
  <2>2. QED
    BY ONLY <1>1, <2>1 DEF Buffer
<1>4. QED
  BY <1>1, <1>2, <1>3 DEF AttnInv, Causal!Return, Told

\* What serving a request does, with rows or without.
LEMMA ServeFills ==
  ASSUME AttnInv, Serve, NEW r, r = served + 1
  PROVE  /\ DOMAIN out' = DOMAIN out /\ Buffer(scratch')
         /\ \A i \in 0 .. call.reqs[r].q_len - 1, h \in 0 .. call.nhead - 1 :
              out'[(RowsBefore(call, r - 1) + i) * call.nhead + h] = Sees(call, r, i, h)
         /\ \A x \in DOMAIN out :
              x < RowsBefore(call, r - 1) * call.nhead => out'[x] = out[x]
<1>1. call # NoCall /\ served < Len(call.reqs)
  BY DEF Serve
<1>2. /\ call \in Calls /\ Valid(call) /\ served \in 0 .. Len(call.reqs)
      /\ bt_offset = PagesBefore(call, served) /\ Buffer(scratch)
      /\ DOMAIN out = 0 .. RowsBefore(call, Len(call.reqs)) * call.nhead - 1
  BY <1>1 DEF AttnInv
<1>3. r \in 1 .. Len(call.reqs) /\ r - 1 = served
  BY <1>1, <1>2, CallIs
<1>4. IF call.reqs[r].q_len = 0 THEN UNCHANGED <<out, scratch>>
      ELSE AttendPaged(r) \/ AttendVarlen(r)
  BY Zenon DEF Serve
<1>5. CASE call.reqs[r].q_len = 0
  <2>1. out' = out /\ scratch' = scratch
    BY <1>4, <1>5
  <2>2. 0 .. call.reqs[r].q_len - 1 = {}
    BY <1>5
  <2>3. Buffer(scratch')
    BY ONLY <1>2, <2>1 DEF Buffer
  <2>4. QED
    BY <2>1, <2>2, <2>3
<1>6. CASE call.reqs[r].q_len # 0
  <2>1. AttendPaged(r) \/ AttendVarlen(r)
    BY <1>4, <1>6
  <2>2. Attend(r, Rowed("k", call, r), Rowed("v", call, r))
    <3>1. CASE AttendPaged(r)
      <4>1. call.kind = "paged" /\ Attend(r, Gathered("k", call, r), Gathered("v", call, r))
        BY <3>1 DEF AttendPaged
      <4>2. QED
        BY <4>1 DEF Rowed
    <3>2. CASE AttendVarlen(r)
      <4>1. call.kind = "varlen" /\ Attend(r, Block("k", call, r), Block("v", call, r))
        BY <3>2 DEF AttendVarlen
      <4>2. call.kind # "paged"
        BY <4>1
      <4>3. QED
        BY <4>1, <4>2 DEF Rowed
    <3>3. QED
      BY <2>1, <3>1, <3>2
  <2>3. bt_offset = PagesBefore(call, r - 1)
    BY <1>2, <1>3
  <2>4. QED
    BY ONLY <1>2, <1>3, <1>6, <2>2, <2>3, AttendFills
<1>7. QED
  BY <1>5, <1>6

\* A row of a request before r lies below the rows of r.
LEMMA RowBelow ==
  ASSUME NEW c \in Calls, NEW r \in 1 .. Len(c.reqs), NEW s \in 1 .. r - 1,
         NEW i \in 0 .. c.reqs[s].q_len - 1, NEW h \in 0 .. c.nhead - 1
  PROVE  (RowsBefore(c, s - 1) + i) * c.nhead + h < RowsBefore(c, r - 1) * c.nhead
<1>1. PICK N, n, q, a, b, d : /\ N = Len(c.reqs) /\ n = c.nhead /\ q = c.reqs[s].q_len
                              /\ a = RowsBefore(c, s - 1) /\ b = RowsBefore(c, s)
                              /\ d = RowsBefore(c, r - 1)
  OBVIOUS
<1>2. /\ N \in Nat /\ s \in 1 .. N /\ s \in 0 .. N /\ s - 1 \in 0 .. N /\ r - 1 \in 0 .. N
      /\ s <= r - 1
  <2>1. N \in Nat /\ r \in 1 .. N
    BY <1>1, CallIs
  <2>2. QED
    BY ONLY <2>1, s \in 1 .. r - 1
<1>3. q \in Nat /\ n \in Nat \ {0} /\ i \in 0 .. q - 1 /\ h \in 0 .. n - 1
  <2>1. q \in Nat /\ n \in Nat \ {0}
    BY <1>1, <1>2, CallIs, RequestIs
  <2>2. QED
    BY <1>1, <2>1
<1>4. a \in Nat /\ b \in Nat /\ d \in Nat /\ b = a + q /\ b <= d
  <2>1. /\ \A t \in 0 .. N : RowsBefore(c, t) \in Nat
        /\ \A t \in 1 .. N : RowsBefore(c, t) = RowsBefore(c, t - 1) + c.reqs[t].q_len
        /\ \A t, u \in 0 .. N : t <= u => RowsBefore(c, t) <= RowsBefore(c, u)
    BY <1>1, RowsBeforeIs
  <2>2. QED
    BY ONLY <1>1, <1>2, <2>1
<1>5. PICK line : line = a + i
  OBVIOUS
<1>6. line \in 0 .. d - 1
  BY ONLY <1>3, <1>4, <1>5
<1>7. line * n + h \in 0 .. d * n - 1
  BY ONLY <1>3, <1>4, <1>6, WithinPlace
<1>8. PICK x, y : x = line * n + h /\ y = d * n
  OBVIOUS
<1>9. y \in Nat
  BY ONLY <1>3, <1>4, <1>8
<1>10. x < y
  BY ONLY <1>7, <1>8, <1>9
<1>11. QED
  BY ONLY <1>1, <1>5, <1>8, <1>10

\* Serving a request is what was promised of it.
LEMMA ServeImplements ==
  ASSUME AttnInv, Serve
  PROVE  AttnInv' /\ Causal!Serve
<1>1. PICK r : r = served + 1
  OBVIOUS
<1>2. /\ call # NoCall /\ served < Len(call.reqs) /\ served' = served + 1 /\ call' = call
      /\ bt_offset' = bt_offset + Len(call.reqs[r].table)
  BY <1>1, Zenon DEF Serve
<1>3. /\ call \in Calls /\ Valid(call) /\ served \in 0 .. Len(call.reqs)
      /\ bt_offset = PagesBefore(call, served)
      /\ DOMAIN out = 0 .. RowsBefore(call, Len(call.reqs)) * call.nhead - 1
  BY <1>2 DEF AttnInv
<1>4. /\ Len(call.reqs) \in Nat /\ r \in 1 .. Len(call.reqs) /\ r - 1 = served
      /\ r \in 0 .. Len(call.reqs)
  BY <1>1, <1>2, <1>3, CallIs
<1>5. /\ DOMAIN out' = DOMAIN out /\ Buffer(scratch')
      /\ \A i \in 0 .. call.reqs[r].q_len - 1, h \in 0 .. call.nhead - 1 :
           out'[(RowsBefore(call, r - 1) + i) * call.nhead + h] = Sees(call, r, i, h)
      /\ \A x \in DOMAIN out :
           x < RowsBefore(call, r - 1) * call.nhead => out'[x] = out[x]
  BY <1>1, ServeFills
<1>6. AttnInv'
  <2>1. bt_offset' = PagesBefore(call, r)
    BY <1>2, <1>3, <1>4, PagesBeforeIs
  <2>2. call' \in Calls /\ Valid(call') /\ call' # NoCall
    BY <1>2, <1>3
  <2>3. served' \in 0 .. Len(call'.reqs) /\ bt_offset' = PagesBefore(call', served')
    BY <1>1, <1>2, <1>4, <2>1
  <2>4. DOMAIN out' = 0 .. RowsBefore(call', Len(call'.reqs)) * call'.nhead - 1
    BY <1>2, <1>3, <1>5
  <2>5. QED
    BY ONLY <1>5, <2>2, <2>3, <2>4 DEF AttnInv, Buffer
<1> DEFINE Cells(s) == (0 .. call.reqs[s].q_len - 1) \X (0 .. call.nhead - 1)
<1>7. \A s \in 1 .. r : cu_seqlens_q(call, s - 1) = RowsBefore(call, s - 1)
  <2>1. ASSUME NEW s \in 1 .. r PROVE s - 1 \in 0 .. Len(call.reqs)
    BY <1>4
  <2>2. QED
    BY <1>3, <2>1, RowsBeforeIs
<1>8. ASSUME NEW s \in 1 .. served PROVE RowsOf(s)' = RowsOf(s)
  <2>1. s \in 1 .. r - 1 /\ s \in 1 .. r /\ s \in 1 .. Len(call.reqs)
    BY <1>4
  <2>2. ASSUME NEW i \in 0 .. call.reqs[s].q_len - 1, NEW h \in 0 .. call.nhead - 1
        PROVE  out'[(cu_seqlens_q(call, s - 1) + i) * call.nhead + h]
                 = out[(cu_seqlens_q(call, s - 1) + i) * call.nhead + h]
    <3>1. PICK x : x = (RowsBefore(call, s - 1) + i) * call.nhead + h
      OBVIOUS
    <3>2. x < RowsBefore(call, r - 1) * call.nhead
      BY ONLY <1>3, <1>4, <2>1, <3>1, i \in 0 .. call.reqs[s].q_len - 1,
              h \in 0 .. call.nhead - 1, RowBelow
    <3>3. x \in DOMAIN out
      BY ONLY <1>3, <2>1, <3>1, i \in 0 .. call.reqs[s].q_len - 1,
              h \in 0 .. call.nhead - 1, QueriesAre
    <3>4. out'[x] = out[x]
      BY ONLY <1>5, <3>2, <3>3
    <3>5. QED
      BY ONLY <1>7, <2>1, <3>1, <3>4
  <2>3. RowsOf(s) = [x \in Cells(s) |->
                       out[(cu_seqlens_q(call, s - 1) + x[1]) * call.nhead + x[2]]]
    BY DEF RowsOf
  <2>4. RowsOf(s)' = [x \in Cells(s) |->
                        out'[(cu_seqlens_q(call, s - 1) + x[1]) * call.nhead + x[2]]]
    BY <1>2 DEF RowsOf
  <2>5. ASSUME NEW x \in Cells(s)
        PROVE  out'[(cu_seqlens_q(call, s - 1) + x[1]) * call.nhead + x[2]]
                 = out[(cu_seqlens_q(call, s - 1) + x[1]) * call.nhead + x[2]]
    BY <2>2
  <2> HIDE DEF Cells
  <2>6. QED
    BY ONLY <2>3, <2>4, <2>5
<1>9. RowsOf(r)' = Causal!Rows(r)
  <2>1. r \in 1 .. r
    BY <1>4
  <2>2. RowsOf(r)' = [x \in Cells(r) |->
                        out'[(RowsBefore(call, r - 1) + x[1]) * call.nhead + x[2]]]
    <3>1. RowsOf(r)' = [x \in Cells(r) |->
                          out'[(cu_seqlens_q(call, r - 1) + x[1]) * call.nhead + x[2]]]
      BY <1>2 DEF RowsOf
    <3>2. QED
      BY <1>7, <2>1, <3>1
  <2>3. ASSUME NEW x \in Cells(r)
        PROVE  out'[(RowsBefore(call, r - 1) + x[1]) * call.nhead + x[2]]
                 = Sees(call, r, x[1], x[2])
    BY <1>5
  <2>4. Causal!Rows(r) = [x \in Cells(r) |-> Sees(call, r, x[1], x[2])]
    BY DEF Causal!Rows, Causal!Request, Causal!Attended, Sees
  <2> HIDE DEF Cells
  <2>5. QED
    BY ONLY <2>2, <2>3, <2>4
<1>10. Told' = Append(Told, Causal!Rows(served + 1))
  <2>1. PICK n, R : n = served /\ R = Causal!Rows(served + 1)
    OBVIOUS
  <2>2. n \in Nat /\ served' = n + 1 /\ r = n + 1
    BY <1>1, <1>2, <1>3, <1>4, <2>1
  <2>3. PICK old, new : old = Told /\ new = Told'
    OBVIOUS
  <2>4. old = [s \in 1 .. n |-> RowsOf(s)]
    BY <2>1, <2>3 DEF Told
  <2>5. new = [s \in 1 .. n + 1 |-> RowsOf(s)']
    BY <2>2, <2>3 DEF Told
  <2>6. /\ \A s \in 1 .. n : new[s] = old[s]
        /\ new[n + 1] = R
    BY ONLY <1>1, <1>8, <1>9, <2>1, <2>2, <2>4, <2>5
  <2>7. new = Append(old, R)
    BY ONLY <2>2, <2>4, <2>5, <2>6
  <2>8. QED
    BY ONLY <2>1, <2>3, <2>7
<1>11. Causal!Serve
  BY <1>2, <1>10 DEF Causal!Serve, Told
<1>12. QED
  BY <1>6, <1>11

\* Between calls nothing is served.
LEMMA AttnInit_Inv ==
  AttnInit => AttnInv /\ Causal!Init
<1>1. SUFFICES ASSUME AttnInit PROVE AttnInv /\ Causal!Init
  OBVIOUS
<1>2. call = NoCall /\ served = 0 /\ bt_offset = 0 /\ scratch = << >>
  BY <1>1 DEF AttnInit
<1>3. Buffer(scratch)
  <2>1. DOMAIN scratch = 0 .. 0 - 1
    BY <1>2
  <2>2. QED
    BY <2>1 DEF Buffer
<1>4. Told = << >>
  <2>1. 1 .. served = {}
    BY <1>2
  <2>2. QED
    BY ONLY <2>1 DEF Told
<1>5. QED
  BY <1>2, <1>3, <1>4 DEF AttnInv, Causal!Init, Told

\* Every step of a call is a step of causal attention, or none.
LEMMA AttnStep ==
  ASSUME AttnInv, [AttnNext]_attnVars
  PROVE  /\ AttnInv'
         /\ [Causal!Take \/ Causal!Serve \/ Causal!Return]_<<call, served, Told>>
<1>1. ASSUME NEW c \in Calls, Take(c) PROVE AttnInv' /\ Causal!Take
  BY <1>1, TakeImplements
<1>2. ASSUME Serve PROVE AttnInv' /\ Causal!Serve
  BY <1>2, ServeImplements
<1>3. ASSUME Return PROVE AttnInv' /\ Causal!Return
  BY <1>3, ReturnImplements
<1>4. ASSUME UNCHANGED attnVars PROVE AttnInv' /\ UNCHANGED <<call, served, Told>>
  <2>1. /\ call' = call /\ served' = served /\ bt_offset' = bt_offset /\ out' = out
        /\ scratch' = scratch
    BY <1>4 DEF attnVars
  <2>2. AttnInv'
    BY <2>1 DEF AttnInv, Buffer
  <2>3. Told' = Told
    BY <2>1 DEF Told, RowsOf
  <2>4. QED
    BY <2>1, <2>2, <2>3
<1>5. QED
  BY <1>1, <1>2, <1>3, <1>4 DEF AttnNext

\* On either device, for paged and varlen calls, whatever the requests before
\* left in the page tables and in the scratch buffer, every row attends to its
\* own request's keys and values up to its own position and to nothing else.
THEOREM AttendsCausallyAlways == AttnSpec => AttendsCausally
<1>1. AttnInit => AttnInv /\ Causal!Init
  BY AttnInit_Inv
<1>2. AttnInv /\ [AttnNext]_attnVars
        => AttnInv' /\ [Causal!Take \/ Causal!Serve \/ Causal!Return]_<<call, served, Told>>
  BY AttnStep
<1>3. QED
  BY <1>1, <1>2, PTL DEF AttnSpec, AttendsCausally, Causal!Spec, Told

-----------------------------------------------------------------------------
\* The types of the five machines, and the machines side by side.

\* What a concatenation has is as much as its parts have.
LEMMA FlattenLength ==
  ASSUME NEW S, NEW seqs \in Seq(Seq(S)), NEW w, \A i \in 1 .. Len(seqs) : w[i] = Len(seqs[i])
  PROVE  Len(FlattenSeq(seqs)) = Total(w, Len(seqs))
<1>1. PICK n \in Nat : n = Len(seqs)
  OBVIOUS
<1>2. \A i \in 1 .. n : seqs[i] \in Seq(S) /\ w[i] \in Nat /\ w[i] = Len(seqs[i])
  BY <1>1
<1>3. /\ Total(w, 0) = 0 /\ (\A k \in 0 .. n : Total(w, k) \in Nat)
      /\ \A k \in 1 .. n : Total(w, k) = Total(w, k - 1) + w[k]
  <2>1. \A i \in 1 .. n : w[i] \in Nat
    BY <1>2
  <2>2. QED
    BY ONLY n \in Nat, <2>1, TotalIs
<1>4. CASE n = 0
  <2>1. seqs = << >>
    <3>1. PICK T : T = Seq(S)
      OBVIOUS
    <3>2. seqs \in Seq(T) /\ Len(seqs) = 0
      BY <1>1, <1>4, <3>1
    <3>3. QED
      BY ONLY <3>2, EmptySeq
  <2>2. FlattenSeq(seqs) = << >>
    BY <2>1 DEF FlattenSeq
  <2>3. QED
    BY <1>1, <1>3, <1>4, <2>2
<1>5. CASE n > 0
  <2>1. PICK f : f = CHOOSE h : Flattening(h, seqs, n)
    OBVIOUS
  <2>2. Flattening(f, seqs, n)
    <3>1. \E h : Flattening(h, seqs, n)
      BY FlatteningExists
    <3>2. QED
      BY ONLY <2>1, <3>1
  <2>3. FlattenSeq(seqs) = f[n]
    BY <1>1, <1>5, <2>1 DEF FlattenSeq, Flattening
  <2> DEFINE Fine(k) == f[k] \in Seq(S) /\ Len(f[k]) = Total(w, k)
             Bad == {k \in 1 .. n : ~ Fine(k)}
  <2>4. ASSUME Bad # {} PROVE FALSE
    <3>1. PICK k \in Bad : \A m \in Bad : k <= m
      <4>1. Bad \in SUBSET Nat
        OBVIOUS
      <4> HIDE DEF Bad
      <4>2. Min(Bad) \in Bad /\ \A m \in Bad : Min(Bad) <= m
        BY <2>4, <4>1, MinOfNats
      <4>3. QED
        BY <4>2
    <3>2. k \in 1 .. n /\ ~ Fine(k)
      OBVIOUS
    <3> HIDE DEF Fine
    <3>3. f[k] = IF k = 1 THEN seqs[k] ELSE f[k - 1] \o seqs[k]
      BY <2>2, <3>2 DEF Flattening
    <3>4. Total(w, k) = Total(w, k - 1) + w[k] /\ w[k] \in Nat /\ seqs[k] \in Seq(S)
          /\ w[k] = Len(seqs[k])
      BY <1>2, <1>3, <3>2
    <3>5. CASE k = 1
      <4>1. k - 1 = 0
        BY <3>5
      <4>2. Total(w, k) = w[k]
        BY ONLY <1>3, <3>4, <4>1
      <4>3. QED
        BY ONLY <3>2, <3>3, <3>4, <3>5, <4>2 DEF Fine
    <3>6. CASE k # 1
      <4>1. k - 1 \in 1 .. n /\ ~ (k <= k - 1)
        BY <3>2, <3>6
      <4>2. k - 1 \notin Bad
        BY ONLY <3>1, <4>1
      <4>3. Fine(k - 1)
        BY <4>1, <4>2
      <4>4. PICK a, b : a = f[k - 1] /\ b = seqs[k]
        OBVIOUS
      <4>5. a \in Seq(S) /\ Len(a) = Total(w, k - 1) /\ b \in Seq(S) /\ f[k] = a \o b
        BY <3>3, <3>4, <3>6, <4>3, <4>4 DEF Fine
      <4>6. a \o b \in Seq(S) /\ Len(a \o b) = Len(a) + Len(b)
        BY ONLY <4>5, ConcatProperties
      <4>7. QED
        BY ONLY <3>2, <3>4, <4>4, <4>5, <4>6 DEF Fine
    <3>7. QED
      BY <3>5, <3>6
  <2>5. Fine(n)
    <3>1. n \in 1 .. n
      BY <1>5
    <3> HIDE DEF Fine
    <3>2. QED
      BY <2>4, <3>1
  <2>6. QED
    BY <1>1, <2>3, <2>5
<1>6. QED
  BY <1>4, <1>5

\* The pages before a request are pages of the list.
LEMMA PagesAreListed ==
  ASSUME NEW c \in Calls, NEW r \in 0 .. Len(c.reqs)
  PROVE  PagesBefore(c, r) \in 0 .. Len(BlockTables(c))
<1>1. PICK n, w, seqs : /\ n = Len(c.reqs) /\ w = TableLens(c)
                        /\ seqs = [i \in Batch(c) |-> c.reqs[i].table]
  OBVIOUS
<1>2. n \in Nat /\ Batch(c) = 1 .. n
  BY <1>1, CallIs
<1>3. ASSUME NEW i \in 1 .. n
      PROVE  seqs[i] \in Seq(Nat) /\ w[i] = Len(seqs[i]) /\ w[i] \in Nat
  BY <1>1, <1>2, RequestIs
<1>4. seqs \in Seq(Seq(Nat)) /\ Len(seqs) = n
  <2>1. PICK T : T = Seq(Nat)
    OBVIOUS
  <2>2. seqs \in [1 .. n -> T]
    BY <1>1, <1>2, <1>3, <2>1
  <2>3. seqs \in Seq(T) /\ Len(seqs) = n
    BY ONLY <1>2, <2>2
  <2>4. QED
    BY ONLY <2>1, <2>3
<1>5. Len(FlattenSeq(seqs)) = Total(w, n)
  <2>1. seqs \in Seq(Seq(Nat)) /\ \A i \in 1 .. Len(seqs) : w[i] = Len(seqs[i])
    BY ONLY <1>3, <1>4
  <2>2. Len(FlattenSeq(seqs)) = Total(w, Len(seqs))
    BY ONLY <2>1, FlattenLength
  <2>3. QED
    BY ONLY <1>4, <2>2
<1>6. Total(w, r) <= Total(w, n) /\ Total(w, r) \in Nat /\ Total(w, n) \in Nat
  <2>1. (\A i \in 1 .. n : w[i] \in Nat) /\ r \in 0 .. n /\ n \in 0 .. n /\ r <= n
    <3>1. r \in 0 .. n
      BY ONLY <1>1, r \in 0 .. Len(c.reqs)
    <3>2. n \in 0 .. n /\ r <= n
      BY ONLY <1>2, <3>1
    <3>3. QED
      BY ONLY <1>3, <3>1, <3>2
  <2>2. \A k \in 0 .. n : Total(w, k) \in Nat
    BY ONLY <1>2, <2>1, TotalIs
  <2>3. Total(w, r) <= Total(w, n)
    BY ONLY <1>2, <2>1, TotalGrows
  <2>4. QED
    BY ONLY <2>1, <2>2, <2>3
<1>7. PagesBefore(c, r) = Total(w, r) /\ Len(BlockTables(c)) = Total(w, n)
  BY <1>1, <1>5 DEF PagesBefore, BlockTables
<1>8. QED
  BY ONLY <1>6, <1>7

\* The rest of what is said of a call: how many there were, and that nothing is
\* left of one.
AttnRest == made \in 0 .. MaxCalls /\ (call = NoCall => out = << >>)

\* The types of a call follow from the two.
LEMMA AttnTypes ==
  ASSUME AttnInv, AttnRest
  PROVE  AttnTypeOK
<1>1. CASE call = NoCall
  BY <1>1 DEF AttnInv, AttnRest, AttnTypeOK
<1>2. CASE call # NoCall
  <2>1. /\ call \in Calls /\ served \in 0 .. Len(call.reqs)
        /\ bt_offset = PagesBefore(call, served)
        /\ DOMAIN out = 0 .. RowsBefore(call, Len(call.reqs)) * call.nhead - 1
    BY <1>2 DEF AttnInv
  <2>2. bt_offset \in 0 .. Len(BlockTables(call))
    BY <2>1, PagesAreListed
  <2>3. cu_seqlens_q(call, Len(call.reqs)) = RowsBefore(call, Len(call.reqs))
    <3>1. Len(call.reqs) \in 0 .. Len(call.reqs)
      BY <2>1, CallIs
    <3>2. QED
      BY <2>1, <3>1, RowsBeforeIs
  <2>4. QED
    BY <1>2, <2>1, <2>2, <2>3 DEF AttnRest, AttnTypeOK
<1>3. QED
  BY <1>1, <1>2

\* That rest is kept by every step.
LEMMA AttnRestKept ==
  ASSUME AttnRest, [AttnNext]_attnVars
  PROVE  AttnRest'
<1>1. MaxCalls \in Nat /\ made \in 0 .. MaxCalls
  BY PageAssumption DEF AttnRest
<1>2. ASSUME NEW c \in Calls, Take(c) PROVE AttnRest'
  <2>1. made < MaxCalls /\ call' = c /\ made' = made + 1 /\ c # NoCall
    BY <1>2, CallAssumption DEF Take
  <2>2. made' \in 0 .. MaxCalls
    BY ONLY <1>1, <2>1
  <2>3. QED
    BY ONLY <2>1, <2>2 DEF AttnRest
<1>3. CASE Serve
  BY <1>1, <1>3 DEF Serve, AttnRest
<1>4. CASE Return
  BY <1>1, <1>4 DEF Return, AttnRest
<1>5. CASE UNCHANGED attnVars
  BY <1>1, <1>5 DEF attnVars, AttnRest
<1>6. QED
  BY <1>2, <1>3, <1>4, <1>5 DEF AttnNext

\* Runtimes, current runtimes and storages (context.cpp).
LEMMA ContextTypeCorrect == ContextSpec => []ContextTypeOK
<1>1. ContextInv => ContextTypeOK
  <2>1. SUFFICES ASSUME ContextInv PROVE ContextTypeOK
    OBVIOUS
  <2>2. ASSUME NEW i \in DOMAIN runtimes
        PROVE  runtimes[i].thread \in Threads /\ runtimes[i].device \in Device
    <3>1. runtimes[i] \in Runtime
      BY <2>1 DEF ContextInv, RuntimesInv, ContextTypes
    <3>2. QED
      BY <3>1 DEF Runtime
  <2>3. \A th \in Threads : current[th] \in {0} \cup Made(th)
    BY <2>1 DEF ContextInv, RuntimesInv, CurrentAlive, Made
  <2>4. \A s \in storages : s.runtime \in DOMAIN runtimes
    BY <2>1 DEF ContextInv, Stored
  <2>5. QED
    BY <2>2, <2>3, <2>4 DEF ContextTypeOK
<1>2. QED
  BY <1>1, ContextInvAlways, PTL

\* The tokens chosen and the state of the argmax kernel (argmax, sample ops).
LEMMA SamplerTypeCorrect == SamplerSpec => []SamplerTypeOK
<1>1. SamplerInit => SamplerInv
  BY SamplerInit_Inv
<1>2. SamplerInv /\ [SamplerNext]_samplerVars => SamplerInv'
  BY SamplerInductive
<1>3. SamplerInv => SamplerTypeOK
  <2>1. SUFFICES ASSUME SamplerTypes PROVE SamplerTypeOK
    BY DEF SamplerInv
  <2>2. batch \in Batches /\ row = Len(tokens) /\ row <= Len(batch.rows)
    BY <2>1 DEF SamplerTypes
  <2>3. stride \in 0 .. Idle /\ arrived \subseteq Lane /\ DOMAIN held = Lane
    BY <2>1 DEF SamplerTypes
  <2>4. QED
    BY <2>1, <2>2, <2>3 DEF SamplerTypes, SamplerTypeOK
<1>4. QED
  BY <1>1, <1>2, <1>3, PTL DEF SamplerSpec

\* The cache of a dense session and its position (qwen2.cc).
LEMMA DenseTypeCorrect == DenseSpec => []DenseTypeOK
<1>1. DenseInit => DenseInv
  BY DenseInit_Inv
<1>2. DenseInv /\ [DenseNext]_denseVars => DenseInv'
  BY DenseStep
<1>3. DenseInv => DenseTypeOK
  BY DEF DenseInv, DenseTypeOK, Buffers
<1>4. QED
  BY <1>1, <1>2, <1>3, PTL DEF DenseSpec

\* A call, its output and its place in the page tables (attention ops).
LEMMA AttnTypeCorrect == AttnSpec => []AttnTypeOK
<1>1. AttnInit => AttnInv /\ AttnRest
  BY AttnInit_Inv, PageAssumption DEF AttnInit, AttnRest
<1>2. AttnInv /\ AttnRest /\ [AttnNext]_attnVars => AttnInv' /\ AttnRest'
  BY AttnStep, AttnRestKept
<1>3. AttnInv /\ AttnRest => AttnTypeOK
  BY AttnTypes
<1>4. QED
  BY <1>1, <1>2, <1>3, PTL DEF AttnSpec

\* Side by side, each machine keeps to its own specification.
LEMMA MachinesApart ==
  Spec => ViewsSpec /\ AttnSpec /\ DenseSpec /\ ContextSpec /\ SamplerSpec
<1>1. KernelsInit => ViewsInit /\ AttnInit /\ DenseInit /\ ContextInit /\ SamplerInit
  BY DEF KernelsInit
<1>2. [KernelsNext]_kernelVars
        => /\ [ViewsNext]_viewVars /\ [AttnNext]_attnVars /\ [DenseNext]_denseVars
           /\ [ContextNext]_contextVars /\ [SamplerNext]_samplerVars
  BY DEF KernelsNext, kernelVars
<1>3. QED
  BY <1>1, <1>2, PTL DEF Spec, ViewsSpec, AttnSpec, DenseSpec, ContextSpec, SamplerSpec

\* The machines below the forward keep their types: in particular the views stay
\* inside the storage (tensor.cpp) and a thread's runtime is its own
\* (context.cpp), for all values of the constants.
THEOREM KernelsTypeCorrect == Spec => []KernelsTypeOK
<1>1. Spec => []ViewsTypeOK /\ []AttnTypeOK /\ []DenseTypeOK /\ []ContextTypeOK /\ []SamplerTypeOK
  BY MachinesApart, ViewsTypeCorrect, AttnTypeCorrect, DenseTypeCorrect, ContextTypeCorrect,
     SamplerTypeCorrect
<1>2. ViewsTypeOK /\ AttnTypeOK /\ DenseTypeOK /\ ContextTypeOK /\ SamplerTypeOK => KernelsTypeOK
  BY DEF KernelsTypeOK
<1>3. QED
  BY <1>1, <1>2, PTL
=============================================================================
