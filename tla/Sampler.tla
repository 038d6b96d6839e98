------------------------------- MODULE Sampler -------------------------------
(***************************************************************************)
(* Choosing the next token of every row of a batch of logits: argmax and   *)
(* random sampling within top_k and top_p, row by row, on either device.   *)
(* The argmax kernel is a block of threads that reduce in shared memory    *)
(* between barriers.                                                       *)
(*                                                                         *)
(* Logits are whole numbers, 1 / temp comes in steps of 1 / One, top_p and  *)
(* the random value in steps of 1 / Grain.  A weight is a whole number, or *)
(* Infinite beyond the range of a float; sums are floats with infinity and *)
(* NaN in them, but not rounded.                                           *)
(***************************************************************************)
EXTENDS Integers, FiniteSets, SequencesExt

CONSTANTS
  Batches,   \* bound: the calls made: op, device, and rows of logits with their parameters
  BlockDim,  \* blockDim of the argmax kernel, a power of 2
  Grain,     \* bound: steps of top_p and of the random value
  One,       \* bound: steps of 1 / temp; temp 1 is One of them
  Exp,       \* expf, of exponents in steps of 1 / One
  MaxFloat,   \* FLT_MAX, as a weight
  Infinite, NotANumber

\* One row of logits with its parameters, and a call; inv_temp is 1 / temp, and
\* 0 for a temp of 0.
SampledRow == [logits : Seq(Int) \ {<< >>}, inv_temp : Nat, top_p : Nat, top_k : Int]
SampleCall == [op : {"argmax", "sample"}, device : {"cpu", "gpu"}, rows : Seq(SampledRow)]

\* pairs[0] after the sort, DeviceReduce::Max.
Best(r) == Max(ToSet(r.logits))

\* Floating-point comparison.
Below(a, b) == /\ NotANumber \notin {a, b}
               /\ a # Infinite /\ (b = Infinite \/ a < b)

\* The exponent of a logit: the CPU divides its distance from the largest by
\* temp; the kernel divides the logit itself, by a temp other than 0 and 1, and
\* subtracts the largest as it is.
Exponent(device, r, x) ==
  LET scale == IF r.inv_temp = 0 THEN One ELSE r.inv_temp
  IN  IF device = "cpu" THEN (x - Best(r)) * scale ELSE x * scale - Best(r) * One

ASSUME SamplerAssumption ==
  /\ Batches \subseteq SampleCall
  /\ \A b \in Batches : \A r \in ToSet(b.rows) : \A x \in ToSet(r.logits) :
       Exponent(b.device, r, x) \in DOMAIN Exp
  \* exp grows, as far as a float can tell; it is 1 at 0
  /\ DOMAIN Exp \subseteq Int /\ 0 \in DOMAIN Exp
  /\ \A e \in DOMAIN Exp : Exp[e] \in Nat \cup {Infinite} /\ (e <= 0 => Exp[e] \in Nat)
  /\ \A e, f \in DOMAIN Exp : e < f =>
       Below(Exp[e], Exp[f]) \/ (Exp[e] = Exp[f] /\ Exp[e] \in {0, Infinite})
  /\ {Grain, One} \subseteq Nat \ {0} /\ MaxFloat \in Nat
  /\ NotANumber \notin Int /\ Infinite \notin Int /\ Infinite # NotANumber
  \* a power of 2 has no odd divisor but 1
  /\ BlockDim \in Nat \ {0}
  /\ \A a, b \in 1 .. BlockDim : a * b = BlockDim => a = 1 \/ a % 2 = 0

VARIABLES
  batch,     \* the call
  row,       \* rows done
  tokens,    \* out_tokens
  stride,    \* s of the kernel: 2 * BlockDim when idle, BlockDim in the scan, 0 at the end
  arrived,   \* threads of the block that wait at the barrier
  held       \* s_idx: a position of the row for each thread, 0 for -1

samplerVars == <<batch, row, tokens, stride, arrived, held>>

Lane   == 0 .. BlockDim - 1
Now    == batch.rows[row + 1]
Logit  == Now.logits
Idle   == 2 * BlockDim
Picked(token) ==
  /\ row' = row + 1 /\ tokens' = Append(tokens, token)
  /\ stride' = Idle /\ UNCHANGED <<batch, arrived, held>>

-----------------------------------------------------------------------------
\* Positions of a row, the largest first; std::sort leaves the order of equal
\* ones open, the radix sort keeps it.
Descending(s) == {o \in [DOMAIN s -> DOMAIN s] :
  IsInjective(o) /\ \A i \in 1 .. Len(s) - 1 : ~Below(s[o[i]], s[o[i + 1]])}
Stable(s) == {o \in Descending(s) :
  \A i \in 1 .. Len(s) - 1 : s[o[i]] = s[o[i + 1]] => o[i] < o[i + 1]}

\* How heavy each logit of a row is, and on the CPU at temperature 0, which
\* divides by 0 there.
Weights(device, r) == [i \in DOMAIN r.logits |-> Exp[Exponent(device, r, r.logits[i])]]
CpuWeights(r) ==
  IF r.inv_temp # 0 THEN Weights("cpu", r)
  ELSE [i \in DOMAIN r.logits |-> IF r.logits[i] = Best(r) THEN NotANumber ELSE 0]

\* Floating-point sums and products.
Plus(a, b) == IF NotANumber \in {a, b} THEN NotANumber
              ELSE IF Infinite \in {a, b} THEN Infinite ELSE a + b
InRange(a) == IF a \in Nat /\ a > MaxFloat THEN Infinite ELSE a
Times(a, n) == IF a = NotANumber \/ (a = Infinite /\ n = 0) THEN NotANumber
               ELSE IF a = Infinite THEN Infinite ELSE a * n
UpTo(a, b) == NotANumber \notin {a, b} /\ ~Below(b, a)
Smaller(a, b) == IF Below(b, a) THEN b ELSE a

\* The running sums of weights w in the order o.  On the CPU the largest counts
\* 1, whatever temp is, and the others no more.
CpuSums(w, o) ==
  LET sum[i \in DOMAIN o] == IF i = 1 THEN Exp[0] ELSE Plus(sum[i - 1], w[o[i]])
  IN  sum
GpuSums(w, o) ==
  LET sum[i \in DOMAIN o] ==
        IF i = 1 THEN InRange(w[o[1]]) ELSE InRange(Plus(sum[i - 1], w[o[i]]))
  IN  sum

\* A top_k of 0 or below, or beyond the row, is the whole row.
Kept(top_k, n) == IF top_k > 0 /\ top_k < n THEN top_k ELSE n

\* Mutant: top_k is forgotten.
LimitByTopP(sums, k, top_p, rand) == Times(sums[Len(sums)], top_p * rand)

\* A random part of what top_k and top_p leave, in steps of 1 / Grain^2.
Limit(sums, k, top_p, rand) ==
  Times(Smaller(Times(sums[k], Grain), Times(sums[Len(sums)], top_p)), rand)

\* The sums that reach the limit.
CpuReaching(sums, limit) ==
  {i \in DOMAIN sums : UpTo(limit, Times(sums[i], Grain * Grain))}
GpuReaching(sums, k, limit) ==
  {i \in 1 .. k : ~Below(Times(sums[i], Grain * Grain), limit)}
First(places, otherwise) ==
  IF places = {} THEN otherwise ELSE CHOOSE i \in places : \A j \in places : i <= j

CpuSample ==
  \E o \in Descending(Logit), rand \in 0 .. Grain - 1 :
    LET n     == Len(Logit)
        sums  == CpuSums(CpuWeights(Now), o)
        limit == Limit(sums, Kept(Now.top_k, n), Now.top_p, rand)
    IN  Picked(o[First(CpuReaching(sums, limit), n)])

GpuSample ==
  \E o \in Stable(Weights("gpu", Now)), rand \in 0 .. Grain :
    LET n     == Len(Logit)
        sums  == GpuSums(Weights("gpu", Now), o)
        k     == Kept(Now.top_k, n)
        limit == Limit(sums, k, Now.top_p, rand)
        i     == First(GpuReaching(sums, k, limit), k + 1)
    IN  Picked(o[IF i > n THEN n ELSE i])

-----------------------------------------------------------------------------
\* The first of the largest logits among some positions, 0 if there are none.
FirstBest(places) ==
  IF places = {} THEN 0
  ELSE CHOOSE i \in places : \A j \in places :
         Logit[i] > Logit[j] \/ (Logit[i] = Logit[j] /\ i <= j)

CpuArgmax == Picked(FirstBest(DOMAIN Logit))

Launch == /\ stride = Idle /\ stride' = BlockDim
          /\ held' = [tid \in Lane |-> 0] /\ arrived' = {}
          /\ UNCHANGED <<batch, row, tokens>>

\* A thread goes through its share of the row.
Scan(tid) ==
  /\ stride = BlockDim /\ tid \notin arrived
  /\ held' = [held EXCEPT ![tid] =
                FirstBest({i \in DOMAIN Logit : (i - 1) % BlockDim = tid})]
  /\ arrived' = arrived \cup {tid}
  /\ UNCHANGED <<batch, row, tokens, stride>>

\* -1 stands with the least float there is.
Better(i, j) == i # 0 /\ (j = 0 \/ Logit[i] > Logit[j])

\* A step of the reduction: the lower half takes from the upper half.
Reduce(tid) ==
  /\ stride \in 1 .. BlockDim - 1 /\ tid \notin arrived
  /\ held' = IF tid < stride /\ Better(held[tid + stride], held[tid])
             THEN [held EXCEPT ![tid] = held[tid + stride]] ELSE held
  /\ arrived' = arrived \cup {tid}
  /\ UNCHANGED <<batch, row, tokens, stride>>

\* __syncthreads: the next step begins when all threads have done this one.
SyncThreads ==
  /\ stride \in 1 .. BlockDim /\ arrived = Lane
  /\ stride' = stride \div 2 /\ arrived' = {}
  /\ UNCHANGED <<batch, row, tokens, held>>

Write == stride = 0 /\ Picked(held[0])

-----------------------------------------------------------------------------
SamplerInit ==
  /\ batch \in Batches /\ row = 0 /\ tokens = << >>
  /\ stride = Idle /\ arrived = {} /\ held = [tid \in Lane |-> 0]

\* argmax_batch and random_sample_batch: one row after the other.
Argmax == /\ batch.op = "argmax"
          /\ \/ batch.device = "cpu" /\ CpuArgmax
             \/ batch.device = "gpu" /\ (Launch \/ SyncThreads \/ Write)
             \/ batch.device = "gpu" /\ \E tid \in Lane : Scan(tid) \/ Reduce(tid)
Sample == /\ batch.op = "sample"
          /\ \/ batch.device = "cpu" /\ CpuSample
             \/ batch.device = "gpu" /\ GpuSample

SamplerNext == row < Len(batch.rows) /\ (Argmax \/ Sample)

SamplerSpec == SamplerInit /\ [][SamplerNext]_samplerVars

-----------------------------------------------------------------------------
SamplerTypeOK ==
  /\ batch \in Batches /\ row = Len(tokens) /\ row <= Len(batch.rows)
  /\ stride \in 0 .. Idle /\ arrived \subseteq Lane /\ DOMAIN held = Lane
  /\ \A i \in DOMAIN tokens : tokens[i] \in DOMAIN batch.rows[i].logits

\* The tokens likelier than a token of a row, and the weight of a set of them.
Ahead(r, token) == {i \in DOMAIN r.logits : r.logits[i] > r.logits[token]}
Mass(device, r, places) == SumFunctionOnSet(Weights(device, r), places)

\* What top_k and top_p leave: fewer than k tokens are likelier, and those do
\* not make up top_p already; one of the likeliest tokens is always left.
Left(device, r, token) ==
  \/ Ahead(r, token) = {}
  \/ /\ Cardinality(Ahead(r, token)) < Kept(r.top_k, Len(r.logits))
     /\ Mass(device, r, Ahead(r, token)) * Grain
          < Mass(device, r, DOMAIN r.logits) * r.top_p

Honoured(i) ==
  LET r == batch.rows[i] IN
  IF batch.op = "argmax" THEN Ahead(r, tokens[i]) = {}
  ELSE Left(batch.device, r, tokens[i])

\* Temperature 0 on the CPU, with two largest logits.
Undefined(i) ==
  LET r == batch.rows[i] IN
  /\ batch.op = "sample" /\ batch.device = "cpu" /\ r.inv_temp = 0
  /\ \E a, b \in DOMAIN r.logits : a # b /\ Ahead(r, a) = {} /\ Ahead(r, b) = {}

\* A row whose weights the kernel cannot sum: one of them is infinite, or their
\* sum is, or they are all 0.
OutOfRange(i) ==
  LET r == batch.rows[i] IN
  /\ batch.op = "sample" /\ batch.device = "gpu"
  /\ \/ Infinite \in ToSet(Weights("gpu", r))
     \/ Mass("gpu", r, DOMAIN r.logits) \notin 1 .. MaxFloat

\* Every row of a batch gets a token of its own: a largest one by argmax,
\* however the threads of the kernel interleave, and one that its top_k and
\* top_p leave by sampling, whatever the sort does with equal logits and
\* whatever the random value; but for a temperature of 0 met by a tie on the
\* CPU, and a temperature that takes the kernel's weights out of range.
ChosenIsAllowed == \A i \in DOMAIN tokens : OutOfRange(i) \/ Undefined(i) \/ Honoured(i)

\* What the documentation says of sampling, without the exceptions.
TopKTopPHonoured == \A i \in DOMAIN tokens : Honoured(i)
=============================================================================
