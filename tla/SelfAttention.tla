---------------------------- MODULE SelfAttention ----------------------------
(***************************************************************************)
(* The attention kernels of src/ops/self_attention on flat buffers, which  *)
(* are functions from 0 .. n-1.  The vector of one head in one row is one  *)
(* cell, so that a buffer of shape [rows, heads, dim] has heads cells a    *)
(* row.  What a cell of the output holds is told by where it comes from:   *)
(* the set of the query, key and value cells of each of its terms.         *)
(*                                                                         *)
(* A call S has the numbers q_len, kv_len, nhead and nkvh; q and out have  *)
(* q_len * nhead cells, k and v kv_len * nkvh.                             *)
(***************************************************************************)
EXTENDS Integers

CONSTANT Zero   \* a score set to 0

\* The CPU kernel: row i looks at the keys up to its own position.
CpuAttention(S, q, k, v) ==
  LET past_len   == S.kv_len - S.q_len
      group_size == S.nhead \div S.nkvh
      Out(i, h)  == LET kv_h == h \div group_size IN
        {[q |-> q[i * S.nhead + h], k |-> k[kv_h + pos * S.nkvh],
          v |-> v[kv_h + pos * S.nkvh]] : pos \in 0 .. past_len + i}
  IN  [o \in 0 .. S.q_len * S.nhead - 1 |-> Out(o \div S.nhead, o % S.nhead)]

-----------------------------------------------------------------------------
\* The GPU kernels.  A strided batched product of group g has its matrices at
\* base + batch * stride, their columns ld apart; the scores of head h and row i
\* are the kv_len cells from (h * q_len + i) * kv_len of the scratch buffer.
Group(S) == S.nhead \div S.nkvh
Lanes(S) == (0 .. S.nkvh - 1) \X (0 .. Group(S) - 1) \X (0 .. S.q_len - 1)

ScoreAt(S, g, b, i) == g * Group(S) * S.q_len * S.kv_len + b * S.q_len * S.kv_len
                       + i * S.kv_len

\* Q * K^T, over what the scratch buffer held before.
Scores(S, q, k, scratch) ==
  LET Holds(c, x) == c - ScoreAt(S, x[1], x[2], x[3]) \in 0 .. S.kv_len - 1
  IN  [c \in DOMAIN scratch |->
        IF \E x \in Lanes(S) : Holds(c, x)
        THEN LET x == CHOOSE x \in Lanes(S) : Holds(c, x)
                 g == x[1]
             IN  [q |-> q[g * Group(S) + x[2] + x[3] * S.nhead],
                  k |-> k[g + (c - ScoreAt(S, g, x[2], x[3])) * S.nkvh]]
        ELSE scratch[c]]

\* The softmax kernel: what lies beyond the causal mask becomes 0.
Softmax(S, scores) ==
  [c \in DOMAIN scores |->
     LET row == c \div S.kv_len
         mask_limit == (row % S.q_len) + (S.kv_len - S.q_len)
     IN  IF row < S.nhead * S.q_len /\ c % S.kv_len > mask_limit
         THEN Zero ELSE scores[c]]

\* The scratch buffer between the two products.
GpuScores(S, q, k, scratch) == Softmax(S, Scores(S, q, k, scratch))

\* Scores * V.
Weighted(S, scores, v) ==
  LET Out(g, b, i) ==
        {[q |-> scores[ScoreAt(S, g, b, i) + n].q, k |-> scores[ScoreAt(S, g, b, i) + n].k,
          v |-> v[g + n * S.nkvh]] :
           n \in {m \in 0 .. S.kv_len - 1 : scores[ScoreAt(S, g, b, i) + m] # Zero}}
  IN  [o \in 0 .. S.q_len * S.nhead - 1 |->
        LET x == CHOOSE x \in Lanes(S) : x[1] * Group(S) + x[2] + x[3] * S.nhead = o
        IN  Out(x[1], x[2], x[3])]

\* get_scratch_buffer: a larger request frees the buffer for one with anything
\* in it; otherwise the last contents are there.
Scratch(scratch, size, anything) ==
  IF size > 0 /\ size - 1 \notin DOMAIN scratch
  THEN [c \in 0 .. size - 1 |-> anything] ELSE scratch
ScoreCells(S) == S.nhead * S.q_len * S.kv_len
=============================================================================
