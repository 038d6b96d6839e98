---------------------------- MODULE DenseForward ----------------------------
(***************************************************************************)
(* The dense session of the C library: a K and a V buffer per layer,       *)
(* filled up to pos, and the forward that runs new tokens through all      *)
(* layers against them.  A row of all heads is one cell.  A hidden state   *)
(* is told by what it was computed from: a token, then after each layer    *)
(* the state before it and what it attended to.                            *)
(***************************************************************************)
EXTENDS Tensor, SelfAttention

CONSTANTS
  Layers,   \* nlayer
  MaxSeq,   \* maxseq
  Inputs,   \* bound: what is fed at a time
  Failed    \* -1

ASSUME ModelAssumption ==
  /\ Layers \in Nat \ {0} /\ MaxSeq \in Nat \ {0}
  \* the wrapper returns before the call when there is nothing to feed
  /\ \A ids \in Inputs : ids \in Seq(ToSet(ids)) /\ ids # << >>

VARIABLES
  open,     \* the session exists
  k_cache,  \* k_cache: by layer and row
  v_cache,  \* v_cache
  pos,      \* pos
  answer    \* what the last forward gave: the state its logits are made from

denseVars == <<open, k_cache, v_cache, pos, answer>>

\* create_weight fills with zeros; a cache is a tensor of MaxSeq rows.
ZeroCache == [layer \in 1 .. Layers |-> [row \in 0 .. MaxSeq - 1 |-> Zero]]
Cache     == Create(<<MaxSeq>>)

DenseInit ==
  /\ open = FALSE /\ pos = 0 /\ answer = Failed
  /\ k_cache = ZeroCache /\ v_cache = ZeroCache

CreateSession ==
  /\ ~open /\ open' = TRUE /\ pos' = 0
  /\ k_cache' = ZeroCache /\ v_cache' = ZeroCache
  /\ UNCHANGED answer

DestroySession ==
  /\ open /\ open' = FALSE /\ pos' = 0
  /\ k_cache' = ZeroCache /\ v_cache' = ZeroCache
  /\ UNCHANGED answer

\* A length beyond pos is ignored.
RewindSession(len) ==
  /\ open /\ len <= pos /\ pos' = len
  /\ UNCHANGED <<open, k_cache, v_cache, answer>>

-----------------------------------------------------------------------------
\* Mutant: positions count from the first token of the forward.
PositionFromZero(at, p) == p

\* The position rope turns row p of a forward by, when pos is at.
Position(at, p) == at + p

\* One layer: queries, keys and values of the new rows, the first two turned by
\* their positions; the keys and values go into the cache from pos on, and the
\* rows attend to the cache up to the last of them.
Layer(at, seq, st, layer) ==
  LET roped == [p \in 0 .. seq - 1 |-> <<st.x[p], Position(at, p)>>]
      slot  == Slice(Cache, 1, at, at + seq)
      full  == Slice(Cache, 1, 0, at + seq)
      k     == Load(st.k[layer], slot, roped)
      v     == Load(st.v[layer], slot, st.x)
      attn  == CpuAttention([q_len |-> seq, kv_len |-> at + seq, nhead |-> 1, nkvh |-> 1],
                 roped, [r \in 0 .. at + seq - 1 |-> k[full.offset + r]],
                 [r \in 0 .. at + seq - 1 |-> v[full.offset + r]])
  IN  [x |-> [p \in 0 .. seq - 1 |-> <<st.x[p], attn[p]>>],
       k |-> [st.k EXCEPT ![layer] = k], v |-> [st.v EXCEPT ![layer] = v]]

\* All layers over the embeddings of ids, from the caches k and v at pos at.
Run(ids, at, k, v) ==
  LET st[layer \in 0 .. Layers] ==
        IF layer = 0 THEN [x |-> [p \in 0 .. Len(ids) - 1 |-> ids[p + 1]], k |-> k, v |-> v]
        ELSE Layer(at, Len(ids), st[layer - 1], layer)
  IN  st[Layers]

\* The logits are made from the last row.
LastRow(st, ids) == st.x[Len(ids) - 1]

Forward(ids) ==
  /\ open
  /\ IF pos + Len(ids) > MaxSeq
     THEN answer' = Failed /\ UNCHANGED <<k_cache, v_cache, pos>>
     ELSE LET st == Run(ids, pos, k_cache, v_cache) IN
          /\ k_cache' = st.k /\ v_cache' = st.v
          /\ answer' = LastRow(st, ids)
          /\ pos' = pos + Len(ids)
  /\ UNCHANGED open

\* A session of its own, destroyed after one forward.
Infer(ids) ==
  /\ answer' = IF Len(ids) > MaxSeq THEN Failed
               ELSE LastRow(Run(ids, 0, ZeroCache, ZeroCache), ids)
  /\ UNCHANGED <<open, k_cache, v_cache, pos>>

DenseNext ==
  \/ CreateSession \/ DestroySession
  \/ \E len \in 0 .. MaxSeq : RewindSession(len)
  \/ \E ids \in Inputs : Forward(ids) \/ Infer(ids)

DenseSpec == DenseInit /\ [][DenseNext]_denseVars

-----------------------------------------------------------------------------
\* The tokens a session remembers are the values of the first layer.
Remembered == INSTANCE DenseSession WITH
  open <- open, answer <- answer,
  tokens <- [i \in 1 .. pos |-> v_cache[1][i - 1]]

DenseTypeOK ==
  /\ pos \in 0 .. MaxSeq
  /\ DOMAIN k_cache = 1 .. Layers /\ DOMAIN v_cache = 1 .. Layers
  /\ \A l \in 1 .. Layers : /\ DOMAIN k_cache[l] = 0 .. MaxSeq - 1
                            /\ DOMAIN v_cache[l] = 0 .. MaxSeq - 1
  /\ ~open => pos = 0

\* However forwards and rewinds follow one another, the answer is that of a
\* model without a cache run over the tokens the session remembers: a row left
\* beyond pos is never attended to, and positions go on from pos.
ForwardFollowsTokens == Remembered!Spec
=============================================================================
