---------------------------- MODULE DenseSession ----------------------------
(***************************************************************************)
(* What a session of the model promises: it remembers tokens, and the      *)
(* answer to a forward is that of a causal model of Layers layers run over *)
(* all tokens it remembers.  There is no cache here.                       *)
(***************************************************************************)
EXTENDS Integers, Sequences

CONSTANTS Layers, MaxSeq, Inputs, Failed

VARIABLES open, tokens, answer

\* What row i of the tokens s holds after each number of layers: itself, and
\* what it attends to, in the rows up to its own, at their positions.
Hidden(s) ==
  LET h[l \in 0 .. Layers] ==
        IF l = 0 THEN s
        ELSE LET x == h[l - 1] IN
             [i \in DOMAIN s |->
                <<x[i], {[q |-> <<x[i], i - 1>>, k |-> <<x[j], j - 1>>, v |-> x[j]] :
                           j \in 1 .. i}>>]
  IN  h[Layers]

Output(s) == Hidden(s)[Len(s)]

Open    == ~open /\ open' = TRUE /\ tokens' = << >> /\ UNCHANGED answer
Close   == open /\ open' = FALSE /\ tokens' = << >> /\ UNCHANGED answer
Forward == \E ids \in Inputs :
  /\ open
  /\ IF Len(tokens) + Len(ids) > MaxSeq
     THEN answer' = Failed /\ UNCHANGED tokens
     ELSE tokens' = tokens \o ids /\ answer' = Output(tokens')
  /\ UNCHANGED open
Rewind  == \E len \in 0 .. Len(tokens) :
  open /\ tokens' = SubSeq(tokens, 1, len) /\ UNCHANGED <<open, answer>>
\* A forward in a session of its own.
Infer   == \E ids \in Inputs :
  /\ answer' = IF Len(ids) > MaxSeq THEN Failed ELSE Output(ids)
  /\ UNCHANGED <<open, tokens>>

Init == open = FALSE /\ tokens = << >> /\ answer = Failed

Spec == Init /\ [][Open \/ Close \/ Forward \/ Rewind \/ Infer]_<<open, tokens, answer>>
=============================================================================
