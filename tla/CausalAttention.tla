--------------------------- MODULE CausalAttention ---------------------------
(***************************************************************************)
(* What a batched attention call promises: one request after the other,    *)
(* every row of a request attends, head by head, to the keys and values of *)
(* its own request up to its own position, and to nothing else.            *)
(***************************************************************************)
EXTENDS Integers, Sequences

CONSTANTS Calls, NoCall, KeyCell(_, _, _, _)

VARIABLES call, served, rows

Request(r) == call.reqs[r]

\* Head h of row i of request r; heads share keys and values in groups.
Attended(r, i, h) ==
  LET g == h \div (call.nhead \div call.nkvh) IN
  {[q |-> <<r, i, h>>, k |-> <<"k", KeyCell(call, r, pos, g)>>,
    v |-> <<"v", KeyCell(call, r, pos, g)>>] :
     pos \in 0 .. Request(r).kv_len - Request(r).q_len + i}

Rows(r) == [x \in (0 .. Request(r).q_len - 1) \X (0 .. call.nhead - 1) |->
              Attended(r, x[1], x[2])]

Take == /\ call = NoCall /\ call' \in Calls
        /\ served' = 0 /\ rows' = << >>

Serve == /\ call # NoCall /\ served < Len(call.reqs)
         /\ served' = served + 1
         /\ rows' = Append(rows, Rows(served + 1))
         /\ UNCHANGED call

Return == /\ call # NoCall /\ served = Len(call.reqs)
          /\ call' = NoCall /\ served' = 0 /\ rows' = << >>

Init == call = NoCall /\ served = 0 /\ rows = << >>

Spec == Init /\ [][Take \/ Serve \/ Return]_<<call, served, rows>>
=============================================================================
