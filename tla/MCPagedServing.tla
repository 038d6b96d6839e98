--------------------------- MODULE MCPagedServing ---------------------------
(***************************************************************************)
(* PagedServing on small instances: prompts, quotas and prune points.      *)
(***************************************************************************)
EXTENDS PagedServing, TLC

CONSTANTS tokA, tokB

SharedPrompts  == {<<tokA>>, <<tokA, tokB>>}
TwoPagePrompts == {<<tokA, tokB, tokA>>, <<tokA, tokB>>}
FullPool       == {<<0, NPages>>}

\* Exploration stops where a known defect has struck,
UntilDefect == ~misfiled /\ ~mismatched /\ ~skewed
\* or another one than the position skew.
UntilOtherDefect == ~misfiled /\ ~mismatched

Symmetry == Permutations(Tenants) \cup Permutations(Requests)
=============================================================================
