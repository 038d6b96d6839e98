----------------------------- MODULE MCPagedPool -----------------------------
(***************************************************************************)
(* PagedPool on small instances: prompts, quotas and prune points.         *)
(***************************************************************************)
EXTENDS PagedPool, TLC

CONSTANTS tokA, tokB

\* Prompts of one page per token, two of which share their first page.
TwoPrompts  == {<<tokA, tokB>>, <<tokA>>}
PagePrompts == {<<tokA>>, <<tokA, tokB>>, <<tokB>>}

FullPool    == {<<0, NPages>>}
OneReserved == {<<1, NPages>>}

\* Exploration stops after the first page filed under the wrong tenant.
UntilMisfiled == ~misfiled

\* KVPoolService pushes a quota before the tenant's first acquire: no quota
\* changes once a page or a block is in use.
QuotasFirst ==
  (\E t \in Tenants, q \in Quotas : SetTenantQuota(t, q)) =>
    /\ Len(globalFree) = NPages
    /\ \A x \in Blocks : ~block[x].in_use

TenantSymmetry == Permutations(Tenants)
=============================================================================
