------------------------------ MODULE PagedPool ------------------------------
(***************************************************************************)
(* The bookkeeping of the paged KV pool, src/llaisys/qwen2_paged_pool.cc:  *)
(* pages and their reference counts, the tenants' quotas and free lists,   *)
(* the request blocks with their page tables, and the global prefix index. *)
(*                                                                         *)
(* Every entry point takes pool->mu, loops over pages or tokens, and       *)
(* releases it.  Here an entry point is a call frame: a Begin action takes *)
(* the mutex (call # Idle), one action is one iteration of the loop, and a *)
(* Return action gives the mutex back.  No other entry point runs while a  *)
(* frame is open, which is what the mutex gives.  The wipes and copies     *)
(* that Append leaves for after the unlock stay in "pending" and really do *)
(* interleave with the calls of other requests.                            *)
(*                                                                         *)
(* The chain hash of a page is the cumulative token prefix itself: 64-bit  *)
(* FNV collisions are outside the model.  The stamps of lru_counter are    *)
(* only ever compared, so lastUsed keeps their ranks instead of the stamps *)
(* themselves, which grow for ever.                                        *)
(***************************************************************************)
EXTENDS Integers, FiniteSets, SequencesExt

CONSTANTS
  Tenants,             \* tenant ids, none of them 0
  NoTenant,            \* tenant_id 0: a page nobody has owned yet
  Token,               \* token ids
  NPages,              \* n_pages
  PageSize,            \* page_size, in tokens
  MaxPagesPerRequest,  \* max_pages_per_request
  PrefixTrack,         \* kPrefixTrack, tokens of history a block keeps
  SizeMax,             \* SIZE_MAX
  NBlocks,             \* bound: requests that hold a block at one time
  MaxPos,              \* bound: tokens in one block
  MaxRewind,           \* bound: tokens by which a Commit may step back
  Prompts,             \* bound: the token sequences callers pass
  Quotas               \* bound: the <<reservation_floor, max_pages>> set

ASSUME PoolAssumption ==
  /\ NoTenant \notin Tenants
  /\ NPages \in Nat \ {0} /\ PageSize \in Nat \ {0}
  /\ MaxPagesPerRequest \in Nat \ {0} /\ NBlocks \in Nat \ {0}
  /\ PrefixTrack \in Nat /\ SizeMax \in Nat
  /\ MaxPos \in Nat /\ MaxRewind \in Nat
  /\ Prompts \subseteq Seq(Token)
  /\ Quotas \subseteq Nat \X Nat

Pages  == 0 .. NPages - 1
Blocks == 0 .. NBlocks - 1

VARIABLES
  page,        \* pages: [Pages -> Page]
  quota,       \* reservation_floor and max_pages of each TenantState
  used,        \* its pages_in_use
  free,        \* its lru_free
  block,       \* request_blocks: [Blocks -> RequestBlock]
  globalFree,  \* global_free_list
  index,       \* hash_to_page, a function on the hashes it holds
  lastUsed,    \* the rank of each page's last_used_seq, 0 if never stamped
  call,        \* the frame of the thread that holds pool->mu, or Idle
  pending,     \* per block: wipes and copies Append left for after unlock
  misfiled     \* history: some page went to the free list of a tenant that
               \* does not own it (not in the code; only properties read it)

tenants == <<quota, used, free>>
vars == <<page, tenants, block, globalFree, index, lastUsed, call, pending, misfiled>>

-----------------------------------------------------------------------------
\* The structs.

Hash   == Seq(Token)         \* a chain hash, by what it is the hash of
NoHash == << >>              \* chain_hash 0

Page == [ref_count : Nat, tenant_id : Tenants \cup {NoTenant},
         chain_hash : Hash, sealed : BOOLEAN]

Quota == [reservation_floor : Nat, max_pages : Nat]

RequestBlock == [tenant_id : Tenants \cup {NoTenant}, in_use : BOOLEAN,
                 pos : Nat, page_table : Seq(Pages), prefix : Seq(Token)]

FreshPage  == [ref_count |-> 0, tenant_id |-> NoTenant,
               chain_hash |-> NoHash, sealed |-> FALSE]
EmptyBlock == [tenant_id |-> NoTenant, in_use |-> FALSE, pos |-> 0,
               page_table |-> << >>, prefix |-> << >>]
NewBlock(t) == [tenant_id |-> t, in_use |-> TRUE, pos |-> 0,
                page_table |-> << >>, prefix |-> << >>]

\* Work left for after the unlock: a page to zero, or a page to copy.
Wipe(p)    == [kind |-> "wipe", src |-> p, dst |-> p]
Copy(p, q) == [kind |-> "copy", src |-> p, dst |-> q]
Work == [kind : {"wipe", "copy"}, src : Pages, dst : Pages]

\* Frame fields: "at" is the loop variable of the entry point (chunks
\* matched, pages released, the token cursor, pages visited), "until" the
\* end of an Append, "tokens" the caller's array, "work" its deferred work.
Frame == [op : {"idle", "acquire", "release", "append", "commit"},
          block : Blocks, at : Nat, until : Nat, tokens : Seq(Token),
          work : Seq(Work)]

Idle == [op |-> "idle", block |-> 0, at |-> 0, until |-> 0,
         tokens |-> << >>, work |-> << >>]

-----------------------------------------------------------------------------
\* Helpers.

\* ++lru_counter written to last_used_seq of p.
Stamped(p) == [q \in Pages |-> IF q = p THEN NPages
                               ELSE IF lastUsed[q] > lastUsed[p]
                                    THEN lastUsed[q] - 1 ELSE lastUsed[q]]

\* The hash of the first k pages of a token sequence.
ChainHash(tokens, k) == SubSeq(tokens, 1, k * PageSize)

\* get_or_init_tenant: a quarter of the pool and no floor until
\* SetTenantQuota runs.
DefaultQuota ==
  [reservation_floor |-> 0,
   max_pages |-> IF NPages \div 4 > 1 THEN NPages \div 4 ELSE 1]

\* Mutant: a tenant exactly at its floor gives pages too.
AtFloor(o) == used[o] >= quota[o].reservation_floor

AboveFloor(o) == used[o] > quota[o].reservation_floor

\* The lru_free pages of other tenants that stand above their floor.
Evictable(t) ==
  UNION {ToSet(free[o]) : o \in {x \in Tenants \ {t} : AboveFloor(x)}}

\* The victim has the oldest stamp among the evictable pages.
IsVictim(t, p) ==
  /\ p \in Evictable(t)
  /\ \A q \in Evictable(t) : lastUsed[p] <= lastUsed[q]

UnderQuota(t) == used[t] < quota[t].max_pages

CanAlloc(t) ==
  /\ UnderQuota(t)
  /\ free[t] # << >> \/ globalFree # << >> \/ Evictable(t) # {}

\* alloc_one_page.  "back" holds what the caller files under t afterwards, in
\* the same iteration.  Source 1: the front of the tenant's own free list.
\* The page keeps its owner and its entry in the index.
TakeOwnFree(t, p, back) ==
  /\ free[t] # << >>
  /\ p = Head(free[t])
  /\ free' = [free EXCEPT ![t] = Tail(@) \o back]
  /\ UNCHANGED <<used, globalFree, index>>

\* Mutant: the page stays on the global list.
TakeGlobalNoPop(t, p, back) ==
  /\ free[t] = << >> /\ globalFree # << >> /\ p = Head(globalFree)
  /\ used' = [used EXCEPT ![t] = @ + 1]
  /\ free' = [free EXCEPT ![t] = back]
  /\ UNCHANGED <<globalFree, index>>

\* Mutant: the page is not counted.
TakeGlobalUncounted(t, p, back) ==
  /\ free[t] = << >> /\ globalFree # << >> /\ p = Head(globalFree)
  /\ globalFree' = Tail(globalFree)
  /\ free' = [free EXCEPT ![t] = back]
  /\ UNCHANGED <<used, index>>

\* Source 2: the front of the global free list.
TakeGlobal(t, p, back) ==
  /\ free[t] = << >>
  /\ globalFree # << >>
  /\ p = Head(globalFree)
  /\ globalFree' = Tail(globalFree)
  /\ used' = [used EXCEPT ![t] = @ + 1]
  /\ free' = [free EXCEPT ![t] = back]
  /\ UNCHANGED index

\* Mutant: the entry goes whoever's page it leads to.
IndexWithoutAsking(p) == Restrict(index, DOMAIN index \ {page[p].chain_hash})

\* chain_index_remove_page: drop the entry of p's current hash, if it is p's.
IndexWithout(p) ==
  LET own == {h \in DOMAIN index : h = page[p].chain_hash /\ index[h] = p}
  IN  Restrict(index, DOMAIN index \ own)

\* Source 3: evict the least recently used free page of another tenant that
\* is above its floor.
EvictOther(t, p, back) ==
  /\ free[t] = << >>
  /\ globalFree = << >>
  /\ IsVictim(t, p)
  /\ \E o \in Tenants \ {t} :
       /\ AboveFloor(o)
       /\ p \in ToSet(free[o])
       /\ free' = [free EXCEPT ![o] = RemoveFirst(@, p), ![t] = back]
       /\ used' = [used EXCEPT ![o] = @ - 1, ![t] = @ + 1]
  /\ index' = IndexWithout(p)
  /\ UNCHANGED globalFree

AllocOnePage(t, p, back) ==
  /\ UnderQuota(t)
  /\ \/ TakeOwnFree(t, p, back)
     \/ TakeGlobal(t, p, back)
     \/ EvictOther(t, p, back)
  /\ lastUsed' = Stamped(p)

NeedWipe(t) == free[t] = << >> /\ globalFree = << >>

\* Mutant: Append forgets to set ref_count.
ClaimedUnreferenced(p, t) ==
  [page EXCEPT ![p].sealed = FALSE, ![p].chain_hash = NoHash,
               ![p].tenant_id = IF free[t] = << >> THEN t ELSE @]

\* Mutant: Append forgets to unseal a page it takes over with its old hash.
ClaimedSealed(p, t) ==
  [page EXCEPT ![p].ref_count = 1,
               ![p].tenant_id = IF free[t] = << >> THEN t ELSE @]

\* What Append makes of the page alloc_one_page gave it.
Claimed(p, t) ==
  [page EXCEPT ![p] = [ref_count |-> 1, sealed |-> FALSE, chain_hash |-> NoHash,
                       tenant_id |-> IF free[t] = << >>
                                     THEN t ELSE @.tenant_id]]

Open(op, b, at, until, tokens) ==
  [op |-> op, block |-> b, at |-> at, until |-> until, tokens |-> tokens,
   work |-> << >>]

Return == call' = Idle

-----------------------------------------------------------------------------
Init ==
  /\ page = [p \in Pages |-> FreshPage]
  /\ quota = [t \in Tenants |-> DefaultQuota]
  /\ used = [t \in Tenants |-> 0]
  /\ free = [t \in Tenants |-> << >>]
  /\ block = [b \in Blocks |-> EmptyBlock]
  /\ globalFree = [i \in 1 .. NPages |-> i - 1]
  /\ index = << >>
  /\ lastUsed = [p \in Pages |-> 0]
  /\ call = Idle
  /\ pending = [b \in Blocks |-> << >>]
  /\ misfiled = FALSE

\* A block's caller is sequential: it is inside Append until the deferred
\* work of that Append is done.
MayCall(b) == call = Idle /\ block[b].in_use /\ pending[b] = << >>

\* SetTenantQuota.  A max_pages of 0 means no ceiling.
SetTenantQuota(t, q) ==
  /\ call = Idle
  /\ quota' = [quota EXCEPT ![t] =
                 [reservation_floor |-> q[1],
                  max_pages |-> IF q[2] = 0 THEN SizeMax ELSE q[2]]]
  /\ UNCHANGED <<page, used, free, block, globalFree, index, lastUsed, call, pending, misfiled>>

\* Acquire takes the first slot that is free and has no pages.
FreeSlots == {b \in Blocks : ~block[b].in_use /\ block[b].page_table = << >>}

AcquireBegin(t, tokens) ==
  /\ call = Idle
  /\ FreeSlots # {}
  /\ LET b == Min(FreeSlots) IN
       /\ block' = [block EXCEPT ![b] = NewBlock(t)]
       /\ call' = Open("acquire", b, 0, 0, tokens)
  /\ UNCHANGED <<page, tenants, globalFree, index, lastUsed, pending, misfiled>>

\* The page the next chunk of the prompt matches, as a set of at most one.
Matching ==
  LET h == ChainHash(call.tokens, call.at + 1)
  IN  {p \in Pages : /\ (call.at + 1) * PageSize <= Len(call.tokens)
                     /\ h \in DOMAIN index
                     /\ index[h] = p
                     /\ page[p].sealed}

\* One matched chunk.  A page nobody references leaves its owner's free list
\* and, when the owner is another tenant, changes hands.
AcquireMatch ==
  /\ call.op = "acquire"
  /\ \E p \in Matching :
       LET t == block[call.block].tenant_id
           o == page[p].tenant_id
           unlist == page[p].ref_count = 0 /\ o \in Tenants
           takeover == unlist /\ o # t
       IN  /\ free' = IF unlist THEN [free EXCEPT ![o] = RemoveFirst(@, p)] ELSE free
           /\ used' = IF takeover
                      THEN [used EXCEPT ![o] = IF @ > 0 THEN @ - 1 ELSE @, ![t] = @ + 1]
                      ELSE used
           /\ page' = [page EXCEPT ![p].ref_count = @ + 1,
                                   ![p].tenant_id = IF takeover THEN t ELSE @]
           /\ lastUsed' = Stamped(p)
           /\ block' = [block EXCEPT ![call.block].page_table = Append(@, p)]
  /\ call' = [call EXCEPT !.at = @ + 1]
  /\ UNCHANGED <<quota, globalFree, index, pending, misfiled>>

AcquireReturn ==
  /\ call.op = "acquire"
  /\ Matching = {}
  /\ block' = [block EXCEPT ![call.block].pos = call.at * PageSize]
  /\ Return
  /\ UNCHANGED <<page, tenants, globalFree, index, lastUsed, pending, misfiled>>

ReleaseBegin(b) ==
  /\ MayCall(b)
  /\ call' = Open("release", b, 0, 0, << >>)
  /\ UNCHANGED <<page, tenants, block, globalFree, index, lastUsed, pending, misfiled>>

\* Mutant: the last reference is kept.
UnrefKeepsLast(n) == IF n > 1 THEN n - 1 ELSE n

Unref(n) == IF n > 0 THEN n - 1 ELSE n

\* Mutant: a cached page is kept off the free list.
FreedUnlessSealed(p) == page[p].ref_count <= 1 /\ ~page[p].sealed

\* Mutant: a page with one reference left is filed as free.
FreedEarly(p) == page[p].ref_count <= 2

\* Nobody refers to p once Release has dropped its reference.
Freed(p) == Unref(page[p].ref_count) = 0

\* One page of the table.  The last reference files the page under the tenant
\* that releases it, whoever owns it.
ReleasePage ==
  LET t == block[call.block].tenant_id
      p == block[call.block].page_table[call.at + 1]
  IN
  /\ call.op = "release"
  /\ call.at < Len(block[call.block].page_table)
  /\ page' = [page EXCEPT ![p].ref_count = Unref(@)]
  /\ IF Freed(p)
     THEN /\ free' = [free EXCEPT ![t] = Append(@, p)]
          /\ lastUsed' = Stamped(p)
          /\ misfiled' = (misfiled \/ page[p].tenant_id # t)
     ELSE UNCHANGED <<free, lastUsed, misfiled>>
  /\ call' = [call EXCEPT !.at = @ + 1]
  /\ UNCHANGED <<quota, used, block, globalFree, index, pending>>

ReleaseReturn ==
  /\ call.op = "release"
  /\ call.at = Len(block[call.block].page_table)
  /\ block' = [block EXCEPT ![call.block].in_use = FALSE,
                            ![call.block].page_table = << >>,
                            ![call.block].prefix = << >>,
                            ![call.block].pos = 0]
  /\ Return
  /\ UNCHANGED <<page, tenants, globalFree, index, lastUsed, pending, misfiled>>

AppendBegin(b, n) ==
  /\ MayCall(b)
  /\ n > 0
  /\ call' = Open("append", b, block[b].pos, block[b].pos + n, << >>)
  /\ UNCHANGED <<page, tenants, block, globalFree, index, lastUsed, pending, misfiled>>

\* The loop of Append takes one action per page it touches: after the first
\* token of a page the others of that page change nothing.
Logical == call.at \div PageSize + 1
NextPage == IF Logical * PageSize < call.until
            THEN Logical * PageSize ELSE call.until
Table == block[call.block].page_table
Appending == call.op = "append" /\ call.at < call.until
NeedsPage == Logical > Len(Table)

\* Mutant: the table may grow by one page too many.
TableFullLate == Len(Table) > MaxPagesPerRequest

TableFull == Len(Table) >= MaxPagesPerRequest

\* Mutant: a page of two holders is written in place.
NeedsForkLate == ~NeedsPage /\ page[Table[Logical]].ref_count > 2

NeedsFork == ~NeedsPage /\ page[Table[Logical]].ref_count > 1

AppendNewPage ==
  LET t == block[call.block].tenant_id IN
  /\ Appending /\ NeedsPage
  /\ ~TableFull
  /\ \E p \in Pages :
       /\ AllocOnePage(t, p, << >>)
       /\ page' = Claimed(p, t)
       /\ block' = [block EXCEPT ![call.block].page_table = Append(@, p)]
       /\ call' = [call EXCEPT !.at = NextPage,
                               !.work = IF NeedWipe(t) THEN Append(@, Wipe(p)) ELSE @]
  /\ UNCHANGED <<quota, pending, misfiled>>

\* Copy on write: a shared page is replaced by a copy.  A reference given up
\* as the last one files the page under the writer.
AppendFork ==
  LET t == block[call.block].tenant_id
      p == Table[Logical]
  IN
  /\ Appending /\ NeedsFork
  /\ \E np \in Pages :
       LET left == Claimed(np, t)[p].ref_count - 1 IN
       /\ AllocOnePage(t, np, IF left = 0 THEN <<p>> ELSE << >>)
       /\ page' = [Claimed(np, t) EXCEPT ![p].ref_count = left]
       /\ block' = [block EXCEPT ![call.block].page_table[Logical] = np]
       /\ call' = [call EXCEPT !.at = NextPage, !.work = Append(@, Copy(p, np))]
  /\ UNCHANGED <<quota, pending, misfiled>>

AppendInPlace ==
  /\ Appending /\ ~NeedsPage /\ ~NeedsFork
  /\ call' = [call EXCEPT !.at = NextPage]
  /\ UNCHANGED <<page, tenants, block, globalFree, index, lastUsed, pending, misfiled>>

\* Mutant: the page id -1 of a failed allocation goes into the table.
AppendFailUnchecked ==
  /\ Appending /\ NeedsPage /\ ~CanAlloc(block[call.block].tenant_id)
  /\ block' = [block EXCEPT ![call.block].page_table = Append(@, -1)]
  /\ Return
  /\ UNCHANGED <<page, tenants, globalFree, index, lastUsed, pending, misfiled>>

\* No page to be had: Append returns -1.  The pages of earlier iterations stay
\* in the table, pos stays behind and the deferred wipes and copies are lost.
AppendFail ==
  /\ Appending
  /\ \/ NeedsPage /\ TableFull
     \/ (NeedsPage \/ NeedsFork) /\ ~CanAlloc(block[call.block].tenant_id)
  /\ Return
  /\ UNCHANGED <<page, tenants, block, globalFree, index, lastUsed, pending, misfiled>>

AppendReturn ==
  /\ call.op = "append"
  /\ call.at = call.until
  /\ block' = [block EXCEPT ![call.block].pos = call.until]
  /\ pending' = [pending EXCEPT ![call.block] = call.work]
  /\ Return
  /\ UNCHANGED <<page, tenants, globalFree, index, lastUsed, misfiled>>

\* After the unlock: one deferred wipe or copy, in order.
DeferredStep(b) ==
  /\ pending[b] # << >>
  /\ pending' = [pending EXCEPT ![b] = Tail(@)]
  /\ UNCHANGED <<page, tenants, block, globalFree, index, lastUsed, call, misfiled>>

\* Commit moves pos and keeps the head of the caller's history.
CommitBegin(b, newPos, tokens) ==
  /\ MayCall(b)
  /\ block' = [block EXCEPT
       ![b].pos = newPos,
       ![b].prefix = IF tokens = << >> THEN @
                     ELSE SubSeq(tokens, 1, IF Len(tokens) < PrefixTrack
                                            THEN Len(tokens) ELSE PrefixTrack)]
  /\ call' = Open("commit", b, 0, 0, << >>)
  /\ UNCHANGED <<page, tenants, globalFree, index, lastUsed, pending, misfiled>>

\* Mutant: pages past the position are sealed too.
CoversUnwritten ==
  LET rb == block[call.block] IN
  /\ call.at < Len(rb.page_table)
  /\ (call.at + 1) * PageSize <= Len(rb.prefix)

\* The history and the position cover the next page of the table.
CoversNextPage ==
  LET rb == block[call.block] IN
  /\ call.at < Len(rb.page_table)
  /\ (call.at + 1) * PageSize <= Len(rb.prefix)
  /\ (call.at + 1) * PageSize <= rb.pos

\* emplace: an entry that is there stays.
IndexWith(h, p) ==
  [k \in DOMAIN index \cup {h} |-> IF k \in DOMAIN index THEN index[k] ELSE p]

\* Seal a full page and enter it in the index, unless the hash is taken.
CommitPage ==
  LET rb == block[call.block]
      p == rb.page_table[call.at + 1]
      h == ChainHash(rb.prefix, call.at + 1)
  IN
  /\ call.op = "commit" /\ CoversNextPage
  /\ IF page[p].sealed
     THEN UNCHANGED <<page, index>>
     ELSE /\ page' = [page EXCEPT ![p].chain_hash = h, ![p].sealed = TRUE]
          /\ index' = IndexWith(h, p)
  /\ call' = [call EXCEPT !.at = @ + 1]
  /\ UNCHANGED <<tenants, block, globalFree, lastUsed, pending, misfiled>>

CommitReturn ==
  /\ call.op = "commit" /\ ~CoversNextPage
  /\ Return
  /\ UNCHANGED <<page, tenants, block, globalFree, index, lastUsed, pending, misfiled>>

-----------------------------------------------------------------------------
\* The thread that holds the mutex goes on.
LockedStep ==
  \/ AcquireMatch \/ AcquireReturn
  \/ ReleasePage \/ ReleaseReturn
  \/ AppendNewPage \/ AppendFork \/ AppendInPlace \/ AppendFail \/ AppendReturn
  \/ CommitPage \/ CommitReturn

\* A caller enters the pool.  Commit is told a history that reaches new_pos,
\* and new_pos is at most the block's position.
Enter ==
  \/ \E t \in Tenants, q \in Quotas : SetTenantQuota(t, q)
  \/ \E t \in Tenants, tokens \in Prompts : AcquireBegin(t, tokens)
  \/ \E b \in Blocks : ReleaseBegin(b)
  \/ \E b \in Blocks, n \in 1 .. MaxPos :
       block[b].pos + n <= MaxPos /\ AppendBegin(b, n)
  \/ \E b \in Blocks, back \in 0 .. MaxRewind, tokens \in Prompts :
       /\ back <= block[b].pos
       /\ block[b].pos - back <= Len(tokens)
       /\ CommitBegin(b, block[b].pos - back, tokens)

Next == Enter \/ LockedStep \/ \E b \in Blocks : DeferredStep(b)

Spec == Init /\ [][Next]_vars

-----------------------------------------------------------------------------
\* Properties.

\* Every variable has the type of the struct it models.
TypeOK ==
  /\ page \in [Pages -> Page]
  /\ quota \in [Tenants -> Quota]
  /\ used \in [Tenants -> Nat]
  /\ free \in [Tenants -> Seq(Pages)]
  /\ block \in [Blocks -> RequestBlock]
  /\ globalFree \in Seq(Pages)
  /\ DOMAIN index \subseteq Hash /\ \A h \in DOMAIN index : index[h] \in Pages
  /\ lastUsed \in [Pages -> 0 .. NPages]
  /\ call \in Frame
  /\ pending \in [Blocks -> Seq(Work)]
  /\ misfiled \in BOOLEAN

\* The table entries a block still counts on: Release drops them one by one
\* and clears the table when it returns.
Released(b, i) == call.op = "release" /\ call.block = b /\ i <= call.at

Slots == 1 .. MaxPagesPerRequest

Holders(p) ==
  {s \in Blocks \X Slots :
     /\ s[2] <= Len(block[s[1]].page_table)
     /\ block[s[1]].page_table[s[2]] = p
     /\ ~Released(s[1], s[2])}

\* A page table never outgrows max_pages_per_request, although only Append
\* checks the limit and Acquire does not: no indexed prefix is longer either.
PageTablesBounded ==
  /\ \A b \in Blocks : Len(block[b].page_table) <= MaxPagesPerRequest
  /\ \A h \in DOMAIN index : Len(h) <= MaxPagesPerRequest * PageSize

\* A page nobody has ever been given: no owner, no reference, and no table,
\* free list or index entry that shows it.
Untouched(p) ==
  /\ page[p] = FreshPage
  /\ Holders(p) = {}
  /\ \A t \in Tenants : p \notin ToSet(free[t])
  /\ p \notin Range(index)

\* A page on the global free list was never handed out, and is listed once.
GlobalFreeUntouched ==
  /\ \A i, j \in DOMAIN globalFree : globalFree[i] = globalFree[j] => i = j
  /\ \A p \in ToSet(globalFree) : Untouched(p)

\* No page is ever lost: one that no block refers to can be allocated again,
\* from the global list or from some tenant's free list.
NoPageLost ==
  \A p \in Pages :
    \/ Holders(p) # {}
    \/ p \in ToSet(globalFree)
    \/ \E t \in Tenants : p \in ToSet(free[t])

\* A reference count is never above the number of table entries, so the last
\* release always finds it at one or less.
RefCountCovered ==
  \A p \in Pages : page[p].ref_count <= Cardinality(Holders(p))

\* As long as no page was filed under a tenant that does not own it: the
\* reference count is exactly the number of table entries,
RefCountExact ==
  ~misfiled => \A p \in Pages : page[p].ref_count = Cardinality(Holders(p))

\* a tenant's free list holds exactly its pages without a reference, once each,
FreeListExact ==
  ~misfiled => \A t \in Tenants :
    /\ \A i, j \in DOMAIN free[t] : free[t][i] = free[t][j] => i = j
    /\ ToSet(free[t]) = {p \in Pages : page[p].tenant_id = t /\ page[p].ref_count = 0}

\* and pages_in_use is what its comment says: the tenant's pages, referenced
\* or in its free pool.
UsageExact ==
  ~misfiled => \A t \in Tenants :
    used[t] = Cardinality({p \in Pages : page[p].tenant_id = t})

\* The logical pages an open Append has made ready for the caller's tokens.
Prepared == {i \in Slots : /\ call.op = "append" /\ call.at > block[call.block].pos
                           /\ block[call.block].pos \div PageSize < i
                           /\ i <= (call.at - 1) \div PageSize + 1}

\* What a block writes is its own: no other table entry shows a page that
\* Append gives out for new tokens, or one it wipes or copies to after unlock.
WritesExclusive ==
  ~misfiled =>
    /\ \A i \in Prepared : Holders(Table[i]) = {<<call.block, i>>}
    /\ \A b \in Blocks : \A w \in ToSet(pending[b]) :
         Holders(w.dst) \subseteq {b} \X Slots

\* A page some request holds stays its owner's, sealed under its hash once it
\* is, and behind the index entries that lead to it,
HeldPageKept(p) ==
  /\ page'[p].tenant_id = page[p].tenant_id
  /\ page[p].sealed => page'[p].sealed /\ page'[p].chain_hash = page[p].chain_hash
  /\ \A h \in DOMAIN index : index[h] = p => h \in DOMAIN index' /\ index'[h] = p

\* whatever other tenants take over or evict meanwhile, also when they evict a
\* second page of the same hash.
HeldPagesKept ==
  [][~misfiled => \A p \in Pages : Holders(p) # {} => HeldPageKept(p)]_vars

\* An Append of one tenant never brings another one below its floor.
FloorKept ==
  [][call.op = "append" =>
       \A t \in Tenants \ {block[call.block].tenant_id} :
         used'[t] < used[t]
           => used'[t] >= quota[t].reservation_floor]_vars

\* What the code says of itself and does not keep; each is the property of a
\* run that TLC refutes.

\* The index leads to "the page that holds those exact prefix tokens"
\* (qwen2_paged_pool.cc:113), as far as Acquire can tell: it asks for sealed.
IndexNamesItsPage ==
  \A h \in DOMAIN index :
    page[index[h]].sealed => page[index[h]].chain_hash = h

\* "0 = free" (qwen2_paged_pool.cc:63): a page in a table has a reference, and
\* a page without one is nobody's to write.
NoHeldPageIsFree ==
  \A p \in Pages : Holders(p) # {} => page[p].ref_count > 0
=============================================================================
