--------------------------- MODULE PagedPoolProofs ---------------------------
(***************************************************************************)
(* Theorems about PagedPool, for every value of its constants: the types,  *)
(* the reservation floor, and the books that hold whatever happens: page   *)
(* tables stay within their bound, no reference count exceeds the table    *)
(* entries, no page is lost, and the global free list holds only untouched *)
(* pages.  Last come the exact books, what nobody takes from a page that   *)
(* is held, and the pages written to by one request only, which hold until *)
(* a page is filed under a tenant that does not own it.                    *)
(***************************************************************************)
EXTENDS PagedPool, SequenceLemmas, FiniteSetTheorems, SequenceTheorems, TLAPS

-----------------------------------------------------------------------------
\* Arithmetic on tokens and pages.

\* k pages hold a natural number of tokens.
LEMMA ProductNat ==
  ASSUME NEW k \in Nat
  PROVE  k * PageSize \in Nat
BY PoolAssumption

\* The loop variable of Append lies in a page counted from 1, and its next
\* value is a natural number.
LEMMA CursorNat ==
  ASSUME call.at \in Nat, call.until \in Nat
  PROVE  /\ Logical \in Nat \ {0}
         /\ NextPage \in Nat
<1>1. call.at \div PageSize \in Nat
  BY PoolAssumption
<1>2. Logical \in Nat \ {0}
  BY <1>1 DEF Logical
<1>3. QED
  BY <1>2, ProductNat DEF NextPage

-----------------------------------------------------------------------------
\* Type correctness.

\* A block in use has a tenant, and an open frame works on a block in use.
Owned ==
  /\ \A b \in Blocks : block[b].in_use => block[b].tenant_id \in Tenants
  /\ call.op # "idle" => block[call.block].in_use

TypeInv == TypeOK /\ Owned

\* The calls of any caller, within no bounds: a Commit names a position that
\* its block has reached.  The steps of the pool are stated for all of them, so
\* that what uses the pool can rest on the same lemmas.
AnyEnter ==
  \/ \E t \in Tenants, q \in Nat \X Nat : SetTenantQuota(t, q)
  \/ \E t \in Tenants, tokens \in Seq(Token) : AcquireBegin(t, tokens)
  \/ \E b \in Blocks : ReleaseBegin(b)
  \/ \E b \in Blocks, n \in Nat \ {0} : AppendBegin(b, n)
  \/ \E b \in Blocks, new \in Nat, tokens \in Seq(Token) :
       new <= block[b].pos /\ CommitBegin(b, new, tokens)

AnyNext == AnyEnter \/ LockedStep \/ \E b \in Blocks : DeferredStep(b)

\* Stamping a page leaves ranks.
LEMMA StampedType ==
  ASSUME lastUsed \in [Pages -> 0 .. NPages], NEW p \in Pages
  PROVE  Stamped(p) \in [Pages -> 0 .. NPages]
BY PoolAssumption DEF Stamped, Pages

\* Removing a page's entry leaves an index of hashes and pages.
LEMMA IndexWithoutType ==
  ASSUME TypeOK, NEW p \in Pages
  PROVE  /\ DOMAIN IndexWithout(p) \subseteq DOMAIN index
         /\ \A h \in DOMAIN IndexWithout(p) : IndexWithout(p)[h] = index[h]
BY DEF IndexWithout, Restrict

\* What alloc_one_page does to the lists keeps their types.
LEMMA AllocType ==
  ASSUME TypeOK, NEW t \in Tenants, NEW p \in Pages, NEW back \in Seq(Pages),
         AllocOnePage(t, p, back)
  PROVE  /\ used' \in [Tenants -> Nat]
         /\ free' \in [Tenants -> Seq(Pages)]
         /\ globalFree' \in Seq(Pages)
         /\ DOMAIN index' \subseteq Hash
         /\ \A h \in DOMAIN index' : index'[h] \in Pages
         /\ lastUsed' \in [Pages -> 0 .. NPages]
<1> USE DEF TypeOK
<1>1. lastUsed' \in [Pages -> 0 .. NPages]
  BY StampedType DEF AllocOnePage
<1>2. CASE TakeOwnFree(t, p, back)
  <2>1. Tail(free[t]) \o back \in Seq(Pages)
    BY <1>2 DEF TakeOwnFree
  <2>2. QED
    BY <1>1, <1>2, <2>1 DEF TakeOwnFree
<1>3. CASE TakeGlobal(t, p, back)
  <2>1. globalFree' \in Seq(Pages) /\ index' = index
    BY <1>3 DEF TakeGlobal
  <2>2. used' \in [Tenants -> Nat] /\ free' \in [Tenants -> Seq(Pages)]
    BY <1>3 DEF TakeGlobal
  <2>3. QED
    BY <1>1, <2>1, <2>2
<1>4. CASE EvictOther(t, p, back)
  <2>1. PICK o \in Tenants \ {t} :
          /\ AboveFloor(o)
          /\ free' = [free EXCEPT ![o] = RemoveFirst(@, p), ![t] = back]
          /\ used' = [used EXCEPT ![o] = @ - 1, ![t] = @ + 1]
    BY <1>4 DEF EvictOther
  <2>2. free' \in [Tenants -> Seq(Pages)]
    <3>1. RemoveFirst(free[o], p) \in Seq(Pages)
      BY RemoveFirstProperties
    <3>2. [free EXCEPT ![o] = RemoveFirst(free[o], p)] \in [Tenants -> Seq(Pages)]
      BY <3>1
    <3>3. QED
      BY <2>1, <3>2
  <2>3. used' \in [Tenants -> Nat]
    <3>1. used[o] - 1 \in Nat
      BY <2>1 DEF AboveFloor, Quota
    <3> DEFINE less == [used EXCEPT ![o] = used[o] - 1]
    <3>2. less \in [Tenants -> Nat]
      BY <3>1
    <3>3. used' = [less EXCEPT ![t] = used[t] + 1]
      BY <2>1
    <3>4. used[t] + 1 \in Nat
      OBVIOUS
    <3> HIDE DEF less
    <3>5. QED
      BY <3>2, <3>3, <3>4
  <2>4. index' = IndexWithout(p) /\ globalFree' = globalFree
    BY <1>4 DEF EvictOther
  <2>5. QED
    BY <1>1, <2>2, <2>3, <2>4, IndexWithoutType
<1>5. QED
  BY <1>2, <1>3, <1>4 DEF AllocOnePage

\* A page given out is still a page.
LEMMA ClaimedType ==
  ASSUME TypeOK, NEW t \in Tenants, NEW p \in Pages
  PROVE  Claimed(p, t) \in [Pages -> Page]
BY DEF TypeOK, Claimed, Page, NoHash, Hash

\* The slot Acquire takes is a block.
LEMMA FreeSlotIsBlock ==
  ASSUME FreeSlots # {}
  PROVE  Min(FreeSlots) \in FreeSlots /\ Min(FreeSlots) \in Blocks
<1>1. FreeSlots \in SUBSET Nat /\ FreeSlots \subseteq Blocks
  BY PoolAssumption DEF FreeSlots, Blocks
<1>2. Min(FreeSlots) \in FreeSlots
  BY <1>1, MinOfNats
<1>3. QED
  BY <1>1, <1>2

\* An entry point that opens a frame gives it its type.
LEMMA OpenType ==
  ASSUME NEW op \in {"acquire", "release", "append", "commit"},
         NEW b \in Blocks, NEW at \in Nat, NEW until \in Nat,
         NEW tokens \in Seq(Token)
  PROVE  /\ Open(op, b, at, until, tokens) \in Frame
         /\ Open(op, b, at, until, tokens).block = b
         /\ Open(op, b, at, until, tokens).op = op
BY DEF Open, Frame

\* The same for a call without tokens.
LEMMA OpenBareType ==
  ASSUME NEW op \in {"release", "append", "commit"},
         NEW b \in Blocks, NEW until \in Nat, NEW at \in Nat
  PROVE  /\ Open(op, b, at, until, << >>) \in Frame
         /\ Open(op, b, at, until, << >>).block = b
         /\ Open(op, b, at, until, << >>).op = op
<1> DEFINE none == << >>
<1>1. none \in Seq(Token)
  OBVIOUS
<1> HIDE DEF none
<1>2. /\ Open(op, b, at, until, none) \in Frame
      /\ Open(op, b, at, until, none).block = b
      /\ Open(op, b, at, until, none).op = op
  BY <1>1, OpenType
<1>3. QED
  BY <1>2 DEF none

\* The frame of a mutex nobody holds.
LEMMA IdleType == Idle \in Frame
BY PoolAssumption DEF Idle, Frame, Blocks

\* What Create leaves has the types.
LEMMA InitType ==
  ASSUME Init
  PROVE  TypeInv
<1>1. DefaultQuota \in Quota
  BY PoolAssumption DEF DefaultQuota, Quota
<1>2. [i \in 1 .. NPages |-> i - 1] \in Seq(Pages)
  BY PoolAssumption DEF Pages
<1>3. FreshPage \in Page /\ EmptyBlock \in RequestBlock
  BY DEF FreshPage, Page, EmptyBlock, RequestBlock, NoHash, Hash
<1>4. lastUsed \in [Pages -> 0 .. NPages] /\ globalFree \in Seq(Pages)
  BY <1>2, PoolAssumption DEF Init
<1>5. page \in [Pages -> Page] /\ block \in [Blocks -> RequestBlock]
  BY <1>3 DEF Init
<1>6. free \in [Tenants -> Seq(Pages)] /\ pending \in [Blocks -> Seq(Work)]
  BY DEF Init
<1>7. /\ quota \in [Tenants -> Quota] /\ used \in [Tenants -> Nat]
       /\ call \in Frame /\ misfiled \in BOOLEAN
  BY <1>1, IdleType DEF Init
<1>8. DOMAIN index \subseteq Hash /\ \A h \in DOMAIN index : index[h] \in Pages
  <2>1. index = << >>
    BY DEF Init
  <2>2. DOMAIN index = {}
    BY <2>1
  <2>3. QED
    BY <2>2
<1>9. TypeOK
  BY <1>4, <1>8, <1>5, <1>6, <1>7 DEF TypeOK
<1>10. Owned
  BY DEF Init, Owned, EmptyBlock, Idle
<1>11. QED
  BY <1>9, <1>10 DEF TypeInv

\* What the types say of the open frame and of the blocks.
LEMMA FrameFacts ==
  ASSUME TypeInv
  PROVE  /\ call.block \in Blocks /\ call.at \in Nat /\ call.until \in Nat
         /\ call.tokens \in Seq(Token) /\ call.work \in Seq(Work)
         /\ \A b \in Blocks : /\ block[b].page_table \in Seq(Pages)
                              /\ block[b].pos \in Nat
                              /\ block[b].prefix \in Seq(Token)
                              /\ block[b].in_use \in BOOLEAN
         /\ call.op # "idle" => /\ block[call.block].in_use
                                /\ block[call.block].tenant_id \in Tenants
BY DEF TypeInv, TypeOK, Owned, Frame, RequestBlock

\* A call that enters the pool keeps the types.
LEMMA EnterType ==
  ASSUME TypeInv, AnyEnter
  PROVE  TypeInv'
<1> USE DEF TypeInv, TypeOK
<1>1. ASSUME NEW t \in Tenants, NEW q \in Nat \X Nat, SetTenantQuota(t, q)
      PROVE  TypeInv'
  <2>1. [reservation_floor |-> q[1], max_pages |-> IF q[2] = 0 THEN SizeMax ELSE q[2]]
          \in Quota
    BY PoolAssumption DEF Quota
  <2>2. quota' \in [Tenants -> Quota]
    BY <1>1, <2>1 DEF SetTenantQuota
  <2>3. QED
    BY <1>1, <2>2 DEF SetTenantQuota, Owned
<1>2. ASSUME NEW t \in Tenants, NEW tokens \in Seq(Token), AcquireBegin(t, tokens)
      PROVE  TypeInv'
  <2> DEFINE b == Min(FreeSlots)
             new == NewBlock(t)
  <2>1. b \in Blocks
    BY <1>2, FreeSlotIsBlock DEF AcquireBegin
  <2>2. new \in RequestBlock /\ new.in_use /\ new.tenant_id = t
    BY DEF NewBlock, RequestBlock
  <2>3. block' = [block EXCEPT ![b] = new] /\ call' = Open("acquire", b, 0, 0, tokens)
    BY <1>2 DEF AcquireBegin
  <2>4. call' \in Frame /\ call'.block = b
    BY <2>1, <2>3, OpenType
  <2> HIDE DEF b, new
  <2>5. block' \in [Blocks -> RequestBlock]
    BY <2>1, <2>2, <2>3
  <2>6. Owned'
    BY <2>1, <2>2, <2>3, <2>4 DEF Owned
  <2>7. QED
    BY <1>2, <2>4, <2>5, <2>6 DEF AcquireBegin, tenants
<1>3. ASSUME NEW b \in Blocks, ReleaseBegin(b)
      PROVE  TypeInv'
  <2>1. call' \in Frame /\ call'.block = b
    BY <1>3, OpenBareType DEF ReleaseBegin
  <2>2. QED
    BY <1>3, <2>1 DEF ReleaseBegin, MayCall, Owned, tenants
<1>4. ASSUME NEW b \in Blocks, NEW n \in Nat \ {0}, AppendBegin(b, n)
      PROVE  TypeInv'
  <2>1. block[b].pos \in Nat /\ block[b].pos + n \in Nat
    BY FrameFacts
  <2>2. call' \in Frame /\ call'.block = b
    BY <1>4, <2>1, OpenBareType DEF AppendBegin
  <2>3. QED
    BY <1>4, <2>2 DEF AppendBegin, MayCall, Owned, tenants
<1>5. ASSUME NEW b \in Blocks, NEW new \in Nat, NEW tokens \in Seq(Token),
             CommitBegin(b, new, tokens)
      PROVE  TypeInv'
  <2> DEFINE keep == IF Len(tokens) < PrefixTrack THEN Len(tokens) ELSE PrefixTrack
             kept == IF tokens = << >> THEN block[b].prefix
                     ELSE SubSeq(tokens, 1, keep)
  <2>1. kept \in Seq(Token)
    BY FrameFacts, PoolAssumption
  <2>2. call' \in Frame /\ call'.block = b
    <3>1. call' = Open("commit", b, 0, 0, << >>)
      BY <1>5 DEF CommitBegin
    <3>2. QED
      BY <3>1, OpenBareType
  <2>3. block' = [block EXCEPT ![b].pos = new, ![b].prefix = kept]
    BY <1>5 DEF CommitBegin
  <2> HIDE DEF kept
  <2>4. block' \in [Blocks -> RequestBlock]
    <3>1. block \in [Blocks -> RequestBlock] /\ block[b] \in RequestBlock
      BY FrameFacts DEF TypeInv, TypeOK
    <3>2. [block[b] EXCEPT !.pos = new, !.prefix = kept] \in RequestBlock
      BY <2>1, <3>1 DEF RequestBlock
    <3>3. block' = [block EXCEPT ![b] = [block[b] EXCEPT !.pos = new, !.prefix = kept]]
      BY Zenon, <2>3
    <3>4. QED
      BY <3>1, <3>2, <3>3
  <2>5. \A x \in Blocks : /\ block'[x].in_use = block[x].in_use
                          /\ block'[x].tenant_id = block[x].tenant_id
    BY <2>3 DEF RequestBlock
  <2>6. QED
    BY <1>5, <2>2, <2>4, <2>5 DEF CommitBegin, MayCall, Owned, tenants
<1>6. QED
  BY <1>1, <1>2, <1>3, <1>4, <1>5 DEF AnyEnter

\* The calls of the specification are among them.
LEMMA NextIsAny ==
  ASSUME TypeInv, [Next]_vars
  PROVE  [AnyNext]_vars
<1>1. CASE Enter
  <2>1. CASE \E t \in Tenants, q \in Quotas : SetTenantQuota(t, q)
    BY <2>1, PoolAssumption DEF AnyNext, AnyEnter
  <2>2. CASE \E t \in Tenants, tokens \in Prompts : AcquireBegin(t, tokens)
    BY <2>2, PoolAssumption DEF AnyNext, AnyEnter
  <2>3. CASE \E b \in Blocks : ReleaseBegin(b)
    BY <2>3 DEF AnyNext, AnyEnter
  <2>4. CASE \E b \in Blocks, n \in 1 .. MaxPos : AppendBegin(b, n)
    BY <2>4 DEF AnyNext, AnyEnter
  <2>5. ASSUME NEW b \in Blocks, NEW back \in 0 .. MaxRewind, NEW tokens \in Prompts,
               back <= block[b].pos, CommitBegin(b, block[b].pos - back, tokens)
        PROVE  AnyNext
    <3>1. block[b].pos - back \in Nat /\ block[b].pos - back <= block[b].pos
      BY <2>5, FrameFacts
    <3>2. tokens \in Seq(Token)
      BY PoolAssumption
    <3>3. QED
      BY <2>5, <3>1, <3>2 DEF AnyNext, AnyEnter
  <2>6. QED
    BY <1>1, <2>1, <2>2, <2>3, <2>4, <2>5 DEF Enter
<1>2. QED
  BY <1>1 DEF Next, AnyNext

\* The next page of a table is a page.
LEMMA NextTablePage ==
  ASSUME TypeInv, call.at < Len(block[call.block].page_table)
  PROVE  block[call.block].page_table[call.at + 1] \in Pages
<1>1. block[call.block].page_table \in Seq(Pages) /\ call.at \in Nat
  BY FrameFacts
<1>2. call.at + 1 \in 1 .. Len(block[call.block].page_table)
  BY <1>1
<1>3. QED
  BY <1>1, <1>2

\* The loop variable moves on by one.
LEMMA NextAt ==
  ASSUME TypeInv
  PROVE  call.at + 1 \in Nat /\ (call.at + 1) * PageSize \in Nat
<1>1. call.at + 1 \in Nat
  BY FrameFacts
<1>2. QED
  BY <1>1, ProductNat

\* A step that only moves the cursor of the open frame leaves a frame,
LEMMA CursorType ==
  ASSUME call \in Frame, NEW n \in Nat
  PROVE  /\ [call EXCEPT !.at = n] \in Frame
         /\ [call EXCEPT !.at = n].block = call.block
         /\ [call EXCEPT !.at = n].op = call.op
         /\ [call EXCEPT !.at = n].at = n
BY DEF Frame

\* and so does one that leaves work for later.
LEMMA CursorWorkType ==
  ASSUME call \in Frame, NEW n \in Nat, NEW w \in Seq(Work)
  PROVE  /\ [call EXCEPT !.at = n, !.work = w] \in Frame
         /\ [call EXCEPT !.at = n, !.work = w].block = call.block
         /\ [call EXCEPT !.at = n, !.work = w].op = call.op
         /\ [call EXCEPT !.at = n, !.work = w].at = n
BY DEF Frame

\* Each step of Acquire keeps the types.
LEMMA AcquireType ==
  ASSUME TypeInv, AcquireMatch \/ AcquireReturn
  PROVE  TypeInv'
<1> USE DEF TypeInv, TypeOK
<1>1. CASE AcquireMatch
  <2> DEFINE t == block[call.block].tenant_id
  <2>1. t \in Tenants /\ call.block \in Blocks
    BY <1>1, FrameFacts DEF AcquireMatch
  <2>2. PICK p \in Matching :
          LET o == page[p].tenant_id
              unlist == page[p].ref_count = 0 /\ o \in Tenants
              takeover == unlist /\ o # t
          IN  /\ free' = IF unlist THEN [free EXCEPT ![o] = RemoveFirst(@, p)] ELSE free
              /\ used' = IF takeover
                         THEN [used EXCEPT ![o] = IF @ > 0 THEN @ - 1 ELSE @, ![t] = @ + 1]
                         ELSE used
              /\ page' = [page EXCEPT ![p].ref_count = @ + 1,
                                      ![p].tenant_id = IF takeover THEN t ELSE @]
              /\ lastUsed' = Stamped(p)
              /\ block' = [block EXCEPT ![call.block].page_table = Append(@, p)]
    BY <1>1, Zenon DEF AcquireMatch
  <2> DEFINE o == page[p].tenant_id
             unlist == page[p].ref_count = 0 /\ o \in Tenants
             takeover == unlist /\ o # t
  <2>3. p \in Pages
    BY DEF Matching
  <2>4. page' \in [Pages -> Page]
    <3> DEFINE owner == IF takeover THEN t ELSE o
               refs == page[p].ref_count + 1
    <3>1. owner \in Tenants \cup {NoTenant} /\ refs \in Nat
      BY <2>1, <2>3 DEF Page
    <3>2. page' = [page EXCEPT ![p].ref_count = refs, ![p].tenant_id = owner]
      BY <2>2
    <3> HIDE DEF owner, refs
    <3>3. QED
      BY <2>3, <3>1, <3>2, ZenonT(60) DEF Page
  <2>5. free' \in [Tenants -> Seq(Pages)]
    <3>1. ASSUME unlist PROVE RemoveFirst(free[o], p) \in Seq(Pages)
      BY <3>1, RemoveFirstProperties
    <3>2. QED
      BY <2>2, <3>1
  <2>6. used' \in [Tenants -> Nat]
    <3> DEFINE left == IF used[o] > 0 THEN used[o] - 1 ELSE used[o]
               less == [used EXCEPT ![o] = left]
    <3>1. CASE takeover
      <4>1. left \in Nat /\ used[t] + 1 \in Nat
        BY <2>1, <3>1
      <4>2. used' = [less EXCEPT ![t] = used[t] + 1]
        BY <2>2, <3>1
      <4> HIDE DEF left
      <4>3. less \in [Tenants -> Nat]
        BY <4>1, <3>1
      <4> HIDE DEF less
      <4>4. QED
        BY <2>1, <4>1, <4>2, <4>3
    <3>2. CASE ~takeover
      BY <2>2, <3>2
    <3>3. QED
      BY <3>1, <3>2
  <2>7. lastUsed' \in [Pages -> 0 .. NPages]
    BY <2>2, <2>3, StampedType
  <2>8. block' \in [Blocks -> RequestBlock]
    <3>1. Append(block[call.block].page_table, p) \in Seq(Pages)
      BY <2>1, <2>3, FrameFacts
    <3>2. QED
      BY ZenonT(40), <2>1, <2>2, <3>1 DEF RequestBlock
  <2>9. \A x \in Blocks : /\ block'[x].in_use = block[x].in_use
                          /\ block'[x].tenant_id = block[x].tenant_id
    BY <2>2 DEF RequestBlock
  <2>10. call' \in Frame /\ call'.block = call.block /\ call'.op = call.op
    <3>1. call.at + 1 \in Nat
      BY FrameFacts
    <3>2. call' = [call EXCEPT !.at = call.at + 1]
      BY <1>1 DEF AcquireMatch
    <3>3. QED
      BY <3>1, <3>2, CursorType
  <2>11. Owned'
    BY <2>1, <2>9, <2>10 DEF Owned
  <2>12. QED
    BY <1>1, <2>4, <2>5, <2>6, <2>7, <2>8, <2>10, <2>11 DEF AcquireMatch
<1>2. CASE AcquireReturn
  <2>1. call.at * PageSize \in Nat
    BY FrameFacts, ProductNat
  <2>2. block' = [block EXCEPT ![call.block].pos = call.at * PageSize] /\ call' = Idle
    BY <1>2 DEF AcquireReturn, Return
  <2>3. block' \in [Blocks -> RequestBlock]
    BY ZenonT(40), <2>1, <2>2 DEF RequestBlock
  <2>4. \A x \in Blocks : /\ block'[x].in_use = block[x].in_use
                          /\ block'[x].tenant_id = block[x].tenant_id
    BY <2>2 DEF RequestBlock
  <2>5. Owned'
    BY <2>2, <2>4 DEF Owned, Idle
  <2>6. QED
    BY <1>2, <2>2, <2>3, <2>5, IdleType DEF AcquireReturn, tenants
<1>3. QED
  BY <1>1, <1>2

\* A step that leaves the blocks and the block of the frame alone, or closes
\* the frame, leaves every block with its owner.
LEMMA OwnedKept ==
  ASSUME TypeInv,
         \A x \in Blocks : /\ block'[x].in_use = block[x].in_use
                           /\ block'[x].tenant_id = block[x].tenant_id,
         \/ call' = Idle
         \/ call'.block = call.block /\ call'.op = call.op
  PROVE  Owned'
BY FrameFacts DEF TypeInv, Owned, Idle

\* Each step of Release keeps the types.
LEMMA ReleaseType ==
  ASSUME TypeInv, ReleasePage \/ ReleaseReturn
  PROVE  TypeInv'
<1> USE DEF TypeInv, TypeOK
<1>1. CASE ReleasePage
  <2> DEFINE t == block[call.block].tenant_id
             p == block[call.block].page_table[call.at + 1]
  <2>1. t \in Tenants /\ p \in Pages
    <3>1. call.op = "release" /\ call.at < Len(block[call.block].page_table)
      BY <1>1 DEF ReleasePage
    <3>2. t \in Tenants
      BY <3>1, FrameFacts
    <3>3. QED
      BY <3>1, <3>2, NextTablePage
  <2>2. page' = [page EXCEPT ![p].ref_count = Unref(page[p].ref_count)]
    BY <1>1 DEF ReleasePage
  <2>3. Unref(page[p].ref_count) \in Nat
    <3>1. page[p].ref_count \in Nat
      BY <2>1 DEF Page
    <3> HIDE DEF p
    <3>2. QED
      BY ONLY <3>1 DEF Unref
  <2>4. page' \in [Pages -> Page]
    BY <2>1, <2>2, <2>3 DEF Page
  <2>5. /\ free' \in [Tenants -> Seq(Pages)]
        /\ lastUsed' \in [Pages -> 0 .. NPages]
        /\ misfiled' \in BOOLEAN
    <3>1. CASE Freed(p)
      <4>1. /\ free' = [free EXCEPT ![t] = Append(free[t], p)]
            /\ lastUsed' = Stamped(p)
            /\ misfiled' = (misfiled \/ page[p].tenant_id # t)
        BY <1>1, <3>1 DEF ReleasePage
      <4>2. Append(free[t], p) \in Seq(Pages)
        BY <2>1
      <4>3. QED
        BY <2>1, <4>1, <4>2, StampedType
    <3>2. CASE ~Freed(p)
      BY <1>1, <3>2 DEF ReleasePage
    <3>3. QED
      BY <3>1, <3>2
  <2>6. call' \in Frame /\ call'.block = call.block /\ call'.op = call.op
    <3>1. call' = [call EXCEPT !.at = call.at + 1]
      BY <1>1 DEF ReleasePage
    <3>2. QED
      BY <3>1, NextAt, CursorType
  <2>7. UNCHANGED <<quota, used, block, globalFree, index, pending>>
    BY <1>1 DEF ReleasePage
  <2>8. Owned'
    BY <2>6, <2>7, OwnedKept
  <2>9. QED
    BY <2>4, <2>5, <2>6, <2>7, <2>8
<1>2. CASE ReleaseReturn
  <2>1. block' = [block EXCEPT ![call.block].in_use = FALSE,
                               ![call.block].page_table = << >>,
                               ![call.block].prefix = << >>,
                               ![call.block].pos = 0]
    BY <1>2 DEF ReleaseReturn
  <2>2. block' \in [Blocks -> RequestBlock]
    <3>1. << >> \in Seq(Pages) /\ << >> \in Seq(Token)
      OBVIOUS
    <3>2. \A x \in Blocks : x # call.block => block'[x] = block[x]
      BY <2>1
    <3>3. block'[call.block] = [tenant_id |-> block[call.block].tenant_id,
             in_use |-> FALSE, pos |-> 0, page_table |-> << >>, prefix |-> << >>]
      <4>1. block \in [Blocks -> RequestBlock] /\ call.block \in Blocks
        BY FrameFacts
      <4>2. PICK rb : rb = block[call.block] /\ rb \in RequestBlock
        BY <4>1
      <4>3. block'[call.block] = [rb EXCEPT !.in_use = FALSE, !.page_table = << >>,
                                            !.prefix = << >>, !.pos = 0]
        BY ONLY <2>1, <4>1, <4>2
      <4>4. QED
        BY ONLY <4>2, <4>3 DEF RequestBlock
    <3>4. block[call.block].tenant_id \in Tenants \cup {NoTenant}
      BY FrameFacts DEF RequestBlock
    <3> DEFINE t == block[call.block].tenant_id
    <3> HIDE DEF t
    <3>5. t \in Tenants \cup {NoTenant}
      BY ONLY <3>4 DEF t
    <3>6. [tenant_id |-> t, in_use |-> FALSE, pos |-> 0, page_table |-> << >>,
           prefix |-> << >>] \in RequestBlock
      BY ONLY <3>1, <3>5 DEF RequestBlock
    <3>7. block'[call.block] \in RequestBlock
      BY ONLY <3>3, <3>6 DEF t
    <3>8. QED
      BY <2>1, <3>2, <3>7
  <2>3. call' = Idle /\ UNCHANGED <<page, tenants, globalFree, index, lastUsed, pending, misfiled>>
    BY <1>2 DEF ReleaseReturn, Return
  <2>4. \A x \in Blocks : block'[x].in_use => block'[x].tenant_id \in Tenants
    <3> SUFFICES ASSUME NEW x \in Blocks, block'[x].in_use
                 PROVE  block'[x].tenant_id \in Tenants
      OBVIOUS
    <3>1. CASE x = call.block
      <4>1. block'[x].in_use = FALSE
        BY <2>1, <3>1 DEF RequestBlock
      <4>2. QED
        BY <4>1
    <3>2. CASE x # call.block
      <4>1. block'[x] = block[x]
        BY <2>1, <3>2
      <4>2. QED
        BY <4>1 DEF Owned
    <3>3. QED
      BY <3>1, <3>2
  <2>5. Owned'
    BY <2>3, <2>4 DEF Owned, Idle
  <2>6. QED
    BY <2>2, <2>3, <2>5, IdleType DEF tenants
<1>3. QED
  BY <1>1, <1>2

\* Each step of Commit keeps the types.
LEMMA CommitType ==
  ASSUME TypeInv, CommitPage \/ CommitReturn
  PROVE  TypeInv'
<1> USE DEF TypeInv, TypeOK
<1>1. CASE CommitPage
  <2> DEFINE rb == block[call.block]
             p == rb.page_table[call.at + 1]
             h == ChainHash(rb.prefix, call.at + 1)
  <2>1. p \in Pages
    <3>1. call.at < Len(rb.page_table)
      BY <1>1 DEF CommitPage, CoversNextPage
    <3>2. QED
      BY <3>1, NextTablePage
  <2>2. h \in Hash
    <3>1. (call.at + 1) * PageSize \in Nat
      BY NextAt
    <3>2. (call.at + 1) * PageSize <= Len(rb.prefix)
      BY <1>1 DEF CommitPage, CoversNextPage
    <3>3. rb.prefix \in Seq(Token)
      BY FrameFacts
    <3>4. \A i \in 1 .. (call.at + 1) * PageSize : rb.prefix[i] \in Token
      BY ONLY <3>1, <3>2, <3>3
    <3>5. h \in Seq(Token)
      <4> HIDE DEF rb
      <4>1. SubSeq(rb.prefix, 1, (call.at + 1) * PageSize) \in Seq(Token)
        BY ONLY <3>1, <3>2, <3>3, <3>4, SubSeqProperties
      <4>2. QED
        BY ONLY <4>1 DEF ChainHash
    <3>6. QED
      BY ONLY <3>5 DEF Hash
  <2>3. page' \in [Pages -> Page] /\ DOMAIN index' \subseteq Hash
        /\ \A k \in DOMAIN index' : index'[k] \in Pages
    <3>1. CASE page[p].sealed
      BY <1>1, <3>1 DEF CommitPage
    <3>2. CASE ~page[p].sealed
      <4>1. page' = [page EXCEPT ![p].chain_hash = h, ![p].sealed = TRUE]
            /\ index' = IndexWith(h, p)
        BY <1>1, <3>2 DEF CommitPage
      <4> HIDE DEF h
      <4>2. page' \in [Pages -> Page]
        BY ZenonT(40), <2>1, <2>2, <4>1 DEF Page
      <4>3. DOMAIN index' = DOMAIN index \cup {h}
            /\ \A k \in DOMAIN index' : index'[k] = IF k \in DOMAIN index THEN index[k] ELSE p
        BY <4>1 DEF IndexWith
      <4>4. QED
        BY <2>1, <2>2, <4>2, <4>3
    <3>3. QED
      BY <3>1, <3>2
  <2>4. call' \in Frame /\ call'.block = call.block /\ call'.op = call.op
    <3>1. call' = [call EXCEPT !.at = call.at + 1]
      BY <1>1 DEF CommitPage
    <3>2. QED
      BY <3>1, NextAt, CursorType
  <2>5. UNCHANGED <<tenants, block, globalFree, lastUsed, pending, misfiled>>
    BY <1>1 DEF CommitPage
  <2>6. Owned'
    BY <2>4, <2>5, OwnedKept
  <2>7. QED
    BY <2>3, <2>4, <2>5, <2>6 DEF tenants
<1>2. CASE CommitReturn
  <2>1. call' = Idle /\ UNCHANGED <<page, tenants, block, globalFree, index, lastUsed, pending, misfiled>>
    BY <1>2 DEF CommitReturn, Return
  <2>2. QED
    BY <2>1, IdleType, OwnedKept DEF tenants
<1>3. QED
  BY <1>1, <1>2

\* Where an open Append stands.
LEMMA AppendFacts ==
  ASSUME TypeInv, Appending
  PROVE  /\ block[call.block].tenant_id \in Tenants
         /\ call.block \in Blocks
         /\ Table \in Seq(Pages)
         /\ Logical \in Nat \ {0}
         /\ NextPage \in Nat
         /\ ~NeedsPage => Logical \in 1 .. Len(Table) /\ Table[Logical] \in Pages
<1>1. call.op = "append"
  BY DEF Appending
<1>2. /\ block[call.block].tenant_id \in Tenants
      /\ call.block \in Blocks
      /\ Table \in Seq(Pages)
  BY <1>1, FrameFacts DEF Table
<1>3. Logical \in Nat \ {0} /\ NextPage \in Nat
  BY FrameFacts, CursorNat
<1>4. ASSUME ~NeedsPage PROVE Logical \in 1 .. Len(Table)
  BY <1>2, <1>3, <1>4 DEF NeedsPage
<1>5. QED
  BY <1>2, <1>3, <1>4

\* Each step of Append keeps the types.
LEMMA AppendType ==
  ASSUME TypeInv,
         AppendNewPage \/ AppendFork \/ AppendInPlace \/ AppendFail \/ AppendReturn
  PROVE  TypeInv'
<1> USE DEF TypeInv, TypeOK
<1> DEFINE t == block[call.block].tenant_id
<1>1. CASE AppendNewPage
  <2>1. Appending
    BY <1>1 DEF AppendNewPage
  <2>2. PICK p \in Pages :
          /\ AllocOnePage(t, p, << >>)
          /\ page' = Claimed(p, t)
          /\ block' = [block EXCEPT ![call.block].page_table = Append(@, p)]
          /\ call' = [call EXCEPT !.at = NextPage,
                                  !.work = IF NeedWipe(t) THEN Append(@, Wipe(p)) ELSE @]
    BY <1>1 DEF AppendNewPage
  <2>3. t \in Tenants /\ call.block \in Blocks
    BY <2>1, AppendFacts
  <2>4. page' \in [Pages -> Page]
    BY <2>2, <2>3, ClaimedType
  <2>5. /\ used' \in [Tenants -> Nat] /\ free' \in [Tenants -> Seq(Pages)]
        /\ globalFree' \in Seq(Pages) /\ DOMAIN index' \subseteq Hash
        /\ \A h \in DOMAIN index' : index'[h] \in Pages
        /\ lastUsed' \in [Pages -> 0 .. NPages]
    <3> DEFINE none == << >>
    <3>1. none \in Seq(Pages) /\ AllocOnePage(t, p, none)
      BY <2>2
    <3> HIDE DEF none, t
    <3>2. QED
      BY <2>3, <3>1, AllocType
  <2>6. block' \in [Blocks -> RequestBlock]
    <3>1. Append(block[call.block].page_table, p) \in Seq(Pages)
      BY <2>3, FrameFacts
    <3>2. QED
      BY ZenonT(40), <2>2, <2>3, <3>1 DEF RequestBlock
  <2>7. call' \in Frame /\ call'.block = call.block /\ call'.op = call.op
    <3> DEFINE w == IF NeedWipe(t) THEN Append(call.work, Wipe(p)) ELSE call.work
    <3>1. Wipe(p) \in Work
      BY DEF Wipe, Work
    <3>2. w \in Seq(Work)
      BY <3>1, FrameFacts
    <3>3. call' = [call EXCEPT !.at = NextPage, !.work = w]
      BY <2>2
    <3> HIDE DEF w
    <3>4. QED
      <4>1. call \in Frame /\ NextPage \in Nat
        BY <2>1, AppendFacts
      <4>2. QED
        BY ONLY <3>2, <3>3, <4>1, CursorWorkType
  <2>8. Owned'
    <3>1. \A x \in Blocks : /\ block'[x].in_use = block[x].in_use
                            /\ block'[x].tenant_id = block[x].tenant_id
      BY <2>2 DEF RequestBlock
    <3>2. QED
      BY <2>7, <3>1, OwnedKept
  <2>9. UNCHANGED <<quota, pending, misfiled>>
    BY <1>1 DEF AppendNewPage
  <2>10. QED
    BY <2>4, <2>5, <2>6, <2>7, <2>8, <2>9
<1>2. CASE AppendFork
  <2> DEFINE p == Table[Logical]
  <2>1. Appending /\ NeedsFork
    BY <1>2 DEF AppendFork
  <2>2. PICK np \in Pages :
          LET left == Claimed(np, t)[p].ref_count - 1 IN
          /\ AllocOnePage(t, np, IF left = 0 THEN <<p>> ELSE << >>)
          /\ page' = [Claimed(np, t) EXCEPT ![p].ref_count = left]
          /\ block' = [block EXCEPT ![call.block].page_table[Logical] = np]
          /\ call' = [call EXCEPT !.at = NextPage, !.work = Append(@, Copy(p, np))]
    BY <1>2, Zenon DEF AppendFork
  <2> DEFINE left == Claimed(np, t)[p].ref_count - 1
             back == IF left = 0 THEN <<p>> ELSE << >>
  <2>3. t \in Tenants /\ call.block \in Blocks /\ p \in Pages
    BY <2>1, AppendFacts DEF NeedsFork
  <2>4. left \in Nat
    BY <2>1, <2>3 DEF Claimed, NeedsFork, Page
  <2>5. Claimed(np, t) \in [Pages -> Page]
    BY <2>3, ClaimedType
  <2>6. page' \in [Pages -> Page]
    <3>1. page' = [Claimed(np, t) EXCEPT ![p].ref_count = left]
      BY <2>2
    <3> HIDE DEF left, p, t
    <3>2. QED
      BY <2>3, <2>4, <2>5, <3>1 DEF Page
  <2>7. /\ used' \in [Tenants -> Nat] /\ free' \in [Tenants -> Seq(Pages)]
        /\ globalFree' \in Seq(Pages) /\ DOMAIN index' \subseteq Hash
        /\ \A h \in DOMAIN index' : index'[h] \in Pages
        /\ lastUsed' \in [Pages -> 0 .. NPages]
    <3>1. AllocOnePage(t, np, back)
      BY <2>2, Zenon
    <3>2. <<p>> \in Seq(Pages) /\ << >> \in Seq(Pages)
      <4> HIDE DEF p
      <4> QED
        BY <2>3
    <3>3. back = <<p>> \/ back = << >>
      BY Zenon
    <3> HIDE DEF back, t
    <3>4. back \in Seq(Pages)
      BY <3>2, <3>3, Zenon
    <3>5. QED
      BY <2>3, <3>1, <3>4, AllocType
  <2>8. /\ block' \in [Blocks -> RequestBlock]
        /\ \A x \in Blocks : /\ block'[x].in_use = block[x].in_use
                             /\ block'[x].tenant_id = block[x].tenant_id
    <3> DEFINE new == [Table EXCEPT ![Logical] = np]
    <3>1. new \in Seq(Pages)
      BY <2>1, AppendFacts DEF NeedsFork
    <3>2. block' = [block EXCEPT ![call.block].page_table = new]
      BY <2>2 DEF Table
    <3> HIDE DEF new
    <3>3. QED
      BY ZenonT(40), <2>3, <3>1, <3>2 DEF RequestBlock
  <2>9. call' \in Frame /\ call'.block = call.block /\ call'.op = call.op
    <3> DEFINE w == Append(call.work, Copy(p, np))
    <3>1. Copy(p, np) \in Work
      BY <2>3 DEF Copy, Work
    <3>2. w \in Seq(Work)
      BY <3>1, FrameFacts
    <3>3. call' = [call EXCEPT !.at = NextPage, !.work = w]
      BY <2>2
    <3> HIDE DEF w
    <3>4. QED
      <4>1. call \in Frame /\ NextPage \in Nat
        BY <2>1, AppendFacts
      <4>2. QED
        BY ONLY <3>2, <3>3, <4>1, CursorWorkType
  <2>10. UNCHANGED <<quota, pending, misfiled>>
    BY <1>2 DEF AppendFork
  <2>11. Owned'
    BY <2>8, <2>9, OwnedKept
  <2>12. QED
    BY <2>6, <2>7, <2>8, <2>9, <2>10, <2>11
<1>3. CASE AppendInPlace
  <2>1. Appending /\ call' = [call EXCEPT !.at = NextPage]
        /\ UNCHANGED <<page, tenants, block, globalFree, index, lastUsed, pending, misfiled>>
    BY <1>3 DEF AppendInPlace
  <2>2. call' \in Frame /\ call'.block = call.block /\ call'.op = call.op
    BY <2>1, AppendFacts, CursorType
  <2>3. QED
    BY <2>1, <2>2, OwnedKept DEF tenants
<1>4. CASE AppendFail
  <2>1. call' = Idle /\ UNCHANGED <<page, tenants, block, globalFree, index, lastUsed, pending, misfiled>>
    BY <1>4 DEF AppendFail, Return
  <2>2. QED
    BY <2>1, IdleType, OwnedKept DEF tenants
<1>5. CASE AppendReturn
  <2>1. /\ block' = [block EXCEPT ![call.block].pos = call.until]
        /\ pending' = [pending EXCEPT ![call.block] = call.work]
        /\ call' = Idle
        /\ UNCHANGED <<page, tenants, globalFree, index, lastUsed, misfiled>>
    BY <1>5 DEF AppendReturn, Return
  <2>2. call.block \in Blocks /\ call.until \in Nat /\ call.work \in Seq(Work)
    BY FrameFacts
  <2>3. /\ block' \in [Blocks -> RequestBlock]
        /\ \A x \in Blocks : /\ block'[x].in_use = block[x].in_use
                             /\ block'[x].tenant_id = block[x].tenant_id
    BY ZenonT(40), <2>1, <2>2 DEF RequestBlock
  <2>4. pending' \in [Blocks -> Seq(Work)]
    BY <2>1, <2>2
  <2>5. QED
    BY <2>1, <2>3, <2>4, IdleType, OwnedKept DEF tenants
<1>6. QED
  BY <1>1, <1>2, <1>3, <1>4, <1>5

\* Every step of the pool keeps the types.
LEMMA TypeStep ==
  ASSUME TypeInv, [AnyNext]_vars
  PROVE  TypeInv'
<1>1. CASE AnyEnter
  BY <1>1, EnterType
<1>2. CASE LockedStep
  BY <1>2, AcquireType, ReleaseType, AppendType, CommitType DEF LockedStep
<1>3. ASSUME NEW b \in Blocks, DeferredStep(b)
      PROVE  TypeInv'
  <2>1. pending[b] \in Seq(Work) /\ pending[b] # << >>
    BY <1>3 DEF DeferredStep, TypeInv, TypeOK
  <2>2. Tail(pending[b]) \in Seq(Work)
    BY <2>1
  <2>3. pending' \in [Blocks -> Seq(Work)]
    BY <1>3, <2>2 DEF DeferredStep, TypeInv, TypeOK
  <2>4. UNCHANGED <<page, tenants, block, globalFree, index, lastUsed, call, misfiled>>
    BY <1>3 DEF DeferredStep
  <2>5. QED
    BY <2>3, <2>4 DEF TypeInv, TypeOK, Owned, tenants
<1>4. CASE UNCHANGED vars
  BY <1>4 DEF vars, tenants, TypeInv, TypeOK, Owned
<1>5. QED
  BY <1>1, <1>2, <1>3, <1>4 DEF AnyNext

\* The types are an invariant of the specification.
LEMMA TypeInvariant == Spec => []TypeInv
<1>1. TypeInv /\ [Next]_vars => TypeInv'
  BY NextIsAny, TypeStep
<1>2. QED
  BY InitType, <1>1, PTL DEF Spec

\* Whatever the callers do, every variable keeps the type of the struct it
\* models: no count goes below zero, no table, free list or index entry holds
\* anything but a page, and every open call works on a block that has a tenant.
THEOREM TypeCorrect == Spec => []TypeOK
<1>1. Spec => []TypeInv
  BY TypeInvariant
<1>2. TypeInv => TypeOK
  BY DEF TypeInv
<1>3. QED
  BY <1>1, <1>2, PTL

-----------------------------------------------------------------------------
\* Action properties.

\* Only alloc_one_page takes a page from another tenant during an Append, and
\* only from one above its floor.
LEMMA FloorStep ==
  ASSUME TypeInv, [AnyNext]_vars, call.op = "append",
         NEW x \in Tenants \ {block[call.block].tenant_id},
         used'[x] < used[x]
  PROVE  used'[x] >= quota[x].reservation_floor
<1> DEFINE t == block[call.block].tenant_id
<1>1. used \in [Tenants -> Nat] /\ quota[x].reservation_floor \in Nat /\ t \in Tenants
  BY FrameFacts DEF TypeInv, TypeOK, Quota
<1>2. ASSUME NEW p, NEW back, AllocOnePage(t, p, back)
      PROVE  used'[x] >= quota[x].reservation_floor
  <2>1. CASE TakeOwnFree(t, p, back)
    <3>1. used' = used
      BY <2>1, Zenon DEF TakeOwnFree
    <3>2. QED
      BY <1>1, <3>1
  <2>2. CASE TakeGlobal(t, p, back)
    <3>1. used' = [used EXCEPT ![t] = used[t] + 1]
      BY <2>2 DEF TakeGlobal
    <3>2. used'[x] = used[x]
      BY <3>1, <1>1
    <3>3. QED
      BY <3>2, <1>1
  <2>3. CASE EvictOther(t, p, back)
    <3>1. PICK o \in Tenants \ {t} :
            /\ AboveFloor(o)
            /\ used' = [used EXCEPT ![o] = used[o] - 1, ![t] = used[t] + 1]
      BY <2>3, Zenon DEF EvictOther
    <3>2. x # o => used'[x] = used[x]
      BY <3>1, <1>1
    <3>3. x = o
      BY <3>2, <1>1
    <3>4. used'[x] = used[x] - 1
      BY <3>1, <3>3, <1>1
    <3>5. used[x] > quota[x].reservation_floor
      BY <3>1, <3>3 DEF AboveFloor
    <3>6. QED
      BY <3>4, <3>5, <1>1
  <2>4. QED
    BY <1>2, <2>1, <2>2, <2>3 DEF AllocOnePage
<1>3. CASE AppendNewPage
  BY <1>2, <1>3 DEF AppendNewPage
<1>4. CASE AppendFork
  <2>1. \E np, back : AllocOnePage(t, np, back)
    BY <1>4, Zenon DEF AppendFork
  <2>2. QED
    BY <2>1, <1>2
<1>5. CASE \/ AppendInPlace \/ AppendFail \/ AppendReturn
           \/ UNCHANGED vars \/ \E b \in Blocks : DeferredStep(b)
  <2>1. UNCHANGED used
    BY <1>5 DEF AppendInPlace, AppendFail, AppendReturn, DeferredStep, vars, tenants
  <2>2. QED
    BY <2>1, <1>1
<1>6. ~AnyEnter
  <2>1. call # Idle
    BY DEF Idle
  <2>2. QED
    BY <2>1, Zenon DEF AnyEnter, SetTenantQuota, AcquireBegin, ReleaseBegin, AppendBegin,
                CommitBegin, MayCall
<1>7. ~(AcquireMatch \/ AcquireReturn \/ ReleasePage \/ ReleaseReturn
        \/ CommitPage \/ CommitReturn)
  BY DEF AcquireMatch, AcquireReturn, ReleasePage, ReleaseReturn, CommitPage, CommitReturn
<1>8. QED
  BY <1>3, <1>4, <1>5, <1>6, <1>7 DEF AnyNext, LockedStep

\* The reservation floor holds against the Appends of other tenants, for any
\* number of tenants and pages.
THEOREM FloorKeptAlways == Spec => FloorKept
<1>1. TypeInv /\ [Next]_vars =>
        [call.op = "append" =>
           \A t \in Tenants \ {block[call.block].tenant_id} :
             used'[t] < used[t] => used'[t] >= quota[t].reservation_floor]_vars
  BY NextIsAny, FloorStep
<1>2. QED
  BY <1>1, TypeInvariant, PTL DEF Spec, FloorKept

-----------------------------------------------------------------------------
\* Page tables within their bound.

\* While Acquire runs, its table is as long as its loop has turned.
Bounded ==
  /\ PageTablesBounded
  /\ call.op = "acquire" => Len(block[call.block].page_table) = call.at

\* Whole pages within whole pages are no more of them, and the other way round.
LEMMA PagesWithin ==
  ASSUME NEW m \in Nat, NEW n \in Nat
  PROVE  m <= n <=> m * PageSize <= n * PageSize
<1>1. PageSize \in Nat /\ PageSize > 0
  BY PoolAssumption
<1>2. ASSUME m <= n PROVE m * PageSize <= n * PageSize
  <2>1. n - m \in Nat
    BY <1>2
  <2>2. (n - m) * PageSize >= 0
    BY <1>1, <2>1
  <2>3. n * PageSize = m * PageSize + (n - m) * PageSize
    BY <1>1
  <2>4. QED
    BY <2>2, <2>3, <1>1
<1>3. ASSUME m > n PROVE m * PageSize > n * PageSize
  <2>1. m - n - 1 \in Nat
    BY <1>3
  <2>2. (m - n - 1) * PageSize >= 0
    BY <1>1, <2>1
  <2>3. m * PageSize = n * PageSize + PageSize + (m - n - 1) * PageSize
    BY <1>1
  <2>4. QED
    BY <2>2, <2>3, <1>1
<1>4. m * PageSize \in Nat /\ n * PageSize \in Nat
  BY ProductNat
<1> DEFINE x == m * PageSize
           y == n * PageSize
<1>5. x \in Nat /\ y \in Nat /\ (m <= n => x <= y) /\ (m > n => x > y)
  BY <1>2, <1>3, <1>4
<1> HIDE DEF x, y
<1>6. m <= n <=> x <= y
  BY <1>5
<1>7. QED
  BY <1>6 DEF x, y

\* A hash of k whole pages of a sequence that has them is that long.
LEMMA ChainHashLength ==
  ASSUME NEW tokens \in Seq(Token), NEW k \in Nat, k * PageSize <= Len(tokens)
  PROVE  Len(ChainHash(tokens, k)) = k * PageSize
<1>1. k * PageSize \in Nat
  BY ProductNat
<1>2. QED
  BY <1>1 DEF ChainHash

\* What one iteration of Acquire does, field by field.
LEMMA AcquireMatchEffect ==
  ASSUME TypeInv, AcquireMatch
  PROVE  \E p \in Matching :
    /\ p \in Pages /\ p \in Range(index)
    /\ block' = [block EXCEPT ![call.block].page_table = Append(@, p)]
    /\ page'[p].ref_count = page[p].ref_count + 1
    /\ \A q \in Pages \ {p} : page'[q] = page[q]
    /\ block'[call.block].page_table = Append(block[call.block].page_table, p)
    /\ \A b \in Blocks \ {call.block} : block'[b].page_table = block[b].page_table
    /\ \A t \in Tenants : /\ ToSet(free'[t]) \subseteq ToSet(free[t])
                          /\ ToSet(free[t]) \ {p} \subseteq ToSet(free'[t])
    /\ call.op = "acquire" /\ call'.op = "acquire"
    /\ call'.at = call.at + 1 /\ call'.block = call.block
    /\ UNCHANGED <<globalFree, index>>
<1> DEFINE t == block[call.block].tenant_id
<1>1. t \in Tenants /\ call.block \in Blocks
  BY FrameFacts DEF AcquireMatch
<1>2. PICK p \in Matching :
        LET o == page[p].tenant_id
            unlist == page[p].ref_count = 0 /\ o \in Tenants
            takeover == unlist /\ o # t
        IN  /\ free' = IF unlist THEN [free EXCEPT ![o] = RemoveFirst(@, p)] ELSE free
            /\ page' = [page EXCEPT ![p].ref_count = @ + 1,
                                    ![p].tenant_id = IF takeover THEN t ELSE @]
            /\ block' = [block EXCEPT ![call.block].page_table = Append(@, p)]
  BY Zenon DEF AcquireMatch
<1> DEFINE o == page[p].tenant_id
           unlist == page[p].ref_count = 0 /\ o \in Tenants
<1>3. p \in Pages
  BY DEF Matching
<1>4. p \in Range(index)
  BY DEF Matching, Range
<1>5. /\ page'[p].ref_count = page[p].ref_count + 1
      /\ \A q \in Pages \ {p} : page'[q] = page[q]
  BY <1>2, <1>3 DEF TypeInv, TypeOK, Page
<1>6. /\ block'[call.block].page_table = Append(block[call.block].page_table, p)
      /\ \A b \in Blocks \ {call.block} : block'[b].page_table = block[b].page_table
  BY <1>1, <1>2 DEF TypeInv, TypeOK, RequestBlock
<1>7. ASSUME NEW x \in Tenants
      PROVE  /\ ToSet(free'[x]) \subseteq ToSet(free[x])
             /\ ToSet(free[x]) \ {p} \subseteq ToSet(free'[x])
  <2>1. free[x] \in Seq(Pages)
    BY DEF TypeInv, TypeOK
  <2>2. free'[x] = free[x] \/ free'[x] = RemoveFirst(free[x], p)
    BY <1>2 DEF TypeInv, TypeOK
  <2>3. QED
    BY <2>1, <2>2, RemoveFirstProperties
<1>8. /\ call.op = "acquire" /\ call'.op = "acquire"
      /\ call'.at = call.at + 1 /\ call'.block = call.block
      /\ UNCHANGED <<globalFree, index>>
  BY CursorType, NextAt DEF AcquireMatch, TypeInv, TypeOK
<1>9. QED
  BY <1>2, <1>3, <1>4, <1>5, <1>6, <1>7, <1>8

\* The members of a sequence are what it has at its places.
LEMMA Members ==
  ASSUME NEW S, NEW s \in Seq(S)
  PROVE  /\ \A i \in 1 .. Len(s) : s[i] \in ToSet(s)
         /\ \A x \in ToSet(s) : \E i \in 1 .. Len(s) : s[i] = x
         /\ ToSet(s) \subseteq S
BY DEF ToSet

\* The members of a list that lost its head and got more at its end.
LEMMA TailAndBack ==
  ASSUME NEW S, NEW f \in Seq(S), f # << >>, NEW back \in Seq(S)
  PROVE  /\ ToSet(Tail(f) \o back) \subseteq ToSet(f) \cup ToSet(back)
         /\ ToSet(f) \ {Head(f)} \subseteq ToSet(Tail(f) \o back)
         /\ ToSet(back) \subseteq ToSet(Tail(f) \o back)
<1> DEFINE u == Tail(f)
           w == u \o back
<1>1. /\ Len(f) \in Nat \ {0} /\ Len(back) \in Nat /\ Head(f) = f[1]
      /\ u \in Seq(S) /\ Len(u) = Len(f) - 1
      /\ \A i \in 1 .. Len(f) - 1 : u[i] = f[i + 1]
  OBVIOUS
<1> HIDE DEF u
<1>2. /\ w \in Seq(S) /\ Len(w) = Len(f) - 1 + Len(back)
      /\ \A i \in 1 .. Len(f) - 1 : w[i] = f[i + 1]
      /\ \A j \in 1 .. Len(back) : w[Len(f) - 1 + j] = back[j]
  <2>1. /\ w \in Seq(S) /\ Len(w) = Len(u) + Len(back)
        /\ \A i \in 1 .. Len(u) + Len(back) :
             w[i] = IF i <= Len(u) THEN u[i] ELSE back[i - Len(u)]
    BY <1>1, ConcatProperties
  <2> HIDE DEF w
  <2>2. ASSUME NEW i \in 1 .. Len(f) - 1 PROVE w[i] = f[i + 1]
    <3>1. i \in 1 .. Len(u) + Len(back) /\ i <= Len(u)
      BY <1>1
    <3>2. w[i] = u[i]
      BY <2>1, <3>1
    <3>3. QED
      BY <1>1, <3>2
  <2>3. ASSUME NEW j \in 1 .. Len(back) PROVE w[Len(f) - 1 + j] = back[j]
    <3>1. /\ Len(f) - 1 + j \in 1 .. Len(u) + Len(back)
          /\ ~(Len(f) - 1 + j <= Len(u)) /\ (Len(f) - 1 + j) - Len(u) = j
      BY <1>1
    <3>2. QED
      BY <2>1, <3>1
  <2>4. QED
    BY <1>1, <2>1, <2>2, <2>3
<1> HIDE DEF w
<1>3. ASSUME NEW k \in 1 .. Len(w) PROVE w[k] \in ToSet(f) \cup ToSet(back)
  <2>1. CASE k <= Len(f) - 1
    <3>1. k \in 1 .. Len(f) - 1 /\ k + 1 \in 1 .. Len(f)
      BY <2>1, <1>1, <1>2
    <3>2. QED
      BY <3>1, <1>2, Members
  <2>2. CASE k > Len(f) - 1
    <3>1. k - (Len(f) - 1) \in 1 .. Len(back) /\ k = Len(f) - 1 + (k - (Len(f) - 1))
      BY <2>2, <1>1, <1>2
    <3>2. w[k] = back[k - (Len(f) - 1)]
      BY <3>1, <1>2
    <3>3. QED
      BY <3>1, <3>2, Members
  <2>3. QED
    BY <2>1, <2>2, <1>1, <1>2
<1>4. ASSUME NEW k \in 2 .. Len(f) PROVE f[k] \in ToSet(w)
  <2>1. k - 1 \in 1 .. Len(f) - 1 /\ k - 1 \in 1 .. Len(w) /\ (k - 1) + 1 = k
    BY <1>1, <1>2
  <2>2. w[k - 1] = f[k]
    BY <2>1, <1>2
  <2>3. QED
    BY <2>1, <2>2, <1>2, Members
<1>5. ASSUME NEW j \in 1 .. Len(back) PROVE back[j] \in ToSet(w)
  <2>1. Len(f) - 1 + j \in 1 .. Len(w)
    BY <1>1, <1>2
  <2>2. QED
    BY <2>1, <1>2, Members
<1>6. ASSUME NEW x \in ToSet(w) PROVE x \in ToSet(f) \cup ToSet(back)
  <2>1. PICK k \in 1 .. Len(w) : w[k] = x
    BY <1>2, Members
  <2>2. QED
    BY <2>1, <1>3
<1>7. ToSet(f) \ {Head(f)} \subseteq ToSet(w)
  <2>1. \A k \in 1 .. Len(f) : f[k] # Head(f) => k \in 2 .. Len(f)
    BY <1>1
  <2>2. ASSUME NEW x \in ToSet(f), x # Head(f) PROVE x \in ToSet(w)
    <3>1. PICK k \in 1 .. Len(f) : f[k] = x
      BY Members
    <3>2. QED
      BY <2>1, <2>2, <3>1, <1>4
  <2>3. QED
    BY <2>2
<1>8. ToSet(back) \subseteq ToSet(w)
  BY <1>5, Members
<1>9. QED
  BY <1>6, <1>7, <1>8 DEF w, u

\* What alloc_one_page does to the lists: the page it gives leaves the list it
\* was on, the others stay, and the index loses entries at most.
LEMMA AllocEffect ==
  ASSUME TypeInv, NEW t \in Tenants, NEW p \in Pages, NEW back \in Seq(Pages),
         AllocOnePage(t, p, back)
  PROVE  /\ \A x \in Tenants : /\ ToSet(free'[x]) \subseteq ToSet(free[x]) \cup ToSet(back)
                               /\ ToSet(free[x]) \ {p} \subseteq ToSet(free'[x])
         /\ ToSet(back) \subseteq ToSet(free'[t])
         /\ \/ /\ \E x \in Tenants : p \in ToSet(free[x])
               /\ globalFree' = globalFree
            \/ globalFree # << >> /\ p = Head(globalFree) /\ globalFree' = Tail(globalFree)
         /\ \A h \in DOMAIN index' : h \in DOMAIN index /\ index'[h] = index[h]
<1>1. free \in [Tenants -> Seq(Pages)] /\ index = index
  BY DEF TypeInv, TypeOK
<1>2. CASE TakeOwnFree(t, p, back)
  <2> DEFINE f == free[t]
  <2>1. f \in Seq(Pages) /\ f # << >> /\ p = Head(f)
    BY <1>1, <1>2 DEF TakeOwnFree
  <2>2. /\ ToSet(Tail(f) \o back) \subseteq ToSet(f) \cup ToSet(back)
        /\ ToSet(f) \ {p} \subseteq ToSet(Tail(f) \o back)
        /\ ToSet(back) \subseteq ToSet(Tail(f) \o back)
    BY <2>1, TailAndBack
  <2>3. /\ free'[t] = Tail(f) \o back
        /\ \A x \in Tenants \ {t} : free'[x] = free[x]
        /\ UNCHANGED <<globalFree, index>>
    BY <1>1, <1>2 DEF TakeOwnFree
  <2>4. p \in ToSet(f)
    BY <2>1 DEF ToSet
  <2> HIDE DEF f
  <2>5. QED
    BY <2>2, <2>3, <2>4 DEF f
<1>3. CASE TakeGlobal(t, p, back)
  <2>1. /\ free'[t] = back /\ free[t] = << >>
        /\ \A x \in Tenants \ {t} : free'[x] = free[x]
        /\ globalFree # << >> /\ p = Head(globalFree) /\ globalFree' = Tail(globalFree)
        /\ index' = index
    BY <1>1, <1>3 DEF TakeGlobal
  <2>2. ToSet(free[t]) = {}
    BY <2>1 DEF ToSet
  <2>3. QED
    BY <2>1, <2>2
<1>4. CASE EvictOther(t, p, back)
  <2>1. PICK o \in Tenants \ {t} :
          /\ p \in ToSet(free[o])
          /\ free' = [free EXCEPT ![o] = RemoveFirst(@, p), ![t] = back]
    BY <1>4, Zenon DEF EvictOther
  <2>2. /\ free'[t] = back /\ free'[o] = RemoveFirst(free[o], p)
        /\ \A x \in Tenants \ {o, t} : free'[x] = free[x]
    BY <1>1, <2>1
  <2>3. /\ ToSet(free'[o]) \subseteq ToSet(free[o])
        /\ ToSet(free[o]) \ {p} \subseteq ToSet(free'[o])
    BY <1>1, <2>2, RemoveFirstProperties
  <2>4. free[t] = << >> /\ globalFree' = globalFree /\ index' = IndexWithout(p)
    BY <1>4 DEF EvictOther
  <2>5. ToSet(free[t]) = {}
    BY <2>4 DEF ToSet
  <2>6. \A h \in DOMAIN index' : h \in DOMAIN index /\ index'[h] = index[h]
    BY <2>4, IndexWithoutType DEF TypeInv
  <2>7. QED
    BY <2>1, <2>2, <2>3, <2>4, <2>5, <2>6
<1>5. QED
  BY <1>2, <1>3, <1>4 DEF AllocOnePage

-----------------------------------------------------------------------------
\* The holders of a page.

\* There are finitely many.
LEMMA HoldersFinite ==
  ASSUME NEW p
  PROVE  IsFiniteSet(Holders(p)) /\ Cardinality(Holders(p)) \in Nat
<1>1. IsFiniteSet(Blocks) /\ IsFiniteSet(Slots)
  BY FS_Interval, PoolAssumption DEF Blocks, Slots
<1>2. IsFiniteSet(Blocks \X Slots)
  BY <1>1, FS_Product
<1>3. Holders(p) \in SUBSET (Blocks \X Slots)
  BY DEF Holders
<1>4. QED
  BY <1>2, <1>3, FS_Subset, FS_CardinalityType

\* A page has one holder more than before, or one less.
LEMMA OneMore ==
  ASSUME NEW S, IsFiniteSet(S), NEW x, x \notin S
  PROVE  Cardinality(S \cup {x}) = Cardinality(S) + 1
BY FS_AddElement

\* And one holder less.
LEMMA OneLess ==
  ASSUME NEW S, IsFiniteSet(S), NEW x \in S
  PROVE  Cardinality(S \ {x}) = Cardinality(S) - 1
BY FS_RemoveElement

\* A page without holders counts none, and the other way round.
LEMMA NoHolders ==
  ASSUME NEW p
  PROVE  Holders(p) = {} <=> Cardinality(Holders(p)) = 0
BY HoldersFinite, FS_EmptySet

\* The entry a block has at a slot, if it still counts on it.
Entry(b, i) == /\ i <= Len(block[b].page_table)
               /\ ~Released(b, i)

\* A step that leaves every entry as it is leaves the holders.
LEMMA HoldersSame ==
  ASSUME \A b \in Blocks, i \in Slots :
           /\ Entry(b, i)' <=> Entry(b, i)
           /\ Entry(b, i) => block'[b].page_table[i] = block[b].page_table[i],
         NEW p
  PROVE  Holders(p)' = Holders(p)
BY DEF Holders, Entry

\* A step that makes a new entry for p gives p a holder,
LEMMA HoldersGained ==
  ASSUME NEW c \in Blocks, NEW k \in Slots, NEW p,
         ~Entry(c, k), Entry(c, k)', block'[c].page_table[k] = p,
         \A b \in Blocks, i \in Slots : <<b, i>> # <<c, k>> =>
           /\ Entry(b, i)' <=> Entry(b, i)
           /\ Entry(b, i) => block'[b].page_table[i] = block[b].page_table[i],
         NEW q
  PROVE  /\ Holders(p)' = Holders(p) \cup {<<c, k>>}
         /\ <<c, k>> \notin Holders(p)
         /\ q # p => Holders(q)' = Holders(q)
<1>1. Holders(p)' = Holders(p) \cup {<<c, k>>}
  BY DEF Holders, Entry
<1>2. <<c, k>> \notin Holders(p)
  BY DEF Holders, Entry
<1>3. q # p => Holders(q)' = Holders(q)
  BY DEF Holders, Entry
<1>4. QED
  BY ONLY <1>1, <1>2, <1>3

\* and a step that gives up an entry for p takes one from p.
LEMMA HoldersLost ==
  ASSUME NEW c \in Blocks, NEW k \in Slots, NEW p,
         Entry(c, k), ~Entry(c, k)', block[c].page_table[k] = p,
         \A b \in Blocks, i \in Slots : <<b, i>> # <<c, k>> =>
           /\ Entry(b, i)' <=> Entry(b, i)
           /\ Entry(b, i) => block'[b].page_table[i] = block[b].page_table[i],
         NEW q
  PROVE  /\ Holders(p)' = Holders(p) \ {<<c, k>>}
         /\ <<c, k>> \in Holders(p)
         /\ q # p => Holders(q)' = Holders(q)
<1>1. Holders(p)' = Holders(p) \ {<<c, k>>}
  BY DEF Holders, Entry
<1>2. <<c, k>> \in Holders(p)
  BY DEF Holders, Entry
<1>3. q # p => Holders(q)' = Holders(q)
  BY DEF Holders, Entry
<1>4. QED
  BY ONLY <1>1, <1>2, <1>3

\* A step that replaces the entry for p by one for n hands it over.
LEMMA HoldersMoved ==
  ASSUME NEW c \in Blocks, NEW k \in Slots, NEW p, NEW n, n # p,
         Entry(c, k), Entry(c, k)',
         block[c].page_table[k] = p, block'[c].page_table[k] = n,
         \A b \in Blocks, i \in Slots : <<b, i>> # <<c, k>> =>
           /\ Entry(b, i)' <=> Entry(b, i)
           /\ Entry(b, i) => block'[b].page_table[i] = block[b].page_table[i],
         NEW q
  PROVE  /\ Holders(p)' = Holders(p) \ {<<c, k>>} /\ <<c, k>> \in Holders(p)
         /\ Holders(n)' = Holders(n) \cup {<<c, k>>} /\ <<c, k>> \notin Holders(n)
         /\ q \notin {n, p} => Holders(q)' = Holders(q)
<1> DEFINE s == <<c, k>>
<1>1. s \in Blocks \X Slots /\ s[1] = c /\ s[2] = k
  OBVIOUS
<1>2. ASSUME NEW r \in Blocks \X Slots, r # s
      PROVE  \A x : r \in Holders(x)' <=> r \in Holders(x)
  <2>1. r[1] \in Blocks /\ r[2] \in Slots /\ <<r[1], r[2]>> # <<c, k>>
    BY <1>2
  <2>2. /\ Entry(r[1], r[2])' <=> Entry(r[1], r[2])
        /\ Entry(r[1], r[2]) => block'[r[1]].page_table[r[2]] = block[r[1]].page_table[r[2]]
    BY <2>1
  <2>3. QED
    BY <2>2 DEF Holders, Entry
<1>3. \A x : s \in Holders(x) <=> x = p
  BY <1>1 DEF Holders, Entry
<1>4. \A x : s \in Holders(x)' <=> x = n
  BY <1>1 DEF Holders, Entry
<1>5. \A x : Holders(x) \subseteq Blocks \X Slots /\ Holders(x)' \subseteq Blocks \X Slots
  BY DEF Holders
<1> HIDE DEF s
<1>6. Holders(p)' = Holders(p) \ {s} /\ s \in Holders(p)
  BY <1>2, <1>3, <1>4, <1>5
<1>7. Holders(n)' = Holders(n) \cup {s} /\ s \notin Holders(n)
  BY <1>1, <1>2, <1>3, <1>4, <1>5
<1>8. q \notin {n, p} => Holders(q)' = Holders(q)
  BY <1>2, <1>3, <1>4, <1>5
<1>9. QED
  BY <1>6, <1>7, <1>8 DEF s

\* A step that makes a block the holder of a page, and changes no other holder,
Gains(c, k, p) ==
  /\ Holders(p)' = Holders(p) \cup {<<c, k>>}
  /\ <<c, k>> \notin Holders(p)
  /\ \A q \in Pages \ {p} : Holders(q)' = Holders(q)

\* one that takes a holder from a page,
Loses(c, k, p) ==
  /\ Holders(p)' = Holders(p) \ {<<c, k>>}
  /\ <<c, k>> \in Holders(p)
  /\ \A q \in Pages \ {p} : Holders(q)' = Holders(q)

\* and one that hands a holder of p over to n.
HandsOver(c, k, p, n) ==
  /\ Holders(p)' = Holders(p) \ {<<c, k>>} /\ <<c, k>> \in Holders(p)
  /\ Holders(n)' = Holders(n) \cup {<<c, k>>} /\ <<c, k>> \notin Holders(n)
  /\ \A q \in Pages \ {n, p} : Holders(q)' = Holders(q)

\* A table that grows by p
TableGrows(c, k, p) ==
  /\ k = Len(block[c].page_table) + 1 /\ k <= MaxPagesPerRequest
  /\ block'[c].page_table = Append(block[c].page_table, p)
  /\ \A b \in Blocks \ {c} : block'[b].page_table = block[b].page_table

\* gives p a holder at its new end.
LEMMA TableGrown ==
  ASSUME TypeInv, call.op # "release", call'.op # "release",
         NEW c \in Blocks, c = call.block, NEW k \in Nat, NEW p \in Pages,
         TableGrows(c, k, p)
  PROVE  Gains(c, k, p)
<1> USE DEF TableGrows
<1>1. /\ block[c].page_table \in Seq(Pages)
      /\ \A b \in Blocks : Len(block[b].page_table) \in Nat
  BY FrameFacts
<1>2. k \in Slots
  BY <1>1, PoolAssumption DEF Slots
<1>3. \A b, i : ~Released(b, i) /\ ~Released(b, i)'
  BY DEF Released
<1>4. /\ Len(block'[c].page_table) = k /\ block'[c].page_table[k] = p
      /\ \A i \in Slots : i < k => block'[c].page_table[i] = block[c].page_table[i]
  BY <1>1, <1>2 DEF Slots
<1>5. ~Entry(c, k) /\ Entry(c, k)'
  <2>1. k \in Nat /\ ~(k <= Len(block[c].page_table)) /\ k <= k
    BY <1>1
  <2>2. k <= Len(block'[c].page_table)
    BY <1>4, <2>1
  <2>3. QED
    BY <1>3, <2>1, <2>2 DEF Entry
<1>6. ASSUME NEW b \in Blocks, NEW i \in Slots, <<b, i>> # <<c, k>>
      PROVE  /\ Entry(b, i)' <=> Entry(b, i)
             /\ Entry(b, i) => block'[b].page_table[i] = block[b].page_table[i]
  <2>1. CASE b # c
    BY <1>3, <2>1 DEF Entry
  <2>2. CASE b = c
    <3>1. i # k /\ i \in Nat /\ k \in Nat
      BY <1>2, <1>6, <2>2 DEF Slots
    <3>2. i <= k <=> i <= Len(block[c].page_table)
      BY <1>1, <3>1
    <3>3. Entry(b, i)' <=> Entry(b, i)
      BY <1>3, <1>4, <2>2, <3>2 DEF Entry
    <3>4. Entry(b, i) => i < k
      BY <1>1, <2>2, <3>1 DEF Entry
    <3>5. QED
      BY <1>4, <2>2, <3>3, <3>4
  <2>3. QED
    BY <2>1, <2>2
<1>7. /\ c \in Blocks /\ k \in Slots /\ ~Entry(c, k) /\ Entry(c, k)'
      /\ block'[c].page_table[k] = p
  BY <1>2, <1>4, <1>5
<1>8. \A q : /\ Holders(p)' = Holders(p) \cup {<<c, k>>} /\ <<c, k>> \notin Holders(p)
             /\ q # p => Holders(q)' = Holders(q)
  BY ONLY <1>6, <1>7, HoldersGained
<1>9. QED
  BY ONLY <1>8 DEF Gains

-----------------------------------------------------------------------------
\* Pages that were never handed out.

\* The tail of a list has all its members but the head.
LEMMA GlobalTail ==
  ASSUME NEW S, NEW s \in Seq(S), s # << >>
  PROVE  \A x \in ToSet(s) : x = Head(s) \/ x \in ToSet(Tail(s))
<1>1. /\ Len(s) \in Nat \ {0} /\ Head(s) = s[1] /\ Tail(s) \in Seq(S)
      /\ Len(Tail(s)) = Len(s) - 1
      /\ \A i \in 1 .. Len(s) - 1 : Tail(s)[i] = s[i + 1]
  OBVIOUS
<1>2. ASSUME NEW x \in ToSet(s), x # Head(s) PROVE x \in ToSet(Tail(s))
  <2>1. PICK i \in 1 .. Len(s) : s[i] = x
    BY Members
  <2>2. i - 1 \in 1 .. Len(s) - 1 /\ (i - 1) + 1 = i
    BY <1>1, <1>2, <2>1
  <2>3. i - 1 \in 1 .. Len(Tail(s)) /\ Tail(s)[i - 1] = x
    BY <1>1, <2>1, <2>2
  <2>4. QED
    BY <1>1, <2>3, Members
<1>3. QED
  BY <1>2

\* A list that grew has the new member besides the old ones.
LEMMA AppendMembers ==
  ASSUME NEW S, NEW s \in Seq(S), NEW e \in S
  PROVE  ToSet(Append(s, e)) = ToSet(s) \cup {e}
<1> DEFINE w == Append(s, e)
<1>1. /\ w \in Seq(S) /\ Len(s) \in Nat /\ Len(w) = Len(s) + 1 /\ w[Len(s) + 1] = e
      /\ \A i \in 1 .. Len(s) : w[i] = s[i]
  OBVIOUS
<1> HIDE DEF w
<1>2. ASSUME NEW x \in ToSet(w) PROVE x \in ToSet(s) \cup {e}
  <2>1. PICK i \in 1 .. Len(w) : w[i] = x
    BY <1>1, Members
  <2>2. i \in 1 .. Len(s) \/ i = Len(s) + 1
    BY <1>1
  <2>3. QED
    BY <1>1, <2>1, <2>2, Members
<1>3. ASSUME NEW x \in ToSet(s) PROVE x \in ToSet(w)
  <2>1. PICK i \in 1 .. Len(s) : s[i] = x
    BY Members
  <2>2. i \in 1 .. Len(w) /\ w[i] = x
    BY <1>1, <2>1
  <2>3. QED
    BY <1>1, <2>2, Members
<1>4. e \in ToSet(w)
  <2>1. Len(s) + 1 \in 1 .. Len(w)
    BY <1>1
  <2>2. QED
    BY <1>1, <2>1, Members
<1>5. QED
  BY <1>2, <1>3, <1>4 DEF w

\* A step that leaves the global free list and touches no untouched page.
LEMMA GlobalFreeSame ==
  ASSUME TypeInv, GlobalFreeUntouched, globalFree' = globalFree,
         \A q \in Pages : Untouched(q) => Untouched(q)'
  PROVE  GlobalFreeUntouched'
<1>1. \A q \in ToSet(globalFree) : q \in Pages
  BY DEF TypeInv, TypeOK, ToSet
<1>2. \A q \in ToSet(globalFree)' : q \in Pages /\ Untouched(q)'
  BY <1>1 DEF GlobalFreeUntouched, ToSet
<1>3. QED
  BY <1>2 DEF GlobalFreeUntouched

\* A step that takes the page at the front and touches no other untouched page.
LEMMA GlobalFreeTaken ==
  ASSUME TypeInv, GlobalFreeUntouched,
         globalFree # << >>, globalFree' = Tail(globalFree),
         \A q \in Pages \ {Head(globalFree)} : Untouched(q) => Untouched(q)'
  PROVE  GlobalFreeUntouched'
<1> DEFINE n == Len(globalFree) - 1
<1>1. /\ globalFree \in Seq(Pages) /\ n \in Nat
      /\ Head(globalFree) = globalFree[1]
      /\ DOMAIN globalFree = 1 .. n + 1
  BY DEF TypeInv, TypeOK
<1>2. /\ DOMAIN globalFree' = 1 .. n
      /\ \A i \in 1 .. n : globalFree'[i] = globalFree[i + 1]
  BY <1>1
<1> HIDE DEF n
<1>3. \A i \in 1 .. n : i + 1 \in DOMAIN globalFree /\ 1 \in DOMAIN globalFree /\ i + 1 # 1
  BY <1>1
<1>4. ASSUME NEW i \in 1 .. n, NEW j \in 1 .. n, globalFree'[i] = globalFree'[j]
      PROVE  i = j
  <2>1. i + 1 = j + 1
    BY <1>2, <1>3, <1>4 DEF GlobalFreeUntouched
  <2>2. QED
    BY <2>1
<1>5. ASSUME NEW i \in 1 .. n, NEW q, q = globalFree'[i]
      PROVE  Untouched(q)'
  <2>1. q \in Pages \ {Head(globalFree)} /\ q \in ToSet(globalFree)
    BY <1>1, <1>2, <1>3, <1>5 DEF GlobalFreeUntouched, ToSet
  <2>2. QED
    BY <2>1 DEF GlobalFreeUntouched
<1>6. QED
  BY <1>2, <1>4, <1>5 DEF GlobalFreeUntouched, ToSet

-----------------------------------------------------------------------------
\* The steps, by what they do to the books.

\* These steps do nothing to them.
QuietStep ==
  \/ AnyEnter
  \/ AcquireReturn \/ ReleaseReturn
  \/ AppendInPlace \/ AppendFail \/ AppendReturn \/ CommitReturn
  \/ \E b \in Blocks : DeferredStep(b)
  \/ UNCHANGED vars

\* They change no table entry a block counts on, no page, list or index entry.
LEMMA QuietEffect ==
  ASSUME TypeInv, Bounded, QuietStep
  PROVE  /\ \A b \in Blocks, i \in Slots :
              /\ Entry(b, i)' <=> Entry(b, i)
              /\ Entry(b, i) => block'[b].page_table[i] = block[b].page_table[i]
         /\ UNCHANGED <<page, free, globalFree, index>>
         /\ Bounded'
<1>1. UNCHANGED <<page, free, globalFree, index>>
  BY DEF QuietStep, AnyEnter, SetTenantQuota, AcquireBegin, ReleaseBegin, AppendBegin,
         CommitBegin, AcquireReturn, ReleaseReturn, AppendInPlace, AppendFail,
         AppendReturn, CommitReturn, DeferredStep, vars, tenants
<1>2. \A b \in Blocks : Len(block[b].page_table) \in Nat
  BY FrameFacts
<1>3. ASSUME \A b \in Blocks : block'[b].page_table = block[b].page_table,
             \A b \in Blocks, i \in Slots : Released(b, i)' <=> Released(b, i),
             call'.op = "acquire" => Len(block'[call'.block].page_table) = call'.at
      PROVE  /\ \A b \in Blocks, i \in Slots :
                  /\ Entry(b, i)' <=> Entry(b, i)
                  /\ Entry(b, i) => block'[b].page_table[i] = block[b].page_table[i]
             /\ Bounded'
  <2>1. \A b \in Blocks, i \in Slots :
          /\ Entry(b, i)' <=> Entry(b, i)
          /\ Entry(b, i) => block'[b].page_table[i] = block[b].page_table[i]
    BY <1>3 DEF Entry
  <2>2. Bounded'
    BY <1>1, <1>3 DEF Bounded, PageTablesBounded
  <2>3. QED
    BY <2>1, <2>2
<1>4. CASE \/ \E t \in Tenants, q \in Nat \X Nat : SetTenantQuota(t, q)
           \/ \E b \in Blocks : DeferredStep(b)
           \/ UNCHANGED vars
  <2>1. UNCHANGED <<block, call>>
    BY <1>4 DEF SetTenantQuota, DeferredStep, vars
  <2>2. QED
    BY <1>1, <1>3, <2>1 DEF Released, Bounded
<1>5. CASE \E t \in Tenants, tokens \in Seq(Token) : AcquireBegin(t, tokens)
  <2>1. PICK t \in Tenants, tokens \in Seq(Token) : AcquireBegin(t, tokens)
    BY <1>5
  <2>2. PICK c \in FreeSlots : /\ block' = [block EXCEPT ![c] = NewBlock(t)]
                               /\ call' = Open("acquire", c, 0, 0, tokens)
    BY <2>1, FreeSlotIsBlock DEF AcquireBegin
  <2>3. /\ c \in Blocks /\ block[c].page_table = << >> /\ block'[c].page_table = << >>
        /\ \A b \in Blocks : block'[b].page_table = block[b].page_table
    BY <2>2 DEF FreeSlots, NewBlock, TypeInv, TypeOK
  <2>4. call.op = "idle" /\ call'.op = "acquire" /\ call'.block = c /\ call'.at = 0
    BY <2>1, <2>2 DEF AcquireBegin, Idle, Open
  <2>5. Len(block'[call'.block].page_table) = call'.at
    BY <2>3, <2>4
  <2>6. QED
    BY <1>1, <1>3, <2>3, <2>4, <2>5 DEF Released
<1>6. CASE \/ \E b \in Blocks : ReleaseBegin(b)
           \/ \E b \in Blocks, n \in Nat \ {0} : AppendBegin(b, n)
  <2>1. UNCHANGED block /\ call.op = "idle" /\ call'.op # "acquire" /\ call'.at \in Nat
        /\ (call'.op = "release" => call'.at = 0)
    BY <1>6, FrameFacts DEF ReleaseBegin, AppendBegin, MayCall, Idle, Open
  <2>2. \A b, i : ~Released(b, i)
    BY <2>1 DEF Released
  <2>3. \A b \in Blocks, i \in Slots : ~Released(b, i)'
    BY <2>1 DEF Released, Slots
  <2>4. QED
    BY <1>1, <1>3, <2>1, <2>2, <2>3
<1>7. CASE \E b \in Blocks, new \in Nat, tokens \in Seq(Token) :
             new <= block[b].pos /\ CommitBegin(b, new, tokens)
  <2>1. PICK b, new, tokens : b \in Blocks /\ CommitBegin(b, new, tokens)
    BY <1>7
  <2>2. \A x \in Blocks : block'[x].page_table = block[x].page_table
    <3>1. \E kept : block' = [block EXCEPT ![b].pos = new, ![b].prefix = kept]
      BY <2>1 DEF CommitBegin
    <3>2. QED
      BY <3>1 DEF TypeInv, TypeOK, RequestBlock
  <2>3. call.op = "idle" /\ call'.op = "commit"
    BY <2>1 DEF CommitBegin, MayCall, Idle, Open
  <2>4. QED
    BY <1>1, <1>3, <2>2, <2>3 DEF Released
<1>8. CASE AcquireReturn \/ AppendReturn
  <2>1. \A x \in Blocks : block'[x].page_table = block[x].page_table
    <3>1. \E v : block' = [block EXCEPT ![call.block].pos = v]
      BY <1>8 DEF AcquireReturn, AppendReturn
    <3>2. QED
      BY <3>1 DEF TypeInv, TypeOK, RequestBlock
  <2>2. call.op # "release" /\ call'.op = "idle"
    BY <1>8 DEF AcquireReturn, AppendReturn, Return, Idle
  <2>3. QED
    BY <1>1, <1>3, <2>1, <2>2 DEF Released
<1>9. CASE AppendInPlace \/ AppendFail \/ CommitReturn
  <2>1. UNCHANGED block /\ call.op \in {"append", "commit"} /\ call'.op \in {"append", "idle"}
    BY <1>9 DEF AppendInPlace, AppendFail, CommitReturn, Return, Idle, Appending,
                TypeInv, TypeOK, Frame
  <2>2. QED
    BY <1>1, <1>3, <2>1 DEF Released
<1>10. CASE ReleaseReturn
  <2> DEFINE c == call.block
  <2>1. /\ block'[c].page_table = << >>
        /\ \A b \in Blocks \ {c} : block'[b].page_table = block[b].page_table
        /\ call.op = "release" /\ call.at = Len(block[c].page_table)
        /\ call'.op = "idle" /\ c \in Blocks
    BY <1>10, FrameFacts DEF ReleaseReturn, Return, Idle, TypeInv, TypeOK, RequestBlock
  <2>2. \A i \in Slots : ~(i <= Len(block'[c].page_table))
    BY <2>1 DEF Slots
  <2>3. \A b, i : ~Released(b, i)'
    BY <2>1 DEF Released
  <2>4. \A b, i : Released(b, i) <=> b = c /\ i <= Len(block[c].page_table)
    BY <2>1 DEF Released
  <2>5. \A b \in Blocks, i \in Slots : Entry(b, i)' <=> Entry(b, i)
    BY <2>1, <2>2, <2>3, <2>4 DEF Entry
  <2>6. \A b \in Blocks, i \in Slots :
          Entry(b, i) => block'[b].page_table[i] = block[b].page_table[i]
    BY <2>1, <2>4 DEF Entry
  <2>7. Bounded'
    <3>1. Len(block'[c].page_table) = 0
      BY <2>1
    <3>2. \A b \in Blocks : Len(block'[b].page_table) <= MaxPagesPerRequest
      BY <2>1, <3>1, PoolAssumption DEF Bounded, PageTablesBounded
    <3>3. QED
      BY <1>1, <2>1, <3>2 DEF Bounded, PageTablesBounded
  <2>8. QED
    BY <1>1, <2>5, <2>6, <2>7
<1>11. QED
  BY <1>4, <1>5, <1>6, <1>7, <1>8, <1>9, <1>10 DEF QuietStep, AnyEnter

-----------------------------------------------------------------------------
\* The books are kept.

Books ==
  /\ Bounded
  /\ RefCountCovered
  /\ NoPageLost
  /\ GlobalFreeUntouched

\* A page that a step has nothing to do with stays untouched.
LEMMA UntouchedKept ==
  ASSUME NEW q, Untouched(q),
         page'[q] = page[q], Holders(q)' = Holders(q),
         \A t \in Tenants : q \in ToSet(free'[t]) => q \in ToSet(free[t]),
         \A h \in DOMAIN index' : index'[h] = q => h \in DOMAIN index /\ index[h] = q
  PROVE  Untouched(q)'
BY DEF Untouched, Range

\* The next entry of the open frame's table makes its block a holder.
LEMMA EntryHolds ==
  ASSUME TypeInv, Bounded, NEW c \in Blocks, NEW k \in Nat \ {0},
         k <= Len(block[c].page_table), ~Released(c, k)
  PROVE  /\ k \in Slots /\ Entry(c, k)
         /\ block[c].page_table[k] \in Pages
         /\ <<c, k>> \in Holders(block[c].page_table[k])
<1>1. block[c].page_table \in Seq(Pages) /\ Len(block[c].page_table) \in Nat
  BY FrameFacts
<1>2. k \in Slots
  BY <1>1, PoolAssumption DEF Bounded, PageTablesBounded, Slots
<1>3. k \in 1 .. Len(block[c].page_table)
  BY <1>1
<1>4. QED
  BY <1>1, <1>2, <1>3 DEF Entry, Holders

\* A matched chunk makes the block the holder of the page it matched.
LEMMA AcquireGains ==
  ASSUME TypeInv, Bounded, AcquireMatch,
         NEW c, c = call.block, NEW k, k = call.at + 1, NEW p \in Matching,
         block' = [block EXCEPT ![c].page_table = Append(@, p)]
  PROVE  /\ c \in Blocks /\ k \in Slots /\ p \in Pages
         /\ k = Len(block[c].page_table) + 1
         /\ Gains(c, k, p)
<1>1. /\ c \in Blocks /\ k \in Nat \ {0} /\ call.op = "acquire"
      /\ block[c].page_table \in Seq(Pages) /\ call.at \in Nat
      /\ Len(block[c].page_table) \in Nat
  BY FrameFacts DEF AcquireMatch
<1>2. k = Len(block[c].page_table) + 1
  BY <1>1 DEF Bounded
<1>3. /\ p \in Pages /\ k * PageSize <= Len(call.tokens)
      /\ \E h \in DOMAIN index : index[h] = p /\ h = ChainHash(call.tokens, k)
  BY DEF Matching
<1>4. k <= MaxPagesPerRequest
  <2>1. PICK h \in DOMAIN index : index[h] = p /\ h = ChainHash(call.tokens, k)
    BY <1>3
  <2>2. Len(h) = k * PageSize
    BY <1>1, <1>3, <2>1, ChainHashLength, FrameFacts
  <2>3. k * PageSize <= MaxPagesPerRequest * PageSize
    BY <2>1, <2>2 DEF Bounded, PageTablesBounded
  <2>4. QED
    BY <1>1, <2>3, PagesWithin, PoolAssumption
<1>5. call'.op = "acquire"
  BY <1>1, NextAt, CursorType DEF AcquireMatch, TypeInv, TypeOK
<1>6. /\ block'[c].page_table = Append(block[c].page_table, p)
      /\ \A b \in Blocks \ {c} : block'[b].page_table = block[b].page_table
  BY <1>1 DEF TypeInv, TypeOK, RequestBlock
<1>7. Gains(c, k, p)
  <2>1. TableGrows(c, k, p)
    BY <1>2, <1>4, <1>6 DEF TableGrows
  <2>2. /\ TypeInv /\ call.op # "release" /\ call'.op # "release" /\ p \in Pages
        /\ c \in Blocks /\ c = call.block /\ k \in Nat
    BY <1>1, <1>3, <1>5
  <2>3. QED
    BY ONLY <2>1, <2>2, TableGrown
<1>8. k \in Slots
  BY ONLY <1>1, <1>4, PoolAssumption DEF Slots
<1>9. QED
  BY <1>1, <1>2, <1>3, <1>7, <1>8

\* A new page makes the block its holder.
LEMMA AppendGains ==
  ASSUME TypeInv, Bounded, AppendNewPage,
         NEW c, c = call.block, NEW k, k = Len(block[c].page_table) + 1, NEW p \in Pages,
         block' = [block EXCEPT ![c].page_table = Append(@, p)],
         call'.op = "append"
  PROVE  /\ c \in Blocks /\ k \in Slots
         /\ Gains(c, k, p)
<1>1. /\ Appending /\ ~TableFull /\ call.op = "append" /\ c \in Blocks
      /\ Table = block[c].page_table /\ block[c].page_table \in Seq(Pages)
      /\ k \in Nat \ {0}
  BY AppendFacts DEF AppendNewPage, Appending, Table
<1>2. k <= MaxPagesPerRequest
  BY <1>1, PoolAssumption DEF TableFull
<1>3. /\ block'[c].page_table = Append(block[c].page_table, p)
      /\ \A b \in Blocks \ {c} : block'[b].page_table = block[b].page_table
  BY <1>1 DEF TypeInv, TypeOK, RequestBlock
<1>4. Gains(c, k, p)
  <2>1. TableGrows(c, k, p)
    BY <1>2, <1>3 DEF TableGrows
  <2>2. /\ TypeInv /\ call.op # "release" /\ call'.op # "release" /\ p \in Pages
        /\ c \in Blocks /\ c = call.block /\ k \in Nat
    BY <1>1
  <2>3. QED
    BY ONLY <2>1, <2>2, TableGrown
<1>5. k \in Slots
  BY ONLY <1>1, <1>2, PoolAssumption DEF Slots
<1>6. QED
  BY <1>1, <1>4, <1>5

\* A page that is released loses the entry the loop stands at.
LEMMA ReleaseLoses ==
  ASSUME TypeInv, Bounded, ReleasePage,
         NEW c, c = call.block, NEW k, k = call.at + 1,
         NEW p, p = block[c].page_table[k]
  PROVE  /\ c \in Blocks /\ k \in Slots /\ p \in Pages
         /\ Loses(c, k, p)
<1>1. /\ c \in Blocks /\ k \in Nat \ {0} /\ call.at \in Nat
      /\ call.op = "release" /\ k <= Len(block[c].page_table)
      /\ UNCHANGED block
  <2>1. call.at < Len(block[call.block].page_table) /\ call.op = "release" /\ UNCHANGED block
    BY Zenon DEF ReleasePage
  <2>2. QED
    BY <2>1, FrameFacts
<1>2. call'.op = "release" /\ call'.block = c /\ call'.at = k
  <2>1. call' = [call EXCEPT !.at = call.at + 1]
    BY DEF ReleasePage
  <2>2. QED
    BY <1>1, <2>1, NextAt, CursorType DEF TypeInv, TypeOK
<1>3. \A b, i : /\ Released(b, i) <=> b = c /\ i <= call.at
                /\ Released(b, i)' <=> b = c /\ i <= k
  BY <1>1, <1>2 DEF Released
<1>4. k \in Slots /\ Entry(c, k) /\ p \in Pages /\ <<c, k>> \in Holders(p)
  BY <1>1, <1>3, EntryHolds
<1>5. ~Entry(c, k)'
  BY <1>1, <1>3 DEF Entry
<1>6. ASSUME NEW b \in Blocks, NEW i \in Slots, <<b, i>> # <<c, k>>
      PROVE  /\ Entry(b, i)' <=> Entry(b, i)
             /\ Entry(b, i) => block'[b].page_table[i] = block[b].page_table[i]
  <2>1. b = c => (i <= call.at <=> i <= k)
    BY <1>1, <1>6 DEF Slots
  <2>2. QED
    BY <1>1, <1>3, <2>1 DEF Entry
<1>7. ASSUME NEW q
      PROVE  /\ Holders(p)' = Holders(p) \ {<<c, k>>} /\ <<c, k>> \in Holders(p)
             /\ q # p => Holders(q)' = Holders(q)
  <2>1. c \in Blocks /\ k \in Slots /\ Entry(c, k) /\ ~Entry(c, k)' /\ block[c].page_table[k] = p
    BY <1>1, <1>4, <1>5
  <2>2. QED
    BY ONLY <1>6, <2>1, HoldersLost
<1>8. QED
  BY <1>1, <1>4, <1>7 DEF Loses

\* Copy on write hands the entry over, unless the page is its own copy.
LEMMA ForkHandsOver ==
  ASSUME TypeInv, Bounded, AppendFork,
         NEW c, c = call.block, NEW k, k = Logical,
         NEW p, p = block[c].page_table[k], NEW np \in Pages,
         block' = [block EXCEPT ![c].page_table[k] = np],
         call'.op = "append"
  PROVE  /\ c \in Blocks /\ k \in Slots /\ p \in Pages
         /\ np # p => HandsOver(c, k, p, np)
         /\ np = p => \A q : Holders(q)' = Holders(q)
<1>1. /\ c \in Blocks /\ k \in Nat \ {0} /\ k \in 1 .. Len(block[c].page_table)
      /\ call.op = "append" /\ block[c].page_table \in Seq(Pages)
  BY AppendFacts DEF AppendFork, NeedsFork, Appending, Table
<1>2. \A b, i : ~Released(b, i) /\ ~Released(b, i)'
  BY <1>1 DEF Released
<1>3. k \in Slots /\ Entry(c, k) /\ p \in Pages /\ <<c, k>> \in Holders(p)
  BY <1>1, <1>2, EntryHolds
<1>4. /\ block'[c].page_table = [block[c].page_table EXCEPT ![k] = np]
      /\ \A b \in Blocks \ {c} : block'[b].page_table = block[b].page_table
  BY <1>1 DEF TypeInv, TypeOK, RequestBlock
<1>5. /\ Len(block'[c].page_table) = Len(block[c].page_table)
      /\ block'[c].page_table[k] = np
      /\ \A i \in Slots : i <= Len(block[c].page_table) /\ i # k =>
           block'[c].page_table[i] = block[c].page_table[i]
  BY <1>1, <1>4 DEF Slots
<1>6. \A b \in Blocks, i \in Slots :
        /\ Entry(b, i)' <=> Entry(b, i)
        /\ Entry(b, i) /\ <<b, i>> # <<c, k>> =>
             block'[b].page_table[i] = block[b].page_table[i]
  BY <1>2, <1>4, <1>5 DEF Entry
<1>7. ASSUME np # p PROVE HandsOver(c, k, p, np)
  <2>1. /\ Entry(c, k) /\ Entry(c, k)'
        /\ block[c].page_table[k] = p /\ block'[c].page_table[k] = np
    BY <1>1, <1>3, <1>5, <1>6
  <2>2. ASSUME NEW b \in Blocks, NEW i \in Slots, <<b, i>> # <<c, k>>
        PROVE  /\ Entry(b, i)' <=> Entry(b, i)
               /\ Entry(b, i) => block'[b].page_table[i] = block[b].page_table[i]
    BY <1>6, <2>2
  <2>3. ASSUME NEW q
        PROVE  /\ Holders(p)' = Holders(p) \ {<<c, k>>} /\ <<c, k>> \in Holders(p)
               /\ Holders(np)' = Holders(np) \cup {<<c, k>>} /\ <<c, k>> \notin Holders(np)
               /\ q \notin {np, p} => Holders(q)' = Holders(q)
    <3>1. c \in Blocks /\ k \in Slots /\ np # p
      BY <1>1, <1>3, <1>7
    <3>2. QED
      BY ONLY <2>1, <2>2, <3>1, HoldersMoved
  <2>4. QED
    BY <2>3 DEF HandsOver
<1>8. ASSUME np = p, NEW q PROVE Holders(q)' = Holders(q)
  <2>1. block'[c].page_table[k] = block[c].page_table[k]
    BY <1>5, <1>8
  <2>2. QED
    BY <1>6, <2>1, HoldersSame
<1>9. QED
  BY <1>1, <1>3, <1>7, <1>8

\* So they keep the books.
LEMMA QuietBooks ==
  ASSUME TypeInv, Books, QuietStep
  PROVE  Books'
<1>1. Bounded' /\ UNCHANGED <<page, free, globalFree, index>>
  BY QuietEffect DEF Books
<1>2. ASSUME NEW q PROVE Holders(q)' = Holders(q)
  BY QuietEffect, HoldersSame DEF Books
<1>3. RefCountCovered'
  BY <1>1, <1>2 DEF Books, RefCountCovered
<1>4. NoPageLost'
  BY <1>1, <1>2 DEF Books, NoPageLost
<1>5. \A q \in Pages : Untouched(q) => Untouched(q)'
  BY <1>1, <1>2 DEF Untouched
<1>6. GlobalFreeUntouched'
  BY <1>1, <1>5, GlobalFreeSame DEF Books
<1>7. QED
  BY <1>1, <1>3, <1>4, <1>6 DEF Books

\* Commit seals a page that a block holds.
LEMMA CommitBooks ==
  ASSUME TypeInv, Books, CommitPage
  PROVE  Books'
<1> USE DEF Books
<1>1. PICK c \in Blocks : c = call.block
  BY FrameFacts
<1>2. PICK k \in Nat \ {0} : k = call.at + 1
  BY FrameFacts
<1> DEFINE p == block[c].page_table[k]
           h == ChainHash(block[c].prefix, k)
<1>3. /\ call.op = "commit" /\ call'.op = "commit"
      /\ k <= Len(block[c].page_table) /\ k * PageSize <= Len(block[c].prefix)
      /\ UNCHANGED <<block, free, globalFree>>
  <2>1. k <= Len(block[c].page_table) /\ k * PageSize <= Len(block[c].prefix)
    <3>1. /\ call.at < Len(block[call.block].page_table)
          /\ (call.at + 1) * PageSize <= Len(block[call.block].prefix)
      BY DEF CommitPage, CoversNextPage
    <3>2. call.at < Len(block[c].page_table) /\ k * PageSize <= Len(block[c].prefix)
      BY <1>1, <1>2, <3>1
    <3>3. Len(block[c].page_table) \in Nat /\ call.at \in Nat
      BY FrameFacts
    <3>4. QED
      BY <1>2, <3>2, <3>3
  <2>2. call' = [call EXCEPT !.at = call.at + 1]
    BY DEF CommitPage
  <2>3. call'.op = call.op
    BY <2>2, NextAt, CursorType DEF TypeInv, TypeOK
  <2>4. QED
    BY <2>1, <2>3 DEF CommitPage, tenants
<1>4. ~Released(c, k) /\ \A b, i : ~Released(b, i) /\ ~Released(b, i)'
  BY <1>3 DEF Released
<1>5. k \in Slots /\ p \in Pages /\ <<c, k>> \in Holders(p)
  BY <1>3, <1>4, EntryHolds
<1>6. \/ UNCHANGED <<page, index>>
      \/ /\ page' = [page EXCEPT ![p].chain_hash = h, ![p].sealed = TRUE]
         /\ index' = IndexWith(h, p)
  <2> DEFINE rb == block[call.block]
             p0 == rb.page_table[call.at + 1]
             h0 == ChainHash(rb.prefix, call.at + 1)
  <2>1. \/ UNCHANGED <<page, index>>
        \/ /\ page' = [page EXCEPT ![p0].chain_hash = h0, ![p0].sealed = TRUE]
           /\ index' = IndexWith(h0, p0)
    BY Zenon DEF CommitPage
  <2>2. p0 = p /\ h0 = h
    BY <1>1, <1>2
  <2>3. QED
    BY <2>1, <2>2
<1>7. Len(h) = k * PageSize /\ k * PageSize <= MaxPagesPerRequest * PageSize
  <2>1. k <= MaxPagesPerRequest
    BY <1>5, PoolAssumption DEF Slots
  <2>2. k * PageSize <= MaxPagesPerRequest * PageSize
    BY <2>1, PagesWithin, PoolAssumption
  <2>3. Len(h) = k * PageSize
    BY <1>3, ChainHashLength, FrameFacts
  <2>4. QED
    BY <2>2, <2>3
<1> HIDE DEF p, h
<1>8. /\ \A q \in Pages : page'[q].ref_count = page[q].ref_count
      /\ \A q \in Pages \ {p} : page'[q] = page[q]
  <2>1. page \in [Pages -> Page]
    BY DEF TypeInv, TypeOK
  <2>2. page' = page \/ page' = [page EXCEPT ![p].chain_hash = h, ![p].sealed = TRUE]
    BY <1>6
  <2>3. CASE page' = [page EXCEPT ![p].chain_hash = h, ![p].sealed = TRUE]
    <3>1. ASSUME NEW q \in Pages PROVE page'[q].ref_count = page[q].ref_count
      BY <2>1, <2>3 DEF Page
    <3>2. ASSUME NEW q \in Pages \ {p} PROVE page'[q] = page[q]
      BY <2>1, <2>3
    <3>3. QED
      BY <3>1, <3>2
  <2>4. QED
    BY <2>2, <2>3
<1>9. \A g \in DOMAIN index' : \/ g \in DOMAIN index /\ index'[g] = index[g]
                               \/ g = h /\ index'[g] = p
  BY <1>6 DEF IndexWith
<1>10. ASSUME NEW q PROVE Holders(q)' = Holders(q)
  BY <1>3, <1>4, HoldersSame DEF Entry
<1>11. Bounded'
  BY <1>3, <1>7, <1>9 DEF Bounded, PageTablesBounded
<1>12. RefCountCovered'
  BY <1>8, <1>10 DEF RefCountCovered
<1>13. NoPageLost'
  BY <1>3, <1>10 DEF NoPageLost
<1>14. ASSUME NEW q \in Pages, Untouched(q) PROVE Untouched(q)'
  <2>1. q # p
    BY <1>5, <1>14 DEF Untouched
  <2>2. QED
    BY <1>3, <1>8, <1>9, <1>10, <1>14, <2>1, UntouchedKept
<1>15. GlobalFreeUntouched'
  BY <1>3, <1>14, GlobalFreeSame
<1>16. QED
  BY <1>11, <1>12, <1>13, <1>15

\* Acquire makes a block the holder of a page of the index.
LEMMA AcquireBooks ==
  ASSUME TypeInv, Books, AcquireMatch
  PROVE  Books'
<1> USE DEF Books
<1>1. PICK c \in Blocks : c = call.block
  BY FrameFacts
<1>2. PICK k \in Nat \ {0} : k = call.at + 1
  BY FrameFacts
<1>3. PICK p \in Matching :
        /\ p \in Pages /\ p \in Range(index)
        /\ block' = [block EXCEPT ![c].page_table = Append(@, p)]
        /\ page'[p].ref_count = page[p].ref_count + 1
        /\ \A q \in Pages \ {p} : page'[q] = page[q]
        /\ block'[c].page_table = Append(block[c].page_table, p)
        /\ \A b \in Blocks \ {c} : block'[b].page_table = block[b].page_table
        /\ \A t \in Tenants : /\ ToSet(free'[t]) \subseteq ToSet(free[t])
                              /\ ToSet(free[t]) \ {p} \subseteq ToSet(free'[t])
        /\ call.op = "acquire" /\ call'.op = "acquire"
        /\ call'.at = k /\ call'.block = c
        /\ UNCHANGED <<globalFree, index>>
  BY <1>1, <1>2, AcquireMatchEffect
<1>4. k = Len(block[c].page_table) + 1 /\ block[c].page_table \in Seq(Pages)
  BY <1>1, <1>2, <1>3, FrameFacts DEF Bounded
<1>5. k \in Slots /\ k <= MaxPagesPerRequest /\ Gains(c, k, p)
  <2>1. k \in Slots /\ Gains(c, k, p)
    BY <1>1, <1>2, <1>3, AcquireGains
  <2>2. QED
    BY <2>1, PoolAssumption DEF Slots
<1>6. /\ Holders(p)' = Holders(p) \cup {<<c, k>>} /\ <<c, k>> \notin Holders(p)
      /\ \A q \in Pages \ {p} : Holders(q)' = Holders(q)
  BY <1>5 DEF Gains
<1>7. Bounded'
  <2>1. Len(block'[c].page_table) = k
    BY <1>3, <1>4
  <2>2. QED
    BY <1>3, <1>5, <2>1 DEF Bounded, PageTablesBounded
<1>8. RefCountCovered'
  <2>1. Cardinality(Holders(p)') = Cardinality(Holders(p)) + 1
    BY <1>6, HoldersFinite, OneMore
  <2>2. page'[p].ref_count <= Cardinality(Holders(p)')
    BY <1>3, <2>1, HoldersFinite DEF RefCountCovered, TypeInv, TypeOK, Page
  <2>3. \A q \in Pages \ {p} : page'[q].ref_count <= Cardinality(Holders(q)')
    BY <1>3, <1>6 DEF RefCountCovered
  <2>4. QED
    BY <2>2, <2>3 DEF RefCountCovered
<1>9. NoPageLost'
  <2>1. Holders(p)' # {}
    BY <1>6
  <2>2. ASSUME NEW q \in Pages, q # p
        PROVE  \/ Holders(q)' # {} \/ q \in ToSet(globalFree')
               \/ \E t \in Tenants : q \in ToSet(free'[t])
    BY <1>3, <1>6, <2>2 DEF NoPageLost
  <2>3. QED
    BY <2>1, <2>2 DEF NoPageLost
<1>10. ASSUME NEW q \in Pages, Untouched(q) PROVE Untouched(q)'
  <2>1. q # p
    BY <1>3, <1>10 DEF Untouched
  <2>2. QED
    BY <1>3, <1>6, <1>10, <2>1, UntouchedKept
<1>11. GlobalFreeUntouched'
  BY <1>3, <1>10, GlobalFreeSame
<1>12. QED
  BY <1>7, <1>8, <1>9, <1>11

\* What Append does to the page it claims, and to no other.
LEMMA ClaimedEffect ==
  ASSUME TypeInv, NEW t, NEW p \in Pages
  PROVE  /\ Claimed(p, t)[p].ref_count = 1
         /\ \A q \in Pages \ {p} : Claimed(p, t)[q] = page[q]
BY DEF Claimed, TypeInv, TypeOK

\* Append makes its block the one holder more of the page it claims.
LEMMA AppendNewBooks ==
  ASSUME TypeInv, Books, AppendNewPage
  PROVE  Books'
<1> USE DEF Books
<1>1. PICK c \in Blocks : c = call.block
  BY FrameFacts
<1> DEFINE t == block[c].tenant_id
<1>2. /\ Appending /\ t \in Tenants /\ call.op = "append"
      /\ Table = block[c].page_table /\ block[c].page_table \in Seq(Pages)
  BY <1>1, AppendFacts DEF AppendNewPage, Appending, Table
<1>3. PICK k \in Nat : k = Len(block[c].page_table) + 1
  BY <1>2
<1>5. PICK p \in Pages :
        /\ AllocOnePage(t, p, << >>)
        /\ page' = Claimed(p, t)
        /\ block' = [block EXCEPT ![c].page_table = Append(@, p)]
        /\ call' = [call EXCEPT !.at = NextPage,
                                !.work = IF NeedWipe(t) THEN Append(@, Wipe(p)) ELSE @]
  BY <1>1, Zenon DEF AppendNewPage
<1>6. call'.op = "append"
  BY <1>2, <1>5 DEF TypeInv, TypeOK, Frame
<1>7. /\ block'[c].page_table = Append(block[c].page_table, p)
      /\ \A b \in Blocks \ {c} : block'[b].page_table = block[b].page_table
  BY <1>5 DEF TypeInv, TypeOK, RequestBlock
<1>8. /\ page'[p].ref_count = 1
      /\ \A q \in Pages \ {p} : page'[q] = page[q]
  BY <1>5, ClaimedEffect
<1>9. /\ \A x \in Tenants : /\ ToSet(free'[x]) \subseteq ToSet(free[x])
                            /\ ToSet(free[x]) \ {p} \subseteq ToSet(free'[x])
      /\ \/ /\ \E x \in Tenants : p \in ToSet(free[x])
            /\ globalFree' = globalFree
         \/ globalFree # << >> /\ p = Head(globalFree) /\ globalFree' = Tail(globalFree)
      /\ \A h \in DOMAIN index' : h \in DOMAIN index /\ index'[h] = index[h]
  <2> DEFINE none == << >>
  <2>1. none \in Seq(Pages) /\ AllocOnePage(t, p, none) /\ ToSet(none) = {}
    BY <1>5 DEF ToSet
  <2> HIDE DEF none, t
  <2>2. QED
    BY <1>2, <2>1, AllocEffect
<1> HIDE DEF t
<1>4. k \in Slots /\ Gains(c, k, p)
  BY <1>1, <1>3, <1>5, <1>6, AppendGains
<1>10. /\ Holders(p)' = Holders(p) \cup {<<c, k>>} /\ <<c, k>> \notin Holders(p)
       /\ \A q \in Pages \ {p} : Holders(q)' = Holders(q)
  BY <1>4 DEF Gains
<1>11. Bounded'
  <2>1. Len(block'[c].page_table) = k /\ k <= MaxPagesPerRequest
    BY <1>2, <1>3, <1>4, <1>7, PoolAssumption DEF Slots
  <2>2. QED
    BY <1>6, <1>7, <1>9, <2>1 DEF Bounded, PageTablesBounded
<1>12. RefCountCovered'
  <2>1. Cardinality(Holders(p)') = Cardinality(Holders(p)) + 1
    BY <1>10, HoldersFinite, OneMore
  <2>2. page'[p].ref_count <= Cardinality(Holders(p)')
    BY <1>8, <2>1, HoldersFinite
  <2>3. \A q \in Pages \ {p} : page'[q].ref_count <= Cardinality(Holders(q)')
    BY <1>8, <1>10 DEF RefCountCovered
  <2>4. QED
    BY <2>2, <2>3 DEF RefCountCovered
<1>13. \A q \in ToSet(globalFree) : q \in ToSet(globalFree') \/ q = p
  BY <1>9, GlobalTail DEF TypeInv, TypeOK
<1>14. NoPageLost'
  <2>1. Holders(p)' # {}
    BY <1>10
  <2>2. ASSUME NEW q \in Pages, q # p
        PROVE  \/ Holders(q)' # {} \/ q \in ToSet(globalFree')
               \/ \E x \in Tenants : q \in ToSet(free'[x])
    BY <1>9, <1>10, <1>13, <2>2 DEF NoPageLost
  <2>3. QED
    BY <2>1, <2>2 DEF NoPageLost
<1>15. ASSUME NEW q \in Pages \ {p}, Untouched(q) PROVE Untouched(q)'
  BY <1>8, <1>9, <1>10, <1>15, UntouchedKept
<1>16. GlobalFreeUntouched'
  <2>1. CASE globalFree # << >> /\ p = Head(globalFree) /\ globalFree' = Tail(globalFree)
    BY <1>15, <2>1, GlobalFreeTaken
  <2>2. CASE (\E x \in Tenants : p \in ToSet(free[x])) /\ globalFree' = globalFree
    <3>1. ~Untouched(p)
      BY <2>2 DEF Untouched
    <3>2. QED
      BY <1>15, <2>2, <3>1, GlobalFreeSame
  <2>3. QED
    BY <1>9, <2>1, <2>2
<1>17. QED
  BY <1>11, <1>12, <1>14, <1>16

\* Release gives up one entry of its block's table.
LEMMA ReleaseBooks ==
  ASSUME TypeInv, Books, ReleasePage
  PROVE  Books'
<1> USE DEF Books
<1>1. PICK c \in Blocks : c = call.block
  BY FrameFacts
<1>2. PICK k \in Nat \ {0} : k = call.at + 1
  BY FrameFacts
<1> DEFINE t == block[c].tenant_id
<1>3. /\ call.op = "release" /\ call'.op = "release" /\ call'.block = c /\ call'.at = k
      /\ k <= Len(block[c].page_table) /\ t \in Tenants
      /\ UNCHANGED <<block, globalFree, index>>
  <2>1. call' = [call EXCEPT !.at = call.at + 1] /\ call.op = "release"
    BY DEF ReleasePage
  <2>2. call'.op = call.op /\ call'.block = c /\ call'.at = k
    BY <1>1, <1>2, <2>1, NextAt, CursorType DEF TypeInv, TypeOK
  <2>3. call.at < Len(block[call.block].page_table)
    BY Zenon DEF ReleasePage
  <2>4. call.at \in Nat /\ k <= Len(block[c].page_table)
    BY <1>1, <1>2, <2>3, FrameFacts
  <2>5. t \in Tenants
    BY <1>1, <2>1, FrameFacts
  <2>6. UNCHANGED <<block, globalFree, index>>
    BY Zenon DEF ReleasePage
  <2>7. QED
    BY <2>1, <2>2, <2>4, <2>5, <2>6
<1>4. \A b, i : /\ Released(b, i) <=> b = c /\ i <= call.at
                /\ Released(b, i)' <=> b = c /\ i <= k
  BY <1>1, <1>3 DEF Released
<1>5. ~Released(c, k)
  BY <1>2, <1>4, FrameFacts
<1>6. PICK p \in Pages : /\ p = block[c].page_table[k]
                         /\ k \in Slots /\ Entry(c, k) /\ <<c, k>> \in Holders(p)
  BY <1>3, <1>5, EntryHolds
<1>7. /\ page' = [page EXCEPT ![p].ref_count = Unref(@)]
      /\ \/ Freed(p) /\ free' = [free EXCEPT ![t] = Append(@, p)]
         \/ ~Freed(p) /\ free' = free
  <2> DEFINE p0 == block[call.block].page_table[call.at + 1]
  <2>1. /\ page' = [page EXCEPT ![p0].ref_count = Unref(@)]
        /\ \/ /\ Freed(p0)
              /\ free' = [free EXCEPT ![block[call.block].tenant_id] = Append(@, p0)]
           \/ ~Freed(p0) /\ free' = free
    BY Zenon DEF ReleasePage
  <2>2. p0 = p /\ block[call.block].tenant_id = t
    BY <1>1, <1>2, <1>6
  <2>3. QED
    BY <2>1, <2>2
<1> HIDE DEF t
<1>8. /\ Holders(p)' = Holders(p) \ {<<c, k>>} /\ <<c, k>> \in Holders(p)
      /\ \A q \in Pages \ {p} : Holders(q)' = Holders(q)
  BY <1>1, <1>2, <1>6, ReleaseLoses DEF Loses
<1>9. /\ page'[p].ref_count = Unref(page[p].ref_count)
      /\ \A q \in Pages \ {p} : page'[q] = page[q]
      /\ page[p].ref_count \in Nat
  BY <1>6, <1>7 DEF TypeInv, TypeOK, Page
<1>10. Cardinality(Holders(p)') = Cardinality(Holders(p)) - 1
  BY <1>8, HoldersFinite, OneLess
<1>11. /\ page[p].ref_count <= Cardinality(Holders(p))
       /\ Cardinality(Holders(p)) \in Nat \ {0}
  BY <1>6, HoldersFinite, NoHolders DEF RefCountCovered
<1>12. Bounded'
  BY <1>3 DEF Bounded, PageTablesBounded
<1>13. RefCountCovered'
  <2>1. page'[p].ref_count <= Cardinality(Holders(p)')
    BY <1>9, <1>10, <1>11 DEF Unref
  <2>2. \A q \in Pages \ {p} : page'[q].ref_count <= Cardinality(Holders(q)')
    BY <1>8, <1>9 DEF RefCountCovered
  <2>3. QED
    BY <2>1, <2>2 DEF RefCountCovered
<1>14. /\ \A x \in Tenants : /\ ToSet(free[x]) \subseteq ToSet(free'[x])
                             /\ ToSet(free'[x]) \subseteq ToSet(free[x]) \cup {p}
       /\ Freed(p) => p \in ToSet(free'[t])
  <2>1. free \in [Tenants -> Seq(Pages)]
    BY DEF TypeInv, TypeOK
  <2>2. CASE Freed(p) /\ free' = [free EXCEPT ![t] = Append(@, p)]
    <3>1. /\ free'[t] = Append(free[t], p)
          /\ \A x \in Tenants \ {t} : free'[x] = free[x]
      BY <1>3, <2>1, <2>2
    <3>2. free[t] \in Seq(Pages)
      BY <1>3, <2>1
    <3>3. ToSet(Append(free[t], p)) = ToSet(free[t]) \cup {p}
      BY <1>6, <3>2, AppendMembers
    <3>4. QED
      BY <3>1, <3>3
  <2>3. QED
    BY <1>7, <2>2
<1>15. NoPageLost'
  <2>1. CASE Freed(p)
    BY <1>3, <1>8, <1>14, <2>1 DEF NoPageLost
  <2>2. CASE ~Freed(p)
    <3>1. page[p].ref_count >= 2
      BY <1>9, <2>2 DEF Freed, Unref
    <3>2. Cardinality(Holders(p)') # 0
      BY <1>9, <1>10, <1>11, <3>1
    <3>3. Holders(p)' # {}
      BY <3>2, FS_EmptySet
    <3>4. QED
      BY <1>3, <1>8, <1>14, <3>3 DEF NoPageLost
  <2>3. QED
    BY <2>1, <2>2
<1>16. ASSUME NEW q \in Pages, Untouched(q) PROVE Untouched(q)'
  <2>1. q # p
    BY <1>6, <1>16 DEF Untouched
  <2>2. QED
    BY <1>3, <1>8, <1>9, <1>14, <1>16, <2>1, UntouchedKept
<1>17. GlobalFreeUntouched'
  BY <1>3, <1>16, GlobalFreeSame
<1>18. QED
  BY <1>12, <1>13, <1>15, <1>17

\* Copy on write hands an entry over from the shared page to its copy.
LEMMA ForkBooks ==
  ASSUME TypeInv, Books, AppendFork
  PROVE  Books'
<1> USE DEF Books
<1>1. PICK c \in Blocks : c = call.block
  BY FrameFacts
<1>2. /\ Appending /\ NeedsFork /\ ~NeedsPage /\ call.op = "append"
      /\ Table = block[c].page_table /\ block[c].page_table \in Seq(Pages)
  BY <1>1, AppendFacts DEF AppendFork, NeedsFork, Appending, Table
<1>3. PICK k \in Nat \ {0} : k = Logical
  BY <1>2, AppendFacts
<1> DEFINE t == block[c].tenant_id
<1>4. PICK p \in Pages : /\ p = block[c].page_table[k] /\ page[p].ref_count > 1
                         /\ t \in Tenants /\ k \in 1 .. Len(block[c].page_table)
  BY <1>1, <1>2, <1>3, AppendFacts DEF NeedsFork
<1>5. \A b, i : ~Released(b, i)
  BY <1>2 DEF Released
<1>6. k \in Slots /\ Entry(c, k) /\ <<c, k>> \in Holders(p)
  BY <1>4, <1>5, EntryHolds
<1>7. PICK np \in Pages :
        LET left == Claimed(np, t)[p].ref_count - 1 IN
        /\ AllocOnePage(t, np, IF left = 0 THEN <<p>> ELSE << >>)
        /\ page' = [Claimed(np, t) EXCEPT ![p].ref_count = left]
        /\ block' = [block EXCEPT ![c].page_table[k] = np]
        /\ call' = [call EXCEPT !.at = NextPage, !.work = Append(@, Copy(p, np))]
  <2>1. Table[Logical] = p
    BY <1>2, <1>3, <1>4
  <2>2. QED
    BY <1>1, <1>3, <2>1, Zenon DEF AppendFork
<1> DEFINE left == Claimed(np, t)[p].ref_count - 1
           back == IF left = 0 THEN <<p>> ELSE << >>
<1>8. call'.op = "append" /\ \A b, i : ~Released(b, i)'
  <2>1. call'.op = "append"
    BY <1>2, <1>7 DEF TypeInv, TypeOK, Frame
  <2>2. QED
    BY <2>1 DEF Released
<1>9. /\ block'[c].page_table = [block[c].page_table EXCEPT ![k] = np]
      /\ \A b \in Blocks \ {c} : block'[b].page_table = block[b].page_table
  BY <1>7 DEF TypeInv, TypeOK, RequestBlock
<1>10. /\ Len(block'[c].page_table) = Len(block[c].page_table)
       /\ block'[c].page_table[k] = np
       /\ \A i \in Slots : i <= Len(block[c].page_table) /\ i # k =>
            block'[c].page_table[i] = block[c].page_table[i]
  BY <1>2, <1>4, <1>9 DEF Slots
<1>11. \A b \in Blocks, i \in Slots :
         /\ Entry(b, i)' <=> Entry(b, i)
         /\ Entry(b, i) /\ <<b, i>> # <<c, k>> =>
              block'[b].page_table[i] = block[b].page_table[i]
  BY <1>5, <1>8, <1>9, <1>10 DEF Entry
<1>12. /\ np # p => left = page[p].ref_count - 1
       /\ np = p => left = 0
       /\ left \in Nat
  <2>1. page[p].ref_count \in Nat
    BY <1>4 DEF TypeInv, TypeOK, Page
  <2>2. np = p => Claimed(np, t)[p].ref_count = 1
    BY ClaimedEffect
  <2>3. np # p => Claimed(np, t)[p] = page[p]
    BY <1>4, ClaimedEffect
  <2>4. QED
    BY <1>4, <2>1, <2>2, <2>3
<1>13. /\ page'[p].ref_count = left
       /\ np # p => page'[np].ref_count = 1
       /\ \A q \in Pages \ {np, p} : page'[q] = page[q]
  <2>1. Claimed(np, t) \in [Pages -> Page]
    BY <1>4, ClaimedType DEF TypeInv
  <2>2. /\ page'[p].ref_count = left
        /\ \A q \in Pages \ {p} : page'[q] = Claimed(np, t)[q]
    <3>1. page' = [Claimed(np, t) EXCEPT ![p].ref_count = left]
      BY <1>7
    <3> HIDE DEF left
    <3>2. QED
      BY <1>4, <2>1, <3>1 DEF Page
  <2>3. QED
    BY <2>2, ClaimedEffect
<1>14. /\ \A x \in Tenants : /\ ToSet(free'[x]) \subseteq ToSet(free[x]) \cup {p}
                             /\ ToSet(free[x]) \ {np} \subseteq ToSet(free'[x])
       /\ left = 0 => p \in ToSet(free'[t])
       /\ \/ /\ \E x \in Tenants : np \in ToSet(free[x])
             /\ globalFree' = globalFree
          \/ globalFree # << >> /\ np = Head(globalFree) /\ globalFree' = Tail(globalFree)
       /\ \A h \in DOMAIN index' : h \in DOMAIN index /\ index'[h] = index[h]
  <2>1. /\ back \in Seq(Pages) /\ ToSet(back) \subseteq {p}
        /\ left = 0 => p \in ToSet(back)
    <3>1. CASE left = 0
      <4>1. back = <<p>> /\ p \in Pages
        BY <1>4, <3>1
      <4>2. QED
        BY ONLY <3>1, <4>1 DEF ToSet
    <3>2. CASE left # 0
      <4>1. back = << >>
        BY <3>2
      <4>2. QED
        BY ONLY <3>2, <4>1 DEF ToSet
    <3>3. QED
      BY <3>1, <3>2
  <2>2. AllocOnePage(t, np, back)
    BY <1>7
  <2> HIDE DEF back, t, left
  <2>3. /\ \A x \in Tenants : /\ ToSet(free'[x]) \subseteq ToSet(free[x]) \cup ToSet(back)
                              /\ ToSet(free[x]) \ {np} \subseteq ToSet(free'[x])
        /\ ToSet(back) \subseteq ToSet(free'[t])
        /\ \/ /\ \E x \in Tenants : np \in ToSet(free[x])
              /\ globalFree' = globalFree
           \/ globalFree # << >> /\ np = Head(globalFree) /\ globalFree' = Tail(globalFree)
        /\ \A h \in DOMAIN index' : h \in DOMAIN index /\ index'[h] = index[h]
    BY <1>4, <2>1, <2>2, AllocEffect
  <2>4. QED
    BY <2>1, <2>3
<1> HIDE DEF t, left, back
<1>15. Bounded'
  BY <1>8, <1>9, <1>10, <1>14 DEF Bounded, PageTablesBounded
<1>16. ASSUME np # p
       PROVE  /\ Holders(p)' = Holders(p) \ {<<c, k>>} /\ <<c, k>> \in Holders(p)
              /\ Holders(np)' = Holders(np) \cup {<<c, k>>} /\ <<c, k>> \notin Holders(np)
              /\ \A q \in Pages \ {np, p} : Holders(q)' = Holders(q)
  <2>1. HandsOver(c, k, p, np)
    BY <1>1, <1>3, <1>4, <1>7, <1>8, <1>16, ForkHandsOver
  <2>2. QED
    BY <2>1 DEF HandsOver
<1>17. ASSUME np = p
       PROVE  \A q : Holders(q)' = Holders(q)
  BY <1>1, <1>3, <1>4, <1>7, <1>8, <1>17, ForkHandsOver
<1>18. RefCountCovered'
  <2>1. CASE np = p
    <3>1. ASSUME NEW q \in Pages PROVE page'[q].ref_count <= Cardinality(Holders(q)')
      BY <1>12, <1>13, <1>17, <2>1, HoldersFinite DEF RefCountCovered
    <3>2. QED
      BY <3>1 DEF RefCountCovered
  <2>2. CASE np # p
    <3>1. page'[p].ref_count <= Cardinality(Holders(p)')
      <4>1. Cardinality(Holders(p)') = Cardinality(Holders(p)) - 1
        BY <1>16, <2>2, HoldersFinite, OneLess
      <4>2. page[p].ref_count <= Cardinality(Holders(p)) /\ page[p].ref_count \in Nat
        BY <1>4 DEF RefCountCovered, TypeInv, TypeOK, Page
      <4>3. QED
        BY <1>12, <1>13, <2>2, <4>1, <4>2, HoldersFinite
    <3>2. page'[np].ref_count <= Cardinality(Holders(np)')
      <4>1. Cardinality(Holders(np)') = Cardinality(Holders(np)) + 1
        BY <1>16, <2>2, HoldersFinite, OneMore
      <4>2. QED
        BY <1>13, <2>2, <4>1, HoldersFinite
    <3>3. \A q \in Pages \ {np, p} : page'[q].ref_count <= Cardinality(Holders(q)')
      BY <1>13, <1>16, <2>2 DEF RefCountCovered
    <3>4. QED
      BY <3>1, <3>2, <3>3 DEF RefCountCovered
  <2>3. QED
    BY <2>1, <2>2
<1>19. \A q \in ToSet(globalFree) : q \in ToSet(globalFree') \/ q = np
  BY <1>14, GlobalTail DEF TypeInv, TypeOK
<1>20. NoPageLost'
  <2>1. Holders(np)' # {}
    BY <1>6, <1>16, <1>17
  <2>2. np # p => Holders(p)' # {}
    <3>1. ASSUME np # p PROVE Cardinality(Holders(p)') # 0
      <4>1. page'[p].ref_count >= 1
        BY <1>4, <1>12, <1>13, <3>1 DEF TypeInv, TypeOK, Page
      <4>2. page'[p].ref_count <= Cardinality(Holders(p)')
        BY <1>4, <1>18 DEF RefCountCovered
      <4>3. page'[p].ref_count \in Nat /\ Cardinality(Holders(p)') \in Nat
        BY <1>12, <1>13, <1>16, <3>1, HoldersFinite, FS_RemoveElement, FS_CardinalityType
      <4>4. QED
        BY <4>1, <4>2, <4>3
    <3>2. QED
      BY <3>1, FS_EmptySet
  <2>3. ASSUME NEW q \in Pages \ {np, p}
        PROVE  \/ Holders(q)' # {} \/ q \in ToSet(globalFree')
               \/ \E x \in Tenants : q \in ToSet(free'[x])
    <3>1. Holders(q)' = Holders(q)
      BY <1>16, <1>17
    <3>2. QED
      BY <1>14, <1>19, <3>1 DEF NoPageLost
  <2>4. QED
    BY <2>1, <2>2, <2>3 DEF NoPageLost
<1>21. ASSUME NEW q \in Pages \ {np}, Untouched(q) PROVE Untouched(q)'
  <2>1. q # p
    BY <1>6, <1>21 DEF Untouched
  <2>2. Holders(q)' = Holders(q)
    BY <1>16, <1>17, <2>1
  <2>3. QED
    BY <1>13, <1>14, <1>21, <2>1, <2>2, UntouchedKept
<1>22. GlobalFreeUntouched'
  <2>1. CASE globalFree # << >> /\ np = Head(globalFree) /\ globalFree' = Tail(globalFree)
    BY <1>21, <2>1, GlobalFreeTaken
  <2>2. CASE (\E x \in Tenants : np \in ToSet(free[x])) /\ globalFree' = globalFree
    <3>1. ~Untouched(np)
      BY <2>2 DEF Untouched
    <3>2. QED
      BY <1>21, <2>2, <3>1, GlobalFreeSame
  <2>3. QED
    BY <1>14, <2>1, <2>2
<1>23. QED
  BY <1>15, <1>18, <1>20, <1>22

-----------------------------------------------------------------------------
\* The theorems.

\* Create starts with the books in order.
LEMMA InitBooks ==
  ASSUME Init
  PROVE  Books
<1>1. TypeInv
  BY InitType
<1>2. /\ \A b \in Blocks : block[b].page_table = << >>
      /\ call.op = "idle" /\ index = << >>
      /\ \A p \in Pages : page[p] = FreshPage
      /\ \A t \in Tenants : free[t] = << >>
      /\ globalFree = [i \in 1 .. NPages |-> i - 1]
  BY DEF Init, EmptyBlock, Idle
<1>3. DOMAIN index = {}
  BY <1>2
<1>4. Bounded
  BY <1>2, <1>3, PoolAssumption DEF Bounded, PageTablesBounded
<1>5. \A p : Holders(p) = {}
  BY <1>2 DEF Holders, Slots
<1>6. RefCountCovered
  <2>1. ASSUME NEW p \in Pages PROVE page[p].ref_count <= Cardinality(Holders(p))
    <3>1. page[p].ref_count = 0
      BY <1>2 DEF FreshPage
    <3>2. Cardinality(Holders(p)) = 0
      BY <1>5, FS_EmptySet, Zenon
    <3>3. QED
      BY <3>1, <3>2
  <2>2. QED
    BY <2>1 DEF RefCountCovered
<1>7. /\ DOMAIN globalFree = 1 .. NPages
      /\ \A i \in 1 .. NPages : globalFree[i] = i - 1
      /\ \A p \in Pages : p \in ToSet(globalFree)
  <2>1. ASSUME NEW p \in Pages PROVE p \in ToSet(globalFree)
    <3>1. p + 1 \in 1 .. NPages /\ (p + 1) - 1 = p
      BY PoolAssumption DEF Pages
    <3>2. QED
      BY <1>2, <3>1 DEF ToSet
  <2>2. QED
    BY <1>2, <2>1
<1>8. NoPageLost
  BY <1>7 DEF NoPageLost
<1>9. ASSUME NEW p \in Pages PROVE Untouched(p)
  <2>1. \A t \in Tenants : ToSet(free[t]) = {}
    BY <1>2 DEF ToSet
  <2>2. QED
    BY <1>2, <1>3, <1>5, <2>1 DEF Untouched, Range
<1>10. GlobalFreeUntouched
  <2>1. \A i, j \in DOMAIN globalFree : globalFree[i] = globalFree[j] => i = j
    BY <1>7, PoolAssumption
  <2>2. \A p \in ToSet(globalFree) : p \in Pages
    BY <1>1 DEF TypeInv, TypeOK, ToSet
  <2>3. QED
    BY <1>9, <2>1, <2>2 DEF GlobalFreeUntouched
<1>11. QED
  BY <1>4, <1>6, <1>8, <1>10 DEF Books

\* Every step of the pool keeps them.
LEMMA BooksStep ==
  ASSUME TypeInv, Books, [AnyNext]_vars
  PROVE  Books'
<1>1. QuietStep \/ AcquireMatch \/ ReleasePage \/ AppendNewPage \/ AppendFork \/ CommitPage
  BY DEF AnyNext, LockedStep, QuietStep
<1>2. QED
  BY <1>1, QuietBooks, AcquireBooks, ReleaseBooks, AppendNewBooks, ForkBooks, CommitBooks

\* The types and the books together are inductive.
LEMMA BooksAlways == Spec => [](TypeInv /\ Books)
<1>1. Init => TypeInv /\ Books
  BY InitType, InitBooks
<1>2. TypeInv /\ Books /\ [Next]_vars => (TypeInv /\ Books)'
  BY NextIsAny, TypeStep, BooksStep
<1>3. QED
  BY <1>1, <1>2, PTL DEF Spec

\* No page table outgrows max_pages_per_request, although Acquire fills one
\* without looking at the limit: Commit never enters a longer prefix.
THEOREM PageTablesBoundedAlways == Spec => []PageTablesBounded
<1>1. TypeInv /\ Books => PageTablesBounded
  BY DEF Books, Bounded
<1>2. QED
  BY <1>1, BooksAlways, PTL

\* A reference count never exceeds the number of table entries that show the
\* page, whoever takes over, forks, evicts or releases it.
THEOREM RefCountCoveredAlways == Spec => []RefCountCovered
<1>1. TypeInv /\ Books => RefCountCovered
  BY DEF Books
<1>2. QED
  BY <1>1, BooksAlways, PTL

\* No page is ever lost to the pool: without a holder it is on a free list.
THEOREM NoPageLostAlways == Spec => []NoPageLost
<1>1. TypeInv /\ Books => NoPageLost
  BY DEF Books
<1>2. QED
  BY <1>1, BooksAlways, PTL

\* The global free list holds only pages that were never handed out.
THEOREM GlobalFreeUntouchedAlways == Spec => []GlobalFreeUntouched
<1>1. TypeInv /\ Books => GlobalFreeUntouched
  BY DEF Books
<1>2. QED
  BY <1>1, BooksAlways, PTL

-----------------------------------------------------------------------------
(***************************************************************************)
(* As long as no page was filed under a tenant that does not own it, the   *)
(* books are exact: reference counts, free lists and pages_in_use say what *)
(* they should, and what a block writes is its own.                        *)
(***************************************************************************)

\* Lists of pages.

\* s lists the pages of S, once each.
IsListOf(s, S) ==
  /\ s \in Seq(Pages)
  /\ \A i, j \in DOMAIN s : s[i] = s[j] => i = j
  /\ ToSet(s) = S

\* The empty list lists the empty set.
LEMMA ListEmpty ==
  ASSUME NEW none, none = << >>
  PROVE  IsListOf(none, {})
BY DEF IsListOf, ToSet

\* Taking a page off a list,
LEMMA ListWithout ==
  ASSUME NEW s, NEW S, IsListOf(s, S), NEW p
  PROVE  IsListOf(RemoveFirst(s, p), S \ {p})
<1> DEFINE r == RemoveFirst(s, p)
<1>1. s \in Seq(Pages) /\ \A i, j \in 1 .. Len(s) : s[i] = s[j] => i = j
  BY DEF IsListOf
<1>2. /\ r \in Seq(Pages) /\ Range(r) = Range(s) \ {p}
      /\ \A i, j \in 1 .. Len(r) : r[i] = r[j] => i = j
  BY <1>1, RemoveFirstOfInjective
<1> HIDE DEF r
<1>3. ToSet(r) = ToSet(s) \ {p}
  BY <1>2 DEF ToSet, Range
<1>4. QED
  BY <1>2, <1>3 DEF IsListOf, r

\* its front,
LEMMA ListTail ==
  ASSUME NEW s, NEW S, IsListOf(s, S), s # << >>
  PROVE  Head(s) \in S /\ IsListOf(Tail(s), S \ {Head(s)})
<1> DEFINE r == Tail(s)
<1>1. /\ s \in Seq(Pages) /\ Len(s) \in Nat \ {0} /\ Head(s) = s[1]
      /\ r \in Seq(Pages) /\ Len(r) = Len(s) - 1
      /\ \A i \in 1 .. Len(r) : r[i] = s[i + 1]
      /\ \A i, j \in 1 .. Len(s) : s[i] = s[j] => i = j
      /\ S = ToSet(s)
  BY DEF IsListOf
<1> HIDE DEF r
<1>2. Head(s) \in S
  BY <1>1 DEF ToSet
<1>3. \A i, j \in DOMAIN r : r[i] = r[j] => i = j
  <2>1. ASSUME NEW i \in 1 .. Len(r), NEW j \in 1 .. Len(r), r[i] = r[j] PROVE i = j
    <3>1. i + 1 \in 1 .. Len(s) /\ j + 1 \in 1 .. Len(s) /\ s[i + 1] = s[j + 1]
      BY <1>1, <2>1
    <3>2. i + 1 = j + 1
      BY <1>1, <3>1
    <3>3. QED
      BY <3>2
  <2>2. QED
    BY <1>1, <2>1
<1>4. ASSUME NEW x \in ToSet(r) PROVE x \in S \ {Head(s)}
  <2>1. PICK i \in 1 .. Len(r) : r[i] = x
    BY <1>1, Members
  <2>2. i + 1 \in 1 .. Len(s) /\ 1 \in 1 .. Len(s) /\ i + 1 # 1 /\ s[i + 1] = x
    BY <1>1, <2>1
  <2>3. QED
    BY <1>1, <2>2, Members
<1>5. ToSet(r) = S \ {Head(s)}
  BY <1>1, <1>4, GlobalTail DEF r
<1>6. QED
  BY <1>1, <1>2, <1>3, <1>5 DEF IsListOf, r

\* and putting a page at its end that is not on it.
LEMMA ListAppend ==
  ASSUME NEW s, NEW S, IsListOf(s, S), NEW p \in Pages, p \notin S
  PROVE  IsListOf(Append(s, p), S \cup {p})
<1> DEFINE r == Append(s, p)
<1>1. /\ s \in Seq(Pages) /\ Len(s) \in Nat
      /\ r \in Seq(Pages) /\ Len(r) = Len(s) + 1 /\ r[Len(s) + 1] = p
      /\ \A i \in 1 .. Len(s) : r[i] = s[i]
      /\ \A i, j \in 1 .. Len(s) : s[i] = s[j] => i = j
      /\ S = ToSet(s)
  BY DEF IsListOf
<1>2. ToSet(r) = S \cup {p}
  BY <1>1, AppendMembers
<1> HIDE DEF r
<1>3. \A i \in 1 .. Len(s) : r[i] # p
  BY <1>1, Members
<1>4. ASSUME NEW i \in 1 .. Len(r), NEW j \in 1 .. Len(r), r[i] = r[j] PROVE i = j
  <2>1. /\ i \in 1 .. Len(s) \/ i = Len(s) + 1
        /\ j \in 1 .. Len(s) \/ j = Len(s) + 1
    BY <1>1
  <2>2. QED
    BY <1>1, <1>3, <1>4, <2>1
<1>5. QED
  BY <1>1, <1>2, <1>4 DEF IsListOf, r

-----------------------------------------------------------------------------
\* Who owns which pages.

OwnedBy(pg, t) == {p \in Pages : pg[p].tenant_id = t}
IdleOf(pg, t)  == {p \in Pages : pg[p].tenant_id = t /\ pg[p].ref_count = 0}

\* The three invariants without their condition.
RefsExact   == \A p \in Pages : page[p].ref_count = Cardinality(Holders(p))
ListsExact  == \A t \in Tenants : IsListOf(free[t], IdleOf(page, t))
CountsExact == \A t \in Tenants : used[t] = Cardinality(OwnedBy(page, t))

Accounts == RefsExact /\ ListsExact /\ CountsExact

\* A tenant's pages can be counted.
LEMMA OwnedFinite ==
  ASSUME NEW pg, NEW t
  PROVE  /\ IsFiniteSet(OwnedBy(pg, t))
         /\ Cardinality(OwnedBy(pg, t)) \in Nat
<1>1. IsFiniteSet(Pages)
  BY FS_Interval, PoolAssumption DEF Pages
<1>2. OwnedBy(pg, t) \in SUBSET Pages
  BY DEF OwnedBy
<1>3. QED
  BY <1>1, <1>2, FS_Subset, FS_CardinalityType

\* A page that gets a reference leaves the idle pages of its owner.
LEMMA IdleWithout ==
  ASSUME NEW pg, NEW new, NEW p \in Pages,
         \A q \in Pages \ {p} : new[q] = pg[q],
         new[p].ref_count # 0, NEW t
  PROVE  IdleOf(new, t) = IdleOf(pg, t) \ {p}
BY DEF IdleOf

\* p, and no other page, changes hands, from o to t.
ChangesHands(pg, new, p, o, t) ==
  /\ p \in Pages /\ \A q \in Pages \ {p} : new[q] = pg[q]
  /\ pg[p].tenant_id = o /\ new[p].tenant_id = t /\ o # t

\* A page that changes hands is counted with its new owner, not with its old.
LEMMA OwnerMoved ==
  ASSUME NEW pg, NEW new, NEW p, NEW o, NEW t, ChangesHands(pg, new, p, o, t), NEW x
  PROVE  /\ x = t => Cardinality(OwnedBy(new, x)) = Cardinality(OwnedBy(pg, x)) + 1
         /\ x = o => /\ Cardinality(OwnedBy(new, x)) = Cardinality(OwnedBy(pg, x)) - 1
                     /\ Cardinality(OwnedBy(pg, x)) > 0
         /\ x \notin {o, t} => OwnedBy(new, x) = OwnedBy(pg, x)
<1>0. o # t
  BY DEF ChangesHands
<1>1. CASE x = t
  <2>1. OwnedBy(new, x) = OwnedBy(pg, x) \cup {p} /\ p \notin OwnedBy(pg, x)
    BY <1>1 DEF OwnedBy, ChangesHands
  <2>2. Cardinality(OwnedBy(new, x)) = Cardinality(OwnedBy(pg, x)) + 1
    BY <2>1, OwnedFinite, OneMore
  <2>3. QED
    BY <1>0, <1>1, <2>2
<1>2. CASE x = o
  <2>1. OwnedBy(new, x) = OwnedBy(pg, x) \ {p} /\ p \in OwnedBy(pg, x)
    BY <1>2 DEF OwnedBy, ChangesHands
  <2>2. Cardinality(OwnedBy(new, x)) = Cardinality(OwnedBy(pg, x)) - 1
    BY <2>1, OwnedFinite, OneLess
  <2>3. Cardinality(OwnedBy(new, x)) \in Nat /\ Cardinality(OwnedBy(pg, x)) \in Nat
    BY OwnedFinite
  <2>4. QED
    BY <1>0, <1>2, <2>2, <2>3
<1>3. CASE x \notin {o, t}
  <2>1. OwnedBy(new, x) = OwnedBy(pg, x)
    BY <1>3 DEF OwnedBy, ChangesHands
  <2>2. QED
    BY <1>3, <2>1
<1>4. QED
  BY <1>1, <1>2, <1>3

\* A step that leaves every page with its owner leaves the counts.
LEMMA OwnerKept ==
  ASSUME NEW pg, NEW new,
         \A q \in Pages : new[q].tenant_id = pg[q].tenant_id, NEW t
  PROVE  OwnedBy(new, t) = OwnedBy(pg, t)
BY DEF OwnedBy

\* What alloc_one_page and the claim do to the books, whatever the source of
\* the page: it had no reference, and lists and counts stay exact.
LEMMA AllocExact ==
  ASSUME TypeInv, ListsExact, CountsExact, GlobalFreeUntouched,
         NEW t \in Tenants, NEW p \in Pages, NEW none, none = << >>,
         AllocOnePage(t, p, none), NEW new, new = Claimed(p, t)
  PROVE  /\ page[p].ref_count = 0
         /\ \A x \in Tenants : /\ IsListOf(free'[x], IdleOf(new, x))
                               /\ used'[x] = Cardinality(OwnedBy(new, x))
<1>1. /\ free \in [Tenants -> Seq(Pages)] /\ used \in [Tenants -> Nat]
      /\ page \in [Pages -> Page] /\ globalFree \in Seq(Pages)
  BY DEF TypeInv, TypeOK
<1>2. /\ new[p].ref_count = 1
      /\ \A q \in Pages \ {p} : new[q] = page[q]
      /\ new[p].tenant_id = IF free[t] = << >> THEN t ELSE page[p].tenant_id
  BY <1>1 DEF Claimed
<1>3. \A x \in Tenants : IdleOf(new, x) = IdleOf(page, x) \ {p}
  BY <1>2, IdleWithout
<1>4. \A x \in Tenants : IsListOf(free[x], IdleOf(page, x))
  BY DEF ListsExact
<1>5. SUFFICES /\ page[p].ref_count = 0
               /\ \A x \in Tenants :
                    /\ IsListOf(free'[x], IdleOf(page, x) \ {p})
                    /\ used'[x] = Cardinality(OwnedBy(new, x))
  BY <1>3
<1>6. CASE TakeOwnFree(t, p, none)
  <2>1. /\ free[t] # << >> /\ p = Head(free[t])
        /\ free'[t] = Tail(free[t])
        /\ \A x \in Tenants \ {t} : free'[x] = free[x]
        /\ used' = used
    <3>1. Tail(free[t]) \o none = Tail(free[t])
      BY <1>1, <1>6 DEF TakeOwnFree
    <3>2. QED
      BY <1>1, <1>6, <3>1 DEF TakeOwnFree
  <2>2. p \in IdleOf(page, t) /\ IsListOf(free'[t], IdleOf(page, t) \ {p})
    BY <1>4, <2>1, ListTail
  <2>3. page[p].ref_count = 0 /\ page[p].tenant_id = t
    BY <2>2 DEF IdleOf
  <2>4. \A x \in Tenants \ {t} : IdleOf(page, x) \ {p} = IdleOf(page, x)
    BY <2>3 DEF IdleOf
  <2>5. ASSUME NEW x \in Tenants PROVE IsListOf(free'[x], IdleOf(page, x) \ {p})
    BY <1>4, <2>1, <2>2, <2>4
  <2>6. \A q \in Pages : new[q].tenant_id = page[q].tenant_id
    BY <1>2, <2>1
  <2>7. ASSUME NEW x \in Tenants PROVE used'[x] = Cardinality(OwnedBy(new, x))
    BY <2>1, <2>6, OwnerKept DEF CountsExact
  <2>8. QED
    BY <2>3, <2>5, <2>7
<1>7. CASE TakeGlobal(t, p, none)
  <2>1. /\ free[t] = << >> /\ globalFree # << >> /\ p = Head(globalFree)
        /\ free'[t] = none /\ \A x \in Tenants \ {t} : free'[x] = free[x]
        /\ used'[t] = used[t] + 1 /\ \A x \in Tenants \ {t} : used'[x] = used[x]
    BY <1>1, <1>7 DEF TakeGlobal
  <2>2. p \in ToSet(globalFree)
    BY <1>1, <2>1 DEF ToSet
  <2>3. page[p] = FreshPage /\ \A x \in Tenants : p \notin ToSet(free[x])
    BY <2>2 DEF GlobalFreeUntouched, Untouched
  <2>4. page[p].ref_count = 0 /\ page[p].tenant_id = NoTenant /\ NoTenant # t
    BY <2>3, PoolAssumption DEF FreshPage
  <2>5. \A x \in Tenants : IdleOf(page, x) \ {p} = IdleOf(page, x)
    BY <2>4, PoolAssumption DEF IdleOf
  <2>6. IdleOf(page, t) = {}
    <3>1. ToSet(free[t]) = IdleOf(page, t)
      BY <1>4 DEF IsListOf
    <3>2. QED
      BY <2>1, <3>1 DEF ToSet
  <2>7. ASSUME NEW x \in Tenants PROVE IsListOf(free'[x], IdleOf(page, x) \ {p})
    BY <1>4, <2>1, <2>5, <2>6, ListEmpty
  <2>8. ASSUME NEW x \in Tenants PROVE used'[x] = Cardinality(OwnedBy(new, x))
    <3>1. new[p].tenant_id = t
      BY <1>2, <2>1
    <3>2. /\ x = t => Cardinality(OwnedBy(new, x)) = Cardinality(OwnedBy(page, x)) + 1
          /\ x # t => OwnedBy(new, x) = OwnedBy(page, x)
      <4>1. ChangesHands(page, new, p, NoTenant, t) /\ x # NoTenant
        BY <1>2, <2>4, <3>1, PoolAssumption DEF ChangesHands
      <4>2. QED
        BY <4>1, OwnerMoved
    <3>3. QED
      BY <2>1, <3>2 DEF CountsExact
  <2>9. QED
    BY <2>4, <2>7, <2>8
<1>8. CASE EvictOther(t, p, none)
  <2>1. PICK o \in Tenants \ {t} :
          /\ p \in ToSet(free[o])
          /\ free' = [free EXCEPT ![o] = RemoveFirst(@, p), ![t] = none]
          /\ used' = [used EXCEPT ![o] = @ - 1, ![t] = @ + 1]
    BY <1>8, Zenon DEF EvictOther
  <2>2. free[t] = << >>
    BY <1>8 DEF EvictOther
  <2>3. /\ free'[o] = RemoveFirst(free[o], p) /\ free'[t] = none
        /\ \A x \in Tenants \ {o, t} : free'[x] = free[x]
        /\ used'[o] = used[o] - 1 /\ used'[t] = used[t] + 1
        /\ \A x \in Tenants \ {o, t} : used'[x] = used[x]
    BY <1>1, <2>1
  <2>4. p \in IdleOf(page, o)
    BY <1>4, <2>1 DEF IsListOf
  <2>5. page[p].ref_count = 0 /\ page[p].tenant_id = o /\ o # t
    BY <2>1, <2>4 DEF IdleOf
  <2>6. \A x \in Tenants \ {o} : IdleOf(page, x) \ {p} = IdleOf(page, x)
    BY <2>5 DEF IdleOf
  <2>7. IdleOf(page, t) = {}
    <3>1. ToSet(free[t]) = IdleOf(page, t)
      BY <1>4 DEF IsListOf
    <3>2. QED
      BY <2>2, <3>1 DEF ToSet
  <2>8. ASSUME NEW x \in Tenants PROVE IsListOf(free'[x], IdleOf(page, x) \ {p})
    <3>1. CASE x = o
      BY <1>4, <2>3, <3>1, ListWithout
    <3>2. CASE x = t
      BY <2>3, <2>7, <3>2, ListEmpty
    <3>3. CASE x \notin {o, t}
      BY <1>4, <2>3, <2>6, <3>3
    <3>4. QED
      BY <3>1, <3>2, <3>3
  <2>9. ASSUME NEW x \in Tenants PROVE used'[x] = Cardinality(OwnedBy(new, x))
    <3>1. new[p].tenant_id = t
      BY <1>2, <2>2
    <3>2. /\ x = t => Cardinality(OwnedBy(new, x)) = Cardinality(OwnedBy(page, x)) + 1
          /\ x = o => Cardinality(OwnedBy(new, x)) = Cardinality(OwnedBy(page, x)) - 1
          /\ x \notin {o, t} => OwnedBy(new, x) = OwnedBy(page, x)
      <4>1. ChangesHands(page, new, p, o, t)
        BY <1>2, <2>5, <3>1 DEF ChangesHands
      <4>2. QED
        BY <4>1, OwnerMoved
    <3>3. QED
      BY <2>3, <3>2 DEF CountsExact
  <2>10. QED
    BY <2>5, <2>8, <2>9
<1>9. QED
  BY <1>6, <1>7, <1>8 DEF AllocOnePage

-----------------------------------------------------------------------------
\* Each step keeps the accounts.

\* A step that leaves references, owners, holders, lists and counts.
LEMMA AccountsKept ==
  ASSUME Accounts, UNCHANGED <<free, used>>,
         \A q \in Pages : /\ page'[q].ref_count = page[q].ref_count
                         /\ page'[q].tenant_id = page[q].tenant_id
                         /\ Holders(q)' = Holders(q)
  PROVE  Accounts'
<1>1. RefsExact'
  BY DEF Accounts, RefsExact
<1>2. \A t : IdleOf(page', t) = IdleOf(page, t)
  BY DEF IdleOf
<1>3. \A t : OwnedBy(page', t) = OwnedBy(page, t)
  BY OwnerKept
<1>4. ListsExact'
  BY <1>2 DEF Accounts, ListsExact
<1>5. CountsExact'
  BY <1>3 DEF Accounts, CountsExact
<1>6. QED
  BY <1>1, <1>4, <1>5 DEF Accounts

\* A quiet step moves no page and files none.
LEMMA QuietCounts ==
  ASSUME QuietStep
  PROVE  UNCHANGED <<used, misfiled>>
BY DEF QuietStep, AnyEnter, SetTenantQuota, AcquireBegin, ReleaseBegin, AppendBegin,
       CommitBegin, AcquireReturn, ReleaseReturn, AppendInPlace, AppendFail,
       AppendReturn, CommitReturn, DeferredStep, vars, tenants

\* A step that touches no page and no list keeps the accounts.
LEMMA QuietAccounts ==
  ASSUME TypeInv, Books, Accounts, QuietStep
  PROVE  Accounts'
<1>1. UNCHANGED <<page, free, used>>
  BY QuietEffect, QuietCounts DEF Books
<1>2. ASSUME NEW q PROVE Holders(q)' = Holders(q)
  BY QuietEffect, HoldersSame DEF Books
<1>3. QED
  BY <1>1, <1>2, AccountsKept

\* What sealing a page changes.
LEMMA CommitEffect ==
  ASSUME TypeInv, Bounded, CommitPage,
         NEW c, c = call.block, NEW k, k = call.at + 1,
         NEW p, p = block[c].page_table[k]
  PROVE  /\ c \in Blocks /\ k \in Slots /\ p \in Pages /\ <<c, k>> \in Holders(p)
         /\ \A q \in Pages : /\ page'[q].ref_count = page[q].ref_count
                            /\ page'[q].tenant_id = page[q].tenant_id
                            /\ Holders(q)' = Holders(q)
         /\ \A q \in Pages \ {p} : page'[q] = page[q]
<1>1. /\ c \in Blocks /\ k \in Nat \ {0}
      /\ call.op = "commit" /\ k <= Len(block[c].page_table)
      /\ UNCHANGED block
  <2>1. call.at < Len(block[call.block].page_table) /\ call.op = "commit" /\ UNCHANGED block
    BY DEF CommitPage, CoversNextPage
  <2>2. QED
    BY <2>1, FrameFacts
<1>2. call'.op = "commit"
  BY <1>1, NextAt, CursorType DEF CommitPage, TypeInv, TypeOK
<1>3. \A b, i : ~Released(b, i) /\ ~Released(b, i)'
  BY <1>1, <1>2 DEF Released
<1>4. k \in Slots /\ p \in Pages /\ <<c, k>> \in Holders(p)
  BY <1>1, <1>3, EntryHolds
<1>5. \/ page' = page
      \/ \E h : page' = [page EXCEPT ![p].chain_hash = h, ![p].sealed = TRUE]
  <2> DEFINE p0 == block[call.block].page_table[call.at + 1]
             h0 == ChainHash(block[call.block].prefix, call.at + 1)
  <2>1. \/ page' = page
        \/ page' = [page EXCEPT ![p0].chain_hash = h0, ![p0].sealed = TRUE]
    BY Zenon DEF CommitPage
  <2>2. QED
    BY <2>1
<1>6. ASSUME NEW q \in Pages
      PROVE  /\ page'[q].ref_count = page[q].ref_count
             /\ page'[q].tenant_id = page[q].tenant_id
             /\ q # p => page'[q] = page[q]
  <2>1. CASE page' = page
    BY <2>1
  <2>2. CASE \E h : page' = [page EXCEPT ![p].chain_hash = h, ![p].sealed = TRUE]
    <3>1. PICK h : page' = [page EXCEPT ![p].chain_hash = h, ![p].sealed = TRUE]
      BY <2>2
    <3>2. page \in [Pages -> Page]
      BY DEF TypeInv, TypeOK
    <3>3. q # p => page'[q] = page[q]
      BY <3>1, <3>2
    <3>4. page'[q].ref_count = page[q].ref_count /\ page'[q].tenant_id = page[q].tenant_id
      <4>1. page[p] \in Page
        BY <1>4, <3>2
      <4>2. page' = [page EXCEPT ![p] = [page[p] EXCEPT !.chain_hash = h, !.sealed = TRUE]]
        BY Zenon, <3>1
      <4>3. page'[p] = [page[p] EXCEPT !.chain_hash = h, !.sealed = TRUE]
        BY <1>4, <3>2, <4>2
      <4>4. page'[p].ref_count = page[p].ref_count /\ page'[p].tenant_id = page[p].tenant_id
        BY <4>1, <4>3 DEF Page
      <4>5. QED
        BY <3>3, <4>4
    <3>5. QED
      BY <3>3, <3>4
  <2>3. QED
    BY <1>5, <2>1, <2>2
<1>7. ASSUME NEW q PROVE Holders(q)' = Holders(q)
  BY <1>1, <1>3, HoldersSame DEF Entry
<1>8. QED
  BY <1>1, <1>4, <1>6, <1>7

\* Sealing and indexing a page are no matter of the accounts.
LEMMA CommitAccounts ==
  ASSUME TypeInv, Books, Accounts, CommitPage
  PROVE  Accounts'
<1>1. UNCHANGED <<free, used>>
  BY DEF CommitPage, tenants
<1>2. QED
  BY <1>1, CommitEffect, AccountsKept DEF Books

\* A page that gains a holder and a reference, or loses both.
LEMMA RefsGained ==
  ASSUME TypeInv, RefsExact, NEW c, NEW k, NEW p \in Pages, Gains(c, k, p),
         page'[p].ref_count = page[p].ref_count + 1,
         \A q \in Pages \ {p} : page'[q].ref_count = page[q].ref_count
  PROVE  RefsExact'
<1>1. Cardinality(Holders(p)') = Cardinality(Holders(p)) + 1
  BY HoldersFinite, OneMore DEF Gains
<1>2. page'[p].ref_count = Cardinality(Holders(p)')
  BY <1>1 DEF RefsExact
<1>3. \A q \in Pages \ {p} : page'[q].ref_count = Cardinality(Holders(q)')
  BY DEF RefsExact, Gains
<1>4. QED
  BY <1>2, <1>3 DEF RefsExact

\* And the other way round.
LEMMA RefsLost ==
  ASSUME TypeInv, RefsExact, NEW c, NEW k, NEW p \in Pages, Loses(c, k, p),
         page'[p].ref_count = page[p].ref_count - 1,
         \A q \in Pages \ {p} : page'[q].ref_count = page[q].ref_count
  PROVE  RefsExact'
<1>1. Cardinality(Holders(p)') = Cardinality(Holders(p)) - 1
  BY HoldersFinite, OneLess DEF Loses
<1>2. page'[p].ref_count = Cardinality(Holders(p)')
  BY <1>1 DEF RefsExact
<1>3. \A q \in Pages \ {p} : page'[q].ref_count = Cardinality(Holders(q)')
  BY DEF RefsExact, Loses
<1>4. QED
  BY <1>2, <1>3 DEF RefsExact

\* A page that a block holds has a reference, and one without has no holder.
LEMMA HeldReferenced ==
  ASSUME RefsExact, NEW p \in Pages
  PROVE  page[p].ref_count = 0 <=> Holders(p) = {}
BY NoHolders DEF RefsExact

\* A matched page gains a reference; if it was idle it leaves its owner's list, and
\* a page of another tenant changes hands.
LEMMA AcquireAccounts ==
  ASSUME TypeInv, Books, Accounts, AcquireMatch
  PROVE  Accounts'
<1>0. PICK c, k : c = call.block /\ k = call.at + 1
  OBVIOUS
<1> DEFINE t == block[c].tenant_id
<1>1. /\ t \in Tenants /\ c \in Blocks
      /\ page \in [Pages -> Page] /\ free \in [Tenants -> Seq(Pages)]
      /\ used \in [Tenants -> Nat]
  BY <1>0, FrameFacts DEF AcquireMatch, TypeInv, TypeOK
<1>2. PICK p \in Matching :
        LET o == page[p].tenant_id
            unlist == page[p].ref_count = 0 /\ o \in Tenants
            takeover == unlist /\ o # t
        IN  /\ free' = IF unlist THEN [free EXCEPT ![o] = RemoveFirst(@, p)] ELSE free
            /\ used' = IF takeover
                       THEN [used EXCEPT ![o] = IF @ > 0 THEN @ - 1 ELSE @, ![t] = @ + 1]
                       ELSE used
            /\ page' = [page EXCEPT ![p].ref_count = @ + 1,
                                    ![p].tenant_id = IF takeover THEN t ELSE @]
            /\ block' = [block EXCEPT ![c].page_table = Append(@, p)]
  BY <1>0, Zenon DEF AcquireMatch
<1> DEFINE o == page[p].tenant_id
           unlist == page[p].ref_count = 0 /\ o \in Tenants
           takeover == unlist /\ o # t
<1>3. p \in Pages /\ Gains(c, k, p)
  BY <1>0, <1>2, AcquireGains DEF Books
<1>4. /\ page'[p].ref_count = page[p].ref_count + 1
      /\ page'[p].ref_count # 0
      /\ page'[p].tenant_id = IF takeover THEN t ELSE o
      /\ \A q \in Pages \ {p} : page'[q] = page[q]
  BY <1>1, <1>2, <1>3 DEF Page
<1>5. RefsExact'
  BY <1>3, <1>4, RefsGained DEF Accounts
<1>6. \A x \in Tenants : IsListOf(free[x], IdleOf(page, x))
  BY DEF Accounts, ListsExact
<1>7. \A x \in Tenants : IdleOf(page', x) = IdleOf(page, x) \ {p}
  <2> HIDE DEF o, t, unlist, takeover
  <2>1. /\ (\A q \in Pages \ {p} : page'[q] = page[q]) /\ page'[p].ref_count # 0
        /\ p \in Pages
    BY <1>3, <1>4
  <2>2. QED
    BY ONLY <2>1, IdleWithout
<1>8. ListsExact'
  <2>1. CASE unlist
    <3>1. /\ free'[o] = RemoveFirst(free[o], p)
          /\ \A x \in Tenants \ {o} : free'[x] = free[x]
      BY <1>1, <1>2, <2>1
    <3>2. \A x \in Tenants \ {o} : IdleOf(page, x) \ {p} = IdleOf(page, x)
      BY DEF IdleOf
    <3>3. ASSUME NEW x \in Tenants PROVE IsListOf(free'[x], IdleOf(page', x))
      <4>1. CASE x = o
        BY <1>6, <1>7, <3>1, <4>1, ListWithout
      <4>2. CASE x # o
        BY <1>6, <1>7, <3>1, <3>2, <4>2
      <4>3. QED
        BY <4>1, <4>2
    <3>4. QED
      BY <3>3 DEF ListsExact
  <2>2. CASE ~unlist
    <3>1. free' = free
      BY <1>2, <2>2
    <3>2. \A x \in Tenants : IdleOf(page, x) \ {p} = IdleOf(page, x)
      BY <2>2 DEF IdleOf
    <3>3. QED
      BY <1>6, <1>7, <3>1, <3>2 DEF ListsExact
  <2>3. QED
    BY <2>1, <2>2
<1>9. CountsExact'
  <2>1. CASE takeover
    <3>1. ChangesHands(page, page', p, o, t) /\ o \in Tenants
      BY <1>3, <1>4, <2>1 DEF ChangesHands
    <3>2. used[o] > 0
      BY <3>1, OwnerMoved DEF Accounts, CountsExact
    <3>3. /\ used'[o] = used[o] - 1 /\ used'[t] = used[t] + 1
          /\ \A x \in Tenants \ {o, t} : used'[x] = used[x]
      BY <1>1, <1>2, <2>1, <3>2
    <3>4. ASSUME NEW x \in Tenants PROVE used'[x] = Cardinality(OwnedBy(page', x))
      <4> HIDE DEF o, t
      <4>1. /\ x = t => Cardinality(OwnedBy(page', x)) = Cardinality(OwnedBy(page, x)) + 1
            /\ x = o => Cardinality(OwnedBy(page', x)) = Cardinality(OwnedBy(page, x)) - 1
            /\ x \notin {o, t} => OwnedBy(page', x) = OwnedBy(page, x)
        BY <3>1, OwnerMoved
      <4>2. QED
        BY <3>3, <4>1 DEF Accounts, CountsExact
    <3>5. QED
      BY <3>4 DEF CountsExact
  <2>2. CASE ~takeover
    <3>1. used' = used
      BY <1>2, <2>2
    <3>2. \A q \in Pages : page'[q].tenant_id = page[q].tenant_id
      BY <1>4, <2>2
    <3>3. \A x : OwnedBy(page', x) = OwnedBy(page, x)
      BY <3>2, OwnerKept
    <3>4. QED
      BY <3>1, <3>3 DEF Accounts, CountsExact
  <2>3. QED
    BY <2>1, <2>2
<1>10. QED
  BY <1>5, <1>8, <1>9 DEF Accounts

\* The last reference files the page with its owner: were it another tenant's,
\* the step would set misfiled.
LEMMA ReleaseAccounts ==
  ASSUME TypeInv, Books, Accounts, ReleasePage, ~misfiled'
  PROVE  Accounts'
<1>0. PICK c, k, p : c = call.block /\ k = call.at + 1 /\ p = block[c].page_table[k]
  OBVIOUS
<1> DEFINE t == block[c].tenant_id
<1>1. /\ p \in Pages /\ <<c, k>> \in Holders(p) /\ Loses(c, k, p)
  <2>1. p \in Pages /\ Loses(c, k, p)
    BY <1>0, ReleaseLoses DEF Books
  <2>2. QED
    BY <2>1 DEF Loses
<1>2. /\ t \in Tenants /\ page \in [Pages -> Page]
      /\ free \in [Tenants -> Seq(Pages)] /\ page[p].ref_count \in Nat
  BY <1>0, <1>1, FrameFacts DEF ReleasePage, TypeInv, TypeOK, Page
<1>3. /\ page' = [page EXCEPT ![p].ref_count = Unref(@)]
      /\ used' = used
      /\ \/ /\ Freed(p) /\ free' = [free EXCEPT ![t] = Append(@, p)]
            /\ misfiled' = (misfiled \/ page[p].tenant_id # t)
         \/ ~Freed(p) /\ free' = free
  <2> DEFINE p0 == block[call.block].page_table[call.at + 1]
             t0 == block[call.block].tenant_id
  <2>1. /\ page' = [page EXCEPT ![p0].ref_count = Unref(@)]
        /\ used' = used
        /\ \/ /\ Freed(p0) /\ free' = [free EXCEPT ![t0] = Append(@, p0)]
              /\ misfiled' = (misfiled \/ page[p0].tenant_id # t0)
           \/ ~Freed(p0) /\ free' = free
    BY Zenon DEF ReleasePage
  <2>2. p0 = p /\ t0 = t
    BY <1>0
  <2> HIDE DEF p0, t0, t
  <2>3. QED
    BY <2>1, <2>2
<1> HIDE DEF t
<1>4. page[p].ref_count > 0
  <2>1. page[p].ref_count # 0
    BY <1>1, HeldReferenced DEF Accounts
  <2>2. QED
    BY <1>2, <2>1
<1>5. /\ page'[p].ref_count = page[p].ref_count - 1
      /\ page'[p].tenant_id = page[p].tenant_id
      /\ \A q \in Pages \ {p} : page'[q] = page[q]
  BY <1>1, <1>2, <1>3, <1>4 DEF Page, Unref
<1>6. RefsExact'
  BY <1>1, <1>5, RefsLost DEF Accounts
<1>7. CountsExact'
  <2>1. \A x : OwnedBy(page', x) = OwnedBy(page, x)
    <3>1. \A q \in Pages : page'[q].tenant_id = page[q].tenant_id
      BY <1>5
    <3>2. QED
      BY <3>1, OwnerKept
  <2>2. QED
    BY <1>3, <2>1 DEF Accounts, CountsExact
<1>8. \A x \in Tenants : IsListOf(free[x], IdleOf(page, x))
  BY DEF Accounts, ListsExact
<1>9. p \notin IdleOf(page, t)
  BY <1>4 DEF IdleOf
<1>10. ListsExact'
  <2>1. CASE Freed(p)
    <3>1. /\ free' = [free EXCEPT ![t] = Append(@, p)] /\ page[p].tenant_id = t
          /\ page'[p].ref_count = 0
      BY <1>2, <1>3, <1>4, <1>5, <2>1 DEF Freed, Unref
    <3>2. /\ free'[t] = Append(free[t], p)
          /\ \A x \in Tenants \ {t} : free'[x] = free[x]
      BY <1>2, <3>1
    <3>3. IdleOf(page', t) = IdleOf(page, t) \cup {p}
      BY <1>1, <1>5, <3>1 DEF IdleOf
    <3>4. ASSUME NEW x \in Tenants, x # t PROVE IdleOf(page', x) = IdleOf(page, x)
      BY <1>5, <3>1, <3>4 DEF IdleOf
    <3>5. IsListOf(free'[t], IdleOf(page', t))
      BY <1>1, <1>2, <1>8, <1>9, <3>2, <3>3, ListAppend
    <3>6. QED
      BY <1>8, <3>2, <3>4, <3>5 DEF ListsExact
  <2>2. CASE ~Freed(p)
    <3>1. free' = free /\ page'[p].ref_count # 0
      BY <1>2, <1>3, <1>4, <1>5, <2>2 DEF Freed, Unref
    <3>2. ASSUME NEW x PROVE IdleOf(page', x) = IdleOf(page, x)
      <4>1. page[p].ref_count # 0
        BY <1>2, <1>4
      <4>2. QED
        BY <1>5, <3>1, <4>1 DEF IdleOf
    <3>3. QED
      BY <1>8, <3>1, <3>2 DEF ListsExact
  <2>3. QED
    BY <2>1, <2>2
<1>11. QED
  BY <1>6, <1>7, <1>10 DEF Accounts

\* A claimed page gains its first reference, whichever source it came from.
LEMMA AppendNewAccounts ==
  ASSUME TypeInv, Books, Accounts, AppendNewPage
  PROVE  Accounts'
<1>0. PICK c, k : c = call.block /\ k = Len(block[c].page_table) + 1
  OBVIOUS
<1> DEFINE t == block[c].tenant_id
           none == << >>
<1>1. t \in Tenants /\ call.op = "append"
  BY <1>0, FrameFacts DEF AppendNewPage, Appending
<1>2. PICK p \in Pages :
        /\ AllocOnePage(t, p, none)
        /\ page' = Claimed(p, t)
        /\ block' = [block EXCEPT ![c].page_table = Append(@, p)]
        /\ call' = [call EXCEPT !.at = NextPage,
                                !.work = IF NeedWipe(t) THEN Append(@, Wipe(p)) ELSE @]
  BY <1>0, Zenon DEF AppendNewPage
<1>3. call'.op = "append"
  BY <1>1, <1>2 DEF TypeInv, TypeOK, Frame
<1>4. Gains(c, k, p)
  BY <1>0, <1>2, <1>3, AppendGains DEF Books
<1> HIDE DEF t
<1>5. none = << >>
  OBVIOUS
<1> HIDE DEF none
<1>6. /\ page[p].ref_count = 0
      /\ \A x \in Tenants : /\ IsListOf(free'[x], IdleOf(page', x))
                            /\ used'[x] = Cardinality(OwnedBy(page', x))
  BY <1>1, <1>2, <1>5, AllocExact DEF Books, Accounts
<1>7. /\ page'[p].ref_count = page[p].ref_count + 1
      /\ \A q \in Pages \ {p} : page'[q].ref_count = page[q].ref_count
  BY <1>2, <1>6, ClaimedEffect
<1>8. RefsExact'
  BY <1>4, <1>7, RefsGained DEF Accounts
<1>9. QED
  BY <1>6, <1>8 DEF Accounts, ListsExact, CountsExact

\* What an allocation leaves of the index: all entries but those of its page.
KeepsEntries(p) ==
  \A h \in DOMAIN index : index[h] # p => h \in DOMAIN index' /\ index'[h] = index[h]

\* An eviction drops an entry of the page it takes, and only such a one.
LEMMA AllocKeepsEntries ==
  ASSUME NEW t, NEW p, NEW back, AllocOnePage(t, p, back)
  PROVE  KeepsEntries(p)
<1>1. CASE UNCHANGED index
  BY <1>1 DEF KeepsEntries
<1>2. CASE index' = IndexWithout(p)
  BY <1>2 DEF IndexWithout, Restrict, KeepsEntries
<1>3. QED
  BY <1>1, <1>2 DEF AllocOnePage, TakeOwnFree, TakeGlobal, EvictOther

\* What copy on write does to the shared page p and to its copy np, a page that
\* nobody referred to.
Forked(c, k, p, np) ==
  LET t == block[c].tenant_id
      new == Claimed(np, t)
  IN  /\ p \in Pages /\ np # p /\ HandsOver(c, k, p, np)
      /\ page[np].ref_count = 0 /\ page[p].ref_count > 1
      /\ \A x \in Tenants : /\ IsListOf(free'[x], IdleOf(new, x))
                            /\ used'[x] = Cardinality(OwnedBy(new, x))
      /\ page' = [new EXCEPT ![p].ref_count = page[p].ref_count - 1]
      /\ KeepsEntries(np)
      /\ block' = [block EXCEPT ![c].page_table[k] = np]
      /\ call' = [call EXCEPT !.at = NextPage, !.work = Append(@, Copy(p, np))]

\* That is what AppendFork does while the accounts are exact: the shared page keeps
\* a reference, so it is filed nowhere, and the page allocated is not the shared one.
LEMMA ForkEffect ==
  ASSUME TypeInv, Books, Accounts, AppendFork,
         NEW c, c = call.block, NEW k, k = Logical,
         NEW p, p = block[c].page_table[k]
  PROVE  \E np \in Pages : Forked(c, k, p, np)
<1> DEFINE t == block[c].tenant_id
<1>1. /\ t \in Tenants /\ p \in Pages /\ page[p].ref_count > 1 /\ Table[Logical] = p
      /\ call.op = "append" /\ page[p].ref_count \in Nat
  BY AppendFacts DEF AppendFork, NeedsFork, Appending, Table, TypeInv, TypeOK, Page
<1>2. PICK np \in Pages :
        LET left == Claimed(np, t)[p].ref_count - 1 IN
        /\ AllocOnePage(t, np, IF left = 0 THEN <<p>> ELSE << >>)
        /\ page' = [Claimed(np, t) EXCEPT ![p].ref_count = left]
        /\ block' = [block EXCEPT ![c].page_table[k] = np]
        /\ call' = [call EXCEPT !.at = NextPage, !.work = Append(@, Copy(p, np))]
  BY <1>1, Zenon DEF AppendFork
<1> DEFINE left == Claimed(np, t)[p].ref_count - 1
           back == IF left = 0 THEN <<p>> ELSE << >>
<1>3. AllocOnePage(t, np, back) /\ page' = [Claimed(np, t) EXCEPT ![p].ref_count = left]
  BY <1>2
<1>4. call'.op = "append"
  BY <1>1, <1>2 DEF TypeInv, TypeOK, Frame
<1>5. np # p
  <2>1. np \in ToSet(globalFree) \/ \E x \in Tenants : np \in ToSet(free[x])
    <3>1. /\ back \in Seq(Pages)
      BY <1>1
    <3> HIDE DEF back, t
    <3>2. globalFree # << >> => Head(globalFree) \in ToSet(globalFree)
      <4>1. globalFree \in Seq(Pages)
        BY DEF TypeInv, TypeOK
      <4>2. QED
        BY <4>1 DEF ToSet
    <3>3. \/ \E x \in Tenants : np \in ToSet(free[x])
          \/ globalFree # << >> /\ np = Head(globalFree)
      <4>1. t \in Tenants /\ AllocOnePage(t, np, back)
        BY ONLY <1>1, <1>3
      <4>2. QED
        BY ONLY <3>1, <4>1, TypeInv, np \in Pages, AllocEffect
    <3>4. QED
      BY ONLY <3>2, <3>3
  <2>2. page[np].ref_count = 0
    <3>1. CASE np \in ToSet(globalFree)
      BY <3>1 DEF Books, GlobalFreeUntouched, Untouched, FreshPage
    <3>2. CASE \E x \in Tenants : np \in ToSet(free[x])
      BY <3>2 DEF Accounts, ListsExact, IsListOf, IdleOf
    <3>3. QED
      BY <2>1, <3>1, <3>2
  <2>3. QED
    BY <1>1, <2>2
<1>6. left = page[p].ref_count - 1 /\ left # 0
  BY <1>1, <1>5, ClaimedEffect
<1>7. HandsOver(c, k, p, np)
  BY <1>2, <1>4, <1>5, ForkHandsOver DEF Books
<1>8. back = << >>
  BY <1>6
<1>9. AllocOnePage(t, np, back)
  BY <1>3
<1> HIDE DEF back
<1>10. /\ page[np].ref_count = 0
       /\ \A x \in Tenants : /\ IsListOf(free'[x], IdleOf(Claimed(np, t), x))
                             /\ used'[x] = Cardinality(OwnedBy(Claimed(np, t), x))
  <2> DEFINE new == Claimed(np, t)
  <2>1. new = Claimed(np, t)
    OBVIOUS
  <2> HIDE DEF t, new
  <2>2. /\ page[np].ref_count = 0
        /\ \A x \in Tenants : /\ IsListOf(free'[x], IdleOf(new, x))
                              /\ used'[x] = Cardinality(OwnedBy(new, x))
    BY <1>1, <1>8, <1>9, <2>1, AllocExact DEF Books, Accounts
  <2>3. QED
    BY <2>1, <2>2
<1>11. page' = [Claimed(np, t) EXCEPT ![p].ref_count = page[p].ref_count - 1]
  BY <1>3, <1>6
<1>12. KeepsEntries(np)
  BY <1>9, AllocKeepsEntries
<1>13. QED
  BY <1>1, <1>2, <1>5, <1>7, <1>10, <1>11, <1>12 DEF Forked

\* Copy on write moves one reference and keeps every list.
LEMMA ForkAccounts ==
  ASSUME TypeInv, Books, Accounts, AppendFork
  PROVE  Accounts'
<1>0. PICK c, k, p : c = call.block /\ k = Logical /\ p = block[c].page_table[k]
  OBVIOUS
<1> DEFINE t == block[c].tenant_id
<1>1. PICK np \in Pages : Forked(c, k, p, np)
  BY <1>0, ForkEffect
<1> DEFINE new == Claimed(np, t)
<1>2. /\ t \in Tenants /\ page[p].ref_count \in Nat
      /\ p \in Pages /\ np # p /\ HandsOver(c, k, p, np)
      /\ page[np].ref_count = 0 /\ page[p].ref_count > 1
  BY <1>0, <1>1, AppendFacts DEF AppendFork, Forked, TypeInv, TypeOK, Page
<1>3. /\ new \in [Pages -> Page] /\ new[np].ref_count = 1
      /\ \A q \in Pages \ {np} : new[q] = page[q]
  BY <1>2, ClaimedType, ClaimedEffect DEF TypeInv
<1>4. /\ \A x \in Tenants : /\ IsListOf(free'[x], IdleOf(new, x))
                            /\ used'[x] = Cardinality(OwnedBy(new, x))
      /\ page' = [new EXCEPT ![p].ref_count = page[p].ref_count - 1]
  BY <1>1 DEF Forked
<1> HIDE DEF t, new
<1>5. /\ page'[p].ref_count = page[p].ref_count - 1
      /\ page'[p].tenant_id = new[p].tenant_id
      /\ \A q \in Pages \ {p} : page'[q] = new[q]
  BY <1>2, <1>3, <1>4 DEF Page
<1>6. RefsExact'
  <2>1. page'[p].ref_count = Cardinality(Holders(p)')
    <3>1. Cardinality(Holders(p)') = Cardinality(Holders(p)) - 1
      BY <1>2, HoldersFinite, OneLess DEF HandsOver
    <3>2. QED
      BY <1>2, <1>5, <3>1 DEF Accounts, RefsExact
  <2>2. page'[np].ref_count = Cardinality(Holders(np)')
    <3>1. Cardinality(Holders(np)') = Cardinality(Holders(np)) + 1
      BY <1>2, HoldersFinite, OneMore DEF HandsOver
    <3>2. page'[np].ref_count = 1
      BY <1>2, <1>3, <1>5
    <3>3. QED
      BY <1>2, <3>1, <3>2 DEF Accounts, RefsExact
  <2>3. \A q \in Pages \ {np, p} : page'[q].ref_count = Cardinality(Holders(q)')
    BY <1>2, <1>3, <1>5 DEF Accounts, RefsExact, HandsOver
  <2>4. QED
    BY <2>1, <2>2, <2>3 DEF RefsExact
<1>7. ASSUME NEW x PROVE IdleOf(page', x) = IdleOf(new, x)
  <2>1. new[p].ref_count # 0 /\ page'[p].ref_count # 0
    BY <1>2, <1>3, <1>5
  <2>2. QED
    BY <1>5, <2>1 DEF IdleOf
<1>8. ASSUME NEW x PROVE OwnedBy(page', x) = OwnedBy(new, x)
  BY <1>5 DEF OwnedBy
<1>9. QED
  BY <1>4, <1>6, <1>7, <1>8 DEF Accounts, ListsExact, CountsExact

-----------------------------------------------------------------------------
\* The accounts are exact until a page is misfiled.

\* Create starts with nothing referenced, listed or counted.
LEMMA InitAccounts ==
  ASSUME Init
  PROVE  Accounts
<1>1. /\ \A p \in Pages : page[p] = FreshPage
      /\ \A t \in Tenants : used[t] = 0 /\ free[t] = << >>
      /\ \A b \in Blocks : block[b].page_table = << >>
  BY DEF Init, EmptyBlock
<1>2. \A p \in Pages : page[p].ref_count = 0 /\ page[p].tenant_id = NoTenant
  BY <1>1 DEF FreshPage
<1>3. \A p : Holders(p) = {}
  BY <1>1 DEF Holders, Slots
<1>4. RefsExact
  <2>1. ASSUME NEW p \in Pages PROVE page[p].ref_count = Cardinality(Holders(p))
    <3>1. Cardinality(Holders(p)) = 0
      BY <1>3, FS_EmptySet, Zenon
    <3>2. QED
      BY <1>2, <3>1
  <2>2. QED
    BY <2>1 DEF RefsExact
<1>5. \A t \in Tenants : IdleOf(page, t) = {} /\ OwnedBy(page, t) = {}
  BY <1>2, PoolAssumption DEF IdleOf, OwnedBy
<1>6. ListsExact
  BY <1>1, <1>5, ListEmpty DEF ListsExact
<1>7. CountsExact
  <2>1. ASSUME NEW t \in Tenants PROVE used[t] = Cardinality(OwnedBy(page, t))
    <3>1. Cardinality(OwnedBy(page, t)) = 0
      BY <1>5, FS_EmptySet, Zenon
    <3>2. QED
      BY <1>1, <3>1
  <2>2. QED
    BY <2>1 DEF CountsExact
<1>8. QED
  BY <1>4, <1>6, <1>7 DEF Accounts

\* Nothing undoes a misfiling.
LEMMA MisfiledStays ==
  ASSUME TypeInv, [AnyNext]_vars, misfiled
  PROVE  misfiled'
<1>1. QuietStep \/ AcquireMatch \/ ReleasePage \/ AppendNewPage \/ AppendFork \/ CommitPage
  BY DEF AnyNext, LockedStep, QuietStep
<1>2. CASE QuietStep
  BY <1>2, QuietCounts
<1>3. CASE AcquireMatch \/ AppendNewPage \/ AppendFork \/ CommitPage
  BY <1>3, Zenon DEF AcquireMatch, AppendNewPage, AppendFork, CommitPage
<1>4. CASE ReleasePage
  BY <1>4, Zenon DEF ReleasePage
<1>5. QED
  BY <1>1, <1>2, <1>3, <1>4

\* Every step keeps the accounts unless it misfiles a page.
LEMMA AccountsStep ==
  ASSUME TypeInv, Books, Accounts, [AnyNext]_vars, ~misfiled'
  PROVE  Accounts'
<1>1. QuietStep \/ AcquireMatch \/ ReleasePage \/ AppendNewPage \/ AppendFork \/ CommitPage
  BY DEF AnyNext, LockedStep, QuietStep
<1>2. QED
  BY <1>1, QuietAccounts, AcquireAccounts, ReleaseAccounts, AppendNewAccounts,
     ForkAccounts, CommitAccounts

\* The types, the books and the accounts together are inductive.
AccountsInv == TypeInv /\ Books /\ (~misfiled => Accounts)

\* So the accounts are exact as long as no page was misfiled.
LEMMA AccountsAlways == Spec => []AccountsInv
<1>1. Init => AccountsInv
  BY InitType, InitBooks, InitAccounts DEF AccountsInv
<1>2. AccountsInv /\ [Next]_vars => AccountsInv'
  BY NextIsAny, TypeStep, BooksStep, AccountsStep, MisfiledStays DEF AccountsInv
<1>3. QED
  BY <1>1, <1>2, PTL DEF Spec

\* Until a page is filed under a tenant that does not own it, every reference
\* count is the number of table entries that show the page.
THEOREM RefCountExactAlways == Spec => []RefCountExact
<1>1. AccountsInv => RefCountExact
  BY DEF AccountsInv, Accounts, RefsExact, RefCountExact
<1>2. QED
  BY <1>1, AccountsAlways, PTL

\* As long, a tenant's lru_free holds exactly its pages without a reference.
THEOREM FreeListExactAlways == Spec => []FreeListExact
<1>1. AccountsInv => FreeListExact
  BY DEF AccountsInv, Accounts, ListsExact, IsListOf, IdleOf, FreeListExact
<1>2. QED
  BY <1>1, AccountsAlways, PTL

\* As long, pages_in_use counts exactly the tenant's pages.
THEOREM UsageExactAlways == Spec => []UsageExact
<1>1. AccountsInv => UsageExact
  BY DEF AccountsInv, Accounts, CountsExact, OwnedBy, UsageExact
<1>2. QED
  BY <1>1, AccountsAlways, PTL

-----------------------------------------------------------------------------
\* What nobody takes from a page that is held.

\* A page that keeps its owner, seal and hash, and its entries.
LEMMA SameKept ==
  ASSUME NEW p \in Pages,
         page'[p].tenant_id = page[p].tenant_id,
         page[p].sealed => page'[p].sealed /\ page'[p].chain_hash = page[p].chain_hash,
         \E q : q # p /\ KeepsEntries(q)
  PROVE  HeldPageKept(p)
BY DEF HeldPageKept, KeepsEntries

\* A step that leaves the index as it is keeps every entry.
LEMMA SameIndexKept ==
  ASSUME NEW p \in Pages, UNCHANGED index,
         page'[p].tenant_id = page[p].tenant_id,
         page'[p].sealed = page[p].sealed, page'[p].chain_hash = page[p].chain_hash
  PROVE  HeldPageKept(p)
BY DEF HeldPageKept

\* A takeover changes the owner of a page, but only of one without a reference.
LEMMA AcquireKeepsHeld ==
  ASSUME TypeInv, Accounts, AcquireMatch, NEW p \in Pages, Holders(p) # {}
  PROVE  HeldPageKept(p)
<1>1. page \in [Pages -> Page] /\ page[p].ref_count # 0
  BY HeldReferenced DEF Accounts, TypeInv, TypeOK
<1>2. UNCHANGED index
  BY DEF AcquireMatch
<1>3. PICK m \in Matching :
        LET o == page[m].tenant_id
            takeover == (page[m].ref_count = 0 /\ o \in Tenants) /\ o # block[call.block].tenant_id
        IN  page' = [page EXCEPT ![m].ref_count = @ + 1,
                                 ![m].tenant_id = IF takeover THEN block[call.block].tenant_id
                                                  ELSE @]
  BY Zenon DEF AcquireMatch
<1>4. CASE m = p
  <2>1. m \in Pages
    BY <1>4
  <2>2. PICK o : page' = [page EXCEPT ![m] = [page[m] EXCEPT !.ref_count = @ + 1, !.tenant_id = o]]
                 /\ (page[m].ref_count # 0 => o = page[m].tenant_id)
    BY <1>1, <1>3, <2>1
  <2>3. page'[p] = [page[p] EXCEPT !.ref_count = @ + 1, !.tenant_id = page[p].tenant_id]
    BY <1>1, <1>4, <2>2
  <2>4. page[p] \in Page
    BY <1>1
  <2>5. /\ page'[p].tenant_id = page[p].tenant_id
        /\ page'[p].sealed = page[p].sealed /\ page'[p].chain_hash = page[p].chain_hash
    BY <2>3, <2>4 DEF Page
  <2>6. QED
    BY <1>2, <2>5, SameIndexKept
<1>5. CASE m # p
  <2>1. page'[p] = page[p]
    BY <1>1, <1>3, <1>5
  <2>2. QED
    BY <1>2, <2>1, SameIndexKept
<1>6. QED
  BY <1>4, <1>5

\* Release changes a reference count.
LEMMA ReleaseKeepsHeld ==
  ASSUME TypeInv, ReleasePage, NEW p \in Pages
  PROVE  HeldPageKept(p)
<1>1. page \in [Pages -> Page] /\ UNCHANGED index
  BY DEF ReleasePage, TypeInv, TypeOK
<1>2. \E q, n : page' = [page EXCEPT ![q].ref_count = n]
  BY Zenon DEF ReleasePage
<1>3. /\ page'[p].tenant_id = page[p].tenant_id
      /\ page'[p].sealed = page[p].sealed /\ page'[p].chain_hash = page[p].chain_hash
  BY <1>1, <1>2 DEF Page
<1>4. QED
  BY <1>1, <1>3, SameIndexKept

\* An allocation takes a page without a reference, out of the index too.
LEMMA AppendNewKeepsHeld ==
  ASSUME TypeInv, Books, Accounts, AppendNewPage, NEW p \in Pages, Holders(p) # {}
  PROVE  HeldPageKept(p)
<1>1. PICK t, n, none, new : /\ n \in Pages /\ AllocOnePage(t, n, none)
                             /\ new = Claimed(n, t) /\ page' = new
                             /\ t = block[call.block].tenant_id /\ none = << >>
  BY DEF AppendNewPage
<1>2. t \in Tenants
  BY <1>1, FrameFacts DEF AppendNewPage, Appending
<1>3. page[n].ref_count = 0
  BY <1>1, <1>2, AllocExact DEF Books, Accounts
<1>4. n # p
  BY <1>3, HeldReferenced DEF Accounts
<1>5. page'[p] = page[p]
  BY <1>1, <1>4, ClaimedEffect
<1>6. KeepsEntries(n)
  BY <1>1, AllocKeepsEntries
<1>7. QED
  BY <1>4, <1>5, <1>6, SameKept

\* So does copy on write, and the page it copies from stays as it is.
LEMMA ForkKeepsHeld ==
  ASSUME TypeInv, Books, Accounts, AppendFork, NEW p \in Pages, Holders(p) # {}
  PROVE  HeldPageKept(p)
<1>1. PICK c, k, m : c = call.block /\ k = Logical /\ m = block[c].page_table[k]
  OBVIOUS
<1>2. PICK np \in Pages : Forked(c, k, m, np)
  BY <1>1, ForkEffect
<1>3. PICK new, n : /\ new = Claimed(np, block[c].tenant_id)
                    /\ page' = [new EXCEPT ![m].ref_count = n]
                    /\ page[np].ref_count = 0 /\ KeepsEntries(np)
  BY <1>2 DEF Forked
<1>4. np # p
  BY <1>3, HeldReferenced DEF Accounts
<1>5. new[p] = page[p] /\ page[p] \in Page
  BY <1>3, <1>4, ClaimedEffect DEF TypeInv, TypeOK
<1>6. DOMAIN new = Pages
  BY <1>3 DEF Claimed, TypeInv, TypeOK
<1>7. /\ page'[p].tenant_id = page[p].tenant_id
      /\ page'[p].sealed = page[p].sealed /\ page'[p].chain_hash = page[p].chain_hash
  BY <1>3, <1>5, <1>6 DEF Page
<1>8. QED
  BY <1>3, <1>4, <1>7, SameKept

\* A commit seals what is not sealed yet, and enters what is not in the index.
LEMMA CommitKeepsHeld ==
  ASSUME TypeInv, Books, CommitPage, NEW q \in Pages
  PROVE  HeldPageKept(q)
<1>0. PICK c, k, p : c = call.block /\ k = call.at + 1 /\ p = block[c].page_table[k]
  OBVIOUS
<1>1. /\ <<c, k>> \in Holders(p)
      /\ \A x \in Pages : page'[x].tenant_id = page[x].tenant_id /\ Holders(x)' = Holders(x)
      /\ \A x \in Pages \ {p} : page'[x] = page[x]
  BY <1>0, CommitEffect DEF Books
<1>2. page'[q].tenant_id = page[q].tenant_id /\ (q # p => page'[q] = page[q])
  BY <1>1
<1>3. \/ page[p].sealed /\ UNCHANGED <<page, index>>
      \/ ~page[p].sealed /\ \E h : index' = IndexWith(h, p)
  BY <1>0, Zenon DEF CommitPage
<1>4. \A h \in DOMAIN index : h \in DOMAIN index' /\ index'[h] = index[h]
  BY <1>3 DEF IndexWith
<1>5. page[q].sealed => page'[q].sealed /\ page'[q].chain_hash = page[q].chain_hash
  BY <1>2, <1>3
<1>6. QED
  BY <1>2, <1>4, <1>5 DEF HeldPageKept

\* Until a page is misfiled, no step of anybody takes from a request's page its
\* owner, its seal and hash, or the index entries that lead to it.
THEOREM HeldPagesKeptAlways == Spec => HeldPagesKept
<1>1. ASSUME AccountsInv, [AnyNext]_vars, ~misfiled, NEW p \in Pages, Holders(p) # {}
      PROVE  HeldPageKept(p)
  <2>1. QuietStep \/ AcquireMatch \/ ReleasePage \/ AppendNewPage \/ AppendFork \/ CommitPage
    BY <1>1 DEF AnyNext, LockedStep, QuietStep
  <2>2. TypeInv /\ Books /\ Bounded /\ Accounts
    BY <1>1 DEF AccountsInv, Books
  <2>3. CASE QuietStep
    BY <2>2, <2>3, <1>1, QuietEffect, SameIndexKept
  <2>4. QED
    BY <1>1, <2>1, <2>2, <2>3, AcquireKeepsHeld, ReleaseKeepsHeld, AppendNewKeepsHeld,
       ForkKeepsHeld, CommitKeepsHeld
<1>2. AccountsInv /\ [Next]_vars
        => [~misfiled => \A p \in Pages : Holders(p) # {} => HeldPageKept(p)]_vars
  BY <1>1, NextIsAny DEF AccountsInv
<1>3. QED
  BY <1>2, AccountsAlways, PTL DEF Spec, HeldPagesKept

-----------------------------------------------------------------------------
\* Positions, pages and frames.

\* A token's page, counted from 0, by its bounds.
LEMMA PageOfToken ==
  ASSUME NEW a \in Nat
  PROVE  /\ a \div PageSize \in Nat
         /\ (a \div PageSize) * PageSize <= a
         /\ a < (a \div PageSize + 1) * PageSize
BY PoolAssumption

\* A token that lies before the end of page m, or not beyond the end of page m.
LEMMA TokenBefore ==
  ASSUME NEW a \in Nat, NEW m \in Nat
  PROVE  /\ a < m * PageSize => a \div PageSize < m
         /\ a <= m * PageSize => a \div PageSize <= m
<1> DEFINE q == a \div PageSize
           x == q * PageSize
           y == m * PageSize
<1>1. q \in Nat /\ x <= a /\ x \in Nat /\ y \in Nat
  BY PageOfToken, ProductNat
<1>2. (m <= q => y <= x) /\ (q <= m <=> x <= y)
  BY <1>1, PagesWithin
<1> HIDE DEF q, x, y
<1>3. (a < y => q < m) /\ (a <= y => q <= m)
  BY <1>1, <1>2
<1>4. QED
  BY <1>3 DEF q, y

\* Later tokens lie on later pages, the one before on the page before at most.
LEMMA TokenOrder ==
  ASSUME NEW a \in Nat, NEW b \in Nat
  PROVE  /\ a \div PageSize < b \div PageSize => a < b
         /\ a > 0 => a \div PageSize <= (a - 1) \div PageSize + 1
<1>1. ASSUME a \div PageSize < b \div PageSize PROVE a < b
  <2> DEFINE p == a \div PageSize
             q == b \div PageSize
             x == (p + 1) * PageSize
             y == q * PageSize
  <2>1. /\ p \in Nat /\ q \in Nat /\ p + 1 \in Nat /\ a < x /\ y <= b
        /\ x \in Nat /\ y \in Nat
    BY PageOfToken, ProductNat
  <2>2. p + 1 <= q => x <= y
    BY <2>1, PagesWithin
  <2>3. p < q
    BY <1>1
  <2> HIDE DEF p, q, x, y
  <2>4. QED
    BY <2>1, <2>2, <2>3
<1>2. ASSUME a > 0 PROVE a \div PageSize <= (a - 1) \div PageSize + 1
  <2> DEFINE q == (a - 1) \div PageSize
             x == (q + 1) * PageSize
  <2>1. a - 1 \in Nat
    BY <1>2
  <2>2. q + 1 \in Nat /\ a - 1 < x /\ x \in Nat
    BY <2>1, PageOfToken, ProductNat
  <2>3. a <= x => a \div PageSize <= q + 1
    BY <2>2, TokenBefore
  <2> HIDE DEF q, x
  <2>4. a <= x
    BY <2>1, <2>2
  <2>5. QED
    BY <2>3, <2>4 DEF q
<1>3. QED
  BY <1>1, <1>2

\* The loop of Append goes on to the end of its page, or of the call.
LEMMA NextPageBounds ==
  ASSUME TypeInv, Appending
  PROVE  /\ call.at < NextPage /\ NextPage <= call.until
         /\ NextPage <= Logical * PageSize
         /\ Logical \in Nat \ {0} /\ NextPage \in Nat
<1> DEFINE a == call.at
           u == call.until
           x == Logical * PageSize
<1>1. Logical \in Nat \ {0} /\ NextPage \in Nat
  BY AppendFacts
<1>2. a \in Nat /\ u \in Nat /\ a < u
  BY FrameFacts DEF Appending
<1>3. a < x /\ x \in Nat
  BY <1>1, <1>2, PageOfToken, ProductNat DEF Logical
<1>4. NextPage = IF x < u THEN x ELSE u
  BY DEF NextPage
<1> HIDE DEF a, u, x
<1>5. a < NextPage /\ NextPage <= u /\ NextPage <= x
  BY <1>2, <1>3, <1>4
<1>6. QED
  BY <1>1, <1>5 DEF a, u, x

\* A block's position, and the cursor of an open Append, lie on its pages.
Within ==
  /\ \A b \in Blocks : block[b].pos <= Len(block[b].page_table) * PageSize
  /\ call.op = "append" => /\ block[call.block].pos <= call.at
                           /\ call.at <= Len(block[call.block].page_table) * PageSize

\* Only Append collects work, and a block with work left is in use and not
\* called again.
Deferral ==
  /\ call.op # "append" => call.work = << >>
  /\ \A b \in Blocks : pending[b] # << >> =>
       block[b].in_use /\ (call.op # "idle" => call.block # b)

\* The page an Append needs is the next of the table.
LEMMA NeededIsNext ==
  ASSUME TypeInv, Within, Appending, NeedsPage
  PROVE  Logical = Len(block[call.block].page_table) + 1
<1>1. /\ call.at \in Nat /\ Table \in Seq(Pages) /\ Len(Table) \in Nat
      /\ call.at <= Len(Table) * PageSize /\ Table = block[call.block].page_table
  BY AppendFacts, FrameFacts DEF Within, Appending, Table
<1>2. call.at \div PageSize <= Len(Table) /\ call.at \div PageSize \in Nat
  BY <1>1, TokenBefore, PageOfToken
<1>3. Logical > Len(Table)
  BY DEF NeedsPage
<1> DEFINE q == call.at \div PageSize
<1>4. Logical = q + 1
  BY DEF Logical
<1> HIDE DEF q
<1>5. q <= Len(Table) /\ q \in Nat
  BY <1>2 DEF q
<1>6. QED
  BY <1>1, <1>3, <1>4, <1>5

\* What Append has made ready grows by the page it is at.
LEMMA PreparedGrows ==
  ASSUME TypeInv, Within, Appending,
         call'.op = "append", call'.block = call.block, call'.at = NextPage,
         block'[call.block].pos = block[call.block].pos
  PROVE  \A i \in Prepared' : i \in Prepared \/ i = Logical
<1> DEFINE pos == block[call.block].pos
           n == NextPage
           a == call.at
           x == pos \div PageSize
           y == a \div PageSize
<1>1. /\ pos \in Nat /\ a \in Nat /\ n \in Nat /\ a < n /\ Logical \in Nat \ {0}
      /\ n <= Logical * PageSize /\ n - 1 \in Nat
  BY NextPageBounds, FrameFacts
<1>2. /\ (n - 1) \div PageSize < Logical /\ (n - 1) \div PageSize \in Nat
  <2> DEFINE z == Logical * PageSize
  <2>1. z \in Nat /\ (n - 1 < z => (n - 1) \div PageSize < Logical)
    BY <1>1, TokenBefore, ProductNat
  <2>2. n <= z
    BY <1>1
  <2> HIDE DEF z, n
  <2>3. QED
    BY <1>1, <2>1, <2>2, PageOfToken
<1>3. /\ x \in Nat /\ y \in Nat /\ Logical = y + 1
      /\ x < y => pos < a
      /\ a > 0 => y <= (a - 1) \div PageSize + 1
  BY <1>1, PageOfToken, TokenOrder DEF Logical
<1>4. ASSUME NEW i \in Prepared', i # Logical PROVE i \in Prepared
  <2>1. i \in Slots /\ x < i /\ i <= (n - 1) \div PageSize + 1
    BY <1>4 DEF Prepared
  <2> DEFINE m == (n - 1) \div PageSize
             l == (a - 1) \div PageSize + 1
  <2>2. i \in Nat /\ m \in Nat /\ m < Logical /\ i <= m + 1
    BY <1>2, <2>1 DEF Slots
  <2>3. a > 0 => y <= l
    BY <1>3
  <2>4. a > 0 => l \in Nat
    <3>1. a > 0 => a - 1 \in Nat
      BY <1>1
    <3>2. QED
      BY <3>1, PageOfToken
  <2> HIDE DEF m, n, a, x, y, l
  <2>5. i <= y /\ x < y
    BY <1>3, <1>4, <2>1, <2>2
  <2>6. pos < a /\ a > 0 /\ i <= l
    <3>1. pos < a /\ a > 0
      BY <1>1, <1>3, <2>5
    <3>2. QED
      BY <1>3, <2>2, <2>3, <2>4, <2>5, <3>1
  <2>7. QED
    BY <2>1, <2>6 DEF Prepared, Appending, x, l, a
<1>5. QED
  BY <1>4

\* Positions stay within the pages when a step moves none beyond them.
LEMMA WithinKept ==
  ASSUME Within, call'.op # "append",
         \A b \in Blocks : block'[b].pos <= Len(block'[b].page_table) * PageSize
  PROVE  Within'
BY DEF Within

\* Each step keeps positions within pages.
LEMMA WithinStep ==
  ASSUME TypeInv, Bounded, Within, [AnyNext]_vars
  PROVE  Within'
<1>1. \A b \in Blocks : /\ block[b].pos \in Nat /\ block[b].page_table \in Seq(Pages)
                        /\ Len(block[b].page_table) \in Nat
                        /\ Len(block[b].page_table) * PageSize \in Nat
                        /\ block[b].pos <= Len(block[b].page_table) * PageSize
  <2>1. \A b \in Blocks : /\ block[b].pos \in Nat /\ block[b].page_table \in Seq(Pages)
                          /\ Len(block[b].page_table) \in Nat
    BY FrameFacts
  <2>2. \A b \in Blocks : Len(block[b].page_table) * PageSize \in Nat
    BY <2>1, ProductNat
  <2>3. QED
    BY <2>1, <2>2 DEF Within
<1>2. block \in [Blocks -> RequestBlock] /\ call \in Frame /\ call.block \in Blocks
  BY FrameFacts DEF TypeInv, TypeOK
<1>3. CASE \/ \E t \in Tenants, q \in Nat \X Nat : SetTenantQuota(t, q)
           \/ \E b \in Blocks : DeferredStep(b)
           \/ UNCHANGED vars
  <2>1. UNCHANGED <<block, call>>
    BY <1>3 DEF SetTenantQuota, DeferredStep, vars
  <2>2. QED
    BY <2>1 DEF Within
<1>4. CASE \E t \in Tenants, tokens \in Seq(Token) : AcquireBegin(t, tokens)
  <2>1. PICK t \in Tenants, tokens \in Seq(Token) : AcquireBegin(t, tokens)
    BY <1>4
  <2>2. PICK c \in FreeSlots : /\ block' = [block EXCEPT ![c] = NewBlock(t)]
                               /\ call' = Open("acquire", c, 0, 0, tokens)
    BY <2>1, FreeSlotIsBlock DEF AcquireBegin
  <2>3. call'.op # "append"
    BY <2>2 DEF Open
  <2>4. /\ c \in Blocks /\ block'[c].pos = 0 /\ Len(block'[c].page_table) = 0
        /\ \A b \in Blocks \ {c} : block'[b] = block[b]
    BY <1>2, <2>2 DEF NewBlock, FreeSlots
  <2>5. block'[c].pos <= Len(block'[c].page_table) * PageSize
    BY <2>4, PoolAssumption
  <2>6. QED
    BY <1>1, <2>3, <2>4, <2>5, WithinKept
<1>5. CASE \/ \E b \in Blocks : ReleaseBegin(b)
           \/ ReleasePage \/ AppendFail \/ CommitPage \/ CommitReturn
  <2>1. UNCHANGED block
    BY <1>5, Zenon DEF ReleaseBegin, ReleasePage, AppendFail, CommitPage, CommitReturn
  <2>2. call'.op # "append"
    <3>1. CASE \/ \E b \in Blocks : ReleaseBegin(b)
               \/ AppendFail \/ CommitReturn
      BY <3>1 DEF ReleaseBegin, AppendFail, CommitReturn, Open, Return, Idle
    <3>2. CASE ReleasePage \/ CommitPage
      <4>1. call.op # "append" /\ call' = [call EXCEPT !.at = call.at + 1]
        BY <3>2 DEF ReleasePage, CommitPage
      <4>2. QED
        BY <1>2, <4>1 DEF Frame
    <3>3. QED
      BY <1>5, <3>1, <3>2
  <2>3. QED
    BY <1>1, <2>1, <2>2, WithinKept
<1>6. CASE \E b \in Blocks, n \in Nat \ {0} : AppendBegin(b, n)
  <2>1. PICK b \in Blocks, n \in Nat \ {0} : AppendBegin(b, n)
    BY <1>6
  <2>2. UNCHANGED block /\ call'.at = block[b].pos /\ call'.block = b
    BY <2>1 DEF AppendBegin, Open
  <2>3. QED
    BY <1>1, <2>2 DEF Within
<1>7. CASE \E b \in Blocks, new \in Nat, tokens \in Seq(Token) :
             new <= block[b].pos /\ CommitBegin(b, new, tokens)
  <2>1. PICK c \in Blocks, new \in Nat, tokens \in Seq(Token) :
          new <= block[c].pos /\ CommitBegin(c, new, tokens)
    BY <1>7
  <2>2. new \in Nat /\ new <= block[c].pos
    BY <2>1
  <2>3. \E kept : block' = [block EXCEPT ![c].pos = new, ![c].prefix = kept]
    BY <2>1 DEF CommitBegin
  <2>4. call'.op # "append"
    BY <2>1 DEF CommitBegin, Open
  <2>5. /\ block'[c].pos = new /\ block'[c].page_table = block[c].page_table
        /\ \A b \in Blocks \ {c} : block'[b] = block[b]
    <3>1. PICK kept : block' = [block EXCEPT ![c].pos = new, ![c].prefix = kept]
      BY <2>3
    <3>2. QED
      BY <1>2, <3>1 DEF RequestBlock
  <2>6. block'[c].pos <= Len(block'[c].page_table) * PageSize
    <3>1. block[c].pos <= Len(block[c].page_table) * PageSize
      BY <1>1
    <3> DEFINE y == Len(block[c].page_table) * PageSize
    <3>2. y \in Nat /\ block[c].pos <= y /\ block[c].pos \in Nat
      BY <1>1
    <3>3. y = Len(block'[c].page_table) * PageSize
      BY <2>5
    <3> HIDE DEF y
    <3>4. QED
      BY <2>2, <2>5, <3>2, <3>3
  <2>7. QED
    BY <1>1, <2>4, <2>5, <2>6, WithinKept
<1>8. CASE AcquireMatch
  <2>1. PICK p \in Matching : /\ p \in Pages
                              /\ block' = [block EXCEPT ![call.block].page_table = Append(@, p)]
                              /\ call'.op = "acquire"
    BY <1>8, AcquireMatchEffect
  <2> DEFINE c == call.block
             m == Len(block[c].page_table)
  <2>2. /\ block'[c].pos = block[c].pos
        /\ block'[c].page_table = Append(block[c].page_table, p)
        /\ \A b \in Blocks \ {c} : block'[b] = block[b]
    BY <1>2, <2>1 DEF RequestBlock
  <2>3. Len(block'[c].page_table) = m + 1
    BY <1>1, <1>2, <2>1, <2>2
  <2>4. block[c].pos <= (m + 1) * PageSize
    <3>1. m \in Nat /\ m + 1 \in Nat /\ m <= m + 1 /\ block[c].pos <= m * PageSize
      BY <1>1, <1>2
    <3> DEFINE x == m * PageSize
               y == (m + 1) * PageSize
               z == block[c].pos
    <3>2. x \in Nat /\ y \in Nat /\ z \in Nat /\ z <= x
      BY <1>1, <1>2, <3>1, ProductNat
    <3>3. x <= y
      BY <3>1, PagesWithin
    <3> HIDE DEF x, y, z
    <3>4. z <= y
      BY <3>2, <3>3
    <3>5. QED
      BY <3>4 DEF y, z
  <2>5. QED
    BY <1>1, <2>1, <2>2, <2>3, <2>4, WithinKept
<1>9. CASE AcquireReturn \/ AppendReturn
  <2>1. PICK v : /\ block' = [block EXCEPT ![call.block].pos = v]
                 /\ v <= Len(block[call.block].page_table) * PageSize
    <3>1. CASE AcquireReturn
      <4>1. call.at = Len(block[call.block].page_table) /\ call.at * PageSize \in Nat
        BY <3>1, FrameFacts, ProductNat DEF AcquireReturn, Bounded
      <4>2. block' = [block EXCEPT ![call.block].pos = call.at * PageSize]
        BY <3>1 DEF AcquireReturn
      <4>3. call.at * PageSize <= Len(block[call.block].page_table) * PageSize
        BY <4>1
      <4>4. QED
        BY <4>2, <4>3
    <3>2. CASE AppendReturn
      BY <3>2 DEF AppendReturn, Within
    <3>3. QED
      BY <1>9, <3>1, <3>2
  <2>2. call'.op # "append"
    BY <1>9 DEF AcquireReturn, AppendReturn, Return, Idle
  <2>3. /\ block'[call.block].pos = v
        /\ block'[call.block].page_table = block[call.block].page_table
        /\ \A b \in Blocks \ {call.block} : block'[b] = block[b]
    BY <1>2, <2>1 DEF RequestBlock
  <2>4. QED
    BY <1>1, <2>1, <2>2, <2>3, WithinKept
<1>10. CASE ReleaseReturn
  <2> DEFINE c == call.block
  <2>1. /\ block'[c].pos = 0 /\ block'[c].page_table = << >>
        /\ \A b \in Blocks \ {c} : block'[b] = block[b]
        /\ call'.op # "append"
    BY <1>2, <1>10 DEF ReleaseReturn, Return, Idle, RequestBlock
  <2>2. block'[c].pos <= Len(block'[c].page_table) * PageSize
    BY <2>1, PoolAssumption
  <2>3. QED
    BY <1>1, <2>1, <2>2, WithinKept
<1>11. CASE AppendNewPage \/ AppendFork \/ AppendInPlace
  <2> DEFINE c == call.block
             m == Len(block[c].page_table)
             n == Len(block'[c].page_table)
  <2>1. Appending
    BY <1>11 DEF AppendNewPage, AppendFork, AppendInPlace
  <2>2. /\ call.at < NextPage /\ NextPage <= Logical * PageSize
        /\ Logical \in Nat \ {0} /\ NextPage \in Nat
    BY <2>1, NextPageBounds
  <2>3. /\ block'[c].pos = block[c].pos
        /\ \A b \in Blocks \ {c} : block'[b] = block[b]
        /\ n \in Nat /\ m <= n /\ Logical <= n
        /\ call'.block = c /\ call'.at = NextPage
    <3>1. CASE AppendNewPage
      <4>1. PICK p \in Pages :
              /\ block' = [block EXCEPT ![c].page_table = Append(@, p)]
              /\ \E w : call' = [call EXCEPT !.at = NextPage, !.work = w]
        BY <3>1, Zenon DEF AppendNewPage
      <4>2. /\ block'[c].pos = block[c].pos
            /\ block'[c].page_table = Append(block[c].page_table, p)
            /\ \A b \in Blocks \ {c} : block'[b] = block[b]
        BY <1>2, <4>1 DEF RequestBlock
      <4>3. n = m + 1 /\ m \in Nat
        BY <1>1, <1>2, <4>1, <4>2
      <4>4. Logical = m + 1
        BY <2>1, <3>1, NeededIsNext DEF AppendNewPage
      <4>5. call'.block = c /\ call'.at = NextPage
        BY <1>2, <4>1 DEF Frame
      <4> HIDE DEF c, m, n
      <4>6. QED
        BY <4>2, <4>3, <4>4, <4>5
    <3>2. CASE AppendFork
      <4>1. PICK np \in Pages :
              /\ block' = [block EXCEPT ![c].page_table[Logical] = np]
              /\ \E w : call' = [call EXCEPT !.at = NextPage, !.work = w]
        BY <3>2, Zenon DEF AppendFork
      <4>2. /\ block'[c].pos = block[c].pos
            /\ block'[c].page_table = [block[c].page_table EXCEPT ![Logical] = np]
            /\ \A b \in Blocks \ {c} : block'[b] = block[b]
        BY <1>2, <4>1 DEF RequestBlock
      <4>3. Logical \in 1 .. m /\ m \in Nat
        <5>1. ~NeedsPage
          BY <3>2, Zenon DEF AppendFork, NeedsFork
        <5>2. Logical \in 1 .. Len(Table) /\ Table \in Seq(Pages)
          BY <2>1, <5>1, AppendFacts
        <5>3. QED
          BY <5>2 DEF Table
      <4>4. n = m
        BY <1>1, <1>2, <4>2, <4>3
      <4>5. call'.block = c /\ call'.at = NextPage
        BY <1>2, <4>1 DEF Frame
      <4> HIDE DEF c, m, n
      <4>6. QED
        BY <4>2, <4>3, <4>4, <4>5
    <3>3. CASE AppendInPlace
      <4>1. UNCHANGED block /\ call' = [call EXCEPT !.at = NextPage]
        BY <3>3 DEF AppendInPlace
      <4>2. Logical \in 1 .. m /\ m \in Nat
        BY <2>1, <3>3, AppendFacts DEF AppendInPlace, Table
      <4>3. call'.block = c /\ call'.at = NextPage
        BY <1>2, <4>1 DEF Frame
      <4>4. n = m /\ block' = block
        BY <4>1
      <4> HIDE DEF m, n
      <4>5. QED
        BY <4>2, <4>3, <4>4
    <3>4. QED
      BY <1>11, <3>1, <3>2, <3>3
  <2>4. block[c].pos <= call.at /\ call.at \in Nat /\ block[c].pos \in Nat
    BY <1>1, <1>2, <2>1, FrameFacts DEF Within, Appending
  <2> DEFINE x == m * PageSize
             y == n * PageSize
             z == Logical * PageSize
  <2>5. m \in Nat /\ x \in Nat /\ y \in Nat /\ z \in Nat /\ block[c].pos <= x
    BY <1>1, <1>2, <2>2, <2>3, ProductNat
  <2>6. x <= y /\ z <= y
    BY <2>2, <2>3, <2>5, PagesWithin
  <2>7. NextPage <= z
    BY <2>2
  <2>8. \A b \in Blocks \ {c} : block'[b].pos <= Len(block'[b].page_table) * PageSize
    BY <1>1, <2>3
  <2>9. y = Len(block'[c].page_table) * PageSize
    OBVIOUS
  <2> HIDE DEF x, y, z, m, n
  <2>10. block'[c].pos <= y /\ block'[c].pos <= NextPage /\ NextPage <= y
    BY <2>2, <2>3, <2>4, <2>5, <2>6, <2>7
  <2>11. QED
    BY <2>3, <2>8, <2>9, <2>10 DEF Within
<1>12. QED
  BY <1>3, <1>4, <1>5, <1>6, <1>7, <1>8, <1>9, <1>10, <1>11 DEF AnyNext, AnyEnter, LockedStep

\* Each step keeps what is said of work left for later.
LEMMA DeferralStep ==
  ASSUME TypeInv, Deferral, [AnyNext]_vars
  PROVE  Deferral'
<1>1. /\ block \in [Blocks -> RequestBlock] /\ call \in Frame /\ call.block \in Blocks
      /\ pending \in [Blocks -> Seq(Work)]
  BY FrameFacts DEF TypeInv, TypeOK
<1>2. ASSUME call'.op # "append" => call'.work = << >>,
             \A b \in Blocks : block'[b].in_use = block[b].in_use,
             \A b \in Blocks : pending'[b] # << >> => pending[b] # << >>,
             call'.op # "idle" => \/ call.op # "idle" /\ call'.block = call.block
                                  \/ pending[call'.block] = << >>
      PROVE  Deferral'
  <2>1. ASSUME NEW b \in Blocks, pending'[b] # << >>
        PROVE  block'[b].in_use /\ (call'.op # "idle" => call'.block # b)
    <3>1. pending[b] # << >> /\ block'[b].in_use = block[b].in_use
      BY <1>2, <2>1, Zenon
    <3>2. block[b].in_use /\ (call.op # "idle" => call.block # b)
      BY <3>1 DEF Deferral
    <3>3. call'.op # "idle" => call'.block # b
      BY <1>2, <3>1, <3>2
    <3>4. QED
      BY <3>1, <3>2, <3>3
  <2>2. QED
    BY <1>2, <2>1 DEF Deferral
<1>3. CASE \/ \E t \in Tenants, q \in Nat \X Nat : SetTenantQuota(t, q)
           \/ \E b \in Blocks : DeferredStep(b)
           \/ UNCHANGED vars
  <2>1. UNCHANGED <<block, call>>
    BY <1>3 DEF SetTenantQuota, DeferredStep, vars
  <2>2. \A b \in Blocks : pending'[b] # << >> => pending[b] # << >>
    <3>1. CASE \E c \in Blocks : DeferredStep(c)
      <4>1. PICK c \in Blocks : pending[c] # << >> /\ pending' = [pending EXCEPT ![c] = Tail(@)]
        BY <3>1 DEF DeferredStep
      <4>2. QED
        BY <1>1, <4>1
    <3>2. CASE pending' = pending
      BY <3>2
    <3>3. QED
      BY <1>3, <3>1, <3>2 DEF SetTenantQuota, vars
  <2>3. QED
    BY <2>1, <2>2, <1>2 DEF Deferral
<1>4. CASE \E t \in Tenants, tokens \in Seq(Token) : AcquireBegin(t, tokens)
  <2>1. PICK t \in Tenants, tokens \in Seq(Token) : AcquireBegin(t, tokens)
    BY <1>4
  <2>2. PICK c \in FreeSlots : /\ block' = [block EXCEPT ![c] = NewBlock(t)]
                               /\ call' = Open("acquire", c, 0, 0, tokens)
                               /\ pending' = pending
    BY <2>1, FreeSlotIsBlock DEF AcquireBegin
  <2>3. c \in Blocks /\ ~block[c].in_use /\ pending[c] = << >>
    BY DEF FreeSlots, Deferral
  <2>4. call'.work = << >> /\ call'.block = c
    BY <2>2 DEF Open
  <2>5. \A b \in Blocks \ {c} : block'[b] = block[b]
    BY <1>1, <2>2, <2>3
  <2>6. ASSUME NEW b \in Blocks, pending'[b] # << >>
        PROVE  block'[b].in_use /\ call'.block # b
    BY <2>2, <2>3, <2>4, <2>5, <2>6 DEF Deferral
  <2>7. QED
    BY <2>4, <2>6 DEF Deferral
<1>5. CASE \/ \E b \in Blocks : ReleaseBegin(b)
           \/ \E b \in Blocks, n \in Nat \ {0} : AppendBegin(b, n)
  <2>1. PICK b \in Blocks : ReleaseBegin(b) \/ \E n \in Nat \ {0} : AppendBegin(b, n)
    BY <1>5
  <2>2. /\ UNCHANGED <<block, pending>> /\ pending[b] = << >>
        /\ call'.work = << >> /\ call'.block = b
    BY <2>1 DEF ReleaseBegin, AppendBegin, MayCall, Open
  <2>3. QED
    BY <1>2, <2>2
<1>6. CASE \E b \in Blocks, new \in Nat, tokens \in Seq(Token) :
             new <= block[b].pos /\ CommitBegin(b, new, tokens)
  <2>1. PICK c, new, tokens : c \in Blocks /\ CommitBegin(c, new, tokens)
    BY <1>6
  <2>2. \A b \in Blocks : block'[b].in_use = block[b].in_use
    <3>1. \E kept : block' = [block EXCEPT ![c].pos = new, ![c].prefix = kept]
      BY <2>1 DEF CommitBegin
    <3>2. QED
      BY <1>1, <3>1 DEF RequestBlock
  <2>3. pending' = pending /\ pending[c] = << >> /\ call'.work = << >> /\ call'.block = c
    BY <2>1 DEF CommitBegin, MayCall, Open
  <2>4. QED
    BY <1>2, <2>2, <2>3
<1>7. CASE AcquireMatch \/ ReleasePage \/ CommitPage
  <2>1. call.op # "append" /\ call.op # "idle" /\ call' = [call EXCEPT !.at = call.at + 1]
    BY <1>7, Zenon DEF AcquireMatch, ReleasePage, CommitPage
  <2>2. call'.work = << >> /\ call'.block = call.block
    BY <1>1, <2>1 DEF Deferral, Frame
  <2>3. pending' = pending
    BY <1>7, Zenon DEF AcquireMatch, ReleasePage, CommitPage
  <2>4. \A b \in Blocks : block'[b].in_use = block[b].in_use
    <3>1. CASE AcquireMatch
      <4>1. \E p : block' = [block EXCEPT ![call.block].page_table = Append(@, p)]
        BY <3>1, Zenon DEF AcquireMatch
      <4>2. QED
        BY <1>1, <4>1 DEF RequestBlock
    <3>2. CASE block' = block
      BY <3>2
    <3>3. QED
      BY <1>7, <3>1, <3>2, Zenon DEF ReleasePage, CommitPage
  <2>5. QED
    BY <1>2, <2>1, <2>2, <2>3, <2>4
<1>8. CASE AcquireReturn \/ AppendFail \/ CommitReturn
  <2>1. call' = Idle /\ pending' = pending
    BY <1>8 DEF AcquireReturn, AppendFail, CommitReturn, Return
  <2>2. \A b \in Blocks : block'[b].in_use = block[b].in_use
    <3>1. CASE AcquireReturn
      <4>1. \E v : block' = [block EXCEPT ![call.block].pos = v]
        BY <3>1 DEF AcquireReturn
      <4>2. QED
        BY <1>1, <4>1 DEF RequestBlock
    <3>2. CASE AppendFail \/ CommitReturn
      BY <3>2 DEF AppendFail, CommitReturn
    <3>3. QED
      BY <1>8, <3>1, <3>2
  <2>3. call'.op = "idle" /\ call'.work = << >>
    BY <2>1 DEF Idle
  <2>4. QED
    BY <1>2, <2>1, <2>2, <2>3
<1>9. CASE ReleaseReturn
  <2> DEFINE c == call.block
  <2>1. /\ call' = Idle /\ pending' = pending /\ call.op # "idle"
        /\ \A b \in Blocks \ {c} : block'[b] = block[b]
    BY <1>1, <1>9 DEF ReleaseReturn, Return
  <2>2. pending[c] = << >>
    BY <1>1, <2>1 DEF Deferral
  <2>3. call'.op = "idle" /\ call'.work = << >>
    BY <2>1 DEF Idle
  <2>4. ASSUME NEW b \in Blocks, pending'[b] # << >> PROVE block'[b].in_use
    BY <2>1, <2>2, <2>4 DEF Deferral
  <2>5. QED
    BY <2>3, <2>4 DEF Deferral
<1>10. CASE AppendReturn
  <2> DEFINE c == call.block
  <2>1. /\ call' = Idle /\ call.op # "idle"
        /\ block' = [block EXCEPT ![c].pos = call.until]
        /\ pending' = [pending EXCEPT ![c] = call.work]
    BY <1>10 DEF AppendReturn, Return
  <2>2. \A b \in Blocks : block'[b].in_use = block[b].in_use
    BY <1>1, <2>1 DEF RequestBlock
  <2>3. block[c].in_use /\ \A b \in Blocks \ {c} : pending'[b] = pending[b]
    BY <1>1, <2>1, FrameFacts
  <2>4. call'.op = "idle" /\ call'.work = << >>
    BY <2>1 DEF Idle
  <2>5. ASSUME NEW b \in Blocks, pending'[b] # << >> PROVE block'[b].in_use
    BY <2>2, <2>3, <2>5 DEF Deferral
  <2>6. QED
    BY <2>4, <2>5 DEF Deferral
<1>11. CASE AppendNewPage \/ AppendFork \/ AppendInPlace
  <2>1. call.op = "append" /\ pending' = pending
    BY <1>11, Zenon DEF AppendNewPage, AppendFork, AppendInPlace, Appending
  <2>2. \E w : call' = [call EXCEPT !.at = NextPage, !.work = w]
    <3>1. CASE AppendInPlace
      <4>1. call' = [call EXCEPT !.at = NextPage, !.work = call.work]
        BY <1>1, <3>1 DEF AppendInPlace, Frame
      <4>2. QED
        BY <4>1
    <3>2. QED
      BY <1>11, <3>1, Zenon DEF AppendNewPage, AppendFork
  <2>3. call'.op = "append" /\ call'.block = call.block
    BY <1>1, <2>1, <2>2 DEF Frame
  <2>4. \A b \in Blocks : block'[b].in_use = block[b].in_use
    <3>1. CASE AppendInPlace
      BY <3>1 DEF AppendInPlace
    <3>2. CASE AppendNewPage \/ AppendFork
      <4>1. \E s : block' = [block EXCEPT ![call.block].page_table = s]
        <5>1. CASE AppendNewPage
          BY <5>1, Zenon DEF AppendNewPage
        <5>2. CASE AppendFork
          <6>1. PICK np : block' = [block EXCEPT ![call.block].page_table[Logical] = np]
            BY <5>2, Zenon DEF AppendFork
          <6>2. block' = [block EXCEPT ![call.block].page_table = [@ EXCEPT ![Logical] = np]]
            BY <6>1
          <6>3. QED
            BY <6>2, Zenon
        <5>3. QED
          BY <3>2, <5>1, <5>2
      <4>2. QED
        BY <1>1, <4>1 DEF RequestBlock
    <3>3. QED
      BY <1>11, <3>1, <3>2
  <2>5. QED
    BY <1>2, <2>1, <2>3, <2>4
<1>12. QED
  BY <1>3, <1>4, <1>5, <1>6, <1>7, <1>8, <1>9, <1>10, <1>11 DEF AnyNext, AnyEnter, LockedStep

-----------------------------------------------------------------------------
\* What a block writes is its own.

\* p is unsealed and shown by one table entry, of block b.
OwnsAlone(b, p) == ~page[p].sealed /\ \E i \in Slots : Holders(p) = {<<b, i>>}

\* The pages made ready for new tokens, the destinations of the open Append's
\* work, and those of the work left after the unlock.
PreparedOwn == \A i \in Prepared : Holders(Table[i]) = {<<call.block, i>>}
WorkOwn     == \A w \in ToSet(call.work) : OwnsAlone(call.block, w.dst)
PendingOwn  == \A b \in Blocks : \A w \in ToSet(pending[b]) : OwnsAlone(b, w.dst)

WritesOwn == PreparedOwn /\ WorkOwn /\ PendingOwn

\* A step that changes no holder of p and does not seal it.
LEMMA OwnsAloneKept ==
  ASSUME NEW b, NEW p, OwnsAlone(b, p),
         page'[p].sealed = page[p].sealed, Holders(p)' = Holders(p)
  PROVE  OwnsAlone(b, p)'
BY DEF OwnsAlone

\* The destinations of work are pages.
LEMMA WorkPages ==
  ASSUME TypeInv
  PROVE  /\ \A w \in ToSet(call.work) : w.dst \in Pages
         /\ \A b \in Blocks : \A w \in ToSet(pending[b]) :
              w.dst \in Pages /\ pending[b] # << >>
<1>1. call.work \in Seq(Work) /\ \A b \in Blocks : pending[b] \in Seq(Work)
  BY FrameFacts DEF TypeInv, TypeOK
<1>2. \A w \in Work : w.dst \in Pages
  BY DEF Work
<1>3. QED
  BY <1>1, <1>2 DEF ToSet

\* Work left after the unlock survives a call of another block that touches
\* only pages which are sealed, or nobody's, or that block's.
LEMMA PendingSafe ==
  ASSUME TypeInv, Deferral, PendingOwn, call.op # "idle", pending' = pending,
         NEW Q,
         \A q \in Q : \/ page[q].sealed
                     \/ Holders(q) = {}
                     \/ \E k : <<call.block, k>> \in Holders(q),
         \A q \in Pages \ Q : page'[q].sealed = page[q].sealed /\ Holders(q)' = Holders(q)
  PROVE  PendingOwn'
<1>1. SUFFICES ASSUME NEW b \in Blocks, NEW w \in ToSet(pending[b])
               PROVE  OwnsAlone(b, w.dst)'
  BY DEF PendingOwn
<1>2. PICK d \in Pages : d = w.dst
  BY <1>1, WorkPages
<1>3. OwnsAlone(b, d) /\ call.block # b
  BY <1>1, <1>2, WorkPages DEF PendingOwn, Deferral
<1>4. d \notin Q
  BY <1>3 DEF OwnsAlone
<1>5. OwnsAlone(b, d)'
  BY <1>3, <1>4, OwnsAloneKept
<1>6. QED
  BY <1>2, <1>5

\* What the open Append has given out survives when it touches only pages that
\* are nobody's or shared.
LEMMA OpenSafe ==
  ASSUME TypeInv, PreparedOwn, WorkOwn,
         NEW c, c = call.block, NEW Q,
         \A q \in Q : Holders(q) = {} \/ Cardinality(Holders(q)) > 1,
         \A q \in Pages \ Q : page'[q].sealed = page[q].sealed /\ Holders(q)' = Holders(q)
  PROVE  /\ \A w \in ToSet(call.work) : OwnsAlone(c, w.dst)'
         /\ \A i \in Prepared : \A d \in Pages : d = Table[i] =>
              Holders(d)' = {<<c, i>>} /\ <<c, i>> \in Holders(d)
<1>1. ASSUME NEW q \in Q, NEW x PROVE Holders(q) # {x}
  <2>1. SUFFICES ASSUME Holders(q) = {x} PROVE FALSE
    OBVIOUS
  <2>2. Cardinality(Holders(q)) = 1
    BY <2>1, FS_Singleton, Zenon
  <2>3. Holders(q) # {}
    BY <2>1
  <2>4. QED
    BY <2>2, <2>3
<1>2. ASSUME NEW w \in ToSet(call.work) PROVE OwnsAlone(c, w.dst)'
  <2>1. PICK d \in Pages : d = w.dst
    BY WorkPages
  <2>2. OwnsAlone(c, d)
    BY <2>1 DEF WorkOwn
  <2>3. d \notin Q
    BY <1>1, <2>2 DEF OwnsAlone
  <2>4. OwnsAlone(c, d)'
    BY <2>2, <2>3, OwnsAloneKept
  <2>5. QED
    BY <2>1, <2>4
<1>3. ASSUME NEW i \in Prepared, NEW d \in Pages, d = Table[i]
      PROVE  Holders(d)' = {<<c, i>>} /\ <<c, i>> \in Holders(d)
  <2>1. Holders(d) = {<<c, i>>}
    BY <1>3 DEF PreparedOwn
  <2>2. d \notin Q
    BY <1>1, <2>1
  <2>3. QED
    BY <2>1, <2>2
<1>4. QED
  BY <1>2, <1>3

\* What a page of the table shows, after the step.
LEMMA PreparedByPage ==
  ASSUME NEW c, call'.block = c,
         \A i \in Prepared' : \A d : d = block'[c].page_table[i] => Holders(d)' = {<<c, i>>}
  PROVE  PreparedOwn'
BY DEF PreparedOwn, Table, Holders

\* A page that Acquire shares is sealed, so nobody writes it.
LEMMA AcquireWrites ==
  ASSUME TypeInv, Books, Deferral, Deferral', WritesOwn, AcquireMatch
  PROVE  WritesOwn'
<1>0. PICK c, k : c = call.block /\ k = call.at + 1
  OBVIOUS
<1>1. PICK p \in Matching :
        /\ block' = [block EXCEPT ![c].page_table = Append(@, p)]
        /\ \A q \in Pages \ {p} : page'[q] = page[q]
        /\ call.op = "acquire" /\ call'.op = "acquire"
  BY <1>0, AcquireMatchEffect
<1>2. p \in Pages /\ page[p].sealed
  BY DEF Matching
<1>3. \A q \in Pages \ {p} : Holders(q)' = Holders(q)
  BY <1>0, <1>1, AcquireGains DEF Books, Gains
<1>4. pending' = pending
  BY Zenon DEF AcquireMatch
<1>5. PendingOwn'
  <2> DEFINE Q == {p}
  <2>1. \A q \in Q : page[q].sealed
    BY <1>2
  <2>2. \A q \in Pages \ Q : page'[q].sealed = page[q].sealed /\ Holders(q)' = Holders(q)
    BY <1>1, <1>3
  <2> HIDE DEF Q
  <2>3. QED
    BY <1>1, <1>4, <2>1, <2>2, PendingSafe DEF WritesOwn
<1>6. PreparedOwn' /\ WorkOwn'
  BY <1>1 DEF PreparedOwn, Prepared, WorkOwn, Deferral, ToSet
<1>7. QED
  BY <1>5, <1>6 DEF WritesOwn

\* Release takes entries of its own block only, which has no work left.
LEMMA ReleaseWrites ==
  ASSUME TypeInv, Books, Deferral, Deferral', WritesOwn, ReleasePage
  PROVE  WritesOwn'
<1>0. PICK c, k, p : c = call.block /\ k = call.at + 1 /\ p = block[c].page_table[k]
  OBVIOUS
<1>1. Loses(c, k, p) /\ p \in Pages
  BY <1>0, ReleaseLoses DEF Books
<1>2. /\ call.op = "release" /\ pending' = pending
      /\ page' = [page EXCEPT ![p].ref_count = Unref(@)]
      /\ call' = [call EXCEPT !.at = @ + 1]
  BY <1>0, Zenon DEF ReleasePage
<1>3. \A q \in Pages \ {p} : page'[q] = page[q]
  BY <1>2 DEF TypeInv, TypeOK
<1>4. call'.op = "release"
  BY <1>2 DEF TypeInv, TypeOK, Frame
<1>5. PendingOwn'
  <2> DEFINE Q == {p}
  <2>1. \A q \in Q : \E j : <<call.block, j>> \in Holders(q)
    BY <1>0, <1>1 DEF Loses
  <2>2. \A q \in Pages \ Q : page'[q].sealed = page[q].sealed /\ Holders(q)' = Holders(q)
    BY <1>1, <1>3 DEF Loses
  <2> HIDE DEF Q
  <2>3. QED
    BY <1>2, <2>1, <2>2, PendingSafe DEF WritesOwn
<1>6. PreparedOwn' /\ WorkOwn'
  BY <1>4 DEF PreparedOwn, Prepared, WorkOwn, Deferral, ToSet
<1>7. QED
  BY <1>5, <1>6 DEF WritesOwn

\* Commit seals pages of its own block only, which has no work left.
LEMMA CommitWrites ==
  ASSUME TypeInv, Books, Deferral, Deferral', WritesOwn, CommitPage
  PROVE  WritesOwn'
<1>0. PICK c, k, p : c = call.block /\ k = call.at + 1 /\ p = block[c].page_table[k]
  OBVIOUS
<1>1. /\ <<c, k>> \in Holders(p)
      /\ \A q \in Pages : Holders(q)' = Holders(q)
      /\ \A q \in Pages \ {p} : page'[q] = page[q]
  BY <1>0, CommitEffect DEF Books
<1>2. call.op = "commit" /\ pending' = pending /\ call' = [call EXCEPT !.at = @ + 1]
  BY DEF CommitPage
<1>3. call'.op = "commit"
  BY <1>2 DEF TypeInv, TypeOK, Frame
<1>4. PendingOwn'
  <2> DEFINE Q == {p}
  <2>1. \A q \in Q : \E j : <<call.block, j>> \in Holders(q)
    BY <1>0, <1>1
  <2>2. \A q \in Pages \ Q : page'[q].sealed = page[q].sealed /\ Holders(q)' = Holders(q)
    BY <1>1
  <2> HIDE DEF Q
  <2>3. QED
    BY <1>2, <2>1, <2>2, PendingSafe DEF WritesOwn
<1>5. PreparedOwn' /\ WorkOwn'
  BY <1>3 DEF PreparedOwn, Prepared, WorkOwn, Deferral, ToSet
<1>6. QED
  BY <1>4, <1>5 DEF WritesOwn

\* A page that is prepared is in the table.
LEMMA PreparedEntry ==
  ASSUME TypeInv, PreparedOwn, NEW c, c = call.block, NEW i \in Prepared
  PROVE  /\ i \in 1 .. Len(block[c].page_table)
         /\ block[c].page_table[i] \in Pages
<1>1. block[c].page_table \in Seq(Pages) /\ Table = block[c].page_table
  BY FrameFacts DEF Table
<1>2. Holders(Table[i]) = {<<c, i>>} /\ i \in Slots
  BY DEF PreparedOwn, Prepared
<1>3. <<c, i>> \in Holders(Table[i])
  BY <1>2
<1>4. i <= Len(block[c].page_table)
  BY <1>3 DEF Holders
<1>5. QED
  BY <1>1, <1>2, <1>4 DEF Slots

\* One iteration of Append keeps what the frame has given out, when the page
\* it gives out now shows this entry alone.
LEMMA IterationWrites ==
  ASSUME TypeInv, Within, Appending, PreparedOwn, WorkOwn,
         NEW c, c = call.block, NEW k, k = Logical, NEW p, NEW Q,
         call'.op = "append", call'.block = c, call'.at = NextPage,
         block'[c].pos = block[c].pos,
         \A i \in 1 .. Len(block[c].page_table) :
           i # k => block'[c].page_table[i] = block[c].page_table[i],
         p = block'[c].page_table[k], Holders(p)' = {<<c, k>>},
         \A w \in ToSet(call'.work) :
           w \in ToSet(call.work) \/ (w.dst = p /\ ~page'[p].sealed),
         k \in Slots,
         \A q \in Q : Holders(q) = {} \/ Cardinality(Holders(q)) > 1,
         \A q \in Pages \ Q : page'[q].sealed = page[q].sealed /\ Holders(q)' = Holders(q)
  PROVE  PreparedOwn' /\ WorkOwn'
<1>1. /\ \A w \in ToSet(call.work) : OwnsAlone(c, w.dst)'
      /\ \A i \in Prepared : \A d \in Pages : d = Table[i] => Holders(d)' = {<<c, i>>}
  BY OpenSafe
<1>2. \A i \in Prepared' : i \in Prepared \/ i = k
  BY PreparedGrows
<1>3. ASSUME NEW i \in Prepared', NEW d, d = block'[c].page_table[i]
      PROVE  Holders(d)' = {<<c, i>>}
  <2>1. CASE i = k
    BY <1>3, <2>1
  <2>2. CASE i \in Prepared /\ i # k
    <3>1. i \in 1 .. Len(block[c].page_table) /\ block[c].page_table[i] \in Pages
      BY <2>2, PreparedEntry
    <3>2. d \in Pages /\ d = Table[i]
      BY <1>3, <2>2, <3>1 DEF Table
    <3>3. QED
      BY <1>1, <2>2, <3>2
  <2>3. QED
    BY <1>2, <1>3, <2>1, <2>2
<1>4. PreparedOwn'
  BY <1>3, PreparedByPage
<1>5. OwnsAlone(c, p)' \/ page'[p].sealed
  BY DEF OwnsAlone
<1>6. \A w \in ToSet(call'.work) : OwnsAlone(c, w.dst)'
  BY <1>1, <1>5
<1>7. WorkOwn'
  BY <1>6 DEF WorkOwn, OwnsAlone
<1>8. QED
  BY <1>4, <1>7

\* A new page is shown by its new entry alone: nobody referred to it.
LEMMA AppendNewWrites ==
  ASSUME TypeInv, Books, Within, Deferral, Accounts, WritesOwn, AppendNewPage
  PROVE  WritesOwn'
<1>0. PICK c, k : c = call.block /\ k = Len(block[c].page_table) + 1
  OBVIOUS
<1> DEFINE t == block[c].tenant_id
           none == << >>
<1>1. /\ t \in Tenants /\ call.op = "append" /\ Appending /\ NeedsPage
      /\ pending' = pending /\ c \in Blocks /\ block[c].page_table \in Seq(Pages)
  BY <1>0, FrameFacts, Zenon DEF AppendNewPage, Appending
<1>2. PICK p \in Pages :
        /\ AllocOnePage(t, p, none)
        /\ page' = Claimed(p, t)
        /\ block' = [block EXCEPT ![c].page_table = Append(@, p)]
        /\ call' = [call EXCEPT !.at = NextPage,
                                !.work = IF NeedWipe(t) THEN Append(@, Wipe(p)) ELSE @]
  BY <1>0, Zenon DEF AppendNewPage
<1>3. /\ call'.op = "append" /\ call'.block = c /\ call'.at = NextPage
      /\ call'.work = IF NeedWipe(t) THEN Append(call.work, Wipe(p)) ELSE call.work
  BY <1>0, <1>1, <1>2 DEF TypeInv, TypeOK, Frame
<1>4. Gains(c, k, p) /\ k \in Slots
  BY <1>0, <1>2, <1>3, AppendGains DEF Books
<1>5. /\ block'[c].pos = block[c].pos
      /\ block'[c].page_table = Append(block[c].page_table, p)
  BY <1>1, <1>2 DEF TypeInv, TypeOK, RequestBlock
<1>6. ~page'[p].sealed /\ \A q \in Pages \ {p} : page'[q] = page[q]
  BY <1>2 DEF Claimed, TypeInv, TypeOK
<1>7. k = Logical
  BY <1>0, <1>1, NeededIsNext
<1> HIDE DEF t
<1>8. none = << >>
  OBVIOUS
<1> HIDE DEF none
<1>9. Holders(p) = {}
  <2>1. page[p].ref_count = 0
    BY <1>1, <1>2, <1>8, AllocExact DEF Books, Accounts
  <2>2. QED
    BY <2>1, HeldReferenced DEF Accounts
<1>10. Holders(p)' = {<<c, k>>} /\ \A q \in Pages \ {p} : Holders(q)' = Holders(q)
  BY <1>4, <1>9 DEF Gains
<1> DEFINE Q == {p}
<1>11. /\ \A q \in Q : Holders(q) = {}
       /\ \A q \in Pages \ Q : page'[q].sealed = page[q].sealed /\ Holders(q)' = Holders(q)
  BY <1>6, <1>9, <1>10
<1>12. \A w \in ToSet(call'.work) : w \in ToSet(call.work) \/ w.dst = p
  <2>1. call.work \in Seq(Work) /\ Wipe(p) \in Work /\ Wipe(p).dst = p
    BY FrameFacts DEF Wipe, Work
  <2>2. ToSet(Append(call.work, Wipe(p))) = ToSet(call.work) \cup {Wipe(p)}
    BY <2>1, AppendMembers
  <2>3. QED
    BY <1>3, <2>1, <2>2
<1>13. /\ \A i \in 1 .. Len(block[c].page_table) :
            i # k => block'[c].page_table[i] = block[c].page_table[i]
       /\ p = block'[c].page_table[k]
  BY <1>0, <1>1, <1>5
<1> HIDE DEF Q
<1>14. PreparedOwn' /\ WorkOwn'
  <2>1. PreparedOwn /\ WorkOwn /\ Holders(p)' = {<<c, k>>} /\ Appending
    BY <1>1, <1>10 DEF WritesOwn
  <2>2. \A w \in ToSet(call'.work) :
          w \in ToSet(call.work) \/ (w.dst = p /\ ~page'[p].sealed)
    BY <1>6, <1>12
  <2>3. /\ block'[c].pos = block[c].pos /\ k \in Slots
        /\ call'.op = "append" /\ call'.block = c /\ call'.at = NextPage
    BY <1>3, <1>4, <1>5
  <2>4. QED
    BY <1>0, <1>7, <1>11, <1>13, <2>1, <2>2, <2>3, IterationWrites, ZenonT(60)
<1>15. PendingOwn'
  BY <1>1, <1>11, PendingSafe DEF WritesOwn
<1>16. QED
  BY <1>14, <1>15 DEF WritesOwn

\* The copy of a shared page is shown by the writer's entry alone, and the
\* shared page, which others write as little as the writer, stays sealed or not.
LEMMA ForkWrites ==
  ASSUME TypeInv, Books, Within, Deferral, Accounts, WritesOwn, AppendFork
  PROVE  WritesOwn'
<1>0. PICK c, k, p : c = call.block /\ k = Logical /\ p = block[c].page_table[k]
  OBVIOUS
<1> DEFINE t == block[c].tenant_id
<1>1. PICK np \in Pages : Forked(c, k, p, np)
  BY <1>0, ForkEffect
<1>2. /\ call.op = "append" /\ Appending /\ ~NeedsPage /\ pending' = pending
      /\ c \in Blocks /\ block[c].page_table \in Seq(Pages) /\ k \in Nat \ {0}
      /\ Table = block[c].page_table
  BY <1>0, AppendFacts, FrameFacts, Zenon DEF AppendFork, NeedsFork, Appending, Table
<1>3. /\ p \in Pages /\ np # p /\ HandsOver(c, k, p, np)
      /\ page[np].ref_count = 0 /\ page[p].ref_count > 1
      /\ page' = [Claimed(np, t) EXCEPT ![p].ref_count = page[p].ref_count - 1]
      /\ block' = [block EXCEPT ![c].page_table[k] = np]
      /\ call' = [call EXCEPT !.at = NextPage, !.work = Append(@, Copy(p, np))]
  BY <1>1 DEF Forked
<1>4. /\ call'.op = "append" /\ call'.block = c /\ call'.at = NextPage
      /\ call'.work = Append(call.work, Copy(p, np))
  BY <1>0, <1>2, <1>3 DEF TypeInv, TypeOK, Frame
<1>5. k \in 1 .. Len(block[c].page_table) /\ k \in Slots
  <2>1. k <= Len(block[c].page_table)
    BY <1>0, <1>2 DEF NeedsPage
  <2>2. <<c, k>> \in Holders(p)
    BY <1>3 DEF HandsOver
  <2>3. QED
    BY <1>2, <2>1, <2>2 DEF Holders
<1>6. /\ block'[c].pos = block[c].pos
      /\ block'[c].page_table = [block[c].page_table EXCEPT ![k] = np]
  BY <1>2, <1>3 DEF TypeInv, TypeOK, RequestBlock
<1>7. ~page'[np].sealed /\ \A q \in Pages \ {np} : page'[q].sealed = page[q].sealed
  BY <1>3 DEF Claimed, TypeInv, TypeOK, Page
<1>8. Holders(np) = {} /\ Cardinality(Holders(p)) > 1
  BY <1>3, HeldReferenced DEF Accounts, RefsExact
<1>9. Holders(np)' = {<<c, k>>} /\ <<c, k>> \in Holders(p)
      /\ \A q \in Pages \ {np, p} : Holders(q)' = Holders(q)
  BY <1>3, <1>8 DEF HandsOver
<1> DEFINE Q == {np, p}
<1>10. /\ \A q \in Q : Holders(q) = {} \/ Cardinality(Holders(q)) > 1
       /\ \A q \in Q : Holders(q) = {} \/ <<c, k>> \in Holders(q)
       /\ \A q \in Pages \ Q : page'[q].sealed = page[q].sealed /\ Holders(q)' = Holders(q)
  BY <1>7, <1>8, <1>9
<1>11. \A w \in ToSet(call'.work) : w \in ToSet(call.work) \/ w.dst = np
  <2>1. call.work \in Seq(Work) /\ Copy(p, np) \in Work /\ Copy(p, np).dst = np
    BY <1>3, FrameFacts DEF Copy, Work
  <2>2. ToSet(Append(call.work, Copy(p, np))) = ToSet(call.work) \cup {Copy(p, np)}
    BY <2>1, AppendMembers
  <2>3. QED
    BY <1>4, <2>1, <2>2
<1>12. /\ \A i \in 1 .. Len(block[c].page_table) :
            i # k => block'[c].page_table[i] = block[c].page_table[i]
       /\ np = block'[c].page_table[k]
  BY <1>2, <1>5, <1>6
<1> HIDE DEF Q, t
<1>13. PreparedOwn' /\ WorkOwn'
  <2>1. PreparedOwn /\ WorkOwn /\ Holders(np)' = {<<c, k>>} /\ Appending
    BY <1>2, <1>9 DEF WritesOwn
  <2>2. \A w \in ToSet(call'.work) :
          w \in ToSet(call.work) \/ (w.dst = np /\ ~page'[np].sealed)
    BY <1>7, <1>11
  <2>3. block'[c].pos = block[c].pos /\ k \in Slots
    BY <1>5, <1>6
  <2>4. /\ call'.op = "append" /\ call'.block = c /\ call'.at = NextPage
    BY <1>4
  <2>5. /\ \A q \in Q : Holders(q) = {} \/ Cardinality(Holders(q)) > 1
        /\ \A q \in Pages \ Q : page'[q].sealed = page[q].sealed /\ Holders(q)' = Holders(q)
    BY <1>10
  <2>6. QED
    BY <1>0, <1>12, <2>1, <2>2, <2>3, <2>4, <2>5, IterationWrites
<1>14. PendingOwn'
  BY <1>0, <1>2, <1>10, PendingSafe DEF WritesOwn
<1>15. QED
  BY <1>13, <1>14 DEF WritesOwn

\* A page with one reference at most, that this entry shows, is shown by no other.
LEMMA OneHolder ==
  ASSUME RefsExact, NEW p \in Pages, NEW s \in Holders(p), page[p].ref_count <= 1
  PROVE  Holders(p) = {s}
<1> DEFINE rest == Holders(p) \ {s}
<1>1. Cardinality(Holders(p)) <= 1 /\ Cardinality(Holders(p)) \in Nat
  BY HoldersFinite DEF RefsExact
<1>2. Cardinality(rest) = Cardinality(Holders(p)) - 1
  BY HoldersFinite, OneLess
<1>3. IsFiniteSet(rest)
  BY HoldersFinite, FS_RemoveElement
<1>4. Cardinality(rest) \in Nat
  BY <1>3, FS_CardinalityType
<1>5. Cardinality(rest) = 0
  BY <1>1, <1>2, <1>4
<1>6. rest = {}
  BY <1>3, <1>5, FS_EmptySet
<1>7. QED
  BY <1>6

\* Work left after the unlock in a step that changes no page and no holder: it
\* was left before, or it is what the open Append collected.
LEMMA PendingKept ==
  ASSUME TypeInv, WritesOwn, page' = page, \A q : Holders(q)' = Holders(q),
         \A b \in Blocks : \A w \in ToSet(pending'[b]) :
           w \in ToSet(pending[b]) \/ (b = call.block /\ w \in ToSet(call.work))
  PROVE  PendingOwn'
<1>1. SUFFICES ASSUME NEW b \in Blocks, NEW w \in ToSet(pending'[b])
               PROVE  OwnsAlone(b, w.dst)'
  BY DEF PendingOwn
<1>2. PICK d : d = w.dst
  OBVIOUS
<1>3. OwnsAlone(b, d)
  BY <1>2 DEF WritesOwn, PendingOwn, WorkOwn
<1>4. OwnsAlone(b, d)'
  BY <1>3, OwnsAloneKept
<1>5. QED
  BY <1>2, <1>4

\* The writer of a page in place is the one that holds it.
LEMMA InPlaceWrites ==
  ASSUME TypeInv, Books, Within, Accounts, WritesOwn, AppendInPlace,
         page' = page, \A q : Holders(q)' = Holders(q)
  PROVE  WritesOwn'
<1>0. PICK c, k, p : c = call.block /\ k = Logical /\ p = block[c].page_table[k]
  OBVIOUS
<1>1. /\ Appending /\ ~NeedsPage /\ ~NeedsFork /\ call.op = "append"
      /\ call' = [call EXCEPT !.at = NextPage]
      /\ UNCHANGED <<block, pending>>
  BY DEF AppendInPlace, Appending
<1>2. /\ call'.op = "append" /\ call'.block = c /\ call'.at = NextPage
      /\ call'.work = call.work
  BY <1>0, <1>1 DEF TypeInv, TypeOK, Frame
<1>3. /\ c \in Blocks /\ block[c].page_table \in Seq(Pages) /\ k \in Nat \ {0}
      /\ Table = block[c].page_table /\ ~Released(c, k)
  BY <1>0, <1>1, AppendFacts, FrameFacts DEF Table, Released
<1>4. k <= Len(block[c].page_table)
  BY <1>0, <1>1, <1>3 DEF NeedsPage
<1>5. p \in Pages /\ <<c, k>> \in Holders(p) /\ k \in Slots
  BY <1>0, <1>3, <1>4, EntryHolds DEF Books
<1>6. page[p].ref_count <= 1
  <2>1. ~(page[p].ref_count > 1) /\ page[p].ref_count \in Nat
    BY <1>0, <1>1, <1>3, <1>5 DEF NeedsFork, TypeInv, TypeOK, Page
  <2>2. QED
    BY <2>1
<1>7. Holders(p)' = {<<c, k>>}
  BY <1>5, <1>6, OneHolder DEF Accounts
<1> DEFINE Q == {}
<1>8. /\ \A q \in Q : Holders(q) = {} \/ Cardinality(Holders(q)) > 1
      /\ \A q \in Pages \ Q : page'[q].sealed = page[q].sealed /\ Holders(q)' = Holders(q)
  OBVIOUS
<1>9. /\ \A i \in 1 .. Len(block[c].page_table) :
           i # k => block'[c].page_table[i] = block[c].page_table[i]
      /\ p = block'[c].page_table[k] /\ block'[c].pos = block[c].pos
  BY <1>0, <1>1
<1>10. \A w \in ToSet(call'.work) : w \in ToSet(call.work)
  BY <1>2
<1> HIDE DEF Q
<1>11. PreparedOwn' /\ WorkOwn'
  <2>1. PreparedOwn /\ WorkOwn
    BY DEF WritesOwn
  <2>2. \A w \in ToSet(call'.work) :
          w \in ToSet(call.work) \/ (w.dst = p /\ ~page'[p].sealed)
    BY <1>10
  <2>3. QED
    BY <1>0, <1>1, <1>2, <1>5, <1>7, <1>8, <1>9, <2>1, <2>2, IterationWrites
<1>12. PendingOwn'
  BY <1>1, PendingKept
<1>13. QED
  BY <1>11, <1>12 DEF WritesOwn

\* A step that changes no page and no holder.
LEMMA QuietWrites ==
  ASSUME TypeInv, Books, Within, Deferral, Deferral', Accounts, WritesOwn, QuietStep
  PROVE  WritesOwn'
<1>1. page' = page /\ \A q : Holders(q)' = Holders(q)
  BY QuietEffect, HoldersSame DEF Books
<1>2. /\ \A b \in Blocks : pending[b] \in Seq(Work)
      /\ call.block \in Blocks /\ pending \in [Blocks -> Seq(Work)]
  BY FrameFacts DEF TypeInv, TypeOK
<1>3. CASE AppendInPlace
  BY <1>1, <1>3, InPlaceWrites
<1>4. CASE AppendReturn
  <2>1. call' = Idle /\ pending' = [pending EXCEPT ![call.block] = call.work]
    BY <1>4 DEF AppendReturn, Return
  <2>2. call'.op = "idle"
    BY <2>1 DEF Idle
  <2>3. PreparedOwn' /\ WorkOwn'
    BY <2>2 DEF PreparedOwn, Prepared, WorkOwn, Deferral, ToSet
  <2>4. PendingOwn'
    BY <1>1, <1>2, <2>1, PendingKept
  <2>5. QED
    BY <2>3, <2>4 DEF WritesOwn
<1>5. CASE \/ \E t \in Tenants, q \in Nat \X Nat : SetTenantQuota(t, q)
           \/ \E b \in Blocks : DeferredStep(b)
           \/ UNCHANGED vars
  <2>1. block' = block /\ call' = call
    BY <1>5 DEF SetTenantQuota, DeferredStep, vars
  <2>2. PreparedOwn' /\ WorkOwn'
    <3>1. PreparedOwn'
      BY <1>1, <2>1 DEF WritesOwn, PreparedOwn, Prepared, Table
    <3>2. PICK c : c = call.block
      OBVIOUS
    <3>3. ASSUME NEW w \in ToSet(call.work) PROVE OwnsAlone(c, w.dst)'
      <4>1. PICK d : d = w.dst
        OBVIOUS
      <4>2. OwnsAlone(c, d)
        BY <3>2, <4>1 DEF WritesOwn, WorkOwn
      <4>3. OwnsAlone(c, d)'
        BY <1>1, <4>2, OwnsAloneKept
      <4>4. QED
        BY <4>1, <4>3
    <3>4. WorkOwn'
      BY <2>1, <3>2, <3>3 DEF WorkOwn, OwnsAlone
    <3>5. QED
      BY <3>1, <3>4
  <2>3. \A b \in Blocks : \A w \in ToSet(pending'[b]) : w \in ToSet(pending[b])
    <3>1. CASE pending' = pending
      BY <3>1
    <3>2. CASE \E b \in Blocks : DeferredStep(b)
      <4>1. PICK b \in Blocks : pending[b] # << >> /\ pending' = [pending EXCEPT ![b] = Tail(@)]
        BY <3>2 DEF DeferredStep
      <4>2. \A w \in ToSet(Tail(pending[b])) : w \in ToSet(pending[b])
        <5>1. /\ pending[b] \in Seq(Work) /\ Tail(pending[b]) \in Seq(Work)
              /\ Len(Tail(pending[b])) = Len(pending[b]) - 1
              /\ \A i \in 1 .. Len(pending[b]) - 1 : Tail(pending[b])[i] = pending[b][i + 1]
          BY <1>2, <4>1
        <5>2. ASSUME NEW w \in ToSet(Tail(pending[b])) PROVE w \in ToSet(pending[b])
          <6>0. PICK i \in 1 .. Len(Tail(pending[b])) : w = Tail(pending[b])[i]
            BY <5>1, Members
          <6>1. i \in 1 .. Len(pending[b]) - 1 /\ w = pending[b][i + 1]
            BY <5>1, <6>0
          <6>2. i + 1 \in 1 .. Len(pending[b])
            BY <5>1
          <6>3. QED
            BY <5>1, <6>1, <6>2, Members
        <5>3. QED
          BY <5>2
      <4>3. QED
        BY <1>2, <4>1, <4>2
    <3>3. QED
      BY <1>5, <3>1, <3>2 DEF SetTenantQuota, vars
  <2>4. PendingOwn'
    BY <1>1, <2>3, PendingKept
  <2>5. QED
    BY <2>2, <2>4 DEF WritesOwn
<1>6. CASE \E b \in Blocks, n \in Nat \ {0} : AppendBegin(b, n)
  <2>1. PICK b \in Blocks, n \in Nat \ {0} : AppendBegin(b, n)
    BY <1>6
  <2>2. /\ UNCHANGED <<block, pending>> /\ call'.block = b /\ call'.work = << >>
        /\ call'.at = block[b].pos
    BY <2>1 DEF AppendBegin, Open
  <2>3. block[b].pos \in Nat
    BY FrameFacts
  <2>4. Prepared' = {}
    BY <2>2, <2>3 DEF Prepared
  <2>5. PreparedOwn' /\ WorkOwn'
    BY <2>2, <2>4 DEF PreparedOwn, WorkOwn, ToSet
  <2>6. PendingOwn'
    BY <1>1, <2>2, PendingKept
  <2>7. QED
    BY <2>5, <2>6 DEF WritesOwn
<1>7. CASE \/ \E t \in Tenants, tokens \in Seq(Token) : AcquireBegin(t, tokens)
           \/ \E b \in Blocks : ReleaseBegin(b)
           \/ \E b \in Blocks, new \in Nat, tokens \in Seq(Token) : CommitBegin(b, new, tokens)
           \/ AcquireReturn \/ ReleaseReturn \/ AppendFail \/ CommitReturn
  <2>1. pending' = pending
    BY <1>7 DEF AcquireBegin, ReleaseBegin, CommitBegin, AcquireReturn, ReleaseReturn,
                AppendFail, CommitReturn
  <2>2. call'.op # "append"
    <3>1. CASE AcquireReturn \/ ReleaseReturn \/ AppendFail \/ CommitReturn
      BY <3>1 DEF AcquireReturn, ReleaseReturn, AppendFail, CommitReturn, Return, Idle
    <3>2. CASE \E b \in Blocks : ReleaseBegin(b)
      BY <3>2 DEF ReleaseBegin, Open
    <3>3. CASE \E b \in Blocks, new \in Nat, tokens \in Seq(Token) : CommitBegin(b, new, tokens)
      BY <3>3 DEF CommitBegin, Open
    <3>4. CASE \E t \in Tenants, tokens \in Seq(Token) : AcquireBegin(t, tokens)
      BY <3>4 DEF AcquireBegin, Open
    <3>5. QED
      BY <1>7, <3>1, <3>2, <3>3, <3>4
  <2>3. PreparedOwn' /\ WorkOwn'
    BY <2>2 DEF PreparedOwn, Prepared, WorkOwn, Deferral, ToSet
  <2>4. PendingOwn'
    BY <1>1, <2>1, PendingKept
  <2>5. QED
    BY <2>3, <2>4 DEF WritesOwn
<1>8. QED
  BY <1>3, <1>4, <1>5, <1>6, <1>7 DEF QuietStep, AnyEnter

\* The whole: with the accounts and the positions, what blocks write stays theirs.
WritesInv ==
  TypeInv /\ Books /\ Within /\ Deferral /\ (~misfiled => Accounts /\ WritesOwn)

\* Nothing is prepared or deferred at the start.
LEMMA InitWrites ==
  ASSUME Init
  PROVE  Within /\ Deferral /\ WritesOwn
<1>1. /\ \A b \in Blocks : /\ block[b].pos = 0 /\ block[b].page_table = << >>
                            /\ pending[b] = << >>
      /\ call.op = "idle" /\ call.work = << >>
  BY DEF Init, EmptyBlock, Idle
<1>2. Within
  BY <1>1, PoolAssumption DEF Within
<1>3. Deferral
  BY <1>1 DEF Deferral
<1>4. WritesOwn
  BY <1>1 DEF WritesOwn, PreparedOwn, Prepared, WorkOwn, PendingOwn, ToSet
<1>5. QED
  BY <1>2, <1>3, <1>4

\* Every step keeps the invariant.
LEMMA WritesStep ==
  ASSUME WritesInv, [AnyNext]_vars
  PROVE  WritesInv'
<1>1. TypeInv' /\ Books' /\ Within' /\ Deferral'
  BY TypeStep, BooksStep, WithinStep, DeferralStep DEF WritesInv, Books
<1>2. ASSUME ~misfiled' PROVE Accounts' /\ WritesOwn'
  <2>1. Accounts /\ WritesOwn
    BY <1>2, MisfiledStays DEF WritesInv
  <2>2. Accounts'
    BY <1>2, <2>1, AccountsStep DEF WritesInv
  <2>3. QuietStep \/ AcquireMatch \/ ReleasePage \/ AppendNewPage \/ AppendFork \/ CommitPage
    BY DEF AnyNext, LockedStep, QuietStep
  <2>4. WritesOwn'
    BY <1>1, <2>1, <2>3, QuietWrites, AcquireWrites, ReleaseWrites, AppendNewWrites,
       ForkWrites, CommitWrites DEF WritesInv
  <2>5. QED
    BY <2>2, <2>4
<1>3. QED
  BY <1>1, <1>2 DEF WritesInv

\* As long as no page was filed under a tenant that does not own it, no other
\* request's table shows a page that Append gives out for new tokens, or one it
\* wipes or copies to once the mutex is free.
THEOREM WritesExclusiveAlways == Spec => []WritesExclusive
<1>1. Init => WritesInv
  BY InitType, InitBooks, InitAccounts, InitWrites DEF WritesInv
<1>2. WritesInv /\ [Next]_vars => WritesInv'
  BY NextIsAny, WritesStep DEF WritesInv
<1>3. WritesInv => WritesExclusive
  <2>1. SUFFICES ASSUME WritesOwn PROVE WritesExclusive
    BY DEF WritesInv, WritesExclusive
  <2>2. ASSUME NEW b \in Blocks, NEW w \in ToSet(pending[b])
        PROVE  Holders(w.dst) \subseteq {b} \X Slots
    BY <2>1, <2>2 DEF WritesOwn, PendingOwn, OwnsAlone
  <2>3. QED
    BY <2>1, <2>2 DEF WritesOwn, PreparedOwn, WritesExclusive
<1>4. QED
  BY <1>1, <1>2, <1>3, PTL DEF Spec

=============================================================================
