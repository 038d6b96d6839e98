----------------------- MODULE PagedServingRowsProofs -----------------------
(***************************************************************************)
(* Theorems about PagedServing, for every value of its constants: what the *)
(* rows of the KV pool hold.  As long as nothing happened that is known to *)
(* break it, every position a job reads holds the KV of the job's own      *)
(* tokens, and every cached page the KV of the tokens it is indexed under. *)
(***************************************************************************)
EXTENDS PagedServingProofs

-----------------------------------------------------------------------------
\* Rows.

\* The position that offset o of entry j of a page table stands for.
At(j, o) == (j - 1) * PageSize + o + 1

\* Where the positions of an entry lie.
LEMMA PlaceBounds ==
  ASSUME NEW j \in Nat \ {0}, NEW o \in Offsets
  PROVE  /\ At(j, o) \in Nat \ {0} /\ j * PageSize \in Nat /\ (j - 1) * PageSize \in Nat
         /\ (j - 1) * PageSize < At(j, o) /\ At(j, o) <= j * PageSize
<1>1. PageSize \in Nat \ {0} /\ j - 1 \in Nat
  BY PoolAssumption
<1>2. (j - 1) * PageSize \in Nat /\ j * PageSize \in Nat
  BY <1>1, ProductNat
<1>3. j * PageSize = (j - 1) * PageSize + PageSize
  BY <1>1
<1>4. o \in Nat /\ o + 1 <= PageSize
  BY <1>1 DEF Offsets
<1>5. QED
  BY <1>1, <1>2, <1>3, <1>4 DEF At

\* Every position is one offset of one entry.
LEMMA PlaceOf ==
  ASSUME NEW i \in Nat \ {0}
  PROVE  /\ (i - 1) \div PageSize + 1 \in Nat \ {0} /\ OffsetAt(i) \in Offsets
         /\ At((i - 1) \div PageSize + 1, OffsetAt(i)) = i
<1> DEFINE a == i - 1
           q == a \div PageSize
           m == a % PageSize
<1>1. a \in Nat /\ PageSize \in Nat \ {0} /\ q \in Nat
  BY PoolAssumption, PageOfToken
<1>2. m \in 0 .. PageSize - 1 /\ a = PageSize * q + m
  BY <1>1
<1>3. OffsetAt(i) = m /\ a = i - 1
  BY DEF OffsetAt
<1> HIDE DEF a, q, m
<1>4. At(q + 1, m) = (q + 1 - 1) * PageSize + m + 1
  BY <1>1, <1>2 DEF At
<1>5. (q + 1 - 1) * PageSize = PageSize * q
  BY <1>1
<1>6. At(q + 1, m) = i
  BY <1>1, <1>2, <1>3, <1>4, <1>5
<1>7. QED
  BY <1>1, <1>2, <1>3, <1>6 DEF Offsets, q, a

\* A job whose rows matter, the tokens it was told, how many of them have rows.
Live(j)   == j.phase \notin {"new", "committed", "releasing", "done"}
Told(j)   == j.input_ids \o j.output_tokens
Fed(j, c) == IF j.phase = "acquiring" THEN c.at * PageSize ELSE j.kv_pos

\* Who holds a page that is not cached; nobody owns a cached one.
Private == [p \in Pages |-> IF page[p].sealed THEN {} ELSE Holders(p)]

\* The rows of the tokens fed are the rows of those tokens.
RowsFit(table, fed, told, k) ==
  \A i \in 1 .. Len(table), o \in Offsets :
    At(i, o) <= fed => k[table[i]][o] = SubSeq(told, 1, At(i, o))

\* A page with room after them is the block's alone.
AheadFit(b, table, fed, own) ==
  \A i \in 1 .. Len(table) : i * PageSize > fed => own[table[i]] = {<<b, i>>}

\* While it commits, its block keeps the head of its history.
PrefixFits(j, B) ==
  j.phase = "committing" => /\ Len(B.prefix) <= Len(Told(j))
                            /\ B.prefix = SubSeq(Told(j), 1, Len(B.prefix))

\* The rows of one job.
JobRows(j, B, c, k, own) ==
  Live(j) => /\ RowsFit(B.page_table, Fed(j, c), Told(j), k)
             /\ AheadFit(j.block_id, B.page_table, Fed(j, c), own)
             /\ PrefixFits(j, B)

\* A cached page holds whole pages of the tokens it is indexed under, up to its
\* own.
Cached(pg, k) ==
  \A p \in Pages : pg[p].sealed =>
    \E n \in Nat \ {0} :
      /\ Len(pg[p].chain_hash) = n * PageSize
      /\ \A o \in Offsets : k[p][o] = SubSeq(pg[p].chain_hash, 1, At(n, o))

\* What Append leaves for after the unlock wipes a page past the tokens fed.
WipesAhead(b, w) ==
  /\ w.kind = "wipe"
  /\ \A r \in Requests, i \in Slots :
       job[r].block_id = b /\ <<b, i>> \in Holders(w.dst) =>
         job[r].kv_pos <= (i - 1) * PageSize

\* The rows of every job, and the wipes of every block.
RowsInv  == \A r \in Requests : JobRows(job[r], BlockOf(r), call, kv, Private)
WipesInv == /\ \A w \in ToSet(call.work) : WipesAhead(call.block, w)
            /\ \A b \in Blocks : \A w \in ToSet(pending[b]) : WipesAhead(b, w)

KvInv == RowsInv /\ Cached(page, kv) /\ WipesInv

\* Nothing of what is known to break the promise has happened.
Sound == ~misfiled /\ ~mismatched /\ ~skewed

\* Private, and its next value, at a page.
LEMMA PrivateOf ==
  ASSUME NEW p \in Pages
  PROVE  /\ Private[p] = IF page[p].sealed THEN {} ELSE Holders(p)
         /\ Private'[p] = IF page'[p].sealed THEN {} ELSE Holders(p)'
BY DEF Private

\* A job's rows stay when it keeps its tokens and its table, and its pages keep
\* their rows and, where they are its own, their holder.
LEMMA RowsStay ==
  ASSUME NEW j, NEW B, NEW c, NEW k, NEW own, JobRows(j, B, c, k, own),
         NEW j2, NEW B2, NEW c2, NEW k2, NEW own2, Live(j2) => Live(j),
         Live(j2) =>
           /\ j2.block_id = j.block_id /\ Told(j2) = Told(j) /\ Fed(j2, c2) = Fed(j, c)
           /\ B2.page_table = B.page_table /\ PrefixFits(j2, B2)
           /\ \A i \in 1 .. Len(B.page_table) :
                /\ \A o \in Offsets : At(i, o) <= Fed(j, c) =>
                     k2[B.page_table[i]][o] = k[B.page_table[i]][o]
                /\ i * PageSize > Fed(j, c) /\ own[B.page_table[i]] = {<<j.block_id, i>>} =>
                     own2[B.page_table[i]] = own[B.page_table[i]]
  PROVE  JobRows(j2, B2, c2, k2, own2)
<1>1. SUFFICES ASSUME Live(j2) PROVE JobRows(j2, B2, c2, k2, own2)
  BY Zenon DEF JobRows
<1>2. PICK T, fed, told, b : /\ T = B.page_table /\ fed = Fed(j, c) /\ told = Told(j)
                             /\ b = j.block_id
  OBVIOUS
<1>3. RowsFit(T, fed, told, k) /\ AheadFit(b, T, fed, own)
  BY <1>1, <1>2, Zenon DEF JobRows
<1>4. /\ j2.block_id = b /\ Told(j2) = told /\ Fed(j2, c2) = fed
      /\ B2.page_table = T /\ PrefixFits(j2, B2)
      /\ \A i \in 1 .. Len(T) :
           /\ \A o \in Offsets : At(i, o) <= fed => k2[T[i]][o] = k[T[i]][o]
           /\ i * PageSize > fed /\ own[T[i]] = {<<b, i>>} => own2[T[i]] = own[T[i]]
  BY <1>1, <1>2, Zenon
<1>5. RowsFit(T, fed, told, k2)
  <2>1. SUFFICES ASSUME NEW i \in 1 .. Len(T), NEW o \in Offsets, At(i, o) <= fed
                 PROVE  k2[T[i]][o] = SubSeq(told, 1, At(i, o))
    BY Zenon DEF RowsFit
  <2>2. k[T[i]][o] = SubSeq(told, 1, At(i, o))
    BY <1>3, <2>1, Zenon DEF RowsFit
  <2>3. QED
    BY <1>4, <2>1, <2>2, Zenon
<1>6. AheadFit(b, T, fed, own2)
  BY <1>3, <1>4, ZenonT(60) DEF AheadFit
<1>7. QED
  BY <1>4, <1>5, <1>6, Zenon DEF JobRows

\* A job without pages has no rows.
LEMMA NoRows ==
  ASSUME NEW j, NEW B, NEW c, NEW k, NEW own, B.page_table = << >>, PrefixFits(j, B)
  PROVE  JobRows(j, B, c, k, own)
<1>1. 1 .. Len(B.page_table) = {}
  OBVIOUS
<1>2. QED
  BY <1>1, Zenon DEF JobRows, RowsFit, AheadFit

\* What is left of a list was in it.
LEMMA TailMembers ==
  ASSUME NEW S, NEW s \in Seq(S), s # << >>
  PROVE  ToSet(Tail(s)) \subseteq ToSet(s)
<1>1. /\ Tail(s) \in Seq(S) /\ Len(Tail(s)) = Len(s) - 1
      /\ \A i \in 1 .. Len(s) - 1 : Tail(s)[i] = s[i + 1]
  OBVIOUS
<1>2. SUFFICES ASSUME NEW x \in ToSet(Tail(s)) PROVE x \in ToSet(s)
  OBVIOUS
<1>3. PICK i \in 1 .. Len(Tail(s)) : x = Tail(s)[i]
  BY <1>1, <1>2, Members
<1>4. i + 1 \in 1 .. Len(s) /\ x = s[i + 1]
  BY <1>1, <1>3
<1>5. QED
  BY <1>4, Members

\* A quiet step leaves no work that was not there.
LEMMA QuietWork ==
  ASSUME TypeInv, QuietStep
  PROVE  /\ \A b \in Blocks : \A w \in ToSet(pending'[b]) :
              w \in ToSet(pending[b]) \/ (b = call.block /\ w \in ToSet(call.work))
         /\ \A w \in ToSet(call'.work) : call'.block = call.block /\ w \in ToSet(call.work)
<1>1. \A b \in Blocks : pending[b] \in Seq(Work)
  BY DEF TypeInv, TypeOK
<1>2. pending \in [Blocks -> Seq(Work)] /\ call \in Frame
  BY DEF TypeInv, TypeOK
<1>3. CASE AppendReturn
  <2>1. call'.work = << >> /\ pending' = [pending EXCEPT ![call.block] = call.work]
    BY <1>3 DEF AppendReturn, Return, Idle
  <2>2. QED
    BY <1>2, <2>1 DEF ToSet
<1>4. CASE \E b \in Blocks : DeferredStep(b)
  <2>1. PICK b \in Blocks : pending[b] # << >> /\ pending' = [pending EXCEPT ![b] = Tail(@)]
                            /\ call' = call
    BY <1>4 DEF DeferredStep
  <2>2. ToSet(Tail(pending[b])) \subseteq ToSet(pending[b])
    BY <1>1, <2>1, TailMembers
  <2>3. QED
    BY <1>2, <2>1, <2>2
<1>5. CASE \/ \E t \in Tenants, q \in Nat \X Nat : SetTenantQuota(t, q)
           \/ UNCHANGED vars
  BY <1>5 DEF SetTenantQuota, vars
<1>6. CASE AppendInPlace
  <2>1. call' = [call EXCEPT !.at = NextPage] /\ pending' = pending
    BY <1>6 DEF AppendInPlace
  <2>2. call'.block = call.block /\ call'.work = call.work
    BY <1>2, <2>1 DEF Frame
  <2>3. QED
    BY <2>1, <2>2
<1>7. CASE \/ \E t \in Tenants, tokens \in Seq(Token) : AcquireBegin(t, tokens)
           \/ \E b \in Blocks : ReleaseBegin(b)
           \/ \E b \in Blocks, n \in Nat \ {0} : AppendBegin(b, n)
           \/ \E b \in Blocks, new \in Nat, tokens \in Seq(Token) : CommitBegin(b, new, tokens)
           \/ AcquireReturn \/ ReleaseReturn \/ AppendFail \/ CommitReturn
  <2>1. pending' = pending
    BY <1>7 DEF AcquireBegin, ReleaseBegin, AppendBegin, CommitBegin, AcquireReturn,
                ReleaseReturn, AppendFail, CommitReturn
  <2>2. call' = Idle \/ \E op, b, at, until, tokens : call' = Open(op, b, at, until, tokens)
    BY <1>7, Zenon DEF AcquireBegin, ReleaseBegin, AppendBegin, CommitBegin, AcquireReturn,
                       ReleaseReturn, AppendFail, CommitReturn, Return
  <2>3. call'.work = << >>
    BY <2>2 DEF Open, Idle
  <2>4. QED
    BY <2>1, <2>3 DEF ToSet
<1>8. QED
  BY <1>3, <1>4, <1>5, <1>6, <1>7 DEF QuietStep, AnyEnter

\* Work stays ahead while its job's count stays and its page gets no new holder.
LEMMA WipeStays ==
  ASSUME NEW b, NEW w, WipesAhead(b, w), Holders(w.dst)' \subseteq Holders(w.dst),
         \A r \in Requests : job'[r].block_id = b =>
           job[r].block_id = b /\ job'[r].kv_pos = job[r].kv_pos
  PROVE  WipesAhead(b, w)'
BY DEF WipesAhead

\* A live job that a step leaves with its tokens and its table, and one that has
\* no page yet.
Steady(r) ==
  /\ Live(job[r]) /\ job'[r].block_id = job[r].block_id
  /\ Told(job'[r]) = Told(job[r]) /\ Fed(job'[r], call') = Fed(job[r], call)
  /\ block'[job[r].block_id].page_table = BlockOf(r).page_table
  /\ PrefixFits(job'[r], block'[job[r].block_id])
Fresh(r) ==
  /\ block'[job'[r].block_id].page_table = << >>
  /\ PrefixFits(job'[r], block'[job'[r].block_id])

\* A job keeps its block and its count, or nothing is left to wipe for it.
CountKept(r) ==
  \/ job'[r].block_id = job[r].block_id /\ job'[r].kv_pos = job[r].kv_pos
  \/ job'[r].block_id \notin Blocks
  \/ pending'[job'[r].block_id] = << >> /\ call'.work = << >>

\* A page in a live job's table.
LEMMA LiveEntry ==
  ASSUME TypeInv, Bounded, JobInv, NEW r \in Requests, Live(job[r]),
         NEW b, b = job[r].block_id, NEW i \in 1 .. Len(block[b].page_table)
  PROVE  /\ b \in Blocks /\ i \in Slots /\ block[b].page_table[i] \in Pages
         /\ <<b, i>> \in Holders(block[b].page_table[i])
<1>1. /\ JobFits(job[r], BlockOf(r), call, stage, skewed)
      /\ Held(job[r]) => job[r].block_id \in Blocks
  BY JobFacts
<1>2. Held(job[r]) /\ b \in Blocks
  BY <1>1 DEF JobFits, BlockFits, Live
<1>3. ~Released(b, i)
  <2>1. SUFFICES ASSUME call.op = "release", call.block = b PROVE FALSE
    BY DEF Released
  <2>2. PICK s \in Requests : Calling(job[s])
    BY <2>1 DEF JobInv, NoStray
  <2>3. JobFits(job[s], BlockOf(s), call, stage, skewed)
    BY JobFacts
  <2>4. job[s].block_id = b /\ job[s].phase = "releasing" /\ Held(job[s])
    BY <2>1, <2>2, <2>3 DEF JobFits, CallFits, BlockFits, Calling
  <2>5. s = r
    BY <2>4 DEF JobInv, Apart
  <2>6. QED
    BY <2>4, <2>5 DEF Live
<1>4. i \in Nat \ {0} /\ i <= Len(block[b].page_table)
  <2>1. Len(block[b].page_table) \in Nat
    BY <1>2, FrameFacts
  <2>2. QED
    BY <2>1
<1>5. QED
  BY <1>2, <1>3, <1>4, EntryHolds

\* Quiet steps.
LEMMA QuietKv ==
  ASSUME TypeInv, Bounded, JobInv, KvInv, QuietStep, kv' = kv,
         \A r \in Requests : Live(job'[r]) => Steady(r) \/ Fresh(r),
         \A r \in Requests : CountKept(r)
  PROVE  KvInv'
<1>1. page' = page /\ \A p : Holders(p)' = Holders(p)
  BY QuietEffect, HoldersSame
<1>2. Private' = Private
  BY <1>1 DEF Private
<1>3. RowsInv'
  <2>1. SUFFICES ASSUME NEW r \in Requests
                 PROVE  JobRows(job'[r], block'[job'[r].block_id], call', kv', Private')
    BY Zenon DEF RowsInv, BlockOf
  <2>2. CASE ~Live(job'[r])
    BY <2>2, Zenon DEF JobRows
  <2>3. CASE Live(job'[r]) /\ Steady(r)
    <3>1. JobRows(job[r], BlockOf(r), call, kv, Private)
      BY Zenon DEF KvInv, RowsInv
    <3>2. PICK j, B, j2, B2, c, c2 :
            /\ j = job[r] /\ B = BlockOf(r) /\ c = call
            /\ j2 = job'[r] /\ B2 = block'[job[r].block_id] /\ c2 = call'
      OBVIOUS
    <3>3. /\ JobRows(j, B, c, kv, Private) /\ Live(j)
          /\ j2.block_id = j.block_id /\ Told(j2) = Told(j) /\ Fed(j2, c2) = Fed(j, c)
          /\ B2.page_table = B.page_table /\ PrefixFits(j2, B2)
      BY <2>3, <3>1, <3>2, Zenon DEF Steady
    <3>4. JobRows(j2, B2, c2, kv, Private)
      BY <3>3, RowsStay, Zenon
    <3>5. QED
      BY <1>2, <2>3, <3>2, <3>4, Zenon DEF Steady
  <2>4. CASE Fresh(r)
    BY <2>4, NoRows, Zenon DEF Fresh
  <2>5. QED
    BY <2>2, <2>3, <2>4
<1>4. Cached(page', kv')
  BY <1>1 DEF KvInv
<1>5. \A b \in Blocks : \A w \in ToSet(pending'[b]) : WipesAhead(b, w)'
  <2>1. SUFFICES ASSUME NEW b \in Blocks, NEW w \in ToSet(pending'[b]) PROVE WipesAhead(b, w)'
    OBVIOUS
  <2>2. WipesAhead(b, w)
    <3>1. w \in ToSet(pending[b]) \/ (b = call.block /\ w \in ToSet(call.work))
      BY QuietWork
    <3>2. QED
      BY <3>1 DEF KvInv, WipesInv
  <2>3. pending'[b] # << >>
    BY DEF ToSet
  <2>4. ASSUME NEW r \in Requests, job'[r].block_id = b
        PROVE  job[r].block_id = b /\ job'[r].kv_pos = job[r].kv_pos
    BY <2>3, <2>4 DEF CountKept
  <2>5. QED
    BY <1>1, <2>2, <2>4, WipeStays
<1>6. ASSUME NEW w \in ToSet(call'.work) PROVE WipesAhead(call.block, w)' /\ call'.block = call.block
  <2>1. PICK b : b = call.block
    OBVIOUS
  <2>2. call'.block = b /\ w \in ToSet(call.work) /\ WipesAhead(b, w)
    BY <2>1, QuietWork DEF KvInv, WipesInv
  <2>3. call'.work # << >> /\ b \in Blocks
    BY <2>1, FrameFacts DEF ToSet
  <2>4. ASSUME NEW r \in Requests, job'[r].block_id = b
        PROVE  job[r].block_id = b /\ job'[r].kv_pos = job[r].kv_pos
    BY <2>3, <2>4 DEF CountKept
  <2>5. WipesAhead(b, w)'
    BY <1>1, <2>2, <2>4, WipeStays
  <2>6. QED
    BY <2>1, <2>2, <2>5
<1>7. QED
  BY <1>3, <1>4, <1>5, <1>6 DEF KvInv, WipesInv

\* Steps that move jobs from phase to phase and leave tokens, tables and rows.
LEMMA PhaseKv ==
  ASSUME TypeInv, Bounded, JobInv, KvInv, QuietStep, kv' = kv,
         \A b \in Blocks : /\ block'[b].page_table = block[b].page_table
                           /\ block'[b].prefix = block[b].prefix,
         call' = call \/ call.op # "acquire",
         \A r \in Requests :
           /\ job'[r].block_id = job[r].block_id /\ job'[r].kv_pos = job[r].kv_pos
           /\ job'[r].input_ids = job[r].input_ids
           /\ job'[r].output_tokens = job[r].output_tokens
           /\ \/ job'[r].phase = job[r].phase
              \/ /\ job[r].phase # "acquiring"
                 /\ job'[r].phase \notin {"acquiring", "committing"}
                 /\ Live(job'[r]) => Live(job[r])
  PROVE  KvInv'
<1>1. ASSUME NEW r \in Requests, Live(job'[r]) PROVE Steady(r)
  <2>1. /\ JobFits(job[r], BlockOf(r), call, stage, skewed)
        /\ Held(job[r]) => job[r].block_id \in Blocks
    BY JobFacts
  <2>2. Live(job[r])
    BY <1>1 DEF Live
  <2>3. job[r].block_id \in Blocks
    BY <2>1, <2>2 DEF JobFits, BlockFits, Live
  <2>4. Told(job'[r]) = Told(job[r])
    BY DEF Told
  <2>5. Fed(job'[r], call') = Fed(job[r], call)
    <3>1. CASE job[r].phase = "acquiring" /\ job'[r].phase = "acquiring"
      <4>1. call' = call
        BY <2>1, <3>1 DEF JobFits, CallFits
      <4>2. QED
        BY <3>1, <4>1 DEF Fed
    <3>2. CASE job[r].phase # "acquiring" /\ job'[r].phase # "acquiring"
      BY <3>2 DEF Fed
    <3>3. QED
      BY <3>1, <3>2
  <2>6. PrefixFits(job'[r], block'[job[r].block_id])
    <3>1. JobRows(job[r], BlockOf(r), call, kv, Private)
      BY DEF KvInv, RowsInv
    <3>2. PrefixFits(job[r], BlockOf(r))
      BY <2>2, <3>1, Zenon DEF JobRows
    <3>3. job'[r].phase = "committing" => job[r].phase = "committing"
      OBVIOUS
    <3>4. block'[job[r].block_id].prefix = BlockOf(r).prefix
      BY <2>3 DEF BlockOf
    <3>5. QED
      BY <2>4, <3>2, <3>3, <3>4, Zenon DEF PrefixFits
  <2>7. block'[job[r].block_id].page_table = BlockOf(r).page_table
    BY <2>3 DEF BlockOf
  <2>8. QED
    BY <2>2, <2>4, <2>5, <2>6, <2>7, Zenon DEF Steady
<1>2. \A r \in Requests : CountKept(r)
  BY DEF CountKept
<1>3. QED
  BY <1>1, <1>2, QuietKv

\* A job that only moves.
LEMMA MoveKv ==
  ASSUME TypeInv, Bounded, JobInv, KvInv, QuietStep, kv' = kv,
         \A b \in Blocks : /\ block'[b].page_table = block[b].page_table
                           /\ block'[b].prefix = block[b].prefix,
         call' = call \/ call.op # "acquire",
         NEW r \in Requests, NEW from, NEW to, Move(r, from, to),
         from # "acquiring", to \in Phase, to \notin {"acquiring", "committing"},
         to \notin {"committed", "releasing", "done", "new"} =>
           from \notin {"committed", "releasing", "done", "new"}
  PROVE  KvInv'
<1>1. job \in [Requests -> RequestJob]
  BY DEF JobInv, ServingTypeOK
<1>2. /\ job[r].phase = from /\ job'[r].phase = to
      /\ job'[r].input_ids = job[r].input_ids
      /\ job'[r].output_tokens = job[r].output_tokens
      /\ job'[r].kv_pos = job[r].kv_pos
      /\ job'[r].block_id = job[r].block_id
      /\ \A s \in Requests \ {r} : job'[s] = job[s]
  BY <1>1 DEF Move, RequestJob
<1>3. Live(job'[r]) => Live(job[r])
  BY <1>2 DEF Live
<1>4. ASSUME NEW s \in Requests
      PROVE  /\ job'[s].block_id = job[s].block_id /\ job'[s].kv_pos = job[s].kv_pos
             /\ job'[s].input_ids = job[s].input_ids
             /\ job'[s].output_tokens = job[s].output_tokens
             /\ \/ job'[s].phase = job[s].phase
                \/ /\ job[s].phase # "acquiring"
                   /\ job'[s].phase \notin {"acquiring", "committing"}
                   /\ Live(job'[s]) => Live(job[s])
  <2>1. CASE s = r
    BY <1>2, <1>3, <2>1
  <2>2. CASE s # r
    BY <1>2, <2>2
  <2>3. QED
    BY <2>1, <2>2
<1>5. QED
  BY <1>4, PhaseKv

\* Cancelling a job and asking for its release leave the rows alone.
LEMMA CancelKv ==
  ASSUME TypeInv, Bounded, JobInv, KvInv, NEW r \in Requests,
         Cancel(r) \/ Release(r)
  PROVE  KvInv'
<1>1. CASE Cancel(r)
  <2>1. Move(r, "ready", "finished") /\ UNCHANGED vars /\ kv' = kv
    BY <1>1, Zenon DEF Cancel
  <2>2. QuietStep /\ block' = block /\ call' = call
    BY <2>1 DEF QuietStep, vars
  <2>3. QED
    BY <2>1, <2>2, MoveKv DEF Phase
<1>2. CASE Release(r)
  <2>1. Move(r, "committed", "releasing") /\ ReleaseBegin(job[r].block_id) /\ kv' = kv
    BY <1>2, Zenon DEF Release
  <2>2. block' = block /\ call = Idle
    BY <2>1 DEF ReleaseBegin, MayCall
  <2>3. job[r].block_id \in Blocks
    <3>1. /\ JobFits(job[r], BlockOf(r), call, stage, skewed)
          /\ Held(job[r]) => job[r].block_id \in Blocks
      BY JobFacts
    <3>2. QED
      BY <2>1, <3>1 DEF JobFits, BlockFits, Move
  <2>4. QuietStep
    BY <2>1, <2>3 DEF QuietStep, AnyEnter
  <2>5. call.op # "acquire"
    BY <2>2 DEF Idle
  <2>6. QED
    BY <2>1, <2>2, <2>4, <2>5, MoveKv DEF Phase
<1>3. QED
  BY <1>1, <1>2

\* So do the returns of Commit and of Append.
LEMMA ReturnKv ==
  ASSUME TypeInv, Bounded, JobInv, KvInv, Committed \/ Appended
  PROVE  KvInv'
<1> DEFINE r == OwnerOf(call.block)
<1>1. CASE Committed
  <2>1. /\ CommitReturn /\ kv' = kv /\ call.op = "commit" /\ block' = block
        /\ Move(r, "committing", "committed")
    BY <1>1 DEF Committed, CommitReturn
  <2>2. r \in Requests /\ QuietStep
    BY <2>1, OwnerCalls DEF QuietStep
  <2> HIDE DEF r
  <2>3. QED
    BY <2>1, <2>2, MoveKv DEF Phase
<1>2. CASE Appended
  <2>1. /\ AppendReturn /\ kv' = kv /\ call.op = "append"
        /\ block' = [block EXCEPT ![call.block].pos = call.until]
        /\ Move(r, "appending", "forward")
    BY <1>2 DEF Appended, AppendReturn
  <2>2. r \in Requests /\ QuietStep
    BY <2>1, OwnerCalls DEF QuietStep
  <2>3. block \in [Blocks -> RequestBlock]
    BY DEF TypeInv, TypeOK
  <2>4. \A b \in Blocks : /\ block'[b].page_table = block[b].page_table
                          /\ block'[b].prefix = block[b].prefix
    BY <2>1, <2>3 DEF RequestBlock
  <2>5. Move(r, "appending", "forward") /\ call.op # "acquire" /\ kv' = kv
    BY <2>1
  <2> HIDE DEF r
  <2>6. QED
    BY <2>2, <2>4, <2>5, MoveKv DEF Phase
<1>3. QED
  BY <1>1, <1>2

\* Asking for room for the next tokens touches no row.
LEMMA FeedKv ==
  ASSUME TypeInv, Bounded, JobInv, KvInv, NEW r \in Requests, NEW n \in 1 .. MaxPos, Feed(r, n)
  PROVE  KvInv'
<1>1. /\ job[r].phase = "ready" /\ AppendBegin(job[r].block_id, n) /\ kv' = kv
      /\ \E new : job' = [job EXCEPT ![r].phase = "appending", ![r].pending_input_ids = new]
  BY Zenon DEF Feed
<1>2. job \in [Requests -> RequestJob]
  BY DEF JobInv, ServingTypeOK
<1>3. PICK new : job' = [job EXCEPT ![r].phase = "appending", ![r].pending_input_ids = new]
  BY <1>1
<1>4. /\ job'[r].phase = "appending"
      /\ job'[r].input_ids = job[r].input_ids
      /\ job'[r].output_tokens = job[r].output_tokens
      /\ job'[r].kv_pos = job[r].kv_pos
      /\ job'[r].block_id = job[r].block_id
      /\ \A s \in Requests \ {r} : job'[s] = job[s]
  BY <1>2, <1>3 DEF RequestJob
<1>5. job[r].block_id \in Blocks
  <2>1. /\ JobFits(job[r], BlockOf(r), call, stage, skewed)
        /\ Held(job[r]) => job[r].block_id \in Blocks
    BY JobFacts
  <2>2. QED
    BY <1>1, <2>1 DEF JobFits, BlockFits
<1>6. n \in Nat \ {0}
  OBVIOUS
<1>7. QuietStep
  BY <1>1, <1>5, <1>6 DEF QuietStep, AnyEnter
<1>8. block' = block /\ call.op # "acquire"
  BY <1>1 DEF AppendBegin, MayCall, Idle
<1>9. ASSUME NEW s \in Requests
      PROVE  /\ job'[s].block_id = job[s].block_id /\ job'[s].kv_pos = job[s].kv_pos
             /\ job'[s].input_ids = job[s].input_ids
             /\ job'[s].output_tokens = job[s].output_tokens
             /\ \/ job'[s].phase = job[s].phase
                \/ /\ job[s].phase # "acquiring"
                   /\ job'[s].phase \notin {"acquiring", "committing"}
                   /\ Live(job'[s]) => Live(job[s])
  <2>1. CASE s = r
    BY <1>1, <1>4, <2>1 DEF Live
  <2>2. CASE s # r
    BY <1>4, <2>2
  <2>3. QED
    BY <2>1, <2>2
<1>10. kv' = kv
  BY <1>1
<1>11. QED
  BY <1>7, <1>8, <1>9, <1>10, PhaseKv

\* Jobs that fail keep what they have until their block is released.
LEMMA FailKv ==
  ASSUME TypeInv, Bounded, JobInv, KvInv, QuietStep, kv' = kv,
         block' = block, call' = call \/ call.op # "acquire",
         NEW S \in SUBSET Requests, FailAll(S),
         \A r \in S : job[r].phase \in {"ready", "appending", "forward"}
  PROVE  KvInv'
<1>1. job \in [Requests -> RequestJob]
  BY DEF JobInv, ServingTypeOK
<1>2. ASSUME NEW s \in Requests
      PROVE  /\ job'[s].block_id = job[s].block_id /\ job'[s].kv_pos = job[s].kv_pos
             /\ job'[s].input_ids = job[s].input_ids
             /\ job'[s].output_tokens = job[s].output_tokens
             /\ \/ job'[s].phase = job[s].phase
                \/ /\ job[s].phase # "acquiring"
                   /\ job'[s].phase \notin {"acquiring", "committing"}
                   /\ Live(job'[s]) => Live(job[s])
  <2>1. CASE s \in S
    <3>1. job'[s] = [job[s] EXCEPT !.phase = "finished"] /\ job[s] \in RequestJob
      BY <1>1, <2>1 DEF FailAll
    <3>2. /\ job'[s].phase = "finished"
          /\ job'[s].block_id = job[s].block_id /\ job'[s].kv_pos = job[s].kv_pos
          /\ job'[s].input_ids = job[s].input_ids
          /\ job'[s].output_tokens = job[s].output_tokens
      BY <3>1 DEF RequestJob
    <3>3. QED
      BY <2>1, <3>2 DEF Live
  <2>2. CASE s \notin S
    BY <2>2 DEF FailAll
  <2>3. QED
    BY <2>1, <2>2
<1>3. QED
  BY <1>2, PhaseKv

\* The steps that move neither rows nor tables.
LEMMA AsideKv ==
  ASSUME TypeInv, Bounded, JobInv, KvInv,
         \/ \E t \in Tenants, q \in Quotas : PushQuota(t, q)
         \/ CleanupDone \/ InjectDone \/ BatchReady \/ ForwardDone
         \/ AppendRefused
         \/ AppendInPlace /\ UNCHANGED serving
         \/ UNCHANGED allVars
  PROVE  KvInv'
<1>1. CASE \E t \in Tenants, q \in Quotas : PushQuota(t, q)
  <2>1. PICK t \in Tenants, q \in Quotas : SetTenantQuota(t, q) /\ UNCHANGED serving
    BY <1>1 DEF PushQuota
  <2>2. q \in Nat \X Nat
    BY PoolAssumption
  <2>3. QuietStep /\ block' = block /\ call' = call
    BY <2>1, <2>2 DEF QuietStep, AnyEnter, SetTenantQuota
  <2>4. QED
    BY <2>1, <2>3, PhaseKv DEF serving
<1>2. CASE CleanupDone \/ InjectDone \/ ForwardDone \/ UNCHANGED allVars
  <2>1. UNCHANGED <<vars, kv, job>>
    BY <1>2 DEF CleanupDone, InjectDone, ForwardDone, allVars, serving
  <2>2. QuietStep /\ block' = block /\ call' = call /\ job' = job /\ kv' = kv
    BY <2>1 DEF QuietStep, vars
  <2>3. QED
    BY <2>2, PhaseKv
<1>3. CASE BatchReady
  <2>1. UNCHANGED <<vars, kv>> /\ (job' = job \/ FailAll(InPhase({"forward"})))
    BY <1>3 DEF BatchReady
  <2>2. QuietStep /\ block' = block /\ call' = call /\ kv' = kv
    BY <2>1 DEF QuietStep, vars
  <2>3. CASE job' = job
    BY <2>2, <2>3, PhaseKv
  <2>4. CASE FailAll(InPhase({"forward"}))
    BY <2>2, <2>4, FailKv DEF InPhase
  <2>5. QED
    BY <2>1, <2>3, <2>4
<1>4. CASE AppendRefused
  <2>1. AppendFail /\ kv' = kv /\ block' = block /\ call.op # "acquire"
    BY <1>4 DEF AppendRefused, AppendFail, Appending
  <2>2. PICK later \in SUBSET InPhase({"ready"}) :
          FailAll(InPhase({"appending", "forward"}) \cup later)
    BY <1>4 DEF AppendRefused
  <2>3. PICK S : S = InPhase({"appending", "forward"}) \cup later
    OBVIOUS
  <2>4. /\ S \in SUBSET Requests /\ FailAll(S)
        /\ \A r \in S : job[r].phase \in {"ready", "appending", "forward"}
    BY <2>2, <2>3 DEF InPhase
  <2>5. QED
    BY <2>1, <2>4, FailKv DEF QuietStep
<1>5. CASE AppendInPlace /\ UNCHANGED serving
  <2>1. /\ QuietStep /\ block' = block /\ call.op # "acquire"
        /\ job' = job /\ kv' = kv
    BY <1>5 DEF AppendInPlace, Appending, QuietStep, serving
  <2>2. QED
    BY <2>1, PhaseKv
<1>6. QED
  BY <1>1, <1>2, <1>3, <1>4, <1>5

\* The jobs that a step of one request leaves alone.
LEMMA OthersSteady ==
  ASSUME TypeInv, JobInv, RowsInv, NEW a \in Requests,
         \A r \in Requests \ {a} : job'[r] = job[r],
         NEW b, \A r \in Requests \ {a} : Held(job[r]) => job[r].block_id # b,
         \A x \in Blocks : x # b => block'[x] = block[x],
         call' = call \/ call.op = "idle" \/ Calling(job[a]),
         NEW r \in Requests \ {a}
  PROVE  (Live(job'[r]) => Steady(r)) /\ CountKept(r)
<1>1. /\ JobFits(job[r], BlockOf(r), call, stage, skewed)
      /\ Held(job[r]) => job[r].block_id \in Blocks
  BY JobFacts
<1>2. job'[r] = job[r]
  OBVIOUS
<1>3. ASSUME Live(job[r]) PROVE Steady(r)
  <2>1. Held(job[r]) /\ job[r].block_id \in Blocks
    BY <1>1, <1>3 DEF JobFits, BlockFits, Live
  <2>2. block'[job[r].block_id] = BlockOf(r)
    BY <2>1 DEF BlockOf
  <2>3. job[r].phase = "acquiring" => call' = call
    <3>1. SUFFICES ASSUME job[r].phase = "acquiring", Calling(job[a]) PROVE FALSE
      BY <1>1 DEF JobFits, CallFits
    <3>2. call.block = job[r].block_id
      BY <1>1, <3>1 DEF JobFits, CallFits, Calling
    <3>3. call.block = job[a].block_id
      BY <3>1, JobFacts DEF JobFits, CallFits
    <3>4. QED
      BY <2>1, <3>2, <3>3 DEF JobInv, Apart
  <2>4. Fed(job[r], call') = Fed(job[r], call)
    BY <2>3 DEF Fed
  <2>5. JobRows(job[r], BlockOf(r), call, kv, Private)
    BY DEF RowsInv
  <2>6. PrefixFits(job[r], BlockOf(r))
    BY <1>3, <2>5, Zenon DEF JobRows
  <2>7. QED
    BY <1>2, <1>3, <2>2, <2>4, <2>6, Zenon DEF Steady
<1>4. QED
  BY <1>2, <1>3 DEF CountKept

\* A job whose block was given back has no rows.
LEMMA ReleaseDoneKv ==
  ASSUME TypeInv, Bounded, JobInv, KvInv, NEW r \in Requests, ReleaseDone(r)
  PROVE  KvInv'
<1>1. /\ job[r].phase = "releasing" /\ ReleaseReturn /\ kv' = kv
      /\ job' = [job EXCEPT ![r] = [NewJob EXCEPT !.phase = "done"]]
  BY DEF ReleaseDone
<1>2. job \in [Requests -> RequestJob]
  BY DEF JobInv, ServingTypeOK
<1>3. /\ job'[r] = [NewJob EXCEPT !.phase = "done"]
      /\ \A s \in Requests \ {r} : job'[s] = job[s]
  BY <1>1, <1>2
<1>4. job'[r].phase = "done" /\ job'[r].block_id = NoBlock
  BY <1>3 DEF NewJob
<1>5. JobFits(job[r], BlockOf(r), call, stage, skewed)
  BY JobFacts
<1>6. Calling(job[r]) /\ call.block = job[r].block_id /\ Held(job[r])
  BY <1>1, <1>5 DEF JobFits, CallFits, BlockFits, Calling
<1>7. \A s \in Requests \ {r} : Held(job[s]) => job[s].block_id # call.block
  BY <1>6 DEF JobInv, Apart
<1>8. \A x \in Blocks : x # call.block => block'[x] = block[x]
  <2>1. PICK B : block' = [block EXCEPT ![call.block] = B]
    BY <1>1, Zenon DEF ReleaseReturn
  <2>2. QED
    BY <2>1 DEF TypeInv, TypeOK
<1>9. \A s \in Requests \ {r} : (Live(job'[s]) => Steady(s)) /\ CountKept(s)
  BY <1>3, <1>6, <1>7, <1>8, OthersSteady DEF KvInv
<1>10. ~Live(job'[r]) /\ CountKept(r)
  BY <1>4, ServingAssumption DEF Live, CountKept
<1>11. QuietStep /\ kv' = kv
  BY <1>1 DEF QuietStep
<1>12. QED
  BY <1>9, <1>10, <1>11, QuietKv

\* A committing block keeps the head of its history as its prefix.
LEMMA CommitKv ==
  ASSUME TypeInv, Bounded, JobInv, KvInv, NEW r \in Requests, Commit(r)
  PROVE  KvInv'
<1>1. PICK b, told : b = job[r].block_id /\ told = History(r)
  OBVIOUS
<1>2. /\ Move(r, "finished", "committing") /\ kv' = kv
      /\ CommitBegin(b, job[r].kv_pos, told)
  BY <1>1, Zenon DEF Commit
<1>3. job \in [Requests -> RequestJob]
  BY DEF JobInv, ServingTypeOK
<1>4. /\ job[r].phase = "finished" /\ job'[r].phase = "committing"
      /\ job'[r].input_ids = job[r].input_ids
      /\ job'[r].output_tokens = job[r].output_tokens
      /\ job'[r].kv_pos = job[r].kv_pos
      /\ job'[r].block_id = job[r].block_id
      /\ \A s \in Requests \ {r} : job'[s] = job[s]
  BY <1>2, <1>3, MoveEffect DEF Phase
<1>5. /\ JobFits(job[r], BlockOf(r), call, stage, skewed)
      /\ Held(job[r]) => job[r].block_id \in Blocks
      /\ told \in Seq(Token) /\ job[r].kv_pos \in Nat
  BY <1>1, JobFacts
<1>6. /\ Held(job[r]) /\ b \in Blocks /\ CountsFit(job[r])
      /\ job[r].kv_pos <= block[b].pos
  BY <1>1, <1>4, <1>5 DEF JobFits, BlockFits, PlaceFits, BlockOf
<1>7. told # << >>
  <2>1. job[r] \in RequestJob
    BY <1>3
  <2>2. PICK in, out : in = job[r].input_ids /\ out = job[r].output_tokens
    OBVIOUS
  <2>3. in \in Seq(Token) /\ out \in Seq(Token) /\ in # << >> /\ told = in \o out
    BY <1>1, <1>6, <2>1, <2>2 DEF RequestJob, CountsFit, History
  <2>4. QED
    BY <2>3
<1>8. PICK m : m = IF Len(told) < PrefixTrack THEN Len(told) ELSE PrefixTrack
  OBVIOUS
<1>9. m \in Nat /\ m <= Len(told)
  BY <1>5, <1>8, PoolAssumption
<1>10. /\ call = Idle /\ block'[b].page_table = block[b].page_table
       /\ block'[b].prefix = SubSeq(told, 1, m)
       /\ \A x \in Blocks : x # b => block'[x] = block[x]
  BY <1>2, <1>6, <1>7, <1>8, CommitBeginEffect
<1>11. call.op = "idle"
  BY <1>10 DEF Idle
<1>12. \A s \in Requests \ {r} : Held(job[s]) => job[s].block_id # b
  BY <1>1, <1>6 DEF JobInv, Apart
<1>13. \A s \in Requests \ {r} : (Live(job'[s]) => Steady(s)) /\ CountKept(s)
  BY <1>4, <1>10, <1>11, <1>12, OthersSteady DEF KvInv
<1>14. Told(job'[r]) = Told(job[r]) /\ Told(job[r]) = told
  BY <1>1, <1>4 DEF Told, History
<1>15. PrefixFits(job'[r], block'[b])
  <2>1. SubSeq(told, 1, m) \in Seq(Token) /\ Len(SubSeq(told, 1, m)) = m
    BY <1>5, <1>9
  <2>2. PICK head : head = SubSeq(told, 1, m)
    OBVIOUS
  <2>3. Len(head) = m /\ block'[b].prefix = head
    BY <1>10, <2>1, <2>2
  <2>4. QED
    BY <1>9, <1>14, <2>2, <2>3 DEF PrefixFits
<1>16. Steady(r) /\ CountKept(r)
  <2>1. Live(job[r])
    BY <1>4 DEF Live
  <2>2. Fed(job'[r], call') = Fed(job[r], call)
    BY <1>4 DEF Fed
  <2>3. block'[b].page_table = BlockOf(r).page_table
    BY <1>1, <1>10 DEF BlockOf
  <2>4. QED
    BY <1>1, <1>4, <1>14, <1>15, <2>1, <2>2, <2>3, Zenon DEF Steady, CountKept
<1>17. QuietStep /\ kv' = kv
  BY <1>2, <1>5, <1>6 DEF QuietStep, AnyEnter
<1>18. QED
  BY <1>13, <1>16, <1>17, QuietKv

\* A request that enters starts with an empty table.
LEMMA InjectKv ==
  ASSUME TypeInv, Bounded, Deferral, JobInv, KvInv,
         NEW r \in Requests, NEW t \in Tenants, NEW prompt \in Prompts, Inject(r, t, prompt)
  PROVE  KvInv'
<1>1. PICK b : b = Min(FreeSlots)
  OBVIOUS
<1>2. /\ job[r].phase = "new" /\ AcquireBegin(t, prompt) /\ kv' = kv
      /\ job' = [job EXCEPT ![r] = [NewJob EXCEPT !.input_ids = prompt,
                                                  !.block_id = call'.block,
                                                  !.phase = "acquiring"]]
  BY DEF Inject
<1>3. /\ call = Idle /\ FreeSlots # {} /\ block' = [block EXCEPT ![b] = NewBlock(t)]
      /\ call' = Open("acquire", b, 0, 0, prompt) /\ pending' = pending
  BY <1>1, <1>2 DEF AcquireBegin
<1>4. b \in Blocks /\ ~block[b].in_use
  BY <1>1, <1>3, FreeSlotIsBlock DEF FreeSlots
<1>5. /\ job \in [Requests -> RequestJob] /\ block \in [Blocks -> RequestBlock]
      /\ pending \in [Blocks -> Seq(Work)]
  BY DEF JobInv, ServingTypeOK, TypeInv, TypeOK
<1>6. call.op = "idle" /\ call'.block = b /\ call'.work = << >>
  BY <1>3 DEF Idle, Open
<1>7. /\ job'[r].phase = "acquiring" /\ job'[r].block_id = b
      /\ \A s \in Requests \ {r} : job'[s] = job[s]
  BY <1>2, <1>5, <1>6 DEF NewJob
<1>8. \A x \in Blocks : x # b => block'[x] = block[x]
  BY <1>3, <1>5
<1>9. block'[b].page_table = << >>
  BY <1>3, <1>4, <1>5 DEF NewBlock
<1>10. \A s \in Requests \ {r} : Held(job[s]) => job[s].block_id # b
  BY <1>4, JobFacts DEF BlockOf
<1>11. \A s \in Requests \ {r} : (Live(job'[s]) => Steady(s)) /\ CountKept(s)
  BY <1>6, <1>7, <1>8, <1>10, OthersSteady DEF KvInv
<1>12. Fresh(r)
  BY <1>7, <1>9 DEF Fresh, PrefixFits
<1>13. CountKept(r)
  <2>1. pending'[b] = << >>
    BY <1>3, <1>4 DEF Deferral
  <2>2. QED
    BY <1>6, <1>7, <2>1 DEF CountKept
<1>14. QuietStep /\ kv' = kv
  <2>1. prompt \in Seq(Token)
    BY PoolAssumption
  <2>2. QED
    BY <1>2, <2>1 DEF QuietStep, AnyEnter
<1>15. QED
  BY <1>11, <1>12, <1>13, <1>14, QuietKv

\* The rows of the pages that Acquire matched are the rows the job starts with.
LEMMA AcquiredKv ==
  ASSUME TypeInv, Bounded, Deferral, JobInv, KvInv, Acquired, ~skewed'
  PROVE  KvInv'
<1>1. PICK a, c, n : a = OwnerOf(call.block) /\ c = call.block /\ n = call.at * PageSize
  OBVIOUS
<1>2. /\ AcquireReturn /\ kv' = kv
      /\ job' = [job EXCEPT ![a].kv_pos = StartPos(n, Len(job[a].input_ids)),
                            ![a].phase = "ready"]
      /\ skewed' = (skewed \/ n >= Len(job[a].input_ids))
  BY <1>1, Zenon DEF Acquired
<1>3. /\ call.op = "acquire" /\ call' = Idle /\ pending' = pending
      /\ block' = [block EXCEPT ![c].pos = n]
  BY <1>1, <1>2 DEF AcquireReturn, Return
<1>4. /\ a \in Requests /\ Calling(job[a]) /\ job[a].block_id = c /\ c \in Blocks
  BY <1>1, <1>3, OwnerCalls
<1>5. /\ job \in [Requests -> RequestJob] /\ block \in [Blocks -> RequestBlock]
  BY DEF JobInv, ServingTypeOK, TypeInv, TypeOK
<1>6. StartPos(n, Len(job[a].input_ids)) = n
  BY <1>2 DEF StartPos
<1>7. job' = [job EXCEPT ![a].kv_pos = n, ![a].phase = "ready"]
  BY <1>2, <1>6, Zenon
<1>8. /\ job'[a].phase = "ready" /\ job'[a].kv_pos = n
      /\ job'[a].input_ids = job[a].input_ids
      /\ job'[a].output_tokens = job[a].output_tokens
      /\ job'[a].block_id = c
      /\ \A s \in Requests \ {a} : job'[s] = job[s]
  BY <1>4, <1>5, <1>7 DEF RequestJob
<1>9. job[a].phase = "acquiring"
  <2>1. JobFits(job[a], BlockOf(a), call, stage, skewed)
    BY <1>4, JobFacts
  <2>2. QED
    BY <1>3, <1>4, <2>1 DEF JobFits, CallFits, Calling
<1>10. /\ block'[c].page_table = block[c].page_table
       /\ \A x \in Blocks : x # c => block'[x] = block[x]
  BY <1>3, <1>4, <1>5 DEF RequestBlock
<1>11. \A s \in Requests \ {a} : Held(job[s]) => job[s].block_id # c
  <2>1. Held(job[a])
    BY <1>4, ServingAssumption DEF Held
  <2>2. QED
    BY <1>4, <2>1 DEF JobInv, Apart
<1>12. \A s \in Requests \ {a} : (Live(job'[s]) => Steady(s)) /\ CountKept(s)
  BY <1>4, <1>8, <1>10, <1>11, OthersSteady DEF KvInv
<1>13. Steady(a)
  <2>1. Live(job[a])
    BY <1>9 DEF Live
  <2>2. Fed(job'[a], call') = Fed(job[a], call)
    BY <1>1, <1>8, <1>9 DEF Fed
  <2>3. Told(job'[a]) = Told(job[a])
    BY <1>8 DEF Told
  <2>4. block'[c].page_table = BlockOf(a).page_table
    BY <1>4, <1>10 DEF BlockOf
  <2>5. PrefixFits(job'[a], block'[c])
    BY <1>8 DEF PrefixFits
  <2>6. QED
    BY <1>4, <1>8, <2>1, <2>2, <2>3, <2>4, <2>5, Zenon DEF Steady
<1>14. CountKept(a)
  <2>1. pending'[c] = << >>
    BY <1>1, <1>3, <1>4 DEF Deferral
  <2>2. call'.work = << >>
    BY <1>3 DEF Idle
  <2>3. QED
    BY <1>8, <2>1, <2>2 DEF CountKept
<1>15. QuietStep /\ kv' = kv
  BY <1>2 DEF QuietStep
<1>16. QED
  BY <1>12, <1>13, <1>14, <1>15, QuietKv

\* One more page in a table.
LEMMA RowsGrown ==
  ASSUME NEW T \in Seq(Pages), NEW p, NEW b, NEW n \in Nat, n = Len(T),
         NEW told, NEW k, NEW own, RowsFit(T, n * PageSize, told, k),
         \A o \in Offsets : k[p][o] = SubSeq(told, 1, At(n + 1, o))
  PROVE  /\ RowsFit(Append(T, p), (n + 1) * PageSize, told, k)
         /\ AheadFit(b, Append(T, p), (n + 1) * PageSize, own)
<1>1. /\ Len(Append(T, p)) = n + 1 /\ Append(T, p)[n + 1] = p
      /\ \A i \in 1 .. n : Append(T, p)[i] = T[i]
  OBVIOUS
<1>2. PICK T2 : T2 = Append(T, p)
  OBVIOUS
<1>3. ASSUME NEW i \in 1 .. n + 1, NEW o \in Offsets
      PROVE  k[T2[i]][o] = SubSeq(told, 1, At(i, o))
  <2>1. CASE i = n + 1
    BY <1>1, <1>2, <2>1
  <2>2. CASE i # n + 1
    <3>1. i \in 1 .. n /\ i \in Nat \ {0} /\ i <= n
      BY <2>2
    <3>2. At(i, o) \in Nat /\ At(i, o) <= i * PageSize /\ i * PageSize \in Nat
      BY <3>1, PlaceBounds
    <3>3. i * PageSize <= n * PageSize /\ n * PageSize \in Nat
      BY <3>1, PagesWithin, ProductNat
    <3>4. At(i, o) <= n * PageSize
      BY <3>2, <3>3
    <3>5. k[T[i]][o] = SubSeq(told, 1, At(i, o))
      BY <3>1, <3>4 DEF RowsFit
    <3>6. T2[i] = T[i]
      BY <1>1, <1>2, <3>1
    <3>7. QED
      BY <3>5, <3>6, Zenon
  <2>3. QED
    BY <2>1, <2>2
<1>4. RowsFit(T2, (n + 1) * PageSize, told, k)
  BY <1>1, <1>2, <1>3 DEF RowsFit
<1>5. AheadFit(b, T2, (n + 1) * PageSize, own)
  <2>1. ASSUME NEW i \in 1 .. n + 1 PROVE ~(i * PageSize > (n + 1) * PageSize)
    <3>1. i * PageSize <= (n + 1) * PageSize
      BY PagesWithin
    <3>2. i * PageSize \in Nat /\ (n + 1) * PageSize \in Nat
      BY ProductNat
    <3>3. QED
      BY <3>1, <3>2
  <2>2. QED
    BY <1>1, <1>2, <2>1, Zenon DEF AheadFit
<1>6. QED
  BY <1>2, <1>4, <1>5

\* One more page in a table past the tokens fed.
LEMMA RoomGrown ==
  ASSUME NEW T \in Seq(Pages), NEW p, NEW b, NEW n \in Nat, n = Len(T),
         NEW fed \in Nat, fed <= n * PageSize,
         NEW told, NEW k, NEW own, NEW own2,
         RowsFit(T, fed, told, k), AheadFit(b, T, fed, own),
         \A i \in 1 .. n : own[T[i]] = {<<b, i>>} => own2[T[i]] = own[T[i]],
         own2[p] = {<<b, n + 1>>}
  PROVE  /\ RowsFit(Append(T, p), fed, told, k)
         /\ AheadFit(b, Append(T, p), fed, own2)
<1>1. /\ Len(Append(T, p)) = n + 1 /\ Append(T, p)[n + 1] = p
      /\ \A i \in 1 .. n : Append(T, p)[i] = T[i]
  OBVIOUS
<1>2. PICK T2 : T2 = Append(T, p)
  OBVIOUS
<1>3. \A i \in 1 .. n + 1 : i = n + 1 \/ i \in 1 .. n
  OBVIOUS
<1>4. ASSUME NEW i \in 1 .. n + 1, NEW o \in Offsets, At(i, o) <= fed
      PROVE  k[T2[i]][o] = SubSeq(told, 1, At(i, o))
  <2>1. i # n + 1
    <3>1. SUFFICES ASSUME i = n + 1 PROVE FALSE
      OBVIOUS
    <3>2. PICK m, a : m = n * PageSize /\ a = At(n + 1, o)
      OBVIOUS
    <3>3. At(n + 1, o) \in Nat /\ (n + 1 - 1) * PageSize < At(n + 1, o)
      BY PlaceBounds
    <3>4. (n + 1 - 1) * PageSize = m /\ m \in Nat
      BY <3>2, ProductNat, PoolAssumption
    <3>5. a \in Nat /\ m < a /\ a <= fed /\ fed <= m
      BY <1>4, <3>1, <3>2, <3>3, <3>4
    <3>6. QED
      BY <3>4, <3>5
  <2>2. i \in 1 .. n /\ T2[i] = T[i]
    BY <1>1, <1>2, <1>3, <2>1
  <2>3. k[T[i]][o] = SubSeq(told, 1, At(i, o))
    BY <1>4, <2>2, Zenon DEF RowsFit
  <2>4. QED
    BY <2>2, <2>3, Zenon
<1>5. RowsFit(T2, fed, told, k)
  BY <1>1, <1>2, <1>4 DEF RowsFit
<1>6. ASSUME NEW i \in 1 .. n + 1, i * PageSize > fed PROVE own2[T2[i]] = {<<b, i>>}
  <2>1. CASE i = n + 1
    BY <1>1, <1>2, <2>1, Zenon
  <2>2. CASE i \in 1 .. n
    <3>1. T2[i] = T[i] /\ own[T[i]] = {<<b, i>>}
      BY <1>1, <1>2, <1>6, <2>2, Zenon DEF AheadFit
    <3>2. QED
      BY <2>2, <3>1, Zenon
  <2>3. QED
    BY <1>3, <2>1, <2>2
<1>7. AheadFit(b, T2, fed, own2)
  BY <1>1, <1>2, <1>6, Zenon DEF AheadFit
<1>8. QED
  BY <1>2, <1>5, <1>7

\* The rows of the jobs that do not call are as before when no page of theirs
\* changes hands.
LEMMA OthersRows ==
  ASSUME TypeInv, Bounded, JobInv, RowsInv, UNCHANGED <<kv, job>>,
         NEW a \in Requests, Calling(job[a]),
         NEW c, c = call.block, call'.block = c,
         \A x \in Blocks : x # c => block'[x] = block[x],
         NEW Q,
         \A q \in Pages \ Q : Private'[q] = Private[q],
         \A q \in Q : \A b \in Blocks, i \in Slots : b # c => Private[q] # {<<b, i>>},
         NEW r \in Requests \ {a}
  PROVE  JobRows(job'[r], block'[job'[r].block_id], call', kv', Private')
<1>1. SUFFICES ASSUME Live(job[r])
               PROVE  JobRows(job[r], block'[job[r].block_id], call', kv, Private')
  BY Zenon DEF JobRows
<1>2. PICK j, B, b, own, own2, c1, c2 :
        /\ j = job[r] /\ B = BlockOf(r) /\ b = job[r].block_id
        /\ own = Private /\ own2 = Private' /\ c1 = call /\ c2 = call'
  OBVIOUS
<1>3. /\ JobFits(j, B, c1, stage, skewed)
      /\ Held(j) => b \in Blocks
  BY <1>2, JobFacts
<1>4. b \in Blocks /\ B = block[b] /\ Held(j)
  BY <1>1, <1>2, <1>3 DEF JobFits, BlockFits, Live, BlockOf
<1>5. /\ JobFits(job[a], BlockOf(a), call, stage, skewed) /\ a # r
  BY JobFacts
<1>6. job[a].block_id = c
  BY <1>5 DEF JobFits, CallFits
<1>7. b # c
  BY <1>2, <1>4, <1>5, <1>6 DEF JobInv, Apart
<1>8. block'[b] = B
  BY <1>4, <1>7
<1>9. ~Calling(j)
  BY <1>2, <1>3, <1>7 DEF JobFits, CallFits
<1>10. Fed(j, c2) = Fed(j, c1)
  BY <1>9 DEF Fed, Calling
<1>11. JobRows(j, B, c1, kv, own) /\ Live(j) /\ PrefixFits(j, B)
  <2>1. JobRows(job[r], BlockOf(r), call, kv, Private)
    BY DEF RowsInv
  <2>2. QED
    BY <1>1, <1>2, <2>1, Zenon DEF JobRows
<1>12. ASSUME NEW i \in 1 .. Len(B.page_table), own[B.page_table[i]] = {<<b, i>>}
       PROVE  own2[B.page_table[i]] = own[B.page_table[i]]
  <2>1. i \in Slots /\ B.page_table[i] \in Pages
    BY <1>1, <1>2, <1>4, LiveEntry
  <2>2. B.page_table[i] \notin Q
    BY <1>2, <1>4, <1>7, <1>12, <2>1
  <2>3. QED
    BY <1>2, <2>1, <2>2
<1>13. JobRows(j, B, c2, kv, own2)
  <2>1. PICK j2, B2 : j2 = j /\ B2 = B
    OBVIOUS
  <2>2. /\ JobRows(j, B, c1, kv, own) /\ Live(j)
        /\ j2.block_id = j.block_id /\ Told(j2) = Told(j) /\ Fed(j2, c2) = Fed(j, c1)
        /\ B2.page_table = B.page_table /\ PrefixFits(j2, B2)
    BY <1>2, <1>10, <1>11, <2>1, Zenon
  <2>3. \A i \in 1 .. Len(B.page_table) :
          /\ \A o \in Offsets : At(i, o) <= Fed(j, c1) =>
               kv[B.page_table[i]][o] = kv[B.page_table[i]][o]
          /\ i * PageSize > Fed(j, c1) /\ own[B.page_table[i]] = {<<j.block_id, i>>} =>
               own2[B.page_table[i]] = own[B.page_table[i]]
    BY <1>2, <1>12, Zenon
  <2>4. JobRows(j2, B2, c2, kv, own2)
    BY <2>2, <2>3, RowsStay
  <2>5. QED
    BY <2>1, <2>4, Zenon
<1>14. QED
  BY <1>2, <1>8, <1>13, Zenon

\* The work left is ahead as before when no page of it gets a holder.
LEMMA WipesStay ==
  ASSUME TypeInv, WipesInv, UNCHANGED <<job, pending>>, call'.block = call.block,
         \A w \in ToSet(call.work) : Holders(w.dst)' \subseteq Holders(w.dst),
         \A b \in Blocks : \A w \in ToSet(pending[b]) : Holders(w.dst)' \subseteq Holders(w.dst)
  PROVE  /\ \A w \in ToSet(call.work) : WipesAhead(call.block, w)'
         /\ \A b \in Blocks : \A w \in ToSet(pending'[b]) : WipesAhead(b, w)'
<1>1. ASSUME NEW w \in ToSet(call.work) PROVE WipesAhead(call.block, w)'
  <2>1. PICK b : b = call.block
    OBVIOUS
  <2>2. WipesAhead(b, w)
    BY <2>1 DEF WipesInv
  <2>3. WipesAhead(b, w)'
    BY <2>2, WipeStays
  <2>4. QED
    BY <2>1, <2>3
<1>2. ASSUME NEW b \in Blocks, NEW w \in ToSet(pending[b]) PROVE WipesAhead(b, w)'
  <2>1. WipesAhead(b, w)
    BY DEF WipesInv
  <2>2. QED
    BY <2>1, WipeStays
<1>3. QED
  BY <1>1, <1>2

\* What matching a page does to it and to the pages.
LEMMA MatchEffect ==
  ASSUME TypeInv, AcquireMatch
  PROVE  \E p \in Matching :
    /\ p \in Pages /\ page[p].sealed
    /\ block' = [block EXCEPT ![call.block].page_table = Append(@, p)]
    /\ page'[p].sealed /\ page'[p].chain_hash = page[p].chain_hash
    /\ \A q \in Pages \ {p} : page'[q] = page[q]
    /\ call.op = "acquire" /\ call' = [call EXCEPT !.at = @ + 1] /\ UNCHANGED pending
<1>1. PICK p \in Matching :
        /\ block' = [block EXCEPT ![call.block].page_table = Append(@, p)]
        /\ \E owner : page' = [page EXCEPT ![p].ref_count = @ + 1, ![p].tenant_id = owner]
        /\ call.op = "acquire" /\ call' = [call EXCEPT !.at = @ + 1] /\ UNCHANGED pending
  BY Zenon DEF AcquireMatch
<1>2. p \in Pages /\ page[p].sealed
  BY DEF Matching
<1>3. PICK owner : page' = [page EXCEPT ![p].ref_count = @ + 1, ![p].tenant_id = owner]
  BY <1>1
<1>4. page \in [Pages -> Page]
  BY DEF TypeInv, TypeOK
<1>5. /\ page'[p].sealed = page[p].sealed /\ page'[p].chain_hash = page[p].chain_hash
      /\ \A q \in Pages \ {p} : page'[q] = page[q]
  BY <1>2, <1>3, <1>4 DEF Page
<1>6. QED
  BY <1>1, <1>2, <1>5

\* Where the owner of a call stands.
LEMMA OwnerFits ==
  ASSUME TypeInv, JobInv, call.op # "idle", NEW c, c = call.block,
         NEW a, a = OwnerOf(call.block)
  PROVE  /\ a \in Requests /\ Calling(job[a]) /\ job[a].block_id = c /\ c \in Blocks
         /\ job[a] \in RequestJob /\ BlockOf(a) = block[c]
         /\ JobFits(job[a], block[c], call, stage, skewed) /\ Held(job[a])
<1>1. /\ a \in Requests /\ Calling(job[a]) /\ job[a].block_id = c /\ c \in Blocks
  BY OwnerCalls
<1>2. job[a] \in RequestJob /\ JobFits(job[a], BlockOf(a), call, stage, skewed)
  BY <1>1, JobFacts
<1>3. BlockOf(a) = block[c] /\ Held(job[a])
  BY <1>1, ServingAssumption DEF BlockOf, Held
<1>4. QED
  BY <1>1, <1>2, <1>3

\* A matched page holds the rows of the prompt.
LEMMA MatchedRows ==
  ASSUME TypeInv, Cached(page, kv), NEW p \in Pages, page[p].sealed,
         NEW k \in Nat \ {0}, k * PageSize <= Len(call.tokens),
         page[p].chain_hash = ChainHash(call.tokens, k)
  PROVE  \A o \in Offsets : kv[p][o] = SubSeq(call.tokens, 1, At(k, o))
<1>1. PICK hash, tokens, x : /\ hash = page[p].chain_hash /\ tokens = call.tokens
                             /\ x = k * PageSize
  OBVIOUS
<1>2. tokens \in Seq(Token) /\ x \in Nat /\ x <= Len(tokens)
  BY <1>1, FrameFacts, ProductNat
<1>3. Len(hash) = x /\ hash = SubSeq(tokens, 1, x)
  BY <1>1, <1>2, ChainHashLength DEF ChainHash
<1>4. PICK n \in Nat \ {0} :
        /\ Len(hash) = n * PageSize
        /\ \A o \in Offsets : kv[p][o] = SubSeq(hash, 1, At(n, o))
  BY <1>1 DEF Cached
<1>5. n = k
  <2>1. n * PageSize = k * PageSize /\ n * PageSize \in Nat
    BY <1>1, <1>3, <1>4, ProductNat
  <2>2. n * PageSize <= k * PageSize /\ k * PageSize <= n * PageSize
    BY <2>1
  <2>3. n <= k /\ k <= n
    BY <2>2, PagesWithin
  <2>4. QED
    BY <2>3
<1>6. ASSUME NEW o \in Offsets PROVE kv[p][o] = SubSeq(tokens, 1, At(k, o))
  <2>1. At(k, o) \in Nat /\ At(k, o) <= x
    BY <1>1, PlaceBounds
  <2>2. SubSeq(SubSeq(tokens, 1, x), 1, At(k, o)) = SubSeq(tokens, 1, At(k, o))
    BY <1>2, <2>1, HeadOfHead
  <2>3. kv[p][o] = SubSeq(hash, 1, At(k, o))
    BY <1>4, <1>5
  <2>4. QED
    BY <1>3, <2>2, <2>3, Zenon
<1>7. QED
  BY <1>1, <1>6

\* A matched page brings the rows of the next chunk of the prompt, and no room.
LEMMA MatchKv ==
  ASSUME TypeInv, Bounded, Deferral, WritesOwn, JobInv, KvInv, Match, ~mismatched'
  PROVE  KvInv'
<1>0. PICK c, a, k : c = call.block /\ a = OwnerOf(call.block) /\ k = call.at + 1
  OBVIOUS
<1>1. /\ AcquireMatch /\ UNCHANGED <<kv, job>>
      /\ \A p \in Matching : page[p].chain_hash = ChainHash(call.tokens, call.at + 1)
  BY DEF Match
<1>2. PICK p \in Matching :
        /\ p \in Pages /\ page[p].sealed
        /\ block' = [block EXCEPT ![c].page_table = Append(@, p)]
        /\ page'[p].sealed /\ page'[p].chain_hash = page[p].chain_hash
        /\ \A q \in Pages \ {p} : page'[q] = page[q]
        /\ call.op = "acquire" /\ call' = [call EXCEPT !.at = @ + 1] /\ UNCHANGED pending
  BY <1>0, <1>1, MatchEffect
<1>3. /\ c \in Blocks /\ k \in Slots /\ k = Len(block[c].page_table) + 1 /\ Gains(c, k, p)
  BY <1>0, <1>1, <1>2, AcquireGains
<1>4. /\ a \in Requests /\ Calling(job[a]) /\ job[a].block_id = c
      /\ job[a] \in RequestJob /\ BlockOf(a) = block[c]
      /\ JobFits(job[a], block[c], call, stage, skewed) /\ Held(job[a])
  BY <1>0, <1>2, OwnerFits
<1>5. /\ job[a].phase = "acquiring" /\ call.tokens = job[a].input_ids
      /\ job[a].output_tokens = << >>
  BY <1>2, <1>4 DEF JobFits, CallFits, PlaceFits, Calling
<1>6. /\ call \in Frame /\ block \in [Blocks -> RequestBlock]
      /\ \A b \in Blocks : block[b].page_table \in Seq(Pages)
  BY FrameFacts DEF TypeInv, TypeOK
<1>7. /\ call'.block = c /\ call'.at = k /\ call'.work = call.work
      /\ block'[c].page_table = Append(block[c].page_table, p)
      /\ \A x \in Blocks : x # c => block'[x] = block[x]
  BY <1>0, <1>2, <1>3, <1>6 DEF Frame, RequestBlock
<1>8. \A q \in Pages : Private'[q] = Private[q]
  <2>1. ASSUME NEW q \in Pages PROVE Private'[q] = Private[q]
    <3>1. CASE q = p
      BY <1>2, <3>1, PrivateOf
    <3>2. CASE q # p
      BY <1>2, <1>3, <3>2, PrivateOf DEF Gains
    <3>3. QED
      BY <3>1, <3>2
  <2>2. QED
    BY <2>1
<1>9. \A r \in Requests \ {a} : JobRows(job'[r], block'[job'[r].block_id], call', kv', Private')
  <2>1. PICK Q : Q = {}
    OBVIOUS
  <2>2. /\ \A q \in Pages \ Q : Private'[q] = Private[q]
        /\ \A q \in Q : \A b \in Blocks, i \in Slots : b # c => Private[q] # {<<b, i>>}
    BY <1>8, <2>1
  <2>3. /\ RowsInv /\ kv' = kv /\ job' = job /\ c = call.block
        /\ a \in Requests /\ Calling(job[a]) /\ call'.block = c
        /\ \A x \in Blocks : x # c => block'[x] = block[x]
    BY <1>0, <1>1, <1>4, <1>7 DEF KvInv
  <2>4. QED
    BY <2>2, <2>3, OthersRows
<1>10. JobRows(job'[a], block'[job'[a].block_id], call', kv', Private')
  <2>1. PICK T, n, told : T = block[c].page_table /\ n = Len(T) /\ told = Told(job[a])
    OBVIOUS
  <2>2. T \in Seq(Pages) /\ n \in Nat /\ n + 1 = k /\ call.at = n
    BY <1>0, <1>3, <1>6, <2>1, FrameFacts
  <2>3. told = call.tokens
    <3>1. PICK in, out : in = job[a].input_ids /\ out = job[a].output_tokens
      OBVIOUS
    <3>2. in \in Seq(Token) /\ out = << >> /\ in = call.tokens /\ told = in \o out
      BY <1>4, <1>5, <2>1, <3>1 DEF RequestJob, Told
    <3>3. QED
      BY <3>2
  <2>4. Live(job[a]) /\ Fed(job[a], call) = n * PageSize /\ Fed(job[a], call') = k * PageSize
    BY <1>5, <1>7, <2>2 DEF Live, Fed
  <2>5. RowsFit(T, n * PageSize, told, kv)
    <3>1. JobRows(job[a], block[c], call, kv, Private)
      BY <1>4 DEF KvInv, RowsInv
    <3>2. RowsFit(block[c].page_table, Fed(job[a], call), Told(job[a]), kv)
      BY <2>4, <3>1, Zenon DEF JobRows
    <3>3. QED
      BY <2>1, <2>4, <3>2, Zenon
  <2>6. \A o \in Offsets : kv[p][o] = SubSeq(told, 1, At(n + 1, o))
    <3>1. k \in Nat \ {0} /\ k * PageSize <= Len(call.tokens)
      BY <1>0, <1>2, <2>2 DEF Matching
    <3>2. page[p].chain_hash = ChainHash(call.tokens, k)
      BY <1>0, <1>1
    <3>3. \A o \in Offsets : kv[p][o] = SubSeq(call.tokens, 1, At(k, o))
      BY <1>2, <3>1, <3>2, MatchedRows DEF KvInv
    <3>4. QED
      BY <2>2, <2>3, <3>3, Zenon
  <2>7. /\ RowsFit(Append(T, p), (n + 1) * PageSize, told, kv)
        /\ AheadFit(c, Append(T, p), (n + 1) * PageSize, Private')
    <3>1. PICK own, rows : own = Private' /\ rows = kv
      OBVIOUS
    <3>2. RowsFit(T, n * PageSize, told, rows) /\ n = Len(T)
      BY <2>1, <2>5, <3>1, Zenon
    <3>3. \A o \in Offsets : rows[p][o] = SubSeq(told, 1, At(n + 1, o))
      BY <2>6, <3>1, Zenon
    <3>4. /\ RowsFit(Append(T, p), (n + 1) * PageSize, told, rows)
          /\ AheadFit(c, Append(T, p), (n + 1) * PageSize, own)
      BY <2>2, <3>2, <3>3, RowsGrown, Zenon
    <3>5. QED
      BY <3>1, <3>4, Zenon
  <2>8. PrefixFits(job[a], block'[c])
    BY <1>5 DEF PrefixFits
  <2>9. JobRows(job[a], block'[c], call', kv, Private')
    BY <1>4, <1>7, <2>1, <2>2, <2>4, <2>7, <2>8, Zenon DEF JobRows
  <2>10. QED
    BY <1>1, <1>4, <2>9, Zenon
<1>11. RowsInv'
  BY <1>9, <1>10, Zenon DEF RowsInv, BlockOf
<1>12. Cached(page', kv')
  <2>1. \A q \in Pages : page'[q].sealed => page[q].sealed /\ page'[q].chain_hash = page[q].chain_hash
    BY <1>2
  <2>2. QED
    BY <1>1, <2>1 DEF KvInv, Cached
<1>13. WipesInv'
  <2>1. \A b \in Blocks : \A w \in ToSet(pending[b]) : Holders(w.dst)' \subseteq Holders(w.dst)
    <3>1. SUFFICES ASSUME NEW b \in Blocks, NEW w \in ToSet(pending[b])
                   PROVE  Holders(w.dst)' = Holders(w.dst)
      BY Zenon
    <3>2. PICK d : d = w.dst
      OBVIOUS
    <3>3. d \in Pages /\ OwnsAlone(b, d)
      BY <3>2, WorkPages DEF WritesOwn, PendingOwn
    <3>4. d # p
      BY <1>2, <3>3 DEF OwnsAlone
    <3>5. QED
      BY <1>3, <3>2, <3>3, <3>4 DEF Gains
  <2>2. call.work = << >>
    BY <1>2 DEF Deferral
  <2>3. ToSet(call.work) = {}
    BY <2>2 DEF ToSet
  <2>4. \A b \in Blocks : \A w \in ToSet(pending'[b]) : WipesAhead(b, w)'
    BY <1>0, <1>1, <1>2, <1>7, <2>1, <2>3, WipesStay DEF KvInv
  <2>5. QED
    BY <1>7, <2>3, <2>4 DEF WipesInv
<1>14. QED
  BY <1>11, <1>12, <1>13 DEF KvInv

\* What block c holds, or nobody, no other block holds alone.
LEMMA NotTheirs ==
  ASSUME NEW S, NEW c, NEW k, S = {} \/ <<c, k>> \in S, NEW b, b # c, NEW i
  PROVE  S # {<<b, i>>}
<1>1. SUFFICES ASSUME S = {<<b, i>>} PROVE FALSE
  OBVIOUS
<1>2. <<c, k>> = <<b, i>>
  BY <1>1
<1>3. QED
  BY <1>2

\* Releasing a page leaves the rows of the live jobs alone.
LEMMA ReleasePageKv ==
  ASSUME TypeInv, Bounded, Within, Deferral, JobInv, KvInv, ReleasePage, UNCHANGED serving
  PROVE  KvInv'
<1>0. PICK c, a, k, p : /\ c = call.block /\ a = OwnerOf(call.block) /\ k = call.at + 1
                        /\ p = block[c].page_table[k]
  OBVIOUS
<1>1. /\ kv' = kv /\ job' = job /\ call.op = "release" /\ block' = block /\ pending' = pending
      /\ page' = [page EXCEPT ![p].ref_count = Unref(@)]
      /\ call' = [call EXCEPT !.at = @ + 1]
  BY <1>0 DEF ReleasePage, serving
<1>2. c \in Blocks /\ k \in Slots /\ p \in Pages /\ Loses(c, k, p)
  BY <1>0, ReleaseLoses
<1>3. /\ a \in Requests /\ Calling(job[a]) /\ job[a].block_id = c
      /\ JobFits(job[a], block[c], call, stage, skewed)
  BY <1>0, <1>1, OwnerFits
<1>4. job[a].phase = "releasing"
  BY <1>1, <1>3 DEF JobFits, CallFits, Calling
<1>5. \A q \in Pages : page'[q].sealed = page[q].sealed /\ page'[q].chain_hash = page[q].chain_hash
  <2>1. page \in [Pages -> Page]
    BY DEF TypeInv, TypeOK
  <2>2. QED
    BY <1>1, <1>2, <2>1 DEF Page
<1>6. call'.block = c /\ call'.work = call.work
  BY <1>0, <1>1 DEF TypeInv, TypeOK, Frame
<1>7. \A r \in Requests \ {a} : JobRows(job'[r], block'[job'[r].block_id], call', kv', Private')
  <2>1. PICK Q : Q = {p}
    OBVIOUS
  <2>2. \A q \in Pages \ Q : Private'[q] = Private[q]
    BY <1>2, <1>5, <2>1, PrivateOf DEF Loses
  <2>3. \A q \in Q : \A b \in Blocks, i \in Slots : b # c => Private[q] # {<<b, i>>}
    <3>1. Private[p] = {} \/ <<c, k>> \in Private[p]
      BY <1>2, PrivateOf DEF Loses
    <3>2. \A b \in Blocks, i \in Slots : b # c => Private[p] # {<<b, i>>}
      BY <3>1, NotTheirs
    <3>3. QED
      BY <2>1, <3>2
  <2>4. /\ RowsInv /\ kv' = kv /\ job' = job /\ c = call.block
        /\ a \in Requests /\ Calling(job[a]) /\ call'.block = c
        /\ \A x \in Blocks : x # c => block'[x] = block[x]
    BY <1>0, <1>1, <1>3, <1>6 DEF KvInv
  <2>5. QED
    BY <2>2, <2>3, <2>4, OthersRows
<1>8. ~Live(job'[a])
  BY <1>1, <1>4 DEF Live
<1>9. RowsInv'
  BY <1>7, <1>8, Zenon DEF RowsInv, BlockOf, JobRows
<1>10. Cached(page', kv')
  BY <1>1, <1>5 DEF KvInv, Cached
<1>11. WipesInv'
  <2>1. \A q \in Pages : Holders(q)' \subseteq Holders(q)
    BY <1>2 DEF Loses
  <2>2. /\ \A w \in ToSet(call.work) : Holders(w.dst)' \subseteq Holders(w.dst)
        /\ \A b \in Blocks : \A w \in ToSet(pending[b]) : Holders(w.dst)' \subseteq Holders(w.dst)
    BY <2>1, WorkPages
  <2>3. /\ \A w \in ToSet(call.work) : WipesAhead(call.block, w)'
        /\ \A b \in Blocks : \A w \in ToSet(pending'[b]) : WipesAhead(b, w)'
    BY <1>0, <1>1, <1>6, <2>2, WipesStay DEF KvInv
  <2>4. QED
    BY <1>6, <2>3 DEF WipesInv
<1>12. QED
  BY <1>9, <1>10, <1>11 DEF KvInv

\* What sealing a page does to it.
LEMMA SealEffect ==
  ASSUME TypeInv, CommitPage, NEW c, c = call.block, NEW k, k = call.at + 1,
         NEW p \in Pages, p = block[c].page_table[k]
  PROVE  /\ \A q \in Pages \ {p} : page'[q] = page[q]
         /\ page[p].sealed => page' = page
         /\ ~page[p].sealed => /\ page'[p].sealed
                               /\ page'[p].chain_hash = ChainHash(block[c].prefix, k)
         /\ call.op = "commit" /\ block' = block /\ pending' = pending
         /\ call'.block = c /\ call'.work = call.work
         /\ k \in Nat \ {0}
         /\ k * PageSize <= Len(block[c].prefix) /\ k * PageSize <= block[c].pos
<1>1. /\ call.op = "commit" /\ block' = block /\ pending' = pending
      /\ call' = [call EXCEPT !.at = @ + 1]
      /\ k * PageSize <= Len(block[c].prefix) /\ k * PageSize <= block[c].pos
  BY DEF CommitPage, CoversNextPage
<1>2. IF page[p].sealed THEN page' = page
      ELSE page' = [page EXCEPT ![p].chain_hash = ChainHash(block[c].prefix, k),
                                ![p].sealed = TRUE]
  BY DEF CommitPage
<1>3. page \in [Pages -> Page] /\ call \in Frame /\ call.at \in Nat
  BY FrameFacts DEF TypeInv, TypeOK
<1>4. \A q \in Pages \ {p} : page'[q] = page[q]
  BY <1>2, <1>3 DEF Page
<1>5. ~page[p].sealed => /\ page'[p].sealed
                         /\ page'[p].chain_hash = ChainHash(block[c].prefix, k)
  <2>1. PICK h : h = ChainHash(block[c].prefix, k)
    OBVIOUS
  <2>2. ASSUME ~page[p].sealed PROVE page'[p].sealed /\ page'[p].chain_hash = h
    <3>1. page' = [page EXCEPT ![p].chain_hash = h, ![p].sealed = TRUE]
      BY <1>2, <2>1, <2>2
    <3>2. page'[p] = [page[p] EXCEPT !.chain_hash = h, !.sealed = TRUE] /\ page[p] \in Page
      BY <1>3, <3>1, Zenon
    <3>3. QED
      BY <3>2 DEF Page
  <2>3. QED
    BY <2>1, <2>2
<1>6. call'.block = c /\ call'.work = call.work /\ k \in Nat \ {0}
  BY <1>1, <1>3 DEF Frame
<1>7. QED
  BY <1>1, <1>2, <1>4, <1>5, <1>6

\* The rows of a committing job reach the end of each page it seals.
LEMMA SealedRows ==
  ASSUME NEW k \in Nat \ {0}, NEW T, k \in 1 .. Len(T), NEW fed \in Nat, k * PageSize <= fed,
         NEW told \in Seq(Token), NEW rows, RowsFit(T, fed, told, rows),
         NEW prefix, Len(prefix) \in Nat, Len(prefix) <= Len(told),
         prefix = SubSeq(told, 1, Len(prefix)), k * PageSize <= Len(prefix)
  PROVE  /\ Len(ChainHash(prefix, k)) = k * PageSize
         /\ \A o \in Offsets : rows[T[k]][o] = SubSeq(ChainHash(prefix, k), 1, At(k, o))
<1>1. PICK x, m : x = k * PageSize /\ m = Len(prefix)
  OBVIOUS
<1>2. x \in Nat /\ m \in Nat /\ x <= m /\ m <= Len(told)
  BY <1>1, ProductNat
<1>3. prefix = SubSeq(told, 1, m)
  BY <1>1
<1>4. SubSeq(prefix, 1, x) = SubSeq(told, 1, x)
  BY <1>2, <1>3, HeadOfHead
<1>5. ChainHash(prefix, k) = SubSeq(told, 1, x)
  BY <1>1, <1>4 DEF ChainHash
<1>6. Len(SubSeq(told, 1, x)) = x
  BY <1>2
<1>7. ASSUME NEW o \in Offsets
      PROVE  rows[T[k]][o] = SubSeq(SubSeq(told, 1, x), 1, At(k, o))
  <2>1. At(k, o) \in Nat /\ At(k, o) <= x
    BY <1>1, PlaceBounds
  <2>2. At(k, o) <= fed
    BY <1>1, <1>2, <2>1
  <2>3. rows[T[k]][o] = SubSeq(told, 1, At(k, o))
    BY <2>2, Zenon DEF RowsFit
  <2>4. SubSeq(SubSeq(told, 1, x), 1, At(k, o)) = SubSeq(told, 1, At(k, o))
    BY <1>2, <2>1, HeadOfHead
  <2>5. QED
    BY <2>3, <2>4, Zenon
<1>8. QED
  BY <1>1, <1>5, <1>6, <1>7, Zenon

\* Sealing a page caches the rows of the tokens it is indexed under.
LEMMA CommitPageKv ==
  ASSUME TypeInv, Bounded, Within, Deferral, JobInv, KvInv, CommitPage, UNCHANGED serving
  PROVE  KvInv'
<1>0. PICK c, a, k, p : /\ c = call.block /\ a = OwnerOf(call.block) /\ k = call.at + 1
                        /\ p = block[c].page_table[k]
  OBVIOUS
<1>1. kv' = kv /\ job' = job
  BY DEF serving
<1>2. /\ c \in Blocks /\ k \in Slots /\ p \in Pages /\ <<c, k>> \in Holders(p)
      /\ \A q \in Pages : Holders(q)' = Holders(q)
  BY <1>0, CommitEffect
<1>3. /\ \A q \in Pages \ {p} : page'[q] = page[q]
      /\ page[p].sealed => page' = page
      /\ ~page[p].sealed => /\ page'[p].sealed
                            /\ page'[p].chain_hash = ChainHash(block[c].prefix, k)
      /\ call.op = "commit" /\ block' = block /\ pending' = pending
      /\ call'.block = c /\ call'.work = call.work
      /\ k \in Nat \ {0}
      /\ k * PageSize <= Len(block[c].prefix) /\ k * PageSize <= block[c].pos
  <2>1. /\ c = call.block /\ k = call.at + 1 /\ p \in Pages
        /\ p = block[c].page_table[k]
    BY <1>0, <1>2
  <2>2. QED
    BY ONLY <2>1, TypeInv, CommitPage, SealEffect
<1>4. /\ a \in Requests /\ Calling(job[a]) /\ job[a].block_id = c
      /\ job[a] \in RequestJob /\ BlockOf(a) = block[c]
      /\ JobFits(job[a], block[c], call, stage, skewed) /\ Held(job[a])
  BY <1>0, <1>3, OwnerFits
<1>5. job[a].phase = "committing" /\ job[a].kv_pos = block[c].pos
  BY <1>3, <1>4 DEF JobFits, CallFits, PlaceFits, Calling
<1>6. PICK T, fed, told : T = block[c].page_table /\ fed = block[c].pos /\ told = Told(job[a])
  OBVIOUS
<1>7. /\ T \in Seq(Pages) /\ fed \in Nat /\ told \in Seq(Token)
      /\ block[c].prefix \in Seq(Token) /\ k \in 1 .. Len(T)
  <2>1. k <= Len(T) /\ k \in Nat \ {0}
    BY <1>0, <1>2, <1>3, <1>6 DEF Holders
  <2>2. told \in Seq(Token)
    BY <1>4, <1>6 DEF Told, RequestJob
  <2>3. QED
    BY <1>2, <1>6, <2>1, <2>2, FrameFacts
<1>8. Live(job[a]) /\ Fed(job[a], call) = fed /\ Fed(job[a], call') = fed
  BY <1>5, <1>6 DEF Live, Fed
<1>9. /\ RowsFit(T, fed, told, kv) /\ AheadFit(c, T, fed, Private)
      /\ PrefixFits(job[a], block[c])
  <2>1. JobRows(job[a], block[c], call, kv, Private)
    BY <1>4 DEF KvInv, RowsInv
  <2>2. QED
    BY <1>4, <1>6, <1>8, <2>1, Zenon DEF JobRows
<1>10. \A r \in Requests \ {a} : JobRows(job'[r], block'[job'[r].block_id], call', kv', Private')
  <2>1. PICK Q : Q = {p}
    OBVIOUS
  <2>2. \A q \in Pages \ Q : Private'[q] = Private[q]
    BY <1>2, <1>3, <2>1, PrivateOf
  <2>3. \A q \in Q : \A b \in Blocks, i \in Slots : b # c => Private[q] # {<<b, i>>}
    <3>1. Private[p] = {} \/ <<c, k>> \in Private[p]
      BY <1>2, PrivateOf
    <3>2. \A b \in Blocks, i \in Slots : b # c => Private[p] # {<<b, i>>}
      BY <3>1, NotTheirs
    <3>3. QED
      BY <2>1, <3>2
  <2>4. /\ RowsInv /\ kv' = kv /\ job' = job /\ c = call.block
        /\ a \in Requests /\ Calling(job[a]) /\ call'.block = c
        /\ \A x \in Blocks : x # c => block'[x] = block[x]
    BY <1>0, <1>1, <1>3, <1>4 DEF KvInv
  <2>5. QED
    BY <2>2, <2>3, <2>4, OthersRows
<1>11. JobRows(job'[a], block'[job'[a].block_id], call', kv', Private')
  <2>1. PICK own, own2 : own = Private /\ own2 = Private'
    OBVIOUS
  <2>2. ASSUME NEW i \in 1 .. Len(T), i * PageSize > fed PROVE own2[T[i]] = {<<c, i>>}
    <3>1. own[T[i]] = {<<c, i>>} /\ T[i] \in Pages
      BY <1>7, <1>9, <2>1, <2>2 DEF AheadFit
    <3>2. T[i] # p
      <4>1. SUFFICES ASSUME T[i] = p PROVE FALSE
        OBVIOUS
      <4>2. <<c, k>> \in {<<c, i>>}
        BY <1>2, <2>1, <3>1, <4>1, PrivateOf
      <4>3. k = i
        BY <4>2
      <4>4. k * PageSize <= fed /\ k * PageSize > fed /\ k * PageSize \in Nat
        BY <1>3, <1>6, <2>2, <4>3, ProductNat
      <4>5. QED
        BY <1>7, <4>4
    <3>3. own2[T[i]] = own[T[i]]
      BY <1>2, <1>3, <2>1, <3>1, <3>2, PrivateOf
    <3>4. QED
      BY <3>1, <3>3
  <2>3. AheadFit(c, T, fed, own2)
    BY <2>2 DEF AheadFit
  <2>4. JobRows(job[a], block[c], call', kv, own2)
    BY <1>4, <1>6, <1>8, <1>9, <2>3, Zenon DEF JobRows
  <2>5. QED
    BY <1>1, <1>3, <1>4, <2>1, <2>4, Zenon
<1>12. RowsInv'
  BY <1>10, <1>11, Zenon DEF RowsInv, BlockOf
<1>13. Cached(page', kv')
  <2>1. CASE page[p].sealed
    BY <1>1, <1>3, <2>1 DEF KvInv
  <2>2. CASE ~page[p].sealed
    <3>1. PICK prefix : prefix = block[c].prefix
      OBVIOUS
    <3>2. /\ prefix \in Seq(Token) /\ Len(prefix) <= Len(told)
          /\ prefix = SubSeq(told, 1, Len(prefix))
          /\ k * PageSize <= Len(prefix) /\ k * PageSize <= fed
      BY <1>3, <1>5, <1>6, <1>7, <1>9, <3>1 DEF PrefixFits
    <3>3. Len(prefix) \in Nat
      BY <3>2
    <3>4. /\ Len(ChainHash(prefix, k)) = k * PageSize
          /\ \A o \in Offsets : kv[T[k]][o] = SubSeq(ChainHash(prefix, k), 1, At(k, o))
      <4>1. /\ k \in Nat \ {0} /\ k \in 1 .. Len(T) /\ fed \in Nat /\ told \in Seq(Token)
            /\ RowsFit(T, fed, told, kv)
        BY <1>3, <1>7, <1>9
      <4>2. QED
        BY ONLY <3>2, <3>3, <4>1, SealedRows
    <3>5. /\ Len(page'[p].chain_hash) = k * PageSize
          /\ \A o \in Offsets : kv'[p][o] = SubSeq(page'[p].chain_hash, 1, At(k, o))
      BY <1>0, <1>1, <1>3, <1>6, <2>2, <3>1, <3>4
    <3>6. \A q \in Pages \ {p} : page'[q] = page[q]
      BY <1>3
    <3>7. QED
      BY <1>1, <1>3, <3>5, <3>6 DEF KvInv, Cached
  <2>3. QED
    BY <2>1, <2>2
<1>14. WipesInv'
  <2>1. /\ \A w \in ToSet(call.work) : Holders(w.dst)' \subseteq Holders(w.dst)
        /\ \A b \in Blocks : \A w \in ToSet(pending[b]) : Holders(w.dst)' \subseteq Holders(w.dst)
    BY <1>2, WorkPages
  <2>2. /\ \A w \in ToSet(call.work) : WipesAhead(call.block, w)'
        /\ \A b \in Blocks : \A w \in ToSet(pending'[b]) : WipesAhead(b, w)'
    BY <1>0, <1>1, <1>3, <2>1, WipesStay DEF KvInv
  <2>3. QED
    BY <1>3, <2>2 DEF WipesInv
<1>15. QED
  BY <1>12, <1>13, <1>14 DEF KvInv

\* What a new page of Append is: p, after the n pages of table T of block c.
NewPage(c, T, n, p) ==
  /\ c \in Blocks /\ n \in Nat /\ n + 1 \in Slots /\ T \in Seq(Pages)
  /\ block' = [block EXCEPT ![c].page_table = Append(@, p)]
  /\ Holders(p) = {} /\ Holders(p)' = {<<c, n + 1>>}
  /\ \A q \in Pages \ {p} : Holders(q)' = Holders(q) /\ page'[q] = page[q]
  /\ ~page'[p].sealed /\ call.op = "append" /\ call'.op = "append" /\ call'.block = c
  /\ \/ call'.work = call.work
     \/ call'.work = Append(call.work, Wipe(p))
  /\ block[c].pos <= n * PageSize /\ UNCHANGED pending

\* The two ways Append takes a page both do that.
LEMMA NewPageEffect ==
  ASSUME TypeInv, Books, Within, Accounts, AppendNewPage, NEW c, c = call.block,
         NEW T, T = block[c].page_table, NEW n, n = Len(T)
  PROVE  \E p \in Pages : NewPage(c, T, n, p)
<1>1. PICK t : t = block[c].tenant_id
  OBVIOUS
<1>2. /\ Appending /\ call.op = "append" /\ UNCHANGED pending
      /\ \E p \in Pages :
           /\ AllocOnePage(t, p, << >>)
           /\ page' = Claimed(p, t)
           /\ block' = [block EXCEPT ![c].page_table = Append(@, p)]
           /\ call' = [call EXCEPT !.at = NextPage,
                                   !.work = IF NeedWipe(t) THEN Append(@, Wipe(p)) ELSE @]
  BY <1>1 DEF AppendNewPage, Appending
<1>3. PICK p \in Pages :
        /\ AllocOnePage(t, p, << >>)
        /\ page' = Claimed(p, t)
        /\ block' = [block EXCEPT ![c].page_table = Append(@, p)]
        /\ call' = [call EXCEPT !.at = NextPage,
                                !.work = IF NeedWipe(t) THEN Append(@, Wipe(p)) ELSE @]
  BY <1>2
<1>4. /\ c \in Blocks /\ T \in Seq(Pages) /\ n \in Nat /\ t \in Tenants
      /\ call.work \in Seq(Work) /\ call \in Frame
  BY <1>1, <1>2, FrameFacts DEF TypeInv, TypeOK
<1>5. page[p].ref_count = 0
  BY <1>3, <1>4, AllocExact DEF Accounts, Books
<1>6. Holders(p) = {}
  BY <1>5, HeldReferenced DEF Accounts
<1>7. PICK work : /\ work = call.work \/ work = Append(call.work, Wipe(p))
                  /\ call' = [call EXCEPT !.at = NextPage, !.work = work]
  BY <1>3
<1>8. call'.op = "append" /\ call'.block = c /\ call'.work = work
  BY <1>2, <1>4, <1>7 DEF Frame
<1>9. Gains(c, n + 1, p) /\ n + 1 \in Slots
  BY <1>3, <1>8, AppendGains DEF Books
<1>10. ~page'[p].sealed /\ \A q \in Pages \ {p} : page'[q] = page[q]
  <2>1. page \in [Pages -> Page]
    BY DEF TypeInv, TypeOK
  <2>2. PICK o : page' = [page EXCEPT ![p] = [ref_count |-> 1, sealed |-> FALSE,
                                             chain_hash |-> NoHash, tenant_id |-> o]]
    BY <1>3 DEF Claimed
  <2>3. QED
    BY <2>1, <2>2
<1>11. block[c].pos <= n * PageSize
  BY <1>4 DEF Within
<1>12. Holders(p)' = {<<c, n + 1>>} /\ \A q \in Pages \ {p} : Holders(q)' = Holders(q)
  BY <1>6, <1>9 DEF Gains
<1>13. QED
  BY <1>2, <1>3, <1>4, <1>6, <1>7, <1>8, <1>9, <1>10, <1>11, <1>12 DEF NewPage

\* The room a new page gives lies past the tokens fed.
LEMMA AppendNewKv ==
  ASSUME TypeInv, Books, Within, Deferral, Accounts, WritesOwn, JobInv, KvInv,
         AppendNewPage, UNCHANGED serving
  PROVE  KvInv'
<1>0. PICK c, a, T, n : /\ c = call.block /\ a = OwnerOf(call.block)
                        /\ T = block[c].page_table /\ n = Len(T)
  OBVIOUS
<1>1. kv' = kv /\ job' = job /\ Bounded
  BY DEF serving, Books
<1>2. PICK p \in Pages : NewPage(c, T, n, p)
  <2>1. /\ TypeInv /\ Books /\ Within /\ Accounts /\ AppendNewPage
        /\ c = call.block /\ T = block[c].page_table /\ n = Len(T)
    BY <1>0
  <2>2. QED
    BY <2>1, NewPageEffect
<1>3. /\ a \in Requests /\ Calling(job[a]) /\ job[a].block_id = c
      /\ job[a] \in RequestJob /\ BlockOf(a) = block[c]
      /\ JobFits(job[a], block[c], call, stage, skewed) /\ Held(job[a])
  BY <1>0, <1>2, OwnerFits DEF NewPage
<1>4. job[a].phase = "appending" /\ job[a].kv_pos <= block[c].pos
  BY <1>2, <1>3 DEF JobFits, CallFits, PlaceFits, Calling, NewPage
<1>5. PICK fed, told : fed = job[a].kv_pos /\ told = Told(job[a])
  OBVIOUS
<1>6. fed \in Nat /\ fed <= n * PageSize
  <2>1. fed \in Nat /\ block[c].pos \in Nat /\ n * PageSize \in Nat /\ fed <= block[c].pos
    BY <1>2, <1>3, <1>4, <1>5, ProductNat, FrameFacts DEF RequestJob, NewPage
  <2>2. QED
    BY <1>2, <2>1 DEF NewPage
<1>7. /\ block'[c].page_table = Append(T, p)
      /\ \A x \in Blocks : x # c => block'[x] = block[x]
  BY <1>0, <1>2 DEF TypeInv, TypeOK, RequestBlock, NewPage
<1>8. /\ Private[p] = {} /\ Private'[p] = {<<c, n + 1>>}
      /\ \A q \in Pages \ {p} : Private'[q] = Private[q]
  <2>1. Private[p] = {}
    BY <1>2, PrivateOf DEF NewPage
  <2>2. Private'[p] = {<<c, n + 1>>}
    BY <1>2, PrivateOf DEF NewPage
  <2>3. ASSUME NEW q \in Pages \ {p} PROVE Private'[q] = Private[q]
    <3>1. Holders(q)' = Holders(q) /\ page'[q] = page[q]
      BY <1>2 DEF NewPage
    <3>2. QED
      BY <3>1, PrivateOf
  <2>4. QED
    BY <2>1, <2>2, <2>3
<1>9. \A r \in Requests \ {a} : JobRows(job'[r], block'[job'[r].block_id], call', kv', Private')
  <2>1. PICK Q : Q = {p}
    OBVIOUS
  <2>2. \A q \in Pages \ Q : Private'[q] = Private[q]
    BY <1>8, <2>1
  <2>3. \A q \in Q : \A b \in Blocks, i \in Slots : b # c => Private[q] # {<<b, i>>}
    BY <1>8, <2>1
  <2>4. /\ RowsInv /\ kv' = kv /\ job' = job /\ c = call.block
        /\ a \in Requests /\ Calling(job[a]) /\ call'.block = c
        /\ \A x \in Blocks : x # c => block'[x] = block[x]
    BY <1>0, <1>1, <1>2, <1>3, <1>7 DEF KvInv, NewPage
  <2>5. QED
    BY <1>1, <2>2, <2>3, <2>4, OthersRows
<1>10. JobRows(job'[a], block'[job'[a].block_id], call', kv', Private')
  <2>1. PICK own, own2, rows : own = Private /\ own2 = Private' /\ rows = kv
    OBVIOUS
  <2>2. Live(job[a]) /\ Fed(job[a], call) = fed /\ Fed(job[a], call') = fed
    BY <1>4, <1>5 DEF Live, Fed
  <2>3. RowsFit(T, fed, told, rows) /\ AheadFit(c, T, fed, own)
    <3>1. JobRows(job[a], block[c], call, kv, Private)
      BY <1>3 DEF KvInv, RowsInv
    <3>2. QED
      BY <1>0, <1>3, <1>5, <2>1, <2>2, <3>1, Zenon DEF JobRows
  <2>4. ASSUME NEW i \in 1 .. n, own[T[i]] = {<<c, i>>} PROVE own2[T[i]] = own[T[i]]
    <3>1. T[i] \in Pages
      BY <1>0, <1>2 DEF NewPage
    <3>2. own[p] = {} /\ \A q \in Pages \ {p} : own2[q] = own[q]
      BY <1>8, <2>1
    <3>3. T[i] # p
      BY <2>4, <3>2
    <3>4. QED
      BY <3>1, <3>2, <3>3
  <2>5. own2[p] = {<<c, n + 1>>}
    BY <1>8, <2>1
  <2>6. /\ RowsFit(Append(T, p), fed, told, rows)
        /\ AheadFit(c, Append(T, p), fed, own2)
    BY <1>0, <1>2, <1>6, <2>3, <2>4, <2>5, RoomGrown, Zenon DEF NewPage
  <2>7. PrefixFits(job[a], block'[c])
    BY <1>4 DEF PrefixFits
  <2>8. JobRows(job[a], block'[c], call', rows, own2)
    BY <1>3, <1>5, <1>7, <2>2, <2>6, <2>7, Zenon DEF JobRows
  <2>9. QED
    BY <1>1, <1>3, <2>1, <2>8, Zenon
<1>11. RowsInv'
  BY <1>9, <1>10, Zenon DEF RowsInv, BlockOf
<1>12. Cached(page', kv')
  <2>1. \A q \in Pages : page'[q].sealed => page'[q] = page[q]
    BY <1>2 DEF NewPage
  <2>2. QED
    BY <1>1, <2>1 DEF KvInv, Cached
<1>13. WipesInv'
  <2>1. \A w \in ToSet(call.work) : w.dst \in Pages /\ Holders(w.dst)' \subseteq Holders(w.dst)
    <3>1. SUFFICES ASSUME NEW w \in ToSet(call.work), NEW d, d = w.dst
                   PROVE  d \in Pages /\ Holders(d)' = Holders(d)
      BY Zenon
    <3>2. d \in Pages /\ OwnsAlone(c, d)
      BY <1>0, <3>1, WorkPages DEF WritesOwn, WorkOwn
    <3>3. d # p
      BY <1>2, <3>2 DEF OwnsAlone, NewPage
    <3>4. QED
      BY <1>2, <3>2, <3>3 DEF NewPage
  <2>2. \A b \in Blocks : \A w \in ToSet(pending[b]) : Holders(w.dst)' \subseteq Holders(w.dst)
    <3>1. SUFFICES ASSUME NEW b \in Blocks, NEW w \in ToSet(pending[b]), NEW d, d = w.dst
                   PROVE  Holders(d)' = Holders(d)
      BY Zenon
    <3>2. d \in Pages /\ OwnsAlone(b, d)
      BY <3>1, WorkPages DEF WritesOwn, PendingOwn
    <3>3. d # p
      BY <1>2, <3>2 DEF OwnsAlone, NewPage
    <3>4. QED
      BY <1>2, <3>2, <3>3 DEF NewPage
  <2>3. /\ \A w \in ToSet(call.work) : WipesAhead(call.block, w)'
        /\ \A b \in Blocks : \A w \in ToSet(pending'[b]) : WipesAhead(b, w)'
    BY <1>0, <1>1, <1>2, <2>1, <2>2, WipesStay DEF KvInv, NewPage
  <2>4. WipesAhead(c, Wipe(p))'
    <3>1. PICK w : w = Wipe(p)
      OBVIOUS
    <3>2. w.kind = "wipe" /\ w.dst = p
      BY <3>1 DEF Wipe
    <3>3. ASSUME NEW r \in Requests, NEW i \in Slots, job[r].block_id = c, <<c, i>> \in {<<c, n + 1>>}
          PROVE  job[r].kv_pos <= (i - 1) * PageSize
      <4>1. r = a /\ i = n + 1
        BY <1>3, <3>3 DEF JobInv, Apart
      <4>2. i - 1 = n
        BY <1>2, <4>1 DEF NewPage
      <4>3. QED
        BY <1>5, <1>6, <4>1, <4>2
    <3>4. WipesAhead(c, w)'
      BY <1>1, <1>2, <3>2, <3>3 DEF WipesAhead, NewPage
    <3>5. QED
      BY <3>1, <3>4
  <2>5. ASSUME NEW w \in ToSet(call'.work) PROVE w \in ToSet(call.work) \/ w = Wipe(p)
    <3>1. call.work \in Seq(Work) /\ Wipe(p) \in Work
      BY FrameFacts DEF Wipe, Work
    <3>2. ToSet(Append(call.work, Wipe(p))) = ToSet(call.work) \cup {Wipe(p)}
      BY <3>1, AppendMembers
    <3>3. QED
      BY <1>2, <2>5, <3>2 DEF NewPage
  <2>6. ASSUME NEW w \in ToSet(call'.work) PROVE WipesAhead(call.block, w)'
    BY <1>0, <1>2, <2>3, <2>4, <2>5, <2>6 DEF NewPage
  <2>7. QED
    BY <2>3, <2>6 DEF WipesInv
<1>14. QED
  BY <1>11, <1>12, <1>13 DEF KvInv

\* No job shares a page it is about to write.
LEMMA NoFork ==
  ASSUME TypeInv, Books, Within, Accounts, JobInv, RowsInv, AppendFork
  PROVE  FALSE
<1>0. PICK c, a, T, i, p : /\ c = call.block /\ a = OwnerOf(call.block)
                           /\ T = block[c].page_table /\ i = Logical /\ p = T[i]
  OBVIOUS
<1>1. Appending /\ ~NeedsPage /\ page[p].ref_count > 1 /\ call.op = "append"
  BY <1>0 DEF AppendFork, Appending, NeedsFork, Table
<1>2. i \in 1 .. Len(T) /\ p \in Pages /\ T \in Seq(Pages) /\ i \in Nat
  BY <1>0, <1>1, AppendFacts DEF Table
<1>3. /\ a \in Requests /\ Calling(job[a]) /\ job[a].block_id = c /\ c \in Blocks
      /\ job[a] \in RequestJob /\ BlockOf(a) = block[c]
      /\ JobFits(job[a], block[c], call, stage, skewed) /\ Held(job[a])
  BY <1>0, <1>1, OwnerFits
<1>4. job[a].phase = "appending" /\ job[a].kv_pos <= block[c].pos
  BY <1>1, <1>3 DEF JobFits, CallFits, PlaceFits, Calling
<1>5. PICK fed : fed = job[a].kv_pos
  OBVIOUS
<1>6. i * PageSize > fed
  <2>1. call.at < NextPage /\ NextPage <= i * PageSize /\ NextPage \in Nat
    BY <1>0, <1>1, NextPageBounds
  <2>2. block[c].pos <= call.at
    BY <1>0, <1>1 DEF Within
  <2>3. /\ fed \in Nat /\ block[c].pos \in Nat /\ call.at \in Nat /\ fed <= block[c].pos
        /\ i * PageSize \in Nat
    BY <1>2, <1>3, <1>4, <1>5, ProductNat, FrameFacts DEF RequestJob
  <2>4. QED
    BY <2>1, <2>2, <2>3
<1>7. Live(job[a]) /\ Fed(job[a], call) = fed
  BY <1>4, <1>5 DEF Live, Fed
<1>8. AheadFit(c, T, fed, Private)
  <2>1. JobRows(job[a], block[c], call, kv, Private)
    BY <1>3 DEF RowsInv
  <2>2. QED
    BY <1>0, <1>3, <1>7, <2>1, Zenon DEF JobRows
<1>9. Private[p] = {<<c, i>>}
  BY <1>0, <1>2, <1>6, <1>8, Zenon DEF AheadFit
<1>10. Holders(p) = {<<c, i>>}
  BY <1>2, <1>9, PrivateOf
<1>11. Cardinality(Holders(p)) = 1
  BY <1>10, FS_Singleton
<1>12. QED
  BY <1>1, <1>2, <1>11 DEF Accounts, RefsExact

\* What Append left for after the unlock touches no row of a token fed.
LEMMA DeferredKv ==
  ASSUME TypeInv, Bounded, Deferral, WritesOwn, JobInv, KvInv, NEW b \in Blocks, Deferred(b)
  PROVE  KvInv'
<1>1. PICK w, d : w = Head(pending[b]) /\ d = w.dst
  OBVIOUS
<1>2. /\ pending[b] # << >> /\ DeferredStep(b)
      /\ block' = block /\ call' = call /\ page' = page /\ job' = job
  BY DEF Deferred, DeferredStep
<1>3. PICK rows : kv' = [kv EXCEPT ![d] = rows]
  BY <1>1 DEF Deferred
<1>4. w \in ToSet(pending[b])
  <2>1. pending[b] \in Seq(Work)
    BY DEF TypeInv, TypeOK
  <2>2. 1 \in 1 .. Len(pending[b]) /\ w = pending[b][1]
    BY <1>1, <1>2, <2>1
  <2>3. QED
    BY <2>1, <2>2, Members
<1>5. d \in Pages /\ OwnsAlone(b, d) /\ WipesAhead(b, w)
  BY <1>1, <1>4, WorkPages DEF WritesOwn, PendingOwn, KvInv, WipesInv
<1>6. \A q \in Pages \ {d} : kv'[q] = kv[q]
  <2>1. kv \in [Pages -> [Offsets -> Row]]
    BY DEF JobInv, ServingTypeOK
  <2>2. QED
    BY <1>3, <2>1
<1>7. QuietStep
  BY <1>2 DEF QuietStep
<1>8. \A p : Holders(p)' = Holders(p)
  BY <1>7, QuietEffect, HoldersSame
<1>9. Private' = Private
  BY <1>2, <1>8 DEF Private
<1>10. RowsInv'
  <2>1. SUFFICES ASSUME NEW r \in Requests
                 PROVE  JobRows(job[r], BlockOf(r), call, kv', Private)
    BY <1>2, <1>9, Zenon DEF RowsInv, BlockOf
  <2>2. SUFFICES ASSUME Live(job[r]) PROVE JobRows(job[r], BlockOf(r), call, kv', Private)
    BY Zenon DEF JobRows
  <2>3. PICK j, c, T, fed : /\ j = job[r] /\ c = j.block_id
                            /\ T = block[c].page_table /\ fed = Fed(j, call)
    OBVIOUS
  <2>4. JobFits(j, block[c], call, stage, skewed) /\ j.kv_pos \in Nat /\ BlockOf(r) = block[c]
    BY <2>3, JobFacts DEF BlockOf
  <2>5. ASSUME NEW i \in 1 .. Len(T), NEW o \in Offsets, At(i, o) <= fed
        PROVE  kv'[T[i]][o] = kv[T[i]][o]
    <3>1. i \in Slots /\ T[i] \in Pages /\ <<c, i>> \in Holders(T[i])
      BY <2>2, <2>3, LiveEntry
    <3>2. T[i] # d
      <4>1. SUFFICES ASSUME T[i] = d PROVE FALSE
        OBVIOUS
      <4>2. c = b /\ <<b, i>> \in Holders(d)
        BY <1>5, <3>1, <4>1 DEF OwnsAlone
      <4>3. j.kv_pos <= (i - 1) * PageSize
        BY <1>1, <1>5, <2>3, <3>1, <4>2 DEF WipesAhead
      <4>4. j.phase # "acquiring"
        BY <1>2, <2>4, <2>3, <4>2 DEF Deferral, JobFits, CallFits, Calling
      <4>5. fed = j.kv_pos
        BY <2>3, <4>4 DEF Fed
      <4>6. i \in Nat \ {0}
        OBVIOUS
      <4>7. At(i, o) \in Nat /\ (i - 1) * PageSize \in Nat /\ (i - 1) * PageSize < At(i, o)
        BY <4>6, PlaceBounds
      <4>8. QED
        BY <2>4, <2>5, <4>3, <4>5, <4>7
    <3>3. QED
      BY <1>6, <3>1, <3>2
  <2>6. PICK B, k, own : B = BlockOf(r) /\ k = kv' /\ own = Private
    OBVIOUS
  <2>7. JobRows(j, B, call, kv, own) /\ Live(j) /\ PrefixFits(j, B)
    <3>1. JobRows(job[r], BlockOf(r), call, kv, Private)
      BY DEF KvInv, RowsInv
    <3>2. QED
      BY <2>2, <2>3, <2>6, <3>1, Zenon DEF JobRows
  <2>8. \A i \in 1 .. Len(B.page_table), o \in Offsets : At(i, o) <= Fed(j, call) =>
          k[B.page_table[i]][o] = kv[B.page_table[i]][o]
    <3>1. B.page_table = T /\ fed = Fed(j, call) /\ k = kv'
      BY <2>3, <2>4, <2>6
    <3>2. \A i \in 1 .. Len(T), o \in Offsets : At(i, o) <= fed => kv'[T[i]][o] = kv[T[i]][o]
      BY <2>5
    <3>3. QED
      BY <3>1, <3>2, Zenon
  <2>9. JobRows(j, B, call, k, own)
    <3>1. PICK j2, B2, c2, own2 : j2 = j /\ B2 = B /\ c2 = call /\ own2 = own
      OBVIOUS
    <3>2. /\ Live(j2) => Live(j)
          /\ j2.block_id = j.block_id /\ Told(j2) = Told(j) /\ Fed(j2, c2) = Fed(j, call)
          /\ B2.page_table = B.page_table /\ PrefixFits(j2, B2)
          /\ \A i \in 1 .. Len(B.page_table) :
               own2[B.page_table[i]] = own[B.page_table[i]]
      BY <2>7, <3>1, Zenon
    <3>3. JobRows(j2, B2, c2, k, own2)
      BY <2>7, <2>8, <3>2, RowsStay
    <3>4. QED
      BY <3>1, <3>3, Zenon
  <2>10. QED
    BY <2>3, <2>6, <2>9, Zenon
<1>11. Cached(page', kv')
  <2>1. \A q \in Pages : page[q].sealed => kv'[q] = kv[q]
    BY <1>5, <1>6 DEF OwnsAlone
  <2>2. QED
    BY <1>2, <2>1 DEF KvInv, Cached
<1>12. \A x \in Blocks : \A v \in ToSet(pending'[x]) : WipesAhead(x, v)'
  <2>1. ASSUME NEW x \in Blocks, NEW v \in ToSet(pending'[x]) PROVE WipesAhead(x, v)'
    <3>1. v \in ToSet(pending[x]) \/ (x = call.block /\ v \in ToSet(call.work))
      BY <1>7, QuietWork
    <3>2. WipesAhead(x, v)
      BY <3>1 DEF KvInv, WipesInv
    <3>3. QED
      BY <1>2, <1>8, <3>2, WipeStays
  <2>2. QED
    BY <2>1
<1>13. \A v \in ToSet(call.work) : WipesAhead(call.block, v)'
  <2>1. ASSUME NEW v \in ToSet(call.work), NEW x, x = call.block PROVE WipesAhead(x, v)'
    <3>1. WipesAhead(x, v)
      BY <2>1 DEF KvInv, WipesInv
    <3>2. QED
      BY <1>2, <1>8, <3>1, WipeStays
  <2>2. QED
    BY <1>2, <2>1
<1>14. WipesInv'
  BY <1>2, <1>12, <1>13 DEF WipesInv
<1>15. QED
  BY <1>10, <1>11, <1>14 DEF KvInv

-----------------------------------------------------------------------------
\* The forward.

\* The entry of a page table that position i is on.
EntryOf(i) == (i - 1) \div PageSize + 1

\* A position is on one entry, at one offset.
LEMMA PlaceBack ==
  ASSUME NEW j \in Nat \ {0}, NEW o \in Offsets, NEW i, i = At(j, o)
  PROVE  i \in Nat \ {0} /\ EntryOf(i) = j /\ OffsetAt(i) = o
<1>1. i \in Nat \ {0}
  BY PlaceBounds
<1>2. PICK q, m : q = EntryOf(i) /\ m = OffsetAt(i)
  OBVIOUS
<1>3. q \in Nat \ {0} /\ m \in Offsets /\ At(q, m) = i
  BY <1>1, <1>2, PlaceOf DEF EntryOf
<1>4. PICK q0, q1, j0, j1 : /\ q0 = (q - 1) * PageSize /\ q1 = q * PageSize
                            /\ j0 = (j - 1) * PageSize /\ j1 = j * PageSize
  OBVIOUS
<1>5. /\ q0 \in Nat /\ q1 \in Nat /\ q0 < i /\ i <= q1
      /\ j0 \in Nat /\ j1 \in Nat /\ j0 < i /\ i <= j1
  BY <1>3, <1>4, PlaceBounds
<1>6. (q <= j - 1 => q1 <= j0) /\ (j <= q - 1 => j1 <= q0)
  BY <1>3, <1>4, PagesWithin
<1>7. q = j
  BY <1>1, <1>3, <1>5, <1>6
<1>8. i = q0 + m + 1 /\ i = q0 + o + 1
  BY <1>3, <1>4, <1>7 DEF At
<1>9. m = o
  <2>1. m \in Int /\ o \in Int
    BY <1>3, PoolAssumption DEF Offsets
  <2>2. QED
    BY <1>5, <1>8, <2>1
<1>10. QED
  BY <1>1, <1>2, <1>7, <1>9

\* What attention sees of a block whose rows fit are the tokens it was told.
LEMMA ContextFits ==
  ASSUME TypeInv, NEW b \in Blocks, NEW T, T = block[b].page_table,
         NEW n \in Nat, n <= Len(T) * PageSize,
         NEW told \in Seq(Token), n <= Len(told), RowsFit(T, n, told, kv)
  PROVE  Context(b, n) = SubSeq(told, 1, n)
<1>1. PICK s : s = SubSeq(told, 1, n)
  OBVIOUS
<1>2. s \in Seq(Token) /\ Len(s) = n /\ \A i \in 1 .. n : s[i] = told[i]
  BY <1>1
<1>3. PICK x : x = Len(T) * PageSize
  OBVIOUS
<1>4. x \in Nat
  <2>1. Len(T) \in Nat
    BY FrameFacts
  <2>2. QED
    BY <1>3, <2>1, ProductNat
<1>5. ASSUME NEW i \in 1 .. n PROVE RowAt(b, i) = SubSeq(told, 1, i)
  <2>1. i \in Nat \ {0} /\ i >= 1 /\ i <= x
    BY <1>3, <1>4
  <2>2. EntryOf(i) \in 1 .. Len(T) /\ OffsetAt(i) \in Offsets
    BY <1>3, <2>1, RowPlace DEF EntryOf
  <2>3. At(EntryOf(i), OffsetAt(i)) = i
    BY <2>1, PlaceOf DEF EntryOf
  <2>4. At(EntryOf(i), OffsetAt(i)) <= n
    BY <2>3
  <2>5. kv[T[EntryOf(i)]][OffsetAt(i)] = SubSeq(told, 1, At(EntryOf(i), OffsetAt(i)))
    BY <2>2, <2>4, Zenon DEF RowsFit
  <2>6. RowAt(b, i) = kv[T[EntryOf(i)]][OffsetAt(i)]
    BY DEF RowAt, PageAt, EntryOf
  <2>7. QED
    BY <2>3, <2>5, <2>6, Zenon
<1>6. ASSUME NEW i \in 1 .. n
      PROVE  (IF RowAt(b, i) = ZeroRow THEN << >> ELSE <<Last(RowAt(b, i))>>) = <<s[i]>>
  <2>1. PICK t : t = RowAt(b, i)
    OBVIOUS
  <2>2. t \in Seq(Token) /\ Len(t) = i /\ t[i] = told[i]
    BY <1>5, <2>1
  <2>3. t # ZeroRow /\ Last(t) = told[i]
    BY <2>2 DEF ZeroRow, Last
  <2>4. QED
    BY <1>2, <2>1, <2>3
<1>7. PICK seqs : seqs = [i \in 1 .. n |-> IF RowAt(b, i) = ZeroRow THEN << >>
                                           ELSE <<Last(RowAt(b, i))>>]
  OBVIOUS
<1>8. seqs = [i \in 1 .. Len(s) |-> <<s[i]>>]
  BY <1>2, <1>6, <1>7
<1>9. FlattenSeq(seqs) = s
  BY <1>2, <1>8, FlattenSingletons
<1>10. QED
  BY <1>1, <1>7, <1>9 DEF Context

\* A row that the forward does not write, and one that it does.
LEMMA NotScattered ==
  ASSUME NEW b, NEW new, NEW past, NEW p \in Pages, NEW o \in Offsets,
         \A i \in past + 1 .. past + Len(new) : ~(PageAt(b, i) = p /\ OffsetAt(i) = o)
  PROVE  Scattered(b, new, past)[p][o] = kv[p][o]
<1> DEFINE here == {i \in past + 1 .. past + Len(new) : PageAt(b, i) = p /\ OffsetAt(i) = o}
<1>1. Scattered(b, new, past)[p][o] =
        IF here = {} THEN kv[p][o] ELSE Context(b, past) \o SubSeq(new, 1, Max(here) - past)
  BY DEF Scattered
<1>2. here = {}
  OBVIOUS
<1> HIDE DEF here
<1>3. QED
  BY <1>1, <1>2

\* Row is the one a forward of new writes for position x, the only position that
\* falls on offset o of page p.
OnlyRow(b, new, past, p, o, x, row) ==
  /\ row = Context(b, past) \o SubSeq(new, 1, x - past)
  /\ new \in Seq(Token) /\ past \in Nat /\ p \in Pages /\ o \in Offsets
  /\ x \in past + 1 .. past + Len(new) /\ PageAt(b, x) = p /\ OffsetAt(x) = o
  /\ \A i \in past + 1 .. past + Len(new) : PageAt(b, i) = p /\ OffsetAt(i) = o => i = x

\* Scatter writes that row there.
LEMMA ScatteredRow ==
  ASSUME NEW b, NEW new, NEW past, NEW p, NEW o, NEW x, NEW row,
         OnlyRow(b, new, past, p, o, x, row)
  PROVE  Scattered(b, new, past)[p][o] = row
<1> DEFINE here == {i \in past + 1 .. past + Len(new) : PageAt(b, i) = p /\ OffsetAt(i) = o}
<1>1. Scattered(b, new, past)[p][o] =
        IF here = {} THEN kv[p][o] ELSE Context(b, past) \o SubSeq(new, 1, Max(here) - past)
  BY DEF Scattered, OnlyRow
<1>2. here = {x}
  BY DEF OnlyRow
<1> HIDE DEF here
<1>3. Max({x}) = x
  <2>1. {x} \in SUBSET Nat /\ {x} # {} /\ x \in Nat /\ \A y \in {x} : y <= x
    BY DEF OnlyRow
  <2>2. Max({x}) \in {x}
    BY <2>1, MaxOfNats
  <2>3. QED
    BY <2>2
<1>4. here # {} /\ Max(here) = x
  BY <1>2, <1>3
<1>5. row = Context(b, past) \o SubSeq(new, 1, x - past)
  BY DEF OnlyRow
<1>6. QED
  BY <1>1, <1>4, <1>5, Zenon

\* What the forward of a job writes are pages of its own.
LEMMA WrittenPage ==
  ASSUME TypeInv, NEW b \in Blocks, NEW T, T = block[b].page_table, NEW past \in Nat,
         AheadFit(b, T, past, Private), NEW i \in Nat, past < i, i <= Len(T) * PageSize
  PROVE  /\ EntryOf(i) \in 1 .. Len(T) /\ OffsetAt(i) \in Offsets
         /\ At(EntryOf(i), OffsetAt(i)) = i
         /\ PageAt(b, i) = T[EntryOf(i)] /\ PageAt(b, i) \in Pages
         /\ ~page[PageAt(b, i)].sealed
         /\ Holders(PageAt(b, i)) = {<<b, EntryOf(i)>>}
<1>1. i \in Nat \ {0} /\ i >= 1
  OBVIOUS
<1>2. /\ EntryOf(i) \in 1 .. Len(T) /\ OffsetAt(i) \in Offsets
      /\ PageAt(b, i) \in Pages
  BY <1>1, RowPlace DEF EntryOf
<1>3. EntryOf(i) \in Nat \ {0} /\ At(EntryOf(i), OffsetAt(i)) = i
  BY <1>1, PlaceOf DEF EntryOf
<1>4. PageAt(b, i) = T[EntryOf(i)]
  BY DEF PageAt, EntryOf
<1>5. PICK e, p, z : e = EntryOf(i) /\ p = T[e] /\ z = e * PageSize
  OBVIOUS
<1>6. z > past
  <2>1. i <= z /\ z \in Nat
    BY <1>2, <1>3, <1>5, PlaceBounds
  <2>2. QED
    BY <2>1
<1>7. Private[p] = {<<b, e>>}
  BY <1>2, <1>5, <1>6, Zenon DEF AheadFit
<1>8. ~page[p].sealed /\ Holders(p) = {<<b, e>>}
  BY <1>2, <1>4, <1>5, <1>7, PrivateOf
<1>9. QED
  BY <1>2, <1>3, <1>4, <1>5, <1>8

\* Part of what fits in two bounds fits in them.
LEMMA PartBelow ==
  ASSUME NEW a \in Nat, NEW n \in Nat, NEW x \in Nat, NEW y \in Nat, NEW f,
         f = a + n, f <= x, f <= y
  PROVE  a <= x /\ a <= y
OBVIOUS

\* The rows of the job fed reach as far as it was fed.
LEMMA ForwardRows ==
  ASSUME TypeInv, NEW b \in Blocks, NEW T, T = block[b].page_table,
         NEW past \in Nat, NEW new \in Seq(Token), NEW told \in Seq(Token),
         NEW fed, fed = past + Len(new), fed <= Len(T) * PageSize, fed <= Len(told),
         \A i \in 1 .. Len(new) : new[i] = told[past + i],
         RowsFit(T, past, told, kv), AheadFit(b, T, past, Private),
         \A j \in 1 .. Len(T) : T[j] \in Pages /\ <<b, j>> \in Holders(T[j]),
         NEW k, k = Scattered(b, new, past)
  PROVE  RowsFit(T, fed, told, k)
<1>1. PICK n, room : n = Len(new) /\ room = Len(T) * PageSize
  OBVIOUS
<1>2. /\ n \in Nat /\ Len(told) \in Nat /\ room \in Nat /\ fed = past + n
      /\ past <= room /\ past <= Len(told) /\ fed <= room
  <2>1. Len(T) \in Nat
    BY FrameFacts
  <2>2. room \in Nat
    BY <1>1, <2>1, ProductNat
  <2>3. n \in Nat /\ Len(told) \in Nat
    BY <1>1
  <2>4. fed = past + n /\ fed <= room /\ fed <= Len(told)
    BY <1>1
  <2>5. past <= room /\ past <= Len(told)
    BY <2>2, <2>3, <2>4, PartBelow
  <2>6. QED
    BY <2>2, <2>3, <2>4, <2>5
<1>3. Context(b, past) = SubSeq(told, 1, past)
  BY <1>1, <1>2, ContextFits
<1>4. SUFFICES ASSUME NEW j \in 1 .. Len(T), NEW o \in Offsets, At(j, o) <= fed
               PROVE  k[T[j]][o] = SubSeq(told, 1, At(j, o))
  BY Zenon DEF RowsFit
<1>5. PICK x, p : x = At(j, o) /\ p = T[j]
  OBVIOUS
<1>6. /\ x \in Nat \ {0} /\ EntryOf(x) = j /\ OffsetAt(x) = o /\ x <= fed
      /\ p \in Pages /\ <<b, j>> \in Holders(p) /\ PageAt(b, x) = p
  <2>1. j \in Nat \ {0}
    OBVIOUS
  <2>2. x \in Nat \ {0} /\ EntryOf(x) = j /\ OffsetAt(x) = o
    BY <1>5, <2>1, PlaceBack
  <2>3. PageAt(b, x) = p
    BY <1>5, <2>2 DEF PageAt, EntryOf
  <2>4. QED
    BY <1>4, <1>5, <2>2, <2>3
<1>7. ASSUME NEW i \in past + 1 .. past + n, PageAt(b, i) = p, OffsetAt(i) = o
      PROVE  i = x
  <2>1. i \in Nat /\ past < i /\ i <= room
    BY <1>2
  <2>2. Holders(p) = {<<b, EntryOf(i)>>} /\ At(EntryOf(i), OffsetAt(i)) = i
    BY <1>1, <1>7, <2>1, WrittenPage
  <2>3. <<b, j>> = <<b, EntryOf(i)>>
    BY <1>6, <2>2
  <2>4. j = EntryOf(i)
    BY <2>3
  <2>5. QED
    BY <1>5, <1>7, <2>2, <2>4
<1>8. CASE x > past
  <2>1. x \in past + 1 .. past + n
    BY <1>2, <1>6, <1>8
  <2>2. PICK m : m = x - past
    OBVIOUS
  <2>3. PICK row : row = Context(b, past) \o SubSeq(new, 1, m)
    OBVIOUS
  <2>4. Scattered(b, new, past)[p][o] = row
    <3>1. OnlyRow(b, new, past, p, o, x, row)
      BY <1>1, <1>6, <1>7, <2>1, <2>2, <2>3 DEF OnlyRow
    <3>2. QED
      BY ONLY <3>1, ScatteredRow
  <2>5. m \in Nat /\ m <= Len(new) /\ past + m = x /\ past + m <= Len(told)
    <3>1. m \in Nat /\ m <= n /\ past + m = x
      BY <1>2, <2>1, <2>2
    <3>2. x \in Nat /\ x <= fed /\ fed <= Len(told)
      BY <1>6
    <3>3. x <= Len(told)
      <4>1. Len(told) \in Nat /\ fed \in Nat
        BY <1>2
      <4>2. QED
        BY ONLY <3>2, <4>1
    <3>4. QED
      BY <1>1, <3>1, <3>3
  <2>6. SubSeq(told, 1, past) \o SubSeq(new, 1, m) = SubSeq(told, 1, past + m)
    BY <2>5, HeadInParts, ZenonT(60)
  <2>7. QED
    BY <1>3, <1>5, <2>3, <2>4, <2>5, <2>6, Zenon
<1>9. CASE x <= past
  <2>1. \A i \in past + 1 .. past + Len(new) : ~(PageAt(b, i) = p /\ OffsetAt(i) = o)
    <3>1. SUFFICES ASSUME NEW i \in past + 1 .. past + n, PageAt(b, i) = p, OffsetAt(i) = o
                   PROVE  FALSE
      BY <1>1
    <3>2. i = x
      BY <1>7, <3>1
    <3>3. QED
      BY <1>2, <1>6, <1>9, <3>1, <3>2
  <2>2. Scattered(b, new, past)[p][o] = kv[p][o]
    BY <1>6, <2>1, NotScattered
  <2>3. kv[p][o] = SubSeq(told, 1, x)
    BY <1>5, <1>9, Zenon DEF RowsFit
  <2>4. QED
    BY <1>5, <2>2, <2>3, Zenon
<1>10. x \in Nat /\ past \in Nat
  BY <1>2, <1>6
<1>11. x > past \/ x <= past
  BY ONLY <1>10
<1>12. QED
  BY ONLY <1>8, <1>9, <1>11

\* What the forward of a job finds and does.
Forwarded(r, sampled, b, new, past, fed) ==
  /\ stage = "forward" /\ job[r].phase = "forward"
  /\ UNCHANGED <<vars, stage, mismatched, skewed>>
  /\ kv' = Scattered(b, new, past)
  /\ JobFits(job[r], block[b], call, stage, skewed) /\ job[r] \in RequestJob
  /\ Held(job[r]) /\ b \in Blocks /\ BlockOf(r) = block[b]
  /\ CountsFit(job[r]) /\ FeedFits(job[r])
  /\ fed \in Nat /\ Len(new) \in Nat /\ new \in Seq(Token)
  /\ fed < Len(job[r].input_ids) => job[r].output_tokens = << >>
  /\ ~(fed < Len(job[r].input_ids)) =>
       fed = Len(job[r].input_ids) + Len(job[r].output_tokens)
  /\ Len(block[b].page_table) = CeilPages(block[b].pos)
  /\ fed <= block[b].pos
  /\ ~skewed => fed = block[b].pos
  /\ job' \in [Requests -> RequestJob]
  /\ job'[r].phase \in {"ready", "finished"} /\ job'[r].kv_pos = fed
  /\ job'[r].input_ids = job[r].input_ids /\ job'[r].block_id = b
  /\ \A s \in Requests \ {r} : job'[s] = job[s]
  /\ IF fed < Len(job[r].input_ids)
     THEN job'[r].output_tokens = job[r].output_tokens
     ELSE job'[r].output_tokens = Append(job[r].output_tokens, sampled)

\* What Forward does to the tables, the rows and the job.
LEMMA ForwardEffect ==
  ASSUME TypeInv, JobInv,
         NEW r \in Requests, NEW sampled \in Token, NEW eos \in BOOLEAN,
         Forward(r, sampled, eos),
         NEW b, b = job[r].block_id, NEW new, new = job[r].pending_input_ids,
         NEW past, past = block[b].pos - Len(new),
         NEW fed, fed = job[r].kv_pos + Len(new)
  PROVE  Forwarded(r, sampled, b, new, past, fed)
<1>1. /\ stage = "forward" /\ job[r].phase = "forward"
      /\ kv' = Scattered(b, new, past)
      /\ ApplyToken(r, sampled, eos)
      /\ UNCHANGED <<vars, stage, mismatched, skewed>>
  BY Zenon DEF Forward
<1>2. /\ JobFits(job[r], BlockOf(r), call, stage, skewed) /\ job[r] \in RequestJob
  BY JobFacts
<1>3. Held(job[r]) /\ b \in Blocks /\ BlockOf(r) = block[b]
  <2>1. Held(job[r])
    BY <1>1, <1>2 DEF JobFits, BlockFits
  <2>2. QED
    BY <2>1, JobFacts DEF BlockOf
<1>4. CountsFit(job[r]) /\ FeedFits(job[r]) /\ PlaceFits(job[r], block[b], call, skewed)
  BY <1>2, <1>3 DEF JobFits
<1>5. /\ fed \in Nat /\ Len(new) \in Nat /\ new \in Seq(Token)
      /\ fed < Len(job[r].input_ids) => job[r].output_tokens = << >>
      /\ ~(fed < Len(job[r].input_ids)) =>
           fed = Len(job[r].input_ids) + Len(job[r].output_tokens)
  BY <1>1, <1>2, <1>4, FedCounts DEF RequestJob
<1>6. /\ Len(block[b].page_table) = CeilPages(block[b].pos)
      /\ fed <= block[b].pos
      /\ ~skewed => fed = block[b].pos
  BY <1>1, <1>4 DEF PlaceFits
<1>7. /\ job' \in [Requests -> RequestJob]
      /\ job'[r].phase \in {"ready", "finished"} /\ job'[r].kv_pos = fed
      /\ job'[r].input_ids = job[r].input_ids /\ job'[r].block_id = b
      /\ \A s \in Requests \ {r} : job'[s] = job[s]
      /\ IF fed < Len(job[r].input_ids)
         THEN job'[r].output_tokens = job[r].output_tokens
         ELSE job'[r].output_tokens = Append(job[r].output_tokens, sampled)
  <2>1. job \in [Requests -> RequestJob]
    BY DEF JobInv, ServingTypeOK
  <2>2. CASE fed < Len(job[r].input_ids)
    <3>1. job' = [job EXCEPT ![r].kv_pos = fed, ![r].phase = "ready"]
      BY <1>1, <2>2, Zenon DEF ApplyToken
    <3>2. job' = [job EXCEPT ![r] = [job[r] EXCEPT !.kv_pos = fed, !.phase = "ready"]]
      BY <3>1, Zenon
    <3>3. QED
      BY <1>2, <1>5, <2>1, <2>2, <3>2 DEF RequestJob, Phase
  <2>3. CASE ~(fed < Len(job[r].input_ids))
    <3>1. PICK to : to = IF eos THEN "finished" ELSE "ready"
      OBVIOUS
    <3>2. job' = [job EXCEPT ![r].kv_pos = fed, ![r].output_tokens = Append(@, sampled),
                             ![r].phase = to]
      BY <1>1, <2>3, <3>1, Zenon DEF ApplyToken
    <3>3. job' = [job EXCEPT ![r] = [job[r] EXCEPT !.kv_pos = fed,
                     !.output_tokens = Append(job[r].output_tokens, sampled), !.phase = to]]
      BY <3>2, Zenon
    <3>4. to \in {"ready", "finished"} /\ to \in Phase
      BY <3>1 DEF Phase
    <3>5. Append(job[r].output_tokens, sampled) \in Seq(Token)
      BY <1>2 DEF RequestJob
    <3>6. QED
      BY <1>2, <1>5, <2>1, <2>3, <3>3, <3>4, <3>5 DEF RequestJob
  <2>4. QED
    BY <2>2, <2>3
<1>8. QED
  BY <1>1, <1>2, <1>3, <1>4, <1>5, <1>6, <1>7, Zenon DEF Forwarded

\* The tokens a job was told, before and after its forward, and the ones it was
\* fed.
LEMMA ToldGrows ==
  ASSUME NEW r \in Requests, NEW sampled \in Token, NEW b, NEW new, NEW past, NEW fed,
         Forwarded(r, sampled, b, new, past, fed),
         NEW told, told = Told(job[r]), NEW told2, told2 = Told(job'[r])
  PROVE  /\ told \in Seq(Token) /\ fed <= Len(told)
         /\ told2 \in Seq(Token) /\ \A x \in 0 .. fed : SubSeq(told2, 1, x) = SubSeq(told, 1, x)
<1>1. PICK in, out, li, lo : /\ in = job[r].input_ids /\ out = job[r].output_tokens
                             /\ li = Len(in) /\ lo = Len(out)
  OBVIOUS
<1>2. in \in Seq(Token) /\ out \in Seq(Token) /\ li \in Nat /\ lo \in Nat /\ told = in \o out
  <2>1. in \in Seq(Token) /\ out \in Seq(Token)
    BY <1>1 DEF Forwarded, RequestJob
  <2>2. told = in \o out
    BY <1>1 DEF Told
  <2>3. QED
    BY ONLY <1>1, <2>1, <2>2
<1>3. told \in Seq(Token) /\ Len(told) = li + lo
  BY <1>1, <1>2
<1>4. fed \in Nat /\ (fed < li \/ fed = li + lo)
  BY <1>1 DEF Forwarded
<1>5. fed <= Len(told)
  BY <1>2, <1>3, <1>4
<1>6. CASE job'[r].output_tokens = out
  <2>1. told2 = told
    BY <1>1, <1>2, <1>6 DEF Forwarded, Told
  <2>2. QED
    BY <1>3, <1>5, <2>1, Zenon
<1>7. CASE job'[r].output_tokens = Append(out, sampled)
  <2>1. told2 = in \o Append(out, sampled)
    BY <1>1, <1>7 DEF Forwarded, Told
  <2>2. told2 = told \o <<sampled>> /\ told2 \in Seq(Token)
    BY <1>2, <2>1
  <2>3. ASSUME NEW x \in 0 .. fed PROVE SubSeq(told2, 1, x) = SubSeq(told, 1, x)
    <3>1. x \in Nat /\ x <= Len(told) /\ <<sampled>> \in Seq(Token)
      BY <1>3, <1>4, <1>5
    <3>2. QED
      BY <1>3, <2>2, <3>1, HeadOfConcat
  <2>4. QED
    BY <1>3, <1>5, <2>2, <2>3
<1>8. QED
  BY <1>1, <1>6, <1>7 DEF Forwarded

\* The forward gives the tokens fed the rows of those tokens, and touches no row
\* of another job nor of the cache.
LEMMA ForwardKv ==
  ASSUME TypeInv, Bounded, Within, JobInv, KvInv, ~skewed,
         NEW r \in Requests, NEW sampled \in Token, NEW eos \in BOOLEAN,
         Forward(r, sampled, eos)
  PROVE  KvInv'
<1>1. PICK b, new, past, fed, T, told, told2 :
        /\ b = job[r].block_id /\ new = job[r].pending_input_ids
        /\ past = block[b].pos - Len(new) /\ fed = job[r].kv_pos + Len(new)
        /\ T = block[b].page_table /\ told = Told(job[r]) /\ told2 = Told(job'[r])
  OBVIOUS
<1>2. Forwarded(r, sampled, b, new, past, fed)
  BY <1>1, ForwardEffect
<1>3. /\ past = job[r].kv_pos /\ past \in Nat /\ fed \in Nat /\ fed = past + Len(new)
      /\ new \in Seq(Token) /\ Len(new) \in Nat /\ b \in Blocks
  <2>1. /\ job[r].kv_pos \in Nat /\ Len(new) \in Nat /\ fed = block[b].pos
        /\ new \in Seq(Token) /\ fed \in Nat /\ b \in Blocks
    BY <1>2 DEF Forwarded, RequestJob
  <2>2. PICK p, k, m : p = block[b].pos /\ k = job[r].kv_pos /\ m = Len(new)
    OBVIOUS
  <2>3. past = p - m /\ fed = k + m /\ fed = p /\ k \in Nat /\ m \in Nat
    BY ONLY <1>1, <2>1, <2>2
  <2>4. past = k /\ fed = past + m
    BY ONLY <2>3
  <2>5. QED
    BY ONLY <2>1, <2>2, <2>3, <2>4
<1>4. fed <= Len(T) * PageSize
  BY <1>1, <1>2 DEF Forwarded, Within
<1>5. UNCHANGED vars /\ kv' = Scattered(b, new, past) /\ call = Idle
      /\ \A x \in Blocks : pending[x] = << >>
  BY <1>2 DEF Forwarded, JobInv, Rested
<1>6. UNCHANGED <<block, call, pending, page>> /\ QuietStep
  BY <1>5 DEF vars, QuietStep
<1>7. Private' = Private
  <2>1. \A p : Holders(p)' = Holders(p)
    BY <1>6, QuietEffect, HoldersSame
  <2>2. QED
    BY <1>6, <2>1 DEF Private
<1>8. Live(job[r]) /\ Fed(job[r], call) = past /\ Fed(job'[r], call') = fed
      /\ job'[r].block_id = b /\ PrefixFits(job'[r], block[b])
  BY <1>2, <1>3 DEF Forwarded, Live, Fed, PrefixFits
<1>9. RowsFit(T, past, told, kv) /\ AheadFit(b, T, past, Private)
  <2>1. JobRows(job[r], BlockOf(r), call, kv, Private)
    BY DEF KvInv, RowsInv
  <2>2. BlockOf(r) = block[b]
    BY <1>2 DEF Forwarded
  <2>3. QED
    BY <1>1, <1>8, <2>1, <2>2, Zenon DEF JobRows
<1>10. \A j \in 1 .. Len(T) : T[j] \in Pages /\ <<b, j>> \in Holders(T[j])
  BY <1>1, <1>8, LiveEntry
<1>11. /\ told \in Seq(Token) /\ fed <= Len(told)
       /\ told2 \in Seq(Token) /\ \A x \in 0 .. fed : SubSeq(told2, 1, x) = SubSeq(told, 1, x)
  BY <1>1, <1>2, ToldGrows
<1>12. RowsFit(T, fed, told, kv')
  <2>1. \A i \in 1 .. Len(new) : new[i] = told[past + i]
    BY <1>1, <1>2, <1>3 DEF Forwarded, FeedFits, Told
  <2>2. PICK k : k = kv'
    OBVIOUS
  <2>3. k = Scattered(b, new, past)
    BY <1>5, <2>2
  <2>4. RowsFit(T, fed, told, k)
    BY <1>1, <1>3, <1>4, <1>9, <1>10, <1>11, <2>1, <2>3, ForwardRows
  <2>5. QED
    BY <2>2, <2>4
<1>13. JobRows(job'[r], block'[job'[r].block_id], call', kv', Private')
  <2>1. RowsFit(T, fed, told2, kv')
    <3>1. SUFFICES ASSUME NEW i \in 1 .. Len(T), NEW o \in Offsets, At(i, o) <= fed
                   PROVE  kv'[T[i]][o] = SubSeq(told2, 1, At(i, o))
      BY Zenon DEF RowsFit
    <3>2. i \in Nat \ {0}
      OBVIOUS
    <3>3. At(i, o) \in 0 .. fed
      <4>1. At(i, o) \in Nat
        BY <3>2, PlaceBounds
      <4>2. QED
        BY <1>3, <3>1, <4>1
    <3>4. SubSeq(told2, 1, At(i, o)) = SubSeq(told, 1, At(i, o))
      BY <1>11, <3>3, Zenon
    <3>5. kv'[T[i]][o] = SubSeq(told, 1, At(i, o))
      BY <1>12, <3>1, Zenon DEF RowsFit
    <3>6. QED
      BY <3>4, <3>5, Zenon
  <2>2. AheadFit(b, T, fed, Private)
    <3>1. ASSUME NEW i \in 1 .. Len(T), i * PageSize > fed PROVE i * PageSize > past
      <4>1. PICK x : x = i * PageSize
        OBVIOUS
      <4>2. i \in Nat
        OBVIOUS
      <4>3. x \in Nat /\ x > fed
        BY <3>1, <4>1, <4>2, ProductNat
      <4>4. x > past
        BY <1>3, <4>3
      <4>5. QED
        BY <4>1, <4>4
    <3>2. QED
      BY <1>9, <3>1, Zenon DEF AheadFit
  <2>3. JobRows(job'[r], block[b], call', kv', Private)
    BY <1>1, <1>8, <2>1, <2>2, Zenon DEF JobRows
  <2>4. QED
    BY <1>6, <1>7, <1>8, <2>3, Zenon
<1>14. ASSUME NEW q \in Pages, NEW o \in Offsets, kv'[q][o] # kv[q][o]
       PROVE  ~page[q].sealed /\ \E e : Holders(q) = {<<b, e>>}
  <2>1. PICK i \in past + 1 .. past + Len(new) : PageAt(b, i) = q
    BY <1>5, <1>14, NotScattered
  <2>2. PICK x : x = Len(T) * PageSize
    OBVIOUS
  <2>3. x \in Nat
    <3>1. block[b].page_table \in Seq(Pages)
      BY <1>3, FrameFacts
    <3>2. Len(T) \in Nat
      BY <1>1, <3>1
    <3>3. QED
      BY <2>2, <3>2, ProductNat
  <2>4. i \in Nat /\ past < i /\ i <= x
    <3>1. PICK n : n = Len(new)
      OBVIOUS
    <3>2. /\ past \in Nat /\ n \in Nat /\ x \in Nat /\ i \in past + 1 .. past + n
          /\ past + n <= x
      BY <1>3, <1>4, <2>1, <2>2, <2>3, <3>1
    <3>3. QED
      BY ONLY <3>2
  <2>5. ~page[PageAt(b, i)].sealed /\ Holders(PageAt(b, i)) = {<<b, EntryOf(i)>>}
    <3>1. /\ TypeInv /\ b \in Blocks /\ T = block[b].page_table /\ past \in Nat
          /\ AheadFit(b, T, past, Private)
          /\ i \in Nat /\ past < i /\ i <= Len(T) * PageSize
      BY <1>1, <1>3, <1>9, <2>2, <2>4
    <3>2. QED
      BY ONLY <3>1, WrittenPage
  <2>6. QED
    BY <2>1, <2>5
<1>15. ASSUME NEW s \in Requests \ {r}
       PROVE  JobRows(job'[s], block'[job'[s].block_id], call', kv', Private')
  <2>1. SUFFICES ASSUME Live(job[s])
                 PROVE  JobRows(job[s], BlockOf(s), call, kv', Private)
    <3>1. job'[s] = job[s]
      BY <1>2 DEF Forwarded
    <3>2. QED
      BY <1>6, <1>7, <2>1, <3>1, Zenon DEF JobRows, BlockOf
  <2>2. PICK j, B, c, own, k, c1 :
          /\ j = job[s] /\ B = BlockOf(s) /\ c = j.block_id /\ own = Private /\ k = kv'
          /\ c1 = call
    OBVIOUS
  <2>3. JobRows(j, B, c1, kv, own) /\ Live(j) /\ PrefixFits(j, B)
    <3>1. JobRows(job[s], BlockOf(s), call, kv, Private)
      BY DEF KvInv, RowsInv
    <3>2. QED
      BY <2>1, <2>2, <3>1, Zenon DEF JobRows
  <2>4. c # b /\ B = block[c]
    <3>1. /\ JobFits(job[s], BlockOf(s), call, stage, skewed) /\ Held(job[r])
          /\ b = job[r].block_id
      BY <1>1, <1>2, JobFacts DEF Forwarded
    <3>2. Held(job[s])
      BY <2>1, <3>1 DEF JobFits, BlockFits, Live
    <3>3. QED
      BY <2>2, <3>1, <3>2 DEF JobInv, Apart, BlockOf
  <2>5. ASSUME NEW i \in 1 .. Len(B.page_table), NEW o \in Offsets
        PROVE  k[B.page_table[i]][o] = kv[B.page_table[i]][o]
    <3>1. B.page_table[i] \in Pages /\ <<c, i>> \in Holders(B.page_table[i])
      BY <2>1, <2>2, <2>4, LiveEntry
    <3>2. SUFFICES ASSUME NEW e, Holders(B.page_table[i]) = {<<b, e>>} PROVE FALSE
      BY <1>14, <2>2, <3>1
    <3>3. <<c, i>> = <<b, e>>
      BY <3>1, <3>2
    <3>4. QED
      BY <2>4, <3>3
  <2>6. JobRows(j, B, c1, k, own)
    <3>1. PICK j2, B2, c2, own2 : j2 = j /\ B2 = B /\ c2 = c1 /\ own2 = own
      OBVIOUS
    <3>2. /\ Live(j2) => Live(j)
          /\ j2.block_id = j.block_id /\ Told(j2) = Told(j) /\ Fed(j2, c2) = Fed(j, c1)
          /\ B2.page_table = B.page_table /\ PrefixFits(j2, B2)
          /\ \A i \in 1 .. Len(B.page_table) :
               own2[B.page_table[i]] = own[B.page_table[i]]
      BY <2>3, <3>1, Zenon
    <3>3. JobRows(j2, B2, c2, k, own2)
      BY <2>3, <2>5, <3>2, RowsStay
    <3>4. QED
      BY <3>1, <3>3, Zenon
  <2>7. QED
    BY <2>2, <2>6, Zenon
<1>16. RowsInv'
  BY <1>13, <1>15, Zenon DEF RowsInv, BlockOf
<1>17. Cached(page', kv')
  <2>1. \A q \in Pages, o \in Offsets : page[q].sealed => kv'[q][o] = kv[q][o]
    BY <1>14
  <2>2. Cached(page, kv)
    BY DEF KvInv
  <2>3. Cached(page, kv')
    BY <2>1, <2>2 DEF Cached
  <2>4. QED
    BY <1>6, <2>3
<1>18. WipesInv'
  <2>1. call'.work = << >> /\ \A x \in Blocks : pending'[x] = << >>
    BY <1>5, <1>6 DEF Idle
  <2>2. QED
    BY <2>1 DEF WipesInv, ToSet
<1>19. QED
  BY <1>16, <1>17, <1>18 DEF KvInv

-----------------------------------------------------------------------------
\* The rows' invariant.

\* No job has rows at the start, nothing is cached and nothing is left to do.
LEMMA InitKv ==
  ASSUME ServingInit
  PROVE  KvInv
<1>1. /\ \A r \in Requests : job[r] = NewJob
      /\ \A p \in Pages : ~page[p].sealed
      /\ call.work = << >> /\ \A b \in Blocks : pending[b] = << >>
  BY DEF ServingInit, Init, FreshPage, Idle
<1>2. \A r \in Requests : ~Live(job[r])
  BY <1>1 DEF Live, NewJob
<1>3. RowsInv
  BY <1>2, Zenon DEF RowsInv, JobRows
<1>4. Cached(page, kv)
  BY <1>1 DEF Cached
<1>5. WipesInv
  BY <1>1 DEF WipesInv, ToSet
<1>6. QED
  BY <1>3, <1>4, <1>5 DEF KvInv

\* What has gone wrong stays wrong.
LEMMA SoundBefore ==
  ASSUME TypeInv, [AnyNext]_vars, [ServingNext]_allVars, Sound'
  PROVE  Sound
<1>1. ~misfiled
  BY MisfiledStays DEF Sound
<1>2. mismatched => mismatched'
  BY Zenon DEF ServingNext, allVars, serving, PushQuota, CleanupDone, InjectDone, BatchReady,
     ForwardDone, PoolInternal, Match, Acquired, AppendRefused, Appended, Committed, Deferred,
     Cancel, Commit, Release, ReleaseDone, Inject, Feed, Forward
<1>3. skewed => skewed'
  BY Zenon DEF ServingNext, allVars, serving, PushQuota, CleanupDone, InjectDone, BatchReady,
     ForwardDone, PoolInternal, Match, Acquired, AppendRefused, Appended, Committed, Deferred,
     Cancel, Commit, Release, ReleaseDone, Inject, Feed, Forward
<1>4. QED
  BY <1>1, <1>2, <1>3 DEF Sound

\* Every step keeps the rows while nothing of it goes wrong.
LEMMA KvStep ==
  ASSUME ServingInv, KvInv, Sound, Sound', [ServingNext]_allVars
  PROVE  KvInv'
<1>1. /\ TypeInv /\ Books /\ Bounded /\ Within /\ Deferral /\ Accounts /\ WritesOwn
      /\ JobInv /\ RowsInv /\ ~skewed /\ ~skewed' /\ ~mismatched'
  BY DEF ServingInv, WritesInv, Books, Sound, KvInv
<1>2. CASE \/ \E t \in Tenants, q \in Quotas : PushQuota(t, q)
           \/ CleanupDone \/ InjectDone \/ BatchReady \/ ForwardDone
           \/ AppendRefused \/ UNCHANGED allVars
  BY <1>1, <1>2, AsideKv
<1>3. CASE PoolInternal
  <2>1. UNCHANGED serving
    BY <1>3 DEF PoolInternal
  <2>2. CASE ReleasePage
    BY <1>1, <2>1, <2>2, ReleasePageKv
  <2>3. CASE AppendNewPage
    BY <1>1, <2>1, <2>3, AppendNewKv
  <2>4. CASE AppendFork
    BY <1>1, <2>4, NoFork
  <2>5. CASE AppendInPlace
    BY <1>1, <2>1, <2>5, AsideKv
  <2>6. CASE CommitPage
    BY <1>1, <2>1, <2>6, CommitPageKv
  <2>7. QED
    BY <1>3, <2>2, <2>3, <2>4, <2>5, <2>6 DEF PoolInternal
<1>4. CASE Match
  BY <1>1, <1>4, MatchKv
<1>5. CASE Acquired
  BY <1>1, <1>5, AcquiredKv
<1>6. CASE Appended \/ Committed
  BY <1>1, <1>6, ReturnKv
<1>7. ASSUME NEW b \in Blocks, Deferred(b) PROVE KvInv'
  BY <1>1, <1>7, DeferredKv
<1>8. ASSUME NEW r \in Requests, Cancel(r) \/ Commit(r) \/ Release(r) \/ ReleaseDone(r)
      PROVE  KvInv'
  BY <1>1, <1>8, CancelKv, CommitKv, ReleaseDoneKv
<1>9. ASSUME NEW r \in Requests, NEW t \in Tenants, NEW prompt \in Prompts,
             Inject(r, t, prompt)
      PROVE  KvInv'
  BY <1>1, <1>9, InjectKv
<1>10. ASSUME NEW r \in Requests, NEW n \in 1 .. MaxPos, Feed(r, n) PROVE KvInv'
  BY <1>1, <1>10, FeedKv
<1>11. ASSUME NEW r \in Requests, NEW tok \in Token, NEW eos \in BOOLEAN, Forward(r, tok, eos)
       PROVE  KvInv'
  BY <1>1, <1>11, ForwardKv
<1>12. QED
  BY <1>2, <1>3, <1>4, <1>5, <1>6, <1>7, <1>8, <1>9, <1>10, <1>11 DEF ServingNext

\* The inductive invariant: the rows are right until something went wrong.
FullInv == ServingInv /\ (Sound => KvInv)

\* Every step of the system keeps it.
LEMMA FullStep ==
  ASSUME FullInv, [ServingNext]_allVars
  PROVE  FullInv'
<1>1. ServingInv'
  BY ServingStep DEF FullInv
<1>2. [AnyNext]_vars /\ TypeInv
  BY ServingStepsPool DEF FullInv, ServingInv, WritesInv
<1>3. ASSUME Sound' PROVE KvInv'
  <2>1. Sound
    BY <1>2, <1>3, SoundBefore
  <2>2. QED
    BY <1>3, <2>1, KvStep DEF FullInv
<1>4. QED
  BY <1>1, <1>3 DEF FullInv

\* The invariant holds throughout.
LEMMA FullAlways == ServingSpec => []FullInv
<1>1. ServingInit => FullInv
  BY InitServing, InitKv DEF FullInv
<1>2. QED
  BY <1>1, FullStep, PTL DEF ServingSpec

\* Unless a page was filed under a tenant that does not own it, a chunk matched a
\* page of another hash, or a job ever started behind its block, what the next
\* forward of a job attends to is the KV of the job's own tokens, at every
\* position.
THEOREM ReadsOwnHistoryAlways == ServingSpec => []ReadsOwnHistoryOtherwise
<1>1. FullInv => ReadsOwnHistoryOtherwise
  <2>1. SUFFICES ASSUME FullInv, Sound, NEW r \in Requests, job[r].phase = "ready",
                        NEW i \in 1 .. block[job[r].block_id].pos
                 PROVE  RowAt(job[r].block_id, i) = SubSeq(History(r), 1, i)
    BY DEF ReadsOwnHistoryOtherwise, ReadsOwnHistory, Sound
  <2>2. PICK b, T, pos, told : /\ b = job[r].block_id /\ T = block[b].page_table
                               /\ pos = block[b].pos /\ told = Told(job[r])
    OBVIOUS
  <2>3. TypeInv /\ Within /\ JobInv /\ KvInv /\ ~skewed
    BY <2>1 DEF FullInv, ServingInv, WritesInv, Sound
  <2>4. /\ JobFits(job[r], block[b], call, stage, skewed) /\ BlockOf(r) = block[b]
        /\ Held(job[r]) /\ b \in Blocks
    <3>1. JobFits(job[r], BlockOf(r), call, stage, skewed)
      BY <2>3, JobFacts
    <3>2. Held(job[r])
      BY <2>1, <3>1 DEF JobFits, BlockFits
    <3>3. QED
      BY <2>2, <2>3, <3>1, <3>2, JobFacts DEF BlockOf
  <2>5. job[r].kv_pos = pos
    BY <2>1, <2>2, <2>3, <2>4 DEF JobFits, PlaceFits
  <2>6. RowsFit(T, pos, told, kv)
    <3>1. JobRows(job[r], block[b], call, kv, Private)
      BY <2>3, <2>4 DEF KvInv, RowsInv
    <3>2. Live(job[r]) /\ Fed(job[r], call) = pos
      BY <2>1, <2>5 DEF Live, Fed
    <3>3. QED
      BY <2>2, <3>1, <3>2, Zenon DEF JobRows
  <2>7. pos \in Nat /\ pos <= Len(T) * PageSize
    BY <2>2, <2>3, <2>4, FrameFacts DEF Within
  <2>8. i \in Nat \ {0} /\ i >= 1 /\ i <= pos
    BY <2>1, <2>2, <2>7
  <2>9. i <= Len(block[b].page_table) * PageSize
    <3>1. PICK x : x = Len(T) * PageSize
      OBVIOUS
    <3>2. Len(T) \in Nat
      <4>1. T \in Seq(Pages)
        BY <2>2, <2>3, <2>4, FrameFacts
      <4>2. QED
        BY ONLY <4>1
    <3>3. x \in Nat /\ pos <= x
      BY <2>7, <3>1, <3>2, ProductNat
    <3>4. i <= x
      BY <2>7, <2>8, <3>3
    <3>5. QED
      BY <2>2, <3>1, <3>4
  <2>10. /\ EntryOf(i) \in 1 .. Len(T) /\ OffsetAt(i) \in Offsets
         /\ At(EntryOf(i), OffsetAt(i)) = i
    BY <2>2, <2>3, <2>4, <2>8, <2>9, RowPlace, PlaceOf DEF EntryOf
  <2>11. kv[T[EntryOf(i)]][OffsetAt(i)] = SubSeq(told, 1, At(EntryOf(i), OffsetAt(i)))
    <3>1. At(EntryOf(i), OffsetAt(i)) <= pos
      BY <2>8, <2>10
    <3>2. QED
      BY <2>6, <2>10, <3>1, Zenon DEF RowsFit
  <2>12. RowAt(b, i) = kv[T[EntryOf(i)]][OffsetAt(i)] /\ told = History(r)
    BY <2>2 DEF RowAt, PageAt, EntryOf, Told, History
  <2>13. QED
    BY <2>2, <2>10, <2>11, <2>12, Zenon
<1>2. QED
  BY <1>1, FullAlways, PTL

\* With the same exceptions, a cached page holds the KV of the very tokens it is
\* indexed under.
THEOREM CacheHoldsItsTokensAlways == ServingSpec => []CacheHoldsItsTokens
<1>1. FullInv => CacheHoldsItsTokens
  <2>1. SUFFICES ASSUME FullInv, Sound, NEW p \in Pages, page[p].sealed, NEW o \in Offsets
                 PROVE  kv[p][o] = SubSeq(page[p].chain_hash, 1,
                                          Len(page[p].chain_hash) - PageSize + o + 1)
    BY DEF CacheHoldsItsTokens, Sound
  <2>2. PICK hash : hash = page[p].chain_hash
    OBVIOUS
  <2>3. PICK n \in Nat \ {0} : /\ Len(hash) = n * PageSize
                               /\ kv[p][o] = SubSeq(hash, 1, At(n, o))
    BY <2>1, <2>2 DEF FullInv, KvInv, Cached
  <2>4. Len(hash) - PageSize + o + 1 = At(n, o)
    <3>1. n * PageSize = (n - 1) * PageSize + PageSize
      BY PoolAssumption
    <3>2. PICK x, y : x = n * PageSize /\ y = (n - 1) * PageSize
      OBVIOUS
    <3>3. /\ x \in Nat /\ y \in Nat /\ x = y + PageSize /\ Len(hash) = x
          /\ PageSize \in Nat /\ o \in Nat /\ At(n, o) = y + o + 1
      <4>1. n \in Nat /\ n - 1 \in Nat /\ PageSize \in Nat /\ o \in Nat
        BY PoolAssumption DEF Offsets
      <4>2. QED
        BY <2>3, <3>1, <3>2, <4>1, ProductNat DEF At
    <3>4. QED
      BY <3>3
  <2>5. QED
    BY <2>2, <2>3, <2>4, Zenon
<1>2. QED
  BY <1>1, FullAlways, PTL

\* With the same exceptions, Append never has to copy a page: what it writes past
\* is shared with nobody.
THEOREM NeverForks == ServingSpec => [][Sound => ~AppendFork]_allVars
<1>1. FullInv => (Sound => ~AppendFork)
  <2>1. SUFFICES ASSUME FullInv, Sound, AppendFork PROVE FALSE
    OBVIOUS
  <2>2. TypeInv /\ Books /\ Within /\ Accounts /\ JobInv /\ RowsInv
    BY <2>1 DEF FullInv, ServingInv, WritesInv, Sound, KvInv
  <2>3. QED
    BY <2>1, <2>2, NoFork
<1>2. QED
  BY <1>1, FullAlways, PTL

=============================================================================
