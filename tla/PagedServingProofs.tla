------------------------- MODULE PagedServingProofs -------------------------
(***************************************************************************)
(* Theorems about PagedServing, for every value of its constants: where a  *)
(* job's call into the pool stands, and what the rows it reads are.        *)
(***************************************************************************)
EXTENDS PagedServing, PagedPoolProofs

-----------------------------------------------------------------------------
\* Pages for tokens.

CeilPages(n) == (n + PageSize - 1) \div PageSize

\* The pages of n tokens are as many as it takes, and no more.
LEMMA CeilUnique ==
  ASSUME NEW n \in Nat, NEW k \in Nat, n <= k * PageSize, k * PageSize < n + PageSize
  PROVE  CeilPages(n) = k
<1> DEFINE a == n + PageSize - 1
           q == a \div PageSize
           x == q * PageSize
           y == (q + 1) * PageSize
           z == k * PageSize
           u == (k + 1) * PageSize
<1>1. a \in Nat /\ PageSize \in Nat
  BY PoolAssumption
<1>2. q \in Nat /\ x <= a /\ a < y
  BY <1>1, PageOfToken
<1>3. x \in Nat /\ y \in Nat /\ z \in Nat /\ u \in Nat
  BY <1>2, ProductNat
<1>4. (q + 1 <= k => y <= z) /\ (k + 1 <= q => u <= x)
  BY <1>2, PagesWithin
<1>5. u = z + PageSize
  BY <1>1
<1>6. n <= z /\ z < n + PageSize /\ a = n + PageSize - 1
  OBVIOUS
<1>7. CeilPages(n) = q
  BY DEF CeilPages
<1> HIDE DEF a, q, x, y, z, u
<1>8. ~(q + 1 <= k) /\ ~(k + 1 <= q)
  BY <1>1, <1>2, <1>3, <1>4, <1>5, <1>6
<1>9. QED
  BY <1>2, <1>7, <1>8

LEMMA CeilBounds ==
  ASSUME NEW n \in Nat
  PROVE  /\ CeilPages(n) \in Nat
         /\ n <= CeilPages(n) * PageSize
         /\ CeilPages(n) * PageSize < n + PageSize
<1> DEFINE a == n + PageSize - 1
           q == a \div PageSize
           x == q * PageSize
           y == (q + 1) * PageSize
<1>1. a \in Nat /\ PageSize \in Nat
  BY PoolAssumption
<1>2. q \in Nat /\ x <= a /\ a < y
  BY <1>1, PageOfToken
<1>3. x \in Nat /\ y \in Nat
  BY <1>2, ProductNat
<1>4. y = x + PageSize
  BY <1>1, <1>2
<1>5. CeilPages(n) = q /\ x = CeilPages(n) * PageSize /\ a = n + PageSize - 1
  BY DEF CeilPages
<1>6. n <= x /\ x < n + PageSize
  <2> HIDE DEF a, q, x, y
  <2>1. QED
    BY <1>1, <1>2, <1>3, <1>4, <1>5
<1>7. QED
  BY <1>2, <1>5, <1>6

-----------------------------------------------------------------------------
\* Where a job stands, by the job, its block, the pool's open call, the stage
\* of the loop and whether a position was skewed.

Held(j)    == j.block_id # NoBlock
Calling(j) == j.phase \in {"acquiring", "appending", "committing", "releasing"}

\* A job has a block, in use, from its Acquire to the end of its Release.
BlockFits(j, B) ==
  /\ Held(j) <=> j.phase \notin {"new", "done"}
  /\ Held(j) => B.in_use

\* A job that waits for the pool waits for the open call, on its block.
CallFits(j, c) ==
  /\ j.phase = "acquiring"  => c.op = "acquire" /\ c.tokens = j.input_ids
  /\ j.phase = "appending"  => c.op = "append"
  /\ j.phase = "committing" => c.op = "commit"
  /\ j.phase = "releasing"  => c.op = "release"
  /\ Calling(j) => c.block = j.block_id

\* Which stages of the loop a phase belongs to.
StageFits(j, st) ==
  /\ j.phase \in Leaving => st = "cleanup"
  /\ j.phase = "acquiring" => st = "inject"
  /\ j.phase = "appending" => st = "batch"
  /\ j.phase = "forward" => st \in {"batch", "forward"}

\* The tokens a job was fed are all but the last of its history, or part of
\* its prompt.
CountsFit(j) ==
  /\ j.input_ids # << >>
  /\ IF j.output_tokens = << >>
     THEN j.kv_pos < Len(j.input_ids)
     ELSE j.kv_pos = Len(j.input_ids) + Len(j.output_tokens) - 1

\* What it is fed next is what follows in its history.
FeedFits(j) ==
  j.phase \in {"appending", "forward"} =>
    /\ j.pending_input_ids # << >>
    /\ IF j.kv_pos < Len(j.input_ids)
       THEN j.kv_pos + Len(j.pending_input_ids) <= Len(j.input_ids)
       ELSE Len(j.pending_input_ids) = 1
    /\ \A i \in 1 .. Len(j.pending_input_ids) :
         j.pending_input_ids[i] = (j.input_ids \o j.output_tokens)[j.kv_pos + i]

\* How its count of fed tokens, its block's position and the length of its page
\* table stand to each other.
PlaceFits(j, B, c, sk) ==
  LET pages == Len(B.page_table)
      fed   == Len(j.pending_input_ids)
  IN
  /\ j.kv_pos <= B.pos
  /\ j.phase = "acquiring" => j.kv_pos = 0 /\ j.output_tokens = << >>
  /\ j.phase = "ready" => /\ pages = CeilPages(B.pos)
                          /\ ~sk => j.kv_pos = B.pos
  /\ j.phase = "appending" => /\ pages = CeilPages(c.at)
                              /\ c.until = B.pos + fed
                              /\ ~sk => j.kv_pos = B.pos
  /\ j.phase = "forward" => /\ pages = CeilPages(B.pos)
                            /\ j.kv_pos + fed <= B.pos
                            /\ ~sk => j.kv_pos + fed = B.pos
  /\ j.phase = "committing" => j.kv_pos = B.pos

JobFits(j, B, c, st, sk) ==
  /\ BlockFits(j, B) /\ CallFits(j, c) /\ StageFits(j, st)
  /\ Held(j) => CountsFit(j) /\ FeedFits(j) /\ PlaceFits(j, B, c, sk)

BlockOf(r) == block[job[r].block_id]

\* Every job fits, no block is shared, and no block is in use and no call is
\* open without a job behind it.  Between batches the pool is at rest.
EachFits == \A r \in Requests : JobFits(job[r], BlockOf(r), call, stage, skewed)
Apart    == \A r, s \in Requests :
              Held(job[r]) /\ job[r].block_id = job[s].block_id => r = s
NoOrphan == \A b \in Blocks : block[b].in_use => \E r \in Requests : job[r].block_id = b
NoStray  == call.op # "idle" => \E r \in Requests : Calling(job[r])
Rested   == stage = "forward" => call = Idle /\ \A b \in Blocks : pending[b] = << >>

JobInv == ServingTypeOK /\ EachFits /\ Apart /\ NoOrphan /\ NoStray /\ Rested

-----------------------------------------------------------------------------
\* The steps of a job are calls and steps of the pool.

\* What is known of a job that has a block.
LEMMA JobFacts ==
  ASSUME TypeInv, JobInv, NEW r \in Requests
  PROVE  /\ job[r] \in RequestJob
         /\ JobFits(job[r], BlockOf(r), call, stage, skewed)
         /\ Held(job[r]) => /\ job[r].block_id \in Blocks
                            /\ BlockOf(r).in_use
         /\ History(r) \in Seq(Token)
         /\ job[r].kv_pos \in Nat
<1>1. job[r] \in RequestJob
  BY DEF JobInv, ServingTypeOK
<1>2. JobFits(job[r], BlockOf(r), call, stage, skewed)
  BY DEF JobInv, EachFits
<1>3. Held(job[r]) => job[r].block_id \in Blocks /\ BlockOf(r).in_use
  BY <1>1, <1>2 DEF JobFits, BlockFits, Held, RequestJob
<1>4. History(r) \in Seq(Token) /\ job[r].kv_pos \in Nat
  BY <1>1 DEF History, RequestJob
<1>5. QED
  BY <1>1, <1>2, <1>3, <1>4

\* The job behind an open call.
LEMMA OwnerCalls ==
  ASSUME TypeInv, JobInv, call.op # "idle"
  PROVE  LET r == OwnerOf(call.block) IN
         /\ r \in Requests /\ Calling(job[r])
         /\ job[r].block_id = call.block /\ call.block \in Blocks
<1>1. PICK r \in Requests : Calling(job[r])
  BY DEF JobInv, NoStray
<1>2. JobFits(job[r], BlockOf(r), call, stage, skewed)
  BY <1>1, JobFacts
<1>3. job[r].block_id = call.block
  BY <1>1, <1>2 DEF JobFits, CallFits
<1>4. call.block \in Blocks
  BY FrameFacts
<1>5. Held(job[r])
  BY <1>3, <1>4, ServingAssumption DEF Held
<1>6. \A s \in Requests : job[s].block_id = call.block => s = r
  BY <1>3, <1>5 DEF JobInv, Apart
<1>7. OwnerOf(call.block) \in Requests /\ job[OwnerOf(call.block)].block_id = call.block
  BY <1>3 DEF OwnerOf
<1>8. OwnerOf(call.block) = r
  BY <1>6, <1>7
<1>9. QED
  BY <1>1, <1>3, <1>4, <1>8

\* Each step of the loop is a call or a step of the pool, or none.
LEMMA ServingStepsPool ==
  ASSUME TypeInv, JobInv, [ServingNext]_allVars
  PROVE  [AnyNext]_vars
<1>1. CASE \E t \in Tenants, q \in Quotas : PushQuota(t, q)
  <2>1. PICK t \in Tenants, q \in Quotas : SetTenantQuota(t, q)
    BY <1>1 DEF PushQuota
  <2>2. q \in Nat \X Nat
    BY PoolAssumption
  <2>3. QED
    BY <2>1, <2>2 DEF AnyNext, AnyEnter
<1>2. CASE CleanupDone \/ InjectDone \/ BatchReady \/ ForwardDone
  BY <1>2 DEF CleanupDone, InjectDone, BatchReady, ForwardDone
<1>3. CASE PoolInternal \/ Match \/ Acquired \/ AppendRefused \/ Appended \/ Committed
  BY <1>3, Zenon DEF PoolInternal, Match, Acquired, AppendRefused, Appended, Committed,
                     AnyNext, LockedStep
<1>4. CASE \E b \in Blocks : Deferred(b)
  BY <1>4 DEF Deferred, AnyNext
<1>5. ASSUME NEW r \in Requests, Cancel(r) \/ ReleaseDone(r)
      PROVE  [AnyNext]_vars
  BY <1>5 DEF Cancel, ReleaseDone, AnyNext, LockedStep
<1>6. ASSUME NEW r \in Requests, Commit(r) PROVE AnyNext
  <2>1. job[r].phase = "finished" /\ CommitBegin(job[r].block_id, job[r].kv_pos, History(r))
    BY <1>6 DEF Commit, Move
  <2>2. /\ JobFits(job[r], BlockOf(r), call, stage, skewed)
        /\ History(r) \in Seq(Token) /\ job[r].kv_pos \in Nat
        /\ Held(job[r]) => job[r].block_id \in Blocks
    BY JobFacts
  <2>3. Held(job[r]) /\ job[r].kv_pos <= BlockOf(r).pos
    BY <2>1, <2>2 DEF JobFits, BlockFits, PlaceFits
  <2>4. QED
    BY <2>1, <2>2, <2>3 DEF AnyNext, AnyEnter, BlockOf
<1>7. ASSUME NEW r \in Requests, Release(r) PROVE AnyNext
  <2>1. job[r].phase = "committed" /\ ReleaseBegin(job[r].block_id)
    BY <1>7 DEF Release, Move
  <2>2. /\ JobFits(job[r], BlockOf(r), call, stage, skewed)
        /\ Held(job[r]) => job[r].block_id \in Blocks
    BY JobFacts
  <2>3. Held(job[r])
    BY <2>1, <2>2 DEF JobFits, BlockFits
  <2>4. QED
    BY <2>1, <2>2, <2>3 DEF AnyNext, AnyEnter
<1>8. ASSUME NEW r \in Requests, NEW t \in Tenants, NEW prompt \in Prompts,
             Inject(r, t, prompt)
      PROVE  AnyNext
  <2>1. prompt \in Seq(Token)
    BY PoolAssumption
  <2>2. QED
    BY <1>8, <2>1 DEF Inject, AnyNext, AnyEnter
<1>9. ASSUME NEW r \in Requests, NEW n \in 1 .. MaxPos, Feed(r, n) PROVE AnyNext
  <2>1. job[r].phase = "ready" /\ AppendBegin(job[r].block_id, n)
    BY <1>9 DEF Feed
  <2>2. /\ JobFits(job[r], BlockOf(r), call, stage, skewed)
        /\ Held(job[r]) => job[r].block_id \in Blocks
    BY JobFacts
  <2>3. Held(job[r]) /\ n \in Nat \ {0}
    BY <2>1, <2>2 DEF JobFits, BlockFits
  <2>4. QED
    BY <2>1, <2>2, <2>3 DEF AnyNext, AnyEnter
<1>10. ASSUME NEW r \in Requests, NEW tok \in Token, NEW eos \in BOOLEAN, Forward(r, tok, eos)
       PROVE  UNCHANGED vars
  BY <1>10, Zenon DEF Forward
<1>11. CASE UNCHANGED allVars
  BY <1>11 DEF allVars
<1>12. QED
  BY <1>1, <1>2, <1>3, <1>4, <1>5, <1>6, <1>7, <1>8, <1>9, <1>10, <1>11 DEF ServingNext

-----------------------------------------------------------------------------
\* Types.

\* A position on a block's pages has a page, an offset and a row.
LEMMA RowPlace ==
  ASSUME TypeInv, NEW b \in Blocks, NEW i \in Nat, i >= 1,
         i <= Len(block[b].page_table) * PageSize
  PROVE  /\ (i - 1) \div PageSize + 1 \in 1 .. Len(block[b].page_table)
         /\ PageAt(b, i) \in Pages /\ OffsetAt(i) \in Offsets
<1> DEFINE m == Len(block[b].page_table)
           q == (i - 1) \div PageSize
<1>1. i - 1 \in Nat /\ m \in Nat /\ block[b].page_table \in Seq(Pages)
  BY FrameFacts
<1>2. q < m /\ q \in Nat
  <2> DEFINE x == m * PageSize
  <2>1. (i - 1 < x => q < m) /\ q \in Nat /\ x \in Nat
    BY <1>1, TokenBefore, PageOfToken, ProductNat
  <2>2. i <= x
    OBVIOUS
  <2> HIDE DEF x, q, m
  <2>3. QED
    BY <2>1, <2>2
<1> HIDE DEF q
<1>3. q + 1 \in 1 .. m
  BY <1>1, <1>2
<1>4. PageAt(b, i) \in Pages
  BY <1>1, <1>3 DEF PageAt, q
<1>5. OffsetAt(i) \in Offsets
  BY <1>1, PoolAssumption DEF OffsetAt, Offsets
<1>6. QED
  BY <1>3, <1>4, <1>5 DEF q

\* The context of rows within a block's pages is a sequence of tokens.
LEMMA ContextType ==
  ASSUME TypeInv, kv \in [Pages -> [Offsets -> Row]],
         NEW b \in Blocks, NEW n \in Nat, n <= Len(block[b].page_table) * PageSize
  PROVE  Context(b, n) \in Seq(Token)
<1> DEFINE seqs == [i \in 1 .. n |-> IF RowAt(b, i) = ZeroRow THEN << >>
                                     ELSE <<Last(RowAt(b, i))>>]
           x == Len(block[b].page_table) * PageSize
<1>1. n <= x /\ x \in Nat
  <2>1. Len(block[b].page_table) \in Nat
    BY FrameFacts
  <2>2. QED
    BY <2>1, ProductNat
<1>2. ASSUME NEW i \in 1 .. n PROVE seqs[i] \in Seq(Token)
  <2>1. i \in Nat /\ i >= 1 /\ i <= x
    <3> HIDE DEF x
    <3>1. QED
      BY <1>1
  <2>2. PageAt(b, i) \in Pages /\ OffsetAt(i) \in Offsets
    BY <2>1, RowPlace
  <2>3. RowAt(b, i) \in Seq(Token)
    BY <2>2 DEF RowAt, Row
  <2>4. RowAt(b, i) # ZeroRow => Last(RowAt(b, i)) \in Token
    BY <2>3 DEF ZeroRow, Last
  <2>5. QED
    BY <2>4
<1>3. seqs \in Seq(Seq(Token))
  <2> HIDE DEF seqs
  <2>1. seqs = [i \in 1 .. n |-> seqs[i]]
    BY DEF seqs
  <2>2. QED
    BY <1>2, <2>1
<1>4. FlattenSeq(seqs) \in Seq(Token)
  BY <1>3, FlattenSeqProperties
<1>5. QED
  BY <1>4 DEF Context

\* So a forward writes rows.
LEMMA ScatteredType ==
  ASSUME TypeInv, kv \in [Pages -> [Offsets -> Row]],
         NEW b \in Blocks, NEW new \in Seq(Token), NEW past \in Nat,
         past <= Len(block[b].page_table) * PageSize
  PROVE  Scattered(b, new, past) \in [Pages -> [Offsets -> Row]]
<1> DEFINE before == Context(b, past)
<1>1. before \in Seq(Token)
  BY ContextType
<1> HIDE DEF before
<1>2. ASSUME NEW p \in Pages, NEW o \in Offsets
      PROVE  Scattered(b, new, past)[p][o] \in Row
  <2> DEFINE here == {i \in past + 1 .. past + Len(new) : PageAt(b, i) = p /\ OffsetAt(i) = o}
  <2>1. Scattered(b, new, past)[p][o] =
          IF here = {} THEN kv[p][o] ELSE before \o SubSeq(new, 1, Max(here) - past)
    BY DEF Scattered, before
  <2>2. CASE here = {}
    BY <2>1, <2>2
  <2>3. CASE here # {}
    <3>1. here \in SUBSET Nat /\ past + Len(new) \in Nat /\ \A x \in here : x <= past + Len(new)
      OBVIOUS
    <3>2. Max(here) \in here
      BY <2>3, <3>1, MaxOfNats
    <3>3. Max(here) - past \in 1 .. Len(new)
      BY <3>2
    <3> HIDE DEF here
    <3>4. SubSeq(new, 1, Max(here) - past) \in Seq(Token)
      BY <3>3
    <3>5. QED
      BY <1>1, <2>1, <2>3, <3>4 DEF Row
  <2>4. QED
    BY <2>2, <2>3
<1>3. Scattered(b, new, past) =
        [p \in Pages |-> [o \in Offsets |-> Scattered(b, new, past)[p][o]]]
  BY DEF Scattered
<1>4. QED
  BY <1>2, <1>3

-----------------------------------------------------------------------------
\* Steps of one job.

\* A job fits as before when neither it nor what it sees of its block changes,
\* nor the call it waits for.
LEMMA StaysFit ==
  ASSUME NEW j, NEW B, NEW c, NEW st, NEW sk, JobFits(j, B, c, st, sk),
         NEW B2, NEW c2, NEW st2, NEW sk2,
         Held(j) => /\ B2.in_use = B.in_use /\ B2.pos = B.pos
                    /\ Len(B2.page_table) = Len(B.page_table),
         Calling(j) => c2 = c,
         StageFits(j, st2),
         sk => sk2
  PROVE  JobFits(j, B2, c2, st2, sk2)
<1>1. BlockFits(j, B2)
  BY DEF JobFits, BlockFits
<1>2. CallFits(j, c2)
  BY DEF JobFits, CallFits, Calling
<1>3. Held(j) => PlaceFits(j, B2, c2, sk2)
  BY DEF JobFits, PlaceFits, Calling
<1>4. QED
  BY <1>1, <1>2, <1>3 DEF JobFits

\* A job with a block that moves to another phase and keeps its tokens.
LEMMA MovedFits ==
  ASSUME NEW j, NEW B, NEW c, NEW st, NEW sk, JobFits(j, B, c, st, sk), Held(j),
         NEW j2, NEW B2, NEW c2, NEW st2, NEW sk2,
         j2.input_ids = j.input_ids, j2.output_tokens = j.output_tokens,
         j2.kv_pos = j.kv_pos, j2.block_id = j.block_id,
         j2.phase \notin {"new", "done"},
         \/ j2.phase \notin {"appending", "forward"}
         \/ j.phase = "appending" /\ j2.pending_input_ids = j.pending_input_ids,
         B2.in_use, CallFits(j2, c2), StageFits(j2, st2), PlaceFits(j2, B2, c2, sk2)
  PROVE  JobFits(j2, B2, c2, st2, sk2)
<1>1. BlockFits(j2, B2) /\ Held(j2)
  BY DEF BlockFits, Held
<1>2. CountsFit(j2)
  BY DEF JobFits, CountsFit
<1>3. FeedFits(j2)
  BY ZenonT(60) DEF JobFits, FeedFits
<1>4. QED
  BY <1>1, <1>2, <1>3 DEF JobFits

\* A job with no tokens but its prompt.
LEMMA JobRecord ==
  ASSUME NEW in \in Seq(Token), NEW b \in Blocks \cup {NoBlock}, NEW ph \in Phase, NEW j,
         j = [input_ids |-> in, output_tokens |-> << >>, pending_input_ids |-> << >>,
              kv_pos |-> 0, block_id |-> b, phase |-> ph]
  PROVE  /\ j \in RequestJob
         /\ j.input_ids = in /\ j.output_tokens = << >> /\ j.kv_pos = 0
         /\ j.block_id = b /\ j.phase = ph
BY DEF RequestJob

\* What a step may do to the job of one request, a, and its block.
ActsFor(a) ==
  /\ \A r \in Requests \ {a} : job'[r] = job[r]
  /\ job'[a].block_id = job[a].block_id
  /\ \A b \in Blocks : b # job[a].block_id => block'[b] = block[b]
  /\ \A b \in Blocks : block'[b].in_use = block[b].in_use
  /\ call' = call \/ call.op = "idle" \/ Calling(job[a])
  /\ stage' = stage
  /\ skewed => skewed'

\* The other jobs fit as before.
LEMMA OthersFit ==
  ASSUME TypeInv, JobInv, NEW a \in Requests,
         \A r \in Requests \ {a} : job'[r] = job[r],
         NEW b, \A r \in Requests \ {a} : Held(job[r]) => job[r].block_id # b,
         \A x \in Blocks : x # b => block'[x] = block[x],
         call' = call \/ call.op = "idle" \/ Calling(job[a]),
         stage' = stage, skewed => skewed'
  PROVE  \A r \in Requests \ {a} : JobFits(job[r], BlockOf(r), call, stage, skewed)'
<1>1. SUFFICES ASSUME NEW r \in Requests \ {a}
               PROVE  JobFits(job'[r], block'[job'[r].block_id], call', stage', skewed')
  BY DEF BlockOf
<1>2. /\ JobFits(job[r], BlockOf(r), call, stage, skewed)
      /\ Held(job[r]) => job[r].block_id \in Blocks
  BY JobFacts
<1>3. job'[r] = job[r]
  OBVIOUS
<1>4. Held(job[r]) => block'[job[r].block_id] = BlockOf(r)
  BY <1>2 DEF BlockOf
<1>5. Calling(job[r]) => call' = call
  <2>1. SUFFICES ASSUME Calling(job[r]) PROVE call.op # "idle" /\ ~Calling(job[a])
    OBVIOUS
  <2>2. call.op # "idle" /\ call.block = job[r].block_id /\ Held(job[r])
    BY <1>2, <2>1 DEF JobFits, CallFits, BlockFits, Calling
  <2>3. Calling(job[a]) => call.block = job[a].block_id /\ Held(job[a])
    BY JobFacts DEF JobFits, CallFits, BlockFits, Calling
  <2>4. QED
    BY <2>2, <2>3 DEF JobInv, Apart
<1>6. StageFits(job[r], stage')
  BY <1>2 DEF JobFits
<1>7. JobFits(job[r], block'[job[r].block_id], call', stage', skewed')
  BY <1>2, <1>4, <1>5, <1>6, StaysFit
<1>8. QED
  BY <1>3, <1>7

\* So such a step keeps the invariant when the job it acts for fits.
LEMMA ActorStep ==
  ASSUME TypeInv, JobInv, NEW a \in Requests, ActsFor(a),
         ServingTypeOK', NoStray', Rested',
         JobFits(job'[a], block'[job'[a].block_id], call', stage', skewed')
  PROVE  JobInv'
<1>1. \A r \in Requests \ {a} : Held(job[r]) => job[r].block_id # job[a].block_id
  BY DEF JobInv, Apart
<1>2. \A r \in Requests \ {a} : JobFits(job[r], BlockOf(r), call, stage, skewed)'
  BY <1>1, OthersFit DEF ActsFor
<1>3. EachFits'
  BY <1>2 DEF EachFits, BlockOf
<1>4. \A r \in Requests : job'[r].block_id = job[r].block_id
  BY DEF ActsFor
<1>5. Apart'
  BY <1>4 DEF JobInv, Apart, Held
<1>6. NoOrphan'
  BY <1>4 DEF JobInv, NoOrphan, ActsFor
<1>7. QED
  BY <1>3, <1>5, <1>6 DEF JobInv

\* A job that only moves to another phase.
LEMMA MoveEffect ==
  ASSUME job \in [Requests -> RequestJob], NEW r \in Requests,
         NEW from, NEW to \in Phase, Move(r, from, to)
  PROVE  /\ job[r].phase = from
         /\ job' \in [Requests -> RequestJob]
         /\ job'[r] = [job[r] EXCEPT !.phase = to]
         /\ job'[r].phase = to
         /\ job'[r].input_ids = job[r].input_ids
         /\ job'[r].output_tokens = job[r].output_tokens
         /\ job'[r].pending_input_ids = job[r].pending_input_ids
         /\ job'[r].kv_pos = job[r].kv_pos
         /\ job'[r].block_id = job[r].block_id
         /\ \A s \in Requests \ {r} : job'[s] = job[s]
BY DEF Move, RequestJob

\* The client of a running job went away.
LEMMA CancelStep ==
  ASSUME TypeInv, JobInv, NEW r \in Requests, Cancel(r)
  PROVE  JobInv'
<1>1. /\ Move(r, "ready", "finished") /\ call = Idle
      /\ UNCHANGED <<vars, kv, stage, mismatched, skewed>>
  BY DEF Cancel
<1>2. UNCHANGED <<block, call, pending>>
  BY <1>1 DEF vars
<1>3. /\ job[r].phase = "ready" /\ job'[r].phase = "finished"
      /\ job' \in [Requests -> RequestJob]
      /\ job'[r].input_ids = job[r].input_ids
      /\ job'[r].output_tokens = job[r].output_tokens
      /\ job'[r].kv_pos = job[r].kv_pos
      /\ job'[r].block_id = job[r].block_id
      /\ \A s \in Requests \ {r} : job'[s] = job[s]
  BY <1>1, MoveEffect DEF JobInv, ServingTypeOK, Phase
<1>4. JobFits(job[r], BlockOf(r), call, stage, skewed)
  BY JobFacts
<1>5. JobFits(job'[r], block'[job'[r].block_id], call', stage', skewed')
  <2>1. Held(job[r]) /\ BlockOf(r).in_use /\ job[r].kv_pos <= BlockOf(r).pos
    BY <1>3, <1>4 DEF JobFits, BlockFits, PlaceFits
  <2>2. block'[job'[r].block_id] = BlockOf(r)
    BY <1>2, <1>3 DEF BlockOf
  <2>3. CallFits(job'[r], call') /\ StageFits(job'[r], stage')
    BY <1>3 DEF CallFits, StageFits, Calling, Leaving
  <2>4. PlaceFits(job'[r], block'[job'[r].block_id], call', skewed')
    BY <1>3, <2>1, <2>2 DEF PlaceFits
  <2>5. QED
    BY <1>3, <1>4, <2>1, <2>2, <2>3, <2>4, MovedFits
<1>6. ActsFor(r)
  BY <1>1, <1>2, <1>3 DEF ActsFor
<1>7. ServingTypeOK'
  BY <1>1, <1>3 DEF JobInv, ServingTypeOK
<1>8. NoStray' /\ Rested'
  BY <1>1, <1>2 DEF NoStray, Rested, Idle, JobInv
<1>9. QED
  BY <1>5, <1>6, <1>7, <1>8, ActorStep

\* What entering Commit does to its block.
LEMMA CommitBeginEffect ==
  ASSUME TypeInv, NEW b \in Blocks, NEW new, NEW tokens, CommitBegin(b, new, tokens)
  PROVE  /\ call = Idle /\ call' = Open("commit", b, 0, 0, << >>)
         /\ block'[b].pos = new /\ block'[b].in_use = block[b].in_use
         /\ block'[b].page_table = block[b].page_table
         /\ tokens # << >> =>
              block'[b].prefix = SubSeq(tokens, 1, IF Len(tokens) < PrefixTrack
                                                   THEN Len(tokens) ELSE PrefixTrack)
         /\ \A x \in Blocks : x # b => block'[x] = block[x]
         /\ UNCHANGED <<page, tenants, globalFree, index, lastUsed, pending, misfiled>>
<1>1. call = Idle /\ call' = Open("commit", b, 0, 0, << >>)
  BY DEF CommitBegin, MayCall
<1>2. block \in [Blocks -> RequestBlock]
  BY DEF TypeInv, TypeOK
<1>3. PICK kept :
        /\ block' = [block EXCEPT ![b].pos = new, ![b].prefix = kept]
        /\ tokens # << >> =>
             kept = SubSeq(tokens, 1, IF Len(tokens) < PrefixTrack
                                      THEN Len(tokens) ELSE PrefixTrack)
  BY DEF CommitBegin
<1>4. UNCHANGED <<page, tenants, globalFree, index, lastUsed, pending, misfiled>>
  BY DEF CommitBegin
<1>5. QED
  BY <1>1, <1>2, <1>3, <1>4 DEF RequestBlock

\* The cleanup commits a finished job.
LEMMA CommitStep ==
  ASSUME TypeInv, JobInv, NEW r \in Requests, Commit(r)
  PROVE  JobInv'
<1> DEFINE b == job[r].block_id
<1>1. /\ Move(r, "finished", "committing") /\ stage = "cleanup"
      /\ CommitBegin(b, job[r].kv_pos, History(r))
      /\ UNCHANGED <<kv, stage, mismatched, skewed>>
  BY DEF Commit
<1>2. /\ job[r].phase = "finished" /\ job'[r].phase = "committing"
      /\ job' \in [Requests -> RequestJob]
      /\ job'[r].input_ids = job[r].input_ids
      /\ job'[r].output_tokens = job[r].output_tokens
      /\ job'[r].kv_pos = job[r].kv_pos
      /\ job'[r].block_id = job[r].block_id
      /\ \A s \in Requests \ {r} : job'[s] = job[s]
  BY <1>1, MoveEffect DEF JobInv, ServingTypeOK, Phase
<1>3. /\ JobFits(job[r], BlockOf(r), call, stage, skewed) /\ job[r].kv_pos \in Nat
      /\ Held(job[r]) => b \in Blocks
  BY JobFacts
<1>4. Held(job[r]) /\ b \in Blocks
  BY <1>2, <1>3 DEF JobFits, BlockFits
<1>5. /\ call = Idle /\ call' = Open("commit", b, 0, 0, << >>)
      /\ block'[b].pos = job[r].kv_pos /\ block'[b].in_use = block[b].in_use
      /\ \A x \in Blocks : x # b => block'[x] = block[x]
  BY <1>1, <1>4, CommitBeginEffect
<1>6. call.op = "idle" /\ call'.op = "commit" /\ call'.block = b
  BY <1>5 DEF Idle, Open
<1>7. JobFits(job'[r], block'[job'[r].block_id], call', stage', skewed')
  <2>1. block[b].in_use
    BY <1>3, <1>4 DEF JobFits, BlockFits, BlockOf
  <2>2. CallFits(job'[r], call') /\ StageFits(job'[r], stage')
    BY <1>1, <1>2, <1>6 DEF CallFits, StageFits, Calling, Leaving
  <2>3. PlaceFits(job'[r], block'[b], call', skewed')
    BY <1>2, <1>3, <1>5 DEF PlaceFits
  <2>4. JobFits(job'[r], block'[b], call', stage', skewed')
    BY <1>2, <1>3, <1>4, <1>5, <2>1, <2>2, <2>3, MovedFits
  <2>5. QED
    BY <1>2, <2>4
<1>8. ActsFor(r)
  BY <1>1, <1>2, <1>5, <1>6 DEF ActsFor
<1>9. ServingTypeOK'
  BY <1>1, <1>2 DEF JobInv, ServingTypeOK
<1>10. NoStray' /\ Rested'
  BY <1>1, <1>2 DEF NoStray, Rested, Calling
<1>11. QED
  BY <1>7, <1>8, <1>9, <1>10, ActorStep

\* Commit returns.
LEMMA CommittedStep ==
  ASSUME TypeInv, JobInv, Committed
  PROVE  JobInv'
<1>0. PICK r : r = OwnerOf(call.block)
  OBVIOUS
<1>1. /\ Move(r, "committing", "committed") /\ call.op = "commit" /\ call' = Idle
      /\ UNCHANGED <<kv, stage, mismatched, skewed, block, pending>>
  BY <1>0 DEF Committed, CommitReturn, Return
<1>2. r \in Requests /\ Calling(job[r])
  BY <1>0, <1>1, OwnerCalls
<1>3. /\ job[r].phase = "committing" /\ job'[r].phase = "committed"
      /\ job' \in [Requests -> RequestJob]
      /\ job'[r].input_ids = job[r].input_ids
      /\ job'[r].output_tokens = job[r].output_tokens
      /\ job'[r].kv_pos = job[r].kv_pos
      /\ job'[r].block_id = job[r].block_id
      /\ \A s \in Requests \ {r} : job'[s] = job[s]
  BY <1>1, <1>2, MoveEffect DEF JobInv, ServingTypeOK, Phase
<1>4. JobFits(job[r], BlockOf(r), call, stage, skewed)
  BY <1>2, JobFacts
<1>5. stage = "cleanup"
  BY <1>3, <1>4 DEF JobFits, StageFits, Leaving
<1>6. JobFits(job'[r], block'[job'[r].block_id], call', stage', skewed')
  <2>1. Held(job[r]) /\ BlockOf(r).in_use /\ job[r].kv_pos <= BlockOf(r).pos
    BY <1>3, <1>4 DEF JobFits, BlockFits, PlaceFits
  <2>2. block'[job'[r].block_id] = BlockOf(r)
    BY <1>1, <1>3 DEF BlockOf
  <2>3. CallFits(job'[r], call') /\ StageFits(job'[r], stage')
    BY <1>1, <1>3, <1>5 DEF CallFits, StageFits, Calling, Leaving
  <2>4. PlaceFits(job'[r], block'[job'[r].block_id], call', skewed')
    BY <1>3, <2>1, <2>2 DEF PlaceFits
  <2>5. QED
    BY <1>3, <1>4, <2>1, <2>2, <2>3, <2>4, MovedFits
<1>7. ActsFor(r)
  BY <1>1, <1>2, <1>3 DEF ActsFor
<1>8. ServingTypeOK'
  BY <1>1, <1>3 DEF JobInv, ServingTypeOK
<1>9. NoStray' /\ Rested'
  BY <1>1, <1>5 DEF NoStray, Rested, Idle
<1>10. QED
  BY <1>2, <1>6, <1>7, <1>8, <1>9, ActorStep

\* The cleanup releases a committed job.
LEMMA ReleaseStep ==
  ASSUME TypeInv, JobInv, NEW r \in Requests, Release(r)
  PROVE  JobInv'
<1>1. /\ Move(r, "committed", "releasing") /\ call = Idle
      /\ call' = Open("release", job[r].block_id, 0, 0, << >>)
      /\ UNCHANGED <<kv, stage, mismatched, skewed, block, pending>>
  BY DEF Release, ReleaseBegin, MayCall
<1>2. /\ job[r].phase = "committed" /\ job'[r].phase = "releasing"
      /\ job' \in [Requests -> RequestJob]
      /\ job'[r].input_ids = job[r].input_ids
      /\ job'[r].output_tokens = job[r].output_tokens
      /\ job'[r].kv_pos = job[r].kv_pos
      /\ job'[r].block_id = job[r].block_id
      /\ \A s \in Requests \ {r} : job'[s] = job[s]
  BY <1>1, MoveEffect DEF JobInv, ServingTypeOK, Phase
<1>3. JobFits(job[r], BlockOf(r), call, stage, skewed)
  BY JobFacts
<1>4. stage = "cleanup"
  BY <1>2, <1>3 DEF JobFits, StageFits, Leaving
<1>5. call.op = "idle" /\ call'.op = "release" /\ call'.block = job[r].block_id
  BY <1>1 DEF Idle, Open
<1>6. JobFits(job'[r], block'[job'[r].block_id], call', stage', skewed')
  <2>1. Held(job[r]) /\ BlockOf(r).in_use /\ job[r].kv_pos <= BlockOf(r).pos
    BY <1>2, <1>3 DEF JobFits, BlockFits, PlaceFits
  <2>2. block'[job'[r].block_id] = BlockOf(r)
    BY <1>1, <1>2 DEF BlockOf
  <2>3. CallFits(job'[r], call') /\ StageFits(job'[r], stage')
    BY <1>1, <1>2, <1>4, <1>5 DEF CallFits, StageFits, Calling, Leaving
  <2>4. PlaceFits(job'[r], block'[job'[r].block_id], call', skewed')
    BY <1>2, <2>1, <2>2 DEF PlaceFits
  <2>5. QED
    BY <1>2, <1>3, <2>1, <2>2, <2>3, <2>4, MovedFits
<1>7. ActsFor(r)
  BY <1>1, <1>2, <1>5 DEF ActsFor
<1>8. ServingTypeOK'
  BY <1>1, <1>2 DEF JobInv, ServingTypeOK
<1>9. NoStray' /\ Rested'
  BY <1>1, <1>2, <1>4 DEF NoStray, Rested, Calling
<1>10. QED
  BY <1>6, <1>7, <1>8, <1>9, ActorStep

\* A release returns: the job is over and its block is free.
LEMMA ReleaseDoneStep ==
  ASSUME TypeInv, JobInv, NEW r \in Requests, ReleaseDone(r)
  PROVE  JobInv'
<1> DEFINE b == job[r].block_id
           over == [NewJob EXCEPT !.phase = "done"]
<1>1. /\ job[r].phase = "releasing" /\ ReleaseReturn
      /\ job' = [job EXCEPT ![r] = over]
      /\ UNCHANGED <<kv, stage, mismatched, skewed>>
  BY DEF ReleaseDone
<1>2. /\ JobFits(job[r], BlockOf(r), call, stage, skewed)
      /\ Held(job[r]) => b \in Blocks
  BY JobFacts
<1>3. stage = "cleanup" /\ call.block = b /\ Held(job[r]) /\ b \in Blocks /\ Calling(job[r])
  BY <1>1, <1>2 DEF JobFits, StageFits, CallFits, BlockFits, Calling, Leaving
<1>4. /\ over \in RequestJob /\ over.block_id = NoBlock /\ over.phase = "done"
  <2>1. over = [input_ids |-> << >>, output_tokens |-> << >>, pending_input_ids |-> << >>,
                kv_pos |-> 0, block_id |-> NoBlock, phase |-> "done"]
    BY DEF NewJob
  <2>2. "done" \in Phase /\ NoBlock \in Blocks \cup {NoBlock} /\ << >> \in Seq(Token)
    BY DEF Phase
  <2> HIDE DEF over
  <2>3. QED
    BY <2>1, <2>2, JobRecord, ZenonT(60)
<1> HIDE DEF over
<1>5. /\ job' \in [Requests -> RequestJob] /\ job'[r] = over
      /\ \A s \in Requests \ {r} : job'[s] = job[s]
  BY <1>1, <1>4 DEF JobInv, ServingTypeOK
<1>6. /\ call' = Idle /\ ~block'[b].in_use
      /\ \A x \in Blocks : x # b => block'[x] = block[x]
      /\ UNCHANGED pending
  BY <1>1, <1>3 DEF ReleaseReturn, Return, TypeInv, TypeOK, RequestBlock
<1>7. \A s \in Requests \ {r} : Held(job[s]) => job[s].block_id # b
  BY DEF JobInv, Apart
<1>8. \A s \in Requests \ {r} : JobFits(job[s], BlockOf(s), call, stage, skewed)'
  BY <1>1, <1>3, <1>5, <1>6, <1>7, OthersFit
<1>9. JobFits(job'[r], block'[job'[r].block_id], call', stage', skewed')
  BY <1>4, <1>5 DEF JobFits, BlockFits, CallFits, StageFits, Held, Calling, Leaving
<1>10. EachFits'
  BY <1>8, <1>9 DEF EachFits, BlockOf
<1>11. Apart'
  <2>1. ~Held(job'[r])
    BY <1>4, <1>5 DEF Held
  <2>2. SUFFICES ASSUME NEW s \in Requests, NEW u \in Requests, Held(job'[s]),
                        job'[s].block_id = job'[u].block_id
                 PROVE  s = u
    BY DEF Apart, Held
  <2>3. Held(job'[u]) /\ s # r /\ u # r
    BY <2>1, <2>2 DEF Held
  <2>4. QED
    BY <1>5, <2>2, <2>3 DEF JobInv, Apart
<1>12. NoOrphan'
  <2>1. SUFFICES ASSUME NEW x \in Blocks, block'[x].in_use
                 PROVE  \E s \in Requests : job'[s].block_id = x
    BY DEF NoOrphan
  <2>2. x # b /\ block[x].in_use
    BY <1>6, <2>1
  <2>3. PICK s \in Requests : job[s].block_id = x
    BY <2>2 DEF JobInv, NoOrphan
  <2>4. QED
    BY <1>5, <2>2, <2>3
<1>13. ServingTypeOK'
  BY <1>1, <1>5 DEF JobInv, ServingTypeOK
<1>14. NoStray' /\ Rested'
  BY <1>1, <1>3, <1>6 DEF NoStray, Rested, Idle
<1>15. QED
  BY <1>10, <1>11, <1>12, <1>13, <1>14 DEF JobInv

\* A new job gets a block that is nobody's.
LEMMA InjectStep ==
  ASSUME TypeInv, JobInv, NEW r \in Requests, NEW t \in Tenants, NEW prompt \in Prompts,
         Inject(r, t, prompt)
  PROVE  JobInv'
<1>1. /\ stage = "inject" /\ job[r].phase = "new" /\ AcquireBegin(t, prompt)
      /\ job' = [job EXCEPT ![r] = [NewJob EXCEPT !.input_ids = prompt,
                                                  !.block_id = call'.block,
                                                  !.phase = "acquiring"]]
      /\ UNCHANGED <<kv, stage, mismatched, skewed>>
  BY DEF Inject
<1>2. PICK b \in FreeSlots : /\ block' = [block EXCEPT ![b] = NewBlock(t)]
                             /\ call' = Open("acquire", b, 0, 0, prompt)
  BY <1>1, FreeSlotIsBlock DEF AcquireBegin
<1>3. /\ b \in Blocks /\ ~block[b].in_use
      /\ block'[b].in_use /\ block'[b].pos = 0
      /\ \A x \in Blocks : x # b => block'[x] = block[x]
  BY <1>2 DEF FreeSlots, NewBlock, TypeInv, TypeOK
<1>4. /\ call'.op = "acquire" /\ call'.block = b /\ call'.at = 0 /\ call'.tokens = prompt
      /\ call.op = "idle" /\ UNCHANGED pending
  BY <1>1, <1>2 DEF AcquireBegin, Idle, Open
<1>5. PICK new : /\ new = [NewJob EXCEPT !.input_ids = prompt, !.block_id = b,
                                          !.phase = "acquiring"]
                 /\ job' = [job EXCEPT ![r] = new]
  BY <1>1, <1>4
<1>6. prompt \in Seq(Token) /\ prompt # << >> /\ Len(prompt) \in Nat \ {0}
  <2>1. prompt \in Seq(Token) /\ prompt # << >>
    BY PoolAssumption, ServingAssumption
  <2>2. QED
    BY <2>1
<1>7. /\ new \in RequestJob /\ new.input_ids = prompt /\ new.output_tokens = << >>
      /\ new.kv_pos = 0 /\ new.block_id = b /\ new.phase = "acquiring"
  <2>1. new = [input_ids |-> prompt, output_tokens |-> << >>, pending_input_ids |-> << >>,
               kv_pos |-> 0, block_id |-> b, phase |-> "acquiring"]
    BY <1>5 DEF NewJob
  <2>2. "acquiring" \in Phase /\ b \in Blocks \cup {NoBlock} /\ prompt \in Seq(Token)
    BY <1>3, <1>6 DEF Phase
  <2>3. QED
    BY <2>1, <2>2, JobRecord
<1>8. /\ job' \in [Requests -> RequestJob] /\ job'[r] = new
      /\ \A s \in Requests \ {r} : job'[s] = job[s]
  BY <1>5, <1>7 DEF JobInv, ServingTypeOK
<1>9. b # NoBlock
  BY <1>3, ServingAssumption
<1>10. \A s \in Requests : Held(job[s]) => job[s].block_id # b
  BY <1>3, JobFacts DEF BlockOf
<1>11. \A s \in Requests \ {r} : JobFits(job[s], BlockOf(s), call, stage, skewed)'
  BY <1>1, <1>3, <1>4, <1>8, <1>10, OthersFit
<1>12. JobFits(job'[r], block'[job'[r].block_id], call', stage', skewed')
  <2>1. BlockFits(new, block'[b])
    BY <1>3, <1>7, <1>9 DEF BlockFits, Held
  <2>2. CallFits(new, call') /\ StageFits(new, stage')
    BY <1>1, <1>4, <1>7 DEF CallFits, StageFits, Calling, Leaving
  <2>3. CountsFit(new) /\ FeedFits(new)
    BY <1>6, <1>7 DEF CountsFit, FeedFits
  <2>4. PlaceFits(new, block'[b], call', skewed')
    BY <1>3, <1>7 DEF PlaceFits
  <2>5. QED
    BY <1>7, <1>8, <2>1, <2>2, <2>3, <2>4 DEF JobFits
<1>13. EachFits'
  BY <1>11, <1>12 DEF EachFits, BlockOf
<1>14. Apart'
  <2>1. \A s \in Requests \ {r} : job[s].block_id # b
    BY <1>9, <1>10 DEF Held
  <2>2. QED
    BY <1>7, <1>8, <2>1 DEF JobInv, Apart, Held
<1>15. NoOrphan'
  <2>1. SUFFICES ASSUME NEW x \in Blocks, block'[x].in_use
                 PROVE  \E s \in Requests : job'[s].block_id = x
    BY DEF NoOrphan
  <2>2. CASE x = b
    BY <1>7, <1>8, <2>2
  <2>3. CASE x # b
    <3>1. PICK s \in Requests : job[s].block_id = x
      BY <1>3, <2>1, <2>3 DEF JobInv, NoOrphan
    <3>2. Held(job[s])
      BY <3>1, ServingAssumption DEF Held
    <3>3. ~Held(job[r])
      BY <1>1, JobFacts DEF JobFits, BlockFits
    <3>4. QED
      BY <1>8, <3>1, <3>2, <3>3
  <2>4. QED
    BY <2>2, <2>3
<1>16. ServingTypeOK'
  BY <1>1, <1>8 DEF JobInv, ServingTypeOK
<1>17. NoStray' /\ Rested'
  BY <1>1, <1>7, <1>8 DEF NoStray, Rested, Calling
<1>18. QED
  BY <1>13, <1>14, <1>15, <1>16, <1>17 DEF JobInv

\* What one turn of a loop of the pool does to the frame and to its block.
LEMMA LoopEffect ==
  ASSUME TypeInv, Within,
         AcquireMatch \/ ReleasePage \/ AppendNewPage \/ AppendFork \/ AppendInPlace \/ CommitPage,
         NEW c, c = call.block
  PROVE  /\ call.op # "idle" /\ call'.op = call.op /\ call'.block = c
         /\ call'.until = call.until /\ call'.tokens = call.tokens
         /\ block'[c].in_use = block[c].in_use /\ block'[c].pos = block[c].pos
         /\ block'[c].prefix = block[c].prefix
         /\ \A x \in Blocks : x # c => block'[x] = block[x]
         /\ UNCHANGED pending
<1>1. call \in Frame /\ c \in Blocks /\ block \in [Blocks -> RequestBlock]
  BY FrameFacts DEF TypeInv, TypeOK
<1>2. UNCHANGED pending /\ call.op # "idle"
  BY Zenon DEF AcquireMatch, ReleasePage, AppendNewPage, AppendFork, AppendInPlace, CommitPage,
               Appending
<1>3. \/ block' = block
      \/ \E v : block' = [block EXCEPT ![c].page_table = v]
  <2>1. CASE AcquireMatch
    BY <2>1, AcquireMatchEffect
  <2>2. CASE ReleasePage \/ AppendInPlace \/ CommitPage
    BY <2>2, Zenon DEF ReleasePage, AppendInPlace, CommitPage
  <2>3. CASE AppendNewPage
    BY <2>3, Zenon DEF AppendNewPage
  <2>4. CASE AppendFork
    <3>1. PICK np \in Pages : block' = [block EXCEPT ![c].page_table[Logical] = np]
      BY <2>4, Zenon DEF AppendFork
    <3>2. block' = [block EXCEPT ![c].page_table = [block[c].page_table EXCEPT ![Logical] = np]]
      BY <3>1
    <3>3. QED
      BY <3>2
  <2>5. QED
    BY <2>1, <2>2, <2>3, <2>4
<1>4. /\ block'[c].in_use = block[c].in_use /\ block'[c].pos = block[c].pos
      /\ block'[c].prefix = block[c].prefix
      /\ \A x \in Blocks : x # c => block'[x] = block[x]
  <2>1. CASE block' = block
    BY <2>1
  <2>2. ASSUME NEW v, block' = [block EXCEPT ![c].page_table = v] PROVE <1>4!:
    BY <1>1, <2>2 DEF RequestBlock
  <2>3. QED
    BY <1>3, <2>1, <2>2
<1>5. \/ \E a : call' = [call EXCEPT !.at = a]
      \/ \E a, w : call' = [call EXCEPT !.at = a, !.work = w]
  BY Zenon DEF AcquireMatch, ReleasePage, AppendNewPage, AppendFork, AppendInPlace, CommitPage
<1>6. /\ call'.op = call.op /\ call'.block = c
      /\ call'.until = call.until /\ call'.tokens = call.tokens
  BY <1>1, <1>5 DEF Frame
<1>7. QED
  BY <1>2, <1>4, <1>6

\* The loop of Append keeps its table as long as the tokens before its cursor need.
LEMMA AppendPages ==
  ASSUME TypeInv, Within, AppendNewPage \/ AppendFork \/ AppendInPlace,
         Len(block[call.block].page_table) = CeilPages(call.at)
  PROVE  Len(block'[call.block].page_table) = CeilPages(call'.at)
<1> DEFINE c == call.block
           a == call.at
           m == Len(block[c].page_table)
           n == Len(block'[c].page_table)
<1>1. Appending /\ c \in Blocks /\ block \in [Blocks -> RequestBlock] /\ call \in Frame
      /\ block[c].page_table \in Seq(Pages) /\ m \in Nat /\ a \in Nat
  <2>1. Appending
    BY DEF AppendNewPage, AppendFork, AppendInPlace
  <2>2. QED
    BY <2>1, FrameFacts DEF TypeInv, TypeOK
<1>2. /\ a < NextPage /\ NextPage <= Logical * PageSize
      /\ Logical \in Nat \ {0} /\ NextPage \in Nat
  BY <1>1, NextPageBounds
<1>3. CeilPages(NextPage) = Logical
  <2> DEFINE q == a \div PageSize
             x == q * PageSize
             y == Logical * PageSize
  <2>1. q \in Nat /\ x <= a /\ Logical = q + 1 /\ x \in Nat /\ PageSize \in Nat
    BY <1>1, PageOfToken, ProductNat, PoolAssumption DEF Logical
  <2>2. y = x + PageSize /\ y \in Nat
    BY <2>1
  <2> HIDE DEF q, x, a
  <2>3. y < NextPage + PageSize
    <3> HIDE DEF y
    <3>1. QED
      BY <1>1, <1>2, <2>1, <2>2
  <2>4. QED
    BY <1>2, <2>3, CeilUnique
<1>4. call'.at = NextPage
  <2>1. \/ call' = [call EXCEPT !.at = NextPage]
        \/ \E w : call' = [call EXCEPT !.at = NextPage, !.work = w]
    BY Zenon DEF AppendNewPage, AppendFork, AppendInPlace
  <2>2. QED
    BY <1>1, <2>1 DEF Frame
<1>5. CASE AppendNewPage
  <2>1. PICK p \in Pages : block' = [block EXCEPT ![c].page_table = Append(@, p)]
    BY <1>5, Zenon DEF AppendNewPage
  <2>2. block'[c].page_table = Append(block[c].page_table, p)
    BY <1>1, <2>1 DEF RequestBlock
  <2>3. n = m + 1
    BY <1>1, <2>1, <2>2
  <2>4. Logical = m + 1
    BY <1>1, <1>5, NeededIsNext DEF AppendNewPage
  <2>5. QED
    BY <1>3, <1>4, <2>3, <2>4
<1>6. CASE AppendFork \/ AppendInPlace
  <2>1. ~NeedsPage
    BY <1>6, Zenon DEF AppendFork, AppendInPlace, NeedsFork
  <2>2. Logical \in 1 .. m
    BY <1>1, <2>1, AppendFacts DEF Table
  <2>3. n = m
    <3>1. CASE AppendInPlace
      BY <3>1 DEF AppendInPlace
    <3>2. CASE AppendFork
      <4>1. PICK np \in Pages : block' = [block EXCEPT ![c].page_table[Logical] = np]
        BY <3>2, Zenon DEF AppendFork
      <4>2. block'[c].page_table = [block[c].page_table EXCEPT ![Logical] = np]
        BY <1>1, <4>1 DEF RequestBlock
      <4>3. QED
        BY <1>1, <4>1, <4>2
    <3>3. QED
      BY <1>6, <3>1, <3>2
  <2>4. m <= Logical
    <3> DEFINE q == a \div PageSize
               k == q + 2
               x == (q + 1) * PageSize
               y == m * PageSize
               z == k * PageSize
    <3>1. q \in Nat /\ k \in Nat /\ a < x /\ Logical = q + 1 /\ PageSize \in Nat
      <4>1. a \in Nat
        BY <1>1
      <4>2. q \in Nat /\ a < x
        BY <4>1, PageOfToken
      <4>3. Logical = q + 1
        BY DEF Logical
      <4>4. k \in Nat
        BY <4>2
      <4>5. QED
        BY <4>2, <4>3, <4>4, PoolAssumption
    <3>2. y < a + PageSize
      BY <1>1, CeilBounds
    <3>3. z = x + PageSize
      BY <3>1
    <3>4. x \in Nat /\ y \in Nat /\ z \in Nat
      <4>1. q + 1 \in Nat /\ k \in Nat /\ m \in Nat
        BY <1>1, <3>1
      <4> HIDE DEF q, k, m
      <4>2. QED
        BY ONLY <4>1, ProductNat
    <3> HIDE DEF k, m
    <3>5. k <= m => z <= y
      BY <1>1, <3>1, PagesWithin
    <3> HIDE DEF q, x, y, z, a
    <3>6. ~(k <= m)
      BY <1>1, <3>1, <3>2, <3>3, <3>4, <3>5
    <3>7. QED
      BY <1>1, <3>1, <3>6 DEF k
  <2>5. QED
    BY <1>1, <1>2, <1>3, <1>4, <2>2, <2>3, <2>4
<1>7. QED
  BY <1>5, <1>6

\* The loops turn on behalf of the job that made the call.
LEMMA LoopStep ==
  ASSUME TypeInv, Within, JobInv,
         AcquireMatch \/ ReleasePage \/ AppendNewPage \/ AppendFork \/ AppendInPlace \/ CommitPage,
         UNCHANGED <<kv, job, stage, skewed>>, mismatched' \in BOOLEAN
  PROVE  JobInv'
<1>0. PICK r, c : r = OwnerOf(call.block) /\ c = call.block
  OBVIOUS
<1>1. /\ call.op # "idle" /\ call'.op = call.op /\ call'.block = c
      /\ call'.until = call.until /\ call'.tokens = call.tokens
      /\ block'[c].in_use = block[c].in_use /\ block'[c].pos = block[c].pos
      /\ \A x \in Blocks : x # c => block'[x] = block[x]
      /\ UNCHANGED pending
  BY <1>0, LoopEffect
<1>2. r \in Requests /\ Calling(job[r]) /\ job[r].block_id = c /\ c \in Blocks
  BY <1>0, <1>1, OwnerCalls
<1>3. /\ JobFits(job[r], BlockOf(r), call, stage, skewed) /\ BlockOf(r) = block[c]
      /\ Held(job[r])
  BY <1>2, JobFacts DEF BlockOf, JobFits, BlockFits, Calling
<1>4. CallFits(job[r], call')
  BY <1>1, <1>2, <1>3 DEF JobFits, CallFits
<1>5. PlaceFits(job[r], block'[c], call', skewed)
  <2>1. job[r].phase = "appending" =>
          AppendNewPage \/ AppendFork \/ AppendInPlace
    <3>1. job[r].phase = "appending" => call.op = "append"
      BY <1>3 DEF JobFits, CallFits
    <3>2. QED
      BY <3>1 DEF AcquireMatch, ReleasePage, CommitPage
  <2>2. job[r].phase = "appending" => Len(block[c].page_table) = CeilPages(call.at)
    BY <1>3 DEF JobFits, PlaceFits
  <2>3. job[r].phase = "appending" => Len(block'[c].page_table) = CeilPages(call'.at)
    BY <1>0, <2>1, <2>2, AppendPages
  <2>4. PlaceFits(job[r], block[c], call, skewed) /\ job[r].phase \notin {"ready", "forward"}
    BY <1>2, <1>3 DEF JobFits, Calling
  <2>5. QED
    BY <1>1, <2>3, <2>4 DEF PlaceFits
<1>6. JobFits(job[r], block'[c], call', stage, skewed)
  <2>1. BlockFits(job[r], block'[c])
    BY <1>1, <1>3 DEF JobFits, BlockFits
  <2>2. QED
    BY <1>3, <1>4, <1>5, <2>1 DEF JobFits
<1>7. ActsFor(r)
  BY <1>1, <1>2 DEF ActsFor
<1>8. ServingTypeOK'
  BY DEF JobInv, ServingTypeOK
<1>9. NoStray' /\ Rested'
  <2>1. NoStray'
    BY <1>2 DEF NoStray
  <2>2. stage # "forward"
    BY <1>1 DEF JobInv, Rested, Idle
  <2>3. QED
    BY <2>1, <2>2 DEF Rested
<1>10. QED
  BY <1>2, <1>6, <1>7, <1>8, <1>9, ActorStep

\* Acquire returns: the job starts behind what matched, with one token to feed.
LEMMA AcquiredStep ==
  ASSUME TypeInv, Bounded, JobInv, Acquired
  PROVE  JobInv'
<1>0. PICK r, c : r = OwnerOf(call.block) /\ c = call.block
  OBVIOUS
<1> DEFINE matched == call.at * PageSize
           unfed   == Len(job[r].input_ids)
           k       == StartPos(matched, unfed)
<1>1. /\ AcquireReturn /\ call.op = "acquire" /\ call' = Idle
      /\ job' = [job EXCEPT ![r] = [job[r] EXCEPT !.kv_pos = k, !.phase = "ready"]]
      /\ skewed' = (skewed \/ matched >= unfed)
      /\ UNCHANGED <<kv, stage, mismatched, pending>>
  <2>1. /\ AcquireReturn /\ call.op = "acquire" /\ call' = Idle
        /\ job' = [job EXCEPT ![r].kv_pos = k, ![r].phase = "ready"]
        /\ skewed' = (skewed \/ matched >= unfed)
        /\ UNCHANGED <<kv, stage, mismatched, pending>>
    BY <1>0 DEF Acquired, AcquireReturn, Return
  <2> HIDE DEF k
  <2>2. QED
    BY <2>1, Zenon
<1>2. r \in Requests /\ Calling(job[r]) /\ job[r].block_id = c /\ c \in Blocks
  BY <1>0, <1>1, OwnerCalls
<1>3. /\ JobFits(job[r], BlockOf(r), call, stage, skewed) /\ BlockOf(r) = block[c]
      /\ Held(job[r]) /\ job[r] \in RequestJob
  BY <1>2, JobFacts DEF BlockOf, JobFits, BlockFits, Calling
<1>4. /\ job[r].phase = "acquiring" /\ stage = "inject" /\ job[r].output_tokens = << >>
  BY <1>1, <1>2, <1>3 DEF JobFits, CallFits, StageFits, PlaceFits, Calling
<1>5. /\ block'[c].in_use = block[c].in_use /\ block'[c].pos = matched
      /\ block'[c].page_table = block[c].page_table
      /\ \A x \in Blocks : x # c => block'[x] = block[x]
  BY <1>0, <1>1, <1>2 DEF AcquireReturn, TypeInv, TypeOK, RequestBlock
<1>6. /\ matched \in Nat /\ call.at \in Nat /\ unfed \in Nat \ {0}
      /\ Len(block[c].page_table) = call.at
  <2>1. call.at \in Nat /\ matched \in Nat
    BY FrameFacts, ProductNat
  <2>2. job[r].input_ids \in Seq(Token) /\ job[r].input_ids # << >>
    BY <1>3 DEF JobFits, CountsFit, RequestJob
  <2>3. QED
    BY <1>0, <1>1, <2>1, <2>2 DEF Bounded
<1>7. CeilPages(matched) = call.at
  <2>1. matched < matched + PageSize
    BY <1>6, PoolAssumption
  <2>2. QED
    BY <1>6, <2>1, CeilUnique
<1>8. /\ k \in Nat /\ k < unfed /\ k <= matched
      /\ ~(matched >= unfed) => k = matched
  <2> HIDE DEF matched, unfed
  <2>1. QED
    BY <1>6 DEF StartPos
<1> HIDE DEF k, matched, unfed
<1>9. /\ job' \in [Requests -> RequestJob]
      /\ job'[r].phase = "ready" /\ job'[r].kv_pos = k
      /\ job'[r].input_ids = job[r].input_ids
      /\ job'[r].output_tokens = job[r].output_tokens
      /\ job'[r].block_id = job[r].block_id
      /\ \A s \in Requests \ {r} : job'[s] = job[s]
  BY <1>1, <1>2, <1>3, <1>8 DEF JobInv, ServingTypeOK, RequestJob, Phase
<1>10. JobFits(job'[r], block'[c], call', stage', skewed')
  <2>1. BlockFits(job'[r], block'[c])
    BY <1>3, <1>5, <1>9 DEF JobFits, BlockFits, Held
  <2>2. CallFits(job'[r], call') /\ StageFits(job'[r], stage')
    BY <1>9 DEF CallFits, StageFits, Calling, Leaving
  <2>3. CountsFit(job'[r]) /\ FeedFits(job'[r])
    BY <1>3, <1>4, <1>8, <1>9 DEF JobFits, CountsFit, FeedFits, unfed
  <2>4. PlaceFits(job'[r], block'[c], call', skewed')
    BY <1>1, <1>5, <1>6, <1>7, <1>8, <1>9 DEF PlaceFits
  <2>5. QED
    BY <2>1, <2>2, <2>3, <2>4 DEF JobFits
<1>11. ActsFor(r)
  BY <1>1, <1>2, <1>5, <1>9 DEF ActsFor
<1>12. ServingTypeOK'
  BY <1>1, <1>9 DEF JobInv, ServingTypeOK
<1>13. NoStray' /\ Rested'
  BY <1>1, <1>4 DEF NoStray, Rested, Idle
<1>14. job'[r].block_id = c
  BY <1>2, <1>9
<1>15. QED
  BY <1>2, <1>10, <1>11, <1>12, <1>13, <1>14, ActorStep

\* What a job is fed is what follows in its history: a chunk of its prompt, ...
LEMMA ChunkFollows ==
  ASSUME NEW in \in Seq(Token), NEW out \in Seq(Token), NEW k \in Nat,
         NEW n \in Nat \ {0}, k + n <= Len(in)
  PROVE  /\ SubSeq(in, k + 1, k + n) \in Seq(Token)
         /\ Len(SubSeq(in, k + 1, k + n)) = n
         /\ \A i \in 1 .. n : SubSeq(in, k + 1, k + n)[i] = (in \o out)[k + i]
<1>1. k + 1 \in 1 .. Len(in) + 1 /\ k + n \in 0 .. Len(in)
  OBVIOUS
<1>2. /\ SubSeq(in, k + 1, k + n) \in Seq(Token)
      /\ Len(SubSeq(in, k + 1, k + n)) = n
      /\ \A i \in 1 .. n : SubSeq(in, k + 1, k + n)[i] = in[k + i]
  BY <1>1
<1>3. \A i \in 1 .. n : (in \o out)[k + i] = in[k + i]
  OBVIOUS
<1>4. QED
  BY <1>2, <1>3, Zenon

\* ... or the last token it sampled.
LEMMA SampleFollows ==
  ASSUME NEW in \in Seq(Token), NEW out \in Seq(Token), out # << >>,
         NEW k \in Nat, k = Len(in) + Len(out) - 1
  PROVE  /\ <<Last(out)>> \in Seq(Token) /\ Len(<<Last(out)>>) = 1
         /\ \A i \in 1 .. 1 : <<Last(out)>>[i] = (in \o out)[k + i]
<1>1. Len(out) \in Nat /\ Len(out) > 0 /\ Len(in) \in Nat
  OBVIOUS
<1>2. PICK x : x = Last(out)
  OBVIOUS
<1>3. x = out[Len(out)] /\ x \in Token
  BY <1>1, <1>2 DEF Last
<1>4. (in \o out)[k + 1] = x
  BY <1>1, <1>3
<1>5. <<x>> \in Seq(Token) /\ Len(<<x>>) = 1 /\ \A i \in 1 .. 1 : <<x>>[i] = (in \o out)[k + i]
  BY <1>3, <1>4
<1>6. QED
  BY <1>2, <1>5

\* A job of the batch asks for room.
LEMMA FeedStep ==
  ASSUME TypeInv, JobInv, NEW r \in Requests, NEW n \in 1 .. MaxPos, Feed(r, n)
  PROVE  JobInv'
<1> DEFINE c   == job[r].block_id
           new == IF IsPrefilling(r)
                  THEN SubSeq(job[r].input_ids, job[r].kv_pos + 1, job[r].kv_pos + n)
                  ELSE <<Last(job[r].output_tokens)>>
<1>1. /\ stage = "batch" /\ job[r].phase = "ready"
      /\ IF IsPrefilling(r) THEN n <= Len(job[r].input_ids) - job[r].kv_pos ELSE n = 1
      /\ call = Idle /\ call' = Open("append", c, block[c].pos, block[c].pos + n, << >>)
      /\ UNCHANGED <<kv, stage, mismatched, skewed, block, pending>>
  BY DEF Feed, AppendBegin, MayCall
<1>2. job' = [job EXCEPT ![r] = [job[r] EXCEPT !.phase = "appending",
                                              !.pending_input_ids = new]]
  <2>1. job' = [job EXCEPT ![r].phase = "appending", ![r].pending_input_ids = new]
    BY DEF Feed
  <2> HIDE DEF new
  <2>2. QED
    BY <2>1, Zenon
<1>3. /\ JobFits(job[r], BlockOf(r), call, stage, skewed) /\ BlockOf(r) = block[c]
      /\ Held(job[r]) /\ job[r] \in RequestJob /\ c \in Blocks /\ CountsFit(job[r])
  BY <1>1, JobFacts DEF BlockOf, JobFits, BlockFits
<1>4. /\ job[r].input_ids \in Seq(Token) /\ job[r].output_tokens \in Seq(Token)
      /\ job[r].kv_pos \in Nat /\ n \in Nat \ {0}
      /\ Len(job[r].input_ids) \in Nat /\ Len(job[r].output_tokens) \in Nat
  BY <1>3 DEF RequestJob
<1>5. IF job[r].kv_pos < Len(job[r].input_ids)
      THEN job[r].kv_pos + n <= Len(job[r].input_ids) ELSE n = 1
  BY <1>1, <1>4 DEF IsPrefilling
<1>6. /\ new \in Seq(Token) /\ Len(new) = n /\ new # << >>
        /\ \A i \in 1 .. n : new[i] = (job[r].input_ids \o job[r].output_tokens)[job[r].kv_pos + i]
  <2>1. CASE IsPrefilling(r)
    <3>1. job[r].kv_pos + n <= Len(job[r].input_ids)
      BY <1>5, <2>1 DEF IsPrefilling
    <3>2. PICK in, out, k, x : /\ in = job[r].input_ids /\ out = job[r].output_tokens
                               /\ k = job[r].kv_pos /\ x = SubSeq(in, k + 1, k + n)
      OBVIOUS
    <3>3. new = x
      BY <2>1, <3>2
    <3> HIDE DEF new
    <3>4. /\ in \in Seq(Token) /\ out \in Seq(Token) /\ k \in Nat /\ n \in Nat \ {0}
          /\ k + n <= Len(in)
      BY <1>4, <3>1, <3>2
    <3>5. /\ x \in Seq(Token) /\ Len(x) = n
          /\ \A i \in 1 .. n : x[i] = (in \o out)[k + i]
      <4>1. /\ SubSeq(in, k + 1, k + n) \in Seq(Token)
            /\ Len(SubSeq(in, k + 1, k + n)) = n
            /\ \A i \in 1 .. n : SubSeq(in, k + 1, k + n)[i] = (in \o out)[k + i]
        BY <3>4, ChunkFollows, ZenonT(60)
      <4>2. x = SubSeq(in, k + 1, k + n)
        BY <3>2
      <4>3. QED
        BY <4>1, <4>2, Zenon
    <3>6. x # << >>
      BY <1>4, <3>5
    <3>7. QED
      BY <3>2, <3>3, <3>5, <3>6, Zenon
  <2>2. CASE ~IsPrefilling(r)
    <3>1. new = <<Last(job[r].output_tokens)>>
      BY <2>2
    <3>2. n = 1
      BY <1>1, <2>2
    <3> HIDE DEF new
    <3>3. /\ job[r].output_tokens # << >>
          /\ job[r].kv_pos = Len(job[r].input_ids) + Len(job[r].output_tokens) - 1
      BY <1>3, <1>4, <2>2 DEF CountsFit, IsPrefilling
    <3>4. /\ new \in Seq(Token) /\ Len(new) = 1
          /\ \A i \in 1 .. 1 : new[i] = (job[r].input_ids \o job[r].output_tokens)[job[r].kv_pos + i]
      <4>1. PICK in, out, k : /\ in = job[r].input_ids /\ out = job[r].output_tokens
                              /\ k = job[r].kv_pos
        OBVIOUS
      <4>2. /\ in \in Seq(Token) /\ out \in Seq(Token) /\ out # << >>
            /\ k \in Nat /\ k = Len(in) + Len(out) - 1
        BY <1>4, <3>3, <4>1
      <4>3. /\ <<Last(out)>> \in Seq(Token) /\ Len(<<Last(out)>>) = 1
            /\ \A i \in 1 .. 1 : <<Last(out)>>[i] = (in \o out)[k + i]
        BY <4>2, SampleFollows, Zenon
      <4>4. new = <<Last(out)>>
        BY <3>1, <4>1, Zenon
      <4>5. QED
        BY <4>1, <4>3, <4>4, Zenon
    <3>5. new # << >>
      BY <3>4
    <3>6. QED
      BY <3>2, <3>4, <3>5, Zenon
  <2>3. QED
    BY <2>1, <2>2
<1> HIDE DEF new
<1>7. /\ job' \in [Requests -> RequestJob]
      /\ job'[r].phase = "appending" /\ job'[r].pending_input_ids = new
      /\ job'[r].input_ids = job[r].input_ids
      /\ job'[r].output_tokens = job[r].output_tokens
      /\ job'[r].kv_pos = job[r].kv_pos
      /\ job'[r].block_id = c
      /\ \A s \in Requests \ {r} : job'[s] = job[s]
  BY <1>2, <1>3, <1>6 DEF JobInv, ServingTypeOK, RequestJob, Phase
<1>8. /\ call.op = "idle" /\ call'.op = "append" /\ call'.block = c
      /\ call'.at = block[c].pos /\ call'.until = block[c].pos + n
  BY <1>1 DEF Idle, Open
<1>9. JobFits(job'[r], block'[c], call', stage', skewed')
  <2>1. BlockFits(job'[r], block'[c])
    BY <1>1, <1>3, <1>7 DEF JobFits, BlockFits, Held
  <2>2. CallFits(job'[r], call') /\ StageFits(job'[r], stage')
    BY <1>1, <1>7, <1>8 DEF CallFits, StageFits, Calling, Leaving
  <2>3. CountsFit(job'[r])
    BY <1>3, <1>7 DEF CountsFit
  <2>4. FeedFits(job'[r])
    BY <1>5, <1>6, <1>7 DEF FeedFits
  <2>5. PlaceFits(job'[r], block'[c], call', skewed')
    BY <1>1, <1>3, <1>6, <1>7, <1>8 DEF JobFits, PlaceFits
  <2>6. QED
    BY <2>1, <2>2, <2>3, <2>4, <2>5 DEF JobFits
<1>10. ActsFor(r)
  BY <1>1, <1>7, <1>8 DEF ActsFor
<1>11. ServingTypeOK'
  BY <1>1, <1>7 DEF JobInv, ServingTypeOK
<1>12. NoStray' /\ Rested'
  BY <1>1, <1>7 DEF NoStray, Rested, Calling
<1>13. QED
  BY <1>7, <1>9, <1>10, <1>11, <1>12, ActorStep

\* Append returns: the job goes into the forward.
LEMMA AppendedStep ==
  ASSUME TypeInv, JobInv, Appended
  PROVE  JobInv'
<1>0. PICK r, c : r = OwnerOf(call.block) /\ c = call.block
  OBVIOUS
<1>1. /\ Move(r, "appending", "forward") /\ call.op = "append" /\ call' = Idle
      /\ call.at = call.until
      /\ block' = [block EXCEPT ![c].pos = call.until]
      /\ UNCHANGED <<kv, stage, mismatched, skewed>>
  BY <1>0 DEF Appended, AppendReturn, Return
<1>2. r \in Requests /\ Calling(job[r]) /\ job[r].block_id = c /\ c \in Blocks
  BY <1>0, <1>1, OwnerCalls
<1>3. /\ job[r].phase = "appending" /\ job'[r].phase = "forward"
      /\ job' \in [Requests -> RequestJob]
      /\ job'[r].input_ids = job[r].input_ids
      /\ job'[r].output_tokens = job[r].output_tokens
      /\ job'[r].pending_input_ids = job[r].pending_input_ids
      /\ job'[r].kv_pos = job[r].kv_pos
      /\ job'[r].block_id = c
      /\ \A s \in Requests \ {r} : job'[s] = job[s]
  BY <1>1, <1>2, MoveEffect DEF JobInv, ServingTypeOK, Phase
<1>4. /\ JobFits(job[r], BlockOf(r), call, stage, skewed) /\ BlockOf(r) = block[c]
      /\ Held(job[r]) /\ job[r].kv_pos \in Nat /\ block[c].pos \in Nat
      /\ Len(job[r].pending_input_ids) \in Nat
  <2>1. JobFits(job[r], BlockOf(r), call, stage, skewed) /\ BlockOf(r) = block[c]
    BY <1>2, JobFacts DEF BlockOf
  <2>2. Held(job[r])
    BY <1>3, <2>1 DEF JobFits, BlockFits
  <2>3. job[r].kv_pos \in Nat /\ Len(job[r].pending_input_ids) \in Nat
    BY <1>2, JobFacts DEF RequestJob
  <2>4. block[c].pos \in Nat
    BY <1>2, FrameFacts
  <2>5. QED
    BY <2>1, <2>2, <2>3, <2>4
<1>5. stage = "batch"
  BY <1>3, <1>4 DEF JobFits, StageFits
<1>6. /\ block'[c].in_use = block[c].in_use /\ block'[c].pos = call.until
      /\ block'[c].page_table = block[c].page_table
      /\ \A x \in Blocks : x # c => block'[x] = block[x]
  BY <1>1, <1>2 DEF TypeInv, TypeOK, RequestBlock
<1>7. JobFits(job'[r], block'[c], call', stage', skewed')
  <2>1. block'[c].in_use
    BY <1>4, <1>6 DEF JobFits, BlockFits
  <2>2. CallFits(job'[r], call') /\ StageFits(job'[r], stage')
    BY <1>1, <1>3, <1>5 DEF CallFits, StageFits, Calling, Leaving
  <2>3. PlaceFits(job[r], block[c], call, skewed)
    BY <1>4 DEF JobFits
  <2>4. PlaceFits(job'[r], block'[c], call', skewed')
    BY <1>1, <1>3, <1>4, <1>6, <2>3 DEF PlaceFits
  <2>5. QED
    BY <1>2, <1>3, <1>4, <2>1, <2>2, <2>4, MovedFits
<1>8. ActsFor(r)
  BY <1>1, <1>2, <1>3, <1>6 DEF ActsFor
<1>9. ServingTypeOK'
  BY <1>1, <1>3 DEF JobInv, ServingTypeOK
<1>10. NoStray' /\ Rested'
  BY <1>1, <1>5 DEF NoStray, Rested, Idle
<1>11. QED
  BY <1>2, <1>3, <1>7, <1>8, <1>9, <1>10, ActorStep

\* A step that touches no job, no block and not the call.
LEMMA AsideStep ==
  ASSUME TypeInv, JobInv, UNCHANGED <<block, call, job>>, ServingTypeOK', Rested',
         \A r \in Requests : StageFits(job[r], stage'), skewed => skewed'
  PROVE  JobInv'
<1>1. ASSUME NEW r \in Requests
      PROVE  JobFits(job'[r], block'[job'[r].block_id], call', stage', skewed')
  <2>1. JobFits(job[r], BlockOf(r), call, stage, skewed) /\ StageFits(job[r], stage')
    BY JobFacts
  <2>2. JobFits(job[r], BlockOf(r), call, stage', skewed')
    BY <2>1, StaysFit
  <2>3. QED
    BY <2>2 DEF BlockOf
<1>2. EachFits'
  BY <1>1 DEF EachFits, BlockOf
<1>3. Apart' /\ NoOrphan' /\ NoStray'
  BY DEF JobInv, Apart, NoOrphan, NoStray
<1>4. QED
  BY <1>2, <1>3 DEF JobInv

\* With no call open no job waits for one.
LEMMA NobodyCalls ==
  ASSUME TypeInv, JobInv, call = Idle, NEW r \in Requests
  PROVE  ~Calling(job[r])
BY JobFacts DEF JobFits, CallFits, Calling, Idle

\* A deferred wipe or copy changes the tensors.
LEMMA DeferredServing ==
  ASSUME TypeInv, JobInv, NEW b \in Blocks, Deferred(b)
  PROVE  JobInv'
<1>1. PICK w : /\ w = Head(pending[b])
               /\ kv' = [kv EXCEPT ![w.dst] = IF w.kind = "copy" THEN kv[w.src]
                                              ELSE [o \in Offsets |-> ZeroRow]]
  BY DEF Deferred
<1>2. /\ pending[b] # << >> /\ UNCHANGED <<block, call, job, stage, mismatched, skewed>>
  BY DEF Deferred, DeferredStep
<1>3. w \in Work
  BY <1>1, <1>2 DEF TypeInv, TypeOK
<1>4. kv' \in [Pages -> [Offsets -> Row]]
  <2>1. [o \in Offsets |-> ZeroRow] \in [Offsets -> Row]
    BY DEF Row, ZeroRow
  <2>2. w.dst \in Pages /\ w.src \in Pages
    BY <1>3 DEF Work
  <2>3. kv[w.src] \in [Offsets -> Row] /\ kv \in [Pages -> [Offsets -> Row]]
    BY <2>2 DEF JobInv, ServingTypeOK
  <2>4. QED
    BY <1>1, <2>1, <2>3
<1>5. ServingTypeOK'
  BY <1>2, <1>4 DEF JobInv, ServingTypeOK
<1>6. Rested'
  BY <1>2 DEF JobInv, Rested
<1>7. \A r \in Requests : StageFits(job[r], stage')
  BY <1>2, JobFacts DEF JobFits
<1>8. QED
  BY <1>2, <1>5, <1>6, <1>7, AsideStep

\* The loop goes from stage to stage when nobody is left in the one behind.
LEMMA StageStep ==
  ASSUME TypeInv, JobInv, CleanupDone \/ InjectDone \/ ForwardDone
  PROVE  JobInv'
<1>1. /\ UNCHANGED <<vars, kv, job, mismatched, skewed>> /\ call = Idle
      /\ stage' \in {"inject", "batch", "cleanup"}
  BY DEF CleanupDone, InjectDone, ForwardDone, GoOn
<1>2. UNCHANGED <<block, call, pending>>
  BY <1>1 DEF vars
<1>3. ServingTypeOK'
  BY <1>1 DEF JobInv, ServingTypeOK, Stage
<1>4. Rested'
  BY <1>1 DEF Rested
<1>5. ASSUME NEW r \in Requests PROVE StageFits(job[r], stage')
  <2>1. /\ ~Calling(job[r])
        /\ StageFits(job[r], stage)
    BY <1>1, NobodyCalls, JobFacts DEF JobFits
  <2>2. CASE CleanupDone
    BY <2>1, <2>2 DEF CleanupDone, InPhase, GoOn, StageFits, Calling, Leaving
  <2>3. CASE InjectDone
    BY <2>1, <2>3 DEF InjectDone, GoOn, StageFits, Calling, Leaving
  <2>4. CASE ForwardDone
    BY <2>1, <2>4 DEF ForwardDone, InPhase, GoOn, StageFits, Calling, Leaving
  <2>5. QED
    BY <2>2, <2>3, <2>4
<1>6. QED
  BY <1>1, <1>2, <1>3, <1>4, <1>5, AsideStep

\* A job of a batch that fails is finished.
LEMMA FailStep ==
  ASSUME TypeInv, JobInv, NEW S \in SUBSET Requests, FailAll(S),
         \A r \in S : job[r].phase \in {"ready", "appending", "forward"},
         \A r \in Requests : job[r].phase \in {"appending", "forward"} => r \in S,
         stage = "batch", stage' = "cleanup", call' = Idle,
         UNCHANGED <<block, kv, mismatched, skewed>>
  PROVE  JobInv'
<1>1. ASSUME NEW r \in S
      PROVE  /\ job'[r] \in RequestJob /\ job'[r].phase = "finished"
             /\ job'[r].input_ids = job[r].input_ids
             /\ job'[r].output_tokens = job[r].output_tokens
             /\ job'[r].kv_pos = job[r].kv_pos
             /\ job'[r].block_id = job[r].block_id
  <2>1. job'[r] = [job[r] EXCEPT !.phase = "finished"]
    BY DEF FailAll
  <2>2. job[r] \in RequestJob
    BY JobFacts
  <2>3. QED
    BY <2>1, <2>2 DEF RequestJob, Phase
<1>2. \A r \in Requests \ S : job'[r] = job[r]
  BY DEF FailAll
<1>3. \A r \in Requests : job'[r].block_id = job[r].block_id
  BY <1>1, <1>2
<1>4. job' \in [Requests -> RequestJob]
  <2>1. \A r \in Requests : job'[r] \in RequestJob
    BY <1>1, <1>2, JobFacts
  <2>2. job' = [r \in Requests |-> job'[r]]
    BY DEF FailAll
  <2>3. QED
    BY <2>1, <2>2
<1>5. ASSUME NEW r \in S
      PROVE  JobFits(job'[r], block'[job'[r].block_id], call', stage', skewed')
  <2>1. JobFits(job[r], BlockOf(r), call, stage, skewed)
    BY JobFacts
  <2>2. Held(job[r]) /\ BlockOf(r).in_use /\ job[r].kv_pos <= BlockOf(r).pos
    BY <2>1 DEF JobFits, BlockFits, PlaceFits
  <2>3. CallFits(job'[r], call') /\ StageFits(job'[r], stage')
    BY <1>1 DEF CallFits, StageFits, Calling, Leaving
  <2>4. block'[job'[r].block_id] = BlockOf(r)
    BY <1>1 DEF BlockOf
  <2>5. PlaceFits(job'[r], BlockOf(r), call', skewed')
    BY <1>1, <2>2 DEF PlaceFits
  <2>6. JobFits(job'[r], BlockOf(r), call', stage', skewed')
    BY <1>1, <2>1, <2>2, <2>3, <2>5, MovedFits
  <2>7. QED
    BY <2>4, <2>6
<1>6. ASSUME NEW r \in Requests \ S
      PROVE  JobFits(job'[r], block'[job'[r].block_id], call', stage', skewed')
  <2>1. JobFits(job[r], BlockOf(r), call, stage, skewed)
    BY JobFacts
  <2>2. ~Calling(job[r]) /\ StageFits(job[r], stage')
    BY <2>1 DEF JobFits, StageFits, Calling, Leaving
  <2>3. JobFits(job[r], BlockOf(r), call', stage', skewed')
    BY <2>1, <2>2, StaysFit
  <2>4. job'[r] = job[r] /\ block'[job'[r].block_id] = BlockOf(r)
    BY <1>2 DEF BlockOf
  <2>5. QED
    BY <2>3, <2>4
<1>7. EachFits'
  BY <1>5, <1>6 DEF EachFits, BlockOf
<1>8. Apart' /\ NoOrphan'
  BY <1>3 DEF JobInv, Apart, NoOrphan, Held
<1>9. NoStray' /\ Rested'
  BY DEF NoStray, Rested, Idle
<1>10. ServingTypeOK'
  BY <1>4 DEF JobInv, ServingTypeOK, Stage
<1>11. QED
  BY <1>7, <1>8, <1>9, <1>10 DEF JobInv

\* An Append that raises fails the batch.
LEMMA AppendRefusedStep ==
  ASSUME TypeInv, JobInv, AppendRefused
  PROVE  JobInv'
<1>1. /\ call.op = "append" /\ call' = Idle /\ stage' = "cleanup"
      /\ UNCHANGED <<block, kv, mismatched, skewed>>
  BY DEF AppendRefused, AppendFail, Appending, Return
<1>2. PICK later \in SUBSET InPhase({"ready"}) :
        FailAll(InPhase({"appending", "forward"}) \cup later)
  BY DEF AppendRefused
<1>3. PICK r : r = OwnerOf(call.block)
  OBVIOUS
<1>4. r \in Requests /\ Calling(job[r])
  BY <1>1, <1>3, OwnerCalls
<1>5. JobFits(job[r], BlockOf(r), call, stage, skewed)
  BY <1>4, JobFacts
<1>6. stage = "batch"
  BY <1>1, <1>4, <1>5 DEF JobFits, CallFits, StageFits, Calling
<1>7. PICK S : S = InPhase({"appending", "forward"}) \cup later
  OBVIOUS
<1>8. /\ S \in SUBSET Requests /\ FailAll(S)
      /\ \A s \in S : job[s].phase \in {"ready", "appending", "forward"}
      /\ \A s \in Requests : job[s].phase \in {"appending", "forward"} => s \in S
  BY <1>2, <1>7 DEF InPhase
<1>9. QED
  BY <1>1, <1>6, <1>8, FailStep

\* A batch with its room goes to the forward, or fails on the way.
LEMMA BatchReadyStep ==
  ASSUME TypeInv, JobInv, BatchReady
  PROVE  JobInv'
<1>1. /\ UNCHANGED <<vars, kv, mismatched, skewed>> /\ call = Idle /\ stage = "batch"
      /\ \A b \in Blocks : pending[b] = << >>
  BY DEF BatchReady, GoOn
<1>2. UNCHANGED <<block, call, pending>>
  BY <1>1 DEF vars
<1>3. CASE stage' = "forward" /\ UNCHANGED job
  <2>1. ServingTypeOK'
    BY <1>1, <1>3 DEF JobInv, ServingTypeOK, Stage
  <2>2. Rested'
    BY <1>1, <1>2 DEF Rested
  <2>3. ASSUME NEW r \in Requests PROVE StageFits(job[r], stage')
    BY <1>1, <1>3, NobodyCalls, JobFacts DEF JobFits, StageFits, Calling, Leaving
  <2>4. QED
    BY <1>1, <1>2, <1>3, <2>1, <2>2, <2>3, AsideStep
<1>4. CASE stage' = "cleanup" /\ FailAll(InPhase({"forward"}))
  <2>1. PICK S : S = InPhase({"forward"})
    OBVIOUS
  <2>2. \A r \in Requests : job[r].phase # "appending"
    BY <1>1, NobodyCalls DEF Calling
  <2>3. /\ S \in SUBSET Requests /\ FailAll(S)
        /\ \A s \in S : job[s].phase \in {"ready", "appending", "forward"}
        /\ \A s \in Requests : job[s].phase \in {"appending", "forward"} => s \in S
    BY <1>4, <2>1, <2>2 DEF InPhase
  <2>4. QED
    BY <1>1, <1>2, <1>4, <2>3, FailStep
<1>5. QED
  BY <1>3, <1>4 DEF BatchReady, GoOn

\* Once a job's tokens went through the forward, it was fed all of its history
\* but the token to come, or still part of its prompt.
LEMMA FedCounts ==
  ASSUME NEW j \in RequestJob, CountsFit(j), FeedFits(j), j.phase = "forward",
         NEW fed, fed = j.kv_pos + Len(j.pending_input_ids)
  PROVE  /\ fed \in Nat /\ Len(j.pending_input_ids) \in Nat /\ Len(j.input_ids) \in Nat
         /\ fed < Len(j.input_ids) => j.output_tokens = << >>
         /\ ~(fed < Len(j.input_ids)) => fed = Len(j.input_ids) + Len(j.output_tokens)
<1>1. PICK li, lo, lp, k : /\ li = Len(j.input_ids) /\ lo = Len(j.output_tokens)
                           /\ lp = Len(j.pending_input_ids) /\ k = j.kv_pos
  OBVIOUS
<1>2. /\ li \in Nat /\ lo \in Nat /\ lp \in Nat /\ k \in Nat /\ fed = k + lp
      /\ j.output_tokens = << >> <=> lo = 0
  BY <1>1 DEF RequestJob
<1>3. IF lo = 0 THEN k < li ELSE k = li + lo - 1
  BY <1>1, <1>2 DEF CountsFit
<1>4. IF k < li THEN k + lp <= li ELSE lp = 1
  BY <1>1 DEF FeedFits
<1>5. /\ fed \in Nat
      /\ fed < li => lo = 0
      /\ ~(fed < li) => fed = li + lo
  BY <1>2, <1>3, <1>4
<1>6. QED
  BY <1>1, <1>2, <1>5

\* A job goes through the forward.
LEMMA ForwardStep ==
  ASSUME TypeInv, Within, JobInv,
         NEW r \in Requests, NEW sampled \in Token, NEW eos \in BOOLEAN,
         Forward(r, sampled, eos)
  PROVE  JobInv'
<1>1. PICK b, new, past, fed : /\ b = job[r].block_id /\ new = job[r].pending_input_ids
                               /\ past = block[b].pos - Len(new)
                               /\ fed = job[r].kv_pos + Len(new)
  OBVIOUS
<1>2. /\ stage = "forward" /\ job[r].phase = "forward"
      /\ kv' = Scattered(b, new, past)
      /\ ApplyToken(r, sampled, eos)
      /\ UNCHANGED <<vars, stage, mismatched, skewed>>
  BY <1>1, Zenon DEF Forward
<1>3. UNCHANGED <<block, call, pending>>
  BY <1>2 DEF vars
<1>4. /\ JobFits(job[r], BlockOf(r), call, stage, skewed) /\ job[r] \in RequestJob
  BY JobFacts
<1>5. Held(job[r]) /\ b \in Blocks /\ BlockOf(r) = block[b]
  <2>1. Held(job[r])
    BY <1>2, <1>4 DEF JobFits, BlockFits
  <2>2. QED
    BY <1>1, <2>1, JobFacts DEF BlockOf
<1>6. CountsFit(job[r]) /\ FeedFits(job[r]) /\ PlaceFits(job[r], block[b], call, skewed)
  BY <1>4, <1>5 DEF JobFits
<1>7. /\ fed \in Nat /\ Len(new) \in Nat /\ new \in Seq(Token)
      /\ fed < Len(job[r].input_ids) => job[r].output_tokens = << >>
      /\ ~(fed < Len(job[r].input_ids)) =>
           fed = Len(job[r].input_ids) + Len(job[r].output_tokens)
  BY <1>1, <1>2, <1>4, <1>6, FedCounts DEF RequestJob
<1>8. /\ Len(block[b].page_table) = CeilPages(block[b].pos)
      /\ fed <= block[b].pos
      /\ ~skewed => fed = block[b].pos
  BY <1>1, <1>2, <1>6 DEF PlaceFits
<1>9. kv' \in [Pages -> [Offsets -> Row]]
  <2>1. past \in Nat /\ past <= block[b].pos
    <3>1. PICK p, k, m : p = block[b].pos /\ k = job[r].kv_pos /\ m = Len(new)
      OBVIOUS
    <3>2. p \in Nat /\ k \in Nat /\ m \in Nat
      BY <1>5, <1>7, <3>1, FrameFacts, JobFacts
    <3>3. past = p - m /\ k + m <= p
      BY <1>1, <1>8, <3>1
    <3>4. past \in Nat /\ past <= p
      BY ONLY <3>2, <3>3
    <3>5. QED
      BY ONLY <3>1, <3>4
  <2>2. past <= Len(block[b].page_table) * PageSize
    <3>1. PICK x : x = Len(block[b].page_table) * PageSize
      OBVIOUS
    <3>2. x \in Nat /\ block[b].pos <= x /\ block[b].pos \in Nat
      <4>1. Len(block[b].page_table) \in Nat /\ block[b].pos \in Nat
        BY <1>5, FrameFacts
      <4>2. x \in Nat
        BY <3>1, <4>1, ProductNat
      <4>3. block[b].pos <= x
        BY <1>5, <3>1 DEF Within
      <4>4. QED
        BY <4>1, <4>2, <4>3
    <3>3. QED
      BY <2>1, <3>1, <3>2
  <2>3. QED
    BY <1>2, <1>5, <1>7, <2>1, <2>2, ScatteredType DEF JobInv, ServingTypeOK
<1>10. /\ job' \in [Requests -> RequestJob]
       /\ job'[r].phase \in {"ready", "finished"} /\ job'[r].kv_pos = fed
       /\ job'[r].input_ids = job[r].input_ids /\ job'[r].block_id = b
       /\ \A s \in Requests \ {r} : job'[s] = job[s]
       /\ IF fed < Len(job[r].input_ids)
          THEN job'[r].output_tokens = job[r].output_tokens
          ELSE job'[r].output_tokens = Append(job[r].output_tokens, sampled)
  <2>1. job \in [Requests -> RequestJob]
    BY DEF JobInv, ServingTypeOK
  <2>2. CASE fed < Len(job[r].input_ids)
    <3>1. job' = [job EXCEPT ![r].kv_pos = fed, ![r].phase = "ready"]
      BY <1>1, <1>2, <2>2, Zenon DEF ApplyToken
    <3>2. job' = [job EXCEPT ![r] = [job[r] EXCEPT !.kv_pos = fed, !.phase = "ready"]]
      BY <3>1, Zenon
    <3>3. QED
      BY <1>1, <1>4, <1>7, <2>1, <2>2, <3>2 DEF RequestJob, Phase
  <2>3. CASE ~(fed < Len(job[r].input_ids))
    <3>1. PICK to : to = IF eos THEN "finished" ELSE "ready"
      OBVIOUS
    <3>2. job' = [job EXCEPT ![r].kv_pos = fed, ![r].output_tokens = Append(@, sampled),
                             ![r].phase = to]
      BY <1>1, <1>2, <2>3, <3>1, Zenon DEF ApplyToken
    <3>3. job' = [job EXCEPT ![r] = [job[r] EXCEPT !.kv_pos = fed,
                     !.output_tokens = Append(job[r].output_tokens, sampled), !.phase = to]]
      BY <3>2, Zenon
    <3>4. to \in {"ready", "finished"} /\ to \in Phase
      BY <3>1 DEF Phase
    <3>5. Append(job[r].output_tokens, sampled) \in Seq(Token)
      BY <1>4 DEF RequestJob
    <3>6. QED
      BY <1>1, <1>4, <1>7, <2>1, <2>3, <3>3, <3>4, <3>5 DEF RequestJob
  <2>4. QED
    BY <2>2, <2>3
<1>11. JobFits(job'[r], block'[b], call', stage', skewed')
  <2>1. BlockFits(job'[r], block'[b])
    BY <1>1, <1>3, <1>4, <1>5, <1>10 DEF JobFits, BlockFits, Held
  <2>2. CallFits(job'[r], call') /\ StageFits(job'[r], stage')
    BY <1>10 DEF CallFits, StageFits, Calling, Leaving
  <2>3. CountsFit(job'[r])
    <3>1. CASE fed < Len(job[r].input_ids)
      BY <1>6, <1>7, <1>10, <3>1 DEF CountsFit
    <3>2. CASE ~(fed < Len(job[r].input_ids))
      <4>1. job[r].output_tokens \in Seq(Token) /\ Len(job[r].output_tokens) \in Nat
        BY <1>4 DEF RequestJob
      <4>2. job'[r].output_tokens = Append(job[r].output_tokens, sampled)
        BY <1>10, <3>2
      <4>3. /\ Len(job'[r].output_tokens) = Len(job[r].output_tokens) + 1
            /\ job'[r].output_tokens # << >>
        BY <4>1, <4>2
      <4>4. /\ job'[r].kv_pos = Len(job[r].input_ids) + Len(job[r].output_tokens)
            /\ Len(job[r].input_ids) \in Nat
        <5>1. Len(job[r].input_ids) \in Nat
          BY <1>4 DEF RequestJob
        <5>2. job'[r].kv_pos = fed
          BY <1>10
        <5>3. QED
          BY <1>7, <3>2, <5>1, <5>2
      <4>5. /\ job'[r].input_ids # << >> /\ job'[r].input_ids = job[r].input_ids
        BY <1>6, <1>10 DEF CountsFit
      <4>6. job'[r].kv_pos = Len(job'[r].input_ids) + Len(job'[r].output_tokens) - 1
        BY <4>1, <4>3, <4>4, <4>5
      <4>7. QED
        BY <4>3, <4>5, <4>6 DEF CountsFit
    <3>3. QED
      BY <3>1, <3>2
  <2>4. FeedFits(job'[r])
    BY <1>10 DEF FeedFits
  <2>5. PlaceFits(job'[r], block'[b], call', skewed')
    BY <1>2, <1>3, <1>8, <1>10 DEF PlaceFits
  <2>6. QED
    BY <2>1, <2>2, <2>3, <2>4, <2>5 DEF JobFits
<1>12. ActsFor(r)
  BY <1>1, <1>2, <1>3, <1>10 DEF ActsFor
<1>13. ServingTypeOK'
  BY <1>2, <1>9, <1>10 DEF JobInv, ServingTypeOK
<1>14. NoStray' /\ Rested'
  BY <1>2, <1>3 DEF JobInv, NoStray, Rested, Idle
<1>15. QED
  BY <1>10, <1>11, <1>12, <1>13, <1>14, ActorStep

\* No job has a block and no call is open at the start.
LEMMA InitJobs ==
  ASSUME ServingInit
  PROVE  JobInv
<1>1. /\ \A r \in Requests : job[r] = NewJob
      /\ \A b \in Blocks : ~block[b].in_use
      /\ call.op = "idle" /\ stage = "cleanup"
  BY DEF ServingInit, Init, EmptyBlock, Idle
<1>2. NewJob \in RequestJob /\ NewJob.phase = "new" /\ NewJob.block_id = NoBlock
  <2>1. NewJob = [input_ids |-> << >>, output_tokens |-> << >>, pending_input_ids |-> << >>,
                  kv_pos |-> 0, block_id |-> NoBlock, phase |-> "new"]
    BY DEF NewJob
  <2>2. "new" \in Phase /\ NoBlock \in Blocks \cup {NoBlock} /\ << >> \in Seq(Token)
    BY DEF Phase
  <2>3. QED
    BY <2>1, <2>2, JobRecord, ZenonT(60)
<1>3. ServingTypeOK
  <2>1. job \in [Requests -> RequestJob]
    BY <1>2 DEF ServingInit
  <2>2. kv \in [Pages -> [Offsets -> Row]]
    BY DEF ServingInit, Row, ZeroRow
  <2>3. QED
    BY <2>1, <2>2 DEF ServingInit, ServingTypeOK, Stage
<1>4. EachFits
  BY <1>1, <1>2 DEF EachFits, JobFits, BlockFits, CallFits, StageFits, Held, Calling, Leaving
<1>5. Apart /\ NoOrphan /\ NoStray /\ Rested
  BY <1>1, <1>2 DEF Apart, NoOrphan, NoStray, Rested, Held
<1>6. QED
  BY <1>3, <1>4, <1>5 DEF JobInv

\* Every step keeps the jobs' invariant.
LEMMA JobStep ==
  ASSUME TypeInv, Bounded, Within, JobInv, [ServingNext]_allVars
  PROVE  JobInv'
<1>1. ASSUME NEW t \in Tenants, NEW q \in Quotas, PushQuota(t, q) PROVE JobInv'
  <2>1. UNCHANGED <<block, call, job, kv, stage, mismatched, skewed, pending>>
    BY <1>1 DEF PushQuota, SetTenantQuota, serving
  <2>2. ServingTypeOK' /\ Rested'
    BY <2>1 DEF JobInv, ServingTypeOK, Rested
  <2>3. \A r \in Requests : StageFits(job[r], stage')
    BY <2>1, JobFacts DEF JobFits
  <2>4. QED
    BY <2>1, <2>2, <2>3, AsideStep
<1>2. CASE CleanupDone \/ InjectDone \/ ForwardDone
  BY <1>2, StageStep
<1>3. CASE PoolInternal
  <2>1. /\ \/ AcquireMatch \/ ReleasePage \/ AppendNewPage \/ AppendFork
           \/ AppendInPlace \/ CommitPage
        /\ UNCHANGED <<kv, job, stage, mismatched, skewed>>
    BY <1>3, Zenon DEF PoolInternal, serving
  <2>2. mismatched' \in BOOLEAN
    BY <2>1 DEF JobInv, ServingTypeOK
  <2>3. QED
    BY <2>1, <2>2, LoopStep
<1>4. CASE Match
  <2>1. AcquireMatch /\ UNCHANGED <<kv, job, stage, skewed>> /\ mismatched' \in BOOLEAN
    BY <1>4 DEF Match
  <2>2. QED
    BY <2>1, LoopStep
<1>5. CASE BatchReady \/ Acquired \/ AppendRefused \/ Appended \/ Committed
  BY <1>5, BatchReadyStep, AcquiredStep, AppendRefusedStep, AppendedStep, CommittedStep
<1>6. ASSUME NEW b \in Blocks, Deferred(b) PROVE JobInv'
  BY <1>6, DeferredServing
<1>7. ASSUME NEW r \in Requests, Cancel(r) \/ Commit(r) \/ Release(r) \/ ReleaseDone(r)
      PROVE  JobInv'
  BY <1>7, CancelStep, CommitStep, ReleaseStep, ReleaseDoneStep
<1>8. ASSUME NEW r \in Requests, NEW t \in Tenants, NEW prompt \in Prompts,
             Inject(r, t, prompt)
      PROVE  JobInv'
  BY <1>8, InjectStep
<1>9. ASSUME NEW r \in Requests, NEW n \in 1 .. MaxPos, Feed(r, n) PROVE JobInv'
  BY <1>9, FeedStep
<1>10. ASSUME NEW r \in Requests, NEW tok \in Token, NEW eos \in BOOLEAN, Forward(r, tok, eos)
       PROVE  JobInv'
  BY <1>10, ForwardStep
<1>11. CASE UNCHANGED allVars
  <2>1. UNCHANGED <<block, call, job, kv, stage, mismatched, skewed, pending>>
    BY <1>11 DEF allVars, vars, serving
  <2>2. ServingTypeOK' /\ Rested'
    BY <2>1 DEF JobInv, ServingTypeOK, Rested
  <2>3. \A r \in Requests : StageFits(job[r], stage')
    BY <2>1, JobFacts DEF JobFits
  <2>4. QED
    BY <2>1, <2>2, <2>3, AsideStep
<1>12. QED
  BY <1>1, <1>2, <1>3, <1>4, <1>5, <1>6, <1>7, <1>8, <1>9, <1>10, <1>11 DEF ServingNext

-----------------------------------------------------------------------------
\* The jobs' invariant goes with the pool's: a job's step is a step of the pool,
\* and where the pool stands tells that the job's step fits.
ServingInv == WritesInv /\ JobInv

LEMMA InitServing ==
  ASSUME ServingInit
  PROVE  ServingInv
<1>1. Init
  BY DEF ServingInit
<1>2. WritesInv
  BY <1>1, InitType, InitBooks, InitAccounts, InitWrites DEF WritesInv
<1>3. QED
  BY <1>2, InitJobs DEF ServingInv

LEMMA ServingStep ==
  ASSUME ServingInv, [ServingNext]_allVars
  PROVE  ServingInv'
<1>1. TypeInv /\ Bounded /\ Within /\ JobInv
  BY DEF ServingInv, WritesInv, Books
<1>2. JobInv'
  BY <1>1, JobStep
<1>3. [AnyNext]_vars
  BY <1>1, ServingStepsPool
<1>4. QED
  BY <1>2, <1>3, WritesStep DEF ServingInv

\* The tensors, the jobs and the loop's stage keep their types.
THEOREM ServingTypeCorrect == ServingSpec => []ServingTypeOK
<1>1. ServingInv => ServingTypeOK
  BY DEF ServingInv, JobInv
<1>2. QED
  BY <1>1, InitServing, ServingStep, PTL DEF ServingSpec

\* Between steps a job was fed as many tokens as its block has a position, unless
\* a job ever started behind its block, and what goes into a forward has just
\* the pages its position needs.
THEOREM PositionsAgreeAlways == ServingSpec => []PositionsAgree
<1>1. ServingInv => PositionsAgree
  <2>1. SUFFICES ASSUME ServingInv, NEW r \in Requests
                 PROVE  LET b == block[job[r].block_id] IN
                        /\ ~skewed /\ job[r].phase = "ready" => job[r].kv_pos = b.pos
                        /\ job[r].phase = "forward" =>
                             Len(b.page_table) = (b.pos + PageSize - 1) \div PageSize
    BY DEF PositionsAgree
  <2>2. JobFits(job[r], BlockOf(r), call, stage, skewed)
    BY <2>1, JobFacts DEF ServingInv, WritesInv
  <2>3. job[r].phase \in {"ready", "forward"} => PlaceFits(job[r], BlockOf(r), call, skewed)
    BY <2>2 DEF JobFits, BlockFits
  <2>4. QED
    BY <2>3 DEF PlaceFits, BlockOf, CeilPages
<1>2. QED
  BY <1>1, InitServing, ServingStep, PTL DEF ServingSpec

\* What the scheduler asks of the pool keeps every page table within
\* max_pages_per_request.
THEOREM ServingTablesBounded == ServingSpec => []PageTablesBounded
<1>1. ServingInv => PageTablesBounded
  BY DEF ServingInv, WritesInv, Books, Bounded
<1>2. QED
  BY <1>1, InitServing, ServingStep, PTL DEF ServingSpec

=============================================================================
