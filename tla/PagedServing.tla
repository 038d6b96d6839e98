---------------------------- MODULE PagedServing ----------------------------
(***************************************************************************)
(* Requests served from the paged pool: what ClipperScheduler and          *)
(* BatchedQwen2Service do to a job's KV block, and what the forward pass   *)
(* reads and writes in the pool's K/V tensors.                             *)
(*                                                                         *)
(* One loop goes round for ever: it cleans up the finished jobs (Commit,   *)
(* then Release), injects new ones (Acquire with the prompt), appends room *)
(* for the next tokens of a batch of jobs (a chunk of the unmatched prompt *)
(* or the last sampled token), and runs the batch forward.  A job that     *)
(* cannot append fails the whole batch.  The pool's own loops are still    *)
(* those of PagedPool, so every job's calls run page by page.              *)
(*                                                                         *)
(* A row of K/V is abstracted to the tokens it was computed from: the one  *)
(* it stands for and every one it attended to.  A zeroed row is << >>.     *)
(***************************************************************************)
EXTENDS PagedPool

CONSTANTS
  Requests,    \* request ids
  NoBlock,     \* block_id None
  MaxTokens    \* bound: max_tokens of a request

\* An empty prompt never gets as far as a forward: Scheduler's ExecuteRaises.
ASSUME ServingAssumption ==
  /\ NoBlock \notin Blocks
  /\ << >> \notin Prompts

VARIABLES
  kv,          \* big_k and big_v: the row at each offset of each page
  job,         \* the RequestJobs
  stage,       \* where the scheduler loop is
  mismatched,  \* history: an Acquire matched a page sealed under another hash
  skewed       \* history: a job started with kv_pos behind its block's pos

serving == <<kv, job, stage, mismatched, skewed>>
allVars == <<vars, serving>>

-----------------------------------------------------------------------------
ZeroRow == << >>
Row     == Seq(Token)
Offsets == 0 .. PageSize - 1

Phase == {"new", "acquiring", "ready", "appending", "forward", "finished",
          "committing", "committed", "releasing", "done"}

RequestJob == [input_ids : Seq(Token), output_tokens : Seq(Token),
               pending_input_ids : Seq(Token), kv_pos : Nat,
               block_id : Blocks \cup {NoBlock}, phase : Phase]

NewJob == [input_ids |-> << >>, output_tokens |-> << >>,
           pending_input_ids |-> << >>, kv_pos |-> 0,
           block_id |-> NoBlock, phase |-> "new"]

History(r) == job[r].input_ids \o job[r].output_tokens
IsPrefilling(r) == job[r].kv_pos < Len(job[r].input_ids)

\* The row at position i (from 1) of a block, read through its page table.
PageAt(b, i)   == block[b].page_table[(i - 1) \div PageSize + 1]
OffsetAt(i)    == (i - 1) % PageSize
RowAt(b, i)    == kv[PageAt(b, i)][OffsetAt(i)]

\* The tokens of the first n rows of a block, as attention sees them: a zeroed
\* row contributes nothing.
Context(b, n) == FlattenSeq([i \in 1 .. n |->
  IF RowAt(b, i) = ZeroRow THEN << >> ELSE <<Last(RowAt(b, i))>>])

Stage == {"cleanup", "inject", "batch", "forward"}

InPhase(phases) == {r \in Requests : job[r].phase \in phases}
Leaving == {"committing", "committed", "releasing"}

\* The loop moves on once the step it is at has returned.
GoOn(from, to) == call = Idle /\ stage = from /\ stage' = to

\* The exception handler of _execute_batch fails every job of the batch.
FailAll(S) == job' = [r \in Requests |-> IF r \in S
                        THEN [job[r] EXCEPT !.phase = "finished"] ELSE job[r]]

OwnerOf(b) == CHOOSE r \in Requests : job[r].block_id = b

Move(r, from, to) ==
  /\ job[r].phase = from
  /\ job' = [job EXCEPT ![r].phase = to]

-----------------------------------------------------------------------------
ServingInit ==
  /\ Init
  /\ kv = [p \in Pages |-> [o \in Offsets |-> ZeroRow]]
  /\ job = [r \in Requests |-> NewJob]
  /\ stage = "cleanup"
  /\ mismatched = FALSE
  /\ skewed = FALSE

\* _mark_cancelled_jobs_finished: the client of a running job went away.
Cancel(r) ==
  /\ stage = "cleanup" /\ call = Idle
  /\ Move(r, "ready", "finished")
  /\ UNCHANGED <<vars, kv, stage, mismatched, skewed>>

\* _cleanup_finished: commit the whole history at kv_pos, then release.
Commit(r) ==
  /\ stage = "cleanup" /\ InPhase(Leaving) = {}
  /\ Move(r, "finished", "committing")
  /\ CommitBegin(job[r].block_id, job[r].kv_pos, History(r))
  /\ UNCHANGED <<kv, stage, mismatched, skewed>>

Committed ==
  /\ CommitReturn
  /\ Move(OwnerOf(call.block), "committing", "committed")
  /\ UNCHANGED <<kv, stage, mismatched, skewed>>

Release(r) ==
  /\ Move(r, "committed", "releasing")
  /\ ReleaseBegin(job[r].block_id)
  /\ UNCHANGED <<kv, stage, mismatched, skewed>>

\* The job is over; only its id stays used.
ReleaseDone(r) ==
  /\ job[r].phase = "releasing"
  /\ ReleaseReturn
  /\ job' = [job EXCEPT ![r] = [NewJob EXCEPT !.phase = "done"]]
  /\ UNCHANGED <<kv, stage, mismatched, skewed>>

CleanupDone ==
  /\ GoOn("cleanup", "inject")
  /\ InPhase(Leaving \cup {"finished"}) = {}
  /\ UNCHANGED <<vars, kv, job, mismatched, skewed>>

\* _inject_new_requests: a new job asks the pool for a block.
Inject(r, t, prompt) ==
  /\ stage = "inject"
  /\ job[r].phase = "new"
  /\ AcquireBegin(t, prompt)
  /\ job' = [job EXCEPT ![r] = [NewJob EXCEPT !.input_ids = prompt,
                                              !.block_id = call'.block,
                                              !.phase = "acquiring"]]
  /\ UNCHANGED <<kv, stage, mismatched, skewed>>

Match ==
  /\ AcquireMatch
  /\ mismatched' = (mismatched \/
       \E p \in Matching : page[p].chain_hash # ChainHash(call.tokens, call.at + 1))
  /\ UNCHANGED <<kv, job, stage, skewed>>

\* Mutant: the last matched token is fed again.
StartPosRefed(matched, unfed) == IF matched > 0 THEN matched - 1 ELSE 0

\* Mutant: the same without the guard.
StartPosUnguarded(matched, unfed) == matched - 1

\* The kv_pos of a job whose prompt has "unfed" tokens.
StartPos(matched, unfed) == IF matched >= unfed THEN unfed - 1 ELSE matched

\* The acquire returns; one token at least is left unfed so that the next
\* forward samples.  The block's own position stays where it is.
Acquired ==
  LET r == OwnerOf(call.block)
      matched == call.at * PageSize
      unfed == Len(job[r].input_ids)
  IN
  /\ AcquireReturn
  /\ job' = [job EXCEPT ![r].kv_pos = StartPos(matched, unfed),
                        ![r].phase = "ready"]
  /\ skewed' = (skewed \/ matched >= unfed)
  /\ UNCHANGED <<kv, stage, mismatched>>

\* With nothing active the loop waits and starts over.
InjectDone ==
  /\ \/ InPhase({"ready"}) # {} /\ GoOn("inject", "batch")
     \/ InPhase({"ready"}) = {} /\ GoOn("inject", "cleanup")
  /\ UNCHANGED <<vars, kv, job, mismatched, skewed>>

\* _execute_batch and _forward_batch_sync_paged: a job of the batch gets a
\* prefill chunk of n tokens, or its last sampled token.  The token budget
\* decides n, and which prefilling jobs wait.
Feed(r, n) ==
  LET pos == job[r].kv_pos IN
  /\ stage = "batch"
  /\ job[r].phase = "ready"
  /\ IF IsPrefilling(r) THEN n <= Len(job[r].input_ids) - pos ELSE n = 1
  /\ AppendBegin(job[r].block_id, n)
  /\ job' = [job EXCEPT ![r].phase = "appending",
                        ![r].pending_input_ids =
                           IF IsPrefilling(r)
                           THEN SubSeq(job[r].input_ids, pos + 1, pos + n)
                           ELSE <<Last(job[r].output_tokens)>>]
  /\ UNCHANGED <<kv, stage, mismatched, skewed>>

\* Append raised: this job fails, the ones appended before it, and the ones
\* whose turn had not come.
AppendRefused ==
  /\ AppendFail
  /\ \E later \in SUBSET InPhase({"ready"}) :
       FailAll(InPhase({"appending", "forward"}) \cup later)
  /\ stage' = "cleanup"
  /\ UNCHANGED <<kv, mismatched, skewed>>

Appended ==
  /\ AppendReturn
  /\ Move(OwnerOf(call.block), "appending", "forward")
  /\ UNCHANGED <<kv, stage, mismatched, skewed>>

\* Append's deferred wipes and copies touch the tensors without the mutex.
Deferred(b) ==
  LET w == Head(pending[b]) IN
  /\ DeferredStep(b)
  /\ kv' = [kv EXCEPT ![w.dst] = IF w.kind = "copy" THEN kv[w.src]
                                 ELSE [o \in Offsets |-> ZeroRow]]
  /\ UNCHANGED <<job, stage, mismatched, skewed>>

\* The batch goes to forward_batch_paged, which may raise.
BatchReady ==
  /\ InPhase({"forward"}) # {}
  /\ \A b \in Blocks : pending[b] = << >>
  /\ \/ GoOn("batch", "forward") /\ UNCHANGED job
     \/ GoOn("batch", "cleanup") /\ FailAll(InPhase({"forward"}))
  /\ UNCHANGED <<vars, kv, mismatched, skewed>>

\* ScatterKV: the rows of the new tokens go to the positions after "past", each
\* computed from the rows before it.
Scattered(b, new, past) ==
  LET before == Context(b, past) IN
  [p \in Pages |-> [o \in Offsets |->
     LET here == {i \in past + 1 .. past + Len(new) : PageAt(b, i) = p /\ OffsetAt(i) = o}
     IN  IF here = {} THEN kv[p][o]
         ELSE before \o SubSeq(new, 1, Max(here) - past)]]

\* _apply_token: mid-prefill the sample is dropped, so one value will do.
ApplyToken(r, sampled, eos) ==
  LET fed  == job[r].kv_pos + Len(job[r].pending_input_ids)
      last == Len(job[r].output_tokens) + 1 >= MaxTokens
  IN
  IF fed < Len(job[r].input_ids)
  THEN /\ ~eos /\ sampled = Head(job[r].pending_input_ids)
       /\ job' = [job EXCEPT ![r].kv_pos = fed, ![r].phase = "ready"]
  ELSE /\ last => eos
       /\ job' = [job EXCEPT ![r].kv_pos = fed,
                             ![r].output_tokens = Append(@, sampled),
                             ![r].phase = IF eos THEN "finished" ELSE "ready"]

\* The forward pass of one job of the batch: the new tokens take the last
\* positions of the block, and one token is sampled.
Forward(r, sampled, eos) ==
  LET b == job[r].block_id
      new == job[r].pending_input_ids
  IN
  /\ stage = "forward"
  /\ job[r].phase = "forward"
  /\ kv' = Scattered(b, new, block[b].pos - Len(new))
  /\ ApplyToken(r, sampled, eos)
  /\ UNCHANGED <<vars, stage, mismatched, skewed>>

ForwardDone ==
  /\ GoOn("forward", "cleanup")
  /\ InPhase({"forward"}) = {}
  /\ UNCHANGED <<vars, kv, job, mismatched, skewed>>

\* KVPoolService pushes a tenant's quota once, before its first acquire.
PushQuota(t, q) ==
  /\ \A r \in Requests : job[r].phase = "new"
  /\ SetTenantQuota(t, q)
  /\ UNCHANGED serving

\* The iterations of the pool's loops that no job sees.  No job shares a page it
\* is about to write, so AppendFork stays disabled: see pool_books for it.
PoolInternal ==
  /\ ReleasePage \/ AppendNewPage \/ AppendFork \/ AppendInPlace \/ CommitPage
  /\ UNCHANGED serving

ServingNext ==
  \/ \E t \in Tenants, q \in Quotas : PushQuota(t, q)
  \/ CleanupDone \/ InjectDone \/ BatchReady \/ ForwardDone
  \/ PoolInternal \/ Match \/ Acquired \/ AppendRefused \/ Appended \/ Committed
  \/ \E b \in Blocks : Deferred(b)
  \/ \E r \in Requests :
       \/ Cancel(r) \/ Commit(r) \/ Release(r) \/ ReleaseDone(r)
       \/ \E t \in Tenants, prompt \in Prompts : Inject(r, t, prompt)
       \/ \E n \in 1 .. MaxPos : Feed(r, n)
       \/ \E tok \in Token, eos \in BOOLEAN : Forward(r, tok, eos)

ServingSpec == ServingInit /\ [][ServingNext]_allVars

-----------------------------------------------------------------------------
\* The tensors and the jobs have their types.
ServingTypeOK ==
  /\ kv \in [Pages -> [Offsets -> Row]]
  /\ job \in [Requests -> RequestJob]
  /\ stage \in Stage
  /\ mismatched \in BOOLEAN /\ skewed \in BOOLEAN

\* What the next forward of a job attends to is the KV of the job's own tokens,
\* position by position: the promise of prefix sharing, takeover and reuse
\* together.  ForwardBatchPaged reads as many rows as the block's pos says.
ReadsOwnHistory ==
  \A r \in Requests : job[r].phase = "ready" =>
    \A i \in 1 .. block[job[r].block_id].pos :
      RowAt(job[r].block_id, i) = SubSeq(History(r), 1, i)

\* The three ways the code is known to break that promise are the only ones.
ReadsOwnHistoryOtherwise ==
  (~misfiled /\ ~mismatched /\ ~skewed) => ReadsOwnHistory

\* A cached page holds the KV of the very tokens it is indexed under.
CacheHoldsItsTokens ==
  (~misfiled /\ ~mismatched /\ ~skewed) =>
    \A p \in Pages : page[p].sealed =>
      \A o \in Offsets :
        kv[p][o] = SubSeq(page[p].chain_hash, 1,
                          Len(page[p].chain_hash) - PageSize + o + 1)

\* A job's count of fed tokens and its block's position agree between steps.
\* What goes into a forward has a page table as long as its position needs: the
\* forward sizes its copy of the table by the position (qwen2.cc:506), so no
\* block that a failed Append left with pages to spare may get there.
PositionsAgree ==
  \A r \in Requests :
    LET b == block[job[r].block_id] IN
    /\ ~skewed /\ job[r].phase = "ready" => job[r].kv_pos = b.pos
    /\ job[r].phase = "forward" => Len(b.page_table) = (b.pos + PageSize - 1) \div PageSize

=============================================================================
