----------------------------- MODULE Scheduler -----------------------------
(***************************************************************************)
(* ClipperScheduler: the loop that batches requests over the KV pool, with *)
(* its submitters around it.                                               *)
(*                                                                         *)
(* One task runs the loop  cleanup -> inject -> execute.  asyncio lets the *)
(* others (a submitter, a client that cancels, stop) in only where the     *)
(* loop awaits something not yet there: a message to lease, the forward    *)
(* pass, the idle wakeup.  `stage` is where the loop is, and their actions *)
(* need one of those stages.                                               *)
(*                                                                         *)
(* The pool is what the loop sees of KVPoolService: acquire gives any      *)
(* block not in use and any matched length, or -1 when all are in use.     *)
(* Tokens are counted, not named.                                          *)
(***************************************************************************)
EXTENDS MemoryQueue, Functions

CONSTANTS
  UseQueue,      \* queue_service is given; otherwise the internal queue is used
  Models,        \* which forward_batch there may be: "tokens", the legacy "text"
  Blocks,        \* the pool's blocks
  NoBlock,       \* block_id None
  PromptLens,    \* how long an input_ids may be
  MaxTokens,     \* max_tokens of every job
  TokenBudget,   \* token_budget
  MaxPreempt,    \* max_preemptions_per_job
  MaxBatch,      \* max_batch_size (32 in the code)
  MaxFailures,   \* bound: failing forward passes
  MaxLate,       \* bound: leases that expire while the job is being served
  MayStop        \* stop() is called in some behaviours

ASSUME SchedulerAssumption ==
  /\ UseQueue \in BOOLEAN /\ MayStop \in BOOLEAN
  /\ Models \subseteq {"tokens", "text"} /\ Models # {}
  /\ PromptLens \subseteq Nat /\ PromptLens # {}
  /\ NoBlock \notin Blocks
  /\ {MaxPreempt, MaxFailures, MaxLate} \subseteq Nat
  /\ {MaxTokens, TokenBudget, MaxBatch} \subseteq Nat \ {0}

VARIABLES
  stage,       \* where the loop is
  model,       \* the kind of model_service; never changes
  plen,        \* the length of each request's prompt; never changes
  order,       \* ids by created_at of their latest RequestJob
  pending,     \* pending_jobs: ids whose submitted job is not leased yet
  internal,    \* internal_queue
  taken,       \* new_jobs: leased, not yet injected
  active,      \* active_requests
  fed,         \* len(pending_input_ids) of the jobs in the step
  inUse,       \* the pool's blocks that are in use
  batchSize,   \* int(current_batch_size)
  fut,         \* the future of each submitted job
  stream,      \* the tokens_queue of each submitted job
  answer,      \* how many tokens the future's result holds
  failures, late, \* what the bounds count
  overtaken    \* history: active jobs replaced by a redelivered twin

clientVars == <<fut, stream, answer>>
loopVars   == <<model, plen, order, pending, internal, taken, active, fed,
                inUse, batchSize>>
history    == <<failures, late, overtaken>>
schedVars  == <<queueVars, stage, loopVars, clientVars, history>>

-----------------------------------------------------------------------------
Reasons == {"", "stop", "length", "error", "cancelled"}

\* client: it is the submitter's object, not one rebuilt from a message.
\* input, out, total: len(input_ids), len(output_tokens), total_output_count.
Job == [id : Requests, client : BOOLEAN, block : Blocks \cup {NoBlock},
        pos : Nat, input : Nat, out : Nat, total : Nat, finished : BOOLEAN,
        reason : Reasons, preempted : Nat]

RequestJob(r, client) ==
  [id |-> r, client |-> client, block |-> NoBlock, pos |-> 0,
   input |-> plen[r], out |-> 0, total |-> 0, finished |-> FALSE,
   reason |-> "", preempted |-> 0]

IsPrefilling(j) == j.pos < j.input
Batch           == DOMAIN active
Place(r)        == CHOOSE i \in DOMAIN order : order[i] = r
Older(r, s)     == Place(r) < Place(s)
Awaiting        == stage \in {"idle", "lease", "forward"}

Service == INSTANCE RequestService WITH fut <- fut, stream <- stream

SchedInit ==
  /\ QueueInit /\ Service!Init
  /\ stage = "idle"
  /\ model \in Models /\ plen \in [Requests -> PromptLens]
  /\ order = << >> /\ pending = {} /\ internal = << >> /\ taken = << >>
  /\ active = << >> /\ fed = << >> /\ inUse = {} /\ batchSize = 1
  /\ answer = [r \in Requests |-> 0]
  /\ failures = 0 /\ late = 0 /\ overtaken = {}

-----------------------------------------------------------------------------
(* The environment.                                                        *)

Submit(r) ==
  /\ Awaiting
  /\ fut[r] = "new" /\ \A q \in Requests : q < r => fut[q] # "new"
  /\ fut' = [fut EXCEPT ![r] = "waiting"]
  /\ order' = Append(order, r)
  /\ IF UseQueue
     THEN Enqueue(r) /\ pending' = pending \cup {r} /\ UNCHANGED internal
     ELSE /\ internal' = Append(internal, RequestJob(r, TRUE))
          /\ UNCHANGED <<pending, queueVars>>
  /\ UNCHANGED <<stage, model, plen, taken, active, fed, inUse, batchSize,
                 stream, answer, history>>

Cancel(r) ==
  /\ Awaiting
  /\ fut[r] = "waiting"
  /\ fut' = [fut EXCEPT ![r] = "cancelled"]
  /\ UNCHANGED <<queueVars, stage, loopVars, stream, answer, history>>

\* A visibility timeout passes, while the job is still served or after it was
\* given up without an ack or a nack.  Time does not wait for the loop.
LeaseExpires(m) ==
  /\ Expire(m)
  /\ IF m \in Batch \/ \E i \in DOMAIN taken : taken[i].id = m
     THEN late < MaxLate /\ late' = late + 1
     ELSE UNCHANGED late
  /\ UNCHANGED <<stage, loopVars, clientVars, failures, overtaken>>

Stop ==
  /\ MayStop /\ Awaiting
  /\ stage' = "stopped"
  /\ UNCHANGED <<queueVars, loopVars, clientVars, history>>

-----------------------------------------------------------------------------
(* Cleanup.                                                                *)

Wake ==
  /\ stage = "idle"
  /\ stage' = "cleanup"
  /\ UNCHANGED <<queueVars, loopVars, clientVars, history>>

IsCancelled(j) == j.client /\ fut[j.id] = "cancelled"

\* _mark_cancelled_jobs_finished.
Marked(j) == IF ~j.finished /\ IsCancelled(j)
             THEN [j EXCEPT !.finished = TRUE, !.reason = "cancelled"] ELSE j

Unserved(j) == IsCancelled(j) \/ j.reason \in {"error", "cancelled"}

\* Mutant: a job that failed keeps its block.
ReleasedUnlessFailed(S) ==
  inUse' = inUse \ {active[r].block : r \in {q \in S : active[q].reason # "error"}}

\* kv_pool.release for the jobs S.
Released(S) == inUse' = inUse \ {active[r].block : r \in S}

\* _mark_cancelled_jobs_finished and _cleanup_finished: nothing in them waits.
Cleanup ==
  /\ stage = "cleanup"
  /\ LET job  == [r \in Batch |-> Marked(active[r])]
         done == {r \in Batch : job[r].finished}
         fail == {r \in done : Unserved(job[r])}
         own  == {r \in done : job[r].client}
     IN
     /\ active' = Restrict(job, Batch \ done)
     /\ Released(done)
     /\ stream' = [r \in Requests |->
                     IF r \in own THEN Append(stream[r], "DONE") ELSE stream[r]]
     /\ LET won == {r \in own : fut[r] = "waiting"} IN
        /\ fut' = [r \in Requests |-> IF r \in won THEN "result" ELSE fut[r]]
        /\ answer' = [r \in Requests |->
                        IF r \in won THEN job[r].out ELSE answer[r]]
     /\ IF UseQueue THEN Settle(done \ fail, fail) ELSE UNCHANGED queueVars
     /\ stage' = IF batchSize > Cardinality(Batch \ done)
                 THEN "sweep" ELSE "execute"
  /\ UNCHANGED <<model, plen, order, pending, internal, taken, fed, batchSize,
                 history>>

-----------------------------------------------------------------------------
(* Inject.                                                                 *)

Capacity == batchSize - Cardinality(Batch)

StartLease ==
  /\ stage = "sweep"
  /\ stage' = "lease"
  /\ IF UseQueue THEN Sweep ELSE UNCHANGED queueVars
  /\ UNCHANGED <<loopVars, clientVars, history>>

\* One message: the submitted job it stands for, or a new one without a client
\* when that job was leased before.
LeaseMessage ==
  /\ stage = "lease" /\ UseQueue
  /\ Len(taken) < Capacity
  /\ Take
  /\ taken' = Append(taken, RequestJob(Head1, Head1 \in pending))
  /\ pending' = pending \ {Head1}
  /\ UNCHANGED <<stage, model, plen, order, internal, active, fed, inUse,
                 batchSize, clientVars, history>>

LeaseInternal ==
  /\ stage = "lease" /\ ~UseQueue
  /\ Len(taken) < Capacity
  /\ internal # << >>
  /\ taken' = Append(taken, Head(internal))
  /\ internal' = Tail(internal)
  /\ UNCHANGED <<queueVars, stage, model, plen, order, pending, active, fed,
                 inUse, batchSize, clientVars, history>>

\* The count is reached, nothing more came in time, or (internal queue) the
\* deadline passed with some jobs in hand.
EndLease ==
  /\ stage = "lease"
  /\ \/ Len(taken) = Capacity
     \/ IF UseQueue THEN ready = {} ELSE internal = << >> \/ taken # << >>
  /\ stage' = "inject"
  /\ UNCHANGED <<queueVars, loopVars, clientVars, history>>

\* The next leased job enters the batch with block b, m tokens of its input
\* matched; at least one is left to feed.  It takes the place of an active job
\* with its id.
Activate(batch, b, m) ==
  LET j    == Head(taken)
      left == IF m < j.input THEN m ELSE IF j.input > 0 THEN j.input - 1 ELSE 0
      r    == j.id
  IN
  /\ active' = [s \in DOMAIN batch \cup {r} |->
                  IF s = r THEN [j EXCEPT !.block = b, !.pos = left]
                  ELSE batch[s]]
  /\ overtaken' = IF r \in DOMAIN batch THEN overtaken \cup {batch[r]}
                  ELSE overtaken
  /\ order' = IF j.client THEN order ELSE Append(RemoveFirst(order, r), r)
  /\ taken' = Tail(taken)

InjectFree(b, m) ==
  /\ stage = "inject" /\ taken # << >>
  /\ b \in Blocks \ inUse
  /\ m \in 0 .. Head(taken).input
  /\ Activate(active, b, m)
  /\ inUse' = inUse \cup {b}
  /\ UNCHANGED <<queueVars, stage, model, plen, pending, internal, fed,
                 batchSize, clientVars, failures, late>>

\* _try_preempt: only the oldest candidate is considered, and not when it came
\* from the topic queue.
Candidates == {r \in Batch : active[r].preempted < MaxPreempt}
Victims    == {r \in Candidates : ~UseQueue
                 /\ \A s \in Candidates \ {r} : Older(r, s)}

\* Mutants: the victim keeps its block, its output, or forgets its count.
PreemptedInPlace(j) == [j EXCEPT !.input = j.input + j.out, !.out = 0,
                                 !.pos = 0, !.preempted = @ + 1]
PreemptedUncleared(j) == [j EXCEPT !.input = j.input + j.out, !.pos = 0,
                                   !.block = NoBlock, !.preempted = @ + 1]
PreemptedAfresh(j) == [j EXCEPT !.input = j.input + j.out, !.out = 0,
                                !.total = 0, !.block = NoBlock, !.pos = 0,
                                !.preempted = @ + 1]

Preempted(j) == [j EXCEPT !.input = j.input + j.out, !.out = 0,
                          !.block = NoBlock, !.pos = 0, !.preempted = @ + 1]

\* The pool is exhausted: the victim goes to the back of the internal queue and
\* the job takes its block.
InjectPreempting(v, m) ==
  /\ stage = "inject" /\ taken # << >>
  /\ inUse = Blocks
  /\ v \in Victims
  /\ m \in 0 .. Head(taken).input
  /\ internal' = Append(internal, Preempted(active[v]))
  /\ Activate(Restrict(active, Batch \ {v}), active[v].block, m)
  /\ UNCHANGED <<queueVars, stage, model, plen, pending, fed, inUse,
                 batchSize, clientVars, failures, late>>

\* Mutants: the future is left alone, or set without asking whether it is done.
FailJobsQuietly(S) ==
  /\ stream' = [r \in Requests |->
                  IF r \in S THEN Append(stream[r], "DONE") ELSE stream[r]]
  /\ UNCHANGED <<fut, answer>>
FailJobsAgain(S) ==
  /\ fut' = [r \in Requests |-> IF r \in S THEN "error" ELSE fut[r]]
  /\ stream' = [r \in Requests |->
                  IF r \in S THEN Append(stream[r], "DONE") ELSE stream[r]]
  /\ UNCHANGED answer

\* The submitters of jobs S hear of a failure: _fail_job.
FailJobs(S) ==
  /\ fut' = [r \in Requests |->
               IF r \in S /\ fut[r] = "waiting" THEN "error" ELSE fut[r]]
  /\ stream' = [r \in Requests |->
                  IF r \in S THEN Append(stream[r], "DONE") ELSE stream[r]]
  /\ UNCHANGED answer

\* No block and no victim: the job fails.  Its message stays leased.
InjectRejected ==
  /\ stage = "inject" /\ taken # << >>
  /\ inUse = Blocks /\ Victims = {}
  /\ FailJobs({j.id : j \in {i \in {Head(taken)} : i.client}})
  /\ taken' = Tail(taken)
  /\ UNCHANGED <<queueVars, stage, model, plen, order, pending, internal,
                 active, fed, inUse, batchSize, history>>

EndInject ==
  /\ stage = "inject" /\ taken = << >>
  /\ stage' = IF Batch = {} THEN "idle" ELSE "execute"
  /\ UNCHANGED <<queueVars, loopVars, clientVars, history>>

-----------------------------------------------------------------------------
(* Execute.                                                                *)

Prefills == {r \in Batch : IsPrefilling(active[r])}
Decodes  == Batch \ Prefills
Unfed    == [r \in Batch |-> active[r].input - active[r].pos]

\* Decode jobs take one token each, prefill jobs in order what is left over.
Room    == Max({0, TokenBudget - Cardinality(Decodes)})
Feed(r) ==
  LET before == SumFunctionOnSet(Unfed, {s \in Prefills : Older(s, r)})
  IN  Min({Unfed[r], Max({0, Room - before})})
InStep  == Decodes \cup {r \in Prefills : Feed(r) > 0}

\* A decode job's last token is its input's, when it has none of its own.
NoLastToken(r) == active[r].out = 0 /\ active[r].input = 0

ExecuteStarts ==
  /\ stage = "execute"
  /\ \A r \in Decodes : ~NoLastToken(r)
  /\ fed' = [r \in InStep |-> IF r \in Decodes THEN 1 ELSE Feed(r)]
  /\ stage' = "forward"
  /\ UNCHANGED <<queueVars, model, plen, order, pending, internal, taken,
                 active, inUse, batchSize, clientVars, history>>

\* IndexError on the empty input: the loop logs it and sleeps.
ExecuteRaises ==
  /\ stage = "execute"
  /\ \E r \in Decodes : NoLastToken(r)
  /\ stage' = "idle"
  /\ UNCHANGED <<queueVars, loopVars, clientVars, history>>

\* Mutant: no minimum and no maximum.
UpdateBatchSizeFreely == batchSize' \in batchSize - 1 .. batchSize + 1

\* The AIMD controller moves the batch size by at most one here.
UpdateBatchSize ==
  batchSize' \in {n \in 1 .. MaxBatch : n \in batchSize - 1 .. batchSize + 1}

\* What every end of a forward pass does besides.
ForwardEnds ==
  /\ stage = "forward"
  /\ fed' = << >>
  /\ UpdateBatchSize
  /\ stage' = "cleanup"
  /\ UNCHANGED <<queueVars, model, plen, order, pending, internal, taken,
                 inUse, late, overtaken>>

\* _apply_token: j was fed n tokens; eos says whether the sample is eos_token.
Applied(j, n, eos) ==
  LET moved == [j EXCEPT !.pos = @ + n]
  IN  IF IsPrefilling(moved) THEN moved
      ELSE [moved EXCEPT
              !.out = @ + 1, !.total = @ + 1,
              !.finished = eos \/ j.total + 1 >= MaxTokens,
              !.reason = IF eos THEN "stop"
                         ELSE IF j.total + 1 >= MaxTokens THEN "length" ELSE @]

Emits(r) == ~IsPrefilling([active[r] EXCEPT !.pos = @ + fed[r]])

ForwardTokens(eos) ==
  /\ model = "tokens"
  /\ ForwardEnds
  /\ eos \subseteq {r \in DOMAIN fed : Emits(r)}
  /\ active' = [r \in Batch |->
                  IF r \in DOMAIN fed
                  THEN Applied(active[r], fed[r], r \in eos) ELSE active[r]]
  /\ stream' = [r \in Requests |->
                  IF r \in DOMAIN fed /\ Emits(r) /\ active[r].client
                  THEN Append(stream[r], "token") ELSE stream[r]]
  /\ UNCHANGED <<fut, answer, failures>>

Finished(S, reason) ==
  active' = [r \in Batch |->
               IF r \in S
               THEN [active[r] EXCEPT !.finished = TRUE, !.reason = reason]
               ELSE active[r]]

Clients(S) == {r \in S : active[r].client}

\* The legacy results are whole texts.
ForwardText ==
  /\ model = "text"
  /\ ForwardEnds
  /\ Finished(DOMAIN fed, "stop")
  /\ fut' = [r \in Requests |->
               IF r \in DOMAIN fed /\ active[r].client /\ fut[r] = "waiting"
               THEN "result" ELSE fut[r]]
  /\ UNCHANGED <<stream, answer, failures>>

\* forward_batch raises: every job of the step fails.
ForwardFails ==
  /\ failures < MaxFailures
  /\ failures' = failures + 1
  /\ ForwardEnds
  /\ Finished(DOMAIN fed, "error")
  /\ FailJobs(Clients(DOMAIN fed))

-----------------------------------------------------------------------------
Loop ==
  \/ Wake \/ Cleanup
  \/ StartLease \/ LeaseMessage \/ LeaseInternal \/ EndLease
  \/ \E b \in Blocks, m \in 0 .. Max(PromptLens) + MaxTokens : InjectFree(b, m)
  \/ \E v \in Requests, m \in 0 .. Max(PromptLens) + MaxTokens :
       InjectPreempting(v, m)
  \/ InjectRejected \/ EndInject
  \/ ExecuteStarts \/ ExecuteRaises
  \/ \E eos \in SUBSET Requests : ForwardTokens(eos)
  \/ ForwardText \/ ForwardFails

Environment ==
  \/ \E r \in Requests : Submit(r) \/ Cancel(r) \/ LeaseExpires(r)
  \/ Stop

SchedNext == Loop \/ Environment

\* The event loop runs the scheduler's task whenever it is ready; what it
\* awaits comes or times out; and time passes for the oldest lease, if nobody
\* settles it.
SchedSpec ==
  /\ SchedInit /\ [][SchedNext]_schedVars
  /\ WF_schedVars(Loop)
  /\ WF_schedVars(\E m \in Requests : LeaseExpires(m))

-----------------------------------------------------------------------------
(* Safety.                                                                 *)

Jobs(seq) == {seq[i] : i \in DOMAIN seq}
ActiveJobs == {active[r] : r \in Batch}

SchedTypeOK ==
  /\ QueueTypeOK
  /\ stage \in {"idle", "cleanup", "sweep", "lease", "inject", "execute",
                "forward", "stopped"}
  /\ model \in Models /\ plen \in [Requests -> PromptLens]
  /\ order \in Seq(Requests) /\ pending \subseteq Requests
  /\ internal \in Seq(Job) /\ taken \in Seq(Job)
  /\ Batch \subseteq Requests /\ \A r \in Batch : active[r] \in Job /\ active[r].id = r
  /\ DOMAIN fed \subseteq Batch /\ \A r \in DOMAIN fed : fed[r] \in Nat \ {0}
  /\ inUse \subseteq Blocks /\ batchSize \in 1 .. MaxBatch
  /\ fut \in [Requests -> {"new", "waiting"} \cup Service!Answer]
  /\ stream \in [Requests -> Seq({"token", "DONE"})]
  /\ answer \in [Requests -> 0 .. MaxTokens]
  /\ failures \in 0 .. MaxFailures /\ late \in 0 .. MaxLate
  /\ overtaken \subseteq Job

\* No block is lost or given to two jobs: through preemptions, failures and
\* cancellations the pool's blocks in use are one for each active job, and one
\* for each job whose place a redelivered twin took, which nobody releases.
BlocksAccounted ==
  LET holders == ActiveJobs \cup overtaken IN
  /\ inUse = {j.block : j \in holders}
  /\ \A i, j \in holders : i # j => i.block # j.block
  /\ \A j \in Jobs(taken) \cup Jobs(internal) : j.block = NoBlock

\* A job's kv_pos names the token its next forward is fed with: its input is
\* its prompt and the output of its earlier lives, all but the last token of
\* its history is in the cache once it decodes, and a job in prefill has
\* something left to feed.
CachePosition ==
  \A j \in ActiveJobs :
    /\ j.input = plen[j.id] + j.total - j.out
    /\ j.out > 0 => j.pos = j.input + j.out - 1
    /\ j.out = 0 => j.pos <= j.input
    /\ j.out = 0 /\ ~j.finished => j.pos < j.input \/ j.input = 0

\* A submitter who still waits is not forgotten: a message will bring its job
\* back from pending_jobs, or the loop holds the very object it waits on.
\* Only a redelivery that took the object's place breaks this.
NoClientStranded ==
  \A r \in Requests :
    fut[r] = "waiting" =>
      \/ r \in pending /\ r \in ready
      \/ \E j \in ActiveJobs \cup Jobs(taken) \cup Jobs(internal) \cup overtaken :
           j.client /\ j.id = r

\* At least once: as long as a job is in the loop's hands its message is not
\* settled, so a crash of the loop would redeliver it; and a pending job's
\* message waits in the queue.
NoJobWithoutMessage ==
  UseQueue =>
    /\ \A j \in ActiveJobs \cup Jobs(taken) : j.id \in Unsettled
    /\ pending \subseteq ready

\* max_tokens holds across preemptions: the stream a client sees is never
\* longer, whatever the number of lives of its job, which is bounded too; and
\* the future never holds a token that the stream did not carry.
OutputCapped ==
  /\ \A r \in Requests : Service!Tokens(stream[r]) <= MaxTokens
  /\ model = "tokens" => \A r \in Requests : answer[r] <= Service!Tokens(stream[r])
  /\ \A j \in ActiveJobs \cup Jobs(internal) :
       j.preempted <= MaxPreempt /\ j.total <= MaxTokens

\* What the loop does to futures and token queues is what RequestService
\* promises: one answer, no token after DONE, no DONE before the answer.
ServesRequests == Service!Spec

-----------------------------------------------------------------------------
(* Liveness.                                                               *)

\* The loop is not stopped and no prompt is empty (an empty one makes every
\* Execute raise).
KeepsRunning == [](stage # "stopped") /\ \A r \in Requests : plen[r] > 0

\* Every submitter whose job no redelivery overtakes is answered: neither a
\* preemption nor a failed forward, an exhausted pool or a full batch leaves one
\* waiting for ever.
EveryClientAnswered ==
  KeepsRunning /\ [](overtaken = {}) =>
    \A r \in Requests : fut[r] = "waiting" ~> fut[r] # "waiting"

\* Every message is acknowledged in the end: also one whose job failed, was
\* cancelled, was turned away without an ack or a nack, or was replaced by a
\* twin: the replaced jobs keep their blocks, but never the last one.
EveryMessageSettles ==
  KeepsRunning => \A r \in Requests : r \in Unsettled ~> r \notin Unsettled

-----------------------------------------------------------------------------
(* A claim of the documentation that the code does not keep.               *)

\* The job's own future and token queue carry the answer back to whoever
\* submitted it, even when its lease expired while it was being served.
EveryClientServed ==
  \A r \in Requests : fut[r] = "waiting" ~> fut[r] # "waiting"
=============================================================================
