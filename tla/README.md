# llaisys in TLA+

A verification project for llaisys: a C++/CUDA inference library for Qwen2, a
Python multi-tenant chat backend on top of it (FastAPI, a continuous-batching
scheduler, a paged KV cache), a smaller standalone chat server, and a web
client. The modules here model the stateful core and the index arithmetic under
it, TLC checks them on small instances, and TLAPS proves some of the results for
every size.

Paths are relative to the repository root; line numbers are those of the commit
the project was written against. `PROJECT.json` maps every definition to its
lines, lists the runs, the hazards and the findings.

## 1. The system

| Component | Source | State | Operations | Hard behaviour |
|---|---|---|---|---|
| Paged KV pool | `src/llaisys/qwen2_paged_pool.cc` | pages (ref_count, owner, hash, sealed), tenants (quota, count, free list), request blocks (page table, pos, prefix), global free list, prefix index, LRU counter | SetTenantQuota, Acquire, Append, Commit, Release, ScatterKV | four books of one truth; eviction and takeover between tenants; copies and wipes after the unlock; failure half way |
| Batched forward | `src/llaisys/qwen2.cc` (`forward_batch_paged_inner`), `src/chatbot/backend/app/services/model_service.py` | K/V rows in the pool's tensors | append for each job, then one packed forward | rows written and read through shared page tables; one job's failure fails the batch |
| KVPoolService | `.../services/kv_pool_service.py` | owner of each block, quotas pushed; a stub block pool | acquire, append, commit, release | quota pushed once; stub mirrors the C pool only in part |
| ClipperScheduler | `.../services/scheduler.py` | active_requests, pending_jobs, internal_queue, batch size | submit, cancel, clean up, inject, preempt, execute | continuous batching, chunked prefill, cancellation, preemption, redelivery |
| MemoryQueueService | `.../services/queue_service.py` | topic queues, leases with expiry | enqueue, lease, ack, nack | at-least-once delivery, visibility timeout, waiting with the lock held |
| Standalone server | `src/chatbot/backend/server.py` | session store, in_use, last_accessed, token histories | get session, stream, complete, clean up | a history kept beside the C session's position; clients that go away; generators closed late; refused forwards |
| Dense session | `src/llaisys/qwen2.cc`, `python/llaisys/models/qwen2.py` | per-layer K/V rows and pos | create, destroy, rewind, forward, infer | rows left beyond pos after a rewind; positions; capacity |
| Tensors | `src/tensor` | shape, strides, offset over a shared storage | create, permute, view, slice, load | views of views |
| Core runtime | `src/core` | a context for each thread, runtimes by device, storages | set device, create tensor, destroy, thread exit | thread-local state, memory that outlives a switch |
| Operators | `src/ops`, `src/utils`, `src/device` | a scratch buffer for each thread; shared memory of a block | attention (single, paged, varlen), argmax, random sampling; linear, add, norm, rope, swiglu, embedding, rearrange | strides, groups, masks and offsets; barriers; stale scratch; ties, NaN and limits |
| RateLimiter | `.../services/rate_limiter.py` | token buckets | check_limit | clock read before the lock |
| TenantManager, storage | `.../services/tenant_manager.py`, `storage.py` | tenant records, key index | create, update, delete, keys | read-modify-write across awaits |
| Auth, routers, wiring | `.../app/middleware`, `routers`, `main.py` | none of their own | per request | streaming clients that go away |
| ChatService, sessions, context, tokenizer | `.../services/chat_service.py`, `dao/session_dao.py` | sessions and their messages | chat_completion, add_message | two completions on one session |
| Frontend, scripts, build | `src/chatbot/frontend`, `scripts`, `xmake` | none of the core | | not modelled |

How they interact. A router (or ChatService) builds a `RequestJob` and submits
it to the scheduler, through the queue service or an internal queue. One
scheduler task goes round the loop *mark cancelled, clean up, inject, execute*.
It calls KVPoolService synchronously for Acquire, Commit and Release, and the
model service in an executor thread for Append and the forward pass, so the
calls into the pool come one after the other from this application, although
the C API is guarded by a mutex and promises more. Tokens travel back through
a per-job queue and a future. The standalone server is a program of its own: a
handler finds, evicts or creates a dense session of the C library and drives it
through a generator, chunk by chunk. Both forwards are made of the same tensors
and operators; the thread that calls them has a context with an active device,
from which tensors take their memory.

What makes each part correct:

* **Pool**: a page is referenced exactly as often as page tables name it; it is
  in exactly one free list when nobody does; a tenant's counter is the number
  of its pages; nobody writes a page another block can read; no page is lost;
  floors hold; the index leads to the tokens it is keyed by.
* **Serving**: what a forward attends to is the KV of the request's own tokens
  in order, whatever was shared, evicted, reused or failed before.
* **Scheduler and queue**: each request is answered once, and its token stream
  ends with the answer; a message is settled, and only when no job stands for it
  any more; a job's block is released exactly once; a preempted job goes on
  where it was; nobody waits for ever.
* **Standalone server**: a session serves one request at a time and is given
  back; whatever is evicted or renamed, no C session is lost or stored twice;
  its history is that of the request's prompt, its rows those of the history.
* **Dense session**: the answer is that of a model without a cache.
* **Tensors and operators**: a view names the elements the same steps name on
  an array; a row attends to its own request's past; a chosen token is one that
  top_k and top_p allow.
* **Contexts**: one active runtime per thread, the current one; a storage lies
  on the device it was asked for.

## 2. Modules

| Module | Models | Uses |
|---|---|---|
| `PagedPool` | the pool's bookkeeping, one action per loop iteration of each entry point | |
| `PagedServing` | the scheduler loop over the pool, and the K/V rows | EXTENDS `PagedPool` |
| `MemoryQueue` | the queue with leases and visibility timeouts | |
| `Scheduler` | futures, token queues, leases, preemption, execution | EXTENDS `MemoryQueue`; implements `RequestService` |
| `RequestService` | abstract: what a submitter is promised | |
| `SessionServer` | the standalone server's session store, handlers and generators | |
| `DenseForward` | the dense session's caches and its forward through the layers | `Tensor`, `SelfAttention`; implements `DenseSession` |
| `DenseSession` | abstract: a causal model without a cache, and the tokens it remembers | |
| `Tensor` | operators: shapes, strides, offsets and the operations on them | |
| `TensorViews` | chains of views of one tensor, and loads through them | `Tensor`; implements `Array` |
| `Array` | abstract: arrays without addresses | |
| `SelfAttention` | operators: the attention kernels on flat buffers | |
| `BatchAttention` | paged and varlen attention calls, request by request, and the scratch buffer | `Tensor`, `SelfAttention`; implements `CausalAttention` |
| `CausalAttention` | abstract: every row attends to its own request's past | |
| `Sampler` | argmax and random sampling of a batch, thread by thread in the argmax kernel | |
| `DeviceContext` | contexts, runtimes and storages of several threads | |
| `MCPagedPool`, `MCPagedServing`, `MCSessionServer`, `MCKernels` | instances, prune points and symmetry for TLC | |
| `PagedPoolProofs` | proofs: types, action properties and the books of the pool that always hold; the books that hold until a page is misfiled, and who writes what | EXTENDS `PagedPool` |
| `PagedServingProofs`, `PagedServingRowsProofs` | proofs about the jobs of `PagedServing`, on top of the pool's; what the rows of the KV tensors hold | EXTEND `PagedServing` and `PagedPoolProofs` |
| `SchedulerProofs`, `SessionServerProofs` | proofs about the module of that name | |
| `KernelsProofs` | proofs about `DeviceContext`, `Sampler` and `DenseForward`, three of the machines of the run `kernels` | EXTENDS all three |
| `TensorProofs` | proofs about the other two, `TensorViews` and `BatchAttention`, and about the types of all five | EXTENDS `MCKernels` and `KernelsProofs` |
| `SequenceLemmas` | proofs about `RemoveFirst`, `RemoveAt`, `FlattenSeq`, heads of sequences, sums over sets and cardinalities of index sets | |

The layers meet in these places: `PagedServing` is the scheduler over the pool;
`Scheduler` has an abstract pool and adds what preemption and redelivery do to
clients; `SessionServer` keeps of a C session the tokens of its rows below
`pos` (`cache`), which is what `DenseForward` shows a session to amount to
(`ForwardFollowsTokens`), with `Len(cache[p])` for `pos`; `DenseForward` takes
its slices from `Tensor` and its attention from `SelfAttention`, and so does
`BatchAttention`; `PagedServing` assumes of a forward what `BatchAttention`
shows of its attention.

### 2.1 PagedPool

`page`, `quota`/`used`/`free` (the fields of `TenantState`), `block`,
`globalFree` and `index` are the fields of `LlaisysQwen2PagedPool`. Each entry
point takes `pool->mu`, loops, and lets go; here `call` is the frame of the
thread that holds the mutex, `...Begin` opens it, one action is one iteration,
`...Return` closes it. Within a frame nobody else runs, which is what the mutex
gives; so the grain is fine enough to state what one iteration does and no
coarser interleaving is hidden. The wipes and copies that Append collects and
runs after the unlock go to `pending` and are steps of their own, interleaved
with the calls of all other blocks.

| Action | Code |
|---|---|
| `Init` | Create, lines 294-344 |
| `SetTenantQuota` | 353-362 |
| `AcquireBegin`, `AcquireMatch`, `AcquireReturn` | 364-435, one matched chunk per step |
| `ReleaseBegin`, `ReleasePage`, `ReleaseReturn` | 437-458, one page per step |
| `AppendBegin`, `AppendNewPage`, `AppendFork`, `AppendInPlace`, `AppendFail`, `AppendReturn` | 460-530, one page per step (the later tokens of a page change nothing) |
| `AllocOnePage` = `TakeOwnFree` or `TakeGlobal` or `EvictOther` | alloc_one_page, 225-288 |
| `DeferredStep` | 527-528, wipe_page and copy_page |
| `CommitBegin`, `CommitPage`, `CommitReturn` | 532-567, one page per step |

Abstractions. A chain hash is the token prefix it is the hash of, so FNV
collisions are outside the model. `last_used_seq` is only compared, so
`lastUsed` keeps ranks instead of ever-growing stamps. Integers of the pool are
naturals: `ref_count` overflow (65536 holders of one page) is not modelled.
`block_id` slots are bounded by `NBlocks`. Callers follow the contract of the
code that calls them: one call at a time per block, a Commit at or before the
block's position with a history that reaches it. `misfiled` is a history
variable: it becomes TRUE when Release files a page under a tenant that does
not own it. No action reads it.

### 2.2 PagedServing

`job` is the scheduler's `RequestJob`s with the phases a job goes through,
`stage` the scheduler's place in its loop, `kv` the pool's K/V tensors. A row is
abstracted to the tokens it was computed from: `<<a, b, c>>` is the row of `c`
computed with `a` and `b` before it, `<< >>` a zeroed row. A forward writes for
each new token the row made of the rows it attends to, so any mix-up of pages,
positions or owners shows as a wrong row, and one that was cached spreads as it
would in the tensors. Cleanup commits `input_ids ++ output_tokens` at `kv_pos` and
releases (`scheduler.py` 209-239), injection acquires with the prompt (258-301),
execution appends for each job in turn and runs the forward (388-473,
`model_service.py` 73-92); an Append that raises fails the batch. The token
budget and the batch size appear as the choice of how many prompt tokens a job
gets and which jobs take part. Preemption is left out: it needs an Acquire that
returns -1, which the paged pool never does.

`mismatched` and `skewed` are history variables for the two serving-level
defects (section 4); no action reads them.

### 2.3 MemoryQueue, Scheduler and RequestService

`MemoryQueue` is one topic of MemoryQueueService: `ready` is the PriorityQueue,
`leased` the leases in the order they were given, `expired` those past their
visibility timeout. A message is its id, numbered by `created_at`; every message
the backend sends has priority 1. Its operators are the service's methods and
leave everything else to the module that extends it. The `attempt` counter is
left out, since nothing reads it.

`Scheduler` is ClipperScheduler with its submitters, with a queue service
(`UseQueue`) or without. `stage` is where `_run_loop` is, and each action is what
it does between two points where asyncio can let others run:

| Action | Code (`scheduler.py`) |
|---|---|
| `Submit`, `Cancel`, `Stop`, `LeaseExpires` | 135-159; a client's `future.cancel()`; 121-129; time |
| `Cleanup` | 201-254: mark cancelled, commit and release, DONE, result, ack and nack |
| `StartLease`, `LeaseMessage`, `LeaseInternal`, `EndLease` | 347-384 and `queue_service.py` 59-101, one message per step |
| `InjectFree`, `InjectPreempting`, `InjectRejected`, `EndInject` | 258-345, one job per step |
| `ExecuteStarts`, `ExecuteRaises` | 388-430, chunked prefill under the budget |
| `ForwardTokens`, `ForwardText`, `ForwardFails` | 431-473 with the AIMD update, 487-507 |

Submitters, clients and `stop` act only in the stages `idle`, `lease` and
`forward`, and time at any moment: the other
awaits of the loop (putting in an unbounded queue, taking a lock nobody else
holds) never suspend. `pending_jobs` is looked up when a message is taken; the
code does so after the last one, with nothing in between that could tell the
difference. A job is a record; `active` is the dictionary, so a redelivered
job overwrites the one with its id, and `overtaken` (history, read by no action)
keeps what was overwritten. `client` tells the submitted object from one built
from a message; `fut`, `stream` and `answer` are what the submitter's object
holds. `order` lists the ids by `created_at` of their latest job. Tokens are
counted; whether a sample is `eos_token` is a choice. A batch size moves by at
most one per step for sizes up to 10 (+1, or times 0.9), so `UpdateBatchSize`
chooses among the neighbours. The pool is KVPoolService as the loop sees it:
`acquire` returns -1 exactly when every block is in use, and otherwise any block
and any matched length. Exceptions from the pool's calls, a missing `tenant_id`
(which `submit` refuses) and submissions after `stop` are left out.

`RequestService` gives each request a life: submitted, tokens, one answer, DONE.
A step may move any number of requests, because a forward pass serves a batch.
`ServesRequests` is the refinement, with `fut` and `stream` mapped to themselves.

### 2.4 SessionServer

`store` is `session_store` in the order of the dict, `recency` the order of
`last_accessed`, `history`, `in_use` and `alive` the fields of `SessionMeta` and
the C sessions that exist, `cache` the tokens of a C session's rows below `pos`.
`stream` is the place of each handler in `generate_response`.

| Action | Code (`server.py`) |
|---|---|
| `ChatCompletions` = `ResumeNamed` or `ResumeBest` or `Evict` or `Create` or `Refuse` | `get_session_for_request` with pruning, templating and match; the start of `chat_completions` |
| `Started`, `Prefill`, `Decode`, `OutOfSteps` | the generator from chunk to chunk, with `Model.forward` and the C session's capacity check |
| `ForwardRefused` | a forward that returns -1: it goes into the history, its decoding raises, and the generator ends through its `finally` |
| `Disconnect`, `Finally` | a client that goes away; the generator closed some time later |
| `Restart` | `cleanup_sessions` at shutdown, and a new start |

What runs without a break: nothing suspends between the look-up of a session
and the making of its generator, so that is one step. A streamed response
interleaves with others at every chunk. A response that is not streamed never
yields, so it holds the event loop (`holder`) until it is complete. A generator
that has begun and is dropped is closed by the event loop's finaliser, later
(phase `closing`); one dropped before its first chunk never runs its `finally`,
and its session stays in use (`leaked`, a history variable). The handler's
`except` turns the 409 of a busy session and the 503 of a full store into a 500;
for the state they are refusals. `askew` is a history variable: a response began
with the C session at another position than that of the tokens it feeds next
(finding 5). Tokens stand for text: templating is concatenation. A request's own
system prompt and `use_template`, context items, the "error" chunk (which no
forward leads to, since a failed one raises in the decoding) and logging are
left out. `Restart` waits until no request is left.

### 2.5 The kernels

`MCKernels` puts five independent machines into one state space, one per
behaviour: a behaviour picks one at the start and the others stay where they
begin. They share no state in the code either, apart from what their modules
include of one another.

*Tensor, TensorViews, Array.* `Tensor` is the arithmetic of `tensor.cpp`; the
offset counts elements, where the code's counts bytes. `TensorViews` chains
permutes, views, slices and loads; `Array` gives the same steps on arrays that
have no addresses. `ViewsAreArrays` maps an index of the last view to the index
of the base tensor it stands for. `load` copies as if its tensor were
contiguous: only contiguous tensors are loaded by any caller, and that is its
guard. `contiguous`, `reshape` and `to` only throw; `debug` prints.

*SelfAttention, BatchAttention, CausalAttention.* The vector of one head in one
row is a cell; an output cell is the set of the query, key and value cells its
terms come from. So strides, groups, masks, offsets and stale memory are exact,
and floating-point values are not there. The GPU path has the strided batched
products, the softmax and the scratch buffer with whatever the last call left in
it; `Garbage` is what fresh memory holds. `BatchAttention` serves a call request
by request, with `bt_offset` walking through the joint list of page tables.

*DenseForward, DenseSession.* `k_cache` and `v_cache` by layer and row, `pos`,
and the forward layer by layer. A hidden state is told by what it was computed
from, so the answer of `DenseSession` (a causal model run over all remembered
tokens, no cache) and of `DenseForward` can be compared. `tokens` is mapped to
the values of the first layer below `pos`. `rope`, `linear`, norms and the MLP
are functions of a row (and of its position for `rope`), which is all that is
kept of them.

*DeviceContext.* `runtimes` is every runtime ever made, `map` and `current` the
thread-local context, `storages` the ones alive. `setDevice` takes its list from
the map by value, so a runtime it makes is not put into the map: every switch to
a device other than the first makes another one, and only one still current when
the thread ends is ever deleted
(`docs/assignments.md` 356 speaks of one runtime per device). The model has it
as it is; `MaxRuntimes` bounds it. A thread may end at any time (`ThreadExit`):
`~Context` deletes its runtimes whatever storages they still have, so a storage
may outlive its runtime, and `StartKept` says of a storage only what holds while
its runtime is there. Streams and the allocator pass on to the device and are
left out.

*Sampler.* Logits are whole numbers, `1 / temp` goes in steps of `1 / One`,
`top_p` and the random value in steps of `1 / Grain`. `Exponent` is where the two
devices differ: the CPU divides the distance from the largest logit by `temp`,
the kernel (`random_sample_nvidia.cu` 16-27) divides the logit and subtracts the
largest as it is. `Exp` is any function that grows as far as a float can tell: it
may be 0 for several small exponents and `Infinite` for several large ones, and
`MaxFloat` bounds the sums; on the instance it is powers of 2, cut off at both
ends. So a temperature away from 1 can take all weights of a row on the GPU to
infinity or to 0, and the model goes on as the code does: the sums are infinite
or 0, the limit is infinite, 0 or NaN, and the first place wins. Sums carry
`Infinite` and `NotANumber` with the comparisons of IEEE, but no rounding.
`std::sort` leaves the order of equal logits open, and so does `CpuSample`; the
radix sort is stable. The argmax kernel is a block of threads between barriers;
other kernels have no shared memory that an order of threads could matter to. The
GPU sampler is reached through the operator API only: the batched forward copies
logits to the CPU.

## 3. Runs

| Run | Question | Instance | Distinct states |
|---|---|---|---|
| `pool_books` | do the pool's books agree under every interleaving of two tenants' calls? | 2 tenants, 2 pages of 1 token, 2 blocks, prompts `<tokA,tokB>` and `<tokA>`, quotas pushed first (floor 1) or defaults | 2.3 million |
| `serving` | does every request attend to its own history? | 3 requests, 2 tenants, 3 pages of 1 token, 2 blocks, prompts `<tokA>`, `<tokA,tokB>`, 2 output tokens | 550 thousand |
| `sched_queue` | is a submitter, a message or a block ever lost in queue mode? | 2 requests with prompts of 1 and up to 2 output tokens, 2 blocks, batches up to 2, either kind of model, 1 failing forward, 2 leases that expire under a running job, stop | 175 thousand |
| `sched_internal` | does a preempted job go on where it was, and is everyone answered? | 3 requests of 0 or 2 prompt and up to 3 output tokens, 2 blocks, budget 2, batches up to 3, 1 preemption per job, 1 failing forward | 394 thousand |
| `sessions` | are sessions shared, lost, mixed up or kept busy by any order of handlers, chunks and clients that leave? | 2 handlers, 2 sessions of 2 rows, a client's id or none, two conversations, streamed or not | 290 thousand |
| `kernels` | do the tensors, attention, the dense session, the contexts and the choice of a token do what they are for? | chains of 3 views of a 2 by 3 tensor; 2 calls of 12 pairs of requests on 2 devices, paged or varlen, 2 or 4 heads; 2 layers of 3 rows; 2 threads, 2 accelerators, 4 runtimes; rows up to 6 logits on a block of 4 threads, four temperatures | 35 thousand |
| `pool_index`, `pool_misfile`, `serving_skew`, `sched_redelivery`, `sessions_skip`, `sampler_tie` | counterexamples to what the code or its docs say (section 4) | smallest found | - |

What the properties of `pool_books` say: `NoPageLost` (every page is in a
table or allocatable), `RefCountCovered` (never more references than table
entries), and, as long as no page was misfiled, `RefCountExact`,
`FreeListExact`, `UsageExact` and `WritesExclusive` (no other table shows a page
handed out for writing, wiped or copied to). `HeldPagesKept` and `FloorKept`
are action properties: what no step of anybody takes from a page while some
request holds it (its owner, its seal and hash, the index entries that lead to
it), and what no Append takes from another tenant. Of `serving`: `ReadsOwnHistoryOtherwise`,
`CacheHoldsItsTokens`, `PageTablesBounded`, and `PositionsAgree` (job, block and
page table agree, and in a forward the table is as long as the buffer
`qwen2.cc` 506 allots from `pos`).

Of the scheduler's runs: `BlocksAccounted` (blocks in use are one
for each active job and one for each overtaken one, all different),
`NoClientStranded` (who waits is reachable), `NoJobWithoutMessage` (a job in the
loop's hands has an unsettled message), `CachePosition` (`kv_pos` against input
and output over a job's lives), `OutputCapped` (`max_tokens` and the preemption
cap across lives, and an answer no longer than its stream), `ServesRequests`
(refinement), and the liveness properties `EveryClientAnswered` and
`EveryMessageSettles`.

Of `sessions`: `ExclusiveUse` (a C session serves one response at a time and is
marked exactly as long), `StoreWhole` (each C session stands in the store once,
under one id), `HistoryIsPrompt` (a response goes on from its own prompt, within
`max_gen`), `CacheNeverAhead` (no rows beyond the known tokens),
`CacheFollowsHistory` (the rows are those of the history as long as no response
began askew), `FittingNeverRefused` (a prompt that leaves room for `max_gen` is
never refused, whatever the session did before), and the liveness property
`SessionGivenBack`.

Of `kernels`: `ViewsAreArrays`, `AttendsCausally` and `ForwardFollowsTokens` are
refinements; `ActiveIsCurrent` and `StartKept` are about contexts;
`ChosenIsAllowed` is about the chosen token, and names two exceptions: the case
of finding 6 (`Undefined`), and rows that a temperature takes out of the range of
a float on the GPU (`OutOfRange`).

Bounds and why they are enough. Two tenants are what every cross-tenant rule
speaks of; two pages make the global list run dry after two allocations, so own
reuse, eviction and failure all happen, and two blocks sharing a page makes
every kind of sharing. `PageSize` 1 makes every token a page boundary; within a
page the pool does nothing for later tokens, and `serving_skew` uses pages of
two tokens. `MaxRewind` 1 lets a Commit step back, as the scheduler's does after
a failed batch, and reaches the copy-on-write branch. In `serving` three
requests follow one another over two slots and three pages, enough for a third
one to find what two others left in the cache. `PrefixTrack` is never reached.

In `sched_internal` two blocks and three requests make the pool run out with
two jobs active, so that there is a choice of victim and somebody to turn away; a
batch grows from 1, as the code's does, so the jobs in it are of different ages.
In `sched_queue` a job of two output tokens is still active after its first
forward, so its lease can expire under it, its message comes back and its twin
overtakes it (`overtaken`) and takes the other block. A second lease that expires
late meets that twin, or the other request, with no block left.
`MaxFailures` and `MaxLate` bound what repeats: with a model that always fails, a
message is nacked and redelivered for ever. An expiry of a message whose job was
turned away is not bounded.

In `sessions` two handlers compete for two sessions, so one may be evicted while
the other is in use, and with both taken a handler is refused. Sessions of two
rows fill up in one turn: prompts of one to three tokens are resumed, rewound,
refused in prefill and refused in decode. `max_tokens` 3 is above `max_steps` 2.
`sessions_skip` has four rows, enough for a second turn to go on after an answer.

In `kernels` three views reach a slice of a view of a slice and a permute in any
place of the chain; the requests of a call include one without rows, one with a
spare page and one with a page too few (refused when paged), and the second call
finds the scratch of the first. Heads come in one group or two. The rows of a
dense session can be filled, rewound to any length and filled again with other
tokens, under two layers, so that a wrong row of the first shows in the second.
Rows of logits are shorter, as long and longer than the block; the temperatures
are 0, 2, 1 and 1/2, and two rows are far enough from 0 to overflow and to
underflow on the GPU at temperatures other than 1.

Prune points. `UntilMisfiled` stops the search after the first misfiled page,
`UntilDefect` after the first known defect: past it the books are wrong (the
runs of section 4 show how) and properties that are conditional on it say
nothing. `QuotasFirst` restricts quota changes to the time before the first
page is used, which is when KVPoolService pushes them. TLC still checks the
state in which a constraint first fails. Tenants (and requests) are
symmetric: no constant or property names one.

Fairness. `SchedSpec` is weakly fair to the loop, because the event loop runs a
ready task and everything the loop awaits comes or times out (0.1 s idle, a few
ms of lease; a forward pass is assumed to return), and to the expiry of the
oldest lease, because time passes. It is not fair to submitters, cancellations,
or to any particular outcome of a forward. The hypothesis `KeepsRunning` of the
liveness properties excludes a stopped loop and an empty prompt, after which
every Execute raises until that job is cancelled. `EveryClientAnswered` excludes
overtaken jobs besides (`sched_redelivery` shows what then happens);
`EveryMessageSettles` does not: an overtaken job keeps its block, but never the
last one, because the twin that overtakes it needs one of its own. `SessionServer` is strongly
fair to each handler's generator: asyncio runs ready callbacks in the order they
became ready, so a generator that is ready again and again gets its turn though
responses that are not streamed hold the loop in between, and its client either
reads on or goes away. The other specifications assume no fairness and claim no
liveness.

Deadlock is checked in `pool_books`, `sched_internal` and `sessions`. In
`serving` requests end, in `sched_queue` the loop may be stopped, and in
`kernels` the bounds on operations end a behaviour.

## 4. What the code does not keep

Each is a `violation` run with a finding in `PROJECT.json`.

1. **The index can lead to other tokens** (`pool_index`). A page reused from
   the tenant's own free list keeps its index entry while its hash is cleared,
   so nothing can remove the entry any more; when the page is sealed again, the
   old hash leads to new tokens.
2. **A page in a live table can be handed out again** (`pool_misfile`).
   Release files a page under the tenant that released it last; Acquire looks
   for it in its owner's list. The page stays listed as free while it is held.
3. **A fully matched prompt is fed one token twice** (`serving_skew`). The
   job's position is trimmed, the block's is not.
4. **An answer can get lost** (`sched_redelivery`). A lease that expires while
   its job runs makes a twin of the job, which takes its place; the submitter
   waits for ever and the block stays in use.
5. **A session's rows can stand for other tokens than its history**
   (`sessions_skip`). The last token of a response is in the history and was
   never fed; a later prompt that matches it goes on as if it had been.
6. **A token that top_k excludes can be sampled** (`sampler_tie`). With
   temperature 0 and two equal largest logits the CPU sampler computes 0 / 0.

Two more have no run of their own. On the GPU the same can happen at
temperatures other than 0 and 1 (`random_sample_nvidia.cu` 22-24): the maximum is
subtracted before it is divided by `temp`, so all the likely weights of a row may
overflow to infinity, or underflow to 0, and the token of the first place wins,
which need not be one of the largest logits. `ChosenIsAllowed` excepts such rows
by name (`OutOfRange`); without that conjunct the run `kernels` reports one. And
a thread has more than one `Runtime` for a device it switches to more than once
(section 2.5), where `docs/assignments.md` 356 speaks of a single one;
`StartKept` keeps to the first device, for which there is one.

`ReadsOwnHistoryOtherwise` and its companions show that 1, 2 and 3 are the only
ways in which the promise of the cache is broken, and section 5.2 that this is so
at every size of the system;
`CacheFollowsHistory` and `ChosenIsAllowed` do the same for 5 and 6.

## 5. Proofs

Every theorem holds for all values of the constants that the modules' named
assumptions allow. What they assume: sizes are naturals, positive where the code
refuses 0; `NoTenant`, `NoBlock`, `NoSid`, `Nobody` and `Failed` are none of the
values they stand against; requests are naturals and logits integers; tokens, prompts, quotas and
conversations are any sets of the right shape. `ViewsAssumption` and
`CallAssumption` say what a `size_t` or an index says (dimensions, lengths and
pages are naturals) and that heads come in even groups, which the single-sequence
`self_attention` asserts of the same model dimensions (`self_attention/op.cpp` 48);
`ZeroAssumption` tells a score that was set to 0 from any that was computed.
`SamplerAssumption` says that `Exp` does not fall, and is strict but where it is 0
or `Infinite`; that it is finite up to 0; and that it has a value at every
exponent of the batches. Three others deserve a word.
`PromptAssumption` of `SessionServer`: a system message, and the default one,
is at least one token long, because the chat template wraps it in tokens of its
own; so no prompt is empty. `NameAssumption`: the id that the server makes up
for an anonymous session (a uuid4, here the number of its C session) is none
that a client chose. The proofs rest on both: an empty prompt
leaves the first forward without a token to feed, and a chosen name that equals
a made-up one would stand in the store twice. `ServingAssumption` of
`PagedServing` leaves the empty prompt to `Scheduler`, where it makes the batch
raise (`ExecuteRaises`) before any forward.

In each machine the argument is the same. The invariant a run checks is not
inductive; an invariant that implies it is, TLC checks that one first on the
instance of the run, and there is one lemma for each action that can disturb it.

### 5.1 The pool

`PagedPoolProofs`. `TypeOK` alone is not inductive: an action applies the owner
of a block to `free` and `used`, and `TypeOK` allows a block in use to have
`NoTenant`. `TypeInv == TypeOK /\ Owned` is, where `Owned` says that a block in
use has a tenant and an open frame a block in use. What matters to a reader of
`TypeCorrect` is that no table, list or index entry ever names a page that does
not exist. Every lemma about a step of the pool is stated for the calls of any
caller (`AnyNext`), within no bounds on appends, rewinds, prompts or quotas: the
steps of `Spec` are among them (`NextIsAny`), and so are those of `PagedServing`.
`FloorKeptAlways` (no Append takes another tenant below its floor) follows from
it.

Its second half is the books that hold without condition, also after pages were
misfiled: `PageTablesBoundedAlways`, `RefCountCoveredAlways`,
`NoPageLostAlways`, `GlobalFreeUntouchedAlways` (a page on the global list was
never used; this one is stated by the theorem alone). They are proved together,
because they need each other: `Books` is their conjunction, with `Bounded` for
the first, and `TypeInv /\ Books` is inductive (`BooksAlways`). `Bounded` adds to
`PageTablesBounded` that an Acquire's table is as long as its loop has run: only
then does "no indexed prefix is longer than the limit" bound the table of a call
that never looks at it. `NoPageLost` rests on `RefCountCovered`: a page that
Release or a fork leaves off the lists still counts a reference, so it has
another holder. `GlobalFreeUntouched` needs `Bounded`, because the set of
holders is taken over the slots below the limit. `Gains`, `Loses` and
`HandsOver` say what a step that changes one table entry does to the holders of
every page; the steps that change none are `QuietStep`.

Its last part holds as long as no page is misfiled. `RefCountExactAlways`,
`FreeListExactAlways` and `UsageExactAlways` are three books of one truth, and none is inductive alone: a
page taken from a list must be known to have no reference (`FreeListExact`), a
page released for the last time must be known to have no other holder
(`RefCountExact`), and the owner who pays for a page must be the one whose list
it leaves (`UsageExact`). `Accounts` is the three without their condition;
together with `Books` (the global list is untouched pages) it is kept by every
step that does not misfile a page, and nothing undoes a misfiling
(`MisfiledStays`). `AllocExact` says what the three sources of `alloc_one_page`
do to all three.

`HeldPagesKeptAlways` rests on them: a step takes an owner, a seal or an index
entry only from a page it claims, and what it claims has no reference
(`FreeListExact`), so no holder (`RefCountExact`). One step could still go wrong:
a page that is claimed takes the index entry of its hash with it, and a second
page may be sealed under that hash and be held. `AllocKeepsEntries` shows that it
does not: the entry goes only if it leads to the page that is claimed. A takeover in
Acquire changes the owner of a page without references only, and a Commit enters
only what is not in the index yet (`CommitKeepsHeld`).

`WritesExclusiveAlways` needs most. That Append writes only pages of its own
rests on `Within` (a block's position and Append's cursor lie on its pages, so
the page needed next is the next of the table and the pages made ready are
entries of it), on `Accounts` (a page with one reference has one holder, a page
allocated had none), and on `WritesOwn`: what was given out is unsealed and shown
by one entry. Unsealed is the point of that: Acquire is the only way to share a
page and it asks for `sealed`. For the work after the unlock it rests on
`Deferral`: a block with work left is in use and not called again, so no Commit
of its own seals what it is about to wipe.

### 5.2 Requests over the pool

`PagedServingProofs` proves for `ServingSpec`, with any number of requests and
any prompts: `ServingTypeCorrect`, `PositionsAgreeAlways` and
`ServingTablesBounded`. A job's step is a step of the pool only while the
scheduler is at the right point: `ServingStepsPool` shows that each is a call of
`AnyNext`, so the pool's invariant `WritesInv` goes over to the composition as it
stands. `JobInv` is the other half. `JobFits` says how a job, its block, the
pool's open call and the stage of the loop stand to each other: a job that waits
for the pool waits for the call that is open, on its own block; it has a block in
use from Acquire to the end of Release; it was fed all of its history but the
last token, or part of its prompt; its table has the pages that its position, or
the cursor of the Append in between, needs. `Apart`, `NoOrphan` and `NoStray` are
one job to a block, and none of a block or a call without a job; `Rested` is
that nothing of an Append is left to do when a forward runs. `PositionsAgree`
needs all of it: that no block with pages to spare goes into a forward holds
because a batch with a failed Append is finished as a whole, and a finished job
appends no more.

`PagedServingRowsProofs` is about what is in the KV tensors. It proves
`ReadsOwnHistoryAlways` and `CacheHoldsItsTokensAlways`: as long as `Sound` holds
(no page misfiled, no chunk matched against a page of another hash, no job
started behind its block), the rows a forward attends to are those of the job's
own tokens, and a sealed page's rows are those of its hash. Neither holds the
other up alone: a page is sealed with whatever its job fed, and a job starts on
whatever was sealed. `KvInv` closes the circle:

* `RowsFit`: the rows of the tokens a job was fed are the rows of those tokens.
  While Acquire runs, "fed" is the pages matched so far, so each match extends it
  by the page's rows (`MatchKv`).
* `AheadFit`: a table entry with room after those tokens is an unsealed page that
  no other entry shows. It is what makes the forward of one job invisible to
  every other job and to the cache; a takeover or a fresh page gives such an entry
  (`AppendNewKv`), a match never does, because it brings full pages.
* `PrefixFits`: a block that commits keeps a head of its history as its prefix,
  so the hash a page is sealed under is that of the rows in it (`CommitPageKv`).
* `Cached`: a sealed page holds whole pages of the tokens of its hash, as many as
  its hash is long.
* `WipesInv`: what an Append left to wipe after the unlock lies past the tokens
  its job was fed. The wipe may come after the job's forward was set up but not
  after it ran, because the deferred work of a call is done before its caller
  goes on (`Deferral`, `Rested`).

`FullInv == ServingInv /\ (Sound => KvInv)` is inductive, with one lemma for each
action; `SoundBefore` (what went wrong stays wrong) turns the condition around.
Two facts carry the arithmetic: a position is one offset of one entry of a table
and no other (`PlaceOf`, `PlaceBack`), so a forward writes each row at most once
(`ScatteredRow`), and what it writes lies on pages of `AheadFit` (`WrittenPage`).
On the way the proofs show that copy-on-write is never needed: `NeverForks` says
that while `Sound` holds no Append meets a page with two references. The branch
of `Append` that copies a page can run only for a job that started behind its
block, or after a misfiling or a false match.

TLC evaluates `KvInv` with a bound on the length of a hash in `Cached`, which
quantifies over the naturals; on the instance of `serving` and on one with two
tokens to a page it holds while `Sound` does.

### 5.3 The scheduler

`SchedulerProofs` proves `SchedInv` inductive, and from it `SchedTypeCorrect`,
`BlocksAccountedAlways`, `CachePositionAlways`, `NoClientStrandedAlways`,
`NoJobWithoutMessageAlways`, `OutputCappedAlways`, for every number of requests,
blocks and batches, with either queue and either kind of model. Its parts:
`Phases` and `FedFits` (what is leased, fed or finished in which stage of the
loop; without it a job marked finished could be fed), `BlockEach` (a block has
one holder, counting the jobs a redelivered twin overtook), `Counts` and
`Positions` (a job's counters in each of its lives, of which `CachePosition` is
the part the model service relies on), `OneObject` (the submitter's object is in
one place: pending, internal queue, leased or active; without it two DONEs could
be put), `NewStreams`, `WaitingStreams`, `ActiveStreams`, `CappedStreams` (how
far a future and a token queue are, for each place the object may be in),
`Messages` and `Remembered`.

`SchedulerServesRequests` is the refinement `SchedSpec => ServesRequests`, with
`fut` and `stream` mapped to themselves: each step of the loop, whatever batch it
serves, is for each request a step of its life or none. A future is resolved
once, tokens come before the answer and a DONE after it, and no token after a
DONE. After a failed forward there are two: `_fail_jobs` puts one and the cleanup
puts another, and `RequestService` allows that.

### 5.4 The standalone server

`SessionServerProofs` proves `SessionInv` inductive, and from it
`SessionTypeCorrect`, `ExclusiveUseAlways`, `StoreWholeAlways`,
`HistoryIsPromptAlways`, `CacheNeverAheadAlways`, `CacheFollowsHistoryAlways`,
and the action property `FittingNeverRefusedAlways`. `Serving`, `Alone` and
`Busy` say who has a session, `Entries` and `Order` that the dict and the order
of last use are permutations of the sessions alive, `RowsFollow` how the rows
stand to the history, and `Responding` what a response is at: before its first
forward (`AtStart`) the history is its prompt and the rows leave room for what it
will feed, afterwards (`GoingOn`) each token still to come has its row. That is
what a rewind of somebody else's session, an eviction or a dropped generator
would break.

### 5.5 The kernels

The machines of `kernels`, each on its own: `KernelsProofs` is about the first
three here, `TensorProofs` about the other two and about what all five have in
common.

*Contexts.* For any set of threads, any number of accelerators and any bounds,
`ActiveIsCurrentAlways` and `StartKeptAlways`. Neither property
is inductive: a switch looks a device up in the map, so what the map names must
be the thread's own runtime, of that device and not deleted (`MapAlive`), the
current one must be too (`CurrentAlive`), and nothing else of the thread may be
active (`ActiveOnly`). That the first device's runtime stays unique rests on
`StartOnly`: every runtime of that device that is not deleted is the one in the
map of a thread with a context, so a switch back never makes a second one.
`Stored` is the second half of `StartKept` for every storage, and that its runtime
was made: a switch changes flags only, and a thread that ends deletes runtimes but
changes none that stays (`ThreadExitKeeps`). `ContextInv`
is their conjunction; a switch has one lemma (`SwitchedKeeps`) for its two uses.

*Sampler.* `SamplerChooses` is `ChosenIsAllowed` for any batches, any `Exp` and
`MaxFloat`, any `Grain` and any block size without an odd divisor, which is what
`SamplerAssumption` keeps of "a power of 2". `ChosenIsAllowed` says nothing of a
row that is not done yet, so the argmax kernel needs the rest of `SamplerInv`.
After the scan a thread that has arrived holds the first largest logit of its
share of the row, 0 if the share is empty (`Scanned`). In the reduction
(`Reducing`) what the lanes hold is a position of the row or 0, and the lanes
that still count hold a largest logit of the whole row among them: the lanes
below `2 * stride`, of which one that has arrived has taken over from the lane
`stride` above it. A barrier halves that; an odd block size would lose the last
lane, and here the assumption is used (`Halved`). At the end lane 0 holds it
(`Reduced`).

For sampling there is no loop to keep an invariant of, but two folds to relate:
the running sums of the code go along the order of the sort, `Left` sums over a
set of tokens. `CpuSumsAreMasses` and `GpuSumsAreMasses` show that a running sum
is the mass of the front of the order, the second as long as the whole row's mass
is a float. `AheadIsInFront` (the CPU sorts logits) and `HeavierIsInFront` (the
GPU sorts weights, of which different logits may have the same, 0) show that what
is likelier than a token and weighs anything lies in front of it, whatever a sort
does with equals; `FirstReachingLeft` that the first sum to reach the limit
therefore is one that top_k and top_p leave. On the GPU "within range" is used
twice: the heaviest token weighs something, and no sum is cut off
(`GpuSampleLeft`). The CPU needs no such condition: its exponents are at most 0
and the largest counts 1 (`CpuExponents`, `BestFirst`). `CpuColdLeft` is
temperature 0: without a tie no sum is a NaN.

*Dense session.* `DenseFollowsTokens` is the refinement
`DenseSpec => ForwardFollowsTokens`: the steps of `DenseForward` are those of
`DenseSession`, a model without a cache, with `tokens` mapped to the values of
the first layer below `pos`. `DenseInv` says what makes it so: up to `pos`, row r
of layer l of either cache is what the model without a cache has at token r
before that layer (`Follows`). A rewind keeps it because those rows depend on no
later token (`RowsOfPrefix`, the causal mask); a forward extends it layer by
layer (`LayerFollows`): the slice of the cache that a layer fills is the one that
starts at `pos` (`SliceOfCache`), and the rows it attends to are those up to its
own (`OneCellAttention`). Rows beyond `pos` may hold anything. `ModelAssumption`
asks for inputs that are not empty, because the wrapper returns before the call
when there is nothing to feed (`python/llaisys/models/qwen2.py` 136).

The layers of a forward and the hidden states are recursive functions. What one
computes is found by taking the least layer at which a claim about it would
fail; first one has to show that such a function exists (`RunExists`,
`HiddenExists`).

*Views.* `ViewsAreArraysAlways` is the refinement `ViewsSpec => ViewsAreArrays`,
for a tensor of any shape, with dimensions of size 0 too, and any number of
operations. `ViewInv` says that a view has a stride to each dimension (`Fits`)
and that its indices have addresses in the storage, each its own (`Lies`). The
operations on views have one argument for three: a new view shows at each index
what the old one shows at another (`Mirrors`), from which the invariant and the
step of `Array` follow at once (`ViewedKeeps`, `ShowIs`). An address is a sum
over the dimensions (`AddressIs`): a permute adds the same numbers in another
order (`SumMapped`; an order that names no dimension twice names each), a slice
changes one of them by what it adds to the offset. `Array` knows no numbers: it
ranks an index by how many come before it, and `RankIs` shows that this is what
the strides of a tensor without gaps compute (`Flat`), by showing that the
indices of a shape and the numbers below its size are in bijection, in order
(`FlatOrders`, `FlatFromHits`). Views in another shape and loads rest on that.
Loads need the view to have no gaps, as the guard in `ViewsNext` says.

*Attention.* `AttendsCausallyAlways` is `AttnSpec => AttendsCausally`. The
invariant is small: `AttnInv` says that the scratch buffer is a buffer, that
`bt_offset` is the number of pages of the requests served (`PagesBefore`) and
that the output has a cell for each head of each row. What has to be shown is
what one `Serve` writes. Its rows are a slice of the packed buffers
(`RowsOfRequest`) that overlaps with no other request's, so those served before
stay (`RowBelow`). Its keys lie where they should: at `bt_offset` begins the table
of the request (`TablePageIs`, from `FlattenPlace`), and page by page
(`GatherCopies`) or row by row the gathered buffer is the request's (`RowedIs`),
the partial last page included. On the CPU the answer of a cell is then read off
(`CpuAnswers`). On the GPU a row's scores share the scratch buffer with those of
the other rows and with what earlier calls left; a lane of a cell is the lane of
no other (`LaneOfCell`), what lies past the row's position is masked
(`MaskedAt`), and so nothing old is ever weighed (`GpuAnswers`).

*Types.* `KernelsTypeCorrect` is `KernelsTypeOK` for the behaviours of `kernels`:
each machine keeps to its own specification there (`MachinesApart`), and to its
types.

### 5.6 Helpers

`SequenceLemmas`: what `RemoveFirst`, `RemoveAt` and `FlattenSeq` of the
community modules return, that a list without repetitions is as long as its
range, that one sequence is a prefix of another when it agrees with it place by
place, how the heads of a sequence and of its parts relate, that a sum of
naturals over a finite set is a natural, that it splits into one element and the
rest, and that the sum of a part is no larger. `FlattenSeq` and the sum are
recursive functions; their properties are proved without the library's induction
theorems, by taking the least place, or a smallest set, at which they would fail.

### 5.7 Only model-checked

Every invariant, action property and refinement that a passing run checks has a
theorem. Out of the prover's reach and left to TLC: liveness (`EveryClientAnswered`,
`EveryMessageSettles`, `SessionGivenBack`), which needs fairness and ENABLED. The
models below the pool are proved for mathematical integers and exact arithmetic:
overflow and rounding are not in them.

## 6. Not modelled

* The arithmetic of `linear`, `add`, `rms_norm`, `rope`, `swiglu`, `embedding`
  and `rearrange`: no state, and floating point; `DenseForward` keeps of them
  that a row is a function of a row. Overflow of `int` products in the attention
  kernels needs sizes far beyond a small instance.
* The creation and destruction of a model and its weights: an allocation list
  without later reads of what it forgets.
* The stub block pool of KVPoolService: `Scheduler` allows any block and any
  match, which includes it.
* RateLimiter, TenantManager with its mock storage, ChatService and SessionDAO:
  their awaits never suspend in this code (the mock storage does not wait, and
  nobody else holds the locks), so their operations do not interleave.
* Templates, tokenizers, HTTP, TLS and metrics; the user interface, start-up
  scripts and dashboards.
* Data races of the C API (block ids compared with a vector's size before the
  lock): the application calls the pool from one task and its executor thread,
  never from both at once.
