# Verification of the GLM-5.3-Flash EXL3 serving and quantization code

TLA+ models, model-checking runs and machine-checked proofs of the parts of
this repository that keep state and make decisions: the ported vLLM engine core
(KV-cache block pool, KV-cache manager, scheduler with deferred frees and remote
KV loads, engine loop, data-parallel waves), the campaign runner of the
quantization pipeline, and the layer walk and worker pool of the
reproducibility encoder.

Abbreviations for paths used below:

| short | path |
|---|---|
| `v1/core/` | `src/upstream-core-port/upstream-g1/vllm/v1/core/` |
| `core.py` | `src/upstream-core-port/engine-core/core.py` |
| `qp/` | `src/src/quant_pipeline/` |
| `r10/` | `src/reproducibility/r10/r7_encoder/` |

## 1. Inventory of the system

The repository holds two programs. The *serving engine* keeps running requests
on a GPU whose KV cache is divided in blocks. The *quantization pipeline*
encodes the weights of a model in a long campaign that may be stopped and
resumed. The rest is numerical code, measurement scripts and settings.

### Serving engine

| part | state it keeps | operations | what makes it hard | what makes it correct |
|---|---|---|---|---|
| Block pool (`v1/core/block_pool.py`) | free queue, `ref_cnt`, the hash of each block, additional hashes, map from hash to blocks | `get_new_blocks`, `touch`, `free_blocks`, `cache_full_blocks`, `cache_partial_block`, `move_block_hashes`, `evict_blocks`, `reset_prefix_cache` | three structures updated apart; a block may be free and cached at once; a block may be reached under several keys | the free queue is the blocks without references; both directions of the cache agree; no reference is lost or returned twice |
| Free queue (`v1/core/kv_cache_utils.py`) | doubly linked list through the blocks | `popleft(_n)`, `remove`, `append(_n)`, `prepend_n` | sentinels and a counter beside the links | is a sequence without repetition |
| Single-type managers (`v1/core/single_type_kv_cache_manager.py`) | `req_to_blocks`, `num_cached_block`, pending copy-on-write copies | allocate, take hits, cache, free, skip blocks, copy on write | full attention, sliding windows and Mamba states differ in what may be freed early | a table names a block once; the chain of cached blocks has no hole |
| Coordinator (`v1/core/kv_cache_coordinator.py`) | one manager for each group | fixed point of the cache hit over groups | hits of different lengths in different groups | one length all groups can serve |
| KV-cache manager (`v1/core/kv_cache_manager.py`) | counters of refused admissions | `get_computed_blocks`, `allocate_slots`, `free`, `pop_blocks_for_free`, `reset_prefix_cache` | two admission gates, a watermark, a reserve that ages; blocks are cached before the model has run | a call that passes the gates never runs out of blocks; what is cached was computed; no request is refused for ever |
| Scheduler (`v1/core/sched/scheduler.py`) | `running`, `waiting`, `requests`, fences of deferred blocks | `schedule`, `update_from_output`, `add_request`, `finish_requests`, `reset_prefix_cache` | preemption in the middle of a scheduling decision, drafts that are rejected, batches in flight, remote KV | every request is in one place, its KV is what it counts on, it is finished some day |
| Scheduler output (`v1/core/sched/output.py`) | none, records | – | – | – |
| Engine core (`core.py`) | input and aborts queues, `batch_queue`, idle callbacks, shutdown state | busy loop, `step`, `step_with_batch_queue`, adds, aborts, pause, sleep, wake-up, shutdown | a second thread fills the queues; up to N batches in flight; a pause that waits is completed by a callback | no abort is lost, everything is answered once, an answered pause holds, the loop ends when told to |
| Data-parallel engine cores (`core.py`, `DPEngineCoreProc`) | `engines_running`, `current_wave`, `step_counter`, `pending_pause`, `ignore_start_dp_wave` | dummy steps, all-reduce at intervals, start of a wave, pause and resume of all ranks | every forward pass is a collective; messages between ranks, coordinator and front-end are late | ranks reach the same collective after the same pass, none is left alone in one |
| Adaptive draft length | acceptance statistics | update and choose a length | a small sequential controller | stays in its bounds |
| KV layouts, workers, attention, kernels, models | GPU tensors | – | numerical | – |
| Chat protocol | none | request and response schemas | – | – |

The scheduler calls the KV-cache manager (synchronously), the manager the
coordinator and the single-type managers, and these the pool; the engine core
calls the scheduler, hands its output to the workers and the workers' result
back to it. One thread runs all of this. What interleaves with it are the
thread that puts requests, aborts and calls of the clients into two queues, the
batches and KV loads that execute meanwhile, and, with data parallelism, the
other ranks and the coordinator.

### Quantization pipeline

| part | state it keeps | operations | what makes it hard | what makes it correct |
|---|---|---|---|---|
| Campaign runner (`qp/campaign/runner.py`) | hash-chained journal, receipts of attempts, lock file | append, recover a torn tail, replay, run a stage, decide a gate, supersede a generation, retire files | a crash between any two writes; a replay that refuses what it does not recognise | whatever a runner leaves behind is accepted by the replay; finished work is not run again; the campaign settles |
| Direct K4 (`qp/campaign/glm53_direct_k4.py`) | work units pending, claimed, complete; receipts | claim, complete, resume | four workers, resumed halfway | each unit is encoded once and none is lost |
| Uniform K4 (`qp/campaign/glm53_uniform_k4.py`) | phase, layers of each worker | advance, claim, complete | a phase depends on the evidence of the earlier ones | the layers stay a partition |
| Candidate journal and factory (`qp/candidates/ledger.py`) | write-once records | create, resume, append | a crash while the journal is created | a resumed record has the identity it was started with |
| Artifact and payload stores (`qp/candidates/payload_store.py`) | files named by content | atomic write | temporary files left by a crash | a name is bound to one content |
| Rate allocation | none | dynamic programme over candidates | – | equals the optimum of its definition |
| Layer walk (`r10/walk.py`, `r10/state.py`) | `JOURNAL.json`, states at the input of each layer with their seals and archives, partial captures | initialize, run a layer (capture, search, encode, forward), adopt, seal, retire | a kill between any two durable steps; a resume with another device pool writes other bytes | the journal is backed by files, the newest sealed state is on disk, a resumed walk completes |
| Worker pool (`r10/process_pool.py`) | one process and one queue for each device | start, `map`, `close` | a worker fails or is killed before, in or after the write of its answer | a call returns its own answers or closes the pool, unless a worker killed in its write holds the others up (section 6); no worker outlives the pool |
| Calibration, codecs, checkpoint formats, publication, the parallel encoding drivers, scripts | – | – | numerical or one-shot | – |

`PROJECT.json` lists every part with its status, and every hazard of this code
at its line with the properties that would catch it.

## 2. The modules

```
BlockPool                     the pool as a value with operators for its methods
 ├─ BlockPoolClients          every client of the pool, in any order
 │   ├─ MCBlockPoolClients
 │   └─ BlockPoolClientsProofs ── BlockPoolLemmas ── BlockPool
 ├─ KVCacheManager            admission, allocation, caching and free for one group
 │   ├─ Scheduler ── MCScheduler, SchedulerProofs ── BlockPoolLemmas
 │   └─ RemoteLoads ── MCRemoteLoads
 └─ DeferredFree ── MCDeferredFree, DeferredFreeProofs ── BlockPoolLemmas
EngineCore ── MCEngineCore, EngineCoreProofs       one engine process and its clients
DataParallelWaves ── MCDataParallelWaves,          the ranks of a deployment
                     DataParallelWavesProofs
CampaignProgress                                   what a campaign promises
 └─ Campaign ── MCCampaign, CampaignProofs         implements it (refinement)
LayerWalk ── MCLayerWalk, EncoderProofs            the sequential walk
ProcessPool ── MCProcessPool, EncoderProofs        its worker processes
```

**BlockPool** (`block_pool.py`). The pool is a record: the free queue `free`,
`ref`, `hash` (`block_hash`), `more` (`cached_block_hashes_by_block`) and `cached`
(`cached_block_hash_to_block`, the blocks of each key in order of insertion).
Each method is an operator that returns the pool after the call, so that a
handler that makes several calls composes them within one step; the exceptions
and assertions of a method are its `Can...` operator. A key is a model value
with the number of tokens it covers. The null block is left out.

**BlockPoolClients** (`single_type_kv_cache_manager.py`). One action for each
thing the managers do to the pool: allocate, take a hit, cache a full block or a
boundary inside one, the two forms of copy on write (the request leaves the
shared block, or stays and moves the cache entry to the copy), return both
endpoints of the copies, free, evict, reset. The order is unconstrained, which is
more than the scheduler will do, so that what holds here holds for all managers.

**KVCacheManager** (`kv_cache_manager.py` over the unitary coordinator and full
attention). The manager is again a value: pool, tables, `numCached`, and the
refusals counted by the reserve. `CanAllocateSlots` is the two gates of
`allocate_slots`, `RefuseSlots` what a refusal records, `AllocateSlots` everything
a granted call does, and `AllocationSucceeds` that none of the calls below it
raises. Tokens are known by their prefixes: `Prefix[r][p]` names the first
`p` tokens of `r`, so two requests may share KV at a position exactly when they have
the same prefix there.

**Scheduler** (`scheduler.py` driven by `EngineCore.step`). `schedule()` is cut
where its loops turn, with `step` holding its local variables: `BeginStep`;
`SkipRunning`, `ScheduleRunning`, `PreemptRunning`, `EndRunning` for the running
requests; `Admit`, `Refuse`, `EndWaiting` for the waiting ones; then `Dispatch` (the
closing assertions, `_update_after_schedule`, the forward pass), `BeginUpdate`,
`UpdateRequest` and `EndUpdate` for `update_from_output` and `post_step`. An
abort may come between steps and while the batch executes. `slots` is not in the
code: it records, for each KV slot, the prefix whose KV a forward pass put there
last, and is what the two content properties look at.

**RemoteLoads** (`scheduler.py` with a KV connector). The same scheduler with
prefixes that are loaded from outside: in the forward pass, or while the request
waits in `WAITING_FOR_REMOTE_KVS`. It keeps the skipped queue, the promotion of
blocked requests, `_inflight_prefill_reserved_blocks`, the cutting back in
`_handle_invalid_blocks` under both failure policies, aborts of requests whose load
is in flight, and blocks kept until they are sent. Drafts, the cadence and the
admission reserve are left to Scheduler; the model steps synchronously. The
connector and the workers are not in the repository; they are modelled by what
`KVConnectorOutput` tells the scheduler. Two things are assumed of them: an
invalid block is reported no later than the end of its load, and the connector
never asks to be asked again. `slots` is kept as in Scheduler; `Sound` works out
which requests of a batch attend to right KV only.

**DeferredFree** (`scheduler.py` with `defer_block_free`, driven by
`step_with_batch_queue`). The same scheduler reduced to what fences depend on:
no prefix cache, one token a block, up to `Depth` batches in flight, FCFS
preemption, stale output dropped, and one `reset_prefix_cache` that preempts what
runs. `schedSeq`, `procSeq` and `deferred` are `sched_step_seq`,
`processed_step_seq` and `deferred_frees`; each batch remembers the blocks its
passes write.

**EngineCore** (`core.py`, `EngineCoreProc`). Two threads: the input thread puts an
abort first into the aborts queue and then into the input queue (`ClientAbort`,
`PushAbort`), and the busy loop (`pc`) handles the shutdown, notifies idle callbacks,
tests and clears queues, handles a message, and makes the two halves of a step
(`BeginStep`, `EndStep`), which with a batch queue are of different batches. The
scheduler is reduced to what the loop sees of it: sets of waiting and running
requests, finished ids still to report, and the pause state; which requests fit is
a choice. A scenario, chosen at the start, says which requests are sent, which calls
made, and whether the shutdown aborts or drains.

**DataParallelWaves** (`core.py`, `DPEngineCoreProc`). Each rank has an input queue
and a loop of its own; `Forward`, `AllReduce` and `ResumeAllReduce` are
collectives, taken when every rank has arrived. The front-end and the
coordinator (external) are modelled by the messages `core.py` takes from them and sends
them, each delivered late in its own queue; so is `sync_dp_state`, whose effect is
read from the comments and the use `core.py` makes of its result.

**Campaign** (`qp/campaign/runner.py`). The files are variables (`journal`, a torn
fragment, quarantine files, receipts, deleted transient files); the process is `run`,
which a crash forgets. `execute` is cut at every durable step. `Replay` is
`_replay`: it walks the journal event by event (`ReplayEvent`, with the retirements of the
whole journal, `Plans`, known beforehand as in the code) and refuses what it does not
recognise; `audit` holds its verdict on the files as they are, so that TLC evaluates it once a
state. Hashes are what they stand for. Of the plan it is assumed what `_build_stages`
guarantees: stage ids are not repeated, dependencies come first, both kinds of gates come after
the allocation, and the stage before `candidates` is its fit.

**CampaignProgress** is the abstract specification: stages accepted in the order of
the plan, a new generation that takes back everything from the allocation on, and
a final `finished`. `Campaign` implements it (`RefinesProgress`) with the replay of
the journal as the refinement mapping, so that it is a statement about what any
reader of the journal concludes and not about the memory of the runner.

**LayerWalk** (`r10/walk.py`, `r10/state.py`). One action for each durable step of a
layer: the capture with its progress file, search, encoding, the state transition
shard by shard, archive, publication, seal in the journal, retirement of the
predecessor. A state is the sequence of the device pools that forwarded it: the
device pools are excluded from the sealed recipe (`walk.py`), and the shard that
leads a forward carries the parity audit of its pool, so two runs may write
different bytes for the same state, and a resume must cope.

**ProcessPool** (`r10/process_pool.py`). The coordinator (`__init__`, `map`, `close`) and
the workers. Of the queues of `multiprocessing`: what a process has put waits in the process
until its feeder thread has written it to the pipe, is lost when the process is killed, and
keeps a process that has returned from exiting. The feeders of all workers write to one pipe
under one lock: take the lock (`Lock`), first bytes (`BeginSend`), last bytes (`Send`), give
the lock back (`Unlock`), and a worker may be killed between any two. `get` has a timeout
until it sees a byte, and none for the rest of the message (`BlockInRead`). A call maps over
experts with their positions, which decide the owner: the number of the expert, or its index
in the `assignment_domain` of the call. EncoderProofs holds the proofs about both
modules, which is why the names of ProcessPool say whose they are (`PoolSpec`, `PoolIInv`).

Definitions introduced by a comment beginning with *Fault* are not part of any
specification. Each is a plausible slip in the definition it stands beside, and
is used only to confirm that the properties would notice it.

## 3. What the runs check

| run | instance | shows |
|---|---|---|
| `BlockPoolClients` | 3 blocks, 2 requests, 2 keys (one inside the block, one at its end), tables of 2, 2 pending copies | `TypeOK`, `FreeIsUnreferenced`, `IndexAgrees`, `RefsAccounted`: queue, counts and both directions of the cache stay consistent |
| `SchedulerFCFS` | 3 requests (two share a prefix), 4 blocks of 2 tokens, one draft, one reset | `RequestsAccounted`: nothing raises, every reference is an entry of a table and every request in one queue. `CachedKVWritten`, `ComputedKVWritten`: what is cached or counted as computed was written. `ChainsClosed`: cached chains have no hole. `NoOvertaking` |
| `SchedulerPriority` | 3 requests, 6 blocks, priority policy, chunks of 2, reserve of 4 that ages after a refusal, cadence 2 | `NeverRaises` with victims taken out of the step, `OneWriterPerSlot`, `EveryRequestFinishes` |
| `SchedulerPriorityKV` | 2 requests, priority policy | `CachedKVWritten` is violated (section 6) |
| `DeferredFree` | 2 requests of 3 passes, 3 blocks, 2 batches in flight, a reset | `BlocksAccounted`: every block is in one place, fences are in order, nothing is held when the engine is idle. `FenceHoldsInSync`. `DeferredReturn` |
| `DeferredFreeEarly` | 2 requests, 3 blocks, 2 batches in flight | `NoPendingWriteIsFree` is violated (section 6) |
| `RemoteLoads` | 2 requests, 4 blocks, one failure report, one abort, eight deployments | `LoadsAccounted`: a load owns its blocks until it ends, aborted or not, and ids name loads. `CachedKVLoaded`. `SampledUnlessAborted`: no token from KV that a failed load left. `EverythingEnds` |
| `EngineCore` | 2 requests, 2 calls, 2 batches in flight, one preemption, a shutdown; two scenarios | `NoAbortLost`, `AnsweredOnce`, `PauseHolds`, `ResumedOnlyWhenResident`, `EveryoneAnswered` |
| `DataParallelWaves` | 2 ranks, 2 requests, a pause with its resume, all-reduce every second step; two scenarios | `RanksAgree` in every collective, `ResumeSafe`, `PauseStopsAllRanks`, `NoneStrandedIfOrderly`, `EveryoneServed` |
| `Campaign` | 7 stages (one layer, one re-anchor block, both gates), 2 generations, one kill, one failure | `AuditAccepts`, `RunnerAgrees`, `RetiredOnlyAfterTrigger`, `AttemptsKept`, `RefinesProgress`, `Settles` |
| `LayerWalk` | 4 layers, 3 shards, 2 device pools, 3 kills, one rerun, states kept or retired | `RefusesOnlyRetired`, `JournalBacked`, `Completes` |
| `ProcessPool` | 3 workers, calls that concern three, two, and one of them by an assignment domain, 2 calls, 2 kills | `QuietBetweenCalls`, `EveryCallEnds` |

**Bounds.** Counters the code lets grow are bounded by `MaxTable`, `MaxCopies`
(BlockPoolClients), `MaxResets` (Scheduler), `MaxFailures`, `MaxAborts` (RemoteLoads),
`MaxPreemptions` (EngineCore), `Pauses` (DataParallelWaves), `MaxCrashes`,
`MaxFailures`, `MaxGenerations` (Campaign, the last one of the code), `MaxKills`,
`MaxReruns` (LayerWalk), `MaxJobs`, `MaxWorkerKills`, `PipeCapacity` (ProcessPool). `counter` and
`stepCounter` are kept modulo the interval and `blocked` up to the age where it stops
to matter, which loses nothing. The step sequence numbers of DeferredFree need no
bound, because each request is served once and produces at most `Outputs` tokens.

The instances are small, and chosen so that the interesting cases occur.

*Scheduler.* The pools are too small for all requests at once, so that requests are
preempted and resumed. Two of the three requests share a whole block and differ after
it, so that one request takes blocks another one holds, or has left in the free queue.
The budget is smaller than a prompt, so that prefill is chunked and mixed with decoding,
with drafts accepted and rejected. In `SchedulerPriority` the reserve and the demand of
a long prompt exceed the pool, so that without aging the request would be refused for
ever, and the victim of a preemption is at times part of the step already.

*BlockPoolClients.* A copy on write has a third block beside its two endpoints; since its
properties are proved for every size (section 5) its bounds carry no weight.

*DeferredFree.* Two batches in flight are the depth at which a request is aborted or
preempted while one batch writes its blocks and the next is being scheduled.

*RemoteLoads.* The pool holds one whole request and the loaded beginning of the other, and
`scheduler_reserve_full_isl` is off: two loads admitted side by side would hold all of it
and neither could go on, which only the reservation prevents. (With that gate on, two
requests cannot reach the deadlock even without the reservation.) The deployments are both
failure policies, prompts loaded whole and in part, one load asynchronous and one in the
forward pass, and a connector that offers a prefix again under both queueing policies.

*EngineCore.* The two requests make batches that differ, one request outlasts the other by
a token, and both halves of the batch queue meet a pause. The scenarios are separate
because their product adds states and no interaction: a shutdown that aborts concerns
requests, one that drains concerns pauses.

*DataParallelWaves.* `SyncEvery = 2` (32 in the code) leaves one pass without an all-reduce
between two with one, which is where the ranks can differ.

*Campaign.* Every kind of stage the runner treats specially occurs once, and each gate may
fail in each generation. A kill may fall on any step including the inside of a write.
A second kill, during the recovery from the first, is outside the bound of the run, since a
failure and two kills are too many states; with `MaxCrashes = 2` and `MaxFailures = 0` all six
properties hold too (two minutes).

*LayerWalk.* Four layers are the least at which a layer has a predecessor whose own
predecessor is retired; a kill, a resume with the other pool and a second kill in the same
transition need three kills. The capture and its progress file are written in one step
(`WriteCapture`): a progress file left beside a finished capture is not read any more.

*ProcessPool.* Three workers and two kills are the least at which one worker may be killed
inside its write, another before it, and a third be kept waiting.

**Symmetry** is used in the run of BlockPoolClients only, over the requests; it checks no
liveness.

**Deadlock** is checked in the runs of BlockPoolClients, Scheduler, DeferredFree and
Campaign. In DeferredFree the engine stops when all requests are gone; the stuttering
action `Quiescent` says so. The other systems end: the engine exits or waits for a
message, the walk and the pool are done.

## 4. Fairness

*Scheduler.* `run_busy_loop` calls `step()` again as long as the scheduler has requests.
`FairSpec` says it in the form "infinitely often not `Busy`, or infinitely many engine
steps"; `Busy` spells out when an engine step is possible, which is weak fairness of
`EngineStep` without an `ENABLED` for TLC to evaluate. Clients need not do anything.
The forward pass is taken to return, as the engine treats a worker that does not
as fatal.

*DeferredFree* uses `WF_vars(EngineStep)` for the same reason.

*RemoteLoads.* As Scheduler; and of the workers, as long as there are steps to report it
in, every load ends (well or not) and every transfer out is reported. Without that a
request in `WAITING_FOR_REMOTE_KVS` may wait for ever, the scheduler has no timeout.

*EngineCore.* The loop and the input thread run on unless the loop has ended or waits in an
empty queue (`Blocked`); nothing is assumed of the clients.

*DataParallelWaves.* Ranks, transport and coordinator go on, a call reaches every rank, and
the client resumes what it has paused.

*Campaign.* A runner that runs takes its next step, and somebody starts it again after a
kill or a failure. Kills and failures are bounded.

*LayerWalk.* The same, with no assumption on the pool of the next run.

*ProcessPool.* The coordinator runs; a worker that is up takes its job, ends it one way or
the other, and sends the answer while the pipe has room. Nothing is assumed of a worker
that is starting, since the timeout of `__init__` covers it. The lock of the pipe needs no
strong fairness, as each worker sends one answer for a call. `map` has no timeout for a
worker that hangs in a job and stays alive: that every job ends is an assumption there.

## 5. What is proved

Safety, for every value of the constants. Every theorem rests on an inductive invariant
`IInv` (`PoolIInv`) which the module states before its proof; each of them was also checked by TLC on the
instance of the component's run.

| module | theorem | states |
|---|---|---|
| `BlockPoolClientsProofs` | `TypeCorrect` | `Spec => []TypeOK` |
| | `FreeQueueCorrect` | `Spec => []FreeIsUnreferenced` |
| | `IndexCorrect` | `Spec => []IndexAgrees` |
| | `RefsCorrect` | `Spec => [](TablesUnique /\ RefsAccounted)` |
| `SchedulerProofs` | `Invariant` | `Padding` implies `Spec => []IInv`, the inductive invariant |
| | `AccountsHold` | `Padding` implies `Spec => []RequestsAccounted` |
| | `StepsNeverRaise` | `Padding` implies `Spec => []NeverRaises` |
| | `WritersApart` | `Padding` implies `Spec => []OneWriterPerSlot` |
| | `ChainsStayClosed` | `Padding` implies `Spec => []ChainsClosed` |
| | `NobodyOvertakes` | `Padding` and FCFS imply `Spec => NoOvertaking` |
| | `CacheIsWritten` | `Padding` and FCFS imply `Spec => []CachedKVWritten` |
| | `ComputedIsWritten` | `Padding` and FCFS imply `Spec => []ComputedKVWritten` |
| `DeferredFreeProofs` | `AccountsHold` | `Spec => []BlocksAccounted` |
| | `FencesHold` | `Spec => []FenceHoldsInSync` |
| `EngineCoreProofs` | `AbortsHold` | `Spec => []NoAbortLost` |
| | `AnswersOnce` | `Spec => []AnsweredOnce` |
| | `PausesHold` | `Spec => []PauseHolds` |
| | `ResumesResident` | `Patient` implies `Spec => []ResumedOnlyWhenResident` |
| `DataParallelWavesProofs` | `WavesHold` | `Spec => [](TypeOK /\ WavesAgree)` |
| | `RanksHold` | `BatchQueue` implies `Spec => []RanksAgree` |
| | `ResumesMeet` | `~StrayResume` implies `Spec => []ResumeSafe` |
| | `PausesStop` | `~StrayResume` implies `Spec => []PauseStopsAllRanks` |
| `CampaignProofs` | `Invariant` | `Spec => []IInv`, the inductive invariant |
| | `RunnerKeepsAgreement` | `Spec => []RunnerAgrees` |
| | `RetirementsAreBacked` | `Spec => []RetiredOnlyAfterTrigger` |
| | `AttemptsAreKept` | `Spec => AttemptsKept` |
| | `CampaignImplementsProgress` | `Spec => RefinesProgress`, the refinement of CampaignProgress |
| `EncoderProofs` | `RefusalsHold` | `Spec => []RefusesOnlyRetired` |
| | `JournalHolds` | `Spec => []JournalBacked` |
| | `PoolQuiet` | `PoolSpec => []QuietBetweenCalls` |

The assumptions are those the modules state of their constants: sizes are positive, sets of
requests, ranks and shards are finite, names are not the markers for "nothing", the batch
queue of DeferredFree holds more than one batch (with one there is nothing to defer).
Some theorems have a hypothesis of their own, and each is a case section 6 shows to be needed:
without it TLC finds the counterexample described there. `Padding` says of the configuration
that a padded decode keeps its drafts: there are none, or `long_prefill_token_threshold` is off
or larger than `num_spec_tokens`. The theorems on order and on content also assume
the first-come-first-served policy: under priorities a later request may overtake by design, and
`CachedKVWritten` fails there (`SchedulerPriorityKV`).

**Block pool.** None of the four invariants is inductive. That `FreeBlocks` leaves counts that
are numbers needs that nobody returns more than was taken (`RefsAccounted`); the
accounting of a release needs that a table names a block once (`TablesUnique`); that
new blocks are in no table needs that the free queue holds unreferenced blocks
(`FreeIsUnreferenced`); and that a cached block handed out again leaves no key behind
needs `IndexAgrees`. `IInv` is their conjunction, `Consistent(pool, table, copies)`, where the
type of the counts is only "integer" and non-negativity follows from the accounting.
`Consistent` takes the three values as parameters, so that an action which makes several pool
calls (`CopyAndMove`: allocate, move the hashes, touch) is a chain of lemmas about
intermediate pools.

`BlockPoolLemmas` proves the facts those rest on, for each operator of BlockPool:
what it does to the free queue, the counts and the two directions of the cache. The
order-preserving filter `KeepAt` is defined by rank and not by recursion, which
makes its properties (length, range, no repetition, behaviour under append and
`EXCEPT`) provable; they follow from `RankBijective`.

**Scheduler.** The theorems hold for both policies, every pool, set of requests, prompts, budgets,
chunk size, reserve and cadence. `RequestsAccounted` alone says nothing of the local variables of
`schedule()`, of how far a request is in its blocks, or of the keys of a block, and each of these
decides whether some later call raises. `IInv` has three parts.

*The manager* (`ManagerOK`). A value of the KV-cache manager is in order when its pool is, every
reference is one entry of one table (`Counted`), a block of a request carries the key of its position
up to `numCached`, and beyond it has no key and is in no other table (`Labelled`), and the cached
chains have no hole (`Chained`). `Chained` is not inductive without the order of the free queue: the
shorter prefix behind a cached block must outlive it, which is to say that it is in use, or both are
free and it stands further back in the queue (`Outlives`). Freeing a table from its tail, and taking hits from
the head of a chain, keep just this. The first half of
SchedulerProofs proves that every call keeps `ManagerOK`: hits, the allocation with its eviction of
what the free queue hands out, caching, freeing; and that a call which passes the gates never runs out
of blocks, the hits that lie in the free queue included.

*The loops* (`Requested`, `Queues`, `Steps`, `Progress`). Between two turns of a loop the budgets
left and the tokens given add up to what the step began with (`Budgets`, with a sum stated as the size
of a set of pairs, because sums over functions are recursive); the batch is a part of the running
queue; and each request is in one of three conditions (`Resting`; `Batched`: part of the batch being
put together; `Ran`: computed, its output not yet delivered), each of which bounds the cached blocks,
the computed tokens and the drafts by the table. Every action moves some requests from one to the
next; a request that is preempted, aborted or taken out of the step goes back to none. The roll-back of
rejected drafts stays in range because `Ran` knows that the drafts are the tokens computed beyond
those known, which is where `Padding` is needed.

*Sharing* (`OwnedOnce`). Of two requests that hold one block, one has computed it as a whole before
the other took it. With `Batched` this keeps what two requests write in a pass apart
(`OneWriterPerSlot`).

*Order* (`NobodyOvertakes`). The running queue followed by the waiting queue is one line. A step
passes the first of the one to the end of the other, or back, which leaves the line as it is
(`Shifted`), or drops requests from it or appends one (`Ordered`); that it names nobody twice
(`LineUnique`) comes from `IInv`. Under the priority policy a request does overtake, hence the
hypothesis on the policy.

*Content* (`CacheIsWritten`, `ComputedIsWritten`). `allocate_slots` puts a block under its key before
the model has run, so in the middle of `schedule()` a key may stand for KV that is not there yet, and
another request may already be given it as a hit. `KVInv` says that it is there or owed: slot `o` of
the block holds the prefix (`slots`), or a member of the batch has it among the tokens it is fed
(`Due`). It says so of every block under a key (`CachedHolds`), and of each request as far as no
rejection takes tokens back any more (`Sure`, `ComputedHolds`). Three arguments carry it. What is owed stays owed:
under FCFS the victim of a preemption is behind the request the loop is at, hence not in the batch
(`PreemptRunningKV`; under the priority policy it may be, which is the disagreement of section 6). What
`allocate_slots` puts under a key the request has computed or is fed in this step, as no token is
cached beyond `num_computed_tokens` and its share (`JoinsKV`). The pass delivers: a slot is written for
one request alone (`OwnedOnce`), or else for the prefix that all who share the block agree on, and
never with a draft, as only blocks of known tokens have a key (`WritesKey`, `DispatchKV`).

**Deferred frees.** Three things change at different moments and the invariant relates them:
where the blocks are (`Accounted`: tables and deferred entries account for every reference),
which steps the fences stand for (`Fenced`: in order, pending, none in the future; `Behind`: the
processed counter never falls behind the batches in flight), and what these batches
still write (`Safe`). The link is that the number a request is given when a batch is closed
is the number of that batch: so a block is freed at once only if no batch in flight has its
request, and otherwise its fence is no earlier than the last batch that writes it. What
`Drain` releases is a recursive function of the list of deferred frees; it is proved to
release the longest prefix whose fences have passed, by induction over the length of the list.

**Engine core.** `NoAbortLost` is not inductive because it says nothing of an abort that
overtakes its request. `IInv` adds the order in the input queue: the ABORT of a request
stands behind its ADD, so that no ADD schedules what its client has given up with no ABORT
left to take it away again. `AnsweredOnce` needs that a request is in one place at most
(queue, waiting, running, answered) and a call too (`CallsOnce`: queue, callback, answered);
`PauseHolds` needs what each program point of the loop knows of the batches in flight
(`LoopState`, `Paused`). `ResumesResident` adds `OneCall`: a patient client has one call under
way, so that nothing that would resume waits behind the second half of a sleep.

**Waves.** `WavesInv` says that no message anywhere names a wave beyond the one all ranks are in,
and from it follows that ranks which meet at the end of a wave agree on its number. `Lockstep` says
that all ranks count their steps alike, which the advance in `step()` would break, and gives
`RanksAgree`. `Stages`
carries the pause: between a call and its last answer the ranks pass, together, from normal work
through asking, agreeing and halting to the barrier of a resume, and at any moment only two
neighbouring stages exist.

**Campaign.** The difficulty is that the replay reads the whole journal, and files besides, while
a step changes one line or one file. `EventSteady` is the fact that makes it tractable: receipts,
quarantined copies and deletions are only ever added to, and what is deleted was planned
(`Explained`), so an event once written is replayed in the same way by every later run. Hence
`ReplayStep`: replaying a journal with one event more is replaying that event, and for each kind of
event there is a lemma on what it makes of a verdict (`CompletedEffect`, `SupersededEffect`, ...).
`IInv` then has three layers. Of the files: every line has behind it what it speaks of
(`Backed`), attempts are numbered from one without a gap (`Numbered`), a receipt without an end
belongs to the last attempt (`Received`; this is why `_recover_unjournaled_result` may look at no
other), and a retirement follows the completion it rests on (`Follows`). Of the verdict: what is
accepted is a beginning of the plan, and a gate or supersession that is due belongs to the stage
accepted last (`Sound`). Of the process: it acts on the verdict (`Agreed`), at each program point it
may rely on what it is about to write (`Placed`, `Attempted`), and a retirement that is not finished
keeps all other work waiting (`Pending`). `Spent` bounds the attempts by the kills, failures and
generations that paid for them. None of this uses that the replay says `ok`: if it ever
refused a journal, what these theorems say would hold all the same. `StepShapes` says what a step may append, and
gives the two action properties and the refinement: a completion of the next stage is `AcceptStage`,
a supersession that is taken is `Replan`, the end is `Finish`, all else stutters.

**Layer walk.** The invariant says of the files what a process relies on when it is started on
them. `Chained`: what the journal seals for a layer was made from what it seals for the one
before. `Kept`: an artifact, sealed or not, and an unfinished capture are those of the sealed state, so
a resume may take them over. `Stored`: which states have their directory and which their
archive, and that only a state with a sealed successor is gone. `Resumable`: an unfinished
transition has on disk what it has noted. Only `Knows` speaks of the process, so a kill at any step keeps the rest.

**Worker pool.** `QuietBetweenCalls` speaks of the idle pool. `IInv` says where the one message
between the coordinator and a worker is at any other moment: a worker no call waits for is
`Quiet`, one it waits for is `Owing` (its slice, its job or its answer is in one place, or died
with it), and while the pool is built `Booting` says the same of the announcement. `Feeds`: a
feeder that holds the lock for an answer has one. None of it speaks of workers that are killed
inside a write: these make a call hang (section 6) but put nothing into the next one.

**Induction.** The induction theorems of the library take an operator as a parameter, which none
of the provers instantiates. Where the length of a sequence or a range of layers needs one, the
proof uses a first-order form: a set of numbers that contains 0 and with each number its
successor contains all (`SetInduction`, from the well-foundedness of inclusion on finite sets),
and a set of numbers that is bounded and not empty has a largest element (`LargestExists`).

**Only model-checked.** Liveness (`EveryRequestFinishes`, `DeferredReturn`,
`EverythingEnds`, `EveryoneAnswered`, `EveryoneServed`, `Settles`, `Completes`,
`EveryCallEnds`), as the prover handles neither fairness nor `ENABLED`.
`NoneStrandedIfOrderly`, whose hypothesis is about how late the coordinator hears of a request.
The properties of RemoteLoads, whose manager the lemmas of
SchedulerProofs cover but whose queues and loads they do not; there the content of KV slots
(`Sound`) is a recursion over the positions of a request. `AuditAccepts`: that the replay accepts
every line a runner writes needs, for each check in `_replay`, that the runner computed the same
thing from the same lines; section 8 lists what the invariant would have to say.

## 6. Where the code and its comments disagree

Two disagreements are runs of their own.

**Cached but not written** (`SchedulerPriorityKV`). `allocate_slots` puts the new
full blocks of a running request in the prefix cache before the model has run.
Its comment (`kv_cache_manager.py:678-682`) reasons that the cap at
`request.num_tokens` ensures "only 'finalized' tokens are cached". Under the
priority policy a later allocation of the same `schedule()` call may preempt a
request that is part of the step already (`scheduler.py:794-815`): it leaves the
step and its blocks are freed, with their hashes. A later hit leads to KV no
forward pass has written. Under FCFS the victim is always the last running request,
which has not been scheduled yet, and `SchedulerFCFS` confirms that the property
holds.

**Counters out of step** (`DeferredFreeEarly`). The comment at `scheduler.py:431-436`
says that the two sequence numbers count non-empty steps and stay in sync, and
that blocks are safe to free once `processed_step_seq >= fence_seq`. The update
(`scheduler.py:1964`) counts empty steps too, so after one empty step every later
fence is passed one step early, and blocks return to the pool which a batch in
flight still writes. `FenceHoldsInSync` shows that this is the only way to break
the fence: whenever the counters have counted the same steps, no block in the free
queue is pending.

The others are stated as definitions of the modules that no run asserts, since they are
false; the properties that are asserted name them as exceptions. To see one, put the
definition in place of the properties of the run's configuration.

*Scheduler.* `PaddedWhole` in the run of SchedulerFCFS with `Requests = {r1, r2}`, `Shared = 0`,
`Prompts = 2`, `LongPrompts = 1`, `NumBlocks = 6`, `Outputs = 3`, `TokenBudget = 4`,
`InputBudget = 4`, `NumSpec = 2`, `Lookahead = 2`, `LongPrefill = 1`: a decode that is admitted from
the waiting queue while others decode is padded to `1 + num_spec_tokens` tokens with placeholder drafts,
and the code would "prefer to not schedule than schedule un-padded here" (`scheduler.py:1090`). The
lines below that comment cut the padded number when `long_prefill_token_threshold` is positive and at
most `num_spec_tokens`; the placeholders stay. All of them are rejected, and the update takes back more
tokens than the step advanced: the request loses computed tokens, and may arrive at
`num_computed_tokens = -1` (`RequestsAccounted` in the place of `PaddedWhole`). This came out of the proof:
the roll-back keeps `Ran` only if the padding is whole, which the condition `Padding` on the
configuration ensures. `pop_blocks_for_free` does not clear the reserve's counter, which `free`
does.

*DeferredFree.* `ResetSucceeds`: "we can make sure the reset is successful" says
`reset_prefix_cache(reset_running_requests=True)`, which with deferred freeing finds the
pool short of the deferred blocks and raises.

*RemoteLoads.* `SampledFromTrueKV` with `Deployments <- MCForwardPass`: a load in the
forward pass fails and its request is aborted before the output is processed.
`_handle_invalid_blocks` only looks at requests that are still in the queues, so under
either failure policy the invalid block stays in the prefix cache and another request
samples from it. `EveryRequestEnds` with `Deployments <- MCRetries` and `MaxAborts = 0`: the
reservation that is there "to avoid deadlock" (`scheduler.py:1165-1171`) counts every
request in `_inflight_prefills`, also one whose failed load has given its blocks back. When
the connector offers the prefix again, the request is refused for the sake of its own
demand, in every step. Under the priority policy a request refused like this also keeps the
ones behind it from being tried.

*EngineCore.* `ResumedOnlyWhenResident` with `Patient = FALSE`: the second half of a sleep
is a callback of its pause, and a resume or wake-up that comes in between lifts the pause
whose callback then puts the executor to sleep. `WaitDrains`: a pause in the mode *wait*
is answered while a request that was running when the pause came, and has been preempted
since, is still unfinished. A pause that is pending when a shutdown begins is never answered.
`step_counter` advances in `step()` and not in `step_with_batch_queue()` (`core.py:667`), so
the prefill cadence has no effect there.

*DataParallelWaves.* `CountersAgree` with `BatchQueue = FALSE`: `step()` also advances the
counter, and clears it when the scheduler has no requests, so that ranks whose requests end
at different times count differently and reach the all-reduce after different passes.
`ResumeSafe` with `StrayResume = TRUE`: a resume of engines that nobody has paused takes the
barrier inside a message handler while another rank steps. `NoRankStranded` with a
coordinator that hears of a request late, or a request sent during a resume: one rank starts
a wave the others are not told of.

*Campaign.* `RefusedConfirmationReplans`: a failed confirmation is journaled with the action
the runner's comment promises, but the replay reconstructs the decision from other data and
refuses the journal from then on. `TornTailRemovable`: the quarantine file of a torn tail is
created exclusively and written by one `os.write` that is not checked; a crash in between
leaves a file that a later run takes for a foreign one and refuses.

*LayerWalk.* With `retire_predecessor_state` (the default; `--keep-states` turns it off) a
walk that is resumed or rerun after an earlier state was retired refuses its directory:
`initialize` loads the first state and `_run_layer` loads the successor state of each layer
that is sealed, though a comment there says that "its predecessor state may already have been
retired". This includes the pilot run that stops after a layer. A kill between the seal of
a state and the retirement of the one before leaks the old directory. `RefusesOnlyRetired`
and `Completes` allow exactly this refusal and show that there is no other.

*ProcessPool.* `EveryCallEnds` names two states in which a call hangs, though the check for
dead workers (`process_pool.py:800-808`) is there to end it. `StuckInRead`: a worker is killed
when part of its answer is in the pipe. `get(timeout=1.0)` sees bytes and reads on without a
timeout; the other processes keep the pipe open, so that no end of file comes either. In
`__init__` the deadline of 180 seconds does not help, as it is looked at between two reads.
`LockLost`: a worker is killed after its answer is in the pipe and before it gives back the
write lock that all workers share. Its answer is taken, the others are alive and wait for the
lock, and `map`, which looks for dead workers among those it waits for, asks again and again.
It may be an earlier call, or the announcement to `__init__`, that the lock was taken for.
Without either state in the property TLC finds the counterexample; both need a kill in a
window of the size of one write. An interrupt of the coordinator still closes the pool, and
a worker killed before its first byte, with the lock or without it, is noticed.

*Parallel encoding (not modelled).* `fast_encode.py` claims a layer by creating a directory
which a worker that dies never releases; a rerun skips the layer and reports that all
workers have finished.

## 7. What is not modelled, and why

Most of the repository is tensor code: model definitions, attention backends, GPU model
runners, kernels, quantization search, codecs and statistics. It has no protocol state, and
what matters about it is numerical; a model of it would say nothing. The modules cover the
code that decides and remembers, which is a small share of the lines.

*Of the engine:* the linked list of the free queue, block hashing and sizing; the managers
that free blocks early (sliding window, chunked local, Mamba rings) and the hybrid
coordinator; encoder inputs, LoRA, streaming sessions, structured output; asynchronous
scheduling's delivery of stale output, which belongs to a scheduler class that is not in
the repository; copy-on-write fences; elastic scaling, handshakes and the transport of
outputs; the adaptive draft length.

*Of the pipeline:* the direct and uniform K4 launches, the candidate journal and factory,
the artifact and payload stores, rate allocation, the parallel encoding drivers
(section 8). Of the campaign runner, plan creation and the checks that inputs and code
have not drifted: nothing drifts in the model.

*Left out for good:* KV events, metrics and logging (they only report); schemas, layouts
and records; one-shot scripts and container settings; the publication steps.

In Scheduler and RemoteLoads the following are fixed: one full-attention group, prefix
caching on, chunked prefill on, no LoRA, no encoder. A token sequence is known
beforehand (`Prefix`), since a request resumed after a preemption continues with the
tokens it has already produced; which drafts are accepted is not. A draft slot
holds either the right token or a wrong one, and the KV of a wrong one is `NoKey`.
What a block held is forgotten when nothing can lead to it.

## 8. Plan

1. *Theorems*: `AuditAccepts`, from the lemmas of CampaignProofs: the installed state is that of
   the accepted stages, the sets the replay keeps (started, terminated, planned, retired,
   decided) are those of the journal, and each lookup the runner makes in the journal finds one
   event only. `LoadsAccounted`, from `ManagerOK` and the lemmas on its calls.
2. *Pipeline*: the direct-K4 claims and receipts; the uniform-K4 launch; candidate journal and
   payload store; the claims of the parallel encoding; rate allocation as operators against
   the reference definition.
3. *Engine*: the free queue as a linked list, shown to implement the sequence of BlockPool;
   Mamba states with copy on write as a manager of their own over BlockPool; the window
   managers' early release; the coordinator's fixed point against the longest common hit.

## 9. Running the checks

From this directory, for a run named in `PROJECT.json`:

    tlc -workers 2 -config SchedulerFCFS.cfg MCScheduler.tla

and for the proofs (the longest, SchedulerProofs, takes some ten minutes)

    tlapm BlockPoolLemmas.tla
    tlapm BlockPoolClientsProofs.tla
    tlapm DeferredFreeProofs.tla
    tlapm EngineCoreProofs.tla
    tlapm DataParallelWavesProofs.tla
    tlapm CampaignProofs.tla
    tlapm EncoderProofs.tla
    tlapm SchedulerProofs.tla
