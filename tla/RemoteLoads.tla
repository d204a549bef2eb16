------------------------------ MODULE RemoteLoads ------------------------------
(***************************************************************************)
(* scheduler.py with a KV connector: prefixes that are loaded from outside *)
(* the engine, either inside the forward pass or while the request waits   *)
(* (WAITING_FOR_REMOTE_KVS), loads that fail in part, requests that are    *)
(* aborted while their load is in flight, and blocks that are kept after   *)
(* the end of a request until they are sent.                               *)
(*                                                                         *)
(* The connector and the workers are not part of src/: they are modelled   *)
(* from what the scheduler calls and from what it is told in               *)
(* KVConnectorOutput (finished_recving, finished_sending,                  *)
(* invalid_block_ids).  One engine step at a time; no drafts, no admission *)
(* reserve (module Scheduler has both).                                    *)
(***************************************************************************)
EXTENDS KVCacheManager, SequencesExt, TLC

CONSTANTS
    Priority,       \* rank of << priority, arrival_time >>, all different
    PromptLen,      \* num_prompt_tokens
    MaxTokens,      \* max_tokens
    Sends,          \* requests whose blocks are sent when they have stopped
    TokenBudget,    \* max_num_scheduled_tokens
    MaxRunning,     \* max_num_running_reqs
    Deployments,    \* the configurations an engine can be started with
    MaxFailures,    \* bound: reports of invalid blocks
    MaxAborts       \* bound: requests aborted

\* A deployment: the queueing policy, kv_load_failure_policy, the requests whose
\* load is asynchronous, how many tokens of each prompt are stored outside, and
\* whether the connector offers a prefix again that it was already asked to load
\* (get_num_new_matched_tokens decides on the last three).
DeploymentType == [policy : {"fcfs", "priority"}, onFailure : {"recompute", "fail"},
                   async : SUBSET Requests, remote : [Requests -> 0 .. MaxModelLen],
                   retries : BOOLEAN]

ASSUME RemoteLoadsAssumption ==
    /\ Priority \in [Requests -> Nat]
    /\ \A r, s \in Requests : Priority[r] = Priority[s] => r = s
    /\ PromptLen \in [Requests -> Nat \ {0}] /\ MaxTokens \in [Requests -> Nat \ {0}]
    /\ \A r \in Requests : /\ PromptLen[r] + MaxTokens[r] <= MaxModelLen
                           /\ Len(Prefix[r]) = MaxModelLen
    /\ Sends \subseteq Requests
    /\ TokenBudget \in Nat \ {0} /\ MaxRunning \in Nat \ {0}
    /\ Deployments \subseteq DeploymentType
    /\ \A d \in Deployments, r \in Requests : d.remote[r] <= PromptLen[r]
    /\ MaxFailures \in Nat /\ MaxAborts \in Nat

VARIABLES
    kv,         \* kv_cache_manager
    slots,      \* slots[b][o]: the prefix whose KV slot o of block b holds
    running, waiting, skipped,  \* self.running, self.waiting, self.skipped_waiting
    req,        \* the Request objects
    recved,     \* finished_recving_kv_req_ids
    failed,     \* failed_recving_kv_req_ids
    step,       \* the locals of schedule() and update_from_output()
    load,       \* the asynchronous loads in flight, as the workers know them
    bounds,     \* reports and aborts so far
    conf        \* the deployment

vars == << kv, slots, running, waiting, skipped, req, recved, failed, step, load,
           bounds, conf >>
ids == << recved, failed >>

Blank == [o \in 1 .. BlockSize |-> NoKey]
NoLoad == [at |-> 0, upto |-> 0, blocks |-> << >>, bad |-> {}]
Quiet == [phase |-> "idle", idx |-> 0, want |-> 0, budget |-> 0, sched |-> << >>,
          ran |-> {}, sync |-> << >>, preempted |-> FALSE, skip |-> << >>,
          clean |-> {}, invalid |-> {}, failed |-> {}, recv |-> {}, sent |-> {}]

Init ==
    /\ kv = ManagerInit
    /\ slots = [b \in Blocks |-> Blank]
    /\ running = << >> /\ waiting = << >> /\ skipped = << >>
    /\ req = [r \in Requests |-> [status |-> "new", computed |-> 0,
                                  ntok |-> PromptLen[r], chunk |-> FALSE,
                                  inflight |-> FALSE, again |-> FALSE,
                                  asked |-> FALSE]]
    /\ recved = {} /\ failed = {}
    /\ step = Quiet
    /\ load = [r \in Requests |-> NoLoad]
    /\ bounds = [reports |-> 0, aborts |-> 0]
    /\ conf \in Deployments

Total(r) == PromptLen[r] + MaxTokens[r]
Loading(r) == load[r] # NoLoad
\* self.requests: a finished request stays in it while its blocks are in use.
Freeing == {r \in Requests : req[r].status = "freeing"}

\* Content nobody can read is forgotten, content handed out again is unknown.
Remembered(p, s) ==
    [b \in Blocks |-> IF p.ref[b] = 0 /\ KeysOf(p, b) = {} THEN Blank ELSE s[b]]
Refreshed(p, q, s) ==
    [b \in Blocks |-> IF p.ref[b] = 0 /\ q.ref[b] > 0 /\ KeysOf(p, b) \cap KeysOf(q, b) = {}
                      THEN Blank ELSE s[b]]

\* RequestQueue: a deque, or a heap on (priority, arrival_time).
Before(r, s) == Priority[r] < Priority[s]
Ordered(q) == IF conf.policy = "fcfs" THEN q ELSE SetToSortSeq(Range(q), Before)
Without(q, r) == Keep(q, Requests \ {r})
FromQueues(r) ==
    /\ running' = Without(running, r)
    /\ waiting' = Without(waiting, r)
    /\ skipped' = Without(skipped, r)

----------------------------------------------------------------------------
(* Requests come and go.                                                   *)

Between == step.phase = "idle"

AddRequest(r) ==
    /\ Between
    /\ req[r].status = "new"
    /\ req' = [req EXCEPT ![r].status = "waiting"]
    /\ waiting' = Ordered(Append(waiting, r))
    /\ UNCHANGED << kv, slots, running, skipped, ids, step, load, bounds, conf >>

\* Fault: the blocks of an aborted request go back to the pool at once.
FreedAtOnce(r) == FALSE

\* finish_requests and _free_request: the blocks of a request that is waiting
\* for its load stay with it until the load has ended.
StillLoading(r) == req[r].status = "loading" /\ r \notin recved
FinishRequest(r) ==
    /\ FromQueues(r)
    /\ req' = [req EXCEPT ![r].status = IF StillLoading(r) THEN "freeing" ELSE "finished",
                          ![r].inflight = FALSE]
    /\ kv' = IF StillLoading(r) THEN kv ELSE FreeRequest(kv, r)
    /\ slots' = Remembered(kv'.pool, slots)
    /\ recved' = recved \ {r}
    /\ failed' = failed \ {r}

\* Between steps, or from the aborts queue once the model has executed.
Abort(r) ==
    /\ step.phase \in {"idle", "executed"}
    /\ bounds.aborts < MaxAborts
    /\ req[r].status \in {"waiting", "loading", "running", "preempted"}
    /\ FinishRequest(r)
    /\ bounds' = [bounds EXCEPT !.aborts = @ + 1]
    /\ UNCHANGED << step, load, conf >>

----------------------------------------------------------------------------
(* schedule(), the running requests.                                       *)

\* has_requests: also true while a finished request is in self.requests.
HasRequests == running # << >> \/ waiting # << >> \/ skipped # << >> \/ Freeing # {}

BeginStep ==
    /\ Between
    /\ HasRequests
    /\ step' = [Quiet EXCEPT !.phase = "running", !.idx = 1, !.budget = TokenBudget]
    /\ UNCHANGED << kv, slots, running, waiting, skipped, req, ids, load, bounds, conf >>

AtRunning == step.phase = "running" /\ step.idx <= Len(running) /\ step.budget > 0
Current == running[step.idx]
NumNewTokens(r) ==
    IF step.want > 0 THEN step.want
    ELSE Lesser(req[r].ntok - req[r].computed, step.budget)
RunningCall(r) ==
    [req |-> r, numTokens |-> req[r].ntok, computed |-> req[r].computed,
     new |-> NumNewTokens(r), hits |-> << >>, external |-> 0, lookahead |-> 0,
     waiting |-> FALSE, hasRunning |-> TRUE, delay |-> FALSE, reserved |-> 0]

Allocate(c) ==
    /\ kv' = AllocateSlots(kv, c)
    /\ slots' = Refreshed(kv.pool, kv'.pool, slots)
Spent(r, n) == [step EXCEPT !.budget = @ - n, !.want = 0, !.sched = (r :> n) @@ @]

ScheduleRunning ==
    LET r == Current
    IN  /\ AtRunning
        /\ CanAllocateSlots(kv, RunningCall(r))
        /\ Allocate(RunningCall(r))
        /\ step' = [Spent(r, NumNewTokens(r)) EXCEPT !.idx = @ + 1, !.ran = @ \cup {r}]
        /\ UNCHANGED << running, waiting, skipped, req, ids, load, bounds, conf >>

Victim ==
    IF conf.policy = "fcfs" THEN running[Len(running)]
    ELSE CHOOSE r \in Range(running) : \A s \in Range(running) : Priority[s] <= Priority[r]
IndexOf(q, r) == CHOOSE i \in DOMAIN q : q[i] = r
Undone(v) ==
    IF v \notin step.ran THEN step
    ELSE [step EXCEPT !.budget = @ + step.sched[v],
                      !.sched  = Restrict(@, DOMAIN @ \ {v}),
                      !.ran    = @ \ {v}]

PreemptRunning ==
    LET r == Current
        v == Victim
    IN  /\ AtRunning
        /\ ~CanAllocateSlots(kv, RunningCall(r))
        /\ running' = Without(running, v)
        /\ waiting' = Ordered(<< v >> \o waiting)
        /\ req' = [req EXCEPT ![v].status = "preempted", ![v].computed = 0,
                              ![v].inflight = FALSE, ![v].again = TRUE]
        /\ kv' = FreeRequest(kv, v)
        /\ slots' = Remembered(kv'.pool, slots)
        /\ step' = [Undone(v) EXCEPT
                       !.preempted = TRUE,
                       !.want  = IF v = r THEN 0 ELSE NumNewTokens(r),
                       !.idx   = IF IndexOf(running, v) < @ THEN @ - 1 ELSE @,
                       !.phase = IF v = r THEN "dispatch" ELSE @]
        /\ UNCHANGED << skipped, ids, load, bounds, conf >>

EndRunning ==
    /\ step.phase = "running"
    /\ step.idx > Len(running) \/ step.budget = 0
    /\ step' = [step EXCEPT !.phase = IF step.preempted THEN "dispatch" ELSE "waiting"]
    /\ UNCHANGED << kv, slots, running, waiting, skipped, req, ids, load, bounds, conf >>

----------------------------------------------------------------------------
(* schedule(), the waiting requests.                                       *)

\* _select_waiting_queue_for_scheduling
SelectsSkipped ==
    /\ skipped # << >>
    /\ conf.policy = "fcfs" \/ waiting = << >> \/ Before(Head(skipped), Head(waiting))
Candidate == IF SelectsSkipped THEN Head(skipped) ELSE Head(waiting)
PopCandidate ==
    /\ skipped' = IF SelectsSkipped THEN Tail(skipped) ELSE skipped
    /\ waiting' = IF SelectsSkipped THEN waiting ELSE Tail(waiting)

AtWaiting ==
    /\ step.phase = "waiting"
    /\ waiting # << >> \/ skipped # << >>
    /\ step.budget > 0 /\ Len(running) < MaxRunning

\* A load that has not ended: the request is set aside for this step.
SetAside ==
    LET r == Candidate
    IN  /\ AtWaiting
        /\ req[r].status = "loading" /\ r \notin recved
        /\ PopCandidate
        /\ step' = [step EXCEPT !.skip = Append(@, r)]
        /\ UNCHANGED << kv, slots, running, req, ids, load, bounds, conf >>

\* Fault: what a failed load left behind is cached with the rest.
LoadedAll(r) == CacheBlocks(kv, r, Lesser(conf.remote[r], req[r].ntok))

\* _update_waiting_for_remote_kv: cache what was loaded; a load without a single
\* valid token gives its blocks back; a full hit leaves the last token to compute.
Loaded(r) ==
    IF r \in failed /\ req[r].computed = 0 THEN FreeRequest(kv, r)
    ELSE CacheBlocks(kv, r, req[r].computed)
ComputedOnceLoaded(r) ==
    IF r \notin failed /\ req[r].computed = req[r].ntok THEN req[r].ntok - 1
    ELSE req[r].computed

\* _try_promote_blocked_waiting_request
Promote ==
    LET r == Candidate
    IN  /\ AtWaiting
        /\ req[r].status = "loading" /\ r \in recved
        /\ kv' = Loaded(r)
        /\ slots' = Remembered(kv'.pool, slots)
        /\ req' = [req EXCEPT ![r].status = IF req[r].again THEN "preempted" ELSE "waiting",
                              ![r].computed = ComputedOnceLoaded(r)]
        /\ recved' = recved \ {r}
        /\ failed' = failed \ {r}
        /\ UNCHANGED << running, waiting, skipped, step, load, bounds, conf >>

\* The prefix found here, and what the connector offers beyond it.  A load in
\* the forward pass leaves a token to compute.
HitsOf(r) == IF req[r].computed = 0 THEN GetComputedBlocks(kv, r, req[r].ntok) ELSE << >>
HitTokens(r) == Len(HitsOf(r)) * BlockSize
Offer(r) ==
    IF req[r].computed > 0 \/ (req[r].asked /\ ~conf.retries) THEN 0
    ELSE IF r \in conf.async THEN Greater(conf.remote[r] - HitTokens(r), 0)
    ELSE Greater(Lesser(conf.remote[r], req[r].ntok - 1) - HitTokens(r), 0)
Start(r) == req[r].computed + HitTokens(r) + Offer(r)
LoadsAsync(r) == r \in conf.async /\ Offer(r) > 0

\* Fault: a load is admitted into the blocks other prefills rely on.
ReservedNone == 0

\* _inflight_prefill_reserved_blocks: what the prefills in progress still need.
RemainingBlocks(r) == NumBlocksToAllocate(kv, r, Lesser(req[r].ntok, MaxModelLen), << >>)
InflightPrefills == {r \in Requests : req[r].inflight}
ReservedBlocks == MapThenSumSet(RemainingBlocks, InflightPrefills)

WaitingCall(r) ==
    [req |-> r, numTokens |-> req[r].ntok, computed |-> req[r].computed,
     new |-> IF LoadsAsync(r) THEN 0 ELSE Lesser(req[r].ntok - Start(r), step.budget),
     hits |-> HitsOf(r), external |-> Offer(r), lookahead |-> 0,
     waiting |-> TRUE, hasRunning |-> running # << >>,
     delay |-> LoadsAsync(r), reserved |-> IF LoadsAsync(r) THEN ReservedBlocks ELSE 0]

\* The blocks that the external tokens of an admission go to.
LoadedBlocks(c, m) ==
    SubSeq(m.table[c.req], Len(c.hits) + 1, CDiv(LocalComputed(c) + c.external, BlockSize))

AdmitLoad ==
    LET r == Candidate
        c == WaitingCall(r)
    IN  /\ AtWaiting
        /\ req[r].status \in {"waiting", "preempted"}
        /\ LoadsAsync(r)
        /\ CanAllocateSlots(kv, c)
        /\ Allocate(c)
        /\ PopCandidate
        /\ req' = [req EXCEPT ![r].status = "loading", ![r].computed = Start(r),
                              ![r].inflight = TRUE, ![r].asked = TRUE]
        /\ load' = [load EXCEPT ![r] = [at     |-> Len(c.hits),
                                        upto   |-> Start(r),
                                        blocks |-> LoadedBlocks(c, kv'),
                                        bad    |-> {}]]
        /\ step' = [step EXCEPT !.skip = Append(@, r)]
        /\ UNCHANGED << running, ids, bounds, conf >>

AdmitRunning ==
    LET r == Candidate
        c == WaitingCall(r)
    IN  /\ AtWaiting
        /\ req[r].status \in {"waiting", "preempted"}
        /\ ~LoadsAsync(r)
        /\ CanAllocateSlots(kv, c)
        /\ Allocate(c)
        /\ PopCandidate
        /\ running' = Append(running, r)
        /\ req' = [req EXCEPT ![r].status = "running", ![r].computed = Start(r),
                              ![r].inflight = @ \/ Start(r) + c.new < req[r].ntok,
                              ![r].asked = @ \/ Offer(r) > 0]
        /\ step' = [Spent(r, c.new) EXCEPT
                       !.sync = IF Offer(r) = 0 THEN @
                                ELSE (r :> Range(LoadedBlocks(c, kv'))) @@ @]
        /\ UNCHANGED << ids, load, bounds, conf >>

\* The requests set aside go back to the head of the skipped queue.
SkippedBack == skipped' = Ordered(step.skip \o skipped)
ToDispatch == step' = [step EXCEPT !.phase = "dispatch", !.skip = << >>]

\* allocate_slots returns None: nothing behind the candidate is tried.
Refuse ==
    LET r == Candidate
    IN  /\ AtWaiting
        /\ req[r].status \in {"waiting", "preempted"}
        /\ ~CanAllocateSlots(kv, WaitingCall(r))
        /\ SkippedBack /\ ToDispatch
        /\ UNCHANGED << kv, slots, running, waiting, req, ids, load, bounds, conf >>

EndWaiting ==
    /\ step.phase = "waiting"
    /\ ~AtWaiting
    /\ SkippedBack /\ ToDispatch
    /\ UNCHANGED << kv, slots, running, waiting, req, ids, load, bounds, conf >>

----------------------------------------------------------------------------
(* The workers: loads, the forward pass, and what they report.             *)

\* The i-th block of r, loaded up to token n.
Genuine(r, i, n) ==
    [o \in 1 .. BlockSize |-> IF (i - 1) * BlockSize + o <= n
                              THEN Prefix[r][(i - 1) * BlockSize + o] ELSE NoKey]

\* The loads of the forward pass first: a block that fails keeps what it held.
SyncLoaded(bad) ==
    [b \in Blocks |->
        IF \E r \in DOMAIN step.sync : b \in step.sync[r] \ bad
        THEN LET r == CHOOSE r \in DOMAIN step.sync : b \in step.sync[r] \ bad
             IN  Genuine(r, IndexOf(kv.table[r], b), req[r].computed)
        ELSE slots[b]]

\* Then every layer writes the KV of the tokens it was fed before it attends.
\* Sound[p] are the requests of the batch that find the right KV in all of
\* their first p positions: as it was, or as written in this pass by requests
\* that were sound up to there themselves.
SlotOf(r, p) == << kv.table[r][CDiv(p, BlockSize)], ((p - 1) % BlockSize) + 1 >>
Fed(r) == req[r].computed + 1 .. req[r].computed + step.sched[r]
Batch == DOMAIN step.sched
WritersOf(r, p) == {w \in Batch : p \in Fed(w) /\ SlotOf(w, p) = SlotOf(r, p)}
Sound(content) ==
    LET s[p \in 0 .. MaxModelLen] ==
            IF p = 0 THEN Batch
            ELSE {r \in s[p - 1] :
                    p <= req[r].computed + step.sched[r] =>
                      IF WritersOf(r, p) = {}
                      THEN content[SlotOf(r, p)[1]][SlotOf(r, p)[2]] = Prefix[r][p]
                      ELSE \A w \in WritersOf(r, p) :
                              w \in s[p - 1] /\ Prefix[w][p] = Prefix[r][p]}
    IN  s
Written(content, sound) ==
    LET writes == UNION {{<< r, p >> : p \in Fed(r)} : r \in Batch}
    IN  [b \in Blocks |-> [o \in 1 .. BlockSize |->
            LET here == {w \in writes : SlotOf(w[1], w[2]) = << b, o >>}
            IN  IF here = {} THEN content[b][o]
                ELSE LET w == CHOOSE w \in here : TRUE
                     IN  IF w[1] \in sound[w[2]] THEN Prefix[w[1]][w[2]] ELSE NoKey]]

\* An asynchronous load that ends has written its blocks, whoever holds them.
Arrived(content, done, l) ==
    [b \in Blocks |->
        IF \E r \in done : b \in Range(l[r].blocks)
        THEN LET r == CHOOSE r \in done : b \in Range(l[r].blocks)
             IN  IF b \in l[r].bad THEN Blank
                 ELSE Genuine(r, l[r].at + IndexOf(l[r].blocks, b), l[r].upto)
        ELSE content[b]]

\* Any of the loads in flight may fail in any of their blocks, and any may end.
\* A failed block is reported no later than the end of its load.
MayFail == UNION ({step.sync[r] : r \in DOMAIN step.sync}
                    \cup {Range(load[r].blocks) : r \in Requests})
Dispatch ==
    /\ step.phase = "dispatch"
    /\ \E bad \in SUBSET MayFail, done \in SUBSET {r \in Requests : Loading(r)},
          sent \in SUBSET {r \in Freeing \cap Sends : ~Loading(r)} :
          LET l == [r \in Requests |->
                       [load[r] EXCEPT !.bad = @ \cup (bad \cap Range(load[r].blocks))]]
              before == Arrived(SyncLoaded(bad), done, l)
              sound == Sound(before)
          IN  /\ bad # {} => bounds.reports < MaxFailures
              /\ bounds' = IF bad = {} THEN bounds ELSE [bounds EXCEPT !.reports = @ + 1]
              /\ slots' = Written(before, sound)
              /\ load' = [r \in Requests |-> IF r \in done THEN NoLoad ELSE l[r]]
              /\ step' = [step EXCEPT !.phase = "executed", !.invalid = bad,
                                      !.recv = done, !.sent = sent,
                                      !.clean = sound[MaxModelLen]]
    /\ req' = [r \in Requests |->
                  IF r \notin Batch THEN req[r]
                  ELSE LET chunk == req[r].computed + step.sched[r] < req[r].ntok
                       IN  [req[r] EXCEPT !.computed = @ + step.sched[r],
                                          !.chunk = chunk,
                                          !.inflight = @ /\ chunk]]
    /\ UNCHANGED << kv, running, waiting, skipped, ids, conf >>

----------------------------------------------------------------------------
(* update_from_output().                                                   *)

\* _update_requests_with_invalid_blocks over the requests of q, in order: a
\* request is cut back to its first invalid block, except that the blocks an
\* earlier request of q was cut back to are its business.
Base(r) == req[r].computed - IF r \in Batch THEN step.sched[r] ELSE 0
InvalidAt(r) ==
    {i \in 1 .. Lesser(CDiv(Base(r), BlockSize), Len(kv.table[r])) :
        kv.table[r][i] \in step.invalid}
InvalidBlocks(r) == {kv.table[r][i] : i \in InvalidAt(r)}
MarkedBefore(q, r) == UNION {InvalidBlocks(q[j]) : j \in 1 .. IndexOf(q, r) - 1}
OwnInvalid(q, r) == {i \in InvalidAt(r) : kv.table[r][i] \notin MarkedBefore(q, r)}
Affected(q) == {r \in Range(q) : InvalidAt(r) # {}}
\* Fault: the table is cut behind the first invalid block.
FirstValid(q, r) == 1 + (CHOOSE i \in OwnInvalid(q, r) : \A j \in OwnInvalid(q, r) : i <= j)
FirstInvalid(q, r) == CHOOSE i \in OwnInvalid(q, r) : \A j \in OwnInvalid(q, r) : i <= j
CutBack(q, r) ==
    IF OwnInvalid(q, r) = {} THEN Base(r) ELSE (FirstInvalid(q, r) - 1) * BlockSize
ToEvict(q) ==
    UNION {{kv.table[r][i] : i \in FirstInvalid(q, r) .. Len(kv.table[r])} :
             r \in {r \in Affected(q) : OwnInvalid(q, r) # {}}}

AsyncLoads == SelectSeq(skipped, LAMBDA r : req[r].status = "loading")

\* _handle_invalid_blocks: the loads in flight first, then the running requests.
\* What was computed in this step is skipped for the requests affected; they are
\* failed, and their blocks leave the cache, or they go back to compute it.
HandleInvalidBlocks ==
    LET loads == Affected(AsyncLoads)
        runs == Affected(running)
        fails == conf.onFailure = "fail"
    IN  /\ step.phase = "executed"
        /\ req' = [r \in Requests |->
                      IF r \in loads THEN [req[r] EXCEPT !.computed = CutBack(AsyncLoads, r)]
                      ELSE IF r \in runs THEN [req[r] EXCEPT !.computed = CutBack(running, r)]
                      ELSE req[r]]
        /\ kv' = IF fails THEN EvictFromCache(kv, ToEvict(running)) ELSE kv
        /\ slots' = Remembered(kv'.pool, slots)
        /\ failed' = IF fails THEN failed ELSE failed \cup loads
        /\ step' = [step EXCEPT !.phase = "update", !.idx = 1,
                                !.failed = IF fails THEN loads \cup runs ELSE runs]
        /\ UNCHANGED << running, waiting, skipped, recved, load, bounds, conf >>

\* One turn of the loop over num_scheduled_tokens.
Answered(r) == r \in Batch \ step.failed
Samples(r) == Answered(r) /\ ~req[r].chunk
Stops(r) == Samples(r) /\ req[r].ntok + 1 = Total(r)

UpdateRequest ==
    LET r == running[step.idx]
        kept == r \in Sends
    IN  /\ step.phase = "update"
        /\ step.idx <= Len(running)
        /\ step' = [step EXCEPT !.idx = @ + 1]
        /\ req' = [req EXCEPT ![r].ntok   = IF Samples(r) THEN @ + 1 ELSE @,
                              ![r].status = IF ~Stops(r) THEN @
                                            ELSE IF kept THEN "freeing" ELSE "finished",
                              ![r].inflight = @ /\ ~Stops(r)]
        /\ kv' = IF Stops(r) /\ ~kept THEN FreeRequest(kv, r) ELSE kv
        /\ slots' = Remembered(kv'.pool, slots)
        /\ UNCHANGED << running, waiting, skipped, ids, load, bounds, conf >>

\* The stopped requests leave the running queue; failed loads end in an error.
EndUpdate ==
    /\ step.phase = "update"
    /\ step.idx > Len(running)
    /\ running' = Keep(running, {r \in Requests : req[r].status = "running"})
    /\ step' = [step EXCEPT !.phase = "reports", !.clean = {}, !.invalid = {},
                            !.failed = IF conf.onFailure = "fail" THEN @ ELSE {}]
    /\ UNCHANGED << kv, slots, waiting, skipped, req, ids, load, bounds, conf >>

FailRequest ==
    /\ step.phase = "reports"
    /\ \E r \in step.failed :
          /\ FinishRequest(r)
          /\ step' = [step EXCEPT !.failed = @ \ {r}]
    /\ UNCHANGED << load, bounds, conf >>

\* _update_from_kv_xfer_finished
FreeFinished(r) ==
    /\ kv' = FreeRequest(kv, r)
    /\ slots' = Remembered(kv'.pool, slots)
    /\ req' = [req EXCEPT ![r].status = "finished"]
Received ==
    /\ step.phase = "reports" /\ step.failed = {}
    /\ \E r \in step.recv :
          /\ step' = [step EXCEPT !.recv = @ \ {r}]
          /\ IF req[r].status = "loading"
             THEN recved' = recved \cup {r} /\ UNCHANGED << kv, slots, req >>
             ELSE FreeFinished(r) /\ UNCHANGED recved
    /\ UNCHANGED << running, waiting, skipped, failed, load, bounds, conf >>
Sent ==
    /\ step.phase = "reports" /\ step.failed = {} /\ step.recv = {}
    /\ \E r \in step.sent :
          /\ step' = [step EXCEPT !.sent = @ \ {r}]
          /\ FreeFinished(r)
    /\ UNCHANGED << running, waiting, skipped, ids, load, bounds, conf >>
EndStep ==
    /\ step.phase = "reports"
    /\ step.failed = {} /\ step.recv = {} /\ step.sent = {}
    /\ step' = Quiet
    /\ UNCHANGED << kv, slots, running, waiting, skipped, req, ids, load, bounds, conf >>

----------------------------------------------------------------------------
EngineStep ==
    \/ BeginStep \/ ScheduleRunning \/ PreemptRunning \/ EndRunning
    \/ SetAside \/ Promote \/ AdmitLoad \/ AdmitRunning \/ Refuse \/ EndWaiting
    \/ Dispatch \/ HandleInvalidBlocks \/ UpdateRequest \/ EndUpdate
    \/ FailRequest \/ Received \/ Sent \/ EndStep
Next == EngineStep \/ \E r \in Requests : AddRequest(r) \/ Abort(r)

Spec == Init /\ [][Next]_vars

\* run_busy_loop steps as long as the scheduler has requests (requests are added
\* and aborted only so often, so steps that go on for ever are engine steps).
\* Of the workers: as long as there are steps to report it in, every load ends
\* and every transfer out is reported.
Busy == ~Between \/ HasRequests
ToSend(r) == r \in Freeing \cap Sends /\ ~Loading(r)
FairSpec ==
    /\ Spec
    /\ []<>~Busy \/ []<><<TRUE>>_vars
    /\ \/ <>[](step.phase # "executed")
       \/ \A r \in Requests : /\ []<>~Loading(r)
                              /\ []<>(ToSend(r) => r \in step.sent)

----------------------------------------------------------------------------
Statuses == {"new", "waiting", "loading", "running", "preempted", "freeing", "finished"}

TypeOK ==
    /\ PoolTypeOK(kv.pool)
    /\ kv.table \in [Requests -> Seq(Blocks)]
    /\ slots \in [Blocks -> [1 .. BlockSize -> Keys \cup {NoKey}]]
    /\ running \in Seq(Requests) /\ waiting \in Seq(Requests) /\ skipped \in Seq(Requests)
    /\ \A r \in Requests :
          /\ req[r].status \in Statuses
          /\ req[r].computed \in 0 .. req[r].ntok /\ req[r].ntok \in 1 .. MaxModelLen
    /\ recved \subseteq Requests /\ failed \subseteq Requests
    /\ conf \in Deployments

\* A load writes into blocks that are its request's own: until it has ended none
\* of them is free, shared, or under a key of the prefix cache, whatever was
\* aborted or failed meanwhile (finish_requests keeps them, delay_cache_blocks).
LoadsOwnTheirBlocks ==
    \A r \in Requests : \A b \in Range(load[r].blocks) :
        /\ b \in Range(kv.table[r])
        /\ kv.pool.ref[b] = 1
        /\ KeysOf(kv.pool, b) = {}

\* Nothing enters the prefix cache that the load it came from did not deliver:
\* where every load is asynchronous and cached once it has ended, what a block is
\* cached under is, between steps, what its slots hold (cache_blocks after a load,
\* cut back by _handle_invalid_blocks and by aborts in any order).
HoldsPrefix(b, k) ==
    \E r \in Requests, i \in 1 .. MaxModelLen \div BlockSize :
        BlockKey(r, i) = k /\ slots[b] = Genuine(r, i, MaxModelLen)
CachedKVLoaded ==
    Between /\ conf.async = Requests =>
        \A b \in Blocks : \A k \in KeysOf(kv.pool, b) : HoldsPrefix(b, k)

\* A token is only ever sampled from KV that is right in every position: the
\* requests that a failed load left with wrong KV are skipped in that step and
\* not scheduled over it later ("blocks will be recomputed and reused by other
\* requests sharing them").
SampledFromTrueKV ==
    step.phase = "update" =>
        \A i \in step.idx .. Len(running) :
            Samples(running[i]) => running[i] \in step.clean

\* ... where the loads are asynchronous, and with loads in the forward pass as
\* long as no request is aborted.
SampledUnlessAborted == conf.async = Requests \/ bounds.aborts = 0 => SampledFromTrueKV

\* The two id sets name requests that still wait for their load: an id that
\* outlived its request's abort, failure or preemption would turn a later load
\* of it into a failed or a finished one.
IdsAreLoading == Between => recved \cup failed \subseteq {r \in Requests : req[r].status = "loading"}

\* Every reference is an entry of a table; a request that has left self.requests
\* holds nothing, so blocks kept for a transfer are given back, and once; one
\* that waits holds blocks exactly when a load has brought it computed tokens.
RefsMatchTables ==
    /\ \A b \in Blocks :
          kv.pool.ref[b] = Cardinality({r \in Requests : b \in Range(kv.table[r])})
    /\ \A r \in Requests :
          /\ req[r].status \in {"new", "finished"} => kv.table[r] = << >>
          /\ req[r].status \in {"waiting", "preempted"} =>
                (kv.table[r] = << >> <=> req[r].computed = 0)

\* Blocks, loads and ids are accounted for in any state.
LoadsAccounted == TypeOK /\ LoadsOwnTheirBlocks /\ IdsAreLoading /\ RefsMatchTables

\* The blocks of a finished request come back some day.
KeptBlocksReturn == \A r \in Requests : req[r].status = "freeing" ~> req[r].status = "finished"

\* A request that was added ends some day.  Loads hold their blocks without
\* running and cannot be preempted; the reservation admits them only where that
\* does not stop the others (schedule: "to avoid deadlock").
EveryRequestEnds == \A r \in Requests : req[r].status = "waiting" ~> req[r].status = "finished"

\* ... under FCFS, when the connector offers each prefix once.
EndsWhenOfferedOnce ==
    \A r \in Requests :
        (req[r].status = "waiting" /\ conf.policy = "fcfs" /\ ~conf.retries)
            ~> req[r].status = "finished"

\* Every request and every block that is waited for comes to its end.
EverythingEnds == EndsWhenOfferedOnce /\ KeptBlocksReturn
=============================================================================
