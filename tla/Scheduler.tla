------------------------------- MODULE Scheduler -------------------------------
(***************************************************************************)
(* scheduler.py driven by the synchronous EngineCore.step of core.py: one  *)
(* call of schedule(), one forward pass, one call of update_from_output(), *)
(* with requests added and aborted between steps, and aborted while the    *)
(* model executes.  The engine core is one thread, so a step of the engine *)
(* is cut into actions only where its loops turn; nothing else interleaves *)
(* with them except what the code polls for.                               *)
(*                                                                         *)
(* One full-attention group; no KV connector, no encoder inputs, no LoRA,  *)
(* no streaming sessions, chunked prefill enabled.                         *)
(***************************************************************************)
EXTENDS KVCacheManager

CONSTANTS
    Policy,         \* "fcfs" or "priority"
    Priority,       \* rank of << priority, arrival_time >>, all different
    PromptLen,      \* num_prompt_tokens
    MaxTokens,      \* max_tokens; an earlier stop token is a smaller value
    TokenBudget,    \* max_num_scheduled_tokens
    InputBudget,    \* max_num_batched_tokens
    DraftSlots,     \* max_num_new_slots_for_drafting
    LongPrefill,    \* long_prefill_token_threshold, 0 when there is none
    NumSpec,        \* num_spec_tokens
    Lookahead,      \* num_lookahead_tokens
    MaxRunning,     \* max_num_running_reqs
    Interval,       \* prefill_schedule_interval
    MaxResets       \* bound: calls of reset_prefix_cache

ASSUME SchedulerAssumption ==
    /\ Policy \in {"fcfs", "priority"}
    /\ Priority \in [Requests -> Nat]
    /\ \A r, s \in Requests : Priority[r] = Priority[s] => r = s
    /\ \A r \in Requests : Len(Prefix[r]) = MaxModelLen
    /\ PromptLen \in [Requests -> Nat \ {0}]
    /\ MaxTokens \in [Requests -> Nat \ {0}]
    /\ \A r \in Requests : PromptLen[r] < MaxModelLen
    /\ TokenBudget \in Nat \ {0} /\ InputBudget \in Nat
    /\ TokenBudget <= InputBudget /\ DraftSlots < InputBudget
    /\ DraftSlots \in Nat /\ LongPrefill \in Nat
    /\ NumSpec \in Nat /\ Lookahead \in Nat
    /\ MaxRunning \in Nat \ {0} /\ Interval \in Nat \ {0}
    /\ MaxResets \in Nat

VARIABLES
    kv,         \* kv_cache_manager
    slots,      \* what the forward passes wrote: slots[b][o] is the prefix
                \* whose KV slot o of block b holds, NoKey for anything else
    running,    \* self.running
    waiting,    \* self.waiting
    req,        \* the Request objects
    step,       \* the locals of schedule() and its output
    counter,    \* step_counter, modulo Interval
    flush,      \* finished_req_ids is not empty
    resets

vars == << kv, slots, running, waiting, req, step, counter, flush, resets >>
queues == << running, waiting >>

\* check_stop: max_tokens outputs or max_model_len tokens.
Total(r) == Lesser(PromptLen[r] + MaxTokens[r], MaxModelLen)

Blank == [o \in 1 .. BlockSize |-> NoKey]
Quiet == [phase |-> "idle", idx |-> 0, want |-> 0, budget |-> 0, input |-> 0,
          sched |-> << >>, specs |-> << >>, ran |-> {}, prefill |-> FALSE,
          preempted |-> FALSE, defer |-> FALSE]

Init ==
    /\ kv = ManagerInit
    /\ slots = [b \in Blocks |-> Blank]
    /\ running = << >>
    /\ waiting = << >>
    /\ req = [r \in Requests |-> [status |-> "new", computed |-> 0,
                                  ntok |-> PromptLen[r], drafts |-> 0, chunk |-> FALSE,
                                  accepted |-> 0]]
    /\ step = Quiet
    /\ counter = 0
    /\ flush = FALSE
    /\ resets = 0

\* The content of a block that is in no table and under no key is never read.
Remembered(p, s) ==
    [b \in Blocks |-> IF p.ref[b] = 0 /\ KeysOf(p, b) = {} THEN Blank ELSE s[b]]
\* ... nor is that of a block when get_new_blocks has just handed it out.
Refreshed(p, q, s) ==
    [b \in Blocks |-> IF p.ref[b] = 0 /\ q.ref[b] > 0 /\ KeysOf(p, b) \cap KeysOf(q, b) = {}
                      THEN Blank ELSE s[b]]

\* RequestQueue.add_request and prepend_request: a deque, or a heap on
\* (priority, arrival_time), for which the two are the same.
Sorted(q, r) ==
    Keep(q, {s \in Requests : Priority[s] < Priority[r]}) \o << r >>
    \o Keep(q, {s \in Requests : Priority[s] > Priority[r]})
\* Fault: a preempted request goes to the back.
PrependedLast(q, r) == IF Policy = "fcfs" THEN Append(q, r) ELSE Sorted(q, r)
Enqueued(q, r) == IF Policy = "fcfs" THEN Append(q, r) ELSE Sorted(q, r)
Prepended(q, r) == IF Policy = "fcfs" THEN << r >> \o q ELSE Sorted(q, r)
Without(q, r) == Keep(q, Requests \ {r})

----------------------------------------------------------------------------
(* Between steps.                                                          *)

Between == step.phase = "idle"
HasRequests == running # << >> \/ waiting # << >> \/ flush

AddRequest(r) ==
    /\ Between
    /\ req[r].status = "new"
    /\ req' = [req EXCEPT ![r].status = "waiting"]
    /\ waiting' = Enqueued(waiting, r)
    /\ UNCHANGED << kv, slots, running, step, counter, flush, resets >>

\* finish_requests, between steps or by _process_aborts_queue once the model
\* has executed.
Abort(r) ==
    /\ step.phase \in {"idle", "executed"}
    /\ req[r].status \in {"waiting", "running", "preempted"}
    /\ running' = Without(running, r)
    /\ waiting' = Without(waiting, r)
    /\ req' = [req EXCEPT ![r].status = "finished", ![r].accepted = 0]
    /\ kv' = FreeRequest(kv, r)
    /\ slots' = Remembered(kv'.pool, slots)
    /\ flush' = TRUE
    /\ UNCHANGED << step, counter, resets >>

\* step() with nothing to do restarts the prefill cadence.
IdleStep ==
    /\ Between
    /\ ~HasRequests
    /\ counter' = 0
    /\ UNCHANGED << kv, slots, queues, req, step, flush, resets >>

\* Fault: the status of a preempted request is left alone.
PreemptedReqRunning(r) == [req EXCEPT ![r].computed = 0, ![r].drafts = 0]

\* _preempt_request: the victim has left the running queue.
PreemptedReq(r) ==
    [req EXCEPT ![r].status = "preempted", ![r].computed = 0, ![r].drafts = 0]

Front(q) == SubSeq(q, 1, Len(q) - 1)
Last(q) == q[Len(q)]

\* reset_prefix_cache: with reset_running_requests every running request is
\* preempted first, from the last, and a pool that is still in use is an error.
BeginReset ==
    /\ Between
    /\ resets < MaxResets
    /\ resets' = resets + 1
    /\ step' = [step EXCEPT !.phase = "resetting"]
    /\ UNCHANGED << kv, slots, queues, req, counter, flush >>
ResetPreempt ==
    /\ step.phase = "resetting"
    /\ running # << >>
    /\ running' = Front(running)
    /\ waiting' = Prepended(waiting, Last(running))
    /\ req' = PreemptedReq(Last(running))
    /\ kv' = FreeRequest(kv, Last(running))
    /\ slots' = Remembered(kv'.pool, slots)
    /\ UNCHANGED << step, counter, flush, resets >>
EndReset ==
    /\ step.phase = "resetting"
    /\ running = << >>
    /\ kv' = [kv EXCEPT !.pool = ResetPrefixCache(kv.pool)]
    /\ slots' = Remembered(kv'.pool, slots)
    /\ step' = [step EXCEPT !.phase =
                   IF CanResetPrefixCache(kv.pool) THEN "idle" ELSE "crashed"]
    /\ UNCHANGED << queues, req, counter, flush, resets >>
TryReset ==
    /\ Between
    /\ resets < MaxResets
    /\ resets' = resets + 1
    /\ kv' = [kv EXCEPT !.pool = ResetPrefixCache(kv.pool)]
    /\ slots' = Remembered(kv'.pool, slots)
    /\ UNCHANGED << queues, req, step, counter, flush >>

----------------------------------------------------------------------------
(* schedule(), the running requests.                                       *)

BeginStep ==
    /\ Between
    /\ HasRequests
    /\ step' = [Quiet EXCEPT
                   !.phase  = "running",
                   !.idx    = 1,
                   !.budget = TokenBudget,
                   !.input  = InputBudget,
                   !.defer  = /\ counter % Interval # 0
                              /\ \E i \in DOMAIN running : ~req[running[i]].chunk]
    /\ UNCHANGED << kv, slots, queues, req, counter, flush, resets >>

BudgetLeft == step.budget > 0 /\ step.input > DraftSlots
AtRunning == step.phase = "running" /\ step.idx <= Len(running) /\ BudgetLeft
Current == running[step.idx]

Capped(n) == IF 0 < LongPrefill /\ LongPrefill < n THEN LongPrefill ELSE n
WithinBudget(n) == Lesser(n, Lesser(step.budget, step.input - DraftSlots))

\* num_new_tokens, decided once per request whatever is preempted for it.
NumNewTokens(r) ==
    IF step.want > 0 THEN step.want
    ELSE Lesser(WithinBudget(Capped(req[r].ntok + req[r].drafts - req[r].computed)),
                MaxModelLen - req[r].computed - 1)
Deferred(r) == step.defer /\ req[r].chunk

RunningCall(r) ==
    [req |-> r, numTokens |-> req[r].ntok, computed |-> req[r].computed,
     new |-> NumNewTokens(r), hits |-> << >>, external |-> 0,
     lookahead |-> Lookahead, waiting |-> FALSE, hasRunning |-> TRUE,
     delay |-> FALSE, reserved |-> 0]

SkipRunning ==
    /\ AtRunning
    /\ Deferred(Current) \/ NumNewTokens(Current) = 0
    /\ step' = [step EXCEPT !.idx = @ + 1]
    /\ UNCHANGED << kv, slots, queues, req, counter, flush, resets >>

\* allocate_slots of an admitted or a running request.
Allocate(c) ==
    IF AllocationSucceeds(kv, c)
    THEN /\ kv' = AllocateSlots(kv, c)
         /\ slots' = Refreshed(kv.pool, kv'.pool, slots)
    ELSE UNCHANGED << kv, slots >>

\* f[r] = n: a dict entry is set.
Given(f, r, n) == [s \in DOMAIN f \cup {r} |-> IF s = r THEN n ELSE f[s]]
Spent(n) == [step EXCEPT !.budget = @ - n, !.input = @ - (n + DraftSlots), !.want = 0]

ScheduleRunning ==
    LET r == Current
        n == NumNewTokens(r)
        d == Greater(n + req[r].computed - req[r].ntok, 0)
    IN  /\ AtRunning
        /\ ~Deferred(r) /\ n > 0
        /\ CanAllocateSlots(kv, RunningCall(r))
        /\ Allocate(RunningCall(r))
        /\ step' = IF ~AllocationSucceeds(kv, RunningCall(r))
                   THEN [step EXCEPT !.phase = "crashed"]
                   ELSE [Spent(n) EXCEPT !.idx = @ + 1,
                                         !.sched = Given(@, r, n),
                                         !.specs = Given(@, r, d),
                                         !.ran = @ \cup {r},
                                         !.prefill = @ \/ req[r].chunk]
        /\ req' = [req EXCEPT ![r].drafts = 0]
        /\ UNCHANGED << queues, counter, flush, resets >>

\* No room: the least urgent running request is preempted and the allocation
\* is tried again, unless it was the request itself.  Under "priority" the
\* victim may already be part of this step; what it was given is taken back.
Victim ==
    IF Policy = "fcfs" THEN Last(running)
    ELSE CHOOSE r \in Range(running) :
            \A s \in Range(running) : Priority[s] <= Priority[r]
IndexOf(q, r) == CHOOSE i \in DOMAIN q : q[i] = r
\* Fault: the victim's share is given back but the victim stays in the step.
UndoneBudgetOnly(v) ==
    IF v \notin step.ran THEN step
    ELSE [step EXCEPT !.budget = @ + step.sched[v],
                      !.input  = @ + step.sched[v] + DraftSlots]
Undone(v) ==
    IF v \notin step.ran THEN step
    ELSE [step EXCEPT !.budget = @ + step.sched[v],
                      !.input  = @ + step.sched[v] + DraftSlots,
                      !.sched  = Restrict(@, DOMAIN @ \ {v}),
                      !.specs  = Restrict(@, DOMAIN @ \ {v}),
                      !.ran    = @ \ {v}]

PreemptRunning ==
    LET r == Current
        v == Victim
    IN  /\ AtRunning
        /\ ~Deferred(r) /\ NumNewTokens(r) > 0
        /\ ~CanAllocateSlots(kv, RunningCall(r))
        /\ running' = Without(running, v)
        /\ waiting' = Prepended(waiting, v)
        /\ req' = PreemptedReq(v)
        /\ kv' = FreeRequest(RefuseSlots(kv, RunningCall(r)), v)
        /\ slots' = Remembered(kv'.pool, slots)
        /\ step' = [Undone(v) EXCEPT
                       !.preempted = TRUE,
                       !.want  = IF v = r THEN 0 ELSE NumNewTokens(r),
                       !.idx   = IF IndexOf(running, v) < @ THEN @ - 1 ELSE @,
                       !.phase = IF v = r THEN "dispatch" ELSE @]
        /\ UNCHANGED << counter, flush, resets >>

\* The waiting requests are not considered in a step that preempted.
EndRunning ==
    /\ step.phase = "running"
    /\ step.idx > Len(running) \/ ~BudgetLeft
    /\ step' = [step EXCEPT !.phase =
                   IF step.preempted THEN "dispatch" ELSE "waiting"]
    /\ UNCHANGED << kv, slots, queues, req, counter, flush, resets >>

----------------------------------------------------------------------------
(* schedule(), the waiting requests.                                       *)

RoomToAdmit ==
    waiting # << >> /\ BudgetLeft /\ Len(running) < MaxRunning

HitsOf(r) == GetComputedBlocks(kv, r, req[r].ntok)
HitTokens(r) == Len(HitsOf(r)) * BlockSize

\* A prompt that is cached but for its last token decodes at once, and is
\* padded with placeholder drafts when it joins a batch of decodes.
Padded(r) ==
    /\ NumSpec > 0
    /\ req[r].ntok - HitTokens(r) = 1
    /\ step.ran # {} /\ ~step.prefill
PaddingFits(r) ==
    /\ 1 + NumSpec <= WithinBudget(1 + NumSpec)
    /\ HitTokens(r) + 1 + NumSpec <= MaxModelLen
DefersPrefill(r) == step.defer /\ HitTokens(r) < req[r].ntok - 1
Considered(r) == ~DefersPrefill(r) /\ (Padded(r) => PaddingFits(r))

FirstTokens(r) ==
    WithinBudget(Capped(IF Padded(r) THEN 1 + NumSpec ELSE req[r].ntok - HitTokens(r)))
WaitingCall(r) ==
    [req |-> r, numTokens |-> req[r].ntok, computed |-> 0, new |-> FirstTokens(r),
     hits |-> HitsOf(r), external |-> 0, lookahead |-> Lookahead,
     waiting |-> TRUE, hasRunning |-> running # << >>,
     delay |-> FALSE, reserved |-> 0]

AtWaiting == step.phase = "waiting" /\ RoomToAdmit

Admit ==
    LET r == Head(waiting)
        n == FirstTokens(r)
    IN  /\ AtWaiting
        /\ Considered(r)
        /\ CanAllocateSlots(kv, WaitingCall(r))
        /\ Allocate(WaitingCall(r))
        /\ waiting' = Tail(waiting)
        /\ running' = Append(running, r)
        /\ req' = [req EXCEPT ![r].status = "running", ![r].computed = HitTokens(r)]
        /\ step' = IF ~AllocationSucceeds(kv, WaitingCall(r))
                   THEN [step EXCEPT !.phase = "crashed"]
                   ELSE [Spent(n) EXCEPT
                            !.sched = Given(@, r, n),
                            !.specs = Given(@, r, IF Padded(r) THEN NumSpec ELSE 0)]
        /\ UNCHANGED << counter, flush, resets >>

\* allocate_slots returns None: nothing behind the head is tried.
Refuse ==
    LET r == Head(waiting)
    IN  /\ AtWaiting
        /\ Considered(r)
        /\ ~CanAllocateSlots(kv, WaitingCall(r))
        /\ kv' = RefuseSlots(kv, WaitingCall(r))
        /\ step' = [step EXCEPT !.phase = "dispatch"]
        /\ UNCHANGED << slots, queues, req, counter, flush, resets >>

EndWaiting ==
    /\ step.phase = "waiting"
    /\ RoomToAdmit => ~Considered(Head(waiting))
    /\ step' = [step EXCEPT !.phase = "dispatch"]
    /\ UNCHANGED << kv, slots, queues, req, counter, flush, resets >>

----------------------------------------------------------------------------
(* The forward pass and update_from_output().                              *)

\* The assertions at the end of schedule().
ScheduleAsserts ==
    /\ step.budget >= 0 /\ step.input >= 0
    /\ Len(running) <= MaxRunning
    /\ DOMAIN step.sched \subseteq Range(running)

SlotOf(r, p) == << kv.table[r][CDiv(p, BlockSize)], ((p - 1) % BlockSize) + 1 >>
Fed(r) == req[r].computed + 1 .. req[r].computed + step.sched[r]
\* The drafts a request verifies this step; a placeholder is never accepted.
Verified(r) == IF r \in step.ran THEN step.specs[r] ELSE 0

\* The KV written for position p, when acc of the drafts are right.
Content(r, p, acc) ==
    IF p <= req[r].ntok + acc /\ p \in DOMAIN Prefix[r] THEN Prefix[r][p] ELSE NoKey

\* _update_after_schedule and the execution of the batch.
Dispatch ==
    LET batch == DOMAIN step.sched
        after(r) == req[r].computed + step.sched[r]
        written == UNION {{<< r, p >> : p \in Fed(r)} : r \in batch}
    IN  /\ step.phase = "dispatch"
        /\ step' = [step EXCEPT !.phase = IF ScheduleAsserts THEN "executed" ELSE "crashed"]
        /\ IF ~ScheduleAsserts
           THEN UNCHANGED << slots, req, flush >>
           ELSE \E acc \in [batch -> 0 .. NumSpec] :
              /\ \A r \in batch : acc[r] <= Verified(r)
              /\ slots' = [b \in Blocks |-> [o \in 1 .. BlockSize |->
                     LET here == {w \in written : SlotOf(w[1], w[2]) = << b, o >>}
                     IN  IF here = {} THEN slots[b][o]
                         ELSE LET w == CHOOSE w \in here : TRUE
                              IN  Content(w[1], w[2], acc[w[1]])]]
              /\ req' = [r \in Requests |->
                     IF r \notin batch THEN req[r]
                     ELSE [req[r] EXCEPT !.computed = after(r),
                                         !.chunk    = after(r) < req[r].ntok,
                                         !.accepted = acc[r]]]
              /\ flush' = FALSE
        /\ UNCHANGED << kv, queues, counter, resets >>

BeginUpdate ==
    /\ step.phase = "executed"
    /\ step' = [step EXCEPT !.phase = "update", !.idx = 1]
    /\ UNCHANGED << kv, slots, queues, req, counter, flush, resets >>

\* Fault: rejected drafts stay counted.
RejectedNone(r) == 0

\* One turn of the loop over num_scheduled_tokens.  Rejected drafts roll
\* num_computed_tokens back; a prefill chunk has sampled nothing.
Sampled(r) == IF req[r].chunk THEN 0 ELSE 1 + req[r].accepted
Rejected(r) == IF req[r].chunk THEN 0 ELSE step.specs[r] - req[r].accepted
TokensAfter(r) == Lesser(req[r].ntok + Sampled(r), Total(r))

UpdateRequest ==
    LET r == running[step.idx]
        done == TokensAfter(r) = Total(r)
    IN  /\ step.phase = "update"
        /\ step.idx <= Len(running)
        /\ step' = [step EXCEPT !.idx = @ + 1]
        /\ IF r \notin DOMAIN step.sched
           THEN UNCHANGED << kv, slots, req, flush >>
           ELSE /\ req' = [req EXCEPT ![r].computed = @ - Rejected(r),
                                      ![r].ntok     = TokensAfter(r),
                                      ![r].accepted = 0,
                                      ![r].status   = IF done THEN "finished" ELSE @]
                /\ kv' = IF done THEN FreeRequest(kv, r) ELSE kv
                /\ slots' = Remembered(kv'.pool, slots)
                /\ flush' = (flush \/ done)
        /\ UNCHANGED << queues, counter, resets >>

\* The stopped requests leave the running queue, post_step brings the drafts
\* of the requests that were in the batch, the cadence advances.
Drafted(r) ==
    r \in DOMAIN step.sched /\ req[r].status = "running" /\ ~req[r].chunk
EndUpdate ==
    /\ step.phase = "update"
    /\ step.idx > Len(running)
    /\ running' = Keep(running, {r \in Requests : req[r].status # "finished"})
    /\ req' = [r \in Requests |->
                  [req[r] EXCEPT !.drafts = IF Drafted(r) THEN NumSpec ELSE @]]
    /\ step' = Quiet
    /\ counter' = (counter + 1) % Interval
    /\ UNCHANGED << kv, slots, waiting, flush, resets >>

----------------------------------------------------------------------------
EngineStep ==
    \/ IdleStep \/ BeginStep
    \/ SkipRunning \/ ScheduleRunning \/ PreemptRunning \/ EndRunning
    \/ Admit \/ Refuse \/ EndWaiting
    \/ Dispatch \/ BeginUpdate \/ UpdateRequest \/ EndUpdate
    \/ ResetPreempt \/ EndReset

Next ==
    \/ EngineStep
    \/ \E r \in Requests : AddRequest(r) \/ Abort(r)
    \/ BeginReset \/ TryReset

Spec == Init /\ [][Next]_vars
\* run_busy_loop keeps calling step() as long as there are requests: weak
\* fairness of EngineStep, with the condition under which the loop has something
\* to do written out in place of ENABLED.
Busy == step.phase \notin {"idle", "crashed"} \/ HasRequests \/ counter # 0
FairSpec == Spec /\ ([]<>~Busy \/ []<><<EngineStep>>_vars)

----------------------------------------------------------------------------
Phases == {"idle", "running", "waiting", "dispatch", "executed", "update",
           "resetting", "crashed"}
Statuses == {"new", "waiting", "running", "preempted", "finished"}

TypeOK ==
    /\ PoolTypeOK(kv.pool)
    /\ kv.table \in [Requests -> Seq(Blocks)]
    /\ kv.numCached \in [Requests -> Nat]
    /\ kv.blocked \in [Requests -> 0 .. ReserveAge]
    /\ slots \in [Blocks -> [1 .. BlockSize -> Keys \cup {NoKey}]]
    /\ running \in Seq(Requests) /\ waiting \in Seq(Requests)
    /\ \A r \in Requests :
          /\ req[r].status \in Statuses /\ req[r].chunk \in BOOLEAN
          /\ req[r].computed \in 0 .. MaxModelLen /\ req[r].ntok \in 1 .. MaxModelLen
          /\ req[r].drafts \in 0 .. NumSpec /\ req[r].accepted \in 0 .. NumSpec
    /\ step.phase \in Phases /\ step.idx \in Nat
    /\ step.budget \in 0 .. TokenBudget /\ step.input \in 0 .. InputBudget
    /\ counter \in 0 .. Interval - 1 /\ flush \in BOOLEAN /\ resets \in 0 .. MaxResets

\* No exception is raised on any path of a step: get_new_blocks never finds the
\* pool short after allocate_slots has passed its gates, cache_full_blocks never
\* meets a block that is already cached, the assertions that close schedule()
\* hold, and reset_prefix_cache succeeds once every running request is preempted.
NeverRaises == step.phase # "crashed"

\* Every reference of the pool is one entry of one table, whatever mixture of
\* hits, preemptions, aborts and stops led there: no block leaks and none is
\* freed under a request that still uses it (free, _preempt_request).
RefsMatchTables ==
    /\ \A r \in Requests : Unique(kv.table[r])
    /\ \A b \in Blocks :
          kv.pool.ref[b] = Cardinality({r \in Requests : b \in Range(kv.table[r])})

\* Status, queue and blocks of a request say the same thing: the engine keeps
\* them in three places (Request.status, self.running and self.waiting,
\* req_to_blocks) and a preemption in the middle of schedule() moves all three.
QueuesPartition ==
    /\ Unique(running) /\ Unique(waiting)
    /\ Range(waiting) = {r \in Requests : req[r].status \in {"waiting", "preempted"}}
    /\ Range(running) \ {r \in Requests : req[r].status = "finished"}
         = {r \in Requests : req[r].status = "running"}
    /\ \A r \in Requests : kv.table[r] # << >> => req[r].status = "running"

\* What the engine keeps about a request in several places agrees in any state,
\* also in the middle of schedule(), of update_from_output() and of a reset, none
\* of which raises.
RequestsAccounted == TypeOK /\ NeverRaises /\ RefsMatchTables /\ QueuesPartition

\* What a block is cached under is what its slots hold: between steps a hit can
\* only lead to KV that a forward pass has written for that very prefix
\* (allocate_slots caches "finalized" tokens before the model has run).
HoldsPrefix(b, k) ==
    \E r \in Requests, i \in 1 .. MaxModelLen \div BlockSize :
        /\ BlockKey(r, i) = k
        /\ \A o \in 1 .. BlockSize : slots[b][o] = Prefix[r][(i - 1) * BlockSize + o]
CachedKVWritten ==
    Between => \A b \in Blocks : \A k \in KeysOf(kv.pool, b) : HoldsPrefix(b, k)

\* num_computed_tokens counts tokens whose KV is in the request's own blocks,
\* after chunks, hits, preemptions, accepted and rejected drafts: what a forward
\* pass has attended to when it samples, and what the next one relies on.
Unconfirmed(r) ==
    IF step.phase = "executed" /\ r \in DOMAIN step.sched THEN Rejected(r) ELSE 0
ComputedKVWritten ==
    step.phase \in {"idle", "executed"} =>
        \A r \in Range(running) : \A p \in 1 .. req[r].computed - Unconfirmed(r) :
            slots[SlotOf(r, p)[1]][SlotOf(r, p)[2]] = Prefix[r][p]

\* find_longest_cache_hit stops at the first miss because "a missing block
\* implies every later block misses too": the cached blocks of a prefix chain
\* are closed under shortening, through evictions and partial reuse.
ChainsClosed ==
    Between => \A r \in Requests, i \in 2 .. MaxModelLen \div BlockSize :
        IsCached(kv.pool, BlockKey(r, i)) => IsCached(kv.pool, BlockKey(r, i - 1))

\* A forward pass never writes one KV slot for two requests.
OneWriterPerSlot ==
    step.phase = "dispatch" =>
        \A r, s \in DOMAIN step.sched : r # s =>
            {SlotOf(r, p) : p \in Fed(r)} \cap {SlotOf(s, p) : p \in Fed(s)} = {}

\* "Prefer to not schedule than schedule un-padded here": an admitted decode that
\* is padded to the size of a speculative step is given all of that size, so that
\* each of its placeholder drafts, all of which are rejected, has a token that its
\* rejection takes back from num_computed_tokens.
PaddedWhole ==
    \A r \in DOMAIN step.sched \ step.ran :
        step.specs[r] > 0 => step.sched[r] = 1 + step.specs[r]

\* Under FCFS no request ever overtakes another one: preemption takes the last
\* running request and puts it at the head of the waiting queue, so the running
\* queue followed by the waiting queue keeps its order through any step.
Line == running \o waiting
Ahead(r, s) == \E i, j \in DOMAIN Line : i < j /\ Line[i] = r /\ Line[j] = s
NoOvertaking == [][\A r, s \in Requests : Ahead(r, s) => ~Ahead(s, r)']_vars

\* A request that was added is finished some day: preemption, the admission
\* reserve, the prefill cadence and a full pool only delay it.
EveryRequestFinishes ==
    \A r \in Requests : req[r].status = "waiting" ~> req[r].status = "finished"
=============================================================================
