----------------------------- MODULE DeferredFree -----------------------------
(***************************************************************************)
(* Freeing blocks behind a step fence: scheduler.py with defer_block_free, *)
(* driven by step_with_batch_queue of core.py, which keeps up to Depth     *)
(* batches in flight.  A consumer KV connector may fill a reallocated block*)
(* by a load that is not ordered after the forward passes, so a block that *)
(* an unfinished step still writes must not return to the pool.            *)
(*                                                                         *)
(* Asynchronous scheduling, FCFS, no prefix caching, a connector that      *)
(* requires KV delivery (the output in flight of a preempted request is    *)
(* dropped), one token a block and one forward pass a token: pass n of a   *)
(* request writes position n, and its first pass after a preemption every  *)
(* position up to its own.                                                 *)
(***************************************************************************)
EXTENDS BlockPool

CONSTANTS
    Requests,
    Outputs,        \* max_tokens: forward passes that sample a token
    Depth,          \* max_concurrent_batches, the size of batch_queue
    MayReset        \* a client calls reset_prefix_cache, once

ASSUME DeferredFreeAssumption ==
    /\ Outputs \in 1 .. NumBlocks
    /\ Depth \in Nat /\ Depth > 1
    /\ MayReset \in BOOLEAN

VARIABLES
    pool,
    table,          \* req_to_blocks
    running, waiting,
    req,            \* status, sent: passes scheduled, done: tokens delivered,
                    \* stale: passes in flight at its preemption, seq: last_sched_seq
    batches,        \* batch_queue, the oldest first: the requests and the blocks written
    phase, idx,     \* where the engine thread is in a call, and in which loop turn
    building,       \* the batch under construction or being processed
    schedSeq, procSeq,  \* sched_step_seq, processed_step_seq
    deferred,       \* deferred_frees
    flush,          \* finished_req_ids is not empty
    reset           \* the call of reset_prefix_cache: "due", "done" or "raised"

vars == << pool, table, running, waiting, req, batches, phase, idx, building,
           schedSeq, procSeq, deferred, flush, reset >>
fence == << schedSeq, procSeq, reset >>

NoBatch == [reqs |-> << >>, writes |-> {}, preempted |-> FALSE]

Init ==
    /\ pool = PoolInit
    /\ table = [r \in Requests |-> << >>]
    /\ running = << >> /\ waiting = << >>
    /\ req = [r \in Requests |->
                 [status |-> "new", sent |-> 0, done |-> 0, stale |-> 0, seq |-> 0]]
    /\ batches = << >>
    /\ phase = "idle" /\ idx = 0
    /\ building = NoBatch
    /\ schedSeq = 0 /\ procSeq = 0
    /\ deferred = << >>
    /\ flush = FALSE
    /\ reset = IF MayReset THEN "due" ELSE "done"

Without(q, r) == Keep(q, Requests \ {r})
HasRequests == running # << >> \/ waiting # << >> \/ flush

\* Faults: the step in flight counts as processed; a deferred block is also
\* freed at once.
PassedEarly(r) == req[r].seq <= procSeq + 1
FreeRequestBlocksTwice(r, p, d) ==
    /\ table' = [table EXCEPT ![r] = << >>]
    /\ pool' = FreeBlocks(p, Reversed(table[r]))
    /\ deferred' = IF req[r].seq <= procSeq \/ table[r] = << >> THEN d
                   ELSE Append(d, [fence |-> schedSeq, blocks |-> table[r]])
\* _free_request_blocks: at once when the last step of the request has been
\* processed, else behind the fence of the last step that was scheduled.
Passed(r) == req[r].seq <= procSeq
FreeRequestBlocks(r, p, d) ==
    /\ table' = [table EXCEPT ![r] = << >>]
    /\ IF Passed(r)
       THEN pool' = FreeBlocks(p, Reversed(table[r])) /\ deferred' = d
       ELSE /\ pool' = p
            /\ deferred' = IF table[r] = << >> THEN d
                           ELSE Append(d, [fence |-> schedSeq, blocks |-> table[r]])

AddRequest(r) ==
    /\ phase = "idle"
    /\ req[r].status = "new"
    /\ req' = [req EXCEPT ![r].status = "waiting"]
    /\ waiting' = Append(waiting, r)
    /\ UNCHANGED << pool, table, running, batches, phase, idx, building, fence, deferred, flush >>

\* finish_requests, between calls or while a call waits for a result.
Abort(r) ==
    /\ phase \in {"idle", "pop"}
    /\ req[r].status \in {"waiting", "running"}
    /\ running' = Without(running, r)
    /\ waiting' = Without(waiting, r)
    /\ req' = [req EXCEPT ![r].status = "finished"]
    /\ FreeRequestBlocks(r, pool, deferred)
    /\ flush' = TRUE
    /\ UNCHANGED << batches, phase, idx, building, fence >>

----------------------------------------------------------------------------
(* schedule()                                                              *)

Call ==
    /\ phase = "idle"
    /\ HasRequests \/ batches # << >>
    /\ phase' = IF HasRequests THEN "running" ELSE "pop"
    /\ idx' = 1
    /\ building' = NoBatch
    /\ UNCHANGED << pool, table, running, waiting, req, batches, fence, deferred, flush >>

AtRunning == phase = "running" /\ idx <= Len(running)
Current == running[idx]

\* The steps in flight are sure to reach max_tokens.
SkipRunning ==
    /\ AtRunning
    /\ req[Current].sent = Outputs
    /\ idx' = idx + 1
    /\ UNCHANGED << pool, table, running, waiting, req, batches, phase, building,
                    fence, deferred, flush >>

ScheduleRunning ==
    /\ AtRunning
    /\ req[Current].sent < Outputs
    /\ CanGetNewBlocks(pool, 1)
    /\ pool' = GetNewBlocks(pool, 1)
    /\ table' = [table EXCEPT ![Current] = @ \o NewBlocks(pool, 1)]
    /\ req' = [req EXCEPT ![Current].sent = @ + 1]
    /\ building' = [building EXCEPT !.reqs = Append(@, Current),
                                    !.writes = @ \cup Range(NewBlocks(pool, 1))]
    /\ idx' = idx + 1
    /\ UNCHANGED << running, waiting, batches, phase, fence, deferred, flush >>

\* _preempt_request takes the last running request: it starts over from the
\* tokens that were delivered, what is in flight is stale.
InFlight(r) == req[r].sent - req[r].done + req[r].stale
PreemptRunning ==
    LET v == running[Len(running)]
    IN  /\ AtRunning
        /\ req[Current].sent < Outputs
        /\ ~CanGetNewBlocks(pool, 1)
        /\ running' = SubSeq(running, 1, Len(running) - 1)
        /\ waiting' = << v >> \o waiting
        /\ FreeRequestBlocks(v, pool, deferred)
        /\ req' = [req EXCEPT ![v].status = "waiting",
                              ![v].stale  = InFlight(v),
                              ![v].sent   = req[v].done]
        /\ building' = [building EXCEPT !.preempted = TRUE]
        /\ phase' = IF v = Current THEN "close" ELSE phase
        /\ UNCHANGED << batches, idx, fence, flush >>

EndRunning ==
    /\ phase = "running"
    /\ idx > Len(running)
    /\ phase' = IF building.preempted THEN "close" ELSE "waiting"
    /\ UNCHANGED << pool, table, running, waiting, req, batches, idx, building,
                    fence, deferred, flush >>

Admit ==
    LET r == waiting[1]
        n == req[r].done + 1
    IN  /\ phase = "waiting"
        /\ waiting # << >>
        /\ CanGetNewBlocks(pool, n)
        /\ pool' = GetNewBlocks(pool, n)
        /\ table' = [table EXCEPT ![r] = NewBlocks(pool, n)]
        /\ waiting' = Tail(waiting)
        /\ running' = Append(running, r)
        /\ req' = [req EXCEPT ![r].status = "running", ![r].sent = n]
        /\ building' = [building EXCEPT !.reqs = Append(@, r),
                                        !.writes = @ \cup Range(NewBlocks(pool, n))]
        /\ UNCHANGED << batches, phase, idx, fence, deferred, flush >>

EndWaiting ==
    /\ phase = "waiting"
    /\ waiting # << >> => ~CanGetNewBlocks(pool, req[waiting[1]].done + 1)
    /\ phase' = "close"
    /\ UNCHANGED << pool, table, running, waiting, req, batches, idx, building,
                    fence, deferred, flush >>

\* The end of schedule(): only a step that is not empty advances the fence.  The
\* call returns for another batch as long as the queue has room and there are
\* requests, and else waits for the oldest result.
Advance(seq, batch) == IF batch.reqs = << >> THEN seq ELSE seq + 1
Close ==
    /\ phase = "close"
    /\ schedSeq' = Advance(schedSeq, building)
    /\ req' = [r \in Requests |-> IF r \in Range(building.reqs)
                                  THEN [req[r] EXCEPT !.seq = schedSeq']
                                  ELSE req[r]]
    /\ batches' = Append(batches, building)
    /\ flush' = FALSE
    /\ phase' = IF /\ Len(batches') < Depth
                   /\ building.reqs # << >> \/ running # << >> \/ waiting # << >>
                THEN "idle" ELSE "pop"
    /\ building' = NoBatch
    /\ UNCHANGED << pool, table, running, waiting, procSeq, idx, deferred, reset >>

----------------------------------------------------------------------------
(* update_from_output()                                                    *)

\* _drain_deferred_frees: from the head, up to the first pending fence.
Drained(seq) ==
    CHOOSE n \in 0 .. Len(deferred) :
        /\ \A i \in 1 .. n : deferred[i].fence <= seq
        /\ n < Len(deferred) => deferred[n + 1].fence > seq
Drain(seq) ==
    LET After[i \in 0 .. Len(deferred)] ==
            IF i = 0 THEN pool
            ELSE FreeBlocks(After[i - 1], Reversed(deferred[i].blocks))
    IN  /\ pool' = After[Drained(seq)]
        /\ deferred' = SubSeq(deferred, Drained(seq) + 1, Len(deferred))

\* Fault: a step whose requests have all been aborted meanwhile is not counted.
ProcessedIfUsed(seq, batch) ==
    IF \A r \in Range(batch.reqs) : req[r].status = "finished" THEN seq ELSE seq + 1

\* Every update advances processed_step_seq.
Processed(seq, batch) == seq + 1
BeginUpdate ==
    /\ phase = "pop"
    /\ building' = batches[1]
    /\ batches' = Tail(batches)
    /\ procSeq' = Processed(procSeq, batches[1])
    /\ Drain(procSeq')
    /\ phase' = "update"
    /\ idx' = 1
    /\ UNCHANGED << table, running, waiting, req, schedSeq, flush, reset >>

\* One request of the batch: gone, stale, or one token further; a stop token
\* may end it before max_tokens.
UpdateRequest ==
    LET r == building.reqs[idx]
    IN  /\ phase = "update"
        /\ idx <= Len(building.reqs)
        /\ idx' = idx + 1
        /\ \/ /\ req[r].status = "finished"
              /\ UNCHANGED << pool, table, running, req, deferred, flush >>
           \/ /\ req[r].status # "finished" /\ req[r].stale > 0
              /\ req' = [req EXCEPT ![r].stale = @ - 1]
              /\ UNCHANGED << pool, table, running, deferred, flush >>
           \/ /\ req[r].status # "finished" /\ req[r].stale = 0
              /\ req[r].done + 1 < Outputs
              /\ req' = [req EXCEPT ![r].done = @ + 1]
              /\ UNCHANGED << pool, table, running, deferred, flush >>
           \/ /\ req[r].status # "finished" /\ req[r].stale = 0
              /\ req' = [req EXCEPT ![r].done = @ + 1, ![r].status = "finished"]
              /\ running' = Without(running, r)
              /\ FreeRequestBlocks(r, pool, deferred)
              /\ flush' = TRUE
        /\ UNCHANGED << waiting, batches, phase, building, fence >>

EndUpdate ==
    /\ phase = "update"
    /\ idx > Len(building.reqs)
    /\ phase' = "idle"
    /\ building' = NoBatch
    /\ idx' = 0
    /\ UNCHANGED << pool, table, running, waiting, req, batches, fence, deferred, flush >>

----------------------------------------------------------------------------
(* reset_prefix_cache(reset_running_requests=True), between two calls        *)

\* What runs is preempted from the tail, each request as in PreemptRunning; the
\* cache is then dropped, which takes a pool that is free to the last block.
AfterReset ==
    LET n == Len(running)
        State[i \in 0 .. n] ==
            IF i = 0 THEN [pool |-> pool, deferred |-> deferred, waiting |-> waiting]
            ELSE LET v == running[n + 1 - i]
                     s == State[i - 1]
                 IN  [pool |-> IF Passed(v) THEN FreeBlocks(s.pool, Reversed(table[v]))
                               ELSE s.pool,
                      deferred |-> IF Passed(v) THEN s.deferred
                                   ELSE Append(s.deferred, [fence |-> schedSeq,
                                                            blocks |-> table[v]]),
                      waiting |-> << v >> \o s.waiting]
    IN  State[n]

Reset ==
    /\ phase = "idle" /\ reset = "due"
    /\ pool' = AfterReset.pool
    /\ deferred' = AfterReset.deferred
    /\ waiting' = AfterReset.waiting
    /\ running' = << >>
    /\ table' = [r \in Requests |-> IF r \in Range(running) THEN << >> ELSE table[r]]
    /\ req' = [r \in Requests |->
                  IF r \in Range(running)
                  THEN [req[r] EXCEPT !.status = "waiting", !.stale = InFlight(r),
                                      !.sent = req[r].done]
                  ELSE req[r]]
    /\ reset' = IF CanResetPrefixCache(pool') THEN "done" ELSE "raised"
    /\ UNCHANGED << batches, phase, idx, building, schedSeq, procSeq, flush >>

----------------------------------------------------------------------------
EngineStep ==
    \/ Call \/ SkipRunning \/ ScheduleRunning \/ PreemptRunning \/ EndRunning
    \/ Admit \/ EndWaiting \/ Close \/ BeginUpdate \/ UpdateRequest \/ EndUpdate

\* No request is left to add and the engine waits for input.
Quiescent ==
    /\ phase = "idle" /\ ~HasRequests /\ batches = << >>
    /\ UNCHANGED vars

Next ==
    \/ EngineStep
    \/ \E r \in Requests : AddRequest(r) \/ Abort(r)
    \/ Reset
    \/ Quiescent

Spec == Init /\ [][Next]_vars
FairSpec == Spec /\ WF_vars(EngineStep)

----------------------------------------------------------------------------
TypeOK ==
    /\ PoolTypeOK(pool)
    /\ table \in [Requests -> Seq(Blocks)]
    /\ running \in Seq(Requests) /\ waiting \in Seq(Requests)
    /\ req \in [Requests -> [status : {"new", "waiting", "running", "finished"},
                             sent : 0 .. Outputs, done : 0 .. Outputs,
                             stale : 0 .. Depth, seq : Nat]]
    /\ Len(batches) <= Depth
    /\ schedSeq \in Nat /\ procSeq \in Nat

\* Every block is in exactly one place: the free queue, one table, or one entry
\* of deferred_frees; none is lost behind a fence and none is freed twice
\* (_free_request_blocks, _drain_deferred_frees).
Places(b) ==
    Occurs(pool.free, b)
    + Cardinality({r \in Requests : b \in Range(table[r])})
    + Cardinality({i \in DOMAIN deferred : b \in Range(deferred[i].blocks)})
BlocksConserved == \A b \in Blocks : Places(b) = 1

\* "Blocks become safe to free once processed_step_seq >= fence_seq": a block in
\* the free queue is not written by a step whose output has not arrived.
NoPendingWriteIsFree ==
    \A i \in DOMAIN batches : batches[i].writes \cap Range(pool.free) = {}

\* "These stay in sync": every step that sched_step_seq counted is one that
\* processed_step_seq counts or will count, and no other is.
Pending == Cardinality({i \in DOMAIN batches : batches[i].reqs # << >>})
CountersInSync == procSeq + Pending = schedSeq

\* The same, as long as both counters have counted the same steps: what breaks
\* the fence is their divergence and nothing else.
FenceHoldsInSync == CountersInSync => NoPendingWriteIsFree

\* The fences are in order, so that stopping at the first pending one keeps no
\* block that could be returned.
FencesOrdered ==
    \A i, j \in DOMAIN deferred : i < j => deferred[i].fence <= deferred[j].fence

\* When the engine is idle nothing is held behind a fence, so that the reset a
\* pause makes from its idle callback, where nothing catches an error, succeeds.
IdleHoldsNothing == (phase = "idle" /\ batches = << >>) => deferred = << >>

\* Deferral loses no block: conserved behind the fences, in order, and none is
\* behind a fence once the engine is idle.
BlocksAccounted == TypeOK /\ BlocksConserved /\ FencesOrdered /\ IdleHoldsNothing

\* "In this case, we can reduce the ref count of all the kv blocks to 0 and thus
\* we can make sure the reset is successful" (reset_prefix_cache).
ResetSucceeds == reset # "raised"

\* Whatever is deferred goes back to the pool, even when every later step is
\* empty: the pool is whole again once all requests are gone.
DeferredReturn == (deferred # << >>) ~> (deferred = << >>)
=============================================================================
