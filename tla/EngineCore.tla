------------------------------ MODULE EngineCore ------------------------------
(***************************************************************************)
(* The engine core process: the thread that reads the sockets, the input   *)
(* and aborts queues, the busy loop with its batch queue, the calls that   *)
(* pause, resume, put to sleep and wake the engine, and its shutdown.      *)
(*                                                                         *)
(* The scheduler is reduced to what the loop can see of it: which requests *)
(* wait and which run, the finished ids it still has to report to the      *)
(* workers, and its pause state.  Which requests fit, and which one is     *)
(* preempted when they do not, is a choice here; module Scheduler makes it *)
(* from the blocks.                                                        *)
(***************************************************************************)
EXTENDS Integers, Sequences, FiniteSets, SequencesExt

CONSTANTS Requests,       \* requests of the clients
          Calls,          \* utility calls of the clients
          BatchQueueSize, \* vllm_config.max_concurrent_batches
          MaxTokens,      \* tokens after which each request stops
          MaxPreemptions, \* bound on the preemptions of a behaviour
          Scenarios,      \* what the clients do, and shutdown_timeout
          Patient,        \* clients resume only what has answered its pause
          None

\* keep_kv is keep with clear_cache = False; wake_part is a wake_up whose tags
\* leave some of the executor's memory asleep.
Methods == {"abort", "wait", "keep", "keep_kv", "sleep",
            "resume_scheduler", "wake_up", "wake_part"}

ASSUME EngineAssumption ==
    /\ BatchQueueSize \in Nat \ {0}
    /\ MaxTokens \in [Requests -> Nat \ {0}]
    /\ MaxPreemptions \in Nat
    /\ Scenarios \subseteq [requests : SUBSET Requests, calls : SUBSET Calls,
                            kinds : SUBSET Methods, abortOnExit : BOOLEAN]
    /\ Patient \in BOOLEAN
    /\ None \notin Requests \cup Methods

VARIABLES
    waiting, running,  \* the scheduler's queues, as sets
    finishedIds,       \* finished ids the next batch tells the workers of
    pauseState,
    left,              \* tokens each request still has to produce
    preemptions,
    batchQueue,        \* scheduled batches whose results are awaited
    asleep,            \* model_executor.is_sleeping
    inputQueue, abortsQueue,
    receiving,         \* abort between its two puts, in the input thread
    callbacks,         \* _idle_state_callbacks
    shutdown, waking,  \* waking: the signal's WAKEUP is still to be put
    pc,                \* where the busy loop is
    called,            \* method of each call the clients have made
    reply,             \* answers each call got
    sent, aborted,     \* requests the clients have added, and aborted
    final,             \* final outputs each request got
    draining,          \* history: requests that ran when each wait was handled
    scenario           \* chosen at the start; abortOnExit is shutdown_timeout = 0

schedulerVars == <<waiting, running, finishedIds, pauseState, left, preemptions>>
queueVars     == <<inputQueue, abortsQueue, receiving>>
clientVars    == <<called, sent, aborted, scenario>>
answerVars    == <<reply, final, draining>>
stopVars      == <<shutdown, waking>>
vars == <<schedulerVars, batchQueue, asleep, queueVars, callbacks, stopVars, pc,
          clientVars, answerVars>>

-----------------------------------------------------------------------------
(* What the scheduler reports *)

Unfinished == CASE pauseState = "PAUSED_ALL" -> {}
                [] pauseState = "PAUSED_NEW" -> running
                [] OTHER -> waiting \union running

HasRequests == Unfinished # {} \/ finishedIds # {}
HasWork     == HasRequests \/ batchQueue # <<>>

(* The messages of the input queue *)
Add(r)   == [type |-> "ADD", id |-> r]
Abort(r) == [type |-> "ABORT", id |-> r]
Call(c)  == [type |-> "UTILITY", id |-> c]
Wakeup   == [type |-> "WAKEUP", id |-> None]

Pauses == {"abort", "wait", "keep", "keep_kv", "sleep"}

Init == /\ waiting = {} /\ running = {} /\ finishedIds = {}
        /\ pauseState = "UNPAUSED"
        /\ left = MaxTokens
        /\ preemptions = 0
        /\ batchQueue = <<>> /\ asleep = FALSE
        /\ inputQueue = <<>> /\ abortsQueue = {} /\ receiving = None
        /\ callbacks = <<>>
        /\ shutdown = "RUNNING" /\ waking = FALSE
        /\ pc = "top"
        /\ called = [c \in Calls |-> None]
        /\ reply = [c \in Calls |-> 0]
        /\ draining = [c \in Calls |-> {}]
        /\ sent = {} /\ aborted = {}
        /\ final = [r \in Requests |-> 0]
        /\ scenario \in Scenarios

-----------------------------------------------------------------------------
(* The clients, the signal handler and the input thread *)

ClientAdd(r) ==
    /\ r \in scenario.requests \ sent /\ receiving = None
    /\ sent' = sent \union {r}
    /\ inputQueue' = Append(inputQueue, Add(r))
    /\ UNCHANGED <<schedulerVars, batchQueue, asleep, abortsQueue, receiving,
                   callbacks, stopVars, pc, called, aborted, scenario, answerVars>>

\* An abort is put in the aborts queue, which the step in progress reads ...
ClientAbort(r) ==
    /\ r \in sent \ aborted /\ receiving = None
    /\ aborted' = aborted \union {r}
    /\ abortsQueue' = abortsQueue \union {r}
    /\ receiving' = r
    /\ UNCHANGED <<schedulerVars, batchQueue, asleep, inputQueue, callbacks,
                   stopVars, pc, called, sent, scenario, answerVars>>

\* Fault: an abort is put into the aborts queue only.
AbortEagerOnly ==
    /\ receiving # None
    /\ receiving' = None
    /\ UNCHANGED <<schedulerVars, batchQueue, asleep, inputQueue, abortsQueue,
                   callbacks, stopVars, pc, clientVars, answerVars>>

\* ... and then in the input queue, behind what the client sent before.
PushAbort ==
    /\ receiving # None
    /\ inputQueue' = Append(inputQueue, Abort(receiving))
    /\ receiving' = None
    /\ UNCHANGED <<schedulerVars, batchQueue, asleep, abortsQueue, callbacks,
                   stopVars, pc, clientVars, answerVars>>

Answered(c) == reply[c] > 0

\* Patient clients have one call under way, and leave a sleep by a wake_up.
ClientCall(c, k) ==
    /\ called[c] = None /\ receiving = None
    /\ Patient => /\ \A d \in Calls : called[d] # None => Answered(d)
                  /\ asleep => k # "resume_scheduler"
    /\ called' = [called EXCEPT ![c] = k]
    /\ inputQueue' = Append(inputQueue, Call(c))
    /\ UNCHANGED <<schedulerVars, batchQueue, asleep, abortsQueue, receiving,
                   callbacks, stopVars, pc, sent, aborted, scenario,
                   answerVars>>

\* SIGTERM: the handler sets the state, another thread then wakes the loop.
Signal ==
    /\ shutdown = "RUNNING"
    /\ shutdown' = "REQUESTED" /\ waking' = TRUE
    /\ UNCHANGED <<schedulerVars, batchQueue, asleep, queueVars, callbacks, pc,
                   clientVars, answerVars>>

\* Fault: the shutdown does not wake the loop.
NoWakeup ==
    /\ waking
    /\ waking' = FALSE
    /\ UNCHANGED <<schedulerVars, batchQueue, asleep, queueVars,
                   callbacks, shutdown, pc, clientVars, answerVars>>

PushWakeup ==
    /\ waking
    /\ waking' = FALSE
    /\ inputQueue' = Append(inputQueue, Wakeup)
    /\ UNCHANGED <<schedulerVars, batchQueue, asleep, abortsQueue, receiving,
                   callbacks, shutdown, pc, clientVars, answerVars>>

-----------------------------------------------------------------------------
(* What the handlers do to the scheduler *)

\* finish_requests for the ids of rs the scheduler still knows.
FinishRequests(rs) ==
    LET known == rs \intersect (waiting \union running)
    IN  /\ waiting' = waiting \ known
        /\ running' = running \ known
        /\ finishedIds' = finishedIds \union known

\* _send_abort_outputs
SendAbortOutputs(rs) ==
    final' = [r \in Requests |-> final[r] + IF r \in rs THEN 1 ELSE 0]

\* An answer leaves for the client that made call c.
AnswerTo(c) == reply' = [reply EXCEPT ![c] = @ + 1]

\* _reset_caches preempts what runs, so that every block can be dropped.
Reset(c) == IF called[c] = "keep_kv" THEN {} ELSE running

HandleAdd(r) ==
    /\ IF shutdown # "RUNNING"
       THEN SendAbortOutputs({r}) /\ UNCHANGED waiting
       ELSE waiting' = waiting \union {r} /\ UNCHANGED final
    /\ UNCHANGED <<running, finishedIds, pauseState, left, preemptions, asleep,
                   callbacks, reply, draining>>

HandleAbort(r) ==
    /\ FinishRequests({r})
    /\ UNCHANGED <<pauseState, left, preemptions, asleep, callbacks, answerVars>>

RejectCall(c) ==
    /\ shutdown # "RUNNING"
    /\ AnswerTo(c)
    /\ UNCHANGED <<schedulerVars, asleep, callbacks, final, draining>>

\* Fault: batches in flight are not waited for.
ForgetsBatches(c, gone) ==
    called[c] \in {"keep", "keep_kv"} \/ running \ gone = {}

\* pause_scheduler, which sleep calls in the mode abort.  A pause with no work
\* to wait for is complete at once; else a callback completes it.
PauseComplete(c, gone) ==
    /\ batchQueue = <<>> /\ finishedIds \union gone = {}
    /\ called[c] \in {"keep", "keep_kv"} \/ running = {}

PauseScheduler(c) ==
    LET keep  == called[c] \in {"keep", "keep_kv"}
        gone  == IF called[c] \in {"abort", "sleep"}
                 THEN waiting \union running ELSE {}
    IN  /\ shutdown = "RUNNING" /\ called[c] \in Pauses
        /\ pauseState' = IF keep THEN "PAUSED_ALL" ELSE "PAUSED_NEW"
        /\ finishedIds' = finishedIds \union gone
        /\ SendAbortOutputs(gone)
        /\ draining' = [draining EXCEPT ![c] = IF called[c] = "wait" THEN running ELSE {}]
        /\ IF PauseComplete(c, gone)
           THEN /\ waiting' = waiting \union Reset(c)
                /\ running' = running \ Reset(c)
                /\ asleep' = (asleep \/ called[c] = "sleep")
                /\ AnswerTo(c)
                /\ UNCHANGED callbacks
           ELSE /\ callbacks' = Append(callbacks, c)
                /\ waiting' = waiting \ gone /\ running' = running \ gone
                /\ UNCHANGED <<asleep, reply>>
        /\ UNCHANGED <<left, preemptions>>

\* Fault: a wake of some of the levels resumes.
PartialWakeResumes(c) == TRUE

\* All memory of the executor is there once the call has woken it.
ResidentAfter(c) == ~asleep \/ called[c] = "wake_up"

\* resume_scheduler; a wake_up first brings memory of the executor back, and
\* resumes once all of it is there.
Resume(c) ==
    /\ shutdown = "RUNNING" /\ called[c] \notin Pauses
    /\ asleep' = (asleep /\ called[c] # "wake_up")
    /\ pauseState' = IF called[c] = "resume_scheduler" \/ ResidentAfter(c)
                     THEN "UNPAUSED" ELSE pauseState
    /\ AnswerTo(c)
    /\ UNCHANGED <<waiting, running, finishedIds, left, preemptions, callbacks,
                   final, draining>>

HandleClientRequest(m) ==
    \/ m.type = "ADD" /\ HandleAdd(m.id)
    \/ m.type = "ABORT" /\ HandleAbort(m.id)
    \/ m.type = "UTILITY" /\ (RejectCall(m.id) \/ PauseScheduler(m.id) \/ Resume(m.id))
    \/ /\ m.type = "WAKEUP"
       /\ UNCHANGED <<schedulerVars, asleep, callbacks, answerVars>>

-----------------------------------------------------------------------------
(* The busy loop *)

\* _handle_shutdown
HandleShutdown ==
    LET gone == IF shutdown = "REQUESTED" /\ scenario.abortOnExit
                THEN waiting \union running ELSE {}
    IN  /\ pc = "top"
        /\ UNCHANGED <<pauseState, left, preemptions, batchQueue, asleep, queueVars,
                       callbacks, waking, clientVars, reply, draining>>
        /\ FinishRequests(gone)
        /\ SendAbortOutputs(gone)
        /\ shutdown' = IF shutdown = "RUNNING" THEN shutdown ELSE "SHUTTING_DOWN"
        /\ pc' = IF shutdown # "RUNNING" /\ ~HasWork' THEN "exited" ELSE "poll"

Idle == ~HasWork /\ shutdown = "RUNNING"

\* _notify_idle_state_callbacks runs the newest callback first.
NotifyIdle ==
    LET c == Last(callbacks)
    IN  /\ pc = "poll" /\ Idle /\ callbacks # <<>>
        /\ callbacks' = Front(callbacks)
        /\ waiting' = waiting \union Reset(c)
        /\ running' = running \ Reset(c)
        /\ asleep' = (asleep \/ called[c] = "sleep")
        /\ AnswerTo(c)
        /\ UNCHANGED <<finishedIds, pauseState, left, preemptions, batchQueue,
                       queueVars, stopVars, pc, clientVars, final, draining>>

\* The test for an empty input queue and the clearing of the aborts queue are
\* two steps; the input thread may put between them.
TestEmpty ==
    /\ pc = "poll" /\ Idle /\ callbacks = <<>>
    /\ pc' = IF inputQueue = <<>> THEN "clear" ELSE "get"
    /\ UNCHANGED <<schedulerVars, batchQueue, asleep, queueVars, callbacks,
                   stopVars, clientVars, answerVars>>

ClearAborts ==
    /\ pc = "clear" /\ pc' = "get"
    /\ abortsQueue' = {}
    /\ UNCHANGED <<schedulerVars, batchQueue, asleep, inputQueue, receiving,
                   callbacks, stopVars, clientVars, answerVars>>

\* The blocking get of the idle loop, and the drain that follows the loop.
HandleNext ==
    /\ pc \in {"get", "drain"} /\ inputQueue # <<>>
    /\ HandleClientRequest(Head(inputQueue))
    /\ inputQueue' = Tail(inputQueue)
    /\ pc' = IF pc = "get" THEN "poll" ELSE "drain"
    /\ UNCHANGED <<batchQueue, abortsQueue, receiving, stopVars, clientVars>>

LeaveIdleLoop ==
    /\ pc = "poll" /\ ~Idle
    /\ pc' = "drain"
    /\ UNCHANGED <<schedulerVars, batchQueue, asleep, queueVars, callbacks,
                   stopVars, clientVars, answerVars>>

\* schedule(): p is preempted, a is admitted, and what runs is the next batch.
\* Nothing is admitted beside a preemption or while paused, some running request
\* is kept, and a request that waits alone is admitted.
ScheduleChoice(p, a) ==
    /\ p \subseteq running /\ a \subseteq waiting
    /\ p # {} => /\ pauseState # "PAUSED_ALL" /\ p # running
                 /\ preemptions < MaxPreemptions
    /\ a # {} => pauseState = "UNPAUSED" /\ p = {}
    /\ (pauseState = "UNPAUSED" /\ running = {} /\ waiting # {}) => a # {}

\* The queue has room and there is more to schedule.
MoreToSchedule(batch) == /\ Len(batchQueue') < BatchQueueSize
                         /\ batch # {} \/ HasRequests'

\* The first half of step and of step_with_batch_queue: a new batch joins the
\* queue, and unless the queue is full or nothing else can be scheduled, the
\* loop comes round without waiting for a result.
BeginStep ==
    /\ pc = "drain" /\ inputQueue = <<>>
    /\ UNCHANGED <<pauseState, left, asleep, queueVars, callbacks, stopVars,
                   clientVars, answerVars>>
    /\ \/ /\ HasRequests
          /\ \E p \in SUBSET running, a \in SUBSET waiting :
               LET runs  == (running \ p) \union a
                   batch == IF pauseState = "PAUSED_ALL" THEN {} ELSE runs
               IN  /\ ScheduleChoice(p, a)
                   /\ running' = runs
                   /\ waiting' = (waiting \ a) \union p
                   /\ preemptions' = preemptions + Cardinality(p)
                   /\ finishedIds' = {}
                   /\ batchQueue' = Append(batchQueue, batch)
                   /\ pc' = IF MoreToSchedule(batch) THEN "top" ELSE "update"
       \/ /\ ~HasRequests
          /\ pc' = IF batchQueue = <<>> THEN "top" ELSE "update"
          /\ UNCHANGED <<waiting, running, preemptions, finishedIds, batchQueue>>

\* Fault: a request that was finished meanwhile is sampled for as well.
FinishedToo(batch, killed) == batch

\* The requests of a batch that take its results: those still scheduled or
\* preempted since, and not just aborted.
Receivers(batch, killed) == batch \intersect ((waiting \union running) \ killed)

\* The second half: the oldest batch has its results, the aborts that came
\* meanwhile are carried out, and each request of the batch that is still there
\* has one token more, with which it may stop.
EndStep ==
    LET killed == abortsQueue
        alive  == Receivers(Head(batchQueue), killed)
    IN  /\ pc = "update" /\ pc' = "top"
        /\ batchQueue' = Tail(batchQueue)
        /\ abortsQueue' = {}
        /\ left' = [r \in Requests |-> left[r] - IF r \in alive THEN 1 ELSE 0]
        /\ \E stopped \in SUBSET alive :
             /\ {r \in alive : left'[r] = 0} \subseteq stopped
             /\ FinishRequests(stopped \union killed)
             /\ SendAbortOutputs(stopped)
        /\ UNCHANGED <<pauseState, preemptions, asleep, inputQueue, receiving,
                       callbacks, stopVars, clientVars, reply, draining>>

Loop == \/ HandleShutdown \/ NotifyIdle \/ TestEmpty \/ ClearAborts
        \/ HandleNext \/ LeaveIdleLoop \/ BeginStep \/ EndStep

Client == \/ \E r \in Requests : ClientAdd(r) \/ ClientAbort(r)
          \/ \E c \in scenario.calls, k \in scenario.kinds : ClientCall(c, k)
          \/ Signal

Threads == PushAbort \/ PushWakeup

Next == Client \/ Threads \/ Loop

Spec == Init /\ [][Next]_vars

\* The loop and the threads run on, unless the loop has ended or waits in an empty
\* queue and no put is under way; the clients, who act only so often, need not do
\* anything.
Blocked == /\ pc = "exited" \/ (pc = "get" /\ inputQueue = <<>>)
           /\ receiving = None /\ ~waking
FairSpec == Spec /\ ([]<>Blocked \/ []<><<TRUE>>_vars)

-----------------------------------------------------------------------------
(* Properties *)

\* The state stays in its types; a batch the queue has no room for would be
\* dropped by its deque without an error.
TypeOK ==
    /\ waiting \subseteq sent /\ running \subseteq sent
    /\ waiting \intersect running = {}
    /\ finishedIds \subseteq Requests \ (waiting \union running)
    /\ pauseState \in {"UNPAUSED", "PAUSED_NEW", "PAUSED_ALL"}
    /\ \A r \in Requests : left[r] \in 0..MaxTokens[r]
    /\ Len(batchQueue) <= BatchQueueSize
    /\ \A i \in DOMAIN batchQueue : batchQueue[i] \subseteq Requests
    /\ pc = "update" => batchQueue # <<>>
    /\ asleep \in BOOLEAN /\ waking \in BOOLEAN
    /\ abortsQueue \subseteq aborted /\ aborted \subseteq sent
    /\ shutdown \in {"RUNNING", "REQUESTED", "SHUTTING_DOWN"}
    /\ called \in [Calls -> Methods \union {None}]

\* An abort takes effect at the latest when the loop takes it from the input
\* queue, however the aborts queue was read or cleared in between.
NoAbortLost ==
    \A r \in aborted :
        \/ receiving = r
        \/ \E i \in DOMAIN inputQueue : inputQueue[i] = Abort(r)
        \/ r \notin waiting \union running

\* A request has at most one final output and a call at most one answer, though
\* a pause, a shutdown and a batch in flight may all end the same request.
OneFinalEach == /\ \A r \in Requests : final[r] <= 1
                /\ \A c \in Calls : reply[c] <= 1

\* A pause that has been answered, and not been lifted, holds: no batch that is
\* still in flight runs a request.
PauseHolds ==
    (pauseState # "UNPAUSED" /\ callbacks = <<>>)
        => \A i \in DOMAIN batchQueue : batchQueue[i] = {}

\* The memory of the executor is away only while nothing can run: wake_up is to
\* resume scheduling only once all of it is resident again.
ResumedOnlyWhenResident == asleep => pauseState # "UNPAUSED"

\* A pause in the mode wait is answered when the requests in flight have drained.
WaitDrains ==
    \A c \in Calls :
        called[c] = "wait" /\ Answered(c) =>
            draining[c] \intersect (waiting \union running) = {}

\* When the process exits after a shutdown with no timeout, every request that
\* the loop has seen has been answered or was aborted by its client.
ExitAnswersAll ==
    (pc = "exited" /\ scenario.abortOnExit) =>
        \A r \in sent \ aborted :
            final[r] = 1 \/ \E i \in DOMAIN inputQueue : inputQueue[i] = Add(r)

\* Everyone is answered once: no final output is sent twice, and none is missing
\* at the end (and the state has its type).
AnsweredOnce == TypeOK /\ OneFinalEach /\ ExitAnswersAll

\* Every pause is answered, unless the process is told to shut down.
PausesAnswered ==
    \A c \in Calls :
        called[c] \in Pauses ~> (Answered(c) \/ shutdown # "RUNNING")

\* Every request gets its final output, unless its client gives it up, or the
\* engine stays paused or shuts down.
RequestsAnswered ==
    \A r \in Requests :
        r \in sent ~> \/ final[r] = 1 \/ r \in aborted
                       \/ pauseState # "UNPAUSED" \/ shutdown # "RUNNING"

\* A shutdown ends, also when the engine is paused and holds requests.
Exits == shutdown # "RUNNING" ~> pc = "exited"

\* The loop comes to everything it is asked for, and then to its end.
EveryoneAnswered == PausesAnswered /\ RequestsAnswered /\ Exits

=============================================================================
