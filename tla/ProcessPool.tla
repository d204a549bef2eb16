------------------------------ MODULE ProcessPool ------------------------------
(***************************************************************************)
(* The pool of GPU-pinned worker processes of the reproducibility encoder  *)
(* (process_pool.py): a coordinator that hands every worker its slice of a *)
(* job and waits for the answers, and workers that may fail, be killed or  *)
(* never come up.  The queues are multiprocessing.Queue: what a process has*)
(* put waits in the process until its feeder thread has written it to the  *)
(* pipe, is lost when the process is killed, and keeps a process that has  *)
(* returned from exiting.  The feeders of all workers write to one pipe,   *)
(* under one lock, which a worker killed in between does not give back;    *)
(* and a reader that has seen the first bytes of an answer waits for all.  *)
(***************************************************************************)
EXTENDS Naturals, Sequences, FiniteSets

CONSTANTS
    Workers,        \* the ranks 0 .. n - 1, one per device
    Domains,        \* what callers map over: each expert with its position, which is
                    \* its number, or its index in the assignment_domain of the call
    PipeCapacity,   \* bound: answers the outbound pipe holds unread
    MaxJobs,        \* bound: calls of map
    MaxWorkerKills  \* bound: workers killed from outside

ASSUME ProcessPoolAssumption ==
    /\ \E n \in 2 .. Cardinality(Workers) : Workers = 0 .. n - 1
    /\ \A domain \in Domains : /\ domain \in [DOMAIN domain -> Nat]
                              /\ DOMAIN domain \in SUBSET Nat \ {{}}
    /\ PipeCapacity \in Nat \ {0}

VARIABLES
    phase,          \* where the coordinator is
    call,           \* the locals of map: job, domain, waiting, received
    returned,       \* what the last call of map returned
    ready,          \* the workers that __init__ has heard of
    reading,        \* get has seen bytes in the pipe and waits for the whole answer
    worker,         \* where each worker process is
    job,            \* the job a worker runs
    inbound,        \* the queue of each worker
    unsent,         \* answers a worker has put that are not wholly in the pipe
    feeder,         \* where the feeder thread of each worker is
    outbound,       \* the whole answers in the pipe
    tally           \* jobs and kills so far

coordinator == << phase, call, returned, ready, reading >>
processes == << worker, job, inbound, unsent, feeder >>
poolVars == << coordinator, processes, outbound, tally >>

NoValues == [x \in {} |-> 0]
\* dict.update
Updated(f, g) == [x \in DOMAIN f \cup DOMAIN g |-> IF x \in DOMAIN g THEN g[x] ELSE f[x]]
Stop == [job |-> 0]
Answer(kind, r, n, values) == [kind |-> kind, rank |-> r, job |-> n, values |-> values]

\* _stable_expert_partitions: the position of an expert has its owner.
Owner(domain, e) == domain[e] % Cardinality(Workers)
Partition(domain, r) == {e \in DOMAIN domain : Owner(domain, e) = r}
Concerned(domain) == {r \in Workers : Partition(domain, r) # {}}

Alive(r) == worker[r] # "exited"
NoCall == [job |-> 0, domain |-> NoValues, waiting |-> {}, received |-> NoValues]

PoolInit ==
    /\ phase = "starting" /\ call = NoCall /\ returned = NoValues
    /\ ready = {} /\ reading = FALSE
    /\ worker = [r \in Workers |-> "starting"]
    /\ job = [r \in Workers |-> Stop]
    /\ inbound = [r \in Workers |-> << >>]
    /\ unsent = [r \in Workers |-> << >>]
    /\ feeder = [r \in Workers |-> "waiting"]
    /\ outbound = << >>
    /\ tally = [jobs |-> 0, kills |-> 0]

----------------------------------------------------------------------------
(* _worker_main                                                            *)

Put(r, answer) == unsent' = [unsent EXCEPT ![r] = Append(@, answer)]
Become(r, state) == worker' = [worker EXCEPT ![r] = state]

\* The worker has built its service, or could not.
Start(r) ==
    /\ worker[r] = "starting"
    /\ \/ Put(r, Answer("ready", r, 0, NoValues)) /\ Become(r, "idle")
       \/ Put(r, Answer("fatal", r, 0, NoValues)) /\ Become(r, "returned")
    /\ UNCHANGED << coordinator, job, inbound, feeder, outbound, tally >>

Take(r) ==
    /\ worker[r] = "idle" /\ inbound[r] # << >>
    /\ inbound' = [inbound EXCEPT ![r] = Tail(@)]
    /\ IF Head(inbound[r]) = Stop
       THEN Become(r, "returned") /\ UNCHANGED job
       ELSE Become(r, "working") /\ job' = [job EXCEPT ![r] = Head(inbound[r])]
    /\ UNCHANGED << coordinator, unsent, feeder, outbound, tally >>

\* Every expert of the slice is computed and the answers go in one message;
\* the first exception ends the worker.
Finish(r) ==
    /\ worker[r] = "working"
    /\ \/ /\ Put(r, Answer("result", r, job[r].job, [e \in job[r].experts |-> << job[r].job, r >>]))
          /\ Become(r, "idle")
       \/ /\ Put(r, Answer("error", r, job[r].job, NoValues))
          /\ Become(r, "returned")
    /\ UNCHANGED << coordinator, job, inbound, feeder, outbound, tally >>

\* The feeder thread of the worker's queue: it takes the lock of the pipe, the
\* pipe takes the first bytes when it has room and the rest as it is read, and
\* the lock is given back.
Feed(r, from, to) ==
    /\ Alive(r) /\ feeder[r] = from
    /\ feeder' = [feeder EXCEPT ![r] = to]
    /\ UNCHANGED << coordinator, worker, job, inbound, tally >>

Lock(r) ==
    /\ Feed(r, "waiting", "locked")
    /\ unsent[r] # << >> /\ \A s \in Workers : feeder[s] = "waiting"
    /\ UNCHANGED << unsent, outbound >>

BeginSend(r) ==
    /\ Feed(r, "locked", "writing")
    /\ Len(outbound) < PipeCapacity
    /\ UNCHANGED << unsent, outbound >>

Send(r) ==
    /\ Feed(r, "writing", "written")
    /\ outbound' = Append(outbound, Head(unsent[r]))
    /\ unsent' = [unsent EXCEPT ![r] = Tail(@)]

Unlock(r) ==
    /\ Feed(r, "written", "waiting")
    /\ UNCHANGED << unsent, outbound >>

\* The process exits when its feeder has nothing more to do.
Exit(r) ==
    /\ worker[r] = "returned" /\ unsent[r] = << >> /\ feeder[r] = "waiting"
    /\ Become(r, "exited")
    /\ UNCHANGED << coordinator, job, inbound, unsent, feeder, outbound, tally >>

\* The process is killed, with what it had not sent; what its feeder has begun
\* stays in the pipe, and the lock it holds stays taken.
Killed(r) ==
    /\ Alive(r) /\ tally.kills < MaxWorkerKills
    /\ tally' = [tally EXCEPT !.kills = @ + 1]
    /\ Become(r, "exited")
    /\ unsent' = [unsent EXCEPT ![r] = << >>]
    /\ UNCHANGED << coordinator, job, inbound, feeder, outbound >>

----------------------------------------------------------------------------
(* PinnedDeviceProcessPool.__init__                                        *)

\* The pipe ends in the beginning of an answer.
Begun == \E r \in Workers : feeder[r] = "writing"

\* get: a whole answer is taken; a begun one is waited for, without a timeout.
Receive(answer) ==
    /\ outbound # << >> /\ answer = Head(outbound) /\ outbound' = Tail(outbound)
    /\ reading' = FALSE
BlockInRead ==
    /\ \/ phase = "starting" /\ ready # Workers
       \/ phase = "waiting" /\ call.waiting # {}
    /\ outbound = << >> /\ Begun /\ ~reading
    /\ reading' = TRUE
    /\ UNCHANGED << phase, call, returned, ready, processes, outbound, tally >>

\* The coordinator gives up: close(force = True), then the exception.
\* Fault: the exception leaves the pool open.
AbandonOpen == phase' = "idle"
Abandon == phase' = "forced"

AwaitReady ==
    /\ phase = "starting" /\ ready # Workers
    /\ \E answer \in {outbound[i] : i \in DOMAIN outbound} :
          /\ Receive(answer)
          /\ IF answer.kind = "ready" /\ answer.rank \notin ready
             THEN ready' = ready \cup {answer.rank} /\ UNCHANGED phase
             ELSE Abandon /\ UNCHANGED ready
    /\ UNCHANGED << call, returned, processes, tally >>

\* Nothing came for a second and a worker is dead, or 180 seconds are over.
NotReady ==
    /\ phase = "starting" /\ ready # Workers /\ ~reading
    /\ Abandon
    /\ UNCHANGED << call, returned, ready, reading, processes, outbound, tally >>

AllReady ==
    /\ phase = "starting" /\ ready = Workers
    /\ phase' = "idle"
    /\ UNCHANGED << call, returned, ready, reading, processes, outbound, tally >>

----------------------------------------------------------------------------
(* map                                                                     *)

Map(domain) ==
    /\ phase = "idle" /\ tally.jobs < MaxJobs
    /\ LET n == call.job + 1 IN
       /\ call' = [job |-> n, domain |-> domain, waiting |-> Concerned(domain), received |-> NoValues]
       /\ inbound' = [r \in Workers |->
              IF r \in Concerned(domain)
              THEN Append(inbound[r], [job |-> n, experts |-> Partition(domain, r)])
              ELSE inbound[r]]
    /\ phase' = "waiting"
    /\ tally' = [tally EXCEPT !.jobs = @ + 1]
    /\ UNCHANGED << returned, ready, reading, worker, job, unsent, feeder, outbound >>

\* An answer is taken if it is a result of this job, from a worker that is
\* waited for, for the experts it was given.
Acceptable(answer) ==
    /\ answer.kind = "result" /\ answer.job = call.job
    /\ answer.rank \in call.waiting
    /\ DOMAIN answer.values = Partition(call.domain, answer.rank)
    /\ DOMAIN answer.values \cap DOMAIN call.received = {}

TakeAnswer ==
    /\ phase = "waiting" /\ call.waiting # {}
    /\ \E answer \in {outbound[i] : i \in DOMAIN outbound} :
          /\ Receive(answer)
          /\ IF Acceptable(answer)
             THEN /\ call' = [call EXCEPT !.waiting = @ \ {answer.rank},
                                          !.received = Updated(@, answer.values)]
                  /\ UNCHANGED phase
             ELSE Abandon /\ UNCHANGED call
    /\ UNCHANGED << returned, ready, processes, tally >>

\* get(timeout=1.0) raises Empty if it has seen no byte; an answer may still
\* come before the check.
TimeOut ==
    /\ phase = "waiting" /\ call.waiting # {} /\ outbound = << >> /\ ~Begun
    /\ phase' = "empty"
    /\ UNCHANGED << call, returned, ready, reading, processes, outbound, tally >>

\* Fault: a worker that has died is forgotten, not reported.
MissingForgotten == {}
Missing == {r \in call.waiting : ~Alive(r)}
CheckAlive ==
    /\ phase = "empty"
    /\ phase' = IF Missing # {} THEN "forced" ELSE "waiting"
    /\ UNCHANGED << call, returned, ready, reading, processes, outbound, tally >>

\* Every concerned worker has answered.
Complete == DOMAIN call.received = DOMAIN call.domain
Return ==
    /\ phase = "waiting" /\ call.waiting = {}
    /\ IF Complete
       THEN phase' = "idle" /\ returned' = call.received
       ELSE Abandon /\ UNCHANGED returned
    /\ UNCHANGED << call, ready, reading, processes, outbound, tally >>

\* An exception that map does not handle (an interrupt, also of a read): the
\* walk's finally clause closes the pool, as it does when the walk is done.
\* __init__ closes the pool itself.
Leave ==
    /\ phase \in {"starting", "idle", "waiting"}
    /\ phase' = IF phase = "starting" THEN "forced" ELSE "asked"
    /\ reading' = FALSE
    /\ UNCHANGED << call, returned, ready, processes, outbound, tally >>

----------------------------------------------------------------------------
(* close                                                                   *)

\* Without force the workers that are alive are told to stop.
AskToStop ==
    /\ phase = "asked"
    /\ inbound' = [r \in Workers |-> IF Alive(r) THEN Append(inbound[r], Stop) ELSE inbound[r]]
    /\ phase' = "joining"
    /\ UNCHANGED << call, returned, ready, reading, worker, job, unsent, feeder, outbound, tally >>

ForceClose ==
    /\ phase = "forced"
    /\ phase' = "joining"
    /\ UNCHANGED << call, returned, ready, reading, processes, outbound, tally >>

\* The workers have 15 seconds to exit, 2 with force, whoever has not is
\* terminated.  Nobody reads the answers of a pool that is being closed.
Survivors == {r \in Workers : Alive(r)}
Join ==
    /\ phase = "joining"
    /\ worker' = [r \in Workers |-> IF r \in Survivors THEN "exited" ELSE worker[r]]
    /\ unsent' = [r \in Workers |-> IF r \in Survivors THEN << >> ELSE unsent[r]]
    /\ phase' = "closed"
    /\ UNCHANGED << call, returned, ready, reading, job, inbound, feeder, outbound, tally >>

----------------------------------------------------------------------------
Coordinate ==
    \/ BlockInRead \/ AwaitReady \/ NotReady \/ AllReady
    \/ TakeAnswer \/ TimeOut \/ CheckAlive \/ Return
    \/ AskToStop \/ ForceClose \/ Join

Feeder(r) == Lock(r) \/ BeginSend(r) \/ Send(r) \/ Unlock(r)
Work(r) == Start(r) \/ Take(r) \/ Finish(r) \/ Feeder(r) \/ Exit(r)

PoolNext ==
    \/ Coordinate \/ Leave
    \/ \E domain \in Domains : Map(domain)
    \/ \E r \in Workers : Work(r) \/ Killed(r)

\* The coordinator runs; a worker that is up takes its job, ends it one way or
\* the other and sends the answer while the pipe has room.  Nothing is assumed
\* of a worker that is starting, nor that anybody calls map.
PoolFairness ==
    /\ WF_poolVars(Coordinate)
    /\ \A r \in Workers : WF_poolVars(Take(r) \/ Finish(r) \/ Feeder(r) \/ Exit(r))

PoolSpec == PoolInit /\ [][PoolNext]_poolVars
FairPoolSpec == PoolSpec /\ PoolFairness

----------------------------------------------------------------------------
(* Properties                                                              *)

(***************************************************************************)
(* A pool that is open between two calls owes nobody an answer: the last   *)
(* call returned each of its experts as computed for it by the rank that   *)
(* owns the expert, and neither a job nor an answer of it is left in a     *)
(* queue, for the next call to take (map closes the pool otherwise).       *)
(***************************************************************************)
QuietBetweenCalls ==
    (phase = "idle") =>
        /\ call.waiting = {} /\ returned = call.received
        /\ DOMAIN returned = DOMAIN call.domain
        /\ \A e \in DOMAIN returned : returned[e] = << call.job, Owner(call.domain, e) >>
        /\ outbound = << >>
        /\ \A r \in Workers : unsent[r] = << >> /\ inbound[r] = << >> /\ worker[r] # "working"

(***************************************************************************)
(* What a killed worker can do to the others.  Its answer is begun and will*)
(* not end: the read that has seen it does not return (get).  Its answer is*)
(* whole, but its feeder was killed before it gave the lock back: the      *)
(* workers that are waited for are alive and cannot send (Queue._feed), so *)
(* that the check for dead ones finds none.                                *)
(***************************************************************************)
StuckInRead == reading /\ outbound = << >> /\ \E r \in Workers : ~Alive(r) /\ feeder[r] = "writing"
LockLost ==
    /\ call.waiting # {} /\ \A r \in call.waiting : Alive(r)
    /\ \E r \in Workers : ~Alive(r) /\ feeder[r] = "written"

(***************************************************************************)
(* Every call ends, with its answers or with the pool closed, though       *)
(* workers fail, are killed before, while or after they work, never come   *)
(* up, or cannot send what nobody reads; the exceptions are the two states *)
(* above, of a worker killed between the first byte of an answer and the   *)
(* release of the lock.  Whatever has happened, a pool that is being closed*)
(* is closed in the end, and no worker outlives it (__init__, map, close). *)
(***************************************************************************)
EveryCallEnds ==
    /\ (phase \in {"starting", "waiting", "empty"}) ~>
          (phase \in {"idle", "closed"} \/ StuckInRead \/ LockLost)
    /\ (phase \in {"forced", "asked"}) ~> (phase = "closed" /\ \A r \in Workers : ~Alive(r))
=============================================================================
