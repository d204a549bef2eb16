-------------------------- MODULE DataParallelWaves --------------------------
(***************************************************************************)
(* The engine cores of a data-parallel deployment (DPEngineCoreProc).      *)
(* Every forward pass is a collective of all ranks, so ranks step together *)
(* in waves: a rank with nothing to do runs dummy passes until an          *)
(* all-reduce, made every SyncEvery steps, finds that no rank has          *)
(* unfinished requests.  A pause has to reach all ranks before any of them *)
(* stops, and a resume has to reach all of them before any of them steps.  *)
(*                                                                         *)
(* A step is scheduled and has its results in one iteration: of the batch  *)
(* queue only the difference it makes to the step counter is kept.  The    *)
(* front-end and the coordinator are not part of the repository; they are  *)
(* modelled by the messages core.py takes from them and sends to them.     *)
(***************************************************************************)
EXTENDS Integers, Sequences, FiniteSets

CONSTANTS Ranks, Requests,
          SyncEvery,     \* steps between two all-reduces (32 in the code)
          MaxTokens,     \* steps after which a request stops
          Pauses,        \* bound on the pauses of a behaviour
          BatchQueue,    \* step_with_batch_queue is the step function, not step
          StrayResume,   \* the client may resume engines that it has not paused
          Scenarios,     \* what the clients and the coordinator may do
          None

ASSUME WavesAssumption ==
    /\ Ranks \subseteq Nat /\ 0 \in Ranks /\ IsFiniteSet(Ranks)
    /\ SyncEvery \in Nat \ {0} /\ MaxTokens \in Nat \ {0} /\ Pauses \in Nat
    /\ {BatchQueue, StrayResume} \subseteq BOOLEAN
    /\ \A s \in Scenarios :
          /\ s.requests \subseteq Requests              \* what is sent
          /\ s.sendIn \subseteq {"none", "pause", "resume"}  \* in which phases
          /\ s.modes \subseteq {"abort", "wait", "keep"}   \* the modes of a pause
          /\ s.lag \in BOOLEAN    \* the coordinator hears of requests late

VARIABLES
    scenario,          \* the one of this behaviour
    pc,                \* where each rank's busy loop is
    inbox,             \* input queue of each rank
    waiting, running,  \* requests in each rank's scheduler
    finishedIds,       \* whether the scheduler has finished ids to report
    pauseState,
    left,              \* steps each request still needs
    enginesRunning, currentWave, stepCounter, pendingPause, ignoreStart,
    pausing,           \* a pause of the rank waits for its idle callback
    wire,              \* START_DP_WAVE messages on their way to each rank
    coordinator,       \* [wave, running] as the coordinator has them
    toCoordinator,     \* what the ranks have sent it
    firstRequests,     \* what the front-end has sent it
    frontEnd,          \* [wave, running] as the front-end has them
    sent,              \* requests the front-end has sent
    call,              \* utility call of the client: phase, ranks it goes to
    pauses             \* pauses so far

rankVars == <<pc, waiting, running, finishedIds, pauseState, left, enginesRunning,
              currentWave, stepCounter, pendingPause, ignoreStart, pausing>>
coordVars == <<coordinator, toCoordinator, firstRequests>>
clientVars == <<scenario, frontEnd, sent, call, pauses>>
vars == <<rankVars, inbox, wire, coordVars, clientVars>>

-----------------------------------------------------------------------------

Unfinished(r) == CASE pauseState[r] = "PAUSED_ALL" -> {}
                   [] pauseState[r] = "PAUSED_NEW" -> running[r]
                   [] OTHER -> waiting[r] \union running[r]

HasRequests(r) == Unfinished(r) # {} \/ finishedIds[r]
HasWork(r)     == enginesRunning[r] \/ HasRequests(r)

Start(w, excluded) == [type |-> "START_DP_WAVE", wave |-> w, exclude |-> excluded]
Add(q, w)          == [type |-> "ADD", id |-> q, wave |-> w]
Pause(mode)        == [type |-> "PAUSE", mode |-> mode]
Resume             == [type |-> "RESUME"]

NoCall == [phase |-> "none", mode |-> None, unsent |-> {}, awaited |-> {}]

Init ==
    /\ scenario \in Scenarios
    /\ pc = [r \in Ranks |-> "poll"]
    /\ inbox = [r \in Ranks |-> <<>>] /\ wire = [r \in Ranks |-> <<>>]
    /\ waiting = [r \in Ranks |-> {}] /\ running = [r \in Ranks |-> {}]
    /\ finishedIds = [r \in Ranks |-> FALSE]
    /\ pauseState = [r \in Ranks |-> "UNPAUSED"]
    /\ left = [q \in Requests |-> MaxTokens]
    /\ enginesRunning = [r \in Ranks |-> FALSE]
    /\ currentWave = [r \in Ranks |-> 0]
    /\ stepCounter = [r \in Ranks |-> 0]
    /\ pendingPause = [r \in Ranks |-> FALSE]
    /\ ignoreStart = [r \in Ranks |-> FALSE]
    /\ pausing = [r \in Ranks |-> FALSE]
    /\ coordinator = [wave |-> 0, running |-> FALSE]
    /\ toCoordinator = <<>> /\ firstRequests = <<>>
    /\ frontEnd = [wave |-> 0, running |-> FALSE]
    /\ sent = {} /\ call = NoCall /\ pauses = 0

-----------------------------------------------------------------------------
(* The front-end, the client and the coordinator *)

\* A request goes to a rank with the wave the front-end believes in; if it
\* believes the engines stopped, the coordinator has to wake the others.
SendRequest(q, r) ==
    /\ q \in scenario.requests \ sent /\ call.phase \in scenario.sendIn
    /\ sent' = sent \union {q}
    /\ inbox' = [inbox EXCEPT ![r] = Append(@, Add(q, frontEnd.wave))]
    /\ IF frontEnd.running THEN UNCHANGED <<firstRequests, frontEnd>>
       ELSE /\ firstRequests' = Append(firstRequests,
                                       [rank |-> r, wave |-> frontEnd.wave])
            /\ frontEnd' = [frontEnd EXCEPT !.running = TRUE]
    /\ UNCHANGED <<rankVars, wire, coordinator, toCoordinator, scenario, call, pauses>>

Observe ==
    /\ frontEnd # coordinator /\ firstRequests = <<>>
    /\ frontEnd' = coordinator
    /\ UNCHANGED <<rankVars, inbox, wire, coordVars, scenario, sent, call, pauses>>

Broadcast(w, excluded) ==
    wire' = [r \in Ranks |-> Append(wire[r], Start(w, excluded))]

CoordinateFirstRequest ==
    LET m == Head(firstRequests)
        stale == m.wave < coordinator.wave
    IN  /\ firstRequests # <<>>
        /\ firstRequests' = Tail(firstRequests)
        /\ IF coordinator.running THEN UNCHANGED <<wire, coordinator>>
           ELSE /\ coordinator' = [coordinator EXCEPT !.running = TRUE]
                /\ Broadcast(coordinator.wave, IF stale THEN None ELSE m.rank)
        /\ UNCHANGED <<rankVars, inbox, toCoordinator, clientVars>>

CoordinateEngines ==
    LET m == Head(toCoordinator)
    IN  /\ toCoordinator # <<>>
        /\ scenario.lag \/ firstRequests = <<>>
        /\ toCoordinator' = Tail(toCoordinator)
        /\ CASE m.type = "wave_complete" /\ coordinator.wave <= m.wave ->
                  /\ coordinator' = [wave |-> m.wave + 1, running |-> FALSE]
                  /\ UNCHANGED wire
             [] /\ m.type = "start_wave"
                /\ \/ m.wave > coordinator.wave
                   \/ m.wave = coordinator.wave /\ ~coordinator.running ->
                  /\ coordinator' = [wave |-> m.wave, running |-> TRUE]
                  /\ Broadcast(m.wave, m.rank)
             [] OTHER -> UNCHANGED <<coordinator, wire>>
        /\ UNCHANGED <<rankVars, inbox, firstRequests, clientVars>>

Deliver(r) ==
    /\ wire[r] # <<>>
    /\ inbox' = [inbox EXCEPT ![r] = Append(@, Head(wire[r]))]
    /\ wire' = [wire EXCEPT ![r] = Tail(@)]
    /\ UNCHANGED <<rankVars, coordVars, clientVars>>

\* The client pauses all ranks, waits for every answer, and then resumes all.
BeginPause(mode) ==
    /\ call.phase = "none" /\ pauses < Pauses
    /\ pauses' = pauses + 1
    /\ call' = [phase |-> "pause", mode |-> mode, unsent |-> Ranks, awaited |-> Ranks]
    /\ UNCHANGED <<rankVars, inbox, wire, coordVars, scenario, frontEnd, sent>>

BeginResume ==
    /\ \/ call.phase = "pause" /\ call.awaited = {} /\ UNCHANGED pauses
       \/ /\ StrayResume /\ call.phase = "none" /\ pauses < Pauses
          /\ pauses' = pauses + 1
    /\ call' = [phase |-> "resume", mode |-> None, unsent |-> Ranks, awaited |-> Ranks]
    /\ UNCHANGED <<rankVars, inbox, wire, coordVars, scenario, frontEnd, sent>>

SendCall(r) ==
    /\ r \in call.unsent
    /\ call' = [call EXCEPT !.unsent = @ \ {r}]
    /\ inbox' = [inbox EXCEPT ![r] = Append(@, IF call.phase = "pause"
                                               THEN Pause(call.mode) ELSE Resume)]
    /\ UNCHANGED <<rankVars, wire, coordVars, scenario, frontEnd, sent, pauses>>

EndCall ==
    /\ call.phase = "resume" /\ call.awaited = {}
    /\ call' = NoCall
    /\ UNCHANGED <<rankVars, inbox, wire, coordVars, scenario, frontEnd, sent, pauses>>

Answer(r) == call' = [call EXCEPT !.awaited = @ \ {r}]

-----------------------------------------------------------------------------
(* What a rank does with a message *)

\* Fault: a late request does not make the coordinator start a wave.
NoStartWave(r, m) == FALSE

\* A request of an older wave finds the engines stopped in a newer one: the
\* other ranks have to be told to start it.
StartsWave(r, m) == /\ m.wave < currentWave[r]
                    /\ ~enginesRunning[r] /\ pauseState[r] = "UNPAUSED"

HandleAdd(r, m) ==
    LET starts == StartsWave(r, m)
    IN  /\ m.type = "ADD"
        /\ waiting' = [waiting EXCEPT ![r] = @ \union {m.id}]
        /\ currentWave' = [currentWave EXCEPT ![r] = IF m.wave > @ THEN m.wave ELSE @]
        /\ enginesRunning' = [enginesRunning EXCEPT ![r] = @ \/ starts]
        /\ IF starts
           THEN toCoordinator' = Append(toCoordinator,
                    [type |-> "start_wave", wave |-> currentWave[r], rank |-> r])
           ELSE UNCHANGED toCoordinator
        /\ pc' = pc
        /\ UNCHANGED <<running, finishedIds, pauseState, left, stepCounter,
                       pendingPause, ignoreStart, pausing, call>>

\* Fault: a START_DP_WAVE of an earlier moment wakes a rank that has paused.
StaleWakes(r, m) == m.exclude # r /\ m.wave >= currentWave[r]

Heeded(r, m) == ~ignoreStart[r] /\ m.exclude # r /\ m.wave >= currentWave[r]

HandleStart(r, m) ==
    LET heeded == Heeded(r, m)
    IN  /\ m.type = "START_DP_WAVE"
        /\ currentWave' = [currentWave EXCEPT ![r] = IF heeded THEN m.wave ELSE @]
        /\ enginesRunning' = [enginesRunning EXCEPT ![r] = @ \/ heeded]
        /\ pc' = pc
        /\ UNCHANGED <<waiting, running, finishedIds, pauseState, left, stepCounter,
                       pendingPause, ignoreStart, pausing, call, toCoordinator>>

\* pause_scheduler with the _pause_complete of a rank: even an idle rank has to
\* step until the ranks agree, so the answer is left to the idle callback.
HandlePause(r, m) ==
    LET gone == IF m.mode = "abort" THEN waiting[r] \union running[r] ELSE {}
    IN  /\ m.type = "PAUSE"
        /\ waiting' = [waiting EXCEPT ![r] = @ \ gone]
        /\ running' = [running EXCEPT ![r] = @ \ gone]
        /\ finishedIds' = [finishedIds EXCEPT ![r] = @ \/ gone # {}]
        /\ pauseState' = [pauseState EXCEPT ![r] =
                            IF m.mode = "keep" THEN "PAUSED_ALL" ELSE "PAUSED_NEW"]
        /\ pendingPause' = [pendingPause EXCEPT ![r] = TRUE]
        /\ enginesRunning' = [enginesRunning EXCEPT ![r] = TRUE]
        /\ pausing' = [pausing EXCEPT ![r] = TRUE]
        /\ pc' = pc
        /\ UNCHANGED <<left, currentWave, stepCounter, ignoreStart, call, toCoordinator>>

PauseInFlight(r) == pendingPause[r] \/ (enginesRunning[r] /\ ignoreStart[r])

\* A resume during a pause raises; one of a running engine is ignored; else the
\* rank waits for the others in an all-reduce.
HandleResume(r, m) ==
    /\ m.type = "RESUME"
    /\ IF PauseInFlight(r) \/ enginesRunning[r]
       THEN Answer(r) /\ UNCHANGED <<pc, pauseState, ignoreStart>>
       ELSE /\ pauseState' = [pauseState EXCEPT ![r] = "UNPAUSED"]
            /\ ignoreStart' = [ignoreStart EXCEPT ![r] = FALSE]
            /\ pc' = [pc EXCEPT ![r] = IF @ = "poll" THEN "resume_poll" ELSE "resume_drain"]
            /\ UNCHANGED call
    /\ UNCHANGED <<waiting, running, finishedIds, left, enginesRunning, currentWave,
                   stepCounter, pendingPause, pausing, toCoordinator>>

HandleMessage(r) ==
    LET m == Head(inbox[r])
    IN  /\ inbox[r] # <<>>
        /\ \/ pc[r] = "poll" /\ ~HasWork(r) /\ ~pausing[r]
           \/ pc[r] = "drain"
        /\ HandleAdd(r, m) \/ HandleStart(r, m) \/ HandlePause(r, m) \/ HandleResume(r, m)
        /\ inbox' = [inbox EXCEPT ![r] = Tail(@)]
        /\ UNCHANGED <<wire, coordinator, firstRequests, scenario, frontEnd, sent, pauses>>

-----------------------------------------------------------------------------
(* The busy loop of a rank *)

\* The callback of a pause resets the caches, preempting what still runs, and
\* answers it.
NotifyIdle(r) ==
    /\ pc[r] = "poll" /\ ~HasWork(r) /\ pausing[r]
    /\ pausing' = [pausing EXCEPT ![r] = FALSE]
    /\ waiting' = [waiting EXCEPT ![r] = @ \union running[r]]
    /\ running' = [running EXCEPT ![r] = {}]
    /\ Answer(r)
    /\ UNCHANGED <<pc, finishedIds, pauseState, left, enginesRunning, currentWave,
                   stepCounter, pendingPause, ignoreStart, inbox, wire, coordVars,
                   scenario, frontEnd, sent, pauses>>

LeaveIdleLoop(r) ==
    /\ pc[r] = "poll" /\ HasWork(r)
    /\ pc' = [pc EXCEPT ![r] = "drain"]
    /\ UNCHANGED <<waiting, running, finishedIds, pauseState, left, enginesRunning,
                   currentWave, stepCounter, pendingPause, ignoreStart, pausing,
                   inbox, wire, coordVars, clientVars>>

\* Fault: the counter advances with a batch queue as well.
StepCounts(r, stepped) == IF stepped THEN (stepCounter[r] + 1) % SyncEvery ELSE 0

\* The counter, kept modulo SyncEvery.  step() advances it too, and clears it
\* when the scheduler has no requests; step_with_batch_queue leaves it alone.
CounterAfterStep(r, stepped) ==
    CASE BatchQueue -> stepCounter[r]
      [] ~BatchQueue /\ stepped -> (stepCounter[r] + 1) % SyncEvery
      [] OTHER -> 0

StillWaiting(r, scheduled) == waiting[r] \ scheduled

\* One iteration up to its forward pass, real or dummy.  A rank with nothing to
\* run makes none if it and the engines are idle.
Step(r) ==
    LET admitted  == IF pauseState[r] = "UNPAUSED" THEN waiting[r] ELSE {}
        scheduled == IF pauseState[r] = "PAUSED_ALL" THEN {} ELSE running[r] \union admitted
        stopped   == {q \in scheduled : left[q] = 1}
        stays     == (running[r] \union scheduled) \ stopped
        executed  == HasRequests(r) /\ scheduled # {}
    IN  /\ pc[r] = "drain" /\ inbox[r] = <<>>
        /\ UNCHANGED <<pauseState, enginesRunning, currentWave, pendingPause,
                       ignoreStart, pausing, inbox, wire, coordVars, clientVars>>
        /\ IF HasRequests(r)
           THEN /\ running' = [running EXCEPT ![r] = stays]
                /\ waiting' = [waiting EXCEPT ![r] = StillWaiting(r, scheduled)]
                /\ finishedIds' = [finishedIds EXCEPT ![r] = stopped # {}]
                /\ left' = [q \in Requests |-> left[q] - IF q \in scheduled THEN 1 ELSE 0]
           ELSE UNCHANGED <<running, waiting, finishedIds, left>>
        /\ stepCounter' = [stepCounter EXCEPT ![r] = CounterAfterStep(r, HasRequests(r))]
        /\ pc' = [pc EXCEPT ![r] =
                    IF ~executed /\ Unfinished(r)' = {} /\ ~enginesRunning[r]
                    THEN "poll" ELSE "forward"]

\* The forward pass is made by all ranks or by none.
Forward ==
    /\ \A r \in Ranks : pc[r] = "forward"
    /\ stepCounter' = [r \in Ranks |-> (stepCounter[r] + 1) % SyncEvery]
    /\ pc' = [r \in Ranks |-> IF stepCounter'[r] = 0 THEN "allreduce" ELSE "poll"]
    /\ enginesRunning' = [r \in Ranks |-> IF stepCounter'[r] = 0
                                          THEN enginesRunning[r] ELSE TRUE]
    /\ UNCHANGED <<waiting, running, finishedIds, pauseState, left, currentWave,
                   pendingPause, ignoreStart, pausing, inbox, wire, coordVars, clientVars>>

\* Fault: a rank with only waiting requests counts as finished.
OnlyRunning == \E r \in Ranks : running[r] # {}

PauseConsensus == \A r \in Ranks : pendingPause[r]
AnyUnfinished == \E r \in Ranks : Unfinished(r) # {}

\* sync_dp_state is not part of the repository.  What core.py says of it is that
\* a rank with a pending pause keeps stepping until all ranks have one, so a
\* pause that only some ranks know of has to count as unfinished.
GlobalUnfinished == \/ AnyUnfinished
                    \/ ~PauseConsensus /\ \E r \in Ranks : pendingPause[r]

NextWave(r) == currentWave[r] + 1

\* The all-reduce and what follows it in run_busy_loop: without unfinished
\* requests the wave ends.
AllReduce ==
    LET unfinished == GlobalUnfinished
    IN  /\ \A r \in Ranks : pc[r] = "allreduce"
        /\ pc' = [r \in Ranks |-> "poll"]
        /\ enginesRunning' = [r \in Ranks |-> unfinished]
        /\ ignoreStart' = [r \in Ranks |-> ignoreStart[r] \/ PauseConsensus]
        /\ pendingPause' = [r \in Ranks |-> pendingPause[r] /\ ~PauseConsensus]
        /\ IF unfinished THEN UNCHANGED <<currentWave, toCoordinator>>
           ELSE /\ currentWave' = [r \in Ranks |-> NextWave(r)]
                /\ toCoordinator' = Append(toCoordinator,
                       [type |-> "wave_complete", wave |-> currentWave[0], rank |-> 0])
        /\ UNCHANGED <<waiting, running, finishedIds, pauseState, left, stepCounter,
                       pausing, inbox, wire, coordinator, firstRequests, clientVars>>

Resuming(r) == pc[r] \in {"resume_poll", "resume_drain"}

\* has_unfinished_dp: the barrier and the all-reduce at the end of a resume.
ResumeAllReduce ==
    LET unfinished == AnyUnfinished
    IN  /\ \A r \in Ranks : Resuming(r)
        /\ pc' = [r \in Ranks |-> IF pc[r] = "resume_poll" THEN "poll" ELSE "drain"]
        /\ enginesRunning' = [r \in Ranks |-> unfinished]
        /\ call' = [call EXCEPT !.awaited = {}]
        /\ UNCHANGED <<waiting, running, finishedIds, pauseState, left, currentWave,
                       stepCounter, pendingPause, ignoreStart, pausing, inbox, wire,
                       coordVars, scenario, frontEnd, sent, pauses>>

Rank(r) == HandleMessage(r) \/ NotifyIdle(r) \/ LeaveIdleLoop(r) \/ Step(r)
Engines == Forward \/ AllReduce \/ ResumeAllReduce \/ \E r \in Ranks : Rank(r)

Transport == \/ Observe \/ CoordinateFirstRequest \/ CoordinateEngines
             \/ \E r \in Ranks : Deliver(r) \/ SendCall(r)

Client == \/ \E q \in Requests, r \in Ranks : SendRequest(q, r)
          \/ \E mode \in scenario.modes : BeginPause(mode)
          \/ BeginResume \/ EndCall

Next == Engines \/ Transport \/ Client

Spec == Init /\ [][Next]_vars

\* Ranks and messages go on, a call reaches every rank, and the client resumes
\* what it has paused.  Of the ranks and the coordinator nobody can be passed
\* over for ever: whatever they do without it comes to an end.
Progress == Engines \/ Transport \/ EndCall \/ (call.phase = "pause" /\ BeginResume)
FairSpec == /\ Spec
            /\ WF_vars(Progress)
            /\ \A r \in Ranks : []<>(r \notin call.unsent)

-----------------------------------------------------------------------------
(* Properties *)

TypeOK ==
    /\ pc \in [Ranks -> {"poll", "drain", "forward", "allreduce",
                         "resume_poll", "resume_drain"}]
    /\ \A r \in Ranks : waiting[r] \intersect running[r] = {}
    /\ left \in [Requests -> 0..MaxTokens]
    /\ stepCounter \in [Ranks -> 0..(SyncEvery - 1)]
    /\ \A r \in Ranks : currentWave[r] \in Nat
    /\ pauseState \in [Ranks -> {"UNPAUSED", "PAUSED_NEW", "PAUSED_ALL"}]

\* Ranks that make a forward pass together count it alike, so that they reach
\* the all-reduce after the same pass ...
CountersAgree ==
    (\A r \in Ranks : pc[r] = "forward") =>
        \A r, s \in Ranks : stepCounter[r] = stepCounter[s]

\* ... and they are in the same wave there: rank 0 reports its end for all.
WavesAgree ==
    (\A r \in Ranks : pc[r] = "allreduce") =>
        \A r, s \in Ranks : currentWave[r] = currentWave[s]

\* Ranks that enter a collective of run_busy_loop together agree about it (and each has
\* its type).
RanksAgree == TypeOK /\ CountersAgree /\ WavesAgree

\* No rank waits in the barrier of a resume while another one steps: the
\* all-reduce of the one would meet the collectives of the other.
ResumeBarrierSafe ==
    ~ \E r, s \in Ranks : Resuming(r) /\ pc[s] \in {"forward", "allreduce"}

\* A client that waits for the answers to its pause is never told that the
\* pause is still in flight when it resumes, and is never ignored.
ResumeAccepted ==
    \A r \in Ranks :
        (inbox[r] # <<>> /\ Head(inbox[r]) = Resume) =>
            ~PauseInFlight(r) /\ ~enginesRunning[r]

\* A resume that follows the answers to its pause is carried out by all ranks.
ResumeSafe == ResumeBarrierSafe /\ ResumeAccepted

\* Once every rank has answered a pause, none steps until the client resumes.
PauseStopsAllRanks ==
    (call.phase = "pause" /\ call.awaited = {}) =>
        \A r \in Ranks : ~enginesRunning[r] /\ pc[r] \notin {"forward", "allreduce"}

\* A rank that makes a forward pass is not left alone in it: a rank that idles
\* has something under way that will wake it.
NoRankStranded ==
    (/\ call.phase = "none" /\ firstRequests = <<>> /\ toCoordinator = <<>>
     /\ \E r \in Ranks : pc[r] = "forward")
        => \A r \in Ranks : \/ pc[r] # "poll" \/ HasWork(r)
                             \/ inbox[r] # <<>> \/ wire[r] # <<>>

\* The coordinator hears of requests in time, and none is sent during a resume.
Orderly == ~scenario.lag /\ "resume" \notin scenario.sendIn

\* With orderly clients no rank is stranded.
NoneStrandedIfOrderly == Orderly => NoRankStranded

Live(q) == \E r \in Ranks : \/ q \in waiting[r] \union running[r]
                             \/ \E i \in DOMAIN inbox[r] :
                                    inbox[r][i].type = "ADD" /\ inbox[r][i].id = q

\* Every request ends, also one that reaches a rank whose peers have stopped.
RequestsServed == \A q \in Requests : Live(q) ~> ~Live(q)

\* Every pause and every resume is answered by all ranks.
CallsAnswered == (call.phase # "none") ~> (call.awaited = {})

\* With orderly clients every request ends and every call is answered: the
\* ranks never wait for each other in two different collectives.
EveryoneServed == Orderly => RequestsServed /\ CallsAnswered

=============================================================================
