--------------------------- MODULE EngineCoreProofs ---------------------------
(***************************************************************************)
(* Proofs about the engine core: the safety properties of EngineCore, for  *)
(* any requests and calls, any depth of the batch queue and any scenario.  *)
(*                                                                         *)
(* The inductive invariant follows a request from its client to its final  *)
(* output, and a call to its answer.  What the runs do not say and the     *)
(* induction needs is the order in the input queue: the ABORT of a request *)
(* is behind its ADD, so an ADD never schedules what its client has        *)
(* already given up with no ABORT left to take it away again.              *)
(***************************************************************************)
EXTENDS EngineCore, SequenceTheorems, TLAPS

\* What may stand in the input queue.
Messages == {Add(r) : r \in Requests} \cup {Abort(r) : r \in Requests}
            \cup {Call(c) : c \in Calls} \cup {Wakeup}

\* The types of the variables TypeOK says nothing of, with the sequences typed
\* as sequences.
Types ==
    /\ inputQueue \in Seq(Messages) /\ callbacks \in Seq(Calls)
    /\ batchQueue \in Seq(SUBSET Requests)
    /\ reply \in [Calls -> Nat] /\ final \in [Requests -> Nat] /\ left \in [Requests -> Nat]
    /\ receiving \in Requests \cup {None}
    /\ sent \subseteq Requests /\ scenario \in Scenarios
    /\ pc \in {"top", "poll", "clear", "get", "drain", "update", "exited"}

\* A message is in the input queue, and at one place only.
Queued(m) == \E i \in DOMAIN inputQueue : inputQueue[i] = m
Once(m) == \A i, j \in DOMAIN inputQueue : inputQueue[i] = m /\ inputQueue[j] = m => i = j

\* The requests the scheduler holds.
Scheduled == waiting \cup running

\* A request whose ADD has not been handled.
Unseen(r) == r \notin sent \/ Queued(Add(r))

\* A client adds a request once, and until the loop takes the ADD the scheduler
\* knows nothing of it.
RequestsFirst ==
    \A r \in Requests :
        /\ Once(Add(r))
        /\ Queued(Add(r)) => r \in sent
        /\ Unseen(r) => r \notin Scheduled \cup finishedIds /\ final[r] = 0 /\ left[r] = MaxTokens[r]

\* The ABORT of r is in the queue after its ADD.
Behind(r) ==
    \A i \in DOMAIN inputQueue : inputQueue[i] = Add(r) =>
        \E j \in DOMAIN inputQueue : i < j /\ inputQueue[j] = Abort(r)

\* Only what a client has aborted is aborted, and the abort is under way in the
\* input thread, or behind the ADD if that is still in the queue: the input
\* thread puts what a client sends in the order it is sent.
AbortsBehind ==
    \A r \in Requests :
        /\ Queued(Abort(r)) \/ receiving = r => r \in aborted
        /\ r \in aborted => receiving = r \/ Behind(r)

\* A request that is scheduled has tokens to produce and no final output; one
\* that has left it has its final output, unless its client aborted it.
Finals ==
    \A r \in Requests :
        /\ final[r] <= 1
        /\ r \in Scheduled => final[r] = 0 /\ left[r] > 0
        /\ r \in sent => Queued(Add(r)) \/ r \in Scheduled \/ final[r] = 1 \/ r \in aborted

\* A call is in the queue, in a callback or answered, one of the three.
CallsOnce ==
    /\ \A c \in Calls :
        /\ Once(Call(c)) /\ reply[c] <= 1
        /\ called[c] = None => ~Queued(Call(c)) /\ reply[c] = 0 
        /\ Queued(Call(c)) => reply[c] = 0
    /\ \A i \in DOMAIN callbacks : 
        /\ called[callbacks[i]] \in Pauses /\ reply[callbacks[i]] = 0 
        /\ ~Queued(Call(callbacks[i]))
    /\ \A i, j \in DOMAIN callbacks : callbacks[i] = callbacks[j] => i = j

\* The batch queue has room whenever the loop comes to schedule, and after a
\* shutdown with no timeout nothing is left to run.
LoopState ==
    /\ pc # "update" => Len(batchQueue) < BatchQueueSize
    /\ pc = "exited" => shutdown = "SHUTTING_DOWN"
    /\ shutdown = "SHUTTING_DOWN" /\ scenario.abortOnExit => Scheduled = {}

\* PauseHolds with what makes it inductive: while new requests are held back,
\* nothing runs that could fill a batch again.
Paused ==
    pauseState # "UNPAUSED" /\ callbacks = <<>> =>
        /\ \A i \in DOMAIN batchQueue : batchQueue[i] = {}
        /\ pauseState = "PAUSED_NEW" => running = {}

\* What holds of the requests, from the client through the queue to the final
\* output.
Followed == RequestsFirst /\ AbortsBehind /\ NoAbortLost /\ Finals

\* The inductive invariant.
IInv == Types /\ TypeOK /\ Followed /\ CallsOnce /\ LoopState /\ Paused

\* Patient clients have one call under way: so none that would resume waits
\* behind a sleep, and no callback puts to sleep what has been resumed.
OneCall ==
    /\ \A c, d \in Calls : called[c] # None /\ called[d] # None /\ ~Answered(c) /\ ~Answered(d) => c = d
    /\ callbacks # <<>> => pauseState # "UNPAUSED"
    /\ \A c \in Calls : asleep /\ Queued(Call(c)) => called[c] # "resume_scheduler"
    /\ ResumedOnlyWhenResident

-----------------------------------------------------------------------------
(* The input queue *)

\* The messages of the four kinds differ, and those of a kind by their id.
LEMMA MessagesDiffer ==
    /\ \A r, s : /\ Add(r) = Add(s) <=> r = s
                 /\ Abort(r) = Abort(s) <=> r = s
                 /\ Call(r) = Call(s) <=> r = s
                 /\ Add(r) # Abort(s) /\ Add(r) # Call(s) /\ Abort(r) # Call(s)
    /\ \A r : Add(r) # Wakeup /\ Abort(r) # Wakeup /\ Call(r) # Wakeup
<1>1. \A r : /\ Add(r).type = "ADD" /\ Add(r).id = r
             /\ Abort(r).type = "ABORT" /\ Abort(r).id = r
             /\ Call(r).type = "UTILITY" /\ Call(r).id = r
  BY DEF Add, Abort, Call
<1>2. Wakeup.type = "WAKEUP"
  BY DEF Wakeup
<1> QED BY <1>1, <1>2

\* Nothing that is said of the queue changes while the queue does not.
LEMMA SameQueue ==
    ASSUME UNCHANGED inputQueue
    PROVE  /\ \A m : (Queued(m)' <=> Queued(m)) /\ (Once(m)' <=> Once(m))
           /\ \A r : Behind(r)' <=> Behind(r)
BY DEF Queued, Once, Behind

\* A put appends: it adds one message, keeps every ABORT behind its ADD, and an
\* ABORT put last is behind every ADD.
LEMMA PutQueue ==
    ASSUME inputQueue \in Seq(Messages), NEW m \in Messages,
           inputQueue' = Append(inputQueue, m)
    PROVE  /\ inputQueue' \in Seq(Messages)
           /\ \A x : Queued(x)' <=> Queued(x) \/ x = m
           /\ \A x : Once(x) /\ (x # m \/ ~Queued(x)) => Once(x)'
           /\ \A r : Behind(r) /\ m # Add(r) => Behind(r)'
           /\ \A r : m = Abort(r) => Behind(r)'
<1> DEFINE n == Len(inputQueue)
<1>1. /\ n \in Nat /\ DOMAIN inputQueue = 1 .. n /\ DOMAIN inputQueue' = 1 .. n + 1
      /\ \A i \in 1 .. n : inputQueue'[i] = inputQueue[i]
      /\ inputQueue'[n + 1] = m
      /\ inputQueue' \in Seq(Messages)
  OBVIOUS
<1> HIDE DEF n
<1>2. \A x : Queued(x)' <=> Queued(x) \/ x = m
  <2> SUFFICES ASSUME NEW x PROVE Queued(x)' <=> Queued(x) \/ x = m
    OBVIOUS
  <2>1. Queued(x) => Queued(x)'
    BY <1>1 DEF Queued
  <2>2. x = m => Queued(x)'
    <3>1. n + 1 \in 1 .. n + 1
      BY <1>1
    <3> QED BY <1>1, <3>1 DEF Queued
  <2>3. Queued(x)' => Queued(x) \/ x = m
    BY <1>1 DEF Queued
  <2> QED BY <2>1, <2>2, <2>3
<1>3. \A x : Once(x) /\ (x # m \/ ~Queued(x)) => Once(x)'
  <2> SUFFICES ASSUME NEW x, Once(x), x # m \/ ~Queued(x),
                      NEW i \in 1 .. n + 1, NEW j \in 1 .. n + 1,
                      inputQueue'[i] = x, inputQueue'[j] = x
               PROVE  i = j
    BY <1>1 DEF Once
  <2>1. (i \in 1 .. n \/ i = n + 1) /\ (j \in 1 .. n \/ j = n + 1)
    BY <1>1
  <2> QED BY <1>1, <2>1 DEF Once, Queued
<1>4. \A r : Behind(r) /\ m # Add(r) => Behind(r)'
  <2> SUFFICES ASSUME NEW r, Behind(r), m # Add(r),
                      NEW i \in 1 .. n + 1, inputQueue'[i] = Add(r)
               PROVE  \E j \in 1 .. n + 1 : i < j /\ inputQueue'[j] = Abort(r)
    BY <1>1 DEF Behind
  <2>1. i \in 1 .. n
    BY <1>1
  <2>2. PICK j \in 1 .. n : i < j /\ inputQueue[j] = Abort(r)
    BY <1>1, <2>1 DEF Behind
  <2> QED BY <1>1, <2>2
<1>5. \A r : m = Abort(r) => Behind(r)'
  <2> SUFFICES ASSUME NEW r, m = Abort(r),
                      NEW i \in 1 .. n + 1, inputQueue'[i] = Add(r)
               PROVE  \E j \in 1 .. n + 1 : i < j /\ inputQueue'[j] = Abort(r)
    BY <1>1 DEF Behind
  <2>1. i \in 1 .. n /\ n + 1 \in 1 .. n + 1 /\ i < n + 1
    BY <1>1, MessagesDiffer
  <2> QED BY <1>1, <2>1
<1> QED BY <1>1, <1>2, <1>3, <1>4, <1>5

\* A get takes the head: nothing else leaves, and when an ADD leaves the ABORT
\* behind it stays.
LEMMA TakeQueue ==
    ASSUME inputQueue \in Seq(Messages), inputQueue # <<>>,
           inputQueue' = Tail(inputQueue)
    PROVE  /\ inputQueue' \in Seq(Messages) /\ Head(inputQueue) \in Messages
           /\ Queued(Head(inputQueue))
           /\ \A x : Queued(x)' => Queued(x)
           /\ \A x : Queued(x) => Queued(x)' \/ x = Head(inputQueue)
           /\ \A x : Once(x) => Once(x)'
           /\ \A x : Once(x) /\ x = Head(inputQueue) => ~Queued(x)'
           /\ \A r : Behind(r) => Behind(r)'
           /\ \A r : Behind(r) /\ Head(inputQueue) = Add(r) => Queued(Abort(r))'
<1> DEFINE n == Len(inputQueue)
           h == Head(inputQueue)
<1>1. /\ n \in Nat \ {0} /\ DOMAIN inputQueue = 1 .. n /\ DOMAIN inputQueue' = 1 .. n - 1
      /\ \A i \in 1 .. n - 1 : i + 1 \in 1 .. n /\ inputQueue'[i] = inputQueue[i + 1]
      /\ h = inputQueue[1] /\ 1 \in 1 .. n
      /\ inputQueue' \in Seq(Messages) /\ h \in Messages
  OBVIOUS
<1>2. \A i \in 1 .. n : i # 1 => i - 1 \in 1 .. n - 1 /\ inputQueue'[i - 1] = inputQueue[i]
  BY <1>1
<1> HIDE DEF n, h
<1>3. \A x : Queued(x)' => Queued(x)
  <2> SUFFICES ASSUME NEW x, NEW i \in 1 .. n - 1, inputQueue'[i] = x
               PROVE  \E k \in 1 .. n : inputQueue[k] = x
    BY <1>1 DEF Queued
  <2>1. i + 1 \in 1 .. n /\ inputQueue[i + 1] = x
    BY <1>1
  <2> QED BY <2>1
<1>4. \A x : Queued(x) => Queued(x)' \/ x = h
  BY <1>1, <1>2 DEF Queued
<1>5. \A x : Once(x) => Once(x)'
  <2> SUFFICES ASSUME NEW x, Once(x), NEW i \in 1 .. n - 1, NEW j \in 1 .. n - 1,
                      inputQueue'[i] = x, inputQueue'[j] = x
               PROVE  i = j
    BY <1>1 DEF Once
  <2>1. i + 1 = j + 1
    BY <1>1 DEF Once
  <2> QED BY <2>1
<1>6. \A x : Once(x) /\ x = h => ~Queued(x)'
  <2> SUFFICES ASSUME NEW x, Once(x), x = h, NEW i \in 1 .. n - 1, inputQueue'[i] = x
               PROVE  FALSE
    BY <1>1 DEF Queued
  <2>1. i + 1 = 1
    BY <1>1 DEF Once
  <2> QED BY <2>1
<1>7. \A r : Behind(r) => Behind(r)'
  <2> SUFFICES ASSUME NEW r, Behind(r), NEW i \in 1 .. n - 1, inputQueue'[i] = Add(r)
               PROVE  \E j \in 1 .. n - 1 : i < j /\ inputQueue'[j] = Abort(r)
    BY <1>1 DEF Behind
  <2>1. PICK j \in 1 .. n : i + 1 < j /\ inputQueue[j] = Abort(r)
    BY <1>1 DEF Behind
  <2>2. j # 1 /\ i < j - 1
    BY <2>1
  <2> QED BY <1>2, <2>1, <2>2
<1>8. \A r : Behind(r) /\ h = Add(r) => Queued(Abort(r))'
  <2> SUFFICES ASSUME NEW r, Behind(r), h = Add(r) PROVE Queued(Abort(r))'
    OBVIOUS
  <2>1. PICK j \in 1 .. n : 1 < j /\ inputQueue[j] = Abort(r)
    BY <1>1 DEF Behind
  <2>2. j - 1 \in DOMAIN inputQueue' /\ inputQueue'[j - 1] = Abort(r)
    BY <1>1, <1>2, <2>1
  <2> QED BY <2>2 DEF Queued
<1>9. Queued(h)
  BY <1>1 DEF Queued
<1> QED BY <1>1, <1>3, <1>4, <1>5, <1>6, <1>7, <1>8, <1>9 DEF h

-----------------------------------------------------------------------------
(* The requests *)

\* The queue loses at most a message that is not an ADD.
QueueKept ==
    \A r \in Requests :
        /\ Queued(Add(r))' <=> Queued(Add(r))
        /\ Once(Add(r)) => Once(Add(r))'
        /\ Behind(r) => Behind(r)'
        /\ Queued(Abort(r))' => Queued(Abort(r))

\* A step in which requests leave the scheduler keeps Followed if each that
\* leaves has its final output or was aborted: finish_requests from a handler,
\* from the shutdown or from a batch's results.
LEMMA RequestsLeave ==
    ASSUME Types, Types', TypeOK, Followed, QueueKept,
           UNCHANGED <<sent, aborted, receiving>>,
           Scheduled' \subseteq Scheduled,
           finishedIds' \subseteq finishedIds \cup Scheduled,
           \A r \in Requests :
               /\ Queued(Abort(r)) => Queued(Abort(r))' \/ r \notin Scheduled'
               /\ r \in Scheduled' => final'[r] = final[r] /\ left'[r] > 0
               /\ r \in Scheduled \ Scheduled' =>
                      final'[r] = 1 \/ (r \in aborted /\ final'[r] <= 1)
               /\ r \notin Scheduled => final'[r] = final[r] /\ left'[r] = left[r]
    PROVE  Followed'
<1>1. RequestsFirst'
  <2> SUFFICES ASSUME NEW r \in Requests
               PROVE  /\ Once(Add(r))'
                      /\ Queued(Add(r))' => r \in sent'
                      /\ Unseen(r)' => /\ r \notin Scheduled' \cup finishedIds'
                                       /\ final'[r] = 0 /\ left'[r] = MaxTokens[r]
    BY DEF RequestsFirst
  <2>1. Once(Add(r))' /\ (Queued(Add(r))' => r \in sent') /\ (Unseen(r)' => Unseen(r))
    BY DEF Followed, RequestsFirst, QueueKept, Unseen
  <2> QED BY <2>1 DEF Followed, RequestsFirst
<1>2. AbortsBehind'
  <2> SUFFICES ASSUME NEW r \in Requests
               PROVE  /\ Queued(Abort(r))' \/ receiving' = r => r \in aborted'
                      /\ r \in aborted' => receiving' = r \/ Behind(r)'
    BY DEF AbortsBehind
  <2> QED BY DEF Followed, AbortsBehind, QueueKept
<1>3. NoAbortLost'
  <2> SUFFICES ASSUME NEW r \in aborted
               PROVE  receiving' = r \/ Queued(Abort(r))' \/ r \notin Scheduled'
    BY DEF NoAbortLost, Queued, Scheduled
  <2>1. r \in Requests
    BY DEF TypeOK, Types
  <2>2. receiving = r \/ Queued(Abort(r)) \/ r \notin Scheduled
    BY DEF Followed, NoAbortLost, Queued, Scheduled
  <2> QED BY <2>1, <2>2
<1>4. Finals'
  <2> SUFFICES ASSUME NEW r \in Requests
               PROVE  /\ final'[r] <= 1
                      /\ r \in Scheduled' => final'[r] = 0 /\ left'[r] > 0
                      /\ r \in sent => \/ Queued(Add(r))' \/ r \in Scheduled'
                                       \/ final'[r] = 1 \/ r \in aborted
    BY DEF Finals
  <2>1. /\ final[r] <= 1
        /\ r \in Scheduled => final[r] = 0
        /\ r \in sent => Queued(Add(r)) \/ r \in Scheduled \/ final[r] = 1 \/ r \in aborted
    BY DEF Followed, Finals
  <2>2. Queued(Add(r))' <=> Queued(Add(r))
    BY DEF QueueKept
  <2> QED BY <2>1, <2>2
<1> QED BY <1>1, <1>2, <1>3, <1>4 DEF Followed

\* A step that leaves the requests and their part of the queue alone.
LEMMA RequestsStay ==
    ASSUME Types, Types', TypeOK, Followed, QueueKept,
           \A r \in Requests : Queued(Abort(r)) => Queued(Abort(r))',
           UNCHANGED <<sent, aborted, receiving, final, left>>,
           Scheduled' = Scheduled, finishedIds' \subseteq finishedIds
    PROVE  Followed'
<1>1. \A r \in Requests : r \in Scheduled => left[r] > 0
  BY DEF Followed, Finals
<1> QED BY <1>1, RequestsLeave

\* A step that leaves the queue alone keeps what Followed says of it.
LEMMA QueueSame ==
    ASSUME UNCHANGED inputQueue
    PROVE  /\ QueueKept
           /\ \A r \in Requests : Queued(Abort(r)) => Queued(Abort(r))'
BY SameQueue DEF QueueKept

\* So does a put of a call or of the wake-up.
LEMMA PutElse ==
    ASSUME inputQueue \in Seq(Messages), NEW m \in Messages,
           inputQueue' = Append(inputQueue, m),
           \A r : m # Add(r) /\ m # Abort(r)
    PROVE  /\ QueueKept
           /\ \A r \in Requests : Queued(Abort(r)) => Queued(Abort(r))'
<1> HIDE DEF Messages
<1> QED BY PutQueue DEF QueueKept

\* So does a get of a message that is not an ADD.
LEMMA TakeElse ==
    ASSUME inputQueue \in Seq(Messages), inputQueue # <<>>,
           inputQueue' = Tail(inputQueue),
           \A r : Head(inputQueue) # Add(r)
    PROVE  /\ QueueKept
           /\ \A r \in Requests : Queued(Abort(r)) /\ Head(inputQueue) # Abort(r) => Queued(Abort(r))'
<1> HIDE DEF Messages
<1> QED BY TakeQueue DEF QueueKept

\* The calls in a step that makes no call and gives no answer.
LEMMA CallsStay ==
    ASSUME CallsOnce, UNCHANGED <<called, reply, callbacks>>,
           \A c \in Calls : Queued(Call(c))' => Queued(Call(c)),
           \A c \in Calls : Once(Call(c)) => Once(Call(c))',
           Types
    PROVE  CallsOnce'
<1>1. \A i \in DOMAIN callbacks : callbacks[i] \in Calls
  BY DEF Types
<1> QED BY <1>1 DEF CallsOnce

-----------------------------------------------------------------------------
(* The clients and the input thread *)

\* A client's ADD keeps the invariant: the request is new.
LEMMA ClientAddKeeps ==
    ASSUME IInv, NEW r \in Requests, ClientAdd(r)
    PROVE  IInv'
<1> USE EngineAssumption DEF IInv
<1>1. /\ r \in scenario.requests \ sent /\ receiving = None /\ sent' = sent \cup {r}
      /\ inputQueue' = Append(inputQueue, Add(r))
      /\ UNCHANGED <<waiting, running, finishedIds, pauseState, left, preemptions,
                     batchQueue, asleep, abortsQueue, receiving, callbacks, shutdown,
                     waking, pc, called, aborted, scenario, reply, final, draining>>
  BY DEF ClientAdd, schedulerVars, stopVars, answerVars
<1>2. Add(r) \in Messages /\ inputQueue \in Seq(Messages)
  BY DEF Messages, Types
<1>3. /\ inputQueue' \in Seq(Messages)
      /\ \A x : Queued(x)' <=> Queued(x) \/ x = Add(r)
      /\ \A x : Once(x) /\ (x # Add(r) \/ ~Queued(x)) => Once(x)'
      /\ \A s : Behind(s) /\ Add(r) # Add(s) => Behind(s)'
  BY <1>1, <1>2, PutQueue
<1>4. Types'
  BY <1>1, <1>3 DEF Types
<1>5. TypeOK'
  BY <1>1 DEF TypeOK, Types
<1>6. r \notin sent /\ ~Queued(Add(r)) /\ Unseen(r) /\ r \notin aborted
  BY <1>1 DEF Followed, RequestsFirst, Unseen, TypeOK
<1>7. RequestsFirst'
  BY <1>1, <1>3, <1>6, MessagesDiffer DEF Followed, RequestsFirst, Unseen, Scheduled
<1>8. AbortsBehind'
  BY <1>1, <1>3, <1>6, MessagesDiffer DEF Followed, AbortsBehind
<1>9. NoAbortLost'
  <2>1. \A s \in aborted : s \in Requests /\ (Queued(Abort(s)) => Queued(Abort(s))')
    BY <1>3 DEF TypeOK, Types
  <2> QED BY <1>1, <2>1 DEF Followed, NoAbortLost, Queued
<1>10. Finals'
  BY <1>1, <1>3, <1>6, MessagesDiffer DEF Followed, Finals, Scheduled
<1>11. CallsOnce'
  BY <1>1, <1>3, MessagesDiffer, CallsStay
<1>12. LoopState' /\ Paused'
  BY <1>1 DEF LoopState, Paused, Scheduled
<1> QED BY <1>4, <1>5, <1>7, <1>8, <1>9, <1>10, <1>11, <1>12 DEF Followed

\* The first put of an abort, into the aborts queue, keeps the invariant.
LEMMA ClientAbortKeeps ==
    ASSUME IInv, NEW r \in Requests, ClientAbort(r)
    PROVE  IInv'
<1> USE EngineAssumption DEF IInv
<1>1. /\ r \in sent \ aborted /\ receiving = None /\ aborted' = aborted \cup {r}
      /\ abortsQueue' = abortsQueue \cup {r} /\ receiving' = r
      /\ UNCHANGED <<waiting, running, finishedIds, pauseState, left, preemptions,
                     batchQueue, asleep, inputQueue, callbacks, shutdown,
                     waking, pc, called, sent, scenario, reply, final, draining>>
  BY DEF ClientAbort, schedulerVars, stopVars, answerVars
<1>2. /\ \A m : (Queued(m)' <=> Queued(m)) /\ (Once(m)' <=> Once(m))
      /\ \A s : Behind(s)' <=> Behind(s)
  BY <1>1, SameQueue
<1>3. Types'
  BY <1>1 DEF Types
<1>4. TypeOK'
  BY <1>1 DEF TypeOK
<1>5. RequestsFirst'
  BY <1>1, <1>2 DEF Followed, RequestsFirst, Unseen, Scheduled
<1>6. AbortsBehind'
  BY <1>1, <1>2 DEF Followed, AbortsBehind
<1>7. NoAbortLost'
  <2>1. \A s \in aborted : receiving # s
    BY <1>1 DEF TypeOK, Types
  <2> QED BY <1>1, <2>1 DEF Followed, NoAbortLost
<1>8. Finals'
  BY <1>1, <1>2 DEF Followed, Finals, Scheduled
<1>9. CallsOnce'
  BY <1>1, <1>2, CallsStay
<1>10. LoopState' /\ Paused'
  BY <1>1 DEF LoopState, Paused, Scheduled
<1> QED BY <1>3, <1>4, <1>5, <1>6, <1>7, <1>8, <1>9, <1>10 DEF Followed

\* The second put of an abort, into the input queue, keeps the invariant: no
\* moment is left at which the abort is nowhere.
LEMMA PushAbortKeeps ==
    ASSUME IInv, PushAbort
    PROVE  IInv'
<1> USE EngineAssumption DEF IInv
<1>1. /\ receiving # None /\ receiving' = None
      /\ inputQueue' = Append(inputQueue, Abort(receiving))
      /\ UNCHANGED <<waiting, running, finishedIds, pauseState, left, preemptions,
                     batchQueue, asleep, abortsQueue, callbacks, shutdown, aborted,
                     waking, pc, called, sent, scenario, reply, final, draining>>
  BY DEF PushAbort, schedulerVars, stopVars, answerVars, clientVars
<1>2. PICK r \in Requests : receiving = r
  BY <1>1 DEF Types
<1>3. Abort(r) \in Messages /\ inputQueue \in Seq(Messages)
  BY DEF Messages, Types
<1>4. /\ inputQueue' \in Seq(Messages)
      /\ \A x : Queued(x)' <=> Queued(x) \/ x = Abort(r)
      /\ \A x : Once(x) /\ (x # Abort(r) \/ ~Queued(x)) => Once(x)'
      /\ \A s : Behind(s) /\ Abort(r) # Add(s) => Behind(s)'
      /\ \A s : Abort(r) = Abort(s) => Behind(s)'
  BY <1>1, <1>2, <1>3, PutQueue
<1>5. r \in aborted
  BY <1>2 DEF Followed, AbortsBehind
<1>6. Types'
  BY <1>1, <1>4 DEF Types
<1>7. TypeOK'
  BY <1>1 DEF TypeOK
<1>8. RequestsFirst'
  BY <1>1, <1>4, MessagesDiffer DEF Followed, RequestsFirst, Unseen, Scheduled
<1>9. AbortsBehind'
  BY <1>1, <1>2, <1>4, <1>5, MessagesDiffer DEF Followed, AbortsBehind
<1>10. NoAbortLost'
  <2> SUFFICES ASSUME NEW s \in aborted
               PROVE  Queued(Abort(s))' \/ s \notin Scheduled
    BY <1>1 DEF NoAbortLost, Queued, Scheduled
  <2>1. receiving = s \/ Queued(Abort(s)) \/ s \notin Scheduled
    BY DEF Followed, NoAbortLost, Queued, Scheduled
  <2> QED BY <1>2, <1>4, <2>1
<1>11. Finals'
  BY <1>1, <1>4, MessagesDiffer DEF Followed, Finals, Scheduled
<1>12. CallsOnce'
  BY <1>1, <1>4, MessagesDiffer, CallsStay
<1>13. LoopState' /\ Paused'
  BY <1>1 DEF LoopState, Paused, Scheduled
<1> QED BY <1>6, <1>7, <1>8, <1>9, <1>10, <1>11, <1>12, <1>13 DEF Followed

\* A client's utility call keeps the invariant: it is the only one of its id.
LEMMA ClientCallKeeps ==
    ASSUME IInv, NEW c \in scenario.calls, NEW k \in scenario.kinds, ClientCall(c, k)
    PROVE  IInv'
<1> USE EngineAssumption DEF IInv
<1>1. /\ called[c] = None /\ called' = [called EXCEPT ![c] = k]
      /\ inputQueue' = Append(inputQueue, Call(c))
      /\ UNCHANGED <<waiting, running, finishedIds, pauseState, left, preemptions,
                     batchQueue, asleep, abortsQueue, receiving, callbacks, shutdown,
                     waking, pc, sent, aborted, scenario, reply, final, draining>>
  BY DEF ClientCall, schedulerVars, stopVars, answerVars
<1>2. c \in Calls /\ k \in Methods /\ k # None
  BY DEF Types
<1>3. Call(c) \in Messages /\ inputQueue \in Seq(Messages)
  BY <1>2 DEF Messages, Types
<1>4. /\ inputQueue' \in Seq(Messages)
      /\ \A x : Queued(x)' <=> Queued(x) \/ x = Call(c)
      /\ \A x : Once(x) /\ (x # Call(c) \/ ~Queued(x)) => Once(x)'
  BY <1>1, <1>3, PutQueue
<1>5. Types'
  BY <1>1, <1>4 DEF Types
<1>6. TypeOK'
  BY <1>1, <1>2 DEF TypeOK
<1>7. Followed'
  <2>1. \A r : Call(c) # Add(r) /\ Call(c) # Abort(r)
    BY MessagesDiffer
  <2>2. /\ QueueKept
        /\ \A r \in Requests : Queued(Abort(r)) => Queued(Abort(r))'
    BY <1>1, <1>3, <2>1, PutElse
  <2> QED BY <1>1, <1>5, <2>2, RequestsStay DEF Scheduled
<1>8. CallsOnce'
  <2>1. called \in [Calls -> Methods \cup {None}]
    BY DEF TypeOK
  <2>2. \A d \in Calls : called'[d] = IF d = c THEN k ELSE called[d]
    BY <1>1, <1>2, <2>1
  <2>3. ~Queued(Call(c)) /\ reply[c] = 0
    BY <1>1, <1>2 DEF CallsOnce
  <2>4. \A d \in Calls : Queued(Call(d))' <=> Queued(Call(d)) \/ d = c
    BY <1>4, MessagesDiffer
  <2>5. ASSUME NEW d \in Calls
        PROVE  /\ Once(Call(d))' /\ reply'[d] <= 1
               /\ called'[d] = None => ~Queued(Call(d))' /\ reply'[d] = 0
               /\ Queued(Call(d))' => reply'[d] = 0
    BY <1>1, <1>2, <1>4, <2>2, <2>3, <2>4, MessagesDiffer DEF CallsOnce
  <2>6. ASSUME NEW i \in DOMAIN callbacks
        PROVE  /\ called'[callbacks'[i]] \in Pauses /\ reply'[callbacks'[i]] = 0
               /\ ~Queued(Call(callbacks[i]))'
    <3>1. PICK d \in Calls : d = callbacks[i] /\ called[d] \in Pauses /\ reply[d] = 0 /\ ~Queued(Call(d))
      BY DEF Types, CallsOnce
    <3>2. d # c
      BY <1>1, <3>1 DEF Pauses, Methods
    <3>3. called'[d] \in Pauses /\ reply'[d] = 0 /\ ~Queued(Call(d))' /\ callbacks'[i] = d
      BY <1>1, <2>2, <2>4, <3>1, <3>2
    <3> QED BY <3>3
  <2> QED BY <1>1, <2>5, <2>6 DEF CallsOnce
<1>9. LoopState' /\ Paused'
  BY <1>1 DEF LoopState, Paused, Scheduled
<1> QED BY <1>5, <1>6, <1>7, <1>8, <1>9

\* SIGTERM keeps the invariant.
LEMMA SignalKeeps ==
    ASSUME IInv, Signal
    PROVE  IInv'
<1> USE EngineAssumption DEF IInv
<1>1. /\ shutdown = "RUNNING" /\ shutdown' = "REQUESTED" /\ waking' = TRUE
      /\ UNCHANGED <<waiting, running, finishedIds, pauseState, left, preemptions,
                     batchQueue, asleep, inputQueue, abortsQueue, receiving, callbacks,
                     pc, called, sent, aborted, scenario, reply, final, draining>>
  BY DEF Signal, schedulerVars, queueVars, clientVars, answerVars
<1>2. Types' /\ TypeOK' /\ LoopState' /\ Paused'
  BY <1>1 DEF Types, TypeOK, LoopState, Paused
<1>3. Followed'
  BY <1>1, <1>2, QueueSame, RequestsStay DEF Scheduled
<1>4. CallsOnce'
  BY <1>1, SameQueue, CallsStay
<1> QED BY <1>2, <1>3, <1>4

\* The wake-up that follows SIGTERM keeps the invariant.
LEMMA PushWakeupKeeps ==
    ASSUME IInv, PushWakeup
    PROVE  IInv'
<1> USE EngineAssumption DEF IInv
<1>1. /\ waking' = FALSE /\ inputQueue' = Append(inputQueue, Wakeup)
      /\ UNCHANGED <<waiting, running, finishedIds, pauseState, left, preemptions,
                     batchQueue, asleep, abortsQueue, receiving, callbacks, shutdown,
                     pc, called, sent, aborted, scenario, reply, final, draining>>
  BY DEF PushWakeup, schedulerVars, clientVars, answerVars
<1>2. Wakeup \in Messages /\ inputQueue \in Seq(Messages)
  BY DEF Messages, Types
<1>3. /\ inputQueue' \in Seq(Messages)
      /\ \A x : Queued(x)' <=> Queued(x) \/ x = Wakeup
      /\ \A x : Once(x) /\ (x # Wakeup \/ ~Queued(x)) => Once(x)'
  BY <1>1, <1>2, PutQueue
<1>4. Types' /\ TypeOK' /\ LoopState' /\ Paused'
  BY <1>1, <1>3 DEF Types, TypeOK, LoopState, Paused, Scheduled
<1>5. Followed'
  <2>1. \A r : Wakeup # Add(r) /\ Wakeup # Abort(r)
    BY MessagesDiffer
  <2>2. /\ QueueKept
        /\ \A r \in Requests : Queued(Abort(r)) => Queued(Abort(r))'
    BY <1>1, <1>2, <2>1, PutElse
  <2> QED BY <1>1, <1>4, <2>2, RequestsStay DEF Scheduled
<1>6. CallsOnce'
  BY <1>1, <1>3, MessagesDiffer, CallsStay
<1> QED BY <1>4, <1>5, <1>6

-----------------------------------------------------------------------------
(* The steps of the idle loop *)

\* The steps that change where the loop is, and perhaps clear the aborts queue.
LEMMA LoopMoves ==
    ASSUME IInv, TestEmpty \/ ClearAborts \/ LeaveIdleLoop
    PROVE  IInv'
<1> USE EngineAssumption DEF IInv
<1>1. /\ pc \in {"poll", "clear"} /\ pc' \in {"clear", "get", "drain"}
      /\ abortsQueue' \subseteq abortsQueue
      /\ UNCHANGED <<waiting, running, finishedIds, pauseState, left, preemptions,
                     batchQueue, asleep, inputQueue, receiving, callbacks, shutdown,
                     waking, called, sent, aborted, scenario, reply, final, draining>>
  BY DEF TestEmpty, ClearAborts, LeaveIdleLoop, schedulerVars, queueVars, stopVars,
         clientVars, answerVars
<1>2. Types' /\ TypeOK' /\ LoopState' /\ Paused'
  BY <1>1 DEF Types, TypeOK, LoopState, Paused, Scheduled
<1>3. Followed'
  BY <1>1, <1>2, QueueSame, RequestsStay DEF Scheduled
<1>4. CallsOnce'
  BY <1>1, SameQueue, CallsStay
<1> QED BY <1>2, <1>3, <1>4

\* The callback that completes a pause keeps the invariant: it runs when the
\* engine is idle, so no batch is in flight.
LEMMA NotifyIdleKeeps ==
    ASSUME IInv, NotifyIdle
    PROVE  IInv'
<1> USE EngineAssumption DEF IInv
<1> DEFINE c == Last(callbacks)
           n == Len(callbacks)
<1>1. /\ pc = "poll" /\ Idle /\ callbacks # <<>>
      /\ callbacks' = Front(callbacks)
      /\ waiting' = waiting \cup Reset(c) /\ running' = running \ Reset(c)
      /\ asleep' = (asleep \/ called[c] = "sleep")
      /\ reply' = [reply EXCEPT ![c] = @ + 1]
      /\ UNCHANGED <<finishedIds, pauseState, left, preemptions, batchQueue, inputQueue,
                     abortsQueue, receiving, shutdown, waking, pc, called, sent,
                     aborted, scenario, final, draining>>
  BY DEF NotifyIdle, AnswerTo, queueVars, stopVars, clientVars
<1>2. /\ n \in Nat \ {0} /\ DOMAIN callbacks = 1 .. n /\ DOMAIN callbacks' = 1 .. n - 1
      /\ c = callbacks[n] /\ c \in Calls /\ callbacks' \in Seq(Calls)
      /\ \A i \in 1 .. n - 1 : callbacks'[i] = callbacks[i]
  <2>1. callbacks \in Seq(Calls)
    BY DEF Types
  <2> QED BY <1>1, <2>1 DEF Front, Last
<1> HIDE DEF c, n
<1>3. Reset(c) \subseteq running
  BY DEF Reset
<1>4. Scheduled' = Scheduled
  BY <1>1, <1>3 DEF Scheduled
<1>5. reply \in [Calls -> Nat] /\ \A d \in Calls : reply'[d] = IF d = c THEN reply[c] + 1 ELSE reply[d]
  BY <1>1, <1>2 DEF Types
<1>6. Types'
  BY <1>1, <1>2, <1>5 DEF Types
<1>7. TypeOK'
  <2>1. waiting' \subseteq sent /\ running' \subseteq sent /\ waiting' \cap running' = {}
    BY <1>1, <1>3 DEF TypeOK
  <2>2. finishedIds' \subseteq Requests \ (waiting' \cup running')
    BY <1>1, <1>4 DEF TypeOK, Scheduled
  <2>3. asleep' \in BOOLEAN
    BY <1>1 DEF TypeOK
  <2> QED BY <1>1, <2>1, <2>2, <2>3 DEF TypeOK
<1>8. Followed'
  BY <1>1, <1>4, <1>6, QueueSame, RequestsStay
<1>9. CallsOnce'
  <2>1. reply[c] = 0 /\ called[c] \in Pauses /\ ~Queued(Call(c)) /\ called[c] # None
    <3>1. n \in 1 .. n
      BY <1>2
    <3>2. None \notin Pauses
      BY DEF Pauses, Methods
    <3> QED BY <1>2, <3>1, <3>2 DEF CallsOnce
  <2>2. ASSUME NEW i \in 1 .. n - 1 PROVE i \in 1 .. n /\ callbacks[i] # c
    BY <1>2 DEF CallsOnce
  <2>3. \A m : (Queued(m)' <=> Queued(m)) /\ (Once(m)' <=> Once(m))
    BY <1>1, SameQueue
  <2>4. ASSUME NEW d \in Calls
        PROVE  /\ Once(Call(d))' /\ reply'[d] <= 1
               /\ called[d] = None => ~Queued(Call(d))' /\ reply'[d] = 0
               /\ Queued(Call(d))' => reply'[d] = 0
    BY <1>5, <2>1, <2>3 DEF CallsOnce
  <2>5. ASSUME NEW i \in 1 .. n - 1
        PROVE  /\ called[callbacks'[i]] \in Pauses /\ reply'[callbacks'[i]] = 0
               /\ ~Queued(Call(callbacks[i]))'
    <3> DEFINE d == callbacks[i]
    <3>0. i \in DOMAIN callbacks /\ d \in Calls /\ d # c
      BY <1>2, <2>2 DEF Types
    <3>1. called[d] \in Pauses /\ reply[d] = 0 /\ ~Queued(Call(d))
      BY <3>0 DEF CallsOnce
    <3> HIDE DEF d
    <3>2. reply'[d] = 0 /\ ~Queued(Call(d))' /\ callbacks'[i] = d
      BY <1>2, <1>5, <2>3, <3>0, <3>1 DEF d
    <3> QED BY <3>1, <3>2 DEF d
  <2>6. \A i, j \in 1 .. n - 1 : callbacks'[i] = callbacks'[j] => i = j
    BY <1>2, <2>2 DEF CallsOnce
  <2> QED BY <1>1, <1>2, <2>4, <2>5, <2>6 DEF CallsOnce
<1>10. LoopState'
  BY <1>1, <1>4 DEF LoopState
<1>11. Paused'
  <2>1. batchQueue = <<>> /\ (pauseState = "PAUSED_NEW" => running = {})
    BY <1>1 DEF Idle, HasWork, HasRequests, Unfinished
  <2> QED BY <1>1, <2>1 DEF Paused
<1> QED BY <1>6, <1>7, <1>8, <1>9, <1>10, <1>11

-----------------------------------------------------------------------------
(* The steps that finish requests *)

\* What finish_requests and the final outputs for gone, of those it knows, do.
LEMMA FinishEffect ==
    ASSUME Types, TypeOK, NEW gone \in SUBSET Scheduled,
           FinishRequests(gone), SendAbortOutputs(gone)
    PROVE  /\ Scheduled' = Scheduled \ gone
           /\ waiting' = waiting \ gone /\ running' = running \ gone
           /\ finishedIds' = finishedIds \cup gone
           /\ final' \in [Requests -> Nat]
           /\ \A r \in Requests : final'[r] = final[r] + IF r \in gone THEN 1 ELSE 0
<1>1. gone \cap (waiting \cup running) = gone
  BY DEF Scheduled
<1>2. /\ waiting' = waiting \ gone /\ running' = running \ gone
      /\ finishedIds' = finishedIds \cup gone
  BY <1>1 DEF FinishRequests
<1>3. final' = [r \in Requests |-> final[r] + IF r \in gone THEN 1 ELSE 0]
  BY DEF SendAbortOutputs
<1>4. \A r \in Requests : final[r] \in Nat /\ final[r] + (IF r \in gone THEN 1 ELSE 0) \in Nat
  BY DEF Types
<1> QED BY <1>2, <1>3, <1>4 DEF Scheduled

\* _handle_shutdown keeps the invariant: the requests it aborts get their final
\* output.
LEMMA HandleShutdownKeeps ==
    ASSUME IInv, HandleShutdown
    PROVE  IInv'
<1> USE EngineAssumption DEF IInv
<1>1. PICK gone \in SUBSET Scheduled :
        /\ FinishRequests(gone) /\ SendAbortOutputs(gone)
        /\ shutdown = "REQUESTED" /\ scenario.abortOnExit => gone = Scheduled
  BY DEF HandleShutdown, Scheduled
<1>2. /\ pc = "top" /\ pc' \in {"exited", "poll"}
      /\ shutdown' = IF shutdown = "RUNNING" THEN shutdown ELSE "SHUTTING_DOWN"
      /\ pc' = "exited" => shutdown # "RUNNING"
      /\ UNCHANGED <<pauseState, left, preemptions, batchQueue, asleep, inputQueue,
                     abortsQueue, receiving, callbacks, waking, called, sent, aborted,
                     scenario, reply, draining>>
  BY DEF HandleShutdown, queueVars, clientVars
<1>3. /\ Scheduled' = Scheduled \ gone
      /\ waiting' = waiting \ gone /\ running' = running \ gone
      /\ finishedIds' = finishedIds \cup gone
      /\ final' \in [Requests -> Nat]
      /\ \A r \in Requests : final'[r] = final[r] + IF r \in gone THEN 1 ELSE 0
  BY <1>1, FinishEffect
<1>4. Types'
  BY <1>2, <1>3 DEF Types
<1>5. TypeOK'
  <2>1. gone \subseteq Requests
    BY DEF Scheduled, TypeOK, Types
  <2> QED BY <1>2, <1>3, <2>1 DEF TypeOK
<1>6. Followed'
  <2>1. \A r \in Requests : r \in Scheduled => final[r] = 0 /\ left[r] > 0
    BY DEF Followed, Finals
  <2>2. \A r \in Requests :
          /\ r \in Scheduled' => final'[r] = final[r] /\ left'[r] > 0
          /\ r \in Scheduled \ Scheduled' => final'[r] = 1
          /\ r \notin Scheduled => final'[r] = final[r] /\ left'[r] = left[r]
    BY <1>2, <1>3, <2>1 DEF Types
  <2>3. Scheduled' \subseteq Scheduled /\ finishedIds' \subseteq finishedIds \cup Scheduled
    BY <1>3
  <2> QED BY <1>2, <1>4, <2>2, <2>3, QueueSame, RequestsLeave
<1>7. CallsOnce'
  BY <1>2, SameQueue, CallsStay
<1>8. LoopState'
  <2>1. shutdown' = "SHUTTING_DOWN" /\ scenario.abortOnExit => Scheduled' = {}
    BY <1>1, <1>2, <1>3 DEF LoopState, TypeOK
  <2> QED BY <1>2, <2>1 DEF LoopState
<1>9. Paused'
  BY <1>2, <1>3 DEF Paused
<1> QED BY <1>4, <1>5, <1>6, <1>7, <1>8, <1>9

-----------------------------------------------------------------------------
(* The two halves of a step *)

\* The first half of a step keeps the invariant: a paused scheduler gives an
\* empty batch.
LEMMA BeginStepKeeps ==
    ASSUME IInv, BeginStep
    PROVE  IInv'
<1> USE EngineAssumption DEF IInv
<1>1. /\ pc = "drain"
      /\ UNCHANGED <<pauseState, left, asleep, inputQueue, abortsQueue, receiving,
                     callbacks, shutdown, waking, called, sent, aborted, scenario,
                     reply, final, draining>>
  BY DEF BeginStep, queueVars, stopVars, clientVars, answerVars
<1>2. batchQueue \in Seq(SUBSET Requests) /\ Len(batchQueue) < BatchQueueSize
  BY <1>1 DEF Types, LoopState
<1>3. \/ /\ UNCHANGED <<waiting, running, preemptions, finishedIds, batchQueue>>
         /\ pc' = IF batchQueue = <<>> THEN "top" ELSE "update"
      \/ \E p \in SUBSET running, a \in SUBSET waiting, batch \in SUBSET Requests :
           /\ a # {} => pauseState = "UNPAUSED"
           /\ running' = (running \ p) \cup a /\ waiting' = (waiting \ a) \cup p
           /\ batch \subseteq running' /\ (pauseState = "PAUSED_ALL" => batch = {})
           /\ finishedIds' = {}
           /\ batchQueue' = Append(batchQueue, batch)
           /\ pc' \in {"top", "update"}
           /\ pc' = "top" => Len(batchQueue') < BatchQueueSize
  <2>1. CASE ~HasRequests
    BY <2>1 DEF BeginStep
  <2>2. CASE HasRequests
    <3>1. PICK p \in SUBSET running, a \in SUBSET waiting :
            LET runs  == (running \ p) \cup a
                batch == IF pauseState = "PAUSED_ALL" THEN {} ELSE runs
            IN  /\ ScheduleChoice(p, a)
                /\ running' = runs
                /\ waiting' = (waiting \ a) \union p
                /\ finishedIds' = {}
                /\ batchQueue' = Append(batchQueue, batch)
                /\ pc' = IF MoreToSchedule(batch) THEN "top" ELSE "update"
      BY <2>2 DEF BeginStep
    <3>2. (IF pauseState = "PAUSED_ALL" THEN {} ELSE (running \ p) \cup a) \in SUBSET Requests
      BY DEF TypeOK, Types
    <3> QED BY <3>1, <3>2 DEF ScheduleChoice, MoreToSchedule
  <2> QED BY <2>1, <2>2
<1>4. CASE UNCHANGED <<waiting, running, preemptions, finishedIds, batchQueue>>
           /\ pc' = IF batchQueue = <<>> THEN "top" ELSE "update"
  <2>1. Types' /\ TypeOK' /\ LoopState' /\ Paused'
    BY <1>1, <1>2, <1>4 DEF Types, TypeOK, LoopState, Paused, Scheduled
  <2>2. Followed'
    BY <1>1, <1>4, <2>1, QueueSame, RequestsStay DEF Scheduled
  <2>3. CallsOnce'
    BY <1>1, SameQueue, CallsStay
  <2> QED BY <2>1, <2>2, <2>3
<1>5. ASSUME NEW p \in SUBSET running, NEW a \in SUBSET waiting, NEW batch \in SUBSET Requests,
             a # {} => pauseState = "UNPAUSED",
             running' = (running \ p) \cup a, waiting' = (waiting \ a) \cup p,
             batch \subseteq running', pauseState = "PAUSED_ALL" => batch = {},
             finishedIds' = {}, batchQueue' = Append(batchQueue, batch),
             pc' \in {"top", "update"}, pc' = "top" => Len(batchQueue') < BatchQueueSize
      PROVE  IInv'
  <2>1. /\ batchQueue' \in Seq(SUBSET Requests) /\ Len(batchQueue') <= BatchQueueSize
        /\ batchQueue' # <<>>
        /\ DOMAIN batchQueue' = 1 .. Len(batchQueue) + 1 /\ DOMAIN batchQueue = 1 .. Len(batchQueue)
        /\ \A i \in 1 .. Len(batchQueue) : batchQueue'[i] = batchQueue[i]
        /\ batchQueue'[Len(batchQueue) + 1] = batch
    BY <1>2, <1>5
  <2>2. Types'
    BY <1>1, <1>5, <2>1 DEF Types
  <2>3. Scheduled' = Scheduled
    BY <1>5 DEF Scheduled
  <2>4. TypeOK'
    <3>1. waiting' \subseteq sent /\ running' \subseteq sent /\ waiting' \cap running' = {}
      BY <1>5 DEF TypeOK
    <3>2. \A i \in DOMAIN batchQueue' : batchQueue'[i] \subseteq Requests
      BY <2>1
    <3> QED BY <1>1, <1>5, <2>1, <3>1, <3>2 DEF TypeOK
  <2>5. Followed'
    BY <1>1, <1>5, <2>2, <2>3, QueueSame, RequestsStay
  <2>6. CallsOnce'
    BY <1>1, SameQueue, CallsStay
  <2>7. LoopState'
    BY <1>1, <1>5, <2>3 DEF LoopState
  <2>8. Paused'
    <3> SUFFICES ASSUME pauseState # "UNPAUSED", callbacks = <<>>
                 PROVE  /\ \A i \in DOMAIN batchQueue' : batchQueue'[i] = {}
                        /\ pauseState = "PAUSED_NEW" => running' = {}
      BY <1>1 DEF Paused
    <3>1. /\ \A i \in DOMAIN batchQueue : batchQueue[i] = {}
          /\ pauseState = "PAUSED_NEW" => running = {}
      BY DEF Paused
    <3>2. (pauseState = "PAUSED_NEW" => running' = {}) /\ batch = {}
      BY <1>5, <3>1 DEF TypeOK
    <3>3. \A i \in 1 .. Len(batchQueue) + 1 : i \in 1 .. Len(batchQueue) \/ i = Len(batchQueue) + 1
      BY <1>2
    <3> QED BY <2>1, <3>1, <3>2, <3>3
  <2> QED BY <2>2, <2>4, <2>5, <2>6, <2>7, <2>8
<1> QED BY <1>3, <1>4, <1>5

\* The second half of a step keeps the invariant: a request that an abort or an
\* earlier batch has finished takes no result.
LEMMA EndStepKeeps ==
    ASSUME IInv, EndStep
    PROVE  IInv'
<1> USE EngineAssumption DEF IInv
<1> DEFINE killed == abortsQueue
           alive  == Receivers(Head(batchQueue), killed)
<1>1. /\ pc = "update" /\ pc' = "top" /\ batchQueue' = Tail(batchQueue)
      /\ abortsQueue' = {}
      /\ left' = [r \in Requests |-> left[r] - IF r \in alive THEN 1 ELSE 0]
      /\ UNCHANGED <<pauseState, preemptions, asleep, inputQueue, receiving, callbacks,
                     shutdown, waking, called, sent, aborted, scenario, reply, draining>>
  BY DEF EndStep, stopVars, clientVars
<1>2. PICK stopped \in SUBSET alive :
        /\ {r \in alive : left'[r] = 0} \subseteq stopped
        /\ FinishRequests(stopped \cup killed) /\ SendAbortOutputs(stopped)
  BY DEF EndStep
<1>3. /\ batchQueue' \in Seq(SUBSET Requests) /\ Len(batchQueue') < BatchQueueSize
      /\ \A i \in DOMAIN batchQueue' : i + 1 \in DOMAIN batchQueue /\ batchQueue'[i] = batchQueue[i + 1]
  <2>1. batchQueue \in Seq(SUBSET Requests) /\ batchQueue # <<>> /\ Len(batchQueue) <= BatchQueueSize
    BY <1>1 DEF Types, TypeOK
  <2> QED BY <1>1, <2>1
<1>4. alive \subseteq Scheduled \ killed /\ stopped \subseteq Scheduled \ killed
  BY DEF Receivers, Scheduled
<1>5. killed \subseteq aborted /\ Scheduled \subseteq Requests
  BY DEF TypeOK, Types, Scheduled
<1> HIDE DEF killed, alive
<1>6. /\ Scheduled' = Scheduled \ (stopped \cup killed)
      /\ waiting' = waiting \ (stopped \cup killed) /\ running' = running \ (stopped \cup killed)
      /\ finishedIds' = finishedIds \cup (Scheduled \cap (stopped \cup killed))
  BY <1>2 DEF FinishRequests, Scheduled
<1>7. \A r \in Requests : r \in Scheduled => final[r] = 0 /\ left[r] > 0
  BY DEF Followed, Finals
<1>8. \A r \in Requests : /\ left'[r] = IF r \in alive THEN left[r] - 1 ELSE left[r]
                          /\ left[r] \in Nat /\ left[r] <= MaxTokens[r] /\ MaxTokens[r] \in Nat
  BY <1>1 DEF Types, TypeOK
<1>9. left' \in [Requests -> Nat] /\ \A r \in Requests : left'[r] \in 0 .. MaxTokens[r]
  <2>1. \A r \in Requests : left'[r] \in Nat /\ left'[r] <= MaxTokens[r]
    BY <1>4, <1>5, <1>7, <1>8
  <2> QED BY <1>1, <2>1
<1>10. /\ final' \in [Requests -> Nat]
       /\ \A r \in Requests : final'[r] = final[r] + IF r \in stopped THEN 1 ELSE 0
  <2>1. final' = [r \in Requests |-> final[r] + IF r \in stopped THEN 1 ELSE 0]
    BY <1>2 DEF SendAbortOutputs
  <2>2. \A r \in Requests : final[r] \in Nat
    BY DEF Types
  <2> QED BY <2>1, <2>2
<1>11. Types'
  BY <1>1, <1>3, <1>9, <1>10 DEF Types
<1>12. TypeOK'
  <2>1. /\ waiting' \subseteq sent /\ running' \subseteq sent /\ waiting' \cap running' = {}
        /\ finishedIds' \subseteq Requests \ (waiting' \cup running')
    BY <1>5, <1>6 DEF TypeOK, Scheduled
  <2>2. \A i \in DOMAIN batchQueue' : batchQueue'[i] \subseteq Requests
    BY <1>3 DEF TypeOK
  <2> QED BY <1>1, <1>3, <1>9, <2>1, <2>2 DEF TypeOK
<1>13. Followed'
  <2>1. ASSUME NEW r \in Requests
        PROVE  /\ r \in Scheduled' => final'[r] = final[r] /\ left'[r] > 0
               /\ r \in Scheduled \ Scheduled' => final'[r] = 1 \/ (r \in aborted /\ final'[r] <= 1)
               /\ r \notin Scheduled => final'[r] = final[r] /\ left'[r] = left[r]
    <3>1. r \in Scheduled' => final'[r] = final[r]
      BY <1>6, <1>10 DEF Types
    <3>2. r \in Scheduled' => left'[r] > 0
      <4> SUFFICES ASSUME r \in Scheduled' PROVE left'[r] # 0
        BY <1>9
      <4>1. r \in Scheduled /\ r \notin stopped
        BY <1>6
      <4>2. r \in alive => left'[r] # 0
        BY <1>2, <4>1
      <4> QED BY <1>7, <1>8, <4>1, <4>2
    <3>3. r \in Scheduled \ Scheduled' => r \in stopped \/ r \in aborted
      BY <1>5, <1>6
    <3>4. r \in Scheduled => final[r] = 0
      BY <1>7
    <3>5. r \notin Scheduled => r \notin stopped /\ r \notin alive
      BY <1>4
    <3> QED BY <1>8, <1>10, <3>1, <3>2, <3>3, <3>4, <3>5 DEF Types
  <2>2. Scheduled' \subseteq Scheduled /\ finishedIds' \subseteq finishedIds \cup Scheduled
    BY <1>6
  <2> QED BY <1>1, <1>11, <2>1, <2>2, QueueSame, RequestsLeave
<1>14. CallsOnce'
  BY <1>1, SameQueue, CallsStay
<1>15. LoopState'
  BY <1>1, <1>3, <1>6 DEF LoopState
<1>16. Paused'
  BY <1>1, <1>3, <1>6 DEF Paused
<1> QED BY <1>11, <1>12, <1>13, <1>14, <1>15, <1>16

-----------------------------------------------------------------------------
(* The messages *)

\* What HandleNext does whatever the message.
Taken ==
    /\ pc \in {"get", "drain"} /\ pc' \in {"poll", "drain"}
    /\ inputQueue # <<>> /\ inputQueue' = Tail(inputQueue)
    /\ UNCHANGED <<batchQueue, abortsQueue, receiving, shutdown, waking, called, sent,
                   aborted, scenario>>

\* What a message that the loop takes leaves in the queue.
LEMMA TakenQueue ==
    ASSUME Types, Taken
    PROVE  /\ inputQueue' \in Seq(Messages)
           /\ \A x : Queued(x)' => Queued(x)
           /\ \A x : Once(x) => Once(x)'
           /\ \A x : Queued(x) => Queued(x)' \/ x = Head(inputQueue)
           /\ \A x : x = Head(inputQueue) => Queued(x) /\ (Once(x) => ~Queued(x)')
           /\ \A r : Behind(r) => Behind(r)'
           /\ \A r : Behind(r) /\ Head(inputQueue) = Add(r) => Queued(Abort(r))'
           /\ (\A r : Head(inputQueue) # Add(r)) => QueueKept
<1>1. inputQueue \in Seq(Messages) /\ inputQueue # <<>> /\ inputQueue' = Tail(inputQueue)
  BY DEF Types, Taken
<1> QED BY <1>1, TakeQueue, TakeElse

\* The ADD handler keeps the invariant, whether it schedules the request or
\* rejects it during a shutdown.
LEMMA HandleAddKeeps ==
    ASSUME IInv, Taken, NEW r \in Requests, Head(inputQueue) = Add(r), HandleAdd(r)
    PROVE  IInv'
<1> USE EngineAssumption DEF IInv, Taken
<1>1. /\ UNCHANGED <<running, finishedIds, pauseState, left, preemptions, asleep,
                     callbacks, reply, draining>>
      /\ IF shutdown # "RUNNING"
         THEN waiting' = waiting /\ final' = [s \in Requests |-> final[s] + IF s \in {r} THEN 1 ELSE 0]
         ELSE waiting' = waiting \cup {r} /\ final' = final
  BY DEF HandleAdd, SendAbortOutputs
<1>2. /\ inputQueue' \in Seq(Messages) /\ Queued(Add(r)) /\ ~Queued(Add(r))'
      /\ \A x : Queued(x)' => Queued(x)
      /\ \A x : Once(x) => Once(x)'
      /\ \A x : Queued(x) => Queued(x)' \/ x = Add(r)
      /\ \A s : Behind(s) => Behind(s)'
      /\ Behind(r) => Queued(Abort(r))'
  <2>1. Once(Add(r))
    BY DEF Followed, RequestsFirst
  <2> QED BY <2>1, TakenQueue
<1>3. /\ r \in sent /\ r \notin Scheduled \cup finishedIds
      /\ final[r] = 0 /\ left[r] = MaxTokens[r] /\ MaxTokens[r] \in Nat \ {0}
  BY <1>2 DEF Followed, RequestsFirst, Unseen
<1>4. /\ final' \in [Requests -> Nat]
      /\ \A s \in Requests : s # r => final'[s] = final[s]
      /\ final'[r] = IF shutdown # "RUNNING" THEN 1 ELSE 0
  <2>1. final \in [Requests -> Nat]
    BY DEF Types
  <2>2. CASE shutdown # "RUNNING"
    <3>1. final' = [s \in Requests |-> final[s] + IF s \in {r} THEN 1 ELSE 0]
      BY <1>1, <2>2
    <3>2. \A s \in Requests : final[s] \in Nat
      BY <2>1
    <3> HIDE DEF IInv, Taken
    <3> QED BY <1>3, <2>2, <3>1, <3>2
  <2>3. CASE shutdown = "RUNNING"
    BY <1>1, <1>3, <2>1, <2>3
  <2> QED BY <2>2, <2>3
<1>5. Scheduled' = IF shutdown # "RUNNING" THEN Scheduled ELSE Scheduled \cup {r}
  BY <1>1 DEF Scheduled
<1>6. Types'
  BY <1>1, <1>2, <1>4 DEF Types
<1>7. TypeOK'
  BY <1>1, <1>3 DEF TypeOK, Scheduled
<1>8. RequestsFirst'
  <2> SUFFICES ASSUME NEW s \in Requests
               PROVE  /\ Once(Add(s))'
                      /\ Queued(Add(s))' => s \in sent
                      /\ Unseen(s)' => /\ s \notin Scheduled' \cup finishedIds'
                                       /\ final'[s] = 0 /\ left'[s] = MaxTokens[s]
    BY DEF RequestsFirst
  <2>1. Once(Add(s))' /\ (Queued(Add(s))' => s \in sent)
    BY <1>2 DEF Followed, RequestsFirst
  <2>2. Unseen(s)' => Unseen(s) /\ s # r
    BY <1>2, <1>3 DEF Unseen
  <2> QED BY <1>1, <1>4, <1>5, <2>1, <2>2 DEF Followed, RequestsFirst
<1>9. AbortsBehind'
  BY <1>2 DEF Followed, AbortsBehind
<1>10. NoAbortLost'
  <2> SUFFICES ASSUME NEW s \in aborted
               PROVE  receiving = s \/ Queued(Abort(s))' \/ s \notin Scheduled'
    BY DEF NoAbortLost, Queued, Scheduled
  <2>1. receiving = s \/ Queued(Abort(s)) \/ s \notin Scheduled
    BY DEF Followed, NoAbortLost, Queued, Scheduled
  <2>2. Queued(Abort(s)) => Queued(Abort(s))'
    BY <1>2, MessagesDiffer
  <2>3. s = r => receiving = s \/ Queued(Abort(s))'
    BY <1>2 DEF Followed, AbortsBehind
  <2> QED BY <1>5, <2>1, <2>2, <2>3
<1>11. Finals'
  <2> SUFFICES ASSUME NEW s \in Requests
               PROVE  /\ final'[s] <= 1
                      /\ s \in Scheduled' => final'[s] = 0 /\ left'[s] > 0
                      /\ s \in sent => \/ Queued(Add(s))' \/ s \in Scheduled'
                                       \/ final'[s] = 1 \/ s \in aborted
    BY DEF Finals
  <2>1. CASE s = r
    BY <1>1, <1>3, <1>4, <1>5, <2>1
  <2>2. CASE s # r
    <3>1. Queued(Add(s)) => Queued(Add(s))'
      BY <1>2, <2>2, MessagesDiffer
    <3> QED BY <1>1, <1>4, <1>5, <2>2, <3>1 DEF Followed, Finals
  <2> QED BY <2>1, <2>2
<1>12. CallsOnce'
  BY <1>1, <1>2, CallsStay
<1>13. LoopState' /\ Paused'
  BY <1>1, <1>5 DEF LoopState, Paused
<1> QED BY <1>6, <1>7, <1>8, <1>9, <1>10, <1>11, <1>12, <1>13 DEF Followed

\* The ABORT handler keeps the invariant: the request it takes from the
\* scheduler was aborted by its client.
LEMMA HandleAbortKeeps ==
    ASSUME IInv, Taken, NEW r \in Requests, Head(inputQueue) = Abort(r), HandleAbort(r)
    PROVE  IInv'
<1> USE EngineAssumption DEF IInv, Taken
<1>1. /\ UNCHANGED <<pauseState, left, preemptions, asleep, callbacks, reply, final, draining>>
      /\ waiting' = waiting \ {r} /\ running' = running \ {r}
      /\ finishedIds' = finishedIds \cup ({r} \cap Scheduled)
  BY DEF HandleAbort, FinishRequests, answerVars, Scheduled
<1>2. /\ inputQueue' \in Seq(Messages) /\ QueueKept /\ Queued(Abort(r))
      /\ \A x : Queued(x)' => Queued(x)
      /\ \A x : Once(x) => Once(x)'
      /\ \A x : Queued(x) => Queued(x)' \/ x = Abort(r)
  <2>1. \A s : Abort(r) # Add(s)
    BY MessagesDiffer
  <2> QED BY <2>1, TakenQueue
<1>3. r \in aborted
  BY <1>2 DEF Followed, AbortsBehind
<1>4. Scheduled' = Scheduled \ {r}
  BY <1>1 DEF Scheduled
<1>5. Types'
  BY <1>1, <1>2 DEF Types
<1>6. TypeOK'
  BY <1>1 DEF TypeOK, Scheduled
<1>7. Followed'
  <2>1. ASSUME NEW s \in Requests
        PROVE  /\ Queued(Abort(s)) => Queued(Abort(s))' \/ s \notin Scheduled'
               /\ s \in Scheduled' => final'[s] = final[s] /\ left'[s] > 0
               /\ s \in Scheduled \ Scheduled' =>
                      final'[s] = 1 \/ (s \in aborted /\ final'[s] <= 1)
               /\ s \notin Scheduled => final'[s] = final[s] /\ left'[s] = left[s]
    BY <1>1, <1>2, <1>3, <1>4, MessagesDiffer DEF Followed, Finals
  <2>2. Scheduled' \subseteq Scheduled /\ finishedIds' \subseteq finishedIds \cup Scheduled
    BY <1>1, <1>4
  <2> QED BY <1>2, <1>5, <2>1, <2>2, RequestsLeave
<1>8. CallsOnce'
  BY <1>1, <1>2, CallsStay
<1>9. LoopState' /\ Paused'
  BY <1>1, <1>4 DEF LoopState, Paused
<1> QED BY <1>5, <1>6, <1>7, <1>8, <1>9

\* The WAKEUP message keeps the invariant.
LEMMA WakeupKeeps ==
    ASSUME IInv, Taken, Head(inputQueue) = Wakeup,
           UNCHANGED <<schedulerVars, asleep, callbacks, answerVars>>
    PROVE  IInv'
<1> USE EngineAssumption DEF IInv, Taken
<1>1. UNCHANGED <<waiting, running, finishedIds, pauseState, left, preemptions, asleep,
                  callbacks, reply, final, draining>>
  BY DEF schedulerVars, answerVars
<1>2. /\ inputQueue' \in Seq(Messages) /\ QueueKept
      /\ \A x : Queued(x)' => Queued(x)
      /\ \A x : Once(x) => Once(x)'
      /\ \A x : Queued(x) => Queued(x)' \/ x = Wakeup
  <2>1. \A s : Wakeup # Add(s)
    BY MessagesDiffer
  <2> QED BY <2>1, TakenQueue
<1>3. Types' /\ TypeOK' /\ LoopState' /\ Paused'
  BY <1>1, <1>2 DEF Types, TypeOK, LoopState, Paused, Scheduled
<1>4. Followed'
  BY <1>1, <1>2, <1>3, MessagesDiffer, RequestsStay DEF Scheduled
<1>5. CallsOnce'
  BY <1>1, <1>2, CallsStay
<1> QED BY <1>3, <1>4, <1>5

-----------------------------------------------------------------------------
(* The calls *)

\* A call that is answered when it is handled.
LEMMA CallAnswered ==
    ASSUME IInv, Taken, NEW c \in Calls, Head(inputQueue) = Call(c),
           AnswerTo(c), callbacks' = callbacks
    PROVE  CallsOnce' /\ reply' \in [Calls -> Nat]
<1> USE DEF IInv, Taken
<1>1. /\ Queued(Call(c)) /\ ~Queued(Call(c))'
      /\ \A x : Queued(x)' => Queued(x)
      /\ \A x : Once(x) => Once(x)'
  <2>1. Once(Call(c))
    BY DEF CallsOnce
  <2> QED BY <2>1, TakenQueue
<1>2. /\ reply' \in [Calls -> Nat] /\ reply[c] = 0 /\ called[c] # None
      /\ \A d \in Calls : reply'[d] = IF d = c THEN 1 ELSE reply[d]
  <2>1. reply \in [Calls -> Nat] /\ reply' = [reply EXCEPT ![c] = @ + 1]
    BY DEF Types, AnswerTo
  <2> QED BY <1>1, <2>1 DEF CallsOnce
<1>3. ASSUME NEW d \in Calls
      PROVE  /\ Once(Call(d))' /\ reply'[d] <= 1
             /\ called[d] = None => ~Queued(Call(d))' /\ reply'[d] = 0
             /\ Queued(Call(d))' => reply'[d] = 0
  BY <1>1, <1>2 DEF CallsOnce
<1>4. ASSUME NEW i \in DOMAIN callbacks
      PROVE  /\ called[callbacks[i]] \in Pauses /\ reply'[callbacks[i]] = 0
             /\ ~Queued(Call(callbacks[i]))'
  <2>1. PICK d \in Calls : d = callbacks[i] /\ called[d] \in Pauses
                         /\ reply[d] = 0 /\ ~Queued(Call(d))
    BY DEF Types, CallsOnce
  <2>2. d # c
    BY <1>1, <2>1
  <2>3. reply'[d] = 0 /\ ~Queued(Call(d))' /\ callbacks'[i] = d
    BY <1>1, <1>2, <2>1, <2>2
  <2> QED BY <2>1, <2>3
<1> QED BY <1>2, <1>3, <1>4 DEF CallsOnce

\* A pause that a callback completes.
LEMMA CallDeferred ==
    ASSUME IInv, Taken, NEW c \in Calls, Head(inputQueue) = Call(c),
           called[c] \in Pauses, reply' = reply, callbacks' = Append(callbacks, c)
    PROVE  CallsOnce' /\ callbacks' \in Seq(Calls) /\ callbacks' # <<>>
<1> USE DEF IInv, Taken
<1>1. /\ Queued(Call(c)) /\ ~Queued(Call(c))'
      /\ \A x : Queued(x)' => Queued(x)
      /\ \A x : Once(x) => Once(x)'
  <2>1. Once(Call(c))
    BY DEF CallsOnce
  <2> QED BY <2>1, TakenQueue
<1> DEFINE n == Len(callbacks)
<1>2. /\ n \in Nat /\ DOMAIN callbacks = 1 .. n /\ DOMAIN callbacks' = 1 .. n + 1
      /\ callbacks' \in Seq(Calls) /\ callbacks' # <<>>
      /\ callbacks'[n + 1] = c /\ \A i \in 1 .. n : callbacks'[i] = callbacks[i]
      /\ \A i \in 1 .. n + 1 : i \in 1 .. n \/ i = n + 1
  <2>1. callbacks \in Seq(Calls)
    BY DEF Types
  <2> QED BY <2>1
<1> HIDE DEF n
<1>3. ASSUME NEW d \in Calls
      PROVE  /\ Once(Call(d))' /\ reply'[d] <= 1
             /\ called[d] = None => ~Queued(Call(d))' /\ reply'[d] = 0
             /\ Queued(Call(d))' => reply'[d] = 0
  BY <1>1 DEF CallsOnce
<1>4. ASSUME NEW i \in 1 .. n
      PROVE  /\ callbacks[i] # c /\ called[callbacks[i]] \in Pauses
             /\ reply[callbacks[i]] = 0 /\ ~Queued(Call(callbacks[i]))'
  <2>1. PICK d \in Calls : d = callbacks[i] /\ called[d] \in Pauses
                         /\ reply[d] = 0 /\ ~Queued(Call(d))
    <3>1. i \in DOMAIN callbacks
      BY <1>2
    <3> QED BY <3>1 DEF Types, CallsOnce
  <2>2. d # c /\ ~Queued(Call(d))' /\ callbacks'[i] = d
    BY <1>1, <1>2, <2>1
  <2> QED BY <2>1, <2>2
<1>5. ASSUME NEW i \in 1 .. n + 1
      PROVE  /\ called[callbacks'[i]] \in Pauses
             /\ reply[callbacks'[i]] = 0 /\ ~Queued(Call(callbacks[i]))'
  <2>1. CASE i \in 1 .. n
    BY <1>2, <1>4, <2>1
  <2>2. CASE i = n + 1
    BY <1>1, <1>2, <2>2 DEF CallsOnce
  <2> QED BY <1>2, <2>1, <2>2
<1>6. \A i, j \in 1 .. n + 1 : callbacks'[i] = callbacks'[j] => i = j
  <2>1. \A i, j \in 1 .. n : callbacks[i] = callbacks[j] => i = j
    BY <1>2 DEF CallsOnce
  <2> QED BY <1>2, <1>4, <2>1
<1> QED BY <1>2, <1>3, <1>5, <1>6 DEF CallsOnce

\* What a call does to the requests and the queue, whatever it does to the pause.
LEMMA CallKeeps ==
    ASSUME IInv, Taken, NEW c \in Calls, Head(inputQueue) = Call(c),
           UNCHANGED left, Scheduled' \subseteq Scheduled,
           waiting' \cap running' = {}, running' \subseteq running,
           finishedIds' = finishedIds \cup (Scheduled \ Scheduled'),
           final' = [r \in Requests |-> final[r] + IF r \in Scheduled \ Scheduled' THEN 1 ELSE 0],
           pauseState' \in {"UNPAUSED", "PAUSED_NEW", "PAUSED_ALL"}, asleep' \in BOOLEAN,
           CallsOnce', callbacks' \in Seq(Calls), reply' \in [Calls -> Nat]
    PROVE  Types' /\ TypeOK' /\ Followed' /\ LoopState'
<1> USE EngineAssumption DEF IInv, Taken
<1>1. /\ inputQueue' \in Seq(Messages) /\ QueueKept
      /\ \A x : Queued(x) => Queued(x)' \/ x = Call(c)
  <2>1. \A s : Call(c) # Add(s)
    BY MessagesDiffer
  <2> QED BY <2>1, TakenQueue
<1>2. /\ final' \in [Requests -> Nat]
      /\ \A r \in Requests : final'[r] = final[r] + IF r \in Scheduled \ Scheduled' THEN 1 ELSE 0
  <2>1. \A r \in Requests : final[r] \in Nat
    BY DEF Types
  <2> HIDE DEF IInv, Taken
  <2> QED BY <2>1
<1>3. Types'
  BY <1>1, <1>2 DEF Types
<1>4. TypeOK'
  <2>1. waiting' \subseteq sent /\ running' \subseteq sent
    BY DEF TypeOK, Scheduled
  <2>2. finishedIds' \subseteq Requests \ (waiting' \cup running')
    BY DEF TypeOK, Types, Scheduled
  <2> QED BY <2>1, <2>2 DEF TypeOK
<1>5. Followed'
  <2>1. \A r \in Requests : r \in Scheduled => final[r] = 0 /\ left[r] > 0
    BY DEF Followed, Finals
  <2>2. \A r \in Requests :
            /\ Queued(Abort(r)) => Queued(Abort(r))'
            /\ r \in Scheduled' => final'[r] = final[r] /\ left'[r] > 0
            /\ r \in Scheduled \ Scheduled' => final'[r] = 1
            /\ r \notin Scheduled => final'[r] = final[r] /\ left'[r] = left[r]
    <3> SUFFICES ASSUME NEW r \in Requests
                 PROVE  /\ Queued(Abort(r)) => Queued(Abort(r))'
                        /\ r \in Scheduled' => final'[r] = final[r] /\ left'[r] > 0
                        /\ r \in Scheduled \ Scheduled' => final'[r] = 1
                        /\ r \notin Scheduled => final'[r] = final[r] /\ left'[r] = left[r]
      OBVIOUS
    <3>1. Queued(Abort(r)) => Queued(Abort(r))'
      BY <1>1, MessagesDiffer
    <3>2. final[r] \in Nat
      BY DEF Types
    <3> HIDE DEF IInv, Taken
    <3> QED BY <1>2, <2>1, <3>1, <3>2
  <2>3. finishedIds' \subseteq finishedIds \cup Scheduled
    OBVIOUS
  <2> QED BY <1>1, <1>3, <2>2, <2>3, RequestsLeave
<1>6. LoopState'
  BY DEF LoopState
<1> QED BY <1>3, <1>4, <1>5, <1>6

\* A call during which no request leaves the scheduler.
LEMMA NoneLeaves ==
    ASSUME Types, Scheduled' = Scheduled, UNCHANGED <<finishedIds, final>>
    PROVE  /\ finishedIds' = finishedIds \cup (Scheduled \ Scheduled')
           /\ final' = [r \in Requests |-> final[r] + IF r \in Scheduled \ Scheduled' THEN 1 ELSE 0]
<1>1. final \in [Requests -> Nat]
  BY DEF Types
<1>2. \A r \in Requests : final[r] + (IF r \in Scheduled \ Scheduled' THEN 1 ELSE 0) = final[r]
  BY <1>1
<1> QED BY <1>1, <1>2

\* A call rejected during a shutdown keeps the invariant.
LEMMA RejectCallKeeps ==
    ASSUME IInv, Taken, NEW c \in Calls, Head(inputQueue) = Call(c), RejectCall(c)
    PROVE  IInv'
<1> USE DEF IInv
<1>1. /\ AnswerTo(c)
      /\ UNCHANGED <<waiting, running, finishedIds, pauseState, left, preemptions,
                     asleep, callbacks, final, draining>>
  BY DEF RejectCall, schedulerVars
<1>2. CallsOnce' /\ reply' \in [Calls -> Nat]
  BY <1>1, CallAnswered
<1>3. Scheduled' = Scheduled /\ waiting' \cap running' = {} /\ callbacks' \in Seq(Calls)
  BY <1>1 DEF Scheduled, TypeOK, Types
<1>4. /\ pauseState' \in {"UNPAUSED", "PAUSED_NEW", "PAUSED_ALL"} /\ asleep' \in BOOLEAN
      /\ Scheduled' \subseteq Scheduled /\ running' \subseteq running
  BY <1>1, <1>3 DEF TypeOK
<1>5. Types' /\ TypeOK' /\ Followed' /\ LoopState'
  BY <1>1, <1>2, <1>3, <1>4, NoneLeaves, CallKeeps
<1>6. Paused'
  BY <1>1 DEF Paused, Taken
<1> QED BY <1>2, <1>5, <1>6

\* resume_scheduler and wake_up keep the invariant.
LEMMA ResumeKeeps ==
    ASSUME IInv, Taken, NEW c \in Calls, Head(inputQueue) = Call(c), Resume(c)
    PROVE  IInv'
<1> USE DEF IInv
<1>1. /\ AnswerTo(c)
      /\ UNCHANGED <<waiting, running, finishedIds, left, preemptions, callbacks,
                     final, draining>>
      /\ asleep' = (asleep /\ called[c] # "wake_up")
      /\ pauseState' \in {"UNPAUSED", pauseState}
  BY DEF Resume
<1>2. CallsOnce' /\ reply' \in [Calls -> Nat]
  BY <1>1, CallAnswered
<1>3. Scheduled' = Scheduled /\ waiting' \cap running' = {} /\ callbacks' \in Seq(Calls)
  BY <1>1 DEF Scheduled, TypeOK, Types
<1>4. /\ pauseState' \in {"UNPAUSED", "PAUSED_NEW", "PAUSED_ALL"} /\ asleep' \in BOOLEAN
      /\ Scheduled' \subseteq Scheduled /\ running' \subseteq running
  BY <1>1, <1>3 DEF TypeOK
<1>5. Types' /\ TypeOK' /\ Followed' /\ LoopState'
  BY <1>1, <1>2, <1>3, <1>4, NoneLeaves, CallKeeps
<1>6. Paused'
  BY <1>1 DEF Paused, Taken
<1> QED BY <1>2, <1>5, <1>6

\* pause_scheduler and sleep keep the invariant, whether the pause is complete
\* at once or a callback completes it.
LEMMA PauseSchedulerKeeps ==
    ASSUME IInv, Taken, NEW c \in Calls, Head(inputQueue) = Call(c), PauseScheduler(c)
    PROVE  IInv'
<1> USE DEF IInv
<1> DEFINE keep == called[c] \in {"keep", "keep_kv"}
           gone == IF called[c] \in {"abort", "sleep"} THEN waiting \cup running ELSE {}
<1>1. /\ called[c] \in Pauses
      /\ pauseState' = IF keep THEN "PAUSED_ALL" ELSE "PAUSED_NEW"
      /\ finishedIds' = finishedIds \cup gone
      /\ final' = [r \in Requests |-> final[r] + IF r \in gone THEN 1 ELSE 0]
      /\ UNCHANGED <<left, preemptions>>
  BY DEF PauseScheduler, SendAbortOutputs
<1>2. \/ /\ PauseComplete(c, gone)
         /\ waiting' = waiting \cup Reset(c) /\ running' = running \ Reset(c)
         /\ asleep' = (asleep \/ called[c] = "sleep")
         /\ AnswerTo(c) /\ callbacks' = callbacks
      \/ /\ callbacks' = Append(callbacks, c)
         /\ waiting' = waiting \ gone /\ running' = running \ gone
         /\ UNCHANGED <<asleep, reply>>
  BY DEF PauseScheduler
<1>3. gone \in {{}, Scheduled}
  BY DEF Scheduled
<1> HIDE DEF keep, gone
<1>4. pauseState' \in {"UNPAUSED", "PAUSED_NEW", "PAUSED_ALL"}
  BY <1>1
<1>5. CASE /\ PauseComplete(c, gone)
           /\ waiting' = waiting \cup Reset(c) /\ running' = running \ Reset(c)
           /\ asleep' = (asleep \/ called[c] = "sleep")
           /\ AnswerTo(c) /\ callbacks' = callbacks
  <2>1. CallsOnce' /\ reply' \in [Calls -> Nat]
    BY <1>5, CallAnswered
  <2>2. Reset(c) \subseteq running
    BY DEF Reset
  <2>3. /\ Scheduled' = Scheduled /\ waiting' \cap running' = {} /\ running' \subseteq running
        /\ Scheduled' \subseteq Scheduled
    BY <1>5, <2>2 DEF Scheduled, TypeOK
  <2>4. gone = {}
    BY <1>5 DEF PauseComplete
  <2>5. Scheduled \ Scheduled' = gone
    BY <2>3, <2>4
  <2>6. callbacks' \in Seq(Calls) /\ asleep' \in BOOLEAN
    BY <1>5 DEF Types, TypeOK
  <2>7. Types' /\ TypeOK' /\ Followed' /\ LoopState'
    BY <1>1, <1>4, <2>1, <2>3, <2>5, <2>6, CallKeeps
  <2>8. Paused'
    <3>1. batchQueue' = <<>> /\ (pauseState' = "PAUSED_NEW" => running' = {})
      BY <1>1, <1>5 DEF PauseComplete, Taken, keep
    <3> QED BY <3>1 DEF Paused
  <2> QED BY <2>1, <2>7, <2>8
<1>6. CASE /\ callbacks' = Append(callbacks, c)
           /\ waiting' = waiting \ gone /\ running' = running \ gone
           /\ UNCHANGED <<asleep, reply>>
  <2>1. CallsOnce' /\ callbacks' \in Seq(Calls) /\ callbacks' # <<>>
    BY <1>1, <1>6, CallDeferred
  <2>2. /\ Scheduled' = Scheduled \ gone /\ waiting' \cap running' = {}
        /\ running' \subseteq running /\ Scheduled' \subseteq Scheduled
    BY <1>6 DEF Scheduled, TypeOK
  <2>3. Scheduled \ Scheduled' = gone
    BY <1>3, <2>2
  <2>4. reply' \in [Calls -> Nat] /\ asleep' \in BOOLEAN
    BY <1>6 DEF Types, TypeOK
  <2>5. Types' /\ TypeOK' /\ Followed' /\ LoopState'
    BY <1>1, <1>4, <2>1, <2>2, <2>3, <2>4, CallKeeps
  <2>6. Paused'
    BY <2>1 DEF Paused
  <2> QED BY <2>1, <2>5, <2>6
<1> QED BY <1>2, <1>5, <1>6

\* Every message the loop takes keeps the invariant.
LEMMA HandleNextKeeps ==
    ASSUME IInv, HandleNext
    PROVE  IInv'
<1>1. Taken /\ HandleClientRequest(Head(inputQueue))
  BY DEF HandleNext, Taken, stopVars, clientVars
<1>2. Head(inputQueue) \in Messages
  <2>1. inputQueue \in Seq(Messages) /\ inputQueue # <<>>
    BY <1>1 DEF IInv, Types, Taken
  <2> HIDE DEF Messages
  <2> QED BY <2>1
<1>3. ASSUME NEW r \in Requests, Head(inputQueue) = Add(r)
      PROVE  IInv'
  <2>1. HandleAdd(r)
    BY <1>1, <1>3 DEF HandleClientRequest, Add
  <2> QED BY <1>1, <1>3, <2>1, HandleAddKeeps
<1>4. ASSUME NEW r \in Requests, Head(inputQueue) = Abort(r)
      PROVE  IInv'
  <2>1. HandleAbort(r)
    BY <1>1, <1>4 DEF HandleClientRequest, Abort
  <2> QED BY <1>1, <1>4, <2>1, HandleAbortKeeps
<1>5. ASSUME NEW c \in Calls, Head(inputQueue) = Call(c)
      PROVE  IInv'
  <2>1. RejectCall(c) \/ PauseScheduler(c) \/ Resume(c)
    BY <1>1, <1>5 DEF HandleClientRequest, Call
  <2> QED BY <1>1, <1>5, <2>1, RejectCallKeeps, PauseSchedulerKeeps, ResumeKeeps
<1>6. CASE Head(inputQueue) = Wakeup
  <2>1. UNCHANGED <<schedulerVars, asleep, callbacks, answerVars>>
    BY <1>1, <1>6 DEF HandleClientRequest, Wakeup
  <2> QED BY <1>1, <1>6, <2>1, WakeupKeeps
<1> QED BY <1>2, <1>3, <1>4, <1>5, <1>6 DEF Messages

-----------------------------------------------------------------------------
(* The theorems *)

\* The invariant holds when the engine core starts.
LEMMA InitHolds == Init => IInv
<1> SUFFICES ASSUME Init PROVE IInv
  OBVIOUS
<1> USE EngineAssumption DEF Init
<1>1. \A m : ~Queued(m)
  BY DEF Queued
<1>2. Types /\ TypeOK
  <2>1. /\ left \in [Requests -> Nat] /\ \A r \in Requests : left[r] \in 0 .. MaxTokens[r]
        /\ reply \in [Calls -> Nat] /\ final \in [Requests -> Nat]
        /\ called \in [Calls -> Methods \cup {None}]
    OBVIOUS
  <2>2. inputQueue \in Seq(Messages) /\ callbacks \in Seq(Calls) /\ batchQueue \in Seq(SUBSET Requests)
    <3> HIDE DEF Messages
    <3> QED OBVIOUS
  <2>3. Types
    BY <2>1, <2>2 DEF Types
  <2>4. Len(batchQueue) <= BatchQueueSize /\ DOMAIN batchQueue = {} /\ pc # "update"
    OBVIOUS
  <2>5. /\ waiting \subseteq sent /\ running \subseteq sent /\ waiting \cap running = {}
        /\ finishedIds \subseteq Requests \ (waiting \cup running)
        /\ abortsQueue \subseteq aborted /\ aborted \subseteq sent
        /\ pauseState = "UNPAUSED" /\ shutdown = "RUNNING" /\ asleep = FALSE /\ waking = FALSE
    OBVIOUS
  <2> HIDE DEF Init
  <2> QED BY <2>1, <2>3, <2>4, <2>5 DEF TypeOK
<1>3. Followed
  <2>1. \A r : Once(Add(r)) /\ r \notin sent /\ r \notin Scheduled \cup finishedIds
    BY DEF Once, Scheduled
  <2> QED BY <1>1, <2>1 DEF Followed, RequestsFirst, Unseen, AbortsBehind, NoAbortLost, Finals, Types
<1>4. CallsOnce
  BY <1>1 DEF CallsOnce, Once
<1>5. LoopState /\ Paused
  BY DEF LoopState, Paused
<1> QED BY <1>2, <1>3, <1>4, <1>5 DEF IInv

\* The invariant is inductive.
LEMMA NextKeeps == IInv /\ [Next]_vars => IInv'
<1> SUFFICES ASSUME IInv, [Next]_vars PROVE IInv'
  OBVIOUS
<1>1. CASE Client
  BY <1>1, ClientAddKeeps, ClientAbortKeeps, ClientCallKeeps, SignalKeeps DEF Client
<1>2. CASE Threads
  BY <1>2, PushAbortKeeps, PushWakeupKeeps DEF Threads
<1>3. CASE Loop
  BY <1>3, HandleShutdownKeeps, NotifyIdleKeeps, LoopMoves, HandleNextKeeps,
     BeginStepKeeps, EndStepKeeps DEF Loop
<1>4. CASE UNCHANGED vars
  <2> USE DEF IInv
  <2>1. UNCHANGED <<waiting, running, finishedIds, pauseState, left, preemptions,
                    batchQueue, asleep, inputQueue, abortsQueue, receiving, callbacks,
                    shutdown, waking, pc, called, sent, aborted, scenario, reply,
                    final, draining>>
    BY <1>4 DEF vars, schedulerVars, queueVars, stopVars, clientVars, answerVars
  <2>2. Types' /\ TypeOK' /\ LoopState' /\ Paused'
    BY <2>1 DEF Types, TypeOK, LoopState, Paused, Scheduled
  <2>3. Followed'
    BY <2>1, <2>2, QueueSame, RequestsStay DEF Scheduled
  <2>4. CallsOnce'
    BY <2>1, SameQueue, CallsStay
  <2> QED BY <2>2, <2>3, <2>4
<1> QED BY <1>1, <1>2, <1>3, <1>4 DEF Next

\* However the aborts queue is read or cleared between the two puts of the
\* input thread, a request that its client has aborted runs on only while its
\* ABORT is still on the way to the loop.
THEOREM AbortsHold == Spec => []NoAbortLost
<1>1. IInv => NoAbortLost
  BY DEF IInv, Followed
<1> QED BY <1>1, InitHolds, NextKeeps, PTL DEF Spec

\* The state has its types, no request gets two final outputs and no call two
\* answers, and a process that exits after a shutdown with no timeout owes no
\* request it has seen an output.
THEOREM AnswersOnce == Spec => []AnsweredOnce
<1>1. IInv => AnsweredOnce
  <2> SUFFICES ASSUME IInv PROVE TypeOK /\ OneFinalEach /\ ExitAnswersAll
    BY DEF AnsweredOnce
  <2>1. OneFinalEach
    BY DEF IInv, Followed, Finals, CallsOnce, OneFinalEach
  <2>2. ExitAnswersAll
    <3> SUFFICES ASSUME pc = "exited", scenario.abortOnExit, NEW r \in sent \ aborted
                 PROVE  final[r] = 1 \/ Queued(Add(r))
      BY DEF ExitAnswersAll, Queued
    <3>1. Scheduled = {} /\ r \in Requests
      BY DEF IInv, LoopState, Types
    <3> QED BY <3>1 DEF IInv, Followed, Finals
  <2> QED BY <2>1, <2>2 DEF IInv
<1> QED BY <1>1, InitHolds, NextKeeps, PTL DEF Spec

\* While a pause has been answered and not lifted, no batch in flight runs a
\* request.
THEOREM PausesHold == Spec => []PauseHolds
<1>1. IInv => PauseHolds
  BY DEF IInv, Paused, PauseHolds
<1> QED BY <1>1, InitHolds, NextKeeps, PTL DEF Spec

-----------------------------------------------------------------------------
(* Patient clients *)

\* A step that makes no call, answers none and pauses nothing keeps OneCall.
LEMMA OneCallStays ==
    ASSUME OneCall, UNCHANGED <<called, reply, callbacks, asleep, pauseState>>,
           \A c \in Calls : Queued(Call(c))' => Queued(Call(c))
    PROVE  OneCall'
BY DEF OneCall, Answered, ResumedOnlyWhenResident

\* A call in the queue or in a callback is under way.
LEMMA UnderWay ==
    ASSUME IInv
    PROVE  /\ reply \in [Calls -> Nat] /\ callbacks \in Seq(Calls)
           /\ \A c \in Calls : Queued(Call(c)) => called[c] # None /\ ~Answered(c)
           /\ \A i \in DOMAIN callbacks :
                  /\ callbacks[i] \in Calls /\ called[callbacks[i]] # None
                  /\ ~Answered(callbacks[i]) /\ ~Queued(Call(callbacks[i]))
<1> USE EngineAssumption DEF IInv
<1>1. reply \in [Calls -> Nat] /\ callbacks \in Seq(Calls)
  BY DEF Types
<1>2. \A c \in Calls : Queued(Call(c)) => called[c] # None /\ ~Answered(c)
  BY DEF CallsOnce, Answered
<1>3. ASSUME NEW i \in DOMAIN callbacks
      PROVE  /\ callbacks[i] \in Calls /\ called[callbacks[i]] # None
             /\ ~Answered(callbacks[i]) /\ ~Queued(Call(callbacks[i]))
  BY <1>1 DEF CallsOnce, Answered, Pauses, Methods
<1> QED BY <1>1, <1>2, <1>3

\* A patient client's call is the only one under way.
LEMMA OneCallMade ==
    ASSUME IInv, Patient, OneCall,
           NEW c \in scenario.calls, NEW k \in scenario.kinds, ClientCall(c, k)
    PROVE  OneCall'
<1> USE EngineAssumption DEF IInv
<1>1. /\ called[c] = None /\ called' = [called EXCEPT ![c] = k]
      /\ inputQueue' = Append(inputQueue, Call(c))
      /\ \A d \in Calls : called[d] # None => Answered(d)
      /\ asleep => k # "resume_scheduler"
      /\ UNCHANGED <<asleep, pauseState, callbacks, reply>>
  BY DEF ClientCall, schedulerVars, answerVars
<1>2. c \in Calls /\ k # None
  BY DEF Types
<1>3. \A d \in Calls : called'[d] = IF d = c THEN k ELSE called[d]
  BY <1>1, <1>2 DEF TypeOK
<1>4. \A d \in Calls : Queued(Call(d))' <=> Queued(Call(d)) \/ d = c
  <2>1. Call(c) \in Messages /\ inputQueue \in Seq(Messages)
    BY <1>2 DEF Messages, Types
  <2> QED BY <1>1, <2>1, PutQueue, MessagesDiffer
<1>5. \A d \in Calls : Answered(d)' <=> Answered(d)
  BY <1>1 DEF Answered
<1>6. \A d, e \in Calls : called'[d] # None /\ called'[e] # None /\ ~Answered(d)' /\ ~Answered(e)' => d = e
  BY <1>1, <1>3, <1>5
<1>7. \A d \in Calls : asleep' /\ Queued(Call(d))' => called'[d] # "resume_scheduler"
  BY <1>1, <1>2, <1>3, <1>4, UnderWay DEF OneCall
<1> QED BY <1>1, <1>6, <1>7 DEF OneCall, ResumedOnlyWhenResident

\* A step that answers call c, or puts it in a callback.
LEMMA OneCallHandled ==
    ASSUME IInv, OneCall, NEW c \in Calls, called[c] # None, ~Answered(c),
           UNCHANGED called, ~Queued(Call(c))',
           \A d \in Calls : Queued(Call(d))' => Queued(Call(d)),
           reply' = reply \/ AnswerTo(c),
           callbacks' # <<>> => pauseState' # "UNPAUSED",
           asleep' => pauseState' # "UNPAUSED"
    PROVE  OneCall'
<1>1. \A d \in Calls : ~Answered(d)' => ~Answered(d)
  BY UnderWay DEF Answered, AnswerTo
<1>2. \A d \in Calls : ~Queued(Call(d))'
  BY UnderWay DEF OneCall
<1> QED BY <1>1, <1>2 DEF OneCall, ResumedOnlyWhenResident

\* The callback that answers a pause leaves the engine paused.
LEMMA OneCallNotified ==
    ASSUME IInv, OneCall, NotifyIdle
    PROVE  OneCall'
<1>1. PICK c \in Calls :
        /\ called[c] # None /\ ~Answered(c) /\ ~Queued(Call(c)) /\ AnswerTo(c)
  <2>1. callbacks \in Seq(Calls) /\ callbacks # <<>>
    BY UnderWay DEF NotifyIdle
  <2>2. Len(callbacks) \in DOMAIN callbacks /\ Last(callbacks) = callbacks[Len(callbacks)]
    BY <2>1 DEF Last
  <2>3. AnswerTo(Last(callbacks))
    BY DEF NotifyIdle
  <2> QED BY <2>2, <2>3, UnderWay
<1>2. UNCHANGED <<called, inputQueue, pauseState>> /\ callbacks # <<>>
  BY DEF NotifyIdle, queueVars, clientVars
<1>3. pauseState' # "UNPAUSED"
  BY <1>2 DEF OneCall
<1>4. \A m : Queued(m)' <=> Queued(m)
  BY <1>2, SameQueue
<1> QED BY <1>1, <1>2, <1>3, <1>4, OneCallHandled

\* A call the loop takes keeps patience: no callback can be waiting beside it.
LEMMA OneCallTaken ==
    ASSUME IInv, OneCall, Taken, NEW c \in Calls, Head(inputQueue) = Call(c),
           RejectCall(c) \/ PauseScheduler(c) \/ Resume(c)
    PROVE  OneCall'
<1>1. /\ Queued(Call(c)) /\ ~Queued(Call(c))'
      /\ \A x : Queued(x)' => Queued(x)
  <2>1. Once(Call(c)) /\ Types
    BY DEF IInv, CallsOnce
  <2> QED BY <2>1, TakenQueue
<1>2. called[c] # None /\ ~Answered(c) /\ UNCHANGED called
  BY <1>1, UnderWay DEF Taken
\* The call under way is in the queue, so no callback waits.
<1>3. callbacks = <<>>
  <2> SUFFICES ASSUME callbacks # <<>> PROVE FALSE
    OBVIOUS
  <2>1. 1 \in DOMAIN callbacks
    BY UnderWay
  <2>2. callbacks[1] = c
    BY <1>2, <2>1, UnderWay DEF OneCall
  <2> QED BY <1>1, <2>1, <2>2, UnderWay
<1>4. CASE RejectCall(c)
  <2>1. AnswerTo(c) /\ UNCHANGED <<pauseState, asleep, callbacks>>
    BY <1>4 DEF RejectCall, schedulerVars
  <2> QED BY <1>1, <1>2, <1>3, <2>1, OneCallHandled DEF OneCall, ResumedOnlyWhenResident
<1>5. CASE PauseScheduler(c)
  <2>1. pauseState' # "UNPAUSED" /\ (reply' = reply \/ AnswerTo(c))
    BY <1>5 DEF PauseScheduler
  <2> QED BY <1>1, <1>2, <2>1, OneCallHandled
<1>6. CASE Resume(c)
  <2>1. AnswerTo(c) /\ UNCHANGED callbacks
    BY <1>6 DEF Resume
  <2>2. asleep' => pauseState' # "UNPAUSED"
    BY <1>1, <1>6 DEF Resume, ResidentAfter, OneCall, ResumedOnlyWhenResident
  <2> QED BY <1>1, <1>2, <1>3, <2>1, <2>2, OneCallHandled
<1> QED BY <1>4, <1>5, <1>6

\* Every step keeps it that patient clients have one call under way.
LEMMA OneCallNext == Patient /\ IInv /\ OneCall /\ [Next]_vars => OneCall'
<1> SUFFICES ASSUME Patient, IInv, OneCall, [Next]_vars PROVE OneCall'
  OBVIOUS
<1>1. inputQueue \in Seq(Messages)
  BY DEF IInv, Types
<1>2. ASSUME UNCHANGED <<called, reply, callbacks, asleep, pauseState>>,
             \/ UNCHANGED inputQueue
             \/ \E r \in Requests : inputQueue' = Append(inputQueue, Add(r))
             \/ \E r \in Requests : inputQueue' = Append(inputQueue, Abort(r))
             \/ inputQueue' = Append(inputQueue, Wakeup)
      PROVE  OneCall'
  <2>1. \A c \in Calls : Queued(Call(c))' => Queued(Call(c))
    <3>1. /\ \A r \in Requests : Add(r) \in Messages /\ Abort(r) \in Messages
          /\ Wakeup \in Messages
      BY DEF Messages
    <3> HIDE DEF Messages
    <3>2. ASSUME NEW m \in Messages, inputQueue' = Append(inputQueue, m)
          PROVE  \A x : Queued(x)' => Queued(x) \/ x = m
      BY <1>1, <3>2, PutQueue
    <3> QED BY <1>2, <3>1, <3>2, SameQueue, MessagesDiffer
  <2> QED BY <1>2, <2>1, OneCallStays
<1>3. CASE Client
  <2>1. CASE \E r \in Requests : ClientAdd(r) \/ ClientAbort(r)
    BY <1>2, <2>1 DEF ClientAdd, ClientAbort, schedulerVars, answerVars
  <2>2. CASE \E c \in scenario.calls, k \in scenario.kinds : ClientCall(c, k)
    BY <2>2, OneCallMade
  <2>3. CASE Signal
    BY <1>2, <2>3 DEF Signal, schedulerVars, queueVars, clientVars, answerVars
  <2> QED BY <1>3, <2>1, <2>2, <2>3 DEF Client
<1>4. CASE Threads
  <2>1. CASE PushAbort
    <3>1. receiving \in Requests
      BY <2>1 DEF PushAbort, IInv, Types
    <3> QED BY <1>2, <2>1, <3>1 DEF PushAbort, schedulerVars, clientVars, answerVars
  <2>2. CASE PushWakeup
    BY <1>2, <2>2 DEF PushWakeup, schedulerVars, clientVars, answerVars
  <2> QED BY <1>4, <2>1, <2>2 DEF Threads
<1>5. CASE Loop
  <2>1. CASE HandleShutdown \/ BeginStep \/ EndStep
    <3>1. UNCHANGED <<called, reply, callbacks, asleep, pauseState, inputQueue>>
      <4>1. CASE HandleShutdown
        BY <4>1 DEF HandleShutdown, queueVars, clientVars
      <4>2. CASE BeginStep
        BY <4>2 DEF BeginStep, queueVars, clientVars, answerVars
      <4>3. CASE EndStep
        BY <4>3 DEF EndStep, queueVars, clientVars
      <4> QED BY <2>1, <4>1, <4>2, <4>3
    <3> QED BY <1>2, <3>1
  <2>2. CASE TestEmpty \/ ClearAborts \/ LeaveIdleLoop
    BY <1>2, <2>2 DEF TestEmpty, ClearAborts, LeaveIdleLoop, schedulerVars, queueVars,
       clientVars, answerVars
  <2>3. CASE NotifyIdle
    BY <2>3, OneCallNotified
  <2>4. CASE HandleNext
    <3>1. Taken /\ HandleClientRequest(Head(inputQueue))
      BY <2>4 DEF HandleNext, Taken, stopVars, clientVars
    <3>2. Head(inputQueue) \in Messages
      <4>1. inputQueue # <<>>
        BY <3>1 DEF Taken
      <4> HIDE DEF Messages
      <4> QED BY <1>1, <4>1
    <3>3. CASE \E c \in Calls : Head(inputQueue) = Call(c)
      <4>1. PICK c \in Calls : Head(inputQueue) = Call(c)
        BY <3>3
      <4>2. RejectCall(c) \/ PauseScheduler(c) \/ Resume(c)
        BY <3>1, <4>1 DEF HandleClientRequest, Call
      <4> QED BY <3>1, <4>1, <4>2, OneCallTaken
    <3>4. CASE \A c \in Calls : Head(inputQueue) # Call(c)
      <4>1. Head(inputQueue).type # "UTILITY"
        BY <3>2, <3>4 DEF Messages, Add, Abort, Wakeup
      <4>2. UNCHANGED <<called, reply, callbacks, asleep, pauseState>>
        BY <3>1, <4>1 DEF Taken, HandleClientRequest, HandleAdd, HandleAbort,
           schedulerVars, answerVars
      <4>3. \A x : Queued(x)' => Queued(x)
        BY <3>1, TakenQueue DEF IInv
      <4> QED BY <4>2, <4>3, OneCallStays
    <3> QED BY <3>3, <3>4
  <2> QED BY <1>5, <2>1, <2>2, <2>3, <2>4 DEF Loop
<1>6. CASE UNCHANGED vars
  BY <1>2, <1>6 DEF vars, schedulerVars, queueVars, clientVars, answerVars
<1> QED BY <1>3, <1>4, <1>5, <1>6 DEF Next

\* If the clients resume only what has answered its pause, and leave a sleep by
\* wake_up, the scheduler runs only while all of the executor's memory is
\* resident.
THEOREM ResumesResident ==
    ASSUME Patient
    PROVE  Spec => []ResumedOnlyWhenResident
<1>1. Init => OneCall
  BY DEF Init, OneCall, ResumedOnlyWhenResident, Queued
<1>2. IInv /\ OneCall /\ [Next]_vars => OneCall'
  BY OneCallNext
<1>3. OneCall => ResumedOnlyWhenResident
  BY DEF OneCall
<1> QED BY <1>1, <1>2, <1>3, InitHolds, NextKeeps, PTL DEF Spec
===============================================================================
