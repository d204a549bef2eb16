------------------------ MODULE DataParallelWavesProofs ------------------------
(***************************************************************************)
(* Proofs about the data-parallel waves, for any set of ranks and requests *)
(* and any interval between two all-reduces: the ranks that meet in a      *)
(* collective agree about it, a resume finds all ranks stopped, and an     *)
(* answered pause has stopped them.                                        *)
(*                                                                         *)
(* Two invariants carry the proofs.  The waves: no message anywhere names  *)
(* a wave beyond the one all ranks are in.  The stages: between a call of  *)
(* the client and its last answer the ranks pass, together, from normal    *)
(* work through asking, agreeing and halting to the barrier of a resume,   *)
(* and at any moment at most two neighbouring stages exist.  The stages    *)
(* hold of a client that resumes only what it has paused (~StrayResume);   *)
(* with stray resumes TLC finds the counterexamples the README tells of.   *)
(***************************************************************************)
EXTENDS DataParallelWaves, TLAPS

\* The modes of a pause, and the letters that carry a call.
Modes == {"abort", "wait", "keep"}
CallTypes == {"PAUSE", "RESUME"}
\* What may stand in the input queue of a rank or on its way to it.
Letters == {Start(w, x) : w \in Nat, x \in Ranks \cup {None}}
           \cup {Add(q, w) : q \in Requests, w \in Nat}
           \cup {Pause(mode) : mode \in Modes} \cup {Resume}
\* What the front-end and the ranks send the coordinator.
FirstRequests == [rank : Ranks, wave : Nat]
Reports == [type : {"start_wave", "wave_complete"}, wave : Nat, rank : Ranks]

\* The types of all variables, with the queues typed as sequences.
Types ==
    /\ scenario \in Scenarios
    /\ pc \in [Ranks -> {"poll", "drain", "forward", "allreduce", "resume_poll", "resume_drain"}]
    /\ inbox \in [Ranks -> Seq(Letters)] /\ wire \in [Ranks -> Seq(Letters)]
    /\ waiting \in [Ranks -> SUBSET Requests] /\ running \in [Ranks -> SUBSET Requests]
    /\ finishedIds \in [Ranks -> BOOLEAN]
    /\ pauseState \in [Ranks -> {"UNPAUSED", "PAUSED_NEW", "PAUSED_ALL"}]
    /\ left \in [Requests -> 0 .. MaxTokens]
    /\ enginesRunning \in [Ranks -> BOOLEAN]
    /\ currentWave \in [Ranks -> Nat]
    /\ stepCounter \in [Ranks -> 0 .. (SyncEvery - 1)]
    /\ pendingPause \in [Ranks -> BOOLEAN] /\ ignoreStart \in [Ranks -> BOOLEAN]
    /\ pausing \in [Ranks -> BOOLEAN]
    /\ coordinator \in [wave : Nat, running : BOOLEAN]
    /\ frontEnd \in [wave : Nat, running : BOOLEAN]
    /\ toCoordinator \in Seq(Reports)
    /\ firstRequests \in Seq(FirstRequests)
    /\ call \in [phase : {"none", "pause", "resume"}, mode : Modes \cup {None},
                 unsent : SUBSET Ranks, awaited : SUBSET Ranks]
    /\ call.phase = "pause" => call.mode \in Modes

-----------------------------------------------------------------------------
(* The waves *)

\* The wave all ranks are in.
Wave == currentWave[0]

\* No message in the input queue of r names a wave beyond w.
UpTo(r, w) ==
    \A i \in DOMAIN inbox[r] :
        inbox[r][i].type \in {"START_DP_WAVE", "ADD"} => inbox[r][i].wave <= w

\* All ranks are in one wave, the front-end and the coordinator are in it or
\* behind it, and so is every message: a START_DP_WAVE or a late request never
\* takes a rank into a wave the others have not reached, and the end of a wave
\* is reported once it is past.
OneWave ==
    /\ \A r \in Ranks : currentWave[r] = Wave
    /\ coordinator.wave <= Wave /\ frontEnd.wave <= Wave
    /\ \A r \in Ranks : \A i \in DOMAIN wire[r] :
          wire[r][i].type = "START_DP_WAVE" /\ wire[r][i].wave <= Wave
    /\ \A r \in Ranks : UpTo(r, Wave)
    /\ \A i \in DOMAIN toCoordinator :
          IF toCoordinator[i].type = "wave_complete" THEN toCoordinator[i].wave < Wave
                                                     ELSE toCoordinator[i].wave <= Wave

-----------------------------------------------------------------------------
(* The requests *)

\* Where a request is: in the input queue of a rank, once, or in its scheduler.
IsAdd(m, q) == m.type = "ADD" /\ m.id = q
Added(q, r) == \E i \in DOMAIN inbox[r] : IsAdd(inbox[r][i], q)
OnceAdded(q, r) ==
    \A i, j \in DOMAIN inbox[r] : IsAdd(inbox[r][i], q) /\ IsAdd(inbox[r][j], q) => i = j
Held(q, r) == Added(q, r) \/ q \in waiting[r] \cup running[r]

\* A request is at one place of one rank, and has steps left to make as long as
\* it is there.
OnePlace ==
    \A q \in Requests, r \in Ranks :
        /\ Held(q, r) => q \in sent
        /\ Held(q, r) \/ q \notin sent => left[q] > 0
        /\ \A s \in Ranks : Held(q, r) /\ Held(q, s) => r = s
        /\ q \notin waiting[r] \cap running[r]
        /\ Added(q, r) => q \notin waiting[r] \cup running[r]
        /\ OnceAdded(q, r)

-----------------------------------------------------------------------------
(* The stages of a pause *)

\* A call of the client waits in the input queue of r.
Called(r) == \E i \in DOMAIN inbox[r] : inbox[r][i].type \in CallTypes

\* At most one does, and it is of the call in progress.
OnceCalled(r) ==
    \A i, j \in DOMAIN inbox[r] :
        inbox[r][i].type \in CallTypes /\ inbox[r][j].type \in CallTypes => i = j
CallFits(r) ==
    \A i \in DOMAIN inbox[r] :
        /\ inbox[r][i].type = "PAUSE" => call.phase = "pause"
        /\ inbox[r][i].type = "RESUME" => call.phase = "resume"
CallsFit == \A r \in Ranks : OnceCalled(r) /\ CallFits(r)

\* The stages of a rank: it works; it has been told to pause; all have, and it
\* finishes what it holds; it has stopped; it waits in the barrier of a resume.
Normal(r) ==
    /\ ~pendingPause[r] /\ ~ignoreStart[r] /\ ~pausing[r] /\ pauseState[r] = "UNPAUSED"
    /\ ~Resuming(r)
Asked(r) ==
    /\ pendingPause[r] /\ ~ignoreStart[r] /\ pausing[r] /\ pauseState[r] # "UNPAUSED"
    /\ enginesRunning[r] /\ ~Resuming(r)
Stopping(r) ==
    /\ ~pendingPause[r] /\ ignoreStart[r] /\ pausing[r] /\ pauseState[r] # "UNPAUSED"
    /\ enginesRunning[r] /\ ~Resuming(r)
Stopped(r) ==
    /\ ~pendingPause[r] /\ ignoreStart[r] /\ pauseState[r] # "UNPAUSED"
    /\ ~enginesRunning[r] /\ Unfinished(r) = {} /\ pc[r] \in {"poll", "drain"}
Barrier(r) ==
    /\ ~pendingPause[r] /\ ~ignoreStart[r] /\ ~pausing[r] /\ pauseState[r] = "UNPAUSED"
    /\ ~enginesRunning[r] /\ Resuming(r)

\* The stages of all ranks together.  While the client asks for a pause, ranks
\* that have been told stand beside ranks that have not.  When all have been
\* told, the all-reduce takes them on together: to Agreed if requests are left,
\* to Halted if none are.  In a resume stopped ranks stand beside those in the
\* barrier, and the all-reduce behind it takes all of them back to work.
Open == \A r \in Ranks : Normal(r) /\ ~Called(r)
Asking ==
    /\ call.awaited = Ranks
    /\ \A r \in Ranks : \/ Normal(r) /\ (r \in call.unsent <=> ~Called(r))
                        \/ Asked(r) /\ r \notin call.unsent /\ ~Called(r)
Agreed ==
    /\ call.awaited = Ranks /\ call.unsent = {}
    /\ \A r \in Ranks : Stopping(r) /\ ~Called(r)
Halted ==
    /\ call.unsent = {}
    /\ \A r \in Ranks : Stopped(r) /\ ~Called(r) /\ (r \in call.awaited <=> pausing[r])
Meeting ==
    /\ call.awaited = Ranks
    /\ \A r \in Ranks : \/ Stopped(r) /\ ~pausing[r] /\ (r \in call.unsent <=> ~Called(r))
                        \/ Barrier(r) /\ r \notin call.unsent /\ ~Called(r)

\* The stage the ranks are in, by what the client has called.
Stages ==
    \/ call.phase = "none" /\ call.unsent = {} /\ Open
    \/ call.phase = "pause" /\ (Asking \/ Agreed \/ Halted)
    \/ call.phase = "resume" /\ Meeting
    \/ call.phase = "resume" /\ call.awaited = {} /\ call.unsent = {} /\ Open

\* The ranks count their steps alike.
Lockstep == \A r, s \in Ranks : stepCounter[r] = stepCounter[s]

-----------------------------------------------------------------------------
(* The mailboxes *)

\* What a put at the end of an input queue changes.
LEMMA PutLetter ==
    ASSUME Types, NEW r \in Ranks, NEW m \in Letters,
           inbox' = [inbox EXCEPT ![r] = Append(@, m)]
    PROVE  /\ inbox' \in [Ranks -> Seq(Letters)]
           /\ \A s \in Ranks : Called(s)' <=> Called(s) \/ (s = r /\ m.type \in CallTypes)
           /\ \A s \in Ranks, q \in Requests :
                 Added(q, s)' <=> Added(q, s) \/ (s = r /\ IsAdd(m, q))
           /\ \A s \in Ranks, q \in Requests :
                 OnceAdded(q, s) /\ (s = r /\ IsAdd(m, q) => ~Added(q, s)) => OnceAdded(q, s)'
           /\ \A s \in Ranks, w \in Nat :
                 /\ UpTo(s, w)
                 /\ m.type \in {"START_DP_WAVE", "ADD"} => m.wave <= w
                 => UpTo(s, w)'
           /\ \A s \in Ranks :
                 OnceCalled(s) /\ (m.type \in CallTypes => ~Called(r)) => OnceCalled(s)'
           /\ \A s \in Ranks :
                 /\ CallFits(s) /\ call'.phase = call.phase
                 /\ m.type = "PAUSE" => call.phase = "pause"
                 /\ m.type = "RESUME" => call.phase = "resume"
                 => CallFits(s)'
<1> DEFINE n == Len(inbox[r])
<1>1. inbox \in [Ranks -> Seq(Letters)]
  BY DEF Types
<1> HIDE DEF Letters
<1>2. /\ inbox' \in [Ranks -> Seq(Letters)]
      /\ \A s \in Ranks : s # r => inbox'[s] = inbox[s]
      /\ n \in Nat /\ DOMAIN inbox[r] = 1 .. n /\ DOMAIN inbox'[r] = 1 .. n + 1
      /\ \A i \in 1 .. n : inbox'[r][i] = inbox[r][i]
      /\ inbox'[r][n + 1] = m
  <2>1. inbox[r] \in Seq(Letters) /\ inbox'[r] = Append(inbox[r], m)
    BY <1>1
  <2>2. inbox' \in [Ranks -> Seq(Letters)] /\ \A s \in Ranks : s # r => inbox'[s] = inbox[s]
    BY <1>1, <2>1
  <2> QED BY <2>1, <2>2
<1>3. \A i \in 1 .. n + 1 : i \in 1 .. n \/ i = n + 1
  BY <1>2
<1>4. n + 1 \in 1 .. n + 1 /\ 1 .. n \subseteq 1 .. n + 1
  BY <1>2
<1> HIDE DEF n
<1>5. ASSUME NEW s \in Ranks, s # r
      PROVE  /\ Called(s)' <=> Called(s)
             /\ \A q \in Requests : (Added(q, s)' <=> Added(q, s)) /\ (OnceAdded(q, s)' <=> OnceAdded(q, s))
             /\ \A w : UpTo(s, w)' <=> UpTo(s, w)
             /\ OnceCalled(s)' <=> OnceCalled(s)
             /\ call'.phase = call.phase => (CallFits(s)' <=> CallFits(s))
  BY <1>2, <1>5 DEF Called, Added, OnceAdded, UpTo, OnceCalled, CallFits
<1>6. Called(r)' <=> Called(r) \/ m.type \in CallTypes
  BY <1>2, <1>3, <1>4 DEF Called
<1>7. ASSUME NEW q \in Requests PROVE Added(q, r)' <=> Added(q, r) \/ IsAdd(m, q)
  BY <1>2, <1>3, <1>4 DEF Added
<1>8. ASSUME NEW q \in Requests, OnceAdded(q, r), IsAdd(m, q) => ~Added(q, r)
      PROVE  OnceAdded(q, r)'
  <2> SUFFICES ASSUME NEW i \in 1 .. n + 1, NEW j \in 1 .. n + 1,
                      IsAdd(inbox'[r][i], q), IsAdd(inbox'[r][j], q)
               PROVE  i = j
    BY <1>2 DEF OnceAdded
  <2>1. (i \in 1 .. n \/ i = n + 1) /\ (j \in 1 .. n \/ j = n + 1)
    BY <1>3
  <2> QED BY <1>2, <1>8, <2>1 DEF OnceAdded, Added
<1>9. ASSUME NEW w \in Nat, UpTo(r, w), m.type \in {"START_DP_WAVE", "ADD"} => m.wave <= w
      PROVE  UpTo(r, w)'
  BY <1>2, <1>3, <1>9 DEF UpTo
<1>10. ASSUME OnceCalled(r), m.type \in CallTypes => ~Called(r)
       PROVE  OnceCalled(r)'
  <2> SUFFICES ASSUME NEW i \in 1 .. n + 1, NEW j \in 1 .. n + 1,
                      inbox'[r][i].type \in CallTypes, inbox'[r][j].type \in CallTypes
               PROVE  i = j
    BY <1>2 DEF OnceCalled
  <2>1. (i \in 1 .. n \/ i = n + 1) /\ (j \in 1 .. n \/ j = n + 1)
    BY <1>3
  <2> QED BY <1>2, <1>10, <2>1 DEF OnceCalled, Called
<1>11. ASSUME CallFits(r), call'.phase = call.phase,
              m.type = "PAUSE" => call.phase = "pause",
              m.type = "RESUME" => call.phase = "resume"
       PROVE  CallFits(r)'
  BY <1>2, <1>3, <1>11 DEF CallFits
<1>12. \A s \in Ranks : Called(s)' <=> Called(s) \/ (s = r /\ m.type \in CallTypes)
  BY <1>5, <1>6
<1>13. \A s \in Ranks, q \in Requests : Added(q, s)' <=> Added(q, s) \/ (s = r /\ IsAdd(m, q))
  BY <1>5, <1>7
<1>14. \A s \in Ranks, q \in Requests :
         OnceAdded(q, s) /\ (s = r /\ IsAdd(m, q) => ~Added(q, s)) => OnceAdded(q, s)'
  BY <1>5, <1>8
<1>15. \A s \in Ranks, w \in Nat :
         UpTo(s, w) /\ (m.type \in {"START_DP_WAVE", "ADD"} => m.wave <= w) => UpTo(s, w)'
  BY <1>5, <1>9
<1>16. \A s \in Ranks :
         OnceCalled(s) /\ (m.type \in CallTypes => ~Called(r)) => OnceCalled(s)'
  BY <1>5, <1>10
<1>17. \A s \in Ranks :
         /\ CallFits(s) /\ call'.phase = call.phase
         /\ m.type = "PAUSE" => call.phase = "pause"
         /\ m.type = "RESUME" => call.phase = "resume"
         => CallFits(s)'
  BY <1>5, <1>11
<1> QED BY <1>2, <1>12, <1>13, <1>14, <1>15, <1>16, <1>17

\* What the get of its head changes.
LEMMA TakeLetter ==
    ASSUME Types, NEW r \in Ranks, inbox[r] # <<>>,
           inbox' = [inbox EXCEPT ![r] = Tail(@)]
    PROVE  /\ inbox' \in [Ranks -> Seq(Letters)] /\ Head(inbox[r]) \in Letters
           /\ \E i \in DOMAIN inbox[r] : inbox[r][i] = Head(inbox[r])
           /\ \A s \in Ranks : s # r => (Called(s)' <=> Called(s))
           /\ Called(r)' => Called(r)
           /\ Head(inbox[r]).type \notin CallTypes => (Called(r) => Called(r)')
           /\ Head(inbox[r]).type \in CallTypes => Called(r) /\ (OnceCalled(r) => ~Called(r)')
           /\ \A s \in Ranks, q \in Requests :
                 /\ Added(q, s)' => Added(q, s)
                 /\ OnceAdded(q, s) => OnceAdded(q, s)'
           /\ \A q \in Requests : IsAdd(Head(inbox[r]), q) =>
                 Added(q, r) /\ (OnceAdded(q, r) => ~Added(q, r)')
           /\ \A s \in Ranks, w \in Nat : UpTo(s, w) => UpTo(s, w)'
           /\ \A s \in Ranks : OnceCalled(s) => OnceCalled(s)'
           /\ \A s \in Ranks : CallFits(s) /\ call'.phase = call.phase => CallFits(s)'
<1> DEFINE n == Len(inbox[r])
           h == Head(inbox[r])
<1>1. inbox \in [Ranks -> Seq(Letters)]
  BY DEF Types
<1> HIDE DEF Letters
<1>2. /\ inbox' \in [Ranks -> Seq(Letters)]
      /\ \A s \in Ranks : s # r => inbox'[s] = inbox[s]
      /\ n \in Nat \ {0} /\ DOMAIN inbox[r] = 1 .. n /\ DOMAIN inbox'[r] = 1 .. n - 1
      /\ \A i \in 1 .. n - 1 : i + 1 \in 1 .. n /\ inbox'[r][i] = inbox[r][i + 1]
      /\ h \in Letters /\ h = inbox[r][1] /\ 1 \in 1 .. n
  <2>1. inbox[r] \in Seq(Letters) /\ inbox'[r] = Tail(inbox[r])
    BY <1>1
  <2>2. inbox' \in [Ranks -> Seq(Letters)] /\ \A s \in Ranks : s # r => inbox'[s] = inbox[s]
    BY <1>1, <2>1
  <2> QED BY <2>1, <2>2
<1> HIDE DEF n, h
<1>3. \A i \in 1 .. n : i # 1 => i - 1 \in 1 .. n - 1 /\ inbox'[r][i - 1] = inbox[r][i]
  BY <1>2
<1>4. ASSUME NEW s \in Ranks, s # r
      PROVE  /\ Called(s)' <=> Called(s)
             /\ \A q \in Requests : (Added(q, s)' <=> Added(q, s)) /\ (OnceAdded(q, s)' <=> OnceAdded(q, s))
             /\ \A w : UpTo(s, w)' <=> UpTo(s, w)
             /\ OnceCalled(s)' <=> OnceCalled(s)
             /\ call'.phase = call.phase => (CallFits(s)' <=> CallFits(s))
  BY <1>2, <1>4 DEF Called, Added, OnceAdded, UpTo, OnceCalled, CallFits
<1>5. Called(r)' => Called(r)
  <2> SUFFICES ASSUME NEW i \in 1 .. n - 1, inbox'[r][i].type \in CallTypes
               PROVE  Called(r)
    BY <1>2 DEF Called
  <2>1. i + 1 \in 1 .. n /\ inbox[r][i + 1].type \in CallTypes
    BY <1>2
  <2> QED BY <1>2, <2>1 DEF Called
<1>6. h.type \notin CallTypes => (Called(r) => Called(r)')
  BY <1>2, <1>3 DEF Called
<1>7. h.type \in CallTypes => Called(r) /\ (OnceCalled(r) => ~Called(r)')
  <2> SUFFICES ASSUME h.type \in CallTypes PROVE Called(r) /\ (OnceCalled(r) => ~Called(r)')
    OBVIOUS
  <2>1. Called(r)
    BY <1>2 DEF Called
  <2>2. ASSUME OnceCalled(r), NEW i \in 1 .. n - 1, inbox'[r][i].type \in CallTypes PROVE FALSE
    <3>1. i + 1 = 1
      BY <1>2, <2>2 DEF OnceCalled
    <3> QED BY <3>1
  <2> QED BY <1>2, <2>1, <2>2 DEF Called
<1>8. ASSUME NEW q \in Requests PROVE Added(q, r)' => Added(q, r)
  <2> SUFFICES ASSUME NEW i \in 1 .. n - 1, IsAdd(inbox'[r][i], q)
               PROVE  Added(q, r)
    BY <1>2 DEF Added
  <2>1. i + 1 \in 1 .. n /\ IsAdd(inbox[r][i + 1], q)
    BY <1>2
  <2> QED BY <1>2, <2>1 DEF Added
<1>9. ASSUME NEW q \in Requests, OnceAdded(q, r) PROVE OnceAdded(q, r)'
  <2> SUFFICES ASSUME NEW i \in 1 .. n - 1, NEW j \in 1 .. n - 1,
                      IsAdd(inbox'[r][i], q), IsAdd(inbox'[r][j], q)
               PROVE  i = j
    BY <1>2 DEF OnceAdded
  <2>1. i + 1 = j + 1
    BY <1>2, <1>9 DEF OnceAdded
  <2> QED BY <2>1
<1>10. ASSUME NEW q \in Requests, IsAdd(h, q)
       PROVE  Added(q, r) /\ (OnceAdded(q, r) => ~Added(q, r)')
  <2>1. Added(q, r)
    BY <1>2, <1>10 DEF Added
  <2>2. ASSUME OnceAdded(q, r), NEW i \in 1 .. n - 1, IsAdd(inbox'[r][i], q) PROVE FALSE
    <3>1. i + 1 = 1
      BY <1>2, <1>10, <2>2 DEF OnceAdded
    <3> QED BY <3>1
  <2> QED BY <1>2, <2>1, <2>2 DEF Added
<1>11. ASSUME NEW w \in Nat, UpTo(r, w) PROVE UpTo(r, w)'
  BY <1>2, <1>11 DEF UpTo
<1>12. ASSUME OnceCalled(r) PROVE OnceCalled(r)'
  <2> SUFFICES ASSUME NEW i \in 1 .. n - 1, NEW j \in 1 .. n - 1,
                      inbox'[r][i].type \in CallTypes, inbox'[r][j].type \in CallTypes
               PROVE  i = j
    BY <1>2 DEF OnceCalled
  <2>1. i + 1 = j + 1
    BY <1>2, <1>12 DEF OnceCalled
  <2> QED BY <2>1
<1>13. ASSUME CallFits(r), call'.phase = call.phase PROVE CallFits(r)'
  BY <1>2, <1>13 DEF CallFits
<1>14. \A s \in Ranks, q \in Requests :
         /\ Added(q, s)' => Added(q, s)
         /\ OnceAdded(q, s) => OnceAdded(q, s)'
  BY <1>4, <1>8, <1>9
<1>15. \A s \in Ranks, w \in Nat : UpTo(s, w) => UpTo(s, w)'
  BY <1>4, <1>11
<1>16. \A s \in Ranks : OnceCalled(s) => OnceCalled(s)'
  BY <1>4, <1>12
<1>17. \A s \in Ranks : CallFits(s) /\ call'.phase = call.phase => CallFits(s)'
  BY <1>4, <1>13
<1> QED BY <1>2, <1>4, <1>5, <1>6, <1>7, <1>10, <1>14, <1>15, <1>16, <1>17 DEF h

\* Nothing that is said of the queues changes while they do not.
LEMMA SameLetters ==
    ASSUME UNCHANGED inbox
    PROVE  /\ \A s : (Called(s)' <=> Called(s)) /\ (OnceCalled(s)' <=> OnceCalled(s))
           /\ \A s, q : (Added(q, s)' <=> Added(q, s)) /\ (OnceAdded(q, s)' <=> OnceAdded(q, s))
           /\ \A s, w : UpTo(s, w)' <=> UpTo(s, w)
           /\ call'.phase = call.phase => \A s : CallFits(s)' <=> CallFits(s)
BY DEF Called, OnceCalled, Added, OnceAdded, UpTo, CallFits

\* The four kinds of letters, by their type, with the types of their fields.
LEMMA Kinds ==
    /\ \A m \in Letters :
          /\ m.type = "ADD" => m.id \in Requests /\ m.wave \in Nat
          /\ m.type = "START_DP_WAVE" => m.wave \in Nat
          /\ m.type = "PAUSE" => m.mode \in Modes
          /\ m.type \in {"ADD", "START_DP_WAVE", "PAUSE", "RESUME"}
    /\ \A w \in Nat, x \in Ranks \cup {None} :
          /\ Start(w, x) \in Letters /\ Start(w, x).type = "START_DP_WAVE" /\ Start(w, x).wave = w
          /\ \A q : ~IsAdd(Start(w, x), q)
    /\ \A q \in Requests, w \in Nat :
          /\ Add(q, w) \in Letters /\ Add(q, w).type = "ADD" /\ Add(q, w).wave = w
          /\ \A p : IsAdd(Add(q, w), p) <=> p = q
    /\ \A mode \in Modes :
          /\ Pause(mode) \in Letters /\ Pause(mode).type = "PAUSE"
          /\ \A q : ~IsAdd(Pause(mode), q)
    /\ Resume \in Letters /\ Resume.type = "RESUME" /\ \A q : ~IsAdd(Resume, q)
<1>1. ASSUME NEW w, NEW x
      PROVE  Start(w, x).type = "START_DP_WAVE" /\ Start(w, x).wave = w
  BY DEF Start
<1>2. ASSUME NEW w, NEW q
      PROVE  Add(q, w).type = "ADD" /\ Add(q, w).wave = w /\ Add(q, w).id = q
  BY DEF Add
<1>3. ASSUME NEW mode PROVE Pause(mode).type = "PAUSE" /\ Pause(mode).mode = mode
  BY DEF Pause
<1>4. Resume.type = "RESUME"
  BY DEF Resume
<1>5. /\ \A w \in Nat, x \in Ranks \cup {None} : Start(w, x) \in Letters
      /\ \A q \in Requests, w \in Nat : Add(q, w) \in Letters
      /\ \A mode \in Modes : Pause(mode) \in Letters
      /\ Resume \in Letters
  BY DEF Letters
<1>6. ASSUME NEW m \in Letters
      PROVE  \/ \E w \in Nat, x \in Ranks \cup {None} : m = Start(w, x)
             \/ \E q \in Requests, w \in Nat : m = Add(q, w)
             \/ \E mode \in Modes : m = Pause(mode)
             \/ m = Resume
  BY DEF Letters
<1>7. ASSUME NEW m \in Letters
      PROVE  /\ m.type = "ADD" => m.id \in Requests /\ m.wave \in Nat
             /\ m.type = "START_DP_WAVE" => m.wave \in Nat
             /\ m.type = "PAUSE" => m.mode \in Modes
             /\ m.type \in {"ADD", "START_DP_WAVE", "PAUSE", "RESUME"}
  <2>1. CASE \E w \in Nat, x \in Ranks \cup {None} : m = Start(w, x)
    BY <1>1, <2>1
  <2>2. CASE \E q \in Requests, w \in Nat : m = Add(q, w)
    BY <1>2, <2>2
  <2>3. CASE \E mode \in Modes : m = Pause(mode)
    BY <1>3, <2>3
  <2>4. CASE m = Resume
    BY <1>4, <2>4
  <2> QED BY <1>6, <2>1, <2>2, <2>3, <2>4
<1> QED BY <1>1, <1>2, <1>3, <1>4, <1>5, <1>7 DEF IsAdd

-----------------------------------------------------------------------------
(* The types *)

\* The part of Types that clients, coordinator and wires can disturb.
TypesOfTransport ==
    /\ inbox \in [Ranks -> Seq(Letters)] /\ wire \in [Ranks -> Seq(Letters)]
    /\ coordinator \in [wave : Nat, running : BOOLEAN]
    /\ frontEnd \in [wave : Nat, running : BOOLEAN]
    /\ toCoordinator \in Seq(Reports)
    /\ firstRequests \in Seq(FirstRequests)
    /\ call \in [phase : {"none", "pause", "resume"}, mode : Modes \cup {None},
                 unsent : SUBSET Ranks, awaited : SUBSET Ranks]
    /\ call.phase = "pause" => call.mode \in Modes

\* Clients, coordinator and wires keep the types.
LEMMA TransportTypes ==
    ASSUME Types, Transport \/ Client
    PROVE  Types'
<1> USE WavesAssumption
<1>1. ASSUME UNCHANGED <<rankVars, scenario>>, TypesOfTransport' PROVE Types'
  BY <1>1 DEF Types, TypesOfTransport, rankVars
<1>2. TypesOfTransport
  BY DEF Types, TypesOfTransport
<1>3. CASE \E q \in Requests, r \in Ranks : SendRequest(q, r)
  <2>1. PICK q \in Requests, r \in Ranks : SendRequest(q, r)
    BY <1>3
  <2>2. frontEnd.wave \in Nat /\ [rank |-> r, wave |-> frontEnd.wave] \in FirstRequests
    BY <1>2 DEF TypesOfTransport, FirstRequests
  <2>3. inbox' \in [Ranks -> Seq(Letters)]
    BY <2>1, <2>2, PutLetter, Kinds DEF SendRequest
  <2>4. /\ frontEnd' \in [wave : Nat, running : BOOLEAN]
        /\ firstRequests' \in Seq(FirstRequests)
    <3>1. CASE frontEnd.running
      BY <1>2, <2>1, <3>1 DEF SendRequest, TypesOfTransport
    <3>2. CASE ~frontEnd.running
      <4>1. /\ firstRequests' = Append(firstRequests, [rank |-> r, wave |-> frontEnd.wave])
            /\ frontEnd' = [frontEnd EXCEPT !.running = TRUE]
        BY <2>1, <3>2 DEF SendRequest
      <4>2. firstRequests' \in Seq(FirstRequests)
        <5>1. PICK m \in FirstRequests : firstRequests' = Append(firstRequests, m)
          BY <2>2, <4>1
        <5> QED BY <1>2, <5>1 DEF TypesOfTransport
      <4>3. frontEnd' \in [wave : Nat, running : BOOLEAN]
        <5>1. frontEnd \in [wave : Nat, running : BOOLEAN]
          BY <1>2 DEF TypesOfTransport
        <5> QED BY <4>1, <5>1
      <4> QED BY <4>2, <4>3
    <3> QED BY <3>1, <3>2
  <2>5. UNCHANGED <<rankVars, scenario, wire, coordinator, toCoordinator, call>>
    BY <2>1 DEF SendRequest
  <2> QED BY <1>1, <1>2, <2>3, <2>4, <2>5 DEF TypesOfTransport
<1>4. CASE Observe
  BY <1>1, <1>2, <1>4 DEF Observe, TypesOfTransport, coordVars
<1>5. ASSUME NEW w \in Nat, NEW x \in Ranks \cup {None}, Broadcast(w, x)
      PROVE  wire' \in [Ranks -> Seq(Letters)]
  <2>1. Start(w, x) \in Letters
    BY Kinds
  <2> HIDE DEF Letters
  <2> QED BY <1>2, <1>5, <2>1 DEF Broadcast, TypesOfTransport
<1>6. CASE CoordinateFirstRequest
  <2>1. /\ Head(firstRequests) \in FirstRequests
        /\ firstRequests' \in Seq(FirstRequests)
    <3>1. firstRequests # <<>> /\ firstRequests' = Tail(firstRequests)
      BY <1>6 DEF CoordinateFirstRequest
    <3> QED BY <1>2, <3>1 DEF TypesOfTransport
  <2>2. /\ coordinator' \in [wave : Nat, running : BOOLEAN] /\ coordinator.wave \in Nat
    <3>1. coordinator' = coordinator \/ coordinator' = [coordinator EXCEPT !.running = TRUE]
      BY <1>6 DEF CoordinateFirstRequest
    <3> QED BY <1>2, <3>1 DEF TypesOfTransport
  <2>3. wire' \in [Ranks -> Seq(Letters)]
    <3>1. CASE coordinator.running
      BY <1>2, <1>6, <3>1 DEF CoordinateFirstRequest, TypesOfTransport
    <3>2. CASE ~coordinator.running
      <4>1. PICK x \in Ranks \cup {None} : Broadcast(coordinator.wave, x)
        BY <1>6, <2>1, <3>2 DEF CoordinateFirstRequest, FirstRequests
      <4> QED BY <1>5, <2>2, <4>1
    <3> QED BY <3>1, <3>2
  <2>4. UNCHANGED <<rankVars, scenario, inbox, toCoordinator, frontEnd, call>>
    BY <1>6 DEF CoordinateFirstRequest, clientVars
  <2> QED BY <1>1, <1>2, <2>1, <2>2, <2>3, <2>4 DEF TypesOfTransport
<1>7. CASE CoordinateEngines
  <2> DEFINE m == Head(toCoordinator)
  <2>1. m \in Reports /\ toCoordinator' \in Seq(Reports)
    BY <1>2, <1>7 DEF CoordinateEngines, TypesOfTransport
  <2>2. m.wave \in Nat /\ m.rank \in Ranks
    BY <2>1 DEF Reports
  <2> HIDE DEF m
  <2>3. \/ UNCHANGED <<coordinator, wire>>
        \/ coordinator' = [wave |-> m.wave + 1, running |-> FALSE] /\ UNCHANGED wire
        \/ coordinator' = [wave |-> m.wave, running |-> TRUE] /\ Broadcast(m.wave, m.rank)
    BY <1>7 DEF CoordinateEngines, m
  <2>4. coordinator' \in [wave : Nat, running : BOOLEAN] /\ wire' \in [Ranks -> Seq(Letters)]
    <3>1. CASE UNCHANGED <<coordinator, wire>>
      BY <1>2, <3>1 DEF TypesOfTransport
    <3>2. CASE coordinator' = [wave |-> m.wave + 1, running |-> FALSE] /\ UNCHANGED wire
      BY <1>2, <2>2, <3>2 DEF TypesOfTransport
    <3>3. CASE coordinator' = [wave |-> m.wave, running |-> TRUE] /\ Broadcast(m.wave, m.rank)
      <4>1. wire' \in [Ranks -> Seq(Letters)]
        BY <1>5, <2>2, <3>3
      <4> QED BY <2>2, <3>3, <4>1
    <3> QED BY <2>3, <3>1, <3>2, <3>3
  <2>5. UNCHANGED <<rankVars, scenario, inbox, firstRequests, frontEnd, call>>
    BY <1>7 DEF CoordinateEngines, clientVars
  <2> QED BY <1>1, <1>2, <2>1, <2>4, <2>5 DEF TypesOfTransport
<1>8. CASE \E r \in Ranks : Deliver(r)
  <2>1. PICK r \in Ranks : Deliver(r)
    BY <1>8
  <2>2. Head(wire[r]) \in Letters /\ wire' \in [Ranks -> Seq(Letters)]
    <3> HIDE DEF Letters
    <3>1. wire[r] \in Seq(Letters) /\ wire[r] # <<>>
      BY <1>2, <2>1 DEF Deliver, TypesOfTransport
    <3>2. Head(wire[r]) \in Letters /\ Tail(wire[r]) \in Seq(Letters)
      BY <3>1
    <3> QED BY <1>2, <2>1, <3>2 DEF Deliver, TypesOfTransport
  <2>3. inbox' \in [Ranks -> Seq(Letters)]
    BY <2>1, <2>2, PutLetter DEF Deliver
  <2>4. UNCHANGED <<rankVars, scenario, coordinator, toCoordinator, firstRequests, frontEnd, call>>
    BY <2>1 DEF Deliver, coordVars, clientVars
  <2> QED BY <1>1, <1>2, <2>2, <2>3, <2>4 DEF TypesOfTransport
<1>9. CASE \E r \in Ranks : SendCall(r)
  <2>1. PICK r \in Ranks : SendCall(r)
    BY <1>9
  <2>2. PICK m \in Letters : inbox' = [inbox EXCEPT ![r] = Append(@, m)]
    BY <1>2, <2>1, Kinds DEF SendCall, TypesOfTransport
  <2>3. inbox' \in [Ranks -> Seq(Letters)]
    BY <2>2, PutLetter
  <2>4. call' = [call EXCEPT !.unsent = @ \ {r}]
    BY <2>1 DEF SendCall
  <2>5. UNCHANGED <<rankVars, scenario, wire, coordinator, toCoordinator, firstRequests, frontEnd>>
    BY <2>1 DEF SendCall, coordVars
  <2> QED BY <1>1, <1>2, <2>3, <2>4, <2>5 DEF TypesOfTransport
<1>10. CASE \E mode \in scenario.modes : BeginPause(mode)
  <2>1. PICK mode \in scenario.modes : BeginPause(mode)
    BY <1>10
  <2>2. mode \in Modes
    BY DEF Types, Modes
  <2> QED BY <1>1, <1>2, <2>1, <2>2 DEF BeginPause, TypesOfTransport, coordVars
<1>11. CASE BeginResume \/ EndCall
  BY <1>1, <1>2, <1>11 DEF BeginResume, EndCall, NoCall, TypesOfTransport, coordVars
<1> QED BY <1>3, <1>4, <1>6, <1>7, <1>8, <1>9, <1>10, <1>11 DEF Transport, Client

\* What a rank does with a message keeps the types.
LEMMA MessageTypes ==
    ASSUME Types, NEW r \in Ranks, HandleMessage(r)
    PROVE  Types'
<1> USE WavesAssumption
<1> DEFINE m == Head(inbox[r])
<1>1. inbox' \in [Ranks -> Seq(Letters)] /\ m \in Letters
  <2>1. inbox[r] # <<>> /\ inbox' = [inbox EXCEPT ![r] = Tail(@)]
    BY DEF HandleMessage
  <2> QED BY <2>1, TakeLetter
<1>2. /\ m.type = "ADD" => m.id \in Requests /\ m.wave \in Nat
      /\ m.type = "START_DP_WAVE" => m.wave \in Nat
  BY <1>1, Kinds
<1> HIDE DEF m
<1>3. UNCHANGED <<wire, coordinator, firstRequests, scenario, frontEnd>>
  BY DEF HandleMessage
<1>4. CASE HandleAdd(r, m)
  <2> DEFINE report == [type |-> "start_wave", wave |-> currentWave[r], rank |-> r]
  <2>1. report \in Reports /\ toCoordinator \in Seq(Reports)
    BY DEF Types, Reports
  <2>2. toCoordinator' = toCoordinator \/ toCoordinator' = Append(toCoordinator, report)
    BY <1>4 DEF HandleAdd
  <2> HIDE DEF report
  <2>3. toCoordinator' \in Seq(Reports)
    BY <2>1, <2>2
  <2>4. /\ m.id \in Requests /\ m.wave \in Nat
        /\ waiting' = [waiting EXCEPT ![r] = @ \union {m.id}]
        /\ currentWave' = [currentWave EXCEPT ![r] = IF m.wave > @ THEN m.wave ELSE @]
        /\ enginesRunning' = [enginesRunning EXCEPT ![r] = @ \/ StartsWave(r, m)]
        /\ UNCHANGED <<pc, running, finishedIds, pauseState, left, stepCounter,
                       pendingPause, ignoreStart, pausing, call>>
    BY <1>2, <1>4 DEF HandleAdd
  <2>5. waiting' \in [Ranks -> SUBSET Requests]
    <3>1. waiting \in [Ranks -> SUBSET Requests] /\ waiting[r] \cup {m.id} \in SUBSET Requests
      BY <2>4 DEF Types
    <3> QED BY <2>4, <3>1
  <2>6. currentWave' \in [Ranks -> Nat] /\ enginesRunning' \in [Ranks -> BOOLEAN]
    BY <2>4 DEF Types, StartsWave
  <2> QED BY <1>1, <1>3, <2>3, <2>4, <2>5, <2>6 DEF Types
<1>5. CASE HandleStart(r, m)
  <2>1. m.wave \in Nat
    BY <1>2, <1>5 DEF HandleStart
  <2>2. currentWave' \in [Ranks -> Nat] /\ enginesRunning' \in [Ranks -> BOOLEAN]
    BY <1>5, <2>1 DEF Types, HandleStart, Heeded
  <2> QED BY <1>1, <1>3, <1>5, <2>2 DEF Types, HandleStart
<1>6. CASE HandlePause(r, m)
  <2>1. /\ waiting' \in [Ranks -> SUBSET Requests] /\ running' \in [Ranks -> SUBSET Requests]
        /\ finishedIds' \in [Ranks -> BOOLEAN]
    BY <1>6 DEF Types, HandlePause
  <2>2. /\ pauseState' \in [Ranks -> {"UNPAUSED", "PAUSED_NEW", "PAUSED_ALL"}]
        /\ pendingPause' \in [Ranks -> BOOLEAN] /\ enginesRunning' \in [Ranks -> BOOLEAN]
        /\ pausing' \in [Ranks -> BOOLEAN]
    BY <1>6 DEF Types, HandlePause
  <2> QED BY <1>1, <1>3, <1>6, <2>1, <2>2 DEF Types, HandlePause
<1>7. CASE HandleResume(r, m)
  <2>1. /\ pc' = pc \/ pc' = [pc EXCEPT ![r] = IF @ = "poll" THEN "resume_poll" ELSE "resume_drain"]
        /\ pauseState' = pauseState \/ pauseState' = [pauseState EXCEPT ![r] = "UNPAUSED"]
        /\ ignoreStart' = ignoreStart \/ ignoreStart' = [ignoreStart EXCEPT ![r] = FALSE]
        /\ call' = call \/ call' = [call EXCEPT !.awaited = @ \ {r}]
        /\ UNCHANGED <<waiting, running, finishedIds, left, enginesRunning, currentWave,
                       stepCounter, pendingPause, pausing, toCoordinator>>
    BY <1>7 DEF HandleResume, Answer
  <2>2. /\ pc' \in [Ranks -> {"poll", "drain", "forward", "allreduce", "resume_poll", "resume_drain"}]
        /\ pauseState' \in [Ranks -> {"UNPAUSED", "PAUSED_NEW", "PAUSED_ALL"}]
        /\ ignoreStart' \in [Ranks -> BOOLEAN]
    <3>1. pc' \in [Ranks -> {"poll", "drain", "forward", "allreduce", "resume_poll", "resume_drain"}]
      BY <2>1 DEF Types
    <3>2. pauseState' \in [Ranks -> {"UNPAUSED", "PAUSED_NEW", "PAUSED_ALL"}]
      BY <2>1 DEF Types
    <3>3. ignoreStart' \in [Ranks -> BOOLEAN]
      BY <2>1 DEF Types
    <3> QED BY <3>1, <3>2, <3>3
  <2>3. /\ call' \in [phase : {"none", "pause", "resume"}, mode : Modes \cup {None},
                      unsent : SUBSET Ranks, awaited : SUBSET Ranks]
        /\ call'.phase = "pause" => call'.mode \in Modes
    <3>1. /\ call \in [phase : {"none", "pause", "resume"}, mode : Modes \cup {None},
                       unsent : SUBSET Ranks, awaited : SUBSET Ranks]
          /\ call.phase = "pause" => call.mode \in Modes
      BY DEF Types
    <3> QED BY <2>1, <3>1
  <2> QED BY <1>1, <1>3, <2>1, <2>2, <2>3 DEF Types
<1> QED BY <1>4, <1>5, <1>6, <1>7 DEF HandleMessage, m

\* What a step schedules is held by the rank and has steps left to make.
LEMMA StepTypes ==
    ASSUME Types, OnePlace, NEW r \in Ranks, Step(r)
    PROVE  Types'
<1> USE WavesAssumption
<1>1. UNCHANGED <<scenario, pauseState, enginesRunning, currentWave, pendingPause,
                  ignoreStart, pausing, inbox, wire, coordinator, toCoordinator,
                  firstRequests, frontEnd, call>>
  BY DEF Step, coordVars, clientVars
<1>2. stepCounter' \in [Ranks -> 0 .. (SyncEvery - 1)]
  <2>1. \A n \in Nat : n % SyncEvery \in 0 .. (SyncEvery - 1)
    OBVIOUS
  <2>2. stepCounter[r] \in Nat /\ stepCounter[r] + 1 \in Nat
    BY DEF Types
  <2>3. 0 \in 0 .. (SyncEvery - 1) /\ stepCounter[r] \in 0 .. (SyncEvery - 1)
    BY DEF Types
  <2>4. CounterAfterStep(r, HasRequests(r)) \in 0 .. (SyncEvery - 1)
    BY <2>1, <2>2, <2>3 DEF CounterAfterStep
  <2>5. stepCounter' = [stepCounter EXCEPT ![r] = CounterAfterStep(r, HasRequests(r))]
    BY DEF Step
  <2> QED BY <2>4, <2>5 DEF Types
<1>3. \E at \in {"poll", "forward"} : pc' = [pc EXCEPT ![r] = at]
  BY DEF Step
<1>4. pc' \in [Ranks -> {"poll", "drain", "forward", "allreduce", "resume_poll", "resume_drain"}]
  BY <1>3 DEF Types
<1>5. CASE ~HasRequests(r)
  <2>1. UNCHANGED <<running, waiting, finishedIds, left>>
    BY <1>5 DEF Step
  <2> QED BY <1>1, <1>2, <1>4, <2>1 DEF Types
<1>6. CASE HasRequests(r)
  <2> DEFINE admitted  == IF pauseState[r] = "UNPAUSED" THEN waiting[r] ELSE {}
             scheduled == IF pauseState[r] = "PAUSED_ALL" THEN {} ELSE running[r] \union admitted
             stopped   == {q \in scheduled : left[q] = 1}
             stays     == (running[r] \union scheduled) \ stopped
  <2>1. /\ running' = [running EXCEPT ![r] = stays]
        /\ waiting' = [waiting EXCEPT ![r] = StillWaiting(r, scheduled)]
        /\ finishedIds' = [finishedIds EXCEPT ![r] = stopped # {}]
        /\ left' = [q \in Requests |-> left[q] - IF q \in scheduled THEN 1 ELSE 0]
    BY <1>6 DEF Step
  <2>2. scheduled \subseteq waiting[r] \cup running[r]
    OBVIOUS
  <2> HIDE DEF scheduled
  <2>3. waiting[r] \subseteq Requests /\ running[r] \subseteq Requests
    BY DEF Types
  <2>4. \A q \in scheduled : q \in Requests /\ left[q] > 0
    BY <2>2, <2>3 DEF OnePlace, Held
  <2>5. left' \in [Requests -> 0 .. MaxTokens]
    <3>1. \A q \in Requests : left[q] \in 0 .. MaxTokens
      BY DEF Types
    <3>2. \A q \in Requests : left[q] - (IF q \in scheduled THEN 1 ELSE 0) \in 0 .. MaxTokens
      BY <2>4, <3>1
    <3> QED BY <2>1, <3>2
  <2>6. /\ running' \in [Ranks -> SUBSET Requests] /\ waiting' \in [Ranks -> SUBSET Requests]
    BY <2>1, <2>2, <2>3 DEF Types, StillWaiting
  <2>7. finishedIds' \in [Ranks -> BOOLEAN]
    BY <2>1 DEF Types
  <2> QED BY <1>1, <1>2, <1>4, <2>5, <2>6, <2>7 DEF Types
<1> QED BY <1>5, <1>6

\* The ranks keep the types.
LEMMA EnginesTypes ==
    ASSUME Types, OnePlace, Engines
    PROVE  Types'
<1> USE WavesAssumption
<1>1. CASE Forward
  <2>1. stepCounter' \in [Ranks -> 0 .. (SyncEvery - 1)]
    <3>1. \A n \in Nat : n % SyncEvery \in 0 .. (SyncEvery - 1)
      OBVIOUS
    <3>2. \A r \in Ranks : stepCounter[r] + 1 \in Nat
      BY DEF Types
    <3> QED BY <1>1, <3>1, <3>2 DEF Forward
  <2>2. /\ pc' \in [Ranks -> {"poll", "drain", "forward", "allreduce", "resume_poll", "resume_drain"}]
        /\ enginesRunning' \in [Ranks -> BOOLEAN]
    BY <1>1 DEF Forward, Types
  <2> QED BY <1>1, <2>1, <2>2 DEF Forward, Types, coordVars, clientVars
<1>2. CASE AllReduce
  <2>1. /\ pc' \in [Ranks -> {"poll", "drain", "forward", "allreduce", "resume_poll", "resume_drain"}]
        /\ enginesRunning' \in [Ranks -> BOOLEAN]
        /\ ignoreStart' \in [Ranks -> BOOLEAN]
        /\ pendingPause' \in [Ranks -> BOOLEAN]
    BY <1>2 DEF AllReduce, Types, GlobalUnfinished, PauseConsensus, AnyUnfinished
  <2>2. currentWave' \in [Ranks -> Nat]
    BY <1>2 DEF AllReduce, Types, NextWave
  <2>3. toCoordinator' \in Seq(Reports)
    <3>1. [type |-> "wave_complete", wave |-> currentWave[0], rank |-> 0] \in Reports
      BY DEF Types, Reports
    <3>2. PICK m \in Reports : toCoordinator' = toCoordinator \/ toCoordinator' = Append(toCoordinator, m)
      BY <1>2, <3>1 DEF AllReduce
    <3>3. toCoordinator \in Seq(Reports)
      BY DEF Types
    <3> QED BY <3>2, <3>3
  <2> QED BY <1>2, <2>1, <2>2, <2>3 DEF AllReduce, Types, clientVars
<1>3. CASE ResumeAllReduce
  <2>1. /\ pc' \in [Ranks -> {"poll", "drain", "forward", "allreduce", "resume_poll", "resume_drain"}]
        /\ enginesRunning' \in [Ranks -> BOOLEAN]
    BY <1>3 DEF ResumeAllReduce, Types, AnyUnfinished
  <2>2. /\ call' \in [phase : {"none", "pause", "resume"}, mode : Modes \cup {None},
                      unsent : SUBSET Ranks, awaited : SUBSET Ranks]
        /\ call'.phase = "pause" => call'.mode \in Modes
    BY <1>3 DEF ResumeAllReduce, Types
  <2> QED BY <1>3, <2>1, <2>2 DEF ResumeAllReduce, Types, coordVars
<1>4. ASSUME NEW r \in Ranks, NotifyIdle(r) PROVE Types'
  <2>1. /\ pausing' \in [Ranks -> BOOLEAN]
        /\ waiting' \in [Ranks -> SUBSET Requests] /\ running' \in [Ranks -> SUBSET Requests]
    BY <1>4 DEF NotifyIdle, Types
  <2>2. /\ call' \in [phase : {"none", "pause", "resume"}, mode : Modes \cup {None},
                      unsent : SUBSET Ranks, awaited : SUBSET Ranks]
        /\ call'.phase = "pause" => call'.mode \in Modes
    BY <1>4 DEF NotifyIdle, Types, Answer
  <2> QED BY <1>4, <2>1, <2>2 DEF NotifyIdle, Types, coordVars
<1>5. ASSUME NEW r \in Ranks, LeaveIdleLoop(r) PROVE Types'
  BY <1>5 DEF LeaveIdleLoop, Types, coordVars, clientVars
<1> QED BY <1>1, <1>2, <1>3, <1>4, <1>5, MessageTypes, StepTypes DEF Engines, Rank

-----------------------------------------------------------------------------
(* The waves *)

\* An element of a longer sequence is an old one or the new one.
LEMMA AppendElements ==
    ASSUME NEW S, NEW q \in Seq(S), NEW m \in S,
           NEW i \in DOMAIN Append(q, m)
    PROVE  (i \in DOMAIN q /\ Append(q, m)[i] = q[i]) \/ Append(q, m)[i] = m
OBVIOUS

\* The elements of a tail are those of the sequence, one place on.
LEMMA TailElements ==
    ASSUME NEW S, NEW q \in Seq(S), q # <<>>
    PROVE  /\ \A i \in DOMAIN Tail(q) : i + 1 \in DOMAIN q /\ Tail(q)[i] = q[i + 1]
           /\ 1 \in DOMAIN q /\ Head(q) = q[1]
OBVIOUS

\* OneWave is kept by clients, coordinator and wires: the coordinator learns a
\* new wave only from a rank that has ended the one before, and sends no other.
LEMMA WavesOfTransport ==
    ASSUME Types, OneWave, Transport \/ Client
    PROVE  OneWave'
<1> USE WavesAssumption
<1> DEFINE w == Wave
<1>1. w \in Nat /\ coordinator.wave \in Nat /\ frontEnd.wave \in Nat
  BY DEF Types, Wave
<1>2. UNCHANGED currentWave /\ Wave' = w /\ w' = w
  <2>1. UNCHANGED rankVars
    BY DEF Transport, Client, SendRequest, Observe, CoordinateFirstRequest, CoordinateEngines,
       Deliver, SendCall, BeginPause, BeginResume, EndCall
  <2> QED BY <2>1 DEF rankVars, Wave
<1> DEFINE WireUpTo == \A r \in Ranks : \A i \in DOMAIN wire[r] :
                         wire[r][i].type = "START_DP_WAVE" /\ wire[r][i].wave <= w
           ReportsUpTo == \A i \in DOMAIN toCoordinator :
                            IF toCoordinator[i].type = "wave_complete" THEN toCoordinator[i].wave < w
                                                                       ELSE toCoordinator[i].wave <= w
<1>3. /\ \A r \in Ranks : currentWave[r] = w
      /\ coordinator.wave <= w /\ frontEnd.wave <= w
      /\ WireUpTo /\ ReportsUpTo
      /\ \A r \in Ranks : UpTo(r, w)
  BY DEF OneWave
<1>4. ASSUME coordinator'.wave <= w, frontEnd'.wave <= w, WireUpTo', ReportsUpTo',
             \A r \in Ranks : UpTo(r, w)'
      PROVE  OneWave'
  <2>1. \A r \in Ranks : UpTo(r, Wave)'
    BY <1>2, <1>4 DEF UpTo
  <2>2. \A r \in Ranks : currentWave'[r] = Wave'
    BY <1>2, <1>3
  <2> QED BY <1>2, <1>4, <2>1, <2>2 DEF OneWave
<1> HIDE DEF w
<1>5. ASSUME UNCHANGED wire PROVE WireUpTo'
  BY <1>2, <1>3, <1>5
<1>6. ASSUME UNCHANGED toCoordinator PROVE ReportsUpTo'
  BY <1>2, <1>3, <1>6
<1>7. ASSUME UNCHANGED inbox PROVE \A r \in Ranks : UpTo(r, w)'
  BY <1>2, <1>3, <1>7 DEF UpTo
<1>8. ASSUME NEW r \in Ranks, NEW m \in Letters, inbox' = [inbox EXCEPT ![r] = Append(@, m)],
             m.type \in {"START_DP_WAVE", "ADD"} => m.wave <= w
      PROVE  \A s \in Ranks : UpTo(s, w)'
  <2>1. \A s \in Ranks, v \in Nat :
           UpTo(s, v) /\ (m.type \in {"START_DP_WAVE", "ADD"} => m.wave <= v) => UpTo(s, v)'
    BY <1>8, PutLetter
  <2>2. ASSUME NEW s \in Ranks, NEW v \in Nat, v = w PROVE UpTo(s, w)'
    <3>1. UpTo(s, v)'
      BY <1>3, <1>8, <2>1, <2>2
    <3> QED BY <1>2, <2>2, <3>1 DEF UpTo
  <2> QED BY <1>1, <2>2
<1>9. ASSUME NEW v \in Nat, v <= w, NEW x \in Ranks \cup {None}, Broadcast(v, x)
      PROVE  WireUpTo'
  <2> SUFFICES ASSUME NEW r \in Ranks, NEW i \in DOMAIN wire'[r]
               PROVE  wire'[r][i].type = "START_DP_WAVE" /\ wire'[r][i].wave <= w
    BY <1>2
  <2>1. wire[r] \in Seq(Letters) /\ Start(v, x) \in Letters /\ wire'[r] = Append(wire[r], Start(v, x))
    BY <1>9, Kinds DEF Types, Broadcast
  <2>2. (i \in DOMAIN wire[r] /\ wire'[r][i] = wire[r][i]) \/ wire'[r][i] = Start(v, x)
    BY <2>1, AppendElements
  <2>3. Start(v, x).type = "START_DP_WAVE" /\ Start(v, x).wave = v
    BY DEF Start
  <2>4. i \in DOMAIN wire[r] => wire[r][i].type = "START_DP_WAVE" /\ wire[r][i].wave <= w
    BY <1>3
  <2> QED BY <1>9, <2>2, <2>3, <2>4
<1> HIDE DEF WireUpTo, ReportsUpTo
<1>10. CASE \E q \in Requests, r \in Ranks : SendRequest(q, r)
  <2>1. PICK q \in Requests, r \in Ranks : SendRequest(q, r)
    BY <1>10
  <2>2. \A s \in Ranks : UpTo(s, w)'
    <3>1. PICK v \in Nat : v = frontEnd.wave
      BY <1>1
    <3>2. Add(q, v) \in Letters /\ Add(q, v).wave = v
      BY Kinds
    <3>3. inbox' = [inbox EXCEPT ![r] = Append(@, Add(q, v))]
      BY <2>1, <3>1 DEF SendRequest
    <3> QED BY <1>3, <1>8, <3>1, <3>2, <3>3
  <2>3. frontEnd'.wave = frontEnd.wave
    <3>1. frontEnd' = frontEnd \/ frontEnd' = [frontEnd EXCEPT !.running = TRUE]
      BY <2>1 DEF SendRequest
    <3>2. frontEnd \in [wave : Nat, running : BOOLEAN]
      BY DEF Types
    <3> QED BY <3>1, <3>2
  <2>4. UNCHANGED <<wire, coordinator, toCoordinator>>
    BY <2>1 DEF SendRequest
  <2> QED BY <1>3, <1>4, <1>5, <1>6, <2>2, <2>3, <2>4
<1>11. CASE Observe
  BY <1>3, <1>4, <1>5, <1>6, <1>7, <1>11 DEF Observe, coordVars
<1>12. CASE CoordinateFirstRequest
  <2>1. Head(firstRequests).rank \in Ranks
    <3>1. firstRequests \in Seq(FirstRequests) /\ firstRequests # <<>>
      BY <1>12 DEF Types, CoordinateFirstRequest
    <3>2. Head(firstRequests) \in FirstRequests
      BY <3>1
    <3> QED BY <3>2 DEF FirstRequests
  <2>2. coordinator'.wave = coordinator.wave
    BY <1>12 DEF CoordinateFirstRequest, Types
  <2>3. WireUpTo'
    <3>1. UNCHANGED wire \/ \E x \in Ranks \cup {None} : Broadcast(coordinator.wave, x)
      BY <1>12, <2>1 DEF CoordinateFirstRequest
    <3> QED BY <1>1, <1>3, <1>5, <1>9, <3>1
  <2>4. UNCHANGED <<inbox, toCoordinator, frontEnd>>
    BY <1>12 DEF CoordinateFirstRequest, clientVars
  <2> QED BY <1>3, <1>4, <1>6, <1>7, <2>2, <2>3, <2>4
<1>13. CASE CoordinateEngines
  <2> DEFINE m == Head(toCoordinator)
  <2>1. toCoordinator \in Seq(Reports) /\ toCoordinator # <<>> /\ toCoordinator' = Tail(toCoordinator)
    BY <1>13 DEF Types, CoordinateEngines
  <2>2. /\ \A i \in DOMAIN toCoordinator' :
             i + 1 \in DOMAIN toCoordinator /\ toCoordinator'[i] = toCoordinator[i + 1]
        /\ 1 \in DOMAIN toCoordinator /\ m = toCoordinator[1]
    BY <2>1, TailElements
  <2>3. m \in Reports
    BY <2>1
  <2>4. m.wave \in Nat /\ m.rank \in Ranks
    BY <2>3 DEF Reports
  <2>5. IF m.type = "wave_complete" THEN m.wave < w ELSE m.wave <= w
    BY <1>3, <2>2 DEF ReportsUpTo
  <2>6. ReportsUpTo'
    BY <1>2, <1>3, <2>2 DEF ReportsUpTo
  <2> HIDE DEF m
  <2>7. \/ UNCHANGED <<coordinator, wire>>
        \/ m.type = "wave_complete" /\ coordinator' = [wave |-> m.wave + 1, running |-> FALSE] /\ UNCHANGED wire
        \/ coordinator' = [wave |-> m.wave, running |-> TRUE] /\ Broadcast(m.wave, m.rank)
    BY <1>13 DEF CoordinateEngines, m
  <2>8. m.wave <= w
    BY <1>1, <2>4, <2>5
  <2>9. coordinator'.wave <= w /\ WireUpTo'
    <3>1. CASE UNCHANGED <<coordinator, wire>>
      BY <1>3, <1>5, <3>1
    <3>2. CASE m.type = "wave_complete" /\ coordinator' = [wave |-> m.wave + 1, running |-> FALSE] /\ UNCHANGED wire
      <4>1. m.wave < w /\ coordinator'.wave = m.wave + 1
        BY <2>5, <3>2
      <4> QED BY <1>1, <1>5, <2>4, <3>2, <4>1
    <3>3. CASE coordinator' = [wave |-> m.wave, running |-> TRUE] /\ Broadcast(m.wave, m.rank)
      BY <1>9, <2>4, <2>8, <3>3
    <3> QED BY <2>7, <3>1, <3>2, <3>3
  <2>10. UNCHANGED <<inbox, frontEnd>>
    BY <1>13 DEF CoordinateEngines, clientVars
  <2> QED BY <1>3, <1>4, <1>7, <2>6, <2>9, <2>10
<1>14. CASE \E r \in Ranks : Deliver(r)
  <2>1. PICK r \in Ranks : Deliver(r)
    BY <1>14
  <2>2. wire[r] \in Seq(Letters) /\ wire[r] # <<>>
    BY <2>1 DEF Deliver, Types
  <2>3. /\ \A i \in DOMAIN Tail(wire[r]) :
             i + 1 \in DOMAIN wire[r] /\ Tail(wire[r])[i] = wire[r][i + 1]
        /\ 1 \in DOMAIN wire[r] /\ Head(wire[r]) = wire[r][1]
    <3> HIDE DEF Letters
    <3> QED BY <2>2, TailElements
  <2>4. Head(wire[r]) \in Letters /\ Head(wire[r]).wave <= w
    <3>1. Head(wire[r]) \in Letters
      <4> HIDE DEF Letters
      <4> QED BY <2>2
    <3> QED BY <1>3, <2>3, <3>1 DEF WireUpTo
  <2>5. \A s \in Ranks : UpTo(s, w)'
    BY <1>8, <2>1, <2>4 DEF Deliver
  <2>6. WireUpTo'
    <3>1. wire' = [wire EXCEPT ![r] = Tail(@)] /\ wire \in [Ranks -> Seq(Letters)]
      BY <2>1 DEF Deliver, Types
    <3>2. wire'[r] = Tail(wire[r]) /\ \A s \in Ranks : s # r => wire'[s] = wire[s]
      <4> HIDE DEF Letters
      <4> QED BY <3>1
    <3>3. ASSUME NEW s \in Ranks, NEW i \in DOMAIN wire'[s]
          PROVE  wire'[s][i].type = "START_DP_WAVE" /\ wire'[s][i].wave <= w
      <4>1. CASE s = r
        <5>1. i + 1 \in DOMAIN wire[r] /\ wire'[r][i] = wire[r][i + 1]
          BY <2>3, <3>2, <3>3, <4>1
        <5> QED BY <1>3, <4>1, <5>1 DEF WireUpTo
      <4>2. CASE s # r
        BY <1>3, <3>2, <3>3, <4>2 DEF WireUpTo
      <4> QED BY <4>1, <4>2
    <3> QED BY <1>2, <3>3 DEF WireUpTo
  <2>7. UNCHANGED <<coordinator, toCoordinator, frontEnd>>
    BY <2>1 DEF Deliver, coordVars, clientVars
  <2> QED BY <1>3, <1>4, <1>6, <2>5, <2>6, <2>7
<1>15. CASE \E r \in Ranks : SendCall(r)
  <2>1. PICK r \in Ranks : SendCall(r)
    BY <1>15
  <2>2. PICK m \in Letters : /\ inbox' = [inbox EXCEPT ![r] = Append(@, m)]
                             /\ m.type \in {"PAUSE", "RESUME"}
    BY <2>1, Kinds DEF SendCall, Types
  <2>3. \A s \in Ranks : UpTo(s, w)'
    BY <1>8, <2>2
  <2>4. UNCHANGED <<wire, coordinator, toCoordinator, frontEnd>>
    BY <2>1 DEF SendCall, coordVars
  <2> QED BY <1>3, <1>4, <1>5, <1>6, <2>3, <2>4
<1>16. CASE (\E mode \in scenario.modes : BeginPause(mode)) \/ BeginResume \/ EndCall
  <2>1. UNCHANGED <<inbox, wire, coordinator, toCoordinator, frontEnd>>
    BY <1>16 DEF BeginPause, BeginResume, EndCall, coordVars
  <2> QED BY <1>3, <1>4, <1>5, <1>6, <1>7, <2>1
<1> QED BY <1>10, <1>11, <1>12, <1>13, <1>14, <1>15, <1>16 DEF Transport, Client

\* OneWave is kept by a rank that takes a message: no message takes it into
\* another wave.
LEMMA WavesOfMessage ==
    ASSUME Types, OneWave, NEW r \in Ranks, HandleMessage(r)
    PROVE  OneWave'
<1> USE WavesAssumption
<1> DEFINE m == Head(inbox[r])
<1>1. /\ m \in Letters /\ \E i \in DOMAIN inbox[r] : inbox[r][i] = m
      /\ \A s \in Ranks, w \in Nat : UpTo(s, w) => UpTo(s, w)'
  <2>1. inbox[r] # <<>> /\ inbox' = [inbox EXCEPT ![r] = Tail(@)]
    BY DEF HandleMessage
  <2> QED BY <2>1, TakeLetter
<1> HIDE DEF m
<1>2. Wave \in Nat /\ currentWave \in [Ranks -> Nat] /\ currentWave[r] = Wave
  BY DEF Wave, Types, OneWave
<1>3. m.type \in {"START_DP_WAVE", "ADD"} => m.wave \in Nat /\ m.wave <= Wave
  BY <1>1, Kinds DEF OneWave, UpTo
<1>4. UNCHANGED <<wire, coordinator, frontEnd>>
  BY DEF HandleMessage
<1>5. UNCHANGED currentWave
  <2>1. CASE HandleAdd(r, m)
    <3>1. currentWave' = [currentWave EXCEPT ![r] = IF m.wave > @ THEN m.wave ELSE @]
          /\ m.wave \in Nat /\ m.wave <= Wave
      BY <1>3, <2>1 DEF HandleAdd
    <3> QED BY <1>2, <3>1
  <2>2. CASE HandleStart(r, m)
    <3>1. /\ currentWave' = [currentWave EXCEPT ![r] = IF Heeded(r, m) THEN m.wave ELSE @]
          /\ m.wave \in Nat /\ m.wave <= Wave /\ (Heeded(r, m) => m.wave >= currentWave[r])
      BY <1>3, <2>2 DEF HandleStart, Heeded
    <3> QED BY <1>2, <3>1
  <2>3. CASE HandlePause(r, m) \/ HandleResume(r, m)
    BY <2>3 DEF HandlePause, HandleResume
  <2> QED BY <2>1, <2>2, <2>3 DEF HandleMessage, m
<1>6. UNCHANGED Wave
  BY <1>5 DEF Wave
<1>7. \A s \in Ranks : UpTo(s, Wave)'
  <2>1. PICK w \in Nat : w = Wave
    BY <1>2
  <2>2. \A s \in Ranks : UpTo(s, w)'
    BY <1>1, <2>1 DEF OneWave
  <2> QED BY <1>6, <2>1, <2>2 DEF UpTo
<1>8. \A i \in DOMAIN toCoordinator' :
         IF toCoordinator'[i].type = "wave_complete" THEN toCoordinator'[i].wave < Wave
                                                     ELSE toCoordinator'[i].wave <= Wave
  <2> DEFINE report == [type |-> "start_wave", wave |-> currentWave[r], rank |-> r]
  <2>1. report \in Reports /\ toCoordinator \in Seq(Reports)
    BY DEF Types, Reports
  <2>2. report.type = "start_wave" /\ report.wave = Wave
    BY <1>2
  <2>3. toCoordinator' = toCoordinator \/ toCoordinator' = Append(toCoordinator, report)
    BY DEF HandleMessage, HandleAdd, HandleStart, HandlePause, HandleResume
  <2> HIDE DEF report
  <2>4. ASSUME NEW i \in DOMAIN toCoordinator'
        PROVE  \/ i \in DOMAIN toCoordinator /\ toCoordinator'[i] = toCoordinator[i]
               \/ toCoordinator'[i] = report
    BY <2>1, <2>3, AppendElements
  <2> QED BY <1>2, <2>2, <2>4 DEF OneWave
<1> QED BY <1>4, <1>5, <1>6, <1>7, <1>8 DEF OneWave

\* OneWave is kept by the ranks: the all-reduce ends the wave of all of them in
\* one step.
LEMMA WavesOfEngines ==
    ASSUME Types, OneWave, Engines
    PROVE  OneWave'
<1> USE WavesAssumption
<1>1. ASSUME UNCHANGED <<currentWave, wire, coordinator, frontEnd, toCoordinator, inbox>>
      PROVE  OneWave'
  BY <1>1, SameLetters DEF OneWave, Wave, UpTo
<1>2. CASE Forward \/ ResumeAllReduce
  BY <1>1, <1>2 DEF Forward, ResumeAllReduce, coordVars, clientVars
<1>3. CASE AllReduce
  <2>1. CASE UNCHANGED <<currentWave, toCoordinator>>
    BY <1>1, <1>3, <2>1 DEF AllReduce, clientVars
  <2>2. CASE ~UNCHANGED <<currentWave, toCoordinator>>
    <3> DEFINE report == [type |-> "wave_complete", wave |-> currentWave[0], rank |-> 0]
    <3>1. /\ currentWave' = [r \in Ranks |-> currentWave[r] + 1]
          /\ toCoordinator' = Append(toCoordinator, report)
          /\ UNCHANGED <<wire, coordinator, frontEnd, inbox>>
      BY <1>3, <2>2 DEF AllReduce, NextWave, clientVars
    <3>2. Wave \in Nat /\ Wave' = Wave + 1 /\ \A r \in Ranks : currentWave'[r] = Wave'
      BY <3>1 DEF Wave, Types, OneWave
    <3>3. report \in Reports /\ toCoordinator \in Seq(Reports)
      BY DEF Types, Reports
    <3>4. report.type = "wave_complete" /\ report.wave = Wave
      BY DEF Wave
    <3> HIDE DEF report
    <3>5. ASSUME NEW i \in DOMAIN toCoordinator'
          PROVE  IF toCoordinator'[i].type = "wave_complete" THEN toCoordinator'[i].wave < Wave'
                                                             ELSE toCoordinator'[i].wave <= Wave'
      <4>1. \/ i \in DOMAIN toCoordinator /\ toCoordinator'[i] = toCoordinator[i]
            \/ toCoordinator'[i] = report
        BY <3>1, <3>3, AppendElements
      <4>2. CASE i \in DOMAIN toCoordinator /\ toCoordinator'[i] = toCoordinator[i]
        <5>1. toCoordinator[i] \in Reports
          BY <3>3, <4>2
        <5>2. toCoordinator[i].wave \in Nat
          BY <5>1 DEF Reports
        <5> QED BY <3>2, <4>2, <5>2 DEF OneWave
      <4> QED BY <3>2, <3>4, <4>1, <4>2
    <3>6. ASSUME NEW r \in Ranks PROVE UpTo(r, Wave)'
      <4>1. \A i \in DOMAIN inbox[r] : inbox[r][i] \in Letters
        BY DEF Types
      <4>2. \A i \in DOMAIN inbox[r] :
              inbox[r][i].type \in {"START_DP_WAVE", "ADD"} =>
                  inbox[r][i].wave \in Nat /\ inbox[r][i].wave <= Wave
        BY <4>1, Kinds DEF OneWave, UpTo
      <4> QED BY <3>1, <3>2, <4>2 DEF UpTo
    <3>7. \A r \in Ranks : \A i \in DOMAIN wire[r] :
             wire[r][i].type = "START_DP_WAVE" /\ wire[r][i].wave <= Wave'
      <4> SUFFICES ASSUME NEW r \in Ranks, NEW i \in DOMAIN wire[r]
                   PROVE  wire[r][i].type = "START_DP_WAVE" /\ wire[r][i].wave <= Wave'
        OBVIOUS
      <4>1. wire[r][i] \in Letters
        BY DEF Types
      <4>2. wire[r][i].type = "START_DP_WAVE" /\ wire[r][i].wave <= Wave
        BY DEF OneWave
      <4>3. wire[r][i].wave \in Nat
        BY <4>1, <4>2, Kinds
      <4> QED BY <3>2, <4>2, <4>3
    <3>8. coordinator.wave <= Wave' /\ frontEnd.wave <= Wave'
      BY <3>2 DEF OneWave, Types
    <3> QED BY <3>1, <3>2, <3>5, <3>6, <3>7, <3>8 DEF OneWave
  <2> QED BY <2>1, <2>2
<1>4. ASSUME NEW r \in Ranks, NotifyIdle(r) \/ LeaveIdleLoop(r) \/ Step(r)
      PROVE  OneWave'
  BY <1>1, <1>4 DEF NotifyIdle, LeaveIdleLoop, Step, coordVars, clientVars
<1> QED BY <1>2, <1>3, <1>4, WavesOfMessage DEF Engines, Rank

-----------------------------------------------------------------------------
(* The requests *)

\* OnePlace is kept when requests only leave the places they had.
LEMMA PlacesKept ==
    ASSUME OnePlace, sent' = sent,
           \A q \in Requests, r \in Ranks :
              /\ Held(q, r)' => Held(q, r) /\ left'[q] > 0
              /\ q \notin sent => left'[q] > 0
              /\ q \notin waiting'[r] \cap running'[r]
              /\ Added(q, r)' => q \notin waiting'[r] \cup running'[r]
              /\ OnceAdded(q, r)'
    PROVE  OnePlace'
BY DEF OnePlace

\* OnePlace is kept when no request moves and none is added to an input queue.
LEMMA PlacesOfMail ==
    ASSUME OnePlace, UNCHANGED <<waiting, running, left, sent>>,
           \A q \in Requests, r \in Ranks :
              /\ Added(q, r)' => Added(q, r)
              /\ OnceAdded(q, r) => OnceAdded(q, r)'
    PROVE  OnePlace'
<1>1. ASSUME NEW q \in Requests, NEW r \in Ranks
      PROVE  /\ Held(q, r)' => Held(q, r) /\ left'[q] > 0
             /\ q \notin sent => left'[q] > 0
             /\ q \notin waiting'[r] \cap running'[r]
             /\ Added(q, r)' => q \notin waiting'[r] \cup running'[r]
             /\ OnceAdded(q, r)'
  BY DEF OnePlace, Held
<1> QED BY <1>1, PlacesKept

\* OnePlace is kept by clients, coordinator and wires: a request is sent once.
LEMMA PlacesOfTransport ==
    ASSUME Types, OneWave, OnePlace, Transport \/ Client
    PROVE  OnePlace'
<1>1. CASE \E q \in Requests, r \in Ranks : SendRequest(q, r)
  <2>1. PICK p \in Requests, t \in Ranks : SendRequest(p, t)
    BY <1>1
  <2>2. PICK v \in Nat : v = frontEnd.wave
    BY DEF Types
  <2>3. Add(p, v) \in Letters /\ \A q : IsAdd(Add(p, v), q) <=> q = p
    BY Kinds
  <2>4. /\ UNCHANGED <<waiting, running, left>>
        /\ sent' = sent \cup {p} /\ p \notin sent
        /\ inbox' = [inbox EXCEPT ![t] = Append(@, Add(p, v))]
    BY <2>1, <2>2 DEF SendRequest, rankVars
  <2>5. ASSUME NEW q \in Requests, NEW r \in Ranks
        PROVE  /\ Added(q, r)' <=> Added(q, r) \/ (r = t /\ q = p)
               /\ OnceAdded(q, r) /\ (r = t /\ q = p => ~Added(q, r)) => OnceAdded(q, r)'
    BY <2>3, <2>4, PutLetter
  <2>6. \A r \in Ranks : ~Held(p, r)
    BY <2>4 DEF OnePlace
  <2>7. \A q \in Requests, r \in Ranks : OnceAdded(q, r)'
    BY <2>5, <2>6 DEF OnePlace, Held
  <2>8. \A q \in Requests, r \in Ranks : Held(q, r)' <=> Held(q, r) \/ (r = t /\ q = p)
    BY <2>4, <2>5 DEF Held
  <2>9. left[p] > 0
    BY <2>4 DEF OnePlace
  <2> QED BY <2>4, <2>5, <2>6, <2>7, <2>8, <2>9 DEF OnePlace, Held
<1>2. ASSUME NEW r \in Ranks, NEW m \in Letters, inbox' = [inbox EXCEPT ![r] = Append(@, m)],
             m.type # "ADD", UNCHANGED <<waiting, running, left, sent>>
      PROVE  OnePlace'
  <2>1. \A q \in Requests : ~IsAdd(m, q)
    BY <1>2 DEF IsAdd
  <2>2. \A q \in Requests, s \in Ranks :
           /\ Added(q, s)' => Added(q, s)
           /\ OnceAdded(q, s) => OnceAdded(q, s)'
    BY <1>2, <2>1, PutLetter
  <2> QED BY <1>2, <2>2, PlacesOfMail
<1>3. CASE \E r \in Ranks : Deliver(r)
  <2>1. PICK r \in Ranks : Deliver(r)
    BY <1>3
  <2>2. wire[r] \in Seq(Letters) /\ wire[r] # <<>>
    BY <2>1 DEF Deliver, Types
  <2>3. 1 \in DOMAIN wire[r] /\ Head(wire[r]) = wire[r][1] /\ Head(wire[r]) \in Letters
    <3> HIDE DEF Letters
    <3> QED BY <2>2, TailElements
  <2>4. Head(wire[r]).type = "START_DP_WAVE"
    BY <2>3 DEF OneWave
  <2> QED BY <1>2, <2>1, <2>3, <2>4 DEF Deliver, rankVars, clientVars
<1>4. CASE \E r \in Ranks : SendCall(r)
  <2>1. PICK r \in Ranks : SendCall(r)
    BY <1>4
  <2>2. PICK m \in Letters : /\ inbox' = [inbox EXCEPT ![r] = Append(@, m)]
                             /\ m.type \in {"PAUSE", "RESUME"}
    BY <2>1, Kinds DEF SendCall, Types
  <2> QED BY <1>2, <2>1, <2>2 DEF SendCall, rankVars
<1>5. CASE \/ Observe \/ CoordinateFirstRequest \/ CoordinateEngines
           \/ (\E mode \in scenario.modes : BeginPause(mode)) \/ BeginResume \/ EndCall
  <2>1. UNCHANGED <<inbox, waiting, running, left, sent>>
    BY <1>5 DEF Observe, CoordinateFirstRequest, CoordinateEngines, BeginPause, BeginResume,
       EndCall, rankVars, clientVars
  <2> QED BY <2>1, SameLetters, PlacesOfMail
<1> QED BY <1>1, <1>3, <1>4, <1>5 DEF Transport, Client

\* OnePlace is kept by a rank that takes a message: an ADD moves its request to
\* the scheduler.
LEMMA PlacesOfMessage ==
    ASSUME Types, OnePlace, NEW r \in Ranks, HandleMessage(r)
    PROVE  OnePlace'
<1> DEFINE m == Head(inbox[r])
<1>1. /\ m \in Letters
      /\ \A s \in Ranks, q \in Requests :
            /\ Added(q, s)' => Added(q, s)
            /\ OnceAdded(q, s) => OnceAdded(q, s)'
      /\ \A q \in Requests : IsAdd(m, q) => Added(q, r) /\ (OnceAdded(q, r) => ~Added(q, r)')
  <2>1. inbox[r] # <<>> /\ inbox' = [inbox EXCEPT ![r] = Tail(@)]
    BY DEF HandleMessage
  <2> QED BY <2>1, TakeLetter
<1>2. UNCHANGED sent /\ (HandleAdd(r, m) \/ HandleStart(r, m) \/ HandlePause(r, m) \/ HandleResume(r, m))
  BY DEF HandleMessage
<1> HIDE DEF m
<1>3. CASE HandleAdd(r, m)
  <2>1. PICK p \in Requests : p = m.id /\ IsAdd(m, p)
    BY <1>1, <1>3, Kinds DEF HandleAdd, IsAdd
  <2>2. UNCHANGED <<running, left>> /\ waiting' = [waiting EXCEPT ![r] = @ \cup {p}]
    BY <1>3, <2>1 DEF HandleAdd
  <2>3. waiting'[r] = waiting[r] \cup {p} /\ \A s \in Ranks : s # r => waiting'[s] = waiting[s]
    BY <2>2 DEF Types
  <2>4. Added(p, r) /\ ~Added(p, r)'
    BY <1>1, <2>1 DEF OnePlace
  <2>5. ASSUME NEW q \in Requests, NEW s \in Ranks
        PROVE  /\ Held(q, s)' => Held(q, s) /\ left'[q] > 0
               /\ q \notin sent => left'[q] > 0
               /\ q \notin waiting'[s] \cap running'[s]
               /\ Added(q, s)' => q \notin waiting'[s] \cup running'[s]
               /\ OnceAdded(q, s)'
    <3>1. CASE q = p /\ s = r
      BY <1>1, <2>1, <2>2, <2>3, <2>4, <3>1 DEF OnePlace, Held
    <3>2. CASE ~(q = p /\ s = r)
      <4>1. q \in waiting'[s] <=> q \in waiting[s]
        BY <2>3, <3>2
      <4> QED BY <1>1, <2>2, <4>1 DEF OnePlace, Held
    <3> QED BY <3>1, <3>2
  <2> QED BY <1>2, <2>5, PlacesKept
<1>4. CASE HandleStart(r, m) \/ HandleResume(r, m)
  BY <1>1, <1>2, <1>4, PlacesOfMail DEF HandleStart, HandleResume
<1>5. CASE HandlePause(r, m)
  <2>1. \A s \in Ranks : waiting'[s] \subseteq waiting[s] /\ running'[s] \subseteq running[s]
    BY <1>5 DEF HandlePause, Types
  <2>2. UNCHANGED left
    BY <1>5 DEF HandlePause
  <2>3. ASSUME NEW q \in Requests, NEW s \in Ranks
        PROVE  /\ Held(q, s)' => Held(q, s) /\ left'[q] > 0
               /\ q \notin sent => left'[q] > 0
               /\ q \notin waiting'[s] \cap running'[s]
               /\ Added(q, s)' => q \notin waiting'[s] \cup running'[s]
               /\ OnceAdded(q, s)'
    BY <1>1, <2>1, <2>2 DEF OnePlace, Held
  <2> QED BY <1>2, <2>3, PlacesKept
<1> QED BY <1>2, <1>3, <1>4, <1>5

\* OnePlace is kept by a step: what has made its last step leaves.
LEMMA PlacesOfStep ==
    ASSUME Types, OnePlace, NEW r \in Ranks, Step(r)
    PROVE  OnePlace'
<1>1. UNCHANGED <<inbox, sent>>
  BY DEF Step, clientVars
<1>2. CASE ~HasRequests(r)
  <2>1. UNCHANGED <<running, waiting, left>>
    BY <1>2 DEF Step
  <2> QED BY <1>1, <2>1, SameLetters, PlacesOfMail
<1>3. CASE HasRequests(r)
  <2> DEFINE admitted  == IF pauseState[r] = "UNPAUSED" THEN waiting[r] ELSE {}
             scheduled == IF pauseState[r] = "PAUSED_ALL" THEN {} ELSE running[r] \union admitted
             stopped   == {q \in scheduled : left[q] = 1}
             stays     == (running[r] \union scheduled) \ stopped
  <2>1. /\ running' = [running EXCEPT ![r] = stays]
        /\ waiting' = [waiting EXCEPT ![r] = StillWaiting(r, scheduled)]
        /\ left' = [q \in Requests |-> left[q] - IF q \in scheduled THEN 1 ELSE 0]
    BY <1>3 DEF Step
  <2>2. scheduled \subseteq waiting[r] \cup running[r]
    OBVIOUS
  <2> HIDE DEF scheduled
  <2>3. /\ running'[r] = stays /\ waiting'[r] = waiting[r] \ scheduled
        /\ \A s \in Ranks : s # r => running'[s] = running[s] /\ waiting'[s] = waiting[s]
    BY <2>1 DEF Types, StillWaiting
  <2>4. \A q \in Requests : left'[q] = left[q] - (IF q \in scheduled THEN 1 ELSE 0) /\ left[q] \in Nat
    BY <2>1 DEF Types
  <2>5. \A q \in Requests, s \in Ranks :
           (Added(q, s)' <=> Added(q, s)) /\ (OnceAdded(q, s)' <=> OnceAdded(q, s))
    BY <1>1, SameLetters
  <2>6. ASSUME NEW q \in Requests, NEW s \in Ranks, Held(q, s)'
        PROVE  Held(q, s) /\ left'[q] > 0
    <3>1. CASE s = r
      <4>1. Held(q, r)
        BY <2>2, <2>3, <2>5, <2>6, <3>1 DEF Held
      <4>2. left[q] > 0
        BY <4>1 DEF OnePlace
      <4>3. CASE q \in scheduled
        <5>1. q \notin waiting'[r]
          BY <2>3, <4>3
        <5>2. ~Added(q, r)'
          BY <2>2, <2>5, <4>3 DEF OnePlace
        <5>3. q \in running'[r]
          BY <2>6, <3>1, <5>1, <5>2 DEF Held
        <5>4. left[q] # 1
          BY <2>3, <4>3, <5>3
        <5> QED BY <2>4, <3>1, <4>1, <4>2, <4>3, <5>4
      <4>4. CASE q \notin scheduled
        BY <2>4, <3>1, <4>1, <4>2, <4>4
      <4> QED BY <4>3, <4>4
    <3>2. CASE s # r
      <4>1. Held(q, s)
        BY <2>3, <2>5, <2>6, <3>2 DEF Held
      <4>2. q \notin scheduled
        BY <2>2, <3>2, <4>1 DEF OnePlace, Held
      <4> QED BY <2>4, <4>1, <4>2 DEF OnePlace
    <3> QED BY <3>1, <3>2
  <2>7. ASSUME NEW q \in Requests, q \notin sent PROVE left'[q] > 0
    <3>1. left[q] > 0 /\ q \notin scheduled
      BY <2>2, <2>7 DEF OnePlace, Held
    <3> QED BY <2>4, <3>1
  <2>8. ASSUME NEW q \in Requests, NEW s \in Ranks
        PROVE  /\ q \notin waiting'[s] \cap running'[s]
               /\ Added(q, s)' => q \notin waiting'[s] \cup running'[s]
               /\ OnceAdded(q, s)'
    <3>1. CASE s = r
      BY <2>2, <2>3, <2>5, <3>1 DEF OnePlace
    <3>2. CASE s # r
      BY <2>3, <2>5, <3>2 DEF OnePlace
    <3> QED BY <3>1, <3>2
  <2> QED BY <1>1, <2>6, <2>7, <2>8, PlacesKept
<1> QED BY <1>2, <1>3

\* OnePlace is kept by the ranks: a preemption moves what runs back to waiting.
LEMMA PlacesOfEngines ==
    ASSUME Types, OnePlace, Engines
    PROVE  OnePlace'
<1>1. CASE Forward \/ AllReduce \/ ResumeAllReduce \/ \E r \in Ranks : LeaveIdleLoop(r)
  <2>1. UNCHANGED <<inbox, waiting, running, left, sent>>
    BY <1>1 DEF Forward, AllReduce, ResumeAllReduce, LeaveIdleLoop, clientVars
  <2> QED BY <2>1, SameLetters, PlacesOfMail
<1>2. ASSUME NEW r \in Ranks, NotifyIdle(r) PROVE OnePlace'
  <2>1. /\ waiting'[r] = waiting[r] \cup running[r] /\ running'[r] = {}
        /\ \A s \in Ranks : s # r => running'[s] = running[s] /\ waiting'[s] = waiting[s]
        /\ UNCHANGED <<left, sent, inbox>>
    BY <1>2 DEF NotifyIdle, Types
  <2>2. \A q \in Requests, s \in Ranks :
           (Added(q, s)' <=> Added(q, s)) /\ (OnceAdded(q, s)' <=> OnceAdded(q, s))
    BY <2>1, SameLetters
  <2>3. ASSUME NEW q \in Requests, NEW s \in Ranks
        PROVE  /\ Held(q, s)' => Held(q, s) /\ left'[q] > 0
               /\ q \notin sent => left'[q] > 0
               /\ q \notin waiting'[s] \cap running'[s]
               /\ Added(q, s)' => q \notin waiting'[s] \cup running'[s]
               /\ OnceAdded(q, s)'
    <3>1. q \in waiting'[s] \cup running'[s] <=> q \in waiting[s] \cup running[s]
      BY <2>1
    <3>2. q \notin waiting'[s] \cap running'[s]
      BY <2>1 DEF OnePlace
    <3> QED BY <2>1, <2>2, <3>1, <3>2 DEF OnePlace, Held
  <2> QED BY <2>1, <2>3, PlacesKept
<1> QED BY <1>1, <1>2, PlacesOfMessage, PlacesOfStep DEF Engines, Rank

-----------------------------------------------------------------------------
(* The stages of a pause *)

\* Rank s is as it was.
RankAsBefore(s) ==
    /\ pendingPause'[s] = pendingPause[s] /\ ignoreStart'[s] = ignoreStart[s]
    /\ pausing'[s] = pausing[s] /\ pauseState'[s] = pauseState[s]
    /\ enginesRunning'[s] = enginesRunning[s] /\ pc'[s] = pc[s]
    /\ waiting'[s] = waiting[s] /\ running'[s] = running[s]

\* Rank s is in the stage it was in.
StageAsBefore(s) ==
    /\ Normal(s) => Normal(s)'
    /\ Asked(s) => Asked(s)'
    /\ Stopping(s) => Stopping(s)'
    /\ Stopped(s) => Stopped(s)'
    /\ Barrier(s) => Barrier(s)'
    /\ pausing'[s] = pausing[s]

\* A rank that is as it was is in the stage it was in.
LEMMA SameRank ==
    ASSUME NEW s \in Ranks, RankAsBefore(s)
    PROVE  StageAsBefore(s) /\ Unfinished(s)' = Unfinished(s)
<1>1. (Resuming(s)' <=> Resuming(s)) /\ Unfinished(s)' = Unfinished(s)
  BY DEF RankAsBefore, Resuming, Unfinished
<1> QED BY <1>1 DEF RankAsBefore, StageAsBefore, Normal, Asked, Stopping, Stopped, Barrier

\* Ranks that stay in their stages stay in them together.
LEMMA SameStage ==
    ASSUME Stages, call' = call,
           \A s \in Ranks : (Called(s)' <=> Called(s)) /\ StageAsBefore(s)
    PROVE  Stages'
<1>1. Open => Open'
  BY DEF Open, StageAsBefore
<1>2. Asking => Asking'
  BY DEF Asking, StageAsBefore
<1>3. Agreed => Agreed'
  BY DEF Agreed, StageAsBefore
<1>4. Halted => Halted'
  BY DEF Halted, StageAsBefore
<1>5. Meeting => Meeting'
  BY DEF Meeting, StageAsBefore
<1> QED BY <1>1, <1>2, <1>3, <1>4, <1>5 DEF Stages

\* With no call in the queue there is nothing to ask of one.
LEMMA UncalledFits ==
    ASSUME NEW r \in Ranks, ~Called(r)
    PROVE  OnceCalled(r) /\ CallFits(r)
BY DEF Called, OnceCalled, CallFits, CallTypes

\* A call at the head of a queue is of the call in progress.
LEMMA CalledFits ==
    ASSUME CallsFit, NEW r \in Ranks, inbox[r] # <<>>, Types
    PROVE  /\ Head(inbox[r]).type = "PAUSE" => call.phase = "pause"
           /\ Head(inbox[r]).type = "RESUME" => call.phase = "resume"
           /\ Head(inbox[r]).type \in CallTypes => Called(r)
<1>1. 1 \in DOMAIN inbox[r] /\ Head(inbox[r]) = inbox[r][1]
  <2>1. inbox[r] \in Seq(Letters)
    BY DEF Types
  <2> HIDE DEF Letters
  <2> QED BY <2>1, TailElements
<1> QED BY <1>1 DEF CallsFit, CallFits, Called

\* The stages are kept when a call is put into the queue of a rank: none was
\* there.
LEMMA StagesOfSending ==
    ASSUME Types, CallsFit, Stages, NEW r \in Ranks, SendCall(r)
    PROVE  CallsFit' /\ Stages'
<1>1. PICK m \in Letters : /\ inbox' = [inbox EXCEPT ![r] = Append(@, m)]
                           /\ m.type = IF call.phase = "pause" THEN "PAUSE" ELSE "RESUME"
  <2>1. CASE call.phase = "pause"
    <3>1. PICK mode \in Modes : mode = call.mode
      BY <2>1 DEF Types
    <3>2. inbox' = [inbox EXCEPT ![r] = Append(@, Pause(mode))]
      BY <2>1, <3>1 DEF SendCall
    <3>3. Pause(mode) \in Letters /\ Pause(mode).type = "PAUSE"
      BY Kinds
    <3> QED BY <2>1, <3>2, <3>3
  <2>2. CASE call.phase # "pause"
    <3>1. inbox' = [inbox EXCEPT ![r] = Append(@, Resume)]
      BY <2>2 DEF SendCall
    <3>2. Resume \in Letters /\ Resume.type = "RESUME"
      BY Kinds
    <3> QED BY <2>2, <3>1, <3>2
  <2> QED BY <2>1, <2>2
<1>2. /\ call' = [call EXCEPT !.unsent = @ \ {r}] /\ r \in call.unsent
      /\ UNCHANGED rankVars
  BY DEF SendCall
<1>3. /\ call'.phase = call.phase /\ call'.awaited = call.awaited
      /\ call'.unsent = call.unsent \ {r}
  BY <1>2 DEF Types
<1>4. \A s \in Ranks : Called(s)' <=> Called(s) \/ s = r
  BY <1>1, PutLetter DEF CallTypes
<1>5. \A s \in Ranks : StageAsBefore(s)
  BY <1>2, SameRank DEF RankAsBefore, rankVars
<1>6. /\ ~Called(r)
      /\ (call.phase = "pause" /\ Asking) \/ (call.phase = "resume" /\ Meeting)
  <2>1. /\ call.unsent # {}
        /\ (call.phase = "pause" /\ Asking) \/ (call.phase = "resume" /\ Meeting)
    BY <1>2 DEF Stages, Agreed, Halted
  <2>2. Asking => ~Called(r)
    BY <1>2 DEF Asking
  <2>3. Meeting => ~Called(r)
    BY <1>2 DEF Meeting
  <2> QED BY <2>1, <2>2, <2>3
<1>7. CallsFit'
  <2>1. \A s \in Ranks :
           OnceCalled(s) /\ (m.type \in CallTypes => ~Called(r)) => OnceCalled(s)'
    BY <1>1, PutLetter
  <2>2. \A s \in Ranks :
           /\ CallFits(s) /\ call'.phase = call.phase
           /\ m.type = "PAUSE" => call.phase = "pause"
           /\ m.type = "RESUME" => call.phase = "resume"
           => CallFits(s)'
    BY <1>1, PutLetter
  <2> QED BY <1>1, <1>3, <1>6, <2>1, <2>2 DEF CallsFit
<1>8. CASE call.phase = "pause" /\ Asking
  <2>1. Asking'
    BY <1>2, <1>3, <1>4, <1>5, <1>6, <1>8 DEF Asking, StageAsBefore
  <2> QED BY <1>3, <1>7, <1>8, <2>1 DEF Stages
<1>9. CASE call.phase = "resume" /\ Meeting
  <2>1. Meeting'
    BY <1>2, <1>3, <1>4, <1>5, <1>6, <1>9 DEF Meeting, StageAsBefore
  <2> QED BY <1>3, <1>7, <1>9, <2>1 DEF Stages
<1> QED BY <1>6, <1>8, <1>9

\* They are kept when the client begins or ends a call: it ends one when all
\* ranks have answered, and resumes only what it has paused.
LEMMA StagesOfCalling ==
    ASSUME Types, CallsFit, Stages, ~StrayResume,
           (\E mode \in scenario.modes : BeginPause(mode)) \/ BeginResume \/ EndCall
    PROVE  CallsFit' /\ Stages'
<1> USE WavesAssumption
<1>1. UNCHANGED <<rankVars, inbox>>
  BY DEF BeginPause, BeginResume, EndCall
<1>2. \A s \in Ranks : Called(s)' <=> Called(s)
  BY <1>1, SameLetters
<1>3. \A s \in Ranks : StageAsBefore(s)
  BY <1>1, SameRank DEF RankAsBefore, rankVars
<1>4. (\A s \in Ranks : ~Called(s)) => CallsFit'
  <2>1. (\A s \in Ranks : ~Called(s)) => \A s \in Ranks : ~Called(s)'
    BY <1>2
  <2>2. \A s \in Ranks : ~Called(s)' => OnceCalled(s)' /\ CallFits(s)'
    BY DEF Called, OnceCalled, CallFits, CallTypes
  <2> QED BY <2>1, <2>2 DEF CallsFit
<1>5. ASSUME NEW mode, BeginPause(mode) PROVE CallsFit' /\ Stages'
  <2>1. /\ call.phase = "none"
        /\ call' = [phase |-> "pause", mode |-> mode, unsent |-> Ranks, awaited |-> Ranks]
    BY <1>5 DEF BeginPause
  <2>2. Open
    BY <2>1 DEF Stages
  <2>3. Asking'
    BY <1>2, <1>3, <2>1, <2>2 DEF Open, Asking, StageAsBefore
  <2> QED BY <1>4, <2>1, <2>2, <2>3 DEF Stages, Open
<1>6. CASE BeginResume
  <2>1. /\ call.phase = "pause" /\ call.awaited = {}
        /\ call' = [phase |-> "resume", mode |-> None, unsent |-> Ranks, awaited |-> Ranks]
    BY <1>6 DEF BeginResume
  <2>2. Halted
    BY <2>1 DEF Stages, Asking, Agreed
  <2>3. Meeting'
    BY <1>2, <1>3, <2>1, <2>2 DEF Halted, Meeting, StageAsBefore
  <2> QED BY <1>4, <2>1, <2>2, <2>3 DEF Stages, Halted
<1>7. CASE EndCall
  <2>1. call.phase = "resume" /\ call.awaited = {} /\ call' = NoCall
    BY <1>7 DEF EndCall
  <2>2. Open
    BY <2>1 DEF Stages, Meeting
  <2>3. Open'
    BY <1>2, <1>3, <2>2 DEF Open, StageAsBefore
  <2> QED BY <1>4, <2>1, <2>2, <2>3 DEF Stages, Open, NoCall
<1> QED BY <1>5, <1>6, <1>7

\* They are kept by clients, coordinator and wires.
LEMMA StagesOfTransport ==
    ASSUME Types, OneWave, CallsFit, Stages, ~StrayResume, Transport \/ Client
    PROVE  CallsFit' /\ Stages'
<1>1. ASSUME UNCHANGED rankVars PROVE \A s \in Ranks : StageAsBefore(s)
  BY <1>1, SameRank DEF RankAsBefore, rankVars
<1>2. ASSUME NEW r \in Ranks, NEW m \in Letters, inbox' = [inbox EXCEPT ![r] = Append(@, m)],
             m.type \notin CallTypes, UNCHANGED <<rankVars, call>>
      PROVE  CallsFit' /\ Stages'
  <2>1. \A s \in Ranks : Called(s)' <=> Called(s)
    BY <1>2, PutLetter
  <2>2. \A s \in Ranks : OnceCalled(s) => OnceCalled(s)'
    BY <1>2, PutLetter
  <2>3. \A s \in Ranks : CallFits(s) => CallFits(s)'
    BY <1>2, PutLetter DEF CallTypes
  <2> QED BY <1>1, <1>2, <2>1, <2>2, <2>3, SameStage DEF CallsFit
<1>3. CASE \E q \in Requests, r \in Ranks : SendRequest(q, r)
  <2>1. PICK q \in Requests, r \in Ranks : SendRequest(q, r)
    BY <1>3
  <2>2. PICK v \in Nat : v = frontEnd.wave
    BY DEF Types
  <2>3. Add(q, v) \in Letters /\ Add(q, v).type \notin CallTypes
    BY Kinds DEF CallTypes
  <2>4. /\ inbox' = [inbox EXCEPT ![r] = Append(@, Add(q, v))]
        /\ UNCHANGED <<rankVars, call>>
    BY <2>1, <2>2 DEF SendRequest
  <2> QED BY <1>2, <2>3, <2>4
<1>4. CASE \E r \in Ranks : Deliver(r)
  <2>1. PICK r \in Ranks : Deliver(r)
    BY <1>4
  <2>2. wire[r] \in Seq(Letters) /\ wire[r] # <<>>
    BY <2>1 DEF Deliver, Types
  <2>3. 1 \in DOMAIN wire[r] /\ Head(wire[r]) = wire[r][1] /\ Head(wire[r]) \in Letters
    <3> HIDE DEF Letters
    <3> QED BY <2>2, TailElements
  <2>4. Head(wire[r]).type \notin CallTypes
    BY <2>3 DEF OneWave, CallTypes
  <2>5. /\ inbox' = [inbox EXCEPT ![r] = Append(@, Head(wire[r]))]
        /\ UNCHANGED <<rankVars, call>>
    BY <2>1 DEF Deliver, clientVars
  <2> QED BY <1>2, <2>3, <2>4, <2>5
<1>5. CASE Observe \/ CoordinateFirstRequest \/ CoordinateEngines
  <2>1. UNCHANGED <<rankVars, inbox, call>>
    BY <1>5 DEF Observe, CoordinateFirstRequest, CoordinateEngines, clientVars
  <2>2. \A s \in Ranks : /\ Called(s)' <=> Called(s)
                         /\ OnceCalled(s)' <=> OnceCalled(s)
                         /\ CallFits(s)' <=> CallFits(s)
    BY <2>1, SameLetters
  <2> QED BY <1>1, <2>1, <2>2, SameStage DEF CallsFit
<1> QED BY <1>3, <1>4, <1>5, StagesOfSending, StagesOfCalling DEF Transport, Client

\* They are kept by a rank that takes a message: no START_DP_WAVE and no late
\* request wakes a rank that has stopped, a pause finds its rank at work, and a
\* resume finds it stopped.
LEMMA StagesOfMessage ==
    ASSUME Types, CallsFit, Stages, NEW r \in Ranks, HandleMessage(r)
    PROVE  CallsFit' /\ Stages'
<1> DEFINE m == Head(inbox[r])
<1>1. inbox[r] # <<>> /\ inbox' = [inbox EXCEPT ![r] = Tail(@)]
  BY DEF HandleMessage
<1>2. /\ \A s \in Ranks : s # r => (Called(s)' <=> Called(s))
      /\ Called(r)' => Called(r)
      /\ m.type \notin CallTypes => (Called(r) => Called(r)')
      /\ m.type \in CallTypes => Called(r) /\ (OnceCalled(r) => ~Called(r)')
  BY <1>1, TakeLetter
<1>3. /\ m.type = "PAUSE" => call.phase = "pause"
      /\ m.type = "RESUME" => call.phase = "resume"
  BY <1>1, CalledFits
<1>4. call'.phase = call.phase => CallsFit'
  <2>1. \A s \in Ranks : OnceCalled(s) => OnceCalled(s)'
    BY <1>1, TakeLetter
  <2>2. \A s \in Ranks : CallFits(s) /\ call'.phase = call.phase => CallFits(s)'
    BY <1>1, TakeLetter
  <2> QED BY <2>1, <2>2 DEF CallsFit
<1>5. /\ pc[r] \in {"poll", "drain"} /\ ~Resuming(r)
      /\ HandleAdd(r, m) \/ HandleStart(r, m) \/ HandlePause(r, m) \/ HandleResume(r, m)
  BY DEF HandleMessage, Resuming
<1>6. OnceCalled(r)
  BY DEF CallsFit
<1> HIDE DEF m
<1>7. CASE HandleAdd(r, m)
  <2>1. m.type \notin CallTypes /\ UNCHANGED call
    BY <1>7 DEF HandleAdd, CallTypes
  <2>2. /\ enginesRunning' = [enginesRunning EXCEPT ![r] = @ \/ StartsWave(r, m)]
        /\ UNCHANGED <<pc, running, pauseState, pendingPause, ignoreStart, pausing>>
        /\ waiting' = [waiting EXCEPT ![r] = @ \cup {m.id}]
    BY <1>7 DEF HandleAdd
  <2>3. \A s \in Ranks : s # r => StageAsBefore(s)
    <3>1. \A s \in Ranks : s # r => RankAsBefore(s)
      BY <2>2 DEF RankAsBefore, Types
    <3> QED BY <3>1, SameRank
  <2>4. StageAsBefore(r)
    <3>1. pauseState[r] # "UNPAUSED" => Unfinished(r)' = Unfinished(r) /\ enginesRunning'[r] = enginesRunning[r]
      BY <2>2 DEF Unfinished, Types, StartsWave
    <3>2. enginesRunning[r] => enginesRunning'[r]
      BY <2>2 DEF Types
    <3> QED BY <1>5, <2>2, <3>1, <3>2
            DEF StageAsBefore, Normal, Asked, Stopping, Stopped, Barrier, Resuming
  <2> QED BY <1>2, <1>4, <2>1, <2>3, <2>4, SameStage
<1>8. CASE HandleStart(r, m)
  <2>1. m.type \notin CallTypes /\ UNCHANGED call
    BY <1>8 DEF HandleStart, CallTypes
  <2>2. /\ enginesRunning' = [enginesRunning EXCEPT ![r] = @ \/ Heeded(r, m)]
        /\ UNCHANGED <<pc, waiting, running, pauseState, pendingPause, ignoreStart, pausing>>
    BY <1>8 DEF HandleStart
  <2>3. \A s \in Ranks : s # r => StageAsBefore(s)
    <3>1. \A s \in Ranks : s # r => RankAsBefore(s)
      BY <2>2 DEF RankAsBefore, Types
    <3> QED BY <3>1, SameRank
  <2>4. StageAsBefore(r)
    <3>1. ignoreStart[r] => enginesRunning'[r] = enginesRunning[r]
      BY <2>2 DEF Types, Heeded
    <3>2. (enginesRunning[r] => enginesRunning'[r]) /\ Unfinished(r)' = Unfinished(r)
      BY <2>2 DEF Types, Unfinished
    <3> QED BY <1>5, <2>2, <3>1, <3>2
            DEF StageAsBefore, Normal, Asked, Stopping, Stopped, Barrier, Resuming
  <2> QED BY <1>2, <1>4, <2>1, <2>3, <2>4, SameStage
<1>9. CASE HandlePause(r, m)
  <2>1. m.type = "PAUSE" /\ call.phase = "pause" /\ UNCHANGED call
    BY <1>3, <1>9 DEF HandlePause
  <2>2. Called(r) /\ ~Called(r)'
    BY <1>2, <1>6, <2>1 DEF CallTypes
  <2>3. Asking /\ Normal(r) /\ r \notin call.unsent
    <3>1. Asking
      BY <2>1, <2>2 DEF Stages, Agreed, Halted
    <3> QED BY <2>2, <3>1 DEF Asking
  <2>4. Asked(r)'
    <3>1. /\ pendingPause'[r] /\ pausing'[r] /\ enginesRunning'[r] /\ pauseState'[r] # "UNPAUSED"
          /\ UNCHANGED <<ignoreStart, pc>>
      BY <1>9 DEF HandlePause, Types
    <3> QED BY <2>3, <3>1 DEF Normal, Asked, Resuming
  <2>5. \A s \in Ranks : s # r => StageAsBefore(s)
    <3>1. \A s \in Ranks : s # r => RankAsBefore(s)
      BY <1>9 DEF HandlePause, RankAsBefore, Types
    <3> QED BY <3>1, SameRank
  <2>6. Asking'
    BY <1>2, <2>1, <2>2, <2>3, <2>4, <2>5 DEF Asking, StageAsBefore
  <2> QED BY <1>4, <2>1, <2>6 DEF Stages
<1>10. CASE HandleResume(r, m)
  <2>1. m.type = "RESUME" /\ call.phase = "resume"
    BY <1>3, <1>10 DEF HandleResume
  <2>2. Called(r) /\ ~Called(r)'
    BY <1>2, <1>6, <2>1 DEF CallTypes
  <2>3. Meeting /\ Stopped(r) /\ ~pausing[r] /\ r \notin call.unsent
    <3>1. Meeting
      BY <2>1, <2>2 DEF Stages, Open
    <3> QED BY <2>2, <3>1 DEF Meeting
  <2>4. /\ pauseState' = [pauseState EXCEPT ![r] = "UNPAUSED"]
        /\ ignoreStart' = [ignoreStart EXCEPT ![r] = FALSE]
        /\ pc' = [pc EXCEPT ![r] = IF @ = "poll" THEN "resume_poll" ELSE "resume_drain"]
        /\ UNCHANGED <<call, waiting, running, enginesRunning, pendingPause, pausing>>
    BY <1>10, <2>3 DEF HandleResume, Stopped, PauseInFlight
  <2>5. Barrier(r)'
    BY <2>3, <2>4 DEF Stopped, Barrier, Resuming, Types
  <2>6. \A s \in Ranks : s # r => StageAsBefore(s)
    <3>1. \A s \in Ranks : s # r => RankAsBefore(s)
      BY <2>4 DEF RankAsBefore, Types
    <3> QED BY <3>1, SameRank
  <2>7. Meeting'
    BY <1>2, <2>2, <2>3, <2>4, <2>5, <2>6 DEF Meeting, StageAsBefore
  <2> QED BY <1>4, <2>1, <2>4, <2>7 DEF Stages
<1> QED BY <1>5, <1>7, <1>8, <1>9, <1>10

\* They are kept by the idle callback of a pause: only a rank that has stopped
\* makes one, and preempting what runs leaves it with nothing to do.
LEMMA StagesOfIdling ==
    ASSUME Types, CallsFit, Stages, NEW r \in Ranks, NotifyIdle(r)
    PROVE  CallsFit' /\ Stages'
<1>1. /\ pc[r] = "poll" /\ pausing[r] /\ ~enginesRunning[r]
      /\ pausing' = [pausing EXCEPT ![r] = FALSE]
      /\ waiting' = [waiting EXCEPT ![r] = @ \union running[r]]
      /\ running' = [running EXCEPT ![r] = {}]
      /\ call' = [call EXCEPT !.awaited = @ \ {r}]
      /\ UNCHANGED <<pc, pauseState, enginesRunning, pendingPause, ignoreStart, inbox>>
  BY DEF NotifyIdle, HasWork, Answer
<1>2. /\ call'.phase = call.phase /\ call'.unsent = call.unsent
      /\ call'.awaited = call.awaited \ {r}
  BY <1>1 DEF Types
<1>3. \A s \in Ranks : /\ Called(s)' <=> Called(s)
                       /\ OnceCalled(s)' <=> OnceCalled(s)
                       /\ CallFits(s)' <=> CallFits(s)
  BY <1>1, <1>2, SameLetters
<1>4. ~Normal(r) /\ ~Asked(r) /\ ~Stopping(r) /\ ~Barrier(r)
  BY <1>1 DEF Normal, Asked, Stopping, Barrier
<1>5. call.phase = "pause" /\ Halted
  BY <1>1, <1>4 DEF Stages, Open, Asking, Agreed, Meeting
<1>6. Stopped(r)' /\ ~pausing'[r]
  <2>1. Stopped(r) /\ ~pausing'[r]
    BY <1>1, <1>5 DEF Halted, Types
  <2>2. Unfinished(r)' = {}
    BY <1>1, <2>1 DEF Unfinished, Stopped, Types
  <2> QED BY <1>1, <2>1, <2>2 DEF Stopped
<1>7. \A s \in Ranks : s # r => StageAsBefore(s)
  <2>1. \A s \in Ranks : s # r => RankAsBefore(s)
    BY <1>1 DEF RankAsBefore, Types
  <2> QED BY <2>1, SameRank
<1>8. Halted'
  BY <1>2, <1>3, <1>5, <1>6, <1>7 DEF Halted, StageAsBefore
<1> QED BY <1>2, <1>3, <1>5, <1>8 DEF Stages, CallsFit

\* They are kept by an iteration of a rank: a rank that has stopped makes no
\* forward pass.
LEMMA StagesOfStep ==
    ASSUME Types, CallsFit, Stages, NEW r \in Ranks, LeaveIdleLoop(r) \/ Step(r)
    PROVE  CallsFit' /\ Stages'
<1>1. UNCHANGED <<pauseState, enginesRunning, pendingPause, ignoreStart, pausing, inbox, call>>
  BY DEF LeaveIdleLoop, Step, clientVars
<1>2. \A s \in Ranks : /\ Called(s)' <=> Called(s)
                       /\ OnceCalled(s)' <=> OnceCalled(s)
                       /\ CallFits(s)' <=> CallFits(s)
  BY <1>1, SameLetters
<1>3. pc[r] \in {"poll", "drain"} /\ pc'[r] \in {"poll", "drain", "forward"}
  BY DEF LeaveIdleLoop, Step, Types
<1>4. \A s \in Ranks : s # r => StageAsBefore(s)
  <2>1. \A s \in Ranks : s # r => RankAsBefore(s)
    BY <1>1 DEF LeaveIdleLoop, Step, RankAsBefore, Types
  <2> QED BY <2>1, SameRank
<1>5. Stopped(r) => Stopped(r)'
  <2>1. CASE LeaveIdleLoop(r)
    <3>1. UNCHANGED <<waiting, running>> /\ pc'[r] = "drain"
      BY <2>1 DEF LeaveIdleLoop, Types
    <3> QED BY <1>1, <3>1 DEF Stopped, Unfinished
  <2>2. CASE Step(r)
    <3> SUFFICES ASSUME Stopped(r) PROVE Stopped(r)'
      OBVIOUS
    <3> DEFINE admitted  == IF pauseState[r] = "UNPAUSED" THEN waiting[r] ELSE {}
               scheduled == IF pauseState[r] = "PAUSED_ALL" THEN {} ELSE running[r] \union admitted
               stopped   == {q \in scheduled : left[q] = 1}
               stays     == (running[r] \union scheduled) \ stopped
    <3>1. pauseState[r] \in {"PAUSED_NEW", "PAUSED_ALL"} /\ ~enginesRunning[r]
      BY DEF Stopped, Types
    <3>2. scheduled = {} /\ (pauseState[r] = "PAUSED_NEW" => running[r] = {})
      BY <3>1 DEF Stopped, Unfinished
    <3>3. pauseState[r] = "PAUSED_NEW" => running'[r] = {}
      BY <2>2, <3>2 DEF Step, Types
    <3>4. Unfinished(r)' = {}
      BY <1>1, <3>1, <3>3 DEF Unfinished
    <3>5. pc' = [pc EXCEPT ![r] = IF ~(HasRequests(r) /\ scheduled # {}) /\ Unfinished(r)' = {} /\ ~enginesRunning[r]
                                  THEN "poll" ELSE "forward"]
      BY <2>2 DEF Step
    <3>6. pc'[r] = "poll"
      BY <3>1, <3>2, <3>4, <3>5 DEF Types
    <3> QED BY <1>1, <3>4, <3>6 DEF Stopped
  <2> QED BY <2>1, <2>2
<1>6. StageAsBefore(r)
  BY <1>1, <1>3, <1>5 DEF StageAsBefore, Normal, Asked, Stopping, Barrier, Resuming
<1> QED BY <1>1, <1>2, <1>4, <1>6, SameStage DEF CallsFit

\* They are kept by a forward pass: all ranks make it, so none of them has
\* stopped.
LEMMA StagesOfForward ==
    ASSUME Types, CallsFit, Stages, Forward
    PROVE  CallsFit' /\ Stages'
<1>1. /\ \A r \in Ranks : /\ pc[r] = "forward" /\ pc'[r] \in {"allreduce", "poll"}
                          /\ enginesRunning[r] => enginesRunning'[r]
      /\ UNCHANGED <<waiting, running, pauseState, pendingPause, ignoreStart, pausing, inbox, call>>
  BY DEF Forward, clientVars
<1>2. \A s \in Ranks : /\ Called(s)' <=> Called(s)
                       /\ OnceCalled(s)' <=> OnceCalled(s)
                       /\ CallFits(s)' <=> CallFits(s)
  BY <1>1, SameLetters
<1>3. \A s \in Ranks : StageAsBefore(s)
  BY <1>1 DEF StageAsBefore, Normal, Asked, Stopping, Stopped, Barrier, Resuming
<1> QED BY <1>1, <1>2, <1>3, SameStage DEF CallsFit

\* They are kept by the all-reduce: the pause takes effect at all ranks in the
\* step in which the last of them has it pending, and they stop together.
LEMMA StagesOfAllReduce ==
    ASSUME Types, CallsFit, Stages, AllReduce
    PROVE  CallsFit' /\ Stages'
<1> USE WavesAssumption
<1>1. /\ \A r \in Ranks : /\ pc[r] = "allreduce" /\ pc'[r] = "poll"
                          /\ enginesRunning'[r] = GlobalUnfinished
                          /\ ignoreStart'[r] <=> ignoreStart[r] \/ PauseConsensus
                          /\ pendingPause'[r] <=> pendingPause[r] /\ ~PauseConsensus
      /\ UNCHANGED <<waiting, running, pauseState, pausing, inbox, call>>
  BY DEF AllReduce, clientVars
<1>2. \A s \in Ranks : /\ Called(s)' <=> Called(s)
                       /\ OnceCalled(s)' <=> OnceCalled(s)
                       /\ CallFits(s)' <=> CallFits(s)
  BY <1>1, SameLetters
<1>3. CallsFit'
  BY <1>2 DEF CallsFit
<1>4. \A s \in Ranks : ~Resuming(s) /\ ~Resuming(s)' /\ ~Stopped(s) /\ ~Barrier(s)
  BY <1>1 DEF Resuming, Stopped, Barrier
<1>5. \A s \in Ranks : Unfinished(s)' = Unfinished(s)
  BY <1>1 DEF Unfinished
<1>6. GlobalUnfinished \in BOOLEAN /\ PauseConsensus \in BOOLEAN
  BY DEF GlobalUnfinished, PauseConsensus, AnyUnfinished
<1>7. CASE Open /\ call.phase # "pause"
  <2>1. ~PauseConsensus
    BY <1>7 DEF PauseConsensus, Open, Normal
  <2>2. Open'
    BY <1>1, <1>2, <1>4, <1>7, <2>1 DEF Open, Normal
  <2>3. ~Meeting
    BY <1>4 DEF Meeting
  <2> QED BY <1>1, <1>3, <1>7, <2>2, <2>3 DEF Stages
<1>8. CASE call.phase = "pause" /\ Asking
  <2>1. CASE PauseConsensus
    <3>1. \A r \in Ranks : Asked(r) /\ r \notin call.unsent /\ ~Called(r)
      BY <1>8, <2>1 DEF PauseConsensus, Asking, Normal
    <3>2. call.unsent = {} /\ call.awaited = Ranks
      BY <1>8, <3>1 DEF Asking, Types
    <3>3. CASE GlobalUnfinished
      <4>1. \A r \in Ranks : Stopping(r)'
        BY <1>1, <1>4, <2>1, <3>1, <3>3 DEF Asked, Stopping
      <4>2. Agreed'
        BY <1>1, <1>2, <3>1, <3>2, <4>1 DEF Agreed
      <4> QED BY <1>1, <1>3, <1>8, <4>2 DEF Stages
    <3>4. CASE ~GlobalUnfinished
      <4>1. \A r \in Ranks : Unfinished(r) = {}
        BY <3>4 DEF GlobalUnfinished, AnyUnfinished
      <4>2. \A r \in Ranks : Stopped(r)' /\ pausing'[r]
        BY <1>1, <1>5, <2>1, <3>1, <3>4, <4>1 DEF Asked, Stopped
      <4>3. Halted'
        BY <1>1, <1>2, <3>1, <3>2, <4>2 DEF Halted
      <4> QED BY <1>1, <1>3, <1>8, <4>3 DEF Stages
    <3> QED BY <3>3, <3>4
  <2>2. CASE ~PauseConsensus
    <3>1. \A r \in Ranks : Normal(r) => Normal(r)'
      BY <1>1, <1>4, <2>2 DEF Normal
    <3>2. \A r \in Ranks : Asked(r) => Asked(r)'
      BY <1>1, <1>4, <2>2 DEF Asked, GlobalUnfinished
    <3>3. Asking'
      BY <1>1, <1>2, <1>8, <3>1, <3>2 DEF Asking
    <3> QED BY <1>1, <1>3, <1>8, <3>3 DEF Stages
  <2> QED BY <2>1, <2>2
<1>9. CASE call.phase = "pause" /\ Agreed
  <2>1. ~PauseConsensus
    BY <1>9 DEF PauseConsensus, Agreed, Stopping
  <2>2. CASE GlobalUnfinished
    <3>1. \A r \in Ranks : Stopping(r)'
      BY <1>1, <1>4, <1>9, <2>1, <2>2 DEF Agreed, Stopping
    <3>2. Agreed'
      BY <1>1, <1>2, <1>9, <3>1 DEF Agreed
    <3> QED BY <1>1, <1>3, <1>9, <3>2 DEF Stages
  <2>3. CASE ~GlobalUnfinished
    <3>1. \A r \in Ranks : Unfinished(r) = {}
      BY <2>3 DEF GlobalUnfinished, AnyUnfinished
    <3>2. \A r \in Ranks : Stopped(r)' /\ pausing'[r]
      BY <1>1, <1>5, <1>9, <2>1, <2>3, <3>1 DEF Agreed, Stopping, Stopped
    <3>3. Halted'
      BY <1>1, <1>2, <1>9, <3>2 DEF Agreed, Halted
    <3> QED BY <1>1, <1>3, <1>9, <3>3 DEF Stages
  <2> QED BY <2>2, <2>3
<1> QED BY <1>4, <1>7, <1>8, <1>9 DEF Stages, Halted, Meeting

\* They are kept by the all-reduce of a resume: all ranks are in its barrier.
LEMMA StagesOfResume ==
    ASSUME Types, CallsFit, Stages, ResumeAllReduce
    PROVE  CallsFit' /\ Stages'
<1> USE WavesAssumption
<1>1. /\ \A r \in Ranks : Resuming(r) /\ pc'[r] \in {"poll", "drain"}
      /\ call' = [call EXCEPT !.awaited = {}]
      /\ UNCHANGED <<pauseState, pendingPause, ignoreStart, pausing, inbox>>
  BY DEF ResumeAllReduce
<1>2. call'.phase = call.phase /\ call'.unsent = call.unsent /\ call'.awaited = {}
  BY <1>1 DEF Types
<1>3. \A s \in Ranks : /\ Called(s)' <=> Called(s)
                       /\ OnceCalled(s)' <=> OnceCalled(s)
                       /\ CallFits(s)' <=> CallFits(s)
  BY <1>1, <1>2, SameLetters
<1>4. \A s \in Ranks : ~Normal(s) /\ ~Asked(s) /\ ~Stopping(s) /\ ~Stopped(s)
  BY <1>1 DEF Normal, Asked, Stopping, Stopped, Resuming
<1>5. call.phase = "resume" /\ \A r \in Ranks : Barrier(r) /\ r \notin call.unsent /\ ~Called(r)
  BY <1>4 DEF Stages, Open, Asking, Agreed, Halted, Meeting
<1>6. call.unsent = {}
  BY <1>5 DEF Types
<1>7. Open'
  BY <1>1, <1>3, <1>5 DEF Open, Normal, Barrier, Resuming
<1> QED BY <1>2, <1>3, <1>5, <1>6, <1>7 DEF Stages, CallsFit

\* They are kept by the ranks.
LEMMA StagesOfEngines ==
    ASSUME Types, CallsFit, Stages, Engines
    PROVE  CallsFit' /\ Stages'
BY StagesOfMessage, StagesOfIdling, StagesOfStep, StagesOfForward, StagesOfAllReduce,
   StagesOfResume DEF Engines, Rank

-----------------------------------------------------------------------------
(* The step counters *)

\* With step_with_batch_queue a step leaves the counter alone, so the forward
\* pass, made by all, is all that counts.
LEMMA LockstepKept ==
    ASSUME Types, Lockstep, BatchQueue, Next
    PROVE  Lockstep'
<1>1. CASE UNCHANGED stepCounter
  BY <1>1 DEF Lockstep
<1>2. CASE Forward
  <2>1. \A r \in Ranks : stepCounter'[r] = (stepCounter[r] + 1) % SyncEvery
    BY <1>2 DEF Forward
  <2> QED BY <2>1 DEF Lockstep
<1>3. ASSUME NEW r \in Ranks, Step(r) PROVE UNCHANGED stepCounter
  <2>1. stepCounter' = [stepCounter EXCEPT ![r] = stepCounter[r]]
    BY <1>3 DEF Step, CounterAfterStep
  <2> QED BY <2>1 DEF Types
<1>4. CASE AllReduce \/ ResumeAllReduce \/ Transport \/ Client
  BY <1>1, <1>4 DEF AllReduce, ResumeAllReduce, Transport, Client, SendRequest, Observe,
     CoordinateFirstRequest, CoordinateEngines, Deliver, SendCall, BeginPause, BeginResume,
     EndCall, rankVars
<1>5. ASSUME NEW r \in Ranks, HandleMessage(r) \/ NotifyIdle(r) \/ LeaveIdleLoop(r)
      PROVE  UNCHANGED stepCounter
  BY <1>5 DEF HandleMessage, HandleAdd, HandleStart, HandlePause, HandleResume, NotifyIdle,
     LeaveIdleLoop
<1> QED BY <1>1, <1>2, <1>3, <1>4, <1>5 DEF Next, Engines, Rank

-----------------------------------------------------------------------------
(* The theorems *)

\* The first inductive invariant.
WavesInv == Types /\ OneWave /\ OnePlace

\* The initial states satisfy both invariants.
LEMMA InvInitially ==
    ASSUME Init
    PROVE  WavesInv /\ CallsFit /\ Stages /\ Lockstep
<1> USE WavesAssumption
<1>1. Types
  <2>1. /\ inbox \in [Ranks -> Seq(Letters)] /\ wire \in [Ranks -> Seq(Letters)]
        /\ toCoordinator \in Seq(Reports) /\ firstRequests \in Seq(FirstRequests)
    <3> HIDE DEF Letters, Reports, FirstRequests
    <3> QED BY DEF Init
  <2>2. /\ call \in [phase : {"none", "pause", "resume"}, mode : Modes \cup {None},
                     unsent : SUBSET Ranks, awaited : SUBSET Ranks]
        /\ call.phase # "pause"
    BY DEF Init, NoCall
  <2>3. left \in [Requests -> 0 .. MaxTokens] /\ stepCounter \in [Ranks -> 0 .. (SyncEvery - 1)]
    BY DEF Init
  <2> QED BY <2>1, <2>2, <2>3 DEF Init, Types
<1>2. \A r \in Ranks : inbox[r] = <<>> /\ wire[r] = <<>>
  BY DEF Init
<1>3. OneWave
  BY <1>2 DEF Init, OneWave, UpTo, Wave
<1>4. \A r \in Ranks : \A q : ~Called(r) /\ ~Added(q, r) /\ OnceAdded(q, r)
  BY <1>2 DEF Called, Added, OnceAdded
<1>5. OnePlace
  BY <1>4 DEF Init, OnePlace, Held
<1>6. CallsFit
  BY <1>4, UncalledFits DEF CallsFit
<1>7. Stages
  BY <1>4 DEF Init, Stages, Open, Normal, Resuming, NoCall
<1>8. Lockstep
  BY DEF Init, Lockstep
<1> QED BY <1>1, <1>3, <1>5, <1>6, <1>7, <1>8 DEF WavesInv

\* The waves and the places are inductive, whatever the clients do.
LEMMA WavesInductive ==
    ASSUME WavesInv, [Next]_vars
    PROVE  WavesInv'
<1>1. CASE Next
  BY <1>1, TransportTypes, EnginesTypes, WavesOfTransport, WavesOfEngines, PlacesOfTransport,
     PlacesOfEngines DEF WavesInv, Next
<1>2. CASE UNCHANGED vars
  <2>1. Types'
    BY <1>2 DEF vars, rankVars, coordVars, clientVars, WavesInv, Types
  <2>2. OneWave'
    BY <1>2 DEF vars, rankVars, coordVars, clientVars, WavesInv, OneWave, UpTo, Wave
  <2>3. OnePlace'
    BY <1>2, SameLetters, PlacesOfMail DEF vars, rankVars, clientVars, WavesInv
  <2> QED BY <2>1, <2>2, <2>3 DEF WavesInv
<1> QED BY <1>1, <1>2

\* The stages are inductive when the client resumes only what it has paused.
LEMMA StagesInductive ==
    ASSUME WavesInv, CallsFit, Stages, ~StrayResume, [Next]_vars
    PROVE  CallsFit' /\ Stages'
<1>1. CASE Next
  BY <1>1, StagesOfTransport, StagesOfEngines DEF WavesInv, Next
<1>2. CASE UNCHANGED vars
  <2>1. \A s \in Ranks : StageAsBefore(s)
    BY <1>2, SameRank DEF RankAsBefore, vars, rankVars
  <2> QED BY <1>2, <2>1, SameLetters, SameStage DEF CallsFit, vars, clientVars
<1> QED BY <1>1, <1>2

\* Ranks that enter the all-reduce together are in the same wave, so that the
\* wave_complete rank 0 sends is true of all, and the variables keep their
\* types: whatever the clients do and with either step function.
THEOREM WavesHold == Spec => [](TypeOK /\ WavesAgree)
<1>1. WavesInv => TypeOK /\ WavesAgree
  BY DEF WavesInv, Types, OneWave, OnePlace, TypeOK, WavesAgree
<1> QED BY <1>1, InvInitially, WavesInductive, PTL DEF Spec

\* With the batch queue of a deployment, ranks that enter a collective of
\* run_busy_loop together agree about it: they reach the all-reduce after the
\* same forward pass, in the same wave.
THEOREM RanksHold == ASSUME BatchQueue PROVE Spec => []RanksAgree
<1>1. ASSUME WavesInv, Lockstep, [Next]_vars PROVE Lockstep'
  <2>1. CASE UNCHANGED vars
    BY <1>1, <2>1 DEF Lockstep, vars, rankVars
  <2> QED BY <1>1, <2>1, LockstepKept DEF WavesInv
<1>2. WavesInv /\ Lockstep => RanksAgree
  BY DEF WavesInv, Types, OneWave, OnePlace, Lockstep, TypeOK, WavesAgree, CountersAgree, RanksAgree
<1> QED BY <1>1, <1>2, InvInitially, WavesInductive, PTL DEF Spec

\* A client that resumes only what it has paused finds all ranks stopped: the
\* resume is never refused or ignored, and no rank waits in its barrier while
\* another one steps.
THEOREM ResumesMeet == ASSUME ~StrayResume PROVE Spec => []ResumeSafe
<1>1. ASSUME WavesInv, CallsFit, Stages PROVE ResumeSafe
  <2>1. ASSUME NEW r \in Ranks, NEW s \in Ranks, Resuming(r), pc[s] \in {"forward", "allreduce"}
        PROVE  FALSE
    <3>1. ~Normal(r) /\ ~Asked(r) /\ ~Stopping(r) /\ ~Stopped(r)
      BY <2>1 DEF Normal, Asked, Stopping, Stopped, Resuming
    <3>2. Meeting
      BY <1>1, <3>1 DEF Stages, Open, Asking, Agreed, Halted
    <3> QED BY <2>1, <3>2 DEF Meeting, Stopped, Barrier, Resuming
  <2>2. ASSUME NEW r \in Ranks, inbox[r] # <<>>, Head(inbox[r]) = Resume
        PROVE  ~PauseInFlight(r) /\ ~enginesRunning[r]
    <3>1. Head(inbox[r]).type = "RESUME"
      BY <2>2, Kinds
    <3>2. call.phase = "resume" /\ Called(r)
      BY <1>1, <2>2, <3>1, CalledFits DEF WavesInv, CallTypes
    <3>3. Meeting
      BY <1>1, <3>2 DEF Stages, Open
    <3> QED BY <3>2, <3>3 DEF Meeting, Stopped, PauseInFlight
  <2> QED BY <2>1, <2>2 DEF ResumeSafe, ResumeBarrierSafe, ResumeAccepted
<1> QED BY <1>1, InvInitially, WavesInductive, StagesInductive, PTL DEF Spec

\* Once every rank has answered the pause of such a client, none steps,
\* whatever START_DP_WAVE or late request is still under way.
THEOREM PausesStop == ASSUME ~StrayResume PROVE Spec => []PauseStopsAllRanks
<1> USE WavesAssumption
<1>1. ASSUME Stages PROVE PauseStopsAllRanks
  <2> SUFFICES ASSUME call.phase = "pause", call.awaited = {},
                      NEW r \in Ranks
               PROVE  ~enginesRunning[r] /\ pc[r] \notin {"forward", "allreduce"}
    BY DEF PauseStopsAllRanks
  <2>1. Halted
    BY <1>1 DEF Stages, Asking, Agreed
  <2> QED BY <2>1 DEF Halted, Stopped
<1> QED BY <1>1, InvInitially, WavesInductive, StagesInductive, PTL DEF Spec
=============================================================================
