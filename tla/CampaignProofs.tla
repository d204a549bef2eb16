----------------------------- MODULE CampaignProofs -----------------------------
(***************************************************************************)
(* Proofs about the campaign runner: the safety properties of Campaign, and*)
(* that it implements CampaignProgress, for any plan, any policy and any   *)
(* number of kills and failures.  That the replay never refuses what a     *)
(* runner left (AuditAccepts) is not among them: no proof here uses ok.    *)
(*                                                                         *)
(* The argument rests on one fact about the replay: an event, once written,*)
(* is replayed in the same way by every later run, because receipts,       *)
(* copies and deletions are only ever added to and a file that is gone was *)
(* planned to go (EventSteady).  So replaying a journal with one event more*)
(* is replaying one event (ReplayStep), and the verdict moves with the     *)
(* journal event by event.                                                 *)
(***************************************************************************)
EXTENDS Campaign, FiniteSetTheorems, TLAPS

-----------------------------------------------------------------------------
(* The plan *)

\* The stages of the plan from the a-th to the b-th, and the first n.
Slice(a, b) == {StageOrder[k] : k \in a .. b}
Plan(n) == Slice(1, n)

\* A stage has one position in the plan.
LEMMA PlanOrdered ==
    /\ Len(StageOrder) \in Nat /\ DOMAIN StageOrder = 1 .. Len(StageOrder)
    /\ \A i \in 1 .. Len(StageOrder) : StageOrder[i] \in Stages /\ Position(StageOrder[i]) = i
    /\ \A s \in Stages : Position(s) \in 1 .. Len(StageOrder) /\ StageOrder[Position(s)] = s
<1>1. Len(StageOrder) \in Nat /\ DOMAIN StageOrder = 1 .. Len(StageOrder)
  BY CampaignAssumption
<1>2. \A i \in DOMAIN StageOrder : StageOrder[i] \in Stages
  BY DEF Stages, Range
<1>3. \A s \in Stages : \E i \in DOMAIN StageOrder : StageOrder[i] = s
  BY DEF Stages, Range
<1>4. \A i, j \in DOMAIN StageOrder : StageOrder[i] = StageOrder[j] => i = j
  BY CampaignAssumption
<1> QED BY <1>1, <1>2, <1>3, <1>4 DEF Position

\* A stretch of the plan is as long as its ends are apart, and holds the stages
\* between them.
LEMMA SliceSize ==
    ASSUME NEW a \in Nat \ {0}, NEW b \in Nat, b <= Len(StageOrder), a <= b + 1
    PROVE  /\ IsFiniteSet(Slice(a, b)) /\ Cardinality(Slice(a, b)) = b + 1 - a
           /\ Slice(a, b) \subseteq Stages
           /\ \A s \in Stages : s \in Slice(a, b) <=> Position(s) \in a .. b
<1> DEFINE f == [k \in a .. b |-> StageOrder[k]]
<1>1. \A k \in a .. b : k \in 1 .. Len(StageOrder)
  BY PlanOrdered
<1>2. f \in Bijection(a .. b, Slice(a, b))
  <2>1. \A j, k \in a .. b : StageOrder[j] = StageOrder[k] => j = k
    BY <1>1, PlanOrdered
  <2> QED BY <2>1 DEF Bijection, Injection, Surjection, IsInjective, Slice
<1>3. IsFiniteSet(a .. b) /\ Cardinality(a .. b) = b + 1 - a
  <2>1. IsFiniteSet(a .. b) /\ Cardinality(a .. b) = IF a > b THEN 0 ELSE b - a + 1
    BY FS_Interval
  <2>2. (IF a > b THEN 0 ELSE b - a + 1) = b + 1 - a
    OBVIOUS
  <2> QED BY <2>1, <2>2
<1>4. IsFiniteSet(Slice(a, b)) /\ Cardinality(Slice(a, b)) = Cardinality(a .. b)
  BY <1>2, <1>3, FS_Bijection DEF ExistsBijection
<1>5. Slice(a, b) \subseteq Stages
  BY <1>1, PlanOrdered DEF Slice
<1>6. \A s \in Stages : s \in Slice(a, b) <=> Position(s) \in a .. b
  BY <1>1, PlanOrdered DEF Slice
<1> QED BY <1>3, <1>4, <1>5, <1>6

\* Taken in the order of the plan, a stretch of it is that stretch
\* (_installed_prefix_from_completed).
LEMMA SliceInOrder ==
    ASSUME NEW a \in Nat \ {0}, NEW b \in Nat, b <= Len(StageOrder), a <= b + 1
    PROVE  InOrder(Slice(a, b)) = [i \in 1 .. b + 1 - a |-> StageOrder[a + i - 1]]
<1> DEFINE S == Slice(a, b)
           Rank(k) == Cardinality({j \in 1 .. k : StageOrder[j] \in S})
<1>1. \A k \in 1 .. Len(StageOrder) : StageOrder[k] \in S <=> k \in a .. b
  BY PlanOrdered, SliceSize
<1>2. ASSUME NEW k \in a .. b PROVE Rank(k) = k + 1 - a
  <2>1. k \in 1 .. Len(StageOrder) /\ k \in Int
    BY PlanOrdered
  <2>2. {j \in 1 .. k : StageOrder[j] \in S} = a .. k
    <3>1. \A j \in 1 .. k : j \in 1 .. Len(StageOrder) /\ (j \in a .. b <=> j \in a .. k)
      BY <2>1, PlanOrdered
    <3>2. a .. k \subseteq 1 .. k
      OBVIOUS
    <3> HIDE DEF S
    <3> QED BY <1>1, <3>1, <3>2
  <2>3. Cardinality(a .. k) = IF a > k THEN 0 ELSE k - a + 1
    BY <2>1, FS_Interval
  <2>4. Cardinality(a .. k) = k + 1 - a
    <3>1. ~(a > k) /\ k - a + 1 = k + 1 - a
      BY <2>1
    <3> QED BY <2>3, <3>1
  <2> QED BY <2>2, <2>4
<1>3. Cardinality(S) = b + 1 - a
  BY SliceSize
<1>4. ASSUME NEW i \in 1 .. b + 1 - a
      PROVE  (CHOOSE k \in DOMAIN StageOrder : StageOrder[k] \in S /\ Rank(k) = i) = a + i - 1
  <2>1. a + i - 1 \in a .. b /\ a + i - 1 \in DOMAIN StageOrder
    BY PlanOrdered
  <2>2. StageOrder[a + i - 1] \in S /\ Rank(a + i - 1) = i
    <3>1. Rank(a + i - 1) = a + i - 1 + 1 - a
      BY <1>2, <2>1
    <3>2. a + i - 1 + 1 - a = i
      OBVIOUS
    <3>3. StageOrder[a + i - 1] \in S
      BY <1>1, <2>1, PlanOrdered
    <3> HIDE DEF Rank, S
    <3> QED BY <3>1, <3>2, <3>3
  <2>3. ASSUME NEW k \in DOMAIN StageOrder, StageOrder[k] \in S, Rank(k) = i PROVE k = a + i - 1
    <3>1. k \in a .. b
      BY <1>1, <2>3, PlanOrdered
    <3>2. k + 1 - a = i
      BY <1>2, <2>3, <3>1
    <3> QED BY <3>1, <3>2
  <2> HIDE DEF S, Rank
  <2> QED BY <2>1, <2>2, <2>3
<1>5. InOrder(S) = [i \in 1 .. Cardinality(S) |->
                       StageOrder[CHOOSE k \in DOMAIN StageOrder : StageOrder[k] \in S /\ Rank(k) = i]]
  BY DEF InOrder
<1> HIDE DEF S, Rank
<1>6. InOrder(S) = [i \in 1 .. b + 1 - a |-> StageOrder[a + i - 1]]
  BY <1>3, <1>4, <1>5
<1> QED BY <1>6 DEF S

\* When the first n stages are completed, the stage loop of execute goes on
\* with the next one, and is through when there is none.
LEMMA FirstRemaining ==
    ASSUME NEW n \in 0 .. Len(StageOrder), DOMAIN run.completed = Plan(n)
    PROVE  /\ Remaining = << >> <=> n = Len(StageOrder)
           /\ n < Len(StageOrder) => Head(Remaining) = StageOrder[n + 1]
<1> DEFINE m == Len(StageOrder)
<1>1. Stages \ Plan(n) = Slice(n + 1, m)
  <2>1. \A s \in Stages : s \in Plan(n) <=> Position(s) \in 1 .. n
    BY SliceSize, PlanOrdered DEF Plan
  <2>2. n + 1 \in Nat \ {0} /\ m \in Nat /\ m <= Len(StageOrder) /\ n + 1 <= m + 1
    BY PlanOrdered
  <2>3. Slice(n + 1, m) \subseteq Stages /\ \A s \in Stages : s \in Slice(n + 1, m) <=> Position(s) \in n + 1 .. m
    BY <2>2, SliceSize
  <2> HIDE DEF m
  <2>4. \A s \in Stages : s \notin Plan(n) <=> s \in Slice(n + 1, m)
    BY <2>1, <2>2, <2>3, PlanOrdered DEF m
  <2> QED BY <2>3, <2>4
<1>2. Remaining = [i \in 1 .. m + 1 - (n + 1) |-> StageOrder[n + 1 + i - 1]]
  <2>1. n + 1 \in Nat \ {0} /\ m \in Nat /\ m <= Len(StageOrder) /\ n + 1 <= m + 1
    BY PlanOrdered
  <2>2. Remaining = InOrder(Slice(n + 1, m))
    BY <1>1 DEF Remaining
  <2> HIDE DEF m
  <2> QED BY <2>1, <2>2, SliceInOrder
<1>3. m \in Nat
  BY PlanOrdered
<1>4. ASSUME n = m PROVE Remaining = << >>
  BY <1>2, <1>3, <1>4
<1>5. ASSUME n < m PROVE Remaining # << >> /\ Head(Remaining) = StageOrder[n + 1]
  <2>1. m + 1 - (n + 1) \in Nat /\ 1 \in 1 .. m + 1 - (n + 1)
    BY <1>3, <1>5
  <2>2. Remaining \in Seq(Stages)
    <3>1. \A i \in 1 .. m + 1 - (n + 1) : StageOrder[n + 1 + i - 1] \in Stages
      BY PlanOrdered, <1>3
    <3> QED BY <1>2, <2>1, <3>1
  <2>3. Remaining[1] = StageOrder[n + 1] /\ 1 \in DOMAIN Remaining
    BY <1>2, <2>1
  <2> HIDE DEF m
  <2> QED BY <2>2, <2>3
<1> HIDE DEF m
<1>6. n \in Nat /\ n <= m
  BY DEF m
<1>7. (n = m \/ n < m) /\ ~(n = m /\ n < m)
  BY <1>3, <1>6
<1>8. /\ Remaining = << >> <=> n = m
      /\ n < m => Head(Remaining) = StageOrder[n + 1]
  BY <1>4, <1>5, <1>7
<1> QED BY <1>8 DEF m

-----------------------------------------------------------------------------
(* The replay *)

\* Induction over the naturals, for a set: the replay of a journal is defined
\* event by event.
LEMMA SetInduction ==
    ASSUME NEW S, 0 \in S, \A n \in Nat : n \in S => n + 1 \in S
    PROVE  Nat \subseteq S
<1> DEFINE T == {1 .. n : n \in Nat \ S}
           F == FiniteSubsetsOf(Nat)
           R == StrictSubsetOrdering(Nat)
<1> SUFFICES ASSUME ~(Nat \subseteq S) PROVE FALSE
  OBVIOUS
<1>1. IsWellFoundedOn(R, F)
  BY FS_StrictSubsetOrderingWellFounded
<1>2. T \subseteq F
  <2>1. \A n \in Nat : IsFiniteSet(1 .. n)
    BY FS_Interval
  <2> QED BY <2>1 DEF FiniteSubsetsOf
<1>3. T # {}
  OBVIOUS
<1>4. PICK x \in T : \A y \in T : ~ (<< y, x >> \in R)
  <2> HIDE DEF T, R, F
  <2> QED BY <1>1, <1>2, <1>3, WFMin
<1>5. PICK n \in Nat \ S : x = 1 .. n
  OBVIOUS
<1>6. n - 1 \in Nat /\ (n - 1) + 1 = n
  BY <1>5
<1>7. 1 .. (n - 1) \in T
  BY <1>5, <1>6
<1>8. << 1 .. (n - 1), 1 .. n >> \in R
  BY <1>5, <1>6 DEF StrictSubsetOrdering
<1> QED BY <1>4, <1>5, <1>7, <1>8


\* g is the verdict after each of the first n events of j.
IsReplay(g, j, P, n) ==
    g = [i \in 0 .. n |-> IF i = 0 THEN Blank ELSE ReplayEvent(g[i - 1], j[i], P)]

\* A replay of n events is extended by the next one.
LEMMA ReplayExtends ==
    ASSUME NEW g, NEW j, NEW P, NEW n \in Nat, IsReplay(g, j, P, n)
    PROVE  IsReplay([i \in 0 .. n + 1 |-> IF i = n + 1 THEN ReplayEvent(g[n], j[n + 1], P) ELSE g[i]],
                    j, P, n + 1)
<1> DEFINE h == [i \in 0 .. n + 1 |-> IF i = n + 1 THEN ReplayEvent(g[n], j[n + 1], P) ELSE g[i]]
<1>1. /\ DOMAIN h = 0 .. n + 1 /\ h[n + 1] = ReplayEvent(g[n], j[n + 1], P)
      /\ \A i \in 0 .. n : h[i] = g[i]
  OBVIOUS
<1>2. \A i \in 0 .. n : g[i] = IF i = 0 THEN Blank ELSE ReplayEvent(g[i - 1], j[i], P)
  BY Zenon DEF IsReplay
<1>3. ASSUME NEW i \in 0 .. n + 1
      PROVE  h[i] = IF i = 0 THEN Blank ELSE ReplayEvent(h[i - 1], j[i], P)
  <2> HIDE DEF h
  <2>1. CASE i = n + 1
    BY <1>1, <2>1
  <2>2. CASE i # n + 1
    <3>1. i \in 0 .. n /\ (i # 0 => i - 1 \in 0 .. n)
      BY <2>2
    <3> QED BY <1>1, <1>2, <3>1
  <2> QED BY <2>1, <2>2
<1> QED BY <1>3 DEF IsReplay

\* Every journal has a replay.
LEMMA ReplayDefined == ASSUME NEW j, NEW P PROVE \A n \in Nat : \E g : IsReplay(g, j, P, n)
<1> DEFINE S == {n \in Nat : \E g : IsReplay(g, j, P, n)}
<1>1. 0 \in S
  <2> DEFINE g == [i \in 0 .. 0 |-> Blank]
  <2>1. IsReplay(g, j, P, 0)
    BY DEF IsReplay
  <2> QED BY <2>1
<1>2. ASSUME NEW n \in Nat, n \in S PROVE n + 1 \in S
  <2>1. PICK g : IsReplay(g, j, P, n)
    BY <1>2
  <2> DEFINE h == [i \in 0 .. n + 1 |-> IF i = n + 1 THEN ReplayEvent(g[n], j[n + 1], P) ELSE g[i]]
  <2>2. IsReplay(h, j, P, n + 1)
    BY <2>1, ReplayExtends
  <2> QED BY <2>2
<1> HIDE DEF S
<1>3. Nat \subseteq S
  BY <1>1, <1>2, SetInduction
<1> QED BY <1>3 DEF S

\* _replay runs through the events, and checks the prefix at the end.
LEMMA ReplayIs ==
    ASSUME NEW j, Len(j) \in Nat, NEW g, IsReplay(g, j, Plans(j), Len(j))
    PROVE  Replay(j) = CheckPrefix(g[Len(j)])
<1> DEFINE F(f) == f = [i \in 0 .. Len(j) |->
                          IF i = 0 THEN {Blank} ELSE {ReplayEvent(b, j[i], Plans(j)) : b \in f[i - 1]}]
           h == [i \in 0 .. Len(j) |-> {g[i]}]
           after == CHOOSE f : F(f)
<1>1. \A i \in 0 .. Len(j) : g[i] = IF i = 0 THEN Blank ELSE ReplayEvent(g[i - 1], j[i], Plans(j))
  BY Zenon DEF IsReplay
<1>2. F(h)
  <2>1. ASSUME NEW i \in 0 .. Len(j)
        PROVE  h[i] = IF i = 0 THEN {Blank} ELSE {ReplayEvent(b, j[i], Plans(j)) : b \in h[i - 1]}
    <3>1. CASE i = 0
      BY <1>1, <3>1
    <3>2. CASE i # 0
      <4>1. i - 1 \in 0 .. Len(j)
        BY <3>2
      <4>2. h[i] = {ReplayEvent(g[i - 1], j[i], Plans(j))} /\ h[i - 1] = {g[i - 1]}
        BY <1>1, <3>2, <4>1
      <4> QED BY <3>2, <4>2
    <3> QED BY <3>1, <3>2
  <2> QED BY <2>1
<1>3. F(after)
  <2> HIDE DEF F, h
  <2> QED BY <1>2
<1>4. \A n \in Nat : n <= Len(j) => after[n] = {g[n]}
  <2> DEFINE S == {n \in Nat : n <= Len(j) => after[n] = {g[n]}}
  <2>0. \A i \in 0 .. Len(j) :
          after[i] = IF i = 0 THEN {Blank} ELSE {ReplayEvent(b, j[i], Plans(j)) : b \in after[i - 1]}
    <3> HIDE DEF after
    <3> QED BY <1>3, Zenon
  <2> HIDE DEF after, S
  <2>1. 0 \in S
    <3>1. 0 \in 0 .. Len(j) /\ 0 \in Nat
      OBVIOUS
    <3>2. after[0] = {Blank} /\ g[0] = Blank
      BY <1>1, <2>0, <3>1
    <3> QED BY <3>1, <3>2 DEF S
  <2>2. ASSUME NEW n \in Nat, n \in S PROVE n + 1 \in S
    <3>1. SUFFICES ASSUME n + 1 <= Len(j) PROVE after[n + 1] = {g[n + 1]}
      BY DEF S
    <3>2. n + 1 \in 0 .. Len(j) /\ n + 1 # 0 /\ (n + 1) - 1 = n /\ n <= Len(j)
      BY <3>1
    <3>3. after[n] = {g[n]}
      BY <2>2, <3>2 DEF S
    <3>4. after[n + 1] = {ReplayEvent(b, j[n + 1], Plans(j)) : b \in after[n]}
      BY <2>0, <3>2
    <3>5. g[n + 1] = ReplayEvent(g[n], j[n + 1], Plans(j))
      BY <1>1, <3>2
    <3> QED BY <3>3, <3>4, <3>5
  <2>3. Nat \subseteq S
    BY <2>1, <2>2, SetInduction
  <2> QED BY <2>3 DEF S
<1>5. Replay(j) = CHOOSE r \in {CheckPrefix(end) : end \in after[Len(j)]} : TRUE
  BY DEF Replay
<1> HIDE DEF after
<1>6. {CheckPrefix(end) : end \in after[Len(j)]} = {CheckPrefix(g[Len(j)])}
  BY <1>4
<1> QED BY <1>5, <1>6

\* The same of the journal itself, in the form the next state needs.
LEMMA ReplayOfJournal ==
    \A f : IsReplay(f, journal, Plans(journal), Len(journal)) /\ Len(journal) \in Nat
           => Replay(journal) = CheckPrefix(f[Len(journal)])
BY ReplayIs

\* The events a runner writes.
Names == {"campaign_planned", "campaign_completed", "journal_tail_recovered", "resource_preflight",
          "artifacts_retirement_planned", "artifacts_retirement_completed", "generation_superseded",
          "stage_started", "gate_decision", "stage_completed", "stage_failed"}
\* The attempt an event is about.
Key(e) == << e.stage, e.attempt >>
\* What e says of the files is so.
Backed(e) ==
    /\ e.ev \in Names
    /\ e.ev = "journal_tail_recovered" =>
          e.attempt \in 1 .. MaxCrashes /\ quarantine[e.attempt] # "none"
    /\ e.ev \in {"stage_completed", "gate_decision"} => Key(e) \in DOMAIN receipts
    /\ e.ev = "artifacts_retirement_completed" => Key(e) \in deleted

\* Receipts and quarantined copies stay as they are, and deleted files deleted.
FilesGrow ==
    /\ \A k \in DOMAIN receipts : k \in DOMAIN receipts' /\ receipts'[k] = receipts[k]
    /\ deleted \subseteq deleted'
    /\ \A f \in 1 .. MaxCrashes : quarantine[f] # "none" => quarantine'[f] = quarantine[f]

\* Only what was planned is deleted.
Explained == deleted \subseteq Plans(journal)

\* A completion is replayed alike when receipts, copies and deletions have only
\* been added to: a missing file is explained by its plan, before and after.
LEMMA TerminatedSteady ==
    ASSUME FilesGrow, Explained, Explained', NEW a, NEW e, Backed(e),
           e.ev \in {"stage_completed", "stage_failed"}
    PROVE  ReplayTerminated(a, e, Plans(journal))' = ReplayTerminated(a, e, Plans(journal))
<1>1. CASE e.ev = "stage_failed"
  BY <1>1 DEF ReplayTerminated
<1>2. CASE e.ev = "stage_completed"
  <2>1. Key(e) \in DOMAIN receipts /\ Key(e) \in DOMAIN receipts'
    BY <1>2 DEF Backed, FilesGrow
  <2>2. FilesMatch(e.stage, e.attempt, Plans(journal)) /\ FilesMatch(e.stage, e.attempt, Plans(journal))'
    BY DEF FilesMatch, Explained
  <2> QED BY <2>1, <2>2 DEF ReplayTerminated, Key
<1> QED BY <1>1, <1>2

\* So is a decision, which reads the verdict in the receipt.
LEMMA DecisionSteady ==
    ASSUME FilesGrow, NEW a, NEW e, Backed(e), e.ev = "gate_decision"
    PROVE  ReplayDecision(a, e)' = ReplayDecision(a, e)
<1>1. receipts'[Key(e)] = receipts[Key(e)]
  BY DEF Backed, FilesGrow
<1> QED BY <1>1 DEF ReplayDecision, Key

\* So is a retirement, which looks for the files it says are gone.
LEMMA RetirementSteady ==
    ASSUME FilesGrow, NEW a, NEW e, Backed(e),
           e.ev \in {"artifacts_retirement_planned", "artifacts_retirement_completed"}
    PROVE  ReplayRetirement(a, e)' = ReplayRetirement(a, e)
<1>1. CASE e.ev = "artifacts_retirement_planned"
  BY <1>1 DEF ReplayRetirement
<1>2. CASE e.ev = "artifacts_retirement_completed"
  <2>1. Key(e) \in deleted /\ Key(e) \in deleted'
    BY <1>2 DEF Backed, FilesGrow
  <2> QED BY <1>2, <2>1 DEF ReplayRetirement, Key
<1> QED BY <1>1, <1>2

\* Every event is replayed alike by a later run that finds more files of the
\* same kind.
LEMMA EventSteady ==
    ASSUME FilesGrow, Explained, Explained', NEW a, NEW e, Backed(e)
    PROVE  ReplayEvent(a, e, Plans(journal))' = ReplayEvent(a, e, Plans(journal))
<1> DEFINE b == Immediate(a, e)
<1>1. CASE e.ev = "journal_tail_recovered"
  <2>1. quarantine'[e.attempt] = quarantine[e.attempt]
    BY <1>1 DEF Backed, FilesGrow
  <2> QED BY <1>1, <2>1 DEF ReplayEvent
<1>2. CASE e.ev \in {"artifacts_retirement_planned", "artifacts_retirement_completed"}
  <2>1. ReplayRetirement(b, e)' = ReplayRetirement(b, e)
    BY <1>2, RetirementSteady
  <2>2. ReplayEvent(a, e, Plans(journal)) = ReplayRetirement(b, e)
    BY <1>2 DEF ReplayEvent
  <2>3. ReplayEvent(a, e, Plans(journal))' = ReplayRetirement(b, e)'
    BY <1>2 DEF ReplayEvent
  <2> QED BY <2>1, <2>2, <2>3
<1>3. CASE e.ev = "gate_decision"
  <2>1. ReplayDecision(b, e)' = ReplayDecision(b, e)
    BY <1>3, DecisionSteady
  <2> QED BY <1>3, <2>1 DEF ReplayEvent
<1>4. CASE e.ev \in {"stage_completed", "stage_failed"}
  <2>1. ReplayTerminated(b, e, Plans(journal))' = ReplayTerminated(b, e, Plans(journal))
    BY <1>4, TerminatedSteady
  <2> QED BY <1>4, <2>1 DEF ReplayEvent
<1>5. CASE e.ev \in {"campaign_planned", "campaign_completed", "resource_preflight",
                     "generation_superseded", "stage_started"}
  BY <1>5 DEF ReplayEvent
<1> QED BY <1>1, <1>2, <1>3, <1>4, <1>5 DEF Backed, Names

\* The journal is a sequence.
Listed(j) == j \in Seq(Range(j))

\* Appending to a sequence: its length, its domain and its range.
LEMMA Appended ==
    ASSUME NEW j, Listed(j), NEW e, NEW k, k = Append(j, e)
    PROVE  /\ Listed(k) /\ Len(j) \in Nat /\ Len(k) = Len(j) + 1
           /\ DOMAIN j = 1 .. Len(j) /\ DOMAIN k = 1 .. Len(j) + 1
           /\ k[Len(j) + 1] = e /\ \A i \in 1 .. Len(j) : k[i] = j[i]
           /\ Range(k) = Range(j) \cup {e}
<1> DEFINE S == Range(j) \cup {e}
<1>1. j \in Seq(S) /\ e \in S /\ \A x \in S : x \in Range(j) \/ x = e
  BY DEF Listed
<1>2. Range(j) = {j[i] : i \in DOMAIN j} /\ Range(k) = {k[i] : i \in DOMAIN k}
  BY DEF Range
<1> HIDE DEF S
<1>3. /\ Len(j) \in Nat /\ Len(k) = Len(j) + 1
      /\ DOMAIN j = 1 .. Len(j) /\ DOMAIN k = 1 .. Len(j) + 1
      /\ k[Len(j) + 1] = e /\ \A i \in 1 .. Len(j) : k[i] = j[i]
      /\ k \in Seq(S)
  BY <1>1
<1>4. Range(k) = S
  <2>1. ASSUME NEW x \in Range(k) PROVE x \in S
    BY <1>2, <1>3
  <2>2. ASSUME NEW x \in Range(j) PROVE x \in Range(k)
    <3>1. PICK i \in 1 .. Len(j) : x = j[i]
      BY <1>2, <1>3
    <3>2. i \in 1 .. Len(j) + 1 /\ k[i] = x
      BY <1>3, <3>1
    <3> QED BY <1>2, <1>3, <3>2
  <2>3. e \in Range(k)
    <3>1. Len(j) + 1 \in 1 .. Len(j) + 1
      BY <1>3
    <3> QED BY <1>2, <1>3, <3>1
  <2> QED BY <1>1, <2>1, <2>2, <2>3
<1> QED BY <1>3, <1>4 DEF S, Listed

\* v is what the events make of a campaign, before the prefix is checked.
Reached(v) == \E g : IsReplay(g, journal, Plans(journal), Len(journal)) /\ v = g[Len(journal)]

\* Replaying an event more is replaying one event.
LEMMA ReplayStep ==
    ASSUME Listed(journal), \A e \in Range(journal) : Backed(e), FilesGrow, Explained, Explained',
           NEW v, Reached(v), NEW e, journal' = Append(journal, e)
    PROVE  \E w : /\ w = ReplayEvent(v, e, Plans(journal))' /\ Reached(w)'
                  /\ Replay(journal)' = CheckPrefix(w)
<1>1. PICK n : n = Len(journal)
  OBVIOUS
<1>2. /\ n \in Nat /\ Len(journal)' = n + 1 /\ DOMAIN journal = 1 .. n
      /\ journal'[n + 1] = e /\ \A i \in 1 .. n : journal'[i] = journal[i]
  BY <1>1, Appended
<1>3. PICK g : IsReplay(g, journal, Plans(journal), n) /\ v = g[n]
  BY <1>1 DEF Reached
<1>4. PICK w : w = ReplayEvent(v, e, Plans(journal))'
  OBVIOUS
<1>5. PICK h : h = [i \in 0 .. n + 1 |-> IF i = n + 1 THEN w ELSE g[i]]
  OBVIOUS
<1>6. /\ DOMAIN h = 0 .. n + 1 /\ h[n + 1] = w
      /\ \A i \in 0 .. n : h[i] = g[i]
  BY <1>2, <1>5
<1>7. \A i \in 0 .. n : g[i] = IF i = 0 THEN Blank ELSE ReplayEvent(g[i - 1], journal[i], Plans(journal))
  BY <1>3, Zenon DEF IsReplay
<1>8. ASSUME NEW i \in 0 .. n + 1
      PROVE  h[i] = IF i = 0 THEN Blank ELSE ReplayEvent(h[i - 1], journal[i], Plans(journal))'
  <2>1. CASE i = 0
    BY <1>2, <1>6, <1>7, <2>1
  <2>2. CASE i = n + 1
    <3>1. i # 0 /\ i - 1 = n /\ h[i - 1] = v /\ journal'[i] = e
      BY <1>2, <1>3, <1>6, <2>2
    <3> QED BY <1>4, <1>6, <2>2, <3>1
  <2>3. CASE i # 0 /\ i # n + 1
    <3>1. i \in 1 .. n /\ i - 1 \in 0 .. n /\ i \in 0 .. n
      BY <1>2, <2>3
    <3>2. PICK d, b : d = journal[i] /\ b = g[i - 1]
      OBVIOUS
    <3>3. journal'[i] = d /\ h[i - 1] = b /\ h[i] = g[i] /\ Backed(d)
      BY <1>2, <1>6, <3>1, <3>2 DEF Range
    <3>4. ReplayEvent(b, d, Plans(journal))' = ReplayEvent(b, d, Plans(journal))
      BY <3>3, EventSteady
    <3>5. g[i] = ReplayEvent(b, d, Plans(journal))
      BY <1>7, <2>3, <3>1, <3>2
    <3> QED BY <2>3, <3>3, <3>4, <3>5
  <2> QED BY <2>1, <2>2, <2>3
<1>9. IsReplay(h, journal, Plans(journal), Len(journal))'
  BY <1>2, <1>5, <1>6, <1>8 DEF IsReplay
<1>10. Reached(w)'
  BY <1>2, <1>6, <1>9 DEF Reached
<1>11. Replay(journal)' = CheckPrefix(w)
  <2>1. (\A f : IsReplay(f, journal, Plans(journal), Len(journal)) /\ Len(journal) \in Nat
               => Replay(journal) = CheckPrefix(f[Len(journal)]))'
    BY ReplayOfJournal, PTL
  <2> QED BY <1>2, <1>6, <1>9, <2>1
<1> QED BY <1>4, <1>10, <1>11

\* Replaying the same journal with more files comes to the same.
LEMMA ReplaySame ==
    ASSUME Listed(journal), \A e \in Range(journal) : Backed(e), FilesGrow, Explained, Explained',
           NEW v, Reached(v), journal' = journal
    PROVE  Reached(v)' /\ Replay(journal)' = CheckPrefix(v)
<1>1. PICK n : n = Len(journal)
  OBVIOUS
<1>2. n \in Nat /\ Len(journal)' = n /\ DOMAIN journal = 1 .. n
  BY <1>1 DEF Listed
<1>3. PICK g : IsReplay(g, journal, Plans(journal), n) /\ v = g[n]
  BY <1>1 DEF Reached
<1>4. \A i \in 0 .. n : g[i] = IF i = 0 THEN Blank ELSE ReplayEvent(g[i - 1], journal[i], Plans(journal))
  BY <1>3, Zenon DEF IsReplay
<1>5. ASSUME NEW i \in 0 .. n
      PROVE  g[i] = IF i = 0 THEN Blank ELSE ReplayEvent(g[i - 1], journal[i], Plans(journal))'
  <2>1. CASE i = 0
    BY <1>4, <2>1
  <2>2. CASE i # 0
    <3>1. i \in DOMAIN journal
      BY <1>2, <2>2
    <3>2. PICK d, b : d = journal[i] /\ b = g[i - 1]
      OBVIOUS
    <3>3. journal'[i] = d /\ Backed(d)
      BY <3>1, <3>2 DEF Range
    <3>4. ReplayEvent(b, d, Plans(journal))' = ReplayEvent(b, d, Plans(journal))
      BY <3>3, EventSteady
    <3> QED BY <1>4, <2>2, <3>2, <3>3, <3>4
  <2> QED BY <2>1, <2>2
<1>6. g = [i \in 0 .. n |-> g[i]]
  BY <1>3 DEF IsReplay
<1>7. IsReplay(g, journal, Plans(journal), Len(journal))'
  BY <1>2, <1>5, <1>6 DEF IsReplay
<1>8. (\A f : IsReplay(f, journal, Plans(journal), Len(journal)) /\ Len(journal) \in Nat
               => Replay(journal) = CheckPrefix(f[Len(journal)]))'
  BY ReplayOfJournal, PTL
<1>9. Replay(journal)' = CheckPrefix(v)
  BY <1>2, <1>3, <1>7, <1>8
<1> QED BY <1>2, <1>3, <1>7, <1>9 DEF Reached

-----------------------------------------------------------------------------
(* What an event does to a verdict, but for ok *)

\* The fields of a verdict of the replay.
Fields == {"ok", "completed", "preds", "state", "gen", "started", "terminated", "decided",
           "gate", "sup", "decision", "planned", "retired", "done"}
\* w says of what is accepted what b says.
Same(w, b) ==
    /\ DOMAIN w = Fields
    /\ w.completed = b.completed /\ w.state = b.state /\ w.gen = b.gen /\ w.done = b.done
\* Nothing is due at once.
Free(w) == w.gate = NoStage /\ w.sup = NoStage

\* A check changes nothing but ok.
LEMMA CheckKeeps ==
    ASSUME NEW b, DOMAIN b = Fields, NEW c
    PROVE  /\ Same(Check(b, c), b) /\ Check(b, c).gate = b.gate /\ Check(b, c).sup = b.sup
           /\ Check(b, c).preds = b.preds /\ Check(b, c).decision = b.decision
           /\ Check(b, c).decided = b.decided
BY DEF Check, Same, Fields

\* So does the check of the prefix.
LEMMA CheckPrefixKeeps ==
    ASSUME NEW b, DOMAIN b = Fields
    PROVE  /\ Same(CheckPrefix(b), b) /\ CheckPrefix(b).gate = b.gate /\ CheckPrefix(b).sup = b.sup
           /\ CheckPrefix(b).preds = b.preds /\ CheckPrefix(b).decision = b.decision
           /\ CheckPrefix(b).decided = b.decided
BY CheckKeeps DEF CheckPrefix

\* What is due at once is forgotten when it has been seen.
LEMMA ImmediateKeeps ==
    ASSUME NEW b, DOMAIN b = Fields, NEW e, e.ev # "journal_tail_recovered"
    PROVE  /\ Same(Immediate(b, e), b)
           /\ Immediate(b, e).preds = b.preds /\ Immediate(b, e).decision = b.decision
           /\ Immediate(b, e).decided = b.decided
           /\ Immediate(b, e).gate = IF e.ev = "gate_decision" /\ e.stage = b.gate THEN b.gate ELSE NoStage
           /\ Immediate(b, e).sup = IF e.ev = "generation_superseded" THEN b.sup ELSE NoStage
<1> DEFINE c == Check(b, /\ b.gate # NoStage => e.ev = "gate_decision" /\ e.stage = b.gate
                         /\ b.sup # NoStage => e.ev = "generation_superseded")
<1>1. Immediate(b, e) = [c EXCEPT !.gate = IF e.ev = "gate_decision" /\ e.stage = @ THEN @ ELSE NoStage,
                                  !.sup = IF e.ev = "generation_superseded" THEN @ ELSE NoStage]
  BY DEF Immediate
<1>2. /\ Same(c, b) /\ c.gate = b.gate /\ c.sup = b.sup /\ c.preds = b.preds
      /\ c.decision = b.decision /\ c.decided = b.decided
  BY CheckKeeps
<1> HIDE DEF c
<1> QED BY <1>1, <1>2 DEF Same, Fields

\* The recovery of the tail leaves what is due at once.
LEMMA RecoveredEffect ==
    \A b, e, P : DOMAIN b = Fields /\ e.ev = "journal_tail_recovered" =>
        /\ Same(ReplayEvent(b, e, P), b)
        /\ ReplayEvent(b, e, P).gate = b.gate /\ ReplayEvent(b, e, P).sup = b.sup
<1> SUFFICES ASSUME NEW b, NEW e, NEW P, DOMAIN b = Fields, e.ev = "journal_tail_recovered"
             PROVE  /\ Same(ReplayEvent(b, e, P), b)
                    /\ ReplayEvent(b, e, P).gate = b.gate /\ ReplayEvent(b, e, P).sup = b.sup
  OBVIOUS
<1>1. ReplayEvent(b, e, P) = Check(b, quarantine[e.attempt] = "whole")
  BY DEF ReplayEvent, Immediate
<1> QED BY <1>1, CheckKeeps

\* The events that only have to be in order.
LEMMA PlainEffect ==
    \A b, e, P : /\ DOMAIN b = Fields
                 /\ e.ev \in {"resource_preflight", "artifacts_retirement_planned",
                              "artifacts_retirement_completed", "stage_started", "stage_failed"}
                 => Same(ReplayEvent(b, e, P), b) /\ Free(ReplayEvent(b, e, P))
<1> SUFFICES ASSUME NEW b, NEW e, NEW P, DOMAIN b = Fields,
                    e.ev \in {"resource_preflight", "artifacts_retirement_planned",
                              "artifacts_retirement_completed", "stage_started", "stage_failed"}
             PROVE  Same(ReplayEvent(b, e, P), b) /\ Free(ReplayEvent(b, e, P))
  OBVIOUS
<1> DEFINE a == Immediate(b, e)
<1>1. Same(a, b) /\ Free(a)
  BY ImmediateKeeps DEF Free
<1>2. DOMAIN a = Fields
  BY <1>1 DEF Same
<1> HIDE DEF a
<1>3. \A c : Same(Check(a, c), a) /\ Check(a, c).gate = a.gate /\ Check(a, c).sup = a.sup
  BY <1>2, CheckKeeps
<1>4. CASE e.ev = "resource_preflight"
  BY <1>1, <1>4 DEF ReplayEvent, a
<1>5. CASE e.ev \in {"artifacts_retirement_planned", "artifacts_retirement_completed"}
  <2>1. ReplayEvent(b, e, P) = ReplayRetirement(a, e)
    BY <1>5 DEF ReplayEvent, a
  <2>2. \A c, k : /\ Same([Check(a, c) EXCEPT !.planned = @ \cup k], a)
                  /\ Free([Check(a, c) EXCEPT !.planned = @ \cup k])
                  /\ Same([Check(a, c) EXCEPT !.retired = @ \cup k], a)
                  /\ Free([Check(a, c) EXCEPT !.retired = @ \cup k])
    BY <1>1, <1>3 DEF Same, Free, Fields
  <2>3. Same(ReplayRetirement(a, e), a) /\ Free(ReplayRetirement(a, e))
    <3>1. CASE ~Retention \/ ~({e.stage, e.post[1][1]} \subseteq DOMAIN a.completed)
      BY <1>1, <1>3, <3>1 DEF ReplayRetirement, Free
    <3>2. CASE ~(~Retention \/ ~({e.stage, e.post[1][1]} \subseteq DOMAIN a.completed))
      BY <2>2, <3>2, Zenon DEF ReplayRetirement
    <3> QED BY <3>1, <3>2
  <2> QED BY <1>1, <2>1, <2>3 DEF Same
<1>6. CASE e.ev = "stage_started"
  <2>1. ReplayEvent(b, e, P) = IF e.gen # a.gen THEN Check(a, FALSE) ELSE ReplayStarted(a, e)
    BY <1>6 DEF ReplayEvent, a
  <2>2. \A c, k : /\ Same([Check(a, c) EXCEPT !.started = @ \cup k], a)
                  /\ Free([Check(a, c) EXCEPT !.started = @ \cup k])
    BY <1>1, <1>3 DEF Same, Free, Fields
  <2>3. Same(ReplayStarted(a, e), a) /\ Free(ReplayStarted(a, e))
    BY <2>2, Zenon DEF ReplayStarted
  <2> QED BY <1>1, <1>3, <2>1, <2>3 DEF Same, Free
<1>7. CASE e.ev = "stage_failed"
  <2>1. ReplayEvent(b, e, P) = IF e.gen # a.gen THEN Check(a, FALSE) ELSE ReplayTerminated(a, e, P)
    BY <1>7 DEF ReplayEvent, a
  <2>2. \A c, k : /\ Same([Check(a, c) EXCEPT !.terminated = @ \cup k], a)
                  /\ Free([Check(a, c) EXCEPT !.terminated = @ \cup k])
    BY <1>1, <1>3 DEF Same, Free, Fields
  <2>3. Same(ReplayTerminated(a, e, P), a) /\ Free(ReplayTerminated(a, e, P))
    <3>1. ReplayTerminated(a, e, P) =
             [Check(a, << e.stage, e.attempt, e.pre >> \in a.started
                       /\ << e.stage, e.attempt >> \notin a.terminated)
                EXCEPT !.terminated = @ \cup {<< e.stage, e.attempt >>}]
      BY <1>7 DEF ReplayTerminated
    <3> QED BY <2>2, <3>1
  <2> QED BY <1>1, <1>3, <2>1, <2>3 DEF Same, Free
<1> QED BY <1>4, <1>5, <1>6, <1>7

\* The last event of a campaign.
LEMMA CompletionEffect ==
    \A b, e, P : DOMAIN b = Fields /\ e.ev = "campaign_completed" =>
        /\ DOMAIN ReplayEvent(b, e, P) = Fields /\ ReplayEvent(b, e, P).completed = b.completed
        /\ ReplayEvent(b, e, P).state = b.state /\ ReplayEvent(b, e, P).gen = b.gen
        /\ ReplayEvent(b, e, P).done = TRUE /\ Free(ReplayEvent(b, e, P))
<1> SUFFICES ASSUME NEW b, NEW e, NEW P, DOMAIN b = Fields, e.ev = "campaign_completed"
             PROVE  /\ DOMAIN ReplayEvent(b, e, P) = Fields /\ ReplayEvent(b, e, P).completed = b.completed
                    /\ ReplayEvent(b, e, P).state = b.state /\ ReplayEvent(b, e, P).gen = b.gen
                    /\ ReplayEvent(b, e, P).done = TRUE /\ Free(ReplayEvent(b, e, P))
  OBVIOUS
<1> DEFINE a == Immediate(b, e)
<1>1. Same(a, b) /\ Free(a)
  BY ImmediateKeeps DEF Free
<1>2. ReplayEvent(b, e, P) = ReplayCompletion(a, e)
  BY DEF ReplayEvent
<1> HIDE DEF a
<1>3. \A c : Same(Check(a, c), a) /\ Free(Check(a, c))
  BY <1>1, CheckKeeps DEF Same, Free
<1>4. PICK c : ReplayCompletion(a, e) = [Check(a, c) EXCEPT !.done = TRUE]
  BY DEF ReplayCompletion
<1> QED BY <1>1, <1>2, <1>3, <1>4 DEF Same, Free, Fields

\* A completion that is as it should be is taken.
Fits(b, e) ==
    /\ e.gen = b.gen /\ e.stage \notin DOMAIN b.completed
    /\ Key(e) \in DOMAIN receipts /\ e.post = ExpectedState(e, b.state)
Completed(w, b, e) ==
    /\ DOMAIN w = Fields
    /\ w.completed = With(b.completed, e.stage, e.attempt) /\ w.state = e.post
    /\ w.gen = b.gen /\ w.done = b.done
    /\ w.gate = (IF e.stage \in Gates THEN e.stage ELSE NoStage) /\ w.sup = NoStage

\* A completion that fits is accepted, and a gate waits for its decision
\* (_replay).
LEMMA CompletedEffect ==
    \A b, e, P : /\ DOMAIN b = Fields /\ e.ev = "stage_completed" /\ Fits(b, e) /\ deleted \subseteq P
                 => Completed(ReplayEvent(b, e, P), b, e)
<1> SUFFICES ASSUME NEW b, NEW e, NEW P, DOMAIN b = Fields, e.ev = "stage_completed",
                    Fits(b, e), deleted \subseteq P
             PROVE  Completed(ReplayEvent(b, e, P), b, e)
  OBVIOUS
<1> DEFINE a == Immediate(b, e)
           key == << e.stage, e.attempt >>
           c == << e.stage, e.attempt, e.pre >> \in a.started /\ key \notin a.terminated
           x == [Check(a, c) EXCEPT !.terminated = @ \cup {key}]
           y == Check(x, e.post = ExpectedState(e, a.state))
<1>1. Same(a, b) /\ Free(a)
  BY ImmediateKeeps DEF Free
<1>2. /\ e.gen = a.gen /\ e.stage \notin DOMAIN a.completed /\ key \in DOMAIN receipts
      /\ e.post = ExpectedState(e, a.state) /\ FilesMatch(e.stage, e.attempt, P)
  BY <1>1 DEF Fits, Same, Key, FilesMatch
<1>3. ReplayEvent(b, e, P) = ReplayTerminated(a, e, P)
  BY <1>2 DEF ReplayEvent
<1>4. ReplayTerminated(a, e, P) =
        [y EXCEPT !.state = IF e.post = ExpectedState(e, @) THEN e.post ELSE @,
                  !.completed = With(@, e.stage, e.attempt),
                  !.preds = With(@, e.stage, << e.pre >>),
                  !.gate = IF e.stage \in Gates THEN e.stage ELSE @]
  BY <1>2 DEF ReplayTerminated
<1>5. DOMAIN a = Fields
  BY <1>1 DEF Same
<1> HIDE DEF a
<1>6. Same(Check(a, c), a) /\ Free(Check(a, c))
  BY <1>1, <1>5, CheckKeeps DEF Same, Free
<1>7. Same(x, a) /\ Free(x)
  <2> HIDE DEF c, key
  <2> QED BY <1>6 DEF Same, Free, Fields
<1>8. DOMAIN x = Fields
  BY <1>7 DEF Same
<1> HIDE DEF x
<1>9. Same(y, a) /\ Free(y)
  BY <1>7, <1>8, CheckKeeps DEF Same, Free
<1> HIDE DEF y
<1>10. e.post = ExpectedState(e, y.state)
  BY <1>2, <1>9 DEF Same
<1> QED BY <1>1, <1>3, <1>4, <1>9, <1>10 DEF Same, Free, Fields, Completed

\* A gate is decided once: what it leaves behind is at most itself.
Decided(w, b, e) ==
    /\ Same(w, b)
    /\ w.gate \in {NoStage, b.gate}
    /\ w.sup # NoStage => w.sup = e.stage /\ e.gen = b.gen

\* Whatever the decision of a gate is, it accepts nothing (_replay).
LEMMA DecidedEffect ==
    \A b, e, P : DOMAIN b = Fields /\ e.ev = "gate_decision" => Decided(ReplayEvent(b, e, P), b, e)
<1> SUFFICES ASSUME NEW b, NEW e, NEW P, DOMAIN b = Fields, e.ev = "gate_decision"
             PROVE  Decided(ReplayEvent(b, e, P), b, e)
  OBVIOUS
<1> DEFINE a == Immediate(b, e)
           k == << e.stage, e.gen >>
<1>1. Same(a, b) /\ a.sup = NoStage /\ a.gate \in {NoStage, b.gate}
  BY ImmediateKeeps
<1>2. ReplayEvent(b, e, P) = IF e.gen # a.gen THEN Check(a, FALSE) ELSE ReplayDecision(a, e)
  BY DEF ReplayEvent
<1>3. DOMAIN a = Fields
  BY <1>1 DEF Same
<1> HIDE DEF a
<1>4. \A c : Same(Check(a, c), a) /\ Check(a, c).gate = a.gate /\ Check(a, c).sup = a.sup
  BY <1>3, CheckKeeps
<1>5. CASE e.gen # a.gen
  BY <1>1, <1>2, <1>4, <1>5 DEF Decided, Same
<1>6. CASE e.gen = a.gen /\ k \in a.decided
  BY <1>1, <1>2, <1>4, <1>6 DEF Decided, Same, ReplayDecision
<1>7. CASE e.gen = a.gen /\ k \notin a.decided /\ e.stage \notin Gates \cap DOMAIN a.completed
  <2>1. ReplayDecision(a, e) = [Check(a, FALSE) EXCEPT !.decided = @ \cup {k}]
    BY <1>7 DEF ReplayDecision
  <2>2. ReplayEvent(b, e, P) = ReplayDecision(a, e)
    BY <1>2, <1>7
  <2>3. \A x : Same(x, a) /\ x.gate = a.gate /\ x.sup = a.sup
               => LET y == [x EXCEPT !.decided = @ \cup {k}]
                  IN  Same(y, a) /\ y.gate = a.gate /\ y.sup = a.sup
    BY DEF Same, Fields
  <2>4. PICK w : w = ReplayDecision(a, e)
    OBVIOUS
  <2>5. Same(w, a) /\ w.gate = a.gate /\ w.sup = a.sup
    <3> HIDE DEF k
    <3>1. Same(Check(a, FALSE), a) /\ Check(a, FALSE).gate = a.gate /\ Check(a, FALSE).sup = a.sup
      BY <1>3, CheckKeeps
    <3> QED BY <2>1, <2>3, <2>4, <3>1
  <2> QED BY <1>1, <2>2, <2>4, <2>5 DEF Decided, Same
<1>8. CASE e.gen = a.gen /\ k \notin a.decided /\ e.stage \in Gates \cap DOMAIN a.completed
  <2>1. PICK c : ReplayDecision(a, e) =
                   [Check(a, c) EXCEPT !.decided = @ \cup {k}, !.decision = e, !.gate = NoStage,
                                       !.sup = IF e.action = "continue" THEN @ ELSE e.stage]
    BY <1>8 DEF ReplayDecision
  <2> HIDE DEF k
  <2> QED BY <1>1, <1>2, <1>4, <1>8, <2>1 DEF Decided, Same, Fields
<1> QED BY <1>5, <1>6, <1>7, <1>8

\* A generation is superseded on the word of a pending gate.
Superseded(w, b, e) ==
    \/ Same(w, b) /\ w.gate = NoStage /\ w.sup \in {NoStage, b.sup}
    \/ /\ DOMAIN w = Fields /\ Free(w)
       /\ b.sup = e.stage /\ e.stage \in DOMAIN b.completed
       /\ w.completed = [s \in DOMAIN b.completed \ FromAllocation |-> b.completed[s]]
       /\ w.gen = b.gen + 1 /\ b.gen + 1 < MaxGenerations /\ w.done = FALSE

\* A supersession is taken as a whole or not at all (_replay).
LEMMA SupersededEffect ==
    \A b, e, P : DOMAIN b = Fields /\ e.ev = "generation_superseded"
                 => Superseded(ReplayEvent(b, e, P), b, e)
<1> SUFFICES ASSUME NEW b, NEW e, NEW P, DOMAIN b = Fields, e.ev = "generation_superseded"
             PROVE  Superseded(ReplayEvent(b, e, P), b, e)
  OBVIOUS
<1> DEFINE a == Immediate(b, e)
           gone == FromAllocation \cap DOMAIN a.completed
           kept == [s \in DOMAIN a.completed \ gone |-> a.completed[s]]
<1>1. Same(a, b) /\ a.gate = NoStage /\ a.sup = b.sup
  BY ImmediateKeeps
<1>2. ReplayEvent(b, e, P) = ReplaySuperseded(a, e)
  BY DEF ReplayEvent
<1>3. DOMAIN a = Fields
  BY <1>1 DEF Same
<1> HIDE DEF a
<1>4. Same(Check(a, FALSE), a) /\ Check(a, FALSE).gate = a.gate /\ Check(a, FALSE).sup = a.sup
  BY <1>3, CheckKeeps
<1>5. \/ ReplaySuperseded(a, e) = Check(a, FALSE)
      \/ /\ e.attempt = a.gen + 1 /\ e.attempt < MaxGenerations
         /\ e.stage \in DOMAIN a.completed /\ a.sup = e.stage
         /\ ReplaySuperseded(a, e) =
              [a EXCEPT !.completed = kept,
                        !.preds = [s \in DOMAIN @ \ gone |-> @[s]],
                        !.state = InstalledState(kept),
                        !.gen = @ + 1, !.done = FALSE, !.sup = NoStage]
  BY Zenon DEF ReplaySuperseded
<1>6. CASE ReplaySuperseded(a, e) = Check(a, FALSE)
  BY <1>1, <1>2, <1>4, <1>6 DEF Superseded, Same
<1>7. CASE /\ e.attempt = a.gen + 1 /\ e.attempt < MaxGenerations
           /\ e.stage \in DOMAIN a.completed /\ a.sup = e.stage
           /\ ReplaySuperseded(a, e) =
                [a EXCEPT !.completed = kept,
                          !.preds = [s \in DOMAIN @ \ gone |-> @[s]],
                          !.state = InstalledState(kept),
                          !.gen = @ + 1, !.done = FALSE, !.sup = NoStage]
  <2>1. kept = [s \in DOMAIN b.completed \ FromAllocation |-> b.completed[s]]
    <3>1. a.completed = b.completed
      BY <1>1 DEF Same
    <3>2. DOMAIN a.completed \ gone = DOMAIN b.completed \ FromAllocation
      BY <3>1
    <3> QED BY <3>1, <3>2
  <2> HIDE DEF kept, gone
  <2>2. PICK w : w = ReplaySuperseded(a, e)
    OBVIOUS
  <2>3. /\ DOMAIN w = Fields /\ w.completed = kept /\ w.gen = a.gen + 1 /\ w.done = FALSE
        /\ w.gate = a.gate /\ w.sup = NoStage
    BY <1>3, <1>7, <2>2 DEF Fields
  <2>4. a.gen = b.gen /\ a.completed = b.completed
    BY <1>1 DEF Same
  <2> QED BY <1>1, <1>2, <1>7, <2>1, <2>2, <2>3, <2>4 DEF Superseded, Free
<1> QED BY <1>5, <1>6, <1>7

-----------------------------------------------------------------------------
(* The inductive invariant *)

\* The fields of the process, and of an event.
RunFields == {"pc", "stage", "attempt", "completed", "state", "gen", "loop"}
EventFields == {"ev", "stage", "attempt", "gen", "pre", "post", "action", "dropped"}

\* Before the audit a process knows nothing, after it what the audit says.
Resuming == {"down", "recover", "truncate", "recovered", "audit"}
Attempting == {"adapter", "bind", "failed"}
Retiring == {"plan", "unlink", "retired"}
Active == Attempting \cup Retiring \cup {"reconcile", "preflight", "stage", "decide", "supersede"}

\* The types, with what a process may be doing.
Typed ==
    /\ crashes \in 0 .. MaxCrashes /\ errors \in 0 .. MaxFailures /\ torn \in 0 .. crashes
    /\ quarantine \in [1 .. MaxCrashes -> {"none", "partial", "whole"}]
    /\ DOMAIN run = RunFields /\ run.pc \in Resuming \cup Active
    /\ run.stage \in Stages \cup {NoStage} /\ DOMAIN run.completed \subseteq Stages
    /\ run.gen \in 0 .. MaxGenerations - 1 /\ run.loop \in BOOLEAN

\* The journal is a sequence of events, and the files bear out what they say.
Written == Listed(journal) /\ \A e \in Range(journal) : DOMAIN e = EventFields /\ Backed(e)

\* audit is what the journal comes to.
Audited == \E v : DOMAIN v = Fields /\ Reached(v) /\ audit = CheckPrefix(v)

\* The journal has the completion of an attempt, and the decision of a gate.
CompletedEvent(s, n) ==
    \E e \in Range(journal) : e.ev = "stage_completed" /\ e.stage = s /\ e.attempt = n
DecisionEvent(s, g) ==
    \E e \in Range(journal) : e.ev = "gate_decision" /\ e.stage = s /\ e.gen = g

\* The stage accepted last, and the stage to be accepted next.
IsLast(s) == s \in Stages /\ DOMAIN audit.completed = Plan(Position(s))
IsNext(s) == s \in Stages /\ DOMAIN audit.completed = Plan(Position(s) - 1)

\* What is accepted is a beginning of the plan, each stage by a completion of
\* the journal; a gate that awaits its decision or a supersession is the stage
\* accepted last.
Sound ==
    /\ audit.gen \in 0 .. MaxGenerations - 1
    /\ \E n \in 0 .. Len(StageOrder) : DOMAIN audit.completed = Plan(n)
    /\ \A s \in DOMAIN audit.completed : CompletedEvent(s, audit.completed[s])
    /\ audit.gate # NoStage => audit.gate \in Gates /\ IsLast(audit.gate)
    /\ audit.sup # NoStage =>
          audit.sup \in Gates /\ IsLast(audit.sup) /\ DecisionEvent(audit.sup, audit.gen)

\* The process acts on what the audit says.
Agreed ==
    /\ run.pc \in Active =>
          /\ run.completed = audit.completed /\ run.state = audit.state /\ run.gen = audit.gen
          /\ ~audit.done
    /\ run.loop => run.pc \in Active \ {"reconcile", "preflight"}

\* What a retirement that s triggers now would delete.
PlannedNow(s) == << ProducerOf(s), audit.completed[ProducerOf(s)] >>
\* What each step of the process may rely on when it is its turn.
Placed ==
    /\ run.pc = "truncate" => torn # 0 /\ quarantine[torn] # "none"
    /\ run.pc = "recovered" => run.attempt \in 1 .. MaxCrashes /\ quarantine[run.attempt] # "none"
    /\ run.pc = "decide" => /\ run.stage \in Gates /\ IsLast(run.stage)
                            /\ run.attempt = audit.completed[run.stage]
    /\ run.pc = "supersede" => DecisionEvent(run.stage, run.gen)
    /\ run.pc \in Attempting => IsNext(run.stage)
    /\ run.pc \in Retiring \cup {"reconcile"} => Retention
    /\ run.pc \in Retiring => run.stage \in Triggers \cap DOMAIN audit.completed
    /\ run.pc \in {"unlink", "retired"} => PlannedNow(run.stage) \in Plans(journal)
    /\ run.pc = "retired" => PlannedNow(run.stage) \in deleted

\* The attempts of a stage are counted, and only the last may be without an end.
Numbered == \A s \in Stages : \E n \in Nat : StartsOf(s) = 1 .. n
\* A receipt belongs to an attempt that was started, and one without an end is
\* the last (_recover_unjournaled_result looks at no other).
Received ==
    \A k \in DOMAIN receipts : \E s \in Stages, n \in Nat :
        /\ k = << s, n >> /\ n \in StartsOf(s) /\ receipts[k] \in BOOLEAN
        /\ Terminated(s, n) \/ \A m \in StartsOf(s) : m <= n
\* The process works on the last attempt; it has no receipt before the adapter
\* has written one.
Attempted ==
    /\ run.pc \in Attempting =>
          /\ run.attempt \in StartsOf(run.stage)
          /\ \A m \in StartsOf(run.stage) : m <= run.attempt
    /\ run.pc = "adapter" => << run.stage, run.attempt >> \notin DOMAIN receipts
    /\ run.pc = "bind" => << run.stage, run.attempt >> \in DOMAIN receipts

\* What is deleted was planned, and a plan follows the completion it rests on.
Deleted == Explained /\ deleted \subseteq DOMAIN receipts /\ (~Retention => Plans(journal) = {})
\* A plan to retire follows the completion of its trigger.
Follows ==
    \A j \in DOMAIN journal : journal[j].ev = "artifacts_retirement_planned" =>
        \E i \in DOMAIN journal :
            /\ i < j /\ journal[i].ev = "stage_completed"
            /\ journal[j].post = << << journal[i].stage, journal[i].attempt >> >>
            /\ ProducerOf(journal[i].stage) = journal[j].stage

\* A retirement that is not finished is one of what is accepted now, and keeps
\* everything else waiting.
PlansNow(e, s) ==
    /\ s \in Triggers \cap DOMAIN audit.completed
    /\ Key(e) = PlannedNow(s) /\ e.post = << << s, audit.completed[s] >> >>
Pending ==
    \A e \in Range(journal) :
        e.ev = "artifacts_retirement_planned" /\ ~Journaled("artifacts_retirement_completed", e) =>
            /\ audit.gate = NoStage /\ audit.sup = NoStage
            /\ run.pc \in Resuming \cup Retiring \cup {"reconcile"}
            /\ \E s \in Stages : PlansNow(e, s) /\ (run.loop => run.pc # "plan" /\ s = run.stage)

\* Every attempt was paid for: by a kill, by a failure or by its completion.
Spent ==
    \A s \in Stages : \A n \in StartsOf(s) :
        n <= crashes + errors + audit.gen
             + IF s \in DOMAIN audit.completed \/ (run.pc \in {"adapter", "bind"} /\ run.stage = s)
               THEN 1 ELSE 0

\* The inductive invariant.
IInv ==
    /\ Typed /\ Written /\ Audited /\ Sound /\ Agreed /\ Placed
    /\ Numbered /\ Received /\ Attempted /\ Deleted /\ Follows /\ Pending /\ Spent

-----------------------------------------------------------------------------
(* Steps that leave the journal alone, and steps that append to it *)

\* The replay of the files follows the files.
AuditNext ==
    audit' = IF UNCHANGED << journal, quarantine, receipts, deleted >>
             THEN audit ELSE Replay(journal)'

\* A step that appends nothing leaves the verdict as it is.
LEMMA AuditStays ==
    ASSUME IInv, AuditNext, journal' = journal, FilesGrow, Explained'
    PROVE  audit' = audit /\ Audited'
<1>1. Listed(journal) /\ (\A e \in Range(journal) : Backed(e)) /\ Explained
  BY DEF IInv, Written, Deleted
<1>2. PICK v : DOMAIN v = Fields /\ Reached(v) /\ audit = CheckPrefix(v)
  BY DEF IInv, Audited
<1>3. Reached(v)' /\ Replay(journal)' = CheckPrefix(v)
  BY <1>1, <1>2, ReplaySame
<1>4. audit' = CheckPrefix(v)
  BY <1>2, <1>3 DEF AuditNext
<1> QED BY <1>2, <1>3, <1>4 DEF Audited, CheckPrefix, Check

\* A step that appends an event moves the verdict by that event.
LEMMA AuditMoves ==
    ASSUME IInv, AuditNext, NEW e, journal' = Append(journal, e),
           UNCHANGED << quarantine, receipts, deleted >>
    PROVE  \E v, w : /\ DOMAIN v = Fields /\ audit = CheckPrefix(v)
                     /\ w = ReplayEvent(v, e, Plans(journal))' /\ Reached(w)'
                     /\ audit' = CheckPrefix(w)
<1>1. Listed(journal) /\ (\A d \in Range(journal) : Backed(d)) /\ Explained
  BY DEF IInv, Written, Deleted
<1>2. PICK v : DOMAIN v = Fields /\ Reached(v) /\ audit = CheckPrefix(v)
  BY DEF IInv, Audited
<1>3. Range(journal') = Range(journal) \cup {e} /\ journal' # journal
  <2>1. /\ Len(journal) \in Nat /\ DOMAIN journal = 1 .. Len(journal)
        /\ DOMAIN journal' = 1 .. Len(journal) + 1 /\ Range(journal') = Range(journal) \cup {e}
    BY <1>1, Appended
  <2>2. Len(journal) + 1 \in DOMAIN journal' /\ Len(journal) + 1 \notin DOMAIN journal
    BY <2>1
  <2> QED BY <2>1, <2>2
<1>4. Explained'
  <2>1. \A x \in Plans(journal) : x \in Plans(journal')
    BY <1>3 DEF Plans
  <2> QED BY <1>1, <2>1 DEF Explained
<1>5. FilesGrow
  BY DEF FilesGrow
<1>6. PICK w : /\ w = ReplayEvent(v, e, Plans(journal))' /\ Reached(w)'
               /\ Replay(journal)' = CheckPrefix(w)
  BY <1>1, <1>2, <1>4, <1>5, ReplayStep
<1>7. audit' = CheckPrefix(w)
  BY <1>3, <1>6 DEF AuditNext
<1> QED BY <1>2, <1>6, <1>7

\* A step from the invariant that appends e and touches no other file.
Moved(e) ==
    IInv /\ AuditNext /\ journal' = Append(journal, e) /\ UNCHANGED << quarantine, receipts, deleted >>

\* After the recovery of a tail the verdict says what it said.
LEMMA MovedRecovered ==
    ASSUME NEW d, Moved(d), d.ev = "journal_tail_recovered"
    PROVE  Audited' /\ Same(audit', audit) /\ audit'.gate = audit.gate /\ audit'.sup = audit.sup
<1>0. (\A b, e, P : DOMAIN b = Fields /\ e.ev = "journal_tail_recovered" =>
          /\ Same(ReplayEvent(b, e, P), b)
          /\ ReplayEvent(b, e, P).gate = b.gate /\ ReplayEvent(b, e, P).sup = b.sup)'
  BY RecoveredEffect, PTL
<1>1. PICK v, w : /\ DOMAIN v = Fields /\ audit = CheckPrefix(v)
                  /\ w = ReplayEvent(v, d, Plans(journal))' /\ Reached(w)'
                  /\ audit' = CheckPrefix(w)
  BY AuditMoves DEF Moved
<1>2. Same(w, v) /\ w.gate = v.gate /\ w.sup = v.sup
  BY <1>1, <1>0 DEF Same
<1>3. DOMAIN w = Fields
  BY <1>2 DEF Same
<1>4. Audited'
  BY <1>1, <1>3 DEF Audited, CheckPrefix, Check
<1> QED BY <1>1, <1>2, <1>3, <1>4, CheckPrefixKeeps DEF Same

\* After an event that only has to be in order nothing is accepted or taken
\* back.
LEMMA MovedPlain ==
    ASSUME NEW d, Moved(d),
           d.ev \in {"resource_preflight", "artifacts_retirement_planned",
                     "artifacts_retirement_completed", "stage_started", "stage_failed"}
    PROVE  Audited' /\ Same(audit', audit) /\ Free(audit')
<1>0. (\A b, e, P : /\ DOMAIN b = Fields
                    /\ e.ev \in {"resource_preflight", "artifacts_retirement_planned",
                                 "artifacts_retirement_completed", "stage_started", "stage_failed"}
                    => Same(ReplayEvent(b, e, P), b) /\ Free(ReplayEvent(b, e, P)))'
  BY PlainEffect, PTL
<1>1. PICK v, w : /\ DOMAIN v = Fields /\ audit = CheckPrefix(v)
                  /\ w = ReplayEvent(v, d, Plans(journal))' /\ Reached(w)'
                  /\ audit' = CheckPrefix(w)
  BY AuditMoves DEF Moved
<1>2. Same(w, v) /\ Free(w)
  BY <1>1, <1>0 DEF Same, Free
<1>3. DOMAIN w = Fields
  BY <1>2 DEF Same
<1>4. Audited'
  BY <1>1, <1>3 DEF Audited, CheckPrefix, Check
<1> QED BY <1>1, <1>2, <1>3, <1>4, CheckPrefixKeeps DEF Same, Free

\* After its last event the campaign is done.
LEMMA MovedCompletion ==
    ASSUME NEW d, Moved(d), d.ev = "campaign_completed"
    PROVE  /\ Audited' /\ DOMAIN audit' = Fields /\ audit'.completed = audit.completed
           /\ audit'.state = audit.state /\ audit'.gen = audit.gen /\ audit'.done = TRUE
           /\ Free(audit')
<1>0. (\A b, e, P : DOMAIN b = Fields /\ e.ev = "campaign_completed" =>
          /\ DOMAIN ReplayEvent(b, e, P) = Fields /\ ReplayEvent(b, e, P).completed = b.completed
          /\ ReplayEvent(b, e, P).state = b.state /\ ReplayEvent(b, e, P).gen = b.gen
          /\ ReplayEvent(b, e, P).done = TRUE /\ Free(ReplayEvent(b, e, P)))'
  BY CompletionEffect, PTL
<1>1. PICK v, w : /\ DOMAIN v = Fields /\ audit = CheckPrefix(v)
                  /\ w = ReplayEvent(v, d, Plans(journal))' /\ Reached(w)'
                  /\ audit' = CheckPrefix(w)
  BY AuditMoves DEF Moved
<1>2. /\ DOMAIN w = Fields /\ w.completed = v.completed /\ w.state = v.state /\ w.gen = v.gen
      /\ w.done = TRUE /\ Free(w)
  BY <1>1, <1>0 DEF Free
<1>3. Audited'
  BY <1>1, <1>2 DEF Audited, CheckPrefix, Check
<1> QED BY <1>1, <1>2, <1>3, CheckPrefixKeeps DEF Same, Free

\* After a completion that fits its stage is accepted.
LEMMA MovedCompleted ==
    ASSUME NEW d, Moved(d), d.ev = "stage_completed", Fits(audit, d)
    PROVE  Audited' /\ Completed(audit', audit, d)
<1>0. (\A b, e, P : /\ DOMAIN b = Fields /\ e.ev = "stage_completed" /\ Fits(b, e) /\ deleted \subseteq P
                    => Completed(ReplayEvent(b, e, P), b, e))'
  BY CompletedEffect, PTL
<1>1. PICK v, w : /\ DOMAIN v = Fields /\ audit = CheckPrefix(v)
                  /\ w = ReplayEvent(v, d, Plans(journal))' /\ Reached(w)'
                  /\ audit' = CheckPrefix(w)
  BY AuditMoves DEF Moved
<1>2. Same(audit, v)
  BY <1>1, CheckPrefixKeeps
<1>3. Fits(v, d)' /\ deleted' \subseteq Plans(journal)'
  <2>1. Fits(v, d)'
    BY <1>2 DEF Fits, Same, Moved
  <2>2. Listed(journal) /\ deleted \subseteq Plans(journal)
    BY DEF Moved, IInv, Deleted, Explained, Written
  <2>3. Range(journal') = Range(journal) \cup {d}
    BY <2>2, Appended DEF Moved
  <2>4. \A x \in Plans(journal) : x \in Plans(journal')
    BY <2>3 DEF Plans
  <2> QED BY <2>1, <2>2, <2>4 DEF Moved
<1>4. Completed(w, v, d)
  <2> QED BY <1>1, <1>3, <1>0 DEF Completed
<1>5. DOMAIN w = Fields
  BY <1>4 DEF Completed
<1>6. Audited'
  BY <1>1, <1>5 DEF Audited, CheckPrefix, Check
<1> QED BY <1>1, <1>2, <1>4, <1>5, <1>6, CheckPrefixKeeps DEF Same, Completed

\* After a decision the gate is not pending, or the decision was refused.
LEMMA MovedDecided ==
    ASSUME NEW d, Moved(d), d.ev = "gate_decision"
    PROVE  Audited' /\ Decided(audit', audit, d)
<1>0. (\A b, e, P : DOMAIN b = Fields /\ e.ev = "gate_decision"
                    => Decided(ReplayEvent(b, e, P), b, e))'
  BY DecidedEffect, PTL
<1>1. PICK v, w : /\ DOMAIN v = Fields /\ audit = CheckPrefix(v)
                  /\ w = ReplayEvent(v, d, Plans(journal))' /\ Reached(w)'
                  /\ audit' = CheckPrefix(w)
  BY AuditMoves DEF Moved
<1>2. Decided(w, v, d)
  BY <1>1, <1>0 DEF Decided, Same
<1>3. DOMAIN w = Fields
  BY <1>2 DEF Decided, Same
<1>4. Audited'
  BY <1>1, <1>3 DEF Audited, CheckPrefix, Check
<1> QED BY <1>1, <1>2, <1>3, <1>4, CheckPrefixKeeps DEF Same, Decided

\* After a supersession a new generation has begun at the allocation, or it was
\* refused.
LEMMA MovedSuperseded ==
    ASSUME NEW d, Moved(d), d.ev = "generation_superseded"
    PROVE  Audited' /\ Superseded(audit', audit, d)
<1>0. (\A b, e, P : DOMAIN b = Fields /\ e.ev = "generation_superseded"
                    => Superseded(ReplayEvent(b, e, P), b, e))'
  BY SupersededEffect, PTL
<1>1. PICK v, w : /\ DOMAIN v = Fields /\ audit = CheckPrefix(v)
                  /\ w = ReplayEvent(v, d, Plans(journal))' /\ Reached(w)'
                  /\ audit' = CheckPrefix(w)
  BY AuditMoves DEF Moved
<1>2. Superseded(w, v, d)
  BY <1>1, <1>0 DEF Superseded, Same, Free
<1>3. DOMAIN w = Fields
  BY <1>2 DEF Superseded, Same
<1>4. Audited'
  BY <1>1, <1>3 DEF Audited, CheckPrefix, Check
<1>5. /\ Same(audit, v) /\ audit.gate = v.gate /\ audit.sup = v.sup
      /\ Same(audit', w) /\ audit'.gate = w.gate /\ audit'.sup = w.sup
  BY <1>1, <1>3, CheckPrefixKeeps
<1>6. CASE Same(w, v) /\ w.gate = NoStage /\ w.sup \in {NoStage, v.sup}
  BY <1>4, <1>5, <1>6 DEF Same, Superseded
<1>7. CASE ~(Same(w, v) /\ w.gate = NoStage /\ w.sup \in {NoStage, v.sup})
  BY <1>2, <1>4, <1>5, <1>7 DEF Same, Superseded, Free
<1> QED BY <1>6, <1>7

-----------------------------------------------------------------------------
(* The journal grows *)

\* The attempts of a stage are those the journal says were started.
LEMMA StartsIs ==
    \A s, m : m \in StartsOf(s) <=>
        \E d \in Range(journal) : d.ev = "stage_started" /\ d.stage = s /\ d.attempt = m
BY DEF StartsOf, Events, Range

\* e starts an attempt of s.
Starting(e, s) == e.ev = "stage_started" /\ e.stage = s

\* What an appended event adds to the journal, and that nothing is lost by it.
LEMMA JournalGrows ==
    ASSUME NEW e, Moved(e)
    PROVE  /\ Listed(journal)' /\ Range(journal)' = Range(journal) \cup {e}
           /\ \A s, m : m \in StartsOf(s)' <=> m \in StartsOf(s) \/ (Starting(e, s) /\ m = e.attempt)
           /\ \A s, n : Terminated(s, n) => Terminated(s, n)'
           /\ \A s, n : CompletedEvent(s, n) => CompletedEvent(s, n)'
           /\ \A s, g : DecisionEvent(s, g) => DecisionEvent(s, g)'
           /\ Plans(journal) \subseteq Plans(journal)'
           /\ \A i \in DOMAIN journal : i \in DOMAIN journal' /\ journal'[i] = journal[i]
           /\ Len(journal) + 1 \in DOMAIN journal' /\ journal'[Len(journal) + 1] = e
           /\ \A i \in DOMAIN journal' : i \in DOMAIN journal \/ i = Len(journal) + 1
           /\ \A i \in DOMAIN journal : i < Len(journal) + 1
<1>1. Listed(journal) /\ journal' = Append(journal, e)
  BY DEF Moved, IInv, Written
<1>2. /\ Listed(journal)' /\ Range(journal)' = Range(journal) \cup {e}
      /\ Len(journal) \in Nat
      /\ DOMAIN journal = 1 .. Len(journal) /\ DOMAIN journal' = 1 .. Len(journal) + 1
      /\ journal'[Len(journal) + 1] = e /\ \A i \in 1 .. Len(journal) : journal'[i] = journal[i]
  <2>1. PICK k : k = journal'
    OBVIOUS
  <2>2. k = Append(journal, e)
    BY <1>1, <2>1
  <2>3. Listed(k) /\ Range(k) = Range(journal) \cup {e} /\ Len(journal) \in Nat
    BY <1>1, <2>2, Appended
  <2>4. DOMAIN journal = 1 .. Len(journal) /\ DOMAIN k = 1 .. Len(journal) + 1
    BY <1>1, <2>2, Appended
  <2>5. k[Len(journal) + 1] = e /\ \A i \in 1 .. Len(journal) : k[i] = journal[i]
    BY <1>1, <2>2, Appended
  <2> QED BY <2>1, <2>3, <2>4, <2>5 DEF Listed
<1>3. \A s, m : m \in StartsOf(s)' <=> m \in StartsOf(s) \/ (Starting(e, s) /\ m = e.attempt)
  <2>1. (\A s, m : m \in StartsOf(s) <=>
            \E d \in Range(journal) : d.ev = "stage_started" /\ d.stage = s /\ d.attempt = m)'
    BY StartsIs, PTL
  <2> QED BY <1>2, <2>1, StartsIs DEF Starting
<1>4. /\ \A s, n : Terminated(s, n) => Terminated(s, n)'
      /\ \A s, n : CompletedEvent(s, n) => CompletedEvent(s, n)'
      /\ \A s, g : DecisionEvent(s, g) => DecisionEvent(s, g)'
      /\ Plans(journal) \subseteq Plans(journal)'
  BY <1>2 DEF Terminated, CompletedEvent, DecisionEvent, Plans
<1>5. /\ \A i \in DOMAIN journal : i \in DOMAIN journal' /\ journal'[i] = journal[i]
      /\ Len(journal) + 1 \in DOMAIN journal'
      /\ \A i \in DOMAIN journal' : i \in DOMAIN journal \/ i = Len(journal) + 1
      /\ \A i \in DOMAIN journal : i < Len(journal) + 1
  BY <1>2
<1> QED BY <1>2, <1>3, <1>4, <1>5

\* Only a start starts an attempt.
LEMMA StartsStay ==
    ASSUME NEW e, Moved(e), e.ev # "stage_started"
    PROVE  \A s : StartsOf(s)' = StartsOf(s)
<1>1. ASSUME NEW s PROVE StartsOf(s)' = StartsOf(s)
  <2>1. \A m : m \in StartsOf(s)' <=> m \in StartsOf(s)
    BY JournalGrows DEF Starting
  <2>2. PICK S, T : S = StartsOf(s) /\ T = StartsOf(s)'
    OBVIOUS
  <2>3. S = T
    BY <2>1, <2>2
  <2> QED BY <2>2, <2>3
<1> QED BY <1>1

\* What an event leaves true that starts no attempt.
LEMMA AttemptsAppend ==
    ASSUME NEW e, Moved(e), DOMAIN e = EventFields, Backed(e), e.ev # "stage_started"
    PROVE  Written' /\ Numbered' /\ Received'
<1>1. IInv /\ UNCHANGED << quarantine, receipts, deleted >>
  BY DEF Moved
<1>2. \A s : StartsOf(s)' = StartsOf(s)
  BY StartsStay
<1>3. Written'
  BY <1>1, JournalGrows DEF IInv, Written, Backed
<1>4. Numbered'
  BY <1>1, <1>2 DEF IInv, Numbered
<1>5. Received'
  <2>1. ASSUME NEW k \in DOMAIN receipts
        PROVE  \E s \in Stages, n \in Nat :
                   /\ k = << s, n >> /\ n \in StartsOf(s)' /\ receipts'[k] \in BOOLEAN
                   /\ Terminated(s, n)' \/ \A m \in StartsOf(s)' : m <= n
    <3>1. PICK s \in Stages, n \in Nat :
              /\ k = << s, n >> /\ n \in StartsOf(s) /\ receipts[k] \in BOOLEAN
              /\ Terminated(s, n) \/ \A m \in StartsOf(s) : m <= n
      BY <1>1 DEF IInv, Received
    <3> QED BY <1>1, <1>2, <3>1, JournalGrows
  <2> QED BY <1>1, <2>1 DEF Received
<1> QED BY <1>3, <1>4, <1>5

\* What an event leaves true that plans no retirement.
LEMMA PlansAppend ==
    ASSUME NEW e, Moved(e), e.ev # "artifacts_retirement_planned"
    PROVE  Deleted' /\ Follows'
<1>1. IInv /\ UNCHANGED << quarantine, receipts, deleted >>
  BY DEF Moved
<1>2. Deleted'
  <2>1. Plans(journal)' = Plans(journal)
    BY JournalGrows DEF Plans
  <2> QED BY <1>1, <2>1 DEF IInv, Deleted, Explained
<1>3. Follows'
  <2>1. ASSUME NEW j \in DOMAIN journal', journal'[j].ev = "artifacts_retirement_planned"
        PROVE  \E i \in DOMAIN journal' :
                   /\ i < j /\ journal'[i].ev = "stage_completed"
                   /\ journal'[j].post = << << journal'[i].stage, journal'[i].attempt >> >>
                   /\ ProducerOf(journal'[i].stage) = journal'[j].stage
    <3>1. j \in DOMAIN journal /\ journal'[j] = journal[j]
      BY <2>1, JournalGrows
    <3>2. PICK i \in DOMAIN journal :
              /\ i < j /\ journal[i].ev = "stage_completed"
              /\ journal[j].post = << << journal[i].stage, journal[i].attempt >> >>
              /\ ProducerOf(journal[i].stage) = journal[j].stage
      BY <1>1, <2>1, <3>1 DEF IInv, Follows
    <3>3. i \in DOMAIN journal' /\ journal'[i] = journal[i]
      BY JournalGrows
    <3> QED BY <3>1, <3>2, <3>3
  <2> QED BY <2>1 DEF Follows
<1> QED BY <1>2, <1>3

\* No retirement is pending that was not.
LEMMA NothingPending ==
    ASSUME NEW e, Moved(e), e.ev # "artifacts_retirement_planned",
           NEW d \in Range(journal)', d.ev = "artifacts_retirement_planned",
           ~Journaled("artifacts_retirement_completed", d)'
    PROVE  d \in Range(journal) /\ ~Journaled("artifacts_retirement_completed", d)
BY JournalGrows DEF Journaled

-----------------------------------------------------------------------------
(* Steps of the process that leave the journal, the receipts and what is    *)
(* deleted as they are                                                      *)

\* A step from the invariant that leaves the journal, the receipts and the
\* transient files.
Untouched ==
    /\ IInv /\ AuditNext /\ UNCHANGED << journal, receipts, deleted >>
    /\ \A f \in 1 .. MaxCrashes : quarantine[f] # "none" => quarantine'[f] = quarantine[f]

\* Such a step leaves everything the invariant says of the files.
LEMMA FilesStay ==
    ASSUME Untouched
    PROVE  /\ audit' = audit /\ Audited' /\ Written' /\ Sound'
           /\ Numbered' /\ Received' /\ Deleted' /\ Follows'
           /\ \A s : StartsOf(s)' = StartsOf(s)
<1>1. IInv /\ UNCHANGED << journal, receipts, deleted >>
  BY DEF Untouched
<1>2. FilesGrow /\ Explained'
  BY <1>1 DEF Untouched, FilesGrow, IInv, Deleted, Explained
<1>3. audit' = audit /\ Audited'
  BY <1>1, <1>2, AuditStays DEF Untouched
<1>4. Written'
  BY <1>1, <1>2 DEF IInv, Written, Backed, FilesGrow
<1>5. Sound'
  BY <1>1, <1>3 DEF IInv, Sound, CompletedEvent, DecisionEvent, IsLast
<1>6. \A s : StartsOf(s)' = StartsOf(s)
  BY <1>1 DEF StartsOf, Events
<1>7. Numbered' /\ Received'
  BY <1>1, <1>6 DEF IInv, Numbered, Received, Terminated
<1>8. Deleted' /\ Follows'
  BY <1>1 DEF IInv, Deleted, Explained, Follows
<1> QED BY <1>3, <1>4, <1>5, <1>6, <1>7, <1>8

\* What remains to be shown of such a step is about the process.
LEMMA StepOfProcess ==
    ASSUME Untouched, Typed', Agreed', Placed', Attempted', Pending', Spent'
    PROVE  IInv'
BY FilesStay DEF IInv

\* Where a process may be while a retirement is pending.
Idling == Resuming \cup Retiring \cup {"reconcile"}

\* A pending retirement stays pending while the process comes to it.
LEMMA PendingStays ==
    ASSUME Untouched, run'.pc \in Idling, run'.loop => run'.pc # "plan" /\ run.loop /\ run'.stage = run.stage
    PROVE  Pending'
<1>1. audit' = audit /\ UNCHANGED journal /\ Pending
  BY FilesStay DEF Untouched, IInv
<1>2. ASSUME NEW e \in Range(journal'), e.ev = "artifacts_retirement_planned",
             ~Journaled("artifacts_retirement_completed", e)'
      PROVE  /\ audit'.gate = NoStage /\ audit'.sup = NoStage
             /\ run'.pc \in Idling
             /\ \E s \in Stages : PlansNow(e, s)' /\ (run'.loop => run'.pc # "plan" /\ s = run'.stage)
  <2>1. e \in Range(journal) /\ ~Journaled("artifacts_retirement_completed", e)
    BY <1>1, <1>2 DEF Journaled
  <2>2. /\ audit.gate = NoStage /\ audit.sup = NoStage
        /\ \E s \in Stages : PlansNow(e, s) /\ (run.loop => s = run.stage)
    BY <1>1, <1>2, <2>1 DEF Pending
  <2>3. \A s : PlansNow(e, s)' <=> PlansNow(e, s)
    BY <1>1 DEF PlansNow, PlannedNow
  <2> QED BY <1>1, <2>2, <2>3
<1> QED BY <1>2 DEF Pending, Idling

\* Every retirement that was planned is finished.
NonePending ==
    \A e \in Range(journal) :
        e.ev = "artifacts_retirement_planned" => Journaled("artifacts_retirement_completed", e)

\* A process past _finalize_pending_retirements has left none pending.
LEMMA BusyNonePending ==
    ASSUME Pending, run.pc \notin Idling
    PROVE  NonePending
BY DEF Pending, NonePending, Idling

\* A step that leaves the journal makes none pending.
LEMMA StillNonePending ==
    ASSUME Untouched, NonePending
    PROVE  NonePending' /\ Pending'
BY DEF Untouched, NonePending, Pending, Journaled

\* The arithmetic of Spent: x and y say whether an attempt is open before and
\* after, and the counters only grow.
LEMMA PaidFor ==
    ASSUME NEW a \in Nat, NEW b \in Nat, NEW c \in Nat, NEW d \in Nat, NEW g \in Nat, NEW n \in Nat,
           NEW x \in {0, 1}, NEW y \in {0, 1},
           a <= c, b <= d, c + d > a + b \/ (x = 1 => y = 1), n <= a + b + g + x
    PROVE  n <= c + d + g + y
OBVIOUS

\* The attempts are paid for if the process does not give one up for nothing.
Pays ==
    /\ crashes <= crashes' /\ errors <= errors'
    /\ \/ crashes' + errors' > crashes + errors
       \/ run.pc \in {"adapter", "bind"} =>
             \/ run'.pc \in {"adapter", "bind"} /\ run'.stage = run.stage
             \/ run.stage \in DOMAIN audit'.completed

\* Spent is kept by a step that starts nothing and gives up nothing for
\* nothing.
LEMMA SpentSame ==
    ASSUME IInv, Typed', Pays, \A s : StartsOf(s)' = StartsOf(s),
           audit'.gen = audit.gen, DOMAIN audit.completed \subseteq DOMAIN audit'.completed
    PROVE  Spent'
<1>1. /\ crashes \in Nat /\ errors \in Nat /\ crashes' \in Nat /\ errors' \in Nat /\ audit.gen \in Nat
  BY CampaignAssumption DEF IInv, Typed, Sound
<1>2. ASSUME NEW s \in Stages, NEW n \in StartsOf(s)
      PROVE  n <= crashes' + errors' + audit.gen
                  + IF s \in DOMAIN audit'.completed \/ (run'.pc \in {"adapter", "bind"} /\ run'.stage = s)
                    THEN 1 ELSE 0
  <2>1. n \in Nat
    BY DEF IInv, Numbered
  <2>2. n <= crashes + errors + audit.gen
                + IF s \in DOMAIN audit.completed \/ (run.pc \in {"adapter", "bind"} /\ run.stage = s)
                  THEN 1 ELSE 0
    BY DEF IInv, Spent
  <2> DEFINE x == IF s \in DOMAIN audit.completed \/ (run.pc \in {"adapter", "bind"} /\ run.stage = s)
                  THEN 1 ELSE 0
             y == IF s \in DOMAIN audit'.completed \/ (run'.pc \in {"adapter", "bind"} /\ run'.stage = s)
                  THEN 1 ELSE 0
  <2>3. x \in {0, 1} /\ y \in {0, 1}
    OBVIOUS
  <2>4. crashes' + errors' > crashes + errors \/ (x = 1 => y = 1)
    BY DEF Pays
  <2>5. n <= crashes + errors + audit.gen + x
    BY <2>2
  <2>6. crashes <= crashes' /\ errors <= errors'
    BY DEF Pays
  <2> HIDE DEF x, y
  <2>7. n <= crashes' + errors' + audit.gen + y
    BY <1>1, <2>1, <2>3, <2>4, <2>5, <2>6, PaidFor
  <2> QED BY <2>7 DEF y
<1> QED BY <1>2 DEF Spent

\* Hence by such a step that leaves the journal.
LEMMA SpentStays ==
    ASSUME Untouched, Typed', Pays
    PROVE  Spent'
BY FilesStay, SpentSame DEF Untouched

\* A process that ends, by a return or an exception, leaves the invariant.
LEMMA Leaving ==
    ASSUME Untouched, Leave, Typed', Spent'
    PROVE  IInv'
<1>1. run' = Idle /\ run'.pc = "down" /\ run'.loop = FALSE
  BY DEF Leave, Idle
<1>2. Agreed' /\ Placed' /\ Attempted'
  BY <1>1 DEF Agreed, Placed, Attempted, Active, Attempting, Retiring
<1>3. Pending'
  BY <1>1, PendingStays DEF Idling, Resuming
<1> QED BY <1>2, <1>3, StepOfProcess

\* A process that gets the lock keeps the invariant (execute).
LEMMA StartInv == ASSUME IInv, AuditNext, Start PROVE IInv'
<1>1. Untouched /\ IInv /\ UNCHANGED << torn, quarantine, crashes, errors >> /\ run.pc = "down"
  BY DEF Start, Untouched, faults, At
<1>2. PICK pc \in {"recover", "audit"} : run' = [run EXCEPT !.pc = pc]
  BY DEF Start, Goto
<1>3. /\ DOMAIN run' = RunFields /\ run'.pc = pc /\ run'.stage = run.stage
      /\ run'.completed = run.completed /\ run'.gen = run.gen /\ run'.loop = run.loop
      /\ run.loop = FALSE
  BY <1>1, <1>2 DEF IInv, Typed, RunFields, Agreed, Active, Attempting, Retiring
<1>4. Typed'
  BY <1>1, <1>3 DEF IInv, Typed, Resuming
<1>5. Agreed' /\ Placed' /\ Attempted'
  BY <1>3 DEF Agreed, Placed, Attempted, Active, Attempting, Retiring
<1>6. Pending'
  BY <1>1, <1>3, PendingStays DEF Idling, Resuming
<1>7. Spent'
  <2>1. crashes <= crashes' /\ errors <= errors'
    BY <1>1, CampaignAssumption DEF IInv, Typed
  <2> QED BY <1>1, <1>4, <2>1, SpentStays DEF Pays
<1> QED BY <1>1, <1>4, <1>5, <1>6, <1>7, StepOfProcess

\* Copying the fragment to the quarantine keeps the invariant, also when it is
\* cut short (recover_torn_tail).
LEMMA RecoverTornTailInv == ASSUME IInv, AuditNext, RecoverTornTail PROVE IInv'
<1>1. /\ IInv /\ UNCHANGED << journal, torn, receipts, deleted, crashes >> /\ run.pc = "recover"
      /\ run.loop = FALSE /\ Typed
  BY DEF RecoverTornTail, At, IInv, Agreed, Active, Attempting, Retiring, Typed
<1>2. /\ crashes \in Nat /\ errors \in Nat /\ torn \in Nat /\ (torn # 0 => torn \in 1 .. MaxCrashes)
      /\ MaxCrashes \in Nat /\ MaxFailures \in Nat
  BY <1>1, CampaignAssumption DEF Typed
<1>3. /\ quarantine' \in [1 .. MaxCrashes -> {"none", "partial", "whole"}]
      /\ \A f \in 1 .. MaxCrashes : quarantine[f] # "none" => quarantine'[f] = quarantine[f]
      /\ errors' \in 0 .. MaxFailures /\ errors <= errors'
  <2>1. CASE quarantine' = quarantine /\ errors' = errors
    BY <1>1, <1>2, <2>1 DEF Typed
  <2>2. CASE /\ torn # 0 /\ quarantine[torn] = "none" /\ quarantine' = [quarantine EXCEPT ![torn] = "whole"]
             /\ errors' = errors
    BY <1>1, <1>2, <2>2 DEF Typed
  <2>3. CASE /\ torn # 0 /\ quarantine[torn] = "none"
             /\ quarantine' = [quarantine EXCEPT ![torn] = "partial"]
             /\ errors < MaxFailures /\ errors' = errors + 1
    BY <1>1, <1>2, <2>3 DEF Typed
  <2> QED BY <2>1, <2>2, <2>3 DEF RecoverTornTail
<1>4. Untouched
  BY <1>1, <1>3 DEF Untouched
<1>5. CASE Leave
  <2>1. run' = Idle /\ Typed'
    BY <1>1, <1>3, <1>5, CampaignAssumption DEF Typed, Leave, Idle, RunFields, Nothing, Resuming
  <2>2. crashes <= crashes'
    BY <1>1, <1>2
  <2>3. Spent'
    BY <1>1, <1>3, <1>4, <2>1, <2>2, SpentStays DEF Pays
  <2> QED BY <1>4, <1>5, <2>1, <2>3, Leaving
<1>6. CASE Goto("audit") \/ (Goto("truncate") /\ torn # 0 /\ quarantine'[torn] # "none")
  <2>1. PICK pc \in {"truncate", "audit"} :
            /\ run' = [run EXCEPT !.pc = pc]
            /\ pc = "truncate" => torn # 0 /\ quarantine'[torn] # "none"
    BY <1>6 DEF Goto
  <2>2. /\ DOMAIN run' = RunFields /\ run'.pc = pc /\ run'.stage = run.stage
        /\ run'.completed = run.completed /\ run'.gen = run.gen /\ run'.loop = run.loop
    BY <1>1, <2>1 DEF Typed, RunFields
  <2>3. Typed'
    BY <1>1, <1>3, <2>2 DEF Typed, Resuming
  <2>4. Agreed' /\ Placed' /\ Attempted'
    BY <1>1, <2>1, <2>2 DEF Agreed, Placed, Attempted, Active, Attempting, Retiring
  <2>5. Pending'
    BY <1>1, <1>4, <2>2, PendingStays DEF Idling, Resuming
  <2>6. crashes <= crashes'
    BY <1>1, <1>2
  <2>7. Spent'
    BY <1>1, <1>3, <1>4, <2>3, <2>6, SpentStays DEF Pays
  <2> QED BY <1>4, <2>3, <2>4, <2>5, <2>7, StepOfProcess
<1>7. Leave \/ Goto("audit") \/ (Goto("truncate") /\ torn # 0 /\ quarantine'[torn] # "none")
  BY <1>1, <1>2 DEF RecoverTornTail, Typed
<1> QED BY <1>5, <1>6, <1>7

\* Cutting the fragment off keeps the invariant (recover_torn_tail).
LEMMA TruncateInv == ASSUME IInv, AuditNext, Truncate PROVE IInv'
<1>1. /\ Untouched /\ IInv /\ UNCHANGED << quarantine, crashes, errors >> /\ torn' = 0
      /\ run.pc = "truncate" /\ run' = [run EXCEPT !.pc = "recovered", !.attempt = torn]
      /\ run.loop = FALSE /\ Typed
  BY DEF Truncate, Untouched, faults, At, IInv, Agreed, Active, Attempting, Retiring, Typed
<1>2. /\ crashes \in Nat /\ errors \in Nat /\ torn \in 1 .. MaxCrashes /\ quarantine[torn] # "none"
  BY <1>1, CampaignAssumption DEF IInv, Typed, Placed
<1>3. /\ DOMAIN run' = RunFields /\ run'.pc = "recovered" /\ run'.stage = run.stage
      /\ run'.attempt = torn
      /\ run'.completed = run.completed /\ run'.gen = run.gen /\ run'.loop = FALSE
  BY <1>1 DEF Typed, RunFields
<1>4. Typed'
  BY <1>1, <1>2, <1>3 DEF Typed, Resuming
<1>5. Agreed' /\ Placed' /\ Attempted'
  BY <1>1, <1>2, <1>3 DEF Agreed, Placed, Attempted, Active, Attempting, Retiring
<1>6. Pending'
  BY <1>1, <1>3, PendingStays DEF Idling, Resuming
<1>7. Spent'
  <2>1. crashes <= crashes' /\ errors <= errors'
    BY <1>1, <1>2
  <2> QED BY <1>1, <1>4, <2>1, SpentStays DEF Pays
<1> QED BY <1>1, <1>4, <1>5, <1>6, <1>7, StepOfProcess

\* A stage of a beginning of the plan, and a trigger and its producer.
LEMMA PlanHas ==
    ASSUME NEW n \in 0 .. Len(StageOrder)
    PROVE  /\ IsFiniteSet(Plan(n)) /\ Cardinality(Plan(n)) = n
           /\ Plan(n) \subseteq Stages /\ \A s \in Stages : s \in Plan(n) <=> Position(s) \in 1 .. n
<1>1. 1 \in Nat \ {0} /\ n \in Nat /\ n <= Len(StageOrder) /\ 1 <= n + 1 /\ n + 1 - 1 = n
  BY PlanOrdered
<1> QED BY <1>1, SliceSize DEF Plan

\* The producer of a trigger is the stage before it, and is accepted before it.
LEMMA Producers ==
    ASSUME NEW s \in Triggers
    PROVE  /\ s \in Stages \ Gates /\ ProducerOf(s) \in Stages
           /\ Position(ProducerOf(s)) = Position(s) - 1 /\ Position(s) > 1
           /\ \A n \in 0 .. Len(StageOrder) : s \in Plan(n) => ProducerOf(s) \in Plan(n)
<1>1. s \in Stages /\ Kind[s] = "candidates" /\ Position(s) > 1
  BY CampaignAssumption DEF Triggers
<1>2. s \notin Gates
  BY <1>1 DEF Gates
<1>3. Position(s) - 1 \in 1 .. Len(StageOrder)
  BY <1>1, PlanOrdered
<1>4. ProducerOf(s) \in Stages /\ Position(ProducerOf(s)) = Position(s) - 1
  BY <1>3, PlanOrdered DEF ProducerOf
<1>5. ASSUME NEW n \in 0 .. Len(StageOrder), s \in Plan(n) PROVE ProducerOf(s) \in Plan(n)
  <2>1. Position(s) \in 1 .. n
    BY <1>1, <1>5, PlanHas
  <2>2. Position(ProducerOf(s)) \in 1 .. n
    BY <1>1, <1>4, <2>1
  <2> QED BY <1>4, <2>2, PlanHas
<1> QED BY <1>1, <1>2, <1>4, <1>5

\* Going on from the replay keeps the invariant: the process now acts on it
\* (execute).
LEMMA AuditInv == ASSUME IInv, AuditNext, Audit PROVE IInv'
<1>1. /\ Untouched /\ IInv /\ UNCHANGED << torn, quarantine, crashes, errors >>
      /\ run.pc = "audit" /\ run.loop = FALSE /\ Typed /\ Sound
  BY DEF Audit, Untouched, faults, At, IInv, Agreed, Active, Attempting, Retiring, Typed
<1>2. /\ crashes \in Nat /\ errors \in Nat /\ audit' = audit /\ NoStage \notin Stages
      /\ DOMAIN audit.completed \subseteq Stages
      /\ audit.gen \in 0 .. MaxGenerations - 1
  <2>1. DOMAIN audit.completed \subseteq Stages
    BY <1>1, PlanHas DEF Sound
  <2> QED BY <1>1, <2>1, FilesStay, CampaignAssumption DEF Typed, Sound
<1>3. Pays
  BY <1>1, <1>2 DEF Pays
<1>4. CASE Leave
  <2>1. run' = Idle /\ Typed'
    BY <1>1, <1>4, CampaignAssumption DEF Typed, Leave, Idle, RunFields, Nothing, Resuming
  <2>2. Spent'
    BY <1>1, <1>3, <2>1, SpentStays
  <2> QED BY <1>1, <1>4, <2>1, <2>2, Leaving
<1>5. CASE /\ ~audit.done /\ audit.gate # NoStage
           /\ run' = [Loaded(audit) EXCEPT !.pc = "decide", !.stage = audit.gate,
                                           !.attempt = audit.completed[audit.gate]]
  <2>1. /\ DOMAIN run' = RunFields /\ run'.pc = "decide" /\ run'.stage = audit.gate
        /\ run'.attempt = audit.completed[audit.gate] /\ run'.completed = audit.completed
        /\ run'.state = audit.state /\ run'.gen = audit.gen /\ run'.loop = FALSE
    BY <1>1, <1>5 DEF Typed, RunFields, Loaded
  <2>2. audit.gate \in Gates /\ audit.gate \in Stages /\ IsLast(audit.gate)
    BY <1>1, <1>5 DEF Sound, IsLast
  <2>3. Typed'
    BY <1>1, <1>2, <2>1, <2>2 DEF Typed, Active
  <2>4. IsLast(audit.gate)'
    BY <1>2, <2>2 DEF IsLast
  <2>5. Agreed' /\ Placed' /\ Attempted'
    BY <1>2, <1>5, <2>1, <2>2, <2>4 DEF Agreed, Placed, Attempted, Active, Attempting, Retiring
  <2>6. NonePending
    BY <1>1, <1>5 DEF IInv, Pending, NonePending
  <2>7. Pending' /\ Spent'
    BY <1>1, <1>3, <2>3, <2>6, StillNonePending, SpentStays
  <2> QED BY <1>1, <2>3, <2>5, <2>7, StepOfProcess
<1>6. CASE /\ ~audit.done /\ audit.sup # NoStage
           /\ run' = [Loaded(audit) EXCEPT !.pc = "supersede", !.stage = audit.sup]
  <2>1. /\ DOMAIN run' = RunFields /\ run'.pc = "supersede" /\ run'.stage = audit.sup
        /\ run'.completed = audit.completed
        /\ run'.state = audit.state /\ run'.gen = audit.gen /\ run'.loop = FALSE
    BY <1>1, <1>6 DEF Typed, RunFields, Loaded
  <2>2. audit.sup \in Stages /\ DecisionEvent(audit.sup, audit.gen)
    BY <1>1, <1>6 DEF Sound, IsLast
  <2>3. Typed'
    BY <1>1, <1>2, <2>1, <2>2 DEF Typed, Active
  <2>4. DecisionEvent(run.stage, run.gen)'
    BY <1>1, <2>1, <2>2 DEF DecisionEvent, Untouched
  <2>5. Agreed' /\ Placed' /\ Attempted'
    BY <1>2, <1>6, <2>1, <2>2, <2>4 DEF Agreed, Placed, Attempted, Active, Attempting, Retiring
  <2>6. NonePending
    BY <1>1, <1>6 DEF IInv, Pending, NonePending
  <2>7. Pending' /\ Spent'
    BY <1>1, <1>3, <2>3, <2>6, StillNonePending, SpentStays
  <2> QED BY <1>1, <2>3, <2>5, <2>7, StepOfProcess
<1>7. CASE /\ ~audit.done
           /\ run' = [Loaded(audit) EXCEPT !.pc = IF Retention THEN "reconcile" ELSE "preflight"]
  <2>1. /\ DOMAIN run' = RunFields /\ run'.pc = (IF Retention THEN "reconcile" ELSE "preflight")
        /\ run'.stage = run.stage /\ run'.completed = audit.completed
        /\ run'.state = audit.state /\ run'.gen = audit.gen /\ run'.loop = FALSE
    BY <1>1, <1>7 DEF Typed, RunFields, Loaded
  <2>2. Typed'
    BY <1>1, <1>2, <2>1 DEF Typed, Active
  <2>3. Agreed' /\ Placed' /\ Attempted'
    BY <1>2, <1>7, <2>1 DEF Agreed, Placed, Attempted, Active, Attempting, Retiring
  <2>4. Spent'
    BY <1>1, <1>3, <2>2, SpentStays
  <2>5. Pending'
    <3>1. CASE Retention
      BY <1>1, <2>1, <3>1, PendingStays DEF Idling
    <3>2. CASE ~Retention
      <4>1. NonePending
        BY <1>1, <3>2 DEF IInv, Deleted, NonePending, Plans
      <4> QED BY <1>1, <4>1, StillNonePending
    <3> QED BY <3>1, <3>2
  <2> QED BY <1>1, <2>2, <2>3, <2>4, <2>5, StepOfProcess
<1> QED BY <1>4, <1>5, <1>6, <1>7 DEF Audit

\* Looking for retirements to plan or to finish keeps the invariant
\* (_reconcile_missing_retirement_plans, _finalize_pending_retirements).
LEMMA ReconcileInv == ASSUME IInv, AuditNext, Reconcile PROVE IInv'
<1>1. /\ Untouched /\ IInv /\ UNCHANGED << torn, quarantine, crashes, errors, journal >>
      /\ run.pc = "reconcile" /\ run.loop = FALSE /\ Typed /\ Sound
      /\ run.completed = audit.completed /\ ~audit.done /\ Retention
      /\ run.state = audit.state /\ run.gen = audit.gen
  BY DEF Reconcile, Untouched, faults, At, IInv, Agreed, Active, Attempting, Retiring, Typed, Placed
<1>2. crashes \in Nat /\ errors \in Nat /\ audit' = audit
  BY <1>1, FilesStay, CampaignAssumption DEF Typed
<1>3. Pays
  BY <1>1, <1>2 DEF Pays
<1>4. CASE \E s \in Triggers \cap DOMAIN audit.completed : \E pc \in {"plan", "unlink"} :
              /\ run' = [run EXCEPT !.pc = pc, !.stage = s]
              /\ pc = "unlink" => PlannedNow(s) \in Plans(journal)
  <2>1. PICK s \in Triggers \cap DOMAIN audit.completed, pc \in {"plan", "unlink"} :
              /\ run' = [run EXCEPT !.pc = pc, !.stage = s]
              /\ pc = "unlink" => PlannedNow(s) \in Plans(journal)
    BY <1>4
  <2>2. /\ DOMAIN run' = RunFields /\ run'.pc = pc /\ run'.stage = s
        /\ run'.completed = audit.completed
        /\ run'.state = audit.state /\ run'.gen = audit.gen /\ run'.loop = FALSE
    BY <1>1, <2>1 DEF Typed, RunFields
  <2>3. Typed'
    BY <1>1, <1>2, <2>2 DEF Typed, Active, Retiring, Triggers
  <2>4. PlannedNow(s)' = PlannedNow(s)
    BY <1>2 DEF PlannedNow
  <2>5. Agreed' /\ Placed' /\ Attempted'
    BY <1>1, <1>2, <2>1, <2>2, <2>4 DEF Agreed, Placed, Attempted, Active, Attempting, Retiring
  <2>6. Pending' /\ Spent'
    BY <1>1, <1>3, <2>2, <2>3, PendingStays, SpentStays DEF Idling, Retiring
  <2> QED BY <1>1, <2>3, <2>5, <2>6, StepOfProcess
<1>5. CASE Unfinished = {} /\ Goto("preflight")
  <2>1. /\ DOMAIN run' = RunFields /\ run'.pc = "preflight" /\ run'.stage = run.stage
        /\ run'.completed = audit.completed
        /\ run'.state = audit.state /\ run'.gen = audit.gen /\ run'.loop = FALSE
    BY <1>1, <1>5 DEF Typed, RunFields, Goto
  <2>2. Typed'
    BY <1>1, <1>2, <2>1 DEF Typed, Active
  <2>3. Agreed' /\ Placed' /\ Attempted'
    BY <1>1, <1>2, <2>1 DEF Agreed, Placed, Attempted, Active, Attempting, Retiring
  <2>4. NonePending
    BY <1>5 DEF Unfinished, NonePending
  <2>5. Pending' /\ Spent'
    BY <1>1, <1>3, <2>2, <2>4, StillNonePending, SpentStays
  <2> QED BY <1>1, <2>2, <2>3, <2>5, StepOfProcess
<1>6. ASSUME NEW s \in Unfinished
      PROVE  s \in Triggers \cap DOMAIN audit.completed /\ PlannedNow(s) \in Plans(journal)
  <2>1. PICK e \in Range(journal) :
            /\ e.ev = "artifacts_retirement_planned" /\ s = e.post[1][1]
            /\ ~Journaled("artifacts_retirement_completed", e)
    BY DEF Unfinished
  <2>2. PICK t \in Stages : PlansNow(e, t)
    BY <1>1, <2>1 DEF IInv, Pending
  <2>3. s = t
    BY <2>1, <2>2 DEF PlansNow
  <2> QED BY <2>1, <2>2, <2>3 DEF PlansNow, Plans, Key
<1>7. Unplanned \subseteq Triggers \cap DOMAIN audit.completed
  BY <1>1 DEF Unplanned
<1>8. \/ \E s \in Unplanned : run' = [run EXCEPT !.pc = "plan", !.stage = s]
      \/ \E s \in Unfinished : run' = [run EXCEPT !.pc = "unlink", !.stage = s]
      \/ Unfinished = {} /\ Goto("preflight")
  BY DEF Reconcile
<1> QED BY <1>4, <1>5, <1>6, <1>7, <1>8

-----------------------------------------------------------------------------
(* Steps of the process that append to the journal                          *)

\* Sound is kept by a step that accepts nothing and takes nothing back.
LEMMA SoundSame ==
    ASSUME NEW e, Moved(e), audit'.completed = audit.completed, audit'.gen = audit.gen,
           audit'.gate \in {NoStage, audit.gate}, audit'.sup \in {NoStage, audit.sup}
    PROVE  Sound'
<1>1. Sound
  BY DEF Moved, IInv
<1>2. \A s : IsLast(s)' <=> IsLast(s)
  BY DEF IsLast
<1> QED BY <1>1, <1>2, JournalGrows DEF Sound

\* What remains to be shown of a step whose event starts and plans nothing.
LEMMA QuietStep ==
    ASSUME NEW e, Moved(e), DOMAIN e = EventFields, Backed(e),
           e.ev \notin {"stage_started", "artifacts_retirement_planned"},
           Audited', Sound', Typed', Agreed', Placed', Attempted', Pending', Spent'
    PROVE  IInv'
BY AttemptsAppend, PlansAppend DEF IInv

\* Nor does its event make a retirement pending.
LEMMA PendingMoves ==
    ASSUME NEW e, Moved(e), NonePending, e.ev # "artifacts_retirement_planned"
    PROVE  NonePending' /\ Pending'
BY NothingPending DEF NonePending, Pending

\* Nor does it spend an attempt.
LEMMA SpentMoves ==
    ASSUME NEW e, Moved(e), e.ev # "stage_started", Typed', Pays,
           audit'.completed = audit.completed, audit'.gen = audit.gen
    PROVE  Spent'
<1>1. \A s : StartsOf(s)' = StartsOf(s)
  BY StartsStay
<1> QED BY <1>1, SpentSame DEF Moved

\* Journaling the recovery keeps the invariant (recover_torn_tail).
LEMMA AppendRecoveredInv == ASSUME IInv, AuditNext, AppendRecovered PROVE IInv'
<1> DEFINE e == Event("journal_tail_recovered", NoStage, run.attempt)
<1>1. /\ Moved(e) /\ IInv /\ UNCHANGED << torn, quarantine, crashes, errors >>
      /\ run.pc = "recovered" /\ run.loop = FALSE /\ Typed /\ run' = [run EXCEPT !.pc = "audit"]
      /\ run.attempt \in 1 .. MaxCrashes /\ quarantine[run.attempt] # "none"
  BY DEF AppendRecovered, Moved, Write, Goto, faults, At, IInv, Agreed, Active, Attempting, Retiring,
         Typed, Placed
<1>2. crashes \in Nat /\ errors \in Nat
  BY <1>1, CampaignAssumption DEF Typed
<1>3. /\ e.ev = "journal_tail_recovered" /\ DOMAIN e = EventFields /\ Backed(e)
  BY <1>1 DEF Event, EventFields, Backed, Names
<1> HIDE DEF e
<1>4. Audited' /\ Same(audit', audit) /\ audit'.gate = audit.gate /\ audit'.sup = audit.sup
  BY <1>1, <1>3, MovedRecovered
<1>5. Sound'
  BY <1>1, <1>4, SoundSame DEF Same
<1>6. /\ DOMAIN run' = RunFields /\ run'.pc = "audit" /\ run'.stage = run.stage
      /\ run'.completed = run.completed /\ run'.gen = run.gen /\ run'.loop = FALSE
  BY <1>1 DEF Typed, RunFields
<1>7. Typed'
  BY <1>1, <1>6 DEF Typed, Resuming
<1>8. Agreed' /\ Placed' /\ Attempted'
  BY <1>6 DEF Agreed, Placed, Attempted, Active, Attempting, Retiring
<1>9. Pays
  BY <1>1, <1>2 DEF Pays
<1>10. Spent'
  BY <1>1, <1>3, <1>4, <1>7, <1>9, SpentMoves DEF Same
<1>11. Pending'
  <2>1. ASSUME NEW d \in Range(journal)', d.ev = "artifacts_retirement_planned",
               ~Journaled("artifacts_retirement_completed", d)'
        PROVE  /\ audit'.gate = NoStage /\ audit'.sup = NoStage
               /\ \E s \in Stages : PlansNow(d, s)'
    <3>1. d \in Range(journal) /\ ~Journaled("artifacts_retirement_completed", d)
      BY <1>1, <1>3, <2>1, NothingPending
    <3>2. /\ audit.gate = NoStage /\ audit.sup = NoStage
          /\ \E s \in Stages : PlansNow(d, s)
      BY <1>1, <2>1, <3>1 DEF IInv, Pending
    <3>3. \A s : PlansNow(d, s)' <=> PlansNow(d, s)
      BY <1>4 DEF PlansNow, PlannedNow, Same
    <3> QED BY <1>4, <3>2, <3>3
  <2> QED BY <1>6, <2>1 DEF Pending, Resuming
<1> QED BY <1>1, <1>3, <1>4, <1>5, <1>7, <1>8, <1>10, <1>11, QuietStep

\* The preflight keeps the invariant, whether it passes or not
\* (_run_preflight).
LEMMA PreflightInv == ASSUME IInv, AuditNext, Preflight PROVE IInv'
<1> DEFINE e == Event("resource_preflight", NoStage, 0)
<1>1. /\ Moved(e) /\ IInv /\ UNCHANGED << torn, quarantine, crashes >>
      /\ run.pc = "preflight" /\ run.loop = FALSE /\ Typed /\ Sound
      /\ run.completed = audit.completed /\ ~audit.done
      /\ run.state = audit.state /\ run.gen = audit.gen
  BY DEF Preflight, Moved, Write, At, IInv, Agreed, Active, Attempting, Retiring, Typed, Placed
<1>2. crashes \in Nat /\ errors \in Nat /\ MaxFailures \in Nat
  BY <1>1, CampaignAssumption DEF Typed
<1>3. /\ e.ev = "resource_preflight" /\ DOMAIN e = EventFields /\ Backed(e)
  BY <1>1 DEF Event, EventFields, Backed, Names
<1> HIDE DEF e
<1>4. Audited' /\ Same(audit', audit) /\ Free(audit')
  BY <1>1, <1>3, MovedPlain
<1>5. Sound'
  BY <1>1, <1>4, SoundSame DEF Free, Same
<1>6. /\ errors' \in 0 .. MaxFailures /\ errors <= errors' /\ Typed' /\ Agreed' /\ Placed' /\ Attempted'
  <2>1. CASE run' = [run EXCEPT !.pc = "stage", !.loop = TRUE] /\ UNCHANGED errors
    <3>1. /\ DOMAIN run' = RunFields /\ run'.pc = "stage" /\ run'.stage = run.stage
          /\ run'.completed = run.completed /\ run'.gen = run.gen /\ run'.loop = TRUE
          /\ run'.state = run.state
      BY <1>1, <2>1 DEF Typed, RunFields
    <3>2. Typed'
      BY <1>1, <2>1, <3>1 DEF Typed, Active
    <3>3. Agreed' /\ Placed' /\ Attempted'
      BY <1>1, <1>4, <3>1 DEF Agreed, Placed, Attempted, Active, Attempting, Retiring, Same
    <3> QED BY <1>1, <1>2, <2>1, <3>2, <3>3 DEF Typed
  <2>2. CASE errors < MaxFailures /\ errors' = errors + 1 /\ Leave
    <3>1. run' = Idle /\ run'.pc = "down" /\ run'.loop = FALSE
      BY <2>2 DEF Leave, Idle
    <3>2. errors' \in 0 .. MaxFailures /\ errors <= errors'
      BY <1>2, <2>2
    <3>3. Typed'
      BY <1>1, <3>1, <3>2, CampaignAssumption DEF Typed, Idle, RunFields, Nothing, Resuming
    <3>4. Agreed' /\ Placed' /\ Attempted'
      BY <3>1 DEF Agreed, Placed, Attempted, Active, Attempting, Retiring
    <3> QED BY <3>2, <3>3, <3>4
  <2> QED BY <2>1, <2>2 DEF Preflight
<1>7. Pays
  BY <1>1, <1>2, <1>6 DEF Pays
<1>8. Spent'
  BY <1>1, <1>3, <1>4, <1>6, <1>7, SpentMoves DEF Same
<1>9. NonePending
  BY <1>1, BusyNonePending DEF IInv, Idling, Resuming, Retiring
<1>10. Pending'
  BY <1>1, <1>3, <1>9, PendingMoves
<1> QED BY <1>1, <1>3, <1>4, <1>5, <1>6, <1>8, <1>10, QuietStep

-----------------------------------------------------------------------------
(* Retirement                                                               *)

\* What is known while transient files are retired.
LEMMA RetiringIs ==
    ASSUME IInv, run.pc \in Retiring
    PROVE  /\ run.stage \in Triggers /\ run.stage \in DOMAIN audit.completed
           /\ ProducerOf(run.stage) \in DOMAIN audit.completed
           /\ run.completed = audit.completed /\ ~audit.done /\ Retention
           /\ run.state = audit.state /\ run.gen = audit.gen
<1>1. run.stage \in Triggers /\ run.stage \in DOMAIN audit.completed /\ Retention
  BY DEF IInv, Placed
<1>2. PICK n \in 0 .. Len(StageOrder) : DOMAIN audit.completed = Plan(n)
  BY DEF IInv, Sound
<1>3. ProducerOf(run.stage) \in DOMAIN audit.completed
  BY <1>1, <1>2, Producers
<1> QED BY <1>1, <1>3 DEF IInv, Agreed, Active

\* What a retirement event says.
LEMMA RetirementIs ==
    ASSUME NEW ev, NEW s, run.completed = audit.completed
    PROVE  LET e == RetirementEvent(ev, s)
           IN  /\ DOMAIN e = EventFields /\ e.ev = ev /\ e.stage = ProducerOf(s)
               /\ e.attempt = audit.completed[ProducerOf(s)]
               /\ Key(e) = PlannedNow(s) /\ e.post = << << s, audit.completed[s] >> >>
BY DEF RetirementEvent, Event, EventFields, Key, PlannedNow

\* Planning a retirement keeps the invariant (_plan_retirement_after).
LEMMA PlanRetirementInv == ASSUME IInv, AuditNext, PlanRetirement PROVE IInv'
<1> DEFINE s == run.stage
           e == RetirementEvent("artifacts_retirement_planned", s)
<1>1. /\ IInv /\ UNCHANGED << torn, quarantine, receipts, deleted, crashes, errors >>
      /\ run.pc = "plan" /\ Typed /\ Sound
      /\ s \in Triggers /\ s \in DOMAIN audit.completed /\ Retention
      /\ run.completed = audit.completed /\ ~audit.done
      /\ run.state = audit.state /\ run.gen = audit.gen
  BY RetiringIs DEF PlanRetirement, faults, At, IInv, Retiring
<1>2. crashes \in Nat /\ errors \in Nat
  BY <1>1, CampaignAssumption DEF Typed
<1>3. Pays
  BY <1>1, <1>2 DEF Pays
<1>4. CASE Leave /\ UNCHANGED journal
  <2>1. Untouched
    BY <1>1, <1>4 DEF Untouched
  <2>2. run' = Idle /\ Typed'
    BY <1>1, <1>4, CampaignAssumption DEF Typed, Leave, Idle, RunFields, Nothing, Resuming
  <2>3. Spent'
    BY <1>3, <2>1, <2>2, SpentStays
  <2> QED BY <1>4, <2>1, <2>2, <2>3, Leaving
<1>5. CASE Write(e) /\ Goto("unlink")
  <2>1. Moved(e) /\ run' = [run EXCEPT !.pc = "unlink"]
    BY <1>1, <1>5 DEF Moved, Write, Goto
  <2>2. /\ DOMAIN e = EventFields /\ e.ev = "artifacts_retirement_planned" /\ e.stage = ProducerOf(s)
        /\ Key(e) = PlannedNow(s) /\ e.post = << << s, audit.completed[s] >> >>
    BY <1>1, RetirementIs
  <2>3. Backed(e)
    BY <2>2 DEF Backed, Names
  <2>4. /\ DOMAIN run' = RunFields /\ run'.pc = "unlink" /\ run'.stage = s
        /\ run'.completed = run.completed /\ run'.gen = run.gen /\ run'.loop = run.loop
        /\ run'.state = run.state
    BY <1>1, <2>1 DEF Typed, RunFields
  <2> HIDE DEF e, s
  <2>5. Audited' /\ Same(audit', audit) /\ Free(audit')
    BY <2>1, <2>2, MovedPlain
  <2>6. Sound'
    BY <2>1, <2>5, SoundSame DEF Free, Same
  <2>7. Written' /\ Numbered' /\ Received'
    BY <2>1, <2>2, <2>3, AttemptsAppend
  <2>8. Key(e) \in Plans(journal)'
    BY <2>1, <2>2, JournalGrows DEF Plans, Key
  <2>9. Deleted'
    BY <1>1, <2>1, JournalGrows DEF Moved, IInv, Deleted, Explained
  <2>10. Follows'
    <3>1. ASSUME NEW j \in DOMAIN journal', journal'[j].ev = "artifacts_retirement_planned"
          PROVE  \E i \in DOMAIN journal' :
                     /\ i < j /\ journal'[i].ev = "stage_completed"
                     /\ journal'[j].post = << << journal'[i].stage, journal'[i].attempt >> >>
                     /\ ProducerOf(journal'[i].stage) = journal'[j].stage
      <4>1. CASE j \in DOMAIN journal
        <5>1. journal'[j] = journal[j]
          BY <2>1, <4>1, JournalGrows
        <5>2. PICK i \in DOMAIN journal :
                  /\ i < j /\ journal[i].ev = "stage_completed"
                  /\ journal[j].post = << << journal[i].stage, journal[i].attempt >> >>
                  /\ ProducerOf(journal[i].stage) = journal[j].stage
          BY <1>1, <3>1, <4>1, <5>1 DEF IInv, Follows
        <5>3. i \in DOMAIN journal' /\ journal'[i] = journal[i]
          BY <2>1, JournalGrows
        <5> QED BY <5>1, <5>2, <5>3
      <4>2. CASE j = Len(journal) + 1
        <5>1. journal'[j] = e
          BY <2>1, <4>2, JournalGrows
        <5>2. CompletedEvent(s, audit.completed[s])
          BY <1>1 DEF Sound
        <5>3. PICK i \in DOMAIN journal :
                  /\ journal[i].ev = "stage_completed" /\ journal[i].stage = s
                  /\ journal[i].attempt = audit.completed[s]
          BY <5>2 DEF CompletedEvent, Range
        <5>4. i \in DOMAIN journal' /\ journal'[i] = journal[i] /\ i < j
          BY <2>1, <4>2, JournalGrows
        <5> QED BY <2>2, <5>1, <5>3, <5>4
      <4> QED BY <2>1, <4>1, <4>2, JournalGrows
    <3> QED BY <3>1 DEF Follows
  <2>11. Typed'
    BY <1>1, <2>4 DEF Typed, Active, Retiring, s
  <2>12. PlannedNow(s)' = PlannedNow(s)
    BY <2>4, <2>5 DEF PlannedNow, Same, s
  <2>13. Agreed' /\ Placed' /\ Attempted'
    BY <1>1, <2>2, <2>4, <2>5, <2>8, <2>12
       DEF IInv, Agreed, Placed, Attempted, Active, Attempting, Retiring, Same, PlannedNow
  <2>14. Pending'
    <3>1. ASSUME NEW d \in Range(journal)', d.ev = "artifacts_retirement_planned",
                 ~Journaled("artifacts_retirement_completed", d)'
          PROVE  \E t \in Stages : PlansNow(d, t)' /\ (run'.loop => t = run'.stage)
      <4>1. CASE d = e
        <5>1. s \in Stages /\ audit'.completed = audit.completed
          BY <1>1, <2>5, Producers DEF Same
        <5>2. PICK t : t = s
          OBVIOUS
        <5>3. PlansNow(d, t)'
          BY <1>1, <2>2, <4>1, <5>1, <5>2 DEF PlansNow, PlannedNow
        <5> QED BY <2>4, <5>1, <5>2, <5>3
      <4>2. CASE d \in Range(journal)
        <5>1. ~Journaled("artifacts_retirement_completed", d)
          BY <2>1, <3>1, JournalGrows DEF Journaled
        <5>2. /\ run.loop = FALSE
              /\ \E t \in Stages : PlansNow(d, t)
          BY <1>1, <3>1, <4>2, <5>1 DEF IInv, Pending, Typed
        <5>3. \A t : PlansNow(d, t)' <=> PlansNow(d, t)
          BY <2>5 DEF PlansNow, PlannedNow, Same
        <5> QED BY <2>4, <5>2, <5>3
      <4> QED BY <2>1, <4>1, <4>2, JournalGrows
    <3> QED BY <2>4, <2>5, <3>1 DEF Pending, Retiring, Free
  <2>15. Spent'
    BY <1>3, <2>1, <2>2, <2>5, <2>11, SpentMoves DEF Same
  <2> QED BY <2>5, <2>6, <2>7, <2>9, <2>10, <2>11, <2>13, <2>14, <2>15 DEF IInv
<1> QED BY <1>4, <1>5 DEF PlanRetirement

\* Deleting the files keeps the invariant (_finalize_retirement).
LEMMA UnlinkInv == ASSUME IInv, AuditNext, Unlink PROVE IInv'
<1> DEFINE s == run.stage
<1>1. /\ IInv /\ UNCHANGED << journal, torn, quarantine, receipts, crashes, errors >>
      /\ run.pc = "unlink" /\ Typed /\ Sound
      /\ s \in Triggers /\ s \in DOMAIN audit.completed /\ Retention
      /\ run.completed = audit.completed /\ ~audit.done
      /\ run.state = audit.state /\ run.gen = audit.gen
      /\ PlannedNow(s) \in Plans(journal)
      /\ ProducerOf(s) \in DOMAIN audit.completed
  BY RetiringIs DEF Unlink, faults, At, IInv, Retiring, Placed
<1>2. deleted' = deleted \cup {PlannedNow(s)} /\ run' = [run EXCEPT !.pc = "retired"]
  BY <1>1 DEF Unlink, PlannedNow, Goto
<1>3. crashes \in Nat /\ errors \in Nat
  BY <1>1, CampaignAssumption DEF Typed
<1>4. FilesGrow /\ Explained'
  BY <1>1, <1>2 DEF FilesGrow, IInv, Deleted, Explained
<1>5. audit' = audit /\ Audited'
  BY <1>1, <1>4, AuditStays
<1>6. /\ DOMAIN run' = RunFields /\ run'.pc = "retired" /\ run'.stage = s
      /\ run'.completed = run.completed /\ run'.gen = run.gen /\ run'.loop = run.loop
      /\ run'.state = run.state
  BY <1>1, <1>2 DEF Typed, RunFields
<1>7. Typed'
  BY <1>1, <1>6 DEF Typed, Active, Retiring
<1>8. Written'
  BY <1>1, <1>4 DEF IInv, Written, Backed, FilesGrow
<1>9. Sound'
  BY <1>1, <1>5 DEF IInv, Sound, CompletedEvent, DecisionEvent, IsLast
<1>10. \A t : StartsOf(t)' = StartsOf(t)
  BY <1>1 DEF StartsOf, Events
<1>11. Numbered' /\ Received'
  BY <1>1, <1>10 DEF IInv, Numbered, Received, Terminated
<1>12. Follows'
  BY <1>1 DEF IInv, Follows
<1>13. Deleted'
  <2>1. PICK e \in Range(journal) : /\ e.ev = "stage_completed" /\ e.stage = ProducerOf(s)
                                    /\ e.attempt = audit.completed[ProducerOf(s)]
    BY <1>1 DEF Sound, CompletedEvent
  <2>2. PlannedNow(s) \in DOMAIN receipts
    BY <1>1, <2>1 DEF IInv, Written, Backed, Key, PlannedNow
  <2> QED BY <1>1, <1>2, <1>4, <2>2 DEF IInv, Deleted
<1>14. PlannedNow(s)' = PlannedNow(s)
  BY <1>5, <1>6 DEF PlannedNow
<1>15. Agreed' /\ Placed' /\ Attempted'
  BY <1>1, <1>2, <1>5, <1>6, <1>14
     DEF IInv, Agreed, Placed, Attempted, Active, Attempting, Retiring, PlannedNow
<1>16. Pending'
  <2>1. ASSUME NEW d \in Range(journal)', d.ev = "artifacts_retirement_planned",
               ~Journaled("artifacts_retirement_completed", d)'
        PROVE  /\ audit.gate = NoStage /\ audit.sup = NoStage
               /\ \E t \in Stages : PlansNow(d, t)' /\ (run'.loop => t = run'.stage)
    <3>1. d \in Range(journal) /\ ~Journaled("artifacts_retirement_completed", d)
      BY <1>1, <2>1 DEF Journaled
    <3>2. /\ audit.gate = NoStage /\ audit.sup = NoStage
          /\ \E t \in Stages : PlansNow(d, t) /\ (run.loop => t = run.stage)
      BY <1>1, <2>1, <3>1 DEF IInv, Pending
    <3>3. \A t : PlansNow(d, t)' <=> PlansNow(d, t)
      BY <1>5 DEF PlansNow, PlannedNow
    <3> QED BY <1>6, <3>2, <3>3
  <2> QED BY <1>5, <1>6, <2>1 DEF Pending, Retiring
<1>17. Spent'
  <2>1. Pays
    BY <1>1, <1>3 DEF Pays
  <2> QED BY <1>1, <1>5, <1>7, <1>10, <2>1, SpentSame
<1> QED BY <1>5, <1>7, <1>8, <1>9, <1>11, <1>12, <1>13, <1>15, <1>16, <1>17 DEF IInv

\* Journaling that they are gone keeps the invariant (_finalize_retirement).
LEMMA AppendRetiredInv == ASSUME IInv, AuditNext, AppendRetired PROVE IInv'
<1> DEFINE s == run.stage
           e == RetirementEvent("artifacts_retirement_completed", s)
<1>1. /\ IInv /\ UNCHANGED << torn, quarantine, receipts, deleted, crashes, errors >>
      /\ run.pc = "retired" /\ Typed /\ Sound
      /\ s \in Triggers /\ s \in DOMAIN audit.completed /\ Retention
      /\ run.completed = audit.completed /\ ~audit.done
      /\ run.state = audit.state /\ run.gen = audit.gen
      /\ PlannedNow(s) \in deleted
      /\ Moved(e)
      /\ run' = [run EXCEPT !.pc = IF run.loop THEN "stage" ELSE "reconcile"]
  BY RetiringIs DEF AppendRetired, faults, At, IInv, Retiring, Placed, Moved, Write, Goto
<1>2. crashes \in Nat /\ errors \in Nat
  BY <1>1, CampaignAssumption DEF Typed
<1>3. Pays
  BY <1>1, <1>2 DEF Pays
<1>4. /\ DOMAIN e = EventFields /\ e.ev = "artifacts_retirement_completed"
      /\ Key(e) = PlannedNow(s) /\ e.post = << << s, audit.completed[s] >> >>
      /\ e.stage = ProducerOf(s) /\ e.attempt = audit.completed[ProducerOf(s)]
  BY <1>1, RetirementIs
<1>5. Backed(e)
  BY <1>1, <1>4 DEF Backed, Names
<1>6. /\ DOMAIN run' = RunFields /\ run'.pc = (IF run.loop THEN "stage" ELSE "reconcile") /\ run'.stage = s
      /\ run'.completed = run.completed /\ run'.gen = run.gen /\ run'.loop = run.loop
      /\ run'.state = run.state
  BY <1>1 DEF Typed, RunFields
<1> HIDE DEF e, s
<1>7. Audited' /\ Same(audit', audit) /\ Free(audit')
  BY <1>1, <1>4, MovedPlain
<1>8. Sound'
  BY <1>1, <1>7, SoundSame DEF Free, Same
<1>9. Typed'
  BY <1>1, <1>6 DEF Typed, Active, s
<1>10. Agreed' /\ Placed' /\ Attempted'
  BY <1>1, <1>6, <1>7 DEF IInv, Agreed, Placed, Attempted, Active, Attempting, Retiring, Same
<1>11. ASSUME NEW d \in Range(journal)', d.ev = "artifacts_retirement_planned",
              ~Journaled("artifacts_retirement_completed", d)'
       PROVE  run.loop = FALSE /\ \E t \in Stages : PlansNow(d, t)'
  <2>1. d \in Range(journal) /\ ~Journaled("artifacts_retirement_completed", d)
    BY <1>1, <1>4, <1>11, NothingPending
  <2>2. PICK t \in Stages : PlansNow(d, t) /\ (run.loop => t = s)
    BY <1>1, <1>11, <2>1 DEF IInv, Pending, s
  <2>3. PlansNow(d, t)'
    BY <1>7, <2>2 DEF PlansNow, PlannedNow, Same
  <2>4. t # s
    <3>1. ASSUME t = s PROVE SameRetirement(e, "artifacts_retirement_completed", d)
      <4>1. << d.stage, d.attempt >> = << ProducerOf(s), audit.completed[ProducerOf(s)] >>
        BY <2>2, <3>1 DEF PlansNow, PlannedNow, Key
      <4>2. d.stage = ProducerOf(s) /\ d.attempt = audit.completed[ProducerOf(s)]
        BY <4>1
      <4>3. d.post = << << s, audit.completed[s] >> >>
        BY <2>2, <3>1 DEF PlansNow
      <4> QED BY <1>4, <4>2, <4>3 DEF SameRetirement
    <3>2. e \in Range(journal)'
      BY <1>1, JournalGrows
    <3> QED BY <1>11, <3>1, <3>2 DEF Journaled, SameRetirement
  <2> QED BY <1>1, <2>2, <2>3, <2>4 DEF Typed
<1>12. Pending'
  BY <1>6, <1>7, <1>11 DEF Pending, Free
<1>13. Spent'
  BY <1>1, <1>3, <1>4, <1>7, <1>9, SpentMoves DEF Same
<1> QED BY <1>1, <1>4, <1>5, <1>7, <1>8, <1>9, <1>10, <1>12, <1>13, QuietStep

-----------------------------------------------------------------------------
(* Execution                                                                *)

\* The next attempt is one more than the attempts (_next_attempt).
LEMMA NextAttemptIs ==
    ASSUME NEW s, NEW n \in Nat, StartsOf(s) = 1 .. n
    PROVE  NextAttempt(s) = n + 1
<1>1. CASE n = 0
  BY <1>1 DEF NextAttempt
<1>2. CASE n # 0
  <2>1. n \in 1 .. n /\ (\A m \in 1 .. n : n >= m) /\ 1 .. n # {}
    BY <1>2
  <2>2. \A x \in 1 .. n : (\A m \in 1 .. n : x >= m) => x = n
    BY <2>1
  <2>3. Max(1 .. n) = n
    BY <2>1, <2>2 DEF Max
  <2> QED BY <2>1, <2>3 DEF NextAttempt
<1> QED BY <1>1, <1>2

\* What is known of a process that acts on the replay.
LEMMA ActiveIs ==
    ASSUME IInv, run.pc \in Active
    PROVE  /\ run.completed = audit.completed /\ run.state = audit.state /\ run.gen = audit.gen
           /\ ~audit.done /\ Typed /\ Sound
           /\ crashes \in Nat /\ errors \in Nat /\ MaxFailures \in Nat /\ NoStage \notin Stages
BY CampaignAssumption DEF IInv, Agreed, Typed

\* The stage loop goes on with the stage that follows what is accepted.
LEMMA NextStage ==
    ASSUME IInv, run.pc = "stage", Remaining # << >>
    PROVE  IsNext(Head(Remaining))
<1>1. run.completed = audit.completed /\ Sound
  BY ActiveIs DEF Active
<1>2. PICK n \in 0 .. Len(StageOrder) : DOMAIN run.completed = Plan(n)
  BY <1>1 DEF Sound
<1>3. PICK m \in Nat : m = Len(StageOrder)
  BY PlanOrdered
<1>4. n # Len(StageOrder)
  BY <1>2, FirstRemaining
<1>5. n \in 0 .. m /\ n # m => n < m /\ n + 1 \in 1 .. m
  BY <1>3
<1>6. Head(Remaining) = StageOrder[n + 1] /\ n + 1 \in 1 .. Len(StageOrder)
  BY <1>2, <1>3, <1>4, <1>5, FirstRemaining
<1>7. Head(Remaining) \in Stages /\ Position(Head(Remaining)) = n + 1 /\ n + 1 - 1 = n
  BY <1>6, PlanOrdered
<1> QED BY <1>1, <1>2, <1>7 DEF IsNext

\* A stage is started anew only when all its receipts have been journaled.
LEMMA ReceiptsJournaled ==
    ASSUME IInv, NEW s \in Stages, NEW n, << s, n >> \in DOMAIN receipts, ~Recoverable(s)
    PROVE  Terminated(s, n)
<1>1. PICK N \in Nat : StartsOf(s) = 1 .. N
  BY DEF IInv, Numbered
<1>2. NextAttempt(s) = N + 1 /\ N + 1 - 1 = N
  BY <1>1, NextAttemptIs
<1>3. n \in StartsOf(s) /\ (Terminated(s, n) \/ \A m \in StartsOf(s) : m <= n)
  <2>1. PICK x \in Stages, k \in Nat :
            /\ << s, n >> = << x, k >> /\ k \in StartsOf(x)
            /\ Terminated(x, k) \/ \A m \in StartsOf(x) : m <= k
    BY DEF IInv, Received
  <2> QED BY <2>1
<1>4. ASSUME ~Terminated(s, n) PROVE FALSE
  <2>1. N \in 1 .. N /\ N <= n
    BY <1>1, <1>3, <1>4
  <2>2. n = N /\ N > 0
    BY <1>1, <1>3, <2>1
  <2>3. Recoverable(s)
    BY <1>2, <1>4, <2>2 DEF Recoverable
  <2> QED BY <2>3
<1> QED BY <1>4

\* Starting a stage, or taking up the receipt of its last attempt, keeps the
\* invariant (execute, _recover_unjournaled_result).
LEMMA StartStageInv == ASSUME IInv, AuditNext, StartStage PROVE IInv'
<1> DEFINE s == Head(Remaining)
<1>1. /\ IInv /\ UNCHANGED << torn, quarantine, receipts, deleted, crashes, errors >>
      /\ run.pc = "stage" /\ Remaining # << >>
  BY DEF StartStage, faults, At
<1>2. /\ run.completed = audit.completed /\ run.state = audit.state /\ run.gen = audit.gen
      /\ ~audit.done /\ Typed /\ Sound /\ crashes \in Nat /\ errors \in Nat
  BY <1>1, ActiveIs DEF Active
<1>3. IsNext(s)
  BY <1>1, NextStage
<1>4. PICK N \in Nat : StartsOf(s) = 1 .. N
  BY <1>1, <1>3 DEF IInv, Numbered, IsNext
<1>5. NextAttempt(s) = N + 1 /\ N + 1 - 1 = N
  BY <1>4, NextAttemptIs
<1>6. Pays /\ NonePending
  BY <1>1, <1>2, BusyNonePending DEF Pays, IInv, Idling, Resuming, Retiring
<1>7. s \in Stages /\ s \notin DOMAIN audit.completed
  <2>1. s \in Stages /\ Position(s) \in 1 .. Len(StageOrder) /\ DOMAIN audit.completed = Plan(Position(s) - 1)
    BY <1>3, PlanOrdered DEF IsNext
  <2>2. Position(s) - 1 \in 0 .. Len(StageOrder) /\ Position(s) \notin 1 .. Position(s) - 1
    BY <2>1, PlanOrdered
  <2> QED BY <2>1, <2>2, PlanHas
<1>8. CASE /\ Recoverable(s) /\ run' = [run EXCEPT !.pc = "bind", !.stage = s, !.attempt = N]
           /\ UNCHANGED journal
  <2>1. Untouched
    BY <1>1, <1>8 DEF Untouched
  <2>2. N > 0 /\ << s, N >> \in DOMAIN receipts
    BY <1>5, <1>8 DEF Recoverable
  <2> HIDE DEF s
  <2>3. PICK t : t = s
    OBVIOUS
  <2>4. /\ DOMAIN run' = RunFields /\ run'.pc = "bind" /\ run'.stage = t /\ run'.attempt = N
        /\ run'.completed = run.completed /\ run'.gen = run.gen /\ run'.loop = run.loop
        /\ run'.state = run.state
    BY <1>2, <1>8, <2>3 DEF Typed, RunFields
  <2>5. Typed'
    BY <1>1, <1>2, <1>7, <2>3, <2>4 DEF Typed, Active, Attempting
  <2>6. audit' = audit /\ \A x : StartsOf(x)' = StartsOf(x)
    BY <2>1, FilesStay
  <2>7. IsNext(t)'
    BY <1>3, <2>3, <2>6 DEF IsNext
  <2>8. StartsOf(t)' = 1 .. N
    BY <1>4, <2>3, <2>6
  <2>9. Attempted'
    BY <1>1, <2>2, <2>3, <2>4, <2>8 DEF Attempted, Attempting
  <2>10. Agreed' /\ Placed'
    BY <1>1, <1>2, <2>4, <2>6, <2>7 DEF IInv, Agreed, Placed, Active, Attempting, Retiring
  <2>11. Pending' /\ Spent'
    BY <1>6, <2>1, <2>5, StillNonePending, SpentStays
  <2> QED BY <2>1, <2>5, <2>9, <2>10, <2>11, StepOfProcess
<1>9. CASE /\ ~Recoverable(s) /\ run' = [run EXCEPT !.pc = "adapter", !.stage = s, !.attempt = N + 1]
           /\ Write([Event("stage_started", s, N + 1) EXCEPT !.gen = run.gen, !.pre = run.state])
  <2> HIDE DEF s
  <2>1. PICK t : t = s
    OBVIOUS
  <2>2. PICK e : e = [Event("stage_started", t, N + 1) EXCEPT !.gen = run.gen, !.pre = run.state]
    OBVIOUS
  <2>3. Moved(e)
    BY <1>1, <1>9, <2>1, <2>2 DEF Moved, Write
  <2>4. /\ DOMAIN e = EventFields /\ e.ev = "stage_started" /\ e.stage = t /\ e.attempt = N + 1
    BY <2>2 DEF Event, EventFields
  <2>5. Backed(e)
    BY <2>4 DEF Backed, Names
  <2>6. /\ DOMAIN run' = RunFields /\ run'.pc = "adapter" /\ run'.stage = t /\ run'.attempt = N + 1
        /\ run'.completed = run.completed /\ run'.gen = run.gen /\ run'.loop = run.loop
        /\ run'.state = run.state
    BY <1>2, <1>9, <2>1 DEF Typed, RunFields
  <2>7. Typed'
    BY <1>1, <1>2, <1>7, <2>1, <2>6 DEF Typed, Active, Attempting
  <2>8. Audited' /\ Same(audit', audit) /\ Free(audit')
    BY <2>3, <2>4, MovedPlain
  <2>9. Sound'
    BY <2>3, <2>8, SoundSame DEF Free, Same
  <2>10. Written'
    BY <2>3, <2>4, <2>5, JournalGrows DEF IInv, Moved, Written, Backed
  <2>11. StartsOf(t)' = 1 .. N + 1 /\ \A x : x # t => StartsOf(x)' = StartsOf(x)
    <3>1. \A x, m : m \in StartsOf(x)' <=> m \in StartsOf(x) \/ (x = t /\ m = N + 1)
      BY <2>3, <2>4, JournalGrows DEF Starting
    <3>2. \A m : m \in StartsOf(t)' <=> m \in 1 .. N + 1
      <4>1. \A m : m \in StartsOf(t)' <=> m \in 1 .. N \/ m = N + 1
        BY <1>4, <2>1, <3>1
      <4>2. \A m : m \in 1 .. N + 1 <=> m \in 1 .. N \/ m = N + 1
        OBVIOUS
      <4> QED BY <4>1, <4>2
    <3>3. StartsOf(t)' = 1 .. N + 1
      BY <3>2
    <3>4. ASSUME NEW x, x # t PROVE StartsOf(x)' = StartsOf(x)
      <4>1. \A m : m \in StartsOf(x)' <=> m \in StartsOf(x)
        BY <3>1, <3>4
      <4>2. PICK S, T : S = StartsOf(x) /\ T = StartsOf(x)'
        OBVIOUS
      <4>3. S = T
        BY <4>1, <4>2
      <4> QED BY <4>2, <4>3
    <3> QED BY <3>3, <3>4
  <2>12. Numbered'
    <3>1. ASSUME NEW x \in Stages PROVE \E n \in Nat : StartsOf(x)' = 1 .. n
      <4>1. CASE x = t
        BY <2>11, <4>1
      <4>2. CASE x # t
        BY <1>1, <2>11, <4>2 DEF IInv, Numbered
      <4> QED BY <4>1, <4>2
    <3> QED BY <3>1 DEF Numbered
  <2>13. ASSUME NEW n \in Nat, << t, n >> \in DOMAIN receipts PROVE n \in 1 .. N /\ Terminated(t, n)
    <3>1. Terminated(t, n)
      BY <1>1, <1>7, <1>9, <2>1, <2>13, ReceiptsJournaled
    <3>2. n \in StartsOf(t)
      <4>1. PICK x \in Stages, k \in Nat : << t, n >> = << x, k >> /\ k \in StartsOf(x)
        BY <1>1, <2>13 DEF IInv, Received
      <4> QED BY <4>1
    <3> QED BY <1>4, <2>1, <3>1, <3>2
  <2>14. Received'
    <3>1. ASSUME NEW k \in DOMAIN receipts
          PROVE  \E x \in Stages, n \in Nat :
                     /\ k = << x, n >> /\ n \in StartsOf(x)' /\ receipts[k] \in BOOLEAN
                     /\ Terminated(x, n)' \/ \A m \in StartsOf(x)' : m <= n
      <4>1. PICK x \in Stages, n \in Nat :
                /\ k = << x, n >> /\ n \in StartsOf(x) /\ receipts[k] \in BOOLEAN
                /\ Terminated(x, n) \/ \A m \in StartsOf(x) : m <= n
        BY <1>1 DEF IInv, Received
      <4>2. CASE x = t
        <5>1. n \in 1 .. N /\ Terminated(x, n)
          BY <2>13, <4>1, <4>2
        <5>2. n \in StartsOf(x)'
          BY <2>11, <4>2, <5>1
        <5>3. Terminated(x, n)'
          BY <2>3, <5>1, JournalGrows
        <5> QED BY <4>1, <5>2, <5>3
      <4>3. CASE x # t
        <5>1. StartsOf(x)' = StartsOf(x)
          BY <2>11, <4>3
        <5>2. Terminated(x, n) => Terminated(x, n)'
          BY <2>3, JournalGrows
        <5> QED BY <4>1, <5>1, <5>2
      <4> QED BY <4>2, <4>3
    <3> QED BY <1>1, <3>1 DEF Received
  <2>15. Deleted' /\ Follows'
    BY <2>3, <2>4, PlansAppend
  <2>16. << t, N + 1 >> \notin DOMAIN receipts
    <3>1. N + 1 \in Nat /\ N + 1 \notin 1 .. N
      OBVIOUS
    <3> QED BY <2>13, <3>1
  <2>17. Attempted'
    BY <1>1, <2>6, <2>11, <2>16 DEF Attempted, Attempting
  <2>18. IsNext(t)'
    BY <1>3, <2>1, <2>8 DEF IsNext, Same
  <2>19. Agreed' /\ Placed'
    BY <1>1, <1>2, <2>6, <2>8, <2>18 DEF IInv, Agreed, Placed, Active, Attempting, Retiring, Same
  <2>20. Pending'
    BY <1>6, <2>3, <2>4, PendingMoves
  <2>21. Spent'
    <3>1. ASSUME NEW x \in Stages, NEW n \in StartsOf(x)'
          PROVE  n <= crashes + errors + audit.gen
                      + IF x \in DOMAIN audit.completed \/ x = t THEN 1 ELSE 0
      <4>1. PICK g \in Nat : g = crashes + errors + audit.gen
        BY <1>2 DEF Sound
      <4>2. \A m \in StartsOf(x) : m <= g + IF x \in DOMAIN audit.completed THEN 1 ELSE 0
        BY <1>1, <4>1 DEF IInv, Spent
      <4>3. CASE x # t
        BY <2>11, <4>1, <4>2, <4>3
      <4>4. CASE x = t
        <5>1. \A m \in 1 .. N : m <= g
          BY <1>4, <1>7, <2>1, <4>1, <4>2, <4>4
        <5>2. N <= g
          <6>1. N = 0 \/ N \in 1 .. N
            OBVIOUS
          <6> QED BY <4>1, <5>1, <6>1
        <5>3. n \in 1 .. N + 1
          BY <2>11, <4>4
        <5>4. n <= g + 1
          BY <4>1, <5>2, <5>3
        <5> QED BY <4>1, <4>4, <5>4
      <4> QED BY <4>3, <4>4
    <3> QED BY <1>1, <2>6, <2>8, <3>1 DEF Spent, Same
  <2> QED BY <2>7, <2>8, <2>9, <2>10, <2>12, <2>14, <2>15, <2>17, <2>19, <2>20, <2>21 DEF IInv
<1>10. CASE Recoverable(s)
  <2>1. run' = [run EXCEPT !.pc = "bind", !.stage = s, !.attempt = NextAttempt(s) - 1] /\ UNCHANGED journal
    BY <1>10 DEF StartStage
  <2>2. NextAttempt(s) - 1 = N
    BY <1>5
  <2> HIDE DEF s
  <2> QED BY <1>8, <1>10, <2>1, <2>2
<1>11. CASE ~Recoverable(s)
  BY <1>5, <1>9, <1>11 DEF StartStage
<1> QED BY <1>10, <1>11

\* What the process writes of the stage it is at.
LEMMA StageEventIs ==
    ASSUME NEW ev
    PROVE  LET e == StageEvent(ev)
           IN  /\ DOMAIN e = EventFields /\ e.ev = ev /\ e.stage = run.stage
               /\ e.attempt = run.attempt /\ e.gen = run.gen /\ e.pre = run.state
BY DEF StageEvent, Event, EventFields

\* Accepting the next stage accepts one more of the plan.
LEMMA PlanGrows ==
    ASSUME NEW s \in Stages
    PROVE  /\ Plan(Position(s)) = Plan(Position(s) - 1) \cup {s} /\ s \notin Plan(Position(s) - 1)
           /\ Position(s) \in 0 .. Len(StageOrder) /\ Position(s) - 1 \in 0 .. Len(StageOrder)
<1>1. PICK m \in Nat : m = Len(StageOrder)
  BY PlanOrdered
<1>2. PICK p \in 1 .. m : p = Position(s) /\ StageOrder[p] = s
  BY <1>1, PlanOrdered
<1>3. /\ 1 .. p = (1 .. p - 1) \cup {p} /\ p \in 0 .. m /\ p - 1 \in 0 .. m /\ p \notin 1 .. p - 1
  BY <1>2
<1>4. s \notin Plan(p - 1)
  BY <1>1, <1>2, <1>3, PlanHas
<1>5. Plan(p) = Plan(p - 1) \cup {s}
  BY <1>2, <1>3 DEF Plan, Slice
<1> QED BY <1>1, <1>2, <1>3, <1>4, <1>5

\* Two actions end an attempt that fails in the same way.
LEMMA FailingInv ==
    ASSUME IInv, AuditNext, run.pc \in {"adapter", "bind"}, errors < MaxFailures, errors' = errors + 1,
           Goto("failed"), UNCHANGED << journal, torn, quarantine, receipts, deleted, crashes >>
    PROVE  IInv'
<1>1. Untouched
  BY DEF Untouched
<1>2. /\ run.completed = audit.completed /\ run.state = audit.state /\ run.gen = audit.gen
      /\ ~audit.done /\ Typed /\ crashes \in Nat /\ errors \in Nat /\ MaxFailures \in Nat
      /\ run.pc \in Attempting
  BY ActiveIs DEF Active, Attempting
<1>3. /\ DOMAIN run' = RunFields /\ run'.pc = "failed" /\ run'.stage = run.stage
      /\ run'.attempt = run.attempt /\ run'.state = run.state
      /\ run'.completed = run.completed /\ run'.gen = run.gen /\ run'.loop = run.loop
  BY <1>2 DEF Typed, RunFields, Goto
<1>4. errors' \in 0 .. MaxFailures /\ errors <= errors' /\ crashes + errors < crashes + errors'
  BY <1>2
<1>5. Typed'
  BY <1>2, <1>3, <1>4 DEF Typed, Active, Attempting
<1>6. audit' = audit /\ \A s : StartsOf(s)' = StartsOf(s)
  BY <1>1, FilesStay
<1>7. IsNext(run.stage)'
  BY <1>2, <1>3, <1>6 DEF IInv, Placed, IsNext
<1>8. Agreed' /\ Placed' /\ Attempted'
  BY <1>2, <1>3, <1>6, <1>7 DEF IInv, Agreed, Placed, Attempted, Active, Attempting, Retiring
<1>9. NonePending
  BY BusyNonePending DEF IInv, Idling, Resuming, Retiring
<1>10. Pays
  BY <1>2, <1>4 DEF Pays
<1>11. Pending' /\ Spent'
  BY <1>1, <1>5, <1>9, <1>10, StillNonePending, SpentStays
<1> QED BY <1>1, <1>5, <1>8, <1>11, StepOfProcess

\* The adapter keeps the invariant, whether it leaves a receipt or fails.
LEMMA RunAdapterInv == ASSUME IInv, AuditNext, RunAdapter PROVE IInv'
<1>0. run.pc = "adapter" /\ UNCHANGED << journal, torn, quarantine, deleted, crashes >>
  BY DEF RunAdapter, At
<1>1. CASE errors < MaxFailures /\ errors' = errors + 1 /\ Goto("failed") /\ UNCHANGED receipts
  BY <1>0, <1>1, FailingInv
<1>2. ASSUME NEW passed \in BOOLEAN,
             receipts' = With(receipts, << run.stage, run.attempt >>, passed),
             Goto("bind"), UNCHANGED errors
      PROVE  IInv'
  <2>1. PICK s, n : s = run.stage /\ n = run.attempt
    OBVIOUS
  <2>2. /\ run.completed = audit.completed /\ run.state = audit.state /\ run.gen = audit.gen
        /\ ~audit.done /\ Typed /\ Sound /\ crashes \in Nat /\ errors \in Nat
        /\ run.pc \in Attempting
    BY <1>0, ActiveIs DEF Active, Attempting
  <2>3. /\ IsNext(s) /\ s \in Stages /\ n \in StartsOf(s) /\ (\A m \in StartsOf(s) : m <= n)
        /\ << s, n >> \notin DOMAIN receipts
    BY <1>0, <2>1, <2>2 DEF IInv, Placed, Attempted, IsNext
  <2>4. n \in Nat
    BY <2>3 DEF IInv, Numbered
  <2>5. /\ DOMAIN run' = RunFields /\ run'.pc = "bind" /\ run'.stage = s /\ run'.attempt = n
        /\ run'.completed = run.completed /\ run'.gen = run.gen /\ run'.loop = run.loop
        /\ run'.state = run.state
    BY <1>2, <2>1, <2>2 DEF Typed, RunFields, Goto
  <2>6. /\ DOMAIN receipts' = DOMAIN receipts \cup {<< s, n >>} /\ receipts'[<< s, n >>] = passed
        /\ \A k \in DOMAIN receipts : receipts'[k] = receipts[k]
    <3>1. PICK f, g, k : f = receipts /\ g = receipts' /\ k = << s, n >>
      OBVIOUS
    <3>2. g = With(f, k, passed) /\ k \notin DOMAIN f
      BY <1>2, <2>1, <2>3, <3>1
    <3>3. DOMAIN g = DOMAIN f \cup {k} /\ g[k] = passed /\ \A x \in DOMAIN f : g[x] = f[x]
      BY <3>2 DEF With
    <3> QED BY <3>1, <3>3
  <2>7. FilesGrow /\ Explained'
    BY <1>0, <2>6 DEF FilesGrow, IInv, Deleted, Explained, Plans
  <2>8. audit' = audit /\ Audited'
    BY <1>0, <2>7, AuditStays
  <2>9. Written' /\ Sound' /\ Deleted' /\ Follows'
    BY <1>0, <2>6, <2>8 DEF IInv, Written, Backed, Sound, CompletedEvent, DecisionEvent, IsLast,
       Deleted, Explained, Follows
  <2>10. \A x : StartsOf(x)' = StartsOf(x)
    BY <1>0 DEF StartsOf, Events
  <2>11. Numbered'
    BY <2>10 DEF IInv, Numbered
  <2>12. Received'
    <3>1. ASSUME NEW k \in DOMAIN receipts'
          PROVE  \E x \in Stages, m \in Nat :
                     /\ k = << x, m >> /\ m \in StartsOf(x)' /\ receipts'[k] \in BOOLEAN
                     /\ Terminated(x, m)' \/ \A l \in StartsOf(x)' : l <= m
      <4>1. CASE k \in DOMAIN receipts
        <5>1. PICK x \in Stages, m \in Nat :
                  /\ k = << x, m >> /\ m \in StartsOf(x) /\ receipts[k] \in BOOLEAN
                  /\ Terminated(x, m) \/ \A l \in StartsOf(x) : l <= m
          BY <4>1 DEF IInv, Received
        <5> QED BY <1>0, <2>6, <2>10, <4>1, <5>1 DEF Terminated
      <4>2. CASE k = << s, n >>
        BY <2>3, <2>4, <2>6, <2>10, <4>2
      <4> QED BY <2>6, <3>1, <4>1, <4>2
    <3> QED BY <3>1 DEF Received
  <2>13. Typed'
    BY <1>0, <1>2, <2>2, <2>3, <2>5 DEF Typed, Active, Attempting
  <2>14. IsNext(s)'
    BY <2>3, <2>8 DEF IsNext
  <2>15. Agreed' /\ Placed' /\ Attempted'
    BY <2>2, <2>3, <2>5, <2>6, <2>8, <2>10, <2>14
       DEF IInv, Agreed, Placed, Attempted, Active, Attempting, Retiring
  <2>16. Pending'
    <3>1. NonePending
      BY <1>0, BusyNonePending DEF IInv, Idling, Resuming, Retiring
    <3> QED BY <1>0, <3>1 DEF NonePending, Pending, Journaled
  <2>17. Spent'
    <3>1. Pays
      BY <1>0, <1>2, <2>1, <2>2, <2>5 DEF Pays
    <3> QED BY <2>8, <2>10, <2>13, <3>1, SpentSame
  <2> QED BY <2>8, <2>9, <2>11, <2>12, <2>13, <2>15, <2>16, <2>17 DEF IInv
<1> QED BY <1>1, <1>2 DEF RunAdapter

\* Journaling the failure keeps the invariant (execute).
LEMMA AppendFailedInv == ASSUME IInv, AuditNext, AppendFailed PROVE IInv'
<1> DEFINE e == StageEvent("stage_failed")
<1>1. /\ Moved(e) /\ IInv /\ UNCHANGED << torn, quarantine, crashes, errors >>
      /\ run.pc = "failed" /\ Typed /\ run' = Idle
  BY DEF AppendFailed, Moved, Write, Leave, faults, At, IInv
<1>2. crashes \in Nat /\ errors \in Nat
  BY <1>1, CampaignAssumption DEF Typed
<1>3. e.ev = "stage_failed" /\ DOMAIN e = EventFields
  BY StageEventIs
<1>4. Backed(e)
  BY <1>3 DEF Backed, Names
<1> HIDE DEF e
<1>5. Audited' /\ Same(audit', audit) /\ Free(audit')
  BY <1>1, <1>3, MovedPlain
<1>6. Sound'
  BY <1>1, <1>5, SoundSame DEF Free, Same
<1>7. run'.pc = "down" /\ run'.loop = FALSE
  BY <1>1 DEF Idle
<1>8. Typed'
  BY <1>1, CampaignAssumption DEF Typed, Idle, RunFields, Nothing, Resuming
<1>9. Agreed' /\ Placed' /\ Attempted'
  BY <1>7 DEF Agreed, Placed, Attempted, Active, Attempting, Retiring
<1>10. Pays
  BY <1>1, <1>2 DEF Pays
<1>11. Spent'
  BY <1>1, <1>3, <1>5, <1>8, <1>10, SpentMoves DEF Same
<1>12. NonePending
  BY <1>1, BusyNonePending DEF IInv, Idling, Resuming, Retiring
<1>13. Pending'
  BY <1>1, <1>3, <1>12, PendingMoves
<1> QED BY <1>1, <1>3, <1>4, <1>5, <1>6, <1>8, <1>9, <1>11, <1>13, QuietStep

\* What the process writes of the stage it has finished is what the replay
\* expects of it.
LEMMA CompletionFits ==
    ASSUME IInv, run.pc = "bind"
    PROVE  LET e == StageEvent("stage_completed")
               d == [e EXCEPT !.post = ExpectedState(e, run.state)]
           IN  /\ DOMAIN d = EventFields /\ d.ev = "stage_completed" /\ d.stage = run.stage
               /\ d.attempt = run.attempt /\ d.pre = audit.state /\ d.post = ExpectedState(e, run.state)
               /\ Backed(d) /\ Fits(audit, d) /\ IsNext(run.stage)
<1>0. PICK e, next, d : /\ e = StageEvent("stage_completed") /\ next = ExpectedState(e, run.state)
                        /\ d = [e EXCEPT !.post = next]
  OBVIOUS
<1>1. PICK s, n : s = run.stage /\ n = run.attempt
  OBVIOUS
<1>2. run.state = audit.state /\ run.gen = audit.gen
  BY ActiveIs DEF Active, Attempting
<1>3. IsNext(s) /\ s \in Stages /\ DOMAIN audit.completed = Plan(Position(s) - 1) /\ << s, n >> \in DOMAIN receipts
  BY <1>1 DEF IInv, Placed, Attempted, IsNext, Attempting
<1>4. s \notin DOMAIN audit.completed
  BY <1>3, PlanGrows
<1>5. /\ DOMAIN e = EventFields /\ e.ev = "stage_completed" /\ e.stage = s
      /\ e.attempt = n /\ e.gen = audit.gen /\ e.pre = audit.state
  BY <1>0, <1>1, <1>2, StageEventIs
<1>6. /\ DOMAIN d = EventFields /\ d.ev = "stage_completed" /\ d.stage = s /\ d.attempt = n
      /\ d.gen = audit.gen /\ d.pre = audit.state /\ d.post = next
  BY <1>0, <1>5 DEF EventFields
<1>7. next = ExpectedState(d, audit.state)
  BY <1>0, <1>2, <1>5, <1>6 DEF ExpectedState
<1>8. Backed(d)
  BY <1>3, <1>6 DEF Backed, Names, Key
<1>9. Fits(audit, d)
  BY <1>3, <1>4, <1>6, <1>7 DEF Fits, Key
<1> QED BY <1>0, <1>1, <1>3, <1>6, <1>8, <1>9

\* Completing the stage keeps the invariant (execute).
LEMMA CompleteStageInv == ASSUME IInv, AuditNext, CompleteStage PROVE IInv'
<1>0. run.pc = "bind" /\ UNCHANGED << torn, quarantine, receipts, deleted, crashes >>
  BY DEF CompleteStage, At
<1>1. CASE errors < MaxFailures /\ errors' = errors + 1 /\ Goto("failed") /\ UNCHANGED journal
  BY <1>0, <1>1, FailingInv
<1>2. ASSUME NEW e, NEW next, e = StageEvent("stage_completed"), next = ExpectedState(e, run.state),
             Write([e EXCEPT !.post = next]),
             run' = [run EXCEPT !.pc = AfterCompletion, !.state = next,
                                !.completed = With(run.completed, run.stage, run.attempt)],
             UNCHANGED errors
      PROVE  IInv'
  <2>1. PICK s, n : s = run.stage /\ n = run.attempt
    OBVIOUS
  <2>2. /\ run.completed = audit.completed /\ run.state = audit.state /\ run.gen = audit.gen
        /\ ~audit.done /\ Typed /\ Sound /\ crashes \in Nat /\ errors \in Nat
        /\ run.pc \in Attempting /\ NoStage \notin Stages
    BY <1>0, ActiveIs DEF Active, Attempting
  <2>3. PICK d : d = [e EXCEPT !.post = next]
    OBVIOUS
  <2>4. /\ DOMAIN d = EventFields /\ d.ev = "stage_completed" /\ d.stage = s /\ d.attempt = n
        /\ d.post = next /\ Backed(d) /\ Fits(audit, d) /\ IsNext(s)
    BY <1>0, <1>2, <2>1, <2>3, CompletionFits
  <2>5. s \in Stages /\ DOMAIN audit.completed = Plan(Position(s) - 1) /\ s \notin DOMAIN audit.completed
    BY <2>4, PlanGrows DEF IsNext
  <2>6. Moved(d)
    BY <1>0, <1>2, <2>3 DEF Moved, Write
  <2>7. Audited' /\ Completed(audit', audit, d)
    BY <2>4, <2>6, MovedCompleted
  <2>8. /\ audit'.completed = With(audit.completed, s, n) /\ audit'.state = next
        /\ audit'.gen = audit.gen /\ audit'.done = audit.done
        /\ audit'.gate = (IF s \in Gates THEN s ELSE NoStage) /\ audit'.sup = NoStage
    BY <2>4, <2>7 DEF Completed
  <2>9. /\ DOMAIN audit'.completed = Plan(Position(s)) /\ audit'.completed[s] = n
        /\ \A x \in DOMAIN audit.completed : audit'.completed[x] = audit.completed[x]
        /\ DOMAIN audit'.completed = DOMAIN audit.completed \cup {s}
    <3>1. PICK f, g : f = audit.completed /\ g = audit'.completed
      OBVIOUS
    <3>2. /\ DOMAIN g = DOMAIN f \cup {s} /\ g[s] = n /\ \A x \in DOMAIN f : x # s => g[x] = f[x]
      BY <2>8, <3>1 DEF With
    <3>3. DOMAIN f = Plan(Position(s) - 1) /\ s \notin DOMAIN f
      BY <2>5, <3>1
    <3>4. Plan(Position(s)) = Plan(Position(s) - 1) \cup {s}
      BY <2>5, PlanGrows
    <3> QED BY <3>1, <3>2, <3>3, <3>4
  <2>10. CompletedEvent(s, n)'
    BY <2>4, <2>6, JournalGrows DEF CompletedEvent
  <2>11. IsLast(s)'
    BY <2>5, <2>9 DEF IsLast
  <2>12. Sound'
    <3>1. Position(s) \in 0 .. Len(StageOrder)
      BY <2>5, PlanGrows
    <3>2. \A x \in DOMAIN audit'.completed : CompletedEvent(x, audit.completed[x])'
      <4>1. ASSUME NEW x \in DOMAIN audit.completed PROVE CompletedEvent(x, audit.completed[x])'
        <5>1. CompletedEvent(x, audit.completed[x])
          BY <2>2 DEF Sound
        <5>2. PICK m : m = audit.completed[x]
          OBVIOUS
        <5>3. CompletedEvent(x, m)'
          BY <2>6, <5>1, <5>2, JournalGrows
        <5> QED BY <2>9, <5>2, <5>3 DEF CompletedEvent
      <4> QED BY <2>9, <2>10, <4>1 DEF CompletedEvent
    <3> QED BY <2>2, <2>8, <2>9, <2>11, <3>1, <3>2 DEF Sound
  <2>13. /\ DOMAIN run' = RunFields /\ run'.pc = AfterCompletion /\ run'.stage = s
         /\ run'.attempt = n /\ run'.completed = audit'.completed /\ run'.gen = run.gen
         /\ run'.loop = run.loop /\ run'.state = audit'.state
    BY <1>2, <2>1, <2>2, <2>8 DEF Typed, RunFields
  <2>14. run'.pc = IF s \in Triggers /\ Retention THEN "plan"
                   ELSE IF s \in Gates THEN "decide" ELSE "stage"
    BY <2>1, <2>13 DEF AfterCompletion
  <2>15. Typed'
    BY <1>0, <1>2, <2>2, <2>5, <2>9, <2>13, <2>14 DEF Typed, Active, Attempting, Retiring
  <2>16. Agreed'
    BY <2>2, <2>8, <2>13, <2>14 DEF Agreed, Active, Attempting, Retiring
  <2>17. Placed'
    BY <2>9, <2>11, <2>13, <2>14 DEF Placed, Attempting, Retiring, IsLast
  <2>18. Attempted'
    BY <2>14 DEF Attempted, Attempting
  <2>19. Pays
    BY <1>0, <1>2, <2>1, <2>2, <2>9 DEF Pays
  <2>20. Spent'
    <3>1. \A x : StartsOf(x)' = StartsOf(x)
      BY <2>4, <2>6, StartsStay
    <3> QED BY <2>8, <2>9, <2>15, <2>19, <3>1, SpentSame
  <2>21. Pending'
    <3>1. NonePending
      BY <1>0, BusyNonePending DEF IInv, Idling, Resuming, Retiring
    <3> QED BY <2>4, <2>6, <3>1, PendingMoves
  <2> QED BY <2>4, <2>6, <2>7, <2>12, <2>15, <2>16, <2>17, <2>18, <2>20, <2>21, QuietStep
<1> QED BY <1>1, <1>2, Zenon DEF CompleteStage

\* Deciding a gate keeps the invariant (_record_gate_decision).
LEMMA RecordGateDecisionInv == ASSUME IInv, AuditNext, RecordGateDecision PROVE IInv'
<1>1. /\ IInv /\ run.pc = "decide"
      /\ UNCHANGED << torn, quarantine, receipts, deleted, crashes, errors >>
  BY DEF RecordGateDecision, At, faults
<1>2. /\ run.completed = audit.completed /\ run.state = audit.state /\ run.gen = audit.gen
      /\ ~audit.done /\ Typed /\ Sound /\ crashes \in Nat /\ errors \in Nat
  BY <1>1, ActiveIs DEF Active
<1>3. PICK s, n : s = run.stage /\ n = run.attempt
  OBVIOUS
<1>4. s \in Gates /\ s \in Stages /\ IsLast(s) /\ n = audit.completed[s] /\ s \in DOMAIN audit.completed
  <2>1. s \in Gates /\ IsLast(s) /\ n = audit.completed[s]
    BY <1>1, <1>3 DEF IInv, Placed
  <2>2. s \in Stages /\ DOMAIN audit.completed = Plan(Position(s))
    BY <2>1 DEF IsLast
  <2> QED BY <2>1, <2>2, PlanGrows
<1>5. PICK act, pre, post, pc :
          /\ Write([StageEvent("gate_decision") EXCEPT !.pre = pre, !.action = act, !.post = post])
          /\ Goto(pc) /\ pc = IF act # "continue" THEN "supersede" ELSE IF run.loop THEN "stage" ELSE "audit"
  BY Zenon DEF RecordGateDecision
<1>6. PICK d : d = [StageEvent("gate_decision") EXCEPT !.pre = pre, !.action = act, !.post = post]
  OBVIOUS
<1>7. /\ DOMAIN d = EventFields /\ d.ev = "gate_decision" /\ d.stage = s /\ d.attempt = n
      /\ d.gen = audit.gen
  <2>1. PICK e : e = StageEvent("gate_decision")
    OBVIOUS
  <2>2. /\ DOMAIN e = EventFields /\ e.ev = "gate_decision" /\ e.stage = s /\ e.attempt = n
        /\ e.gen = audit.gen
    BY <1>2, <1>3, <2>1, StageEventIs
  <2> QED BY <1>6, <2>1, <2>2 DEF EventFields
<1>8. Moved(d)
  BY <1>1, <1>5, <1>6 DEF Moved, Write
<1>9. Backed(d)
  <2>1. CompletedEvent(s, n)
    BY <1>2, <1>4 DEF Sound
  <2>2. << s, n >> \in DOMAIN receipts
    BY <1>1, <2>1 DEF CompletedEvent, IInv, Written, Backed, Key
  <2> QED BY <1>7, <2>2 DEF Backed, Names, Key
<1>10. Audited' /\ Decided(audit', audit, d)
  BY <1>7, <1>8, MovedDecided
<1>11. /\ audit'.completed = audit.completed /\ audit'.gen = audit.gen /\ audit'.done = audit.done
       /\ audit'.state = audit.state /\ audit'.gate \in {NoStage, audit.gate}
       /\ audit'.sup \in {NoStage, s}
  BY <1>7, <1>10 DEF Decided, Same
<1>12. DecisionEvent(s, audit.gen)'
  <2>1. PICK g : g = audit.gen /\ g = audit'.gen
    BY <1>11
  <2>2. DecisionEvent(s, g)'
    BY <1>7, <1>8, <2>1, JournalGrows DEF DecisionEvent
  <2> QED BY <2>1, <2>2 DEF DecisionEvent
<1>13. \A x : IsLast(x)' <=> IsLast(x)
  BY <1>11 DEF IsLast
<1>14. Sound'
  <2>1. \A x \in DOMAIN audit.completed : CompletedEvent(x, audit.completed[x])'
    BY <1>2, <1>8, <1>11, JournalGrows DEF Sound, CompletedEvent
  <2> QED BY <1>2, <1>4, <1>11, <1>12, <1>13, <2>1 DEF Sound
<1>15. /\ DOMAIN run' = RunFields /\ run'.pc = pc /\ run'.stage = s /\ run'.attempt = n
       /\ run'.completed = run.completed /\ run'.gen = run.gen /\ run'.loop = run.loop
       /\ run'.state = run.state
  BY <1>2, <1>3, <1>5 DEF Typed, RunFields, Goto
<1>16. Typed'
  BY <1>1, <1>2, <1>4, <1>5, <1>15 DEF Typed, Active, Resuming
<1>17. Agreed'
  BY <1>2, <1>5, <1>11, <1>15 DEF Typed, Agreed, Active, Attempting, Retiring
<1>18. Placed' /\ Attempted'
  <2>1. run'.gen = audit'.gen
    BY <1>2, <1>11, <1>15
  <2> QED BY <1>5, <1>12, <1>15, <2>1 DEF Placed, Attempted, Attempting, Retiring, DecisionEvent
<1>19. Spent'
  <2>1. Pays
    BY <1>1, <1>2 DEF Pays
  <2> QED BY <1>7, <1>8, <1>11, <1>16, <2>1, SpentMoves
<1>20. Pending'
  <2>1. NonePending
    BY <1>1, BusyNonePending DEF IInv, Idling, Resuming, Retiring
  <2> QED BY <1>7, <1>8, <2>1, PendingMoves
<1> QED BY <1>7, <1>8, <1>9, <1>10, <1>14, <1>16, <1>17, <1>18, <1>19, <1>20, QuietStep

\* What is left of the plan when the stages from the allocation on are dropped.
LEMMA PlanKept ==
    ASSUME NEW n \in 0 .. Len(StageOrder)
    PROVE  \E m \in 0 .. Len(StageOrder) : Plan(n) \ FromAllocation = Plan(m)
<1>1. PICK len \in Nat : len = Len(StageOrder)
  BY PlanOrdered
<1>2. Allocation \in Stages
  BY CampaignAssumption DEF Allocation
<1>3. PICK p \in 1 .. len : p = Position(Allocation)
  BY <1>1, <1>2, PlanOrdered
<1>4. PICK m \in 0 .. len : m = IF n < p THEN n ELSE p - 1
  BY <1>1, <1>3
<1>5. \A k \in 1 .. len : k \in 1 .. n /\ ~(k >= p) <=> k \in 1 .. m
  BY <1>1, <1>3, <1>4
<1>6. Plan(n) \subseteq Stages /\ \A s \in Stages : s \in Plan(n) <=> Position(s) \in 1 .. n
  BY PlanHas
<1>7. Plan(m) \subseteq Stages /\ \A s \in Stages : s \in Plan(m) <=> Position(s) \in 1 .. m
  BY <1>1, PlanHas
<1>8. \A s \in Stages : s \in FromAllocation <=> Position(s) >= p
  BY <1>3 DEF FromAllocation
<1>9. \A s \in Stages : s \in Plan(n) \ FromAllocation <=> s \in Plan(m)
  BY <1>1, <1>5, <1>6, <1>7, <1>8, PlanOrdered
<1>10. Plan(n) \ FromAllocation = Plan(m)
  BY <1>6, <1>7, <1>9
<1> QED BY <1>1, <1>10

\* Superseding a generation keeps the invariant, at the cap also by doing
\* nothing (_append_generation_superseded).
LEMMA SupersedeInv == ASSUME IInv, AuditNext, Supersede PROVE IInv'
<1>1. /\ IInv /\ run.pc = "supersede" /\ run' = Idle
      /\ UNCHANGED << torn, quarantine, receipts, deleted, crashes, errors >>
  BY DEF Supersede, At, faults, Leave
<1>2. /\ run.completed = audit.completed /\ run.state = audit.state /\ run.gen = audit.gen
      /\ ~audit.done /\ Typed /\ Sound /\ crashes \in Nat /\ errors \in Nat
  BY <1>1, ActiveIs DEF Active
<1>3. run'.pc = "down" /\ run'.loop = FALSE
  BY <1>1 DEF Idle
<1>4. Typed'
  BY <1>1, <1>2, CampaignAssumption DEF Typed, Idle, RunFields, Nothing, Resuming
<1>5. Agreed' /\ Placed' /\ Attempted'
  BY <1>3 DEF Agreed, Placed, Attempted, Active, Attempting, Retiring
<1>6. Pays /\ NonePending
  BY <1>1, <1>2, BusyNonePending DEF Pays, IInv, Idling, Resuming, Retiring
<1>7. CASE UNCHANGED journal
  <2>1. Untouched
    BY <1>1, <1>7 DEF Untouched
  <2>2. Spent'
    BY <1>4, <1>6, <2>1, SpentStays
  <2> QED BY <1>1, <1>4, <2>1, <2>2, Leaving DEF Leave
<1>8. ASSUME NEW d \in Range(journal), NEW a, NEW p, NEW q,
             Write([d EXCEPT !.ev = "generation_superseded", !.attempt = a, !.pre = p, !.dropped = q])
      PROVE  IInv'
  <2>1. PICK e : e = [d EXCEPT !.ev = "generation_superseded", !.attempt = a, !.pre = p, !.dropped = q]
    OBVIOUS
  <2>2. DOMAIN e = EventFields /\ e.ev = "generation_superseded"
    BY <1>1, <2>1 DEF IInv, Written, EventFields
  <2>3. Backed(e)
    BY <2>2 DEF Backed, Names
  <2>4. Moved(e)
    BY <1>1, <1>8, <2>1 DEF Moved, Write
  <2>5. Audited' /\ Superseded(audit', audit, e)
    BY <2>2, <2>4, MovedSuperseded
  <2>6. Pending'
    BY <1>6, <2>2, <2>4, PendingMoves
  <2>7. CASE Same(audit', audit) /\ audit'.gate = NoStage /\ audit'.sup \in {NoStage, audit.sup}
    <3>1. Sound'
      BY <2>4, <2>7, SoundSame DEF Same
    <3>2. Spent'
      BY <1>4, <1>6, <2>2, <2>4, <2>7, SpentMoves DEF Same
    <3> QED BY <1>4, <1>5, <2>2, <2>3, <2>4, <2>5, <2>6, <3>1, <3>2, QuietStep
  <2>8. CASE /\ Free(audit')
             /\ audit'.completed = [s \in DOMAIN audit.completed \ FromAllocation |-> audit.completed[s]]
             /\ audit'.gen = audit.gen + 1 /\ audit.gen + 1 < MaxGenerations
    <3>1. PICK n \in 0 .. Len(StageOrder) : DOMAIN audit.completed = Plan(n)
      BY <1>2 DEF Sound
    <3>2. \E m \in 0 .. Len(StageOrder) : DOMAIN audit'.completed = Plan(m)
      BY <2>8, <3>1, PlanKept
    <3>3. audit'.gen \in 0 .. MaxGenerations - 1
      <4>1. PICK g, M \in Nat : g = audit.gen /\ M = MaxGenerations /\ g \in 0 .. M - 1
        BY <1>2, CampaignAssumption DEF Sound
      <4>2. g + 1 < M => g + 1 \in 0 .. M - 1
        BY <4>1
      <4> QED BY <2>8, <4>1, <4>2
    <3>4. \A x \in DOMAIN audit'.completed :
              x \in DOMAIN audit.completed /\ audit'.completed[x] = audit.completed[x]
      BY <2>8
    <3>5. \A x \in DOMAIN audit'.completed : CompletedEvent(x, audit.completed[x])'
      <4>1. ASSUME NEW x \in DOMAIN audit'.completed PROVE CompletedEvent(x, audit.completed[x])'
        <5>1. CompletedEvent(x, audit.completed[x])
          BY <1>2, <3>4 DEF Sound
        <5>2. PICK m : m = audit.completed[x] /\ m = audit'.completed[x]
          BY <3>4
        <5>3. CompletedEvent(x, m)'
          BY <2>4, <5>1, <5>2, JournalGrows
        <5> QED BY <5>2, <5>3 DEF CompletedEvent
      <4> QED BY <4>1
    <3>6. Sound'
      BY <2>8, <3>2, <3>3, <3>5 DEF Sound, Free
    <3>7. Spent'
      <4>1. \A s : StartsOf(s)' = StartsOf(s)
        BY <2>2, <2>4, StartsStay
      <4>2. ASSUME NEW s \in Stages, NEW k \in StartsOf(s), NEW y \in {0, 1}
            PROVE  k <= crashes + errors + audit'.gen + y
        <5>1. PICK g \in Nat, b \in Nat : g = audit.gen /\ b = crashes + errors
          BY <1>2 DEF Sound
        <5>2. k \in Nat
          BY <1>1 DEF IInv, Numbered
        <5>3. k <= b + g + IF s \in DOMAIN audit.completed \/ (run.pc \in {"adapter", "bind"} /\ run.stage = s)
                           THEN 1 ELSE 0
          BY <1>1, <5>1 DEF IInv, Spent
        <5>4. k <= b + (g + 1) + y
          BY <5>1, <5>2, <5>3
        <5> QED BY <2>8, <5>1, <5>4
      <4> QED BY <1>1, <4>1, <4>2 DEF Spent
    <3> QED BY <1>4, <1>5, <2>2, <2>3, <2>4, <2>5, <2>6, <3>6, <3>7, QuietStep
  <2> QED BY <2>5, <2>7, <2>8 DEF Superseded
<1>9. CASE journal' # journal
  <2>1. PICK d, g : /\ d = CHOOSE e \in Range(journal) : /\ e.ev = "gate_decision" /\ e.stage = run.stage
                                                          /\ e.gen = run.gen
                    /\ Write([d EXCEPT !.ev = "generation_superseded", !.attempt = run.gen + 1,
                                       !.pre = d.post, !.dropped = g])
    BY <1>9, Zenon DEF Supersede
  <2>2. \E e \in Range(journal) : e.ev = "gate_decision" /\ e.stage = run.stage /\ e.gen = run.gen
    BY <1>1 DEF IInv, Placed, DecisionEvent
  <2>3. d \in Range(journal)
    BY <2>1, <2>2
  <2>4. PICK a, p : a = run.gen + 1 /\ p = d.post
    OBVIOUS
  <2>5. Write([d EXCEPT !.ev = "generation_superseded", !.attempt = a, !.pre = p, !.dropped = g])
    BY <2>1, <2>4
  <2> QED BY <1>8, <2>3, <2>5
<1> QED BY <1>7, <1>9

\* Completing the campaign keeps the invariant (execute).
LEMMA CompleteInv == ASSUME IInv, AuditNext, Complete PROVE IInv'
<1>1. /\ IInv /\ run.pc = "stage" /\ run' = Idle
      /\ UNCHANGED << torn, quarantine, receipts, deleted, crashes, errors >>
  BY DEF Complete, At, faults, Leave
<1>2. /\ ~audit.done /\ Typed /\ Sound /\ crashes \in Nat /\ errors \in Nat
  BY <1>1, ActiveIs DEF Active
<1>3. PICK x, y, e : /\ e = [Event("campaign_completed", NoStage, 0) EXCEPT !.pre = x, !.dropped = y]
                     /\ Write(e)
  BY Zenon DEF Complete
<1>4. DOMAIN e = EventFields /\ e.ev = "campaign_completed"
  BY <1>3 DEF Event, EventFields
<1>5. Backed(e)
  BY <1>4 DEF Backed, Names
<1>6. Moved(e)
  BY <1>1, <1>3 DEF Moved, Write
<1>7. /\ Audited' /\ audit'.completed = audit.completed /\ audit'.gen = audit.gen /\ Free(audit')
  BY <1>4, <1>6, MovedCompletion
<1>8. Sound'
  BY <1>6, <1>7, SoundSame DEF Free
<1>9. run'.pc = "down" /\ run'.loop = FALSE
  BY <1>1 DEF Idle
<1>10. Typed'
  BY <1>1, <1>2, CampaignAssumption DEF Typed, Idle, RunFields, Nothing, Resuming
<1>11. Agreed' /\ Placed' /\ Attempted'
  BY <1>9 DEF Agreed, Placed, Attempted, Active, Attempting, Retiring
<1>12. Spent'
  <2>1. Pays
    BY <1>1, <1>2 DEF Pays
  <2> QED BY <1>4, <1>6, <1>7, <1>10, <2>1, SpentMoves
<1>13. Pending'
  <2>1. NonePending
    BY <1>1, BusyNonePending DEF IInv, Idling, Resuming, Retiring
  <2> QED BY <1>4, <1>6, <2>1, PendingMoves
<1> QED BY <1>4, <1>5, <1>6, <1>7, <1>8, <1>10, <1>11, <1>12, <1>13, QuietStep

-----------------------------------------------------------------------------
(* The kill, the first state, and the invariant                             *)

\* A kill at any point keeps the invariant, in the middle of a write too.
LEMMA CrashInv == ASSUME IInv, AuditNext, Crash PROVE IInv'
<1>1. /\ IInv /\ run' = Idle /\ Leave /\ UNCHANGED << journal, receipts, deleted, errors >> /\ Typed
      /\ crashes < MaxCrashes /\ crashes' = crashes + 1
  BY DEF Crash, Leave, IInv
<1>2. crashes \in Nat /\ errors \in Nat /\ MaxCrashes \in Nat
  BY <1>1, CampaignAssumption DEF Typed
<1>3. crashes' \in 0 .. MaxCrashes /\ crashes <= crashes' /\ crashes' + errors > crashes + errors
  BY <1>1, <1>2
<1>4. torn' \in 0 .. crashes'
  <2>1. torn' = torn \/ torn' = crashes + 1
    BY DEF Crash
  <2> QED BY <1>1, <1>2, <2>1 DEF Typed
<1>5. /\ quarantine' \in [1 .. MaxCrashes -> {"none", "partial", "whole"}]
      /\ \A f \in 1 .. MaxCrashes : quarantine[f] # "none" => quarantine'[f] = quarantine[f]
  <2>1. CASE UNCHANGED quarantine
    BY <1>1, <2>1 DEF Typed
  <2>2. ASSUME NEW q \in {"partial", "whole"}, torn # 0, quarantine[torn] = "none",
               quarantine' = [quarantine EXCEPT ![torn] = q]
        PROVE  /\ quarantine' \in [1 .. MaxCrashes -> {"none", "partial", "whole"}]
               /\ \A f \in 1 .. MaxCrashes : quarantine[f] # "none" => quarantine'[f] = quarantine[f]
    <3>1. torn \in 1 .. MaxCrashes
      BY <1>1, <1>2, <2>2 DEF Typed
    <3> QED BY <1>1, <2>2, <3>1 DEF Typed
  <2> QED BY <2>1, <2>2 DEF Crash
<1>6. Untouched
  BY <1>1, <1>5 DEF Untouched
<1>7. Typed'
  BY <1>1, <1>3, <1>4, <1>5, CampaignAssumption DEF Typed, Idle, RunFields, Nothing, Resuming
<1>8. Pays
  BY <1>1, <1>2, <1>3 DEF Pays
<1>9. Spent'
  BY <1>6, <1>7, <1>8, SpentStays
<1> QED BY <1>1, <1>6, <1>7, <1>9, Leaving

\* The replay of a journal that has only been created.
LEMMA InitAudit ==
    ASSUME Init
    PROVE  /\ Audited /\ DOMAIN audit.completed = {} /\ audit.gen = 0 /\ audit.done = FALSE
           /\ audit.gate = NoStage /\ audit.sup = NoStage
<1>1. PICK e : e = Event("campaign_planned", NoStage, 0)
  OBVIOUS
<1>2. journal = << e >> /\ Len(journal) = 1 /\ journal[1] = e /\ audit = Replay(journal)
  BY <1>1 DEF Init
<1>3. e.ev = "campaign_planned"
  BY <1>1 DEF Event
<1>4. PICK g : IsReplay(g, journal, Plans(journal), 1)
  BY ReplayDefined
<1>5. g[0] = Blank /\ g[1] = ReplayEvent(g[0], journal[1], Plans(journal))
  BY <1>4 DEF IsReplay
<1>6. PICK v : v = g[1]
  OBVIOUS
<1>7. v = Immediate(Blank, e)
  BY <1>2, <1>3, <1>5, <1>6 DEF ReplayEvent
<1>8. /\ DOMAIN Blank = Fields /\ Blank.completed = Nothing /\ Blank.gen = 0
      /\ Blank.gate = NoStage /\ Blank.sup = NoStage /\ Blank.done = FALSE
  BY DEF Blank, Fields
<1>9. Same(v, Blank) /\ v.gate = NoStage /\ v.sup = NoStage
  BY <1>3, <1>7, <1>8, ImmediateKeeps
<1>10. Reached(v)
  BY <1>2, <1>4, <1>6 DEF Reached
<1>11. audit = CheckPrefix(v)
  BY <1>2, <1>4, <1>6, ReplayOfJournal
<1>12. DOMAIN v = Fields
  BY <1>9 DEF Same
<1>13. Audited
  BY <1>10, <1>11, <1>12 DEF Audited
<1>14. DOMAIN Nothing = {}
  BY DEF Nothing
<1> QED BY <1>8, <1>9, <1>11, <1>12, <1>13, <1>14, CheckPrefixKeeps DEF Same

\* A campaign that has been planned satisfies the invariant.
LEMMA InitInv == Init => IInv
<1> SUFFICES ASSUME Init PROVE IInv
  OBVIOUS
<1>1. PICK e : e = Event("campaign_planned", NoStage, 0)
  OBVIOUS
<1>2. DOMAIN e = EventFields /\ e.ev = "campaign_planned" /\ Backed(e)
  BY <1>1 DEF Event, EventFields, Backed, Names
<1>3. /\ journal = << e >> /\ DOMAIN journal = {1} /\ journal[1] = e /\ Range(journal) = {e}
  <2>1. journal = << e >> /\ DOMAIN journal = {1} /\ journal[1] = e
    BY <1>1 DEF Init
  <2> QED BY <2>1 DEF Range
<1>4. /\ receipts = Nothing /\ deleted = {} /\ run = Idle /\ crashes = 0 /\ errors = 0 /\ torn = 0
      /\ quarantine = [f \in 1 .. MaxCrashes |-> "none"]
  BY DEF Init
<1>5. run.pc = "down" /\ run.loop = FALSE /\ DOMAIN receipts = {} /\ DOMAIN Nothing = {}
  BY <1>4 DEF Idle, Nothing
<1>6. Typed
  BY <1>4, <1>5, CampaignAssumption DEF Typed, Idle, RunFields, Resuming
<1>7. Listed(journal)
  BY <1>3 DEF Listed
<1>8. Written
  BY <1>2, <1>3, <1>7 DEF Written
<1>9. Audited /\ Sound
  <2>1. Plan(0) = {} /\ 0 \in 0 .. Len(StageOrder)
    BY PlanOrdered DEF Plan, Slice
  <2>2. 0 \in 0 .. MaxGenerations - 1
    BY CampaignAssumption
  <2>3. /\ Audited /\ DOMAIN audit.completed = {} /\ audit.gen = 0
        /\ audit.gate = NoStage /\ audit.sup = NoStage
    BY InitAudit
  <2> QED BY <2>1, <2>2, <2>3 DEF Sound
<1>10. Agreed /\ Placed /\ Attempted
  BY <1>5 DEF Agreed, Placed, Attempted, Active, Attempting, Retiring
<1>11. \A s : StartsOf(s) = {}
  BY <1>2, <1>3 DEF StartsOf, Events
<1>12. Numbered /\ Received /\ Spent
  <2>1. 0 \in Nat /\ 1 .. 0 = {}
    OBVIOUS
  <2> QED BY <1>5, <1>11, <2>1 DEF Numbered, Received, Spent
<1>13. Deleted /\ Follows /\ Pending
  BY <1>2, <1>3, <1>4 DEF Deleted, Explained, Follows, Pending, Plans
<1> QED BY <1>6, <1>8, <1>9, <1>10, <1>12, <1>13 DEF IInv

\* A step that changes nothing keeps the invariant.
LEMMA StutterInv == ASSUME IInv, UNCHANGED vars PROVE IInv'
<1>1. UNCHANGED << journal, torn, quarantine, receipts, deleted, run, audit, crashes, errors >>
  BY DEF vars
<1>2. Untouched
  BY <1>1 DEF Untouched, AuditNext
<1>3. \A s : StartsOf(s)' = StartsOf(s)
  BY <1>2, FilesStay
<1>4. \A s : /\ IsLast(s)' <=> IsLast(s)
             /\ IsNext(s)' <=> IsNext(s)
             /\ \A g : DecisionEvent(s, g)' <=> DecisionEvent(s, g)
             /\ PlannedNow(s)' = PlannedNow(s)
             /\ \A e : PlansNow(e, s)' <=> PlansNow(e, s)
  BY <1>1 DEF IsLast, IsNext, DecisionEvent, PlannedNow, PlansNow
<1>5. Typed' /\ Agreed'
  BY <1>1 DEF IInv, Typed, Agreed
<1>6. Placed'
  BY <1>1, <1>4 DEF IInv, Placed, IsLast, IsNext, DecisionEvent, PlannedNow, Plans
<1>7. Pending'
  BY <1>1, <1>4 DEF IInv, Pending, Journaled
<1>8. Attempted'
  BY <1>1, <1>3 DEF IInv, Attempted
<1>9. Spent'
  BY <1>1, <1>3 DEF IInv, Spent
<1> QED BY <1>2, <1>5, <1>6, <1>7, <1>8, <1>9, StepOfProcess

\* Every step of the runner, and every kill, keeps the invariant.
LEMMA NextInv == ASSUME IInv, [Next]_vars PROVE IInv'
<1>1. CASE UNCHANGED vars
  BY <1>1, StutterInv
<1>2. CASE Next
  <2>1. AuditNext /\ (Work \/ Crash)
    BY <1>2 DEF Next, AuditNext
  <2>2. CASE Crash
    BY <2>1, <2>2, CrashInv
  <2>3. CASE Start
    BY <2>1, <2>3, StartInv
  <2>4. CASE Recovery
    BY <2>1, <2>4, RecoverTornTailInv, TruncateInv, AppendRecoveredInv, AuditInv DEF Recovery
  <2>5. CASE Retirement
    BY <2>1, <2>5, ReconcileInv, PlanRetirementInv, UnlinkInv, AppendRetiredInv DEF Retirement
  <2>6. CASE Preflight
    BY <2>1, <2>6, PreflightInv
  <2>7. CASE Execution
    BY <2>1, <2>7, StartStageInv, RunAdapterInv, AppendFailedInv, CompleteStageInv, CompleteInv
       DEF Execution
  <2>8. CASE Gate
    BY <2>1, <2>8, RecordGateDecisionInv, SupersedeInv DEF Gate
  <2> QED BY <2>1, <2>2, <2>3, <2>4, <2>5, <2>6, <2>7, <2>8 DEF Work
<1> QED BY <1>1, <1>2

\* Wherever a runner has been killed and resumed, the invariant holds: for any
\* plan, any gates, retention and policy, and any number of kills and failures
\* (execute).
THEOREM Invariant == Spec => []IInv
<1>1. Init => IInv
  BY InitInv
<1>2. IInv /\ [Next]_vars => IInv'
  BY NextInv
<1> QED BY <1>1, <1>2, PTL DEF Spec

-----------------------------------------------------------------------------
(* What the process finds, and what a later run reads                       *)

\* The types, and the agreement of the locals with the replay, are in the
\* invariant.
LEMMA TypesAgree == IInv => RunnerAgrees
<1> SUFFICES ASSUME IInv PROVE RunnerAgrees
  OBVIOUS
<1>1. /\ MaxCrashes \in Nat /\ MaxFailures \in Nat /\ MaxGenerations \in Nat \ {0}
      /\ crashes \in 0 .. MaxCrashes /\ errors \in 0 .. MaxFailures /\ audit.gen \in 0 .. MaxGenerations - 1
      /\ torn \in 0 .. crashes
  BY CampaignAssumption DEF IInv, Typed, Sound
<1>2. ASSUME NEW s \in Stages, NEW n \in StartsOf(s) PROVE << s, n >> \in Attempts
  <2>1. n \in Nat /\ n >= 1
    BY DEF IInv, Numbered
  <2>2. n <= crashes + errors + audit.gen + 1
    <3>1. PICK x \in {0, 1} : n <= crashes + errors + audit.gen + x
      BY DEF IInv, Spent
    <3> QED BY <1>1, <2>1, <3>1
  <2>3. n \in 1 .. MaxCrashes + MaxFailures + MaxGenerations + 1
    BY <1>1, <2>1, <2>2
  <2> QED BY <2>3 DEF Attempts
<1>3. \A k \in DOMAIN receipts : k \in Attempts /\ receipts[k] \in BOOLEAN
  BY <1>2 DEF IInv, Received
<1>4. Range(receipts) \subseteq BOOLEAN
  BY <1>3 DEF Range
<1>5. deleted \subseteq Attempts
  BY <1>3 DEF IInv, Deleted
<1>6. torn \in 0 .. MaxCrashes
  BY <1>1
<1>7. TypeOK
  BY <1>1, <1>3, <1>4, <1>5, <1>6 DEF TypeOK, IInv, Typed
<1>8. MemoryMatchesJournal
  BY DEF MemoryMatchesJournal, IInv, Agreed
<1> QED BY <1>7, <1>8 DEF RunnerAgrees

\* The types, and in the stage loop the locals of execute are what a resume
\* would compute from the journal; also after a confirmation that the replay
\* refuses.
THEOREM RunnerKeepsAgreement == Spec => []RunnerAgrees
BY Invariant, TypesAgree, PTL

\* That what is deleted was planned after its trigger was completed is in the
\* invariant.
LEMMA RetiredExplained == IInv => RetiredOnlyAfterTrigger
<1> SUFFICES ASSUME IInv, NEW k \in deleted
             PROVE  \E i, j \in DOMAIN journal :
                        /\ i < j
                        /\ journal[i].ev = "stage_completed"
                        /\ journal[j].ev = "artifacts_retirement_planned"
                        /\ << journal[j].stage, journal[j].attempt >> = k
                        /\ journal[j].post = << << journal[i].stage, journal[i].attempt >> >>
                        /\ ProducerOf(journal[i].stage) = k[1]
  BY DEF RetiredOnlyAfterTrigger
<1>1. PICK e \in Range(journal) :
          e.ev = "artifacts_retirement_planned" /\ k = << e.stage, e.attempt >>
  BY DEF IInv, Deleted, Explained, Plans
<1>2. PICK j \in DOMAIN journal : journal[j] = e
  BY DEF Range
<1>3. PICK i \in DOMAIN journal :
          /\ i < j /\ journal[i].ev = "stage_completed"
          /\ journal[j].post = << << journal[i].stage, journal[i].attempt >> >>
          /\ ProducerOf(journal[i].stage) = journal[j].stage
  BY <1>1, <1>2 DEF IInv, Follows
<1> QED BY <1>1, <1>2, <1>3

\* Transient files are gone only after the stage that reads them was completed
\* and their retirement journaled (_plan_retirement_after,
\* _finalize_retirement).
THEOREM RetirementsAreBacked == Spec => []RetiredOnlyAfterTrigger
BY Invariant, RetiredExplained, PTL

-----------------------------------------------------------------------------
(* What a step may append *)

\* The events that start and accept nothing.
Quiet == {"journal_tail_recovered", "resource_preflight", "artifacts_retirement_planned",
          "artifacts_retirement_completed", "stage_failed", "gate_decision", "generation_superseded"}

\* An attempt is started: it has the next number, and the last one left nothing behind.
Begins(d) ==
    /\ d.ev = "stage_started" /\ d.stage \in Stages
    /\ ~Recoverable(d.stage) /\ d.attempt = NextAttempt(d.stage)
\* The next stage of the plan is completed, or the plan is.
Accepts(d) ==
    /\ d.ev = "stage_completed" /\ Fits(audit, d) /\ IsNext(d.stage) /\ ~audit.done
Finishes(d) ==
    /\ d.ev = "campaign_completed" /\ DOMAIN audit.completed = Plan(Len(StageOrder)) /\ ~audit.done

\* What a step writes: nothing, an event that starts and accepts nothing, the
\* start of the next attempt, the completion of the next stage, or the end.
LEMMA StepShapes ==
    ASSUME IInv, AuditNext, Work \/ Crash
    PROVE  \/ UNCHANGED journal /\ FilesGrow /\ Explained'
           \/ \E d : Moved(d) /\ (d.ev \in Quiet \/ Begins(d) \/ Accepts(d) \/ Finishes(d))
                     /\ (d.ev = "generation_superseded" => ~audit.done)
<1> DEFINE Shape == \/ UNCHANGED journal /\ FilesGrow /\ Explained'
                    \/ \E d : Moved(d) /\ (d.ev \in Quiet \/ Begins(d) \/ Accepts(d) \/ Finishes(d))
                              /\ (d.ev = "generation_superseded" => ~audit.done)
<1> SUFFICES Shape
  OBVIOUS
<1>1. UNCHANGED << journal, quarantine, receipts, deleted >> => Shape
  BY DEF FilesGrow, IInv, Deleted, Explained, Plans
<1>2. ASSUME NEW d, Write(d), UNCHANGED << quarantine, receipts, deleted >>
      PROVE  Moved(d)
  BY <1>2 DEF Moved, Write
<1> HIDE DEF Shape
<1>3. ASSUME NEW d, Write(d), UNCHANGED << quarantine, receipts, deleted >>,
             d.ev \in Quiet \/ Begins(d) \/ Accepts(d) \/ Finishes(d),
             d.ev = "generation_superseded" => ~audit.done
      PROVE  Shape
  BY <1>2, <1>3 DEF Shape
<1>4. CASE Start \/ Truncate \/ Audit \/ Reconcile
  BY <1>1, <1>4 DEF Start, Truncate, Audit, Reconcile
<1>5. CASE RecoverTornTail \/ Crash
  <2>1. /\ UNCHANGED << journal, receipts, deleted >>
        /\ \A f \in 1 .. MaxCrashes : quarantine[f] # "none" => quarantine'[f] = quarantine[f]
    <3>1. UNCHANGED << journal, receipts, deleted >> /\ quarantine \in [1 .. MaxCrashes -> {"none", "partial", "whole"}]
      BY <1>5 DEF RecoverTornTail, Crash, IInv, Typed
    <3>2. \/ UNCHANGED quarantine
          \/ quarantine[torn] = "none" /\ \E q : quarantine' = [quarantine EXCEPT ![torn] = q]
      BY <1>5 DEF RecoverTornTail, Crash
    <3> QED BY <3>1, <3>2
  <2> QED BY <2>1 DEF Shape, FilesGrow, IInv, Deleted, Explained, Plans
<1>6. CASE AppendRecovered
  BY <1>3, <1>6 DEF AppendRecovered, Event, Quiet
<1>7. CASE PlanRetirement
  <2>1. PICK e : e = RetirementEvent("artifacts_retirement_planned", run.stage)
    OBVIOUS
  <2>2. e.ev = "artifacts_retirement_planned"
    BY <2>1 DEF RetirementEvent, Event
  <2>3. (UNCHANGED journal \/ Write(e)) /\ UNCHANGED << quarantine, receipts, deleted >>
    BY <1>7, <2>1 DEF PlanRetirement
  <2> QED BY <1>1, <1>3, <2>2, <2>3 DEF Quiet
<1>8. CASE Unlink
  <2>1. UNCHANGED << journal, quarantine, receipts >> /\ run.pc = "unlink"
    BY <1>8 DEF Unlink, At
  <2>2. PlannedNow(run.stage) \in Plans(journal)
    BY <2>1 DEF IInv, Placed
  <2>3. deleted' = deleted \/ deleted' = deleted \cup {PlannedNow(run.stage)}
    BY <1>8 DEF Unlink, PlannedNow
  <2> QED BY <2>1, <2>2, <2>3 DEF Shape, FilesGrow, IInv, Deleted, Explained, Plans
<1>9. CASE AppendRetired
  <2>1. PICK e : e = RetirementEvent("artifacts_retirement_completed", run.stage)
    OBVIOUS
  <2>2. e.ev = "artifacts_retirement_completed"
    BY <2>1 DEF RetirementEvent, Event
  <2>3. Write(e) /\ UNCHANGED << quarantine, receipts, deleted >>
    BY <1>9, <2>1 DEF AppendRetired
  <2> QED BY <1>3, <2>2, <2>3 DEF Quiet
<1>10. CASE Preflight
  BY <1>3, <1>10 DEF Preflight, Event, Quiet
<1>11. CASE StartStage
  <2>1. PICK s, n : s = Head(Remaining) /\ n = NextAttempt(s)
    OBVIOUS
  <2>2. run.pc = "stage" /\ Remaining # << >> /\ UNCHANGED << quarantine, receipts, deleted >>
    BY <1>11 DEF StartStage, At
  <2>3. s \in Stages
    BY <2>1, <2>2, NextStage DEF IsNext
  <2>4. CASE Recoverable(s)
    BY <1>1, <1>11, <2>1, <2>2, <2>4 DEF StartStage
  <2>5. CASE ~Recoverable(s)
    <3>1. PICK d : d = [Event("stage_started", s, n) EXCEPT !.gen = run.gen, !.pre = run.state]
      OBVIOUS
    <3>2. d.ev = "stage_started" /\ d.stage = s /\ d.attempt = n
      BY <3>1 DEF Event
    <3>3. Write(d)
      BY <1>11, <2>1, <2>5, <3>1 DEF StartStage
    <3>4. Begins(d)
      BY <2>1, <2>3, <2>5, <3>2 DEF Begins
    <3> QED BY <1>3, <2>2, <3>2, <3>3, <3>4
  <2> QED BY <2>4, <2>5
<1>12. CASE RunAdapter
  <2>1. UNCHANGED << journal, quarantine, deleted >> /\ run.pc = "adapter"
    BY <1>12 DEF RunAdapter, At
  <2>2. << run.stage, run.attempt >> \notin DOMAIN receipts
    BY <2>1 DEF IInv, Attempted
  <2>3. \A k \in DOMAIN receipts : k \in DOMAIN receipts' /\ receipts'[k] = receipts[k]
    <3>1. CASE UNCHANGED receipts
      BY <3>1
    <3>2. ASSUME NEW p, receipts' = With(receipts, << run.stage, run.attempt >>, p)
          PROVE  \A k \in DOMAIN receipts : k \in DOMAIN receipts' /\ receipts'[k] = receipts[k]
      BY <2>2, <3>2 DEF With
    <3> QED BY <1>12, <3>1, <3>2 DEF RunAdapter
  <2> QED BY <2>1, <2>3 DEF Shape, FilesGrow, IInv, Deleted, Explained, Plans
<1>13. CASE AppendFailed
  <2>1. PICK e : e = StageEvent("stage_failed")
    OBVIOUS
  <2>2. e.ev = "stage_failed"
    BY <2>1, StageEventIs
  <2> QED BY <1>3, <1>13, <2>1, <2>2 DEF AppendFailed, Quiet
<1>14. CASE CompleteStage
  <2>1. PICK e, next, d : /\ e = StageEvent("stage_completed") /\ next = ExpectedState(e, run.state)
                          /\ d = [e EXCEPT !.post = next]
    OBVIOUS
  <2>2. run.pc = "bind" /\ UNCHANGED << quarantine, receipts, deleted >> /\ (UNCHANGED journal \/ Write(d))
    BY <1>14, <2>1 DEF CompleteStage, At
  <2>3. d.ev = "stage_completed" /\ d.stage = run.stage /\ Fits(audit, d) /\ IsNext(run.stage)
    BY <2>1, <2>2, CompletionFits
  <2>4. ~audit.done
    BY <2>2, ActiveIs DEF Active, Attempting
  <2>5. Accepts(d)
    BY <2>3, <2>4 DEF Accepts
  <2> QED BY <1>1, <1>3, <2>2, <2>3, <2>5
<1>15. CASE Complete
  <2>1. PICK x, y, d : /\ d = [Event("campaign_completed", NoStage, 0) EXCEPT !.pre = x, !.dropped = y]
                       /\ Write(d)
    BY <1>15, Zenon DEF Complete
  <2>2. d.ev = "campaign_completed"
    BY <2>1 DEF Event
  <2>3. run.pc = "stage" /\ Remaining = << >> /\ UNCHANGED << quarantine, receipts, deleted >>
    BY <1>15 DEF Complete, At
  <2>4. run.completed = audit.completed /\ Sound /\ ~audit.done
    BY <2>3, ActiveIs DEF Active
  <2>5. PICK n \in 0 .. Len(StageOrder) : DOMAIN run.completed = Plan(n)
    BY <2>4 DEF Sound
  <2>6. n = Len(StageOrder)
    BY <2>3, <2>5, FirstRemaining
  <2>7. Finishes(d)
    BY <2>2, <2>4, <2>5, <2>6 DEF Finishes
  <2> QED BY <1>3, <2>1, <2>2, <2>3, <2>7
<1>16. CASE RecordGateDecision
  <2>1. PICK act, pre, post :
            Write([StageEvent("gate_decision") EXCEPT !.pre = pre, !.action = act, !.post = post])
    BY <1>16, Zenon DEF RecordGateDecision
  <2>2. PICK e, d : /\ e = StageEvent("gate_decision")
                    /\ d = [e EXCEPT !.pre = pre, !.action = act, !.post = post]
    OBVIOUS
  <2>3. DOMAIN e = EventFields /\ e.ev = "gate_decision"
    BY <2>2, StageEventIs
  <2>4. d.ev = "gate_decision"
    BY <2>2, <2>3 DEF EventFields
  <2>5. Write(d) /\ UNCHANGED << quarantine, receipts, deleted >>
    BY <1>16, <2>1, <2>2 DEF RecordGateDecision
  <2> QED BY <1>3, <2>4, <2>5 DEF Quiet
<1>17. CASE Supersede
  <2>1. run.pc = "supersede" /\ UNCHANGED << quarantine, receipts, deleted >>
    BY <1>17 DEF Supersede, At
  <2>2. ~audit.done
    BY <2>1, ActiveIs DEF Active
  <2>3. CASE journal' # journal
    <3>1. PICK d, a, p, q :
              /\ d = CHOOSE e \in Range(journal) : /\ e.ev = "gate_decision" /\ e.stage = run.stage
                                                    /\ e.gen = run.gen
              /\ Write([d EXCEPT !.ev = "generation_superseded", !.attempt = a, !.pre = p, !.dropped = q])
      BY <1>17, <2>3, Zenon DEF Supersede
    <3>2. \E e \in Range(journal) : e.ev = "gate_decision" /\ e.stage = run.stage /\ e.gen = run.gen
      BY <2>1 DEF IInv, Placed, DecisionEvent
    <3>3. d \in Range(journal)
      BY <3>1, <3>2
    <3>4. PICK e : e = [d EXCEPT !.ev = "generation_superseded", !.attempt = a, !.pre = p, !.dropped = q]
      OBVIOUS
    <3>5. e.ev = "generation_superseded" /\ Write(e)
      BY <3>1, <3>3, <3>4 DEF IInv, Written, EventFields
    <3> QED BY <1>3, <2>1, <2>2, <3>5 DEF Quiet
  <2> QED BY <1>1, <2>1, <2>3
<1>18. Shape
  BY <1>4, <1>5, <1>6, <1>7, <1>8, <1>9, <1>10, <1>11, <1>12, <1>13, <1>14, <1>15, <1>16, <1>17
     DEF Work, Recovery, Retirement, Execution, Gate
<1> QED BY <1>18

-----------------------------------------------------------------------------
(* Attempts *)

\* Events of a name can be counted.
LEMMA EventsFinite ==
    ASSUME IInv, NEW name
    PROVE  IsFiniteSet(Events(name)) /\ Cardinality(Events(name)) \in Nat
<1>1. Len(journal) \in Nat /\ DOMAIN journal = 1 .. Len(journal)
  BY DEF IInv, Written, Listed
<1>2. IsFiniteSet(1 .. Len(journal)) /\ Events(name) \subseteq 1 .. Len(journal)
  BY <1>1, FS_Interval DEF Events
<1> QED BY <1>2, FS_Subset, FS_CardinalityType

\* An appended event is counted under its name.
LEMMA EventsMove ==
    ASSUME NEW d, Moved(d), NEW name
    PROVE  Events(name)' = IF d.ev = name THEN Events(name) \cup {Len(journal) + 1} ELSE Events(name)
<1>1. \A i : i \in Events(name)' <=> i \in Events(name) \/ (i = Len(journal) + 1 /\ d.ev = name)
  BY JournalGrows DEF Events
<1>2. PICK S, T, k : S = Events(name) /\ T = Events(name)' /\ k = Len(journal) + 1
  OBVIOUS
<1>3. T = IF d.ev = name THEN S \cup {k} ELSE S
  BY <1>1, <1>2
<1> QED BY <1>2, <1>3

\* The step conditions of FinishedAttemptKept and AttemptsWrittenOnce.
ReceiptsFirst ==
    \A s \in Stages : StartsOf(s)' # StartsOf(s) =>
          \A n \in StartsOf(s) : << s, n >> \in DOMAIN receipts => Terminated(s, n)
WrittenOnce ==
    /\ \A k \in DOMAIN receipts : k \in DOMAIN receipts' /\ receipts'[k] = receipts[k]
    /\ Cardinality(Events("stage_started"))' - Cardinality(Events("stage_started"))
             = Cardinality(UNION {{s} \X (StartsOf(s)' \ StartsOf(s)) : s \in Stages})

\* A step that starts nothing satisfies both.
LEMMA NothingStarted ==
    ASSUME IInv, FilesGrow, Events("stage_started")' = Events("stage_started"),
           \A s : StartsOf(s)' = StartsOf(s)
    PROVE  ReceiptsFirst /\ WrittenOnce
<1>1. UNION {{s} \X (StartsOf(s)' \ StartsOf(s)) : s \in Stages} = {}
  OBVIOUS
<1>2. PICK c \in Nat : c = Cardinality(Events("stage_started")) /\ c = Cardinality(Events("stage_started"))'
  BY EventsFinite
<1>3. Cardinality({}) = 0 /\ c - c = 0
  BY FS_EmptySet
<1> QED BY <1>1, <1>2, <1>3 DEF ReceiptsFirst, WrittenOnce, FilesGrow

\* So does every step.
LEMMA AttemptsStep ==
    ASSUME IInv, [Next]_vars
    PROVE  ReceiptsFirst /\ WrittenOnce
<1>1. CASE UNCHANGED journal /\ FilesGrow
  <2>1. Events("stage_started")' = Events("stage_started") /\ \A s : StartsOf(s)' = StartsOf(s)
    BY <1>1 DEF Events, StartsOf
  <2> QED BY <1>1, <2>1, NothingStarted
<1>2. ASSUME NEW d, Moved(d), d.ev # "stage_started" PROVE ReceiptsFirst /\ WrittenOnce
  <2>1. Events("stage_started")' = Events("stage_started")
    BY <1>2, EventsMove
  <2>2. \A s : StartsOf(s)' = StartsOf(s)
    BY <1>2, StartsStay
  <2> QED BY <1>2, <2>1, <2>2, NothingStarted DEF Moved, FilesGrow
<1>3. ASSUME NEW d, Moved(d), Begins(d) PROVE ReceiptsFirst /\ WrittenOnce
  <2>1. PICK t, m : t = d.stage /\ m = d.attempt
    OBVIOUS
  <2>2. t \in Stages /\ ~Recoverable(t) /\ m = NextAttempt(t) /\ d.ev = "stage_started"
    BY <1>3, <2>1 DEF Begins
  <2>3. PICK N \in Nat : StartsOf(t) = 1 .. N
    BY <2>2 DEF IInv, Numbered
  <2>4. m = N + 1 /\ m \notin StartsOf(t)
    BY <2>2, <2>3, NextAttemptIs
  <2>5. \A s, k : k \in StartsOf(s)' <=> k \in StartsOf(s) \/ (s = t /\ k = m)
    BY <1>3, <2>1, <2>2, JournalGrows DEF Starting
  <2>6. ReceiptsFirst
    <3>1. ASSUME NEW s \in Stages, s # t PROVE StartsOf(s)' = StartsOf(s)
      <4>1. PICK S, T : S = StartsOf(s) /\ T = StartsOf(s)'
        OBVIOUS
      <4>2. S = T
        BY <2>5, <3>1, <4>1
      <4> QED BY <4>1, <4>2
    <3>2. \A n : << t, n >> \in DOMAIN receipts => Terminated(t, n)
      BY <2>2, ReceiptsJournaled
    <3> QED BY <3>1, <3>2 DEF ReceiptsFirst
  <2>7. UNION {{s} \X (StartsOf(s)' \ StartsOf(s)) : s \in Stages} = {<< t, m >>}
    <3> DEFINE U == UNION {{s} \X (StartsOf(s)' \ StartsOf(s)) : s \in Stages}
    <3>1. ASSUME NEW x \in U PROVE x = << t, m >>
      <4>1. PICK s \in Stages : x \in {s} \X (StartsOf(s)' \ StartsOf(s))
        OBVIOUS
      <4>2. x[2] \in StartsOf(s)' /\ x[2] \notin StartsOf(s) /\ x = << s, x[2] >>
        BY <4>1
      <4> QED BY <2>5, <4>2
    <3>2. << t, m >> \in U
      <4>1. m \in StartsOf(t)' \ StartsOf(t)
        BY <2>4, <2>5
      <4>2. << t, m >> \in {t} \X (StartsOf(t)' \ StartsOf(t))
        BY <4>1
      <4> QED BY <2>2, <4>2
    <3> HIDE DEF U
    <3>3. U = {<< t, m >>}
      BY <3>1, <3>2
    <3> QED BY <3>3 DEF U
  <2>8. Cardinality(Events("stage_started"))' = Cardinality(Events("stage_started")) + 1
    <3>1. PICK S, k : S = Events("stage_started") /\ k = Len(journal) + 1
      OBVIOUS
    <3>2. IsFiniteSet(S)
      BY <3>1, EventsFinite
    <3>3. k \notin S
      <4>1. \A i \in S : i \in DOMAIN journal
        BY <3>1 DEF Events
      <4>2. \A i \in DOMAIN journal : i < k
        BY <1>3, <3>1, JournalGrows
      <4>3. k \in Nat
        BY <3>1 DEF IInv, Written, Listed
      <4> QED BY <4>1, <4>2, <4>3
    <3>4. Events("stage_started")' = S \cup {k}
      BY <1>3, <2>2, <3>1, EventsMove
    <3>5. Cardinality(S \cup {k}) = Cardinality(S) + 1
      BY <3>2, <3>3, FS_AddElement
    <3> QED BY <3>1, <3>4, <3>5
  <2>9. WrittenOnce
    <3>1. PICK c \in Nat : c = Cardinality(Events("stage_started"))
      BY EventsFinite
    <3>2. c + 1 - c = 1
      OBVIOUS
    <3>3. Cardinality({<< t, m >>}) = 1
      BY FS_Singleton
    <3>4. Cardinality(Events("stage_started"))' - Cardinality(Events("stage_started")) = 1
      BY <2>8, <3>1, <3>2
    <3>5. UNCHANGED receipts
      BY <1>3 DEF Moved
    <3> QED BY <2>7, <3>3, <3>4, <3>5 DEF WrittenOnce
  <2> QED BY <2>6, <2>9
<1>4. CASE UNCHANGED vars
  BY <1>1, <1>4 DEF vars, FilesGrow
<1>5. CASE Next
  <2>1. AuditNext /\ (Work \/ Crash)
    BY <1>5 DEF Next, AuditNext
  <2> QED BY <1>1, <1>2, <1>3, <2>1, StepShapes DEF Quiet, Accepts, Finishes
<1> QED BY <1>4, <1>5

\* What an attempt has left is neither run again nor written over, and every
\* start has a number of its own (_recover_unjournaled_result, _next_attempt).
THEOREM AttemptsAreKept == Spec => AttemptsKept
<1>1. IInv /\ [Next]_vars => /\ [\A s \in Stages : StartsOf(s)' # StartsOf(s) =>
                                    \A n \in StartsOf(s) : << s, n >> \in DOMAIN receipts => Terminated(s, n)]_vars
                             /\ [/\ \A k \in DOMAIN receipts : k \in DOMAIN receipts' /\ receipts'[k] = receipts[k]
                                 /\ Cardinality(Events("stage_started"))' - Cardinality(Events("stage_started"))
                                      = Cardinality(UNION {{s} \X (StartsOf(s)' \ StartsOf(s)) : s \in Stages})]_vars
  BY AttemptsStep DEF ReceiptsFirst, WrittenOnce
<1> QED BY <1>1, Invariant, PTL DEF Spec, AttemptsKept, FinishedAttemptKept, AttemptsWrittenOnce

-----------------------------------------------------------------------------
(* CampaignProgress *)

\* The accepted stages, when the first n of the plan are.
Prefix(n) == [i \in 1 .. n |-> StageOrder[i]]

\* In order, the accepted stages are the beginning of the plan.
LEMMA PrefixIs ==
    ASSUME NEW n \in 0 .. Len(StageOrder)
    PROVE  /\ InOrder(Plan(n)) = Prefix(n) /\ Prefix(n) \in Seq(Stages) /\ Len(Prefix(n)) = n
<1>1. 1 \in Nat \ {0} /\ n \in Nat /\ n <= Len(StageOrder) /\ 1 <= n + 1 /\ n + 1 - 1 = n
  BY PlanOrdered
<1>2. InOrder(Plan(n)) = [i \in 1 .. n |-> StageOrder[1 + i - 1]]
  BY <1>1, SliceInOrder DEF Plan
<1>3. \A i \in 1 .. n : 1 + i - 1 = i /\ StageOrder[i] \in Stages
  BY PlanOrdered
<1>4. InOrder(Plan(n)) = Prefix(n)
  BY <1>2, <1>3 DEF Prefix
<1>5. Prefix(n) \in Seq(Stages) /\ Len(Prefix(n)) = n
  BY <1>1, <1>3 DEF Prefix
<1> QED BY <1>4, <1>5

\* Accepting the next stage appends it.
LEMMA PrefixAppend ==
    ASSUME NEW n \in 0 .. Len(StageOrder), n + 1 \in 0 .. Len(StageOrder)
    PROVE  Prefix(n + 1) = Append(Prefix(n), StageOrder[n + 1])
<1>1. PICK m \in Nat : m = Len(StageOrder)
  BY PlanOrdered
<1>2. n \in Nat /\ n + 1 \in 1 .. m
  BY <1>1
<1>3. Prefix(n) \in Seq(Stages) /\ Len(Prefix(n)) = n /\ StageOrder[n + 1] \in Stages
  BY <1>1, <1>2, PrefixIs, PlanOrdered
<1>4. PICK p, x : p = Prefix(n) /\ x = StageOrder[n + 1]
  OBVIOUS
<1>5. p \in Seq(Stages) /\ Len(p) = n /\ x \in Stages
  BY <1>3, <1>4
<1>6. PICK q : q = Append(p, x)
  OBVIOUS
<1>7. q \in Seq(Stages) /\ Len(q) = n + 1 /\ q[n + 1] = x /\ \A i \in 1 .. n : q[i] = p[i]
  BY <1>5, <1>6
<1>8. q = [i \in 1 .. n + 1 |-> q[i]]
  BY <1>7
<1>9. \A i \in 1 .. n + 1 : q[i] = StageOrder[i]
  <2>1. \A i \in 1 .. n : p[i] = StageOrder[i]
    BY <1>4 DEF Prefix
  <2>2. \A i \in 1 .. n + 1 : i \in 1 .. n \/ i = n + 1
    BY <1>2
  <2> QED BY <1>4, <1>7, <2>1, <2>2
<1> QED BY <1>4, <1>6, <1>8, <1>9 DEF Prefix

\* Dropping the stages from one on cuts the prefix there.
LEMMA PrefixCut ==
    ASSUME NEW n \in 0 .. Len(StageOrder), NEW k \in 0 .. n
    PROVE  SubSeq(Prefix(n), 1, k) = Prefix(k)
<1>1. n \in Nat /\ k \in Nat /\ k <= n
  BY PlanOrdered
<1>2. Prefix(n) \in Seq(Stages) /\ Len(Prefix(n)) = n
  BY PrefixIs
<1>3. SubSeq(Prefix(n), 1, k) = [i \in 1 .. k |-> Prefix(n)[1 + i - 1]]
  <2>1. PICK p : p = Prefix(n) /\ p \in Seq(Stages) /\ Len(p) = n
    BY <1>2
  <2>2. SubSeq(p, 1, k) = [i \in 1 .. k |-> p[1 + i - 1]]
    <3>1. k - 1 + 1 = k
      BY <1>1
    <3> QED BY <1>1, <2>1, <3>1
  <2> QED BY <2>1, <2>2
<1>4. \A i \in 1 .. k : 1 + i - 1 = i /\ i \in 1 .. n
  BY <1>1
<1> QED BY <1>3, <1>4 DEF Prefix

\* What CampaignProgress calls accepted.
LEMMA AcceptedIs ==
    ASSUME NEW done, NEW n \in 0 .. Len(StageOrder), DOMAIN done = Plan(n)
    PROVE  CompletedPrefix(done) = Prefix(n)
BY PrefixIs DEF CompletedPrefix

\* What CampaignProgress allows of a step.
ProgressStep == [Progress!Next]_(Progress!progress)

\* A step that moves none of its variables stutters.
LEMMA ProgressStays ==
    ASSUME audit'.completed = audit.completed, audit'.gen = audit.gen, audit'.done = audit.done
    PROVE  ProgressStep
<1>1. CompletedPrefix(audit.completed)' = CompletedPrefix(audit.completed)
  BY DEF CompletedPrefix
<1> QED BY <1>1 DEF ProgressStep, Progress!progress

\* The first state maps to the first state.
LEMMA ProgressInit == Init => Progress!Init
<1> SUFFICES ASSUME Init PROVE Progress!Init
  OBVIOUS
<1>1. DOMAIN audit.completed = {} /\ audit.gen = 0 /\ audit.done = FALSE
  BY InitAudit
<1>2. Plan(0) = {} /\ 0 \in 0 .. Len(StageOrder)
  BY PlanOrdered DEF Plan, Slice
<1>3. CompletedPrefix(audit.completed) = Prefix(0)
  BY <1>1, <1>2, AcceptedIs
<1>4. Prefix(0) = << >>
  BY DEF Prefix
<1> QED BY <1>1, <1>3, <1>4 DEF Progress!Init

\* Completing a stage accepts the next stage of the plan.
LEMMA ProgressAccepts ==
    ASSUME IInv, NEW d, Moved(d), Accepts(d)
    PROVE  ProgressStep
<1>1. PICK s : s = d.stage
  OBVIOUS
<1>2. /\ s \in Stages /\ DOMAIN audit.completed = Plan(Position(s) - 1) /\ ~audit.done
  BY <1>1 DEF Accepts, IsNext
<1>3. /\ audit'.completed = With(audit.completed, s, d.attempt)
      /\ audit'.gen = audit.gen /\ audit'.done = audit.done
  BY <1>1, MovedCompleted DEF Accepts, Completed
<1>4. DOMAIN audit'.completed = DOMAIN audit.completed \cup {s}
  BY <1>3 DEF With
<1>5. PICK m \in Nat, p \in Nat : /\ m = Len(StageOrder) /\ p = Position(s) /\ StageOrder[p] = s
                                  /\ p \in 1 .. m
  <2>1. Len(StageOrder) \in Nat /\ Position(s) \in 1 .. Len(StageOrder) /\ StageOrder[Position(s)] = s
    BY <1>2, PlanOrdered
  <2>2. Position(s) \in Nat
    BY <2>1
  <2> QED BY <2>1, <2>2
<1>6. PICK n \in 0 .. m : n = p - 1 /\ n + 1 = p /\ n + 1 \in 0 .. m /\ n < m
  BY <1>5
<1>7. DOMAIN audit.completed = Plan(n) /\ DOMAIN audit'.completed = Plan(n + 1)
  BY <1>2, <1>4, <1>5, <1>6, PlanGrows
<1>8. CompletedPrefix(audit.completed) = Prefix(n)
  BY <1>5, <1>6, <1>7, AcceptedIs
<1>9. CompletedPrefix(audit.completed)' = Prefix(n + 1)
  <2>1. PICK f : f = audit'.completed
    OBVIOUS
  <2>2. CompletedPrefix(f) = Prefix(n + 1)
    BY <1>5, <1>6, <1>7, <2>1, AcceptedIs
  <2> QED BY <2>1, <2>2 DEF CompletedPrefix
<1>10. Prefix(n + 1) = Append(Prefix(n), StageOrder[n + 1]) /\ Len(Prefix(n)) = n
  BY <1>5, <1>6, PrefixAppend, PrefixIs
<1>11. Progress!AcceptStage
  BY <1>2, <1>3, <1>5, <1>6, <1>8, <1>9, <1>10 DEF Progress!AcceptStage
<1> QED BY <1>11 DEF ProgressStep, Progress!Next


\* Superseding a generation, where it is taken, replans from the allocation on,
\* at the word of a gate.
LEMMA ProgressReplans ==
    ASSUME IInv, NEW d, Moved(d), d.ev = "generation_superseded", ~audit.done
    PROVE  ProgressStep
<1>1. Superseded(audit', audit, d) /\ Sound
  BY MovedSuperseded DEF IInv
<1>2. CASE Same(audit', audit)
  BY <1>2, ProgressStays DEF Same
<1>3. CASE /\ audit.sup \in DOMAIN audit.completed
           /\ audit'.completed = [s \in DOMAIN audit.completed \ FromAllocation |-> audit.completed[s]]
           /\ audit'.gen = audit.gen + 1 /\ audit.gen + 1 < MaxGenerations /\ audit'.done = FALSE
  <2>1. PICK s : s = audit.sup
    OBVIOUS
  <2>2. s \in Stages
    <3>1. PICK n \in 0 .. Len(StageOrder) : DOMAIN audit.completed = Plan(n)
      BY <1>1 DEF Sound
    <3> QED BY <1>3, <2>1, <3>1, PlanHas
  <2>3. s \in Gates /\ DOMAIN audit.completed = Plan(Position(s))
    BY <1>1, <2>1, <2>2, CampaignAssumption DEF Sound, IsLast
  <2>4. PICK m \in Nat, n \in Nat, p \in Nat :
            /\ m = Len(StageOrder) /\ n = Position(s) /\ StageOrder[n] = s /\ n \in 1 .. m
            /\ p = Position(Allocation) /\ p \in 1 .. m /\ n > p
    <3>1. Allocation \in Stages
      BY CampaignAssumption DEF Allocation
    <3>2. Position(s) > Position(Allocation)
      BY <2>3, CampaignAssumption
    <3>3. /\ Len(StageOrder) \in Nat /\ Position(s) \in 1 .. Len(StageOrder) /\ StageOrder[Position(s)] = s
          /\ Position(Allocation) \in 1 .. Len(StageOrder)
      BY <2>2, <3>1, PlanOrdered
    <3>4. Position(s) \in Nat /\ Position(Allocation) \in Nat
      BY <3>3
    <3> QED BY <3>2, <3>3, <3>4
  <2>5. /\ n \in 0 .. m /\ p - 1 \in 0 .. n /\ p - 1 \in 0 .. m /\ n \in 1 .. n
        /\ \A k \in 1 .. m : k \in 1 .. n /\ ~(k >= p) <=> k \in 1 .. p - 1
    BY <2>4
  <2>6. DOMAIN audit'.completed = Plan(p - 1)
    <3>1. DOMAIN audit'.completed = Plan(n) \ FromAllocation
      BY <1>3, <2>3, <2>4
    <3>2. Plan(n) \subseteq Stages /\ \A x \in Stages : x \in Plan(n) <=> Position(x) \in 1 .. n
      BY <2>4, <2>5, PlanHas
    <3>3. Plan(p - 1) \subseteq Stages /\ \A x \in Stages : x \in Plan(p - 1) <=> Position(x) \in 1 .. p - 1
      BY <2>4, <2>5, PlanHas
    <3>4. \A x \in Stages : Position(x) \in 1 .. m /\ (x \in FromAllocation <=> Position(x) >= p)
      BY <2>4, PlanOrdered DEF FromAllocation
    <3>5. \A x \in Stages : x \in Plan(n) \ FromAllocation <=> x \in Plan(p - 1)
      BY <2>5, <3>2, <3>3, <3>4
    <3> QED BY <3>1, <3>2, <3>3, <3>5
  <2>7. CompletedPrefix(audit.completed) = Prefix(n)
    BY <2>3, <2>4, <2>5, AcceptedIs
  <2>8. CompletedPrefix(audit.completed)' = Prefix(p - 1)
    <3>1. PICK f : f = audit'.completed
      OBVIOUS
    <3>2. CompletedPrefix(f) = Prefix(p - 1)
      BY <2>4, <2>5, <2>6, <3>1, AcceptedIs
    <3> QED BY <3>1, <3>2 DEF CompletedPrefix
  <2>9. Prefix(p - 1) = SubSeq(Prefix(n), 1, p - 1)
    BY <2>4, <2>5, PrefixCut
  <2>10. Len(Prefix(n)) = n /\ Prefix(n) # << >> /\ Prefix(n)[Len(Prefix(n))] = s
    <3>1. Len(Prefix(n)) = n
      BY <2>4, <2>5, PrefixIs
    <3>2. Prefix(n)[n] = s /\ n \in DOMAIN Prefix(n)
      BY <2>4, <2>5 DEF Prefix
    <3> QED BY <3>1, <3>2
  <2>11. Progress!IndexOfStage(Allocation) = p
    BY <2>4 DEF Progress!IndexOfStage, Position
  <2>12. audit.done = FALSE
    OBVIOUS
  <2>13. Progress!Replan
    <3>1. PICK acc, nxt : acc = Prefix(n) /\ nxt = Prefix(p - 1)
      OBVIOUS
    <3>2. /\ acc # << >> /\ acc[Len(acc)] \in Gates
          /\ nxt = SubSeq(acc, 1, Progress!IndexOfStage(Allocation) - 1)
      BY <2>3, <2>9, <2>10, <2>11, <3>1
    <3>3. CompletedPrefix(audit.completed) = acc /\ CompletedPrefix(audit.completed)' = nxt
      BY <2>7, <2>8, <3>1
    <3>4. audit'.done = audit.done
      BY <1>3, <2>12
    <3> QED BY <1>3, <3>2, <3>3, <3>4 DEF Progress!Replan
  <2> QED BY <2>13 DEF ProgressStep, Progress!Next
<1> QED BY <1>1, <1>2, <1>3 DEF Superseded

\* Completing the campaign finishes it.
LEMMA ProgressFinishes ==
    ASSUME IInv, NEW d, Moved(d), Finishes(d)
    PROVE  ProgressStep
<1>1. /\ audit'.completed = audit.completed /\ audit'.gen = audit.gen /\ audit'.done = TRUE
      /\ DOMAIN audit.completed = Plan(Len(StageOrder)) /\ ~audit.done
  BY MovedCompletion DEF Finishes
<1>2. CompletedPrefix(audit.completed) = Prefix(Len(StageOrder))
  <2>1. Len(StageOrder) \in 0 .. Len(StageOrder)
    BY PlanOrdered
  <2> QED BY <1>1, <2>1, AcceptedIs
<1>3. Prefix(Len(StageOrder)) = StageOrder
  <2>1. PICK m \in Nat : m = Len(StageOrder) /\ DOMAIN StageOrder = 1 .. m
    BY PlanOrdered
  <2>2. StageOrder = [i \in DOMAIN StageOrder |-> StageOrder[i]]
    BY CampaignAssumption
  <2> QED BY <2>1, <2>2 DEF Prefix
<1>4. CompletedPrefix(audit.completed)' = CompletedPrefix(audit.completed)
  BY <1>1 DEF CompletedPrefix
<1>5. Progress!Finish
  BY <1>1, <1>2, <1>3, <1>4 DEF Progress!Finish
<1> QED BY <1>5 DEF ProgressStep, Progress!Next

\* Every step maps to a step or a stutter.
LEMMA ProgressMoves == ASSUME IInv, [Next]_vars PROVE ProgressStep
<1>1. CASE UNCHANGED vars
  BY <1>1, ProgressStays DEF vars
<1>2. CASE Next
  <2>1. AuditNext /\ (Work \/ Crash)
    BY <1>2 DEF Next, AuditNext
  <2>2. CASE UNCHANGED journal /\ FilesGrow /\ Explained'
    BY <2>1, <2>2, AuditStays, ProgressStays
  <2>3. ASSUME NEW d, Moved(d), d.ev \in Quiet \/ Begins(d) \/ Accepts(d) \/ Finishes(d),
               d.ev = "generation_superseded" => ~audit.done
        PROVE  ProgressStep
    <3>1. CASE d.ev = "journal_tail_recovered"
      BY <2>3, <3>1, MovedRecovered, ProgressStays DEF Same
    <3>2. CASE d.ev \in {"resource_preflight", "artifacts_retirement_planned",
                         "artifacts_retirement_completed", "stage_started", "stage_failed"}
      BY <2>3, <3>2, MovedPlain, ProgressStays DEF Same
    <3>3. CASE d.ev = "gate_decision"
      BY <2>3, <3>3, MovedDecided, ProgressStays DEF Decided, Same
    <3>4. CASE d.ev = "generation_superseded"
      BY <2>3, <3>4, ProgressReplans
    <3>5. CASE Accepts(d)
      BY <2>3, <3>5, ProgressAccepts
    <3>6. CASE Finishes(d)
      BY <2>3, <3>6, ProgressFinishes
    <3> QED BY <2>3, <3>1, <3>2, <3>3, <3>4, <3>5, <3>6 DEF Quiet, Begins
  <2> QED BY <2>1, <2>2, <2>3, StepShapes
<1> QED BY <1>1, <1>2

\* Read through its journal, the campaign moves only as CampaignProgress
\* allows: one stage at a time in the order of the plan, and back only to the
\* allocation, from a gate (execute, _append_generation_superseded).
THEOREM CampaignImplementsProgress == Spec => RefinesProgress
<1>1. IInv /\ [Next]_vars => [Progress!Next]_(Progress!progress)
  BY ProgressMoves DEF ProgressStep
<1> QED BY <1>1, Invariant, ProgressInit, PTL DEF Spec, RefinesProgress, Progress!Spec
================================================================================
