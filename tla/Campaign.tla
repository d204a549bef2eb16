-------------------------------- MODULE Campaign --------------------------------
(***************************************************************************)
(* The campaign runner (campaign/runner.py): an append-only journal that is*)
(* the only record of what a campaign has done, a runner that executes the *)
(* stages of a sealed plan and may be killed at any point, and the replay  *)
(* that every later run starts from and that refuses a journal it does not *)
(* recognise.                                                              *)
(*                                                                         *)
(* Hashes are what they stand for: an artifact is << stage, attempt >> (its*)
(* receipt names the attempt), the installed state is the sequence of the  *)
(* artifacts it is chained from, and a request is bound by stage, attempt, *)
(* generation and state.  The plan, the inputs and the code do not drift.  *)
(***************************************************************************)
EXTENDS Naturals, Sequences, FiniteSets, FiniteSetsExt, Functions

CONSTANTS
    StageOrder,     \* the stage ids of the plan, in order
    Kind,           \* kind of a stage; stages that are treated alike are "plain"
    Dependencies,   \* the stages whose artifacts a stage is given
    FirstEncode,    \* the first causal_encode of the block of a kld_reanchor
    Policy,         \* reanchor_failure_policy
    Retention,      \* retention_mode = "capture-plus-ledger"
    MaxGenerations,
    NoStage,
    MaxCrashes,     \* bound: kills
    MaxFailures     \* bound: failures of an adapter, a preflight or a write

Stages == Range(StageOrder)
Gates == {s \in Stages : Kind[s] \in {"confirmation", "kld_reanchor"}}
Position(s) == CHOOSE i \in DOMAIN StageOrder : StageOrder[i] = s
Allocation == CHOOSE s \in Stages : Kind[s] = "allocation"
\* Fault: the allocation itself survives a new generation.
AllocationKept == {s \in Stages : Position(s) > Position(CHOOSE a \in Stages : Kind[a] = "allocation")}
FromAllocation == {s \in Stages : Position(s) >= Position(Allocation)}
\* The stages that make the transient files of a fit superfluous, and that fit.
Triggers == {s \in Stages : Kind[s] = "candidates"}
ProducerOf(s) == StageOrder[Position(s) - 1]

ASSUME CampaignAssumption ==
    /\ StageOrder \in Seq(Stages)
    /\ \A i, j \in DOMAIN StageOrder : StageOrder[i] = StageOrder[j] => i = j
    /\ Kind \in [Stages -> {"identity", "plain", "fit", "candidates", "allocation",
                            "confirmation", "causal_encode", "kld_reanchor"}]
    /\ \E s \in Stages : Kind[s] = "allocation"
    /\ \A s \in Gates : Position(s) > Position(Allocation)
    /\ \A s \in Stages : \A d \in Dependencies[s] : Position(d) < Position(s)
    /\ \A s \in Triggers : Position(s) > 1 /\ Kind[ProducerOf(s)] = "fit"
    /\ Policy \in {"continue", "rollback", "request_reallocation"}
    /\ Retention \in BOOLEAN /\ MaxCrashes \in Nat /\ MaxFailures \in Nat
    /\ MaxGenerations \in Nat \ {0}
    /\ NoStage \notin Stages

VARIABLES
    journal,        \* the complete lines of events.jsonl
    torn,           \* identity of the fragment after the last line, 0 for none
    quarantine,     \* the files of journal-recovery, by fragment
    receipts,       \* .runner-result.json of each attempt: its gate verdict
    deleted,        \* fit artifacts whose transient files are gone
    run,            \* the process that holds .campaign.lock, and its locals
    audit,          \* what _replay makes of the files, kept to evaluate it once
    crashes, errors

vars == << journal, torn, quarantine, receipts, deleted, run, audit, crashes, errors >>
files == << journal, torn, quarantine, receipts, deleted, run >>
faults == << crashes, errors >>

Event(ev, s, n) ==
    [ev |-> ev, stage |-> s, attempt |-> n, gen |-> 0, pre |-> << >>, post |-> << >>,
     action |-> "none", dropped |-> << >>]

Nothing == [x \in {} |-> 0]
With(f, k, v) == [x \in DOMAIN f \cup {k} |-> IF x = k THEN v ELSE f[x]]
Idle == [pc |-> "down", stage |-> NoStage, attempt |-> 0, completed |-> Nothing,
         state |-> << >>, gen |-> 0, loop |-> FALSE]

----------------------------------------------------------------------------
(* _replay                                                                 *)

\* The stages of S in the order of the plan.
InOrder(S) ==
    [i \in 1 .. Cardinality(S) |->
        StageOrder[CHOOSE k \in DOMAIN StageOrder :
                      StageOrder[k] \in S /\ Cardinality({j \in 1 .. k : StageOrder[j] \in S}) = i]]
CompletedPrefix(done) == InOrder(DOMAIN done)
Artifact(done, s) == << s, done[s] >>
\* _installed_prefix_from_completed: the chain of the identity and the encodes.
InstalledState(done) ==
    LET chained == InOrder({s \in DOMAIN done : Kind[s] \in {"identity", "causal_encode"}})
    IN  [i \in DOMAIN chained |-> Artifact(done, chained[i])]

ExpectedState(e, state) ==
    CASE Kind[e.stage] = "identity"      -> << << e.stage, e.attempt >> >>
      [] Kind[e.stage] = "causal_encode" -> Append(state, << e.stage, e.attempt >>)
      [] OTHER                           -> state

Blank == [ok |-> TRUE, completed |-> Nothing, preds |-> Nothing, state |-> << >>,
          gen |-> 0, started |-> {}, terminated |-> {}, decided |-> {},
          gate |-> NoStage, sup |-> NoStage, decision |-> Event("none", NoStage, 0),
          planned |-> {}, retired |-> {}, done |-> FALSE]
\* Fail if the condition does not hold, and go on.
Check(a, cond) == [a EXCEPT !.ok = @ /\ cond]

\* A completed gate is decided at once, a decision to go back executed at once;
\* only the recovery of the tail may come between.
Immediate(a, e) ==
    IF e.ev = "journal_tail_recovered" THEN a
    ELSE [Check(a, /\ a.gate # NoStage => e.ev = "gate_decision" /\ e.stage = a.gate
                   /\ a.sup # NoStage => e.ev = "generation_superseded")
            EXCEPT !.gate = IF e.ev = "gate_decision" /\ e.stage = @ THEN @ ELSE NoStage,
                   !.sup = IF e.ev = "generation_superseded" THEN @ ELSE NoStage]

\* Transient files may be missing only when their retirement was planned.
FilesMatch(s, n, plans) == << s, n >> \in deleted => << s, n >> \in plans

ReplayStarted(a, e) ==
    [Check(a, /\ e.pre = a.state
              /\ a.state = InstalledState(a.completed)
              /\ Dependencies[e.stage] \subseteq DOMAIN a.completed
              /\ << e.stage, e.attempt, e.pre >> \notin a.started)
        EXCEPT !.started = @ \cup {<< e.stage, e.attempt, e.pre >>}]

ReplayTerminated(a, e, plans) ==
    LET key == << e.stage, e.attempt >>
        b == [Check(a, << e.stage, e.attempt, e.pre >> \in a.started /\ key \notin a.terminated)
                EXCEPT !.terminated = @ \cup {key}]
    IN  IF e.ev = "stage_failed" THEN b
        ELSE IF \/ e.stage \in DOMAIN a.completed
                \/ key \notin DOMAIN receipts
                \/ ~FilesMatch(e.stage, e.attempt, plans)
        THEN Check(b, FALSE)
        ELSE [Check(b, e.post = ExpectedState(e, a.state))
                EXCEPT !.state = IF e.post = ExpectedState(e, @) THEN e.post ELSE @,
                       !.completed = With(@, e.stage, e.attempt),
                       !.preds = With(@, e.stage, << e.pre >>),
                       !.gate = IF e.stage \in Gates THEN e.stage ELSE @]

\* The rollback state is looked up at the first encode of the block: a gate
\* without a block finds none.
ExpectedRollback(a, s) ==
    IF Kind[s] = "kld_reanchor" /\ FirstEncode[s] \in DOMAIN a.preds
    THEN a.preds[FirstEncode[s]] ELSE << >>
ReplayDecision(a, e) ==
    LET expected == IF receipts[<< e.stage, e.attempt >>] THEN "continue" ELSE Policy
    IN  IF << e.stage, e.gen >> \in a.decided THEN Check(a, FALSE)
        ELSE IF e.stage \notin Gates \cap DOMAIN a.completed
        THEN [Check(a, FALSE) EXCEPT !.decided = @ \cup {<< e.stage, e.gen >>}]
        ELSE [Check(a, /\ e.action = expected
                       /\ e.attempt = a.completed[e.stage]
                       /\ << e.pre >> = a.preds[e.stage]
                       /\ e.post = IF e.action = "continue" THEN << >>
                                   ELSE ExpectedRollback(a, e.stage))
                EXCEPT !.decided = @ \cup {<< e.stage, e.gen >>},
                       !.decision = e,
                       !.gate = NoStage,
                       !.sup = IF e.action = "continue" THEN @ ELSE e.stage]

ReplaySuperseded(a, e) ==
    LET gone == FromAllocation \cap DOMAIN a.completed
        kept == [s \in DOMAIN a.completed \ gone |-> a.completed[s]]
    IN  IF /\ e.gen = a.gen /\ e.attempt = a.gen + 1 /\ e.attempt < MaxGenerations
           /\ e.stage \in DOMAIN a.completed /\ a.sup = e.stage
           /\ a.decision.stage = e.stage /\ a.decision.gen = e.gen
           /\ e.action = a.decision.action /\ e.action # "continue"
           /\ e.post = a.decision.post
           /\ e.dropped = [i \in DOMAIN e.dropped |-> Artifact(a.completed, e.dropped[i][1])]
           /\ {e.dropped[i][1] : i \in DOMAIN e.dropped} = gone
        THEN [a EXCEPT !.completed = kept,
                       !.preds = [s \in DOMAIN @ \ gone |-> @[s]],
                       !.state = InstalledState(kept),
                       !.gen = @ + 1, !.done = FALSE, !.sup = NoStage]
        ELSE Check(a, FALSE)

\* stage and attempt name the producer, post the trigger and its artifact.
ReplayRetirement(a, e) ==
    LET trigger == e.post[1]
        key == << e.stage, e.attempt >>
    IN  IF ~Retention \/ ~({e.stage, trigger[1]} \subseteq DOMAIN a.completed)
        THEN Check(a, FALSE)
        ELSE IF e.ev = "artifacts_retirement_planned"
        THEN [Check(a, /\ e.attempt = a.completed[e.stage]
                       /\ trigger[2] = a.completed[trigger[1]])
                EXCEPT !.planned = @ \cup {key}]
        ELSE [Check(a, /\ e.attempt = a.completed[e.stage]
                       /\ trigger[2] = a.completed[trigger[1]]
                       /\ key \in a.planned /\ key \notin a.retired /\ key \in deleted)
                EXCEPT !.retired = @ \cup {key}]

ReplayCompletion(a, e) ==
    [Check(a, /\ ~a.done
              /\ DOMAIN a.completed = Stages
              /\ e.pre = a.state
              /\ e.dropped = [i \in DOMAIN StageOrder |-> Artifact(a.completed, StageOrder[i])])
        EXCEPT !.done = TRUE]

\* The keys of the retirements that were planned, anywhere in the journal.
Plans(events) ==
    {<< e.stage, e.attempt >> : e \in {e \in Range(events) : e.ev = "artifacts_retirement_planned"}}

\* One event: what the verdict a becomes with it.
ReplayEvent(b, e, plans) ==
    LET a == Immediate(b, e)
    IN  CASE e.ev = "campaign_planned"       -> a
          [] e.ev = "campaign_completed"     -> ReplayCompletion(a, e)
          [] e.ev = "journal_tail_recovered" -> Check(a, quarantine[e.attempt] = "whole")
          [] e.ev = "resource_preflight"     -> a
          [] e.ev \in {"artifacts_retirement_planned",
                       "artifacts_retirement_completed"} -> ReplayRetirement(a, e)
          [] e.ev = "generation_superseded"  -> ReplaySuperseded(a, e)
          [] OTHER ->
                 IF e.gen # a.gen THEN Check(a, FALSE)
                 ELSE CASE e.ev = "stage_started" -> ReplayStarted(a, e)
                        [] e.ev = "gate_decision" -> ReplayDecision(a, e)
                        [] OTHER                  -> ReplayTerminated(a, e, plans)

\* What is completed must be a beginning of the plan.
CheckPrefix(a) ==
    Check(a, DOMAIN a.completed = {StageOrder[i] : i \in 1 .. Cardinality(DOMAIN a.completed)})

Replay(events) ==
    LET plans == Plans(events)
        \* Bound through singletons, so that a verdict is evaluated once.
        after[i \in 0 .. Len(events)] ==
            IF i = 0 THEN {Blank} ELSE {ReplayEvent(b, events[i], plans) : b \in after[i - 1]}
    IN  CHOOSE r \in {CheckPrefix(end) : end \in after[Len(events)]} : TRUE

Init ==
    /\ journal = << Event("campaign_planned", NoStage, 0) >>
    /\ torn = 0
    /\ quarantine = [f \in 1 .. MaxCrashes |-> "none"]
    /\ receipts = Nothing
    /\ deleted = {}
    /\ run = Idle
    /\ audit = Replay(journal)
    /\ crashes = 0 /\ errors = 0

----------------------------------------------------------------------------
(* execute: one process at a time; whoever does not get the lock raises    *)
(* before it has read anything.                                            *)

At(pc) == run.pc = pc
Goto(pc) == run' = [run EXCEPT !.pc = pc]
\* The process ends, by a return or by an exception: it leaves only the disk.
Leave == run' = Idle
Write(e) == journal' = Append(journal, e)

Events(name) == {i \in DOMAIN journal : journal[i].ev = name}
StartsOf(s) == {journal[i].attempt : i \in {i \in Events("stage_started") : journal[i].stage = s}}
NextAttempt(s) == IF StartsOf(s) = {} THEN 1 ELSE Max(StartsOf(s)) + 1
Terminated(s, n) ==
    \E e \in Range(journal) : /\ e.ev \in {"stage_completed", "stage_failed"}
                              /\ e.stage = s /\ e.attempt = n
\* Fault: the receipt of an unjournaled attempt is not looked for.
NeverRecoverable(s) == FALSE
\* _recover_unjournaled_result: the last attempt has a receipt and no end.
Recoverable(s) ==
    LET last == NextAttempt(s) - 1
    IN  last > 0 /\ ~Terminated(s, last) /\ << s, last >> \in DOMAIN receipts

StageEvent(ev) == [Event(ev, run.stage, run.attempt) EXCEPT !.gen = run.gen, !.pre = run.state]

\* execute without resume is for a campaign that has no history yet.
Start ==
    /\ At("down")
    /\ \/ Goto("recover")
       \/ torn = 0 /\ Len(journal) = 1 /\ Goto("audit")
    /\ UNCHANGED << journal, torn, quarantine, receipts, deleted, faults >>

\* The fragment is copied, then cut off, then the recovery is journaled.
\* A copy that is not the fragment is an identity collision.
RecoverTornTail ==
    /\ At("recover")
    /\ \/ torn = 0 /\ Goto("audit") /\ UNCHANGED << quarantine, errors >>
       \/ torn # 0 /\ quarantine[torn] = "partial" /\ Leave /\ UNCHANGED << quarantine, errors >>
       \/ torn # 0 /\ quarantine[torn] = "whole" /\ Goto("truncate") /\ UNCHANGED << quarantine, errors >>
       \/ torn # 0 /\ quarantine[torn] = "none" /\ Goto("truncate")
          /\ quarantine' = [quarantine EXCEPT ![torn] = "whole"] /\ UNCHANGED errors
       \/ torn # 0 /\ quarantine[torn] = "none" /\ Goto("truncate")     \* a short write
          /\ errors < MaxFailures /\ errors' = errors + 1
          /\ quarantine' = [quarantine EXCEPT ![torn] = "partial"]
    /\ UNCHANGED << journal, torn, receipts, deleted, crashes >>

Truncate ==
    /\ At("truncate")
    /\ torn' = 0
    /\ run' = [run EXCEPT !.pc = "recovered", !.attempt = torn]
    /\ UNCHANGED << journal, quarantine, receipts, deleted, faults >>

AppendRecovered ==
    /\ At("recovered")
    /\ Write(Event("journal_tail_recovered", NoStage, run.attempt))
    /\ Goto("audit")
    /\ UNCHANGED << torn, quarantine, receipts, deleted, faults >>

Loaded(a) == [run EXCEPT !.completed = a.completed, !.state = a.state, !.gen = a.gen]
\* Faults: a pending gate, a pending supersession is not finished first.
AuditNoGate ==
    /\ At("audit")
    /\ IF ~audit.ok \/ audit.done THEN Leave
       ELSE run' = [Loaded(audit) EXCEPT !.pc = "preflight"]
    /\ UNCHANGED << journal, torn, quarantine, receipts, deleted, faults >>
AuditNoSupersession ==
    /\ At("audit")
    /\ IF ~audit.ok \/ audit.done THEN Leave
       ELSE IF audit.gate # NoStage
       THEN run' = [Loaded(audit) EXCEPT !.pc = "decide", !.stage = audit.gate,
                                         !.attempt = audit.completed[audit.gate]]
       ELSE run' = [Loaded(audit) EXCEPT !.pc = "reconcile"]
    /\ UNCHANGED << journal, torn, quarantine, receipts, deleted, faults >>
Audit ==
    /\ At("audit")
    /\ LET a == audit
       IN  \/ (~a.ok \/ a.done) /\ Leave
           \/ /\ a.ok /\ ~a.done /\ a.gate # NoStage
              /\ run' = [Loaded(a) EXCEPT !.pc = "decide", !.stage = a.gate,
                                          !.attempt = a.completed[a.gate]]
           \/ /\ a.ok /\ ~a.done /\ a.sup # NoStage
              /\ run' = [Loaded(a) EXCEPT !.pc = "supersede", !.stage = a.sup]
           \/ /\ a.ok /\ ~a.done /\ a.gate = NoStage /\ a.sup = NoStage
              /\ run' = [Loaded(a) EXCEPT !.pc = IF Retention THEN "reconcile" ELSE "preflight"]
    /\ UNCHANGED << journal, torn, quarantine, receipts, deleted, faults >>

\* A retirement names the artifacts of the fit and of its trigger.
RetirementEvent(ev, s) ==
    [Event(ev, ProducerOf(s), run.completed[ProducerOf(s)])
        EXCEPT !.post = << << s, run.completed[s] >> >>]
SameRetirement(e, ev, d) ==
    e.ev = ev /\ e.stage = d.stage /\ e.attempt = d.attempt /\ e.post = d.post
Journaled(ev, d) == \E e \in Range(journal) : SameRetirement(e, ev, d)
Unplanned == {s \in Triggers \cap DOMAIN run.completed :
                 ~Journaled("artifacts_retirement_planned",
                            RetirementEvent("artifacts_retirement_planned", s))}
\* Plans without completion, by the trigger they name.
Unfinished == {e.post[1][1] : e \in {e \in Range(journal) :
                  /\ e.ev = "artifacts_retirement_planned"
                  /\ ~Journaled("artifacts_retirement_completed", e)}}

\* _reconcile_missing_retirement_plans, then _finalize_pending_retirements.
Reconcile ==
    /\ At("reconcile")
    /\ \/ \E s \in Unplanned : run' = [run EXCEPT !.pc = "plan", !.stage = s]
       \/ /\ Unplanned = {}
          /\ \E s \in Unfinished : run' = [run EXCEPT !.pc = "unlink", !.stage = s]
       \/ Unplanned = {} /\ Unfinished = {} /\ Goto("preflight")
    /\ UNCHANGED << journal, torn, quarantine, receipts, deleted, faults >>

\* The declared files must be there when their retirement is planned.
PlanRetirement ==
    /\ At("plan")
    /\ LET e == RetirementEvent("artifacts_retirement_planned", run.stage)
       IN  IF << e.stage, e.attempt >> \in deleted THEN Leave /\ UNCHANGED journal
           ELSE Write(e) /\ Goto("unlink")
    /\ UNCHANGED << torn, quarantine, receipts, deleted, faults >>

Unlink ==
    /\ At("unlink")
    /\ LET a == audit
           p == ProducerOf(run.stage)
       IN  IF p \notin DOMAIN a.completed THEN Leave /\ UNCHANGED deleted
           ELSE deleted' = deleted \cup {<< p, a.completed[p] >>} /\ Goto("retired")
    /\ UNCHANGED << journal, torn, quarantine, receipts, faults >>

AppendRetired ==
    /\ At("retired")
    /\ Write(RetirementEvent("artifacts_retirement_completed", run.stage))
    /\ Goto(IF run.loop THEN "stage" ELSE "reconcile")
    /\ UNCHANGED << torn, quarantine, receipts, deleted, faults >>

Preflight ==
    /\ At("preflight")
    /\ Write(Event("resource_preflight", NoStage, 0))
    /\ \/ run' = [run EXCEPT !.pc = "stage", !.loop = TRUE] /\ UNCHANGED errors
       \/ errors < MaxFailures /\ errors' = errors + 1 /\ Leave
    /\ UNCHANGED << torn, quarantine, receipts, deleted, crashes >>

Remaining == InOrder(Stages \ DOMAIN run.completed)

StartStage ==
    /\ At("stage") /\ Remaining # << >>
    /\ LET s == Head(Remaining)
           n == NextAttempt(s)
       IN  IF Recoverable(s)
           THEN run' = [run EXCEPT !.pc = "bind", !.stage = s, !.attempt = n - 1] /\ UNCHANGED journal
           ELSE /\ run' = [run EXCEPT !.pc = "adapter", !.stage = s, !.attempt = n]
                /\ Write([Event("stage_started", s, n) EXCEPT !.gen = run.gen, !.pre = run.state])
    /\ UNCHANGED << torn, quarantine, receipts, deleted, faults >>

\* adapter.run and the checks of its result; the receipt is written atomically.
RunAdapter ==
    /\ At("adapter")
    /\ \/ \E passed \in IF run.stage \in Gates THEN BOOLEAN ELSE {TRUE} :
             /\ receipts' = With(receipts, << run.stage, run.attempt >>, passed)
             /\ Goto("bind") /\ UNCHANGED errors
       \/ /\ errors < MaxFailures /\ errors' = errors + 1
          /\ Goto("failed") /\ UNCHANGED receipts
    /\ UNCHANGED << journal, torn, quarantine, deleted, crashes >>

AppendFailed ==
    /\ At("failed")
    /\ Write(StageEvent("stage_failed"))
    /\ Leave
    /\ UNCHANGED << torn, quarantine, receipts, deleted, faults >>

\* Fault: the files are removed first and the plan is journaled afterwards.
UnlinkFirst ==
    IF run.stage \in Triggers /\ Retention THEN "unlink"
    ELSE IF run.stage \in Gates THEN "decide" ELSE "stage"
AfterCompletion ==
    IF run.stage \in Triggers /\ Retention THEN "plan"
    ELSE IF run.stage \in Gates THEN "decide" ELSE "stage"
\* Fault: state_hash is not advanced with the completion.
StateNotAdvanced ==
    /\ At("bind")
    /\ LET e == StageEvent("stage_completed")
       IN  /\ Write([e EXCEPT !.post = ExpectedState(e, run.state)])
           /\ run' = [run EXCEPT !.pc = AfterCompletion,
                                 !.completed = With(run.completed, run.stage, run.attempt)]
    /\ UNCHANGED << torn, quarantine, receipts, deleted, faults >>
\* The artifact is read back and bound; a file that cannot be read fails the attempt.
CompleteStage ==
    /\ At("bind")
    /\ LET e == StageEvent("stage_completed")
           next == ExpectedState(e, run.state)
       IN  \/ /\ Write([e EXCEPT !.post = next])
              /\ run' = [run EXCEPT !.pc = AfterCompletion, !.state = next,
                                    !.completed = With(run.completed, run.stage, run.attempt)]
              /\ UNCHANGED errors
           \/ /\ errors < MaxFailures /\ errors' = errors + 1
              /\ Goto("failed") /\ UNCHANGED journal
    /\ UNCHANGED << torn, quarantine, receipts, deleted, crashes >>

GateAction(s) ==
    IF receipts[<< s, run.attempt >>] THEN "continue"
    ELSE IF Kind[s] = "confirmation" /\ Policy = "continue" THEN "request_reallocation"
    ELSE Policy
\* The start of the attempt that completed the first encode of the block.
BlockStartState(s) ==
    LET first(ev) == {e \in Range(journal) : e.ev = ev /\ e.stage = FirstEncode[s] /\ e.gen = run.gen}
        starts == {e \in first("stage_started") :
                      \E c \in first("stage_completed") : c.attempt = e.attempt}
    IN  (CHOOSE e \in starts : TRUE).pre
\* _record_gate_decision.  The request is that of the completion, not today's.
RecordGateDecision ==
    /\ At("decide")
    /\ LET s == run.stage
           action == GateAction(s)
           pre == (CHOOSE e \in Range(journal) : /\ e.ev = "stage_completed" /\ e.stage = s
                                                 /\ e.attempt = run.attempt).pre
           rollback == IF action = "continue" THEN << >>
                       ELSE IF Kind[s] = "confirmation" THEN << pre >>
                       ELSE << BlockStartState(s) >>
       IN  /\ Write([StageEvent("gate_decision") EXCEPT !.pre = pre, !.action = action,
                                                        !.post = rollback])
           /\ Goto(IF action # "continue" THEN "supersede"
                   ELSE IF run.loop THEN "stage" ELSE "audit")
    /\ UNCHANGED << torn, quarantine, receipts, deleted, faults >>

\* _append_generation_superseded; execute returns after it in every case.
Supersede ==
    /\ At("supersede")
    /\ LET d == CHOOSE e \in Range(journal) : /\ e.ev = "gate_decision" /\ e.stage = run.stage
                                              /\ e.gen = run.gen
           gone == InOrder(FromAllocation \cap DOMAIN run.completed)
       IN  IF run.gen + 1 >= MaxGenerations THEN UNCHANGED journal
           ELSE Write([d EXCEPT !.ev = "generation_superseded", !.attempt = run.gen + 1,
                                !.pre = d.post,
                                !.dropped = [i \in DOMAIN gone |-> Artifact(run.completed, gone[i])]])
    /\ Leave
    /\ UNCHANGED << torn, quarantine, receipts, deleted, faults >>

Complete ==
    /\ At("stage") /\ Remaining = << >>
    /\ Write([Event("campaign_completed", NoStage, 0) EXCEPT
                !.pre = run.state,
                !.dropped = [i \in DOMAIN StageOrder |-> Artifact(run.completed, StageOrder[i])]])
    /\ Leave
    /\ UNCHANGED << torn, quarantine, receipts, deleted, faults >>

Appending == {"recovered", "decide", "plan", "retired", "preflight", "stage", "failed", "bind"}
             \cup IF run.gen + 1 < MaxGenerations THEN {"supersede"} ELSE {}
\* The process is killed: in the middle of a write it leaves a part of it.
Crash ==
    /\ ~At("down") /\ crashes < MaxCrashes
    /\ crashes' = crashes + 1
    /\ Leave
    /\ \/ UNCHANGED << torn, quarantine >>
       \/ run.pc \in Appending /\ torn' = crashes + 1 /\ UNCHANGED quarantine
       \/ /\ At("recover") /\ torn # 0 /\ quarantine[torn] = "none"
          /\ \E q \in {"partial", "whole"} : quarantine' = [quarantine EXCEPT ![torn] = q]
          /\ UNCHANGED torn
    /\ UNCHANGED << journal, receipts, deleted, errors >>

Recovery == RecoverTornTail \/ Truncate \/ AppendRecovered \/ Audit
Retirement == Reconcile \/ PlanRetirement \/ Unlink \/ AppendRetired
Execution == StartStage \/ RunAdapter \/ AppendFailed \/ CompleteStage \/ Complete
Gate == RecordGateDecision \/ Supersede
Work == Start \/ Recovery \/ Retirement \/ Preflight \/ Execution \/ Gate
\* audit is what _replay makes of the files; it can only change with them.
Next ==
    /\ Work \/ Crash
    /\ audit' = IF UNCHANGED << journal, quarantine, receipts, deleted >>
                THEN audit ELSE Replay(journal)'

Spec == Init /\ [][Next]_vars
\* Somebody resumes a campaign that has not settled, and a runner runs on.
FairSpec == Spec /\ WF_files(Work)
----------------------------------------------------------------------------
(* Properties                                                              *)

Attempts == Stages \X (1 .. MaxCrashes + MaxFailures + MaxGenerations + 1)
\* Type invariant of the files and of the running process (execute).
TypeOK ==
    /\ torn \in 0 .. MaxCrashes
    /\ quarantine \in [1 .. MaxCrashes -> {"none", "partial", "whole"}]
    /\ DOMAIN receipts \subseteq Attempts /\ Range(receipts) \subseteq BOOLEAN
    /\ deleted \subseteq Attempts
    /\ run.stage \in Stages \cup {NoStage} /\ DOMAIN run.completed \subseteq Stages
    /\ run.gen \in 0 .. MaxGenerations - 1 /\ run.loop \in BOOLEAN
    /\ crashes \in 0 .. MaxCrashes /\ errors \in 0 .. MaxFailures

ConfirmationRefused ==
    \E e \in Range(journal) : /\ e.ev = "gate_decision" /\ e.action # "continue"
                              /\ Kind[e.stage] = "confirmation"
QuarantineBroken == \E f \in DOMAIN quarantine : quarantine[f] = "partial"

\* The journal a runner leaves, wherever it is killed, is one that the replay
\* accepts: no order of steps and crashes makes a campaign unrecoverable
\* (_replay against every append of execute), with two exceptions that the
\* definitions at the end of this module state.
AuditAccepts == ~ConfirmationRefused /\ ~QuarantineBroken => audit.ok

\* In the stage loop the locals of execute, computed forward, are what the
\* replay of the journal would compute: nothing a later resume sees differs
\* from what this process acted on (completed, state_hash, generation).
MemoryMatchesJournal ==
    run.loop /\ ~ConfirmationRefused =>
        LET a == audit
        IN  << run.completed, run.state, run.gen >> = << a.completed, a.state, a.gen >>
RunnerAgrees == TypeOK /\ MemoryMatchesJournal

\* Transient files of a fit are gone only when its retirement was journaled
\* and the stage that reads them has an accepted result, in whatever generation
\* (_plan_retirement_after, _finalize_retirement).
RetiredOnlyAfterTrigger ==
    \A k \in deleted : \E i, j \in DOMAIN journal :
        /\ i < j
        /\ journal[i].ev = "stage_completed"
        /\ journal[j].ev = "artifacts_retirement_planned"
        /\ << journal[j].stage, journal[j].attempt >> = k
        /\ journal[j].post = << << journal[i].stage, journal[i].attempt >> >>
        /\ ProducerOf(journal[i].stage) = k[1]

\* A finished attempt is never run again: a stage is started only when no earlier
\* attempt left a receipt without an end (_recover_unjournaled_result), however
\* often the runner was killed between the receipt and its journal line.
FinishedAttemptKept ==
    [][\A s \in Stages : StartsOf(s)' # StartsOf(s) =>
          \A n \in StartsOf(s) : << s, n >> \in DOMAIN receipts => Terminated(s, n)]_vars

\* An attempt directory is the output of one run of an adapter: its receipt is
\* never written over and a start never reuses its number (_next_attempt counts
\* over the generations).
AttemptsWrittenOnce ==
    [][/\ \A k \in DOMAIN receipts : k \in DOMAIN receipts' /\ receipts'[k] = receipts[k]
       /\ Cardinality(Events("stage_started"))' - Cardinality(Events("stage_started"))
             = Cardinality(UNION {{s} \X (StartsOf(s)' \ StartsOf(s)) : s \in Stages})]_vars

\* What an attempt has produced is neither produced again nor written over.
AttemptsKept == FinishedAttemptKept /\ AttemptsWrittenOnce

\* What the journal says to its readers: CampaignProgress.
Progress == INSTANCE CampaignProgress WITH
    GateStages <- Gates,
    generation <- audit.gen,
    accepted <- CompletedPrefix(audit.completed),
    finished <- audit.done

\* The journal moves only as CampaignProgress allows: one stage at a time in
\* plan order, a new generation only from a gate and only from the allocation on
\* (execute, _append_generation_superseded, and the replay that reads them).
RefinesProgress == Progress!Spec

\* A campaign that is resumed often enough settles: it completes, or it stops at
\* the generation cap, or for one of the two reasons above that no resume cures
\* (execute; every pending step it finds is one it can finish).
Settled ==
    \/ audit.done
    \/ audit.sup # NoStage /\ audit.gen + 1 = MaxGenerations
    \/ ConfirmationRefused \/ QuarantineBroken
Settles == <>[]Settled

\* A gate that fails sends the campaign back: the comment of _record_gate_decision
\* turns even a `continue` policy of a confirmation into `request_reallocation`.
\* The decision it journals is one the replay must accept.
RefusedConfirmationReplans == ConfirmationRefused => audit.ok

\* recover_torn_tail promises to "quarantine and remove only an unterminated
\* final fragment": a fragment that is still there is one it can still remove.
TornTailRemovable == torn # 0 => quarantine[torn] # "partial"
===============================================================================
