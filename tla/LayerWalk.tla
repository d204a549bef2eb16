------------------------------- MODULE LayerWalk -------------------------------
(***************************************************************************)
(* The sequential layer walk of the reproducibility encoder (walk.py,      *)
(* state.py): every layer captures the routing of its input state, searches*)
(* and encodes, and forwards the state to the next layer; a journal seals  *)
(* each stage.  One action per durable step, a kill between any two.       *)
(*                                                                         *)
(* Digests are what they stand for.  The state at the input of a layer is  *)
(* the sequence of the device pools that forwarded it: the shard that      *)
(* leads a forward carries the parity audit of its pool                    *)
(* (transformers_runtime.py), everything else is a function of the state.  *)
(***************************************************************************)
EXTENDS Naturals, Sequences, FiniteSets, Functions

CONSTANTS
    FirstLayer, LastLayer,  \* FIRST_MOE_LAYER, LAST_MOE_LAYER
    Shards,                 \* the prompts of the corpus plan: 1 .. n, in order
    Pools,                  \* the device pools a process may be started with
    Modes,                  \* the values of retire_predecessor_state explored
    MaxKills,               \* bound: processes killed (or stopped by a pilot)
    MaxReruns               \* bound: runs after one that ended

Layers == FirstLayer .. LastLayer
Lead == 1
Kinds == {"capture", "search", "encoded"}

ASSUME LayerWalkAssumption ==
    /\ FirstLayer \in Nat /\ LastLayer \in Nat /\ FirstLayer <= LastLayer
    /\ Shards \subseteq Nat /\ IsFiniteSet(Shards) /\ Lead \in Shards
    /\ \A s \in Shards : Lead <= s
    /\ Modes \subseteq BOOLEAN /\ Modes # {} /\ Pools # {}

VARIABLES
    retiring,   \* config.retire_predecessor_state, part of the sealed recipe
    journal,    \* JOURNAL.json: sealed stage -> the digest it recorded
    live,       \* states/input-layer-l: the digest in STATE.json
    archive,    \* states/seals/input-layer-l.json
    partial,    \* states/.input-layer-l.partial: shard files, PARTIAL, STATE
    leftovers,  \* states/.retired-input-layer-l
    progress,   \* CAPTURE-PARTIAL.json of a layer
    artifact,   \* CAPTURE.json, search, v2 manifest of a layer; WALK_COMPLETE
    run,        \* the process: where it is, its layer, its pool
    faults      \* kills and reruns so far

disk == << journal, live, archive, partial, leftovers, progress, artifact >>
vars == << retiring, disk, run, faults >>

With(f, k, v) == [x \in DOMAIN f \cup {k} |-> IF x = k THEN v ELSE f[x]]
Without(f, k) == Restrict(f, DOMAIN f \ {k})
Nothing == [x \in {} |-> 0]

Has(stage) == stage \in DOMAIN journal
At(place) == run.pc = place
Go(place) == run' = [run EXCEPT !.pc = place]
Refuse(why, l) == run' = [run EXCEPT !.pc = "refused", !.why = << why, l >>]

----------------------------------------------------------------------------
(* StateStore                                                              *)

\* load: the manifest is there and the archive holds the same seal.
Loads(l) == l \in DOMAIN live /\ l \in DOMAIN archive /\ archive[l] = live[l]
\* The state a layer is bound to: sha256_file of its live manifest.
StateOf(l) == live[l]
\* adopt_existing: the published state is bound to the layer's v2 manifest.
Bound(l) == l = FirstLayer \/ SubSeq(live[l], 1, Len(live[l]) - 1) = artifact[<< "encoded", l - 1 >>]

Fresh == [files |-> Nothing, noted |-> {}, opened |-> TRUE, manifest |-> {}]
\* begin_transition: shards noted in PARTIAL.json are kept, without the file
\* every shard is written again.
Reopened(l) ==
    IF l \notin DOMAIN partial THEN Fresh
    ELSE IF partial[l].opened THEN partial[l]
    ELSE [partial[l] EXCEPT !.noted = {}, !.opened = TRUE]
Intact(transition) == transition.noted \subseteq DOMAIN transition.files

\* The state a transition publishes: initialize builds it from the carrier,
\* any other is forwarded from the encoded layer by the pool of its lead shard.
Forwarded(l) ==
    IF l = FirstLayer THEN << >>
    ELSE Append(artifact[<< "encoded", l - 1 >>], partial[l].files[Lead])
Target == IF run.initializing THEN FirstLayer ELSE run.layer + 1

Init ==
    /\ retiring \in Modes
    /\ journal = Nothing /\ live = Nothing /\ archive = Nothing /\ partial = Nothing
    /\ leftovers = {} /\ progress = Nothing /\ artifact = Nothing
    /\ run = [pc |-> "down", layer |-> FirstLayer, pool |-> CHOOSE p \in Pools : TRUE,
              initializing |-> TRUE, why |-> << >>]
    /\ faults = [kills |-> 0, reruns |-> 0]

----------------------------------------------------------------------------
(* Start: the journal is read and every sealed artifact is audited         *)

Recorded(stage) ==
    IF stage[1] = "state"
    THEN stage[2] \in DOMAIN archive /\ archive[stage[2]] = journal[stage]
    ELSE stage[1] = "boundary" \/ (stage \in DOMAIN artifact /\ artifact[stage] = journal[stage])

AuditOutputs == \A stage \in DOMAIN journal : Recorded(stage)

Boot(pool) ==
    /\ At("down")
    /\ IF AuditOutputs
       THEN run' = [run EXCEPT !.pc = "initialize", !.pool = pool, !.layer = FirstLayer,
                               !.initializing = TRUE]
       ELSE Refuse("audit", FirstLayer)
    /\ UNCHANGED << retiring, disk, faults >>

\* The walk goes on with a state it has loaded; a state that is not there or
\* differs from its archive ends the run.
LoadThen(l, next) == IF Loads(l) THEN run' = next ELSE Refuse("load", l)
AtLayer(l) == [run EXCEPT !.pc = "layer", !.layer = l, !.initializing = FALSE]

SealStage(stage, digest) ==
    journal' = IF Has(stage) THEN journal ELSE With(journal, stage, digest)
\* Journal.seal raises when the stage is sealed with something else.
Sealable(stage, digest) == Has(stage) => journal[stage] = digest

----------------------------------------------------------------------------
(* A transition: the state at the input of Target, shard by shard          *)

\* initialize, with the first state sealed: it is loaded.
Initialize ==
    /\ At("initialize") /\ Has(<< "state", FirstLayer >>)
    /\ LoadThen(FirstLayer, AtLayer(FirstLayer))
    /\ UNCHANGED << retiring, disk, faults >>

\* The caller is about to provide the state Target: initialize, or _run_layer
\* once the layer is encoded.
Transitions == (At("initialize") /\ ~Has(<< "state", FirstLayer >>)) \/ (At("forward") /\ run.layer < LastLayer)

\* adopt_existing: a publication that completed just before its seal.
\* Fault: only what the journal has sealed is taken for published.
PublishedIfSealed(l) == l \in DOMAIN live /\ Has(<< "state", l >>)
Published(l) == l \in DOMAIN live
Adopt ==
    /\ Transitions /\ Published(Target)
    /\ IF Loads(Target) /\ Bound(Target) THEN Go("seal state") ELSE Refuse("adopt", Target)
    /\ UNCHANGED << retiring, disk, faults >>

BeginTransition ==
    /\ Transitions /\ ~Published(Target)
    /\ IF ~run.initializing /\ ~Loads(run.layer)
       THEN Refuse("load", run.layer) /\ UNCHANGED partial
       ELSE IF Target \in DOMAIN live
       THEN Refuse("exists", Target) /\ UNCHANGED partial
       ELSE IF ~Intact(Reopened(Target))
       THEN Refuse("partial", Target) /\ UNCHANGED partial
       ELSE Go("shard") /\ partial' = With(partial, Target, Reopened(Target))
    /\ UNCHANGED << retiring, journal, live, archive, leftovers, progress, artifact, faults >>

Transition == partial[Target]
Pending == Shards \ Transition.noted
Bytes(s) == IF s = Lead /\ ~run.initializing THEN run.pool ELSE "same"

\* The backend writes the next shard that PARTIAL.json does not name.
WriteShard ==
    /\ At("shard") /\ Pending # {}
    /\ \E s \in Pending :
          /\ \A r \in Pending : s <= r
          /\ partial' = [partial EXCEPT ![Target].files = With(@, s, Bytes(s))]
    /\ Go("note")
    /\ UNCHANGED << retiring, journal, live, archive, leftovers, progress, artifact, faults >>

\* add_existing_shard: its hashes are flushed to PARTIAL.json.
NoteShard ==
    /\ At("note")
    /\ \E s \in Pending :
          /\ \A r \in Pending : s <= r
          /\ partial' = [partial EXCEPT ![Target].noted = @ \cup {s}]
    /\ Go("shard")
    /\ UNCHANGED << retiring, journal, live, archive, leftovers, progress, artifact, faults >>

\* commit: STATE.json in the partial directory, ...
WriteManifest ==
    /\ At("shard") /\ Pending = {}
    /\ partial' = [partial EXCEPT ![Target].manifest = {Forwarded(Target)}]
    /\ Go("archive")
    /\ UNCHANGED << retiring, journal, live, archive, leftovers, progress, artifact, faults >>

Committed(l) == CHOOSE c \in partial[l].manifest : TRUE
\* ... its archive, which an earlier attempt may have written with other bytes,
\* Fault: an archive that is there is kept.
ArchivedOnce(l) == IF l \in DOMAIN archive THEN archive ELSE With(archive, l, Committed(l))
Archived(l) == With(archive, l, Committed(l))
WriteArchive ==
    /\ At("archive")
    /\ archive' = Archived(Target)
    /\ Go("unlink partial")
    /\ UNCHANGED << retiring, journal, live, partial, leftovers, progress, artifact, faults >>

\* ... PARTIAL.json is removed,
UnlinkPartial ==
    /\ At("unlink partial")
    /\ partial' = [partial EXCEPT ![Target].opened = FALSE]
    /\ Go("publish")
    /\ UNCHANGED << retiring, journal, live, archive, leftovers, progress, artifact, faults >>

\* ... and the directory is renamed into place and loaded.
Publish ==
    /\ At("publish")
    /\ live' = With(live, Target, Committed(Target))
    /\ partial' = Without(partial, Target)
    /\ IF Target \in DOMAIN archive /\ archive[Target] = Committed(Target)
       THEN Go("seal state") ELSE Refuse("load", Target)
    /\ UNCHANGED << retiring, journal, archive, leftovers, progress, artifact, faults >>

\* The successor is sealed in the journal; only then may its predecessor go.
AfterSeal ==
    IF run.initializing THEN AtLayer(FirstLayer)
    ELSE IF retiring THEN [run EXCEPT !.pc = "retire"] ELSE AtLayer(run.layer + 1)
SealState ==
    /\ At("seal state")
    /\ IF Sealable(<< "state", Target >>, archive[Target])
       THEN SealStage(<< "state", Target >>, archive[Target]) /\ run' = AfterSeal
       ELSE Refuse("rewrite", Target) /\ UNCHANGED journal
    /\ UNCHANGED << retiring, live, archive, partial, leftovers, progress, artifact, faults >>

\* retire: the predecessor is renamed away once its successor loads, ...
\* Fault: the successor is taken for the predecessor.
RetiresSuccessor == run.layer + 1
Retired == run.layer
Retire ==
    /\ At("retire")
    /\ IF Loads(run.layer + 1)
       THEN /\ live' = Without(live, Retired)
            /\ leftovers' = leftovers \cup {Retired}
            /\ Go("remove")
       ELSE Refuse("load", run.layer + 1) /\ UNCHANGED << live, leftovers >>
    /\ UNCHANGED << retiring, journal, archive, partial, progress, artifact, faults >>

\* ... and removed; a process killed in between leaves it behind.
RemoveRetired ==
    /\ At("remove")
    /\ leftovers' = leftovers \ {Retired}
    /\ run' = AtLayer(run.layer + 1)
    /\ UNCHANGED << retiring, journal, live, archive, partial, progress, artifact, faults >>

----------------------------------------------------------------------------
(* _run_layer                                                              *)

\* The successor is sealed: it is loaded and the layer is skipped.  The last
\* layer is skipped when the walk's boundary is sealed.
SkipLayer ==
    /\ At("layer")
    /\ \/ /\ run.layer = LastLayer /\ Has(<< "boundary", LastLayer >>)
          /\ Go("finalize")
       \/ /\ run.layer < LastLayer /\ Has(<< "state", run.layer + 1 >>)
          /\ LoadThen(run.layer + 1, AtLayer(run.layer + 1))
    /\ UNCHANGED << retiring, disk, faults >>

EnterLayer ==
    /\ At("layer")
    /\ IF run.layer = LastLayer THEN ~Has(<< "boundary", LastLayer >>)
       ELSE ~Has(<< "state", run.layer + 1 >>)
    /\ IF ~Has(<< "state", run.layer >>) THEN Refuse("require", run.layer)
       ELSE LoadThen(run.layer, [run EXCEPT !.pc = IF Has(<< "encoded", run.layer >>) THEN "forward"
                                                   ELSE "capture"])
    /\ UNCHANGED << retiring, disk, faults >>

Captured == << "capture", run.layer >> \in DOMAIN artifact
Routed == IF run.layer \in DOMAIN progress THEN progress[run.layer].shards ELSE {}

\* capture_layer routes the next shard and notes it in CAPTURE-PARTIAL.json.
CaptureShard ==
    /\ At("capture") /\ ~Captured /\ Routed # Shards
    /\ IF run.layer \in DOMAIN progress /\ progress[run.layer].of # StateOf(run.layer)
       THEN Refuse("capture", run.layer) /\ UNCHANGED progress
       ELSE /\ \E s \in Shards \ Routed :
                  /\ \A r \in Shards \ Routed : s <= r
                  /\ progress' = With(progress, run.layer,
                                      [of |-> StateOf(run.layer), shards |-> Routed \cup {s}])
            /\ UNCHANGED run
    /\ UNCHANGED << retiring, journal, live, archive, partial, leftovers, artifact, faults >>

\* CAPTURE.json is written, then the progress file is removed.
WriteCapture ==
    /\ At("capture") /\ ~Captured /\ Routed = Shards
    /\ artifact' = With(artifact, << "capture", run.layer >>, progress[run.layer].of)
    /\ progress' = Without(progress, run.layer)
    /\ UNCHANGED << retiring, journal, live, archive, partial, leftovers, run, faults >>

\* open_capture, and the seal unless there is one: the capture is bound to the
\* state of the layer, and a sealed one has not drifted.
SealCapture ==
    /\ At("capture") /\ Captured
    /\ LET digest == artifact[<< "capture", run.layer >>] IN
       IF digest = StateOf(run.layer) /\ Sealable(<< "capture", run.layer >>, digest)
       THEN SealStage(<< "capture", run.layer >>, digest) /\ Go("search")
       ELSE Refuse("capture", run.layer) /\ UNCHANGED journal
    /\ UNCHANGED << retiring, live, archive, partial, leftovers, progress, artifact, faults >>

\* The search and the encoding are functions of what precedes them; a run that
\* finds them unsealed computes them again over the files.
Sealing == [search |-> "seal search", encoded |-> "seal encoded"]
Precedes(kind) == IF kind = "search" THEN "capture" ELSE "search"
WriteArtifact(kind) ==
    /\ kind \in {"search", "encoded"} /\ At(kind)
    /\ artifact' = With(artifact, << kind, run.layer >>, artifact[<< Precedes(kind), run.layer >>])
    /\ Go(Sealing[kind])
    /\ UNCHANGED << retiring, journal, live, archive, partial, leftovers, progress, faults >>

Following(kind) == IF kind = "search" THEN "encoded" ELSE "forward"
SealArtifact(kind) ==
    /\ kind \in {"search", "encoded"} /\ At(Sealing[kind])
    /\ LET digest == artifact[<< kind, run.layer >>] IN
       IF Sealable(<< kind, run.layer >>, digest)
       THEN SealStage(<< kind, run.layer >>, digest) /\ Go(Following(kind))
       ELSE Refuse("rewrite", run.layer) /\ UNCHANGED journal
    /\ UNCHANGED << retiring, live, archive, partial, leftovers, progress, artifact, faults >>

\* The last layer is never forwarded.
SealBoundary ==
    /\ At("forward") /\ run.layer = LastLayer
    /\ SealStage(<< "boundary", LastLayer >>, << >>)
    /\ Go("finalize")
    /\ UNCHANGED << retiring, live, archive, partial, leftovers, progress, artifact, faults >>

----------------------------------------------------------------------------
(* _finalize_walk                                                          *)

Walk == << "walk", LastLayer >>
Manifests == [l \in Layers |-> artifact[<< "encoded", l >>]]
WriteCompletion ==
    /\ At("finalize")
    /\ IF \E l \in Layers, kind \in Kinds : ~Has(<< kind, l >>)
       THEN Refuse("require", LastLayer) /\ UNCHANGED artifact
       ELSE IF Walk \in DOMAIN artifact /\ artifact[Walk] # Manifests
       THEN Refuse("completion", LastLayer) /\ UNCHANGED artifact
       ELSE artifact' = With(artifact, Walk, Manifests) /\ Go("seal walk")
    /\ UNCHANGED << retiring, journal, live, archive, partial, leftovers, progress, faults >>

SealWalk ==
    /\ At("seal walk")
    /\ SealStage(Walk, artifact[Walk])
    /\ Go("done")
    /\ UNCHANGED << retiring, live, archive, partial, leftovers, progress, artifact, faults >>

----------------------------------------------------------------------------
Advance ==
    \/ Initialize \/ Adopt \/ BeginTransition
    \/ WriteShard \/ NoteShard \/ WriteManifest \/ WriteArchive \/ UnlinkPartial \/ Publish
    \/ SealState \/ Retire \/ RemoveRetired
    \/ SkipLayer \/ EnterLayer \/ CaptureShard \/ WriteCapture \/ SealCapture
    \/ \E kind \in {"search", "encoded"} : WriteArtifact(kind) \/ SealArtifact(kind)
    \/ SealBoundary \/ WriteCompletion \/ SealWalk

Ended == run.pc \in {"done", "refused"}

\* The process is killed; a pilot run that stops after a layer leaves the same.
Kill ==
    /\ run.pc # "down" /\ ~Ended /\ faults.kills < MaxKills
    /\ faults' = [faults EXCEPT !.kills = @ + 1]
    /\ Go("down")
    /\ UNCHANGED << retiring, disk >>

\* The command is run again after a run that ended.
Rerun ==
    /\ Ended /\ faults.reruns < MaxReruns
    /\ faults' = [faults EXCEPT !.reruns = @ + 1]
    /\ Go("down")
    /\ UNCHANGED << retiring, disk >>

Next == (\E pool \in Pools : Boot(pool)) \/ Advance \/ Kill \/ Rerun

\* A process that is running takes its next step, and somebody starts the
\* command again after a kill.
Fairness == WF_vars(Advance) /\ WF_vars(\E pool \in Pools : Boot(pool))
Spec == Init /\ [][Next]_vars
FairSpec == Spec /\ Fairness

----------------------------------------------------------------------------
(* Properties                                                              *)

Sealed == {l \in Layers : Has(<< "state", l >>)}
Newest == CHOOSE l \in Sealed : \A k \in Sealed : k <= l

(***************************************************************************)
(* Whatever was killed between two durable steps, and with whatever pool   *)
(* the walk is resumed, a run refuses its own directory (the audit, an     *)
(* adoption, a partial state, a capture or a rewritten stage) for one      *)
(* reason only: it loads a state that the walk has retired, which takes a  *)
(* configuration that retires (walk.py initialize, _run_layer).            *)
(***************************************************************************)
RefusesOnlyRetired ==
    At("refused") =>
        /\ retiring /\ run.why[1] = "load"
        /\ run.why[2] \notin DOMAIN live /\ Has(<< "state", run.why[2] + 1 >>)

(***************************************************************************)
(* The journal can be trusted after any kill: every state it seals has its *)
(* archive, was forwarded from the encoding it seals for the layer before, *)
(* which was made from the state before; and the newest state it seals is  *)
(* still on disk with its archive, so that the next layer can be run.      *)
(***************************************************************************)
JournalBacked ==
    /\ \A l \in Sealed :
          /\ Recorded(<< "state", l >>)
          /\ l > FirstLayer =>
                 /\ Has(<< "encoded", l - 1 >>) /\ Has(<< "state", l - 1 >>)
                 /\ \E p \in Pools : journal[<< "state", l >>] = Append(journal[<< "encoded", l - 1 >>], p)
    /\ \A stage \in DOMAIN journal :
          stage[1] \in Kinds => journal[stage] = journal[<< "state", stage[2] >>]
    /\ Sealed # {} => Loads(Newest)

(***************************************************************************)
(* A walk that keeps its states completes however often it is killed, and  *)
(* so does one that retires them unless it is killed; no run waits for     *)
(* anything, and none ends without its walk (SequentialWalk.run).          *)
(***************************************************************************)
Completed == Has(Walk)
Completes == <>[](Completed \/ (retiring /\ At("refused") /\ faults.kills > 0))
=============================================================================
