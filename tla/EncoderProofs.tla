----------------------------- MODULE EncoderProofs -----------------------------
(***************************************************************************)
(* The safety invariants of the two parts of the reproducibility encoder,  *)
(* each a specification of its own: the walk over the layers (LayerWalk)   *)
(* and, below it, the pool of worker processes (ProcessPool).              *)
(***************************************************************************)
EXTENDS LayerWalk, ProcessPool, TLAPS, FiniteSetTheorems, SequenceTheorems

(***************************************************************************)
(* The safety invariants of LayerWalk, for every number of layers, set of  *)
(* prompts and set of device pools, and any number of kills and reruns.    *)
(*                                                                         *)
(* The invariant says of the files what a process relies on when it is     *)
(* started on them: Chained of the journal, Kept of the artifacts, Stored  *)
(* of states and archives, Resumable of unfinished transitions.  Only      *)
(* Knows speaks of the process, so a kill at any step keeps the rest.      *)
(***************************************************************************)

\* The stage that seals the state at the input of layer l, and all stages.
State(l) == << "state", l >>
Stages == {State(l) : l \in Layers} \cup (Kinds \X Layers) \cup {<< "boundary", LastLayer >>, Walk}

\* What the journal seals: each layer's stages come after each other, and the
\* state behind a layer was forwarded from it by some pool.
Chained(j) ==
    /\ DOMAIN j \subseteq Stages
    /\ \A l \in Layers : State(l) \in DOMAIN j =>
          /\ j[State(l)] \in Seq(Pools)
          /\ \A k \in Layers : k < l => << "encoded", k >> \in DOMAIN j
          /\ l > FirstLayer => \E p \in Pools : j[State(l)] = Append(j[State(l - 1)], p)
    /\ \A l \in Layers :
          /\ << "encoded", l >> \in DOMAIN j => << "search", l >> \in DOMAIN j
          /\ << "search", l >> \in DOMAIN j => << "capture", l >> \in DOMAIN j
          /\ << "capture", l >> \in DOMAIN j => State(l) \in DOMAIN j
    /\ \A kind \in Kinds, l \in Layers :
          << kind, l >> \in DOMAIN j => j[<< kind, l >>] = j[State(l)]
    /\ << "boundary", LastLayer >> \in DOMAIN j => << "encoded", LastLayer >> \in DOMAIN j

\* Every artifact and every unfinished capture is one of a sealed state, and
\* what is sealed is there.
Kept(j, a, pr) ==
    /\ \A kind \in Kinds, l \in Layers :
          /\ << kind, l >> \in DOMAIN a => State(l) \in DOMAIN j /\ a[<< kind, l >>] = j[State(l)]
          /\ << kind, l >> \in DOMAIN j => << kind, l >> \in DOMAIN a
    /\ Walk \in DOMAIN a =>
          /\ \A l \in Layers : << "encoded", l >> \in DOMAIN j
          /\ a[Walk] = [l \in Layers |-> a[<< "encoded", l >>]]
    /\ Walk \in DOMAIN j => Walk \in DOMAIN a /\ j[Walk] = a[Walk]
    /\ \A l \in Layers : l \in DOMAIN pr => State(l) \in DOMAIN j /\ pr[l].of = j[State(l)]

\* c is a state that may be at the input of layer l.
Follows(j, l, c) ==
    \/ l = FirstLayer /\ c = << >>
    \/ /\ l > FirstLayer /\ << "encoded", l - 1 >> \in DOMAIN j
       /\ \E p \in Pools : c = Append(j[State(l - 1)], p)

\* A sealed state has its archive, a published one too; only what has been
\* succeeded by a sealed state, and retired, is no longer there.
Stored(j, lv, ar) ==
    /\ DOMAIN lv \subseteq Layers
    /\ \A l \in Layers : State(l) \in DOMAIN j => l \in DOMAIN ar /\ ar[l] = j[State(l)]
    /\ \A l \in DOMAIN lv : l \in DOMAIN ar /\ ar[l] = lv[l] /\ Follows(j, l, lv[l])
    /\ \A l \in Layers : State(l) \in DOMAIN j /\ l \notin DOMAIN lv =>
          retiring /\ State(l + 1) \in DOMAIN j

\* A transition on disk can be taken up again.
Resumable(pt) ==
    /\ DOMAIN pt \subseteq Layers
    /\ \A l \in DOMAIN pt :
          /\ DOMAIN pt[l] = {"files", "noted", "opened", "manifest"}
          /\ pt[l].noted \subseteq DOMAIN pt[l].files
          /\ l > FirstLayer /\ Lead \in DOMAIN pt[l].files => pt[l].files[Lead] \in Pools

\* Where a process may be, and what a run may be refused for.
Places == {"down", "initialize", "layer", "shard", "note", "archive", "unlink partial", "publish",
           "seal state", "retire", "remove", "capture", "search", "seal search", "encoded",
           "seal encoded", "forward", "finalize", "seal walk", "done", "refused"}

Reasons == {"audit", "load", "adopt", "exists", "partial", "rewrite", "require", "capture",
            "completion"}
Processes == [pc : Places, layer : Layers, pool : Pools, initializing : BOOLEAN,
              why : {<< >>} \cup (Reasons \X Nat)]

\* The state that a transition builds is not sealed, and may be built.
Open(j, r, t) ==
    /\ t \in Layers /\ State(t) \notin DOMAIN j
    /\ IF r.initializing THEN t = FirstLayer
       ELSE t = r.layer + 1 /\ << "encoded", r.layer >> \in DOMAIN j

\* A process at work on a layer has its newest state.
AtWork(j, r) ==
    /\ ~r.initializing /\ State(r.layer) \in DOMAIN j /\ State(r.layer + 1) \notin DOMAIN j

\* A transition from its first shard to its publication.
Building == {"shard", "note", "archive", "unlink partial", "publish"}
\* What a process knows where it is.
Knows ==
    /\ At("initialize") => run.initializing /\ run.layer = FirstLayer
    /\ run.pc \in Building =>
          /\ Open(journal, run, Target) /\ Target \notin DOMAIN live /\ Target \in DOMAIN partial
    /\ At("note") => \A s \in Pending : (\A r \in Pending : s <= r) => s \in DOMAIN Transition.files
    /\ run.pc \in {"archive", "unlink partial", "publish"} =>
          /\ Lead \in DOMAIN partial[Target].files
          /\ partial[Target].manifest = {Forwarded(Target)}
    /\ run.pc \in {"unlink partial", "publish"} =>
          Target \in DOMAIN archive /\ archive[Target] = Forwarded(Target)
    /\ At("seal state") => Open(journal, run, Target) /\ Target \in DOMAIN live
    /\ run.pc \in {"retire", "remove"} =>
          /\ retiring /\ ~run.initializing /\ run.layer < LastLayer
          /\ State(run.layer + 1) \in DOMAIN journal
    /\ At("retire") => State(run.layer + 2) \notin DOMAIN journal
    /\ At("layer") => ~run.initializing /\ State(run.layer) \in DOMAIN journal
    /\ run.pc \in {"capture", "search", "seal search", "encoded", "seal encoded", "forward"} =>
          AtWork(journal, run)
    /\ run.pc \in {"search", "seal search"} => << "capture", run.layer >> \in DOMAIN journal
    /\ run.pc \in {"encoded", "seal encoded"} => << "search", run.layer >> \in DOMAIN journal
    /\ At("seal search") => << "search", run.layer >> \in DOMAIN artifact
    /\ At("seal encoded") => << "encoded", run.layer >> \in DOMAIN artifact
    /\ At("forward") => << "encoded", run.layer >> \in DOMAIN journal
    /\ run.pc \in {"finalize", "seal walk"} => \A l \in Layers : << "encoded", l >> \in DOMAIN journal
    /\ At("seal walk") => Walk \in DOMAIN artifact

\* The inductive invariant.  RefusesOnlyRetired holds because no refusal but the
\* one it allows is reachable from it.
IInv ==
    /\ retiring \in BOOLEAN /\ run \in Processes
    /\ Chained(journal) /\ Kept(journal, artifact, progress)
    /\ Stored(journal, live, archive) /\ Resumable(partial)
    /\ Knows /\ RefusesOnlyRetired

-----------------------------------------------------------------------------
(* Values *)

\* Taking the last element off what was appended to gives it back (the binding
\* that adopt_existing compares).
LEMMA SubSeqAppend ==
    ASSUME NEW S, NEW s \in Seq(S), NEW e \in S
    PROVE  SubSeq(Append(s, e), 1, Len(Append(s, e)) - 1) = s
OBVIOUS

\* Under a sealed state lies a sealed state.
LEMMA Descends ==
    ASSUME NEW j, Chained(j), NEW l \in Layers, State(l) \in DOMAIN j, l > FirstLayer
    PROVE  l - 1 \in Layers /\ State(l - 1) \in DOMAIN j
<1>1. l - 1 \in Layers /\ l - 1 < l
  BY LayerWalkAssumption DEF Layers
<1>2. << "encoded", l - 1 >> \in DOMAIN j
  BY <1>1 DEF Chained
<1> QED BY <1>1, <1>2 DEF Chained

\* Sealing the state that follows keeps the journal chained.
LEMMA SealableState ==
    ASSUME NEW j, Chained(j), NEW t \in Layers, NEW c, Follows(j, t, c), State(t) \notin DOMAIN j
    PROVE  Chained(With(j, State(t), c))
<1> DEFINE w == With(j, State(t), c)
<1>1. /\ DOMAIN w = DOMAIN j \cup {State(t)} /\ w[State(t)] = c
      /\ \A x \in DOMAIN j : w[x] = j[x]
  BY DEF With
<1> HIDE DEF w
<1>2. \A l \in Layers : State(l) \in DOMAIN w <=> l = t \/ State(l) \in DOMAIN j
  BY <1>1 DEF State
<1>3. \A kind \in Kinds, l \in Layers : << kind, l >> \in DOMAIN w <=> << kind, l >> \in DOMAIN j
  BY <1>1 DEF State, Kinds
<1>4. \A kind \in Kinds, l \in Layers : << kind, l >> \in DOMAIN j => State(l) \in DOMAIN j
  BY DEF Chained, Kinds
<1>5. t > FirstLayer =>
        /\ t - 1 \in Layers /\ << "encoded", t - 1 >> \in DOMAIN j /\ State(t - 1) \in DOMAIN j
        /\ w[State(t - 1)] = j[State(t - 1)]
  BY <1>1, <1>4, LayerWalkAssumption DEF Follows, Kinds, Layers
<1>6. c \in Seq(Pools) /\ (t > FirstLayer => \E p \in Pools : c = Append(w[State(t - 1)], p))
  <2>1. CASE t = FirstLayer
    <3>1. ~(t > FirstLayer)
      BY <2>1, LayerWalkAssumption DEF Layers
    <3>2. c = << >>
      BY <3>1 DEF Follows
    <3> QED BY <3>1, <3>2
  <2>2. CASE t > FirstLayer
    <3>1. PICK p \in Pools : c = Append(j[State(t - 1)], p)
      <4>1. t # FirstLayer
        BY <2>2, LayerWalkAssumption DEF Layers
      <4> QED BY <4>1 DEF Follows
    <3>2. j[State(t - 1)] \in Seq(Pools)
      BY <2>2, <1>5 DEF Chained
    <3>3. Append(j[State(t - 1)], p) \in Seq(Pools)
      BY <3>2
    <3> QED BY <3>1, <3>3, <2>2, <1>5
  <2> QED BY <2>1, <2>2, LayerWalkAssumption DEF Layers
<1>7. \A k \in Layers : k < t => << "encoded", k >> \in DOMAIN w
  <2> SUFFICES ASSUME NEW k \in Layers, k < t PROVE << "encoded", k >> \in DOMAIN j
    BY <1>3 DEF Kinds
  <2>1. t > FirstLayer /\ (k = t - 1 \/ k < t - 1)
    BY LayerWalkAssumption DEF Layers
  <2> QED BY <2>1, <1>5 DEF Chained
<1>8. \A l \in Layers : State(l) \in DOMAIN j /\ l > FirstLayer => l - 1 \in Layers /\ State(l - 1) \in DOMAIN j
  BY Descends
<1>9. DOMAIN w \subseteq Stages
  BY <1>1 DEF Chained, Stages
<1>10. \A l \in Layers : State(l) \in DOMAIN w =>
          /\ w[State(l)] \in Seq(Pools)
          /\ \A k \in Layers : k < l => << "encoded", k >> \in DOMAIN w
          /\ l > FirstLayer => \E p \in Pools : w[State(l)] = Append(w[State(l - 1)], p)
  BY <1>1, <1>2, <1>6, <1>7, <1>8 DEF Chained
<1>11. << "boundary", LastLayer >> \in DOMAIN w => << "encoded", LastLayer >> \in DOMAIN w
  BY <1>1 DEF Chained, State
<1>12. \A l \in Layers :
          /\ << "encoded", l >> \in DOMAIN w => << "search", l >> \in DOMAIN w
          /\ << "search", l >> \in DOMAIN w => << "capture", l >> \in DOMAIN w
          /\ << "capture", l >> \in DOMAIN w => State(l) \in DOMAIN w
  BY <1>2, <1>3 DEF Chained, Kinds
<1>13. \A kind \in Kinds, l \in Layers :
          << kind, l >> \in DOMAIN w => w[<< kind, l >>] = w[State(l)]
  BY <1>1, <1>3, <1>4 DEF Chained
<1> QED BY <1>9, <1>10, <1>11, <1>12, <1>13 DEF Chained, w

\* The stage of a layer that comes before one of its kinds.
Before(kind, l) ==
    IF kind = "capture" THEN State(l) ELSE << Precedes(kind), l >>

\* Sealing the next kind of a layer, with the digest of its state, keeps the
\* journal chained.
LEMMA SealableKind ==
    ASSUME NEW j, Chained(j), NEW kind \in Kinds, NEW l \in Layers, Before(kind, l) \in DOMAIN j,
           << kind, l >> \notin DOMAIN j
    PROVE  State(l) \in DOMAIN j /\ Chained(With(j, << kind, l >>, j[State(l)]))
<1> DEFINE w == With(j, << kind, l >>, j[State(l)])
<1>1. /\ DOMAIN w = DOMAIN j \cup {<< kind, l >>} /\ w[<< kind, l >>] = j[State(l)]
      /\ \A x \in DOMAIN j : w[x] = j[x]
  BY DEF With
<1> HIDE DEF w
<1>2. State(l) \in DOMAIN j
  BY DEF Before, Precedes, Chained, Kinds
<1>3. \A i \in Layers : State(i) \in DOMAIN w <=> State(i) \in DOMAIN j
  BY <1>1 DEF State, Kinds
<1>4. \A k \in Kinds, i \in Layers : << k, i >> \in DOMAIN w <=> (k = kind /\ i = l) \/ << k, i >> \in DOMAIN j
  BY <1>1
<1>5. \A k \in Kinds, i \in Layers : << k, i >> \in DOMAIN j => State(i) \in DOMAIN j
  BY DEF Chained, Kinds
<1>6. \A i \in Layers : State(i) \in DOMAIN j /\ i > FirstLayer => i - 1 \in Layers /\ State(i - 1) \in DOMAIN j
  BY Descends
<1>7. DOMAIN w \subseteq Stages
  BY <1>1 DEF Chained, Stages
<1>8. \A i \in Layers : State(i) \in DOMAIN w =>
          /\ w[State(i)] \in Seq(Pools)
          /\ \A k \in Layers : k < i => << "encoded", k >> \in DOMAIN w
          /\ i > FirstLayer => \E p \in Pools : w[State(i)] = Append(w[State(i - 1)], p)
  BY <1>1, <1>3, <1>6 DEF Chained
<1>9. << "boundary", LastLayer >> \in DOMAIN w => << "encoded", LastLayer >> \in DOMAIN w
  BY <1>1 DEF Chained, Kinds
<1>10. \A i \in Layers :
          /\ << "encoded", i >> \in DOMAIN w => << "search", i >> \in DOMAIN w
          /\ << "search", i >> \in DOMAIN w => << "capture", i >> \in DOMAIN w
          /\ << "capture", i >> \in DOMAIN w => State(i) \in DOMAIN w
  BY <1>2, <1>3, <1>4 DEF Chained, Kinds, Before, Precedes
<1>11. \A k \in Kinds, i \in Layers : << k, i >> \in DOMAIN w => w[<< k, i >>] = w[State(i)]
  BY <1>1, <1>2, <1>4, <1>5 DEF Chained
<1> QED BY <1>2, <1>7, <1>8, <1>9, <1>10, <1>11 DEF Chained, w

\* Sealing a state does not touch what is known of the artifacts.
LEMMA KeptState ==
    ASSUME NEW j, NEW a, NEW pr, Kept(j, a, pr), NEW t \in Layers, NEW c, State(t) \notin DOMAIN j
    PROVE  Kept(With(j, State(t), c), a, pr)
<1> DEFINE w == With(j, State(t), c)
<1>1. /\ DOMAIN w = DOMAIN j \cup {State(t)}
      /\ \A x \in DOMAIN j : w[x] = j[x]
  BY DEF With
<1> HIDE DEF w
<1>2. \A kind \in Kinds, l \in Layers : << kind, l >> \in DOMAIN w <=> << kind, l >> \in DOMAIN j
  BY <1>1 DEF State, Kinds
<1>3. Walk \in DOMAIN w <=> Walk \in DOMAIN j
  BY <1>1 DEF State, Walk
<1>4. "encoded" \in Kinds
  BY DEF Kinds
<1> QED BY <1>1, <1>2, <1>3, <1>4 DEF Kept, w

\* Sealing an artifact that is there does not touch what is known of the
\* others.
LEMMA KeptKind ==
    ASSUME NEW j, NEW a, NEW pr, Kept(j, a, pr), NEW kind \in Kinds, NEW l \in Layers,
           << kind, l >> \in DOMAIN a, << kind, l >> \notin DOMAIN j, NEW c
    PROVE  Kept(With(j, << kind, l >>, c), a, pr)
<1> DEFINE w == With(j, << kind, l >>, c)
<1>1. /\ DOMAIN w = DOMAIN j \cup {<< kind, l >>}
      /\ \A x \in DOMAIN j : w[x] = j[x]
  BY DEF With
<1> HIDE DEF w
<1>2. \A i \in Layers : State(i) \in DOMAIN w <=> State(i) \in DOMAIN j
  BY <1>1 DEF State, Kinds
<1>3. Walk \in DOMAIN w <=> Walk \in DOMAIN j
  BY <1>1 DEF Kinds, Walk
<1>4. \A k \in Kinds, i \in Layers : << k, i >> \in DOMAIN w => (k = kind /\ i = l) \/ << k, i >> \in DOMAIN j
  BY <1>1
<1> QED BY <1>1, <1>2, <1>3, <1>4 DEF Kept, w

\* An artifact is written over with what it was, or for the first time.
LEMMA KeptArtifact ==
    ASSUME NEW j, NEW a, NEW pr, Kept(j, a, pr), NEW kind \in Kinds, NEW l \in Layers,
           State(l) \in DOMAIN j
    PROVE  Kept(j, With(a, << kind, l >>, j[State(l)]), pr)
<1> DEFINE w == With(a, << kind, l >>, j[State(l)])
<1>1. /\ DOMAIN w = DOMAIN a \cup {<< kind, l >>}
      /\ \A x \in DOMAIN a : x # << kind, l >> => w[x] = a[x]
      /\ w[<< kind, l >>] = j[State(l)]
  BY DEF With
<1> HIDE DEF w
<1>2. \A x \in Kinds, i \in Layers : << x, i >> \in DOMAIN a => w[<< x, i >>] = a[<< x, i >>]
  BY <1>1 DEF Kept
<1>3. (Walk \in DOMAIN w <=> Walk \in DOMAIN a) /\ (Walk \in DOMAIN a => w[Walk] = a[Walk])
  BY <1>1 DEF Kinds, Walk
<1>4. \A k \in Kinds, i \in Layers :
        /\ << k, i >> \in DOMAIN w => State(i) \in DOMAIN j /\ w[<< k, i >>] = j[State(i)]
        /\ << k, i >> \in DOMAIN j => << k, i >> \in DOMAIN w
  BY <1>1, <1>2 DEF Kept
<1>5. Walk \in DOMAIN a => [i \in Layers |-> w[<< "encoded", i >>]] = [i \in Layers |-> a[<< "encoded", i >>]]
  <2>1. Walk \in DOMAIN a => \A i \in Layers : << "encoded", i >> \in DOMAIN a
    BY DEF Kept, Kinds
  <2> QED BY <1>2, <2>1 DEF Kinds
<1> QED BY <1>3, <1>4, <1>5 DEF Kept, w

\* What may be at the input of a layer still may when another state is sealed.
LEMMA FollowsState ==
    ASSUME NEW j, Chained(j), NEW t \in Layers, State(t) \notin DOMAIN j, NEW v,
           NEW l \in Layers, NEW c, Follows(j, l, c)
    PROVE  Follows(With(j, State(t), v), l, c)
<1> DEFINE w == With(j, State(t), v)
<1>1. /\ DOMAIN w = DOMAIN j \cup {State(t)}
      /\ \A x \in DOMAIN j : w[x] = j[x]
  BY DEF With
<1> HIDE DEF w
<1>2. CASE l = FirstLayer /\ c = << >>
  BY <1>2 DEF Follows, w
<1>3. CASE l > FirstLayer /\ << "encoded", l - 1 >> \in DOMAIN j /\ \E p \in Pools : c = Append(j[State(l - 1)], p)
  <2>1. l - 1 \in Layers
    BY <1>3, LayerWalkAssumption DEF Layers
  <2>2. State(l - 1) \in DOMAIN j
    BY <2>1, <1>3 DEF Chained
  <2> QED BY <1>1, <1>3, <2>2 DEF Follows, w
<1> QED BY <1>2, <1>3 DEF Follows

\* What may be at the input of a layer still may when an artifact is sealed.
LEMMA FollowsKind ==
    ASSUME NEW j, Chained(j), NEW kind \in Kinds, NEW i, << kind, i >> \notin DOMAIN j, NEW v,
           NEW l \in Layers, NEW c, Follows(j, l, c)
    PROVE  Follows(With(j, << kind, i >>, v), l, c)
<1> DEFINE w == With(j, << kind, i >>, v)
<1>1. /\ DOMAIN w = DOMAIN j \cup {<< kind, i >>}
      /\ \A x \in DOMAIN j : w[x] = j[x]
  BY DEF With
<1> HIDE DEF w
<1>2. CASE l = FirstLayer /\ c = << >>
  BY <1>2 DEF Follows, w
<1>3. CASE l > FirstLayer /\ << "encoded", l - 1 >> \in DOMAIN j /\ \E p \in Pools : c = Append(j[State(l - 1)], p)
  <2>1. l - 1 \in Layers
    BY <1>3, LayerWalkAssumption DEF Layers
  <2>2. State(l - 1) \in DOMAIN j
    BY <2>1, <1>3 DEF Chained
  <2> QED BY <1>1, <1>3, <2>2 DEF Follows, w
<1> QED BY <1>2, <1>3 DEF Follows

\* Sealing a published state leaves every sealed state archived.
LEMMA StoredState ==
    ASSUME NEW j, Chained(j), NEW lv, NEW ar, Stored(j, lv, ar),
           NEW t \in DOMAIN lv, State(t) \notin DOMAIN j
    PROVE  Stored(With(j, State(t), ar[t]), lv, ar)
<1> DEFINE w == With(j, State(t), ar[t])
<1>1. /\ DOMAIN w = DOMAIN j \cup {State(t)} /\ w[State(t)] = ar[t]
      /\ \A x \in DOMAIN j : w[x] = j[x]
  BY DEF With
<1>2. t \in Layers /\ t \in DOMAIN ar
  BY DEF Stored
<1>3. \A l \in DOMAIN lv : l \in Layers /\ Follows(w, l, lv[l])
  BY <1>2, FollowsState DEF Stored
<1> HIDE DEF w
<1>4. \A l \in Layers : State(l) \in DOMAIN w <=> l = t \/ State(l) \in DOMAIN j
  BY <1>1 DEF State
<1> QED BY <1>1, <1>2, <1>3, <1>4 DEF Stored, w

\* Sealing an artifact does not touch what is known of the states.
LEMMA StoredKind ==
    ASSUME NEW j, Chained(j), NEW lv, NEW ar, Stored(j, lv, ar),
           NEW kind \in Kinds, NEW i, << kind, i >> \notin DOMAIN j, NEW v
    PROVE  Stored(With(j, << kind, i >>, v), lv, ar)
<1> DEFINE w == With(j, << kind, i >>, v)
<1>1. /\ DOMAIN w = DOMAIN j \cup {<< kind, i >>}
      /\ \A x \in DOMAIN j : w[x] = j[x]
  BY DEF With
<1>2. \A l \in DOMAIN lv : l \in Layers /\ Follows(w, l, lv[l])
  BY FollowsKind DEF Stored
<1> HIDE DEF w
<1>3. \A l : State(l) \in DOMAIN w <=> State(l) \in DOMAIN j
  BY <1>1 DEF State, Kinds
<1> QED BY <1>1, <1>2, <1>3 DEF Stored, w

\* Publishing an archived state keeps states and archives in agreement.
LEMMA StoredPublished ==
    ASSUME NEW j, NEW lv, NEW ar, Stored(j, lv, ar), NEW t \in Layers, t \notin DOMAIN lv,
           t \in DOMAIN ar, Follows(j, t, ar[t]), NEW c, c = ar[t]
    PROVE  Stored(j, With(lv, t, c), ar)
<1> DEFINE w == With(lv, t, c)
<1>1. /\ DOMAIN w = DOMAIN lv \cup {t} /\ w[t] = c
      /\ \A x \in DOMAIN lv : w[x] = lv[x]
  BY DEF With
<1> HIDE DEF w
<1> QED BY <1>1 DEF Stored, w

\* Archives of states that are neither sealed nor published may be written
\* over.
LEMMA StoredArchived ==
    ASSUME NEW j, NEW lv, NEW ar, Stored(j, lv, ar), NEW t \in Layers, t \notin DOMAIN lv,
           State(t) \notin DOMAIN j, NEW c
    PROVE  Stored(j, lv, With(ar, t, c))
<1> DEFINE w == With(ar, t, c)
<1>1. /\ DOMAIN w = DOMAIN ar \cup {t}
      /\ \A x \in DOMAIN ar : x # t => w[x] = ar[x]
  BY DEF With
<1> HIDE DEF w
<1> QED BY <1>1 DEF Stored, w

\* A state may be removed once its successor is sealed.
LEMMA StoredRetired ==
    ASSUME NEW j, NEW lv, NEW ar, Stored(j, lv, ar), NEW t \in Layers, retiring,
           State(t + 1) \in DOMAIN j
    PROVE  Stored(j, Without(lv, t), ar)
<1> DEFINE w == Without(lv, t)
<1>1. /\ DOMAIN w = DOMAIN lv \ {t}
      /\ \A x \in DOMAIN w : w[x] = lv[x]
  BY DEF Without, Restrict
<1> HIDE DEF w
<1> QED BY <1>1 DEF Stored, w

\* The newest sealed state is on disk with its archive.
LEMMA NewestLoads ==
    ASSUME NEW l \in Layers, Stored(journal, live, archive),
           State(l) \in DOMAIN journal, State(l + 1) \notin DOMAIN journal
    PROVE  /\ Loads(l) /\ l \in DOMAIN live
           /\ live[l] = journal[State(l)]
BY DEF Stored, Loads

\* What cannot be loaded has been retired.
LEMMA UnloadedIsRetired ==
    ASSUME NEW l \in Layers, Stored(journal, live, archive),
           State(l) \in DOMAIN journal, ~Loads(l)
    PROVE  retiring /\ l \notin DOMAIN live /\ State(l + 1) \in DOMAIN journal
BY DEF Stored, Loads

\* Nothing is sealed beyond the last layer.
LEMMA NothingBeyond ==
    ASSUME NEW j, Chained(j), NEW l, State(l) \in DOMAIN j
    PROVE  l \in Layers
BY DEF Chained, Stages, State, Kinds, Walk

-----------------------------------------------------------------------------
(* The process *)

\* Go changes the place of the process and nothing else.
LEMMA Goes ==
    ASSUME run \in Processes, NEW place \in Places, Go(place)
    PROVE  /\ run' \in Processes /\ run'.pc = place
           /\ run'.layer = run.layer /\ run'.initializing = run.initializing /\ run'.pool = run.pool
BY DEF Go, Processes

\* What Refuse makes of the process.
LEMMA Refuses ==
    ASSUME run \in Processes, NEW why \in Reasons, NEW l \in Layers, Refuse(why, l)
    PROVE  run' \in Processes /\ run'.pc = "refused" /\ run'.why = << why, l >>
<1>1. l \in Nat
  BY LayerWalkAssumption DEF Layers
<1> QED BY <1>1 DEF Refuse, Processes, Places

\* What AtLayer makes of the process.
LEMMA AtsLayer ==
    ASSUME run \in Processes, NEW l \in Layers, run' = AtLayer(l)
    PROVE  run' \in Processes /\ run'.pc = "layer" /\ run'.layer = l /\ run'.initializing = FALSE
BY DEF AtLayer, Processes, Places

\* Audits, kills and reruns: the files stay as they are.
LEMMA FilesStay ==
    ASSUME IInv, UNCHANGED << retiring, disk >>
    PROVE  /\ retiring' \in BOOLEAN /\ Chained(journal') /\ Kept(journal', artifact', progress')
           /\ Stored(journal, live, archive)' /\ Resumable(partial')
BY DEF IInv, disk, Stored

\* The audit at the start finds every sealed artifact as it was sealed.
LEMMA AuditSucceeds ==
    ASSUME IInv
    PROVE  AuditOutputs
<1> SUFFICES ASSUME NEW stage \in DOMAIN journal PROVE Recorded(stage)
  BY DEF AuditOutputs
<1>1. stage \in Stages
  BY DEF IInv, Chained
<1>2. CASE \E l \in Layers : stage = State(l)
  BY <1>2 DEF IInv, Stored, Recorded, State
<1>3. CASE stage \in Kinds \X Layers
  <2>1. PICK kind \in Kinds, l \in Layers : stage = << kind, l >>
    BY <1>3
  <2> QED BY <2>1 DEF IInv, Kept, Chained, Recorded, Kinds
<1>4. CASE stage = << "boundary", LastLayer >>
  BY <1>4 DEF Recorded
<1>5. CASE stage = Walk
  BY <1>5 DEF IInv, Kept, Recorded, Walk
<1> QED BY <1>1, <1>2, <1>3, <1>4, <1>5 DEF Stages

\* Boot keeps the invariant: the audit does not refuse.
LEMMA BootKeeps ==
    ASSUME IInv, NEW pool \in Pools, Boot(pool)
    PROVE  IInv'
<1>1. AuditOutputs
  BY AuditSucceeds
<1>2. run' = [run EXCEPT !.pc = "initialize", !.pool = pool, !.layer = FirstLayer, !.initializing = TRUE]
  BY <1>1 DEF Boot
<1>3. FirstLayer \in Layers
  BY LayerWalkAssumption DEF Layers
<1>4. /\ run' \in Processes /\ run'.pc = "initialize"
      /\ run'.layer = FirstLayer /\ run'.initializing = TRUE
  BY <1>2, <1>3 DEF IInv, Processes, Places
<1>5. Knows' /\ RefusesOnlyRetired'
  BY <1>4 DEF Knows, RefusesOnlyRetired, At, Building
<1> QED BY <1>4, <1>5, FilesStay DEF IInv, Boot

\* A kill and a rerun keep the invariant, whatever step they fall on: nothing
\* it says of the files depends on the process.
LEMMA DownKeeps ==
    ASSUME IInv, Kill \/ Rerun
    PROVE  IInv'
<1>1. Go("down") /\ UNCHANGED << retiring, disk >>
  BY DEF Kill, Rerun
<1>2. run' \in Processes /\ run'.pc = "down"
  BY <1>1, Goes DEF IInv, Places
<1>3. Knows' /\ RefusesOnlyRetired'
  BY <1>2 DEF Knows, RefusesOnlyRetired, At, Building
<1> QED BY <1>1, <1>2, <1>3, FilesStay DEF IInv

\* A sealed state that cannot be loaded is a refusal the invariant allows.
LEMMA RefusedLoad ==
    ASSUME IInv, NEW l \in Layers, State(l) \in DOMAIN journal, ~Loads(l), Refuse("load", l),
           UNCHANGED << retiring, disk >>
    PROVE  IInv'
<1>1. run' \in Processes /\ run'.pc = "refused" /\ run'.why = << "load", l >>
  <2>1. "load" \in Reasons /\ run \in Processes
    BY DEF IInv, Reasons
  <2> QED BY <2>1, Refuses
<1>2. retiring /\ l \notin DOMAIN live /\ State(l + 1) \in DOMAIN journal
  BY UnloadedIsRetired DEF IInv
<1>3. RefusesOnlyRetired'
  BY <1>1, <1>2 DEF RefusesOnlyRetired, At, Has, State, disk
<1>4. Knows'
  BY <1>1 DEF Knows, At, Building
<1> QED BY <1>1, <1>3, <1>4, FilesStay DEF IInv

\* Going to a layer whose state is sealed keeps the invariant.
LEMMA LayerReached ==
    ASSUME IInv, NEW l \in Layers, State(l) \in DOMAIN journal, run' = AtLayer(l),
           UNCHANGED << retiring, disk >>
    PROVE  IInv'
<1>1. run' \in Processes /\ run'.pc = "layer" /\ run'.layer = l /\ run'.initializing = FALSE
  BY AtsLayer DEF IInv
<1>2. Knows' /\ RefusesOnlyRetired'
  BY <1>1 DEF Knows, RefusesOnlyRetired, At, Building, State, disk
<1> QED BY <1>1, <1>2, FilesStay DEF IInv

\* Initialize keeps the invariant.
LEMMA InitializeKeeps ==
    ASSUME IInv, Initialize
    PROVE  IInv'
<1>1. FirstLayer \in Layers /\ State(FirstLayer) \in DOMAIN journal
  BY LayerWalkAssumption DEF Initialize, Layers, Has, State
<1>2. CASE Loads(FirstLayer)
  BY <1>1, <1>2, LayerReached DEF Initialize, LoadThen
<1>3. CASE ~Loads(FirstLayer)
  BY <1>1, <1>3, RefusedLoad DEF Initialize, LoadThen
<1> QED BY <1>2, <1>3

\* SkipLayer keeps the invariant: a state it cannot load has been retired.
LEMMA SkipLayerKeeps ==
    ASSUME IInv, SkipLayer
    PROVE  IInv'
<1>1. run.layer \in Layers
  BY DEF IInv, Processes
<1>2. CASE run.layer = LastLayer /\ Has(<< "boundary", LastLayer >>) /\ Go("finalize")
  <2>1. run' \in Processes /\ run'.pc = "finalize"
    BY <1>2, Goes DEF IInv, Places
  <2>2. State(LastLayer) \in DOMAIN journal /\ << "encoded", LastLayer >> \in DOMAIN journal
    BY <1>1, <1>2 DEF Has, IInv, Chained
  <2>3. \A l \in Layers : << "encoded", l >> \in DOMAIN journal
    <3>1. \A l \in Layers : l = LastLayer \/ l < LastLayer
      BY LayerWalkAssumption DEF Layers
    <3> QED BY <1>1, <1>2, <2>2, <3>1 DEF IInv, Chained
  <2>4. Knows' /\ RefusesOnlyRetired'
    BY <2>1, <2>3 DEF Knows, RefusesOnlyRetired, At, Building, SkipLayer, disk
  <2> QED BY <2>1, <2>4, FilesStay DEF IInv, SkipLayer
<1>3. CASE run.layer < LastLayer /\ Has(<< "state", run.layer + 1 >>)
             /\ LoadThen(run.layer + 1, AtLayer(run.layer + 1))
  <2>1. run.layer + 1 \in Layers /\ State(run.layer + 1) \in DOMAIN journal
    BY <1>1, <1>3, LayerWalkAssumption DEF Layers, Has, State
  <2>2. CASE Loads(run.layer + 1)
    BY <1>3, <2>1, <2>2, LayerReached DEF SkipLayer, LoadThen
  <2>3. CASE ~Loads(run.layer + 1)
    BY <1>3, <2>1, <2>3, RefusedLoad DEF SkipLayer, LoadThen
  <2> QED BY <2>2, <2>3
<1> QED BY <1>2, <1>3 DEF SkipLayer

\* EnterLayer keeps the invariant: the state of the layer that is run next is
\* sealed and on disk.
LEMMA EnterLayerKeeps ==
    ASSUME IInv, EnterLayer
    PROVE  IInv'
<1>1. /\ run.layer \in Layers /\ State(run.layer) \in DOMAIN journal /\ ~run.initializing
      /\ run.initializing \in BOOLEAN
  BY DEF IInv, Processes, EnterLayer, Knows
<1>2. State(run.layer + 1) \notin DOMAIN journal
  <2>1. CASE run.layer = LastLayer
    <3>1. LastLayer + 1 \notin Layers
      BY LayerWalkAssumption DEF Layers
    <3> QED BY <2>1, <3>1, NothingBeyond DEF IInv
  <2>2. CASE run.layer # LastLayer
    BY <2>2 DEF EnterLayer, Has, State
  <2> QED BY <2>1, <2>2
<1>3. Loads(run.layer)
  BY <1>1, <1>2, NewestLoads DEF IInv
<1>4. run' = [run EXCEPT !.pc = IF Has(<< "encoded", run.layer >>) THEN "forward" ELSE "capture"]
  BY <1>1, <1>3 DEF EnterLayer, LoadThen, Has, State
<1>5. /\ run' \in Processes /\ run'.layer = run.layer /\ run'.initializing = run.initializing
      /\ run'.pc = IF Has(<< "encoded", run.layer >>) THEN "forward" ELSE "capture"
  BY <1>4 DEF IInv, Processes, Places
<1>6. AtWork(journal', run')
  BY <1>1, <1>2, <1>5 DEF AtWork, EnterLayer, disk
<1>7. Knows' /\ RefusesOnlyRetired'
  BY <1>5, <1>6 DEF Knows, RefusesOnlyRetired, At, Building, Has, EnterLayer, disk
<1> QED BY <1>5, <1>7, FilesStay DEF IInv, EnterLayer

-----------------------------------------------------------------------------
(* Transitions *)

\* What the action of a transition knows of the state it builds.
LEMMA Transiting ==
    ASSUME IInv, Transitions
    PROVE  Open(journal, run, Target)
<1>1. run \in Processes
  BY DEF IInv
<1>2. CASE At("initialize") /\ ~Has(<< "state", FirstLayer >>)
  <2>1. run.initializing /\ Target = FirstLayer
    BY <1>2 DEF IInv, Knows, Target
  <2> QED BY <1>2, <2>1, LayerWalkAssumption DEF Open, Has, State, Layers
<1>3. CASE At("forward") /\ run.layer < LastLayer
  <2>1. ~run.initializing /\ << "encoded", run.layer >> \in DOMAIN journal /\ State(run.layer + 1) \notin DOMAIN journal
    BY <1>3 DEF IInv, Knows, AtWork, At
  <2>2. Target = run.layer + 1 /\ run.layer \in Layers
    BY <1>1, <2>1 DEF Target, Processes
  <2> QED BY <1>3, <2>1, <2>2, LayerWalkAssumption DEF Open, Layers
<1> QED BY <1>2, <1>3 DEF Transitions

\* While a transition goes on its target and what is known of it stay.
LEMMA TargetStays ==
    ASSUME run'.layer = run.layer, run'.initializing = run.initializing, journal' = journal
    PROVE  /\ Target' = Target
           /\ Open(journal, run, Target) => Open(journal, run, Target)'
BY DEF Target, Open

\* Adopt keeps the invariant: a published state is bound to the layer that
\* forwarded it.
LEMMA AdoptKeeps ==
    ASSUME IInv, Adopt
    PROVE  IInv'
<1>1. Open(journal, run, Target) /\ Target \in DOMAIN live
  BY Transiting DEF Adopt, Published
<1>2. Loads(Target)
  BY <1>1 DEF Loads, IInv, Stored
<1>3. Bound(Target)
  <2>1. Follows(journal, Target, live[Target])
    BY <1>1 DEF IInv, Stored
  <2>2. CASE Target > FirstLayer /\ << "encoded", Target - 1 >> \in DOMAIN journal
               /\ \E p \in Pools : live[Target] = Append(journal[State(Target - 1)], p)
    <3>1. Target - 1 \in Layers
      BY <1>1, <2>2, LayerWalkAssumption DEF Open, Layers
    <3>2. /\ State(Target - 1) \in DOMAIN journal /\ journal[State(Target - 1)] \in Seq(Pools)
          /\ artifact[<< "encoded", Target - 1 >>] = journal[State(Target - 1)]
      BY <2>2, <3>1 DEF IInv, Chained, Kept, Kinds
    <3>3. PICK p \in Pools : live[Target] = Append(journal[State(Target - 1)], p)
      BY <2>2
    <3> QED BY <3>2, <3>3, SubSeqAppend DEF Bound
  <2> QED BY <2>1, <2>2 DEF Follows, Bound
<1>4. Go("seal state") /\ UNCHANGED << retiring, disk >>
  BY <1>2, <1>3 DEF Adopt
<1>5. /\ run' \in Processes /\ run'.pc = "seal state"
      /\ run'.layer = run.layer /\ run'.initializing = run.initializing
  BY <1>4, Goes DEF IInv, Places
<1>6. Target' = Target /\ Open(journal, run, Target)'
  BY <1>1, <1>4, <1>5, TargetStays DEF disk
<1>7. Knows' /\ RefusesOnlyRetired'
  BY <1>1, <1>4, <1>5, <1>6 DEF Knows, RefusesOnlyRetired, At, Building, disk
<1> QED BY <1>4, <1>5, <1>7, FilesStay DEF IInv

\* The parts that only a change of the partial states can touch.
LEMMA PartialChanges ==
    ASSUME IInv, UNCHANGED << retiring, journal, live, archive, leftovers, progress, artifact >>
    PROVE  /\ retiring' \in BOOLEAN /\ Chained(journal') /\ Kept(journal', artifact', progress')
           /\ Stored(journal, live, archive)'
BY DEF IInv, Stored

\* Resumable holds when one partial state is replaced by one that can be taken
\* up again.
LEMMA ResumableWith ==
    ASSUME NEW pt, Resumable(pt), NEW t \in Layers, NEW v,
           DOMAIN v = {"files", "noted", "opened", "manifest"},
           v.noted \subseteq DOMAIN v.files,
           t > FirstLayer /\ Lead \in DOMAIN v.files => v.files[Lead] \in Pools,
           NEW w, DOMAIN w = DOMAIN pt \cup {t}, w[t] = v, \A x \in DOMAIN pt : x # t => w[x] = pt[x]
    PROVE  Resumable(w)
BY DEF Resumable

\* BeginTransition keeps the invariant: it finds a partial state it can take
\* up.
LEMMA BeginTransitionKeeps ==
    ASSUME IInv, BeginTransition
    PROVE  IInv'
<1>1. Open(journal, run, Target) /\ Target \notin DOMAIN live
  BY Transiting DEF BeginTransition, Published
<1>2. ~run.initializing => Loads(run.layer)
  <2>1. ~run.initializing => At("forward")
    BY DEF BeginTransition, Transitions, IInv, Knows
  <2>2. At("forward") => AtWork(journal, run) /\ run.layer \in Layers
    BY DEF IInv, Knows, At, Processes
  <2> QED BY <2>1, <2>2, NewestLoads DEF IInv, AtWork
<1>3. Intact(Reopened(Target))
  BY DEF Intact, Reopened, Fresh, Nothing, IInv, Resumable
<1>4. Go("shard") /\ partial' = With(partial, Target, Reopened(Target))
  BY <1>1, <1>2, <1>3 DEF BeginTransition
<1>5. /\ run' \in Processes /\ run'.pc = "shard"
      /\ run'.layer = run.layer /\ run'.initializing = run.initializing
  BY <1>4, Goes DEF IInv, Places
<1>6. Target' = Target /\ Open(journal, run, Target)'
  BY <1>1, <1>5, TargetStays DEF BeginTransition
<1>7. /\ DOMAIN Reopened(Target) = {"files", "noted", "opened", "manifest"}
      /\ Reopened(Target).noted \subseteq DOMAIN Reopened(Target).files
      /\ Target > FirstLayer /\ Lead \in DOMAIN Reopened(Target).files =>
            Reopened(Target).files[Lead] \in Pools
  BY DEF Reopened, Fresh, Nothing, IInv, Resumable
<1>8. /\ DOMAIN partial' = DOMAIN partial \cup {Target} /\ partial'[Target] = Reopened(Target)
      /\ \A x \in DOMAIN partial : x # Target => partial'[x] = partial[x]
  BY <1>4 DEF With
<1>9. Resumable(partial')
  BY <1>1, <1>7, <1>8, ResumableWith DEF IInv, Open
<1>10. Knows' /\ RefusesOnlyRetired'
  BY <1>1, <1>5, <1>6, <1>8 DEF Knows, RefusesOnlyRetired, At, Building, BeginTransition
<1> QED BY <1>5, <1>9, <1>10, PartialChanges DEF IInv, BeginTransition

\* A step of a transition that goes on with the next one.
LEMMA WriteShardKeeps ==
    ASSUME IInv, WriteShard
    PROVE  IInv'
<1>1. Open(journal, run, Target) /\ Target \notin DOMAIN live /\ Target \in DOMAIN partial
  BY DEF IInv, Knows, WriteShard, At, Building
<1>2. PICK s \in Pending : /\ \A r \in Pending : s <= r
                           /\ partial' = [partial EXCEPT ![Target].files = With(@, s, Bytes(s))]
  BY DEF WriteShard
<1>3. /\ run' \in Processes /\ run'.pc = "note"
      /\ run'.layer = run.layer /\ run'.initializing = run.initializing
  BY Goes DEF WriteShard, IInv, Places
<1>4. Target' = Target /\ Open(journal, run, Target)'
  BY <1>1, <1>3, TargetStays DEF WriteShard
<1> DEFINE p == partial[Target]
           v == [p EXCEPT !.files = With(@, s, Bytes(s))]
<1>5. /\ DOMAIN p = {"files", "noted", "opened", "manifest"}
      /\ p.noted \subseteq DOMAIN p.files
      /\ Target > FirstLayer /\ Lead \in DOMAIN p.files => p.files[Lead] \in Pools
  BY <1>1 DEF IInv, Resumable
<1>6. /\ DOMAIN partial' = DOMAIN partial \cup {Target} /\ partial'[Target] = v
      /\ \A x \in DOMAIN partial : x # Target => partial'[x] = partial[x]
  BY <1>1, <1>2
<1>7. /\ DOMAIN v = {"files", "noted", "opened", "manifest"}
      /\ v.noted = p.noted /\ v.files = With(p.files, s, Bytes(s))
  BY <1>5
<1>8. Target > FirstLayer /\ Lead \in DOMAIN v.files => v.files[Lead] \in Pools
  <2> SUFFICES ASSUME Target > FirstLayer, Lead \in DOMAIN v.files PROVE v.files[Lead] \in Pools
    OBVIOUS
  <2>1. CASE s = Lead
    <3>1. ~run.initializing
      BY <1>1, LayerWalkAssumption DEF Open, Layers
    <3> QED BY <2>1, <1>7, <3>1 DEF Bytes, IInv, Processes, With
  <2>2. CASE s # Lead
    BY <2>2, <1>5, <1>7 DEF With
  <2> QED BY <2>1, <2>2
<1>9. v.noted \subseteq DOMAIN v.files
  BY <1>5, <1>7 DEF With
<1>12. Pending' = Pending /\ Transition' = v
  BY <1>4, <1>6, <1>7 DEF Pending, Transition
<1>13. \A x \in Pending : (\A r \in Pending : x <= r) => x \in DOMAIN v.files
  <2>1. s \in DOMAIN v.files
    BY <1>7 DEF With
  <2>2. Pending \subseteq Nat
    BY LayerWalkAssumption DEF Pending
  <2>3. \A x \in Pending : (\A r \in Pending : x <= r) => x = s
    <3> SUFFICES ASSUME NEW x \in Pending, \A r \in Pending : x <= r PROVE x = s
      OBVIOUS
    <3>1. x <= s /\ s <= x /\ x \in Nat /\ s \in Nat
      BY <1>2, <2>2
    <3> QED BY <3>1
  <2> QED BY <2>1, <2>3
<1> HIDE DEF v, p
<1>10. Resumable(partial')
  BY <1>1, <1>6, <1>7, <1>8, <1>9, ResumableWith DEF IInv, Open
<1>11. Knows' /\ RefusesOnlyRetired'
  BY <1>1, <1>3, <1>4, <1>6, <1>12, <1>13 DEF Knows, RefusesOnlyRetired, At, Building, WriteShard
<1> QED BY <1>3, <1>10, <1>11, PartialChanges DEF IInv, WriteShard


\* What a transition at the step `place` knows on the way to the next one.
LEMMA Underway ==
    ASSUME IInv, run.pc \in Building, NEW place \in Places, Go(place),
           UNCHANGED << retiring, journal >>
    PROVE  /\ Open(journal, run, Target) /\ Target \notin DOMAIN live /\ Target \in DOMAIN partial
           /\ Target \in Layers
           /\ run' \in Processes /\ run'.pc = place
           /\ run'.layer = run.layer /\ run'.initializing = run.initializing
           /\ Target' = Target /\ Open(journal, run, Target)'
<1>1. Open(journal, run, Target) /\ Target \notin DOMAIN live /\ Target \in DOMAIN partial
  BY DEF IInv, Knows
<1>2. /\ run' \in Processes /\ run'.pc = place
      /\ run'.layer = run.layer /\ run'.initializing = run.initializing
  BY Goes DEF IInv
<1> QED BY <1>1, <1>2, TargetStays DEF Open

\* A step that changes one field of the partial state.
LEMMA FieldChanges ==
    ASSUME IInv, NEW t \in DOMAIN partial, NEW v,
           DOMAIN v = {"files", "noted", "opened", "manifest"}, v.files = partial[t].files,
           v.noted \subseteq DOMAIN v.files, partial' = [partial EXCEPT ![t] = v]
    PROVE  /\ DOMAIN partial' = DOMAIN partial /\ partial'[t] = v
           /\ Resumable(partial')
<1>1. /\ DOMAIN partial' = DOMAIN partial /\ partial'[t] = v
      /\ \A x \in DOMAIN partial : x # t => partial'[x] = partial[x]
  OBVIOUS
<1>2. t \in Layers /\ (t > FirstLayer /\ Lead \in DOMAIN v.files => v.files[Lead] \in Pools)
  BY DEF IInv, Resumable
<1>3. DOMAIN partial' = DOMAIN partial \cup {t}
  BY <1>1
<1>4. Resumable(partial')
  BY <1>1, <1>2, <1>3, ResumableWith DEF IInv
<1> QED BY <1>1, <1>4

\* NoteShard keeps the invariant: the shard it notes is the one just written.
LEMMA NoteShardKeeps ==
    ASSUME IInv, NoteShard
    PROVE  IInv'
<1>1. /\ Target \notin DOMAIN live /\ Target \in DOMAIN partial
      /\ run' \in Processes /\ run'.pc = "shard"
      /\ Target' = Target /\ Open(journal, run, Target)'
  <2>1. run.pc \in Building /\ "shard" \in Places
    BY DEF NoteShard, At, Building, Places
  <2> QED BY <2>1, Underway DEF NoteShard
<1>2. PICK s \in Pending : /\ \A r \in Pending : s <= r
                           /\ partial' = [partial EXCEPT ![Target].noted = @ \cup {s}]
  BY DEF NoteShard
<1> DEFINE p == partial[Target]
           v == [p EXCEPT !.noted = @ \cup {s}]
<1>3. DOMAIN p = {"files", "noted", "opened", "manifest"} /\ p.noted \subseteq DOMAIN p.files
  BY <1>1 DEF IInv, Resumable
<1>4. s \in DOMAIN p.files
  BY <1>2 DEF IInv, Knows, NoteShard, Transition
<1>5. /\ DOMAIN v = {"files", "noted", "opened", "manifest"}
      /\ v.noted \subseteq DOMAIN v.files /\ v.files = p.files
  BY <1>3, <1>4
<1>6. partial' = [partial EXCEPT ![Target] = v]
  BY <1>2
<1> HIDE DEF v
<1>7. DOMAIN partial' = DOMAIN partial /\ Resumable(partial')
  BY <1>1, <1>5, <1>6, FieldChanges
<1>8. Knows' /\ RefusesOnlyRetired'
  BY <1>1, <1>7 DEF Knows, RefusesOnlyRetired, At, Building, NoteShard
<1> QED BY <1>1, <1>7, <1>8, PartialChanges DEF IInv, NoteShard

\* The state a complete transition builds may be at the input of its layer.
LEMMA ForwardedFollows ==
    ASSUME IInv, Open(journal, run, Target), Target \in DOMAIN partial, Lead \in DOMAIN partial[Target].files
    PROVE  Follows(journal, Target, Forwarded(Target))
<1>1. CASE Target = FirstLayer
  BY <1>1 DEF Follows, Forwarded
<1>2. CASE Target # FirstLayer
  <2>1. Target > FirstLayer /\ ~run.initializing /\ Target = run.layer + 1 /\ run.layer \in Layers
    BY <1>2, LayerWalkAssumption DEF Open, Layers, IInv, Processes
  <2>2. Target - 1 = run.layer
    BY <2>1, LayerWalkAssumption DEF Layers
  <2>3. << "encoded", run.layer >> \in DOMAIN journal
    BY <2>1 DEF Open
  <2>4. artifact[<< "encoded", run.layer >>] = journal[State(run.layer)]
    BY <2>1, <2>3 DEF IInv, Kept, Kinds
  <2>5. partial[Target].files[Lead] \in Pools
    BY <2>1 DEF IInv, Resumable
  <2> QED BY <1>2, <2>1, <2>2, <2>3, <2>4, <2>5 DEF Follows, Forwarded
<1> QED BY <1>1, <1>2

\* WriteManifest keeps the invariant.
LEMMA WriteManifestKeeps ==
    ASSUME IInv, WriteManifest
    PROVE  IInv'
<1>1. /\ Target \notin DOMAIN live /\ Target \in DOMAIN partial
      /\ run' \in Processes /\ run'.pc = "archive"
      /\ Target' = Target /\ Open(journal, run, Target)'
  <2>1. run.pc \in Building /\ "archive" \in Places
    BY DEF WriteManifest, At, Building, Places
  <2> QED BY <2>1, Underway DEF WriteManifest
<1> DEFINE p == partial[Target]
           v == [p EXCEPT !.manifest = {Forwarded(Target)}]
<1>2. DOMAIN p = {"files", "noted", "opened", "manifest"} /\ p.noted \subseteq DOMAIN p.files
  BY <1>1 DEF IInv, Resumable
<1>3. /\ DOMAIN v = {"files", "noted", "opened", "manifest"} /\ v.manifest = {Forwarded(Target)}
      /\ v.noted \subseteq DOMAIN v.files /\ v.files = p.files
  BY <1>2
<1>4. partial' = [partial EXCEPT ![Target] = v]
  BY DEF WriteManifest
<1>5. Lead \in DOMAIN p.files
  BY <1>2, LayerWalkAssumption DEF WriteManifest, Pending, Transition
<1> HIDE DEF v
<1>6. DOMAIN partial' = DOMAIN partial /\ Resumable(partial') /\ partial'[Target] = v
  BY <1>1, <1>3, <1>4, FieldChanges
<1>7. Forwarded(Target)' = Forwarded(Target)
  BY <1>1, <1>3, <1>6 DEF Forwarded, WriteManifest
<1>8. Knows' /\ RefusesOnlyRetired'
  BY <1>1, <1>3, <1>5, <1>6, <1>7 DEF Knows, RefusesOnlyRetired, At, Building, WriteManifest
<1> QED BY <1>1, <1>6, <1>8, PartialChanges DEF IInv, WriteManifest

\* The manifest of a complete transition is that of the state it forwards.
LEMMA CommittedForwarded ==
    ASSUME IInv, run.pc \in {"archive", "unlink partial", "publish"}
    PROVE  Committed(Target) = Forwarded(Target) /\ Lead \in DOMAIN partial[Target].files
BY DEF IInv, Knows, Committed

\* WriteArchive keeps the invariant, also over an archive written by another
\* pool.
LEMMA WriteArchiveKeeps ==
    ASSUME IInv, WriteArchive
    PROVE  IInv'
<1>1. /\ Open(journal, run, Target) /\ Target \notin DOMAIN live /\ Target \in DOMAIN partial
      /\ run' \in Processes /\ run'.pc = "unlink partial"
      /\ Target' = Target /\ Open(journal, run, Target)'
  <2>1. run.pc \in Building /\ "unlink partial" \in Places
    BY DEF WriteArchive, At, Building, Places
  <2> QED BY <2>1, Underway DEF WriteArchive
<1>2. Committed(Target) = Forwarded(Target) /\ Lead \in DOMAIN partial[Target].files
  BY CommittedForwarded DEF WriteArchive, At
<1>3. archive' = With(archive, Target, Forwarded(Target))
  BY <1>2 DEF WriteArchive, Archived
<1>4. Target \in DOMAIN archive' /\ archive'[Target] = Forwarded(Target)
  BY <1>3 DEF With
<1>5. Forwarded(Target)' = Forwarded(Target)
  BY <1>1 DEF Forwarded, WriteArchive
<1>6. Stored(journal, live, archive)'
  <2>1. Stored(journal, live, With(archive, Target, Forwarded(Target)))
    BY <1>1, StoredArchived DEF IInv, Open
  <2> QED BY <2>1, <1>3 DEF WriteArchive, Stored
<1>7. Knows' /\ RefusesOnlyRetired'
  BY <1>1, <1>2, <1>4, <1>5 DEF Knows, RefusesOnlyRetired, At, Building, WriteArchive, IInv
<1> QED BY <1>1, <1>6, <1>7 DEF IInv, WriteArchive

\* UnlinkPartial keeps the invariant.
LEMMA UnlinkPartialKeeps ==
    ASSUME IInv, UnlinkPartial
    PROVE  IInv'
<1>1. /\ Target \notin DOMAIN live /\ Target \in DOMAIN partial
      /\ run' \in Processes /\ run'.pc = "publish"
      /\ Target' = Target /\ Open(journal, run, Target)'
  <2>1. run.pc \in Building /\ "publish" \in Places
    BY DEF UnlinkPartial, At, Building, Places
  <2> QED BY <2>1, Underway DEF UnlinkPartial
<1> DEFINE p == partial[Target]
           v == [p EXCEPT !.opened = FALSE]
<1>2. DOMAIN p = {"files", "noted", "opened", "manifest"} /\ p.noted \subseteq DOMAIN p.files
  BY <1>1 DEF IInv, Resumable
<1>3. /\ DOMAIN v = {"files", "noted", "opened", "manifest"} /\ v.manifest = p.manifest
      /\ v.noted \subseteq DOMAIN v.files /\ v.files = p.files
  BY <1>2
<1>4. partial' = [partial EXCEPT ![Target] = v]
  BY DEF UnlinkPartial
<1> HIDE DEF v
<1>5. DOMAIN partial' = DOMAIN partial /\ Resumable(partial') /\ partial'[Target] = v
  BY <1>1, <1>3, <1>4, FieldChanges
<1>6. Forwarded(Target)' = Forwarded(Target)
  BY <1>1, <1>3, <1>5 DEF Forwarded, UnlinkPartial
<1>7. /\ Lead \in DOMAIN p.files /\ p.manifest = {Forwarded(Target)}
      /\ Target \in DOMAIN archive /\ archive[Target] = Forwarded(Target)
  BY DEF IInv, Knows, UnlinkPartial, At
<1> HIDE DEF p
<1>8. Knows' /\ RefusesOnlyRetired'
  BY <1>1, <1>3, <1>5, <1>6, <1>7 DEF Knows, RefusesOnlyRetired, At, Building, UnlinkPartial
<1> QED BY <1>1, <1>5, <1>8, PartialChanges DEF IInv, UnlinkPartial

\* Publish keeps the invariant: what it renames into place is what was
\* archived.
LEMMA PublishKeeps ==
    ASSUME IInv, Publish
    PROVE  IInv'
<1>1. Committed(Target) = Forwarded(Target) /\ Lead \in DOMAIN partial[Target].files
  BY CommittedForwarded DEF Publish, At
<1>2. Target \in DOMAIN archive /\ archive[Target] = Forwarded(Target)
  BY DEF IInv, Knows, Publish, At
<1>3. Go("seal state")
  BY <1>1, <1>2 DEF Publish
<1>4. /\ Open(journal, run, Target) /\ Target \notin DOMAIN live /\ Target \in DOMAIN partial
      /\ run' \in Processes /\ run'.pc = "seal state"
      /\ Target' = Target /\ Open(journal, run, Target)'
  <2>1. run.pc \in Building /\ "seal state" \in Places
    BY DEF Publish, At, Building, Places
  <2> QED BY <1>3, <2>1, Underway DEF Publish
<1>5. live' = With(live, Target, Forwarded(Target)) /\ Target \in DOMAIN live'
  BY <1>1 DEF Publish, With
<1>6. Stored(journal, live, archive)'
  <2>1. Follows(journal, Target, archive[Target])
    BY <1>1, <1>2, <1>4, ForwardedFollows
  <2>2. Target \in Layers
    BY <1>4 DEF Open
  <2>3. Stored(journal, With(live, Target, Forwarded(Target)), archive)
    BY <1>2, <1>4, <2>1, <2>2, StoredPublished DEF IInv
  <2> QED BY <2>3, <1>5 DEF Publish, Stored
<1>7. Resumable(partial')
  <2>1. DOMAIN partial' \subseteq DOMAIN partial /\ \A x \in DOMAIN partial' : partial'[x] = partial[x]
    BY DEF Publish, Without, Restrict
  <2> QED BY <2>1 DEF IInv, Resumable
<1>8. Knows' /\ RefusesOnlyRetired'
  BY <1>4, <1>5 DEF Knows, RefusesOnlyRetired, At, Building, Publish
<1> QED BY <1>4, <1>6, <1>7, <1>8 DEF IInv, Publish

\* SealState keeps the invariant.
LEMMA SealStateKeeps ==
    ASSUME IInv, SealState
    PROVE  IInv'
<1>1. Open(journal, run, Target) /\ Target \in DOMAIN live
  BY DEF IInv, Knows, SealState
<1>2. /\ Target \in Layers /\ State(Target) \notin DOMAIN journal
      /\ Target \in DOMAIN archive /\ Follows(journal, Target, archive[Target])
  BY <1>1 DEF Open, IInv, Stored
<1>3. journal' = With(journal, State(Target), archive[Target]) /\ run' = AfterSeal
  BY <1>2 DEF SealState, Sealable, SealStage, Has, State
<1>4. State(Target) \in DOMAIN journal'
  BY <1>3 DEF With
<1>5. Chained(journal')
  BY <1>2, <1>3, SealableState DEF IInv
<1>6. Kept(journal', artifact', progress')
  <2>1. Kept(journal', artifact, progress)
    BY <1>2, <1>3, KeptState DEF IInv
  <2> QED BY <2>1 DEF SealState
<1>7. Stored(journal, live, archive)'
  <2>1. Stored(journal', live, archive)
    BY <1>1, <1>2, <1>3, StoredState DEF IInv
  <2> QED BY <2>1 DEF SealState, Stored
<1>8. Resumable(partial') /\ retiring' \in BOOLEAN
  BY DEF IInv, SealState
<1>9. run' \in Processes /\ Knows' /\ RefusesOnlyRetired'
  <2>1. CASE run.initializing
    <3>1. run' = AtLayer(FirstLayer) /\ Target = FirstLayer
      BY <1>1, <1>3, <2>1 DEF AfterSeal, Open
    <3>2. run' \in Processes /\ run'.pc = "layer" /\ run'.layer = Target /\ run'.initializing = FALSE
      BY <1>2, <3>1, AtsLayer DEF IInv
    <3> QED BY <1>4, <3>2 DEF Knows, RefusesOnlyRetired, At, Building, State
  <2>2. CASE ~run.initializing /\ ~retiring
    <3>1. run' = AtLayer(Target)
      BY <1>1, <1>3, <2>2 DEF AfterSeal, Open
    <3>2. run' \in Processes /\ run'.pc = "layer" /\ run'.layer = Target /\ run'.initializing = FALSE
      BY <1>2, <3>1, AtsLayer DEF IInv
    <3> QED BY <1>4, <3>2 DEF Knows, RefusesOnlyRetired, At, Building, State
  <2>3. CASE ~run.initializing /\ retiring
    <3>1. Go("retire") /\ Target = run.layer + 1 /\ run.layer \in Layers
      BY <1>1, <1>3, <2>3 DEF AfterSeal, Open, Go, IInv, Processes
    <3>2. /\ run' \in Processes /\ run'.pc = "retire"
          /\ run'.layer = run.layer /\ run'.initializing = run.initializing
      BY <3>1, Goes DEF IInv, Places
    <3>3. run.layer < LastLayer
      BY <1>2, <3>1, LayerWalkAssumption DEF Layers
    <3>4. State(run.layer + 2) \notin DOMAIN journal'
      <4>1. SUFFICES ASSUME State(run.layer + 2) \in DOMAIN journal' PROVE FALSE
        OBVIOUS
      <4>2. run.layer + 2 \in Layers
        BY <1>5, <4>1, NothingBeyond
      <4>3. State(run.layer + 2) \in DOMAIN journal
        <5>1. run.layer + 2 # Target
          BY <3>1, LayerWalkAssumption DEF Layers
        <5> QED BY <1>3, <4>1, <5>1 DEF With, State
      <4>4. << "encoded", Target >> \in DOMAIN journal
        <5>1. Target < run.layer + 2
          BY <3>1, LayerWalkAssumption DEF Layers
        <5> QED BY <1>2, <4>2, <4>3, <5>1 DEF IInv, Chained
      <4> QED BY <1>2, <4>4 DEF IInv, Chained
    <3> QED BY <1>4, <2>3, <3>1, <3>2, <3>3, <3>4 DEF Knows, RefusesOnlyRetired, At, Building, SealState
  <2> QED BY <2>1, <2>2, <2>3 DEF IInv
<1> QED BY <1>5, <1>6, <1>7, <1>8, <1>9 DEF IInv

\* Retire keeps the invariant: the successor is sealed and loads.
LEMMA RetireKeeps ==
    ASSUME IInv, Retire
    PROVE  IInv'
<1>1. /\ retiring /\ ~run.initializing /\ run.layer < LastLayer /\ run.layer \in Layers
      /\ State(run.layer + 1) \in DOMAIN journal /\ State(run.layer + 2) \notin DOMAIN journal
  BY DEF IInv, Knows, Retire, At, Processes
<1>2. run.layer + 1 \in Layers /\ (run.layer + 1) + 1 = run.layer + 2
  BY <1>1, LayerWalkAssumption DEF Layers
<1>3. Loads(run.layer + 1)
  BY <1>1, <1>2, NewestLoads DEF IInv
<1>4. Go("remove") /\ live' = Without(live, run.layer)
  BY <1>3 DEF Retire, Retired
<1>5. /\ run' \in Processes /\ run'.pc = "remove"
      /\ run'.layer = run.layer /\ run'.initializing = run.initializing
  BY <1>4, Goes DEF IInv, Places
<1>6. Stored(journal, live, archive)'
  <2>1. Stored(journal, Without(live, run.layer), archive)
    BY <1>1, StoredRetired DEF IInv
  <2> QED BY <2>1, <1>4 DEF Retire, Stored
<1>7. Knows' /\ RefusesOnlyRetired'
  BY <1>1, <1>5 DEF Knows, RefusesOnlyRetired, At, Building, Retire
<1> QED BY <1>5, <1>6, <1>7 DEF IInv, Retire

\* RemoveRetired keeps the invariant.
LEMMA RemoveRetiredKeeps ==
    ASSUME IInv, RemoveRetired
    PROVE  IInv'
<1>1. /\ run.layer < LastLayer /\ run.layer \in Layers
      /\ State(run.layer + 1) \in DOMAIN journal
  BY DEF IInv, Knows, RemoveRetired, At, Processes
<1>2. run.layer + 1 \in Layers
  BY <1>1, LayerWalkAssumption DEF Layers
<1>3. /\ run' \in Processes /\ run'.pc = "layer" /\ run'.layer = run.layer + 1
      /\ run'.initializing = FALSE
  BY <1>2, AtsLayer DEF IInv, RemoveRetired
<1>4. Knows' /\ RefusesOnlyRetired'
  BY <1>1, <1>3 DEF Knows, RefusesOnlyRetired, At, Building, RemoveRetired, State
<1> QED BY <1>3, <1>4 DEF IInv, RemoveRetired, Stored

-----------------------------------------------------------------------------
(* Layers *)

\* The stages of no state and no layer: the boundary and the walk.
LEMMA OtherStage ==
    ASSUME IInv, NEW stage \in {<< "boundary", LastLayer >>, Walk}, NEW c, stage \notin DOMAIN journal,
           stage = Walk => Walk \in DOMAIN artifact /\ c = artifact[Walk],
           << "encoded", LastLayer >> \in DOMAIN journal
    PROVE  /\ Chained(With(journal, stage, c)) /\ Kept(With(journal, stage, c), artifact, progress)
           /\ Stored(With(journal, stage, c), live, archive)
<1> DEFINE w == With(journal, stage, c)
<1>1. /\ DOMAIN w = DOMAIN journal \cup {stage} /\ w[stage] = c
      /\ \A x \in DOMAIN journal : w[x] = journal[x]
  BY DEF With
<1> HIDE DEF w
<1>2. \A l : State(l) \in DOMAIN w <=> State(l) \in DOMAIN journal
  BY <1>1 DEF State, Walk
<1>3. \A kind \in Kinds : \A l : << kind, l >> \in DOMAIN w <=> << kind, l >> \in DOMAIN journal
  BY <1>1 DEF Kinds, Walk
<1>4. Walk # << "boundary", LastLayer >>
  BY DEF Walk
<1>5. \A kind \in Kinds, l \in Layers : << kind, l >> \in DOMAIN journal => State(l) \in DOMAIN journal
  BY DEF IInv, Chained, Kinds
<1>6. \A l \in Layers : State(l) \in DOMAIN journal /\ l > FirstLayer =>
         l - 1 \in Layers /\ State(l - 1) \in DOMAIN journal
  BY Descends DEF IInv
<1>7. Chained(w)
  <2>1. DOMAIN w \subseteq Stages
    BY <1>1 DEF Stages, IInv, Chained
  <2>2. \A l \in Layers : State(l) \in DOMAIN w =>
          /\ w[State(l)] \in Seq(Pools)
          /\ \A k \in Layers : k < l => << "encoded", k >> \in DOMAIN w
          /\ l > FirstLayer => \E p \in Pools : w[State(l)] = Append(w[State(l - 1)], p)
    BY <1>1, <1>2, <1>3, <1>6 DEF IInv, Chained, Kinds
  <2>3. \A l \in Layers :
          /\ << "encoded", l >> \in DOMAIN w => << "search", l >> \in DOMAIN w
          /\ << "search", l >> \in DOMAIN w => << "capture", l >> \in DOMAIN w
          /\ << "capture", l >> \in DOMAIN w => State(l) \in DOMAIN w
    BY <1>2, <1>3 DEF IInv, Chained, Kinds
  <2>4. \A kind \in Kinds, l \in Layers : << kind, l >> \in DOMAIN w => w[<< kind, l >>] = w[State(l)]
    BY <1>1, <1>3, <1>5 DEF IInv, Chained
  <2> QED BY <1>1, <2>1, <2>2, <2>3, <2>4 DEF Chained
<1>8. Kept(w, artifact, progress)
  BY <1>1, <1>2, <1>3, <1>4 DEF IInv, Kept, Kinds
<1>9. Stored(w, live, archive)
  <2>1. \A l \in DOMAIN live : l \in Layers /\ Follows(w, l, live[l])
    <3> SUFFICES ASSUME NEW l \in DOMAIN live PROVE l \in Layers /\ Follows(w, l, live[l])
      OBVIOUS
    <3>1. l \in Layers /\ Follows(journal, l, live[l])
      BY DEF IInv, Stored
    <3>2. CASE l > FirstLayer /\ << "encoded", l - 1 >> \in DOMAIN journal
      <4>1. l - 1 \in Layers
        BY <3>1, <3>2, LayerWalkAssumption DEF Layers
      <4>2. State(l - 1) \in DOMAIN journal
        BY <3>2, <4>1, <1>5 DEF Kinds
      <4> QED BY <1>1, <3>1, <4>2 DEF Follows
    <3>3. CASE ~(l > FirstLayer /\ << "encoded", l - 1 >> \in DOMAIN journal)
      BY <3>1, <3>3 DEF Follows
    <3> QED BY <3>2, <3>3
  <2> QED BY <1>1, <1>2, <2>1 DEF IInv, Stored
<1> QED BY <1>7, <1>8, <1>9 DEF w

\* The state of the layer a process works on.
LEMMA Working ==
    ASSUME IInv, AtWork(journal, run)
    PROVE  /\ run.layer \in Layers /\ State(run.layer) \in DOMAIN journal
           /\ StateOf(run.layer) = journal[State(run.layer)]
<1>1. run.layer \in Layers
  BY DEF IInv, Processes
<1> QED BY <1>1, NewestLoads DEF AtWork, IInv, StateOf

\* Progress files of sealed states keep the artifacts as they are known.
LEMMA KeptProgress ==
    ASSUME NEW j, NEW a, NEW pr, Kept(j, a, pr), NEW w,
           \A l \in Layers : l \in DOMAIN w => State(l) \in DOMAIN j /\ w[l].of = j[State(l)]
    PROVE  Kept(j, a, w)
BY DEF Kept

\* CaptureShard keeps the invariant: progress left by a killed run is of the
\* same state.
LEMMA CaptureShardKeeps ==
    ASSUME IInv, CaptureShard
    PROVE  IInv'
<1>1. AtWork(journal, run)
  BY DEF IInv, Knows, CaptureShard, At
<1>2. /\ run.layer \in Layers /\ State(run.layer) \in DOMAIN journal
      /\ StateOf(run.layer) = journal[State(run.layer)]
  BY <1>1, Working
<1>3. ~(run.layer \in DOMAIN progress /\ progress[run.layer].of # StateOf(run.layer))
  BY <1>2 DEF IInv, Kept
<1>4. PICK s \in Shards \ Routed :
          progress' = With(progress, run.layer, [of |-> StateOf(run.layer), shards |-> Routed \cup {s}])
  BY <1>3 DEF CaptureShard
<1>5. /\ UNCHANGED run
      /\ UNCHANGED << retiring, journal, live, archive, partial, leftovers, artifact >>
  BY <1>3 DEF CaptureShard
<1>6. \A l \in Layers : l \in DOMAIN progress' =>
         State(l) \in DOMAIN journal /\ progress'[l].of = journal[State(l)]
  BY <1>2, <1>4 DEF IInv, Kept, With
<1>7. Kept(journal', artifact', progress')
  BY <1>5, <1>6, KeptProgress DEF IInv
<1>8. Knows' /\ RefusesOnlyRetired'
  BY <1>1, <1>5 DEF Knows, RefusesOnlyRetired, At, Building, CaptureShard, AtWork
<1> QED BY <1>5, <1>7, <1>8 DEF IInv, Stored

\* WriteCapture keeps the invariant.
LEMMA WriteCaptureKeeps ==
    ASSUME IInv, WriteCapture
    PROVE  IInv'
<1>1. AtWork(journal, run)
  BY DEF IInv, Knows, WriteCapture, At
<1>2. run.layer \in Layers /\ State(run.layer) \in DOMAIN journal
  BY <1>1, Working
<1>3. run.layer \in DOMAIN progress
  BY LayerWalkAssumption DEF WriteCapture, Routed
<1>4. artifact' = With(artifact, << "capture", run.layer >>, journal[State(run.layer)])
  BY <1>2, <1>3 DEF WriteCapture, IInv, Kept
<1>5. Kept(journal, artifact', progress)
  BY <1>2, <1>4, KeptArtifact DEF IInv, Kinds
<1>6. \A l \in Layers : l \in DOMAIN progress' =>
         State(l) \in DOMAIN journal /\ progress'[l].of = journal[State(l)]
  BY DEF IInv, Kept, Without, Restrict, WriteCapture
<1>7. Kept(journal', artifact', progress')
  BY <1>5, <1>6, KeptProgress DEF WriteCapture
<1>8. Knows' /\ RefusesOnlyRetired'
  BY <1>1 DEF Knows, RefusesOnlyRetired, At, Building, WriteCapture, AtWork
<1> QED BY <1>7, <1>8 DEF IInv, Stored, WriteCapture

\* A kind of the layer at work is sealed, with the digest of its state.
LEMMA KindSealed ==
    ASSUME IInv, AtWork(journal, run), NEW kind \in Kinds, Before(kind, run.layer) \in DOMAIN journal,
           << kind, run.layer >> \in DOMAIN artifact,
           SealStage(<< kind, run.layer >>, artifact[<< kind, run.layer >>]),
           UNCHANGED << retiring, live, archive, partial, leftovers, progress, artifact >>
    PROVE  /\ retiring' \in BOOLEAN /\ Chained(journal') /\ Kept(journal', artifact', progress')
           /\ Stored(journal, live, archive)' /\ Resumable(partial')
           /\ << kind, run.layer >> \in DOMAIN journal'
           /\ \A l : State(l) \in DOMAIN journal' <=> State(l) \in DOMAIN journal
<1> DEFINE stage == << kind, run.layer >>
<1>1. run.layer \in Layers /\ State(run.layer) \in DOMAIN journal
  BY Working
<1>2. artifact[stage] = journal[State(run.layer)]
  BY <1>1 DEF IInv, Kept
<1>3. CASE stage \in DOMAIN journal
  <2>1. journal' = journal
    BY <1>3 DEF SealStage, Has
  <2> QED BY <1>3, <2>1 DEF IInv, Stored
<1>4. CASE stage \notin DOMAIN journal
  <2>1. journal' = With(journal, stage, journal[State(run.layer)])
    BY <1>2, <1>4 DEF SealStage, Has
  <2>2. Chained(journal')
    BY <1>1, <1>4, <2>1, SealableKind DEF IInv
  <2>3. Kept(journal', artifact, progress)
    BY <1>1, <1>4, <2>1, KeptKind DEF IInv
  <2>4. Stored(journal', live, archive)
    BY <1>4, <2>1, StoredKind DEF IInv
  <2>5. DOMAIN journal' = DOMAIN journal \cup {stage}
    BY <2>1 DEF With
  <2>6. \A l : State(l) \in DOMAIN journal' <=> State(l) \in DOMAIN journal
    BY <2>5 DEF State, Kinds
  <2>7. Stored(journal, live, archive)'
    BY <2>4 DEF Stored
  <2> QED BY <2>2, <2>3, <2>5, <2>6, <2>7 DEF IInv
<1> QED BY <1>3, <1>4

\* SealCapture keeps the invariant: the capture is bound to the state of the
\* layer.
LEMMA SealCaptureKeeps ==
    ASSUME IInv, SealCapture
    PROVE  IInv'
<1>1. AtWork(journal, run) /\ << "capture", run.layer >> \in DOMAIN artifact
  BY DEF IInv, Knows, SealCapture, Captured, At
<1>2. /\ run.layer \in Layers /\ State(run.layer) \in DOMAIN journal
      /\ StateOf(run.layer) = journal[State(run.layer)]
  BY <1>1, Working
<1>3. /\ artifact[<< "capture", run.layer >>] = StateOf(run.layer)
      /\ Sealable(<< "capture", run.layer >>, artifact[<< "capture", run.layer >>])
  BY <1>1, <1>2 DEF IInv, Kept, Chained, Kinds, Sealable, Has
<1>4. SealStage(<< "capture", run.layer >>, artifact[<< "capture", run.layer >>]) /\ Go("search")
  BY <1>3 DEF SealCapture
<1>5. /\ retiring' \in BOOLEAN /\ Chained(journal') /\ Kept(journal', artifact', progress')
      /\ Stored(journal, live, archive)' /\ Resumable(partial')
      /\ << "capture", run.layer >> \in DOMAIN journal'
      /\ \A l : State(l) \in DOMAIN journal' <=> State(l) \in DOMAIN journal
  <2>1. "capture" \in Kinds /\ Before("capture", run.layer) \in DOMAIN journal
    BY <1>2 DEF Kinds, Before
  <2> QED BY <1>1, <1>4, <2>1, KindSealed DEF SealCapture
<1>6. /\ run' \in Processes /\ run'.pc = "search"
      /\ run'.layer = run.layer /\ run'.initializing = run.initializing
  BY <1>4, Goes DEF IInv, Places
<1>7. Knows' /\ RefusesOnlyRetired'
  BY <1>1, <1>5, <1>6 DEF Knows, RefusesOnlyRetired, At, Building, AtWork
<1> QED BY <1>5, <1>6, <1>7 DEF IInv

\* WriteArtifact keeps the invariant.
LEMMA WriteArtifactKeeps ==
    ASSUME IInv, NEW kind \in {"search", "encoded"}, WriteArtifact(kind)
    PROVE  IInv'
<1>1. AtWork(journal, run) /\ << Precedes(kind), run.layer >> \in DOMAIN journal
  BY DEF IInv, Knows, WriteArtifact, At, Precedes
<1>2. run.layer \in Layers /\ State(run.layer) \in DOMAIN journal
  BY <1>1, Working
<1>3. artifact[<< Precedes(kind), run.layer >>] = journal[State(run.layer)]
  BY <1>1, <1>2 DEF IInv, Kept, Kinds, Precedes
<1>4. artifact' = With(artifact, << kind, run.layer >>, journal[State(run.layer)])
  BY <1>3 DEF WriteArtifact
<1>5. Kept(journal, artifact', progress) /\ << kind, run.layer >> \in DOMAIN artifact'
  <2>1. kind \in Kinds
    BY DEF Kinds
  <2>2. << kind, run.layer >> \in DOMAIN artifact'
    BY <1>4 DEF With
  <2> QED BY <1>2, <1>4, <2>1, <2>2, KeptArtifact DEF IInv
<1>6. /\ run' \in Processes /\ run'.pc = IF kind = "search" THEN "seal search" ELSE "seal encoded"
      /\ run'.layer = run.layer /\ run'.initializing = run.initializing
  <2>1. Sealing[kind] = IF kind = "search" THEN "seal search" ELSE "seal encoded"
    <3>1. CASE kind = "search"
      BY <3>1 DEF Sealing
    <3>2. CASE kind = "encoded"
      BY <3>2 DEF Sealing
    <3> QED BY <3>1, <3>2
  <2>2. Sealing[kind] \in Places
    BY <2>1 DEF Places
  <2> QED BY <2>1, <2>2, Goes DEF IInv, WriteArtifact
<1>7. Knows' /\ RefusesOnlyRetired'
  BY <1>1, <1>5, <1>6 DEF Knows, RefusesOnlyRetired, At, Building, AtWork, WriteArtifact, Precedes
<1> QED BY <1>5, <1>6, <1>7 DEF IInv, WriteArtifact, Stored

\* SealArtifact keeps the invariant.
LEMMA SealArtifactKeeps ==
    ASSUME IInv, NEW kind \in {"search", "encoded"}, SealArtifact(kind)
    PROVE  IInv'
<1>1. At(IF kind = "search" THEN "seal search" ELSE "seal encoded")
  <2>1. CASE kind = "search"
    BY <2>1 DEF SealArtifact, Sealing
  <2>2. CASE kind = "encoded"
    BY <2>2 DEF SealArtifact, Sealing
  <2> QED BY <2>1, <2>2
<1>2. /\ AtWork(journal, run) /\ << Precedes(kind), run.layer >> \in DOMAIN journal
      /\ << kind, run.layer >> \in DOMAIN artifact
  BY <1>1 DEF IInv, Knows, At, Precedes
<1>3. run.layer \in Layers /\ State(run.layer) \in DOMAIN journal /\ kind \in Kinds
  BY <1>2, Working DEF Kinds
<1>4. Sealable(<< kind, run.layer >>, artifact[<< kind, run.layer >>])
  BY <1>2, <1>3 DEF IInv, Kept, Chained, Sealable, Has
<1>5. SealStage(<< kind, run.layer >>, artifact[<< kind, run.layer >>]) /\ Go(Following(kind))
  BY <1>4 DEF SealArtifact
<1>6. /\ retiring' \in BOOLEAN /\ Chained(journal') /\ Kept(journal', artifact', progress')
      /\ Stored(journal, live, archive)' /\ Resumable(partial')
      /\ << kind, run.layer >> \in DOMAIN journal'
      /\ \A l : State(l) \in DOMAIN journal' <=> State(l) \in DOMAIN journal
  <2>1. Before(kind, run.layer) \in DOMAIN journal
    BY <1>2 DEF Before
  <2> QED BY <1>2, <1>3, <1>5, <2>1, KindSealed DEF SealArtifact
<1>7. /\ run' \in Processes /\ run'.pc = IF kind = "search" THEN "encoded" ELSE "forward"
      /\ run'.layer = run.layer /\ run'.initializing = run.initializing
  <2>1. Following(kind) = (IF kind = "search" THEN "encoded" ELSE "forward") /\ Following(kind) \in Places
    BY DEF Following, Places
  <2> QED BY <1>5, <2>1, Goes DEF IInv
<1>8. Knows' /\ RefusesOnlyRetired'
  BY <1>2, <1>6, <1>7 DEF Knows, RefusesOnlyRetired, At, Building, AtWork
<1> QED BY <1>6, <1>7, <1>8 DEF IInv

\* SealBoundary keeps the invariant.
LEMMA SealBoundaryKeeps ==
    ASSUME IInv, SealBoundary
    PROVE  IInv'
<1> DEFINE stage == << "boundary", LastLayer >>
<1>1. /\ AtWork(journal, run) /\ << "encoded", LastLayer >> \in DOMAIN journal
      /\ run.layer = LastLayer
  BY DEF IInv, Knows, At, SealBoundary
<1>2. LastLayer \in Layers /\ State(LastLayer) \in DOMAIN journal
  BY <1>1, Working
<1>3. \A l \in Layers : << "encoded", l >> \in DOMAIN journal
  <2>1. \A l \in Layers : l = LastLayer \/ l < LastLayer
    BY LayerWalkAssumption DEF Layers
  <2> QED BY <1>1, <1>2, <2>1 DEF IInv, Chained
<1>4. /\ Chained(journal') /\ Kept(journal', artifact, progress) /\ Stored(journal', live, archive)
      /\ DOMAIN journal \subseteq DOMAIN journal'
  <2>1. CASE stage \in DOMAIN journal
    BY <2>1 DEF SealBoundary, SealStage, Has, IInv
  <2>2. CASE stage \notin DOMAIN journal
    <3>1. journal' = With(journal, stage, << >>)
      BY <2>2 DEF SealBoundary, SealStage, Has
    <3>2. stage # Walk
      BY DEF Walk
    <3>3. DOMAIN journal \subseteq DOMAIN journal'
      BY <3>1 DEF With
    <3> QED BY <1>1, <2>2, <3>1, <3>2, <3>3, OtherStage
  <2> QED BY <2>1, <2>2
<1>5. run' \in Processes /\ run'.pc = "finalize"
  BY Goes DEF IInv, Places, SealBoundary
<1>6. Knows' /\ RefusesOnlyRetired'
  BY <1>3, <1>4, <1>5 DEF Knows, RefusesOnlyRetired, At, Building
<1> QED BY <1>4, <1>5, <1>6 DEF IInv, SealBoundary, Stored

\* Writing the completion of a walk whose layers are all sealed.
LEMMA KeptWalk ==
    ASSUME NEW j, NEW a, NEW pr, Kept(j, a, pr), \A l \in Layers : << "encoded", l >> \in DOMAIN j,
           NEW c, c = [l \in Layers |-> a[<< "encoded", l >>]], Walk \in DOMAIN a => a[Walk] = c
    PROVE  Kept(j, With(a, Walk, c), pr)
<1> DEFINE w == With(a, Walk, c)
<1>1. /\ DOMAIN w = DOMAIN a \cup {Walk} /\ w[Walk] = c
      /\ \A x \in DOMAIN a : x # Walk => w[x] = a[x]
      /\ \A x : x # Walk => (x \in DOMAIN w <=> x \in DOMAIN a)
  BY DEF With
<1> HIDE DEF w
<1>2. \A kind \in Kinds : \A l : << kind, l >> # Walk
  BY DEF Kinds, Walk
<1>3. \A l \in Layers : << "encoded", l >> \in DOMAIN a /\ w[<< "encoded", l >>] = a[<< "encoded", l >>]
  BY <1>1, <1>2 DEF Kept, Kinds
<1>4. w[Walk] = [l \in Layers |-> w[<< "encoded", l >>]]
  BY <1>1, <1>3
<1> QED BY <1>1, <1>2, <1>4 DEF Kept, w

\* WriteCompletion keeps the invariant: all layers are sealed and a completion
\* that is there is the same.
LEMMA WriteCompletionKeeps ==
    ASSUME IInv, WriteCompletion
    PROVE  IInv'
<1>1. \A l \in Layers : << "encoded", l >> \in DOMAIN journal
  BY DEF IInv, Knows, At, WriteCompletion
<1>2. \A l \in Layers, kind \in Kinds : Has(<< kind, l >>)
  BY <1>1 DEF IInv, Chained, Kinds, Has
<1>3. ~(Walk \in DOMAIN artifact /\ artifact[Walk] # Manifests)
  BY DEF IInv, Kept, Manifests
<1>4. artifact' = With(artifact, Walk, Manifests) /\ Go("seal walk")
  BY <1>2, <1>3 DEF WriteCompletion
<1>5. Kept(journal, artifact', progress)
  BY <1>1, <1>3, <1>4, KeptWalk DEF IInv, Manifests
<1>6. Walk \in DOMAIN artifact'
  BY <1>4 DEF With
<1>7. run' \in Processes /\ run'.pc = "seal walk"
  BY <1>4, Goes DEF IInv, Places
<1>8. Knows' /\ RefusesOnlyRetired'
  BY <1>1, <1>6, <1>7 DEF Knows, RefusesOnlyRetired, At, Building, WriteCompletion
<1> QED BY <1>5, <1>7, <1>8 DEF IInv, WriteCompletion, Stored

\* SealWalk keeps the invariant.
LEMMA SealWalkKeeps ==
    ASSUME IInv, SealWalk
    PROVE  IInv'
<1>1. (\A l \in Layers : << "encoded", l >> \in DOMAIN journal) /\ Walk \in DOMAIN artifact
  BY DEF IInv, Knows, At, SealWalk
<1>2. << "encoded", LastLayer >> \in DOMAIN journal
  BY <1>1, LayerWalkAssumption DEF Layers
<1>3. Chained(journal') /\ Kept(journal', artifact, progress) /\ Stored(journal', live, archive)
  <2>1. CASE Walk \in DOMAIN journal
    BY <2>1 DEF SealWalk, SealStage, Has, IInv
  <2>2. CASE Walk \notin DOMAIN journal
    <3>1. journal' = With(journal, Walk, artifact[Walk])
      BY <2>2 DEF SealWalk, SealStage, Has
    <3> QED BY <1>1, <1>2, <2>2, <3>1, OtherStage
  <2> QED BY <2>1, <2>2
<1>4. run' \in Processes /\ run'.pc = "done"
  BY Goes DEF IInv, Places, SealWalk
<1>5. Knows' /\ RefusesOnlyRetired'
  BY <1>4 DEF Knows, RefusesOnlyRetired, At, Building
<1> QED BY <1>3, <1>4, <1>5 DEF IInv, SealWalk, Stored

-----------------------------------------------------------------------------
(* Theorems *)

\* A walk that has not begun satisfies the invariant.
LEMMA InitHolds ==
    ASSUME Init
    PROVE  IInv
<1>1. run \in Processes /\ run.pc = "down"
  <2>1. FirstLayer \in Layers /\ (CHOOSE p \in Pools : TRUE) \in Pools
    BY LayerWalkAssumption DEF Layers
  <2> QED BY <2>1 DEF Init, Processes, Places
<1>2. Knows /\ RefusesOnlyRetired
  BY <1>1 DEF Knows, RefusesOnlyRetired, At, Building
<1>3. retiring \in BOOLEAN
  BY LayerWalkAssumption DEF Init
<1>4. /\ DOMAIN journal = {} /\ DOMAIN live = {} /\ DOMAIN archive = {} /\ DOMAIN partial = {}
      /\ DOMAIN progress = {} /\ DOMAIN artifact = {}
  BY DEF Init, Nothing
<1>5. Chained(journal) /\ Kept(journal, artifact, progress) /\ Stored(journal, live, archive) /\ Resumable(partial)
  BY <1>4 DEF Chained, Kept, Stored, Resumable
<1> QED BY <1>1, <1>2, <1>3, <1>5 DEF IInv

\* Every step of the walk keeps the invariant.
LEMMA StepKeeps ==
    ASSUME IInv, [Next]_vars
    PROVE  IInv'
<1>1. CASE UNCHANGED vars
  <2>1. UNCHANGED << retiring, journal, live, archive, partial, progress, artifact, run >>
    BY <1>1 DEF vars, disk
  <2>2. /\ Target' = Target /\ Forwarded(Target)' = Forwarded(Target)
        /\ Pending' = Pending /\ Transition' = Transition
    BY <2>1 DEF Target, Forwarded, Pending, Transition
  <2>3. Knows' /\ RefusesOnlyRetired'
    <3>1. Knows /\ RefusesOnlyRetired
      BY DEF IInv
    <3>2. Knows'
      BY <2>1, <2>2, <3>1 DEF Knows, At, Building, Open, AtWork
    <3>3. RefusesOnlyRetired'
      BY <2>1, <3>1 DEF RefusesOnlyRetired, At, Has
    <3> QED BY <3>2, <3>3
  <2> QED BY <2>1, <2>3 DEF IInv, Stored
<1>2. CASE \E pool \in Pools : Boot(pool)
  BY <1>2, BootKeeps
<1>3. CASE Kill \/ Rerun
  BY <1>3, DownKeeps
<1>4. CASE Advance
  <2>1. CASE Initialize \/ Adopt \/ BeginTransition
    BY <2>1, InitializeKeeps, AdoptKeeps, BeginTransitionKeeps
  <2>2. CASE WriteShard \/ NoteShard \/ WriteManifest
    BY <2>2, WriteShardKeeps, NoteShardKeeps, WriteManifestKeeps
  <2>3. CASE WriteArchive \/ UnlinkPartial \/ Publish
    BY <2>3, WriteArchiveKeeps, UnlinkPartialKeeps, PublishKeeps
  <2>4. CASE SealState \/ Retire \/ RemoveRetired
    BY <2>4, SealStateKeeps, RetireKeeps, RemoveRetiredKeeps
  <2>5. CASE SkipLayer \/ EnterLayer \/ CaptureShard
    BY <2>5, SkipLayerKeeps, EnterLayerKeeps, CaptureShardKeeps
  <2>6. CASE WriteCapture \/ SealCapture
    BY <2>6, WriteCaptureKeeps, SealCaptureKeeps
  <2>7. CASE \E kind \in {"search", "encoded"} : WriteArtifact(kind) \/ SealArtifact(kind)
    BY <2>7, WriteArtifactKeeps, SealArtifactKeeps
  <2>8. CASE SealBoundary \/ WriteCompletion \/ SealWalk
    BY <2>8, SealBoundaryKeeps, WriteCompletionKeeps, SealWalkKeeps
  <2> QED BY <1>4, <2>1, <2>2, <2>3, <2>4, <2>5, <2>6, <2>7, <2>8 DEF Advance
<1> QED BY <1>1, <1>2, <1>3, <1>4 DEF Next

\* IInv holds in every state: of any walk, started, killed and resumed on any
\* pools any number of times.
THEOREM Invariance == Spec => []IInv
<1>1. Init => IInv
  BY InitHolds
<1>2. IInv /\ [Next]_vars => IInv'
  BY StepKeeps
<1> QED BY <1>1, <1>2, PTL DEF Spec

\* A run refuses its own directory for one reason only, a state that the walk
\* has retired (RefusesOnlyRetired: initialize and _run_layer of walk.py).
THEOREM RefusalsHold == Spec => []RefusesOnlyRetired
<1>1. IInv => RefusesOnlyRetired
  BY DEF IInv
<1> QED BY <1>1, Invariance, PTL

\* A set of layers that is not empty has a last one.
LEMMA LargestExists ==
    ASSUME NEW S, S # {}, S \subseteq Layers
    PROVE  \E l \in S : \A k \in S : k <= l
<1> DEFINE Above(l) == {k \in S : l < k}
           T == {Above(l) : l \in S}
           F == FiniteSubsetsOf(Layers)
           R == StrictSubsetOrdering(Layers)
<1>1. IsWellFoundedOn(R, F)
  BY FS_StrictSubsetOrderingWellFounded
<1>2. T \subseteq F
  <2>1. IsFiniteSet(Layers)
    BY FS_Interval, LayerWalkAssumption DEF Layers
  <2>2. \A l \in S : Above(l) \in SUBSET Layers
    OBVIOUS
  <2>3. \A l \in S : IsFiniteSet(Above(l))
    BY <2>1, <2>2, FS_Subset
  <2> QED BY <2>2, <2>3 DEF FiniteSubsetsOf
<1>3. T # {}
  OBVIOUS
<1>4. PICK x \in T : \A y \in T : ~ (<< y, x >> \in R)
  <2> HIDE DEF T, R, F
  <2> QED BY <1>1, <1>2, <1>3, WFMin
<1>5. PICK l \in S : x = Above(l)
  OBVIOUS
<1>6. ASSUME NEW k \in S, ~(k <= l) PROVE FALSE
  <2>1. l \in Nat /\ S \subseteq Nat /\ l < k
    BY <1>6, LayerWalkAssumption DEF Layers
  <2>2. k \in Above(l) /\ k \notin Above(k) /\ Above(k) \subseteq Above(l) /\ Above(k) \in T
    <3>1. k \in Above(l) /\ k \notin Above(k)
      BY <2>1
    <3>2. Above(k) \subseteq Above(l)
      <4> SUFFICES ASSUME NEW m \in S, k < m PROVE l < m
        OBVIOUS
      <4>1. m \in Nat /\ k \in Nat
        BY <2>1
      <4> QED BY <2>1, <4>1
    <3> QED BY <3>1, <3>2
  <2>3. Above(k) \in SUBSET Layers /\ Above(l) \in SUBSET Layers
    OBVIOUS
  <2>4. << Above(k), Above(l) >> \in R
    <3> HIDE DEF Above
    <3> QED BY <2>2, <2>3 DEF StrictSubsetOrdering
  <2> QED BY <1>4, <1>5, <2>2, <2>4
<1> QED BY <1>6

\* After any kill the journal is backed by files, every sealed state follows
\* from the one before, and the newest is on disk (JournalBacked: the seals of
\* state.py and walk.py).
THEOREM JournalHolds == Spec => []JournalBacked
<1>1. IInv => JournalBacked
  <2> SUFFICES ASSUME IInv PROVE JournalBacked
    OBVIOUS
  <2>1. \A l \in Sealed : l \in Layers /\ State(l) \in DOMAIN journal
    BY DEF Sealed, Has, State
  <2>2. ASSUME NEW l \in Sealed
        PROVE  /\ Recorded(<< "state", l >>)
               /\ l > FirstLayer =>
                      /\ Has(<< "encoded", l - 1 >>) /\ Has(<< "state", l - 1 >>)
                      /\ \E p \in Pools : journal[<< "state", l >>] = Append(journal[<< "encoded", l - 1 >>], p)
    <3>1. l \in Layers /\ State(l) \in DOMAIN journal
      BY <2>1
    <3>2. Recorded(<< "state", l >>)
      BY <3>1 DEF IInv, Stored, Recorded, State
    <3>3. CASE l > FirstLayer
      <4>1. l - 1 \in Layers /\ State(l - 1) \in DOMAIN journal /\ l - 1 < l
        BY <3>1, <3>3, Descends, LayerWalkAssumption DEF IInv, Layers
      <4>2. << "encoded", l - 1 >> \in DOMAIN journal
        BY <3>1, <4>1 DEF IInv, Chained
      <4>3. journal[<< "encoded", l - 1 >>] = journal[State(l - 1)]
        BY <4>1, <4>2 DEF IInv, Chained, Kinds
      <4>4. \E p \in Pools : journal[State(l)] = Append(journal[State(l - 1)], p)
        BY <3>1, <3>3 DEF IInv, Chained
      <4> QED BY <3>2, <4>1, <4>2, <4>3, <4>4 DEF Has, State
    <3> QED BY <3>2, <3>3
  <2>3. ASSUME NEW stage \in DOMAIN journal, stage[1] \in Kinds
        PROVE  journal[stage] = journal[<< "state", stage[2] >>]
    <3>1. stage \in Kinds \X Layers
      <4>1. stage \in Stages
        BY DEF IInv, Chained
      <4> QED BY <2>3, <4>1 DEF Stages, State, Walk, Kinds
    <3>2. PICK kind \in Kinds, l \in Layers : stage = << kind, l >>
      BY <3>1
    <3> QED BY <3>2 DEF IInv, Chained, State
  <2>4. ASSUME Sealed # {}
        PROVE  Loads(Newest)
    <3>1. \E l \in Sealed : \A k \in Sealed : k <= l
      BY <2>4, LargestExists DEF Sealed
    <3>2. Newest \in Sealed /\ \A k \in Sealed : k <= Newest
      BY <3>1 DEF Newest
    <3>3. Newest \in Layers /\ State(Newest) \in DOMAIN journal
      BY <2>1, <3>2
    <3>4. State(Newest + 1) \notin DOMAIN journal
      <4>1. SUFFICES ASSUME State(Newest + 1) \in DOMAIN journal PROVE FALSE
        OBVIOUS
      <4>2. Newest + 1 \in Sealed
        BY <4>1, NothingBeyond DEF IInv, Sealed, Has, State
      <4> QED BY <3>2, <3>3, <4>2, LayerWalkAssumption DEF Layers
    <3> QED BY <3>3, <3>4, NewestLoads DEF IInv
  <2> QED BY <2>2, <2>3, <2>4 DEF JournalBacked
<1> QED BY <1>1, Invariance, PTL

-----------------------------------------------------------------------------
(***************************************************************************)
(* Proof that a pool that is open is quiet between two calls, for every    *)
(* number of workers, every domain and every capacity of the pipe.         *)
(*                                                                         *)
(* QuietBetweenCalls speaks of the idle pool only; what makes it inductive *)
(* is where the one message between the coordinator and a worker can be at *)
(* any other moment.  A worker that a call does not wait for is Quiet.  A  *)
(* worker it waits for is Owing: its slice, its job or its answer is in    *)
(* one place, or died with it.  While the pool is built, Booting says the  *)
(* same of the announcement.  Feeds says that a feeder writes an answer it *)
(* has.  A pool that is being closed promises nothing, and never opens     *)
(* again.                                                                  *)
(***************************************************************************)

\* The phases in which the pool may still be called.
Callable == {"starting", "idle", "waiting", "empty"}
WorkerStates == {"starting", "idle", "working", "returned", "exited"}
Slices == UNION {[D -> Nat \X Workers] : D \in SUBSET Nat}
Messages == [kind : {"ready", "fatal", "result", "error"}, rank : Workers, job : Nat,
             values : Slices]

FeederStates == {"waiting", "locked", "writing", "written"}
IsDomain(domain) == domain \in [DOMAIN domain -> Nat] /\ DOMAIN domain \in SUBSET Nat

Types ==
    /\ worker \in [Workers -> WorkerStates]
    /\ DOMAIN job = Workers
    /\ inbound \in [Workers -> Seq([job : Nat, experts : SUBSET Nat])]
    /\ unsent \in [Workers -> Seq(Messages)]
    /\ outbound \in Seq(Messages)
    /\ call.job \in Nat /\ IsDomain(call.domain)
    /\ call.waiting \subseteq Concerned(call.domain)
    /\ call = [job |-> call.job, domain |-> call.domain, waiting |-> call.waiting,
               received |-> call.received]
    /\ ready \subseteq Workers

\* A feeder that holds the lock for an answer has it.
Feeds ==
    /\ feeder \in [Workers -> FeederStates]
    /\ \A r \in Workers : Alive(r) /\ feeder[r] \in {"locked", "writing"} => unsent[r] # << >>

\* What the call gives to rank r, and what r answers.
Slice(r) == [job |-> call.job, experts |-> Partition(call.domain, r)]
Values(r) == [e \in Partition(call.domain, r) |-> << call.job, r >>]

\* The pipe holds nothing of r, resp. at most one answer of each worker.
NoMail(r) == \A i \in DOMAIN outbound : outbound[i].rank # r
OneEach == \A i, j \in DOMAIN outbound : outbound[i].rank = outbound[j].rank => i = j

\* What r has put and what the pipe holds of it is one of the answers.
OnlyAnswers(r, answers) ==
    /\ unsent[r] # << >> => NoMail(r) /\ \E a \in answers : unsent[r] = << a >>
    /\ \A i \in DOMAIN outbound : outbound[i].rank = r => outbound[i] \in answers

Silent(r) == unsent[r] = << >> /\ NoMail(r)

Booting(r) ==
    /\ inbound[r] = << >> /\ worker[r] # "working"
    /\ worker[r] = "starting" => r \notin ready
    /\ worker[r] = "starting" \/ r \in ready => Silent(r)
    /\ OnlyAnswers(r, {Answer("ready", r, 0, NoValues), Answer("fatal", r, 0, NoValues)})

Quiet(r) ==
    /\ inbound[r] = << >> /\ worker[r] \notin {"starting", "working"} /\ Silent(r)

Owing(r) ==
    /\ worker[r] # "starting"
    /\ inbound[r] \in {<< >>, << Slice(r) >>}
    /\ inbound[r] # << >> => worker[r] # "working" /\ Silent(r)
    /\ worker[r] = "working" => job[r] = Slice(r) /\ Silent(r)
    /\ OnlyAnswers(r, {Answer("result", r, call.job, Values(r)),
                       Answer("error", r, call.job, NoValues)})

Serving ==
    /\ \A r \in Workers : IF r \in call.waiting THEN Owing(r) ELSE Quiet(r)
    /\ DOMAIN call.received = {e \in DOMAIN call.domain : Owner(call.domain, e) \notin call.waiting}
    /\ \A e \in DOMAIN call.received : call.received[e] = << call.job, Owner(call.domain, e) >>

PoolIInv ==
    phase \in Callable =>
        /\ Types /\ Feeds /\ OneEach
        /\ IF phase = "starting"
           THEN /\ \A r \in Workers : Booting(r)
                /\ call = NoCall /\ returned = NoValues
           ELSE ready = Workers /\ Serving
        /\ phase = "idle" => call.waiting = {} /\ returned = call.received

\* The ranks are 0 .. n - 1 and n is the number of devices (__init__).
LEMMA WorkerCount ==
    /\ Cardinality(Workers) \in Nat \ {0}
    /\ Workers = 0 .. Cardinality(Workers) - 1
<1>1. PICK n \in 2 .. Cardinality(Workers) : Workers = 0 .. n - 1
  BY ProcessPoolAssumption
<1>2. n \in Nat \ {0, 1}
  <2>1. n \in Int /\ n >= 2
    BY <1>1
  <2> QED BY <2>1
<1>3. Cardinality(Workers) = n
  BY <1>1, <1>2, FS_Interval
<1> QED BY <1>1, <1>2, <1>3

\* Every expert has one rank, which is concerned by the call (_stable_expert_partitions).
LEMMA Parts ==
    ASSUME NEW domain, IsDomain(domain)
    PROVE  /\ \A r : Partition(domain, r) \in SUBSET Nat
           /\ \A e \in DOMAIN domain : /\ Owner(domain, e) \in Workers
                                       /\ Owner(domain, e) \in Concerned(domain)
<1>1. \A r : Partition(domain, r) \in SUBSET Nat
  BY DEF Partition, IsDomain
<1>2. ASSUME NEW e \in DOMAIN domain
      PROVE  Owner(domain, e) \in Workers /\ Owner(domain, e) \in Concerned(domain)
  <2>1. PICK i \in Nat : i = domain[e]
    BY DEF IsDomain
  <2>2. Owner(domain, e) \in Workers
    <3>1. i % Cardinality(Workers) \in 0 .. Cardinality(Workers) - 1
      BY WorkerCount
    <3> QED BY <2>1, <3>1, WorkerCount DEF Owner
  <2>3. e \in Partition(domain, Owner(domain, e))
    BY DEF Partition
  <2> QED BY <2>2, <2>3 DEF Concerned
<1> QED BY <1>1, <1>2

\* An answer without values.
LEMMA NothingType == NoValues \in Slices /\ DOMAIN NoValues = {}
<1>1. NoValues \in [{} -> Nat \X Workers]
  BY DEF NoValues
<1> QED BY <1>1 DEF Slices, NoValues

\* An answer and its fields (_worker_main).
LEMMA AnswerType ==
    ASSUME NEW k \in {"ready", "fatal", "result", "error"}, NEW r \in Workers, NEW n \in Nat,
           NEW v \in Slices
    PROVE  /\ Answer(k, r, n, v) \in Messages
           /\ Answer(k, r, n, v).kind = k /\ Answer(k, r, n, v).rank = r
           /\ Answer(k, r, n, v).job = n /\ Answer(k, r, n, v).values = v
BY DEF Answer, Messages

\* The values a worker answers are those of its slice (_worker_main).
LEMMA ValuesType ==
    ASSUME call.job \in Nat, IsDomain(call.domain), NEW r \in Workers
    PROVE  Values(r) \in Slices
<1>1. Values(r) \in [Partition(call.domain, r) -> Nat \X Workers]
  BY DEF Values
<1>2. Partition(call.domain, r) \in SUBSET Nat
  BY Parts
<1> QED BY <1>1, <1>2 DEF Slices

\* A pool that is being built owes nothing.
LEMMA InitInvariant == PoolInit => PoolIInv
<1> SUFFICES ASSUME PoolInit PROVE PoolIInv
  OBVIOUS
<1> USE DEF PoolInit
<1>1. Types
  <2>1. call = NoCall /\ ready = {} /\ outbound = << >>
    OBVIOUS
  <2> QED BY <2>1 DEF Types, NoCall, NoValues, IsDomain, WorkerStates
<1>2. OneEach /\ Feeds
  BY DEF OneEach, Feeds, FeederStates
<1>3. \A r \in Workers : Booting(r)
  BY DEF Booting, Silent, NoMail, OnlyAnswers
<1> QED BY <1>1, <1>2, <1>3 DEF PoolIInv

\* A worker whose queue, state and mail stay as they are keeps its slot.
LEMMA OthersUnmoved ==
    ASSUME phase = phase', UNCHANGED << coordinator >>,
           NEW r \in Workers, NEW s \in Workers, s # r,
           inbound'[s] = inbound[s], unsent'[s] = unsent[s], worker'[s] = worker[s],
           job'[s] = job[s],
           \A i \in DOMAIN outbound' : outbound'[i].rank = s =>
               \E j \in DOMAIN outbound : outbound[j] = outbound'[i]
    PROVE  /\ Booting(s) => Booting(s)'
           /\ Quiet(s) => Quiet(s)'
           /\ Owing(s) => Owing(s)'
<1>1. NoMail(s) => NoMail(s)'
  BY DEF NoMail
<1>2. Silent(s) => Silent(s)'
  BY <1>1 DEF Silent
<1>3. \A answers : OnlyAnswers(s, answers) => OnlyAnswers(s, answers)'
  BY <1>1 DEF OnlyAnswers
<1>4. Values(s)' = Values(s) /\ Slice(s)' = Slice(s)
  BY DEF coordinator, Values, Slice
<1> QED BY <1>2, <1>3, <1>4 DEF coordinator, Booting, Quiet, Owing

\* A worker that goes on with its work, and puts an answer or none.
LEMMA FeedsStep ==
    ASSUME Feeds, UNCHANGED feeder, NEW r \in Workers,
           worker[r] # "exited" \/ worker'[r] = "exited",
           unsent'[r] # << >> \/ unsent'[r] = unsent[r] \/ worker'[r] = "exited",
           \A s \in Workers : s # r => unsent'[s] = unsent[s] /\ worker'[s] = worker[s]
    PROVE  Feeds'
BY DEF Feeds, Alive

\* A worker that comes up, or cannot, announces it once.
LEMMA StartStep ==
    ASSUME PoolIInv, phase \in Callable, NEW r \in Workers, Start(r)
    PROVE  PoolIInv'
<1> USE DEF Start
<1>1. phase = "starting" /\ (\A s \in Workers : Booting(s)) /\ Types /\ OneEach
  BY DEF PoolIInv, Serving, Owing, Quiet
<1>2. PICK a \in {Answer("ready", r, 0, NoValues), Answer("fatal", r, 0, NoValues)} :
          unsent' = [unsent EXCEPT ![r] = Append(@, a)]
  BY DEF Put
<1>3. a \in Messages
  BY AnswerType, NothingType
<1>4. Types'
  <2>1. unsent' \in [Workers -> Seq(Messages)]
    <3>1. unsent[r] \in Seq(Messages) /\ unsent \in [Workers -> Seq(Messages)]
      BY <1>1 DEF Types
    <3>2. Append(unsent[r], a) \in Seq(Messages)
      BY <1>3, <3>1
    <3> QED BY <1>2, <3>1, <3>2
  <2>2. worker' \in [Workers -> WorkerStates]
    BY <1>1 DEF Types, Become, WorkerStates
  <2> QED BY <1>1, <2>1, <2>2 DEF Types, coordinator
<1>5. unsent[r] = << >> /\ NoMail(r)
  BY <1>1 DEF Booting, Silent
<1>6. unsent'[r] = << a >> /\ NoMail(r)'
  BY <1>1, <1>2, <1>5 DEF Types, NoMail
<1>7. Booting(r)'
  BY <1>1, <1>6 DEF Booting, OnlyAnswers, NoMail, Types, Become, coordinator
<1>8. \A s \in Workers : s # r => Booting(s)'
  BY <1>1, <1>2, OthersUnmoved DEF Types, Become, coordinator
<1>9. Feeds'
  <2>1. Feeds /\ UNCHANGED feeder /\ worker[r] # "exited" /\ unsent'[r] # << >>
    BY <1>6 DEF PoolIInv
  <2>2. \A s \in Workers : s # r => unsent'[s] = unsent[s] /\ worker'[s] = worker[s]
    BY <1>1, <1>2 DEF Types, Become
  <2> QED BY <2>1, <2>2, FeedsStep
<1>10. OneEach'
  BY <1>1 DEF OneEach
<1>11. call' = NoCall /\ returned' = NoValues /\ phase' = "starting"
  BY <1>1 DEF PoolIInv, coordinator
<1> QED BY <1>4, <1>7, <1>8, <1>9, <1>10, <1>11 DEF PoolIInv

\* A step of one worker: the slots of the others stay as they are.
LEMMA OneWorkerStep ==
    ASSUME PoolIInv, phase \in Callable, phase = phase', UNCHANGED << coordinator >>,
           NEW r \in Workers,
           \A s \in Workers : s # r =>
               /\ inbound'[s] = inbound[s] /\ unsent'[s] = unsent[s] /\ worker'[s] = worker[s]
               /\ job'[s] = job[s],
           \A i \in DOMAIN outbound' : outbound'[i].rank # r =>
               \E j \in DOMAIN outbound : outbound[j] = outbound'[i],
           Types', Feeds', OneEach',
           Booting(r) => Booting(r)', Quiet(r) => Quiet(r)', Owing(r) => Owing(r)'
    PROVE  PoolIInv'
<1>1. CASE phase = "starting"
  <2>1. \A s \in Workers : Booting(s)'
    BY <1>1, OthersUnmoved DEF PoolIInv
  <2> QED BY <1>1, <2>1 DEF PoolIInv, coordinator
<1>2. CASE phase # "starting"
  <2>1. \A s \in Workers : (IF s \in call.waiting THEN Owing(s) ELSE Quiet(s))'
    BY <1>2, OthersUnmoved DEF PoolIInv, Serving, coordinator
  <2> QED BY <1>2, <2>1 DEF PoolIInv, Serving, coordinator
<1> QED BY <1>1, <1>2

\* A worker takes its slice, or the request to stop.
LEMMA TakeStep ==
    ASSUME PoolIInv, phase \in Callable, NEW r \in Workers, Take(r)
    PROVE  PoolIInv'
<1> USE DEF Take
<1>1. Types /\ OneEach
  BY DEF PoolIInv
<1>2. inbound[r] # << >> /\ inbound' = [inbound EXCEPT ![r] = Tail(@)]
  OBVIOUS
<1>3. ~Booting(r) /\ ~Quiet(r)
  BY <1>2 DEF Booting, Quiet
<1>4. Owing(r) => Owing(r)'
  <2> SUFFICES ASSUME Owing(r) PROVE Owing(r)'
    OBVIOUS
  <2>1. inbound[r] = << Slice(r) >> /\ Silent(r)
    BY <1>2 DEF Owing
  <2>2. inbound'[r] = << >>
    BY <1>1, <1>2, <2>1 DEF Types
  <2>3. Silent(r)' /\ Slice(r)' = Slice(r) /\ Values(r)' = Values(r)
    BY <2>1 DEF Silent, NoMail, Slice, Values, coordinator
  <2>4. worker'[r] \in {"returned", "working"}
        /\ (worker'[r] = "working" => job'[r] = Slice(r))
    <3>1. Head(inbound[r]) = Slice(r)
      BY <2>1
    <3> QED BY <1>1, <3>1 DEF Become, Types
  <2> QED BY <2>2, <2>3, <2>4 DEF Owing, OnlyAnswers, Silent, NoMail
<1>5. Types'
  <2>1. inbound' \in [Workers -> Seq([job : Nat, experts : SUBSET Nat])]
    BY <1>1, <1>2 DEF Types
  <2> QED BY <1>1, <2>1 DEF Types, Become, coordinator, WorkerStates
<1>6. \A s \in Workers : s # r => /\ inbound'[s] = inbound[s] /\ unsent'[s] = unsent[s]
                                   /\ worker'[s] = worker[s] /\ job'[s] = job[s]
  BY <1>1 DEF Types, Become
<1>7. OneEach'
  BY <1>1 DEF OneEach
<1>8. Feeds'
  BY <1>6, FeedsStep DEF PoolIInv
<1> QED BY <1>3, <1>4, <1>5, <1>6, <1>7, <1>8, OneWorkerStep DEF coordinator

\* A worker puts the one answer it owes.
LEMMA FinishStep ==
    ASSUME PoolIInv, phase \in Callable, NEW r \in Workers, Finish(r)
    PROVE  PoolIInv'
<1> USE DEF Finish
<1>1. Types /\ OneEach
  BY DEF PoolIInv
<1>2. ~Booting(r) /\ ~Quiet(r)
  BY DEF Booting, Quiet
<1>3. Owing(r)
  BY <1>2 DEF PoolIInv, Serving
<1>4. job[r] = Slice(r) /\ Silent(r) /\ inbound[r] = << >>
  BY <1>3 DEF Owing
<1>5. PICK a \in {Answer("result", r, call.job, Values(r)), Answer("error", r, call.job, NoValues)} :
          /\ unsent' = [unsent EXCEPT ![r] = Append(@, a)]
          /\ worker' \in {[worker EXCEPT ![r] = "idle"], [worker EXCEPT ![r] = "returned"]}
  BY <1>4 DEF Put, Become, Slice, Values
<1>6. a \in Messages
  BY <1>1, AnswerType, NothingType, ValuesType DEF Types
<1>7. Types'
  <2>1. unsent' \in [Workers -> Seq(Messages)]
    BY <1>1, <1>5, <1>6 DEF Types
  <2>2. worker' \in [Workers -> WorkerStates]
    BY <1>1, <1>5 DEF Types, WorkerStates
  <2> QED BY <1>1, <2>1, <2>2 DEF Types, coordinator
<1>8. Owing(r)'
  <2>1. unsent'[r] = << a >> /\ NoMail(r)'
    BY <1>1, <1>4, <1>5 DEF Types, Silent, NoMail
  <2>2. Slice(r)' = Slice(r) /\ Values(r)' = Values(r)
    BY DEF Slice, Values, coordinator
  <2>3. inbound'[r] = << >> /\ worker'[r] \notin {"starting", "working"}
    BY <1>1, <1>4, <1>5 DEF Types
  <2> QED BY <1>5, <2>1, <2>2, <2>3 DEF Owing, OnlyAnswers, NoMail, coordinator
<1>9. OneEach' /\ \A s \in Workers : s # r => /\ inbound'[s] = inbound[s] /\ unsent'[s] = unsent[s]
                                               /\ worker'[s] = worker[s] /\ job'[s] = job[s]
  BY <1>1, <1>5 DEF Types, OneEach
<1>10. Feeds'
  <2>1. unsent'[r] # << >>
    BY <1>1, <1>4, <1>5 DEF Types, Silent
  <2> QED BY <1>9, <2>1, FeedsStep DEF PoolIInv
<1> QED BY <1>2, <1>7, <1>8, <1>9, <1>10, OneWorkerStep DEF coordinator

\* The pipe takes an answer: it is the only one of its worker.
LEMMA SendStep ==
    ASSUME PoolIInv, phase \in Callable, NEW r \in Workers, Send(r)
    PROVE  PoolIInv'
<1> USE DEF Send, Feed
<1>1. Types /\ OneEach
  BY DEF PoolIInv
<1> DEFINE a == Head(unsent[r])
           n == Len(outbound)
<1>2. unsent[r] \in Seq(Messages) /\ unsent[r] # << >> /\ a \in Messages
  <2>1. unsent[r] # << >>
    BY DEF PoolIInv, Feeds
  <2> QED BY <1>1, <2>1 DEF Types
<1>3. /\ n \in Nat /\ DOMAIN outbound = 1 .. n /\ DOMAIN outbound' = 1 .. n + 1
      /\ outbound' \in Seq(Messages)
      /\ \A i \in 1 .. n : outbound'[i] = outbound[i]
      /\ outbound'[n + 1] = a
  BY <1>1, <1>2 DEF Types
<1>4. Types'
  BY <1>1, <1>2, <1>3 DEF Types, coordinator
<1>5. ~Quiet(r)
  BY <1>2 DEF Quiet, Silent
<1>6. ASSUME NEW answers, \A b \in answers : b.rank = r, OnlyAnswers(r, answers)
      PROVE  OnlyAnswers(r, answers)' /\ a.rank = r /\ NoMail(r)
  <2>1. PICK b \in answers : unsent[r] = << b >>
    BY <1>2, <1>6 DEF OnlyAnswers
  <2>2. a = b /\ unsent'[r] = << >> /\ NoMail(r)
    BY <1>1, <1>2, <1>6, <2>1 DEF Types, OnlyAnswers
  <2> QED BY <1>3, <1>6, <2>1, <2>2 DEF OnlyAnswers, NoMail
<1>7. Booting(r) => Booting(r)' /\ a.rank = r /\ NoMail(r)
  <2> SUFFICES ASSUME Booting(r) PROVE Booting(r)' /\ a.rank = r /\ NoMail(r)
    OBVIOUS
  <2>1. worker[r] # "starting" /\ r \notin ready
    BY <1>2 DEF Booting, Silent
  <2>2. OnlyAnswers(r, {Answer("ready", r, 0, NoValues), Answer("fatal", r, 0, NoValues)})'
        /\ a.rank = r /\ NoMail(r)
    BY <1>6 DEF Booting, Answer
  <2> QED BY <2>1, <2>2 DEF Booting, coordinator
<1>8. Owing(r) => Owing(r)' /\ a.rank = r /\ NoMail(r)
  <2> SUFFICES ASSUME Owing(r) PROVE Owing(r)' /\ a.rank = r /\ NoMail(r)
    OBVIOUS
  <2>1. worker[r] # "working" /\ inbound[r] = << >>
    BY <1>2 DEF Owing, Silent
  <2>2. OnlyAnswers(r, {Answer("result", r, call.job, Values(r)), Answer("error", r, call.job, NoValues)})'
        /\ a.rank = r /\ NoMail(r)
    BY <1>6 DEF Owing, Answer, Values, coordinator
  <2> QED BY <2>1, <2>2 DEF Owing, coordinator
<1>9. a.rank = r /\ NoMail(r)
  BY <1>5, <1>7, <1>8 DEF PoolIInv, Serving
<1>10. OneEach'
  BY <1>1, <1>3, <1>9 DEF OneEach, NoMail
<1>11. \A s \in Workers : s # r => /\ inbound'[s] = inbound[s] /\ unsent'[s] = unsent[s]
                                    /\ worker'[s] = worker[s] /\ job'[s] = job[s]
  BY <1>1 DEF Types
<1>12. \A i \in DOMAIN outbound' : outbound'[i].rank # r =>
               \E j \in DOMAIN outbound : outbound[j] = outbound'[i]
  BY <1>3, <1>9
<1>13. Feeds'
  BY <1>11 DEF PoolIInv, Feeds, FeederStates, Alive
<1> QED BY <1>4, <1>5, <1>7, <1>8, <1>10, <1>11, <1>12, <1>13, OneWorkerStep DEF coordinator

\* The feeder takes the lock, begins to write, or gives the lock back.
LEMMA FeederStep ==
    ASSUME PoolIInv, phase \in Callable, NEW r \in Workers, Lock(r) \/ BeginSend(r) \/ Unlock(r)
    PROVE  PoolIInv'
<1>1. /\ UNCHANGED << coordinator, worker, job, inbound, unsent, outbound >>
      /\ Alive(r)
      /\ \/ /\ feeder' = [feeder EXCEPT ![r] = "locked"]
            /\ unsent[r] # << >>
         \/ /\ feeder' = [feeder EXCEPT ![r] = "writing"]
            /\ feeder[r] = "locked"
         \/ feeder' = [feeder EXCEPT ![r] = "waiting"]
  BY DEF Lock, BeginSend, Unlock, Feed
<1>2. Feeds'
  <2>1. Feeds
    BY DEF PoolIInv
  <2> QED BY <1>1, <2>1 DEF Feeds, FeederStates, Alive
<1>3. Types' /\ OneEach'
  BY <1>1 DEF PoolIInv, Types, OneEach, coordinator
<1>4. /\ Booting(r) => Booting(r)'
      /\ Quiet(r) => Quiet(r)'
      /\ Owing(r) => Owing(r)'
  BY <1>1 DEF Booting, Quiet, Owing, Silent, NoMail, OnlyAnswers, Slice, Values, coordinator
<1> QED BY <1>1, <1>2, <1>3, <1>4, OneWorkerStep DEF coordinator

\* A worker ends by itself or is killed, and answers no more.
LEMMA EndStep ==
    ASSUME PoolIInv, phase \in Callable, NEW r \in Workers, Exit(r) \/ Killed(r)
    PROVE  PoolIInv'
<1>1. Types /\ OneEach
  BY DEF PoolIInv
<1>2. /\ UNCHANGED << coordinator, job, inbound, outbound >>
      /\ worker' = [worker EXCEPT ![r] = "exited"]
      /\ unsent' = [unsent EXCEPT ![r] = << >>]
      /\ worker[r] # "exited"
  BY <1>1 DEF Exit, Killed, Become, Types, Alive
<1>3. Types'
  BY <1>1, <1>2 DEF Types, coordinator, WorkerStates
<1>4. unsent'[r] = << >> /\ worker'[r] = "exited" /\ inbound'[r] = inbound[r]
  BY <1>1, <1>2 DEF Types
<1>5. (NoMail(r) => NoMail(r)') /\ (Silent(r) => Silent(r)')
      /\ \A answers : OnlyAnswers(r, answers) => OnlyAnswers(r, answers)'
  BY <1>2, <1>4 DEF NoMail, Silent, OnlyAnswers
<1>6. Slice(r)' = Slice(r) /\ Values(r)' = Values(r)
  BY <1>2 DEF Slice, Values, coordinator
<1>7. Booting(r) => Booting(r)'
  BY <1>2, <1>4, <1>5 DEF Booting, coordinator
<1>8. Quiet(r) => Quiet(r)'
  BY <1>4, <1>5 DEF Quiet
<1>9. Owing(r) => Owing(r)'
  BY <1>2, <1>4, <1>5, <1>6 DEF Owing, coordinator
<1>10. OneEach' /\ \A s \in Workers : s # r => /\ inbound'[s] = inbound[s] /\ unsent'[s] = unsent[s]
                                                /\ worker'[s] = worker[s] /\ job'[s] = job[s]
  BY <1>1, <1>2 DEF Types, OneEach
<1>11. Feeds'
  <2>1. Feeds /\ UNCHANGED feeder
    BY DEF PoolIInv, Exit, Killed
  <2> QED BY <1>4, <1>10, <2>1, FeedsStep
<1> QED BY <1>2, <1>3, <1>7, <1>8, <1>9, <1>10, <1>11, OneWorkerStep DEF coordinator


\* The coordinator touches no feeder.
LEMMA FeedsKept ==
    ASSUME Feeds, UNCHANGED << worker, unsent, feeder >>
    PROVE  Feeds'
BY DEF Feeds, Alive

\* __init__ hears of each worker once.
LEMMA AwaitReadyStep ==
    ASSUME PoolIInv, phase \in Callable, AwaitReady
    PROVE  PoolIInv'
<1> USE DEF AwaitReady
<1>1. /\ Types /\ Feeds /\ OneEach /\ phase = "starting" /\ call = NoCall /\ returned = NoValues
      /\ \A s \in Workers : Booting(s)
  BY DEF PoolIInv
<1>2. PICK m \in {outbound[i] : i \in DOMAIN outbound} :
          /\ Receive(m)
          /\ IF m.kind = "ready" /\ m.rank \notin ready
             THEN ready' = ready \cup {m.rank} /\ UNCHANGED phase
             ELSE Abandon /\ UNCHANGED ready
  OBVIOUS
<1>3. CASE phase' = "forced"
  BY <1>3 DEF PoolIInv, Callable
<1>4. CASE UNCHANGED phase /\ ready' = ready \cup {m.rank} /\ m.kind = "ready"
  <2> DEFINE r == m.rank
  <2>1. /\ outbound # << >> /\ m = outbound[1] /\ outbound' = Tail(outbound)
        /\ m \in Messages /\ r \in Workers
    <3>1. outbound # << >> /\ m = outbound[1] /\ outbound' = Tail(outbound)
      BY <1>1, <1>2 DEF Types, Receive
    <3>2. m \in Messages
      BY <1>1, <3>1 DEF Types
    <3> QED BY <3>1, <3>2 DEF Messages
  <2>2. /\ Len(outbound) \in Nat \ {0} /\ DOMAIN outbound' = 1 .. Len(outbound) - 1
        /\ DOMAIN outbound = 1 .. Len(outbound)
        /\ outbound' \in Seq(Messages)
        /\ \A i \in DOMAIN outbound' : i + 1 \in DOMAIN outbound /\ outbound'[i] = outbound[i + 1]
    BY <1>1, <2>1 DEF Types
  <2>3. Types'
    BY <1>1, <1>4, <2>1, <2>2 DEF Types, processes
  <2>4. OneEach'
    BY <1>1, <2>2 DEF OneEach
  <2>5. NoMail(r)' /\ unsent[r] = << >> /\ worker[r] # "starting"
    <3>1. ~NoMail(r)
      BY <2>1, <2>2 DEF NoMail
    <3>2. NoMail(r)'
      BY <1>1, <2>1, <2>2 DEF OneEach, NoMail
    <3> QED BY <1>1, <2>1, <3>1, <3>2 DEF Booting, Silent, OnlyAnswers
  <2>6. Booting(r)'
    BY <1>1, <2>1, <2>5 DEF Booting, Silent, OnlyAnswers, NoMail, processes
  <2>7. ASSUME NEW s \in Workers, s # r
        PROVE  Booting(s)'
    <3>1. NoMail(s) => NoMail(s)'
      BY <2>2 DEF NoMail
    <3>2. \A answers : OnlyAnswers(s, answers) => OnlyAnswers(s, answers)'
      BY <2>2, <3>1 DEF OnlyAnswers, processes
    <3> QED BY <1>1, <1>4, <2>7, <3>1, <3>2 DEF Booting, Silent, processes
  <2> QED BY <1>1, <1>4, <2>3, <2>4, <2>6, <2>7, FeedsKept DEF PoolIInv, processes
<1> QED BY <1>2, <1>3, <1>4 DEF Abandon

\* A pool that is ready is quiet.
LEMMA AllReadyStep ==
    ASSUME PoolIInv, phase \in Callable, AllReady
    PROVE  PoolIInv'
<1> USE DEF AllReady
<1>1. /\ Types /\ Feeds /\ OneEach /\ call = NoCall /\ returned = NoValues
      /\ \A s \in Workers : Booting(s)
      /\ ready = Workers
  BY DEF PoolIInv
<1>2. \A r \in Workers : Quiet(r)'
  BY <1>1 DEF Booting, Quiet, Silent, NoMail, processes
<1>3. Serving'
  BY <1>1, <1>2, NothingType DEF Serving, NoCall
<1>4. Types' /\ OneEach' /\ Feeds'
  BY <1>1, FeedsKept DEF Types, OneEach, processes
<1> QED BY <1>1, <1>3, <1>4 DEF PoolIInv, NoCall

\* map gives each concerned worker its slice; every queue was empty.
LEMMA MapStep ==
    ASSUME PoolIInv, phase \in Callable, NEW domain \in Domains, Map(domain)
    PROVE  PoolIInv'
<1> USE DEF Map
<1>1. /\ Types /\ Feeds /\ OneEach /\ phase = "idle" /\ ready = Workers
      /\ \A r \in Workers : Quiet(r)
  BY DEF PoolIInv, Serving
<1>2. /\ IsDomain(domain)
      /\ call' = [job |-> call.job + 1, domain |-> domain, waiting |-> Concerned(domain),
                  received |-> NoValues]
  BY ProcessPoolAssumption DEF IsDomain
<1>3. Types'
  <2>1. \A r : Partition(domain, r) \in SUBSET Nat
    BY <1>2, Parts
  <2>2. ASSUME NEW r \in Workers
        PROVE  inbound'[r] \in Seq([job : Nat, experts : SUBSET Nat])
    <3>1. [job |-> call.job + 1, experts |-> Partition(domain, r)] \in [job : Nat, experts : SUBSET Nat]
      BY <1>1, <2>1 DEF Types
    <3>2. inbound[r] \in Seq([job : Nat, experts : SUBSET Nat])
      BY <1>1 DEF Types
    <3> HIDE DEF Map
    <3> QED BY <3>1, <3>2, AppendProperties DEF Map
  <2> QED BY <1>1, <1>2, <2>2 DEF Types, Map
<1>4. OneEach' /\ Feeds'
  BY <1>1, FeedsKept DEF OneEach
<1>5. ASSUME NEW r \in Workers
      PROVE  (IF r \in call.waiting THEN Owing(r) ELSE Quiet(r))'
  <2>1. Quiet(r) /\ inbound[r] = << >> /\ unsent'[r] = << >> /\ worker'[r] \notin {"starting", "working"}
    BY <1>1 DEF Quiet, Silent
  <2>2. NoMail(r)'
    BY <2>1 DEF Quiet, Silent, NoMail
  <2>3. CASE r \in Concerned(domain)
    <3>1. inbound'[r] = Append(inbound[r], [job |-> call.job + 1, experts |-> Partition(domain, r)])
      BY <2>3
    <3>2. Slice(r)' = [job |-> call.job + 1, experts |-> Partition(domain, r)]
      BY <1>2 DEF Slice, Partition
    <3>3. inbound'[r] = << Slice(r)' >>
      BY <2>1, <3>1, <3>2
    <3> QED BY <1>2, <2>1, <2>2, <2>3, <3>3 DEF Owing, Silent, OnlyAnswers, NoMail
  <2>4. CASE r \notin Concerned(domain)
    BY <1>2, <2>1, <2>2, <2>4 DEF Quiet, Silent
  <2> QED BY <2>3, <2>4
<1>6. Serving'
  <2>1. \A e \in DOMAIN domain : Owner(domain, e) \in Concerned(domain)
    BY <1>2, Parts
  <2> QED BY <1>2, <1>5, <2>1, NothingType DEF Serving
<1> QED BY <1>1, <1>3, <1>4, <1>6 DEF PoolIInv

\* map accepts the one answer of a worker, which owes nothing any more.
LEMMA TakeAnswerStep ==
    ASSUME PoolIInv, phase \in Callable, TakeAnswer
    PROVE  PoolIInv'
<1> USE DEF TakeAnswer
<1>1. Types /\ Feeds /\ OneEach /\ phase = "waiting" /\ ready = Workers /\ Serving
  BY DEF PoolIInv
<1>2. PICK m \in {outbound[i] : i \in DOMAIN outbound} :
          /\ Receive(m)
          /\ IF Acceptable(m)
             THEN /\ call' = [call EXCEPT !.waiting = @ \ {m.rank},
                                          !.received = Updated(@, m.values)]
                  /\ UNCHANGED phase
             ELSE Abandon /\ UNCHANGED call
  BY Zenon
<1>3. CASE ~Acceptable(m)
  BY <1>2, <1>3 DEF PoolIInv, Callable, Abandon
<1>4. CASE Acceptable(m)
  <2> DEFINE r == m.rank
  <2>1. /\ outbound # << >> /\ m = outbound[1] /\ outbound' = Tail(outbound)
        /\ m \in Messages /\ r \in Workers
    <3>1. outbound # << >> /\ m = outbound[1] /\ outbound' = Tail(outbound)
      BY <1>1, <1>2 DEF Types, Receive
    <3>2. m \in Messages
      BY <1>1, <3>1 DEF Types
    <3> QED BY <3>1, <3>2 DEF Messages
  <2>2. /\ Len(outbound) \in Nat \ {0} /\ DOMAIN outbound' = 1 .. Len(outbound) - 1
        /\ DOMAIN outbound = 1 .. Len(outbound)
        /\ outbound' \in Seq(Messages)
        /\ \A i \in DOMAIN outbound' : i + 1 \in DOMAIN outbound /\ outbound'[i] = outbound[i + 1]
    BY <1>1, <2>1 DEF Types
  <2>3. /\ call'.job = call.job /\ call'.domain = call.domain
        /\ call'.waiting = call.waiting \ {r}
        /\ call'.received = Updated(call.received, m.values)
        /\ call' = [job |-> call'.job, domain |-> call'.domain, waiting |-> call'.waiting,
                    received |-> call'.received]
    BY <1>1, <1>2, <1>4 DEF Types
  <2>4. Types'
    BY <1>1, <1>2, <1>4, <2>2, <2>3 DEF Types, processes
  <2>5. OneEach'
    BY <1>1, <2>2 DEF OneEach
  <2>6. r \in call.waiting /\ Owing(r)
    BY <1>1, <1>4, <2>1 DEF Acceptable, Serving
  <2>7. NoMail(r)' /\ ~NoMail(r)
    BY <1>1, <2>1, <2>2 DEF NoMail, OneEach
  <2>8. Quiet(r)'
    <3>1. inbound[r] = << >> /\ worker[r] \notin {"starting", "working"} /\ unsent[r] = << >>
      BY <2>6, <2>7 DEF Owing, Silent, OnlyAnswers
    <3> QED BY <2>7, <3>1 DEF Quiet, Silent, processes
  <2>9. ASSUME NEW s \in Workers, s # r
        PROVE  (IF s \in call.waiting THEN Owing(s) ELSE Quiet(s))'
    <3>1. NoMail(s) => NoMail(s)'
      BY <2>2 DEF NoMail
    <3>2. \A answers : OnlyAnswers(s, answers) => OnlyAnswers(s, answers)'
      BY <2>2, <3>1 DEF OnlyAnswers, processes
    <3>3. Slice(s)' = Slice(s) /\ Values(s)' = Values(s)
      BY <2>3 DEF Slice, Values
    <3>4. Owing(s) => Owing(s)'
      BY <2>3, <3>1, <3>2, <3>3 DEF Owing, Silent, processes
    <3>5. Quiet(s) => Quiet(s)'
      BY <3>1 DEF Quiet, Silent, processes
    <3>6. s \in call'.waiting <=> s \in call.waiting
      BY <2>3, <2>9
    <3> QED BY <1>1, <3>4, <3>5, <3>6 DEF Serving
  <2>10. m.values = Values(r)
    <3>1. m \in {Answer("result", r, call.job, Values(r)), Answer("error", r, call.job, NoValues)}
      BY <2>1, <2>2, <2>6 DEF Owing, OnlyAnswers
    <3>2. m.kind = "result"
      BY <1>4 DEF Acceptable
    <3> QED BY <3>1, <3>2 DEF Answer
  <2>11. /\ DOMAIN call'.received = Partition(call.domain, r) \cup DOMAIN call.received
         /\ \A e \in DOMAIN call'.received :
               call'.received[e] = IF e \in Partition(call.domain, r) THEN << call.job, r >>
                                   ELSE call.received[e]
    BY <2>3, <2>10 DEF Values, Updated
  <2>12. /\ DOMAIN call'.received = {e \in DOMAIN call'.domain : Owner(call'.domain, e) \notin call'.waiting}
         /\ \A e \in DOMAIN call'.received : call'.received[e] = << call'.job, Owner(call'.domain, e) >>
    BY <1>1, <2>3, <2>6, <2>11 DEF Serving, Partition
  <2>13. Serving'
    BY <2>3, <2>8, <2>9, <2>12 DEF Serving
  <2> QED BY <1>1, <1>2, <1>4, <2>4, <2>5, <2>13, FeedsKept DEF PoolIInv, processes
<1> QED BY <1>3, <1>4

\* A step that moves neither an answer nor the coordinator.
LEMMA Unmoved ==
    ASSUME PoolIInv,
           UNCHANGED << phase, call, returned, ready, worker, job, inbound, unsent, feeder, outbound >>
    PROVE  PoolIInv'
<1>1. Types' = Types /\ OneEach' = OneEach /\ (Feeds => Feeds')
  BY FeedsKept DEF Types, OneEach
<1>2. \A r : /\ Booting(r) => Booting(r)'
             /\ Quiet(r) => Quiet(r)'
             /\ Owing(r) => Owing(r)'
  BY DEF Booting, Quiet, Owing, Silent, NoMail, OnlyAnswers, Slice, Values
<1> QED BY <1>1, <1>2 DEF PoolIInv, Serving

\* The coordinator moves on, or gives up, and touches no answer.
LEMMA CoordinatorStep ==
    ASSUME PoolIInv, phase \in Callable,
           \/ BlockInRead \/ NotReady \/ TimeOut \/ CheckAlive \/ Return \/ Leave
           \/ AskToStop \/ ForceClose \/ Join
    PROVE  PoolIInv'
<1>1. CASE NotReady \/ Leave \/ AskToStop \/ ForceClose \/ Join
  <2>1. phase' \in {"forced", "asked", "joining", "closed"}
    BY <1>1 DEF NotReady, Abandon, Leave, AskToStop, ForceClose, Join
  <2> QED BY <2>1 DEF PoolIInv, Callable
<1>2. CASE TimeOut \/ CheckAlive \/ Return
  <2>1. CASE phase' \notin Callable
    BY <2>1 DEF PoolIInv
  <2>2. CASE phase' \in Callable
    <3>1. Types /\ Feeds /\ OneEach /\ ready = Workers /\ Serving
      BY <1>2 DEF PoolIInv, TimeOut, CheckAlive, Return
    <3>2. /\ UNCHANGED << call, ready, processes, outbound >>
          /\ phase' \in {"idle", "empty", "waiting"}
          /\ phase' = "idle" => call.waiting = {} /\ returned' = call.received
      BY <1>2, <2>2 DEF TimeOut, CheckAlive, Return, Abandon, Callable
    <3>3. Types' /\ OneEach' /\ Feeds'
      BY <3>1, <3>2, FeedsKept DEF Types, OneEach, processes
    <3>4. Serving'
      BY <3>1, <3>2 DEF Serving, Owing, Quiet, Silent, NoMail, OnlyAnswers, Slice, Values, processes
    <3> QED BY <3>1, <3>2, <3>3, <3>4 DEF PoolIInv
  <2> QED BY <2>1, <2>2
<1>3. CASE BlockInRead
  BY <1>3, Unmoved DEF BlockInRead, processes
<1> QED BY <1>1, <1>2, <1>3

\* Every step keeps the invariant.
LEMMA NextInvariant == PoolIInv /\ [PoolNext]_poolVars => PoolIInv'
<1> SUFFICES ASSUME PoolIInv, [PoolNext]_poolVars PROVE PoolIInv'
  OBVIOUS
<1>1. CASE UNCHANGED poolVars
  BY <1>1, Unmoved DEF poolVars, coordinator, processes
<1>2. CASE PoolNext /\ phase \notin Callable
  <2>1. ASSUME Coordinate PROVE phase' \notin Callable
    <3>1. /\ ~BlockInRead /\ ~AwaitReady /\ ~NotReady /\ ~AllReady
          /\ ~TakeAnswer /\ ~TimeOut /\ ~CheckAlive /\ ~Return
      <4>1. phase \notin {"starting", "waiting", "empty"}
        BY <1>2 DEF Callable
      <4>2. ~BlockInRead /\ ~AwaitReady /\ ~NotReady /\ ~AllReady
        BY <4>1 DEF BlockInRead, AwaitReady, NotReady, AllReady
      <4>3. ~TakeAnswer
        BY <4>1, Zenon DEF TakeAnswer
      <4>4. ~TimeOut
        BY <4>1 DEF TimeOut
      <4>5. ~CheckAlive /\ ~Return
        BY <4>1 DEF CheckAlive, Return
      <4> QED BY <4>2, <4>3, <4>4, <4>5
    <3>2. AskToStop \/ ForceClose \/ Join => phase' \in {"joining", "closed"}
      BY DEF AskToStop, ForceClose, Join
    <3> QED BY <2>1, <3>1, <3>2 DEF Coordinate, Callable
  <2>2. ~Leave /\ ~\E domain \in Domains : Map(domain)
    BY <1>2 DEF Callable, Leave, Map
  <2>3. ASSUME NEW r \in Workers, Work(r) \/ Killed(r) PROVE phase' = phase
    BY <2>3 DEF Work, Start, Take, Finish, Feeder, Lock, BeginSend, Send, Unlock, Feed, Exit, Killed,
                coordinator
  <2> QED BY <1>2, <2>1, <2>2, <2>3 DEF PoolIInv, PoolNext
<1>3. CASE PoolNext /\ phase \in Callable
  <2>1. CASE Coordinate \/ Leave
    BY <1>3, <2>1, AwaitReadyStep, AllReadyStep, TakeAnswerStep, CoordinatorStep DEF Coordinate
  <2>2. CASE \E domain \in Domains : Map(domain)
    BY <1>3, <2>2, MapStep
  <2>3. CASE \E r \in Workers : Work(r) \/ Killed(r)
    BY <1>3, <2>3, StartStep, TakeStep, FinishStep, SendStep, FeederStep, EndStep DEF Work, Feeder
  <2> QED BY <1>3, <2>1, <2>2, <2>3 DEF PoolNext
<1> QED BY <1>1, <1>2, <1>3

\* A pool that is open between two calls is quiet.
LEMMA Consequence == PoolIInv => QuietBetweenCalls
<1> SUFFICES ASSUME PoolIInv, phase = "idle" PROVE QuietBetweenCalls
  BY DEF QuietBetweenCalls
<1>1. /\ Types /\ call.waiting = {} /\ returned = call.received
      /\ Serving
  BY DEF PoolIInv, Callable
<1>2. \A r \in Workers : Quiet(r)
  BY <1>1 DEF Serving
<1>3. outbound = << >>
  <2>1. ASSUME outbound # << >> PROVE FALSE
    <3>1. 1 \in DOMAIN outbound /\ outbound[1] \in Messages
      BY <1>1, <2>1 DEF Types
    <3>2. outbound[1].rank \in Workers
      BY <3>1 DEF Messages
    <3> QED BY <1>2, <3>1, <3>2 DEF Quiet, Silent, NoMail
  <2> QED BY <2>1
<1> QED BY <1>1, <1>2, <1>3 DEF QuietBetweenCalls, Serving, Quiet, Silent

(***************************************************************************)
(* For every number of workers, every set of calls and every pipe: between *)
(* two calls no job and no answer of an earlier one is left, and what was  *)
(* returned was computed for this call by the rank that owns the expert    *)
(* (map, _worker_main), whatever fails or is killed.                       *)
(***************************************************************************)
THEOREM PoolQuiet == PoolSpec => []QuietBetweenCalls
<1>1. PoolSpec => []PoolIInv
  BY InitInvariant, NextInvariant, PTL DEF PoolSpec
<1> QED BY <1>1, Consequence, PTL
================================================================================
