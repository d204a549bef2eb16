-------------------------- MODULE DeferredFreeProofs --------------------------
(***************************************************************************)
(* Proofs about deferred frees, for any set of requests, any size of the   *)
(* pool, of the outputs and of the batch queue: no block is lost or freed  *)
(* twice, and while the two counters agree no block that a step in flight  *)
(* writes is free.                                                         *)
(*                                                                         *)
(* The invariant relates three things that change at different moments:    *)
(* where the blocks are (Accounted), which steps the fences stand for      *)
(* (Fenced, Behind), and what the batches in flight still write (Safe).    *)
(* The link between the last two is that the step number a request is      *)
(* given when a batch is closed is the number of that batch, so that the   *)
(* blocks it holds are freed at once only when that batch is processed.    *)
(*                                                                         *)
(* Draining and resetting run over a list; the model writes them as        *)
(* recursive functions, and SetInduction carries the invariant along them. *)
(***************************************************************************)
EXTENDS DeferredFree, BlockPoolLemmas, FunctionTheorems

\* The entries of deferred_frees and the batches of batch_queue.
Entries == [fence : Nat, blocks : Seq(Blocks)]
Batches == [reqs : Seq(Requests), writes : SUBSET Blocks, preempted : BOOLEAN]

\* The record of a request; that stale stays within Depth is proved at the end.
Records == [status : {"new", "waiting", "running", "finished"},
            sent : 0 .. Outputs, done : 0 .. Outputs, stale : Nat, seq : Nat]

\* The types of all variables.
Types ==
    /\ table \in [Requests -> Seq(Blocks)]
    /\ running \in Seq(Requests) /\ waiting \in Seq(Requests)
    /\ req \in [Requests -> Records]
    /\ batches \in Seq(Batches) /\ building \in Batches
    /\ phase \in {"idle", "running", "waiting", "close", "pop", "update"}
    /\ idx \in Nat /\ schedSeq \in Nat /\ procSeq \in Nat
    /\ deferred \in Seq(Entries)

-----------------------------------------------------------------------------
(* The blocks *)

\* b is in the k-th entry of d or one behind it.
Kept(d, k, b, i) == i \in DOMAIN d /\ i > k /\ b \in Range(d[i].blocks)

\* b is in a table or behind a fence.
Held(T, d, k, b) ==
    \/ \E r \in Requests : b \in Range(T[r])
    \/ \E i \in DOMAIN d : Kept(d, k, b, i)

\* It is at one such place only.
Alone(T, d, k, b) ==
    /\ \A r, s \in Requests : b \in Range(T[r]) /\ b \in Range(T[s]) => r = s
    /\ \A i, j \in DOMAIN d : Kept(d, k, b, i) /\ Kept(d, k, b, j) => i = j
    /\ \A r \in Requests, i \in DOMAIN d : ~(b \in Range(T[r]) /\ Kept(d, k, b, i))

\* The pool agrees with itself, and a block has a reference exactly when a
\* table or an entry behind the k-th holds it, and then one.  The first k
\* entries are those already drained.
Accounted(p, T, d, k) ==
    /\ p \in PoolRecord /\ CacheIndexExact(p) /\ FreeQueueExact(p)
    /\ \A r \in Requests : Unique(T[r])
    /\ \A i \in DOMAIN d : Unique(d[i].blocks)
    /\ \A b \in Blocks : /\ Alone(T, d, k, b)
                         /\ p.ref[b] = IF Held(T, d, k, b) THEN 1 ELSE 0

\* The fences behind the k-th are pending at lo, none is beyond hi, and they
\* are in order.
Fenced(d, k, lo, hi) ==
    /\ \A i \in DOMAIN d : d[i].fence <= hi /\ (i > k => d[i].fence > lo)
    /\ \A i, j \in DOMAIN d : i < j => d[i].fence <= d[j].fence

-----------------------------------------------------------------------------
(* The requests *)

\* schedule() is under way.
Scheduling == phase \in {"running", "waiting", "close"}

\* running and waiting name the requests of those states, once each, and only a
\* running request holds blocks.  No request is scheduled past its last token
\* or in a step that sched_step_seq has not counted.
Queues ==
    /\ Unique(running) /\ Unique(waiting)
    /\ \A r \in Requests :
          /\ r \in Range(running) <=> req[r].status = "running"
          /\ r \in Range(waiting) <=> req[r].status = "waiting"
          /\ req[r].status # "running" => table[r] = << >>
          /\ req[r].status \in {"new", "waiting"} => req[r].sent = req[r].done
          /\ req[r].status # "finished" => req[r].done < Outputs
          /\ req[r].done <= req[r].sent
          /\ req[r].seq <= schedSeq

\* Where the engine thread is: the batch queue has room unless a result is due,
\* and the batch under construction names requests the loop has passed.
Loop ==
    /\ Len(batches) <= Depth
    /\ IF phase = "pop" THEN batches # << >> ELSE Len(batches) < Depth
    /\ phase \in {"idle", "pop"} => building = NoBatch
    /\ Scheduling => Range(building.reqs) \subseteq Range(running)
    /\ phase = "running" =>
          /\ idx \in 1 .. Len(running) + 1
          /\ \A r \in Range(building.reqs) : \E k \in 1 .. idx - 1 : running[k] = r
    /\ phase = "update" => idx \in 1 .. Len(building.reqs) + 1

\* A batch names a request once, and one without requests writes nothing.
Sensible(b) == Unique(b.reqs) /\ (b.reqs = << >> => b.writes = {})

\* A batch under construction writes blocks that its requests hold.
Writers ==
    /\ Sensible(building) /\ \A i \in DOMAIN batches : Sensible(batches[i])
    /\ Scheduling => \A b \in building.writes :
                        \E r \in Range(building.reqs) : b \in Range(table[r])

\* The batches in flight that name r, and whether the batch in hand still owes
\* r an output.
With(q, r) == {i \in DOMAIN q : r \in Range(q[i].reqs)}
Left(r) == IF phase = "update"
           THEN \E k \in idx .. Len(building.reqs) : building.reqs[k] = r
           ELSE r \in Range(building.reqs)

\* The outputs a request waits for are those of the batches that name it.
Flights ==
    \A r \in Requests :
        req[r].status # "finished" =>
            InFlight(r) = Cardinality(With(batches, r)) + IF Left(r) THEN 1 ELSE 0

-----------------------------------------------------------------------------
(* The fence *)

\* The batches behind the i-th that sched_step_seq counted, and the number
\* sched_step_seq had when the i-th was closed.
After(q, i) == {k \in DOMAIN q : k > i /\ q[k].reqs # << >>}
Number(i) == schedSeq - Cardinality(After(batches, i))

\* Step n guards b: its holder was scheduled in step n or later, or b is behind
\* a fence of n or later.
Guarded(T, d, k, R, b, n) ==
    \/ \E r \in Requests : b \in Range(T[r]) /\ R[r].seq >= n
    \/ \E i \in DOMAIN d : Kept(d, k, b, i) /\ d[i].fence >= n

\* While the counters agree, every block that a batch in flight writes is
\* guarded by the step of that batch.
Safe ==
    CountersInSync => \A i \in DOMAIN batches : \A b \in batches[i].writes :
                         Guarded(table, deferred, 0, req, b, Number(i))
\* processed_step_seq never falls behind: it also counts the empty steps.
Behind == procSeq + Pending >= schedSeq

\* The inductive invariant.
IInv ==
    /\ Types
    /\ Accounted(pool, table, deferred, 0)
    /\ Fenced(deferred, 0, procSeq, schedSeq)
    /\ Queues /\ Loop /\ Writers /\ Flights /\ Behind /\ Safe

-----------------------------------------------------------------------------
(* Counting *)

\* Counting the positions of a sequence when its first element goes.
LEMMA CountShift ==
    ASSUME NEW n \in Nat, NEW I \in SUBSET (1 .. n + 1),
           NEW J, J = {i \in 1 .. n : i + 1 \in I}
    PROVE  /\ IsFiniteSet(I) /\ Cardinality(I) \in Nat /\ Cardinality(J) \in Nat
           /\ Cardinality(I) = Cardinality(J) + IF 1 \in I THEN 1 ELSE 0
<1> DEFINE K == I \ {1}
           f == [i \in J |-> i + 1]
<1>1. IsFiniteSet(I) /\ IsFiniteSet(J) /\ IsFiniteSet(K)
  <2>1. IsFiniteSet(1 .. n + 1)
    BY FS_Interval
  <2>2. J \subseteq 1 .. n + 1 /\ K \subseteq 1 .. n + 1
    OBVIOUS
  <2> QED BY <2>1, <2>2, FS_Subset
<1>2. f \in Bijection(J, K)
  <2>1. f \in [J -> K]
    OBVIOUS
  <2>2. \A i, j \in J : f[i] = f[j] => i = j
    OBVIOUS
  <2>3. ASSUME NEW k \in K PROVE \E j \in J : f[j] = k
    <3>1. k - 1 \in J /\ f[k - 1] = k
      OBVIOUS
    <3> QED BY <3>1
  <2> QED BY <2>1, <2>2, <2>3, Fun_IsBij
<1>3. Cardinality(J) = Cardinality(K)
  <2>1. ExistsBijection(J, K)
    BY <1>2 DEF ExistsBijection
  <2> QED BY <1>1, <2>1, FS_Bijection
<1>4. Cardinality(K) = IF 1 \in I THEN Cardinality(I) - 1 ELSE Cardinality(I)
  BY <1>1, FS_RemoveElement
<1>5. Cardinality(I) \in Nat /\ Cardinality(J) \in Nat
  BY <1>1, FS_CardinalityType
<1> HIDE DEF K
<1>6. Cardinality(I) = Cardinality(J) + IF 1 \in I THEN 1 ELSE 0
  BY <1>3, <1>4, <1>5
<1> QED BY <1>1, <1>5, <1>6

\* Counting the positions of a sequence when an element is appended.
LEMMA CountTop ==
    ASSUME NEW n \in Nat, NEW I \in SUBSET (1 .. n)
    PROVE  /\ Cardinality(I) \in 0 .. n
           /\ Cardinality(I \cup {n + 1}) = Cardinality(I) + 1
<1>1. IsFiniteSet(1 .. n) /\ Cardinality(1 .. n) = n
  BY FS_Interval
<1>2. IsFiniteSet(I) /\ Cardinality(I) <= n /\ Cardinality(I) \in Nat
  BY <1>1, FS_Subset, FS_CardinalityType
<1> QED BY <1>2, FS_AddElement

\* What Append and Tail do, position by position.
LEMMA AppendAt ==
    ASSUME NEW S, NEW q \in Seq(S), NEW x \in S
    PROVE  /\ Append(q, x) \in Seq(S) /\ Len(q) \in Nat
           /\ DOMAIN q = 1 .. Len(q) /\ DOMAIN Append(q, x) = 1 .. Len(q) + 1
           /\ Len(Append(q, x)) = Len(q) + 1
           /\ \A i \in 1 .. Len(q) : Append(q, x)[i] = q[i]
           /\ Append(q, x)[Len(q) + 1] = x
OBVIOUS

\* The same of Tail.
LEMMA TailAt ==
    ASSUME NEW S, NEW q \in Seq(S), q # << >>
    PROVE  /\ Tail(q) \in Seq(S) /\ Len(q) \in Nat \ {0} /\ Len(Tail(q)) = Len(q) - 1
           /\ DOMAIN q = 1 .. Len(q) /\ DOMAIN Tail(q) = 1 .. Len(q) - 1
           /\ \A i \in 1 .. Len(q) - 1 : i + 1 \in 1 .. Len(q) /\ Tail(q)[i] = q[i + 1]
           /\ q[1] \in S
OBVIOUS

\* A batch that joins the queue: one more names its requests, and one more is
\* behind every other if it is not empty.
LEMMA CountsAppend ==
    ASSUME NEW q \in Seq(Batches), NEW x \in Batches
    PROVE  /\ \A r : /\ Cardinality(With(q, r)) \in 0 .. Len(q)
                     /\ Cardinality(With(Append(q, x), r))
                          = Cardinality(With(q, r)) + IF r \in Range(x.reqs) THEN 1 ELSE 0
           /\ \A i \in 0 .. Len(q) :
                     /\ Cardinality(After(q, i)) \in Nat
                     /\ Cardinality(After(Append(q, x), i))
                          = Cardinality(After(q, i)) + IF x.reqs # << >> THEN 1 ELSE 0
           /\ After(Append(q, x), Len(q) + 1) = {}
<1> DEFINE n == Len(q)
           a == Append(q, x)
<1>1. /\ n \in Nat /\ DOMAIN q = 1 .. n /\ DOMAIN a = 1 .. n + 1
      /\ \A i \in 1 .. n : a[i] = q[i]
      /\ a[n + 1] = x
  <2> HIDE DEF Batches
  <2> QED BY AppendAt
<1> HIDE DEF a, n
<1>2. ASSUME NEW I \in SUBSET (1 .. n)
      PROVE  Cardinality(I) \in 0 .. n /\ Cardinality(I \cup {n + 1}) = Cardinality(I) + 1
  BY <1>1, CountTop
<1>3. ASSUME NEW r
      PROVE  /\ Cardinality(With(q, r)) \in 0 .. n
             /\ Cardinality(With(a, r)) = Cardinality(With(q, r)) + IF r \in Range(x.reqs) THEN 1 ELSE 0
  <2>1. With(q, r) \in SUBSET (1 .. n)
    BY <1>1 DEF With
  <2>2. With(a, r) = IF r \in Range(x.reqs) THEN With(q, r) \cup {n + 1} ELSE With(q, r)
    BY <1>1 DEF With
  <2>3. Cardinality(With(q, r)) \in 0 .. n /\ Cardinality(With(q, r) \cup {n + 1}) = Cardinality(With(q, r)) + 1
    BY <1>2, <2>1
  <2> QED BY <2>2, <2>3
<1>4. ASSUME NEW i \in 0 .. n
      PROVE  /\ Cardinality(After(q, i)) \in Nat
             /\ Cardinality(After(a, i)) = Cardinality(After(q, i)) + IF x.reqs # << >> THEN 1 ELSE 0
  <2>1. After(q, i) \in SUBSET (1 .. n)
    BY <1>1 DEF After
  <2>2. After(a, i) = IF x.reqs # << >> THEN After(q, i) \cup {n + 1} ELSE After(q, i)
    BY <1>1 DEF After
  <2>3. Cardinality(After(q, i)) \in 0 .. n /\ Cardinality(After(q, i) \cup {n + 1}) = Cardinality(After(q, i)) + 1
    BY <1>2, <2>1
  <2> QED BY <1>1, <2>2, <2>3
<1>5. After(a, n + 1) = {}
  BY <1>1 DEF After
<1> QED BY <1>3, <1>4, <1>5 DEF a, n

\* The oldest batch that leaves the queue: one less names its requests, and the
\* number of the others does not change.
LEMMA CountsTail ==
    ASSUME NEW q \in Seq(Batches), q # << >>
    PROVE  /\ \A r : /\ Cardinality(With(Tail(q), r)) \in Nat
                     /\ Cardinality(With(q, r))
                          = Cardinality(With(Tail(q), r)) + IF r \in Range(q[1].reqs) THEN 1 ELSE 0
           /\ \A i \in DOMAIN Tail(q) :
                     Cardinality(After(Tail(q), i)) = Cardinality(After(q, i + 1))
           /\ Cardinality(After(Tail(q), 0)) \in Nat
           /\ Cardinality(After(q, 0))
                = Cardinality(After(Tail(q), 0)) + IF q[1].reqs # << >> THEN 1 ELSE 0
<1> DEFINE n == Len(q) - 1
           t == Tail(q)
<1>1. /\ n \in Nat /\ DOMAIN q = 1 .. n + 1 /\ DOMAIN t = 1 .. n
      /\ \A i \in 1 .. n : i + 1 \in 1 .. n + 1 /\ t[i] = q[i + 1]
  <2> HIDE DEF Batches
  <2> QED BY TailAt
<1> HIDE DEF t, n
<1>2. ASSUME NEW r
      PROVE  /\ Cardinality(With(t, r)) \in Nat
             /\ Cardinality(With(q, r)) = Cardinality(With(t, r)) + IF r \in Range(q[1].reqs) THEN 1 ELSE 0
  <2>1. With(q, r) \in SUBSET (1 .. n + 1)
    BY <1>1 DEF With
  <2>2. With(t, r) = {i \in 1 .. n : i + 1 \in With(q, r)} /\ (1 \in With(q, r) <=> r \in Range(q[1].reqs))
    BY <1>1 DEF With
  <2> QED BY <1>1, <2>1, <2>2, CountShift
<1>3. ASSUME NEW i \in 0 .. n
      PROVE  /\ Cardinality(After(t, i)) \in Nat
             /\ Cardinality(After(q, i + 1)) = Cardinality(After(t, i))
  <2>1. After(q, i + 1) \in SUBSET (1 .. n + 1)
    BY <1>1 DEF After
  <2>2. After(t, i) = {k \in 1 .. n : k + 1 \in After(q, i + 1)} /\ 1 \notin After(q, i + 1)
    BY <1>1 DEF After
  <2> QED BY <1>1, <2>1, <2>2, CountShift
<1>4. Cardinality(After(q, 0)) = Cardinality(After(t, 0)) + IF q[1].reqs # << >> THEN 1 ELSE 0
  <2>1. After(q, 0) \in SUBSET (1 .. n + 1)
    BY <1>1 DEF After
  <2>2. After(t, 0) = {k \in 1 .. n : k + 1 \in After(q, 0)} /\ (1 \in After(q, 0) <=> q[1].reqs # << >>)
    BY <1>1 DEF After
  <2> QED BY <1>1, <2>1, <2>2, CountShift
<1> QED BY <1>1, <1>2, <1>3, <1>4 DEF t

\* A batch that is not empty counts among the pending steps.
LEMMA NumberAbove ==
    ASSUME NEW q \in Seq(Batches), NEW i \in DOMAIN q, q[i].reqs # << >>
    PROVE  /\ Cardinality(After(q, i)) \in Nat /\ Cardinality(After(q, 0)) \in Nat
           /\ Cardinality(After(q, i)) < Cardinality(After(q, 0))
<1>1. Len(q) \in Nat /\ DOMAIN q = 1 .. Len(q)
  BY LenProperties
<1>2. IsFiniteSet(After(q, 0))
  <2>1. After(q, 0) \subseteq 1 .. Len(q)
    BY <1>1 DEF After
  <2>2. IsFiniteSet(1 .. Len(q))
    BY <1>1, FS_Interval
  <2> QED BY <2>1, <2>2, FS_Subset
<1>3. After(q, i) \subseteq After(q, 0) \ {i} /\ i \in After(q, 0)
  BY <1>1 DEF After
<1>4. /\ IsFiniteSet(After(q, 0) \ {i})
      /\ Cardinality(After(q, 0) \ {i}) = Cardinality(After(q, 0)) - 1
  BY <1>2, <1>3, FS_RemoveElement
<1>5. IsFiniteSet(After(q, i)) /\ Cardinality(After(q, i)) <= Cardinality(After(q, 0) \ {i})
  BY <1>3, <1>4, FS_Subset
<1>6. Cardinality(After(q, i)) \in Nat /\ Cardinality(After(q, 0)) \in Nat
  BY <1>2, <1>5, FS_CardinalityType
<1> QED BY <1>4, <1>5, <1>6

-----------------------------------------------------------------------------
(* Freeing and deferring *)

\* free_blocks of blocks that are referenced once returns them and nothing
\* else.
LEMMA FreeHeld ==
    ASSUME NEW p \in PoolRecord, CacheIndexExact(p), FreeQueueExact(p),
           \A b \in Blocks : p.ref[b] \in Nat,
           NEW q \in Seq(Blocks), Unique(q), \A b \in Range(q) : p.ref[b] = 1
    PROVE  LET f == FreeBlocks(p, Reversed(q))
           IN  /\ f \in PoolRecord /\ CacheIndexExact(f) /\ FreeQueueExact(f)
               /\ \A b \in Blocks : f.ref[b] = IF b \in Range(q) THEN 0 ELSE p.ref[b]
<1> DEFINE v == Reversed(q)
           f == FreeBlocks(p, v)
<1>1. v \in Seq(Blocks) /\ Range(v) = Range(q) /\ Unique(v)
  BY ReversedProperties
<1> HIDE DEF v
<1>2. \A b \in Blocks : Occurs(v, b) = IF b \in Range(q) THEN 1 ELSE 0
  BY <1>1, OccursProperties
<1>3. p.ref \in [Blocks -> Int]
  BY DEF PoolRecord
<1>4. CanFreeBlocks(p, v)
  <2>1. ASSUME NEW b \in Blocks PROVE Occurs(v, b) <= p.ref[b]
    <3>1. CASE b \in Range(q)
      BY <1>2, <3>1
    <3>2. CASE b \notin Range(q)
      BY <1>2, <3>2
    <3> QED BY <3>1, <3>2
  <2> QED BY <2>1 DEF CanFreeBlocks
<1>5. /\ f \in PoolRecord /\ f.ref = [b \in Blocks |-> p.ref[b] - Occurs(v, b)]
      /\ CacheIndexExact(f) /\ FreeQueueExact(f)
  BY <1>1, <1>4, FreeBlocksProperties
<1> HIDE DEF f
<1>6. \A b \in Blocks : f.ref[b] = IF b \in Range(q) THEN 0 ELSE p.ref[b]
  BY <1>2, <1>3, <1>5
<1> QED BY <1>5, <1>6 DEF f, v

\* The empty sequence.
LEMMA EmptyList ==
    Range(<< >>) = {} /\ Unique(<< >>) /\ \A S : << >> \in Seq(S)
<1>1. DOMAIN << >> = {}
  OBVIOUS
<1> QED BY <1>1 DEF Range, Unique

\* An entry of deferred_frees.
LEMMA EntryAt ==
    ASSUME NEW d \in Seq(Entries), NEW i \in DOMAIN d
    PROVE  d[i] \in Entries /\ d[i].fence \in Nat /\ d[i].blocks \in Seq(Blocks) /\ i \in Nat
<1>1. d[i] \in Entries /\ i \in Nat
  <2> HIDE DEF Entries
  <2> QED OBVIOUS
<1> QED BY <1>1 DEF Entries

\* From T to U, r gains the blocks of S.
Gains(T, U, r, S) ==
    \A s \in Requests : Range(U[s]) = IF s = r THEN Range(T[s]) \cup S ELSE Range(T[s])

\* get_new_blocks: the accounts still agree when a request is given blocks.
LEMMA TakeBlocks ==
    ASSUME NEW p, NEW T \in [Requests -> Seq(Blocks)], NEW d, NEW k, Accounted(p, T, d, k),
           NEW r \in Requests, NEW n \in Nat, CanGetNewBlocks(p, n),
           NEW U, U = [T EXCEPT ![r] = @ \o NewBlocks(p, n)]
    PROVE  /\ U \in [Requests -> Seq(Blocks)]
           /\ Accounted(GetNewBlocks(p, n), U, d, k)
           /\ Gains(T, U, r, Range(NewBlocks(p, n)))
           /\ Range(NewBlocks(p, n)) \subseteq Blocks
<1> DEFINE N == NewBlocks(p, n)
           g == GetNewBlocks(p, n)
<1>1. p \in PoolRecord /\ CacheIndexExact(p) /\ FreeQueueExact(p) /\ p.ref \in [Blocks -> Int]
  BY DEF Accounted, PoolRecord
<1>2. /\ N \in Seq(Blocks) /\ g \in PoolRecord /\ CacheIndexExact(g) /\ FreeQueueExact(g)
      /\ g.ref = [b \in Blocks |-> IF b \in Range(N) THEN p.ref[b] + 1 ELSE p.ref[b]]
      /\ Unique(N) /\ \A b \in Range(N) : p.ref[b] = 0
  BY <1>1, GetNewBlocksProperties
<1> HIDE DEF N, g
<1>3. Range(N) \subseteq Blocks
  BY <1>2, RangeOfSeq DEF Range
<1>4. \A b \in Range(N) : ~Held(T, d, k, b)
  BY <1>2, <1>3 DEF Accounted
<1>5. /\ T[r] \o N \in Seq(Blocks) /\ Range(T[r] \o N) = Range(T[r]) \cup Range(N)
      /\ Unique(T[r] \o N)
  <2>1. Unique(T[r]) /\ Range(T[r]) \cap Range(N) = {}
    BY <1>4 DEF Accounted, Held
  <2> QED BY <1>2, <2>1, ConcatUnique
<1>6. /\ U \in [Requests -> Seq(Blocks)] /\ U[r] = T[r] \o N
      /\ \A s \in Requests : s # r => U[s] = T[s]
  BY <1>5 DEF N
<1>7. \A s \in Requests : Range(U[s]) = IF s = r THEN Range(T[s]) \cup Range(N) ELSE Range(T[s])
  BY <1>5, <1>6
<1>8. ASSUME NEW b \in Blocks
      PROVE  /\ Alone(U, d, k, b)
             /\ Held(U, d, k, b) <=> Held(T, d, k, b) \/ b \in Range(N)
  BY <1>4, <1>7 DEF Accounted, Alone, Held
<1>9. ASSUME NEW b \in Blocks PROVE g.ref[b] = IF Held(U, d, k, b) THEN 1 ELSE 0
  <2>1. p.ref[b] = IF Held(T, d, k, b) THEN 1 ELSE 0
    BY DEF Accounted
  <2>2. CASE b \in Range(N)
    <3>1. g.ref[b] = 0 + 1
      BY <1>2, <2>2
    <3>2. Held(U, d, k, b)
      BY <1>8, <2>2
    <3>3. g.ref[b] = 1
      BY <3>1
    <3> QED BY <3>2, <3>3
  <2>3. CASE b \notin Range(N)
    <3>1. g.ref[b] = p.ref[b]
      BY <1>2, <2>3
    <3> QED BY <1>8, <2>1, <2>3, <3>1
  <2> QED BY <2>2, <2>3
<1>10. \A s \in Requests : Unique(U[s])
  BY <1>5, <1>6 DEF Accounted
<1>11. \A i \in DOMAIN d : Unique(d[i].blocks)
  BY DEF Accounted
<1> QED BY <1>2, <1>3, <1>6, <1>7, <1>8, <1>9, <1>10, <1>11 DEF Accounted, Gains, N, g

\* _free_request_blocks at once: the accounts still agree.
LEMMA ReleaseBlocks ==
    ASSUME NEW p, NEW T \in [Requests -> Seq(Blocks)], NEW d, NEW k, Accounted(p, T, d, k),
           NEW r \in Requests
    PROVE  Accounted(FreeBlocks(p, Reversed(T[r])), [T EXCEPT ![r] = << >>], d, k)
<1> DEFINE f == FreeBlocks(p, Reversed(T[r]))
           U == [T EXCEPT ![r] = << >>]
<1>1. T[r] \in Seq(Blocks) /\ Unique(T[r]) /\ \A b \in Blocks : p.ref[b] \in Nat
  BY DEF Accounted
<1>2. \A b \in Range(T[r]) : b \in Blocks /\ p.ref[b] = 1
  <2>1. Range(T[r]) \subseteq Blocks
    BY <1>1, RangeOfSeq DEF Range
  <2> QED BY <2>1 DEF Accounted, Held
<1>3. /\ f \in PoolRecord /\ CacheIndexExact(f) /\ FreeQueueExact(f)
      /\ \A b \in Blocks : f.ref[b] = IF b \in Range(T[r]) THEN 0 ELSE p.ref[b]
  BY <1>1, <1>2, FreeHeld DEF Accounted
<1>4. U[r] = << >> /\ \A s \in Requests : s # r => U[s] = T[s]
  OBVIOUS
<1> HIDE DEF f, U
<1>5. \A s \in Requests : Unique(U[s]) /\ Range(U[s]) = IF s = r THEN {} ELSE Range(T[s])
  BY <1>4, EmptyList DEF Accounted
<1>6. ASSUME NEW b \in Blocks
      PROVE  /\ Alone(U, d, k, b)
             /\ Held(U, d, k, b) <=> Held(T, d, k, b) /\ b \notin Range(T[r])
  <2>1. Alone(T, d, k, b)
    BY DEF Accounted
  <2> QED BY <1>5, <2>1 DEF Alone, Held
<1>7. \A b \in Blocks : f.ref[b] = IF Held(U, d, k, b) THEN 1 ELSE 0
  BY <1>3, <1>6 DEF Accounted
<1>8. \A i \in DOMAIN d : Unique(d[i].blocks)
  BY DEF Accounted
<1> QED BY <1>3, <1>5, <1>6, <1>7, <1>8 DEF Accounted, f, U

\* The list e keeps what d holds behind the same fences, and holds S behind x.
Extends(d, e) == \A b, i : Kept(d, 0, b, i) => Kept(e, 0, b, i) /\ e[i].fence = d[i].fence
Covers(e, S, x) == \A b \in S : \E i \in DOMAIN e : Kept(e, 0, b, i) /\ e[i].fence = x
StaysFenced(d, e, x) == \A lo \in Nat : Fenced(d, 0, lo, x) /\ lo < x => Fenced(e, 0, lo, x)

\* _free_request_blocks behind a fence: the blocks move from the table to the
\* last entry, and no account changes.
LEMMA DeferBlocks ==
    ASSUME NEW p, NEW T \in [Requests -> Seq(Blocks)], NEW d \in Seq(Entries), Accounted(p, T, d, 0),
           NEW r \in Requests, NEW x \in Nat,
           NEW e, e = Append(d, [fence |-> x, blocks |-> T[r]])
    PROVE  /\ e \in Seq(Entries) /\ Accounted(p, [T EXCEPT ![r] = << >>], e, 0)
           /\ StaysFenced(d, e, x) /\ Covers(e, Range(T[r]), x) /\ Extends(d, e)
<1> DEFINE U == [T EXCEPT ![r] = << >>]
           m == [fence |-> x, blocks |-> T[r]]
           n == Len(d)
<1>1. m \in Entries /\ m.fence = x /\ m.blocks = T[r]
  BY DEF Entries
<1> HIDE DEF m
<1>2. /\ e \in Seq(Entries) /\ n \in Nat /\ DOMAIN d = 1 .. n /\ DOMAIN e = 1 .. n + 1
      /\ \A i \in 1 .. n : e[i] = d[i]
      /\ e[n + 1] = m
  <2>1. e = Append(d, m)
    BY DEF m
  <2> HIDE DEF Entries
  <2> QED BY <1>1, <2>1, AppendAt
<1> HIDE DEF n
<1>3. U[r] = << >> /\ \A s \in Requests : s # r => U[s] = T[s]
  OBVIOUS
<1> HIDE DEF U
<1>4. \A s \in Requests : Unique(U[s]) /\ Range(U[s]) = IF s = r THEN {} ELSE Range(T[s])
  BY <1>3, EmptyList DEF Accounted
<1>5. \A b, i : Kept(e, 0, b, i) <=> Kept(d, 0, b, i) \/ (i = n + 1 /\ b \in Range(T[r]))
  BY <1>1, <1>2 DEF Kept
<1>6. ASSUME NEW b \in Blocks
      PROVE  Alone(U, e, 0, b) /\ (Held(U, e, 0, b) <=> Held(T, d, 0, b))
  <2>1. Alone(T, d, 0, b)
    BY DEF Accounted
  <2>2. \A i \in DOMAIN d : i # n + 1 /\ i \in DOMAIN e
    BY <1>2
  <2>3. \A i \in DOMAIN e : i \in DOMAIN d \/ i = n + 1
    BY <1>2
  <2>4. n + 1 \in DOMAIN e
    BY <1>2
  <2>5. \A i : Kept(d, 0, b, i) => i \in DOMAIN d
    BY DEF Kept
  <2>6. Alone(U, e, 0, b)
    <3>1. \A s, t \in Requests : b \in Range(U[s]) /\ b \in Range(U[t]) => s = t
      BY <1>4, <2>1 DEF Alone
    <3>2. \A i, j \in DOMAIN e : Kept(e, 0, b, i) /\ Kept(e, 0, b, j) => i = j
      BY <1>5, <2>1, <2>5 DEF Alone
    <3>3. \A s \in Requests, i \in DOMAIN e : ~(b \in Range(U[s]) /\ Kept(e, 0, b, i))
      BY <1>4, <1>5, <2>1, <2>5 DEF Alone
    <3> QED BY <3>1, <3>2, <3>3 DEF Alone
  <2>7. Held(U, e, 0, b) <=> Held(T, d, 0, b)
    BY <1>4, <1>5, <2>2, <2>3, <2>4, <2>5 DEF Held
  <2> QED BY <2>6, <2>7
<1>7. \A i \in DOMAIN e : Unique(e[i].blocks)
  BY <1>1, <1>2 DEF Accounted
<1>8. Accounted(p, U, e, 0)
  BY <1>4, <1>6, <1>7 DEF Accounted
<1>9. ASSUME NEW lo \in Nat, Fenced(d, 0, lo, x), lo < x PROVE Fenced(e, 0, lo, x)
  <2>1. \A i \in DOMAIN e : i \in 1 .. n \/ i = n + 1
    BY <1>2
  <2>2. \A i, j \in DOMAIN e : i < j => i \in 1 .. n
    BY <1>2
  <2> QED BY <1>1, <1>2, <1>9, <2>1, <2>2 DEF Fenced
<1>10. \A b \in Range(T[r]) : \E i \in DOMAIN e : Kept(e, 0, b, i) /\ e[i].fence = x
  BY <1>1, <1>2, <1>5
<1>11. \A b, i : Kept(d, 0, b, i) => Kept(e, 0, b, i) /\ e[i].fence = d[i].fence
  BY <1>2, <1>5 DEF Kept
<1> QED BY <1>2, <1>8, <1>9, <1>10, <1>11 DEF U, Extends, Covers, StaysFenced

\* _drain_deferred_frees takes one entry: the accounts agree one entry further.
LEMMA DrainBlocks ==
    ASSUME NEW p, NEW T \in [Requests -> Seq(Blocks)], NEW d \in Seq(Entries), NEW k \in Nat,
           Accounted(p, T, d, k), k + 1 \in DOMAIN d
    PROVE  Accounted(FreeBlocks(p, Reversed(d[k + 1].blocks)), T, d, k + 1)
<1> DEFINE q == d[k + 1].blocks
           f == FreeBlocks(p, Reversed(q))
<1>1. q \in Seq(Blocks) /\ Unique(q) /\ \A b \in Blocks : p.ref[b] \in Nat
  BY EntryAt DEF Accounted
<1>2. \A b : Kept(d, k, b, k + 1) <=> b \in Range(q)
  BY DEF Kept
<1> HIDE DEF q
<1>3. \A b \in Range(q) : b \in Blocks /\ p.ref[b] = 1
  <2>1. Range(q) \subseteq Blocks
    BY <1>1, RangeOfSeq DEF Range
  <2> QED BY <1>2, <2>1 DEF Accounted, Held
<1>4. /\ f \in PoolRecord /\ CacheIndexExact(f) /\ FreeQueueExact(f)
      /\ \A b \in Blocks : f.ref[b] = IF b \in Range(q) THEN 0 ELSE p.ref[b]
  BY <1>1, <1>3, FreeHeld DEF Accounted
<1> HIDE DEF f
<1>5. \A b, i : Kept(d, k + 1, b, i) <=> Kept(d, k, b, i) /\ i # k + 1
  <2>1. \A i \in DOMAIN d : i \in Nat
    BY EntryAt
  <2>2. \A i \in DOMAIN d : i > k + 1 <=> i > k /\ i # k + 1
    BY <2>1
  <2> QED BY <2>2 DEF Kept
<1>6. ASSUME NEW b \in Blocks
      PROVE  /\ Alone(T, d, k + 1, b)
             /\ Held(T, d, k + 1, b) <=> Held(T, d, k, b) /\ b \notin Range(q)
  <2>1. Alone(T, d, k, b)
    BY DEF Accounted
  <2> QED BY <1>2, <1>5, <2>1 DEF Alone, Held
<1>7. \A b \in Blocks : f.ref[b] = IF Held(T, d, k + 1, b) THEN 1 ELSE 0
  BY <1>4, <1>6 DEF Accounted
<1> QED BY <1>4, <1>6, <1>7 DEF Accounted, f, q

\* r gives its blocks up: at once, or behind a fence, or it has none.
GivesUp(p, T, d, R, r, lo, hi, f, e) ==
    \/ R[r].seq <= lo /\ f = FreeBlocks(p, Reversed(T[r])) /\ e = d
    \/ R[r].seq > lo /\ f = p /\ e = Append(d, [fence |-> hi, blocks |-> T[r]])
    \/ T[r] = << >> /\ f = p /\ e = d

\* What was guarded at a step behind lo still is.
GuardsKept(T, d, R, U, e, Q, lo) ==
    \A b \in Blocks, n \in Nat : n > lo /\ Guarded(T, d, 0, R, b, n) => Guarded(U, e, 0, Q, b, n)

\* _free_request_blocks on all its paths: accounts and fences stay in order,
\* and what a pending step guarded it still guards.  At once, because the last
\* step of the request has been processed; deferred, because the fence is the
\* last step that was scheduled.
LEMMA GivesUpProperties ==
    ASSUME NEW p, NEW T \in [Requests -> Seq(Blocks)], NEW d \in Seq(Entries), Accounted(p, T, d, 0),
           NEW lo \in Nat, NEW hi \in Nat, Fenced(d, 0, lo, hi),
           NEW R, \A s \in Requests : R[s].seq \in Nat /\ R[s].seq <= hi,
           NEW r \in Requests, NEW f, NEW e, GivesUp(p, T, d, R, r, lo, hi, f, e),
           NEW U, U = [T EXCEPT ![r] = << >>]
    PROVE  /\ U \in [Requests -> Seq(Blocks)] /\ U[r] = << >>
           /\ \A s \in Requests : s # r => U[s] = T[s]
           /\ e \in Seq(Entries) /\ Accounted(f, U, e, 0) /\ Fenced(e, 0, lo, hi)
           /\ GuardsKept(T, d, R, U, e, R, lo)
<1>1. U \in [Requests -> Seq(Blocks)] /\ U[r] = << >> /\ \A s \in Requests : s # r => U[s] = T[s]
  BY EmptyList
<1>2. CASE R[r].seq <= lo /\ f = FreeBlocks(p, Reversed(T[r])) /\ e = d
  <2>1. Accounted(f, U, e, 0)
    BY <1>2, ReleaseBlocks
  <2>2. ASSUME NEW b, NEW n \in Nat, n > lo, Guarded(T, d, 0, R, b, n) PROVE Guarded(U, e, 0, R, b, n)
    <3>1. CASE \E i \in DOMAIN d : Kept(d, 0, b, i) /\ d[i].fence >= n
      BY <1>2, <3>1 DEF Guarded
    <3>2. CASE \E s \in Requests : b \in Range(T[s]) /\ R[s].seq >= n
      <4>1. PICK s \in Requests : b \in Range(T[s]) /\ R[s].seq >= n
        BY <3>2
      <4>2. s # r
        BY <1>2, <2>2, <4>1
      <4> QED BY <1>1, <4>1, <4>2 DEF Guarded
    <3> QED BY <2>2, <3>1, <3>2 DEF Guarded
  <2> QED BY <1>1, <1>2, <2>1, <2>2 DEF GuardsKept
<1>3. CASE R[r].seq > lo /\ f = p /\ e = Append(d, [fence |-> hi, blocks |-> T[r]])
  <2>1. /\ e \in Seq(Entries) /\ Accounted(f, U, e, 0)
        /\ lo < hi => Fenced(e, 0, lo, hi)
        /\ \A b \in Range(T[r]) : \E i \in DOMAIN e : Kept(e, 0, b, i) /\ e[i].fence = hi
        /\ \A b, i : Kept(d, 0, b, i) => Kept(e, 0, b, i) /\ e[i].fence = d[i].fence
    <3>1. e = Append(d, [fence |-> hi, blocks |-> T[r]])
      BY <1>3
    <3>2. /\ e \in Seq(Entries) /\ Accounted(p, [T EXCEPT ![r] = << >>], e, 0)
          /\ StaysFenced(d, e, hi) /\ Covers(e, Range(T[r]), hi) /\ Extends(d, e)
      BY <3>1, DeferBlocks
    <3> QED BY <1>3, <3>2 DEF StaysFenced, Covers, Extends
  <2>2. lo < hi
    BY <1>3
  <2>3. ASSUME NEW b, NEW n \in Nat, n > lo, Guarded(T, d, 0, R, b, n) PROVE Guarded(U, e, 0, R, b, n)
    <3>1. CASE \E i \in DOMAIN d : Kept(d, 0, b, i) /\ d[i].fence >= n
      <4>1. PICK i \in DOMAIN d : Kept(d, 0, b, i) /\ d[i].fence >= n
        BY <3>1
      <4>2. Kept(e, 0, b, i) /\ e[i].fence >= n
        BY <2>1, <4>1
      <4> QED BY <4>2 DEF Guarded, Kept
    <3>2. CASE \E s \in Requests : b \in Range(T[s]) /\ R[s].seq >= n
      <4>1. PICK s \in Requests : b \in Range(T[s]) /\ R[s].seq >= n
        BY <3>2
      <4>2. CASE s = r
        <5>1. PICK i \in DOMAIN e : Kept(e, 0, b, i) /\ e[i].fence = hi
          BY <2>1, <4>1, <4>2
        <5>2. hi >= n
          BY <4>1, <4>2
        <5> QED BY <5>1, <5>2 DEF Guarded
      <4>3. CASE s # r
        BY <1>1, <4>1, <4>3 DEF Guarded
      <4> QED BY <4>2, <4>3
    <3> QED BY <2>3, <3>1, <3>2 DEF Guarded
  <2> QED BY <1>1, <2>1, <2>2, <2>3 DEF GuardsKept
<1>4. CASE T[r] = << >> /\ f = p /\ e = d
  <2>1. U = T
    BY <1>4
  <2> QED BY <1>1, <1>4, <2>1 DEF GuardsKept
<1> QED BY <1>2, <1>3, <1>4 DEF GivesUp

\* What was guarded stays guarded when tables and step numbers only grow.
LEMMA GuardKept ==
    ASSUME NEW T, NEW U, NEW d, NEW R, NEW Q, NEW lo,
           \A r \in Requests : Range(T[r]) \subseteq Range(U[r]),
           \A r \in Requests : R[r].seq \in Nat /\ Q[r].seq \in Nat /\ R[r].seq <= Q[r].seq
    PROVE  GuardsKept(T, d, R, U, d, Q, lo)
<1> SUFFICES ASSUME NEW b, NEW n \in Nat, Guarded(T, d, 0, R, b, n) PROVE Guarded(U, d, 0, Q, b, n)
  BY DEF GuardsKept
<1>1. CASE \E i \in DOMAIN d : Kept(d, 0, b, i) /\ d[i].fence >= n
  BY <1>1 DEF Guarded
<1>2. CASE \E s \in Requests : b \in Range(T[s]) /\ R[s].seq >= n
  <2>1. PICK s \in Requests : b \in Range(T[s]) /\ R[s].seq >= n
    BY <1>2
  <2>2. b \in Range(U[s]) /\ Q[s].seq >= n
    BY <2>1
  <2> QED BY <2>2 DEF Guarded
<1> QED BY <1>1, <1>2 DEF Guarded

-----------------------------------------------------------------------------
(* Draining *)

\* Induction over the natural numbers, for a set: what is in it for 0 and
\* passes from n to n + 1 is in it for all.
LEMMA SetInduction ==
    ASSUME NEW S, 0 \in S, \A n \in Nat : n \in S => n + 1 \in S
    PROVE  Nat \subseteq S
<1> DEFINE T == {1 .. n : n \in Nat \ S}
           F == FiniteSubsetsOf(Nat)
           R == StrictSubsetOrdering(Nat)
<1> SUFFICES ASSUME ~(Nat \subseteq S) PROVE FALSE
  OBVIOUS
<1>1. IsWellFoundedOn(R, F)
  BY FS_StrictSubsetOrderingWellFounded
<1>2. T \subseteq F
  <2>1. \A n \in Nat : IsFiniteSet(1 .. n)
    BY FS_Interval
  <2> QED BY <2>1 DEF FiniteSubsetsOf
<1>3. T # {}
  OBVIOUS
<1>4. PICK x \in T : \A y \in T : ~ (<< y, x >> \in R)
  <2> HIDE DEF T, R, F
  <2> QED BY <1>1, <1>2, <1>3, WFMin
<1>5. PICK n \in Nat \ S : x = 1 .. n
  OBVIOUS
<1>6. n - 1 \in Nat /\ (n - 1) + 1 = n
  BY <1>5
<1>7. 1 .. (n - 1) \in T
  BY <1>5, <1>6
<1>8. << 1 .. (n - 1), 1 .. n >> \in R
  BY <1>5, <1>6 DEF StrictSubsetOrdering
<1> QED BY <1>4, <1>5, <1>7, <1>8

\* f is the pool after each of the first n entries of d.
IsDrain(f, p, d, n) ==
    f = [i \in 0 .. n |-> IF i = 0 THEN p ELSE FreeBlocks(f[i - 1], Reversed(d[i].blocks))]

\* The recursive function of _drain_deferred_frees is defined.
LEMMA DrainDefined == ASSUME NEW p, NEW d PROVE \A n \in Nat : \E f : IsDrain(f, p, d, n)
<1> DEFINE S == {n \in Nat : \E f : IsDrain(f, p, d, n)}
<1>1. 0 \in S
  <2> DEFINE f == [i \in 0 .. 0 |-> p]
  <2>1. IsDrain(f, p, d, 0)
    BY DEF IsDrain
  <2> QED BY <2>1
<1>2. ASSUME NEW n \in Nat, n \in S PROVE n + 1 \in S
  <2>1. PICK f : IsDrain(f, p, d, n)
    BY <1>2
  <2> DEFINE g == [i \in 0 .. n + 1 |->
                      IF i = n + 1 THEN FreeBlocks(f[n], Reversed(d[n + 1].blocks)) ELSE f[i]]
  <2>2. /\ DOMAIN g = 0 .. n + 1 /\ g[n + 1] = FreeBlocks(f[n], Reversed(d[n + 1].blocks))
        /\ \A i \in 0 .. n : g[i] = f[i]
    OBVIOUS
  <2>3. \A i \in 0 .. n : f[i] = IF i = 0 THEN p ELSE FreeBlocks(f[i - 1], Reversed(d[i].blocks))
    BY <2>1, Zenon DEF IsDrain
  <2>4. ASSUME NEW i \in 0 .. n + 1
        PROVE  g[i] = IF i = 0 THEN p ELSE FreeBlocks(g[i - 1], Reversed(d[i].blocks))
    <3> HIDE DEF g
    <3>1. CASE i = n + 1
      BY <2>2, <3>1
    <3>2. CASE i # n + 1
      <4>1. i \in 0 .. n /\ (i # 0 => i - 1 \in 0 .. n)
        BY <3>2
      <4> QED BY <2>2, <2>3, <4>1
    <3> QED BY <3>1, <3>2
  <2>5. IsDrain(g, p, d, n + 1)
    BY <2>4 DEF IsDrain
  <2> QED BY <2>5
<1> HIDE DEF S
<1>3. Nat \subseteq S
  BY <1>1, <1>2, SetInduction
<1> QED BY <1>3 DEF S

\* After n entries of it, the accounts agree from the n-th entry on.
LEMMA DrainAccounted ==
    ASSUME NEW p, NEW T \in [Requests -> Seq(Blocks)], NEW d \in Seq(Entries), Accounted(p, T, d, 0),
           NEW f, IsDrain(f, p, d, Len(d))
    PROVE  \A n \in 0 .. Len(d) : Accounted(f[n], T, d, n)
<1> DEFINE S == {n \in Nat : n <= Len(d) => Accounted(f[n], T, d, n)}
<1>1. Len(d) \in Nat /\ DOMAIN d = 1 .. Len(d)
  BY LenProperties
<1>2. /\ f[0] = p
      /\ \A n \in Nat : n + 1 <= Len(d) =>
            f[n + 1] = FreeBlocks(f[n], Reversed(d[n + 1].blocks))
  <2>1. \A i \in 0 .. Len(d) : f[i] = IF i = 0 THEN p ELSE FreeBlocks(f[i - 1], Reversed(d[i].blocks))
    BY Zenon DEF IsDrain
  <2>2. \A n \in Nat : n + 1 <= Len(d) =>
            n + 1 \in 0 .. Len(d) /\ n + 1 # 0 /\ (n + 1) - 1 = n
    BY <1>1
  <2>3. 0 \in 0 .. Len(d)
    BY <1>1
  <2> QED BY <2>1, <2>2, <2>3
<1>3. 0 \in S
  BY <1>2
<1>4. ASSUME NEW n \in Nat, n \in S PROVE n + 1 \in S
  <2>1. CASE n + 1 <= Len(d)
    <3>1. n <= Len(d) /\ n + 1 \in DOMAIN d
      BY <1>1, <2>1
    <3>2. Accounted(f[n], T, d, n)
      BY <1>4, <3>1
    <3>3. Accounted(FreeBlocks(f[n], Reversed(d[n + 1].blocks)), T, d, n + 1)
      BY <3>1, <3>2, DrainBlocks
    <3> QED BY <1>2, <2>1, <3>3
  <2>2. CASE ~(n + 1 <= Len(d))
    BY <2>2
  <2> QED BY <2>1, <2>2
<1> HIDE DEF S
<1>5. Nat \subseteq S
  BY <1>3, <1>4, SetInduction
<1> QED BY <1>1, <1>5 DEF S

\* The number of entries that are drained.
IsDrained(d, seq, n) ==
    /\ \A i \in 1 .. n : d[i].fence <= seq
    /\ n < Len(d) => d[n + 1].fence > seq

\* _drain_deferred_frees stops somewhere.
LEMMA DrainedDefined ==
    ASSUME NEW d \in Seq(Entries), NEW seq \in Nat
    PROVE  \E n \in 0 .. Len(d) : IsDrained(d, seq, n)
<1> DEFINE S == {n \in Nat : \/ n <= Len(d) /\ \A i \in 1 .. n : d[i].fence <= seq
                             \/ \E m \in 0 .. Len(d) : IsDrained(d, seq, m)}
<1>1. Len(d) \in Nat /\ DOMAIN d = 1 .. Len(d) /\ \A i \in 1 .. Len(d) : d[i].fence \in Nat
  BY EntryAt
<1>2. 0 \in S
  BY <1>1
<1>3. ASSUME NEW n \in Nat, n \in S PROVE n + 1 \in S
  <2>1. CASE \E m \in 0 .. Len(d) : IsDrained(d, seq, m)
    BY <2>1
  <2>2. CASE n <= Len(d) /\ \A i \in 1 .. n : d[i].fence <= seq
    <3>1. CASE n < Len(d) /\ d[n + 1].fence <= seq
      <4>1. n + 1 <= Len(d) /\ \A i \in 1 .. n + 1 : i \in 1 .. n \/ i = n + 1
        BY <1>1, <3>1
      <4>2. \A i \in 1 .. n + 1 : d[i].fence <= seq
        BY <2>2, <3>1, <4>1
      <4> QED BY <4>1, <4>2
    <3>2. CASE ~(n < Len(d) /\ d[n + 1].fence <= seq)
      <4>1. n < Len(d) => d[n + 1].fence > seq
        <5>1. n < Len(d) => d[n + 1].fence \in Nat
          BY <1>1
        <5> QED BY <3>2, <5>1
      <4>2. IsDrained(d, seq, n) /\ n \in 0 .. Len(d)
        BY <1>1, <2>2, <4>1 DEF IsDrained
      <4> QED BY <4>2
    <3> QED BY <3>1, <3>2
  <2> QED BY <1>3, <2>1, <2>2
<1>4. Len(d) + 1 \in S
  <2> HIDE DEF S
  <2>1. Nat \subseteq S
    BY <1>2, <1>3, SetInduction
  <2> QED BY <1>1, <2>1
<1> QED BY <1>1, <1>4

\* e is what is left of d behind its first m entries.
Shifted(d, e, m) ==
    /\ \A i \in DOMAIN e : i \in Nat \ {0} /\ i + m \in DOMAIN d /\ e[i] = d[i + m]
    /\ \A b, i : Kept(e, 0, b, i) <=> i \in Nat \ {0} /\ Kept(d, m, b, i + m)

\* Dropping the entries that have been drained.
LEMMA SplitEntries ==
    ASSUME NEW p, NEW T \in [Requests -> Seq(Blocks)], NEW d \in Seq(Entries),
           NEW m \in 0 .. Len(d), Accounted(p, T, d, m),
           NEW e, e = SubSeq(d, m + 1, Len(d))
    PROVE  e \in Seq(Entries) /\ Accounted(p, T, e, 0) /\ Shifted(d, e, m)
<1> DEFINE n == Len(d)
<1>1. n \in Nat /\ DOMAIN d = 1 .. n /\ m \in Nat /\ m <= n
  BY LenProperties
<1>2. e \in Seq(Entries) /\ DOMAIN e = 1 .. n - m /\ \A i \in 1 .. n - m : e[i] = d[i + m]
  <2> HIDE DEF Entries
  <2>1. e = SubSeq(d, m + 1, n)
    OBVIOUS
  <2>2. \A i \in m + 1 .. n : d[i] \in Entries
    BY <1>1
  <2>3. /\ SubSeq(d, m + 1, n) \in Seq(Entries)
        /\ Len(SubSeq(d, m + 1, n)) = IF m + 1 <= n THEN n - (m + 1) + 1 ELSE 0
        /\ \A i \in 1 .. n - (m + 1) + 1 : SubSeq(d, m + 1, n)[i] = d[(m + 1) + i - 1]
    BY <1>1, <2>2, SubSeqProperties
  <2>4. DOMAIN e = 1 .. Len(e) /\ Len(e) = n - m
    <3>1. DOMAIN e = 1 .. Len(e)
      BY <2>1, <2>3, LenProperties
    <3>2. Len(e) = IF m + 1 <= n THEN n - (m + 1) + 1 ELSE 0
      BY <2>1, <2>3
    <3>3. Len(e) = n - m
      <4> HIDE DEF n
      <4>1. m + 1 <= n => Len(e) = n - m
        BY <1>1, <3>2
      <4>2. m = n => Len(e) = n - m
        BY <1>1, <3>2
      <4> QED BY <1>1, <4>1, <4>2
    <3> QED BY <3>1, <3>3
  <2>5. \A i \in 1 .. n - m : (m + 1) + i - 1 = i + m /\ i \in 1 .. n - (m + 1) + 1
    BY <1>1
  <2> QED BY <2>1, <2>3, <2>4, <2>5
<1> HIDE DEF n
<1>3. \A i \in DOMAIN e : i \in Nat \ {0} /\ i + m \in DOMAIN d /\ e[i] = d[i + m] /\ i + m > m
  BY <1>1, <1>2
<1>4. \A i \in DOMAIN d : i > m => i - m \in DOMAIN e /\ (i - m) + m = i
  BY <1>1, <1>2
<1>5. \A b, i : Kept(e, 0, b, i) => i \in Nat \ {0} /\ Kept(d, m, b, i + m)
  BY <1>3 DEF Kept
<1>6. ASSUME NEW b, NEW i \in Nat \ {0}, Kept(d, m, b, i + m) PROVE Kept(e, 0, b, i)
  <2>1. i \in DOMAIN e
    BY <1>1, <1>2, <1>6 DEF Kept
  <2> QED BY <1>3, <1>6, <2>1 DEF Kept
<1>7. ASSUME NEW b, NEW i, Kept(d, m, b, i) PROVE Kept(e, 0, b, i - m) /\ i \in Nat /\ i - m \in DOMAIN e
  <2>1. i \in DOMAIN d /\ i > m /\ i \in Nat
    BY <1>1, <1>7 DEF Kept
  <2>2. i - m \in DOMAIN e /\ (i - m) + m = i
    BY <1>4, <2>1
  <2> QED BY <1>3, <1>6, <1>7, <2>1, <2>2
<1>8. ASSUME NEW b \in Blocks
      PROVE  Alone(T, e, 0, b) /\ (Held(T, e, 0, b) <=> Held(T, d, m, b))
  <2>1. Alone(T, d, m, b)
    BY DEF Accounted
  <2>2. \A i, j \in DOMAIN e : Kept(e, 0, b, i) /\ Kept(e, 0, b, j) => i = j
    <3> SUFFICES ASSUME NEW i \in DOMAIN e, NEW j \in DOMAIN e, Kept(e, 0, b, i), Kept(e, 0, b, j)
                 PROVE  i = j
      OBVIOUS
    <3>1. Kept(d, m, b, i + m) /\ Kept(d, m, b, j + m)
      BY <1>5
    <3>2. i + m = j + m
      BY <1>3, <2>1, <3>1 DEF Alone
    <3> QED BY <1>1, <1>3, <3>2
  <2>3. \A r \in Requests, i \in DOMAIN e : ~(b \in Range(T[r]) /\ Kept(e, 0, b, i))
    BY <1>3, <1>5, <2>1 DEF Alone
  <2>4. Held(T, e, 0, b) => Held(T, d, m, b)
    BY <1>3, <1>5 DEF Held
  <2>5. Held(T, d, m, b) => Held(T, e, 0, b)
    BY <1>7 DEF Held
  <2> QED BY <2>1, <2>2, <2>3, <2>4, <2>5 DEF Alone
<1>9. \A i \in DOMAIN e : Unique(e[i].blocks)
  BY <1>3 DEF Accounted
<1>10. Accounted(p, T, e, 0)
  BY <1>8, <1>9 DEF Accounted
<1> QED BY <1>2, <1>3, <1>5, <1>6, <1>10 DEF Shifted

\* _drain_deferred_frees as a whole: the accounts agree, only pending fences
\* are left, and what is guarded by a step that is still pending stays so.
LEMMA DrainProperties ==
    ASSUME NEW seq \in Nat, NEW lo \in Nat, lo <= seq,
           table \in [Requests -> Seq(Blocks)], deferred \in Seq(Entries), schedSeq \in Nat,
           Accounted(pool, table, deferred, 0), Fenced(deferred, 0, lo, schedSeq), Drain(seq)
    PROVE  /\ deferred' \in Seq(Entries) /\ Accounted(pool', table, deferred', 0)
           /\ Fenced(deferred', 0, seq, schedSeq)
           /\ \A R : GuardsKept(table, deferred, R, table, deferred', R, seq)
<1> DEFINE m == Drained(seq)
           A == CHOOSE f : IsDrain(f, pool, deferred, Len(deferred))
<1>1. Len(deferred) \in Nat /\ DOMAIN deferred = 1 .. Len(deferred)
  BY LenProperties
<1>2. IsDrain(A, pool, deferred, Len(deferred))
  <2>1. \E f : IsDrain(f, pool, deferred, Len(deferred))
    BY <1>1, DrainDefined
  <2> QED BY <2>1, Zenon
<1>3. pool' = A[m] /\ deferred' = SubSeq(deferred, m + 1, Len(deferred))
  BY DEF Drain, IsDrain
<1>4. m \in 0 .. Len(deferred) /\ IsDrained(deferred, seq, m)
  <2>1. m = CHOOSE n \in 0 .. Len(deferred) : IsDrained(deferred, seq, n)
    BY DEF Drained, IsDrained
  <2>2. \E n \in 0 .. Len(deferred) : IsDrained(deferred, seq, n)
    BY DrainedDefined
  <2> QED BY <2>1, <2>2, Zenon
<1> HIDE DEF m, A
<1>5. Accounted(pool', table, deferred, m)
  BY <1>2, <1>3, <1>4, DrainAccounted
<1>6. /\ deferred' \in Seq(Entries) /\ Accounted(pool', table, deferred', 0)
      /\ \A i \in DOMAIN deferred' : /\ i \in Nat \ {0} /\ i + m \in DOMAIN deferred
                                     /\ deferred'[i] = deferred[i + m]
      /\ \A b, i : Kept(deferred', 0, b, i) <=> i \in Nat \ {0} /\ Kept(deferred, m, b, i + m)
  <2>1. PICK e, p : e = deferred' /\ p = pool'
    OBVIOUS
  <2>2. e = SubSeq(deferred, m + 1, Len(deferred)) /\ Accounted(p, table, deferred, m)
    BY <1>3, <1>5, <2>1
  <2>3. e \in Seq(Entries) /\ Accounted(p, table, e, 0) /\ Shifted(deferred, e, m)
    <3>1. m \in 0 .. Len(deferred)
      BY <1>4
    <3> QED BY <2>2, <3>1, SplitEntries
  <2> QED BY <2>1, <2>3 DEF Shifted
<1>7. \A i \in DOMAIN deferred : deferred[i].fence \in Nat /\ i \in Nat
  BY EntryAt
<1>8. \A i \in DOMAIN deferred : i > m => deferred[i].fence > seq
  <2> SUFFICES ASSUME NEW i \in DOMAIN deferred, i > m PROVE deferred[i].fence > seq
    OBVIOUS
  <2>1. m + 1 \in DOMAIN deferred /\ m < Len(deferred) /\ (m + 1 = i \/ m + 1 < i)
    BY <1>1, <1>4
  <2>2. deferred[m + 1].fence > seq
    BY <1>4, <2>1 DEF IsDrained
  <2>3. m + 1 < i => deferred[m + 1].fence <= deferred[i].fence
    BY <2>1 DEF Fenced
  <2> QED BY <1>7, <2>1, <2>2, <2>3
<1>9. Fenced(deferred', 0, seq, schedSeq)
  <2>1. ASSUME NEW i \in DOMAIN deferred'
        PROVE  deferred'[i].fence <= schedSeq /\ deferred'[i].fence > seq
    <3>1. i + m \in DOMAIN deferred /\ i + m > m /\ deferred'[i] = deferred[i + m]
      BY <1>4, <1>6
    <3> QED BY <1>8, <3>1 DEF Fenced
  <2>2. ASSUME NEW i \in DOMAIN deferred', NEW j \in DOMAIN deferred', i < j
        PROVE  deferred'[i].fence <= deferred'[j].fence
    <3>1. i + m \in DOMAIN deferred /\ j + m \in DOMAIN deferred /\ i + m < j + m
      BY <1>4, <1>6, <2>2
    <3> QED BY <1>6, <3>1 DEF Fenced
  <2> QED BY <2>1, <2>2 DEF Fenced
<1>10. ASSUME NEW R, NEW b, NEW n \in Nat, n > seq, Guarded(table, deferred, 0, R, b, n)
       PROVE  Guarded(table, deferred', 0, R, b, n)
  <2>1. CASE \E r \in Requests : b \in Range(table[r]) /\ R[r].seq >= n
    BY <2>1 DEF Guarded
  <2>2. CASE \E i \in DOMAIN deferred : Kept(deferred, 0, b, i) /\ deferred[i].fence >= n
    <3>1. PICK i \in DOMAIN deferred : Kept(deferred, 0, b, i) /\ deferred[i].fence >= n
      BY <2>2
    <3>2. i > m
      <4>1. i \in 1 .. Len(deferred) /\ m \in Nat
        BY <1>1, <1>4
      <4>2. i \notin 1 .. m
        BY <1>4, <1>7, <1>10, <3>1 DEF IsDrained
      <4> QED BY <4>1, <4>2
    <3>3. i - m \in Nat \ {0} /\ (i - m) + m = i
      BY <1>4, <1>7, <3>2
    <3>4. Kept(deferred, m, b, i)
      BY <3>1, <3>2 DEF Kept
    <3>5. Kept(deferred', 0, b, i - m)
      BY <1>6, <3>3, <3>4
    <3>6. i - m \in DOMAIN deferred' /\ deferred'[i - m].fence >= n
      BY <1>6, <3>1, <3>3, <3>5 DEF Kept
    <3> QED BY <3>5, <3>6 DEF Guarded
  <2> QED BY <1>10, <2>1, <2>2 DEF Guarded
<1> QED BY <1>6, <1>9, <1>10 DEF GuardsKept

-----------------------------------------------------------------------------
(* The requests between two steps *)

\* The fields of a request.
LEMMA RecordAt ==
    ASSUME Types, NEW r \in Requests
    PROVE  /\ req[r] \in Records /\ Outputs \in Nat \ {0}
           /\ req[r].sent \in 0 .. Outputs /\ req[r].done \in 0 .. Outputs
           /\ req[r].sent \in Nat /\ req[r].done \in Nat
           /\ req[r].stale \in Nat /\ req[r].seq \in Nat
<1>1. req[r] \in Records /\ Outputs \in Nat \ {0}
  BY DeferredFreeAssumption, BlockPoolAssumption DEF Types
<1>2. /\ req[r].sent \in 0 .. Outputs /\ req[r].done \in 0 .. Outputs
      /\ req[r].stale \in Nat /\ req[r].seq \in Nat
  BY <1>1 DEF Records
<1> QED BY <1>1, <1>2

\* What a step leaves alone of the fence when it neither schedules a batch nor
\* takes one.
LEMMA CalmStep ==
    ASSUME IInv, UNCHANGED << batches, schedSeq, procSeq >>,
           GuardsKept(table, deferred, req, table', deferred', req', procSeq)
    PROVE  Behind' /\ Safe'
<1>1. Behind'
  BY DEF IInv, Behind, Pending
<1>2. ASSUME CountersInSync', NEW i \in DOMAIN batches, NEW b \in batches[i].writes
      PROVE  Guarded(table', deferred', 0, req', b, Number(i))
  <2>1. CountersInSync /\ procSeq + Cardinality(After(batches, 0)) = schedSeq
    <3>1. CountersInSync
      BY <1>2 DEF CountersInSync, Pending
    <3>2. Pending = Cardinality(After(batches, 0))
      <4>1. batches \in Seq(Batches) /\ \A j \in DOMAIN batches : j > 0
        BY DEF IInv, Types
      <4>2. {j \in DOMAIN batches : batches[j].reqs # << >>} = After(batches, 0)
        BY <4>1 DEF After
      <4> QED BY <4>2 DEF Pending
    <3> QED BY <3>1, <3>2 DEF CountersInSync
  <2>2. Guarded(table, deferred, 0, req, b, Number(i))
    BY <2>1 DEF IInv, Safe
  <2>3. batches[i].reqs # << >>
    BY DEF IInv, Writers, Sensible
  <2>4. Number(i) \in Nat /\ Number(i) > procSeq
    <3>1. batches \in Seq(Batches) /\ schedSeq \in Nat /\ procSeq \in Nat
      BY DEF IInv, Types
    <3>2. /\ Cardinality(After(batches, i)) \in Nat /\ Cardinality(After(batches, 0)) \in Nat
          /\ Cardinality(After(batches, i)) < Cardinality(After(batches, 0))
      BY <2>3, <3>1, NumberAbove
    <3> QED BY <2>1, <3>1, <3>2 DEF Number
  <2>5. PICK n : n = Number(i)
    OBVIOUS
  <2>6. n \in Nat /\ n > procSeq /\ Guarded(table, deferred, 0, req, b, n)
    BY <2>2, <2>4, <2>5
  <2>7. Guarded(table', deferred', 0, req', b, n)
    <3> b \in Blocks
      <4>1. batches[i] \in Batches
        BY DEF IInv, Types
      <4> QED BY <4>1 DEF Batches
    <3>1. PICK U, e, Q : U = table' /\ e = deferred' /\ Q = req'
      OBVIOUS
    <3>2. GuardsKept(table, deferred, req, U, e, Q, procSeq)
      BY <3>1
    <3>3. Guarded(U, e, 0, Q, b, n)
      BY <2>6, <3>2 DEF GuardsKept
    <3> QED BY <3>1, <3>3
  <2> QED BY <2>5, <2>7
<1>3. Safe'
  BY <1>2 DEF Safe, Number
<1> QED BY <1>1, <1>3

\* A step that changes no batch and no outputs in flight.
LEMMA FlightsKept ==
    ASSUME Flights, batches' = batches, \A r \in Requests : Left(r)' <=> Left(r),
           \A r \in Requests : req'[r].status # "finished" =>
               req[r].status # "finished" /\ InFlight(r)' = InFlight(r)
    PROVE  Flights'
BY DEF Flights

\* A sequence of one.
LEMMA LoneRequest ==
    ASSUME NEW r
    PROVE  << r >> \in Seq({r}) /\ Range(<< r >>) = {r} /\ Unique(<< r >>)
<1>1. DOMAIN << r >> = {1} /\ << r >>[1] = r
  OBVIOUS
<1> QED BY <1>1 DEF Range, Unique

\* Two changes that keep the guards, one after the other.
LEMMA GuardsChain ==
    ASSUME NEW T, NEW d, NEW R, NEW U, NEW e, NEW Q, NEW V, NEW c, NEW P, NEW lo,
           GuardsKept(T, d, R, U, e, Q, lo), GuardsKept(U, e, Q, V, c, P, lo)
    PROVE  GuardsKept(T, d, R, V, c, P, lo)
BY DEF GuardsKept

\* Guards are kept when the step numbers of requests only grow.
LEMMA LaterFences ==
    ASSUME Types, req' \in [Requests -> Records], \A s \in Requests : req[s].seq <= req'[s].seq,
           GuardsKept(table, deferred, req, table', deferred', req, procSeq)
    PROVE  GuardsKept(table, deferred, req, table', deferred', req', procSeq)
<1>1. \A s \in Requests : req[s].seq \in Nat /\ req'[s].seq \in Nat /\ req[s].seq <= req'[s].seq
  BY DEF Types, Records
<1>2. PICK T, d, Q : T = table' /\ d = deferred' /\ Q = req'
  OBVIOUS
<1>3. GuardsKept(T, d, req, T, d, Q, procSeq)
  BY <1>1, <1>2, GuardKept
<1> QED BY <1>2, <1>3, GuardsChain

\* Guards are kept when requests only gain blocks.
LEMMA MoreBlocks ==
    ASSUME Types, req' \in [Requests -> Records], \A s \in Requests : req[s].seq <= req'[s].seq,
           deferred' = deferred, \A s \in Requests : Range(table[s]) \subseteq Range(table'[s])
    PROVE  GuardsKept(table, deferred, req, table', deferred', req', procSeq)
<1>1. \A s \in Requests : req[s].seq \in Nat /\ req'[s].seq \in Nat /\ req[s].seq <= req'[s].seq
  BY DEF Types, Records
<1>2. PICK T, Q : T = table' /\ Q = req'
  OBVIOUS
<1>3. GuardsKept(table, deferred, req, T, deferred, Q, procSeq)
  BY <1>1, <1>2, GuardKept
<1> QED BY <1>2, <1>3

\* add_request preserves the invariant.
LEMMA AddRequestStep == ASSUME IInv, NEW r \in Requests, AddRequest(r) PROVE IInv'
<1> USE DEF IInv
<1>1. /\ req' \in [Requests -> Records] /\ \A s \in Requests : s # r => req'[s] = req[s]
      /\ req'[r].status = "waiting" /\ req'[r].sent = req[r].sent /\ req'[r].done = req[r].done
      /\ req'[r].stale = req[r].stale /\ req'[r].seq = req[r].seq
      /\ req[r].status = "new"
  BY DEF AddRequest, Types, Records
<1>2. /\ waiting' \in Seq(Requests) /\ Range(waiting') = Range(waiting) \cup {r}
      /\ Unique(waiting')
  BY <1>1, AppendUnique DEF AddRequest, Types, Queues
<1> USE DEF AddRequest, fence
<1>3. Types'
  BY <1>1, <1>2 DEF Types
<1>4. Queues'
  BY <1>1, <1>2 DEF Queues
<1>5. Loop' /\ Writers'
  BY DEF Loop, Writers, Scheduling
<1>6. Flights'
  BY <1>1, FlightsKept DEF Left, InFlight
<1>7. GuardsKept(table, deferred, req, table', deferred', req', procSeq)
  <2>1. \A s \in Requests : req[s].seq \in Nat /\ (s # r => req'[s].seq = req[s].seq)
    BY <1>1 DEF Types, Records
  <2>2. \A s \in Requests : req[s].seq <= req'[s].seq
    BY <1>1, <2>1
  <2> QED BY <1>1, <2>2, MoreBlocks
<1> QED BY <1>3, <1>4, <1>5, <1>6, <1>7, CalmStep

\* _free_request_blocks as an action.
LEMMA FreeRequestGivesUp ==
    ASSUME IInv, NEW r \in Requests, FreeRequestBlocks(r, pool, deferred)
    PROVE  /\ table' \in [Requests -> Seq(Blocks)] /\ table'[r] = << >>
           /\ \A s \in Requests : s # r => table'[s] = table[s]
           /\ deferred' \in Seq(Entries) /\ Accounted(pool', table', deferred', 0)
           /\ Fenced(deferred', 0, procSeq, schedSeq)
           /\ GuardsKept(table, deferred, req, table', deferred', req, procSeq)
<1>1. GivesUp(pool, table, deferred, req, r, procSeq, schedSeq, pool', deferred')
  <2>1. req[r].seq \in Nat /\ procSeq \in Nat
    BY DEF IInv, Types, Records
  <2> QED BY <2>1 DEF FreeRequestBlocks, GivesUp, Passed
<1>2. PICK f, e, U : f = pool' /\ e = deferred' /\ U = table'
  OBVIOUS
<1>3. U = [table EXCEPT ![r] = << >>]
  BY <1>2 DEF FreeRequestBlocks
<1>4. \A s \in Requests : req[s].seq \in Nat /\ req[s].seq <= schedSeq
  BY DEF IInv, Types, Records, Queues
<1>5. /\ table \in [Requests -> Seq(Blocks)] /\ deferred \in Seq(Entries)
      /\ Accounted(pool, table, deferred, 0) /\ procSeq \in Nat /\ schedSeq \in Nat
      /\ Fenced(deferred, 0, procSeq, schedSeq)
  BY DEF IInv, Types
<1>6. GivesUp(pool, table, deferred, req, r, procSeq, schedSeq, f, e)
  BY <1>1, <1>2
<1>7. /\ U \in [Requests -> Seq(Blocks)] /\ U[r] = << >>
      /\ \A s \in Requests : s # r => U[s] = table[s]
      /\ e \in Seq(Entries) /\ Accounted(f, U, e, 0) /\ Fenced(e, 0, procSeq, schedSeq)
      /\ GuardsKept(table, deferred, req, U, e, req, procSeq)
  BY <1>3, <1>4, <1>5, <1>6, GivesUpProperties
<1> QED BY <1>2, <1>7

\* finish_requests preserves the invariant: a batch in flight that names the
\* request is still behind its fence.
LEMMA AbortStep == ASSUME IInv, NEW r \in Requests, Abort(r) PROVE IInv'
<1> USE DEF IInv
<1>1. /\ req' \in [Requests -> Records] /\ \A s \in Requests : s # r => req'[s] = req[s]
      /\ req'[r].status = "finished" /\ req'[r].sent = req[r].sent /\ req'[r].done = req[r].done
      /\ req'[r].stale = req[r].stale /\ req'[r].seq = req[r].seq
  BY DEF Abort, Types, Records
<1>2. /\ running' \in Seq(Requests) /\ Range(running') = Range(running) \ {r}
      /\ Unique(running')
      /\ waiting' \in Seq(Requests) /\ Range(waiting') = Range(waiting) \ {r}
      /\ Unique(waiting')
  <2>1. Range(running) \subseteq Requests /\ Range(waiting) \subseteq Requests
    BY RangeOfSeq DEF Types, Range
  <2> QED BY <2>1, KeepProperties DEF Abort, Types, Queues, Without
<1>3. /\ table' \in [Requests -> Seq(Blocks)] /\ table'[r] = << >>
      /\ \A s \in Requests : s # r => table'[s] = table[s]
      /\ deferred' \in Seq(Entries) /\ Accounted(pool', table', deferred', 0)
      /\ Fenced(deferred', 0, procSeq, schedSeq)
      /\ GuardsKept(table, deferred, req, table', deferred', req, procSeq)
  BY FreeRequestGivesUp DEF Abort
<1>4. phase \in {"idle", "pop"} /\ UNCHANGED << batches, phase, idx, building, schedSeq, procSeq >>
  BY DEF Abort, fence
<1>5. Types'
  BY <1>1, <1>2, <1>3, <1>4 DEF Types
<1>6. Queues'
  <2>1. \A s \in Requests : \/ s = r
                            \/ s # r /\ req'[s] = req[s] /\ table'[s] = table[s]
    BY <1>1, <1>3
  <2>2. \A s \in Requests : s \in Range(running') <=> req'[s].status = "running"
    BY <1>1, <1>2, <2>1 DEF Queues
  <2>3. \A s \in Requests : s \in Range(waiting') <=> req'[s].status = "waiting"
    BY <1>1, <1>2, <2>1 DEF Queues
  <2>4. \A s \in Requests : req'[s].status # "running" => table'[s] = << >>
    BY <1>1, <1>3, <2>1 DEF Queues
  <2>5. \A s \in Requests :
           /\ req'[s].status \in {"new", "waiting"} => req'[s].sent = req'[s].done
           /\ req'[s].status # "finished" => req'[s].done < Outputs
    BY <1>1, <2>1 DEF Queues
  <2>6. \A s \in Requests : req'[s].done <= req'[s].sent /\ req'[s].seq <= schedSeq
    BY <1>1, <2>1 DEF Queues
  <2> QED BY <1>2, <1>4, <2>2, <2>3, <2>4, <2>5, <2>6 DEF Queues
<1>7. Loop' /\ Writers'
  BY <1>4 DEF Loop, Writers, Scheduling
<1>8. Flights'
  BY <1>1, <1>4, FlightsKept DEF Left, InFlight
<1>9. GuardsKept(table, deferred, req, table', deferred', req', procSeq)
  <2>1. \A s \in Requests : req[s].seq \in Nat /\ (s # r => req'[s].seq = req[s].seq)
    BY <1>1 DEF Types, Records
  <2>2. \A s \in Requests : req[s].seq <= req'[s].seq
    BY <1>1, <2>1
  <2> QED BY <1>1, <1>3, <2>2, LaterFences
<1>10. Behind' /\ Safe'
  BY <1>4, <1>9, CalmStep
<1> QED BY <1>3, <1>4, <1>5, <1>6, <1>7, <1>8, <1>10

-----------------------------------------------------------------------------
(* schedule() *)

\* A call of the engine step preserves the invariant.
LEMMA CallStep == ASSUME IInv, Call PROVE IInv'
<1> USE DEF IInv
<1>1. /\ phase = "idle" /\ phase' \in {"running", "pop"} /\ (phase' = "running" <=> HasRequests)
      /\ (phase' = "pop" => batches # << >>)
      /\ idx' = 1 /\ building' = NoBatch /\ building = NoBatch
      /\ UNCHANGED << pool, table, running, waiting, req, batches, schedSeq, procSeq, deferred >>
  BY DEF Call, fence, Loop
<1>2. NoBatch \in Batches /\ NoBatch.reqs = << >> /\ NoBatch.writes = {} /\ Range(NoBatch.reqs) = {}
  BY EmptyList DEF NoBatch, Batches
<1>3. Types'
  BY <1>1, <1>2 DEF Types
<1>4. Queues'
  BY <1>1 DEF Queues
<1>5. Loop'
  <2>1. Len(running) \in Nat
    BY DEF Types
  <2> QED BY <1>1, <1>2, <2>1 DEF Loop, Scheduling
<1>6. Writers'
  BY <1>1, <1>2 DEF Writers, Scheduling
<1>7. Flights'
  <2>1. \A r \in Requests : ~Left(r)' /\ ~Left(r)
    BY <1>1, <1>2 DEF Left
  <2> QED BY <1>1, <2>1, FlightsKept DEF InFlight
<1>8. GuardsKept(table, deferred, req, table', deferred', req', procSeq)
  BY <1>1 DEF GuardsKept
<1> QED BY <1>1, <1>3, <1>4, <1>5, <1>6, <1>7, <1>8, CalmStep

\* A request that is sure to end is skipped.
LEMMA SkipRunningStep == ASSUME IInv, SkipRunning PROVE IInv'
<1> USE DEF IInv
<1>1. /\ phase = "running" /\ idx <= Len(running) /\ idx' = idx + 1 /\ idx \in Nat
      /\ UNCHANGED << pool, table, running, waiting, req, batches, phase, building,
                      schedSeq, procSeq, deferred >>
  BY DEF SkipRunning, AtRunning, fence, Types
<1>2. Types' /\ Queues' /\ Writers'
  BY <1>1 DEF Types, Queues, Writers, Scheduling
<1>3. Loop'
  <2>1. Len(running) \in Nat
    BY DEF Types
  <2>2. idx' \in 1 .. Len(running) + 1 /\ \A k \in 1 .. idx - 1 : k \in 1 .. idx' - 1
    BY <1>1, <2>1
  <2>3. \A r \in Range(building.reqs) : \E k \in 1 .. idx' - 1 : running[k] = r
    BY <1>1, <2>2 DEF Loop
  <2> QED BY <1>1, <2>2, <2>3 DEF Loop, Scheduling
<1>4. Flights'
  BY <1>1, FlightsKept DEF InFlight, Left
<1>5. GuardsKept(table, deferred, req, table', deferred', req', procSeq)
  BY <1>1 DEF GuardsKept
<1> QED BY <1>1, <1>2, <1>3, <1>4, <1>5, CalmStep

\* A request that is given blocks and joins the batch under construction.
LEMMA JoinsBatch ==
    ASSUME Types, Sensible(building), NEW r \in Requests, r \notin Range(building.reqs),
           NEW W \in SUBSET Blocks,
           building' = [building EXCEPT !.reqs = Append(@, r), !.writes = @ \cup W]
    PROVE  /\ building' \in Batches /\ Sensible(building')
           /\ Range(building'.reqs) = Range(building.reqs) \cup {r}
           /\ building'.writes = building.writes \cup W
           /\ building'.preempted = building.preempted
<1>1. /\ building.reqs \in Seq(Requests) /\ building.writes \subseteq Blocks
      /\ building'.reqs = Append(building.reqs, r) /\ building'.writes = building.writes \cup W
      /\ building'.preempted = building.preempted
  BY DEF Types, Batches
<1>2. /\ building'.reqs \in Seq(Requests) /\ Range(building'.reqs) = Range(building.reqs) \cup {r}
      /\ Unique(building'.reqs) /\ building'.reqs # << >>
  BY <1>1, AppendUnique DEF Sensible
<1>3. building' \in Batches
  BY <1>1, <1>2 DEF Types, Batches
<1> QED BY <1>1, <1>2, <1>3 DEF Sensible

\* get_new_blocks and the table, as an action.
LEMMA BlocksTaken ==
    ASSUME Types, Accounted(pool, table, deferred, 0), NEW r \in Requests, NEW n \in Nat,
           CanGetNewBlocks(pool, n), pool' = GetNewBlocks(pool, n),
           table' = [table EXCEPT ![r] = @ \o NewBlocks(pool, n)], deferred' = deferred
    PROVE  /\ table' \in [Requests -> Seq(Blocks)]
           /\ Accounted(pool', table', deferred', 0)
           /\ \A s \in Requests : s # r => table'[s] = table[s]
           /\ Range(table'[r]) = Range(table[r]) \cup Range(NewBlocks(pool, n))
           /\ \A s \in Requests : Range(table[s]) \subseteq Range(table'[s])
           /\ Range(NewBlocks(pool, n)) \in SUBSET Blocks
<1>1. PICK U : U = table'
  OBVIOUS
<1>2. U = [table EXCEPT ![r] = @ \o NewBlocks(pool, n)] /\ table \in [Requests -> Seq(Blocks)]
  BY <1>1 DEF Types
<1>3. /\ U \in [Requests -> Seq(Blocks)]
      /\ Accounted(GetNewBlocks(pool, n), U, deferred, 0)
      /\ Gains(table, U, r, Range(NewBlocks(pool, n)))
      /\ Range(NewBlocks(pool, n)) \subseteq Blocks
  BY <1>2, TakeBlocks
<1>4. \A s \in Requests : s # r => U[s] = table[s]
  BY <1>2
<1> QED BY <1>1, <1>3, <1>4 DEF Gains

\* Scheduling a running request preserves the invariant.
LEMMA ScheduleRunningStep == ASSUME IInv, ScheduleRunning PROVE IInv'
<1> USE DEF IInv
<1>1. PICK r : r = Current
  OBVIOUS
<1>2. /\ phase = "running" /\ idx \in 1 .. Len(running) /\ r = running[idx] /\ r \in Requests
      /\ r \in Range(running) /\ Len(running) \in Nat /\ req[r].sent < Outputs
      /\ DOMAIN running = 1 .. Len(running)
      /\ req[r].status = "running"
  BY <1>1 DEF ScheduleRunning, AtRunning, Current, Types, Loop, Queues, Range
<1>3. /\ idx' = idx + 1
      /\ UNCHANGED << running, waiting, batches, phase, schedSeq, procSeq, deferred >>
  BY DEF ScheduleRunning, fence
<1>4. r \notin Range(building.reqs)
  <2> SUFFICES ASSUME r \in Range(building.reqs) PROVE FALSE
    OBVIOUS
  <2>1. PICK k \in 1 .. idx - 1 : running[k] = r
    BY <1>2 DEF Loop
  <2> QED BY <1>2, <2>1 DEF Queues, Unique
<1>5. /\ req' \in [Requests -> Records] /\ \A s \in Requests : s # r => req'[s] = req[s]
      /\ req'[r].status = req[r].status /\ req'[r].sent = req[r].sent + 1
      /\ req'[r].done = req[r].done /\ req'[r].stale = req[r].stale /\ req'[r].seq = req[r].seq
  <2>1. req' = [req EXCEPT ![r].sent = @ + 1]
    BY <1>1 DEF ScheduleRunning
  <2>2. req[r] \in Records /\ req[r].sent + 1 \in 0 .. Outputs
    <3>1. req[r] \in Records /\ Outputs \in Nat
      BY <1>2, DeferredFreeAssumption, BlockPoolAssumption DEF Types
    <3>2. req[r].sent \in 0 .. Outputs
      BY <3>1 DEF Records
    <3> QED BY <1>2, <3>1, <3>2
  <2>3. req' \in [Requests -> Records]
    BY <2>1, <2>2 DEF Types, Records
  <2> QED BY <1>2, <2>1, <2>2, <2>3 DEF Types, Records
<1>6. /\ table' \in [Requests -> Seq(Blocks)]
      /\ Accounted(pool', table', deferred', 0)
      /\ \A s \in Requests : s # r => table'[s] = table[s]
      /\ Range(table'[r]) = Range(table[r]) \cup Range(NewBlocks(pool, 1))
      /\ \A s \in Requests : Range(table[s]) \subseteq Range(table'[s])
      /\ Range(NewBlocks(pool, 1)) \in SUBSET Blocks
  BY <1>1, <1>2, <1>3, BlocksTaken DEF ScheduleRunning
<1>7. /\ building' \in Batches /\ Sensible(building')
      /\ Range(building'.reqs) = Range(building.reqs) \cup {r}
      /\ building'.writes = building.writes \cup Range(NewBlocks(pool, 1))
  BY <1>1, <1>2, <1>4, <1>6, JoinsBatch DEF ScheduleRunning, Writers
<1>8. Types'
  BY <1>2, <1>3, <1>5, <1>6, <1>7 DEF Types
<1>9. Queues'
  <2>1. \A s \in Requests : \/ s = r
                            \/ s # r /\ req'[s] = req[s] /\ table'[s] = table[s]
    BY <1>5, <1>6
  <2>2. \A s \in Requests : /\ s \in Range(running') <=> req'[s].status = "running"
                            /\ s \in Range(waiting') <=> req'[s].status = "waiting"
                            /\ req'[s].status # "running" => table'[s] = << >>
    BY <1>2, <1>3, <1>5, <2>1 DEF Queues
  <2>3. \A s \in Requests :
           /\ req'[s].status \in {"new", "waiting"} => req'[s].sent = req'[s].done
           /\ req'[s].status # "finished" => req'[s].done < Outputs
           /\ req'[s].seq <= schedSeq
    BY <1>2, <1>5, <2>1 DEF Queues
  <2>4. \A s \in Requests : req'[s].done <= req'[s].sent
    <3>1. req[r].done \in Nat /\ req[r].sent \in Nat /\ req[r].done <= req[r].sent
      BY <1>2 DEF Types, Records, Queues
    <3> QED BY <1>5, <2>1, <3>1 DEF Queues
  <2>5. Unique(running') /\ Unique(waiting')
    BY <1>3 DEF Queues
  <2> QED BY <1>3, <2>2, <2>3, <2>4, <2>5 DEF Queues
<1>10. Loop'
  <2>1. Range(building'.reqs) \subseteq Range(running)
    BY <1>2, <1>7 DEF Loop, Scheduling
  <2>2. \A s \in Range(building'.reqs) : \E k \in 1 .. idx' - 1 : running[k] = s
    <3>1. idx \in 1 .. idx' - 1 /\ \A k \in 1 .. idx - 1 : k \in 1 .. idx' - 1
      BY <1>2, <1>3
    <3> QED BY <1>2, <1>7, <3>1 DEF Loop
  <2>3. idx' \in 1 .. Len(running) + 1
    BY <1>2, <1>3
  <2> QED BY <1>2, <1>3, <2>1, <2>2, <2>3 DEF Loop, Scheduling
<1>11. Writers'
  <2>1. \A b \in building'.writes : \E s \in Range(building'.reqs) : b \in Range(table'[s])
    <3> SUFFICES ASSUME NEW b \in building'.writes
                 PROVE  \E s \in Range(building'.reqs) : b \in Range(table'[s])
      OBVIOUS
    <3>1. CASE b \in Range(NewBlocks(pool, 1))
      BY <1>6, <1>7, <3>1
    <3>2. CASE b \in building.writes
      <4>1. PICK s \in Range(building.reqs) : b \in Range(table[s])
        BY <1>2, <3>2 DEF Writers, Scheduling
      <4>2. s \in Range(running) /\ s \in Requests
        <5>1. Range(running) \subseteq Requests
          BY RangeOfSeq DEF Types, Range
        <5> QED BY <1>2, <4>1, <5>1 DEF Loop, Scheduling
      <4> QED BY <1>6, <1>7, <4>1, <4>2
    <3> QED BY <1>7, <3>1, <3>2
  <2> QED BY <1>3, <1>7, <2>1 DEF Writers
<1>12. Flights'
  <2>1. \A s \in Requests : s # r => InFlight(s)' = InFlight(s) /\ (Left(s)' <=> Left(s))
    BY <1>2, <1>3, <1>5, <1>7 DEF InFlight, Left
  <2>2. InFlight(r)' = InFlight(r) + 1 /\ Left(r)' /\ ~Left(r)
    <3>1. req[r].sent \in Nat /\ req[r].done \in Nat /\ req[r].stale \in Nat
      BY <1>2, RecordAt
    <3>2. InFlight(r)' = InFlight(r) + 1
      BY <1>5, <3>1 DEF InFlight
    <3> QED BY <1>2, <1>3, <1>4, <1>7, <3>2 DEF Left
  <2>3. \A s \in Requests : Cardinality(With(batches, s)) \in Nat
    BY CountsAppend, <1>7 DEF Types
  <2> QED BY <1>2, <1>3, <1>5, <2>1, <2>2, <2>3 DEF Flights
<1>13. GuardsKept(table, deferred, req, table', deferred', req', procSeq)
  <2>1. \A s \in Requests : req[s].seq \in Nat /\ (s # r => req'[s].seq = req[s].seq)
    BY <1>5 DEF Types, Records
  <2>2. \A s \in Requests : req[s].seq <= req'[s].seq
    BY <1>5, <2>1
  <2> QED BY <1>3, <1>5, <1>6, <2>2, MoreBlocks
<1> QED BY <1>3, <1>6, <1>8, <1>9, <1>10, <1>11, <1>12, <1>13, CalmStep

\* The ends of the two loops of schedule() preserve the invariant.
LEMMA EndRunningStep == ASSUME IInv, EndRunning \/ EndWaiting PROVE IInv'
<1> USE DEF IInv
<1>1. /\ phase \in {"running", "waiting"} /\ phase' \in {"close", "waiting"}
      /\ UNCHANGED << pool, table, running, waiting, req, batches, idx, building,
                      schedSeq, procSeq, deferred >>
  BY DEF EndRunning, EndWaiting, fence
<1>2. Types' /\ Queues' /\ Writers' /\ Loop'
  BY <1>1 DEF Types, Queues, Writers, Scheduling, Loop
<1>3. Flights'
  BY <1>1, FlightsKept DEF InFlight, Left
<1>4. GuardsKept(table, deferred, req, table', deferred', req', procSeq)
  BY <1>1 DEF GuardsKept
<1> QED BY <1>1, <1>2, <1>3, <1>4, CalmStep

\* s is q without its last element v.
DropsLast(q, s, v) ==
    /\ Len(s) = Len(q) - 1
    /\ \A k \in 1 .. Len(q) - 1 : s[k] = q[k] /\ q[k] # v

\* running.pop().
LEMMA LastRunning ==
    ASSUME NEW q \in Seq(Requests), Unique(q), NEW i \in 1 .. Len(q),
           NEW s, s = SubSeq(q, 1, Len(q) - 1), NEW v, v = q[Len(q)]
    PROVE  /\ v \in Requests /\ v \in Range(q) /\ Len(q) \in Nat \ {0}
           /\ s \in Seq(Requests) /\ Unique(s) /\ DropsLast(q, s, v)
           /\ Range(s) = Range(q) \ {v}
<1> DEFINE n == Len(q)
<1>1. n \in Nat /\ n - 1 \in Nat /\ n \in 1 .. n /\ DOMAIN q = 1 .. n
  BY LenProperties
<1>2. s \in Seq(Requests) /\ Len(s) = n - 1 /\ Unique(s)
  <2>1. n - 1 <= Len(q)
    BY <1>1
  <2> QED BY <1>1, <2>1, SplitProperties
<1>3. DOMAIN s = 1 .. n - 1 /\ \A k \in 1 .. n - 1 : s[k] = q[k]
  <2>1. DOMAIN s = 1 .. n - 1
    BY <1>2, LenProperties
  <2>2. \A k \in 1 .. n - 1 : q[k] \in Requests /\ 1 + k - 1 = k /\ k \in 1 .. (n - 1) - 1 + 1
    BY <1>1
  <2>3. \A k \in 1 .. (n - 1) - 1 + 1 : SubSeq(q, 1, n - 1)[k] = q[1 + k - 1]
    BY <1>1, <2>2, SubSeqProperties
  <2> QED BY <2>1, <2>2, <2>3
<1> HIDE DEF n
<1>4. v = q[n] /\ v \in Requests /\ v \in Range(q)
  BY <1>1 DEF Range, n
<1>5. \A k \in 1 .. n - 1 : k \in 1 .. n /\ k # n /\ q[k] # v
  BY <1>1, <1>4 DEF Unique
<1>6. \A k \in 1 .. n : k = n \/ k \in 1 .. n - 1
  BY <1>1
<1>7. Range(s) = Range(q) \ {v}
  BY <1>1, <1>3, <1>4, <1>5, <1>6 DEF Range
<1>8. n \in Nat \ {0}
  BY <1>1
<1> QED BY <1>2, <1>3, <1>4, <1>5, <1>7, <1>8 DEF n, DropsLast

\* _preempt_request preserves the invariant: the victim is not in the batch
\* under construction, and its outputs in flight become stale.
LEMMA PreemptRunningStep == ASSUME IInv, PreemptRunning PROVE IInv'
<1> USE DEF IInv
<1>1. PICK v : v = running[Len(running)]
  OBVIOUS
<1>2. /\ phase = "running" /\ idx \in 1 .. Len(running)
      /\ running' = SubSeq(running, 1, Len(running) - 1)
      /\ waiting' = << v >> \o waiting
      /\ req' = [req EXCEPT ![v].status = "waiting", ![v].stale = InFlight(v),
                            ![v].sent = req[v].done]
      /\ building' = [building EXCEPT !.preempted = TRUE]
      /\ phase' \in {"running", "close"}
      /\ UNCHANGED << batches, idx, schedSeq, procSeq >>
  BY <1>1 DEF PreemptRunning, AtRunning, fence, Types, Loop
<1>3. /\ v \in Requests /\ v \in Range(running) /\ Len(running) \in Nat \ {0}
      /\ running' \in Seq(Requests) /\ Len(running') = Len(running) - 1 /\ Unique(running')
      /\ \A k \in 1 .. Len(running) - 1 : running'[k] = running[k] /\ running[k] # v
      /\ Range(running') = Range(running) \ {v}
  <2>1. PICK s : s = running'
    OBVIOUS
  <2>2. running \in Seq(Requests) /\ Unique(running) /\ s = SubSeq(running, 1, Len(running) - 1)
    BY <1>2, <2>1 DEF Types, Queues
  <2>3. /\ v \in Requests /\ v \in Range(running) /\ Len(running) \in Nat \ {0}
        /\ s \in Seq(Requests) /\ Unique(s) /\ DropsLast(running, s, v)
        /\ Range(s) = Range(running) \ {v}
    BY <1>1, <1>2, <2>2, LastRunning
  <2> QED BY <2>1, <2>3 DEF DropsLast
<1>4. req[v].status = "running" /\ v \notin Range(waiting)
  BY <1>3 DEF Queues
<1>5. waiting' \in Seq(Requests) /\ Range(waiting') = Range(waiting) \cup {v} /\ Unique(waiting')
  <2>1. PICK a : a = << v >>
    OBVIOUS
  <2>2. a \in Seq(Requests) /\ Range(a) = {v} /\ Unique(a)
    BY <1>3, <2>1, LoneRequest
  <2>3. waiting \in Seq(Requests) /\ Unique(waiting) /\ Range(a) \cap Range(waiting) = {}
    BY <1>4, <2>2 DEF Types, Queues
  <2>4. /\ a \o waiting \in Seq(Requests) /\ Unique(a \o waiting)
        /\ Range(a \o waiting) = {v} \cup Range(waiting)
    BY <2>2, <2>3, ConcatUnique
  <2>5. waiting' = a \o waiting
    BY <1>2, <2>1
  <2> QED BY <2>4, <2>5
<1>6. /\ req[v].sent \in Nat /\ req[v].done \in 0 .. Outputs /\ req[v].stale \in Nat
      /\ req[v].done <= req[v].sent /\ req[v].seq \in Nat /\ req[v].done \in Nat
      /\ InFlight(v) \in Nat
  BY <1>3, RecordAt DEF Queues, InFlight
<1>7. /\ req' \in [Requests -> Records] /\ \A s \in Requests : s # v => req'[s] = req[s]
      /\ req'[v].status = "waiting" /\ req'[v].sent = req[v].done
      /\ req'[v].done = req[v].done /\ req'[v].stale = InFlight(v) /\ req'[v].seq = req[v].seq
  <2> HIDE DEF InFlight
  <2> QED BY <1>2, <1>3, <1>6 DEF Types, Records
<1>8. /\ table' \in [Requests -> Seq(Blocks)] /\ table'[v] = << >>
      /\ \A s \in Requests : s # v => table'[s] = table[s]
      /\ deferred' \in Seq(Entries) /\ Accounted(pool', table', deferred', 0)
      /\ Fenced(deferred', 0, procSeq, schedSeq)
      /\ GuardsKept(table, deferred, req, table', deferred', req, procSeq)
  <2>1. FreeRequestBlocks(v, pool, deferred)
    BY <1>1 DEF PreemptRunning
  <2> QED BY <1>3, <2>1, FreeRequestGivesUp
<1>9. /\ building' \in Batches /\ building'.reqs = building.reqs
      /\ building'.writes = building.writes
  BY <1>2 DEF Types, Batches
<1>10. v \notin Range(building.reqs)
  <2> SUFFICES ASSUME v \in Range(building.reqs) PROVE FALSE
    OBVIOUS
  <2>1. PICK k \in 1 .. idx - 1 : running[k] = v
    BY <1>2 DEF Loop
  <2>2. k \in 1 .. Len(running) - 1
    BY <1>2, <1>3
  <2> QED BY <1>3, <2>1, <2>2
<1>11. Types'
  BY <1>2, <1>3, <1>5, <1>7, <1>8, <1>9 DEF Types
<1>12. Queues'
  <2>1. \A s \in Requests : \/ s = v
                            \/ s # v /\ req'[s] = req[s] /\ table'[s] = table[s]
    BY <1>7, <1>8
  <2>2. \A s \in Requests : s \in Range(running') <=> req'[s].status = "running"
    BY <1>3, <1>7, <2>1 DEF Queues
  <2>3. \A s \in Requests : s \in Range(waiting') <=> req'[s].status = "waiting"
    BY <1>5, <1>7, <2>1 DEF Queues
  <2>4. \A s \in Requests : req'[s].status # "running" => table'[s] = << >>
    BY <1>7, <1>8, <2>1 DEF Queues
  <2>5. \A s \in Requests :
           /\ req'[s].status \in {"new", "waiting"} => req'[s].sent = req'[s].done
           /\ req'[s].status # "finished" => req'[s].done < Outputs
           /\ req'[s].done <= req'[s].sent /\ req'[s].seq <= schedSeq
    BY <1>3, <1>4, <1>6, <1>7, <2>1 DEF Queues
  <2>6. schedSeq' = schedSeq /\ Unique(running') /\ Unique(waiting')
    BY <1>2, <1>3, <1>5
  <2> QED BY <2>2, <2>3, <2>4, <2>5, <2>6 DEF Queues
<1>13. Loop'
  <2>1. Range(building'.reqs) \subseteq Range(running')
    BY <1>2, <1>3, <1>9, <1>10 DEF Loop, Scheduling
  <2>2. \A s \in Range(building'.reqs) : \E k \in 1 .. idx' - 1 : running'[k] = s
    <3>1. \A k \in 1 .. idx - 1 : k \in 1 .. Len(running) - 1
      BY <1>2, <1>3
    <3> QED BY <1>2, <1>3, <1>9, <3>1 DEF Loop
  <2>3. idx' \in 1 .. Len(running') + 1
    BY <1>2, <1>3
  <2> QED BY <1>2, <2>1, <2>2, <2>3 DEF Loop, Scheduling
<1>14. Writers'
  <2>1. \A b \in building'.writes : \E s \in Range(building'.reqs) : b \in Range(table'[s])
    <3>1. Range(running) \subseteq Requests
      BY RangeOfSeq DEF Types, Range
    <3>2. \A s \in Range(building.reqs) : table'[s] = table[s]
      BY <1>2, <1>8, <1>10, <3>1 DEF Loop, Scheduling
    <3> QED BY <1>2, <1>9, <3>2 DEF Writers, Scheduling
  <2> QED BY <1>2, <1>9, <2>1 DEF Writers, Sensible
<1>15. Flights'
  <2>1. \A s \in Requests : Left(s)' <=> Left(s)
    BY <1>2, <1>9 DEF Left
  <2>2. InFlight(v)' = InFlight(v)
    BY <1>6, <1>7 DEF InFlight
  <2>3. \A s \in Requests : InFlight(s)' = InFlight(s)
    BY <1>7, <2>2 DEF InFlight
  <2> QED BY <1>2, <1>4, <1>7, <2>1, <2>3, FlightsKept
<1>16. GuardsKept(table, deferred, req, table', deferred', req', procSeq)
  <2>1. \A s \in Requests : req[s].seq \in Nat /\ (s # v => req'[s].seq = req[s].seq)
    BY <1>7, RecordAt
  <2>2. \A s \in Requests : req[s].seq <= req'[s].seq
    BY <1>7, <2>1
  <2> QED BY <1>7, <1>8, <2>2, LaterFences
<1>17. Fenced(deferred', 0, procSeq', schedSeq')
  BY <1>2, <1>8
<1> QED BY <1>2, <1>8, <1>11, <1>12, <1>13, <1>14, <1>15, <1>16, <1>17, CalmStep

\* Admitting a waiting request preserves the invariant.
LEMMA AdmitStep == ASSUME IInv, Admit PROVE IInv'
<1> USE DEF IInv
<1>1. PICK r, n : r = waiting[1] /\ n = req[r].done + 1
  OBVIOUS
<1>2. /\ phase = "waiting" /\ waiting # << >> /\ r \in Requests /\ r \in Range(waiting)
      /\ Tail(waiting) \in Seq(Requests) /\ Range(Tail(waiting)) = Range(waiting) \ {r}
      /\ Unique(Tail(waiting))
  <2>1. phase = "waiting" /\ waiting # << >> /\ waiting \in Seq(Requests) /\ Unique(waiting)
    BY DEF Admit, Types, Queues
  <2>2. r \in Requests /\ r \in Range(waiting)
    BY <1>1, <2>1 DEF Range
  <2>3. /\ Tail(waiting) \in Seq(Requests) /\ Len(waiting) \in Nat \ {0}
        /\ DOMAIN waiting = 1 .. Len(waiting) /\ DOMAIN Tail(waiting) = 1 .. Len(waiting) - 1
        /\ \A i \in 1 .. Len(waiting) - 1 :
              i + 1 \in 1 .. Len(waiting) /\ Tail(waiting)[i] = waiting[i + 1]
    BY <2>1, TailAt
  <2>4. Unique(Tail(waiting))
    BY <2>1, <2>3 DEF Unique
  <2>5. \A k \in 1 .. Len(waiting) : k # 1 => k - 1 \in 1 .. Len(waiting) - 1 /\ (k - 1) + 1 = k
    BY <2>3
  <2>6. \A i \in 1 .. Len(waiting) - 1 : i + 1 # 1 /\ waiting[i + 1] # r
    BY <1>1, <2>1, <2>3 DEF Unique
  <2>7. Range(Tail(waiting)) = Range(waiting) \ {r}
    <3>1. ASSUME NEW x \in Range(Tail(waiting)) PROVE x \in Range(waiting) \ {r}
      BY <2>3, <2>6 DEF Range
    <3>2. ASSUME NEW x \in Range(waiting) \ {r} PROVE x \in Range(Tail(waiting))
      <4>1. PICK k \in 1 .. Len(waiting) : waiting[k] = x
        BY <2>3 DEF Range
      <4>2. k - 1 \in 1 .. Len(waiting) - 1 /\ (k - 1) + 1 = k
        BY <1>1, <2>5, <3>2, <4>1
      <4>3. Tail(waiting)[k - 1] = x
        BY <2>3, <4>1, <4>2
      <4> QED BY <2>3, <4>2, <4>3 DEF Range
    <3> QED BY <3>1, <3>2
  <2> QED BY <2>1, <2>2, <2>3, <2>4, <2>7
<1>3. /\ req[r].status = "waiting" /\ req[r].sent = req[r].done /\ req[r].done < Outputs
      /\ table[r] = << >> /\ r \notin Range(running) /\ n \in 1 .. Outputs /\ n \in Nat
      /\ req[r].done \in Nat /\ Outputs \in Nat /\ req[r].stale \in Nat /\ req[r].seq \in Nat
  BY <1>1, <1>2, RecordAt DEF Queues
<1>4. /\ waiting' = Tail(waiting)
      /\ UNCHANGED << batches, phase, idx, schedSeq, procSeq, deferred >>
  BY DEF Admit, fence
<1>5. /\ running' \in Seq(Requests) /\ Range(running') = Range(running) \cup {r}
      /\ Unique(running')
  <2>1. running' = Append(running, r)
    BY <1>1 DEF Admit
  <2> QED BY <1>2, <1>3, <2>1, AppendUnique DEF Types, Queues
<1>6. r \notin Range(building.reqs) /\ Range(building.reqs) \subseteq Range(running)
  BY <1>2, <1>3 DEF Loop, Scheduling
<1>7. /\ req' \in [Requests -> Records] /\ \A s \in Requests : s # r => req'[s] = req[s]
      /\ req'[r].status = "running" /\ req'[r].sent = n
      /\ req'[r].done = req[r].done /\ req'[r].stale = req[r].stale /\ req'[r].seq = req[r].seq
  <2>1. req' = [req EXCEPT ![r].status = "running", ![r].sent = n]
    BY <1>1 DEF Admit
  <2>2. req[r] \in Records /\ n \in 0 .. Outputs
    BY <1>2, <1>3, RecordAt
  <2>3. req' \in [Requests -> Records]
    BY <2>1, <2>2 DEF Types, Records
  <2> QED BY <1>2, <2>1, <2>2, <2>3 DEF Types, Records
<1>8. /\ table' \in [Requests -> Seq(Blocks)]
      /\ Accounted(pool', table', deferred', 0)
      /\ \A s \in Requests : s # r => table'[s] = table[s]
      /\ Range(table'[r]) = Range(table[r]) \cup Range(NewBlocks(pool, n))
      /\ \A s \in Requests : Range(table[s]) \subseteq Range(table'[s])
      /\ Range(NewBlocks(pool, n)) \in SUBSET Blocks
  <2>1. /\ CanGetNewBlocks(pool, n) /\ pool' = GetNewBlocks(pool, n)
        /\ table' = [table EXCEPT ![r] = NewBlocks(pool, n)]
    BY <1>1 DEF Admit
  <2>2. NewBlocks(pool, n) \in Seq(Blocks)
    BY <1>3, <2>1, GetNewBlocksProperties DEF Accounted
  <2>3. table[r] \o NewBlocks(pool, n) = NewBlocks(pool, n)
    BY <1>3, <2>2, ConcatEmptySeq
  <2>4. table' = [table EXCEPT ![r] = @ \o NewBlocks(pool, n)]
    BY <2>1, <2>3
  <2> QED BY <1>2, <1>3, <1>4, <2>1, <2>4, BlocksTaken
<1>9. /\ building' \in Batches /\ Sensible(building')
      /\ Range(building'.reqs) = Range(building.reqs) \cup {r}
      /\ building'.writes = building.writes \cup Range(NewBlocks(pool, n))
  BY <1>1, <1>2, <1>6, <1>8, JoinsBatch DEF Admit, Writers
<1>10. Types'
  BY <1>2, <1>4, <1>5, <1>7, <1>8, <1>9 DEF Types
<1>11. Queues'
  <2>1. \A s \in Requests : \/ s = r
                            \/ s # r /\ req'[s] = req[s] /\ table'[s] = table[s]
    BY <1>7, <1>8
  <2>2. \A s \in Requests : s \in Range(running') <=> req'[s].status = "running"
    BY <1>5, <1>7, <2>1 DEF Queues
  <2>3. \A s \in Requests : s \in Range(waiting') <=> req'[s].status = "waiting"
    BY <1>2, <1>4, <1>7, <2>1 DEF Queues
  <2>4. \A s \in Requests : req'[s].status # "running" => table'[s] = << >>
    BY <1>7, <1>8, <2>1 DEF Queues
  <2>5. \A s \in Requests :
           /\ req'[s].status \in {"new", "waiting"} => req'[s].sent = req'[s].done
           /\ req'[s].status # "finished" => req'[s].done < Outputs
           /\ req'[s].seq <= schedSeq
    BY <1>2, <1>3, <1>7, <2>1 DEF Queues
  <2>6. \A s \in Requests : req'[s].done <= req'[s].sent
    BY <1>1, <1>3, <1>7, <2>1 DEF Queues
  <2> QED BY <1>2, <1>4, <1>5, <2>2, <2>3, <2>4, <2>5, <2>6 DEF Queues
<1>12. Loop'
  BY <1>2, <1>4, <1>5, <1>6, <1>9 DEF Loop, Scheduling
<1>13. Writers'
  <2>1. \A b \in building'.writes : \E s \in Range(building'.reqs) : b \in Range(table'[s])
    <3> SUFFICES ASSUME NEW b \in building'.writes
                 PROVE  \E s \in Range(building'.reqs) : b \in Range(table'[s])
      OBVIOUS
    <3>1. CASE b \in Range(NewBlocks(pool, n))
      BY <1>8, <1>9, <3>1
    <3>2. CASE b \in building.writes
      <4>1. PICK s \in Range(building.reqs) : b \in Range(table[s])
        BY <1>2, <3>2 DEF Writers, Scheduling
      <4>2. s \in Requests
        <5>1. Range(running) \subseteq Requests
          BY RangeOfSeq DEF Types, Range
        <5> QED BY <1>6, <4>1, <5>1
      <4> QED BY <1>8, <1>9, <4>1, <4>2
    <3> QED BY <1>9, <3>1, <3>2
  <2> QED BY <1>4, <1>9, <2>1 DEF Writers
<1>14. Flights'
  <2>1. \A s \in Requests : s # r => InFlight(s)' = InFlight(s) /\ (Left(s)' <=> Left(s))
    BY <1>2, <1>4, <1>7, <1>9 DEF InFlight, Left
  <2>2. InFlight(r)' = InFlight(r) + 1 /\ Left(r)' /\ ~Left(r)
    <3>1. InFlight(r)' = InFlight(r) + 1
      BY <1>1, <1>3, <1>7 DEF InFlight
    <3> QED BY <1>2, <1>4, <1>6, <1>9, <3>1 DEF Left
  <2>3. \A s \in Requests : Cardinality(With(batches, s)) \in Nat
    BY CountsAppend, <1>9 DEF Types
  <2> QED BY <1>2, <1>3, <1>4, <1>7, <2>1, <2>2, <2>3 DEF Flights
<1>15. GuardsKept(table, deferred, req, table', deferred', req', procSeq)
  <2>1. \A s \in Requests : req[s].seq \in Nat /\ (s # r => req'[s].seq = req[s].seq)
    BY <1>7, RecordAt
  <2>2. \A s \in Requests : req[s].seq <= req'[s].seq
    BY <1>7, <2>1
  <2> QED BY <1>4, <1>7, <1>8, <2>2, MoreBlocks
<1> QED BY <1>4, <1>8, <1>10, <1>11, <1>12, <1>13, <1>14, <1>15, CalmStep

\* The batch that holds nothing.
LEMMA NoBatchFacts ==
    NoBatch \in Batches /\ NoBatch.reqs = << >> /\ Range(NoBatch.reqs) = {} /\ Sensible(NoBatch)
BY EmptyList DEF NoBatch, Batches, Sensible

\* In terms of the steps behind the head of the queue.
LEMMA PendingAfter ==
    ASSUME NEW q \in Seq(Batches)
    PROVE  /\ {j \in DOMAIN q : q[j].reqs # << >>} = After(q, 0)
           /\ Cardinality(After(q, 0)) \in Nat
<1>1. \A j \in DOMAIN q : j > 0
  OBVIOUS
<1>2. {j \in DOMAIN q : q[j].reqs # << >>} = After(q, 0)
  BY <1>1 DEF After
<1>3. Len(q) \in Nat /\ 0 \in 0 .. Len(q)
  BY LenProperties
<1>4. NoBatch \in Batches
  BY NoBatchFacts
<1>5. Cardinality(After(q, 0)) \in Nat
  BY <1>3, <1>4, CountsAppend
<1> QED BY <1>2, <1>5

\* The end of schedule() preserves the invariant: the batch is guarded by the
\* step number its requests are given.
LEMMA CloseStep == ASSUME IInv, Close PROVE IInv'
<1> USE DEF IInv
<1>1. PICK one : one = IF building.reqs # << >> THEN 1 ELSE 0
  OBVIOUS
<1>2. PICK q : q = Append(batches, building)
  OBVIOUS
<1>3. /\ phase = "close" /\ phase' \in {"idle", "pop"}
      /\ phase' = "idle" => Len(batches') < Depth
      /\ batches' = q /\ building' = NoBatch
      /\ UNCHANGED << pool, table, running, waiting, procSeq, idx, deferred >>
  BY <1>2 DEF Close
<1>4. schedSeq' = schedSeq + one /\ schedSeq \in Nat /\ procSeq \in Nat /\ one \in {0, 1} /\ schedSeq' \in Nat
  BY <1>1 DEF Close, Advance, Types
<1>5. /\ batches \in Seq(Batches) /\ building \in Batches
      /\ q \in Seq(Batches) /\ Len(batches) \in Nat
      /\ DOMAIN batches = 1 .. Len(batches) /\ DOMAIN q = 1 .. Len(batches) + 1
      /\ Len(q) = Len(batches) + 1
      /\ \A i \in 1 .. Len(batches) : q[i] = batches[i]
      /\ q[Len(batches) + 1] = building
  <2>1. batches \in Seq(Batches) /\ building \in Batches
    BY DEF Types
  <2> HIDE DEF Batches
  <2> QED BY <1>2, <2>1, AppendAt
<1>6. \A r \in Requests :
         /\ req'[r] \in Records /\ req'[r].status = req[r].status /\ req'[r].sent = req[r].sent
         /\ req'[r].done = req[r].done /\ req'[r].stale = req[r].stale
         /\ req'[r].seq = IF r \in Range(building.reqs) THEN schedSeq' ELSE req[r].seq
  <2> SUFFICES ASSUME NEW r \in Requests
               PROVE  /\ req'[r] \in Records /\ req'[r].status = req[r].status
                      /\ req'[r].sent = req[r].sent
                      /\ req'[r].done = req[r].done /\ req'[r].stale = req[r].stale
                      /\ req'[r].seq = IF r \in Range(building.reqs) THEN schedSeq' ELSE req[r].seq
    OBVIOUS
  <2>1. req'[r] = IF r \in Range(building.reqs) THEN [req[r] EXCEPT !.seq = schedSeq'] ELSE req[r]
    BY DEF Close
  <2>2. req[r] \in Records
    BY RecordAt
  <2>3. CASE r \in Range(building.reqs)
    BY <1>4, <2>1, <2>2, <2>3 DEF Records
  <2>4. CASE r \notin Range(building.reqs)
    BY <2>1, <2>2, <2>4
  <2> QED BY <2>3, <2>4
<1>7. req' \in [Requests -> Records]
  <2>1. req' = [r \in Requests |-> req'[r]]
    BY DEF Close
  <2> QED BY <1>6, <2>1
<1>8. \A r \in Requests : /\ req[r].seq \in Nat /\ req'[r].seq \in Nat
                          /\ req[r].seq <= req'[r].seq /\ req'[r].seq <= schedSeq'
  BY <1>4, <1>6, RecordAt DEF Queues
<1>9. Types'
  BY <1>3, <1>4, <1>5, <1>7, NoBatchFacts DEF Types
<1>10. Fenced(deferred', 0, procSeq', schedSeq')
  <2>1. \A i \in DOMAIN deferred : deferred[i].fence <= schedSeq'
    BY <1>4, EntryAt DEF Fenced, Types
  <2> QED BY <1>3, <2>1 DEF Fenced
<1>11. Queues'
  BY <1>3, <1>6, <1>8 DEF Queues
<1>12. Loop'
  <2>1. Len(batches) < Depth /\ Depth \in Nat
    BY <1>3, DeferredFreeAssumption DEF Loop
  <2>2. q # << >> /\ Len(q) <= Depth
    BY <1>5, <2>1
  <2> QED BY <1>3, <2>2 DEF Loop, Scheduling
<1>13. Writers'
  <2>1. \A i \in DOMAIN q : Sensible(q[i])
    BY <1>5 DEF Writers
  <2> QED BY <1>3, <2>1, NoBatchFacts DEF Writers, Scheduling
<1>14. /\ \A r : /\ Cardinality(With(batches, r)) \in Nat
                 /\ Cardinality(With(q, r))
                      = Cardinality(With(batches, r)) + IF r \in Range(building.reqs) THEN 1 ELSE 0
       /\ \A i \in 0 .. Len(batches) :
                 /\ Cardinality(After(batches, i)) \in Nat
                 /\ Cardinality(After(q, i)) = Cardinality(After(batches, i)) + one
       /\ After(q, Len(batches) + 1) = {}
  BY <1>1, <1>2, <1>5, CountsAppend
<1>15. Flights'
  <2>1. \A r \in Requests : InFlight(r)' = InFlight(r)
    BY <1>6 DEF InFlight
  <2>2. \A r \in Requests : ~Left(r)' /\ (Left(r) <=> r \in Range(building.reqs))
    BY <1>3, NoBatchFacts DEF Left
  <2>3. \A r \in Requests : Cardinality(With(batches', r)) + (IF Left(r)' THEN 1 ELSE 0)
                              = Cardinality(With(batches, r)) + IF Left(r) THEN 1 ELSE 0
    BY <1>3, <1>14, <2>2
  <2> QED BY <1>6, <2>1, <2>3 DEF Flights
<1>16. Pending' = Pending + one /\ Pending \in Nat
  <2>1. Pending = Cardinality(After(batches, 0)) /\ Pending \in Nat
    BY <1>5, PendingAfter DEF Pending
  <2>2. Pending' = Cardinality(After(q, 0))
    BY <1>3, <1>5, PendingAfter DEF Pending
  <2>3. 0 \in 0 .. Len(batches)
    BY <1>5
  <2> QED BY <1>14, <2>1, <2>2, <2>3
<1>17. Behind'
  BY <1>3, <1>4, <1>16 DEF Behind
<1>18. ASSUME CountersInSync', NEW i \in DOMAIN q, NEW b \in q[i].writes
       PROVE  Guarded(table, deferred, 0, req', b, Number(i)')
  <2>1. CountersInSync
    BY <1>3, <1>4, <1>16, <1>18 DEF CountersInSync
  <2>2. b \in Blocks
    <3>1. q[i] \in Batches
      BY <1>5
    <3> QED BY <3>1 DEF Batches
  <2>3. CASE i \in 1 .. Len(batches)
    <3>1. Number(i)' = Number(i) /\ Number(i) \in Nat /\ Number(i) > procSeq
      <4>1. Number(i)' = Number(i)
        <5>1. Number(i)' = schedSeq' - Cardinality(After(q, i)) /\ i \in 0 .. Len(batches)
          BY <1>3, <1>5, <2>3 DEF Number
        <5> QED BY <1>4, <1>14, <5>1 DEF Number
      <4>2. batches[i].reqs # << >> /\ i \in DOMAIN batches
        BY <1>5, <1>18, <2>3 DEF Writers, Sensible
      <4>3. procSeq + Cardinality(After(batches, 0)) = schedSeq
        BY <1>5, <2>1, PendingAfter DEF CountersInSync, Pending
      <4> QED BY <1>4, <1>5, <4>1, <4>2, <4>3, NumberAbove DEF Number
    <3>2. Guarded(table, deferred, 0, req, b, Number(i))
      BY <1>5, <1>18, <2>1, <2>3 DEF Safe
    <3>3. GuardsKept(table, deferred, req, table', deferred', req', procSeq)
      BY <1>3, <1>7, <1>8, MoreBlocks
    <3>4. PICK n, R : n = Number(i) /\ R = req'
      OBVIOUS
    <3>5. GuardsKept(table, deferred, req, table, deferred, R, procSeq)
      BY <1>3, <3>3, <3>4
    <3>6. Guarded(table, deferred, 0, R, b, n)
      BY <2>2, <3>1, <3>2, <3>4, <3>5 DEF GuardsKept
    <3> QED BY <3>1, <3>4, <3>6
  <2>4. CASE i = Len(batches) + 1
    <3>1. b \in building.writes
      BY <1>5, <1>18, <2>4
    <3>2. Number(i)' = schedSeq'
      <4>1. Number(i)' = schedSeq' - Cardinality(After(q, i))
        BY <1>3 DEF Number
      <4>2. Cardinality(After(q, i)) = 0
        BY <1>14, <2>4, FS_EmptySet
      <4> QED BY <1>4, <4>1, <4>2
    <3>3. PICK r \in Range(building.reqs) : b \in Range(table[r])
      BY <1>3, <3>1 DEF Writers, Scheduling
    <3>4. r \in Requests
      <4>1. Range(running) \subseteq Requests
        BY RangeOfSeq DEF Types, Range
      <4> QED BY <1>3, <3>3, <4>1 DEF Loop, Scheduling
    <3>5. req'[r].seq >= Number(i)'
      BY <1>4, <1>6, <3>2, <3>3, <3>4
    <3> QED BY <3>3, <3>4, <3>5 DEF Guarded
  <2> QED BY <1>5, <1>18, <2>3, <2>4
<1>19. Safe'
  BY <1>3, <1>18 DEF Safe
<1>20. Accounted(pool', table', deferred', 0)
  BY <1>3
<1> QED BY <1>9, <1>10, <1>11, <1>12, <1>13, <1>15, <1>17, <1>19, <1>20

-----------------------------------------------------------------------------
(* update_from_output() *)

\* The oldest batch is processed.  If the counters agree afterwards it was not
\* an empty one, and they agreed before; the blocks that are drained are behind
\* fences of steps that are no longer pending.
LEMMA BeginUpdateStep == ASSUME IInv, BeginUpdate PROVE IInv'
<1> USE DEF IInv
<1>1. PICK one : one = IF batches[1].reqs # << >> THEN 1 ELSE 0
  OBVIOUS
<1>2. PICK q : q = Tail(batches)
  OBVIOUS
<1>3. /\ phase = "pop" /\ phase' = "update" /\ idx' = 1 /\ batches # << >>
      /\ batches' = q /\ building' = batches[1] /\ building = NoBatch
      /\ procSeq' = procSeq + 1 /\ procSeq \in Nat /\ schedSeq \in Nat /\ one \in {0, 1}
      /\ UNCHANGED << table, running, waiting, req, schedSeq >>
  BY <1>1, <1>2 DEF BeginUpdate, Processed, Loop, Types
<1>4. /\ batches \in Seq(Batches) /\ batches[1] \in Batches
      /\ q \in Seq(Batches) /\ Len(batches) \in Nat \ {0} /\ Len(q) = Len(batches) - 1
      /\ DOMAIN batches = 1 .. Len(batches) /\ DOMAIN q = 1 .. Len(batches) - 1
      /\ \A i \in 1 .. Len(batches) - 1 : i + 1 \in 1 .. Len(batches) /\ q[i] = batches[i + 1]
      /\ 1 \in DOMAIN batches
  <2>1. batches \in Seq(Batches)
    BY DEF Types
  <2> HIDE DEF Batches
  <2> QED BY <1>2, <1>3, <2>1, TailAt
<1>5. /\ deferred' \in Seq(Entries) /\ Accounted(pool', table, deferred', 0)
      /\ Fenced(deferred', 0, procSeq + 1, schedSeq)
      /\ GuardsKept(table, deferred, req, table, deferred', req, procSeq + 1)
  <2>1. Drain(procSeq + 1)
    BY <1>3 DEF BeginUpdate
  <2>2. procSeq + 1 \in Nat /\ procSeq <= procSeq + 1
    BY <1>3
  <2>3. /\ table \in [Requests -> Seq(Blocks)] /\ deferred \in Seq(Entries)
        /\ Accounted(pool, table, deferred, 0) /\ Fenced(deferred, 0, procSeq, schedSeq)
    BY DEF Types
  <2>4. PICK s : s = procSeq + 1
    OBVIOUS
  <2>5. /\ deferred' \in Seq(Entries) /\ Accounted(pool', table, deferred', 0)
        /\ Fenced(deferred', 0, s, schedSeq)
        /\ \A R : GuardsKept(table, deferred, R, table, deferred', R, s)
    BY <1>3, <2>1, <2>2, <2>3, <2>4, DrainProperties
  <2> QED BY <2>4, <2>5
<1>6. Types'
  BY <1>3, <1>4, <1>5 DEF Types
<1>7. Queues'
  BY <1>3 DEF Queues
<1>8. Loop'
  <2>1. Len(q) < Depth
    BY <1>3, <1>4, DeferredFreeAssumption DEF Loop
  <2>2. Len(batches[1].reqs) \in Nat
    BY <1>4 DEF Batches
  <2> QED BY <1>3, <1>4, <2>1, <2>2, DeferredFreeAssumption DEF Loop, Scheduling
<1>9. Writers'
  BY <1>3, <1>4 DEF Writers, Scheduling
<1>10. /\ \A r : /\ Cardinality(With(q, r)) \in Nat
                 /\ Cardinality(With(batches, r))
                      = Cardinality(With(q, r)) + IF r \in Range(batches[1].reqs) THEN 1 ELSE 0
       /\ \A i \in DOMAIN q : Cardinality(After(q, i)) = Cardinality(After(batches, i + 1))
       /\ Cardinality(After(q, 0)) \in Nat
       /\ Cardinality(After(batches, 0)) = Cardinality(After(q, 0)) + one
  BY <1>1, <1>2, <1>3, <1>4, CountsTail
<1>11. Flights'
  <2>1. \A r \in Requests : InFlight(r)' = InFlight(r)
    BY <1>3 DEF InFlight
  <2>2. \A r \in Requests : ~Left(r) /\ (Left(r)' <=> r \in Range(batches[1].reqs))
    <3>1. \A r : r \in Range(batches[1].reqs)
                   <=> \E k \in 1 .. Len(batches[1].reqs) : batches[1].reqs[k] = r
      <4>1. DOMAIN batches[1].reqs = 1 .. Len(batches[1].reqs)
        BY <1>4, LenProperties DEF Batches
      <4> QED BY <4>1 DEF Range
    <3> QED BY <1>3, <3>1, NoBatchFacts DEF Left
  <2>3. \A r \in Requests : Cardinality(With(batches', r)) + (IF Left(r)' THEN 1 ELSE 0)
                              = Cardinality(With(batches, r)) + IF Left(r) THEN 1 ELSE 0
    BY <1>3, <1>10, <2>2
  <2> QED BY <1>3, <2>1, <2>3 DEF Flights
<1>12. Pending = Pending' + one /\ Pending' = Cardinality(After(q, 0)) /\ Pending' \in Nat
  <2>1. Pending = Cardinality(After(batches, 0))
    BY <1>4, PendingAfter DEF Pending
  <2>2. Pending' = Cardinality(After(q, 0))
    BY <1>3, <1>4, PendingAfter DEF Pending
  <2> QED BY <1>10, <2>1, <2>2
<1>13. Behind'
  BY <1>3, <1>12 DEF Behind
<1>14. ASSUME CountersInSync', NEW i \in DOMAIN q, NEW b \in q[i].writes
       PROVE  Guarded(table, deferred', 0, req, b, Number(i)')
  <2>1. CountersInSync /\ procSeq + 1 + Cardinality(After(q, 0)) = schedSeq
    BY <1>3, <1>12, <1>14 DEF CountersInSync, Behind
  <2>2. b \in Blocks /\ q[i].reqs # << >> /\ i + 1 \in DOMAIN batches /\ q[i] = batches[i + 1]
    <3>1. q[i] \in Batches /\ i + 1 \in DOMAIN batches /\ q[i] = batches[i + 1]
      BY <1>4
    <3>2. Sensible(q[i])
      BY <3>1 DEF Writers
    <3> QED BY <1>14, <3>1, <3>2 DEF Batches, Sensible
  <2>3. PICK n : n = Number(i)'
    OBVIOUS
  <2>4. n = schedSeq - Cardinality(After(q, i)) /\ n = Number(i + 1)
    BY <1>3, <1>10, <2>3 DEF Number
  <2>5. n \in Nat /\ n > procSeq + 1
    BY <1>3, <1>4, <2>1, <2>2, <2>4, NumberAbove
  <2>6. Guarded(table, deferred, 0, req, b, n)
    BY <1>14, <2>1, <2>2, <2>4 DEF Safe
  <2>7. PICK e : e = deferred'
    OBVIOUS
  <2>8. GuardsKept(table, deferred, req, table, e, req, procSeq + 1)
    BY <1>5, <2>7
  <2>9. Guarded(table, e, 0, req, b, n)
    BY <2>2, <2>5, <2>6, <2>8 DEF GuardsKept
  <2> QED BY <2>3, <2>7, <2>9
<1>15. Safe'
  BY <1>3, <1>14 DEF Safe
<1>16. Accounted(pool', table', deferred', 0) /\ Fenced(deferred', 0, procSeq', schedSeq')
  BY <1>3, <1>5
<1> QED BY <1>6, <1>7, <1>8, <1>9, <1>11, <1>13, <1>15, <1>16

\* One request of a batch is updated: it is gone, stale, one token further, or
\* done.
LEMMA UpdateRequestStep == ASSUME IInv, UpdateRequest PROVE IInv'
<1> USE DEF IInv
<1>1. PICK r : r = building.reqs[idx]
  OBVIOUS
<1>2. /\ phase = "update" /\ idx \in 1 .. Len(building.reqs) /\ r \in Requests
      /\ Unique(building.reqs) /\ building.reqs \in Seq(Requests) /\ Len(building.reqs) \in Nat
      /\ DOMAIN building.reqs = 1 .. Len(building.reqs)
  <2>1. building.reqs \in Seq(Requests) /\ phase = "update" /\ idx <= Len(building.reqs)
    BY DEF UpdateRequest, Types, Batches
  <2>2. DOMAIN building.reqs = 1 .. Len(building.reqs) /\ Len(building.reqs) \in Nat
    BY <2>1, LenProperties
  <2>3. idx \in 1 .. Len(building.reqs) /\ r \in Requests
    BY <1>1, <2>1, <2>2 DEF Loop
  <2> QED BY <2>1, <2>2, <2>3 DEF Writers, Sensible
<1>3. /\ idx' = idx + 1
      /\ UNCHANGED << waiting, batches, phase, building, schedSeq, procSeq >>
  BY DEF UpdateRequest, fence
<1>4. Loop' /\ Writers'
  BY <1>2, <1>3 DEF Loop, Writers, Scheduling
<1>5. /\ Left(r) /\ ~Left(r)'
      /\ \A s \in Requests : s # r => (Left(s)' <=> Left(s))
  <2>1. idx .. Len(building.reqs) = {idx} \cup (idx + 1 .. Len(building.reqs))
    BY <1>2
  <2>2. \A k \in idx + 1 .. Len(building.reqs) : building.reqs[k] # r
    BY <1>1, <1>2 DEF Unique
  <2>3. \A s : Left(s) <=> \E k \in idx .. Len(building.reqs) : building.reqs[k] = s
    BY <1>2 DEF Left
  <2>4. \A s : Left(s)' <=> \E k \in idx + 1 .. Len(building.reqs) : building.reqs[k] = s
    BY <1>2, <1>3 DEF Left
  <2> QED BY <1>1, <2>1, <2>2, <2>3, <2>4
<1>6. req[r].status # "finished" =>
         /\ InFlight(r) = Cardinality(With(batches, r)) + 1
         /\ Cardinality(With(batches, r)) \in Nat
  BY <1>2, <1>5, CountsAppend, NoBatchFacts DEF Flights, Types
<1>7. /\ req[r] \in Records /\ Outputs \in Nat \ {0}
      /\ req[r].sent \in Nat /\ req[r].done \in Nat /\ req[r].stale \in Nat /\ req[r].seq \in Nat
      /\ req[r].sent <= Outputs
  BY <1>2, RecordAt
\* One token further, or one stale output less; the request stays where it is.
<1>8. ASSUME req' \in [Requests -> Records], \A s \in Requests : s # r => req'[s] = req[s],
             req'[r].status = req[r].status, req'[r].sent = req[r].sent,
             req'[r].seq = req[r].seq, req'[r].done <= req'[r].sent,
             req[r].status # "finished" =>
                /\ InFlight(r)' = InFlight(r) - 1 /\ req'[r].done < Outputs
                /\ req[r].status \in {"new", "waiting"} => req'[r].done = req[r].done,
             UNCHANGED << pool, table, running, deferred >>
      PROVE  IInv'
  <2>1. Types'
    BY <1>2, <1>3, <1>8 DEF Types
  <2>2. Queues'
    <3>1. \A s \in Requests : s = r \/ (s # r /\ req'[s] = req[s])
      BY <1>8
    <3>2. \A s \in Requests :
             /\ s \in Range(running) <=> req'[s].status = "running"
             /\ s \in Range(waiting) <=> req'[s].status = "waiting"
             /\ req'[s].status # "running" => table[s] = << >>
      BY <1>8, <3>1 DEF Queues
    <3>3. \A s \in Requests :
             /\ req'[s].status \in {"new", "waiting"} => req'[s].sent = req'[s].done
             /\ req'[s].status # "finished" => req'[s].done < Outputs
             /\ req'[s].done <= req'[s].sent /\ req'[s].seq <= schedSeq
      BY <1>2, <1>8, <3>1 DEF Queues
    <3> QED BY <1>3, <1>8, <3>2, <3>3 DEF Queues
  <2>3. Flights'
    <3>1. \A s \in Requests : s # r => InFlight(s)' = InFlight(s)
      BY <1>8 DEF InFlight
    <3>2. req'[r].status # "finished" =>
             InFlight(r)' = Cardinality(With(batches, r)) + IF Left(r)' THEN 1 ELSE 0
      BY <1>5, <1>6, <1>8
    <3>3. \A s \in Requests : s # r /\ req'[s].status # "finished" =>
             InFlight(s)' = Cardinality(With(batches, s)) + IF Left(s)' THEN 1 ELSE 0
      BY <1>5, <1>8, <3>1 DEF Flights
    <3>4. \A s \in Requests : Cardinality(With(batches, s))' = Cardinality(With(batches, s))
      BY <1>3
    <3> QED BY <3>2, <3>3, <3>4 DEF Flights
  <2>4. GuardsKept(table, deferred, req, table', deferred', req', procSeq)
    <3>1. \A s \in Requests : req[s].seq \in Nat /\ (s # r => req'[s].seq = req[s].seq)
      BY <1>8, RecordAt
    <3>2. \A s \in Requests : req[s].seq <= req'[s].seq
      BY <1>8, <3>1
    <3> QED BY <1>8, <3>2, MoreBlocks
  <2>5. Accounted(pool', table', deferred', 0) /\ Fenced(deferred', 0, procSeq', schedSeq')
    BY <1>3, <1>8
  <2> QED BY <1>3, <1>4, <2>1, <2>2, <2>3, <2>4, <2>5, CalmStep
<1>9. CASE /\ req[r].status = "finished"
           /\ UNCHANGED << pool, table, running, req, deferred >>
  BY <1>2, <1>7, <1>8, <1>9 DEF Types, Queues
<1>10. CASE /\ req[r].status # "finished" /\ req[r].stale > 0
            /\ req' = [req EXCEPT ![r].stale = @ - 1]
            /\ UNCHANGED << pool, table, running, deferred >>
  <2>1. req[r].stale - 1 \in Nat
    BY <1>7, <1>10
  <2>2. /\ req' \in [Requests -> Records] /\ \A s \in Requests : s # r => req'[s] = req[s]
        /\ req'[r].status = req[r].status /\ req'[r].sent = req[r].sent
        /\ req'[r].seq = req[r].seq /\ req'[r].done = req[r].done
        /\ req'[r].stale = req[r].stale - 1
    BY <1>2, <1>7, <1>10, <2>1 DEF Types, Records
  <2>3. InFlight(r)' = InFlight(r) - 1
    BY <1>7, <2>2 DEF InFlight
  <2> QED BY <1>2, <1>8, <1>10, <2>2, <2>3 DEF Queues
<1>11. CASE /\ req[r].status # "finished" /\ req[r].stale = 0
            /\ req[r].done + 1 < Outputs
            /\ req' = [req EXCEPT ![r].done = @ + 1]
            /\ UNCHANGED << pool, table, running, deferred >>
  <2>1. req[r].done + 1 <= req[r].sent /\ req[r].done + 1 \in 0 .. Outputs
    BY <1>6, <1>7, <1>11 DEF InFlight
  <2>2. /\ req' \in [Requests -> Records] /\ \A s \in Requests : s # r => req'[s] = req[s]
        /\ req'[r].status = req[r].status /\ req'[r].sent = req[r].sent
        /\ req'[r].seq = req[r].seq /\ req'[r].done = req[r].done + 1
        /\ req'[r].stale = req[r].stale
    BY <1>2, <1>7, <1>11, <2>1 DEF Types, Records
  <2>3. InFlight(r)' = InFlight(r) - 1
    BY <1>7, <2>2 DEF InFlight
  <2>4. req[r].status \notin {"new", "waiting"}
    <3>1. req[r].status \in {"new", "waiting"} => req[r].sent = req[r].done
      BY <1>2 DEF Queues
    <3> QED BY <1>7, <2>1, <3>1
  <2> QED BY <1>8, <1>11, <2>1, <2>2, <2>3, <2>4
<1>12. CASE /\ req[r].status # "finished" /\ req[r].stale = 0
            /\ req' = [req EXCEPT ![r].done = @ + 1, ![r].status = "finished"]
            /\ running' = Without(running, r)
            /\ FreeRequestBlocks(r, pool, deferred)
  <2>1. req[r].done + 1 <= req[r].sent /\ req[r].done + 1 \in 0 .. Outputs
    BY <1>6, <1>7, <1>12 DEF InFlight
  <2>2. /\ req' \in [Requests -> Records] /\ \A s \in Requests : s # r => req'[s] = req[s]
        /\ req'[r].status = "finished" /\ req'[r].sent = req[r].sent
        /\ req'[r].seq = req[r].seq /\ req'[r].done = req[r].done + 1
    BY <1>2, <1>7, <1>12, <2>1 DEF Types, Records
  <2>3. /\ running' \in Seq(Requests) /\ Range(running') = Range(running) \ {r}
        /\ Unique(running')
    <3>1. Range(running) \subseteq Requests
      BY RangeOfSeq DEF Types, Range
    <3> QED BY <1>12, <3>1, KeepProperties DEF Types, Queues, Without
  <2>4. r \notin Range(waiting) /\ req[r].status = "running"
    <3>1. req[r].status \notin {"new", "waiting"}
      <4>1. req[r].status \in {"new", "waiting"} => req[r].sent = req[r].done
        BY <1>2 DEF Queues
      <4> QED BY <1>7, <2>1, <4>1
    <3> QED BY <1>2, <1>7, <1>12, <3>1 DEF Queues, Records
  <2>5. /\ table' \in [Requests -> Seq(Blocks)] /\ table'[r] = << >>
        /\ \A s \in Requests : s # r => table'[s] = table[s]
        /\ deferred' \in Seq(Entries) /\ Accounted(pool', table', deferred', 0)
        /\ Fenced(deferred', 0, procSeq, schedSeq)
        /\ GuardsKept(table, deferred, req, table', deferred', req, procSeq)
    BY <1>2, <1>12, FreeRequestGivesUp
  <2>6. Types'
    BY <1>2, <1>3, <2>2, <2>3, <2>5 DEF Types
  <2>7. Queues'
    <3>1. \A s \in Requests : \/ s = r
                              \/ s # r /\ req'[s] = req[s] /\ table'[s] = table[s]
      BY <2>2, <2>5
    <3>2. \A s \in Requests :
             /\ s \in Range(running') <=> req'[s].status = "running"
             /\ s \in Range(waiting') <=> req'[s].status = "waiting"
      BY <1>3, <2>2, <2>3, <2>4, <3>1 DEF Queues
    <3>3. \A s \in Requests : req'[s].status # "running" => table'[s] = << >>
      BY <2>2, <2>5, <3>1 DEF Queues
    <3>4. \A s \in Requests :
             /\ req'[s].status \in {"new", "waiting"} => req'[s].sent = req'[s].done
             /\ req'[s].status # "finished" => req'[s].done < Outputs
             /\ req'[s].done <= req'[s].sent /\ req'[s].seq <= schedSeq
      BY <1>2, <2>1, <2>2, <3>1 DEF Queues
    <3> QED BY <1>3, <2>3, <3>2, <3>3, <3>4 DEF Queues
  <2>8. Flights'
    <3>1. \A s \in Requests : s # r => InFlight(s)' = InFlight(s)
      BY <2>2 DEF InFlight
    <3>2. \A s \in Requests : s # r /\ req'[s].status # "finished" =>
             InFlight(s)' = Cardinality(With(batches, s)) + IF Left(s)' THEN 1 ELSE 0
      BY <1>5, <2>2, <3>1 DEF Flights
    <3>3. \A s \in Requests : Cardinality(With(batches, s))' = Cardinality(With(batches, s))
      BY <1>3
    <3> QED BY <2>2, <3>2, <3>3 DEF Flights
  <2>9. GuardsKept(table, deferred, req, table', deferred', req', procSeq)
    <3>1. \A s \in Requests : req[s].seq \in Nat /\ (s # r => req'[s].seq = req[s].seq)
      BY <2>2, RecordAt
    <3>2. \A s \in Requests : req[s].seq <= req'[s].seq
      BY <2>2, <3>1
    <3> QED BY <2>2, <2>5, <3>2, LaterFences
  <2>10. Fenced(deferred', 0, procSeq', schedSeq')
    BY <1>3, <2>5
  <2> QED BY <1>3, <1>4, <2>5, <2>6, <2>7, <2>8, <2>9, <2>10, CalmStep
<1> QED BY <1>1, <1>9, <1>10, <1>11, <1>12 DEF UpdateRequest

\* The end of update_from_output preserves the invariant.
LEMMA EndUpdateStep == ASSUME IInv, EndUpdate PROVE IInv'
<1> USE DEF IInv
<1>1. /\ phase = "update" /\ idx > Len(building.reqs) /\ phase' = "idle"
      /\ building' = NoBatch /\ idx' = 0
      /\ UNCHANGED << pool, table, running, waiting, req, batches, schedSeq, procSeq, deferred >>
  BY DEF EndUpdate, fence
<1>2. Types' /\ Queues' /\ Writers' /\ Loop'
  BY <1>1, NoBatchFacts DEF Types, Queues, Writers, Scheduling, Loop
<1>3. Flights'
  <2>1. \A r \in Requests : ~Left(r)
    <3>1. Len(building.reqs) \in Nat /\ idx \in Nat
      BY DEF Types, Batches
    <3> QED BY <1>1, <3>1 DEF Left
  <2>2. \A r \in Requests : ~Left(r)'
    BY <1>1, NoBatchFacts DEF Left
  <2> QED BY <1>1, <2>1, <2>2, FlightsKept DEF InFlight
<1>4. GuardsKept(table, deferred, req, table', deferred', req', procSeq)
  BY <1>1 DEF GuardsKept
<1> QED BY <1>1, <1>2, <1>3, <1>4, CalmStep

-----------------------------------------------------------------------------
(* reset_prefix_cache() *)

\* The last i running requests, the table without their blocks, and what holds
\* of the state once they have been preempted.
LastOnes(i) == {running[Len(running) + 1 - k] : k \in 1 .. i}
Emptied(i) == [r \in Requests |-> IF r \in LastOnes(i) THEN << >> ELSE table[r]]
Preempted(s, i) ==
    /\ s.waiting \in Seq(Requests) /\ Unique(s.waiting)
    /\ Range(s.waiting) = Range(waiting) \cup LastOnes(i)
    /\ s.deferred \in Seq(Entries) /\ Accounted(s.pool, Emptied(i), s.deferred, 0)
    /\ Fenced(s.deferred, 0, procSeq, schedSeq)
    /\ GuardsKept(table, deferred, req, Emptied(i), s.deferred, req, procSeq)

\* One preemption of a reset.
PreemptOne(v, s) ==
    [pool |-> IF Passed(v) THEN FreeBlocks(s.pool, Reversed(table[v])) ELSE s.pool,
     deferred |-> IF Passed(v) THEN s.deferred
                  ELSE Append(s.deferred, [fence |-> schedSeq, blocks |-> table[v]]),
     waiting |-> << v >> \o s.waiting]

\* The next request a reset preempts.
LEMMA NextLast ==
    ASSUME running \in Seq(Requests), Unique(running), NEW i \in Nat, i < Len(running),
           NEW v, v = running[Len(running) - i]
    PROVE  /\ v \in Requests /\ v \in Range(running)
           /\ v \notin LastOnes(i) /\ LastOnes(i + 1) = LastOnes(i) \cup {v}
<1> DEFINE n == Len(running)
<1>1. n \in Nat /\ DOMAIN running = 1 .. n /\ n - i \in 1 .. n
  BY LenProperties
<1>2. v \in Requests /\ v \in Range(running)
  BY <1>1 DEF Range
<1>3. \A k \in 1 .. i : n + 1 - k \in 1 .. n /\ n + 1 - k # n - i
  BY <1>1
<1>4. \A k \in 1 .. i : running[n + 1 - k] # v
  BY <1>1, <1>3 DEF Unique
<1>5. /\ LastOnes(i) = {running[n + 1 - k] : k \in 1 .. i}
      /\ LastOnes(i + 1) = {running[n + 1 - k] : k \in 1 .. i + 1}
      /\ v = running[n - i]
  BY DEF LastOnes
<1> HIDE DEF n
<1>6. /\ n + 1 - (i + 1) = n - i /\ i + 1 \in 1 .. i + 1
      /\ \A k \in 1 .. i + 1 : k \in 1 .. i \/ k = i + 1
      /\ \A k \in 1 .. i : k \in 1 .. i + 1
  BY <1>1
<1> QED BY <1>2, <1>4, <1>5, <1>6

\* It keeps accounts, fences and guards.
LEMMA PreemptOneProperties ==
    ASSUME IInv, NEW i, NEW s, Preempted(s, i), NEW v \in Requests, v \in Range(running),
           v \notin LastOnes(i), LastOnes(i + 1) = LastOnes(i) \cup {v}
    PROVE  Preempted(PreemptOne(v, s), i + 1)
<1> USE DEF IInv
<1>2. v \notin Range(waiting) /\ req[v].seq \in Nat
  BY RecordAt DEF Queues
<1>4. PICK T, U : T = Emptied(i) /\ U = Emptied(i + 1)
  OBVIOUS
<1>5. T \in [Requests -> Seq(Blocks)] /\ T[v] = table[v] /\ U = [T EXCEPT ![v] = << >>]
  <2>1. T \in [Requests -> Seq(Blocks)]
    BY <1>4, EmptyList DEF Emptied, Types
  <2>2. T[v] = table[v]
    BY <1>2, <1>4 DEF Emptied
  <2>3. U = [T EXCEPT ![v] = << >>]
    BY <1>4 DEF Emptied
  <2> QED BY <2>1, <2>2, <2>3
<1>6. PICK t : t = PreemptOne(v, s)
  OBVIOUS
<1>7. /\ t.pool = IF Passed(v) THEN FreeBlocks(s.pool, Reversed(table[v])) ELSE s.pool
      /\ t.deferred = IF Passed(v) THEN s.deferred
                      ELSE Append(s.deferred, [fence |-> schedSeq, blocks |-> table[v]])
      /\ t.waiting = << v >> \o s.waiting
  BY <1>6 DEF PreemptOne
<1>8. PICK p, d, f, e : p = s.pool /\ d = s.deferred /\ f = t.pool /\ e = t.deferred
  OBVIOUS
<1>9. GivesUp(p, T, d, req, v, procSeq, schedSeq, f, e)
  <2>1. procSeq \in Nat
    BY DEF Types
  <2>2. Passed(v) <=> req[v].seq <= procSeq
    BY DEF Passed
  <2>3. CASE Passed(v)
    BY <1>5, <1>7, <1>8, <2>2, <2>3 DEF GivesUp
  <2>4. CASE ~Passed(v)
    <3>1. req[v].seq > procSeq
      BY <1>2, <2>1, <2>2, <2>4
    <3> QED BY <1>5, <1>7, <1>8, <2>4, <3>1 DEF GivesUp
  <2> QED BY <2>3, <2>4
<1>10. /\ d \in Seq(Entries) /\ Accounted(p, T, d, 0) /\ Fenced(d, 0, procSeq, schedSeq)
       /\ GuardsKept(table, deferred, req, T, d, req, procSeq)
       /\ procSeq \in Nat /\ schedSeq \in Nat
       /\ \A r \in Requests : req[r].seq \in Nat /\ req[r].seq <= schedSeq
  BY <1>4, <1>8, RecordAt DEF Preempted, Types, Queues
<1>11. /\ e \in Seq(Entries) /\ Accounted(f, U, e, 0) /\ Fenced(e, 0, procSeq, schedSeq)
       /\ GuardsKept(T, d, req, U, e, req, procSeq)
  BY <1>5, <1>9, <1>10, GivesUpProperties
<1>12. GuardsKept(table, deferred, req, U, e, req, procSeq)
  BY <1>10, <1>11, GuardsChain
<1>13. t.waiting \in Seq(Requests) /\ Range(t.waiting) = Range(waiting) \cup LastOnes(i + 1) /\ Unique(t.waiting)
  <2>1. PICK a, w : a = << v >> /\ w = s.waiting
    OBVIOUS
  <2>2. a \in Seq(Requests) /\ Range(a) = {v} /\ Unique(a)
    BY <1>2, <2>1, LoneRequest
  <2>3. /\ w \in Seq(Requests) /\ Unique(w) /\ Range(w) = Range(waiting) \cup LastOnes(i)
        /\ Range(a) \cap Range(w) = {}
    BY <1>2, <2>1, <2>2 DEF Preempted
  <2>4. /\ a \o w \in Seq(Requests) /\ Unique(a \o w) /\ Range(a \o w) = {v} \cup Range(w)
    BY <2>2, <2>3, ConcatUnique
  <2>5. t.waiting = a \o w
    BY <1>7, <2>1
  <2> QED BY <2>3, <2>4, <2>5
<1>14. Preempted(t, i + 1)
  BY <1>4, <1>8, <1>11, <1>12, <1>13 DEF Preempted
<1> QED BY <1>6, <1>14

\* f is the state after each of the first m preemptions.
IsReset(f, m) ==
    f = [i \in 0 .. m |->
            IF i = 0 THEN [pool |-> pool, deferred |-> deferred, waiting |-> waiting]
            ELSE PreemptOne(running[Len(running) + 1 - i], f[i - 1])]

\* The recursive function of reset_prefix_cache is defined.
LEMMA ResetDefined == \A m \in Nat : \E f : IsReset(f, m)
<1> DEFINE S == {m \in Nat : \E f : IsReset(f, m)}
           first == [pool |-> pool, deferred |-> deferred, waiting |-> waiting]
<1>1. 0 \in S
  <2> DEFINE f == [i \in 0 .. 0 |-> first]
  <2>1. IsReset(f, 0)
    BY DEF IsReset
  <2> QED BY <2>1
<1>2. ASSUME NEW m \in Nat, m \in S PROVE m + 1 \in S
  <2>1. PICK f : IsReset(f, m)
    BY <1>2
  <2>2. PICK last : last = PreemptOne(running[Len(running) + 1 - (m + 1)], f[m])
    OBVIOUS
  <2> DEFINE g == [i \in 0 .. m + 1 |-> IF i = m + 1 THEN last ELSE f[i]]
  <2>3. /\ DOMAIN g = 0 .. m + 1 /\ g[m + 1] = last
        /\ \A i \in 0 .. m : g[i] = f[i]
    OBVIOUS
  <2>4. \A i \in 0 .. m : f[i] = IF i = 0 THEN first
                                 ELSE PreemptOne(running[Len(running) + 1 - i], f[i - 1])
    BY <2>1, Zenon DEF IsReset
  <2> HIDE DEF first
  <2>5. ASSUME NEW i \in 0 .. m + 1
        PROVE  g[i] = IF i = 0 THEN first ELSE PreemptOne(running[Len(running) + 1 - i], g[i - 1])
    <3> HIDE DEF g
    <3>1. CASE i = m + 1
      <4>1. i # 0 /\ i - 1 = m /\ m \in 0 .. m
        BY <3>1
      <4>2. g[i - 1] = f[m]
        BY <2>3, <4>1
      <4> QED BY <2>2, <2>3, <3>1, <4>1, <4>2
    <3>2. CASE i # m + 1
      <4>1. i \in 0 .. m /\ (i # 0 => i - 1 \in 0 .. m)
        BY <3>2
      <4> QED BY <2>3, <2>4, <4>1
    <3> QED BY <3>1, <3>2
  <2>6. g = [i \in 0 .. m + 1 |-> IF i = 0 THEN first
                                 ELSE PreemptOne(running[Len(running) + 1 - i], g[i - 1])]
    BY <2>5
  <2>7. IsReset(g, m + 1)
    BY <2>6, Zenon DEF IsReset, first
  <2> QED BY <2>7
<1> HIDE DEF S
<1>3. Nat \subseteq S
  BY <1>1, <1>2, SetInduction
<1> QED BY <1>3 DEF S

\* The preemptions of a reset, all of them.
LEMMA AfterResetProperties == ASSUME IInv PROVE Preempted(AfterReset, Len(running))
<1> USE DEF IInv
<1> DEFINE n == Len(running)
           A == CHOOSE f : IsReset(f, n)
<1>1. n \in Nat
  BY LenProperties DEF Types
<1>2. IsReset(A, n)
  <2>1. \E f : IsReset(f, n)
    BY <1>1, ResetDefined
  <2> QED BY <2>1, Zenon
<1>3. AfterReset = A[n]
  BY DEF AfterReset, IsReset, PreemptOne
<1> HIDE DEF n, A
<1> DEFINE S == {i \in Nat : i <= n => Preempted(A[i], i)}
           first == [pool |-> pool, deferred |-> deferred, waiting |-> waiting]
<1>4. /\ A[0] = first
      /\ \A i \in Nat : i + 1 <= n => A[i + 1] = PreemptOne(running[n - i], A[i])
  <2>1. \A i \in 0 .. n : A[i] = IF i = 0 THEN first ELSE PreemptOne(running[n + 1 - i], A[i - 1])
    BY <1>2, Zenon DEF IsReset, n
  <2> HIDE DEF first
  <2>2. \A i \in Nat : i + 1 <= n =>
            i + 1 \in 0 .. n /\ i + 1 # 0 /\ (i + 1) - 1 = i /\ n + 1 - (i + 1) = n - i
    BY <1>1
  <2>3. 0 \in 0 .. n
    BY <1>1
  <2> QED BY <2>1, <2>2, <2>3
<1>5. 0 \in S
  <2>1. LastOnes(0) = {}
    BY DEF LastOnes
  <2>2. Emptied(0) = table
    BY <2>1 DEF Emptied, Types
  <2>3. /\ first.pool = pool /\ first.deferred = deferred /\ first.waiting = waiting
    OBVIOUS
  <2>4. GuardsKept(table, deferred, req, table, deferred, req, procSeq)
    BY DEF GuardsKept
  <2> HIDE DEF first
  <2>5. Preempted(first, 0)
    BY <2>1, <2>2, <2>3, <2>4 DEF Preempted, Types, Queues
  <2> QED BY <1>4, <2>5
<1>6. ASSUME NEW i \in Nat, i \in S PROVE i + 1 \in S
  <2>1. CASE i + 1 <= n
    <3>1. i <= n /\ i < n
      BY <1>1, <2>1
    <3>2. Preempted(A[i], i)
      BY <1>6, <3>1
    <3>3. PICK v : v = running[n - i]
      OBVIOUS
    <3>4. /\ v \in Requests /\ v \in Range(running)
          /\ v \notin LastOnes(i) /\ LastOnes(i + 1) = LastOnes(i) \cup {v}
      BY <3>1, <3>3, NextLast DEF n, Types, Queues
    <3>5. Preempted(PreemptOne(v, A[i]), i + 1)
      BY <3>2, <3>4, PreemptOneProperties
    <3> QED BY <1>4, <2>1, <3>3, <3>5
  <2>2. CASE ~(i + 1 <= n)
    BY <2>2
  <2> QED BY <2>1, <2>2
<1> HIDE DEF S
<1>7. Nat \subseteq S
  BY <1>5, <1>6, SetInduction
<1>8. Preempted(A[n], n)
  BY <1>1, <1>7 DEF S
<1> QED BY <1>3, <1>8 DEF n

\* reset_prefix_cache preserves the invariant.
LEMMA ResetStep == ASSUME IInv, Reset PROVE IInv'
<1> USE DEF IInv
<1>1. PICK t : t = AfterReset
  OBVIOUS
<1>2. /\ phase = "idle" /\ pool' = t.pool /\ deferred' = t.deferred /\ waiting' = t.waiting
      /\ running' = << >> /\ building = NoBatch
      /\ UNCHANGED << batches, phase, idx, building, schedSeq, procSeq >>
  BY <1>1 DEF Reset, Loop
<1>3. LastOnes(Len(running)) = Range(running)
  <2>1. Len(running) \in Nat /\ DOMAIN running = 1 .. Len(running)
    BY LenProperties DEF Types
  <2>2. \A k \in 1 .. Len(running) : /\ Len(running) + 1 - k \in 1 .. Len(running)
                                     /\ Len(running) + 1 - (Len(running) + 1 - k) = k
    BY <2>1
  <2>3. \A x : x \in LastOnes(Len(running)) => x \in Range(running)
    BY <2>1, <2>2 DEF LastOnes, Range
  <2>4. \A x : x \in Range(running) => x \in LastOnes(Len(running))
    <3> SUFFICES ASSUME NEW x \in Range(running) PROVE x \in LastOnes(Len(running))
      OBVIOUS
    <3>1. PICK j \in 1 .. Len(running) : running[j] = x
      BY <2>1 DEF Range
    <3>2. PICK k \in 1 .. Len(running) : Len(running) + 1 - k = j
      BY <2>2
    <3> QED BY <3>1, <3>2 DEF LastOnes
  <2> QED BY <2>3, <2>4
<1>4. /\ table' \in [Requests -> Seq(Blocks)] /\ table' = Emptied(Len(running))
      /\ \A r \in Requests : table'[r] = IF r \in Range(running) THEN << >> ELSE table[r]
  BY <1>3, EmptyList DEF Reset, Emptied, Types
<1>5. /\ t.waiting \in Seq(Requests) /\ Unique(t.waiting)
      /\ Range(t.waiting) = Range(waiting) \cup Range(running)
      /\ t.deferred \in Seq(Entries) /\ Accounted(t.pool, Emptied(Len(running)), t.deferred, 0)
      /\ Fenced(t.deferred, 0, procSeq, schedSeq)
      /\ GuardsKept(table, deferred, req, Emptied(Len(running)), t.deferred, req, procSeq)
  <2>1. Preempted(t, Len(running))
    BY <1>1, AfterResetProperties
  <2> QED BY <1>3, <2>1 DEF Preempted
<1>6. ASSUME NEW r \in Requests
      PROVE  /\ req'[r] \in Records /\ req'[r].done = req[r].done /\ req'[r].seq = req[r].seq
             /\ InFlight(r)' = InFlight(r)
             /\ IF r \in Range(running)
                THEN req'[r].status = "waiting" /\ req'[r].sent = req[r].done
                ELSE req'[r] = req[r]
  <2>1. /\ req[r] \in Records /\ req[r].sent \in Nat /\ req[r].done \in Nat
        /\ req[r].stale \in Nat /\ req[r].done <= req[r].sent /\ req[r].done \in 0 .. Outputs
    BY RecordAt DEF Queues
  <2>2. PICK x : x = InFlight(r)
    OBVIOUS
  <2>3. x \in Nat /\ x = req[r].sent - req[r].done + req[r].stale
    BY <2>1, <2>2 DEF InFlight
  <2>4. req'[r] = IF r \in Range(running)
                  THEN [req[r] EXCEPT !.status = "waiting", !.stale = x, !.sent = req[r].done]
                  ELSE req[r]
    BY <2>2 DEF Reset
  <2>5. CASE r \notin Range(running)
    BY <2>1, <2>4, <2>5 DEF InFlight
  <2>6. CASE r \in Range(running)
    <3>1. /\ req'[r] \in Records /\ req'[r].done = req[r].done /\ req'[r].seq = req[r].seq
          /\ req'[r].status = "waiting" /\ req'[r].sent = req[r].done /\ req'[r].stale = x
      BY <2>1, <2>3, <2>4, <2>6 DEF Records
    <3>2. InFlight(r)' = InFlight(r)
      BY <2>1, <2>3, <3>1 DEF InFlight
    <3> QED BY <2>6, <3>1, <3>2
  <2> QED BY <2>5, <2>6
<1>7. req' \in [Requests -> Records]
  <2>1. req' = [r \in Requests |-> req'[r]]
    BY DEF Reset
  <2> QED BY <1>6, <2>1
<1>8. Types'
  BY <1>2, <1>4, <1>5, <1>7, EmptyList DEF Types
<1>9. Queues'
  <2>1. Range(running') = {} /\ Unique(running')
    BY <1>2, EmptyList
  <2>2. Range(waiting') = Range(waiting) \cup Range(running) /\ Unique(waiting') /\ schedSeq' = schedSeq
    BY <1>2, <1>5
  <2>3. ASSUME NEW r \in Requests
        PROVE  /\ r \in Range(running') <=> req'[r].status = "running"
               /\ r \in Range(waiting') <=> req'[r].status = "waiting"
               /\ req'[r].status # "running" => table'[r] = << >>
               /\ req'[r].status \in {"new", "waiting"} => req'[r].sent = req'[r].done
               /\ req'[r].status # "finished" => req'[r].done < Outputs
               /\ req'[r].done <= req'[r].sent
               /\ req'[r].seq <= schedSeq'
    <3>1. CASE r \in Range(running)
      <4>1. req[r].status = "running" /\ req[r].done < Outputs /\ req[r].seq <= schedSeq /\ req[r].done \in Nat
        BY <3>1, RecordAt DEF Queues
      <4> QED BY <1>4, <1>6, <2>1, <2>2, <3>1, <4>1
    <3>2. CASE r \notin Range(running)
      <4>1. req'[r] = req[r] /\ table'[r] = table[r]
        BY <1>4, <1>6, <3>2
      <4> QED BY <2>1, <2>2, <3>2, <4>1 DEF Queues
    <3> QED BY <3>1, <3>2
  <2> QED BY <2>1, <2>2, <2>3 DEF Queues
<1>10. Loop' /\ Writers'
  BY <1>2 DEF Loop, Writers, Scheduling
<1>11. Flights'
  <2>1. \A r \in Requests : req'[r].status # "finished" => req[r].status # "finished"
    BY <1>6 DEF Queues
  <2>2. \A r \in Requests : Left(r)' <=> Left(r)
    BY <1>2 DEF Left
  <2> QED BY <1>2, <1>6, <2>1, <2>2, FlightsKept
<1>12. GuardsKept(table, deferred, req, table', deferred', req', procSeq)
  <2>1. GuardsKept(table, deferred, req, table', deferred', req, procSeq)
    BY <1>2, <1>4, <1>5
  <2>2. \A s \in Requests : req[s].seq <= req'[s].seq
    BY <1>6, RecordAt
  <2> QED BY <1>7, <2>1, <2>2, LaterFences
<1>13. Accounted(pool', table', deferred', 0) /\ Fenced(deferred', 0, procSeq', schedSeq')
  BY <1>2, <1>4, <1>5
<1> QED BY <1>2, <1>8, <1>9, <1>10, <1>11, <1>12, <1>13, CalmStep

-----------------------------------------------------------------------------
(* The invariant and what follows from it *)

\* The invariant holds at the start.
LEMMA Initially == Init => IInv
<1> SUFFICES ASSUME Init PROVE IInv
  OBVIOUS
<1> USE DEF Init
<1>1. /\ PoolInit \in PoolRecord /\ PoolInit.ref = [b \in Blocks |-> 0]
      /\ CacheIndexExact(PoolInit) /\ FreeQueueExact(PoolInit)
  BY PoolInitProperties
<1>2. /\ \A r \in Requests : table[r] = << >> /\ Range(table[r]) = {} /\ Unique(table[r])
      /\ table \in [Requests -> Seq(Blocks)]
      /\ Range(running) = {} /\ Range(waiting) = {} /\ Unique(running) /\ Unique(waiting)
      /\ running \in Seq(Requests) /\ waiting \in Seq(Requests) /\ batches \in Seq(Batches)
      /\ deferred \in Seq(Entries)
      /\ DOMAIN deferred = {} /\ DOMAIN batches = {} /\ Len(batches) = 0
  <2>1. deferred = << >> /\ batches = << >> /\ DOMAIN << >> = {} /\ Len(<< >>) = 0
    OBVIOUS
  <2> QED BY <2>1, EmptyList
<1>3. \A r \in Requests : /\ req[r].status = "new" /\ req[r].sent = 0 /\ req[r].done = 0
                          /\ req[r].stale = 0 /\ req[r].seq = 0 /\ req[r] \in Records
  BY DeferredFreeAssumption, BlockPoolAssumption DEF Records
<1>4. Types
  <2>1. req \in [Requests -> Records]
    BY <1>3
  <2> QED BY <1>2, <2>1, NoBatchFacts DEF Types
<1>5. \A b \in Blocks : Alone(table, deferred, 0, b) /\ ~Held(table, deferred, 0, b)
  BY <1>2 DEF Alone, Held
<1>6. Accounted(pool, table, deferred, 0)
  BY <1>1, <1>2, <1>5 DEF Accounted
<1>7. Fenced(deferred, 0, procSeq, schedSeq)
  BY <1>2 DEF Fenced
<1>8. Queues
  BY <1>2, <1>3, DeferredFreeAssumption, BlockPoolAssumption DEF Queues
<1>9. Loop
  BY <1>2, DeferredFreeAssumption DEF Loop, Scheduling
<1>10. Writers
  BY <1>2, NoBatchFacts DEF Writers, Scheduling
<1>11. \A r \in Requests : With(batches, r) = {} /\ ~Left(r) /\ InFlight(r) = 0
  BY <1>2, <1>3, NoBatchFacts DEF With, Left, InFlight
<1>12. Flights
  <2>1. \A r \in Requests : InFlight(r) = Cardinality(With(batches, r)) + IF Left(r) THEN 1 ELSE 0
    <3> SUFFICES ASSUME NEW r \in Requests
                 PROVE  InFlight(r) = Cardinality(With(batches, r)) + IF Left(r) THEN 1 ELSE 0
      OBVIOUS
    <3>1. Cardinality(With(batches, r)) = 0
      BY <1>11, FS_EmptySet
    <3> QED BY <1>11, <3>1
  <2> QED BY <2>1 DEF Flights
<1>13. Behind
  <2>1. {i \in DOMAIN batches : batches[i].reqs # << >>} = {}
    BY <1>2
  <2> QED BY <2>1, FS_EmptySet DEF Behind, Pending
<1>14. Safe
  BY <1>2 DEF Safe
<1> QED BY <1>4, <1>6, <1>7, <1>8, <1>9, <1>10, <1>12, <1>13, <1>14 DEF IInv

\* Every step preserves it.
LEMMA Preserved == IInv /\ [Next]_vars => IInv'
<1> SUFFICES ASSUME IInv, [Next]_vars PROVE IInv'
  OBVIOUS
<1>1. CASE UNCHANGED vars
  <2>1. /\ Types' /\ Queues' /\ Loop' /\ Writers' /\ Flights'
    BY <1>1 DEF IInv, vars, Types, Queues, Loop, Scheduling, Writers, Flights, InFlight, Left
  <2>2. GuardsKept(table, deferred, req, table', deferred', req', procSeq)
    BY <1>1 DEF vars, GuardsKept
  <2>3. Accounted(pool', table', deferred', 0) /\ Fenced(deferred', 0, procSeq', schedSeq')
    BY <1>1 DEF IInv, vars
  <2>4. UNCHANGED << batches, schedSeq, procSeq >>
    BY <1>1 DEF vars
  <2> QED BY <2>1, <2>2, <2>3, <2>4, CalmStep DEF IInv
<1>2. CASE EngineStep
  BY <1>2, CallStep, SkipRunningStep, ScheduleRunningStep, PreemptRunningStep, EndRunningStep,
     AdmitStep, CloseStep, BeginUpdateStep, UpdateRequestStep, EndUpdateStep DEF EngineStep
<1>3. CASE \E r \in Requests : AddRequest(r) \/ Abort(r)
  BY <1>3, AddRequestStep, AbortStep
<1>4. CASE Reset
  BY <1>4, ResetStep
<1> QED BY <1>1, <1>2, <1>3, <1>4 DEF Next, Quiescent

\* The invariant holds in every state.
THEOREM Invariance == Spec => []IInv
BY Initially, Preserved, PTL DEF Spec

\* A request that is done keeps the count of stale outputs it had.
LEMMA FinishedKeepsStale ==
    ASSUME IInv, [Next]_vars, NEW r \in Requests, req'[r].status = "finished"
    PROVE  req'[r].stale = req[r].stale
<1>1. req \in [Requests -> Records] /\ req[r] \in Records
  BY RecordAt DEF IInv, Types
<1>2. CASE UNCHANGED req
  BY <1>2
<1>3. ASSUME NEW s \in Requests, AddRequest(s) \/ Abort(s) PROVE req'[r].stale = req[r].stale
  <2>1. \E x : req' = [req EXCEPT ![s].status = x]
    BY <1>3 DEF AddRequest, Abort
  <2> QED BY <1>1, <2>1 DEF Records
<1>4. CASE ScheduleRunning
  <2>1. PICK s : s = Current
    OBVIOUS
  <2>2. req' = [req EXCEPT ![s].sent = @ + 1]
    BY <1>4, <2>1 DEF ScheduleRunning
  <2> QED BY <1>1, <2>2 DEF Records
<1>5. CASE PreemptRunning
  <2>1. PICK v, x : v = running[Len(running)] /\ x = InFlight(v)
    OBVIOUS
  <2>2. req' = [req EXCEPT ![v].status = "waiting", ![v].stale = x, ![v].sent = req[v].done]
    BY <1>5, <2>1 DEF PreemptRunning
  <2>3. r # v
    BY <1>1, <2>2 DEF Records
  <2> QED BY <1>1, <2>2, <2>3
<1>6. CASE Admit
  <2>1. PICK v, n : v = waiting[1] /\ n = req[v].done + 1
    OBVIOUS
  <2>2. req' = [req EXCEPT ![v].status = "running", ![v].sent = n]
    BY <1>6, <2>1 DEF Admit
  <2> QED BY <1>1, <2>2 DEF Records
<1>7. CASE Close
  <2>1. req'[r] = req[r] \/ req'[r] = [req[r] EXCEPT !.seq = schedSeq']
    BY <1>7 DEF Close
  <2> QED BY <1>1, <2>1 DEF Records
<1>8. CASE UpdateRequest
  <2>1. PICK s : s = building.reqs[idx]
    OBVIOUS
  <2>2. \/ UNCHANGED req
        \/ /\ req[s].status # "finished" /\ req' = [req EXCEPT ![s].stale = @ - 1]
        \/ req' = [req EXCEPT ![s].done = @ + 1]
        \/ req' = [req EXCEPT ![s].done = @ + 1, ![s].status = "finished"]
    BY <1>8, <2>1 DEF UpdateRequest
  <2> QED BY <1>1, <2>2 DEF Records
<1>9. CASE Reset
  <2>1. \/ req'[r] = req[r]
        \/ req'[r] = [req[r] EXCEPT !.status = "waiting", !.stale = InFlight(r), !.sent = req[r].done]
    BY <1>9 DEF Reset
  <2> QED BY <1>1, <2>1 DEF Records
<1>10. CASE Call \/ SkipRunning \/ EndRunning \/ EndWaiting \/ BeginUpdate \/ EndUpdate \/ UNCHANGED vars
  BY <1>10 DEF Call, SkipRunning, EndRunning, EndWaiting, BeginUpdate, EndUpdate, vars
<1> QED BY <1>3, <1>4, <1>5, <1>6, <1>7, <1>8, <1>9, <1>10 DEF Next, EngineStep, Quiescent

\* The stale outputs of a request, in every state.
Stales == \A r \in Requests : req[r].stale \in 0 .. Depth

\* The stale outputs of a request are in flight, so there are at most Depth.
LEMMA StaleBounded ==
    ASSUME IInv, NEW r \in Requests, req[r].status # "finished"
    PROVE  req[r].stale \in 0 .. Depth
<1>1. PICK c : c = Cardinality(With(batches, r))
  OBVIOUS
<1>2. c \in 0 .. Len(batches) /\ Len(batches) \in Nat
  <2>1. batches \in Seq(Batches)
    BY DEF IInv, Types
  <2> QED BY <1>1, <2>1, CountsAppend, NoBatchFacts, LenProperties
<1>3. InFlight(r) = c + IF Left(r) THEN 1 ELSE 0
  BY <1>1 DEF IInv, Flights
<1>4. c + (IF Left(r) THEN 1 ELSE 0) <= Depth
  <2>1. CASE phase = "pop"
    <3>1. ~Left(r)
      BY <2>1, NoBatchFacts DEF IInv, Loop, Left
    <3> QED BY <1>2, <2>1, <3>1, DeferredFreeAssumption DEF IInv, Loop
  <2>2. CASE phase # "pop"
    BY <1>2, <2>2, DeferredFreeAssumption DEF IInv, Loop
  <2> QED BY <2>1, <2>2
<1>5. /\ req[r].sent \in Nat /\ req[r].done \in Nat /\ req[r].stale \in Nat
      /\ req[r].done <= req[r].sent
  BY RecordAt DEF IInv, Queues
<1>6. req[r].stale <= InFlight(r)
  BY <1>5 DEF InFlight
<1>7. Depth \in Nat /\ InFlight(r) <= Depth /\ InFlight(r) \in Int
  BY <1>3, <1>4, <1>5, DeferredFreeAssumption DEF InFlight
<1> QED BY <1>5, <1>6, <1>7

\* So it stays for requests that are done.
LEMMA StalesKept == IInv /\ Stales /\ [Next]_vars => Stales'
<1> SUFFICES ASSUME IInv, Stales, [Next]_vars, NEW r \in Requests PROVE req'[r].stale \in 0 .. Depth
  BY DEF Stales
<1>1. CASE req'[r].status = "finished"
  <2>1. req'[r].stale = req[r].stale
    BY <1>1, FinishedKeepsStale
  <2> QED BY <2>1 DEF Stales
<1>2. CASE req'[r].status # "finished"
  <2>1. IInv' /\ (IInv' /\ req'[r].status # "finished" => req'[r].stale \in 0 .. Depth)
    <3>1. IInv /\ req[r].status # "finished" => req[r].stale \in 0 .. Depth
      BY StaleBounded
    <3>2. (IInv /\ req[r].status # "finished" => req[r].stale \in 0 .. Depth)'
      BY StaleBounded, PTL
    <3>3. IInv'
      BY Preserved
    <3> QED BY <3>2, <3>3
  <2> QED BY <1>2, <2>1
<1> QED BY <1>1, <1>2

\* Sets of no and of one element.
LEMMA OneIn ==
    ASSUME NEW S, NEW x
    PROVE  /\ S = {} => Cardinality(S) = 0
           /\ x \in S /\ (\A y \in S : y = x) => Cardinality(S) = 1
<1>1. ASSUME x \in S, \A y \in S : y = x PROVE Cardinality(S) = 1
  <2>1. S = {x}
    BY <1>1
  <2> QED BY <2>1, FS_Singleton
<1> QED BY <1>1, FS_EmptySet

\* A block is in the free queue, in one table or in one entry.
LEMMA BlockInOnePlace == ASSUME IInv, NEW b \in Blocks PROVE Places(b) = 1
<1> DEFINE A == {r \in Requests : b \in Range(table[r])}
           B == {i \in DOMAIN deferred : b \in Range(deferred[i].blocks)}
<1>1. \A i \in DOMAIN deferred : i > 0
  BY DEF IInv, Types
<1>2. \A i : i \in B <=> i \in DOMAIN deferred /\ Kept(deferred, 0, b, i)
  BY <1>1 DEF Kept
<1>3. /\ Alone(table, deferred, 0, b)
      /\ pool.ref[b] = IF Held(table, deferred, 0, b) THEN 1 ELSE 0
      /\ pool \in PoolRecord /\ FreeQueueExact(pool)
  BY DEF IInv, Accounted
<1>4. Held(table, deferred, 0, b) <=> A # {} \/ B # {}
  BY <1>2 DEF Held
<1>5. /\ \A r, s \in A : r = s
      /\ \A i, j \in B : i = j
      /\ A = {} \/ B = {}
  BY <1>2, <1>3 DEF Alone
<1>6. Occurs(pool.free, b) = IF A # {} \/ B # {} THEN 0 ELSE 1
  <2>1. pool.free \in Seq(Blocks)
    BY <1>3 DEF PoolRecord
  <2>2. Occurs(pool.free, b) = IF b \in Range(pool.free) THEN 1 ELSE 0
    BY <1>3, <2>1, OccursProperties DEF FreeQueueExact
  <2>3. b \in Range(pool.free) <=> pool.ref[b] = 0
    BY <1>3 DEF FreeQueueExact
  <2> QED BY <1>3, <1>4, <2>2, <2>3
<1>7. Places(b) = Occurs(pool.free, b) + Cardinality(A) + Cardinality(B)
  BY DEF Places
<1> HIDE DEF A, B
<1>8. CASE A = {} /\ B = {}
  BY <1>6, <1>7, <1>8, FS_EmptySet
<1>9. CASE A # {}
  <2>1. PICK r : r \in A
    BY <1>9
  <2>2. Cardinality(A) = 1 /\ Cardinality(B) = 0
    BY <1>5, <1>9, <2>1, OneIn
  <2> QED BY <1>6, <1>7, <1>9, <2>2
<1>10. CASE B # {}
  <2>1. PICK i : i \in B
    BY <1>10
  <2>2. Cardinality(B) = 1 /\ Cardinality(A) = 0
    BY <1>5, <1>10, <2>1, OneIn
  <2> QED BY <1>6, <1>7, <1>10, <2>2
<1> QED BY <1>8, <1>9, <1>10

\* The accounts of the invariant are those of the property.  When the engine is
\* idle no fence is left: it would be beyond a step that has been processed.
LEMMA AccountedAlways == IInv /\ Stales => BlocksAccounted
<1> SUFFICES ASSUME IInv, Stales PROVE BlocksAccounted
  OBVIOUS
<1>1. TypeOK
  <2>1. PoolTypeOK(pool)
    <3>1. pool \in PoolRecord /\ \A b \in Blocks : pool.ref[b] \in Nat
      BY DEF IInv, Accounted
    <3>2. pool.ref \in [Blocks -> Nat]
      BY <3>1 DEF PoolRecord
    <3> QED BY <3>1, <3>2 DEF PoolTypeOK, PoolRecord
  <2>2. req \in [Requests -> [status : {"new", "waiting", "running", "finished"},
                              sent : 0 .. Outputs, done : 0 .. Outputs,
                              stale : 0 .. Depth, seq : Nat]]
    <3>1. req \in [Requests -> Records] /\ \A r \in Requests : req[r].stale \in 0 .. Depth
      BY DEF IInv, Types, Stales
    <3> QED BY <3>1 DEF Records
  <2> QED BY <2>1, <2>2 DEF TypeOK, IInv, Types, Loop
<1>2. BlocksConserved
  BY BlockInOnePlace DEF BlocksConserved
<1>3. FencesOrdered
  BY DEF FencesOrdered, IInv, Fenced
<1>4. IdleHoldsNothing
  <2> SUFFICES ASSUME batches = << >>, deferred # << >> PROVE FALSE
    BY DEF IdleHoldsNothing
  <2>1. Pending = 0
    <3>1. {i \in DOMAIN batches : batches[i].reqs # << >>} = {}
      OBVIOUS
    <3> QED BY <3>1, FS_EmptySet DEF Pending
  <2>2. schedSeq \in Nat /\ procSeq \in Nat /\ procSeq >= schedSeq
    BY <2>1 DEF IInv, Types, Behind
  <2>3. deferred \in Seq(Entries) /\ 1 \in DOMAIN deferred
    <3> HIDE DEF Entries
    <3>1. deferred \in Seq(Entries)
      BY DEF IInv, Types
    <3> QED BY <3>1
  <2>4. deferred[1].fence \in Nat /\ deferred[1].fence <= schedSeq /\ deferred[1].fence > procSeq
    BY <2>3, EntryAt DEF IInv, Fenced
  <2> QED BY <2>2, <2>4
<1> QED BY <1>1, <1>2, <1>3, <1>4 DEF BlocksAccounted

\* A block that a batch in flight writes is guarded, so it has a reference.
LEMMA FenceHolds == IInv => FenceHoldsInSync
<1> SUFFICES ASSUME IInv, CountersInSync, NEW i \in DOMAIN batches, NEW b \in batches[i].writes,
                    b \in Range(pool.free)
             PROVE  FALSE
  BY DEF FenceHoldsInSync, NoPendingWriteIsFree
<1>1. b \in Blocks
  <2>1. batches[i] \in Batches
    BY DEF IInv, Types
  <2> QED BY <2>1 DEF Batches
<1>2. Guarded(table, deferred, 0, req, b, Number(i))
  BY DEF IInv, Safe
<1>3. Held(table, deferred, 0, b)
  BY <1>2 DEF Guarded, Held
<1>4. pool.ref[b] = 1
  BY <1>1, <1>3 DEF IInv, Accounted
<1>5. pool.ref[b] = 0
  BY DEF IInv, Accounted, FreeQueueExact
<1> QED BY <1>4, <1>5

\* Deferral loses no block and frees none twice, the fences are in order, and
\* an idle engine holds nothing behind one (_free_request_blocks,
\* _drain_deferred_frees).
THEOREM AccountsHold == Spec => []BlocksAccounted
<1>1. Init => Stales
  BY DeferredFreeAssumption DEF Init, Stales
<1> QED BY <1>1, Initially, Preserved, StalesKept, AccountedAlways, PTL DEF Spec

\* As long as both counters have counted the same steps, no block in the free
\* queue is written by a step in flight: the comment of deferred_frees in
\* scheduler.py, "Blocks become safe to free once processed_step_seq >=
\* fence_seq".
THEOREM FencesHold == Spec => []FenceHoldsInSync
BY Invariance, FenceHolds, PTL
=============================================================================
