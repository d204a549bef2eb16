------------------------- MODULE BlockPoolClientsProofs -------------------------
(***************************************************************************)
(* Proofs about BlockPoolClients, for every pool size, set of requests and *)
(* set of keys: the type invariant and the four safety invariants.         *)
(*                                                                         *)
(* None of them is inductive alone.  The free queue stays exact only if no *)
(* count is exceeded by a release (RefsAccounted); the accounting needs the*)
(* tables to name a block once (TablesUnique); a fresh block is in no table*)
(* because the free queue held it (FreeIsUnreferenced); and the counts are *)
(* not negative because they are the references.  IInv is their conjunction*)
(* with the types.                                                         *)
(***************************************************************************)
EXTENDS BlockPoolClients, BlockPoolLemmas

Count(T, b) == Cardinality({r \in Requests : b \in Range(T[r])})
One(P) == IF P THEN 1 ELSE 0

Consistent(p, T, c) ==
    /\ p \in PoolRecord
    /\ T \in [Requests -> Seq(Blocks)]
    /\ c \in Seq(Blocks \X Blocks)
    /\ CacheIndexExact(p)
    /\ FreeQueueExact(p)
    /\ \A r \in Requests : Unique(T[r])
    /\ \A b \in Blocks : p.ref[b] = Count(T, b) + Occurs(Endpoints(c), b)

IInv == Consistent(pool, table, copies)

----------------------------------------------------------------------------
(* Counting the holders of a block.                                        *)

\* The number of tables with a block is a number, positive when a table has it.
LEMMA CountType ==
    ASSUME NEW T, NEW b
    PROVE  /\ Count(T, b) \in Nat
           /\ Count(T, b) = 0 => \A r \in Requests : b \notin Range(T[r])
<1> DEFINE H == {r \in Requests : b \in Range(T[r])}
<1>1. IsFiniteSet(H)
  BY FS_Subset, BlockPoolClientsAssumption
<1>2. Cardinality(H) \in Nat /\ (Cardinality(H) = 0 <=> H = {})
  BY <1>1, FS_CardinalityType, FS_EmptySet
<1> QED BY <1>2 DEF Count

\* Replacing one table.
LEMMA CountUpdate ==
    ASSUME NEW T \in [Requests -> Seq(Blocks)], NEW r \in Requests, NEW t, NEW b
    PROVE  Count([T EXCEPT ![r] = t], b)
             = Count(T, b) - One(b \in Range(T[r])) + One(b \in Range(t))
<1> DEFINE U == [T EXCEPT ![r] = t]
           H == {s \in Requests : b \in Range(T[s])}
           G == {s \in Requests : b \in Range(U[s])}
           M == H \ {r}
<1>1. IsFiniteSet(H) /\ Cardinality(H) \in Nat
  <2>1. IsFiniteSet(H)
    BY FS_Subset, BlockPoolClientsAssumption
  <2> QED BY <2>1, FS_CardinalityType
<1>2. /\ IsFiniteSet(M)
      /\ Cardinality(M) = IF r \in H THEN Cardinality(H) - 1 ELSE Cardinality(H)
  <2> HIDE DEF H
  <2> QED BY <1>1, FS_RemoveElement
<1>3. r \in H <=> b \in Range(T[r])
  OBVIOUS
<1>4. U[r] = t /\ \A s \in Requests : s # r => U[s] = T[s]
  OBVIOUS
<1>5. G = IF b \in Range(t) THEN M \cup {r} ELSE M
  BY <1>4
<1>6. r \notin M
  OBVIOUS
<1> HIDE DEF H, G, M
<1>7. Cardinality(G) = Cardinality(M) + One(b \in Range(t))
  <2>1. CASE b \in Range(t)
    <3>1. Cardinality(G) = Cardinality(M) + 1
      BY <1>2, <1>5, <1>6, <2>1, FS_AddElement
    <3> QED BY <2>1, <3>1 DEF One
  <2>2. CASE b \notin Range(t)
    <3>1. Cardinality(M) \in Nat
      BY <1>2, FS_CardinalityType
    <3> QED BY <1>5, <2>2, <3>1 DEF One
  <2> QED BY <2>1, <2>2
<1>8. Cardinality(M) = Cardinality(H) - One(b \in Range(T[r]))
  BY <1>1, <1>2, <1>3 DEF One
<1> QED BY <1>7, <1>8 DEF Count, G, H

\* The endpoints of the pending copies.
LEMMA EndpointsType ==
    ASSUME NEW c \in Seq(Blocks \X Blocks)
    PROVE  Endpoints(c) \in Seq(Blocks)
<1>1. Len(c) \in Nat /\ \A i \in 1 .. Len(c) : c[i] \in Blocks \X Blocks
  BY LenProperties
<1>2. ASSUME NEW i \in 1 .. 2 * Len(c)
      PROVE  c[(i + 1) \div 2][2 - (i % 2)] \in Blocks
  <2>1. (i + 1) \div 2 \in 1 .. Len(c) /\ 2 - (i % 2) \in {1, 2}
    BY <1>1
  <2> QED BY <1>1, <2>1
<1>3. Endpoints(c) \in [1 .. 2 * Len(c) -> Blocks]
  BY <1>2 DEF Endpoints
<1>4. 2 * Len(c) \in Nat
  BY <1>1
<1> QED BY <1>3, <1>4, SeqDef

\* One more pending copy.
LEMMA EndpointsAppend ==
    ASSUME NEW c \in Seq(Blocks \X Blocks), NEW x \in Blocks, NEW y \in Blocks, NEW b
    PROVE  Occurs(Endpoints(Append(c, << x, y >>)), b)
             = Occurs(Endpoints(c), b) + One(x = b) + One(y = b)
<1> DEFINE n == Len(c)
           d == Append(c, << x, y >>)
           e == Endpoints(c)
           f == Append(Append(e, x), y)
<1>1. n \in Nat /\ e \in Seq(Blocks) /\ Len(e) = 2 * n
  <2>1. n \in Nat
    BY LenProperties
  <2>2. e \in Seq(Blocks)
    BY EndpointsType
  <2>3. DOMAIN e = 1 .. 2 * n
    BY DEF Endpoints
  <2> QED BY <2>1, <2>2, <2>3, LenProperties
<1>2. /\ d \in Seq(Blocks \X Blocks) /\ Len(d) = n + 1
      /\ \A i \in 1 .. n : d[i] = c[i]
      /\ d[n + 1] = << x, y >>
  BY AppendProperties
<1>3. /\ Append(e, x) \in Seq(Blocks) /\ Len(Append(e, x)) = 2 * n + 1
      /\ \A i \in 1 .. 2 * n : Append(e, x)[i] = e[i]
      /\ Append(e, x)[2 * n + 1] = x
  <2>0. e \in Seq(Blocks)
    BY <1>1
  <2> HIDE DEF e
  <2>1. /\ Append(e, x) \in Seq(Blocks) /\ Len(Append(e, x)) = Len(e) + 1
        /\ \A i \in 1 .. Len(e) : Append(e, x)[i] = e[i]
        /\ Append(e, x)[Len(e) + 1] = x
    BY <2>0, AppendProperties
  <2> QED BY <1>1, <2>1
<1>4. /\ f \in Seq(Blocks) /\ Len(f) = 2 * n + 2
      /\ \A i \in 1 .. 2 * n + 1 : f[i] = Append(e, x)[i]
      /\ f[2 * n + 2] = y
  BY <1>1, <1>3, AppendProperties
<1>5. Endpoints(d) \in Seq(Blocks) /\ Len(Endpoints(d)) = 2 * n + 2
  <2>1. Endpoints(d) \in Seq(Blocks)
    BY <1>2, EndpointsType
  <2>2. DOMAIN Endpoints(d) = 1 .. 2 * (n + 1)
    BY <1>2 DEF Endpoints
  <2>3. 2 * (n + 1) = 2 * n + 2
    BY <1>1
  <2> QED BY <1>1, <2>1, <2>2, <2>3, LenProperties
<1>6. /\ \A i \in 1 .. 2 * n : e[i] = c[(i + 1) \div 2][2 - (i % 2)]
      /\ \A i \in 1 .. 2 * n + 2 : Endpoints(d)[i] = d[(i + 1) \div 2][2 - (i % 2)]
  <2>1. \A i \in 1 .. 2 * Len(d) : Endpoints(d)[i] = d[(i + 1) \div 2][2 - (i % 2)]
    BY DEF Endpoints
  <2>2. 2 * Len(d) = 2 * n + 2
    BY <1>1, <1>2
  <2> QED BY <2>1, <2>2 DEF Endpoints
<1> HIDE DEF d, e, f, n
<1>7. ASSUME NEW i \in 1 .. 2 * n + 2
      PROVE  Endpoints(d)[i] = f[i]
  <2>1. CASE i \in 1 .. 2 * n
    <3>1. (i + 1) \div 2 \in 1 .. n /\ i \in 1 .. 2 * n + 1
      BY <1>1, <2>1
    <3> QED BY <1>2, <1>3, <1>4, <1>6, <2>1, <3>1
  <2>2. CASE i = 2 * n + 1
    <3>1. (i + 1) \div 2 = n + 1 /\ 2 - (i % 2) = 1 /\ i \in 1 .. 2 * n + 1
      BY <1>1, <2>2
    <3>2. f[i] = x
      BY <1>3, <1>4, <2>2, <3>1
    <3> QED BY <1>2, <1>6, <3>1, <3>2
  <2>3. CASE i = 2 * n + 2
    <3>1. (i + 1) \div 2 = n + 1 /\ 2 - (i % 2) = 2
      BY <1>1, <2>3
    <3>2. f[i] = y
      BY <1>4, <2>3
    <3> QED BY <1>2, <1>6, <3>1, <3>2
  <2>4. i \in 1 .. 2 * n \/ i = 2 * n + 1 \/ i = 2 * n + 2
    BY <1>1
  <2> QED BY <2>1, <2>2, <2>3, <2>4
<1>8. Endpoints(d) = f
  BY <1>4, <1>5, <1>7, SeqEqual
<1>9. /\ Occurs(f, b) = Occurs(Append(e, x), b) + One(y = b)
      /\ Occurs(Append(e, x), b) = Occurs(e, b) + One(x = b)
  <2>1. Occurs(Append(e, x), b) = Occurs(e, b) + IF x = b THEN 1 ELSE 0
    BY <1>1, OccursAppend
  <2> DEFINE g == Append(e, x)
  <2>2. g \in Seq(Blocks)
    BY <1>3
  <2> HIDE DEF g
  <2>3. Occurs(Append(g, y), b) = Occurs(g, b) + IF y = b THEN 1 ELSE 0
    BY <2>2, OccursAppend
  <2>4. f = Append(g, y)
    BY DEF f, g
  <2> QED BY <2>1, <2>3, <2>4 DEF One, g
<1> QED BY <1>8, <1>9 DEF d, e

----------------------------------------------------------------------------
(* Consistency through the operations.                                     *)

\* The counts of a consistent state are not negative, and a block at zero is
\* neither in a table nor an endpoint of a copy.
LEMMA ConsistentRefs ==
    ASSUME NEW p, NEW T, NEW c, Consistent(p, T, c)
    PROVE  /\ p.ref \in [Blocks -> Nat]
           /\ \A b \in Blocks : /\ Count(T, b) \in Nat
                                /\ Occurs(Endpoints(c), b) \in Nat
           /\ \A b \in Blocks : p.ref[b] = 0 =>
                 /\ Count(T, b) = 0 /\ Occurs(Endpoints(c), b) = 0
                 /\ \A r \in Requests : b \notin Range(T[r])
<1>1. p.ref \in [Blocks -> Int]
  BY DEF Consistent, PoolRecord
<1>2. ASSUME NEW b \in Blocks
      PROVE  /\ Count(T, b) \in Nat /\ Occurs(Endpoints(c), b) \in Nat
             /\ p.ref[b] = Count(T, b) + Occurs(Endpoints(c), b)
             /\ Count(T, b) = 0 => \A r \in Requests : b \notin Range(T[r])
  <2>1. Endpoints(c) \in Seq(Blocks)
    BY EndpointsType DEF Consistent
  <2>2. Occurs(Endpoints(c), b) \in Nat
    BY <2>1, OccursProperties
  <2>3. p.ref[b] = Count(T, b) + Occurs(Endpoints(c), b)
    BY DEF Consistent
  <2> QED BY <2>2, <2>3, CountType
<1>3. p.ref \in [Blocks -> Nat]
  BY <1>1, <1>2
<1> QED BY <1>2, <1>3

\* An operation that leaves the queue and the counts of the pool alone.
LEMMA ConsistentCache ==
    ASSUME NEW p, NEW T, NEW c, Consistent(p, T, c),
           NEW q \in PoolRecord, q.free = p.free, q.ref = p.ref, CacheIndexExact(q)
    PROVE  Consistent(q, T, c)
BY DEF Consistent, FreeQueueExact

\* allocate_new_blocks.
LEMMA ConsistentAllocate ==
    ASSUME NEW p, NEW T, NEW c, Consistent(p, T, c),
           NEW r \in Requests, NEW n \in Nat, CanGetNewBlocks(p, n)
    PROVE  Consistent(GetNewBlocks(p, n), [T EXCEPT ![r] = @ \o NewBlocks(p, n)], c)
<1> DEFINE a == NewBlocks(p, n)
           g == GetNewBlocks(p, n)
           t == T[r] \o a
           U == [T EXCEPT ![r] = t]
<1>1. /\ p \in PoolRecord /\ CacheIndexExact(p) /\ FreeQueueExact(p)
      /\ T \in [Requests -> Seq(Blocks)] /\ c \in Seq(Blocks \X Blocks)
      /\ \A s \in Requests : Unique(T[s])
      /\ \A b \in Blocks : p.ref[b] = Count(T, b) + Occurs(Endpoints(c), b)
  BY DEF Consistent
<1>2. /\ a \in Seq(Blocks) /\ Unique(a) /\ \A b \in Range(a) : p.ref[b] = 0
      /\ g \in PoolRecord /\ CacheIndexExact(g) /\ FreeQueueExact(g)
      /\ g.ref = [b \in Blocks |-> IF b \in Range(a) THEN p.ref[b] + 1 ELSE p.ref[b]]
  BY <1>1, GetNewBlocksProperties
<1> HIDE DEF a, g
<1>3. \A b \in Range(a) : b \in Blocks /\ b \notin Range(T[r])
  <2>1. \A b \in Range(a) : b \in Blocks
    BY <1>2, RangeOfSeq DEF Range
  <2> QED BY <1>2, <2>1, ConsistentRefs
<1>4. t \in Seq(Blocks) /\ Range(t) = Range(T[r]) \cup Range(a) /\ Unique(t)
  <2>1. T[r] \in Seq(Blocks) /\ Unique(T[r]) /\ Range(T[r]) \cap Range(a) = {}
    BY <1>1, <1>3
  <2> QED BY <1>2, <2>1, ConcatUnique
<1> HIDE DEF t
<1>5. U \in [Requests -> Seq(Blocks)] /\ \A s \in Requests : Unique(U[s])
  BY <1>1, <1>4
<1>6. ASSUME NEW b \in Blocks
      PROVE  g.ref[b] = Count(U, b) + Occurs(Endpoints(c), b)
  <2>1. Count(U, b) = Count(T, b) - One(b \in Range(T[r])) + One(b \in Range(t))
    BY <1>1, CountUpdate
  <2>2. /\ Count(T, b) \in Nat /\ Occurs(Endpoints(c), b) \in Nat
        /\ p.ref[b] = Count(T, b) + Occurs(Endpoints(c), b)
    BY <1>1, ConsistentRefs
  <2>3. CASE b \in Range(a)
    <3>1. Count(U, b) = Count(T, b) + 1
      BY <1>3, <1>4, <2>1, <2>2, <2>3 DEF One
    <3> QED BY <1>2, <2>2, <2>3, <3>1
  <2>4. CASE b \notin Range(a)
    <3>1. Count(U, b) = Count(T, b)
      BY <1>4, <2>1, <2>2, <2>4 DEF One
    <3> QED BY <1>2, <2>2, <2>4, <3>1
  <2> QED BY <2>3, <2>4
<1>7. Consistent(g, U, c)
  BY <1>1, <1>2, <1>5, <1>6 DEF Consistent
<1> QED BY <1>7 DEF a, g, t

\* add_local_computed_blocks on one block.
LEMMA ConsistentHit ==
    ASSUME NEW p, NEW T, NEW c, Consistent(p, T, c),
           NEW r \in Requests, NEW x \in Blocks, x \notin Range(T[r])
    PROVE  Consistent(Touch(p, {x}), [T EXCEPT ![r] = Append(@, x)], c)
<1> DEFINE g == Touch(p, {x})
           t == Append(T[r], x)
           U == [T EXCEPT ![r] = t]
<1>1. /\ p \in PoolRecord /\ CacheIndexExact(p) /\ FreeQueueExact(p)
      /\ T \in [Requests -> Seq(Blocks)] /\ c \in Seq(Blocks \X Blocks)
      /\ \A s \in Requests : Unique(T[s])
  BY DEF Consistent
<1>2. p.ref \in [Blocks -> Nat]
  BY ConsistentRefs
<1>3. /\ g \in PoolRecord /\ CacheIndexExact(g) /\ FreeQueueExact(g)
      /\ g.ref = [b \in Blocks |-> IF b \in {x} THEN p.ref[b] + 1 ELSE p.ref[b]]
  BY <1>1, <1>2, TouchProperties
<1>4. t \in Seq(Blocks) /\ Range(t) = Range(T[r]) \cup {x} /\ Unique(t)
  <2>1. T[r] \in Seq(Blocks) /\ Unique(T[r])
    BY <1>1
  <2> QED BY <2>1, AppendUnique
<1> HIDE DEF g, t
<1>5. U \in [Requests -> Seq(Blocks)] /\ \A s \in Requests : Unique(U[s])
  BY <1>1, <1>4
<1>6. ASSUME NEW b \in Blocks
      PROVE  g.ref[b] = Count(U, b) + Occurs(Endpoints(c), b)
  <2>1. Count(U, b) = Count(T, b) - One(b \in Range(T[r])) + One(b \in Range(t))
    BY <1>1, CountUpdate
  <2>2. /\ Count(T, b) \in Nat /\ Occurs(Endpoints(c), b) \in Nat
        /\ p.ref[b] = Count(T, b) + Occurs(Endpoints(c), b)
    BY ConsistentRefs DEF Consistent
  <2>3. Count(U, b) = Count(T, b) + One(b = x)
    BY <1>4, <2>1, <2>2 DEF One
  <2> QED BY <1>3, <2>2, <2>3 DEF One
<1>7. Consistent(g, U, c)
  BY <1>1, <1>3, <1>5, <1>6 DEF Consistent
<1> QED BY <1>7 DEF g, t

\* free: the whole table of a request.
LEMMA ConsistentFree ==
    ASSUME NEW p, NEW T, NEW c, Consistent(p, T, c), NEW r \in Requests
    PROVE  Consistent(FreeBlocks(p, Reversed(T[r])), [T EXCEPT ![r] = << >>], c)
<1> DEFINE v == Reversed(T[r])
           f == FreeBlocks(p, v)
           U == [T EXCEPT ![r] = << >>]
<1>1. /\ p \in PoolRecord /\ CacheIndexExact(p) /\ FreeQueueExact(p)
      /\ T \in [Requests -> Seq(Blocks)] /\ c \in Seq(Blocks \X Blocks)
      /\ \A s \in Requests : Unique(T[s])
  BY DEF Consistent
<1>2. v \in Seq(Blocks) /\ Range(v) = Range(T[r]) /\ Unique(v)
  BY <1>1, ReversedProperties
<1> HIDE DEF v
<1>3. Range(<< >>) = {} /\ Unique(<< >>)
  BY DEF Range, Unique
<1>4. ASSUME NEW b \in Blocks
      PROVE  /\ Occurs(v, b) <= p.ref[b]
             /\ p.ref[b] - Occurs(v, b) = Count(U, b) + Occurs(Endpoints(c), b)
  <2>1. Count(U, b) = Count(T, b) - One(b \in Range(T[r])) + One(b \in Range(<< >>))
    BY <1>1, CountUpdate
  <2>2. /\ Count(T, b) \in Nat /\ Occurs(Endpoints(c), b) \in Nat
        /\ p.ref[b] = Count(T, b) + Occurs(Endpoints(c), b)
    BY ConsistentRefs DEF Consistent
  <2>3. Occurs(v, b) = One(b \in Range(T[r]))
    BY <1>2, OccursProperties DEF One
  <2>4. Count(U, b) = Count(T, b) - One(b \in Range(T[r]))
    BY <1>3, <2>1, <2>2 DEF One
  <2>5. Count(U, b) \in Nat
    BY CountType
  <2>6. One(b \in Range(T[r])) \in Nat
    BY DEF One
  <2> HIDE DEF U
  <2> QED BY <2>2, <2>3, <2>4, <2>5, <2>6
<1>5. CanFreeBlocks(p, v)
  BY <1>4 DEF CanFreeBlocks
<1>6. /\ f \in PoolRecord /\ CacheIndexExact(f) /\ FreeQueueExact(f)
      /\ f.ref = [b \in Blocks |-> p.ref[b] - Occurs(v, b)]
  BY <1>1, <1>2, <1>5, FreeBlocksProperties
<1> HIDE DEF f
<1>7. U \in [Requests -> Seq(Blocks)] /\ \A s \in Requests : Unique(U[s])
  BY <1>1, <1>3
<1>8. Consistent(f, U, c)
  BY <1>1, <1>4, <1>6, <1>7 DEF Consistent
<1> QED BY <1>8 DEF f, v

\* take_kv_cache_block_copies: both endpoints of every copy.
LEMMA ConsistentCopied ==
    ASSUME NEW p, NEW T, NEW c, Consistent(p, T, c)
    PROVE  Consistent(FreeBlocks(p, Endpoints(c)), T, << >>)
<1> DEFINE e == Endpoints(c)
           f == FreeBlocks(p, e)
<1>1. /\ p \in PoolRecord /\ CacheIndexExact(p) /\ FreeQueueExact(p)
      /\ T \in [Requests -> Seq(Blocks)] /\ c \in Seq(Blocks \X Blocks)
      /\ \A s \in Requests : Unique(T[s])
      /\ \A b \in Blocks : p.ref[b] = Count(T, b) + Occurs(e, b)
  BY DEF Consistent
<1>2. e \in Seq(Blocks)
  BY <1>1, EndpointsType
<1>3. \A b \in Blocks : Count(T, b) \in Nat /\ Occurs(e, b) \in Nat
  BY ConsistentRefs
<1> HIDE DEF e
<1>4. CanFreeBlocks(p, e)
  BY <1>1, <1>3 DEF CanFreeBlocks
<1>5. /\ f \in PoolRecord /\ CacheIndexExact(f) /\ FreeQueueExact(f)
      /\ f.ref = [b \in Blocks |-> p.ref[b] - Occurs(e, b)]
  BY <1>1, <1>2, <1>4, FreeBlocksProperties
<1> HIDE DEF f
<1>6. << >> \in Seq(Blocks \X Blocks) /\ \A b : Occurs(Endpoints(<< >>), b) = 0
  <2>1. DOMAIN Endpoints(<< >>) = {}
    BY DEF Endpoints
  <2>2. \A b : {i \in DOMAIN Endpoints(<< >>) : Endpoints(<< >>)[i] = b} = {}
    BY <2>1
  <2> QED BY <2>2, FS_EmptySet DEF Occurs
<1>7. \A b \in Blocks : f.ref[b] = Count(T, b) + Occurs(Endpoints(<< >>), b)
  BY <1>1, <1>3, <1>5, <1>6
<1>8. Consistent(f, T, << >>)
  BY <1>1, <1>5, <1>6, <1>7 DEF Consistent
<1> QED BY <1>8 DEF e, f

\* The block that a copy-on-write takes is one nobody uses.
LEMMA ConsistentCow ==
    ASSUME NEW p, NEW T, NEW c, Consistent(p, T, c), CanGetNewBlocks(p, 1),
           NEW cow, cow = NewBlocks(p, 1)[1], NEW g, g = GetNewBlocks(p, 1)
    PROVE  /\ cow \in Blocks /\ p.ref[cow] = 0
           /\ g \in PoolRecord /\ CacheIndexExact(g) /\ FreeQueueExact(g)
           /\ g.ref = [b \in Blocks |-> IF b = cow THEN p.ref[b] + 1 ELSE p.ref[b]]
           /\ g.ref \in [Blocks -> Nat]
           /\ CanMoveBlockHashes(g, cow)
<1> DEFINE a == NewBlocks(p, 1)
<1>1. /\ p \in PoolRecord /\ CacheIndexExact(p) /\ FreeQueueExact(p)
  BY DEF Consistent
<1>2. /\ a \in Seq(Blocks) /\ Len(a) = 1 /\ \A b \in Range(a) : p.ref[b] = 0
      /\ g \in PoolRecord /\ CacheIndexExact(g) /\ FreeQueueExact(g)
      /\ g.ref = [b \in Blocks |-> IF b \in Range(a) THEN p.ref[b] + 1 ELSE p.ref[b]]
      /\ \A b \in Range(a) : CanMoveBlockHashes(g, b)
  BY <1>1, GetNewBlocksProperties
<1> HIDE DEF a
<1>3. Range(a) = {cow} /\ cow \in Blocks
  <2>1. DOMAIN a = {1} /\ a[1] \in Blocks
    BY <1>2, LenProperties
  <2> QED BY <2>1 DEF Range, a
<1>4. p.ref \in [Blocks -> Nat]
  BY ConsistentRefs
<1>5. g.ref = [b \in Blocks |-> IF b = cow THEN p.ref[b] + 1 ELSE p.ref[b]]
  BY <1>2, <1>3
<1>6. g.ref \in [Blocks -> Nat]
  BY <1>4, <1>5
<1> QED BY <1>2, <1>3, <1>5, <1>6

\* _apply_cow: the request moves to the copy.
LEMMA ConsistentCopyOnWrite ==
    ASSUME NEW p, NEW T, NEW c, Consistent(p, T, c), CanGetNewBlocks(p, 1),
           NEW r \in Requests, NEW i \in DOMAIN T[r],
           NEW src, src = T[r][i], NEW cow, cow = NewBlocks(p, 1)[1]
    PROVE  Consistent(Touch(GetNewBlocks(p, 1), {cow}),
                      [T EXCEPT ![r][i] = cow], Append(c, << src, cow >>))
<1> DEFINE g == GetNewBlocks(p, 1)
           h == Touch(g, {cow})
           t == [T[r] EXCEPT ![i] = cow]
           U == [T EXCEPT ![r] = t]
           d == Append(c, << src, cow >>)
<1>1. /\ T \in [Requests -> Seq(Blocks)] /\ c \in Seq(Blocks \X Blocks)
      /\ \A s \in Requests : Unique(T[s])
  BY DEF Consistent
<1>2. /\ cow \in Blocks /\ p.ref[cow] = 0
      /\ g \in PoolRecord /\ CacheIndexExact(g) /\ FreeQueueExact(g)
      /\ g.ref = [b \in Blocks |-> IF b = cow THEN p.ref[b] + 1 ELSE p.ref[b]]
      /\ g.ref \in [Blocks -> Nat]
  BY ConsistentCow
<1>3. /\ cow \notin Range(T[r]) /\ Count(T, cow) = 0
      /\ Occurs(Endpoints(c), cow) = 0
  BY <1>2, ConsistentRefs
<1>4. src \in Blocks /\ src \in Range(T[r]) /\ src # cow
  <2>1. src \in Range(T[r])
    BY DEF Range
  <2>2. src \in Blocks
    BY <1>1, ElementOfSeq, LenProperties
  <2> QED BY <1>3, <2>1, <2>2
<1>5. /\ t \in Seq(Blocks) /\ Unique(t)
      /\ Range(t) = (Range(T[r]) \ {src}) \cup {cow}
  <2>1. T[r] \in Seq(Blocks) /\ Unique(T[r])
    BY <1>1
  <2> QED BY <1>2, <1>3, <2>1, ExceptUnique
<1> HIDE DEF g, t
<1>6. /\ h \in PoolRecord /\ CacheIndexExact(h) /\ FreeQueueExact(h)
      /\ h.ref = [b \in Blocks |-> IF b \in {cow} THEN g.ref[b] + 1 ELSE g.ref[b]]
  BY <1>2, TouchProperties
<1>7. U \in [Requests -> Seq(Blocks)] /\ \A s \in Requests : Unique(U[s])
  BY <1>1, <1>5
<1>8. d \in Seq(Blocks \X Blocks)
  <2>1. << src, cow >> \in Blocks \X Blocks
    BY <1>2, <1>4
  <2> QED BY <1>1, <2>1, AppendProperties
<1> HIDE DEF h
<1>9. ASSUME NEW b \in Blocks
      PROVE  h.ref[b] = Count(U, b) + Occurs(Endpoints(d), b)
  <2>1. Count(U, b) = Count(T, b) - One(b \in Range(T[r])) + One(b \in Range(t))
    BY <1>1, CountUpdate
  <2>2. Occurs(Endpoints(d), b) = Occurs(Endpoints(c), b) + One(src = b) + One(cow = b)
    BY <1>1, <1>2, <1>4, EndpointsAppend
  <2>3. /\ Count(T, b) \in Nat /\ Occurs(Endpoints(c), b) \in Nat
        /\ p.ref[b] = Count(T, b) + Occurs(Endpoints(c), b)
    BY ConsistentRefs DEF Consistent
  <2> HIDE DEF U, d
  <2>4. CASE b = cow
    <3>1. Count(U, b) = 1
      BY <1>3, <1>5, <2>1, <2>4 DEF One
    <3>2. Occurs(Endpoints(d), b) = 1
      BY <1>3, <1>4, <2>2, <2>4 DEF One
    <3>3. h.ref[b] = 2
      BY <1>2, <1>6, <2>4
    <3> QED BY <3>1, <3>2, <3>3
  <2>5. CASE b = src
    <3>1. Count(U, b) = Count(T, b) - 1
      BY <1>4, <1>5, <2>1, <2>3, <2>5 DEF One
    <3>2. Occurs(Endpoints(d), b) = Occurs(Endpoints(c), b) + 1
      BY <1>4, <2>2, <2>3, <2>5 DEF One
    <3>3. h.ref[b] = p.ref[b]
      BY <1>2, <1>4, <1>6, <2>5
    <3> QED BY <2>3, <3>1, <3>2, <3>3
  <2>6. CASE b # cow /\ b # src
    <3>1. Count(U, b) = Count(T, b)
      BY <1>5, <2>1, <2>3, <2>6 DEF One
    <3>2. Occurs(Endpoints(d), b) = Occurs(Endpoints(c), b)
      BY <2>2, <2>3, <2>6 DEF One
    <3>3. h.ref[b] = p.ref[b]
      BY <1>2, <1>6, <2>6
    <3> QED BY <2>3, <3>1, <3>2, <3>3
  <2> QED BY <2>4, <2>5, <2>6
<1>10. Consistent(h, U, d)
  BY <1>6, <1>7, <1>8, <1>9 DEF Consistent
<1>11. U = [T EXCEPT ![r][i] = cow]
  BY <1>1 DEF t
<1> QED BY <1>10, <1>11 DEF h, g

\* The "align" mode: the request stays and the cache moves to the copy.
LEMMA ConsistentCopyAndMove ==
    ASSUME NEW p, NEW T, NEW c, Consistent(p, T, c), CanGetNewBlocks(p, 1),
           NEW r \in Requests, NEW i \in DOMAIN T[r],
           NEW src, src = T[r][i], NEW cow, cow = NewBlocks(p, 1)[1]
    PROVE  Consistent(Touch(MoveBlockHashes(GetNewBlocks(p, 1), src, cow), {src}),
                      T, Append(c, << src, cow >>))
<1> DEFINE g == GetNewBlocks(p, 1)
           m == MoveBlockHashes(g, src, cow)
           h == Touch(m, {src})
           d == Append(c, << src, cow >>)
<1>1. /\ T \in [Requests -> Seq(Blocks)] /\ c \in Seq(Blocks \X Blocks)
      /\ \A s \in Requests : Unique(T[s])
  BY DEF Consistent
<1>2. /\ cow \in Blocks /\ p.ref[cow] = 0
      /\ g \in PoolRecord /\ CacheIndexExact(g) /\ FreeQueueExact(g)
      /\ g.ref = [b \in Blocks |-> IF b = cow THEN p.ref[b] + 1 ELSE p.ref[b]]
      /\ g.ref \in [Blocks -> Nat]
      /\ CanMoveBlockHashes(g, cow)
  BY ConsistentCow
<1>3. src \in Blocks
  BY <1>1, ElementOfSeq, LenProperties
<1> HIDE DEF g
<1>4. /\ m \in PoolRecord /\ CacheIndexExact(m) /\ m.free = g.free /\ m.ref = g.ref
  BY <1>2, <1>3, MoveBlockHashesProperties
<1> HIDE DEF m
<1>5. FreeQueueExact(m)
  BY <1>2, <1>4 DEF FreeQueueExact
<1>6. /\ h \in PoolRecord /\ CacheIndexExact(h) /\ FreeQueueExact(h)
      /\ h.ref = [b \in Blocks |-> IF b \in {src} THEN m.ref[b] + 1 ELSE m.ref[b]]
  BY <1>2, <1>4, <1>5, TouchProperties
<1>7. d \in Seq(Blocks \X Blocks)
  <2>1. << src, cow >> \in Blocks \X Blocks
    BY <1>2, <1>3
  <2> QED BY <1>1, <2>1, AppendProperties
<1> HIDE DEF h
<1>8. ASSUME NEW b \in Blocks
      PROVE  h.ref[b] = Count(T, b) + Occurs(Endpoints(d), b)
  <2>1. Occurs(Endpoints(d), b) = Occurs(Endpoints(c), b) + One(src = b) + One(cow = b)
    BY <1>1, <1>2, <1>3, EndpointsAppend
  <2>2. /\ Count(T, b) \in Nat /\ Occurs(Endpoints(c), b) \in Nat
        /\ p.ref[b] = Count(T, b) + Occurs(Endpoints(c), b)
    BY ConsistentRefs DEF Consistent
  <2>3. h.ref[b] = p.ref[b] + One(src = b) + One(cow = b)
    BY <1>2, <1>4, <1>6, <2>2 DEF One
  <2> HIDE DEF d
  <2>4. One(src = b) \in Nat /\ One(cow = b) \in Nat
    BY DEF One
  <2> QED BY <2>1, <2>2, <2>3, <2>4
<1>9. Consistent(h, T, d)
  BY <1>1, <1>6, <1>7, <1>8 DEF Consistent
<1> QED BY <1>9 DEF h, m, g

----------------------------------------------------------------------------
(* The invariant and what it implies.                                      *)

\* The parts of the invariant are the properties of the runs.
LEMMA IInvImplies ==
    IInv => /\ TypeOK /\ TablesUnique /\ FreeIsUnreferenced
            /\ IndexAgrees /\ RefsAccounted
<1> SUFFICES ASSUME IInv
             PROVE  /\ TypeOK /\ TablesUnique /\ FreeIsUnreferenced
                    /\ IndexAgrees /\ RefsAccounted
  OBVIOUS
<1>1. Consistent(pool, table, copies)
  BY DEF IInv
<1>2. pool.ref \in [Blocks -> Nat]
  BY <1>1, ConsistentRefs
<1>3. TypeOK
  BY <1>1, <1>2 DEF Consistent, PoolRecord, PoolTypeOK, TypeOK
<1>4. RefsAccounted
  BY <1>1 DEF Consistent, RefsAccounted, Holds, Count
<1> QED BY <1>1, <1>3, <1>4
        DEF Consistent, TablesUnique, FreeIsUnreferenced, IndexAgrees

\* The initial state.
LEMMA IInvInit == Init => IInv
<1> SUFFICES ASSUME Init PROVE Consistent(pool, table, copies)
  BY DEF IInv
<1>1. /\ pool = PoolInit /\ copies = << >>
      /\ table = [r \in Requests |-> << >>]
  BY DEF Init
<1>2. Range(<< >>) = {} /\ Unique(<< >>)
  BY DEF Range, Unique
<1>3. \A b \in Blocks : Count(table, b) = 0 /\ Occurs(Endpoints(copies), b) = 0
  <2>1. \A b \in Blocks : {r \in Requests : b \in Range(table[r])} = {}
    BY <1>1, <1>2
  <2>2. DOMAIN Endpoints(copies) = {}
    BY <1>1 DEF Endpoints
  <2>3. \A b : {i \in DOMAIN Endpoints(copies) : Endpoints(copies)[i] = b} = {}
    BY <2>2
  <2> QED BY <2>1, <2>3, FS_EmptySet DEF Count, Occurs
<1>4. table \in [Requests -> Seq(Blocks)] /\ \A r \in Requests : Unique(table[r])
  BY <1>1, <1>2
<1>5. copies \in Seq(Blocks \X Blocks)
  BY <1>1
<1>6. \A b \in Blocks : pool.ref[b] = Count(table, b) + Occurs(Endpoints(copies), b)
  BY <1>1, <1>3, PoolInitProperties
<1> QED BY <1>1, <1>4, <1>5, <1>6, PoolInitProperties DEF Consistent

\* Every operation of a manager keeps the invariant.
LEMMA IInvStep == IInv /\ [Next]_vars => IInv'
<1> SUFFICES ASSUME Consistent(pool, table, copies), [Next]_vars
             PROVE  Consistent(pool', table', copies')
  BY DEF IInv
<1>0. /\ pool \in PoolRecord /\ CacheIndexExact(pool)
      /\ table \in [Requests -> Seq(Blocks)]
  BY DEF Consistent
<1>1. \A r \in Requests : \A i \in DOMAIN table[r] : table[r][i] \in Blocks
  BY <1>0, ElementOfSeq, LenProperties
<1>2. ASSUME NEW r \in Requests, NEW n \in 1 .. 2, AllocateNewBlocks(r, n)
      PROVE  Consistent(pool', table', copies')
  <2>1. /\ CanGetNewBlocks(pool, n) /\ n \in Nat
        /\ pool' = GetNewBlocks(pool, n)
        /\ table' = [table EXCEPT ![r] = @ \o NewBlocks(pool, n)]
        /\ copies' = copies
    BY <1>2 DEF AllocateNewBlocks
  <2>2. Consistent(GetNewBlocks(pool, n),
                   [table EXCEPT ![r] = @ \o NewBlocks(pool, n)], copies)
    BY <2>1, ConsistentAllocate
  <2> QED BY <2>1, <2>2
<1>3. ASSUME NEW r \in Requests, NEW k \in Keys, AddLocalComputedBlock(r, k)
      PROVE  Consistent(pool', table', copies')
  <2> DEFINE x == GetOneBlock(pool, k)
  <2>1. x \in Blocks
    <3>1. pool.cached[k] \in Seq(Blocks) /\ pool.cached[k] # << >>
      BY <1>0, <1>3 DEF PoolRecord, AddLocalComputedBlock, IsCached
    <3> QED BY <3>1, HeadTailProperties DEF GetOneBlock
  <2>2. /\ x \notin Range(table[r])
        /\ pool' = Touch(pool, {x})
        /\ table' = [table EXCEPT ![r] = Append(@, x)]
        /\ copies' = copies
    BY <1>3 DEF AddLocalComputedBlock
  <2> HIDE DEF x
  <2> QED BY <2>1, <2>2, ConsistentHit
<1>4. ASSUME NEW r \in Requests, NEW i \in DOMAIN table[r], NEW k \in Keys,
             CacheFull(r, i, k)
      PROVE  Consistent(pool', table', copies')
  <2>1. /\ pool' = CacheFullBlocks(pool, << table[r][i] >>, << k >>)
        /\ table' = table /\ copies' = copies
    BY <1>4 DEF CacheFull
  <2>2. /\ pool' \in PoolRecord /\ pool'.free = pool.free /\ pool'.ref = pool.ref
        /\ CacheIndexExact(pool')
    BY <1>0, <1>1, <2>1, CacheFullBlockProperties
  <2> QED BY <2>1, <2>2, ConsistentCache
<1>5. ASSUME NEW r \in Requests, NEW i \in DOMAIN table[r], NEW k \in Keys,
             CachePartial(r, i, k)
      PROVE  Consistent(pool', table', copies')
  <2>1. /\ pool' = CachePartialBlock(pool, table[r][i], k)
        /\ table' = table /\ copies' = copies
    BY <1>5 DEF CachePartial
  <2>2. /\ pool' \in PoolRecord /\ pool'.free = pool.free /\ pool'.ref = pool.ref
        /\ CacheIndexExact(pool')
    BY <1>0, <1>1, <2>1, CachePartialBlockProperties
  <2> QED BY <2>1, <2>2, ConsistentCache
<1>6. ASSUME NEW r \in Requests, NEW i \in DOMAIN table[r], CopyOnWrite(r, i)
      PROVE  Consistent(pool', table', copies')
  <2> DEFINE src == table[r][i]
             cow == NewBlocks(pool, 1)[1]
  <2>1. /\ CanGetNewBlocks(pool, 1)
        /\ pool' = Touch(GetNewBlocks(pool, 1), {cow})
        /\ table' = [table EXCEPT ![r][i] = cow]
        /\ copies' = Append(copies, << src, cow >>)
    BY <1>6 DEF CopyOnWrite
  <2>2. src = table[r][i] /\ cow = NewBlocks(pool, 1)[1]
    OBVIOUS
  <2> HIDE DEF src, cow
  <2>3. Consistent(Touch(GetNewBlocks(pool, 1), {cow}),
                   [table EXCEPT ![r][i] = cow], Append(copies, << src, cow >>))
    BY <2>1, <2>2, ConsistentCopyOnWrite
  <2> QED BY <2>1, <2>3
<1>7. ASSUME NEW r \in Requests, NEW i \in DOMAIN table[r], CopyAndMove(r, i)
      PROVE  Consistent(pool', table', copies')
  BY <1>7, ConsistentCopyAndMove DEF CopyAndMove
<1>8. ASSUME NEW r \in Requests, Free(r)
      PROVE  Consistent(pool', table', copies')
  BY <1>8, ConsistentFree DEF Free
<1>9. ASSUME TakeBlockCopies
      PROVE  Consistent(pool', table', copies')
  BY <1>9, ConsistentCopied DEF TakeBlockCopies
<1>10. ASSUME NEW b \in Blocks, Evict(b)
       PROVE  Consistent(pool', table', copies')
  <2>1. pool' = RemoveHashes(pool, {b}) /\ table' = table /\ copies' = copies
    BY <1>10 DEF Evict, EvictBlocks
  <2>2. /\ pool' \in PoolRecord /\ pool'.free = pool.free /\ pool'.ref = pool.ref
        /\ CacheIndexExact(pool')
    BY <1>0, <2>1, RemoveHashesProperties
  <2> QED BY <2>1, <2>2, ConsistentCache
<1>11. ASSUME Reset
       PROVE  Consistent(pool', table', copies')
  <2>1. pool' = ResetPrefixCache(pool) /\ table' = table /\ copies' = copies
    BY <1>11 DEF Reset
  <2>2. /\ pool' \in PoolRecord /\ pool'.free = pool.free /\ pool'.ref = pool.ref
        /\ CacheIndexExact(pool')
    BY <1>0, <2>1, ResetProperties
  <2> QED BY <2>1, <2>2, ConsistentCache
<1>12. CASE UNCHANGED vars
  BY <1>12 DEF vars
<1> QED BY <1>2, <1>3, <1>4, <1>5, <1>6, <1>7, <1>8, <1>9, <1>10, <1>11, <1>12
        DEF Next

\* IInv holds in every reachable state.
LEMMA IInvInvariant == Spec => []IInv
BY IInvInit, IInvStep, PTL DEF Spec

\* Types, and with them that no reference count of the pool ever gets negative
\* (touch, free_blocks).
THEOREM TypeCorrect == Spec => []TypeOK
<1>1. IInv => TypeOK
  BY IInvImplies
<1> QED BY <1>1, IInvInvariant, PTL

\* The free queue is exactly the unreferenced blocks, each once: a block is never
\* handed out while someone uses it, nor lost (free_block_queue and ref_cnt).
THEOREM FreeQueueCorrect == Spec => []FreeIsUnreferenced
<1>1. IInv => FreeIsUnreferenced
  BY IInvImplies
<1> QED BY <1>1, IInvInvariant, PTL

\* cached_block_hash_to_block and the keys of the blocks agree: no key leads to a
\* block that was evicted from it.
THEOREM IndexCorrect == Spec => []IndexAgrees
<1>1. IInv => IndexAgrees
  BY IInvImplies
<1> QED BY <1>1, IInvInvariant, PTL

\* Every reference is a table entry or an endpoint of a pending copy, and no
\* table names a block twice (touch, get_new_blocks, _apply_cow, free_blocks).
THEOREM RefsCorrect == Spec => [](TablesUnique /\ RefsAccounted)
<1>1. IInv => TablesUnique /\ RefsAccounted
  BY IInvImplies
<1> QED BY <1>1, IInvInvariant, PTL
=============================================================================
