---------------------------- MODULE SchedulerProofs ----------------------------
(***************************************************************************)
(* The safety invariants of Scheduler, for every pool, set of requests,    *)
(* prompts and configuration.                                              *)
(*                                                                         *)
(* ManagerOK says of the KV-cache manager what every call of it keeps, and *)
(* the first half of the module proves it for each call.  Around it, IInv  *)
(* says what the loops of schedule() and of update_from_output() rely on   *)
(* between two of their turns: the budgets that are left are those of the  *)
(* batch, a request is as far as its blocks, and a block that two requests *)
(* share was computed before it was shared.  Under FCFS, KVInv adds what   *)
(* the slots hold, and what the step being put together owes to them.      *)
(*                                                                         *)
(* Padding is the one thing that the configuration must grant: a padded    *)
(* decode keeps all its placeholder drafts (see PaddedWhole).              *)
(***************************************************************************)
EXTENDS Scheduler, BlockPoolLemmas

\* Division and multiplication by the block size.
LEMMA DivFacts ==
    ASSUME NEW a \in Nat, NEW b \in Nat \ {0}
    PROVE  /\ a \div b \in Nat /\ (a \div b) * b <= a /\ a < (a \div b) * b + b
  OBVIOUS
\* A multiple is a number, and multiplying keeps the order.
LEMMA MulMono ==
    ASSUME NEW i \in Nat, NEW j \in Nat, NEW b \in Nat \ {0}
    PROVE  /\ i * b \in Nat /\ (i <= j => i * b <= j * b)
  OBVIOUS
\* Multiples keep the order, and the next one is one more.
LEMMA MulOrder ==
    ASSUME NEW i \in Nat, NEW j \in Nat, NEW b \in Nat \ {0}
    PROVE  /\ i * b <= j * b => i <= j
           /\ i < j => i * b + b <= j * b
           /\ (i + 1) * b = i * b + b
  OBVIOUS

----------------------------------------------------------------------------
(* Keys.                                                                   *)

\* Block i of a request is within the maximal length: its key is defined.
Keyed(i) == i \in Nat \ {0} /\ i * BlockSize <= MaxModelLen

\* The blocks that have a key are those within the maximal length.
LEMMA KeyedIs == \A i : Keyed(i) <=> i \in 1 .. MaxModelLen \div BlockSize
<1>1. BlockSize \in Nat \ {0} /\ MaxModelLen \in Nat
  BY KVCacheManagerAssumption
<1> DEFINE M == MaxModelLen \div BlockSize
<1>2. M \in Nat /\ M * BlockSize <= MaxModelLen /\ MaxModelLen < M * BlockSize + BlockSize
  BY <1>1, DivFacts
<1> HIDE DEF M
<1>3. ASSUME NEW i \in Nat
      PROVE  /\ i * BlockSize \in Nat /\ M * BlockSize \in Nat
             /\ i <= M => i * BlockSize <= M * BlockSize
             /\ M < i => M * BlockSize + BlockSize <= i * BlockSize
  BY <1>1, <1>2, MulMono, MulOrder
<1>4. ASSUME NEW i \in Nat PROVE i * BlockSize <= MaxModelLen <=> i <= M
  BY <1>1, <1>2, <1>3, <1>4
<1> QED BY <1>2, <1>4 DEF Keyed, M

\* The key of a block is a key, and the blocks before it have one.
LEMMA KeyFacts ==
    ASSUME NEW r \in Requests, NEW i, Keyed(i)
    PROVE  /\ BlockKey(r, i) \in Keys /\ BlockKey(r, i) # NoKey
           /\ i * BlockSize \in DOMAIN Prefix[r]
           /\ \A j \in 1 .. i : Keyed(j)
<1>1. BlockSize \in Nat \ {0} /\ MaxModelLen \in Nat
  BY KVCacheManagerAssumption
<1>2. Prefix[r] \in Seq(Keys) /\ Len(Prefix[r]) = MaxModelLen
  BY KVCacheManagerAssumption, SchedulerAssumption
<1>3. PICK q \in Seq(Keys) : q = Prefix[r]
  BY <1>2
<1>4. DOMAIN q = 1 .. MaxModelLen /\ \A p \in 1 .. MaxModelLen : q[p] \in Keys
  BY <1>2, <1>3
<1>5. i * BlockSize \in 1 .. MaxModelLen
  <2>1. i * BlockSize \in Nat /\ 1 * BlockSize <= i * BlockSize
    BY <1>1, MulMono DEF Keyed
  <2> QED BY <1>1, <2>1 DEF Keyed
<1>6. ASSUME NEW j \in 1 .. i PROVE Keyed(j)
  <2>1. j * BlockSize \in Nat /\ i * BlockSize \in Nat /\ j * BlockSize <= i * BlockSize
    BY <1>1, MulMono DEF Keyed
  <2> QED BY <1>1, <2>1 DEF Keyed
<1> QED BY <1>3, <1>4, <1>5, <1>6, BlockPoolAssumption DEF BlockKey

\* Two blocks with one key have one index and one prefix: block hashes are
\* chained (PrefixAssumption).
LEMMA SameKey ==
    ASSUME NEW r \in Requests, NEW s \in Requests, NEW i, NEW j, Keyed(i), Keyed(j),
           BlockKey(r, i) = BlockKey(s, j)
    PROVE  /\ i = j
           /\ \A p \in 1 .. i * BlockSize : Prefix[r][p] = Prefix[s][p]
           /\ \A k \in 1 .. i : BlockKey(r, k) = BlockKey(s, k)
<1>1. BlockSize \in Nat \ {0} /\ MaxModelLen \in Nat
  BY KVCacheManagerAssumption
<1>2. i * BlockSize \in DOMAIN Prefix[r] /\ j * BlockSize \in DOMAIN Prefix[s]
  BY KeyFacts
<1>3. i * BlockSize = j * BlockSize /\ \A p \in 1 .. i * BlockSize : Prefix[r][p] = Prefix[s][p]
  BY <1>2, PrefixAssumption DEF BlockKey
<1>4. i = j
  BY <1>1, <1>3, MulOrder DEF Keyed
<1>5. ASSUME NEW k \in 1 .. i PROVE BlockKey(r, k) = BlockKey(s, k)
  <2>1. k * BlockSize \in Nat /\ i * BlockSize \in Nat /\ k * BlockSize <= i * BlockSize
        /\ 1 * BlockSize <= k * BlockSize
    BY <1>1, MulMono DEF Keyed
  <2> QED BY <1>1, <1>3, <2>1 DEF BlockKey
<1> QED BY <1>3, <1>4, <1>5

----------------------------------------------------------------------------
(* The manager's blocks.                                                   *)

\* The requests that hold block b.
Holders(T, b) == {r \in Requests : b \in Range(T[r])}

Tables(T, n) ==
    /\ T \in [Requests -> Seq(Blocks)] /\ n \in [Requests -> Nat]
    /\ \A r \in Requests :
          Unique(T[r]) /\ n[r] <= Len(T[r]) /\ n[r] * BlockSize <= MaxModelLen

\* What the keys of the blocks of a request are: up to numCached those of its
\* prefixes, and none beyond, where no other request has the block.
Labelled(p, T, n) ==
    /\ \A b \in Blocks : p.more[b] = {}
    /\ \A r \in Requests : \A i \in 1 .. Len(T[r]) :
          IF i <= n[r] THEN p.hash[T[r][i]] = BlockKey(r, i)
          ELSE p.hash[T[r][i]] = NoKey /\ Holders(T, T[r][i]) = {r}

\* A cached block has a block of the next shorter prefix behind it: in use, or in
\* the free queue after it.
Outlives(p, b, c) == p.ref[c] # 0 \/ (p.ref[b] = 0 /\ Precedes(p.free, b, c))
Chained(p) ==
    \A b \in Blocks, r \in Requests, i \in 2 .. MaxModelLen \div BlockSize :
        p.hash[b] = BlockKey(r, i) =>
            \E c \in Blocks : p.hash[c] = BlockKey(r, i - 1) /\ Outlives(p, b, c)

Counted(p, T) == \A b \in Blocks : p.ref[b] = Cardinality(Holders(T, b))

Held(p, T, n) ==
    /\ p \in PoolRecord /\ FreeQueueExact(p) /\ CacheIndexExact(p)
    /\ Tables(T, n) /\ Counted(p, T) /\ Labelled(p, T, n) /\ Chained(p)

\* The requests that hold a block are finitely many.
LEMMA HoldersType ==
    ASSUME NEW T, NEW b
    PROVE  /\ IsFiniteSet(Holders(T, b)) /\ Cardinality(Holders(T, b)) \in Nat
           /\ Cardinality(Holders(T, b)) = 0 <=> Holders(T, b) = {}
<1>1. IsFiniteSet(Holders(T, b))
  BY KVCacheManagerAssumption, FS_Subset DEF Holders
<1> HIDE DEF Holders
<1> QED BY <1>1, FS_CardinalityType, FS_EmptySet

\* Of two sets of tables, only the one of r may differ.
OnlyTable(T, U, r) == r \in Requests /\ \A s \in Requests \ {r} : U[s] = T[s]

\* When the table of r changes, the count of a block changes by r alone.
LEMMA HoldersChange ==
    ASSUME NEW T, NEW U, NEW b, NEW r, OnlyTable(T, U, r)
    PROVE  /\ b \in Range(U[r]) => Holders(U, b) = Holders(T, b) \cup {r}
           /\ b \notin Range(U[r]) => Holders(U, b) = Holders(T, b) \ {r}
           /\ (b \in Range(U[r]) <=> b \in Range(T[r])) => Holders(U, b) = Holders(T, b)
           /\ Cardinality(Holders(U, b)) =
                 Cardinality(Holders(T, b)) + (IF b \in Range(U[r]) THEN 1 ELSE 0)
                                            - (IF b \in Range(T[r]) THEN 1 ELSE 0)
<1> DEFINE H == Holders(T, b)
           G == Holders(U, b)
<1>1. /\ b \in Range(U[r]) => G = H \cup {r}
      /\ b \notin Range(U[r]) => G = H \ {r}
      /\ r \in H <=> b \in Range(T[r])
  BY DEF Holders, OnlyTable
<1>2. IsFiniteSet(H)
  BY HoldersType
<1> HIDE DEF H, G
<1>3. /\ Cardinality(H \cup {r}) = IF r \in H THEN Cardinality(H) ELSE Cardinality(H) + 1
      /\ Cardinality(H \ {r}) = IF r \in H THEN Cardinality(H) - 1 ELSE Cardinality(H)
  BY <1>2, FS_AddElement, FS_RemoveElement
<1>4. (b \in Range(U[r]) <=> b \in Range(T[r])) => G = H
  BY <1>1
<1>5. Cardinality(G) = Cardinality(H) + (IF b \in Range(U[r]) THEN 1 ELSE 0)
                                      - (IF b \in Range(T[r]) THEN 1 ELSE 0)
  <2>1. Cardinality(H) \in Nat
    BY HoldersType DEF H
  <2>2. r \in H <=> b \in Range(T[r])
    BY <1>1
  <2>3. CASE b \in Range(U[r]) /\ b \notin Range(T[r])
    <3>1. Cardinality(G) = Cardinality(H \cup {r})
      BY <1>1, <2>3
    <3> QED BY <1>3, <2>1, <2>2, <2>3, <3>1
  <2>4. CASE b \notin Range(U[r]) /\ b \in Range(T[r])
    <3>1. Cardinality(G) = Cardinality(H \ {r})
      BY <1>1, <2>4
    <3> QED BY <1>3, <2>1, <2>2, <2>4, <3>1
  <2>5. CASE b \in Range(U[r]) <=> b \in Range(T[r])
    BY <1>4, <2>1, <2>5
  <2> QED BY <2>3, <2>4, <2>5
<1> QED BY <1>1, <1>4, <1>5 DEF G, H

\* The references and the lengths.
LEMMA HeldFacts ==
    ASSUME NEW p, NEW T, NEW n, Held(p, T, n)
    PROVE  /\ p.ref \in [Blocks -> Nat]
           /\ \A b \in Blocks : p.ref[b] = 0 <=> \A r \in Requests : b \notin Range(T[r])
           /\ \A r \in Requests :
                 /\ Len(T[r]) \in Nat /\ DOMAIN T[r] = 1 .. Len(T[r]) /\ n[r] \in Nat
                 /\ n[r] <= Len(T[r]) /\ T[r] \in Seq(Blocks) /\ Unique(T[r])
                 /\ n[r] * BlockSize <= MaxModelLen
                 /\ \A i \in 1 .. Len(T[r]) : T[r][i] \in Blocks /\ T[r][i] \in Range(T[r])
<1>1. /\ p \in PoolRecord /\ T \in [Requests -> Seq(Blocks)] /\ n \in [Requests -> Nat]
      /\ \A r \in Requests : Unique(T[r]) /\ n[r] <= Len(T[r]) /\ n[r] * BlockSize <= MaxModelLen
      /\ \A b \in Blocks : p.ref[b] = Cardinality(Holders(T, b))
  BY DEF Held, Tables, Counted
<1>2. \A b \in Blocks : p.ref[b] \in Nat /\ (p.ref[b] = 0 <=> Holders(T, b) = {})
  BY <1>1, HoldersType
<1>3. p.ref \in [Blocks -> Nat]
  BY <1>1, <1>2 DEF PoolRecord
<1>4. \A b \in Blocks : p.ref[b] = 0 <=> \A r \in Requests : b \notin Range(T[r])
  BY <1>2 DEF Holders
<1>5. ASSUME NEW r \in Requests
      PROVE  /\ Len(T[r]) \in Nat /\ DOMAIN T[r] = 1 .. Len(T[r]) /\ T[r] \in Seq(Blocks)
             /\ \A i \in 1 .. Len(T[r]) : T[r][i] \in Blocks /\ T[r][i] \in Range(T[r])
  <2>1. PICK q \in Seq(Blocks) : q = T[r]
    BY <1>1
  <2> QED BY <2>1 DEF Range
<1> QED BY <1>1, <1>3, <1>4, <1>5

\* Block i of a table: its reference, its key, who holds it.
LEMMA BlockHeld ==
    ASSUME NEW p, NEW T, NEW n, Held(p, T, n)
    PROVE  \A r \in Requests : \A i \in 1 .. Len(T[r]) :
              T[r][i] \in Blocks /\ T[r][i] \in Range(T[r]) /\ p.ref[T[r][i]] # 0
<1>1. \A r \in Requests : \A i \in 1 .. Len(T[r]) : T[r][i] \in Blocks /\ T[r][i] \in Range(T[r])
  BY HeldFacts
<1>2. \A b \in Blocks : p.ref[b] = 0 <=> \A s \in Requests : b \notin Range(T[s])
  BY HeldFacts
<1> QED BY <1>1, <1>2

\* A block a request has cached is under the key of its prefix.
LEMMA BlockKeyed ==
    ASSUME NEW p, NEW T, NEW n, Held(p, T, n)
    PROVE  \A r \in Requests : \A i \in 1 .. Len(T[r]) :
              i <= n[r] => p.hash[T[r][i]] = BlockKey(r, i) /\ Keyed(i)
<1> SUFFICES ASSUME NEW r \in Requests, NEW i \in 1 .. Len(T[r]), i <= n[r]
             PROVE  p.hash[T[r][i]] = BlockKey(r, i) /\ Keyed(i)
  OBVIOUS
<1>1. n[r] \in Nat /\ n[r] * BlockSize <= MaxModelLen /\ Len(T[r]) \in Nat
  BY HeldFacts
<1>2. p.hash[T[r][i]] = BlockKey(r, i)
  BY DEF Held, Labelled
<1>3. BlockSize \in Nat \ {0} /\ MaxModelLen \in Nat
  BY KVCacheManagerAssumption
<1>4. i * BlockSize \in Nat /\ n[r] * BlockSize \in Nat /\ i * BlockSize <= n[r] * BlockSize
  BY <1>1, <1>3, MulMono
<1> QED BY <1>1, <1>2, <1>3, <1>4 DEF Keyed

\* A block a request has not cached yet has no key and no other holder.
LEMMA BlockUnkeyed ==
    ASSUME NEW p, NEW T, NEW n, Held(p, T, n)
    PROVE  \A r \in Requests : \A i \in 1 .. Len(T[r]) :
              i > n[r] => p.hash[T[r][i]] = NoKey /\ Holders(T, T[r][i]) = {r}
<1> SUFFICES ASSUME NEW r \in Requests, NEW i \in 1 .. Len(T[r]), i > n[r]
             PROVE  p.hash[T[r][i]] = NoKey /\ Holders(T, T[r][i]) = {r}
  OBVIOUS
<1>1. n[r] \in Nat /\ Len(T[r]) \in Nat
  BY HeldFacts
<1>2. IF i <= n[r] THEN p.hash[T[r][i]] = BlockKey(r, i)
      ELSE p.hash[T[r][i]] = NoKey /\ Holders(T, T[r][i]) = {r}
  BY DEF Held, Labelled
<1> QED BY <1>1, <1>2

\* A block in a table under a key is at the index of that key, and cached.
LEMMA BlockIndex ==
    ASSUME NEW p, NEW T, NEW n, Held(p, T, n)
    PROVE  \A r, s \in Requests : \A i \in 1 .. Len(T[r]) : \A j \in 1 .. MaxModelLen \div BlockSize :
              p.hash[T[r][i]] = BlockKey(s, j) => i = j /\ i <= n[r]
<1> SUFFICES ASSUME NEW r \in Requests, NEW i \in 1 .. Len(T[r]),
                    NEW s \in Requests, NEW j \in 1 .. MaxModelLen \div BlockSize,
                    p.hash[T[r][i]] = BlockKey(s, j)
             PROVE  i = j /\ i <= n[r]
  OBVIOUS
<1>1. n[r] \in Nat /\ Len(T[r]) \in Nat
  BY HeldFacts
<1>2. Keyed(j)
  BY KeyedIs
<1>3. BlockKey(s, j) # NoKey
  BY <1>2, KeyFacts
<1>4. i <= n[r]
  BY <1>1, <1>3, BlockUnkeyed
<1>5. p.hash[T[r][i]] = BlockKey(r, i) /\ Keyed(i)
  BY <1>4, BlockKeyed
<1>6. Keyed(i)
  BY <1>5
<1>7. BlockKey(r, i) = BlockKey(s, j)
  BY <1>5
<1>8. i = j
  BY <1>2, <1>6, <1>7, SameKey
<1> QED BY <1>4, <1>8

\* SubSeq as a function.
LEMMA SubSeqIs ==
    ASSUME NEW B, NEW q \in Seq(B), NEW a \in Nat, NEW k \in Nat, a <= k, k <= Len(q)
    PROVE  SubSeq(q, a + 1, k) = [i \in 1 .. k - a |-> q[a + i]]
<1>1. Len(q) \in Nat /\ DOMAIN q = 1 .. Len(q)
  BY LenProperties
<1>2. SubSeq(q, a + 1, k) = [i \in 1 .. 1 + k - (a + 1) |-> q[i + (a + 1) - 1]]
  BY <1>1
<1> QED BY <1>1, <1>2

\* Taking the hits h: touched, and the head of the empty table of r.
LEMMA AdoptHits ==
    ASSUME NEW p, NEW T, NEW n, Held(p, T, n), NEW r \in Requests,
           NEW h \in Seq(Blocks), h # << >> => T[r] = << >>,
           \A i \in 1 .. Len(h) : Keyed(i) /\ p.hash[h[i]] = BlockKey(r, i)
    PROVE  /\ Unique(h)
           /\ Held(Touch(p, Range(h)), [T EXCEPT ![r] = @ \o h],
                   [n EXCEPT ![r] = IF h = << >> THEN @ ELSE Len(h)])
<1> DEFINE g == Touch(p, Range(h))
           t == T[r] \o h
           U == [T EXCEPT ![r] = t]
           m == [n EXCEPT ![r] = IF h = << >> THEN @ ELSE Len(h)]
<1>1. /\ p \in PoolRecord /\ FreeQueueExact(p) /\ CacheIndexExact(p) /\ Chained(p)
      /\ T \in [Requests -> Seq(Blocks)] /\ n \in [Requests -> Nat]
      /\ \A s \in Requests : Unique(T[s]) /\ n[s] * BlockSize <= MaxModelLen
      /\ \A b \in Blocks : p.more[b] = {} /\ p.ref[b] = Cardinality(Holders(T, b))
  BY DEF Held, Tables, Labelled, Counted
<1>2. /\ p.ref \in [Blocks -> Nat]
      /\ \A b \in Blocks : p.ref[b] = 0 <=> \A s \in Requests : b \notin Range(T[s])
  BY HeldFacts
<1>3. /\ Len(h) \in Nat /\ DOMAIN h = 1 .. Len(h)
      /\ \A i \in 1 .. Len(h) : h[i] \in Blocks /\ h[i] \in Range(h)
      /\ h = << >> <=> Len(h) = 0
      /\ \A x \in Range(h) : h # << >>
  BY DEF Range
<1>4. Unique(h)
  <2>1. ASSUME NEW i \in 1 .. Len(h), NEW j \in 1 .. Len(h), h[i] = h[j] PROVE i = j
    <3>1. Keyed(i) /\ Keyed(j) /\ BlockKey(r, i) = BlockKey(r, j)
      BY <2>1
    <3> QED BY <3>1, SameKey
  <2> QED BY <1>3, <2>1 DEF Unique
<1>5. /\ g \in PoolRecord /\ FreeQueueExact(g) /\ CacheIndexExact(g)
      /\ g.ref = [b \in Blocks |-> IF b \in Range(h) THEN p.ref[b] + 1 ELSE p.ref[b]]
      /\ g.hash = p.hash /\ g.more = p.more
      /\ \A x, y \in Blocks : Precedes(p.free, x, y) /\ x \notin Range(h) /\ y \notin Range(h)
                                 => Precedes(g.free, x, y)
  BY <1>1, <1>2, TouchProperties, TouchKeeps
<1> HIDE DEF g
<1>6. /\ t \in Seq(Blocks) /\ Range(t) = Range(T[r]) \cup Range(h)
      /\ Unique(t)
      /\ h = << >> => t = T[r]
      /\ h # << >> => t = h /\ T[r] = << >> /\ Range(T[r]) = {}
  <2>1. PICK q \in Seq(Blocks) : q = T[r]
    BY <1>1
  <2>2. q \o h \in Seq(Blocks) /\ Range(q \o h) = Range(q) \cup Range(h)
    BY <2>1, ConcatUnique
  <2>3. h = << >> => q \o h = q
    OBVIOUS
  <2>4. h # << >> => q \o h = h /\ q = << >> /\ Range(q) = {}
    BY <2>1 DEF Range
  <2> QED BY <1>1, <1>4, <2>1, <2>2, <2>3, <2>4
<1> HIDE DEF t
<1>7. /\ U \in [Requests -> Seq(Blocks)] /\ m \in [Requests -> Nat]
      /\ \A s \in Requests : s # r => U[s] = T[s] /\ m[s] = n[s]
      /\ U[r] = t /\ m[r] = IF h = << >> THEN n[r] ELSE Len(h)
  BY <1>1, <1>3, <1>6
<1>8. Tables(U, m)
  <2>1. \A s \in Requests : n[s] <= Len(T[s])
    BY DEF Held, Tables
  <2>2. h # << >> => Len(h) * BlockSize <= MaxModelLen
    <3>1. h # << >> => Len(h) \in 1 .. Len(h)
      BY <1>3
    <3> QED BY <3>1 DEF Keyed
  <2>3. ASSUME NEW s \in Requests
        PROVE  Unique(U[s]) /\ m[s] <= Len(U[s]) /\ m[s] * BlockSize <= MaxModelLen
    <3> HIDE DEF U, m
    <3>1. Unique(U[s])
      BY <1>1, <1>6, <1>7
    <3>2. CASE s = r /\ h # << >>
      BY <1>3, <1>6, <1>7, <2>2, <3>1, <3>2
    <3>3. CASE ~(s = r /\ h # << >>)
      BY <1>1, <1>6, <1>7, <2>1, <3>1, <3>3
    <3> QED BY <3>2, <3>3
  <2> QED BY <1>7, <2>3 DEF Tables
<1>9. \A b \in Blocks : g.ref[b] = Cardinality(Holders(U, b))
  <2> SUFFICES ASSUME NEW b \in Blocks PROVE g.ref[b] = Cardinality(Holders(U, b))
    OBVIOUS
  <2>1. p.ref[b] = Cardinality(Holders(T, b)) /\ g.ref[b] = IF b \in Range(h) THEN p.ref[b] + 1 ELSE p.ref[b]
    BY <1>1, <1>5
  <2> HIDE DEF U
  <2>2. Cardinality(Holders(U, b)) =
          Cardinality(Holders(T, b)) + (IF b \in Range(t) THEN 1 ELSE 0)
                                     - (IF b \in Range(T[r]) THEN 1 ELSE 0)
    <3>1. U[r] = t /\ OnlyTable(T, U, r)
      BY <1>7 DEF OnlyTable
    <3>2. Cardinality(Holders(U, b)) =
             Cardinality(Holders(T, b)) + (IF b \in Range(U[r]) THEN 1 ELSE 0)
                                        - (IF b \in Range(T[r]) THEN 1 ELSE 0)
      BY ONLY <3>1, HoldersChange
    <3> QED BY <3>1, <3>2
  <2>3. b \in Range(h) => b \notin Range(T[r])
    BY <1>3, <1>6
  <2>4. Cardinality(Holders(T, b)) \in Nat
    BY HoldersType
  <2> QED BY <1>6, <2>1, <2>2, <2>3, <2>4
<1>10. ASSUME NEW s \in Requests, NEW i \in 1 .. Len(U[s])
       PROVE  IF i <= m[s] THEN g.hash[U[s][i]] = BlockKey(s, i)
              ELSE g.hash[U[s][i]] = NoKey /\ Holders(U, U[s][i]) = {s}
  <2>1. CASE s = r /\ h # << >>
    BY <1>3, <1>5, <1>6, <1>7, <2>1
  <2>2. CASE ~(s = r /\ h # << >>)
    <3>1. U[s] = T[s] /\ m[s] = n[s]
      BY <1>6, <1>7, <2>2
    <3>2. IF i <= n[s] THEN p.hash[T[s][i]] = BlockKey(s, i)
          ELSE p.hash[T[s][i]] = NoKey /\ Holders(T, T[s][i]) = {s}
      BY <3>1 DEF Held, Labelled
    <3>3. CASE i <= m[s]
      BY <1>5, <3>1, <3>2, <3>3
    <3>4. CASE ~(i <= m[s])
      <4> DEFINE b == T[s][i]
      <4>1. p.hash[b] = NoKey /\ Holders(T, b) = {s}
        BY <3>1, <3>2, <3>4
      <4>2. b \notin Range(h)
        <5>1. \A j \in 1 .. Len(h) : p.hash[h[j]] # NoKey
          BY KeyFacts
        <5> QED BY <1>3, <4>1, <5>1 DEF Range
      <4>3. Holders(U, b) = Holders(T, b)
        <5> HIDE DEF U, b
        <5>1. b \in Range(t) <=> b \in Range(T[r])
          BY <1>6, <4>2
        <5>2. OnlyTable(T, U, r)
          BY <1>7 DEF OnlyTable
        <5> QED BY <1>7, <5>1, <5>2, HoldersChange
      <4> QED BY <1>5, <3>1, <3>4, <4>1, <4>3
    <3> QED BY <3>3, <3>4
  <2> QED BY <2>1, <2>2
<1>11. Labelled(g, U, m)
  BY <1>1, <1>5, <1>10 DEF Labelled
<1>12. Chained(g)
  <2> SUFFICES ASSUME NEW b \in Blocks, NEW s \in Requests,
                      NEW i \in 2 .. MaxModelLen \div BlockSize,
                      g.hash[b] = BlockKey(s, i)
               PROVE  \E c \in Blocks : g.hash[c] = BlockKey(s, i - 1) /\ Outlives(g, b, c)
    BY DEF Chained
  <2>1. PICK c \in Blocks : p.hash[c] = BlockKey(s, i - 1) /\ Outlives(p, b, c)
    BY <1>1, <1>5 DEF Chained
  <2>2. p.ref[b] \in Nat /\ p.ref[c] \in Nat
    BY <1>2
  <2>3. CASE p.ref[c] # 0 \/ c \in Range(h)
    <3>1. g.ref[c] # 0
      BY <1>5, <2>2, <2>3
    <3> QED BY <1>5, <2>1, <3>1 DEF Outlives
  <2>4. CASE p.ref[c] = 0 /\ c \notin Range(h) /\ b \notin Range(h)
    <3>1. p.ref[b] = 0 /\ Precedes(p.free, b, c)
      BY <2>1, <2>4 DEF Outlives
    <3>2. g.ref[b] = 0 /\ Precedes(g.free, b, c)
      BY <1>5, <2>4, <3>1
    <3> QED BY <1>5, <2>1, <3>2 DEF Outlives
  <2>5. CASE b \in Range(h)
    <3>1. PICK j \in 1 .. Len(h) : b = h[j]
      BY <1>3, <2>5 DEF Range
    <3>2. Keyed(j) /\ Keyed(i) /\ BlockKey(r, j) = BlockKey(s, i)
      <4>1. Keyed(i)
        BY KeyedIs
      <4> QED BY <1>5, <3>1, <4>1
    <3>3. j = i /\ \A k \in 1 .. i : BlockKey(r, k) = BlockKey(s, k)
      BY <3>2, SameKey
    <3>4. i - 1 \in 1 .. i /\ i - 1 \in 1 .. Len(h)
      BY <3>1, <3>3
    <3>5. h[i - 1] \in Blocks /\ g.hash[h[i - 1]] = BlockKey(s, i - 1)
      BY <1>3, <1>5, <3>3, <3>4
    <3>6. g.ref[h[i - 1]] # 0
      <4>1. h[i - 1] \in Range(h) /\ p.ref[h[i - 1]] \in Nat
        BY <1>2, <1>3, <3>4
      <4> QED BY <1>5, <3>5, <4>1
    <3> QED BY <3>5, <3>6 DEF Outlives
  <2> QED BY <2>3, <2>4, <2>5
<1>13. Counted(g, U)
  BY <1>9 DEF Counted
<1> HIDE DEF U, m
<1>14. Held(g, U, m)
  BY <1>5, <1>8, <1>11, <1>12, <1>13 DEF Held
<1> QED BY <1>4, <1>14 DEF g, U, m, t

\* Taking k new blocks.
LEMMA GrowTable ==
    ASSUME NEW p, NEW T, NEW n, NEW r \in Requests, NEW k \in Nat,
           Held(p, T, n), CanGetNewBlocks(p, k)
    PROVE  LET got == NewBlocks(p, k)  g == GetNewBlocks(p, k) IN
           /\ Held(g, [T EXCEPT ![r] = @ \o got], n)
           /\ got \in Seq(Blocks) /\ Len(got) = k
           /\ \A b \in Range(got) : p.ref[b] = 0 /\ g.hash[b] = NoKey
           /\ \A b \in Blocks : b \notin Range(got) => g.hash[b] = p.hash[b] /\ g.ref[b] = p.ref[b]
<1> DEFINE g == GetNewBlocks(p, k)
           got == NewBlocks(p, k)
           t == T[r] \o got
           U == [T EXCEPT ![r] = t]
<1>1. /\ p \in PoolRecord /\ FreeQueueExact(p) /\ CacheIndexExact(p) /\ Chained(p)
      /\ T \in [Requests -> Seq(Blocks)] /\ n \in [Requests -> Nat]
      /\ \A s \in Requests : Unique(T[s]) /\ n[s] * BlockSize <= MaxModelLen
      /\ \A b \in Blocks : p.more[b] = {} /\ p.ref[b] = Cardinality(Holders(T, b))
  BY DEF Held, Tables, Labelled, Counted
<1>2. /\ p.ref \in [Blocks -> Nat]
      /\ \A b \in Blocks : p.ref[b] = 0 <=> \A s \in Requests : b \notin Range(T[s])
  BY HeldFacts
<1>3. /\ got \in Seq(Blocks) /\ Len(got) = k /\ Unique(got)
      /\ \A b \in Range(got) : p.ref[b] = 0
      /\ g \in PoolRecord /\ FreeQueueExact(g) /\ CacheIndexExact(g)
      /\ g.ref = [b \in Blocks |-> IF b \in Range(got) THEN p.ref[b] + 1 ELSE p.ref[b]]
  BY <1>1, GetNewBlocksProperties
<1>4. /\ \A b \in Blocks : /\ b \in Range(got) => g.hash[b] = NoKey /\ g.more[b] = {}
                           /\ b \notin Range(got) => g.hash[b] = p.hash[b] /\ g.more[b] = p.more[b]
      /\ \A x, y \in Blocks : Precedes(p.free, x, y) /\ x \notin Range(got)
           => Precedes(g.free, x, y) /\ y \notin Range(got)
  BY <1>1, GetNewBlocksKeeps
<1> HIDE DEF g, got
<1>5. Range(got) \subseteq Blocks /\ \A s \in Requests, b \in Range(got) : b \notin Range(T[s])
  <2>1. Range(got) \subseteq Blocks
    BY <1>3 DEF Range
  <2> QED BY <1>2, <1>3, <2>1
<1>6. /\ t \in Seq(Blocks) /\ Range(t) = Range(T[r]) \cup Range(got)
      /\ Unique(t) /\ Len(t) = Len(T[r]) + k
      /\ \A i \in 1 .. Len(t) : /\ i <= Len(T[r]) => t[i] = T[r][i]
                                /\ i > Len(T[r]) => t[i] \in Range(got)
  <2>1. PICK q \in Seq(Blocks) : q = T[r]
    BY <1>1
  <2>2. q \o got \in Seq(Blocks) /\ Range(q \o got) = Range(q) \cup Range(got)
    BY <1>3, <2>1, ConcatUnique
  <2>3. Unique(q \o got)
    <3>1. Unique(q) /\ Range(q) \cap Range(got) = {}
      BY <1>1, <1>5, <2>1
    <3> QED BY <1>3, <3>1, ConcatUnique
  <2>4. /\ Len(q \o got) = Len(q) + k
        /\ \A i \in 1 .. Len(q \o got) : /\ i <= Len(q) => (q \o got)[i] = q[i]
                                         /\ i > Len(q) => (q \o got)[i] \in Range(got)
    <3>1. PICK z \in Seq(Blocks) : z = got
      BY <1>3
    <3>2. Len(z) = k /\ Len(q \o z) = Len(q) + Len(z)
      BY <1>3, <3>1
    <3>3. ASSUME NEW i \in 1 .. Len(q \o z), i <= Len(q) PROVE (q \o z)[i] = q[i]
      BY <3>3
    <3>4. ASSUME NEW i \in 1 .. Len(q \o z), i > Len(q) PROVE (q \o z)[i] \in Range(z)
      <4>1. i - Len(q) \in DOMAIN z /\ (q \o z)[i] = z[i - Len(q)]
        BY <3>2, <3>4
      <4> QED BY <4>1 DEF Range
    <3> QED BY <3>1, <3>2, <3>3, <3>4
  <2> QED BY <2>1, <2>2, <2>3, <2>4
<1> HIDE DEF t
<1>7. /\ U \in [Requests -> Seq(Blocks)] /\ U[r] = t
      /\ \A s \in Requests \ {r} : U[s] = T[s]
  BY <1>1, <1>6
<1> HIDE DEF U
<1>8. Tables(U, n)
  <2>1. \A s \in Requests : n[s] <= Len(T[s]) /\ n[s] \in Nat /\ Len(T[s]) \in Nat
    BY HeldFacts
  <2>2. ASSUME NEW s \in Requests PROVE Unique(U[s]) /\ n[s] <= Len(U[s])
    <3>1. CASE s = r
      BY <1>6, <1>7, <2>1, <3>1
    <3>2. CASE s # r
      BY <1>1, <1>7, <2>1, <3>2
    <3> QED BY <3>1, <3>2
  <2> QED BY <1>1, <1>7, <2>2 DEF Tables
<1>9. Counted(g, U)
  <2> SUFFICES ASSUME NEW b \in Blocks PROVE g.ref[b] = Cardinality(Holders(U, b))
    BY DEF Counted
  <2>1. p.ref[b] = Cardinality(Holders(T, b)) /\ g.ref[b] = IF b \in Range(got) THEN p.ref[b] + 1 ELSE p.ref[b]
    BY <1>1, <1>3
  <2>2. Cardinality(Holders(U, b)) =
          Cardinality(Holders(T, b)) + (IF b \in Range(t) THEN 1 ELSE 0)
                                     - (IF b \in Range(T[r]) THEN 1 ELSE 0)
    <3>1. OnlyTable(T, U, r)
      BY <1>7 DEF OnlyTable
    <3>2. Cardinality(Holders(U, b)) =
            Cardinality(Holders(T, b)) + (IF b \in Range(U[r]) THEN 1 ELSE 0)
                                       - (IF b \in Range(T[r]) THEN 1 ELSE 0)
      BY ONLY <3>1, HoldersChange
    <3> QED BY <1>7, <3>2
  <2>3. Cardinality(Holders(T, b)) \in Nat
    BY HoldersType
  <2> QED BY <1>5, <1>6, <2>1, <2>2, <2>3
<1>10. ASSUME NEW s \in Requests, NEW i \in 1 .. Len(T[s])
       PROVE  /\ IF i <= n[s] THEN g.hash[T[s][i]] = BlockKey(s, i)
                 ELSE g.hash[T[s][i]] = NoKey /\ Holders(U, T[s][i]) = {s}
  <2> DEFINE b == T[s][i]
  <2>1. IF i <= n[s] THEN p.hash[b] = BlockKey(s, i)
        ELSE p.hash[b] = NoKey /\ Holders(T, b) = {s}
    BY DEF Held, Labelled
  <2>2. b \in Blocks /\ b \in Range(T[s])
    BY HeldFacts
  <2> HIDE DEF b
  <2>3. b \notin Range(got)
    BY <1>5, <2>2
  <2>4. Holders(U, b) = Holders(T, b)
    <3>1. b \in Range(U[r]) <=> b \in Range(T[r])
      BY <1>6, <1>7, <2>3
    <3>2. OnlyTable(T, U, r)
      BY <1>7 DEF OnlyTable
    <3> QED BY <3>1, <3>2, HoldersChange
  <2>5. g.hash[b] = p.hash[b]
    BY <1>4, <2>2, <2>3
  <2> QED BY <2>1, <2>4, <2>5 DEF b
<1>11. Labelled(g, U, n)
  <2>1. \A b \in Blocks : g.more[b] = {}
    BY <1>1, <1>4
  <2>2. ASSUME NEW s \in Requests, NEW i \in 1 .. Len(U[s])
        PROVE  IF i <= n[s] THEN g.hash[U[s][i]] = BlockKey(s, i)
               ELSE g.hash[U[s][i]] = NoKey /\ Holders(U, U[s][i]) = {s}
    <3>0. Len(T[s]) \in Nat /\ n[s] <= Len(T[s]) /\ n[s] \in Nat
      BY HeldFacts
    <3>1. CASE i <= Len(T[s])
      <4>1. i \in 1 .. Len(T[s]) /\ U[s][i] = T[s][i]
        <5>1. CASE s = r
          BY <1>6, <1>7, <3>0, <3>1, <5>1
        <5>2. CASE s # r
          BY <1>7, <3>0, <3>1, <5>2
        <5> QED BY <5>1, <5>2
      <4> QED BY <1>10, <4>1
    <3>2. CASE i > Len(T[s])
      <4>1. s = r /\ U[s][i] \in Range(got) /\ U[s] = t
        BY <1>6, <1>7, <3>0, <3>2
      <4>2. g.hash[U[s][i]] = NoKey
        BY <1>4, <1>5, <4>1
      <4>3. U[s][i] \in Range(U[s])
        BY <1>6, <4>1
      <4>4. Holders(U, U[s][i]) = {s}
        BY <1>5, <1>7, <4>1, <4>3 DEF Holders
      <4> QED BY <3>0, <3>2, <4>2, <4>4
    <3> QED BY <3>0, <3>1, <3>2
  <2> QED BY <2>1, <2>2 DEF Labelled
<1>12. Chained(g)
  <2> SUFFICES ASSUME NEW b \in Blocks, NEW s \in Requests,
                      NEW i \in 2 .. MaxModelLen \div BlockSize,
                      g.hash[b] = BlockKey(s, i)
               PROVE  \E c \in Blocks : g.hash[c] = BlockKey(s, i - 1) /\ Outlives(g, b, c)
    BY DEF Chained
  <2>1. BlockKey(s, i) # NoKey
    <3>1. MaxModelLen \div BlockSize \in Nat
      BY KVCacheManagerAssumption, DivFacts
    <3>2. Keyed(i)
      BY <3>1, KeyedIs
    <3> QED BY <3>2, KeyFacts
  <2>2. b \notin Range(got) /\ p.hash[b] = BlockKey(s, i) /\ g.ref[b] = p.ref[b]
    BY <1>3, <1>4, <2>1
  <2>3. PICK c \in Blocks : p.hash[c] = BlockKey(s, i - 1) /\ Outlives(p, b, c)
    BY <1>1, <2>2 DEF Chained
  <2>4. c \notin Range(got)
    BY <1>3, <1>4, <2>2, <2>3 DEF Outlives
  <2>5. g.hash[c] = p.hash[c] /\ g.ref[c] = p.ref[c]
    BY <1>3, <1>4, <2>4
  <2>6. Outlives(g, b, c)
    BY <1>4, <2>2, <2>3, <2>5 DEF Outlives
  <2> QED BY <2>3, <2>5, <2>6
<1>13. Held(g, U, n)
  BY <1>3, <1>8, <1>9, <1>11, <1>12 DEF Held
<1>14. \A b \in Blocks : b \notin Range(got) => g.hash[b] = p.hash[b] /\ g.ref[b] = p.ref[b]
  BY <1>3, <1>4
<1> QED BY <1>3, <1>4, <1>5, <1>13, <1>14 DEF g, got, t, U

\* Caching the blocks of r up to the k-th.
LEMMA FillBlocks ==
    ASSUME NEW p, NEW T, NEW n, NEW r \in Requests, NEW k \in Nat, Held(p, T, n),
           n[r] <= k, k <= Len(T[r]), k * BlockSize <= MaxModelLen
    PROVE  LET blks == SubSeq(T[r], n[r] + 1, k)
               keys == BlockKeys(r, n[r], k)
               g == CacheFullBlocks(p, blks, keys) IN
           /\ CanCacheFull(p, blks, keys)
           /\ Held(g, T, [n EXCEPT ![r] = k])
           /\ g.ref = p.ref
           /\ \A b \in Blocks : g.hash[b] = p.hash[b] \/ \E i \in n[r] + 1 .. k :
                 b = T[r][i] /\ p.hash[b] = NoKey /\ g.hash[b] = BlockKey(r, i)
<1> DEFINE blks == SubSeq(T[r], n[r] + 1, k)
           keys == BlockKeys(r, n[r], k)
           g == CacheFullBlocks(p, blks, keys)
           d == k - n[r]
           m == [n EXCEPT ![r] = k]
<1>1. /\ p \in PoolRecord /\ FreeQueueExact(p) /\ CacheIndexExact(p) /\ Chained(p)
      /\ T \in [Requests -> Seq(Blocks)] /\ n \in [Requests -> Nat]
      /\ \A s \in Requests : Unique(T[s]) /\ n[s] * BlockSize <= MaxModelLen
      /\ \A b \in Blocks : p.more[b] = {} /\ p.ref[b] = Cardinality(Holders(T, b))
  BY DEF Held, Tables, Labelled, Counted
<1>2. /\ p.ref \in [Blocks -> Nat]
      /\ Len(T[r]) \in Nat /\ DOMAIN T[r] = 1 .. Len(T[r]) /\ n[r] \in Nat
      /\ \A i \in 1 .. Len(T[r]) :
            /\ T[r][i] \in Blocks /\ p.ref[T[r][i]] # 0
            /\ i <= n[r] => p.hash[T[r][i]] = BlockKey(r, i)
            /\ i > n[r] => p.hash[T[r][i]] = NoKey
            /\ i > n[r] => Holders(T, T[r][i]) = {r}
  <2>1. /\ p.ref \in [Blocks -> Nat]
        /\ Len(T[r]) \in Nat /\ DOMAIN T[r] = 1 .. Len(T[r]) /\ n[r] \in Nat
    BY HeldFacts
  <2>2. ASSUME NEW i \in 1 .. Len(T[r])
        PROVE  /\ T[r][i] \in Blocks /\ p.ref[T[r][i]] # 0
               /\ i <= n[r] => p.hash[T[r][i]] = BlockKey(r, i)
               /\ i > n[r] => p.hash[T[r][i]] = NoKey
               /\ i > n[r] => Holders(T, T[r][i]) = {r}
    <3>1. T[r][i] \in Blocks /\ p.ref[T[r][i]] # 0
      BY BlockHeld
    <3>2. i <= n[r] => p.hash[T[r][i]] = BlockKey(r, i)
      BY BlockKeyed
    <3>3. \A r2 \in Requests : \A i2 \in 1 .. Len(T[r2]) :
              i2 > n[r2] => p.hash[T[r2][i2]] = NoKey /\ Holders(T, T[r2][i2]) = {r2}
      <4>1. Held(p, T, n)
        OBVIOUS
      <4> QED BY ONLY <4>1, BlockUnkeyed
    <3>4. i > n[r] => p.hash[T[r][i]] = NoKey /\ Holders(T, T[r][i]) = {r}
      BY <3>3
    <3> QED BY <3>1, <3>2, <3>4
  <2> QED BY <2>1, <2>2
<1>3. \A i \in 1 .. k : Keyed(i) /\ BlockKey(r, i) \in Keys
  <2>1. ASSUME NEW i \in 1 .. k PROVE Keyed(i)
    <3>1. BlockSize \in Nat \ {0} /\ MaxModelLen \in Nat
      BY KVCacheManagerAssumption
    <3>2. i * BlockSize \in Nat /\ k * BlockSize \in Nat /\ i * BlockSize <= k * BlockSize
      BY <3>1, MulMono
    <3> QED BY <3>1, <3>2 DEF Keyed
  <2> QED BY <2>1, KeyFacts
<1>4. d \in Nat
  BY <1>2
<1>5. blks = [i \in 1 .. d |-> T[r][n[r] + i]]
  <2>1. PICK q \in Seq(Blocks) : q = T[r]
    BY <1>1
  <2>2. SubSeq(q, n[r] + 1, k) = [i \in 1 .. k - n[r] |-> q[n[r] + i]]
    <3>1. q \in Seq(Blocks) /\ n[r] \in Nat /\ k \in Nat /\ n[r] <= k /\ k <= Len(q)
      BY <1>2, <2>1
    <3> QED BY ONLY <3>1, SubSeqIs
  <2> QED BY <2>1, <2>2
<1>6. keys = [i \in 1 .. d |-> BlockKey(r, n[r] + i)]
  BY DEF BlockKeys
<1>7. \A i \in 1 .. d : n[r] + i \in 1 .. k /\ n[r] + i \in 1 .. Len(T[r]) /\ n[r] + i > n[r]
  BY <1>2
<1> HIDE DEF blks, keys, d
<1>8. blks \in [1 .. d -> Blocks] /\ keys \in [1 .. d -> Keys]
  BY <1>2, <1>3, <1>5, <1>6, <1>7
<1>9. \A i, j \in 1 .. d : blks[i] = blks[j] \/ keys[i] = keys[j] => i = j
  <2> SUFFICES ASSUME NEW i \in 1 .. d, NEW j \in 1 .. d, blks[i] = blks[j] \/ keys[i] = keys[j]
               PROVE  i = j
    OBVIOUS
  <2>1. CASE blks[i] = blks[j]
    <3>1. T[r][n[r] + i] = T[r][n[r] + j]
      BY <1>5, <2>1
    <3>2. n[r] + i = n[r] + j
      BY <1>1, <1>2, <1>7, <3>1 DEF Unique
    <3> QED BY <1>2, <1>4, <3>2
  <2>2. CASE keys[i] = keys[j]
    <3>1. BlockKey(r, n[r] + i) = BlockKey(r, n[r] + j)
      BY <1>6, <2>2
    <3>2. n[r] + i = n[r] + j
      BY <1>3, <1>7, <3>1, SameKey
    <3> QED BY <1>2, <1>4, <3>2
  <2> QED BY <2>1, <2>2
<1>10. /\ g \in PoolRecord /\ CacheIndexExact(g) /\ g.free = p.free /\ g.ref = p.ref
       /\ \A i \in 1 .. d : g.hash[blks[i]] = keys[i] /\ g.more[blks[i]] = {}
       /\ \A b \in Blocks \ Range(blks) : g.hash[b] = p.hash[b] /\ g.more[b] = p.more[b]
  <2>1. p \in PoolRecord /\ CacheIndexExact(p)
    BY <1>1
  <2>2. p \in PoolRecord
    BY <2>1
  <2>3. CacheIndexExact(p)
    BY <2>1
  <2>4. blks \in [1 .. d -> Blocks]
    BY <1>8
  <2>5. keys \in [1 .. d -> Keys]
    BY <1>8
  <2> HIDE DEF g
  <2>6. /\ CacheFullBlocks(p, blks, keys) \in PoolRecord
        /\ CacheFullBlocks(p, blks, keys).free = p.free
        /\ CacheFullBlocks(p, blks, keys).ref = p.ref
        /\ CacheIndexExact(CacheFullBlocks(p, blks, keys))
        /\ \A i \in 1 .. d : /\ CacheFullBlocks(p, blks, keys).hash[blks[i]] = keys[i]
                             /\ CacheFullBlocks(p, blks, keys).more[blks[i]] = {}
        /\ \A b \in Blocks \ Range(blks) :
              /\ CacheFullBlocks(p, blks, keys).hash[b] = p.hash[b]
              /\ CacheFullBlocks(p, blks, keys).more[b] = p.more[b]
    <3>1. /\ CacheFullBlocks(p, blks, keys) \in PoolRecord
          /\ CacheFullBlocks(p, blks, keys).free = p.free
          /\ CacheFullBlocks(p, blks, keys).ref = p.ref
          /\ CacheIndexExact(CacheFullBlocks(p, blks, keys))
      BY ONLY <1>4, <1>9, <2>2, <2>3, <2>4, <2>5, CacheFullBlocksProperties
    <3>2. \A i \in 1 .. d : /\ CacheFullBlocks(p, blks, keys).hash[blks[i]] = keys[i]
                           /\ CacheFullBlocks(p, blks, keys).more[blks[i]] = {}
      BY ONLY <1>4, <1>9, <2>2, <2>3, <2>4, <2>5, CacheFullBlocksProperties
    <3>3. \A b \in Blocks \ Range(blks) :
              /\ CacheFullBlocks(p, blks, keys).hash[b] = p.hash[b]
              /\ CacheFullBlocks(p, blks, keys).more[b] = p.more[b]
      BY ONLY <1>4, <1>9, <2>2, <2>3, <2>4, <2>5, CacheFullBlocksProperties
    <3> QED BY <3>1, <3>2, <3>3
  <2> QED BY <2>6 DEF g
<1> HIDE DEF g
<1>11. \A b \in Range(blks) : \E i \in 1 .. d : b = blks[i]
  BY <1>8 DEF Range
<1>12. ASSUME NEW i \in n[r] + 1 .. k PROVE g.hash[T[r][i]] = BlockKey(r, i)
  <2>1. i - n[r] \in 1 .. d /\ n[r] + (i - n[r]) = i
    BY <1>2, <1>4 DEF d
  <2> QED BY <1>5, <1>6, <1>10, <2>1
<1>13. ASSUME NEW b \in Range(blks)
       PROVE  \E i \in n[r] + 1 .. k :
                 /\ b = T[r][i] /\ i \in 1 .. Len(T[r]) /\ p.hash[b] = NoKey /\ Holders(T, b) = {r}
                 /\ g.hash[b] = BlockKey(r, i)
  <2>1. PICK j \in 1 .. d : b = blks[j]
    BY <1>11
  <2>2. n[r] + j \in n[r] + 1 .. k /\ b = T[r][n[r] + j]
    BY <1>2, <1>5, <1>7, <2>1
  <2> QED BY <1>2, <1>7, <1>12, <2>2
<1>14. CanCacheFull(p, blks, keys)
  <2>1. \A i \in 1 .. d : p.hash[blks[i]] = NoKey
    BY <1>2, <1>5, <1>7
  <2> QED BY <1>8, <2>1 DEF CanCacheFull
<1>15. FreeQueueExact(g)
  BY <1>1, <1>10 DEF FreeQueueExact
<1>16. Tables(T, m)
  <2>1. \A s \in Requests : n[s] <= Len(T[s])
    BY DEF Held, Tables
  <2> QED BY <1>1, <1>2, <2>1 DEF Tables
<1>17. Counted(g, T)
  BY <1>1, <1>10 DEF Counted
<1>18. Labelled(g, T, m)
  <2>1. \A b \in Blocks : g.more[b] = {}
    BY <1>1, <1>10, <1>11
  <2>2. ASSUME NEW s \in Requests, NEW i \in 1 .. Len(T[s])
        PROVE  IF i <= m[s] THEN g.hash[T[s][i]] = BlockKey(s, i)
               ELSE g.hash[T[s][i]] = NoKey /\ Holders(T, T[s][i]) = {s}
    <3> DEFINE b == T[s][i]
    <3>1. /\ IF i <= n[s] THEN p.hash[b] = BlockKey(s, i)
             ELSE p.hash[b] = NoKey /\ Holders(T, b) = {s}
          /\ b \in Blocks /\ b \in Range(T[s]) /\ n[s] \in Nat /\ Len(T[s]) \in Nat
          /\ i <= n[s] => p.hash[b] # NoKey
      <4>1. IF i <= n[s] THEN p.hash[b] = BlockKey(s, i)
            ELSE p.hash[b] = NoKey /\ Holders(T, b) = {s}
        BY DEF Held, Labelled
      <4>2. i <= n[s] => Keyed(i)
        BY BlockKeyed
      <4>3. i <= n[s] => BlockKey(s, i) # NoKey
        BY <4>2, KeyFacts
      <4>4. b \in Blocks /\ b \in Range(T[s]) /\ n[s] \in Nat /\ Len(T[s]) \in Nat
        BY HeldFacts
      <4> QED BY <4>1, <4>3, <4>4
    <3> HIDE DEF b
    <3>2. CASE b \notin Range(blks)
      <4>1. g.hash[b] = p.hash[b]
        BY <1>10, <3>1, <3>2
      <4>2. s = r => ~(n[s] < i /\ i <= k)
        <5> SUFFICES ASSUME s = r, n[s] < i, i <= k PROVE FALSE
          OBVIOUS
        <5>1. i - n[r] \in 1 .. d /\ n[r] + (i - n[r]) = i
          BY <1>2, <1>4 DEF d
        <5>2. b = blks[i - n[r]]
          BY <1>5, <5>1 DEF b
        <5>3. b \in Range(blks)
          BY <1>8, <5>1, <5>2 DEF Range
        <5> QED BY <3>2, <5>3
      <4>3. s # r => m[s] = n[s]
        OBVIOUS
      <4>4. s = r => m[s] = k
        BY <1>1
      <4> QED BY <1>2, <3>1, <4>1, <4>2, <4>3, <4>4 DEF b
    <3>3. CASE b \in Range(blks)
      <4>1. PICK j \in n[r] + 1 .. k :
                 /\ b = T[r][j] /\ j \in 1 .. Len(T[r]) /\ p.hash[b] = NoKey /\ Holders(T, b) = {r}
                 /\ g.hash[b] = BlockKey(r, j)
        BY <1>13, <3>3
      <4>2. s = r
        BY <3>1, <4>1 DEF Holders
      <4>3. i = j
        BY <1>1, <1>2, <4>1, <4>2 DEF Unique, b
      <4>4. m[s] = k /\ i <= k
        BY <1>1, <1>2, <4>2, <4>3
      <4> QED BY <4>1, <4>2, <4>3, <4>4 DEF b
    <3> QED BY <3>2, <3>3
  <2> HIDE DEF m
  <2> QED BY <2>1, <2>2 DEF Labelled
<1>19. Chained(g)
  <2> SUFFICES ASSUME NEW b \in Blocks, NEW s \in Requests,
                      NEW i \in 2 .. MaxModelLen \div BlockSize,
                      g.hash[b] = BlockKey(s, i)
               PROVE  \E c \in Blocks : g.hash[c] = BlockKey(s, i - 1) /\ Outlives(g, b, c)
    BY DEF Chained
  <2>0. Keyed(i) /\ Keyed(i - 1) /\ BlockKey(s, i - 1) # NoKey
    <3>1. MaxModelLen \div BlockSize \in Nat
      BY KVCacheManagerAssumption, DivFacts
    <3>2. Keyed(i) /\ Keyed(i - 1)
      BY <3>1, KeyedIs
    <3> QED BY <3>2, KeyFacts
  <2>1. CASE b \notin Range(blks)
    <3>1. p.hash[b] = BlockKey(s, i)
      BY <1>10, <2>1
    <3>2. PICK c \in Blocks : p.hash[c] = BlockKey(s, i - 1) /\ Outlives(p, b, c)
      BY <1>1, <3>1 DEF Chained
    <3>3. c \notin Range(blks)
      BY <1>13, <2>0, <3>2
    <3>4. g.hash[c] = p.hash[c]
      BY <1>10, <3>3
    <3> QED BY <1>10, <3>2, <3>4 DEF Outlives
  <2>2. CASE b \in Range(blks)
    <3>1. PICK j \in n[r] + 1 .. k :
                 /\ b = T[r][j] /\ j \in 1 .. Len(T[r]) /\ g.hash[b] = BlockKey(r, j)
      BY <1>13, <2>2
    <3>2. Keyed(j) /\ BlockKey(r, j) = BlockKey(s, i)
      BY <1>2, <1>3, <3>1
    <3>3. j = i /\ \A l \in 1 .. i : BlockKey(r, l) = BlockKey(s, l)
      BY <2>0, <3>2, SameKey
    <3> DEFINE c == T[r][i - 1]
    <3>4. i - 1 \in 1 .. i /\ i - 1 \in 1 .. Len(T[r]) /\ i - 1 \in 1 .. k
      BY <1>2, <3>1, <3>3
    <3>5. c \in Blocks /\ p.ref[c] # 0
      BY <1>2, <3>4
    <3>6. g.hash[c] = BlockKey(r, i - 1)
      <4>1. CASE i - 1 > n[r]
        BY <1>2, <1>12, <3>4, <4>1
      <4>2. CASE ~(i - 1 > n[r])
        <5>1. i - 1 <= n[r] /\ p.hash[c] = BlockKey(r, i - 1)
          BY <1>2, <3>4, <4>2
        <5>2. p.hash[c] # NoKey
          BY <2>0, <3>3, <3>4, <5>1
        <5>3. c \notin Range(blks)
          BY <1>13, <5>2
        <5> QED BY <1>10, <3>5, <5>1, <5>3
      <4> QED BY <4>1, <4>2
    <3>7. Outlives(g, b, c)
      BY <1>10, <3>5 DEF Outlives
    <3> QED BY <3>3, <3>4, <3>5, <3>6, <3>7
  <2> QED BY <2>1, <2>2
<1>20. \A b \in Blocks : g.hash[b] = p.hash[b] \/ \E i \in n[r] + 1 .. k :
                 b = T[r][i] /\ p.hash[b] = NoKey /\ g.hash[b] = BlockKey(r, i)
  BY <1>10, <1>13
<1> HIDE DEF m
<1>21. Held(g, T, m)
  BY <1>10, <1>15, <1>16, <1>17, <1>18, <1>19 DEF Held
<1> QED BY <1>10, <1>14, <1>20, <1>21 DEF g, blks, keys, m

\* Giving back the table of r, tail first.
LEMMA ReleaseTable ==
    ASSUME NEW p, NEW T, NEW n, NEW r \in Requests, Held(p, T, n)
    PROVE  LET g == FreeBlocks(p, Reversed(T[r])) IN
           /\ Held(g, [T EXCEPT ![r] = << >>], [n EXCEPT ![r] = 0])
           /\ g.hash = p.hash
<1> DEFINE q == Reversed(T[r])
           g == FreeBlocks(p, q)
           U == [T EXCEPT ![r] = << >>]
           m == [n EXCEPT ![r] = 0]
<1>1. /\ p \in PoolRecord /\ FreeQueueExact(p) /\ CacheIndexExact(p) /\ Chained(p)
      /\ T \in [Requests -> Seq(Blocks)] /\ n \in [Requests -> Nat]
      /\ \A b \in Blocks : p.more[b] = {} /\ p.ref[b] = Cardinality(Holders(T, b))
  BY DEF Held, Tables, Labelled, Counted
<1>2. /\ p.ref \in [Blocks -> Nat]
      /\ \A b \in Blocks : p.ref[b] = 0 <=> \A s \in Requests : b \notin Range(T[s])
      /\ T[r] \in Seq(Blocks) /\ Unique(T[r]) /\ DOMAIN T[r] = 1 .. Len(T[r]) /\ Len(T[r]) \in Nat
  <2>1. /\ T[r] \in Seq(Blocks) /\ Unique(T[r]) /\ DOMAIN T[r] = 1 .. Len(T[r]) /\ Len(T[r]) \in Nat
    BY HeldFacts
  <2> QED BY <2>1, HeldFacts
<1>3. q \in Seq(Blocks) /\ Range(q) = Range(T[r]) /\ Unique(q)
  BY <1>2, ReversedProperties
<1>4. \A i, j \in 1 .. Len(T[r]) : i < j => Precedes(q, T[r][j], T[r][i])
  BY <1>2, ReversedOrder
<1> HIDE DEF q
<1>5. \A b : Occurs(q, b) = IF b \in Range(T[r]) THEN 1 ELSE 0
  BY <1>3, OccursProperties
<1>6. CanFreeBlocks(p, q)
  <2> SUFFICES ASSUME NEW b \in Blocks PROVE Occurs(q, b) <= p.ref[b]
    BY DEF CanFreeBlocks
  <2>1. p.ref[b] \in Nat /\ (b \in Range(T[r]) => p.ref[b] # 0)
    BY <1>2
  <2> QED BY <1>5, <2>1
<1>7. /\ g \in PoolRecord /\ FreeQueueExact(g) /\ CacheIndexExact(g)
      /\ g.ref = [b \in Blocks |-> p.ref[b] - Occurs(q, b)]
  BY <1>1, <1>3, <1>6, FreeBlocksProperties
<1>8. /\ g.hash = p.hash /\ g.more = p.more
      /\ \A x, y \in Blocks : Precedes(p.free, x, y) => Precedes(g.free, x, y)
      /\ \A x, y \in Blocks :
            /\ y \in Range(q) /\ g.ref[y] = 0 /\ p.hash[y] # NoKey
            /\ \/ x \in Range(p.free)
               \/ Precedes(q, x, y) /\ g.ref[x] = 0 /\ p.hash[x] # NoKey
            => Precedes(g.free, x, y)
  <2>1. g.hash = p.hash /\ g.more = p.more
    BY <1>1, <1>3, FreeBlocksKeeps
  <2>2. \A x, y \in Blocks : Precedes(p.free, x, y) => Precedes(g.free, x, y)
    BY <1>1, <1>3, FreeBlocksKeeps
  <2>3. \A x, y \in Blocks :
            /\ y \in Range(q) /\ g.ref[y] = 0 /\ p.hash[y] # NoKey
            /\ \/ x \in Range(p.free)
               \/ Precedes(q, x, y) /\ g.ref[x] = 0 /\ p.hash[x] # NoKey
            => Precedes(g.free, x, y)
    BY <1>1, <1>3, FreeBlocksKeeps
  <2> QED BY <2>1, <2>2, <2>3
<1> HIDE DEF g
<1>9. \A b \in Blocks : /\ b \in Range(T[r]) => g.ref[b] = p.ref[b] - 1
                        /\ b \notin Range(T[r]) => g.ref[b] = p.ref[b]
  BY <1>2, <1>5, <1>7
<1>10. /\ U \in [Requests -> Seq(Blocks)] /\ U[r] = << >> /\ Range(U[r]) = {}
       /\ \A s \in Requests \ {r} : U[s] = T[s]
       /\ m \in [Requests -> Nat] /\ m[r] = 0
       /\ \A s \in Requests \ {r} : m[s] = n[s]
  BY <1>1 DEF Range
<1> HIDE DEF U, m
<1>11. Tables(U, m)
  <2>1. ASSUME NEW s \in Requests
        PROVE  Unique(U[s]) /\ m[s] <= Len(U[s]) /\ m[s] * BlockSize <= MaxModelLen
    <3>1. CASE s = r
      <4>1. Unique(<< >>) /\ Len(<< >>) = 0
        BY DEF Unique
      <4>2. 0 * BlockSize <= MaxModelLen
        BY KVCacheManagerAssumption
      <4> QED BY <1>10, <3>1, <4>1, <4>2
    <3>2. CASE s # r
      <4>1. Unique(T[s]) /\ n[s] <= Len(T[s]) /\ n[s] * BlockSize <= MaxModelLen
        BY HeldFacts
      <4> QED BY <1>10, <3>2, <4>1
    <3> QED BY <3>1, <3>2
  <2> QED BY <1>10, <2>1 DEF Tables
<1>12. Counted(g, U)
  <2> SUFFICES ASSUME NEW b \in Blocks PROVE g.ref[b] = Cardinality(Holders(U, b))
    BY DEF Counted
  <2>1. Cardinality(Holders(U, b)) =
            Cardinality(Holders(T, b)) + (IF b \in Range(U[r]) THEN 1 ELSE 0)
                                       - (IF b \in Range(T[r]) THEN 1 ELSE 0)
    <3>1. OnlyTable(T, U, r)
      BY <1>10 DEF OnlyTable
    <3> QED BY ONLY <3>1, HoldersChange
  <2>2. p.ref[b] = Cardinality(Holders(T, b)) /\ p.ref[b] \in Nat /\ b \notin Range(U[r])
    BY <1>1, <1>2, <1>10
  <2> QED BY <1>9, <2>1, <2>2
<1>13. Labelled(g, U, m)
  <2>1. \A b \in Blocks : g.more[b] = {}
    BY <1>1, <1>8
  <2>2. ASSUME NEW s \in Requests, NEW i \in 1 .. Len(U[s])
        PROVE  IF i <= m[s] THEN g.hash[U[s][i]] = BlockKey(s, i)
               ELSE g.hash[U[s][i]] = NoKey /\ Holders(U, U[s][i]) = {s}
    <3>1. s # r
      BY <1>10
    <3> DEFINE b == T[s][i]
    <3>2. U[s][i] = b /\ m[s] = n[s] /\ U[s] = T[s] /\ i \in 1 .. Len(T[s])
      BY <1>10, <3>1
    <3>3. IF i <= n[s] THEN p.hash[b] = BlockKey(s, i)
          ELSE p.hash[b] = NoKey /\ Holders(T, b) = {s}
      BY <3>2 DEF Held, Labelled
    <3> HIDE DEF b
    <3>4. Holders(T, b) = {s} => Holders(U, b) = {s}
      <4>1. b \notin Range(U[r])
        BY <1>10
      <4>2. Holders(U, b) = Holders(T, b) \ {r}
        <5>1. OnlyTable(T, U, r)
          BY <1>10 DEF OnlyTable
        <5> QED BY <4>1, <5>1, HoldersChange
      <4> QED BY <3>1, <4>2
    <3> QED BY <1>8, <3>2, <3>3, <3>4
  <2> QED BY <2>1, <2>2 DEF Labelled
<1>14. Chained(g)
  <2> SUFFICES ASSUME NEW b \in Blocks, NEW s \in Requests,
                      NEW i \in 2 .. MaxModelLen \div BlockSize,
                      p.hash[b] = BlockKey(s, i)
               PROVE  \E c \in Blocks : p.hash[c] = BlockKey(s, i - 1) /\ Outlives(g, b, c)
    BY <1>8 DEF Chained
  <2>0. /\ Keyed(i) /\ Keyed(i - 1) /\ BlockKey(s, i) # NoKey /\ BlockKey(s, i - 1) # NoKey
        /\ i \in 1 .. MaxModelLen \div BlockSize /\ i - 1 \in 1 .. MaxModelLen \div BlockSize
        /\ i - 1 \in 1 .. i
    <3>1. MaxModelLen \div BlockSize \in Nat
      BY KVCacheManagerAssumption, DivFacts
    <3>2. /\ i \in 1 .. MaxModelLen \div BlockSize /\ i - 1 \in 1 .. MaxModelLen \div BlockSize
          /\ i - 1 \in 1 .. i
      BY <3>1
    <3>3. Keyed(i) /\ Keyed(i - 1)
      BY <3>2, KeyedIs
    <3> QED BY <3>2, <3>3, KeyFacts
  <2>1. PICK c \in Blocks : p.hash[c] = BlockKey(s, i - 1) /\ Outlives(p, b, c)
    BY <1>1 DEF Chained
  <2>2. p.ref[b] \in Nat /\ p.ref[c] \in Nat
    BY <1>2
  <2>3. CASE g.ref[c] # 0
    BY <2>1, <2>3 DEF Outlives
  <2>4. CASE p.ref[c] = 0
    <3>1. p.ref[b] = 0 /\ Precedes(p.free, b, c)
      BY <2>1, <2>4 DEF Outlives
    <3>2. b \notin Range(T[r])
      BY <1>2, <3>1
    <3>3. g.ref[b] = 0 /\ Precedes(g.free, b, c)
      BY <1>8, <1>9, <3>1, <3>2
    <3> QED BY <2>1, <3>3 DEF Outlives
  <2>5. CASE g.ref[c] = 0 /\ p.ref[c] # 0
    <3>1. c \in Range(T[r]) /\ c \in Range(q)
      BY <1>3, <1>9, <2>5
    <3>2. CASE g.ref[b] # 0
      <4>1. \E t \in Requests : t # r /\ b \in Range(T[t])
        <5>1. Holders(U, b) # {}
          <6>1. g.ref[b] = Cardinality(Holders(U, b))
            BY <1>12 DEF Counted
          <6> QED BY <3>2, <6>1, FS_EmptySet
        <5>2. PICK t \in Requests : b \in Range(U[t])
          BY <5>1 DEF Holders
        <5> QED BY <1>10, <5>2
      <4>2. PICK t \in Requests : t # r /\ b \in Range(T[t])
        BY <4>1
      <4>3. PICK j \in 1 .. Len(T[t]) : b = T[t][j]
        <5>1. DOMAIN T[t] = 1 .. Len(T[t])
          BY HeldFacts
        <5> QED BY <4>2, <5>1 DEF Range
      <4>4. j = i /\ j <= n[t] /\ p.hash[T[t][j]] = BlockKey(t, j)
        <5>1. p.hash[T[t][j]] = BlockKey(s, i)
          BY <4>3
        <5>2. i \in 1 .. MaxModelLen \div BlockSize
          BY <2>0
        <5>3. j = i /\ j <= n[t]
          BY <5>1, <5>2, BlockIndex
        <5>4. j <= n[t]
          BY <5>3
        <5>5. p.hash[T[t][j]] = BlockKey(t, j)
          BY <5>4, BlockKeyed
        <5> QED BY <5>3, <5>5
      <4>5. BlockKey(t, i - 1) = BlockKey(s, i - 1)
        <5>1. BlockKey(t, i) = BlockKey(s, i)
          BY <4>3, <4>4
        <5> QED BY <2>0, <5>1, SameKey
      <4> DEFINE c2 == T[t][i - 1]
      <4>6. n[t] \in Nat /\ Len(T[t]) \in Nat
        BY HeldFacts
      <4>7. i - 1 \in 1 .. Len(T[t]) /\ i - 1 <= n[t]
        BY <2>0, <4>3, <4>4, <4>6
      <4>8. c2 \in Blocks /\ c2 \in Range(T[t]) /\ p.hash[c2] = BlockKey(t, i - 1)
        <5>1. PICK l \in 1 .. Len(T[t]) : l = i - 1
          BY <4>7
        <5>2. T[t][l] \in Blocks /\ T[t][l] \in Range(T[t])
          BY BlockHeld
        <5>3. p.hash[T[t][l]] = BlockKey(t, l)
          <6>1. l <= n[t]
            BY <4>7, <5>1
          <6> QED BY <6>1, BlockKeyed
        <5> QED BY <5>1, <5>2, <5>3
      <4> HIDE DEF c2
      <4>9. g.ref[c2] # 0
        <5>1. t \in Holders(U, c2)
          BY <1>10, <4>2, <4>8 DEF Holders
        <5>2. g.ref[c2] = Cardinality(Holders(U, c2))
          BY <1>12, <4>8 DEF Counted
        <5> QED BY <5>1, <5>2, HoldersType
      <4> QED BY <4>5, <4>8, <4>9 DEF Outlives
    <3>3. CASE g.ref[b] = 0
      <4>1. Precedes(g.free, b, c)
        <5>1. CASE b \in Range(T[r])
          <6>1. PICK j \in 1 .. Len(T[r]) : b = T[r][j]
            BY <1>2, <5>1 DEF Range
          <6>2. PICK k \in 1 .. Len(T[r]) : c = T[r][k]
            BY <1>2, <3>1 DEF Range
          <6>3. j = i
            <7>1. p.hash[T[r][j]] = BlockKey(s, i)
              BY <6>1
            <7>2. i \in 1 .. MaxModelLen \div BlockSize
              BY <2>0
            <7> QED BY <7>1, <7>2, BlockIndex
          <6>4. k = i - 1
            <7>1. PICK l \in 1 .. MaxModelLen \div BlockSize : l = i - 1
              BY <2>0
            <7>2. p.hash[T[r][k]] = BlockKey(s, l)
              BY <2>1, <6>2, <7>1
            <7>3. k = l
              BY <7>2, BlockIndex
            <7> QED BY <7>1, <7>3
          <6>5. Precedes(q, b, c)
            BY <1>4, <2>0, <6>1, <6>2, <6>3, <6>4
          <6> QED BY <1>8, <2>0, <2>1, <2>5, <3>1, <3>3, <6>5
        <5>2. CASE b \notin Range(T[r])
          <6>1. b \in Range(p.free)
            <7>1. p.ref[b] = 0
              BY <1>9, <3>3, <5>2
            <7> QED BY <1>1, <7>1 DEF FreeQueueExact
          <6> QED BY <1>8, <2>0, <2>1, <2>5, <3>1, <6>1
        <5> QED BY <5>1, <5>2
      <4> QED BY <2>1, <3>3, <4>1 DEF Outlives
    <3> QED BY <3>2, <3>3
  <2> QED BY <2>3, <2>4, <2>5
<1>15. Held(g, U, m)
  BY <1>7, <1>11, <1>12, <1>13, <1>14 DEF Held
<1> QED BY <1>8, <1>15 DEF g, U, m, q

----------------------------------------------------------------------------
(* The operations of the manager.                                          *)

Managers ==
    [pool : PoolRecord, table : [Requests -> Seq(Blocks)],
     numCached : [Requests -> Nat], blocked : [Requests -> 0 .. ReserveAge]]

ManagerOK(m) == m \in Managers /\ Held(m.pool, m.table, m.numCached)

\* The manager as it starts.
LEMMA InitOK == ManagerOK(ManagerInit)
<1> DEFINE T == [r \in Requests |-> << >>]
           n == [r \in Requests |-> 0]
<1>1. PoolInit \in PoolRecord /\ FreeQueueExact(PoolInit) /\ CacheIndexExact(PoolInit)
  BY PoolInitProperties
<1>2. T \in [Requests -> Seq(Blocks)] /\ n \in [Requests -> Nat]
  OBVIOUS
<1>3. n \in [Requests -> 0 .. ReserveAge]
  BY KVCacheManagerAssumption
<1>4. Tables(T, n)
  <2>1. 0 * BlockSize <= MaxModelLen /\ Unique(<< >>) /\ Len(<< >>) = 0
    BY KVCacheManagerAssumption DEF Unique
  <2> QED BY <1>2, <2>1 DEF Tables
<1>5. Counted(PoolInit, T)
  <2>1. \A b : Holders(T, b) = {}
    BY DEF Holders, Range
  <2> QED BY <2>1, FS_EmptySet DEF Counted, PoolInit
<1>6. Labelled(PoolInit, T, n)
  BY DEF Labelled, PoolInit
<1>7. Chained(PoolInit)
  <2> SUFFICES ASSUME NEW s \in Requests, NEW i \in 2 .. MaxModelLen \div BlockSize
               PROVE  BlockKey(s, i) # NoKey
    BY DEF Chained, PoolInit
  <2>1. MaxModelLen \div BlockSize \in Nat
    BY KVCacheManagerAssumption, DivFacts
  <2>2. Keyed(i)
    BY <2>1, KeyedIs
  <2> QED BY <2>2, KeyFacts
<1>8. Held(PoolInit, T, n)
  BY <1>1, <1>4, <1>5, <1>6, <1>7 DEF Held
<1>9. ManagerInit = [pool |-> PoolInit, table |-> T, numCached |-> n, blocked |-> n]
  BY DEF ManagerInit
<1> HIDE DEF T, n
<1> QED BY <1>1, <1>2, <1>3, <1>8, <1>9 DEF ManagerOK, Managers

\* free: the table is emptied, the keys stay.
LEMMA FreeOK ==
    ASSUME NEW m, NEW r \in Requests, ManagerOK(m)
    PROVE  /\ ManagerOK(FreeRequest(m, r))
           /\ FreeRequest(m, r).table = [m.table EXCEPT ![r] = << >>]
           /\ FreeRequest(m, r).numCached = [m.numCached EXCEPT ![r] = 0]
           /\ FreeRequest(m, r).pool.hash = m.pool.hash
<1> DEFINE g == FreeBlocks(m.pool, Reversed(m.table[r]))
           U == [m.table EXCEPT ![r] = << >>]
           n == [m.numCached EXCEPT ![r] = 0]
           a == [m.blocked EXCEPT ![r] = 0]
           f == FreeRequest(m, r)
<1>1. m \in Managers /\ Held(m.pool, m.table, m.numCached)
  BY DEF ManagerOK
<1>2. Held(g, U, n) /\ g.hash = m.pool.hash
  BY <1>1, ReleaseTable
<1>3. U \in [Requests -> Seq(Blocks)] /\ n \in [Requests -> Nat] /\ a \in [Requests -> 0 .. ReserveAge]
  BY <1>1, KVCacheManagerAssumption DEF Managers
<1>4. f = [m EXCEPT !.pool = g, !.table[r] = << >>, !.numCached[r] = 0, !.blocked[r] = 0]
  BY DEF FreeRequest
<1> HIDE DEF g, f
<1>5. g \in PoolRecord
  BY <1>2 DEF Held
<1>6. f \in Managers /\ f.pool = g /\ f.table = U /\ f.numCached = n
  BY <1>1, <1>3, <1>4, <1>5 DEF Managers
<1> HIDE DEF U, n, a
<1>7. ManagerOK(f)
  BY <1>2, <1>6 DEF ManagerOK
<1> QED BY <1>2, <1>6, <1>7 DEF U, n, f

\* A refused allocation changes the reserve's count only.
LEMMA RefuseOK ==
    ASSUME NEW m, NEW c, ManagerOK(m), c.req \in Requests
    PROVE  /\ ManagerOK(RefuseSlots(m, c))
           /\ RefuseSlots(m, c).table = m.table /\ RefuseSlots(m, c).numCached = m.numCached
           /\ RefuseSlots(m, c).pool = m.pool
<1> DEFINE a == [m.blocked EXCEPT ![c.req] = Lesser(@ + 1, ReserveAge)]
           g == [m EXCEPT !.blocked[c.req] = Lesser(@ + 1, ReserveAge)]
<1>1. m \in Managers /\ Held(m.pool, m.table, m.numCached)
  BY DEF ManagerOK
<1>2. a \in [Requests -> 0 .. ReserveAge]
  BY <1>1, KVCacheManagerAssumption DEF Lesser, Managers
<1>3. g \in Managers /\ g.pool = m.pool /\ g.table = m.table /\ g.numCached = m.numCached
  BY <1>1, <1>2 DEF Managers
<1>4. RefuseSlots(m, c) = g \/ RefuseSlots(m, c) = m
  BY DEF RefuseSlots
<1> HIDE DEF a, g
<1>5. ManagerOK(g)
  BY <1>1, <1>3 DEF ManagerOK
<1> QED BY <1>3, <1>4, <1>5

\* Every block is free exactly when no request holds any.
LEMMA AllFree ==
    ASSUME NEW m, ManagerOK(m)
    PROVE  CanResetPrefixCache(m.pool) <=> \A r \in Requests : m.table[r] = << >>
<1> DEFINE p == m.pool
           T == m.table
           zero == {b \in Blocks : p.ref[b] = 0}
<1>1. p \in PoolRecord /\ FreeQueueExact(p) /\ Held(p, T, m.numCached)
  BY DEF ManagerOK, Held
<1>2. /\ \A b \in Blocks : p.ref[b] = 0 <=> \A r \in Requests : b \notin Range(T[r])
      /\ \A r \in Requests :
            /\ Len(T[r]) \in Nat /\ DOMAIN T[r] = 1 .. Len(T[r]) /\ T[r] \in Seq(Blocks)
            /\ \A i \in 1 .. Len(T[r]) : T[r][i] \in Blocks /\ T[r][i] \in Range(T[r])
  BY <1>1, HeldFacts
<1>3. IsFiniteSet(zero) /\ Len(p.free) = Cardinality(zero)
  BY <1>1, FreeCount DEF NumFree
<1>4. IsFiniteSet(Blocks) /\ Cardinality(Blocks) = NumBlocks
  BY BlockPoolAssumption, FS_Interval DEF Blocks
<1>5. CanResetPrefixCache(p) <=> zero = Blocks
  <2>1. zero \subseteq Blocks
    OBVIOUS
  <2> HIDE DEF zero, p
  <2>2. Cardinality(zero) = Cardinality(Blocks) => zero = Blocks
    BY <1>4, <2>1, FS_Subset
  <2> QED BY <1>3, <1>4, <2>2 DEF CanResetPrefixCache
<1>6. (\A r \in Requests : T[r] = << >>) => zero = Blocks
  BY <1>2 DEF Range
<1>7. ASSUME zero = Blocks, NEW r \in Requests PROVE T[r] = << >>
  <2>1. Len(T[r]) = 0
    <3> SUFFICES ASSUME Len(T[r]) # 0 PROVE FALSE
      OBVIOUS
    <3>1. T[r][1] \in Blocks /\ T[r][1] \in Range(T[r])
      BY <1>2
    <3> QED BY <1>2, <1>7, <3>1
  <2> QED BY <1>2, <2>1
<1> QED BY <1>5, <1>6, <1>7

\* reset_prefix_cache: no references change, and all keys go or none.
LEMMA ResetOK ==
    ASSUME NEW m, ManagerOK(m)
    PROVE  LET g == [m EXCEPT !.pool = ResetPrefixCache(m.pool)] IN
           /\ ManagerOK(g)
           /\ g.table = m.table /\ g.numCached = m.numCached
           /\ g.pool.ref = m.pool.ref
           /\ g.pool = m.pool \/ (\A b \in Blocks : g.pool.hash[b] = NoKey /\ m.pool.ref[b] = 0)
<1> DEFINE q == ResetPrefixCache(m.pool)
           g == [m EXCEPT !.pool = q]
<1>1. m \in Managers /\ Held(m.pool, m.table, m.numCached)
  BY DEF ManagerOK
<1>2. /\ m.pool \in PoolRecord /\ FreeQueueExact(m.pool) /\ CacheIndexExact(m.pool)
      /\ Tables(m.table, m.numCached) /\ Counted(m.pool, m.table)
      /\ Labelled(m.pool, m.table, m.numCached) /\ Chained(m.pool)
  BY <1>1 DEF Held
<1>3. q \in PoolRecord /\ q.free = m.pool.free /\ q.ref = m.pool.ref /\ CacheIndexExact(q)
  BY <1>2, ResetProperties
<1>4. \/ q = m.pool
      \/ CanResetPrefixCache(m.pool) /\ \A b \in Blocks : q.hash[b] = NoKey /\ q.more[b] = {}
  BY <1>2 DEF ResetPrefixCache, PoolRecord
<1> HIDE DEF q
<1>5. g \in Managers /\ g.pool = q /\ g.table = m.table /\ g.numCached = m.numCached
  BY <1>1, <1>3 DEF Managers
<1>6. CASE q = m.pool
  BY <1>1, <1>5, <1>6 DEF ManagerOK, q
<1>7. CASE CanResetPrefixCache(m.pool) /\ \A b \in Blocks : q.hash[b] = NoKey /\ q.more[b] = {}
  <2>1. \A r \in Requests : m.table[r] = << >>
    BY <1>7, AllFree
  <2>2. FreeQueueExact(q) /\ Counted(q, m.table)
    BY <1>2, <1>3 DEF FreeQueueExact, Counted
  <2>3. Labelled(q, m.table, m.numCached)
    BY <1>7, <2>1 DEF Labelled
  <2>4. Chained(q)
    <3> SUFFICES ASSUME NEW s \in Requests, NEW i \in 2 .. MaxModelLen \div BlockSize
                 PROVE  BlockKey(s, i) # NoKey
      BY <1>7 DEF Chained
    <3>1. MaxModelLen \div BlockSize \in Nat
      BY KVCacheManagerAssumption, DivFacts
    <3>2. Keyed(i)
      BY <3>1, KeyedIs
    <3> QED BY <3>2, KeyFacts
  <2>5. Held(q, m.table, m.numCached)
    BY <1>2, <1>3, <2>2, <2>3, <2>4 DEF Held
  <2>6. \A b \in Blocks : m.pool.ref[b] = 0
    <3>1. \A b \in Blocks : m.pool.ref[b] = 0 <=> \A r \in Requests : b \notin Range(m.table[r])
      BY <1>1, HeldFacts
    <3> QED BY <2>1, <3>1 DEF Range
  <2> HIDE DEF g
  <2> QED BY <1>3, <1>5, <1>7, <2>5, <2>6 DEF ManagerOK, g, q
<1> QED BY <1>4, <1>6, <1>7

\* find_longest_cache_hit returns cached blocks only and leaves one token.
LEMMA HitLengthIs ==
    ASSUME NEW m, NEW r, NEW n \in Nat \ {0}
    PROVE  /\ HitLength(m, r, n) \in 0 .. (n - 1) \div BlockSize
           /\ \A i \in 1 .. HitLength(m, r, n) : IsCached(m.pool, BlockKey(r, i))
<1> DEFINE most == (n - 1) \div BlockSize
           U == {i \in 1 .. most : ~IsCached(m.pool, BlockKey(r, i))}
           P(k) == /\ \A i \in 1 .. k : IsCached(m.pool, BlockKey(r, i))
                   /\ k < most => ~IsCached(m.pool, BlockKey(r, k + 1))
<1>1. most \in Nat
  <2>1. n - 1 \in Nat /\ BlockSize \in Nat \ {0}
    BY KVCacheManagerAssumption
  <2> QED BY <2>1, DivFacts
<1> HIDE DEF most
<1>2. \E k \in 0 .. most : P(k)
  <2>1. CASE U = {}
    <3>1. most \in 0 .. most /\ P(most)
      BY <1>1, <2>1
    <3> QED BY <3>1
  <2>2. CASE U # {}
    <3>1. U \in SUBSET (1 .. most)
      OBVIOUS
    <3>2. /\ IsFiniteSet(U) /\ Cardinality(U) \in Nat
          /\ \A i \in U : Rank(U, i) \in 1 .. Cardinality(U)
          /\ \A i, j \in U : i < j => Rank(U, i) < Rank(U, j)
          /\ \A k \in 1 .. Cardinality(U) : \E i \in U : Rank(U, i) = k
      <4> HIDE DEF U
      <4> QED BY <1>1, <3>1, RankBijective
    <3>3. PICK u \in U : Rank(U, u) = 1
      <4> HIDE DEF U
      <4>1. 1 \in 1 .. Cardinality(U)
        BY <2>2, <3>2, FS_EmptySet
      <4> QED BY <3>2, <4>1
    <3>4. u \in 1 .. most /\ ~IsCached(m.pool, BlockKey(r, u))
      OBVIOUS
    <3>5. \A i \in U : u <= i
      <4> HIDE DEF U
      <4> SUFFICES ASSUME NEW i \in U, i < u PROVE FALSE
        BY <1>1, <3>1, <3>4
      <4>1. Rank(U, i) < Rank(U, u) /\ Rank(U, i) \in 1 .. Cardinality(U)
        BY <3>2
      <4> QED BY <3>2, <3>3, <4>1
    <3>6. \A i \in 1 .. u - 1 : IsCached(m.pool, BlockKey(r, i))
      <4> SUFFICES ASSUME NEW i \in 1 .. u - 1, i \in U PROVE FALSE
        BY <1>1, <3>4
      <4> QED BY <3>4, <3>5
    <3>7. u - 1 \in 0 .. most /\ (u - 1) + 1 = u
      BY <1>1, <3>4
    <3> QED BY <3>4, <3>6, <3>7
  <2> QED BY <2>1, <2>2
<1>3. HitLength(m, r, n) = CHOOSE k \in 0 .. most : P(k)
  BY DEF HitLength, most
<1>4. HitLength(m, r, n) \in 0 .. most /\ P(HitLength(m, r, n))
  BY <1>2, <1>3
<1> QED BY <1>4 DEF most

\* get_computed_blocks returns blocks under the keys of the prompt.
LEMMA HitsProperties ==
    ASSUME NEW m, NEW r \in Requests, NEW n \in Nat \ {0}, ManagerOK(m), n <= MaxModelLen
    PROVE  /\ GetComputedBlocks(m, r, n) \in Seq(Blocks)
           /\ Len(GetComputedBlocks(m, r, n)) * BlockSize < n
           /\ Len(GetComputedBlocks(m, r, n)) * BlockSize \in Nat
           /\ \A i \in 1 .. Len(GetComputedBlocks(m, r, n)) :
                 /\ Keyed(i)
                 /\ m.pool.hash[GetComputedBlocks(m, r, n)[i]] = BlockKey(r, i)
<1> DEFINE h == GetComputedBlocks(m, r, n)
           k == HitLength(m, r, n)
           most == (n - 1) \div BlockSize
           p == m.pool
<1>1. BlockSize \in Nat \ {0} /\ MaxModelLen \in Nat
  BY KVCacheManagerAssumption
<1>2. most \in Nat /\ most * BlockSize < n
  <2>1. n - 1 \in Nat
    OBVIOUS
  <2> QED BY <1>1, <2>1, DivFacts
<1> HIDE DEF most
<1>3. k \in 0 .. most /\ \A i \in 1 .. k : IsCached(p, BlockKey(r, i))
  BY HitLengthIs DEF most
<1>4. k \in Nat /\ k * BlockSize \in Nat /\ k * BlockSize < n
  <2>1. k * BlockSize \in Nat /\ k * BlockSize <= most * BlockSize /\ most * BlockSize \in Nat
    BY <1>1, <1>2, <1>3, MulMono
  <2> QED BY <1>2, <1>3, <2>1
<1>5. h = [i \in 1 .. k |-> GetOneBlock(p, BlockKey(r, i))]
  BY DEF GetComputedBlocks
<1> HIDE DEF h, k
<1>6. p \in PoolRecord /\ CacheIndexExact(p) /\ \A b \in Blocks : p.more[b] = {}
  BY DEF ManagerOK, Held, Labelled
<1>7. ASSUME NEW i \in 1 .. k
      PROVE  Keyed(i) /\ h[i] \in Blocks /\ p.hash[h[i]] = BlockKey(r, i)
  <2>1. Keyed(i)
    <3>1. i * BlockSize \in Nat /\ i * BlockSize <= k * BlockSize
      BY <1>1, <1>4, MulMono
    <3> QED BY <1>1, <1>4, <3>1 DEF Keyed
  <2>2. BlockKey(r, i) \in Keys
    BY <2>1, KeyFacts
  <2>3. h[i] = GetOneBlock(p, BlockKey(r, i)) /\ IsCached(p, BlockKey(r, i))
    BY <1>3, <1>5
  <2>4. h[i] \in Blocks /\ BlockKey(r, i) \in KeysOf(p, h[i])
    BY <1>6, <2>2, <2>3, CachedHas
  <2> QED BY <1>6, <2>1, <2>4 DEF KeysOf
<1>8. h \in Seq(Blocks) /\ Len(h) = k
  <2>1. h \in [1 .. k -> Blocks]
    BY <1>5, <1>7
  <2>2. h \in Seq(Blocks)
    BY <1>4, <2>1, SeqDef
  <2>3. Len(h) = k
    BY <1>4, <1>5
  <2> QED BY <2>2, <2>3
<1> QED BY <1>4, <1>7, <1>8 DEF h

\* The greater of two numbers.
LEMMA GreaterFacts ==
    ASSUME NEW a \in Int, NEW b \in Int
    PROVE  /\ Greater(a, b) \in Int /\ a <= Greater(a, b) /\ b <= Greater(a, b)
           /\ Greater(a, b) \in {a, b}
  BY DEF Greater
\* The lesser of two numbers.
LEMMA LesserFacts ==
    ASSUME NEW a \in Int, NEW b \in Int
    PROVE  /\ Lesser(a, b) \in Int /\ Lesser(a, b) <= a /\ Lesser(a, b) <= b
           /\ Lesser(a, b) \in {a, b}
  BY DEF Lesser

\* The number of blocks that hold a number of tokens.
LEMMA CDivFacts ==
    ASSUME NEW a \in Nat, NEW b \in Nat \ {0}
    PROVE  CDiv(a, b) \in Nat /\ a <= CDiv(a, b) * b /\ CDiv(a, b) * b < a + b
<1>1. a + b - 1 \in Nat
  OBVIOUS
<1> QED BY <1>1, DivFacts DEF CDiv

\* A call of allocate_slots as schedule() makes it.
CallOK(m, c) ==
    /\ c.req \in Requests /\ c.numTokens \in Nat /\ c.numTokens <= MaxModelLen
    /\ c.computed \in Nat /\ c.new \in Nat /\ c.lookahead \in Nat
    /\ c.external = 0 /\ c.reserved = 0 /\ c.delay = FALSE
    /\ c.hits \in Seq(Blocks)
    /\ c.hits # << >> => m.table[c.req] = << >>
    /\ \A i \in 1 .. Len(c.hits) : Keyed(i) /\ m.pool.hash[c.hits[i]] = BlockKey(c.req, i)

\* The token counts of a call: what is cached has a slot and is a token.
LEMMA CallTokens ==
    ASSUME NEW m, NEW c, CallOK(m, c)
    PROVE  /\ LocalComputed(c) \in Nat /\ TotalComputed(c) \in Nat /\ TokensNeedSlot(c) \in Nat
           /\ TokensNeedSlot(c) <= MaxModelLen
           /\ TokensNeedSlot(c) <= LocalComputed(c) + c.new + c.lookahead
           /\ LocalComputed(c) + c.new <= MaxModelLen => LocalComputed(c) + c.new <= TokensNeedSlot(c)
           /\ CacheableTokens(c) \in Nat /\ CacheableTokens(c) <= c.numTokens
           /\ CacheableTokens(c) <= LocalComputed(c) + c.new
           /\ CacheableTokens(c) <= TokensNeedSlot(c)
<1>1. BlockSize \in Nat \ {0} /\ MaxModelLen \in Nat
  BY KVCacheManagerAssumption
<1>2. /\ c.numTokens \in Nat /\ c.numTokens <= MaxModelLen
      /\ c.computed \in Nat /\ c.new \in Nat /\ c.lookahead \in Nat
      /\ c.external = 0 /\ c.delay = FALSE /\ Len(c.hits) \in Nat
  BY DEF CallOK
<1>3. Len(c.hits) * BlockSize \in Nat
  BY <1>1, <1>2, MulMono
<1>4. LocalComputed(c) \in Nat
  BY <1>2, <1>3 DEF LocalComputed
<1>5. TotalComputed(c) = IF LocalComputed(c) < MaxModelLen THEN LocalComputed(c) ELSE MaxModelLen
  BY <1>2, <1>4 DEF TotalComputed, Lesser
<1>6. TokensNeedSlot(c) = IF TotalComputed(c) + c.new + c.lookahead < MaxModelLen
                          THEN TotalComputed(c) + c.new + c.lookahead ELSE MaxModelLen
  BY DEF TokensNeedSlot, Lesser
<1>7. CacheableTokens(c) = IF TotalComputed(c) + c.new < c.numTokens THEN TotalComputed(c) + c.new
                           ELSE c.numTokens
  BY <1>2 DEF CacheableTokens, Lesser
<1> DEFINE a == LocalComputed(c)
           t == TotalComputed(c)
           k == TokensNeedSlot(c)
<1>8. /\ a \in Nat /\ t \in Nat /\ t <= a /\ t <= MaxModelLen /\ (a <= MaxModelLen => t = a)
      /\ c.new \in Nat /\ c.lookahead \in Nat
  BY <1>1, <1>2, <1>4, <1>5
<1>9. /\ k \in Nat /\ k <= MaxModelLen /\ k <= t + c.new + c.lookahead
      /\ t + c.new <= k \/ k = MaxModelLen
  BY <1>1, <1>6, <1>8
<1>10. /\ CacheableTokens(c) \in Nat /\ CacheableTokens(c) <= c.numTokens
       /\ CacheableTokens(c) <= t + c.new
  BY <1>2, <1>7, <1>8
<1> HIDE DEF a, t, k
<1>11. k <= a + c.new + c.lookahead /\ (a + c.new <= MaxModelLen => a + c.new <= k)
  BY <1>1, <1>8, <1>9
<1>12. CacheableTokens(c) <= a + c.new /\ CacheableTokens(c) <= k
  BY <1>1, <1>2, <1>8, <1>9, <1>10
<1> QED BY <1>8, <1>9, <1>10, <1>11, <1>12 DEF a, t, k

\* What an allocation needs is the blocks it takes and the free hits.
LEMMA DemandType ==
    ASSUME NEW m, NEW c, ManagerOK(m), CallOK(m, c), NEW n \in Nat
    PROVE  /\ Cardinality({i \in DOMAIN c.hits : m.pool.ref[c.hits[i]] = 0}) \in Nat
           /\ NumBlocksToAllocate(m, c.req, n, c.hits) \in Nat
           /\ Greater(CDiv(n, BlockSize) - (Len(c.hits) + Len(m.table[c.req])), 0)
                  + Cardinality({i \in DOMAIN c.hits : m.pool.ref[c.hits[i]] = 0})
               = NumBlocksToAllocate(m, c.req, n, c.hits)
<1> DEFINE I == {i \in DOMAIN c.hits : m.pool.ref[c.hits[i]] = 0}
<1>1. IsFiniteSet(DOMAIN c.hits) /\ Len(c.hits) \in Nat
  <2>1. PICK h \in Seq(Blocks) : h = c.hits
    BY DEF CallOK
  <2>2. IsFiniteSet(1 .. Len(h))
    BY <2>1, FS_Interval
  <2> QED BY <2>1, <2>2
<1>2. Cardinality(I) \in Nat
  <2>1. I \subseteq DOMAIN c.hits
    OBVIOUS
  <2> HIDE DEF I
  <2> QED BY <1>1, <2>1, FS_Subset, FS_CardinalityType
<1>3. CDiv(n, BlockSize) \in Nat
  BY KVCacheManagerAssumption, CDivFacts
<1>4. Len(m.table[c.req]) \in Nat
  <2>1. c.req \in Requests /\ Held(m.pool, m.table, m.numCached)
    BY DEF CallOK, ManagerOK
  <2> QED BY <2>1, HeldFacts
<1> DEFINE x == CDiv(n, BlockSize) - (Len(c.hits) + Len(m.table[c.req]))
<1>5. Greater(x, 0) \in Nat
  <2>1. x \in Int
    <3> DEFINE u == CDiv(n, BlockSize)
               v == Len(c.hits)
               w == Len(m.table[c.req])
    <3>1. u \in Nat /\ v \in Nat /\ w \in Nat
      BY <1>1, <1>3, <1>4
    <3>2. x = u - (v + w)
      OBVIOUS
    <3> HIDE DEF u, v, w, x
    <3> QED BY <3>1, <3>2
  <2> HIDE DEF x
  <2> QED BY <2>1 DEF Greater
<1>6. NumBlocksToAllocate(m, c.req, n, c.hits) = Greater(x, 0) + Cardinality(I)
  BY DEF NumBlocksToAllocate
<1> HIDE DEF x, I
<1>7. NumBlocksToAllocate(m, c.req, n, c.hits) \in Nat
  BY <1>2, <1>5, <1>6
<1> QED BY <1>2, <1>6, <1>7 DEF x, I

\* What the gates let through, the pool can give: the hits nobody holds are
\* counted as demand.
LEMMA GateSuffices ==
    ASSUME NEW m, NEW c, ManagerOK(m), CallOK(m, c), CanAllocateSlots(m, c)
    PROVE  /\ NumNewBlocks(m, c) \in Nat
           /\ CanGetNewBlocks(Touch(m.pool, Range(c.hits)), NumNewBlocks(m, c))
<1> DEFINE p == m.pool
           h == c.hits
           S == Range(h)
           g == Touch(p, S)
           I == {i \in DOMAIN h : p.ref[h[i]] = 0}
           Z == {b \in Blocks : p.ref[b] = 0}
           Y == {b \in Blocks : g.ref[b] = 0}
           X == {h[i] : i \in I}
           len == Len(m.table[c.req])
           need == TokensNeedSlot(c)
           new == Greater(CDiv(need, BlockSize) - (Len(h) + len), 0)
<1>1. p \in PoolRecord /\ FreeQueueExact(p) /\ Held(p, m.table, m.numCached) /\ c.req \in Requests
      /\ h \in Seq(Blocks) /\ c.reserved = 0
  BY DEF ManagerOK, Held, CallOK
<1>2. p.ref \in [Blocks -> Nat] /\ len \in Nat /\ m.table[c.req] \in Seq(Blocks)
  BY <1>1, HeldFacts
<1>3. need \in Nat /\ CDiv(need, BlockSize) \in Nat
  BY CallTokens, KVCacheManagerAssumption, CDivFacts
<1>4. NumNewBlocks(m, c) = new /\ new \in Nat
  <2>1. Len(AdoptedTable(m, c)) = Len(h) + len
    <3>1. PICK q \in Seq(Blocks) : q = m.table[c.req]
      BY <1>2
    <3>2. PICK z \in Seq(Blocks) : z = h
      BY <1>1
    <3>3. Len(q \o z) = Len(q) + Len(z) /\ Len(q) \in Nat /\ Len(z) \in Nat
      OBVIOUS
    <3>4. AdoptedTable(m, c) = q \o z /\ Len(h) = Len(z) /\ len = Len(q)
      BY <3>1, <3>2 DEF AdoptedTable
    <3> HIDE DEF h, len
    <3> QED BY <3>3, <3>4
  <2>2. Len(h) \in Nat
    BY <1>1
  <2> HIDE DEF h, len, need
  <2> QED BY <1>2, <1>3, <2>1, <2>2 DEF NumNewBlocks, Greater, need
<1>5. new + Cardinality(I) = StepDemand(m, c) /\ Cardinality(I) \in Nat /\ StepDemand(m, c) \in Nat
  BY <1>3, DemandType DEF StepDemand
<1>6. FullDemand(m, c) \in Nat
  <2>1. Lesser(c.numTokens, MaxModelLen) \in Nat
    BY KVCacheManagerAssumption DEF CallOK, Lesser
  <2> QED BY <2>1, DemandType DEF FullDemand
<1>7. StepDemand(m, c) <= NumFree(p)
  <2>1. WatermarkBlocks(c) \in Nat /\ StateReserve(m, c) \in Nat
    BY KVCacheManagerAssumption DEF WatermarkBlocks, StateReserve
  <2>2. StepDemand(m, c) <= GateStep(m, c)
    BY <1>5, <1>6, <2>1 DEF GateStep, Greater
  <2>3. GateStep(m, c) \in Nat
    BY <1>5, <1>6, <2>1 DEF GateStep, Greater
  <2>4. GateStep(m, c) + StateReserve(m, c) + 0 <= NumFree(p)
    BY <1>1 DEF CanAllocateSlots, PassesStep
  <2>5. NumFree(p) \in Nat
    BY <1>1, FreeCount
  <2> QED BY <1>5, <2>1, <2>2, <2>3, <2>4, <2>5
<1>8. /\ g \in PoolRecord /\ FreeQueueExact(g)
      /\ g.ref = [b \in Blocks |-> IF b \in S THEN p.ref[b] + 1 ELSE p.ref[b]]
  BY <1>1, <1>2, TouchProperties
<1>9. NumFree(p) = Cardinality(Z) /\ IsFiniteSet(Z) /\ NumFree(g) = Cardinality(Y)
  BY <1>1, <1>8, FreeCount
<1>10. Y = Z \ X /\ X \subseteq Z
  <2>1. X \subseteq Z
    BY <1>1
  <2>2. \A b \in Blocks : b \in X <=> b \in S /\ p.ref[b] = 0
    BY DEF Range
  <2> HIDE DEF S, X, g
  <2> QED BY <1>2, <1>8, <2>1, <2>2
<1>11. IsFiniteSet(I)
  <2>1. PICK z \in Seq(Blocks) : z = h
    BY <1>1
  <2>2. IsFiniteSet(1 .. Len(z)) /\ DOMAIN z = 1 .. Len(z)
    BY FS_Interval
  <2> QED BY <2>1, <2>2, FS_Subset
<1> HIDE DEF I, Y, Z, g, h, S, new, need, len, p
<1>12. IsFiniteSet(X) /\ Cardinality(X) <= Cardinality(I) /\ Cardinality(X) \in Nat
  <2> DEFINE f == [i \in I |-> h[i]]
  <2>1. f \in Surjection(I, X)
    BY DEF Surjection
  <2> HIDE DEF f, X
  <2> QED BY <1>11, <2>1, FS_Surjection, FS_CardinalityType
<1> HIDE DEF X
<1>13. Cardinality(Y) = Cardinality(Z) - Cardinality(X)
  <2>1. Z \cap X = X
    BY <1>10
  <2> QED BY <1>9, <1>10, <2>1, FS_Difference
<1>14. Cardinality(Z) \in Nat
  BY <1>9, FS_CardinalityType
<1>15. new <= NumFree(g)
  BY <1>4, <1>5, <1>7, <1>9, <1>12, <1>13, <1>14
<1> QED BY <1>4, <1>15 DEF CanGetNewBlocks, g, S, p, h

\* What allocate_slots does: the hits and then the blocks Got(m, c) join the table
\* of the request; the blocks up to CachedAfter(m, c) are under its keys.
Got(m, c) == NewBlocks(Touch(m.pool, Range(c.hits)), NumNewBlocks(m, c))
Allocated(m, c, A) ==
    /\ ManagerOK(A)
    /\ A.table = [m.table EXCEPT ![c.req] = AdoptedTable(m, c) \o Got(m, c)]
    /\ A.numCached = [m.numCached EXCEPT ![c.req] = CachedAfter(m, c)]
    /\ CachedBefore(m, c) \in Nat /\ CachedAfter(m, c) \in Nat
    /\ CachedBefore(m, c) <= CachedAfter(m, c)
    /\ \/ CachedAfter(m, c) = CachedBefore(m, c)
       \/ CachedAfter(m, c) * BlockSize <= CacheableTokens(c)
    /\ TokensNeedSlot(c) <= Len(A.table[c.req]) * BlockSize
    /\ Got(m, c) \in Seq(Blocks)
    /\ \A b \in Range(Got(m, c)) : m.pool.ref[b] = 0 /\ b \notin Range(c.hits)
    /\ \A b \in Blocks :
          \/ b \notin Range(Got(m, c)) /\ A.pool.hash[b] = m.pool.hash[b]
          \/ b \in Range(Got(m, c)) /\ A.pool.hash[b] = NoKey
          \/ \E i \in CachedBefore(m, c) + 1 .. CachedAfter(m, c) :
                /\ b = A.table[c.req][i] /\ A.pool.hash[b] = BlockKey(c.req, i)
                /\ b \notin Range(Got(m, c)) => m.pool.hash[b] = NoKey
    /\ \A b \in Blocks : b \notin Range(Got(m, c)) /\ b \notin Range(c.hits)
                             => A.pool.ref[b] = m.pool.ref[b]

\* allocate_slots, once its gates have passed, succeeds and keeps the manager.
LEMMA AllocateOK ==
    ASSUME NEW m, NEW c, ManagerOK(m), CallOK(m, c), CanAllocateSlots(m, c)
    PROVE  AllocationSucceeds(m, c) /\ Allocated(m, c, AllocateSlots(m, c))
<1> DEFINE r == c.req
           h == c.hits
           p0 == m.pool
           T0 == m.table
           n0 == m.numCached
           p1 == Touch(p0, Range(h))
           t1 == T0[r] \o h
           T1 == [T0 EXCEPT ![r] = t1]
           l == IF h = << >> THEN n0[r] ELSE Len(h)
           n1 == [n0 EXCEPT ![r] = l]
           k == NumNewBlocks(m, c)
           got == NewBlocks(p1, k)
           p2 == GetNewBlocks(p1, k)
           t2 == t1 \o got
           T2 == [T1 EXCEPT ![r] = t2]
           z == CachedAfter(m, c)
           blks == SubSeq(t2, l + 1, z)
           keys == BlockKeys(r, l, z)
           p3 == CacheFullBlocks(p2, blks, keys)
           n3 == [n1 EXCEPT ![r] = z]
           A == AllocateSlots(m, c)
<1>1. /\ m \in Managers /\ Held(p0, T0, n0) /\ r \in Requests /\ h \in Seq(Blocks)
      /\ h # << >> => T0[r] = << >>
      /\ \A i \in 1 .. Len(h) : Keyed(i) /\ p0.hash[h[i]] = BlockKey(r, i)
  BY DEF ManagerOK, CallOK
<1>2. /\ p0 \in PoolRecord /\ T0 \in [Requests -> Seq(Blocks)] /\ n0 \in [Requests -> Nat]
      /\ p0.ref \in [Blocks -> Nat] /\ p0.hash \in [Blocks -> Keys \cup {NoKey}]
  <2>1. p0.ref \in [Blocks -> Nat]
    BY <1>1, HeldFacts
  <2>2. p0 \in PoolRecord
    BY <1>1 DEF Managers
  <2>3. p0.hash \in [Blocks -> Keys \cup {NoKey}]
    BY <2>2 DEF PoolRecord
  <2>4. T0 \in [Requests -> Seq(Blocks)] /\ n0 \in [Requests -> Nat]
    BY <1>1 DEF Managers
  <2> QED BY <2>1, <2>2, <2>3, <2>4
<1>3. Held(p1, T1, n1)
  BY <1>1, AdoptHits
<1>4. k \in Nat /\ CanGetNewBlocks(p1, k)
  BY GateSuffices
<1>5. /\ p1.hash = p0.hash
      /\ p1.ref = [b \in Blocks |-> IF b \in Range(h) THEN p0.ref[b] + 1 ELSE p0.ref[b]]
  BY <1>2, TouchKeeps, TouchProperties
<1> HIDE DEF p1, k
<1>6. T1 \in [Requests -> Seq(Blocks)] /\ T1[r] = t1 /\ n1[r] = l
      /\ n1 \in [Requests -> Nat] /\ t1 \in Seq(Blocks) /\ l \in Nat /\ l <= Len(t1)
      /\ l * BlockSize <= MaxModelLen
  <2> DEFINE U == T1
  <2>1. U[r] = t1 /\ n1[r] = l
    BY <1>1, <1>2
  <2>2. U \in [Requests -> Seq(Blocks)] /\ n1 \in [Requests -> Nat]
    BY <1>3 DEF Held, Tables
  <2>3. Held(p1, U, n1) /\ r \in Requests
    BY <1>1, <1>3
  <2> HIDE DEF U, n1, r, l, t1
  <2>4. U[r] \in Seq(Blocks) /\ n1[r] \in Nat /\ n1[r] <= Len(U[r]) /\ n1[r] * BlockSize <= MaxModelLen
    BY ONLY <2>3, HeldFacts
  <2> QED BY <2>1, <2>2, <2>4 DEF U
<1> HIDE DEF T1, n1, t1, l
<1>7. /\ Held(p2, [T1 EXCEPT ![r] = @ \o got], n1)
      /\ got \in Seq(Blocks) /\ Len(got) = k
      /\ \A b \in Range(got) : p1.ref[b] = 0 /\ p2.hash[b] = NoKey
      /\ \A b \in Blocks : b \notin Range(got) => p2.hash[b] = p1.hash[b] /\ p2.ref[b] = p1.ref[b]
  <2>1. r \in Requests
    BY <1>1
  <2> HIDE DEF r, p0, T0, n0, h
  <2>2. CanGetNewBlocks(p1, k) /\ k \in Nat /\ Held(p1, T1, n1)
    BY <1>3, <1>4
  <2> QED BY ONLY <2>1, <2>2, GrowTable DEF got, p2
<1> HIDE DEF p2, got
<1>8. Held(p2, T2, n1)
  <2>1. [T1 EXCEPT ![r] = @ \o got] = T2
    BY <1>6
  <2> QED BY <1>7, <2>1
<1>9. t2 \in Seq(Blocks) /\ Len(t2) = Len(t1) + k /\ Len(t1) \in Nat
  <2>1. PICK x \in Seq(Blocks) : x = t1
    BY <1>6
  <2>2. PICK y \in Seq(Blocks) : y = got
    BY <1>7
  <2>3. x \o y \in Seq(Blocks) /\ Len(x \o y) = Len(x) + Len(y) /\ Len(x) \in Nat
    OBVIOUS
  <2> QED BY <1>7, <2>1, <2>2, <2>3
<1> HIDE DEF t2
<1>10. T2 \in [Requests -> Seq(Blocks)] /\ T2[r] = t2
  BY <1>1, <1>6, <1>9
<1> HIDE DEF T2
<1>11. BlockSize \in Nat \ {0} /\ MaxModelLen \in Nat
  BY KVCacheManagerAssumption
<1>12. /\ TokensNeedSlot(c) \in Nat /\ CacheableTokens(c) \in Nat
       /\ CacheableTokens(c) <= c.numTokens /\ CacheableTokens(c) <= TokensNeedSlot(c)
       /\ c.numTokens \in Nat /\ c.numTokens <= MaxModelLen
  BY CallTokens DEF CallOK
<1>13. TokensNeedSlot(c) <= Len(t2) * BlockSize /\ Len(t2) * BlockSize \in Nat
  <2> DEFINE d == CDiv(TokensNeedSlot(c), BlockSize)
  <2>1. d \in Nat /\ TokensNeedSlot(c) <= d * BlockSize
    BY <1>11, <1>12, CDivFacts
  <2>2. k = Greater(d - Len(t1), 0)
    BY DEF NumNewBlocks, AdoptedTable, k, t1
  <2> HIDE DEF d
  <2>3. d <= Len(t2)
    <3>1. d - Len(t1) \in Int
      BY <1>9, <2>1
    <3>2. d - Len(t1) <= k
      BY <2>2, <3>1, GreaterFacts
    <3> QED BY <1>4, <1>9, <2>1, <3>2
  <2>4. Len(t2) \in Nat
    BY <1>4, <1>9
  <2>5. d * BlockSize \in Nat /\ Len(t2) * BlockSize \in Nat /\ d * BlockSize <= Len(t2) * BlockSize
    BY <1>11, <2>1, <2>3, <2>4, MulMono
  <2> QED BY <1>12, <2>1, <2>5
<1>14. CachedBefore(m, c) = l
  BY DEF CachedBefore, l
<1>15. z \in Nat /\ l <= z /\ (z = l \/ z * BlockSize <= CacheableTokens(c))
  <2> DEFINE d == CacheableTokens(c) \div BlockSize
  <2>1. d \in Nat /\ d * BlockSize <= CacheableTokens(c)
    BY <1>11, <1>12, DivFacts
  <2>2. z = Greater(d, l)
    BY <1>14 DEF CachedAfter
  <2> HIDE DEF d, z
  <2>3. Greater(d, l) \in {d, l} /\ l <= Greater(d, l)
    BY <1>6, <2>1, GreaterFacts
  <2> QED BY <1>6, <2>1, <2>2, <2>3
<1> HIDE DEF z
<1>16. z <= Len(t2) /\ z * BlockSize <= MaxModelLen
  <2>1. CASE z = l
    BY <1>4, <1>6, <1>9, <2>1
  <2>2. CASE z * BlockSize <= CacheableTokens(c)
    <3>1. z * BlockSize \in Nat /\ Len(t2) \in Nat
      BY <1>4, <1>9, <1>11, <1>15, MulMono
    <3>2. z * BlockSize <= Len(t2) * BlockSize
      BY <1>12, <1>13, <2>2, <3>1
    <3>3. z <= Len(t2)
      BY <1>11, <1>15, <3>1, <3>2, MulOrder
    <3> QED BY <1>11, <1>12, <2>2, <3>1, <3>3
  <2> QED BY <1>15, <2>1, <2>2
<1>17. /\ CanCacheFull(p2, SubSeq(T2[r], n1[r] + 1, z), BlockKeys(r, n1[r], z))
       /\ Held(CacheFullBlocks(p2, SubSeq(T2[r], n1[r] + 1, z), BlockKeys(r, n1[r], z)), T2, [n1 EXCEPT ![r] = z])
       /\ CacheFullBlocks(p2, SubSeq(T2[r], n1[r] + 1, z), BlockKeys(r, n1[r], z)).ref = p2.ref
       /\ \A b \in Blocks :
             \/ CacheFullBlocks(p2, SubSeq(T2[r], n1[r] + 1, z), BlockKeys(r, n1[r], z)).hash[b] = p2.hash[b]
             \/ \E i \in n1[r] + 1 .. z :
                   /\ b = T2[r][i] /\ p2.hash[b] = NoKey
                   /\ CacheFullBlocks(p2, SubSeq(T2[r], n1[r] + 1, z), BlockKeys(r, n1[r], z)).hash[b] = BlockKey(r, i)
  <2>1. n1[r] <= z /\ z <= Len(T2[r]) /\ z \in Nat /\ r \in Requests
    BY <1>1, <1>6, <1>10, <1>15, <1>16
  <2>2. z * BlockSize <= MaxModelLen /\ n1[r] <= z /\ z <= Len(T2[r])
    BY <1>16, <2>1
  <2> HIDE DEF r
  <2> QED BY <1>8, <2>1, <2>2, FillBlocks
<1>18. /\ CanCacheFull(p2, blks, keys) /\ Held(p3, T2, n3) /\ p3.ref = p2.ref
       /\ \A b \in Blocks : p3.hash[b] = p2.hash[b] \/ \E i \in l + 1 .. z :
                 b = t2[i] /\ p2.hash[b] = NoKey /\ p3.hash[b] = BlockKey(r, i)
  BY <1>6, <1>10, <1>17
<1> HIDE DEF p3, n3
<1>19. /\ GrownTable(m, c) = t2 /\ AdoptedTable(m, c) = t1 /\ Got(m, c) = got
       /\ GrownPool(m, c) = p2 /\ NewlyFull(m, c) = blks /\ NewKeys(m, c) = keys
  <2>1. AdoptedTable(m, c) = t1 /\ Got(m, c) = got
    BY DEF AdoptedTable, t1, Got, got, p1, k
  <2>2. GrownTable(m, c) = t2
    BY <2>1 DEF GrownTable, Got, t2
  <2>3. GrownPool(m, c) = p2
    BY DEF GrownPool, p2, p1, k
  <2>4. NewlyFull(m, c) = blks /\ NewKeys(m, c) = keys
    BY <1>14, <2>2 DEF NewlyFull, NewKeys, z
  <2> QED BY <2>1, <2>2, <2>3, <2>4
<1>20. AllocationSucceeds(m, c)
  BY <1>1, <1>4, <1>18, <1>19 DEF AllocationSucceeds, p1, k
<1> HIDE DEF blks, keys
<1>21. /\ A \in Managers /\ A.pool = p3
       /\ A.table = [T0 EXCEPT ![r] = t2] /\ A.numCached = [n0 EXCEPT ![r] = z]
  <2> DEFINE x == IF T0[r] = << >> THEN 0 ELSE m.blocked[r]
  <2>1. A = [m EXCEPT !.pool = p3, !.table[r] = t2, !.numCached[r] = z, !.blocked[r] = x]
    BY <1>1, <1>19 DEF AllocateSlots, p3, z
  <2>2. x \in 0 .. ReserveAge
    BY <1>1, KVCacheManagerAssumption DEF Managers
  <2> HIDE DEF x, A
  <2>3. p3 \in PoolRecord
    BY <1>18 DEF Held
  <2> QED BY <1>1, <1>9, <1>15, <2>1, <2>2, <2>3 DEF Managers
<1> HIDE DEF A
<1>22. A.table = T2 /\ A.numCached = n3
  <2>1. [T0 EXCEPT ![r] = t2] = T2
    BY <1>1, <1>2, <1>9 DEF T2, T1
  <2>2. [n0 EXCEPT ![r] = z] = n3
    BY <1>1, <1>2, <1>15 DEF n3, n1
  <2> QED BY <1>21, <2>1, <2>2
<1>23. ManagerOK(A)
  BY <1>18, <1>21, <1>22 DEF ManagerOK
<1>24. \A b \in Range(got) : p0.ref[b] = 0 /\ b \notin Range(h)
  <2> SUFFICES ASSUME NEW b \in Range(got) PROVE p0.ref[b] = 0 /\ b \notin Range(h)
    OBVIOUS
  <2>1. b \in Blocks /\ p1.ref[b] = 0
    BY <1>7 DEF Range
  <2>2. p0.ref[b] \in Nat
    BY <1>2, <2>1
  <2>3. p1.ref[b] = IF b \in Range(h) THEN p0.ref[b] + 1 ELSE p0.ref[b]
    BY <1>5, <2>1
  <2> QED BY <2>1, <2>2, <2>3
<1>25. ASSUME NEW b \in Blocks
       PROVE  \/ b \notin Range(got) /\ A.pool.hash[b] = p0.hash[b]
              \/ b \in Range(got) /\ A.pool.hash[b] = NoKey
              \/ \E i \in l + 1 .. z :
                    /\ b = A.table[r][i] /\ A.pool.hash[b] = BlockKey(r, i)
                    /\ b \notin Range(got) => p0.hash[b] = NoKey
  <2>1. \/ p3.hash[b] = p2.hash[b]
        \/ \E i \in l + 1 .. z : b = t2[i] /\ p2.hash[b] = NoKey /\ p3.hash[b] = BlockKey(r, i)
    BY <1>18
  <2>2. b \notin Range(got) => p2.hash[b] = p0.hash[b]
    BY <1>5, <1>7
  <2>3. b \in Range(got) => p2.hash[b] = NoKey
    BY <1>7
  <2> QED BY <1>10, <1>21, <1>22, <2>1, <2>2, <2>3
<1>26. ASSUME NEW b \in Blocks, b \notin Range(got), b \notin Range(h)
       PROVE  A.pool.ref[b] = p0.ref[b]
  BY <1>5, <1>7, <1>18, <1>21, <1>26
<1>27. TokensNeedSlot(c) <= Len(A.table[r]) * BlockSize
  BY <1>10, <1>13, <1>22
<1>28. A.table = [T0 EXCEPT ![r] = AdoptedTable(m, c) \o Got(m, c)]
  BY <1>19, <1>21 DEF t2
<1> QED
  BY <1>6, <1>7, <1>14, <1>15, <1>19, <1>20, <1>21, <1>23, <1>24, <1>25, <1>26, <1>27, <1>28
  DEF Allocated, A, z

----------------------------------------------------------------------------
(* The inductive invariant.                                                *)

RequestRecord ==
    [status : Statuses, computed : 0 .. MaxModelLen, ntok : 1 .. MaxModelLen,
     drafts : 0 .. NumSpec, chunk : BOOLEAN, accepted : 0 .. NumSpec]

Requested ==
    /\ req \in [Requests -> RequestRecord]
    /\ \A r \in Requests :
        /\ req[r].status # "finished" => req[r].ntok < Total(r)
        /\ req[r].status \in {"new", "waiting", "preempted"} => req[r].computed = 0
        /\ req[r].status # "running" => kv.table[r] = << >>

Delivered(r) == step.phase = "update" /\ \E j \in DOMAIN running : j < step.idx /\ running[j] = r

Queues ==
    /\ running \in Seq(Requests) /\ waiting \in Seq(Requests)
    /\ Unique(running) /\ Unique(waiting) /\ Len(running) <= MaxRunning
    /\ Range(waiting) = {r \in Requests : req[r].status \in {"waiting", "preempted"}}
    /\ \A r \in Requests : req[r].status = "running" => r \in Range(running)
    /\ \A r \in Range(running) :
          req[r].status = "running" \/ (req[r].status = "finished" /\ Delivered(r))

\* Tokens by request.
Shares == UNION {[S -> Nat] : S \in SUBSET Requests}
StepRecord ==
    [phase : Phases \ {"crashed"}, idx : Nat, want : Nat,
     budget : 0 .. TokenBudget, input : 0 .. InputBudget, sched : Shares, specs : Shares,
     ran : SUBSET Requests, prefill : BOOLEAN, preempted : BOOLEAN, defer : BOOLEAN]

\* The sum of f[r] + k over a finite set of requests, as a number of pairs.
Units(f, k) == UNION {{r} \X (1 .. f[r] + k) : r \in DOMAIN f}

Scheduling == step.phase \in {"running", "waiting", "dispatch"}
Batch == DOMAIN step.sched

Counters == counter \in 0 .. Interval - 1 /\ flush \in BOOLEAN /\ resets \in 0 .. MaxResets

Budgets ==
    /\ step.budget + Cardinality(Units(step.sched, 0)) = TokenBudget
    /\ step.input + Cardinality(Units(step.sched, DraftSlots)) = InputBudget
    /\ Batch \subseteq Range(running)
    /\ step.idx # 0

Wanted(r) ==
    /\ ~Deferred(r)
    /\ step.want <= step.budget /\ step.want + DraftSlots <= step.input
    /\ step.want + req[r].computed < MaxModelLen
    /\ step.want + req[r].computed <= req[r].ntok + req[r].drafts

Steps ==
    /\ step \in StepRecord
    /\ DOMAIN step.specs = Batch
    /\ \A r \in Batch : step.sched[r] # 0
    /\ Scheduling => Budgets
    /\ step.phase = "running" =>
          /\ step.ran = Batch
          /\ \A r \in step.ran : \E j \in DOMAIN running : j < step.idx /\ running[j] = r
    /\ step.phase \in {"idle", "resetting"} => Batch = {}
    /\ step.phase = "update" => step.idx # 0
    /\ step.ran \subseteq Batch
    /\ step.want > 0 => step.phase = "running" /\ step.idx <= Len(running) /\ Wanted(Current)

\* n blocks of the l in the table are cached, q is the request, a the tokens and d
\* the drafts it was given.  Between two passes; in the batch being put together;
\* and after the pass, before its output is delivered.
Resting(n, l, q) ==
    /\ n * BlockSize <= q.computed /\ q.computed <= l * BlockSize
    /\ q.computed < q.ntok
Batched(n, l, q, a, d) ==
    /\ n * BlockSize <= q.ntok /\ n * BlockSize <= q.computed + a
    /\ q.computed + a <= l * BlockSize /\ q.computed + a <= MaxModelLen
    /\ q.computed < q.ntok
    /\ d = Greater(q.computed + a - q.ntok, 0) /\ d <= NumSpec
Ran(n, l, q, d) ==
    /\ n * BlockSize <= q.ntok /\ n * BlockSize <= q.computed
    /\ q.computed <= l * BlockSize
    /\ q.chunk = (q.computed < q.ntok)
    /\ d = Greater(q.computed - q.ntok, 0) /\ q.accepted <= d

Passed(r) == step.phase \in {"executed", "update"} /\ r \in Batch /\ ~Delivered(r)
Advance(r) ==
    IF Scheduling /\ r \in Batch
    THEN Batched(kv.numCached[r], Len(kv.table[r]), req[r], step.sched[r], step.specs[r])
    ELSE IF Passed(r) THEN Ran(kv.numCached[r], Len(kv.table[r]), req[r], step.specs[r])
    ELSE Resting(kv.numCached[r], Len(kv.table[r]), req[r])
Progress == \A r \in Requests : req[r].status = "running" => Advance(r)

\* A block that two requests share was computed before one of them came.
Owned(T, q) ==
    \A r, s \in Requests : r # s =>
        \A i \in 1 .. Len(T[r]) : \A j \in 1 .. Len(T[s]) :
            T[r][i] = T[s][j] => i * BlockSize <= q[r].computed \/ j * BlockSize <= q[s].computed
OwnedOnce == Owned(kv.table, req)

SlotContents == [Blocks -> [1 .. BlockSize -> Keys \cup {NoKey}]]
Written == slots \in SlotContents

IInv ==
    /\ ManagerOK(kv) /\ Requested /\ Queues /\ Steps /\ Counters /\ Progress /\ OwnedOnce
    /\ Written

----------------------------------------------------------------------------
(* Queues.                                                                 *)

\* A queue without one request.
LEMMA WithoutIs ==
    ASSUME NEW q \in Seq(Requests), Unique(q), NEW r
    PROVE  /\ Without(q, r) \in Seq(Requests) /\ Unique(Without(q, r))
           /\ Range(Without(q, r)) = Range(q) \ {r}
           /\ Len(Without(q, r)) <= Len(q)
<1>1. Range(q) \subseteq Requests
  BY DEF Range
<1>2. Range(q) \cap (Requests \ {r}) = Range(q) \ {r}
  BY <1>1
<1> QED BY <1>2, KeepProperties, KeepOrder DEF Without

\* Where the others are once the k-th has left.
LEMMA WithoutIndex ==
    ASSUME NEW q \in Seq(Requests), Unique(q), NEW k \in DOMAIN q
    PROVE  /\ Len(Without(q, q[k])) = Len(q) - 1
           /\ \A j \in 1 .. Len(q) : /\ j < k => Without(q, q[k])[j] = q[j]
                                     /\ j > k => Without(q, q[k])[j - 1] = q[j]
<1> DEFINE S == Requests \ {q[k]}
<1>1. \A x \in Requests : x \in S <=> x # q[k]
  OBVIOUS
<1> HIDE DEF S
<1>2. /\ Len(Keep(q, S)) = Len(q) - 1
      /\ \A j \in 1 .. Len(q) : /\ j < k => Keep(q, S)[j] = q[j]
                                /\ j > k => Keep(q, S)[j - 1] = q[j]
  BY <1>1, KeepAllBut
<1> QED BY <1>2 DEF Without, S

\* A queue of one request.
LEMMA SingletonIs ==
    ASSUME NEW r \in Requests
    PROVE  << r >> \in Seq(Requests) /\ Range(<< r >>) = {r} /\ Unique(<< r >>)
  BY DEF Range, Unique

\* The priority heap with one request more.
LEMMA SortedIs ==
    ASSUME NEW q \in Seq(Requests), Unique(q), NEW r \in Requests, r \notin Range(q)
    PROVE  /\ Sorted(q, r) \in Seq(Requests) /\ Unique(Sorted(q, r))
           /\ Range(Sorted(q, r)) = Range(q) \cup {r}
<1> DEFINE L == {s \in Requests : Priority[s] < Priority[r]}
           G == {s \in Requests : Priority[s] > Priority[r]}
           a == Keep(q, L)
           b == << r >>
           c == Keep(q, G)
<1>1. /\ a \in Seq(Requests) /\ Unique(a) /\ Range(a) = Range(q) \cap L
      /\ c \in Seq(Requests) /\ Unique(c) /\ Range(c) = Range(q) \cap G
  BY KeepProperties
<1>2. b \in Seq(Requests) /\ Range(b) = {r} /\ Unique(b)
  BY SingletonIs
<1>3. Range(q) \subseteq Requests
  BY DEF Range
<1>4. /\ L \cap G = {} /\ r \notin L /\ r \notin G
      /\ \A s \in Requests : s = r \/ s \in L \/ s \in G
  BY SchedulerAssumption
<1> HIDE DEF L, G, a, b, c
<1>5. a \o b \in Seq(Requests) /\ Unique(a \o b) /\ Range(a \o b) = Range(a) \cup {r}
  <2>1. Range(a) \cap Range(b) = {}
    BY <1>1, <1>2
  <2> QED BY <1>1, <1>2, <2>1, ConcatUnique
<1> DEFINE d == a \o b
<1>6. d \in Seq(Requests) /\ Unique(d) /\ Range(d) = Range(a) \cup {r}
  BY <1>5
<1> HIDE DEF d
<1>7. d \o c \in Seq(Requests) /\ Unique(d \o c) /\ Range(d \o c) = Range(d) \cup Range(c)
  <2>1. Range(d) \cap Range(c) = {}
    BY <1>1, <1>4, <1>6
  <2> QED BY <1>1, <1>6, <2>1, ConcatUnique
<1>8. Sorted(q, r) = d \o c
  BY DEF Sorted, d, a, b, c, L, G
<1>9. Range(d) \cup Range(c) = Range(q) \cup {r}
  BY <1>1, <1>3, <1>4, <1>6
<1> QED BY <1>7, <1>8, <1>9

\* add_request.
LEMMA EnqueuedIs ==
    ASSUME NEW q \in Seq(Requests), Unique(q), NEW r \in Requests, r \notin Range(q)
    PROVE  /\ Enqueued(q, r) \in Seq(Requests) /\ Unique(Enqueued(q, r))
           /\ Range(Enqueued(q, r)) = Range(q) \cup {r}
<1>1. /\ Append(q, r) \in Seq(Requests) /\ Unique(Append(q, r))
      /\ Range(Append(q, r)) = Range(q) \cup {r}
  BY AppendUnique
<1>2. /\ Sorted(q, r) \in Seq(Requests) /\ Unique(Sorted(q, r))
      /\ Range(Sorted(q, r)) = Range(q) \cup {r}
  BY SortedIs
<1> QED BY <1>1, <1>2 DEF Enqueued

\* prepend_request.
LEMMA PrependedIs ==
    ASSUME NEW q \in Seq(Requests), Unique(q), NEW r \in Requests, r \notin Range(q)
    PROVE  /\ Prepended(q, r) \in Seq(Requests) /\ Unique(Prepended(q, r))
           /\ Range(Prepended(q, r)) = Range(q) \cup {r}
<1> DEFINE b == << r >>
<1>1. b \in Seq(Requests) /\ Range(b) = {r} /\ Unique(b)
  BY SingletonIs
<1> HIDE DEF b
<1>2. b \o q \in Seq(Requests) /\ Unique(b \o q) /\ Range(b \o q) = Range(q) \cup {r}
  <2>1. Range(b) \cap Range(q) = {}
    BY <1>1
  <2> QED BY <1>1, <2>1, ConcatUnique
<1>3. /\ Sorted(q, r) \in Seq(Requests) /\ Unique(Sorted(q, r))
      /\ Range(Sorted(q, r)) = Range(q) \cup {r}
  BY SortedIs
<1> QED BY <1>2, <1>3 DEF Prepended, b

\* The two ends of a queue.
LEMMA EndsAre ==
    ASSUME NEW q \in Seq(Requests), Unique(q), q # << >>
    PROVE  /\ Last(q) \in Range(q) /\ Last(q) \in Requests
           /\ Front(q) \in Seq(Requests) /\ Unique(Front(q))
           /\ Range(Front(q)) = Range(q) \ {Last(q)} /\ Len(Front(q)) <= Len(q)
           /\ Head(q) \in Range(q) /\ Head(q) \in Requests
           /\ Tail(q) \in Seq(Requests) /\ Unique(Tail(q))
           /\ Range(Tail(q)) = Range(q) \ {Head(q)}
<1> DEFINE n == Len(q)
<1>1. n \in Nat /\ n # 0 /\ DOMAIN q = 1 .. n /\ \A i \in 1 .. n : q[i] \in Requests
  BY EmptySeq
<1>2. Last(q) = q[n] /\ Last(q) \in Range(q) /\ Last(q) \in Requests
  BY <1>1 DEF Last, Range
<1>3. Head(q) = q[1] /\ Head(q) \in Range(q) /\ Head(q) \in Requests
  BY <1>1 DEF Range
<1>4. /\ Front(q) \in Seq(Requests) /\ DOMAIN Front(q) = 1 .. n - 1 /\ Len(Front(q)) = n - 1
      /\ \A i \in 1 .. n - 1 : Front(q)[i] = q[i]
  BY <1>1 DEF Front
<1>5. /\ Tail(q) \in Seq(Requests) /\ DOMAIN Tail(q) = 1 .. n - 1
      /\ \A i \in 1 .. n - 1 : Tail(q)[i] = q[i + 1]
  BY <1>1
<1>6. \A i, j \in 1 .. n : q[i] = q[j] => i = j
  BY <1>1 DEF Unique
<1> HIDE DEF n
<1>7. Unique(Front(q)) /\ Unique(Tail(q))
  BY <1>1, <1>4, <1>5, <1>6 DEF Unique
<1>8. Range(Front(q)) = Range(q) \ {q[n]}
  <2>1. ASSUME NEW x \in Range(Front(q)) PROVE x \in Range(q) \ {q[n]}
    <3>1. PICK i \in 1 .. n - 1 : x = q[i]
      BY <1>4 DEF Range
    <3> QED BY <1>1, <1>6, <3>1 DEF Range
  <2>2. ASSUME NEW x \in Range(q) \ {q[n]} PROVE x \in Range(Front(q))
    <3>1. PICK i \in 1 .. n : x = q[i]
      BY <1>1 DEF Range
    <3>2. i \in 1 .. n - 1
      BY <1>1, <3>1
    <3> QED BY <1>4, <3>1, <3>2 DEF Range
  <2> QED BY <2>1, <2>2
<1>9. Range(Tail(q)) = Range(q) \ {q[1]}
  <2>1. ASSUME NEW x \in Range(Tail(q)) PROVE x \in Range(q) \ {q[1]}
    <3>1. PICK i \in 1 .. n - 1 : x = q[i + 1]
      BY <1>5 DEF Range
    <3>2. i + 1 \in 1 .. n /\ i + 1 # 1
      BY <1>1
    <3> QED BY <1>1, <1>6, <3>1, <3>2 DEF Range
  <2>2. ASSUME NEW x \in Range(q) \ {q[1]} PROVE x \in Range(Tail(q))
    <3>1. PICK i \in 1 .. n : x = q[i]
      BY <1>1 DEF Range
    <3>2. i - 1 \in 1 .. n - 1 /\ (i - 1) + 1 = i
      BY <1>1, <3>1
    <3>3. Tail(q)[i - 1] = q[i]
      BY <1>5, <3>2
    <3> QED BY <1>5, <3>1, <3>2, <3>3 DEF Range
  <2> QED BY <2>1, <2>2
<1> QED BY <1>1, <1>2, <1>3, <1>4, <1>5, <1>7, <1>8, <1>9 DEF n

----------------------------------------------------------------------------
(* Shares and their sums.                                                  *)

\* The tokens of a batch, by request.
LEMMA SharesIs ==
    ASSUME NEW f \in Shares
    PROVE  /\ DOMAIN f \subseteq Requests /\ IsFiniteSet(DOMAIN f)
           /\ \A r \in DOMAIN f : f[r] \in Nat
           /\ f = [r \in DOMAIN f |-> f[r]]
<1>1. PICK S \in SUBSET Requests : f \in [S -> Nat]
  BY DEF Shares
<1> QED BY <1>1, KVCacheManagerAssumption, FS_Subset

\* The batch that is empty.
LEMMA NoShares == << >> \in Shares /\ DOMAIN << >> = {}
<1>1. << >> \in [{} -> Nat]
  OBVIOUS
<1> QED BY <1>1 DEF Shares

\* A request is given tokens.
LEMMA GivenIs ==
    ASSUME NEW f \in Shares, NEW r \in Requests, NEW n \in Nat
    PROVE  /\ Given(f, r, n) \in Shares
           /\ DOMAIN Given(f, r, n) = DOMAIN f \cup {r}
           /\ Given(f, r, n)[r] = n
           /\ \A s \in DOMAIN f : s # r => Given(f, r, n)[s] = f[s]
<1> DEFINE g == Given(f, r, n)
<1>1. g = [s \in DOMAIN f \cup {r} |-> IF s = r THEN n ELSE f[s]]
  BY DEF Given
<1>2. DOMAIN f \subseteq Requests /\ \A s \in DOMAIN f : f[s] \in Nat
  BY SharesIs
<1> HIDE DEF g
<1>3. g \in [DOMAIN f \cup {r} -> Nat] /\ DOMAIN f \cup {r} \in SUBSET Requests
  BY <1>1, <1>2
<1>4. g \in Shares
  BY <1>3 DEF Shares
<1> QED BY <1>1, <1>4 DEF g

\* A request's tokens are taken back.
LEMMA TakenIs ==
    ASSUME NEW f \in Shares, NEW v
    PROVE  /\ Restrict(f, DOMAIN f \ {v}) \in Shares
           /\ DOMAIN Restrict(f, DOMAIN f \ {v}) = DOMAIN f \ {v}
           /\ \A s \in DOMAIN f : s # v => Restrict(f, DOMAIN f \ {v})[s] = f[s]
<1>1. DOMAIN f \subseteq Requests /\ \A s \in DOMAIN f : f[s] \in Nat
  BY SharesIs
<1>2. Restrict(f, DOMAIN f \ {v}) = [s \in DOMAIN f \ {v} |-> f[s]]
  BY DEF Restrict
<1>3. Restrict(f, DOMAIN f \ {v}) \in [DOMAIN f \ {v} -> Nat] /\ DOMAIN f \ {v} \in SUBSET Requests
  BY <1>1, <1>2
<1> QED BY <1>2, <1>3 DEF Shares

\* The units of a batch are finitely many.
LEMMA UnitsType ==
    ASSUME NEW f \in Shares, NEW k \in Nat
    PROVE  IsFiniteSet(Units(f, k)) /\ Cardinality(Units(f, k)) \in Nat
<1> DEFINE P(r) == {r} \X (1 .. f[r] + k)
           U == {P(r) : r \in DOMAIN f}
<1>1. IsFiniteSet(DOMAIN f) /\ \A r \in DOMAIN f : f[r] \in Nat
  BY SharesIs
<1>2. IsFiniteSet(U)
  <2> DEFINE h == [r \in DOMAIN f |-> P(r)]
  <2>1. h \in Surjection(DOMAIN f, U)
    BY DEF Surjection
  <2> HIDE DEF h, U
  <2> QED BY <1>1, <2>1, FS_Surjection
<1>3. ASSUME NEW T \in U PROVE IsFiniteSet(T)
  <2>1. PICK r \in DOMAIN f : T = {r} \X (1 .. f[r] + k)
    BY <1>3
  <2>2. IsFiniteSet({r}) /\ IsFiniteSet(1 .. f[r] + k)
    <3>1. PICK m \in Nat : m = f[r] + k
      BY <1>1
    <3>2. IsFiniteSet({r})
      BY FS_Singleton
    <3>3. IsFiniteSet(1 .. m)
      BY FS_Interval
    <3> QED BY <3>1, <3>2, <3>3
  <2> QED BY <2>1, <2>2, FS_Product
<1>4. Units(f, k) = UNION U
  BY DEF Units
<1> HIDE DEF U
<1>5. IsFiniteSet(Units(f, k))
  BY <1>2, <1>3, <1>4, FS_UNION
<1> QED BY <1>5, FS_CardinalityType

\* One request more.
LEMMA UnitsMore ==
    ASSUME NEW f \in Shares, NEW g \in Shares, NEW k \in Nat, NEW r,
           r \notin DOMAIN f, DOMAIN g = DOMAIN f \cup {r}, \A s \in DOMAIN f : g[s] = f[s]
    PROVE  Cardinality(Units(g, k)) = Cardinality(Units(f, k)) + g[r] + k
<1> DEFINE P == {r} \X (1 .. g[r] + k)
<1>1. g[r] \in Nat
  BY SharesIs
<1>2. Units(g, k) = Units(f, k) \cup P
  BY DEF Units
<1>3. Units(f, k) \cap P = {}
  BY DEF Units
<1>4. IsFiniteSet(P) /\ Cardinality(P) = g[r] + k
  <2>1. IsFiniteSet({r}) /\ Cardinality({r}) = 1
    BY FS_Singleton
  <2>2. IsFiniteSet(1 .. g[r] + k) /\ Cardinality(1 .. g[r] + k) = g[r] + k
    <3>1. g[r] + k \in Nat
      BY <1>1
    <3> QED BY <1>1, <3>1, FS_Interval
  <2>3. IsFiniteSet(P) /\ Cardinality(P) = Cardinality({r}) * Cardinality(1 .. g[r] + k)
    BY <2>1, <2>2, FS_Product
  <2> QED BY <1>1, <2>1, <2>2, <2>3
<1> HIDE DEF P
<1>5. IsFiniteSet(Units(f, k)) /\ Cardinality(Units(f, k)) \in Nat
  BY UnitsType
<1>6. Cardinality(Units(f, k) \cup P) = Cardinality(Units(f, k)) + Cardinality(P) - Cardinality({})
  BY <1>3, <1>4, <1>5, FS_Union
<1>7. Cardinality({}) = 0
  BY FS_EmptySet
<1> QED BY <1>1, <1>2, <1>4, <1>5, <1>6, <1>7

\* An empty batch has spent nothing.
LEMMA UnitsNone ==
    ASSUME NEW k PROVE Cardinality(Units(<< >>, k)) = 0
<1>1. Units(<< >>, k) = {}
  BY NoShares DEF Units
<1> QED BY <1>1, FS_EmptySet

\* When every request has computed what it has cached, a block that two share
\* was computed by both.
LEMMA OwnedIs ==
    ASSUME NEW p, NEW T, NEW n, NEW q, Held(p, T, n),
           \A r \in Requests : q[r].computed \in Nat,
           \A r \in Requests : T[r] # << >> => n[r] * BlockSize <= q[r].computed
    PROVE  Owned(T, q)
<1>0. \A r \in Requests : \A i \in 1 .. Len(T[r]) :
         i > n[r] => p.hash[T[r][i]] = NoKey /\ Holders(T, T[r][i]) = {r}
  <2>1. Held(p, T, n)
    OBVIOUS
  <2> QED BY ONLY <2>1, BlockUnkeyed
<1> SUFFICES ASSUME NEW r \in Requests, NEW s \in Requests, r # s,
                    NEW i \in 1 .. Len(T[r]), NEW j \in 1 .. Len(T[s]), T[r][i] = T[s][j]
             PROVE  i * BlockSize <= q[r].computed
  BY DEF Owned
<1>1. n[r] \in Nat /\ Len(T[r]) \in Nat /\ T[r] \in Seq(Blocks)
  BY HeldFacts
<1>2. i <= n[r]
  <2> SUFFICES ASSUME i > n[r] PROVE FALSE
    BY <1>1
  <2>1. Holders(T, T[r][i]) = {r}
    BY <1>0
  <2>2. T[s][j] \in Range(T[s])
    BY BlockHeld
  <2> QED BY <2>1, <2>2 DEF Holders
<1>3. T[r] # << >>
  BY <1>1
<1>4. BlockSize \in Nat \ {0}
  BY KVCacheManagerAssumption
<1>5. i * BlockSize \in Nat /\ n[r] * BlockSize \in Nat /\ i * BlockSize <= n[r] * BlockSize
  <2>1. PICK a \in Nat : a = i
    BY <1>1
  <2>2. PICK b \in Nat : b = n[r]
    BY <1>1
  <2>3. a * BlockSize \in Nat /\ b * BlockSize \in Nat /\ a * BlockSize <= b * BlockSize
    BY ONLY <1>2, <1>4, <2>1, <2>2, MulMono
  <2> QED BY <2>1, <2>2, <2>3
<1>6. n[r] * BlockSize <= q[r].computed /\ q[r].computed \in Nat
  BY <1>3
<1> QED BY <1>5, <1>6

\* Emptying tables keeps Owned.
LEMMA OwnedLess ==
    ASSUME NEW T, NEW U, NEW q, NEW f, Owned(T, q),
           \A r \in Requests : U[r] = << >> \/ (U[r] = T[r] /\ f[r].computed = q[r].computed)
    PROVE  Owned(U, f)
<1> SUFFICES ASSUME NEW r \in Requests, NEW s \in Requests, r # s,
                    NEW i \in 1 .. Len(U[r]), NEW j \in 1 .. Len(U[s]), U[r][i] = U[s][j]
             PROVE  i * BlockSize <= f[r].computed \/ j * BlockSize <= f[s].computed
  BY DEF Owned
<1>1. U[r] # << >> /\ U[s] # << >>
  OBVIOUS
<1>2. U[r] = T[r] /\ U[s] = T[s] /\ f[r].computed = q[r].computed /\ f[s].computed = q[s].computed
  BY <1>1
<1> QED BY <1>2 DEF Owned

\* Forgetting what no one reads keeps the type of the slots.
LEMMA SlotsKept ==
    ASSUME NEW p, NEW q, NEW s \in SlotContents
    PROVE  Remembered(p, s) \in SlotContents /\ Refreshed(p, q, s) \in SlotContents
<1>1. Blank \in [1 .. BlockSize -> Keys \cup {NoKey}]
  BY DEF Blank
<1> QED BY <1>1 DEF Remembered, Refreshed, SlotContents

\* The lengths of a request.
LEMMA TokenFacts ==
    /\ BlockSize \in Nat \ {0} /\ MaxModelLen \in Nat
    /\ \A r \in Requests : Total(r) \in Nat /\ Total(r) <= MaxModelLen /\ PromptLen[r] < Total(r)
                           /\ PromptLen[r] \in Nat \ {0}
<1>1. BlockSize \in Nat \ {0} /\ MaxModelLen \in Nat
  BY KVCacheManagerAssumption
<1>2. ASSUME NEW r \in Requests
      PROVE  Total(r) \in Nat /\ Total(r) <= MaxModelLen /\ PromptLen[r] < Total(r)
             /\ PromptLen[r] \in Nat \ {0}
  <2>1. PromptLen[r] \in Nat \ {0} /\ MaxTokens[r] \in Nat \ {0} /\ PromptLen[r] < MaxModelLen
    BY SchedulerAssumption
  <2> QED BY <1>1, <2>1 DEF Total, Lesser
<1> QED BY <1>1, <1>2

\* The configuration.
LEMMA ConfigFacts ==
    /\ TokenBudget \in Nat \ {0} /\ InputBudget \in Nat /\ DraftSlots \in Nat
    /\ LongPrefill \in Nat /\ NumSpec \in Nat /\ Lookahead \in Nat
    /\ MaxRunning \in Nat \ {0} /\ Interval \in Nat \ {0} /\ MaxResets \in Nat
    /\ DraftSlots < InputBudget
  BY SchedulerAssumption

----------------------------------------------------------------------------
(* Between steps.                                                          *)

\* The step between two steps.
LEMMA QuietIs ==
    /\ Quiet \in StepRecord /\ Quiet.phase = "idle" /\ Quiet.sched = << >> /\ Quiet.specs = << >>
    /\ Quiet.want = 0 /\ Quiet.ran = {} /\ DOMAIN Quiet.sched = {} /\ DOMAIN Quiet.specs = {}
<1>1. << >> \in Shares /\ DOMAIN << >> = {}
  BY NoShares
<1> QED BY <1>1, ConfigFacts DEF Quiet, StepRecord, Phases

\* The invariant holds at first.
LEMMA InitStep == Init => IInv
<1> SUFFICES ASSUME Init PROVE IInv
  OBVIOUS
<1>1. ManagerOK(kv)
  BY InitOK DEF Init
<1>2. Requested
  <2>1. \A r \in Requests : PromptLen[r] \in 1 .. MaxModelLen /\ PromptLen[r] < Total(r)
    BY TokenFacts
  <2> QED BY <2>1, TokenFacts, ConfigFacts DEF Init, Requested, RequestRecord, Statuses, ManagerInit
<1>3. Queues
  BY ConfigFacts DEF Init, Queues, Unique, Range
<1>4. Steps
  BY QuietIs DEF Init, Steps, Scheduling, Batch
<1>5. Counters
  <2>1. 0 \in 0 .. Interval - 1 /\ 0 \in 0 .. MaxResets
    BY ConfigFacts
  <2> QED BY <2>1 DEF Init, Counters
<1>6. Progress
  BY DEF Init, Progress
<1>7. OwnedOnce
  BY DEF Init, OwnedOnce, Owned, ManagerInit
<1>8. Written
  BY DEF Init, Written, SlotContents, Blank
<1> QED BY <1>1, <1>2, <1>3, <1>4, <1>5, <1>6, <1>7, <1>8 DEF IInv

\* add_request keeps the invariant.
LEMMA AddRequestStep ==
    ASSUME IInv, NEW r \in Requests, AddRequest(r)
    PROVE  IInv'
<1>1. /\ UNCHANGED << kv, slots, running, step, counter, flush, resets >>
      /\ step.phase = "idle" /\ req[r].status = "new"
      /\ req' = [req EXCEPT ![r].status = "waiting"] /\ waiting' = Enqueued(waiting, r)
  BY DEF AddRequest, Between
<1>2. req \in [Requests -> RequestRecord]
  BY DEF IInv, Requested
<1>3. /\ req' \in [Requests -> RequestRecord]
      /\ \A s \in Requests \ {r} : req'[s] = req[s]
      /\ req'[r].status = "waiting" /\ req'[r].computed = req[r].computed
      /\ req'[r].ntok = req[r].ntok
  BY <1>1, <1>2 DEF RequestRecord, Statuses
<1>4. Requested'
  BY <1>1, <1>3 DEF IInv, Requested, Total
<1>5. Queues'
  <2>1. waiting \in Seq(Requests) /\ Unique(waiting) /\ r \notin Range(waiting)
    BY <1>1 DEF IInv, Queues
  <2>2. waiting' \in Seq(Requests) /\ Unique(waiting') /\ Range(waiting') = Range(waiting) \cup {r}
    BY <1>1, <2>1, EnqueuedIs
  <2>3. /\ running' \in Seq(Requests) /\ Unique(running') /\ Len(running') <= MaxRunning
        /\ \A s \in Requests : req'[s].status = "running" => s \in Range(running')
    BY <1>1, <1>3 DEF IInv, Queues
  <2>4. Range(waiting') = {s \in Requests : req'[s].status \in {"waiting", "preempted"}}
    <3>1. Range(waiting) = {s \in Requests : req[s].status \in {"waiting", "preempted"}}
      BY DEF IInv, Queues
    <3> QED BY <1>3, <2>2, <3>1
  <2>5. \A s \in Range(running') : req'[s].status = "running"
    <3>1. \A s \in Range(running) : s \in Requests /\ req[s].status = "running"
      BY <1>1 DEF IInv, Queues, Delivered, Range
    <3> QED BY <1>1, <1>3, <3>1
  <2> QED BY <2>2, <2>3, <2>4, <2>5 DEF Queues
<1>6. Steps'
  BY <1>1 DEF IInv, Steps, Scheduling, Batch
<1>7. Progress'
  <2> SUFFICES ASSUME NEW s \in Requests, req'[s].status = "running" PROVE Advance(s)'
    BY DEF Progress
  <2>1. s # r /\ req'[s] = req[s]
    BY <1>3
  <2> QED BY <1>1, <2>1 DEF IInv, Progress, Advance, Passed, Delivered, Scheduling, Batch
<1>8. OwnedOnce'
  <2>1. \A s \in Requests : req'[s].computed = req[s].computed
    BY <1>3
  <2>2. Owned(kv.table, req)
    BY DEF IInv, OwnedOnce
  <2>3. Owned(kv.table, req')
    BY <2>1, <2>2, OwnedLess
  <2> QED BY <1>1, <2>3 DEF OwnedOnce
<1>9. ManagerOK(kv') /\ Counters' /\ Written'
  BY <1>1 DEF IInv, Counters, Written
<1> QED BY <1>4, <1>5, <1>6, <1>7, <1>8, <1>9 DEF IInv

\* Outside update_from_output the running queue holds the running requests, and
\* no other.
LEMMA RunningIs ==
    ASSUME IInv, step.phase # "update"
    PROVE  /\ \A r \in Range(running) : r \in Requests /\ req[r].status = "running"
           /\ \A r \in Requests : req[r].status = "running" => r \in Range(running)
  BY DEF IInv, Queues, Delivered, Range

\* The tables of a request that is not running are empty.
LEMMA TablesRunning ==
    ASSUME IInv
    PROVE  /\ \A r \in Requests : kv.table[r] # << >> => req[r].status = "running"
           /\ req \in [Requests -> RequestRecord]
           /\ kv.table \in [Requests -> Seq(Blocks)] /\ kv.numCached \in [Requests -> Nat]
           /\ Held(kv.pool, kv.table, kv.numCached)
           /\ \A r \in Requests : /\ req[r].computed \in Nat /\ req[r].computed <= MaxModelLen
                                  /\ req[r].ntok \in Nat \ {0} /\ req[r].ntok <= MaxModelLen
                                  /\ req[r].drafts \in Nat /\ req[r].drafts <= NumSpec
                                  /\ req[r].accepted \in Nat /\ req[r].accepted <= NumSpec
                                  /\ req[r].chunk \in BOOLEAN /\ req[r].status \in Statuses
<1>1. /\ \A r \in Requests : kv.table[r] # << >> => req[r].status = "running"
      /\ req \in [Requests -> RequestRecord]
  BY DEF IInv, Requested
<1>2. /\ kv.table \in [Requests -> Seq(Blocks)] /\ kv.numCached \in [Requests -> Nat]
      /\ Held(kv.pool, kv.table, kv.numCached)
  BY DEF IInv, ManagerOK, Managers
<1>3. MaxModelLen \in Nat /\ NumSpec \in Nat
  BY TokenFacts, ConfigFacts
<1> QED BY <1>1, <1>2, <1>3 DEF RequestRecord

\* Between two passes a request has computed all it has cached.
LEMMA CachedComputed ==
    ASSUME IInv, ~Scheduling
    PROVE  \A r \in Requests : kv.table[r] # << >> => kv.numCached[r] * BlockSize <= req[r].computed
<1> SUFFICES ASSUME NEW r \in Requests, kv.table[r] # << >>
             PROVE  kv.numCached[r] * BlockSize <= req[r].computed
  OBVIOUS
<1>1. req[r].status = "running"
  BY TablesRunning
<1>2. Advance(r)
  BY <1>1 DEF IInv, Progress
<1> QED BY <1>2 DEF Advance, Ran, Resting

----------------------------------------------------------------------------
\* finish_requests, between steps or while the model executes, keeps the
\* invariant.
LEMMA AbortStep ==
    ASSUME IInv, NEW r \in Requests, Abort(r)
    PROVE  IInv'
<1>1. /\ UNCHANGED << step, counter, resets >> /\ flush' = TRUE
      /\ step.phase \in {"idle", "executed"} /\ req[r].status \in {"waiting", "running", "preempted"}
      /\ req' = [req EXCEPT ![r].status = "finished", ![r].accepted = 0]
      /\ waiting' = Without(waiting, r) /\ running' = Without(running, r)
      /\ kv' = FreeRequest(kv, r) /\ slots' = Remembered(kv'.pool, slots)
  BY DEF Abort
<1>2. req \in [Requests -> RequestRecord]
  BY DEF IInv, Requested
<1>3. /\ req' \in [Requests -> RequestRecord]
      /\ \A s \in Requests \ {r} : req'[s] = req[s]
      /\ req'[r].status = "finished" /\ req'[r].computed = req[r].computed
  <2> DEFINE z == [req[r] EXCEPT !.status = "finished", !.accepted = 0]
  <2>1. req' = [req EXCEPT ![r] = z]
    BY <1>1
  <2>2. 0 \in 0 .. NumSpec /\ "finished" \in Statuses
    BY ConfigFacts DEF Statuses
  <2>3. req[r] \in RequestRecord
    BY <1>2
  <2>4. z \in RequestRecord /\ z.status = "finished" /\ z.computed = req[r].computed
    BY <2>2, <2>3 DEF RequestRecord
  <2> HIDE DEF z
  <2> QED BY <1>2, <2>1, <2>4
<1>4. /\ ManagerOK(kv') /\ kv'.table = [kv.table EXCEPT ![r] = << >>]
      /\ kv'.numCached = [kv.numCached EXCEPT ![r] = 0]
  BY <1>1, FreeOK DEF IInv
<1>5. /\ kv'.table[r] = << >>
      /\ \A s \in Requests \ {r} : kv'.table[s] = kv.table[s] /\ kv'.numCached[s] = kv.numCached[s]
  BY <1>4, TablesRunning
<1>6. Requested'
  BY <1>3, <1>5 DEF IInv, Requested, Total
<1>7. Queues'
  <2>1. /\ waiting \in Seq(Requests) /\ Unique(waiting) /\ running \in Seq(Requests) /\ Unique(running)
        /\ Len(running) <= MaxRunning
        /\ Range(waiting) = {s \in Requests : req[s].status \in {"waiting", "preempted"}}
    BY DEF IInv, Queues
  <2>2. /\ waiting' \in Seq(Requests) /\ Unique(waiting') /\ Range(waiting') = Range(waiting) \ {r}
        /\ running' \in Seq(Requests) /\ Unique(running') /\ Range(running') = Range(running) \ {r}
        /\ Len(running') <= Len(running)
    BY <1>1, <2>1, WithoutIs
  <2>3. Len(running') <= MaxRunning
    BY <2>1, <2>2, ConfigFacts
  <2>4. \A s \in Requests : req'[s].status = "running" => s \in Range(running')
    BY <1>1, <1>3, <2>2, RunningIs
  <2>5. Range(waiting') = {s \in Requests : req'[s].status \in {"waiting", "preempted"}}
    BY <1>3, <2>1, <2>2
  <2>6. \A s \in Range(running') : req'[s].status = "running"
    BY <1>1, <1>3, <2>2, RunningIs
  <2> QED BY <2>2, <2>3, <2>4, <2>5, <2>6 DEF Queues
<1>8. Steps'
  BY <1>1 DEF IInv, Steps, Scheduling, Batch
<1>9. Progress'
  <2> SUFFICES ASSUME NEW s \in Requests, req'[s].status = "running" PROVE Advance(s)'
    BY DEF Progress
  <2>1. s # r /\ req'[s] = req[s]
    BY <1>3
  <2>2. Advance(s)
    BY <1>3, <2>1 DEF IInv, Progress
  <2>3. kv'.table[s] = kv.table[s] /\ kv'.numCached[s] = kv.numCached[s]
    BY <1>5, <2>1
  <2> QED BY <1>1, <2>1, <2>2, <2>3 DEF Advance, Passed, Delivered, Scheduling, Batch
<1>10. OwnedOnce'
  <2>1. \A s \in Requests : kv'.table[s] = << >> \/ (kv'.table[s] = kv.table[s] /\ req'[s].computed = req[s].computed)
    BY <1>3, <1>5
  <2>2. Owned(kv.table, req)
    BY DEF IInv, OwnedOnce
  <2>3. Owned(kv'.table, req')
    BY <2>1, <2>2, OwnedLess
  <2> QED BY <2>3 DEF OwnedOnce
<1>11. Counters'
  BY <1>1 DEF IInv, Counters
<1>12. Written'
  BY <1>1, SlotsKept DEF IInv, Written
<1> QED BY <1>4, <1>6, <1>7, <1>8, <1>9, <1>10, <1>11, <1>12 DEF IInv

\* A step with nothing to do keeps the invariant.
LEMMA IdleStepStep ==
    ASSUME IInv, IdleStep
    PROVE  IInv'
<1>1. UNCHANGED << kv, slots, running, waiting, req, step, flush, resets >> /\ counter' = 0
  BY DEF IdleStep, queues
<1>2. Counters'
  <2>1. 0 \in 0 .. Interval - 1
    BY ConfigFacts
  <2> QED BY <1>1, <2>1 DEF IInv, Counters
<1>3. Requested' /\ Queues' /\ OwnedOnce' /\ Written' /\ ManagerOK(kv')
  BY <1>1 DEF IInv, Requested, Total, Queues, Delivered, OwnedOnce, Written
<1>4. Steps'
  BY <1>1 DEF IInv, Steps, Scheduling, Batch, Budgets, Wanted, Deferred, Current
<1>5. Progress'
  BY <1>1 DEF IInv, Progress, Advance, Passed, Delivered, Scheduling, Batch
<1> QED BY <1>2, <1>3, <1>4, <1>5 DEF IInv

\* A stuttering step keeps the invariant.
LEMMA StutterStep ==
    ASSUME IInv, UNCHANGED vars
    PROVE  IInv'
<1>1. UNCHANGED << kv, slots, running, waiting, req, step, counter, flush, resets >>
  BY DEF vars
<1>2. Counters'
  BY <1>1 DEF IInv, Counters
<1>3. Requested' /\ Queues' /\ OwnedOnce' /\ Written' /\ ManagerOK(kv')
  BY <1>1 DEF IInv, Requested, Total, Queues, Delivered, OwnedOnce, Written
<1>4. Steps'
  BY <1>1 DEF IInv, Steps, Scheduling, Batch, Budgets, Wanted, Deferred, Current
<1>5. Progress'
  BY <1>1 DEF IInv, Progress, Advance, Passed, Delivered, Scheduling, Batch
<1> QED BY <1>2, <1>3, <1>4, <1>5 DEF IInv

\* A change of phase that leaves the requests and their blocks as they are.
LEMMA PhaseStep ==
    ASSUME IInv, UNCHANGED << running, waiting, req >>,
           ManagerOK(kv'), kv'.table = kv.table, kv'.numCached = kv.numCached,
           step.phase # "update", step'.phase # "update",
           step'.sched = step.sched, step'.specs = step.specs,
           step.phase = "executed" <=> step'.phase = "executed",
           (Scheduling <=> Scheduling') \/ Batch = {}
    PROVE  Requested' /\ Queues' /\ OwnedOnce' /\ Progress'
<1>1. Requested' /\ OwnedOnce'
  BY DEF IInv, Requested, Total, OwnedOnce
<1>2. Queues'
  BY DEF IInv, Queues, Delivered
<1>3. Progress'
  BY DEF IInv, Progress, Advance, Passed, Delivered, Scheduling, Batch
<1> QED BY <1>1, <1>2, <1>3

\* The start of a reset with running requests keeps the invariant.
LEMMA BeginResetStep ==
    ASSUME IInv, BeginReset
    PROVE  IInv'
<1>1. /\ UNCHANGED << kv, slots, running, waiting, req, counter, flush >>
      /\ step.phase = "idle" /\ step' = [step EXCEPT !.phase = "resetting"]
      /\ resets < MaxResets /\ resets' = resets + 1
  BY DEF BeginReset, Between, queues
<1>2. step \in StepRecord /\ Batch = {}
  BY <1>1 DEF IInv, Steps
<1>3. /\ step' \in StepRecord /\ step'.phase = "resetting"
      /\ step'.sched = step.sched /\ step'.specs = step.specs /\ step'.ran = step.ran
      /\ step'.want = step.want
  BY <1>1, <1>2 DEF StepRecord, Phases
<1>4. Steps'
  BY <1>1, <1>2, <1>3 DEF IInv, Steps, Scheduling, Batch
<1>5. Counters'
  BY <1>1, ConfigFacts DEF IInv, Counters
<1>6. Requested' /\ Queues' /\ OwnedOnce' /\ Progress'
  <2>1. ManagerOK(kv') /\ kv'.table = kv.table /\ kv'.numCached = kv.numCached
    BY <1>1 DEF IInv
  <2> QED BY <1>1, <1>2, <1>3, <2>1, PhaseStep
<1> QED BY <1>1, <1>4, <1>5, <1>6 DEF IInv, Written

\* A reset ends with every table empty, so that it succeeds.
LEMMA EndResetStep ==
    ASSUME IInv, EndReset
    PROVE  IInv'
<1> DEFINE g == [kv EXCEPT !.pool = ResetPrefixCache(kv.pool)]
<1>1. /\ UNCHANGED << running, waiting, req, counter, flush, resets >>
      /\ step.phase = "resetting" /\ running = << >> /\ kv' = g
      /\ slots' = Remembered(kv'.pool, slots)
      /\ step' = [step EXCEPT !.phase = IF CanResetPrefixCache(kv.pool) THEN "idle" ELSE "crashed"]
  BY DEF EndReset, queues
<1>2. step \in StepRecord /\ Batch = {}
  BY <1>1 DEF IInv, Steps
<1>3. ManagerOK(kv') /\ kv'.table = kv.table /\ kv'.numCached = kv.numCached
  <2>1. ManagerOK(g) /\ g.table = kv.table /\ g.numCached = kv.numCached
    BY ResetOK DEF IInv
  <2> QED BY <1>1, <2>1
<1>4. CanResetPrefixCache(kv.pool)
  <2>1. ASSUME NEW r \in Requests PROVE kv.table[r] = << >>
    <3>1. Range(running) = {}
      BY <1>1 DEF Range
    <3> QED BY <1>1, <3>1, TablesRunning, RunningIs
  <2> QED BY <2>1, AllFree DEF IInv
<1>5. /\ step' \in StepRecord /\ step'.phase = "idle"
      /\ step'.sched = step.sched /\ step'.specs = step.specs /\ step'.ran = step.ran
      /\ step'.want = step.want
  <2>1. step' = [step EXCEPT !.phase = "idle"]
    BY <1>1, <1>4
  <2> QED BY <1>2, <2>1 DEF StepRecord, Phases
<1>6. Steps'
  BY <1>1, <1>2, <1>5 DEF IInv, Steps, Scheduling, Batch
<1>7. Counters' /\ Written'
  BY <1>1, SlotsKept DEF IInv, Counters, Written
<1>8. Requested' /\ Queues' /\ OwnedOnce' /\ Progress'
  BY <1>1, <1>2, <1>3, <1>5, PhaseStep
<1> QED BY <1>3, <1>6, <1>7, <1>8 DEF IInv

\* reset_prefix_cache between steps keeps the invariant.
LEMMA TryResetStep ==
    ASSUME IInv, TryReset
    PROVE  IInv'
<1> DEFINE g == [kv EXCEPT !.pool = ResetPrefixCache(kv.pool)]
<1>1. /\ UNCHANGED << running, waiting, req, step, counter, flush >>
      /\ step.phase = "idle" /\ kv' = g
      /\ slots' = Remembered(kv'.pool, slots)
      /\ resets < MaxResets /\ resets' = resets + 1
  BY DEF TryReset, Between, queues
<1>2. ManagerOK(kv') /\ kv'.table = kv.table /\ kv'.numCached = kv.numCached
  <2>1. ManagerOK(g) /\ g.table = kv.table /\ g.numCached = kv.numCached
    BY ResetOK DEF IInv
  <2> QED BY <1>1, <2>1
<1>3. Steps'
  BY <1>1 DEF IInv, Steps, Scheduling, Batch
<1>4. Counters' /\ Written'
  <2>1. Counters'
    BY <1>1, ConfigFacts DEF IInv, Counters
  <2>2. Written'
    BY <1>1, SlotsKept DEF IInv, Written
  <2> QED BY <2>1, <2>2
<1>5. Requested' /\ Queues' /\ OwnedOnce' /\ Progress'
  BY <1>1, <1>2, PhaseStep DEF Scheduling
<1> QED BY <1>2, <1>3, <1>4, <1>5 DEF IInv

\* The start of schedule() keeps the invariant.
LEMMA BeginStepStep ==
    ASSUME IInv, BeginStep
    PROVE  IInv'
<1>1. /\ UNCHANGED << kv, slots, running, waiting, req, counter, flush, resets >>
      /\ step.phase = "idle"
      /\ step' = [Quiet EXCEPT
                   !.phase  = "running",
                   !.idx    = 1,
                   !.budget = TokenBudget,
                   !.input  = InputBudget,
                   !.defer  = /\ counter % Interval # 0
                              /\ \E i \in DOMAIN running : ~req[running[i]].chunk]
  BY DEF BeginStep, Between, queues
<1>2. Batch = {} /\ step.sched \in Shares /\ step.specs \in Shares /\ DOMAIN step.specs = {}
  BY <1>1 DEF IInv, Steps, StepRecord
<1>3. /\ step' \in StepRecord /\ step'.phase = "running"
      /\ step'.sched = << >> /\ step'.specs = << >> /\ step'.ran = {}
      /\ step'.want = 0 /\ step'.idx = 1
      /\ step'.budget = TokenBudget /\ step'.input = InputBudget
  <2> DEFINE d == /\ counter % Interval # 0
                  /\ \E i \in DOMAIN running : ~req[running[i]].chunk
  <2>1. d \in BOOLEAN
    OBVIOUS
  <2>2. step' = [Quiet EXCEPT !.phase  = "running", !.idx = 1, !.budget = TokenBudget,
                              !.input = InputBudget, !.defer = d]
    BY <1>1
  <2>3. TokenBudget \in 0 .. TokenBudget /\ InputBudget \in 0 .. InputBudget
    BY ConfigFacts
  <2> HIDE DEF d
  <2> QED BY <2>1, <2>2, <2>3, QuietIs DEF StepRecord, Phases
<1>4. DOMAIN step'.sched = {} /\ DOMAIN step'.specs = {}
  BY <1>3, NoShares
<1>5. Steps'
  <2>1. Budgets'
    BY <1>3, <1>4, UnitsNone, ConfigFacts DEF Budgets, Batch
  <2> QED BY <1>3, <1>4, <2>1 DEF Steps, Scheduling, Batch
<1>6. Counters' /\ Written' /\ ManagerOK(kv') /\ Requested' /\ OwnedOnce'
  BY <1>1 DEF IInv, Counters, Written, Requested, OwnedOnce, Total
<1>7. Queues'
  BY <1>1, <1>3 DEF IInv, Queues, Delivered
<1>8. Progress'
  <2> SUFFICES ASSUME NEW s \in Requests, req[s].status = "running" PROVE Advance(s)'
    BY <1>1 DEF Progress
  <2>1. Resting(kv.numCached[s], Len(kv.table[s]), req[s])
    BY <1>1 DEF IInv, Progress, Advance, Passed, Scheduling
  <2> QED BY <1>1, <1>3, <1>4, <2>1 DEF Advance, Passed, Batch
<1> QED BY <1>5, <1>6, <1>7, <1>8 DEF IInv

\* _preempt_request on the queues, the request and its blocks, whatever the step.
LEMMA Preempted ==
    ASSUME IInv, NEW v \in Range(running), step.phase \notin {"update", "executed"},
           NEW m, ManagerOK(m), m.table = kv.table, m.numCached = kv.numCached,
           running' \in Seq(Requests), Unique(running'), Range(running') = Range(running) \ {v},
           Len(running') <= Len(running), waiting' = Prepended(waiting, v),
           req' = PreemptedReq(v), kv' = FreeRequest(m, v),
           slots' = Remembered(kv'.pool, slots), step'.phase \notin {"update", "executed"}
    PROVE  /\ Requested' /\ Queues' /\ OwnedOnce' /\ ManagerOK(kv') /\ Written'
           /\ v \in Requests /\ req[v].status = "running"
           /\ kv'.table[v] = << >> /\ req'[v].status = "preempted"
           /\ \A s \in Requests : s # v => /\ req'[s] = req[s]
                                            /\ kv'.table[s] = kv.table[s]
                                            /\ kv'.numCached[s] = kv.numCached[s]
<1>1. v \in Requests /\ req[v].status = "running"
  BY RunningIs
<1>2. req \in [Requests -> RequestRecord]
  BY DEF IInv, Requested
<1>3. /\ req' \in [Requests -> RequestRecord]
      /\ \A s \in Requests \ {v} : req'[s] = req[s]
      /\ req'[v].status = "preempted" /\ req'[v].computed = 0 /\ req'[v].ntok = req[v].ntok
  <2> DEFINE z == [req[v] EXCEPT !.status = "preempted", !.computed = 0, !.drafts = 0]
  <2>1. req' = [req EXCEPT ![v] = z]
    BY DEF PreemptedReq
  <2>2. 0 \in 0 .. NumSpec /\ 0 \in 0 .. MaxModelLen /\ "preempted" \in Statuses
    BY ConfigFacts, TokenFacts DEF Statuses
  <2>3. req[v] \in RequestRecord
    BY <1>1, <1>2
  <2>4. z \in RequestRecord /\ z.status = "preempted" /\ z.computed = 0 /\ z.ntok = req[v].ntok
    BY <2>2, <2>3 DEF RequestRecord
  <2> HIDE DEF z
  <2> QED BY <1>1, <1>2, <2>1, <2>4
<1>4. /\ ManagerOK(kv') /\ kv'.table = [kv.table EXCEPT ![v] = << >>]
      /\ kv'.numCached = [kv.numCached EXCEPT ![v] = 0]
  BY <1>1, FreeOK
<1>5. /\ kv'.table[v] = << >>
      /\ \A s \in Requests \ {v} : kv'.table[s] = kv.table[s] /\ kv'.numCached[s] = kv.numCached[s]
  BY <1>1, <1>4, TablesRunning
<1>6. Requested'
  BY <1>1, <1>3, <1>5 DEF IInv, Requested, Total
<1>7. Queues'
  <2>1. /\ waiting \in Seq(Requests) /\ Unique(waiting) /\ running \in Seq(Requests)
        /\ Len(running) <= MaxRunning /\ Len(running) \in Nat
        /\ Range(waiting) = {s \in Requests : req[s].status \in {"waiting", "preempted"}}
    BY DEF IInv, Queues
  <2>2. v \notin Range(waiting)
    BY <1>1, <2>1
  <2>3. waiting' \in Seq(Requests) /\ Unique(waiting') /\ Range(waiting') = Range(waiting) \cup {v}
    BY <1>1, <2>1, <2>2, PrependedIs
  <2>4. Len(running') <= MaxRunning
    BY <2>1, ConfigFacts
  <2>5. \A s \in Requests : req'[s].status = "running" => s \in Range(running')
    BY <1>3, RunningIs
  <2>6. Range(waiting') = {s \in Requests : req'[s].status \in {"waiting", "preempted"}}
    BY <1>1, <1>3, <2>1, <2>3
  <2>7. \A s \in Range(running') : req'[s].status = "running"
    BY <1>3, RunningIs
  <2> QED BY <2>3, <2>4, <2>5, <2>6, <2>7 DEF Queues
<1>8. OwnedOnce'
  <2>1. \A s \in Requests : kv'.table[s] = << >> \/ (kv'.table[s] = kv.table[s] /\ req'[s].computed = req[s].computed)
    BY <1>3, <1>5
  <2>2. Owned(kv.table, req)
    BY DEF IInv, OwnedOnce
  <2>3. Owned(kv'.table, req')
    BY <2>1, <2>2, OwnedLess
  <2> QED BY <2>3 DEF OwnedOnce
<1>9. Written'
  BY SlotsKept DEF IInv, Written
<1> QED BY <1>1, <1>3, <1>4, <1>5, <1>6, <1>7, <1>8, <1>9

\* A preemption for a reset keeps the invariant.
LEMMA ResetPreemptStep ==
    ASSUME IInv, ResetPreempt
    PROVE  IInv'
<1>1. /\ UNCHANGED << step, counter, flush, resets >>
      /\ step.phase = "resetting" /\ running # << >>
      /\ running' = Front(running) /\ waiting' = Prepended(waiting, Last(running))
      /\ req' = PreemptedReq(Last(running)) /\ kv' = FreeRequest(kv, Last(running))
      /\ slots' = Remembered(kv'.pool, slots)
  BY DEF ResetPreempt
<1> DEFINE v == Last(running)
<1>2. /\ v \in Range(running) /\ running' \in Seq(Requests) /\ Unique(running')
      /\ Range(running') = Range(running) \ {v} /\ Len(running') <= Len(running)
  <2>1. running \in Seq(Requests) /\ Unique(running)
    BY DEF IInv, Queues
  <2> QED BY <1>1, <2>1, EndsAre
<1>3. ManagerOK(kv)
  BY DEF IInv
<1>4. /\ waiting' = Prepended(waiting, v) /\ req' = PreemptedReq(v) /\ kv' = FreeRequest(kv, v)
      /\ step'.phase = step.phase
  BY <1>1
<1> HIDE DEF v
<1>5. /\ Requested' /\ Queues' /\ OwnedOnce' /\ ManagerOK(kv') /\ Written'
      /\ v \in Requests
      /\ kv'.table[v] = << >> /\ req'[v].status = "preempted"
      /\ \A s \in Requests : s # v => /\ req'[s] = req[s]
                                       /\ kv'.table[s] = kv.table[s]
                                       /\ kv'.numCached[s] = kv.numCached[s]
  BY <1>1, <1>2, <1>3, <1>4, Preempted
<1>6. Steps'
  BY <1>1 DEF IInv, Steps, Scheduling, Batch
<1>7. Counters'
  BY <1>1 DEF IInv, Counters
<1>8. Progress'
  <2> SUFFICES ASSUME NEW s \in Requests, req'[s].status = "running" PROVE Advance(s)'
    BY DEF Progress
  <2>1. s # v /\ req'[s] = req[s] /\ kv'.table[s] = kv.table[s] /\ kv'.numCached[s] = kv.numCached[s]
    BY <1>5
  <2>2. Advance(s)
    BY <2>1 DEF IInv, Progress
  <2> QED BY <1>1, <2>1, <2>2 DEF Advance, Passed, Scheduling, Batch
<1> QED BY <1>5, <1>6, <1>7, <1>8 DEF IInv

----------------------------------------------------------------------------
\* A running request that gets nothing keeps the invariant.
LEMMA SkipRunningStep ==
    ASSUME IInv, SkipRunning
    PROVE  IInv'
<1>1. /\ UNCHANGED << kv, slots, running, waiting, req, counter, flush, resets >>
      /\ step.phase = "running" /\ step' = [step EXCEPT !.idx = @ + 1]
      /\ Deferred(Current) \/ NumNewTokens(Current) = 0
  BY DEF SkipRunning, AtRunning, queues
<1>2. step \in StepRecord
  BY DEF IInv, Steps
<1>3. step.want = 0
  <2>1. step.want \in Nat
    BY <1>2 DEF StepRecord
  <2>2. CASE step.want > 0
    <3>1. ~Deferred(Current)
      BY <2>2 DEF IInv, Steps, Wanted
    <3>2. NumNewTokens(Current) = step.want
      BY <2>2 DEF NumNewTokens
    <3> QED BY <1>1, <2>1, <2>2, <3>1, <3>2
  <2> QED BY <2>1, <2>2
<1>4. /\ step' \in StepRecord /\ step'.phase = "running" /\ step'.idx = step.idx + 1
      /\ step'.sched = step.sched /\ step'.specs = step.specs /\ step'.ran = step.ran
      /\ step'.want = 0 /\ step'.budget = step.budget /\ step'.input = step.input
      /\ step.idx \in Nat
  BY <1>1, <1>2, <1>3 DEF StepRecord
<1>5. Steps'
  <2>1. /\ Budgets /\ step.ran = Batch /\ DOMAIN step.specs = Batch
        /\ \A r \in Batch : step.sched[r] # 0
        /\ \A r \in step.ran : \E j \in DOMAIN running : j < step.idx /\ running[j] = r
    BY <1>1 DEF IInv, Steps, Scheduling
  <2>2. Budgets' /\ Batch' = Batch
    BY <1>1, <1>4, <2>1 DEF Budgets, Batch
  <2>3. ASSUME NEW r \in step.ran
        PROVE  \E j \in DOMAIN running : j < step.idx + 1 /\ running[j] = r
    <3>1. PICK j \in DOMAIN running : j < step.idx /\ running[j] = r
      BY <2>1
    <3>2. DOMAIN running = 1 .. Len(running) /\ Len(running) \in Nat
      BY DEF IInv, Queues
    <3> QED BY <1>4, <3>1, <3>2
  <2> QED BY <1>1, <1>4, <2>1, <2>2, <2>3 DEF Steps
<1>6. Counters' /\ Written'
  BY <1>1 DEF IInv, Counters, Written
<1>7. ManagerOK(kv') /\ kv'.table = kv.table /\ kv'.numCached = kv.numCached
  BY <1>1 DEF IInv
<1>8. Requested' /\ Queues' /\ OwnedOnce' /\ Progress'
  BY <1>1, <1>4, <1>7, PhaseStep DEF Scheduling
<1> QED BY <1>5, <1>6, <1>7, <1>8 DEF IInv

\* From one part of schedule() to the next.
LEMMA NextPart ==
    ASSUME IInv, UNCHANGED << running, waiting, req, counter, flush, resets >>, Written',
           ManagerOK(kv'), kv'.table = kv.table, kv'.numCached = kv.numCached,
           step.phase \in {"running", "waiting"}, step.want = 0,
           NEW f \in {"waiting", "dispatch"}, step' = [step EXCEPT !.phase = f]
    PROVE  IInv'
<1>1. step \in StepRecord
  BY DEF IInv, Steps
<1>2. /\ step' \in StepRecord /\ step'.phase = f /\ step'.idx = step.idx
      /\ step'.sched = step.sched /\ step'.specs = step.specs /\ step'.ran = step.ran
      /\ step'.want = 0 /\ step'.budget = step.budget /\ step'.input = step.input
  BY <1>1 DEF StepRecord, Phases
<1>3. Steps'
  <2>1. Budgets /\ DOMAIN step.specs = Batch /\ \A r \in Batch : step.sched[r] # 0
    BY DEF IInv, Steps, Scheduling
  <2>2. step.ran \subseteq Batch
    BY DEF IInv, Steps
  <2>3. Budgets' /\ Batch' = Batch
    BY <1>2, <2>1 DEF Budgets, Batch
  <2> QED BY <1>2, <2>1, <2>2, <2>3 DEF Steps
<1>4. Counters'
  BY DEF IInv, Counters
<1>5. Requested' /\ Queues' /\ OwnedOnce' /\ Progress'
  BY <1>2, PhaseStep DEF Scheduling
<1> QED BY <1>3, <1>4, <1>5 DEF IInv

\* The end of the running loop keeps the invariant.
LEMMA EndRunningStep ==
    ASSUME IInv, EndRunning
    PROVE  IInv'
<1> DEFINE f == IF step.preempted THEN "dispatch" ELSE "waiting"
<1>1. /\ UNCHANGED << kv, slots, running, waiting, req, counter, flush, resets >>
      /\ step.phase = "running" /\ step' = [step EXCEPT !.phase = f]
      /\ step.idx > Len(running) \/ ~BudgetLeft
  BY DEF EndRunning, queues
<1>2. step.want = 0
  <2>1. /\ step.want \in Nat /\ step.budget \in Nat /\ step.input \in Nat /\ step.idx \in Nat
        /\ Len(running) \in Nat
    BY ConfigFacts DEF IInv, Steps, StepRecord, Queues
  <2>2. CASE step.want > 0
    <3>1. /\ step.idx <= Len(running)
          /\ step.want <= step.budget /\ step.want + DraftSlots <= step.input
      BY <2>2 DEF IInv, Steps, Wanted
    <3>2. BudgetLeft
      BY <2>1, <2>2, <3>1, ConfigFacts DEF BudgetLeft
    <3> QED BY <1>1, <2>1, <3>1, <3>2
  <2> QED BY <2>1, <2>2
<1>3. f \in {"waiting", "dispatch"}
  OBVIOUS
<1> HIDE DEF f
<1>4. ManagerOK(kv') /\ kv'.table = kv.table /\ kv'.numCached = kv.numCached /\ Written'
  BY <1>1 DEF IInv, Written
<1> QED BY <1>1, <1>2, <1>3, <1>4, NextPart

\* Nothing is wanted outside the running loop.
LEMMA NothingWanted ==
    ASSUME IInv, step.phase # "running"
    PROVE  step.want = 0
  BY DEF IInv, Steps, StepRecord

\* The end of the waiting loop keeps the invariant.
LEMMA EndWaitingStep ==
    ASSUME IInv, EndWaiting
    PROVE  IInv'
<1>1. /\ UNCHANGED << kv, slots, running, waiting, req, counter, flush, resets >>
      /\ step.phase = "waiting" /\ step' = [step EXCEPT !.phase = "dispatch"]
  BY DEF EndWaiting, queues
<1>2. step.want = 0
  BY <1>1, NothingWanted
<1>3. ManagerOK(kv') /\ kv'.table = kv.table /\ kv'.numCached = kv.numCached /\ Written'
  BY <1>1 DEF IInv, Written
<1> QED BY <1>1, <1>2, <1>3, NextPart

\* A refused admission keeps the invariant.
LEMMA RefuseStep ==
    ASSUME IInv, Refuse
    PROVE  IInv'
<1> DEFINE c == WaitingCall(Head(waiting))
<1>1. /\ UNCHANGED << slots, running, waiting, req, counter, flush, resets >>
      /\ step.phase = "waiting" /\ step' = [step EXCEPT !.phase = "dispatch"]
      /\ kv' = RefuseSlots(kv, c) /\ waiting # << >>
  BY DEF Refuse, AtWaiting, RoomToAdmit, queues
<1>2. step.want = 0
  BY <1>1, NothingWanted
<1>3. Head(waiting) \in Requests
  <2>1. waiting \in Seq(Requests) /\ Unique(waiting)
    BY DEF IInv, Queues
  <2> QED BY <1>1, <2>1, EndsAre
<1>4. c.req \in Requests
  BY <1>3 DEF WaitingCall
<1> HIDE DEF c
<1>5. ManagerOK(kv') /\ kv'.table = kv.table /\ kv'.numCached = kv.numCached
  BY <1>1, <1>4, RefuseOK DEF IInv
<1>6. Written'
  BY <1>1 DEF IInv, Written
<1> QED BY <1>1, <1>2, <1>5, <1>6, NextPart

\* The start of update_from_output keeps the invariant.
LEMMA BeginUpdateStep ==
    ASSUME IInv, BeginUpdate
    PROVE  IInv'
<1>1. /\ UNCHANGED << kv, slots, running, waiting, req, counter, flush, resets >>
      /\ step.phase = "executed" /\ step' = [step EXCEPT !.phase = "update", !.idx = 1]
  BY DEF BeginUpdate, queues
<1>2. step \in StepRecord
  BY DEF IInv, Steps
<1>3. /\ step' \in StepRecord /\ step'.phase = "update" /\ step'.idx = 1
      /\ step'.sched = step.sched /\ step'.specs = step.specs /\ step'.ran = step.ran
      /\ step'.want = step.want
  BY <1>1, <1>2 DEF StepRecord, Phases
<1>4. step.want = 0
  BY <1>1, NothingWanted
<1>5. Steps'
  BY <1>1, <1>3, <1>4 DEF IInv, Steps, Scheduling, Batch
<1>6. Counters' /\ Written' /\ Requested' /\ OwnedOnce' /\ ManagerOK(kv')
  BY <1>1 DEF IInv, Counters, Written, Requested, OwnedOnce, Total
<1>7. DOMAIN running = 1 .. Len(running) /\ Len(running) \in Nat
  BY DEF IInv, Queues
<1>8. \A r : ~Delivered(r)'
  BY <1>1, <1>3, <1>7 DEF Delivered
<1>9. Queues'
  BY <1>1, <1>8 DEF IInv, Queues, Delivered
<1>10. Progress'
  <2> SUFFICES ASSUME NEW s \in Requests, req[s].status = "running" PROVE Advance(s)'
    BY <1>1 DEF Progress
  <2>1. Advance(s)
    BY DEF IInv, Progress
  <2> QED BY <1>1, <1>3, <1>8, <2>1 DEF Advance, Passed, Delivered, Scheduling, Batch
<1> QED BY <1>5, <1>6, <1>9, <1>10 DEF IInv

----------------------------------------------------------------------------
(* schedule(): a running request.                                          *)

\* The request the running loop is at has not been given tokens.
LEMMA CurrentIs ==
    ASSUME IInv, AtRunning
    PROVE  /\ step.idx \in DOMAIN running /\ Current \in Requests /\ Current \in Range(running)
           /\ req[Current].status = "running" /\ Current \notin Batch
           /\ Resting(kv.numCached[Current], Len(kv.table[Current]), req[Current])
<1>1. /\ step.phase = "running" /\ step.idx <= Len(running)
      /\ running \in Seq(Requests) /\ Unique(running)
      /\ step.idx \in Nat /\ step.idx # 0
  BY DEF AtRunning, IInv, Queues, Steps, StepRecord, Budgets, Scheduling
<1>2. DOMAIN running = 1 .. Len(running) /\ Len(running) \in Nat
  BY <1>1
<1>3. step.idx \in DOMAIN running
  BY <1>1, <1>2
<1>4. Current \in Range(running)
  BY <1>3 DEF Current, Range
<1>5. Current \in Requests /\ req[Current].status = "running"
  BY <1>1, <1>4, RunningIs
<1>6. Current \notin Batch
  <2> SUFFICES ASSUME Current \in Batch PROVE FALSE
    OBVIOUS
  <2>1. PICK j \in DOMAIN running : j < step.idx /\ running[j] = Current
    BY <1>1 DEF IInv, Steps
  <2>2. j = step.idx
    BY <1>1, <1>3, <2>1 DEF Unique, Current
  <2> QED BY <1>1, <2>1, <2>2
<1>7. Advance(Current)
  BY <1>5 DEF IInv, Progress
<1>8. Resting(kv.numCached[Current], Len(kv.table[Current]), req[Current])
  BY <1>1, <1>6, <1>7 DEF Advance, Passed
<1> QED BY <1>3, <1>4, <1>5, <1>6, <1>8

\* The tokens a running request is given fit what is left.
LEMMA NumNewTokensIs ==
    ASSUME IInv, AtRunning, ~Deferred(Current), NumNewTokens(Current) > 0
    PROVE  /\ NumNewTokens(Current) \in Nat \ {0}
           /\ NumNewTokens(Current) <= step.budget
           /\ NumNewTokens(Current) + DraftSlots <= step.input
           /\ NumNewTokens(Current) + req[Current].computed < MaxModelLen
           /\ NumNewTokens(Current) + req[Current].computed
                 <= req[Current].ntok + req[Current].drafts
<1> DEFINE r == Current
           n == NumNewTokens(r)
           q == req[r]
<1>1. r \in Requests
  BY CurrentIs
<1>2. /\ q.computed \in Nat /\ q.ntok \in Nat /\ q.drafts \in Nat
      /\ MaxModelLen \in Nat /\ DraftSlots \in Nat /\ LongPrefill \in Nat
  BY <1>1, TablesRunning, TokenFacts, ConfigFacts
<1>3. step.budget \in Nat /\ step.input \in Nat /\ step.want \in Nat
  BY ConfigFacts DEF IInv, Steps, StepRecord
<1>4. n > 0
  OBVIOUS
<1>5. CASE step.want > 0
  <2>1. n = step.want
    BY <1>5 DEF NumNewTokens
  <2>2. Wanted(r)
    BY <1>5 DEF IInv, Steps
  <2> HIDE DEF n, r
  <2> QED BY <1>3, <1>4, <2>1, <2>2 DEF Wanted, n, r
<1>6. CASE ~(step.want > 0)
  <2> DEFINE x == q.ntok + q.drafts - q.computed
             y == Capped(x)
             w == step.input - DraftSlots
             z == MaxModelLen - q.computed - 1
  <2>1. n = Lesser(Lesser(y, Lesser(step.budget, w)), z)
    BY <1>6 DEF NumNewTokens, WithinBudget
  <2>2. x \in Int /\ w \in Int /\ z \in Int
    BY <1>2, <1>3
  <2>3. y \in Int /\ y <= x
    <3> HIDE DEF x
    <3> QED BY <1>2, <2>2 DEF Capped
  <2> HIDE DEF n, y
  <2>4. n \in Int /\ n <= y /\ n <= step.budget /\ n <= w /\ n <= z
    <3> HIDE DEF w, z, x
    <3> QED BY <1>3, <2>1, <2>2, <2>3 DEF Lesser
  <2>5. /\ n \in Nat \ {0} /\ n <= step.budget /\ n + DraftSlots <= step.input
        /\ n + q.computed < MaxModelLen /\ n + q.computed <= q.ntok + q.drafts
    <3> HIDE DEF q
    <3> QED BY <1>2, <1>3, <1>4, <2>2, <2>3, <2>4
  <2> QED BY <2>5 DEF n
<1> QED BY <1>5, <1>6

\* The table of r becomes t and then got, which nobody held; what it shares it
\* shared before, or r has computed.
Grows(p, T, q, r, t, got, U, f) ==
    /\ t \in Seq(Blocks) /\ got \in Seq(Blocks) /\ \A b \in Range(got) : p.ref[b] = 0
    /\ U[r] = t \o got
    /\ \A s \in Requests \ {r} : U[s] = T[s] /\ f[s].computed = q[s].computed
    /\ \A i \in 1 .. Len(t) :
           \/ i * BlockSize <= f[r].computed
           \/ i \in 1 .. Len(T[r]) /\ t[i] = T[r][i] /\ f[r].computed = q[r].computed

\* A table that grew by fresh blocks or by computed hits shares no other.
LEMMA OwnedMore ==
    ASSUME NEW p, NEW T, NEW n, NEW q, NEW r \in Requests, NEW t, NEW got, NEW U, NEW f,
           Held(p, T, n), Owned(T, q), Grows(p, T, q, r, t, got, U, f)
    PROVE  Owned(U, f)
<1>0. /\ t \in Seq(Blocks) /\ got \in Seq(Blocks) /\ \A b \in Range(got) : p.ref[b] = 0
      /\ U[r] = t \o got
      /\ \A s \in Requests \ {r} : U[s] = T[s] /\ f[s].computed = q[s].computed
      /\ \A i \in 1 .. Len(t) :
             \/ i * BlockSize <= f[r].computed
             \/ i \in 1 .. Len(T[r]) /\ t[i] = T[r][i] /\ f[r].computed = q[r].computed
  BY DEF Grows
<1>1. \A s \in Requests : \A j \in 1 .. Len(T[s]) : T[s][j] \in Range(T[s])
  BY HeldFacts
<1>2. \A b \in Blocks : p.ref[b] = 0 <=> \A s \in Requests : b \notin Range(T[s])
  BY HeldFacts
<1>3. /\ Len(t) \in Nat /\ Len(got) \in Nat /\ Len(t \o got) = Len(t) + Len(got)
      /\ \A i \in 1 .. Len(t) : (t \o got)[i] = t[i]
      /\ \A i \in 1 .. Len(t) + Len(got) :
            i \notin 1 .. Len(t) => (t \o got)[i] \in Range(got)
  <2>1. Len(t) \in Nat /\ Len(got) \in Nat /\ Len(t \o got) = Len(t) + Len(got)
    BY <1>0
  <2>2. \A i \in 1 .. Len(t) : (t \o got)[i] = t[i]
    BY <1>0
  <2>3. ASSUME NEW i \in 1 .. Len(t) + Len(got), i \notin 1 .. Len(t)
        PROVE  (t \o got)[i] \in Range(got)
    <3>1. i - Len(t) \in 1 .. Len(got)
      BY <2>1, <2>3
    <3>2. (t \o got)[i] = got[i - Len(t)]
      BY <1>0, <2>1, <2>3
    <3>3. DOMAIN got = 1 .. Len(got)
      BY <1>0
    <3> QED BY <3>1, <3>2, <3>3 DEF Range
  <2> QED BY <2>1, <2>2, <2>3
<1>4. Range(got) \subseteq Blocks
  BY <1>0 DEF Range
<1>5. ASSUME NEW s \in Requests \ {r}, NEW i \in 1 .. Len(U[r]), NEW j \in 1 .. Len(T[s]),
             U[r][i] = T[s][j]
      PROVE  i * BlockSize <= f[r].computed \/ j * BlockSize <= q[s].computed
  <2>1. i \in 1 .. Len(t)
    <3> SUFFICES ASSUME i \notin 1 .. Len(t) PROVE FALSE
      OBVIOUS
    <3>1. U[r][i] \in Range(got)
      BY <1>0, <1>3
    <3>2. T[s][j] \in Range(T[s])
      BY <1>1
    <3> QED BY <1>0, <1>2, <1>4, <1>5, <3>1, <3>2
  <2>2. U[r][i] = t[i]
    BY <1>0, <1>3, <2>1
  <2>3. CASE i * BlockSize <= f[r].computed
    BY <2>3
  <2>4. CASE i \in 1 .. Len(T[r]) /\ t[i] = T[r][i] /\ f[r].computed = q[r].computed
    <3>1. T[r][i] = T[s][j] /\ r # s
      BY <1>5, <2>2, <2>4
    <3>2. i * BlockSize <= q[r].computed \/ j * BlockSize <= q[s].computed
      BY <2>4, <3>1 DEF Owned
    <3> QED BY <2>4, <3>2
  <2> QED BY <1>0, <2>1, <2>3, <2>4
<1> SUFFICES ASSUME NEW a \in Requests, NEW c \in Requests, a # c,
                    NEW i \in 1 .. Len(U[a]), NEW j \in 1 .. Len(U[c]), U[a][i] = U[c][j]
             PROVE  i * BlockSize <= f[a].computed \/ j * BlockSize <= f[c].computed
  BY DEF Owned
<1>6. CASE a = r
  <2>1. U[c] = T[c] /\ f[c].computed = q[c].computed /\ c \in Requests \ {r}
    BY <1>0, <1>6
  <2> QED BY <1>5, <1>6, <2>1
<1>7. CASE c = r
  <2>1. U[a] = T[a] /\ f[a].computed = q[a].computed /\ a \in Requests \ {r}
    BY <1>0, <1>7
  <2> QED BY <1>5, <1>7, <2>1
<1>8. CASE a # r /\ c # r
  <2>1. U[a] = T[a] /\ f[a].computed = q[a].computed /\ U[c] = T[c] /\ f[c].computed = q[c].computed
    BY <1>0, <1>8
  <2> QED BY <2>1 DEF Owned
<1> QED BY <1>6, <1>7, <1>8

\* A request joins the batch with n tokens, k of them drafts.
LEMMA Granted ==
    ASSUME step \in StepRecord, Budgets, DOMAIN step.specs = Batch,
           NEW r \in Requests, r \notin Batch, NEW n \in Nat \ {0}, NEW k \in Nat,
           n <= step.budget, n + DraftSlots <= step.input,
           step'.budget = step.budget - n, step'.input = step.input - (n + DraftSlots),
           step'.sched = Given(step.sched, r, n), step'.specs = Given(step.specs, r, k)
    PROVE  /\ step'.budget + Cardinality(Units(step'.sched, 0)) = TokenBudget
           /\ step'.input + Cardinality(Units(step'.sched, DraftSlots)) = InputBudget
           /\ step'.budget \in 0 .. TokenBudget /\ step'.input \in 0 .. InputBudget
           /\ step'.sched \in Shares /\ step'.specs \in Shares
           /\ Batch' = Batch \cup {r} /\ DOMAIN step'.specs = Batch'
           /\ step'.sched[r] = n /\ step'.specs[r] = k
           /\ \A s \in Batch : step'.sched[s] = step.sched[s] /\ step'.specs[s] = step.specs[s]
<1>1. /\ step.sched \in Shares /\ step.specs \in Shares
      /\ step.budget \in Nat /\ step.input \in Nat
      /\ step.budget <= TokenBudget /\ step.input <= InputBudget
  BY ConfigFacts DEF StepRecord
<1>0. ASSUME NEW f \in Shares, NEW x \in Nat
      PROVE  /\ Given(f, r, x) \in Shares /\ DOMAIN Given(f, r, x) = DOMAIN f \cup {r}
             /\ Given(f, r, x)[r] = x
             /\ \A s \in DOMAIN f : s # r => Given(f, r, x)[s] = f[s]
  BY <1>0, GivenIs
<1>2. /\ step'.sched \in Shares /\ DOMAIN step'.sched = Batch \cup {r} /\ step'.sched[r] = n
      /\ \A s \in Batch : s # r => step'.sched[s] = step.sched[s]
  <2> DEFINE f == step.sched
             g == step'.sched
  <2>1. f \in Shares /\ n \in Nat /\ g = Given(f, r, n) /\ DOMAIN f = Batch
    BY <1>1 DEF Batch
  <2> HIDE DEF f, g
  <2>2. /\ g \in Shares /\ DOMAIN g = Batch \cup {r} /\ g[r] = n
        /\ \A s \in Batch : s # r => g[s] = f[s]
    BY ONLY <1>0, <2>1
  <2> QED BY <2>2 DEF f, g
<1>3. /\ step'.specs \in Shares /\ DOMAIN step'.specs = Batch \cup {r} /\ step'.specs[r] = k
      /\ \A s \in Batch : s # r => step'.specs[s] = step.specs[s]
  <2> DEFINE f == step.specs
             g == step'.specs
  <2>1. f \in Shares /\ k \in Nat /\ g = Given(f, r, k) /\ DOMAIN f = Batch
    BY <1>1
  <2> HIDE DEF f, g
  <2>2. /\ g \in Shares /\ DOMAIN g = Batch \cup {r} /\ g[r] = k
        /\ \A s \in Batch : s # r => g[s] = f[s]
    BY ONLY <1>0, <2>1
  <2> QED BY <2>2 DEF f, g
<1>4. ASSUME NEW e \in Nat
      PROVE  /\ Cardinality(Units(step'.sched, e)) = Cardinality(Units(step.sched, e)) + n + e
             /\ Cardinality(Units(step.sched, e)) \in Nat
  <2> DEFINE f == step.sched
             g == step'.sched
  <2>1. f \in Shares /\ g \in Shares /\ r \notin DOMAIN f /\ DOMAIN g = DOMAIN f \cup {r}
        /\ g[r] = n /\ \A s \in DOMAIN f : g[s] = f[s]
    BY <1>1, <1>2 DEF Batch
  <2> HIDE DEF f, g
  <2>2. Cardinality(Units(g, e)) = Cardinality(Units(f, e)) + g[r] + e
    BY <2>1, UnitsMore
  <2>3. Cardinality(Units(f, e)) \in Nat
    BY <2>1, UnitsType
  <2> QED BY <2>1, <2>2, <2>3 DEF f, g
<1>5. /\ step.budget + Cardinality(Units(step.sched, 0)) = TokenBudget
      /\ step.input + Cardinality(Units(step.sched, DraftSlots)) = InputBudget
  BY DEF Budgets
<1>6. /\ Cardinality(Units(step'.sched, 0)) = Cardinality(Units(step.sched, 0)) + n + 0
      /\ Cardinality(Units(step.sched, 0)) \in Nat
  BY <1>4
<1>7. /\ Cardinality(Units(step'.sched, DraftSlots)) = Cardinality(Units(step.sched, DraftSlots)) + n + DraftSlots
      /\ Cardinality(Units(step.sched, DraftSlots)) \in Nat
  BY <1>4, ConfigFacts
<1>8. step'.budget + Cardinality(Units(step'.sched, 0)) = TokenBudget /\ step'.budget \in 0 .. TokenBudget
  BY <1>1, <1>5, <1>6
<1>9. /\ step'.input + Cardinality(Units(step'.sched, DraftSlots)) = InputBudget
      /\ step'.input \in 0 .. InputBudget
  BY <1>1, <1>5, <1>7, ConfigFacts
<1>10. \A s \in Batch : s # r
  OBVIOUS
<1> QED BY <1>2, <1>3, <1>8, <1>9, <1>10 DEF Batch

\* The rest of the state when a request joins the batch.
LEMMA OthersAdvance ==
    ASSUME IInv, Scheduling, Scheduling', NEW r \in Requests, NEW s \in Requests \ {r},
           req[s].status = "running", req'[s] = req[s], kv'.table[s] = kv.table[s],
           kv'.numCached[s] = kv.numCached[s], s \in Batch' <=> s \in Batch,
           s \in Batch => step'.sched[s] = step.sched[s] /\ step'.specs[s] = step.specs[s]
    PROVE  Advance(s)'
<1>1. Advance(s)
  BY DEF IInv, Progress
<1>2. CASE s \in Batch
  BY <1>1, <1>2 DEF Advance
<1>3. CASE s \notin Batch
  BY <1>1, <1>3 DEF Advance, Passed, Scheduling
<1> QED BY <1>2, <1>3

\* allocate_slots for a request that joins the batch with n tokens.
LEMMA GrownIs ==
    ASSUME NEW c, ManagerOK(kv), CallOK(kv, c), CanAllocateSlots(kv, c), Allocate(c)
    PROVE  /\ AllocationSucceeds(kv, c)
           /\ kv' = AllocateSlots(kv, c) /\ slots' = Refreshed(kv.pool, kv'.pool, slots)
           /\ Allocated(kv, c, kv')
  BY AllocateOK DEF Allocate

\* What the call leaves the request with: q is the request before.
LEMMA BatchedIs ==
    ASSUME NEW m, NEW c, NEW A, CallOK(m, c), Allocated(m, c, A), ManagerOK(m),
           NEW q, q.ntok = c.numTokens, q.computed = LocalComputed(c),
           q.computed < q.ntok, q.computed + c.new <= MaxModelLen,
           CachedBefore(m, c) * BlockSize <= q.computed,
           NEW d, d = Greater(q.computed + c.new - q.ntok, 0), d <= NumSpec
    PROVE  Batched(A.numCached[c.req], Len(A.table[c.req]), q, c.new, d)
<1> DEFINE n == CachedAfter(m, c)
           b == CachedBefore(m, c)
<1>1. /\ c.req \in Requests /\ m.numCached \in [Requests -> Nat]
      /\ A.numCached = [m.numCached EXCEPT ![c.req] = n]
      /\ n \in Nat /\ b \in Nat
      /\ n = b \/ n * BlockSize <= CacheableTokens(c)
      /\ TokensNeedSlot(c) <= Len(A.table[c.req]) * BlockSize
  BY DEF CallOK, Allocated, ManagerOK, Managers
<1>2. A.numCached[c.req] = n
  BY <1>1
<1>3. /\ q.computed \in Nat /\ c.new \in Nat /\ q.ntok \in Nat
      /\ q.computed + c.new <= TokensNeedSlot(c) /\ TokensNeedSlot(c) \in Nat
      /\ CacheableTokens(c) \in Nat /\ CacheableTokens(c) <= q.ntok
      /\ CacheableTokens(c) <= q.computed + c.new
  BY CallTokens DEF CallOK
<1>4. BlockSize \in Nat \ {0} /\ MaxModelLen \in Nat
  BY KVCacheManagerAssumption
<1>5. Len(A.table[c.req]) \in Nat
  BY <1>1, HeldFacts DEF Allocated, ManagerOK
<1> HIDE DEF n, b
<1>6. n * BlockSize \in Nat /\ b * BlockSize \in Nat /\ Len(A.table[c.req]) * BlockSize \in Nat
  BY <1>1, <1>4, <1>5, MulMono
<1>7. b * BlockSize <= q.computed
  BY DEF b
<1>8. n * BlockSize <= q.ntok /\ n * BlockSize <= q.computed + c.new
  <2>1. CASE n = b
    BY <1>3, <1>6, <1>7, <2>1
  <2>2. CASE n * BlockSize <= CacheableTokens(c)
    BY <1>3, <1>6, <2>2
  <2> QED BY <1>1, <2>1, <2>2
<1>9. q.computed + c.new <= Len(A.table[c.req]) * BlockSize
  <2> DEFINE w == Len(A.table[c.req]) * BlockSize
  <2>1. w \in Nat /\ TokensNeedSlot(c) <= w
    BY <1>1, <1>6
  <2> HIDE DEF w
  <2>2. q.computed + c.new <= w
    BY <1>3, <2>1
  <2> QED BY <2>2 DEF w
<1> QED BY <1>2, <1>8, <1>9 DEF Batched

\* A running request is given tokens: the invariant stays.
LEMMA ScheduleRunningStep ==
    ASSUME IInv, ScheduleRunning
    PROVE  IInv'
<1> DEFINE r == Current
           n == NumNewTokens(r)
           c == RunningCall(r)
           d == Greater(n + req[r].computed - req[r].ntok, 0)
           z == [req[r] EXCEPT !.drafts = 0]
<1>1. /\ UNCHANGED << running, waiting, counter, flush, resets >>
      /\ AtRunning /\ ~Deferred(r) /\ n > 0 /\ step.phase = "running"
      /\ CanAllocateSlots(kv, c) /\ Allocate(c)
      /\ step' = IF ~AllocationSucceeds(kv, c)
                 THEN [step EXCEPT !.phase = "crashed"]
                 ELSE [Spent(n) EXCEPT !.idx = @ + 1, !.sched = Given(@, r, n),
                                       !.specs = Given(@, r, d), !.ran = @ \cup {r},
                                       !.prefill = @ \/ req[r].chunk]
      /\ req' = [req EXCEPT ![r] = z]
  BY DEF ScheduleRunning, queues, AtRunning
<1>2. /\ step.idx \in DOMAIN running /\ r \in Requests /\ r \in Range(running)
      /\ req[r].status = "running" /\ r \notin Batch
      /\ Resting(kv.numCached[r], Len(kv.table[r]), req[r])
  BY <1>1, CurrentIs
<1>3. /\ n \in Nat \ {0} /\ n <= step.budget /\ n + DraftSlots <= step.input
      /\ n + req[r].computed < MaxModelLen /\ n + req[r].computed <= req[r].ntok + req[r].drafts
  BY <1>1, NumNewTokensIs
<1>4. /\ req[r].computed \in Nat /\ req[r].ntok \in Nat \ {0} /\ req[r].ntok <= MaxModelLen
      /\ req[r].drafts \in Nat /\ req[r].drafts <= NumSpec /\ req[r].chunk \in BOOLEAN
      /\ req \in [Requests -> RequestRecord] /\ kv.table[r] \in Seq(Blocks)
      /\ kv.table \in [Requests -> Seq(Blocks)] /\ kv.numCached \in [Requests -> Nat]
      /\ Held(kv.pool, kv.table, kv.numCached)
      /\ MaxModelLen \in Nat /\ NumSpec \in Nat /\ Lookahead \in Nat
  BY <1>2, TablesRunning, TokenFacts, ConfigFacts
<1>5. /\ c.req = r /\ c.numTokens = req[r].ntok /\ c.computed = req[r].computed /\ c.new = n
      /\ c.hits = << >> /\ c.external = 0 /\ c.lookahead = Lookahead
      /\ c.delay = FALSE /\ c.reserved = 0
  BY DEF RunningCall
<1> HIDE DEF r, n, c
<1>6. CallOK(kv, c)
  BY <1>2, <1>3, <1>4, <1>5 DEF CallOK
<1>7. /\ AllocationSucceeds(kv, c) /\ slots' = Refreshed(kv.pool, kv'.pool, slots)
      /\ Allocated(kv, c, kv')
  BY <1>1, <1>6, GrownIs DEF IInv
<1>8. d \in Nat /\ d <= NumSpec
  <2> DEFINE x == n + req[r].computed - req[r].ntok
  <2>1. x \in Int /\ x <= NumSpec
    BY <1>3, <1>4
  <2>2. d = Greater(x, 0)
    OBVIOUS
  <2> HIDE DEF x, d
  <2> QED BY <1>4, <2>1, <2>2 DEF Greater
<1> HIDE DEF d
<1>9. /\ z \in RequestRecord /\ z.status = "running" /\ z.computed = req[r].computed
      /\ z.ntok = req[r].ntok /\ z.chunk = req[r].chunk /\ z.accepted = req[r].accepted
  <2>1. 0 \in 0 .. NumSpec /\ req[r] \in RequestRecord
    BY <1>2, <1>4
  <2> QED BY <1>2, <2>1 DEF RequestRecord
<1> HIDE DEF z
<1>10. /\ req' \in [Requests -> RequestRecord] /\ req'[r] = z
       /\ \A s \in Requests \ {r} : req'[s] = req[s]
  BY <1>1, <1>2, <1>4, <1>9
<1>11. /\ ManagerOK(kv') /\ Got(kv, c) \in Seq(Blocks)
       /\ kv'.table = [kv.table EXCEPT ![r] = AdoptedTable(kv, c) \o Got(kv, c)]
       /\ kv'.numCached = [kv.numCached EXCEPT ![r] = CachedAfter(kv, c)]
       /\ CachedAfter(kv, c) \in Nat
       /\ \A b \in Range(Got(kv, c)) : kv.pool.ref[b] = 0
  BY <1>5, <1>7 DEF Allocated
<1>12. AdoptedTable(kv, c) = kv.table[r]
  BY <1>4, <1>5 DEF AdoptedTable
<1>13. /\ kv'.table[r] = kv.table[r] \o Got(kv, c)
       /\ \A s \in Requests \ {r} : kv'.table[s] = kv.table[s] /\ kv'.numCached[s] = kv.numCached[s]
  BY <1>2, <1>4, <1>11, <1>12
<1>14. step' = [step EXCEPT !.budget = step.budget - n, !.input = step.input - (n + DraftSlots),
                            !.want = 0, !.idx = step.idx + 1, !.sched = Given(step.sched, r, n),
                            !.specs = Given(step.specs, r, d), !.ran = step.ran \cup {r},
                            !.prefill = step.prefill \/ req[r].chunk]
  BY <1>1, <1>7 DEF Spent
<1>15. /\ step \in StepRecord /\ Budgets /\ DOMAIN step.specs = Batch /\ step.ran = Batch
       /\ \A s \in Batch : step.sched[s] # 0
       /\ \A s \in step.ran : \E j \in DOMAIN running : j < step.idx /\ running[j] = s
  BY <1>1 DEF IInv, Steps, Scheduling
<1>16. /\ step'.budget = step.budget - n /\ step'.input = step.input - (n + DraftSlots)
       /\ step'.sched = Given(step.sched, r, n) /\ step'.specs = Given(step.specs, r, d)
       /\ step'.phase = "running" /\ step'.want = 0 /\ step'.idx = step.idx + 1
       /\ step'.ran = step.ran \cup {r} /\ step.idx \in Nat
  BY <1>1, <1>14, <1>15 DEF StepRecord
<1>17. /\ step'.budget + Cardinality(Units(step'.sched, 0)) = TokenBudget
       /\ step'.input + Cardinality(Units(step'.sched, DraftSlots)) = InputBudget
       /\ step'.budget \in 0 .. TokenBudget /\ step'.input \in 0 .. InputBudget
       /\ step'.sched \in Shares /\ step'.specs \in Shares
       /\ Batch' = Batch \cup {r} /\ DOMAIN step'.specs = Batch'
       /\ step'.sched[r] = n /\ step'.specs[r] = d
       /\ \A s \in Batch : step'.sched[s] = step.sched[s] /\ step'.specs[s] = step.specs[s]
  BY <1>2, <1>3, <1>8, <1>15, <1>16, Granted
<1>18. Steps'
  <2>1. step' \in StepRecord
    <3> DEFINE f == step.prefill \/ req[r].chunk
    <3>1. /\ f \in BOOLEAN /\ step.ran \cup {r} \in SUBSET Requests /\ step.idx + 1 \in Nat /\ 0 \in Nat
          /\ step.budget - n \in 0 .. TokenBudget
          /\ step.input - (n + DraftSlots) \in 0 .. InputBudget
          /\ Given(step.sched, r, n) \in Shares /\ Given(step.specs, r, d) \in Shares
      BY <1>2, <1>4, <1>15, <1>16, <1>17 DEF StepRecord
    <3>2. step' = [step EXCEPT !.budget = step.budget - n, !.input = step.input - (n + DraftSlots),
                            !.want = 0, !.idx = step.idx + 1, !.sched = Given(step.sched, r, n),
                            !.specs = Given(step.specs, r, d), !.ran = step.ran \cup {r},
                            !.prefill = f]
      BY <1>14
    <3> HIDE DEF f
    <3> QED BY ONLY <1>15, <3>1, <3>2 DEF StepRecord
  <2>2. Budgets'
    <3>1. Batch' \subseteq Range(running')
      BY <1>1, <1>2, <1>15, <1>17 DEF Budgets
    <3>2. step'.idx # 0
      BY <1>16
    <3> QED BY <1>17, <3>1, <3>2 DEF Budgets
  <2>3. \A s \in Batch' : step'.sched[s] # 0
    BY <1>3, <1>15, <1>17
  <2>4. DOMAIN running = 1 .. Len(running) /\ Len(running) \in Nat
    BY DEF IInv, Queues
  <2>5. ASSUME NEW s \in Batch' PROVE \E j \in DOMAIN running : j < step'.idx /\ running[j] = s
    <3>1. CASE s = r
      <4>1. running[step.idx] = r /\ step.idx < step'.idx
        BY <1>16 DEF r, Current
      <4> QED BY <1>2, <3>1, <4>1
    <3>2. CASE s # r
      <4>1. PICK j \in DOMAIN running : j < step.idx /\ running[j] = s
        BY <1>15, <1>17, <3>2
      <4> QED BY <1>16, <2>4, <4>1
    <3> QED BY <3>1, <3>2
  <2>6. step'.ran = Batch'
    BY <1>15, <1>16, <1>17
  <2> QED BY <1>1, <1>16, <1>17, <2>1, <2>2, <2>3, <2>5, <2>6 DEF Steps
<1>19. Requested'
  <2>1. \A s \in Requests : req'[s].status # "running" => kv'.table[s] = << >>
    BY <1>9, <1>10, <1>13 DEF IInv, Requested
  <2>2. ASSUME NEW s \in Requests
        PROVE  /\ req'[s].status # "finished" => req'[s].ntok < Total(s)
               /\ req'[s].status \in {"new", "waiting", "preempted"} => req'[s].computed = 0
    BY <1>2, <1>9, <1>10 DEF IInv, Requested
  <2> QED BY <1>10, <2>1, <2>2 DEF Requested, Total
<1>20. Queues'
  <2>1. \A s \in Requests : req'[s].status = req[s].status
    BY <1>2, <1>9, <1>10
  <2>2. /\ running \in Seq(Requests) /\ waiting \in Seq(Requests)
        /\ Unique(running) /\ Unique(waiting) /\ Len(running) <= MaxRunning
        /\ Range(waiting) = {s \in Requests : req[s].status \in {"waiting", "preempted"}}
    BY DEF IInv, Queues
  <2>3. /\ \A s \in Requests : req[s].status = "running" => s \in Range(running)
        /\ \A s \in Range(running) : s \in Requests /\ req[s].status = "running"
    BY <1>1, RunningIs
  <2>4. Range(waiting) = {s \in Requests : req'[s].status \in {"waiting", "preempted"}}
    BY <2>1, <2>2
  <2> QED BY <1>1, <2>1, <2>2, <2>3, <2>4 DEF Queues
<1>21. Counters' /\ Written'
  BY <1>1, <1>7, SlotsKept DEF IInv, Counters, Written
<1>22. Progress'
  <2> SUFFICES ASSUME NEW s \in Requests, req'[s].status = "running" PROVE Advance(s)'
    BY DEF Progress
  <2>1. CASE s = r
    <3> DEFINE q == req[r]
    <3>1. LocalComputed(c) = q.computed /\ CachedBefore(kv, c) = kv.numCached[r]
      BY <1>2, <1>4, <1>5, KVCacheManagerAssumption DEF LocalComputed, CachedBefore
    <3>2. /\ q.ntok = c.numTokens /\ q.computed = LocalComputed(c) /\ q.computed < q.ntok
          /\ q.computed + c.new <= MaxModelLen
          /\ CachedBefore(kv, c) * BlockSize <= q.computed
          /\ d = Greater(q.computed + c.new - q.ntok, 0)
      <4>1. n + q.computed - q.ntok = q.computed + n - q.ntok /\ q.computed + n <= MaxModelLen
        BY <1>3, <1>4
      <4> QED BY <1>2, <1>5, <3>1, <4>1 DEF Resting, d
    <3>3. Batched(kv'.numCached[c.req], Len(kv'.table[c.req]), q, c.new, d)
      <4> HIDE DEF q
      <4> QED BY <1>6, <1>7, <1>8, <3>2, BatchedIs DEF IInv
    <3>4. Batched(kv'.numCached[r], Len(kv'.table[r]), z, n, d)
      BY <1>5, <1>9, <3>3 DEF Batched
    <3>5. r \in Batch' /\ Scheduling'
      BY <1>16, <1>17 DEF Scheduling
    <3> QED BY <1>10, <1>17, <2>1, <3>4, <3>5 DEF Advance
  <2>2. CASE s # r
    <3>1. /\ req'[s] = req[s] /\ kv'.table[s] = kv.table[s] /\ kv'.numCached[s] = kv.numCached[s]
          /\ s \in Batch' <=> s \in Batch
          /\ s \in Batch => step'.sched[s] = step.sched[s] /\ step'.specs[s] = step.specs[s]
          /\ Scheduling /\ Scheduling'
      BY <1>1, <1>10, <1>13, <1>16, <1>17, <2>2 DEF Scheduling
    <3>2. s \in Requests \ {r} /\ req[s].status = "running"
      BY <2>2, <3>1
    <3> QED BY <1>2, <3>1, <3>2, OthersAdvance
  <2> QED BY <2>1, <2>2
<1>23. OwnedOnce'
  <2> DEFINE t == kv.table[r]
             got == Got(kv, c)
  <2>1. t \in Seq(Blocks) /\ got \in Seq(Blocks) /\ kv'.table[r] = t \o got
        /\ \A b \in Range(got) : kv.pool.ref[b] = 0
    BY <1>4, <1>11, <1>13
  <2>2. \A s \in Requests : req'[s].computed = req[s].computed
    BY <1>9, <1>10
  <2>3. \A s \in Requests \ {r} : kv'.table[s] = kv.table[s] /\ req'[s].computed = req[s].computed
    BY <1>13, <2>2
  <2>4. Owned(kv.table, req)
    BY DEF IInv, OwnedOnce
  <2>5. \A i \in 1 .. Len(t) :
           \/ i * BlockSize <= req'[r].computed
           \/ i \in 1 .. Len(kv.table[r]) /\ t[i] = kv.table[r][i] /\ req'[r].computed = req[r].computed
    BY <1>2, <2>2
  <2> DEFINE p == kv.pool
             T == kv.table
             l == kv.numCached
             U == kv'.table
             q == req
             f == req'
  <2>6. /\ Held(p, T, l) /\ \A b \in Range(got) : p.ref[b] = 0
        /\ U[r] = t \o got /\ \A s \in Requests \ {r} : U[s] = T[s] /\ f[s].computed = q[s].computed
        /\ Owned(T, q)
        /\ \A i \in 1 .. Len(t) :
               \/ i * BlockSize <= f[r].computed
               \/ i \in 1 .. Len(T[r]) /\ t[i] = T[r][i] /\ f[r].computed = q[r].computed
    BY <1>4, <2>1, <2>3, <2>4, <2>5
  <2> HIDE DEF t, got, p, T, l, U, q, f
  <2>9. Grows(p, T, q, r, t, got, U, f)
    BY <2>1, <2>6 DEF Grows
  <2>7. Owned(U, f)
    BY ONLY <1>2, <2>6, <2>9, OwnedMore
  <2>8. Owned(kv'.table, req')
    BY <2>7 DEF U, f
  <2> QED BY <2>8 DEF OwnedOnce
<1> QED BY <1>11, <1>18, <1>19, <1>20, <1>21, <1>22, <1>23 DEF IInv

----------------------------------------------------------------------------
(* schedule(): a preemption.                                               *)

\* There is a least urgent request among those that run.
LEMMA LeastUrgent ==
    ASSUME NEW S \in SUBSET Requests, S # {}
    PROVE  \E r \in S : \A s \in S : Priority[s] <= Priority[r]
<1> DEFINE Less(s) == {x \in S : Priority[s] < Priority[x]}
           R == StrictSubsetOrdering(S)
           T == {Less(s) : s \in S}
<1>1. \A s \in S : Priority[s] \in Nat
  BY SchedulerAssumption
<1>2. IsFiniteSet(S)
  BY KVCacheManagerAssumption, FS_Subset
<1>3. IsWellFoundedOn(R, FiniteSubsetsOf(S))
  BY FS_StrictSubsetOrderingWellFounded
<1>4. FiniteSubsetsOf(S) = SUBSET S
  BY <1>2, FS_FiniteSubsetsOfFinite
<1>5. T \subseteq SUBSET S /\ T # {}
  OBVIOUS
<1>6. \E x \in T : \A y \in T : ~ (<< y, x >> \in R)
  <2> HIDE DEF R, T
  <2> QED BY <1>3, <1>4, <1>5, WFMin
<1>7. PICK r \in S : \A s \in S : ~ (<< Less(s), Less(r) >> \in R)
  BY <1>6
<1>8. ASSUME NEW s \in S, ~(Priority[s] <= Priority[r]) PROVE FALSE
  <2>1. Priority[r] < Priority[s]
    BY <1>1, <1>8
  <2>2. Less(s) \subseteq Less(r)
    BY <1>1, <2>1
  <2>3. s \in Less(r) /\ s \notin Less(s)
    BY <1>1, <2>1
  <2>4. << Less(s), Less(r) >> \in R
    BY <2>2, <2>3 DEF StrictSubsetOrdering
  <2> QED BY <1>7, <2>4
<1> QED BY <1>8

\* The victim is a running request.
LEMMA VictimIs ==
    ASSUME IInv, AtRunning
    PROVE  Victim \in Range(running)
<1>1. running \in Seq(Requests) /\ Unique(running)
  BY DEF IInv, Queues
<1>2. Current \in Range(running)
  BY CurrentIs
<1>3. running # << >>
  BY <1>2 DEF Range
<1>4. Last(running) \in Range(running)
  BY <1>1, <1>3, EndsAre
<1>5. Range(running) \in SUBSET Requests
  BY <1>1 DEF Range
<1>6. \E x \in Range(running) : \A s \in Range(running) : Priority[s] <= Priority[x]
  BY <1>2, <1>5, LeastUrgent
<1> QED BY <1>4, <1>6 DEF Victim

\* The step without the share of v.
LEMMA UndoneIs ==
    ASSUME IInv, step.phase = "running", NEW v \in Requests
    PROVE  /\ Undone(v) \in StepRecord
           /\ DOMAIN Undone(v).sched = Batch \ {v} /\ DOMAIN Undone(v).specs = Batch \ {v}
           /\ Undone(v).ran = Batch \ {v}
           /\ \A s \in Batch \ {v} : /\ Undone(v).sched[s] = step.sched[s]
                                     /\ Undone(v).specs[s] = step.specs[s]
           /\ Undone(v).budget + Cardinality(Units(Undone(v).sched, 0)) = TokenBudget
           /\ Undone(v).input + Cardinality(Units(Undone(v).sched, DraftSlots)) = InputBudget
           /\ step.budget <= Undone(v).budget /\ step.input <= Undone(v).input
           /\ Undone(v).phase = step.phase /\ Undone(v).idx = step.idx
           /\ Undone(v).defer = step.defer
<1>1. /\ step \in StepRecord /\ Budgets /\ DOMAIN step.specs = Batch /\ step.ran = Batch
  BY DEF IInv, Steps, Scheduling
<1>2. /\ step.sched \in Shares /\ step.specs \in Shares /\ step.ran \in SUBSET Requests
      /\ step.budget \in Nat /\ step.input \in Nat /\ step.idx \in Nat
  BY <1>1, ConfigFacts DEF StepRecord
<1>3. /\ step.budget + Cardinality(Units(step.sched, 0)) = TokenBudget
      /\ step.input + Cardinality(Units(step.sched, DraftSlots)) = InputBudget
  BY <1>1 DEF Budgets
<1>4. CASE v \notin step.ran
  <2>1. Undone(v) = step /\ Batch \ {v} = Batch
    BY <1>1, <1>4 DEF Undone
  <2> QED BY <1>1, <1>2, <1>3, <2>1 DEF Batch
<1>5. CASE v \in step.ran
  <2> DEFINE f == step.sched
             g == Restrict(f, DOMAIN f \ {v})
             h == Restrict(step.specs, DOMAIN step.specs \ {v})
             n == f[v]
             u == Undone(v)
  <2>1. u = [step EXCEPT !.budget = @ + n, !.input = @ + n + DraftSlots,
                         !.sched = g, !.specs = h, !.ran = @ \ {v}]
    BY <1>5 DEF Undone
  <2>2. /\ g \in Shares /\ DOMAIN g = Batch \ {v}
        /\ \A s \in Batch : s # v => g[s] = f[s]
    BY <1>2, TakenIs DEF Batch
  <2>3. /\ h \in Shares /\ DOMAIN h = Batch \ {v}
        /\ \A s \in Batch : s # v => h[s] = step.specs[s]
    <3> DEFINE e == step.specs
    <3>1. e \in Shares /\ DOMAIN e = Batch
      BY <1>1, <1>2
    <3>2. /\ Restrict(e, DOMAIN e \ {v}) \in Shares
          /\ DOMAIN Restrict(e, DOMAIN e \ {v}) = DOMAIN e \ {v}
          /\ \A s \in DOMAIN e : s # v => Restrict(e, DOMAIN e \ {v})[s] = e[s]
      <4> HIDE DEF e
      <4> QED BY <3>1, TakenIs
    <3> QED BY <3>1, <3>2
  <2>4. f \in Shares /\ v \in DOMAIN f /\ n \in Nat
    BY <1>1, <1>2, <1>5, SharesIs DEF Batch
  <2> HIDE DEF g, h, n, u
  <2>5. ASSUME NEW k \in Nat
        PROVE  /\ Cardinality(Units(f, k)) = Cardinality(Units(g, k)) + n + k
               /\ Cardinality(Units(g, k)) \in Nat
    <3>1. g \in Shares /\ f \in Shares /\ v \notin DOMAIN g /\ DOMAIN f = DOMAIN g \cup {v}
          /\ f[v] = n /\ \A s \in DOMAIN g : f[s] = g[s]
      BY <2>2, <2>4 DEF n, Batch
    <3> HIDE DEF f
    <3>2. Cardinality(Units(f, k)) = Cardinality(Units(g, k)) + f[v] + k
      BY <3>1, UnitsMore
    <3>3. Cardinality(Units(g, k)) \in Nat
      BY <3>1, UnitsType
    <3> QED BY <3>1, <3>2, <3>3
  <2>6. /\ Cardinality(Units(f, 0)) = Cardinality(Units(g, 0)) + n + 0
        /\ Cardinality(Units(g, 0)) \in Nat
    BY <2>5
  <2>7. /\ Cardinality(Units(f, DraftSlots)) = Cardinality(Units(g, DraftSlots)) + n + DraftSlots
        /\ Cardinality(Units(g, DraftSlots)) \in Nat
    BY <2>5, ConfigFacts
  <2>8. /\ step.budget + n + Cardinality(Units(g, 0)) = TokenBudget
        /\ step.budget + n \in 0 .. TokenBudget /\ step.budget <= step.budget + n
    BY <1>2, <1>3, <2>4, <2>6, ConfigFacts
  <2>9. /\ step.input + n + DraftSlots + Cardinality(Units(g, DraftSlots)) = InputBudget
        /\ step.input + n + DraftSlots \in 0 .. InputBudget /\ step.input <= step.input + n + DraftSlots
    BY <1>2, <1>3, <2>4, <2>7, ConfigFacts
  <2>10. /\ u \in StepRecord /\ u.budget = step.budget + n /\ u.input = step.input + n + DraftSlots
         /\ u.sched = g /\ u.specs = h /\ u.ran = step.ran \ {v}
         /\ u.phase = step.phase /\ u.idx = step.idx /\ u.defer = step.defer
    <3>1. step.ran \ {v} \in SUBSET Requests
      BY <1>2
    <3> QED BY <1>1, <2>1, <2>2, <2>3, <2>8, <2>9, <3>1 DEF StepRecord
  <2>11. \A s \in Batch \ {v} : u.sched[s] = step.sched[s] /\ u.specs[s] = step.specs[s]
    BY <2>2, <2>3, <2>10
  <2>12. /\ u.budget + Cardinality(Units(u.sched, 0)) = TokenBudget
         /\ u.input + Cardinality(Units(u.sched, DraftSlots)) = InputBudget
         /\ step.budget <= u.budget /\ step.input <= u.input
    BY <2>8, <2>9, <2>10
  <2>13. /\ DOMAIN u.sched = Batch \ {v} /\ DOMAIN u.specs = Batch \ {v} /\ u.ran = Batch \ {v}
    BY <1>1, <2>2, <2>3, <2>10
  <2> QED BY <2>10, <2>11, <2>12, <2>13 DEF u
<1> QED BY <1>4, <1>5

\* The place of a running request.
LEMMA IndexOfIs ==
    ASSUME NEW q \in Seq(Requests), NEW v \in Range(q)
    PROVE  IndexOf(q, v) \in 1 .. Len(q) /\ q[IndexOf(q, v)] = v
<1>1. \E i \in DOMAIN q : q[i] = v
  BY DEF Range
<1>2. DOMAIN q = 1 .. Len(q)
  OBVIOUS
<1> QED BY <1>1, <1>2 DEF IndexOf

\* A preemption in the running loop, of a request that may be part of the step,
\* keeps the invariant.
LEMMA PreemptRunningStep ==
    ASSUME IInv, PreemptRunning
    PROVE  IInv'
<1> DEFINE r == Current
           v == Victim
           n == NumNewTokens(r)
           m == RefuseSlots(kv, RunningCall(r))
           u == Undone(v)
           k == IndexOf(running, v)
           w == IF v = r THEN 0 ELSE n
           j == IF k < step.idx THEN step.idx - 1 ELSE step.idx
           f == IF v = r THEN "dispatch" ELSE "running"
<1>1. AtRunning /\ step.phase = "running" /\ ~Deferred(r) /\ n > 0
  BY DEF PreemptRunning, AtRunning
<1>2. /\ UNCHANGED << counter, flush, resets >>
      /\ running' = Without(running, v) /\ waiting' = Prepended(waiting, v)
      /\ req' = PreemptedReq(v) /\ kv' = FreeRequest(m, v)
      /\ slots' = Remembered(kv'.pool, slots)
      /\ step' = [u EXCEPT !.preempted = TRUE, !.want  = w,
                           !.idx   = IF IndexOf(running, v) < @ THEN @ - 1 ELSE @,
                           !.phase = IF v = r THEN "dispatch" ELSE @]
  BY DEF PreemptRunning
<1>3. /\ step.idx \in DOMAIN running /\ r \in Requests /\ r \in Range(running)
      /\ req[r].status = "running" /\ r \notin Batch
  BY <1>1, CurrentIs
<1>4. v \in Range(running) /\ v \in Requests
  BY <1>1, VictimIs, RunningIs
<1>5. /\ n \in Nat \ {0} /\ n <= step.budget /\ n + DraftSlots <= step.input
      /\ n + req[r].computed < MaxModelLen /\ n + req[r].computed <= req[r].ntok + req[r].drafts
  BY <1>1, NumNewTokensIs
<1>6. /\ u \in StepRecord
      /\ DOMAIN u.sched = Batch \ {v} /\ DOMAIN u.specs = Batch \ {v} /\ u.ran = Batch \ {v}
      /\ \A s \in Batch \ {v} : u.sched[s] = step.sched[s] /\ u.specs[s] = step.specs[s]
      /\ u.budget + Cardinality(Units(u.sched, 0)) = TokenBudget
      /\ u.input + Cardinality(Units(u.sched, DraftSlots)) = InputBudget
      /\ step.budget <= u.budget /\ step.input <= u.input
      /\ u.phase = "running" /\ u.idx = step.idx /\ u.defer = step.defer
  BY <1>1, <1>4, UndoneIs
<1>7. /\ ManagerOK(m) /\ m.table = kv.table /\ m.numCached = kv.numCached
  <2> DEFINE c == RunningCall(r)
  <2>1. c.req \in Requests
    BY <1>3 DEF RunningCall
  <2> HIDE DEF c
  <2>2. /\ ManagerOK(RefuseSlots(kv, c)) /\ RefuseSlots(kv, c).table = kv.table
        /\ RefuseSlots(kv, c).numCached = kv.numCached
    BY <2>1, RefuseOK DEF IInv
  <2> QED BY <2>2 DEF c
<1>8. r = running[step.idx]
  BY DEF Current
<1>9. /\ running \in Seq(Requests) /\ Unique(running) /\ Len(running) \in Nat
      /\ DOMAIN running = 1 .. Len(running)
  BY DEF IInv, Queues
<1>10. k \in 1 .. Len(running) /\ running[k] = v
  BY <1>4, <1>9, IndexOfIs
<1> HIDE DEF v, n, r, m, u
<1>11. /\ running' \in Seq(Requests) /\ Unique(running')
       /\ Range(running') = Range(running) \ {v} /\ Len(running') <= Len(running)
  BY <1>2, <1>9, WithoutIs
<1>12. /\ Len(running') = Len(running) - 1 /\ DOMAIN running' = 1 .. Len(running')
       /\ \A i \in 1 .. Len(running) : /\ i < k => running'[i] = running[i]
                                       /\ i > k => running'[i - 1] = running[i]
  <2>1. k \in DOMAIN running
    BY <1>9, <1>10
  <2> HIDE DEF k
  <2>2. /\ Len(Without(running, running[k])) = Len(running) - 1
        /\ \A i \in 1 .. Len(running) :
              /\ i < k => Without(running, running[k])[i] = running[i]
              /\ i > k => Without(running, running[k])[i - 1] = running[i]
    BY <1>9, <2>1, WithoutIndex
  <2> QED BY <1>2, <1>10, <1>11, <2>2
<1>13. /\ step' = [u EXCEPT !.preempted = TRUE, !.want = w, !.idx = j, !.phase = f]
       /\ step.idx \in Nat
  BY <1>2, <1>6 DEF StepRecord
<1> HIDE DEF k
<1>14. w \in Nat /\ j \in Nat \ {0} /\ f \in Phases \ {"crashed"}
  BY <1>3, <1>5, <1>9, <1>10 DEF Phases
<1> HIDE DEF w, j, f
<1>15. /\ step' \in StepRecord /\ step'.want = w /\ step'.idx = j /\ step'.phase = f
       /\ step'.budget = u.budget /\ step'.input = u.input /\ step'.sched = u.sched
       /\ step'.specs = u.specs /\ step'.ran = u.ran /\ step'.defer = u.defer
  BY <1>6, <1>13, <1>14 DEF StepRecord
<1>16. f \in {"running", "dispatch"} /\ (f = "running" <=> v # r) /\ (w > 0 <=> v # r)
       /\ (v # r => w = n)
  BY <1>5 DEF f, w
<1>17. /\ Requested' /\ Queues' /\ OwnedOnce' /\ ManagerOK(kv') /\ Written'
       /\ \A s \in Requests : s # v => /\ req'[s] = req[s]
                                       /\ kv'.table[s] = kv.table[s]
                                       /\ kv'.numCached[s] = kv.numCached[s]
       /\ req'[v].status = "preempted"
  <2>1. step.phase \notin {"update", "executed"} /\ step'.phase \notin {"update", "executed"}
    BY <1>1, <1>15, <1>16
  <2> QED BY <1>2, <1>4, <1>7, <1>11, <2>1, Preempted
<1>18. Batch' = Batch \ {v}
  BY <1>6, <1>15 DEF Batch
<1>19. /\ Batch \subseteq Range(running) /\ \A s \in Batch : step.sched[s] # 0
       /\ \A s \in Batch : \E i \in DOMAIN running : i < step.idx /\ running[i] = s
  BY <1>1 DEF IInv, Steps, Scheduling, Budgets
<1>20. Steps'
  <2>1. Budgets'
    <3>1. Batch' \subseteq Range(running')
      BY <1>11, <1>18, <1>19
    <3> QED BY <1>6, <1>14, <1>15, <3>1 DEF Budgets
  <2>2. DOMAIN step'.specs = Batch' /\ step'.ran = Batch' /\ \A s \in Batch' : step'.sched[s] # 0
    BY <1>6, <1>15, <1>18, <1>19
  <2>3. ASSUME NEW s \in Batch' PROVE \E i \in DOMAIN running' : i < j /\ running'[i] = s
    <3>1. PICK i \in DOMAIN running : i < step.idx /\ running[i] = s
      BY <1>18, <1>19
    <3>2. i # k
      BY <1>10, <1>18, <3>1
    <3>3. CASE i < k
      <4>1. running'[i] = s
        BY <1>9, <1>12, <3>1, <3>3
      <4>2. i \in DOMAIN running'
        BY <1>9, <1>10, <1>12, <3>1, <3>3
      <4>3. i < j
        BY <1>3, <1>9, <1>10, <3>1, <3>3 DEF j
      <4> QED BY <4>1, <4>2, <4>3
    <3>4. CASE i > k
      <4>1. running'[i - 1] = s
        BY <1>9, <1>12, <3>1, <3>4
      <4>2. i - 1 \in DOMAIN running'
        BY <1>9, <1>10, <1>12, <3>1, <3>4
      <4>3. i - 1 < j
        BY <1>3, <1>9, <1>10, <3>1, <3>4 DEF j
      <4> QED BY <4>1, <4>2, <4>3
    <3> QED BY <1>9, <1>10, <3>1, <3>2, <3>3, <3>4
  <2>4. ASSUME v # r
        PROVE  j <= Len(running') /\ running'[j] = r
    <3>1. k # step.idx
      BY <1>8, <1>10, <2>4
    <3>2. CASE k < step.idx
      <4>1. j = step.idx - 1 /\ running'[step.idx - 1] = running[step.idx]
        BY <1>3, <1>9, <1>12, <3>2 DEF j
      <4> QED BY <1>3, <1>8, <1>9, <1>12, <4>1
    <3>3. CASE k > step.idx
      <4>1. j = step.idx /\ running'[step.idx] = running[step.idx]
        BY <1>3, <1>9, <1>10, <1>12, <3>3 DEF j
      <4>2. step.idx <= Len(running) - 1
        BY <1>3, <1>9, <1>10, <3>3
      <4> QED BY <1>8, <1>12, <4>1, <4>2
    <3> QED BY <1>3, <1>9, <1>10, <3>1, <3>2, <3>3
  <2>5. ASSUME v # r
        PROVE  /\ ~(step'.defer /\ req'[r].chunk)
               /\ step'.want <= step'.budget /\ step'.want + DraftSlots <= step'.input
               /\ step'.want + req'[r].computed < MaxModelLen
               /\ step'.want + req'[r].computed <= req'[r].ntok + req'[r].drafts
    <3>1. req'[r] = req[r]
      BY <1>3, <1>17, <2>5
    <3>2. ~(step'.defer /\ req'[r].chunk)
      BY <1>1, <1>6, <1>15, <3>1 DEF Deferred
    <3>3. step'.want = n /\ step'.budget = u.budget /\ step'.input = u.input
      BY <1>15, <1>16, <2>5
    <3>4. n <= u.budget /\ n + DraftSlots <= u.input
      <4>1. u.budget \in Nat /\ u.input \in Nat /\ step.budget \in Nat /\ step.input \in Nat
        BY <1>6, ConfigFacts DEF IInv, Steps, StepRecord
      <4> QED BY <1>5, <1>6, <4>1, ConfigFacts
    <3>5. /\ n + req'[r].computed < MaxModelLen
          /\ n + req'[r].computed <= req'[r].ntok + req'[r].drafts
      BY <1>5, <3>1
    <3> QED BY <3>2, <3>3, <3>4, <3>5
  <2>6. ASSUME step'.want > 0
        PROVE  step'.phase = "running" /\ step'.idx <= Len(running') /\ Wanted(Current)'
    <3>1. v # r
      BY <1>15, <1>16, <2>6
    <3>2. Current' = r
      BY <1>15, <2>4, <3>1 DEF Current
    <3>3. Wanted(Current)'
      BY <2>5, <3>1, <3>2 DEF Wanted, Deferred
    <3> QED BY <1>15, <1>16, <2>4, <3>1, <3>3
  <2>7. step'.phase \notin {"idle", "resetting", "update"} /\ step'.ran \subseteq Batch'
    BY <1>15, <1>16, <2>2
  <2>8. \A s \in step'.ran : \E i \in DOMAIN running' : i < step'.idx /\ running'[i] = s
    BY <1>15, <2>2, <2>3
  <2> QED BY <1>15, <2>1, <2>2, <2>6, <2>7, <2>8 DEF Steps
<1>21. Counters'
  BY <1>2 DEF IInv, Counters
<1>22. Progress'
  <2> SUFFICES ASSUME NEW s \in Requests, req'[s].status = "running" PROVE Advance(s)'
    BY DEF Progress
  <2>1. s # v
    BY <1>17
  <2>2. /\ req'[s] = req[s] /\ kv'.table[s] = kv.table[s] /\ kv'.numCached[s] = kv.numCached[s]
        /\ s \in Requests \ {v} /\ req[s].status = "running"
    BY <1>17, <2>1
  <2>3. /\ s \in Batch' <=> s \in Batch
        /\ s \in Batch => step'.sched[s] = step.sched[s] /\ step'.specs[s] = step.specs[s]
        /\ Scheduling /\ Scheduling'
    BY <1>1, <1>6, <1>15, <1>16, <1>18, <2>1 DEF Scheduling
  <2> QED BY <1>4, <2>2, <2>3, OthersAdvance
<1> QED BY <1>17, <1>20, <1>21, <1>22 DEF IInv

----------------------------------------------------------------------------
(* schedule(): a waiting request.                                          *)

\* A padded request keeps its placeholder drafts.
Padding == NumSpec = 0 \/ LongPrefill = 0 \/ LongPrefill > NumSpec

\* The hits of a waiting request.
LEMMA HitsAre ==
    ASSUME IInv, NEW r \in Requests
    PROVE  /\ HitsOf(r) \in Seq(Blocks) /\ HitTokens(r) \in Nat /\ HitTokens(r) < req[r].ntok
           /\ \A i \in 1 .. Len(HitsOf(r)) :
                 Keyed(i) /\ kv.pool.hash[HitsOf(r)[i]] = BlockKey(r, i)
<1>1. ManagerOK(kv) /\ req[r].ntok \in Nat \ {0} /\ req[r].ntok <= MaxModelLen
  BY TablesRunning DEF IInv
<1> DEFINE n == req[r].ntok
           m == kv
<1>2. n \in Nat \ {0} /\ n <= MaxModelLen /\ ManagerOK(m)
  BY <1>1
<1> HIDE DEF n, m
<1>3. /\ GetComputedBlocks(m, r, n) \in Seq(Blocks)
      /\ Len(GetComputedBlocks(m, r, n)) * BlockSize < n
      /\ Len(GetComputedBlocks(m, r, n)) * BlockSize \in Nat
      /\ \A i \in 1 .. Len(GetComputedBlocks(m, r, n)) :
            /\ Keyed(i)
            /\ m.pool.hash[GetComputedBlocks(m, r, n)[i]] = BlockKey(r, i)
  BY <1>2, HitsProperties
<1> QED BY <1>3 DEF HitsOf, HitTokens, n, m

\* The tokens of an admitted request: within the budgets and the maximal
\* length, and no draft is scheduled that is not padding.
LEMMA FirstTokensIs ==
    ASSUME IInv, Padding, NEW r \in Requests, BudgetLeft, Padded(r) => PaddingFits(r)
    PROVE  /\ FirstTokens(r) \in Nat \ {0}
           /\ FirstTokens(r) <= step.budget /\ FirstTokens(r) + DraftSlots <= step.input
           /\ HitTokens(r) + FirstTokens(r) <= MaxModelLen
           /\ Padded(r) => HitTokens(r) + FirstTokens(r) - req[r].ntok = NumSpec
           /\ ~Padded(r) => HitTokens(r) + FirstTokens(r) <= req[r].ntok
<1> DEFINE h == HitTokens(r)
           t == req[r].ntok
           b == step.budget
           i == step.input
           x == IF Padded(r) THEN 1 + NumSpec ELSE t - h
           y == Capped(x)
           n == FirstTokens(r)
<1>1. /\ h \in Nat /\ h < t /\ t \in Nat /\ t <= MaxModelLen /\ MaxModelLen \in Nat
      /\ NumSpec \in Nat /\ LongPrefill \in Nat /\ DraftSlots \in Nat
  BY HitsAre, TablesRunning, TokenFacts, ConfigFacts
<1>2. b \in Nat /\ i \in Nat /\ b > 0 /\ i > DraftSlots
  BY ConfigFacts DEF IInv, Steps, StepRecord, BudgetLeft
<1>3. n = Lesser(y, Lesser(b, i - DraftSlots))
  BY DEF FirstTokens, WithinBudget
<1>4. x \in Nat \ {0}
  BY <1>1
<1>5. y \in Nat \ {0} /\ y <= x
  <2> HIDE DEF x
  <2> QED BY <1>1, <1>4 DEF Capped
<1>6. Padded(r) => /\ t - h = 1 /\ NumSpec > 0 /\ h + 1 + NumSpec <= MaxModelLen
                   /\ 1 + NumSpec <= Lesser(1 + NumSpec, Lesser(b, i - DraftSlots))
  BY DEF Padded, PaddingFits, WithinBudget
<1>7. Padded(r) => y = 1 + NumSpec
  <2>1. ASSUME Padded(r) PROVE y = 1 + NumSpec
    <3>1. x = 1 + NumSpec
      BY <2>1
    <3> HIDE DEF x
    <3> QED BY <1>1, <1>6, <2>1, <3>1 DEF Capped, Padding
  <2> QED BY <2>1
<1>8. ~Padded(r) => x = t - h
  OBVIOUS
<1> HIDE DEF h, t, b, i, x, y, n
<1>9. n \in Nat \ {0} /\ n <= y /\ n <= b /\ n + DraftSlots <= i
  BY <1>1, <1>2, <1>3, <1>5 DEF Lesser
<1>10. Padded(r) => n = 1 + NumSpec
  <2>1. ASSUME Padded(r) PROVE n = 1 + NumSpec
    BY <1>1, <1>2, <1>3, <1>6, <1>7, <2>1 DEF Lesser
  <2> QED BY <2>1
<1>11. CASE Padded(r)
  BY <1>1, <1>6, <1>9, <1>10, <1>11 DEF h, t, b, i, n
<1>12. CASE ~Padded(r)
  <2>1. h + n <= t
    BY <1>1, <1>4, <1>5, <1>8, <1>9, <1>12
  <2>2. h + n <= MaxModelLen
    BY <1>1, <1>9, <2>1
  <2> QED BY <1>9, <1>12, <2>1, <2>2 DEF h, t, b, i, n
<1> QED BY <1>11, <1>12

\* An admission keeps the invariant.
LEMMA AdmitStep ==
    ASSUME IInv, Padding, Admit
    PROVE  IInv'
<1> DEFINE r == Head(waiting)
           n == FirstTokens(r)
           c == WaitingCall(r)
           d == IF Padded(r) THEN NumSpec ELSE 0
           h == HitTokens(r)
           z == [req[r] EXCEPT !.status = "running", !.computed = h]
<1>1. /\ UNCHANGED << counter, flush, resets >>
      /\ step.phase = "waiting" /\ waiting # << >> /\ BudgetLeft /\ Len(running) < MaxRunning
      /\ Padded(r) => PaddingFits(r)
      /\ CanAllocateSlots(kv, c) /\ Allocate(c)
      /\ waiting' = Tail(waiting) /\ running' = Append(running, r)
      /\ req' = [req EXCEPT ![r].status = "running", ![r].computed = h]
      /\ step' = IF ~AllocationSucceeds(kv, c)
                 THEN [step EXCEPT !.phase = "crashed"]
                 ELSE [Spent(n) EXCEPT !.sched = Given(@, r, n), !.specs = Given(@, r, d)]
  BY DEF Admit, AtWaiting, RoomToAdmit, Considered
<1>2. /\ running \in Seq(Requests) /\ waiting \in Seq(Requests)
      /\ Unique(running) /\ Unique(waiting) /\ Len(running) \in Nat
      /\ Range(waiting) = {s \in Requests : req[s].status \in {"waiting", "preempted"}}
  BY DEF IInv, Queues
<1>3. /\ r \in Range(waiting) /\ r \in Requests /\ Range(Tail(waiting)) = Range(waiting) \ {r}
      /\ Tail(waiting) \in Seq(Requests) /\ Unique(Tail(waiting))
  BY <1>1, <1>2, EndsAre
<1>4. req[r].status \in {"waiting", "preempted"} /\ r \notin Range(running)
  <2>1. req[r].status \in {"waiting", "preempted"}
    BY <1>2, <1>3
  <2> QED BY <1>1, <2>1, RunningIs
<1>5. /\ req[r].ntok \in Nat \ {0} /\ req[r].ntok <= MaxModelLen
      /\ req \in [Requests -> RequestRecord] /\ kv.table \in [Requests -> Seq(Blocks)]
      /\ kv.numCached \in [Requests -> Nat] /\ Held(kv.pool, kv.table, kv.numCached)
      /\ kv.table[r] = << >> /\ kv.numCached[r] = 0
      /\ MaxModelLen \in Nat /\ NumSpec \in Nat /\ Lookahead \in Nat /\ BlockSize \in Nat \ {0}
  <2>1. kv.table[r] = << >>
    BY <1>3, <1>4, TablesRunning
  <2>2. kv.numCached[r] = 0
    <3>1. Held(kv.pool, kv.table, kv.numCached)
      BY TablesRunning
    <3>2. kv.numCached[r] \in Nat /\ kv.numCached[r] <= Len(kv.table[r])
      BY <1>3, <3>1, HeldFacts
    <3> QED BY <2>1, <3>2
  <2> QED BY <1>3, <2>1, <2>2, TablesRunning, TokenFacts, ConfigFacts
<1>6. /\ HitsOf(r) \in Seq(Blocks) /\ h \in Nat /\ h < req[r].ntok
      /\ \A i \in 1 .. Len(HitsOf(r)) :
            Keyed(i) /\ kv.pool.hash[HitsOf(r)[i]] = BlockKey(r, i)
      /\ h = Len(HitsOf(r)) * BlockSize
  <2> HIDE DEF r
  <2> QED BY <1>3, HitsAre DEF HitTokens
<1>7. /\ n \in Nat \ {0} /\ n <= step.budget /\ n + DraftSlots <= step.input
      /\ h + n <= MaxModelLen
      /\ Padded(r) => h + n - req[r].ntok = NumSpec
      /\ ~Padded(r) => h + n <= req[r].ntok
  <2> HIDE DEF r
  <2> QED BY <1>1, <1>3, FirstTokensIs
<1>8. /\ c.req = r /\ c.numTokens = req[r].ntok /\ c.computed = 0 /\ c.new = n
      /\ c.hits = HitsOf(r) /\ c.external = 0 /\ c.lookahead = Lookahead
      /\ c.delay = FALSE /\ c.reserved = 0
  BY DEF WaitingCall
<1>9. d \in Nat /\ d <= NumSpec /\ d = Greater(h + n - req[r].ntok, 0)
  <2> DEFINE y == h + n - req[r].ntok
  <2>1. y \in Int /\ (Padded(r) => y = NumSpec) /\ (~Padded(r) => y <= 0)
    <3> HIDE DEF r, n, h
    <3> QED BY <1>5, <1>6, <1>7
  <2> HIDE DEF y
  <2>2. d \in Nat /\ d <= NumSpec /\ d = Greater(y, 0)
    BY <1>5, <2>1 DEF Greater
  <2> QED BY <2>2 DEF y
<1>10. /\ z \in RequestRecord /\ z.status = "running" /\ z.computed = h
       /\ z.ntok = req[r].ntok /\ z.accepted = req[r].accepted
       /\ req' = [req EXCEPT ![r] = z]
  <2>1. h \in 0 .. MaxModelLen /\ "running" \in Statuses /\ req[r] \in RequestRecord
    <3>1. h \in 0 .. MaxModelLen
      <4> HIDE DEF h, r
      <4> QED BY <1>5, <1>6
    <3> QED BY <1>3, <1>5, <3>1 DEF Statuses
  <2>2. req' = [req EXCEPT ![r] = z]
    BY <1>1
  <2> HIDE DEF h, r
  <2> QED BY <2>1, <2>2 DEF RequestRecord
<1> HIDE DEF r, n, c, d, h, z
<1>11. CallOK(kv, c)
  BY <1>3, <1>5, <1>6, <1>7, <1>8 DEF CallOK
<1>12. /\ AllocationSucceeds(kv, c) /\ slots' = Refreshed(kv.pool, kv'.pool, slots)
       /\ Allocated(kv, c, kv')
  BY <1>1, <1>11, GrownIs DEF IInv
<1>13. /\ req' \in [Requests -> RequestRecord] /\ req'[r] = z
       /\ \A s \in Requests \ {r} : req'[s] = req[s]
  BY <1>3, <1>5, <1>10
<1>14. /\ ManagerOK(kv') /\ Got(kv, c) \in Seq(Blocks)
       /\ kv'.table = [kv.table EXCEPT ![r] = AdoptedTable(kv, c) \o Got(kv, c)]
       /\ kv'.numCached = [kv.numCached EXCEPT ![r] = CachedAfter(kv, c)]
       /\ \A b \in Range(Got(kv, c)) : kv.pool.ref[b] = 0
  BY <1>8, <1>12 DEF Allocated
<1>15. AdoptedTable(kv, c) = HitsOf(r)
  <2>1. \A q \in Seq(Blocks) : << >> \o q = q
    OBVIOUS
  <2>2. AdoptedTable(kv, c) = << >> \o HitsOf(r)
    BY <1>5, <1>8 DEF AdoptedTable
  <2> QED BY <1>6, <2>1, <2>2
<1>16. /\ kv'.table[r] = HitsOf(r) \o Got(kv, c)
       /\ \A s \in Requests \ {r} : kv'.table[s] = kv.table[s] /\ kv'.numCached[s] = kv.numCached[s]
  BY <1>3, <1>5, <1>14, <1>15
<1>17. step' = [step EXCEPT !.budget = step.budget - n, !.input = step.input - (n + DraftSlots),
                            !.want = 0, !.sched = Given(step.sched, r, n),
                            !.specs = Given(step.specs, r, d)]
  BY <1>1, <1>12 DEF Spent
<1>18. /\ step \in StepRecord /\ Budgets /\ DOMAIN step.specs = Batch /\ step.ran \subseteq Batch
       /\ \A s \in Batch : step.sched[s] # 0
  BY <1>1 DEF IInv, Steps, Scheduling
<1>19. /\ step'.budget = step.budget - n /\ step'.input = step.input - (n + DraftSlots)
       /\ step'.sched = Given(step.sched, r, n) /\ step'.specs = Given(step.specs, r, d)
       /\ step'.phase = "waiting" /\ step'.want = 0 /\ step'.idx = step.idx
       /\ step'.ran = step.ran
  BY <1>1, <1>17, <1>18 DEF StepRecord
<1>20. r \notin Batch
  BY <1>4, <1>18 DEF Budgets
<1>21. /\ step'.budget + Cardinality(Units(step'.sched, 0)) = TokenBudget
       /\ step'.input + Cardinality(Units(step'.sched, DraftSlots)) = InputBudget
       /\ step'.budget \in 0 .. TokenBudget /\ step'.input \in 0 .. InputBudget
       /\ step'.sched \in Shares /\ step'.specs \in Shares
       /\ Batch' = Batch \cup {r} /\ DOMAIN step'.specs = Batch'
       /\ step'.sched[r] = n /\ step'.specs[r] = d
       /\ \A s \in Batch : step'.sched[s] = step.sched[s] /\ step'.specs[s] = step.specs[s]
  BY <1>3, <1>7, <1>9, <1>18, <1>19, <1>20, Granted
<1>22. /\ running' \in Seq(Requests) /\ Unique(running') /\ Range(running') = Range(running) \cup {r}
       /\ Len(running') <= MaxRunning
  <2>1. /\ Append(running, r) \in Seq(Requests) /\ Unique(Append(running, r))
        /\ Range(Append(running, r)) = Range(running) \cup {r}
    BY <1>2, <1>3, <1>4, AppendUnique
  <2>2. Len(Append(running, r)) = Len(running) + 1
    BY <1>2, <1>3
  <2> QED BY <1>1, <1>2, <2>1, <2>2, ConfigFacts
<1>23. Steps'
  <2>1. step' \in StepRecord
    <3>1. /\ 0 \in Nat
          /\ step.budget - n \in 0 .. TokenBudget
          /\ step.input - (n + DraftSlots) \in 0 .. InputBudget
          /\ Given(step.sched, r, n) \in Shares /\ Given(step.specs, r, d) \in Shares
      BY <1>19, <1>21
    <3> QED BY ONLY <1>17, <1>18, <3>1 DEF StepRecord
  <2>2. Budgets'
    <3>1. Batch' \subseteq Range(running')
      BY <1>18, <1>21, <1>22 DEF Budgets
    <3>2. step'.idx # 0
      BY <1>18, <1>19 DEF Budgets
    <3> QED BY <1>21, <3>1, <3>2 DEF Budgets
  <2>3. \A s \in Batch' : step'.sched[s] # 0
    BY <1>7, <1>18, <1>21
  <2>4. step'.ran \subseteq Batch'
    BY <1>18, <1>19, <1>21
  <2> QED BY <1>19, <1>21, <2>1, <2>2, <2>3, <2>4 DEF Steps
<1>24. Requested'
  <2>1. \A s \in Requests : req'[s].status # "running" => kv'.table[s] = << >>
    BY <1>10, <1>13, <1>16 DEF IInv, Requested
  <2>2. ASSUME NEW s \in Requests
        PROVE  /\ req'[s].status # "finished" => req'[s].ntok < Total(s)
               /\ req'[s].status \in {"new", "waiting", "preempted"} => req'[s].computed = 0
    BY <1>4, <1>10, <1>13 DEF IInv, Requested
  <2> QED BY <1>13, <2>1, <2>2 DEF Requested, Total
<1>25. Queues'
  <2>1. /\ \A s \in Requests : req[s].status = "running" => s \in Range(running)
        /\ \A s \in Range(running) : s \in Requests /\ req[s].status = "running"
    BY <1>1, RunningIs
  <2>2. Range(waiting') = {s \in Requests : req'[s].status \in {"waiting", "preempted"}}
    BY <1>1, <1>2, <1>3, <1>10, <1>13
  <2>3. \A s \in Requests : req'[s].status = "running" => s \in Range(running')
    BY <1>13, <1>22, <2>1
  <2>4. \A s \in Range(running') : req'[s].status = "running"
    BY <1>10, <1>13, <1>22, <2>1
  <2> QED BY <1>1, <1>3, <1>22, <2>2, <2>3, <2>4 DEF Queues
<1>26. Counters' /\ Written'
  BY <1>1, <1>12, SlotsKept DEF IInv, Counters, Written
<1>27. LocalComputed(c) = h
  BY <1>6, <1>8 DEF LocalComputed
<1>28. Progress'
  <2> SUFFICES ASSUME NEW s \in Requests, req'[s].status = "running" PROVE Advance(s)'
    BY DEF Progress
  <2>1. CASE s = r
    <3>1. CachedBefore(kv, c) * BlockSize <= h
      <4>1. CASE HitsOf(r) = << >>
        <5>1. CachedBefore(kv, c) = 0
          BY <1>5, <1>8, <4>1 DEF CachedBefore
        <5> QED BY <1>5, <1>6, <5>1
      <4>2. CASE HitsOf(r) # << >>
        <5>1. CachedBefore(kv, c) = Len(HitsOf(r))
          BY <1>8, <4>2 DEF CachedBefore
        <5> QED BY <1>6, <5>1
      <4> QED BY <4>1, <4>2
    <3>2. /\ z.ntok = c.numTokens /\ z.computed = LocalComputed(c) /\ z.computed < z.ntok
          /\ z.computed + c.new <= MaxModelLen
          /\ CachedBefore(kv, c) * BlockSize <= z.computed
          /\ d = Greater(z.computed + c.new - z.ntok, 0)
      BY <1>6, <1>7, <1>8, <1>9, <1>10, <1>27, <3>1
    <3>3. Batched(kv'.numCached[c.req], Len(kv'.table[c.req]), z, c.new, d)
      BY <1>9, <1>11, <1>12, <3>2, BatchedIs DEF IInv
    <3>4. Batched(kv'.numCached[r], Len(kv'.table[r]), z, n, d)
      BY <1>8, <3>3
    <3>5. r \in Batch' /\ Scheduling'
      BY <1>19, <1>21 DEF Scheduling
    <3> QED BY <1>13, <1>21, <2>1, <3>4, <3>5 DEF Advance
  <2>2. CASE s # r
    <3>1. /\ req'[s] = req[s] /\ kv'.table[s] = kv.table[s] /\ kv'.numCached[s] = kv.numCached[s]
          /\ s \in Batch' <=> s \in Batch
          /\ s \in Batch => step'.sched[s] = step.sched[s] /\ step'.specs[s] = step.specs[s]
          /\ Scheduling /\ Scheduling'
      BY <1>1, <1>13, <1>16, <1>19, <1>21, <2>2 DEF Scheduling
    <3>2. s \in Requests \ {r} /\ req[s].status = "running"
      BY <2>2, <3>1
    <3> QED BY <1>3, <3>1, <3>2, OthersAdvance
  <2> QED BY <2>1, <2>2
<1>29. OwnedOnce'
  <2> DEFINE p == kv.pool
             T == kv.table
             l == kv.numCached
             U == kv'.table
             q == req
             f == req'
             t == HitsOf(r)
             got == Got(kv, c)
  <2>1. /\ t \in Seq(Blocks) /\ got \in Seq(Blocks) /\ \A b \in Range(got) : p.ref[b] = 0
        /\ U[r] = t \o got /\ \A s \in Requests \ {r} : U[s] = T[s] /\ f[s].computed = q[s].computed
    BY <1>6, <1>13, <1>14, <1>16
  <2>2. \A i \in 1 .. Len(t) : i * BlockSize <= f[r].computed
    <3> DEFINE k == Len(t)
    <3>1. k \in Nat /\ f[r].computed = k * BlockSize
      BY <1>6, <1>10, <1>13
    <3> HIDE DEF k, f
    <3>2. ASSUME NEW i \in 1 .. k PROVE i * BlockSize <= f[r].computed
      <4>1. i \in Nat /\ k \in Nat /\ BlockSize \in Nat \ {0} /\ i <= k
        BY <1>5, <3>1
      <4>2. i * BlockSize <= k * BlockSize
        BY ONLY <4>1, MulMono
      <4> QED BY <3>1, <4>2
    <3> QED BY <3>2 DEF k
  <2>3. Held(p, T, l) /\ Owned(T, q)
    BY <1>5 DEF IInv, OwnedOnce
  <2> HIDE DEF t, got, p, T, l, U, q, f
  <2>4. Grows(p, T, q, r, t, got, U, f)
    BY <2>1, <2>2 DEF Grows
  <2>5. Owned(U, f)
    BY ONLY <1>3, <2>3, <2>4, OwnedMore
  <2>6. Owned(kv'.table, req')
    BY <2>5 DEF U, f
  <2> QED BY <2>6 DEF OwnedOnce
<1> QED BY <1>14, <1>23, <1>24, <1>25, <1>26, <1>28, <1>29 DEF IInv

----------------------------------------------------------------------------
(* The forward pass.                                                       *)

\* What a forward pass writes has the type of a slot.
LEMMA ContentIs ==
    ASSUME NEW r \in Requests, NEW p, NEW a
    PROVE  Content(r, p, a) \in Keys \cup {NoKey}
<1>1. PICK q \in Seq(Keys) : q = Prefix[r]
  BY KVCacheManagerAssumption
<1>2. \A i \in DOMAIN Prefix[r] : Prefix[r][i] \in Keys
  BY <1>1
<1> QED BY <1>2 DEF Content

\* The forward pass keeps the invariant, and the assertions of schedule() hold.
LEMMA DispatchStep ==
    ASSUME IInv, Dispatch
    PROVE  IInv'
<1>1. /\ UNCHANGED << kv, running, waiting, counter, resets >> /\ step.phase = "dispatch"
      /\ step' = [step EXCEPT !.phase = IF ScheduleAsserts THEN "executed" ELSE "crashed"]
  BY DEF Dispatch, queues
<1>2. /\ step \in StepRecord /\ Budgets /\ DOMAIN step.specs = Batch /\ step.ran \subseteq Batch
      /\ \A s \in Batch : step.sched[s] # 0
  BY <1>1 DEF IInv, Steps, Scheduling
<1>3. /\ step.sched \in Shares /\ step.specs \in Shares
      /\ step.budget \in Nat /\ step.input \in Nat
  BY <1>2, ConfigFacts DEF StepRecord
<1>4. /\ \A s \in Batch : step.sched[s] \in Nat /\ step.specs[s] \in Nat
      /\ Batch \subseteq Requests
  <2>1. \A s \in DOMAIN step.specs : step.specs[s] \in Nat
    BY <1>3, SharesIs
  <2>2. Batch \subseteq Requests /\ \A s \in Batch : step.sched[s] \in Nat
    BY <1>3, SharesIs DEF Batch
  <2> QED BY <1>2, <2>1, <2>2
<1>5. ScheduleAsserts
  BY <1>2, <1>3 DEF ScheduleAsserts, Budgets, Batch, IInv, Queues
<1>6. step' = [step EXCEPT !.phase = "executed"]
  BY <1>1, <1>5
<1>7. /\ step' \in StepRecord /\ step'.phase = "executed" /\ step'.sched = step.sched
      /\ step'.specs = step.specs /\ step'.ran = step.ran /\ step'.want = step.want
  BY <1>2, <1>6 DEF StepRecord, Phases
<1> DEFINE W == UNION {{<< r, p >> : p \in Fed(r)} : r \in Batch}
<1>8. PICK acc \in [Batch -> 0 .. NumSpec] :
         /\ \A r \in Batch : acc[r] <= Verified(r)
         /\ slots' = [b \in Blocks |-> [o \in 1 .. BlockSize |->
                LET here == {w \in W : SlotOf(w[1], w[2]) = << b, o >>}
                IN  IF here = {} THEN slots[b][o]
                    ELSE LET w == CHOOSE w \in here : TRUE
                         IN  Content(w[1], w[2], acc[w[1]])]]
         /\ req' = [r \in Requests |->
                IF r \notin Batch THEN req[r]
                ELSE [req[r] EXCEPT !.computed = req[r].computed + step.sched[r],
                                    !.chunk    = req[r].computed + step.sched[r] < req[r].ntok,
                                    !.accepted = acc[r]]]
         /\ flush' = FALSE
  BY <1>5 DEF Dispatch, Batch
<1>9. Written'
  <2> DEFINE H(b, o) == {w \in W : SlotOf(w[1], w[2]) = << b, o >>}
             x(b, o) == IF H(b, o) = {} THEN slots[b][o]
                        ELSE LET w == CHOOSE w \in H(b, o) : TRUE
                             IN  Content(w[1], w[2], acc[w[1]])
  <2>1. slots' = [b \in Blocks |-> [o \in 1 .. BlockSize |-> x(b, o)]]
    BY <1>8
  <2>2. slots \in SlotContents
    BY DEF IInv, Written
  <2>3. ASSUME NEW b \in Blocks, NEW o \in 1 .. BlockSize
        PROVE  x(b, o) \in Keys \cup {NoKey}
    <3>1. CASE H(b, o) = {}
      BY <2>2, <3>1 DEF SlotContents
    <3>2. CASE H(b, o) # {}
      <4> DEFINE w == CHOOSE w \in H(b, o) : TRUE
      <4>1. w \in H(b, o)
        BY <3>2
      <4>2. w \in W
        BY <4>1
      <4>3. PICK r \in Batch : \E p \in Fed(r) : w = << r, p >>
        <5> HIDE DEF w
        <5> QED BY <4>2
      <4>4. w[1] = r /\ r \in Requests
        <5> HIDE DEF w
        <5>1. PICK p \in Fed(r) : w = << r, p >>
          BY <4>3
        <5>2. r \in Requests
          BY <1>4
        <5> QED BY ONLY <5>1, <5>2
      <4> HIDE DEF w
      <4>5. Content(w[1], w[2], acc[w[1]]) \in Keys \cup {NoKey}
        BY <4>4, ContentIs
      <4>6. x(b, o) = Content(w[1], w[2], acc[w[1]])
        BY <3>2 DEF w
      <4> QED BY <4>5, <4>6
    <3> QED BY <3>1, <3>2
  <2> HIDE DEF x
  <2> QED BY <2>1, <2>3 DEF Written, SlotContents
<1> HIDE DEF W
<1>10. req \in [Requests -> RequestRecord] /\ NumSpec \in Nat /\ MaxModelLen \in Nat /\ BlockSize \in Nat \ {0}
  BY TablesRunning, TokenFacts, ConfigFacts
<1>11. \A s \in Requests \ Batch : req'[s] = req[s]
  BY <1>8
<1>12. ASSUME NEW s \in Batch
       PROVE  /\ req'[s] \in RequestRecord /\ req'[s].status = req[s].status
              /\ req'[s].ntok = req[s].ntok /\ req[s].status = "running"
              /\ Ran(kv.numCached[s], Len(kv.table[s]), req'[s], step.specs[s])
  <2> DEFINE a == req[s].computed + step.sched[s]
             e == acc[s]
             t == a < req[s].ntok
             z == [req[s] EXCEPT !.computed = a, !.chunk = t, !.accepted = e]
  <2>1. s \in Requests /\ s \in Range(running)
    BY <1>2, <1>4 DEF Budgets
  <2>2. req[s].status = "running"
    BY <1>1, <2>1, RunningIs
  <2>3. Batched(kv.numCached[s], Len(kv.table[s]), req[s], step.sched[s], step.specs[s])
    BY <1>1, <2>1, <2>2 DEF IInv, Progress, Advance, Scheduling
  <2>4. req'[s] = z
    BY <1>8, <2>1
  <2>5. /\ req[s].computed \in Nat /\ step.sched[s] \in Nat /\ step.specs[s] \in Nat
        /\ req[s].ntok \in Nat /\ req[s] \in RequestRecord
    BY <1>4, <1>10, <2>1, TablesRunning
  <2>6. a \in 0 .. MaxModelLen /\ t \in BOOLEAN /\ e \in 0 .. NumSpec /\ e <= step.specs[s]
    <3>1. a \in 0 .. MaxModelLen
      BY <1>10, <2>3, <2>5 DEF Batched
    <3>2. e \in 0 .. NumSpec /\ e <= Verified(s)
      BY <1>8
    <3>3. e <= step.specs[s]
      BY <1>10, <2>5, <3>2 DEF Verified
    <3> QED BY <3>1, <3>2, <3>3
  <2>7. /\ kv.numCached[s] * BlockSize <= req[s].ntok /\ kv.numCached[s] * BlockSize <= a
        /\ a <= Len(kv.table[s]) * BlockSize
        /\ step.specs[s] = Greater(a - req[s].ntok, 0)
    <3> DEFINE q == req[s]
               n == kv.numCached[s]
               l == Len(kv.table[s])
               b == step.sched[s]
               d == step.specs[s]
    <3>1. Batched(n, l, q, b, d)
      BY <2>3
    <3>2. a = q.computed + b /\ q.computed \in Nat /\ b \in Nat /\ q.ntok \in Nat
      BY <2>5
    <3> HIDE DEF q, n, l, b, d, a
    <3>3. /\ n * BlockSize <= q.ntok /\ n * BlockSize <= q.computed + b
          /\ q.computed + b <= l * BlockSize /\ d = Greater(q.computed + b - q.ntok, 0)
      BY <3>1 DEF Batched
    <3>4. /\ n * BlockSize <= q.ntok /\ n * BlockSize <= a /\ a <= l * BlockSize
          /\ d = Greater(a - q.ntok, 0)
      BY ONLY <3>2, <3>3
    <3> QED BY <3>4 DEF q, n, l, d
  <2>8. t = (a < req[s].ntok)
    OBVIOUS
  <2> HIDE DEF a, e, t, z
  <2>9. /\ z \in RequestRecord /\ z.status = req[s].status /\ z.ntok = req[s].ntok
        /\ z.computed = a /\ z.chunk = t /\ z.accepted = e
    BY <2>5, <2>6 DEF z, RequestRecord
  <2>10. Ran(kv.numCached[s], Len(kv.table[s]), z, step.specs[s])
    BY <2>6, <2>7, <2>8, <2>9 DEF Ran
  <2> QED BY <2>2, <2>4, <2>9, <2>10
<1>13. req' \in [Requests -> RequestRecord]
  <2>1. \A s \in Requests : req'[s] \in RequestRecord
    BY <1>10, <1>11, <1>12
  <2>2. req' = [s \in Requests |-> req'[s]]
    BY <1>8
  <2> QED BY <2>1, <2>2
<1>14. \A s \in Requests : req'[s].status = req[s].status /\ req'[s].ntok = req[s].ntok
  BY <1>11, <1>12
<1>15. Requested'
  <2>1. \A s \in Requests : req'[s].status \in {"new", "waiting", "preempted"} => req'[s].computed = 0
    <3> SUFFICES ASSUME NEW s \in Requests, req'[s].status \in {"new", "waiting", "preempted"}
                 PROVE  req'[s].computed = 0
      OBVIOUS
    <3>1. s \notin Batch
      BY <1>12, <1>14
    <3> QED BY <1>11, <3>1 DEF IInv, Requested
  <2> QED BY <1>1, <1>13, <1>14, <2>1 DEF IInv, Requested, Total
<1>16. Queues'
  <2>1. /\ running \in Seq(Requests) /\ waiting \in Seq(Requests)
        /\ Unique(running) /\ Unique(waiting) /\ Len(running) <= MaxRunning
        /\ Range(waiting) = {s \in Requests : req[s].status \in {"waiting", "preempted"}}
    BY DEF IInv, Queues
  <2>2. /\ \A s \in Requests : req[s].status = "running" => s \in Range(running)
        /\ \A s \in Range(running) : s \in Requests /\ req[s].status = "running"
    BY <1>1, RunningIs
  <2>3. Range(waiting) = {s \in Requests : req'[s].status \in {"waiting", "preempted"}}
    BY <1>14, <2>1
  <2> QED BY <1>1, <1>14, <2>1, <2>2, <2>3 DEF Queues
<1>17. Steps'
  <2>1. Batch' = Batch /\ step'.want = 0
    BY <1>1, <1>7, NothingWanted DEF Batch
  <2>2. DOMAIN step'.specs = Batch' /\ \A s \in Batch' : step'.sched[s] # 0
    BY <1>2, <1>7, <2>1
  <2>3. step'.ran \subseteq Batch' /\ ~Scheduling'
    BY <1>2, <1>7, <2>1 DEF Scheduling
  <2> QED BY <1>7, <2>1, <2>2, <2>3 DEF Steps
<1>18. Counters'
  BY <1>1, <1>8 DEF IInv, Counters
<1>19. \A s \in Requests : req[s].status = "running" =>
          IF s \in Batch THEN Ran(kv.numCached[s], Len(kv.table[s]), req'[s], step.specs[s])
          ELSE Resting(kv.numCached[s], Len(kv.table[s]), req'[s])
  <2>1. ASSUME NEW s \in Requests, req[s].status = "running", s \notin Batch
        PROVE  Resting(kv.numCached[s], Len(kv.table[s]), req'[s])
    <3>1. Advance(s)
      BY <2>1 DEF IInv, Progress
    <3> QED BY <1>11, <2>1, <3>1 DEF Advance, Passed
  <2> QED BY <1>12, <2>1
<1>20. Progress'
  <2> SUFFICES ASSUME NEW s \in Requests, req'[s].status = "running" PROVE Advance(s)'
    BY DEF Progress
  <2>1. ~Scheduling' /\ Batch' = Batch /\ (Passed(s)' <=> s \in Batch)
    BY <1>7 DEF Scheduling, Batch, Passed, Delivered
  <2>2. req[s].status = "running"
    BY <1>14
  <2>3. CASE s \in Batch
    <3>1. Ran(kv.numCached[s], Len(kv.table[s]), req'[s], step.specs[s])
      BY <1>19, <2>2, <2>3
    <3> QED BY <1>1, <1>7, <2>1, <2>3, <3>1 DEF Advance
  <2>4. CASE s \notin Batch
    <3>1. Resting(kv.numCached[s], Len(kv.table[s]), req'[s])
      BY <1>19, <2>2, <2>4
    <3> QED BY <1>1, <2>1, <2>4, <3>1 DEF Advance
  <2> QED BY <2>3, <2>4
<1>21. OwnedOnce'
  <2>1. ASSUME NEW s \in Requests, kv.table[s] # << >>
        PROVE  kv.numCached[s] * BlockSize <= req'[s].computed
    <3>1. req[s].status = "running"
      BY <2>1, TablesRunning
    <3> QED BY <1>19, <3>1 DEF Ran, Resting
  <2> DEFINE p == kv.pool
             T == kv.table
             l == kv.numCached
             f == req'
  <2>2. Held(p, T, l) /\ \A s \in Requests : f[s].computed \in Nat
    BY <1>10, <1>13, TablesRunning DEF RequestRecord
  <2>3. \A s \in Requests : T[s] # << >> => l[s] * BlockSize <= f[s].computed
    BY <2>1
  <2> HIDE DEF p, T, l, f
  <2>4. Owned(T, f)
    BY <2>2, <2>3, OwnedIs
  <2>5. Owned(kv.table, req')
    BY <2>4 DEF T, f
  <2> QED BY <1>1, <2>5 DEF OwnedOnce
<1>22. ManagerOK(kv')
  BY <1>1 DEF IInv
<1> QED BY <1>9, <1>15, <1>16, <1>17, <1>18, <1>20, <1>21, <1>22 DEF IInv

----------------------------------------------------------------------------
(* update_from_output().                                                   *)

\* Outside schedule() a request has computed what it has cached, so that two
\* requests share computed blocks only.
LEMMA OwnedAfter ==
    ASSUME ManagerOK(kv'), Requested', Progress', ~Scheduling'
    PROVE  OwnedOnce'
<1>1. /\ Held(kv'.pool, kv'.table, kv'.numCached) /\ req' \in [Requests -> RequestRecord]
      /\ \A s \in Requests : req'[s].status # "running" => kv'.table[s] = << >>
  BY DEF ManagerOK, Requested
<1>2. ASSUME NEW s \in Requests, kv'.table[s] # << >>
      PROVE  kv'.numCached[s] * BlockSize <= req'[s].computed
  <2>1. req'[s].status = "running"
    BY <1>1, <1>2
  <2>2. Advance(s)'
    BY <2>1 DEF Progress
  <2> QED BY <2>2 DEF Advance, Ran, Resting
<1> DEFINE p == kv'.pool
           T == kv'.table
           l == kv'.numCached
           f == req'
<1>3. Held(p, T, l) /\ \A s \in Requests : f[s].computed \in Nat
  BY <1>1, TokenFacts DEF RequestRecord
<1>4. \A s \in Requests : T[s] # << >> => l[s] * BlockSize <= f[s].computed
  BY <1>2
<1> HIDE DEF p, T, l, f
<1>5. Owned(T, f)
  BY <1>3, <1>4, OwnedIs
<1>6. Owned(kv'.table, req')
  BY <1>5 DEF T, f
<1> QED BY <1>6 DEF OwnedOnce

\* The output of the pass for one request.
LEMMA DeliveredIs ==
    ASSUME NEW l \in Nat, NEW n \in Nat, NEW q \in RequestRecord, NEW d \in Nat, NEW k \in Nat,
           Ran(n, l, q, d), q.ntok < k, k <= MaxModelLen,
           NEW a, a = (IF q.chunk THEN 0 ELSE 1 + q.accepted),
           NEW x, x = (IF q.chunk THEN 0 ELSE d - q.accepted),
           NEW t, t = Lesser(q.ntok + a, k)
    PROVE  /\ q.computed - x \in 0 .. MaxModelLen /\ t \in 1 .. MaxModelLen /\ t <= k
           /\ t # k => /\ n * BlockSize <= q.computed - x /\ q.computed - x <= l * BlockSize
                       /\ q.computed - x < t
<1>1. /\ q.computed \in Nat /\ q.computed <= MaxModelLen /\ q.ntok \in Nat \ {0}
      /\ q.accepted \in Nat /\ q.chunk \in BOOLEAN /\ MaxModelLen \in Nat /\ BlockSize \in Nat \ {0}
  BY TokenFacts, ConfigFacts DEF RequestRecord
<1>2. n * BlockSize \in Nat /\ l * BlockSize \in Nat
  BY <1>1, MulMono
<1>3. /\ n * BlockSize <= q.ntok /\ n * BlockSize <= q.computed
      /\ q.computed <= l * BlockSize
      /\ q.chunk = (q.computed < q.ntok)
      /\ d = Greater(q.computed - q.ntok, 0) /\ q.accepted <= d
  BY DEF Ran
<1> DEFINE i == n * BlockSize
           j == l * BlockSize
           c == q.computed
           m == q.ntok
           e == q.accepted
<1>4. CASE q.chunk
  <2>1. a = 0 /\ x = 0 /\ c < m
    BY <1>3, <1>4
  <2>2. t = m
    BY <1>1, <2>1 DEF Lesser
  <2> QED BY <1>1, <1>3, <2>1, <2>2
<1>5. CASE ~q.chunk
  <2>1. a = 1 + e /\ x = d - e /\ m <= c /\ t = Lesser(m + a, k)
    <3>1. a = 1 + e /\ x = d - e /\ t = Lesser(m + a, k)
      BY <1>5
    <3>2. ~(c < m)
      BY <1>3, <1>5
    <3>3. c \in Nat /\ m \in Nat
      BY <1>1
    <3> HIDE DEF c, m
    <3> QED BY <3>1, <3>2, <3>3
  <2>2. d = c - m
    <3> HIDE DEF c, m
    <3> QED BY <1>1, <1>3, <2>1 DEF Greater, c, m
  <2>3. i \in Nat /\ j \in Nat /\ i <= m /\ i <= c /\ c <= j /\ e <= d /\ e \in Nat
        /\ c \in Nat /\ m \in Nat \ {0} /\ c <= MaxModelLen /\ m < k
    BY <1>1, <1>2, <1>3
  <2> HIDE DEF i, j, c, m, e
  <2>4. c - x = m + e
    BY <2>1, <2>2, <2>3
  <2>5. /\ t \in Nat /\ t <= k /\ t >= 1 /\ (t # k => t = m + 1 + e)
    BY <2>1, <2>3 DEF Lesser
  <2>6. /\ c - x \in 0 .. MaxModelLen /\ t \in 1 .. MaxModelLen /\ t <= k
        /\ t # k => i <= c - x /\ c - x <= j /\ c - x < t
    BY <1>1, <2>2, <2>3, <2>4, <2>5
  <2> QED BY <2>6 DEF i, j, c, m, e
<1> QED BY <1>1, <1>4, <1>5

\* The output of a request is delivered: its rejected drafts are rolled back,
\* and it may stop. The invariant stays.
LEMMA UpdateRequestStep ==
    ASSUME IInv, UpdateRequest
    PROVE  IInv'
<1> DEFINE r == running[step.idx]
           done == TokensAfter(r) = Total(r)
<1>1. /\ step.phase = "update" /\ step.idx <= Len(running)
      /\ step' = [step EXCEPT !.idx = @ + 1]
      /\ UNCHANGED << running, waiting, counter, resets >>
  BY DEF UpdateRequest, queues
<1>2. \/ r \notin Batch /\ UNCHANGED << kv, slots, req, flush >>
      \/ /\ r \in Batch
         /\ req' = [req EXCEPT ![r].computed = @ - Rejected(r),
                               ![r].ntok     = TokensAfter(r),
                               ![r].accepted = 0,
                               ![r].status   = IF done THEN "finished" ELSE @]
         /\ kv' = IF done THEN FreeRequest(kv, r) ELSE kv
         /\ slots' = Remembered(kv'.pool, slots)
         /\ flush' = (flush \/ done)
  BY DEF UpdateRequest, Batch
<1>3. /\ running \in Seq(Requests) /\ waiting \in Seq(Requests)
      /\ Unique(running) /\ Unique(waiting) /\ Len(running) <= MaxRunning
      /\ Range(waiting) = {s \in Requests : req[s].status \in {"waiting", "preempted"}}
      /\ \A s \in Requests : req[s].status = "running" => s \in Range(running)
      /\ \A s \in Range(running) :
            req[s].status = "running" \/ (req[s].status = "finished" /\ Delivered(s))
  BY DEF IInv, Queues
<1>4. step.idx \in Nat /\ step.idx # 0 /\ step \in StepRecord
  BY <1>1 DEF IInv, Steps, StepRecord
<1>5. step.idx \in DOMAIN running /\ r \in Requests /\ r \in Range(running)
  BY <1>1, <1>3, <1>4 DEF Range
<1>6. ~Delivered(r)
  BY <1>3, <1>4, <1>5 DEF Delivered, Unique
<1>7. req[r].status = "running"
  BY <1>3, <1>5, <1>6
<1>8. /\ step'.phase = "update" /\ step'.idx = step.idx + 1 /\ step'.idx \in Nat /\ step'.idx # 0
      /\ step'.sched = step.sched /\ step'.specs = step.specs /\ step'.ran = step.ran
      /\ step'.want = step.want /\ Batch' = Batch /\ ~Scheduling' /\ step' \in StepRecord
  <2> DEFINE z == [step EXCEPT !.idx = @ + 1]
  <2>1. step' = z /\ step.idx + 1 \in Nat /\ step.idx + 1 # 0
    BY <1>1, <1>4
  <2>2. /\ z.phase = step.phase /\ z.idx = step.idx + 1 /\ z.sched = step.sched
        /\ z.specs = step.specs /\ z.ran = step.ran /\ z.want = step.want
    BY <1>4 DEF StepRecord
  <2>3. z \in StepRecord
    BY <1>4, <2>1 DEF StepRecord
  <2> HIDE DEF z
  <2> QED BY <1>1, <2>1, <2>2, <2>3 DEF Batch, Scheduling
<1>9. \A s \in Requests : Delivered(s)' <=> Delivered(s) \/ s = r
  <2>1. ASSUME NEW s \in Requests PROVE Delivered(s)' <=> Delivered(s) \/ s = r
    <3>1. Delivered(s)' <=> \E j \in DOMAIN running : j < step.idx + 1 /\ running[j] = s
      BY <1>1, <1>8 DEF Delivered
    <3>2. Delivered(s) <=> \E j \in DOMAIN running : j < step.idx /\ running[j] = s
      BY <1>1 DEF Delivered
    <3>3. \A j \in DOMAIN running : j < step.idx + 1 <=> j < step.idx \/ j = step.idx
      BY <1>3, <1>4
    <3> QED BY <1>5, <3>1, <3>2, <3>3
  <2> QED BY <2>1
<1>10. Steps'
  <2>1. step.want = 0
    BY <1>1 DEF IInv, Steps, StepRecord
  <2>2. DOMAIN step.specs = Batch /\ (\A s \in Batch : step.sched[s] # 0) /\ step.ran \subseteq Batch
    BY DEF IInv, Steps
  <2>3. DOMAIN step'.specs = Batch' /\ (\A s \in Batch' : step'.sched[s] # 0) /\ step'.ran \subseteq Batch'
    BY <1>8, <2>2
  <2> QED BY <1>8, <2>1, <2>3 DEF Steps
<1>11. Advance(r)
  BY <1>5, <1>7 DEF IInv, Progress
<1>12. CASE r \notin Batch
  <2>1. UNCHANGED << kv, slots, req, flush >>
    BY <1>2, <1>12
  <2>2. Requested' /\ Counters' /\ OwnedOnce' /\ Written' /\ ManagerOK(kv')
    BY <1>1, <2>1 DEF IInv, Requested, Counters, OwnedOnce, Written, Total
  <2>3. Queues'
    <3>1. \A s \in Range(running') :
             req'[s].status = "running" \/ (req'[s].status = "finished" /\ Delivered(s)')
      BY <1>1, <1>3, <1>9, <2>1 DEF Range
    <3> QED BY <1>1, <1>3, <2>1, <3>1 DEF Queues
  <2>4. Progress'
    <3> SUFFICES ASSUME NEW s \in Requests, req'[s].status = "running" PROVE Advance(s)'
      BY DEF Progress
    <3>1. Advance(s)
      BY <2>1 DEF IInv, Progress
    <3>2. Passed(s)' <=> Passed(s)
      BY <1>1, <1>8, <1>9, <1>12 DEF Passed
    <3> QED BY <1>1, <1>8, <2>1, <3>1, <3>2 DEF Advance, Scheduling
  <2> QED BY <1>10, <2>2, <2>3, <2>4 DEF IInv
<1>13. CASE r \in Batch
  <2> DEFINE q == req[r]
             n == kv.numCached[r]
             l == Len(kv.table[r])
             d == step.specs[r]
             k == Total(r)
             a == Sampled(r)
             x == Rejected(r)
             t == TokensAfter(r)
             z == [q EXCEPT !.computed = @ - x, !.ntok = t, !.accepted = 0,
                            !.status = IF done THEN "finished" ELSE @]
  <2>1. Ran(n, l, q, d)
    BY <1>1, <1>6, <1>11, <1>13 DEF Advance, Scheduling, Passed
  <2>2. n \in Nat /\ l \in Nat /\ q \in RequestRecord /\ k \in Nat /\ k <= MaxModelLen
    BY <1>5, TablesRunning, TokenFacts
  <2>3. d \in Nat
    BY <1>4, <1>13, SharesIs DEF IInv, Steps, StepRecord
  <2>4. q.ntok < k
    BY <1>5, <1>7 DEF IInv, Requested
  <2>5. /\ a = (IF q.chunk THEN 0 ELSE 1 + q.accepted)
        /\ x = (IF q.chunk THEN 0 ELSE d - q.accepted)
        /\ t = Lesser(q.ntok + a, k)
    BY DEF Sampled, Rejected, TokensAfter
  <2>6. done <=> t = k
    OBVIOUS
  <2>7. req' = [req EXCEPT ![r] = z]
    BY <1>2, <1>13
  <2>8. /\ kv' = IF done THEN FreeRequest(kv, r) ELSE kv
        /\ slots' = Remembered(kv'.pool, slots)
        /\ flush' = (flush \/ done)
    BY <1>2, <1>13
  <2>9. done \in BOOLEAN
    OBVIOUS
  <2>10. z = [q EXCEPT !.computed = @ - x, !.ntok = t, !.accepted = 0,
                       !.status = IF done THEN "finished" ELSE @]
    OBVIOUS
  <2>11. q.status = "running" /\ q = req[r] /\ n = kv.numCached[r] /\ l = Len(kv.table[r]) /\ k = Total(r)
    BY <1>7
  <2> HIDE DEF q, n, l, d, k, a, x, t, z, done, r
  <2>12. /\ q.computed - x \in 0 .. MaxModelLen /\ t \in 1 .. MaxModelLen /\ t <= k
         /\ t # k => /\ n * BlockSize <= q.computed - x /\ q.computed - x <= l * BlockSize
                     /\ q.computed - x < t
    BY <2>1, <2>2, <2>3, <2>4, <2>5, DeliveredIs
  <2>13. /\ z \in RequestRecord /\ z.computed = q.computed - x /\ z.ntok = t
         /\ z.status = IF done THEN "finished" ELSE "running"
    <3>1. 0 \in 0 .. NumSpec /\ "finished" \in Statuses /\ "running" \in Statuses
      BY ConfigFacts DEF Statuses
    <3> QED BY <2>2, <2>10, <2>11, <2>12, <3>1 DEF RequestRecord
  <2>14. /\ req' \in [Requests -> RequestRecord] /\ req'[r] = z
         /\ \A s \in Requests : s # r => req'[s] = req[s]
    BY <1>5, <2>7, <2>13, TablesRunning
  <2>15. /\ ManagerOK(kv')
         /\ done => kv'.table[r] = << >>
         /\ ~done => kv' = kv
         /\ \A s \in Requests : s # r => kv'.table[s] = kv.table[s] /\ kv'.numCached[s] = kv.numCached[s]
    <3>1. ManagerOK(kv)
      BY DEF IInv
    <3>2. CASE done
      <4>1. /\ ManagerOK(kv') /\ kv'.table = [kv.table EXCEPT ![r] = << >>]
            /\ kv'.numCached = [kv.numCached EXCEPT ![r] = 0]
        BY <1>5, <2>8, <3>1, <3>2, FreeOK
      <4> QED BY <1>5, <3>2, <4>1, TablesRunning
    <3>3. CASE ~done
      BY <2>8, <3>1, <3>3
    <3> QED BY <3>2, <3>3
  <2>16. Requested'
    <3> SUFFICES ASSUME NEW s \in Requests
                 PROVE  /\ req'[s].status # "finished" => req'[s].ntok < Total(s)
                        /\ req'[s].status \in {"new", "waiting", "preempted"} => req'[s].computed = 0
                        /\ req'[s].status # "running" => kv'.table[s] = << >>
      BY <2>14 DEF Requested, Total
    <3>1. CASE s = r
      <4>1. ~done => t < k
        BY <2>2, <2>6, <2>12
      <4> QED BY <2>11, <2>13, <2>14, <2>15, <3>1, <4>1
    <3>2. CASE s # r
      BY <2>14, <2>15, <3>2 DEF IInv, Requested
    <3> QED BY <3>1, <3>2
  <2>17. Queues'
    <3>1. \A s \in Range(running') :
             req'[s].status = "running" \/ (req'[s].status = "finished" /\ Delivered(s)')
      <4> SUFFICES ASSUME NEW s \in Range(running)
                   PROVE  req'[s].status = "running" \/ (req'[s].status = "finished" /\ Delivered(s)')
        BY <1>1
      <4>1. s \in Requests
        BY <1>3 DEF Range
      <4>2. CASE s = r
        BY <1>9, <2>13, <2>14, <4>1, <4>2
      <4>3. CASE s # r
        BY <1>3, <1>9, <2>14, <4>1, <4>3
      <4> QED BY <4>2, <4>3
    <3>2. \A s \in Requests : req'[s].status = "running" => s \in Range(running')
      BY <1>1, <1>3, <1>5, <2>14
    <3>3. Range(waiting') = {s \in Requests : req'[s].status \in {"waiting", "preempted"}}
      BY <1>1, <1>3, <1>5, <1>7, <2>13, <2>14
    <3> QED BY <1>1, <1>3, <3>1, <3>2, <3>3 DEF Queues
  <2>18. Progress'
    <3> SUFFICES ASSUME NEW s \in Requests, req'[s].status = "running" PROVE Advance(s)'
      BY DEF Progress
    <3>1. CASE s = r
      <4>1. ~done
        BY <2>13, <2>14, <3>1
      <4>2. Resting(n, l, z)
        BY <2>6, <2>12, <2>13, <4>1 DEF Resting
      <4>3. Resting(kv'.numCached[s], Len(kv'.table[s]), req'[s])
        BY <2>11, <2>14, <2>15, <3>1, <4>1, <4>2
      <4>4. ~Passed(s)'
        BY <1>5, <1>9, <3>1 DEF Passed
      <4> QED BY <1>8, <4>3, <4>4 DEF Advance
    <3>2. CASE s # r
      <4>1. req'[s] = req[s] /\ kv'.table[s] = kv.table[s] /\ kv'.numCached[s] = kv.numCached[s]
        BY <2>14, <2>15, <3>2
      <4>2. Advance(s)
        BY <4>1 DEF IInv, Progress
      <4>3. Passed(s)' <=> Passed(s)
        BY <1>1, <1>8, <1>9, <3>2 DEF Passed
      <4>4. IF Passed(s) THEN Ran(kv.numCached[s], Len(kv.table[s]), req[s], step.specs[s])
            ELSE Resting(kv.numCached[s], Len(kv.table[s]), req[s])
        BY <1>1, <4>2 DEF Advance, Scheduling
      <4> QED BY <1>8, <4>1, <4>3, <4>4 DEF Advance
    <3> QED BY <3>1, <3>2
  <2>19. OwnedOnce'
    BY <1>8, <2>15, <2>16, <2>18, OwnedAfter
  <2>20. Counters'
    BY <1>1, <2>8, <2>9 DEF IInv, Counters
  <2>21. Written'
    BY <2>8, SlotsKept DEF IInv, Written
  <2> QED BY <1>10, <2>15, <2>16, <2>17, <2>18, <2>19, <2>20, <2>21 DEF IInv
<1> QED BY <1>12, <1>13

\* The end of update_from_output keeps the invariant.
LEMMA EndUpdateStep ==
    ASSUME IInv, EndUpdate
    PROVE  IInv'
<1>1. /\ step.phase = "update" /\ step.idx > Len(running)
      /\ running' = Keep(running, {r \in Requests : req[r].status # "finished"})
      /\ req' = [r \in Requests |->
                  [req[r] EXCEPT !.drafts = IF Drafted(r) THEN NumSpec ELSE @]]
      /\ step' = Quiet /\ counter' = (counter + 1) % Interval
      /\ UNCHANGED << kv, slots, waiting, flush, resets >>
  BY DEF EndUpdate
<1>2. /\ running \in Seq(Requests) /\ waiting \in Seq(Requests)
      /\ Unique(running) /\ Unique(waiting) /\ Len(running) <= MaxRunning
      /\ Range(waiting) = {s \in Requests : req[s].status \in {"waiting", "preempted"}}
      /\ \A s \in Requests : req[s].status = "running" => s \in Range(running)
      /\ \A s \in Range(running) :
            req[s].status = "running" \/ (req[s].status = "finished" /\ Delivered(s))
  BY DEF IInv, Queues
<1>3. ASSUME NEW s \in Requests
      PROVE  /\ req'[s] \in RequestRecord /\ req'[s].status = req[s].status
             /\ req'[s].ntok = req[s].ntok /\ req'[s].computed = req[s].computed
  <2> DEFINE d == IF Drafted(s) THEN NumSpec ELSE req[s].drafts
             z == [req[s] EXCEPT !.drafts = d]
  <2>1. req[s] \in RequestRecord
    BY TablesRunning
  <2>2. d \in 0 .. NumSpec
    BY <2>1, ConfigFacts DEF RequestRecord
  <2>3. req'[s] = z
    BY <1>1
  <2> HIDE DEF d
  <2>4. /\ z \in RequestRecord /\ z.status = req[s].status
        /\ z.ntok = req[s].ntok /\ z.computed = req[s].computed
    BY <2>1, <2>2 DEF RequestRecord
  <2> HIDE DEF z
  <2> QED BY <2>3, <2>4
<1>4. req' \in [Requests -> RequestRecord]
  <2>1. \A s \in Requests : req'[s] \in RequestRecord
    BY <1>3
  <2>2. req' = [s \in Requests |-> req'[s]]
    BY <1>1
  <2> QED BY <2>1, <2>2
<1>5. /\ Quiet \in StepRecord /\ Quiet.phase = "idle" /\ Quiet.want = 0 /\ Quiet.ran = {}
      /\ DOMAIN Quiet.sched = {} /\ DOMAIN Quiet.specs = {}
  BY QuietIs
<1>6. Steps' /\ ~Scheduling' /\ ~(step'.phase \in {"executed", "update"})
  BY <1>1, <1>5 DEF Steps, Scheduling, Batch
<1>7. Counters'
  <2>1. counter \in 0 .. Interval - 1 /\ Interval \in Nat \ {0}
    BY ConfigFacts DEF IInv, Counters
  <2>2. (counter + 1) % Interval \in 0 .. Interval - 1
    BY <2>1
  <2> QED BY <1>1, <2>2 DEF IInv, Counters
<1>8. Requested'
  BY <1>1, <1>3, <1>4 DEF IInv, Requested, Total
<1>9. Queues'
  <2> DEFINE S == {r \in Requests : req[r].status # "finished"}
  <2>1. /\ running' \in Seq(Requests) /\ Range(running') = Range(running) \cap S
        /\ Unique(running') /\ Len(running') <= Len(running)
    BY <1>1, <1>2, KeepProperties, KeepOrder
  <2>2. Len(running') <= MaxRunning
    BY <1>2, <2>1, ConfigFacts
  <2>3. \A s \in Requests : req'[s].status = "running" => s \in Range(running')
    BY <1>2, <1>3, <2>1
  <2>4. Range(waiting') = {s \in Requests : req'[s].status \in {"waiting", "preempted"}}
    BY <1>1, <1>2, <1>3
  <2>5. \A s \in Range(running') : req'[s].status = "running"
    BY <1>2, <1>3, <2>1
  <2> QED BY <1>1, <1>2, <2>1, <2>2, <2>3, <2>4, <2>5 DEF Queues
<1>10. Progress'
  <2> SUFFICES ASSUME NEW s \in Requests, req'[s].status = "running" PROVE Advance(s)'
    BY DEF Progress
  <2>1. req[s].status = "running"
    BY <1>3
  <2>2. Delivered(s)
    <3>1. PICK j \in DOMAIN running : running[j] = s
      BY <1>2, <2>1 DEF Range
    <3>2. j < step.idx
      BY <1>1, <1>2, <3>1 DEF IInv, Steps, StepRecord
    <3> QED BY <1>1, <3>1, <3>2 DEF Delivered
  <2>3. Advance(s)
    BY <2>1 DEF IInv, Progress
  <2>4. Resting(kv.numCached[s], Len(kv.table[s]), req[s])
    BY <1>1, <2>2, <2>3 DEF Advance, Scheduling, Passed
  <2>5. Resting(kv'.numCached[s], Len(kv'.table[s]), req'[s])
    BY <1>1, <1>3, <2>4 DEF Resting
  <2> QED BY <1>6, <2>5 DEF Advance, Passed
<1>11. ManagerOK(kv') /\ Written'
  BY <1>1 DEF IInv, Written
<1>12. OwnedOnce'
  BY <1>6, <1>8, <1>10, <1>11, OwnedAfter
<1> QED BY <1>6, <1>7, <1>8, <1>9, <1>10, <1>11, <1>12 DEF IInv

\* Every step keeps the invariant.
LEMMA IInvStep ==
    ASSUME IInv, Padding, [Next]_vars
    PROVE  IInv'
<1>1. CASE EngineStep
  BY <1>1, IdleStepStep, BeginStepStep, SkipRunningStep, ScheduleRunningStep, PreemptRunningStep,
     EndRunningStep, AdmitStep, RefuseStep, EndWaitingStep, DispatchStep, BeginUpdateStep,
     UpdateRequestStep, EndUpdateStep, ResetPreemptStep, EndResetStep DEF EngineStep
<1>2. CASE \E r \in Requests : AddRequest(r) \/ Abort(r)
  BY <1>2, AddRequestStep, AbortStep
<1>3. CASE BeginReset \/ TryReset
  BY <1>3, BeginResetStep, TryResetStep
<1>4. CASE UNCHANGED vars
  BY <1>4, StutterStep
<1> QED BY <1>1, <1>2, <1>3, <1>4 DEF Next

\* The inductive invariant holds in every state, if padding is never cut.
THEOREM Invariant == Padding => (Spec => []IInv)
<1>1. Init => IInv
  BY InitStep
<1>2. Padding /\ IInv /\ [Next]_vars => IInv'
  BY IInvStep
<1>3. Padding => []Padding
  OBVIOUS
<1> QED BY <1>1, <1>2, <1>3, PTL DEF Spec

----------------------------------------------------------------------------
(* The theorems.                                                           *)

\* The invariant says what the engine keeps in several places.
LEMMA Accounted ==
    ASSUME IInv
    PROVE  RequestsAccounted
<1>1. /\ kv \in Managers /\ Held(kv.pool, kv.table, kv.numCached)
      /\ Tables(kv.table, kv.numCached) /\ Counted(kv.pool, kv.table)
  BY DEF IInv, ManagerOK, Held
<1>2. kv.pool \in PoolRecord /\ kv.pool.ref \in [Blocks -> Nat]
  BY <1>1, HeldFacts DEF Managers
<1>3. PoolTypeOK(kv.pool)
  BY <1>2 DEF PoolTypeOK, PoolRecord
<1>4. TypeOK
  <2>1. /\ kv.table \in [Requests -> Seq(Blocks)] /\ kv.numCached \in [Requests -> Nat]
        /\ kv.blocked \in [Requests -> 0 .. ReserveAge]
    BY <1>1 DEF Managers
  <2>2. slots \in [Blocks -> [1 .. BlockSize -> Keys \cup {NoKey}]]
    BY DEF IInv, Written, SlotContents
  <2>3. running \in Seq(Requests) /\ waiting \in Seq(Requests)
    BY DEF IInv, Queues
  <2>4. \A r \in Requests :
          /\ req[r].status \in Statuses /\ req[r].chunk \in BOOLEAN
          /\ req[r].computed \in 0 .. MaxModelLen /\ req[r].ntok \in 1 .. MaxModelLen
          /\ req[r].drafts \in 0 .. NumSpec /\ req[r].accepted \in 0 .. NumSpec
    BY DEF IInv, Requested, RequestRecord
  <2>5. /\ step.phase \in Phases /\ step.idx \in Nat
        /\ step.budget \in 0 .. TokenBudget /\ step.input \in 0 .. InputBudget
    BY DEF IInv, Steps, StepRecord
  <2>6. counter \in 0 .. Interval - 1 /\ flush \in BOOLEAN /\ resets \in 0 .. MaxResets
    BY DEF IInv, Counters
  <2> QED BY <1>3, <2>1, <2>2, <2>3, <2>4, <2>5, <2>6 DEF TypeOK
<1>5. NeverRaises
  BY DEF IInv, Steps, StepRecord, NeverRaises
<1>6. RefsMatchTables
  BY <1>1 DEF RefsMatchTables, Tables, Counted, Holders
<1>7. QueuesPartition
  <2>1. \A r \in Requests : kv.table[r] # << >> => req[r].status = "running"
    BY TablesRunning
  <2>2. Range(running) \ {r \in Requests : req[r].status = "finished"}
           = {r \in Requests : req[r].status = "running"}
    <3>1. /\ running \in Seq(Requests)
          /\ \A s \in Requests : req[s].status = "running" => s \in Range(running)
          /\ \A s \in Range(running) : req[s].status \in {"running", "finished"}
      BY DEF IInv, Queues
    <3>2. Range(running) \subseteq Requests
      BY <3>1 DEF Range
    <3> QED BY <3>1, <3>2
  <2> QED BY <2>1, <2>2 DEF QueuesPartition, IInv, Queues
<1> QED BY <1>4, <1>5, <1>6, <1>7 DEF RequestsAccounted

\* The invariant says that cached chains are closed.
LEMMA Chain ==
    ASSUME IInv
    PROVE  ChainsClosed
<1> DEFINE p == kv.pool
<1>1. /\ p \in PoolRecord /\ CacheIndexExact(p) /\ Chained(p) /\ \A b \in Blocks : p.more[b] = {}
  BY DEF IInv, ManagerOK, Held, Labelled
<1> SUFFICES ASSUME NEW r \in Requests, NEW i \in 2 .. MaxModelLen \div BlockSize,
                    IsCached(p, BlockKey(r, i))
             PROVE  IsCached(p, BlockKey(r, i - 1))
  BY DEF ChainsClosed
<1>2. Keyed(i) /\ i - 1 \in 1 .. i
  <2>1. BlockSize \in Nat \ {0} /\ MaxModelLen \in Nat
    BY TokenFacts
  <2> DEFINE M == MaxModelLen \div BlockSize
  <2>2. M \in Nat
    BY <2>1, DivFacts
  <2> HIDE DEF M
  <2>3. i \in 2 .. M
    BY DEF M
  <2>4. i \in 1 .. M /\ i - 1 \in 1 .. i
    BY <2>2, <2>3
  <2> QED BY <2>4, KeyedIs DEF M
<1>3. Keyed(i - 1)
  BY <1>2, KeyFacts
<1>4. BlockKey(r, i) \in Keys /\ BlockKey(r, i - 1) \in Keys /\ BlockKey(r, i - 1) # NoKey
  BY <1>2, <1>3, KeyFacts
<1> HIDE DEF p
<1>5. \A k \in Keys : Range(p.cached[k]) = {b \in Blocks : k \in KeysOf(p, b)}
                     /\ p.cached[k] \in Seq(Blocks)
  BY <1>1 DEF CacheIndexExact, PoolRecord
<1>6. PICK b \in Blocks : p.hash[b] = BlockKey(r, i)
  <2>1. PICK q \in Seq(Blocks) : q = p.cached[BlockKey(r, i)]
    BY <1>4, <1>5
  <2>2. q # << >>
    BY <2>1 DEF IsCached
  <2>3. 1 \in DOMAIN q /\ q[1] \in Range(q)
    BY <2>2 DEF Range
  <2>4. BlockKey(r, i) \in KeysOf(p, q[1]) /\ q[1] \in Blocks
    BY <1>4, <1>5, <2>1, <2>3
  <2> QED BY <1>1, <2>4 DEF KeysOf
<1>7. PICK c \in Blocks : p.hash[c] = BlockKey(r, i - 1)
  BY <1>1, <1>6 DEF Chained
<1>8. c \in Range(p.cached[BlockKey(r, i - 1)])
  BY <1>4, <1>5, <1>7 DEF KeysOf
<1> QED BY <1>8 DEF IsCached, Range

\* The place of position p of a request with l blocks.
LEMMA PlaceIs ==
    ASSUME NEW p \in Nat \ {0}
    PROVE  /\ CDiv(p, BlockSize) \in Nat \ {0} /\ p <= CDiv(p, BlockSize) * BlockSize
           /\ ((p - 1) % BlockSize) + 1 \in 1 .. BlockSize
           /\ (CDiv(p, BlockSize) - 1) * BlockSize + ((p - 1) % BlockSize) + 1 = p
           /\ \A l \in Nat : p <= l * BlockSize => CDiv(p, BlockSize) <= l
<1> DEFINE B == BlockSize
           i == CDiv(p, B)
           m == (p - 1) % B
           q == (p - 1) \div B
<1>1. B \in Nat \ {0}
  BY TokenFacts
<1>2. i \in Nat /\ p <= i * B /\ i * B < p + B /\ i * B \in Nat
  BY <1>1, CDivFacts, MulMono
<1>3. i # 0
  BY <1>1, <1>2
<1>4. PICK k \in Nat : i = k + 1
  <2> HIDE DEF i
  <2>1. i - 1 \in Nat /\ i = (i - 1) + 1
    BY <1>2, <1>3
  <2> QED BY <2>1
<1>5. p - 1 = q * B + m /\ m \in 0 .. B - 1 /\ q \in Nat
  <2>1. p - 1 \in Nat
    OBVIOUS
  <2> DEFINE x == p - 1
  <2> HIDE DEF x
  <2>2. x = (x \div B) * B + (x % B) /\ (x % B) \in 0 .. B - 1 /\ (x \div B) \in Nat
    BY <1>1, <2>1 DEF x
  <2> QED BY <2>2 DEF x
<1> HIDE DEF B, i, m, q
<1>6. (k + 1) * B = k * B + B /\ (q + 1) * B = q * B + B /\ k * B \in Nat /\ q * B \in Nat
  BY <1>1, <1>4, <1>5, MulOrder, MulMono
<1>7. ~(k < q)
  <2>1. ASSUME k < q PROVE FALSE
    <3>1. k * B + B <= q * B
      BY <1>1, <1>4, <1>5, <2>1, MulOrder
    <3> QED BY <1>1, <1>2, <1>4, <1>5, <1>6, <3>1
  <2> QED BY <2>1
<1>8. ~(q < k)
  <2>1. ASSUME q < k PROVE FALSE
    <3>1. q * B + B <= k * B
      BY <1>1, <1>4, <1>5, <2>1, MulOrder
    <3> QED BY <1>1, <1>2, <1>4, <1>5, <1>6, <3>1
  <2> QED BY <2>1
<1>9. k = q /\ i - 1 = q
  BY <1>4, <1>5, <1>7, <1>8
<1>10. (i - 1) * B + m + 1 = p
  <2>1. (i - 1) * B = q * B
    BY <1>9
  <2> QED BY <1>1, <1>5, <1>6, <2>1
<1>11. ASSUME NEW l \in Nat, p <= l * B PROVE i <= l
  <2>1. ASSUME l < i PROVE FALSE
    <3>1. l * B + B <= i * B /\ l * B \in Nat
      BY <1>1, <1>2, <2>1, MulOrder, MulMono
    <3> QED BY <1>1, <1>2, <1>11, <3>1
  <2> QED BY <1>2, <2>1
<1>12. m + 1 \in 1 .. B
  BY <1>1, <1>5
<1> QED BY <1>2, <1>3, <1>10, <1>11, <1>12 DEF B, i, m

\* What the pass of this step writes for r is in blocks of its own, beyond those
\* it had computed.
LEMMA FedIs ==
    ASSUME IInv, Scheduling, NEW r \in Batch, NEW p \in Fed(r)
    PROVE  LET i == CDiv(p, BlockSize) IN
           /\ r \in Requests /\ p \in Nat \ {0} /\ i \in 1 .. Len(kv.table[r])
           /\ req[r].computed < i * BlockSize /\ i * BlockSize \in Nat
           /\ SlotOf(r, p)[1] = kv.table[r][i]
           /\ p <= MaxModelLen
<1>1. r \in Requests /\ r \in Range(running) /\ step.sched[r] \in Nat
  BY RunningIs, SharesIs DEF IInv, Steps, Budgets, Scheduling, Batch, StepRecord
<1>2. req[r].status = "running"
  BY <1>1, RunningIs DEF Scheduling
<1>3. Batched(kv.numCached[r], Len(kv.table[r]), req[r], step.sched[r], step.specs[r])
  BY <1>1, <1>2 DEF IInv, Progress, Advance
<1> DEFINE c == req[r].computed
           a == step.sched[r]
           l == Len(kv.table[r])
           i == CDiv(p, BlockSize)
<1>4. c \in Nat /\ a \in Nat /\ p \in c + 1 .. c + a /\ BlockSize \in Nat \ {0} /\ l \in Nat
      /\ MaxModelLen \in Nat
  <2>1. kv.table[r] \in Seq(Blocks)
    BY <1>1, TablesRunning
  <2> QED BY <1>1, <2>1, TablesRunning, TokenFacts DEF Fed
<1>5. c + a <= l * BlockSize /\ c + a <= MaxModelLen
  BY <1>3 DEF Batched
<1>6. SlotOf(r, p)[1] = kv.table[r][i]
  BY DEF SlotOf
<1> HIDE DEF c, a, l
<1>7. p \in Nat \ {0} /\ c < p /\ p <= c + a /\ l * BlockSize \in Nat
  BY <1>4, MulMono
<1>8. p <= l * BlockSize /\ p <= MaxModelLen
  BY <1>4, <1>5, <1>7
<1>9. i \in Nat \ {0} /\ p <= i * BlockSize /\ i <= l
  BY <1>4, <1>7, <1>8, PlaceIs
<1>10. i * BlockSize \in Nat
  BY <1>4, <1>9, MulMono
<1> HIDE DEF i
<1>11. i \in 1 .. l /\ c < i * BlockSize
  BY <1>4, <1>7, <1>9, <1>10
<1> QED BY <1>1, <1>6, <1>7, <1>8, <1>10, <1>11 DEF c, l, i

\* The invariant says that a block two requests write to does not exist.
LEMMA OneWriter ==
    ASSUME IInv
    PROVE  OneWriterPerSlot
<1> SUFFICES ASSUME step.phase = "dispatch", NEW r \in Batch, NEW s \in Batch, r # s,
                    NEW p \in Fed(r), NEW q \in Fed(s), SlotOf(r, p) = SlotOf(s, q)
             PROVE  FALSE
  BY DEF OneWriterPerSlot, Batch
<1> DEFINE i == CDiv(p, BlockSize)
           j == CDiv(q, BlockSize)
<1>1. Scheduling
  BY DEF Scheduling
<1>2. /\ r \in Requests /\ i \in 1 .. Len(kv.table[r])
      /\ req[r].computed < i * BlockSize /\ i * BlockSize \in Nat
      /\ SlotOf(r, p)[1] = kv.table[r][i]
  BY <1>1, FedIs
<1>3. /\ s \in Requests /\ j \in 1 .. Len(kv.table[s])
      /\ req[s].computed < j * BlockSize /\ j * BlockSize \in Nat
      /\ SlotOf(s, q)[1] = kv.table[s][j]
  BY <1>1, FedIs
<1>4. kv.table[r][i] = kv.table[s][j]
  BY <1>2, <1>3
<1>5. req[r].computed \in Nat /\ req[s].computed \in Nat
  BY <1>2, <1>3, TablesRunning
<1>6. i * BlockSize <= req[r].computed \/ j * BlockSize <= req[s].computed
  BY <1>2, <1>3, <1>4 DEF IInv, OwnedOnce, Owned
<1> HIDE DEF i, j
<1> QED BY <1>2, <1>3, <1>5, <1>6

\* The state has its types, no step raises, every reference of the pool is one
\* entry of one table, and status, queue and table of a request agree, in any
\* state: also in the middle of schedule(), of update_from_output() and of a
\* reset.
THEOREM AccountsHold == Padding => (Spec => []RequestsAccounted)
<1>1. IInv => RequestsAccounted
  BY Accounted
<1> QED BY <1>1, Invariant, PTL

\* No step raises, whatever is preempted, aborted, rejected or reset:
\* get_new_blocks is never short once allocate_slots has passed its gates,
\* cache_full_blocks meets no cached block, and the assertions of schedule()
\* hold.
THEOREM StepsNeverRaise == Padding => (Spec => []NeverRaises)
<1>1. IInv => NeverRaises
  BY Accounted DEF RequestsAccounted
<1> QED BY <1>1, Invariant, PTL

\* A forward pass never writes one KV slot for two requests, though requests
\* share blocks.
THEOREM WritersApart == Padding => (Spec => []OneWriterPerSlot)
<1>1. IInv => OneWriterPerSlot
  BY OneWriter
<1> QED BY <1>1, Invariant, PTL

\* The cached blocks of a prefix chain are closed under shortening, through
\* evictions, partial reuse and preemptions: find_longest_cache_hit may stop at
\* the first miss.
THEOREM ChainsStayClosed == Padding => (Spec => []ChainsClosed)
<1>1. IInv => ChainsClosed
  BY Chain
<1> QED BY <1>1, Invariant, PTL

----------------------------------------------------------------------------
(* The order of the queues.                                                *)

\* No two places of the running and waiting queues hold the same request.
LEMMA LineUnique ==
    ASSUME IInv
    PROVE  /\ running \in Seq(Requests) /\ waiting \in Seq(Requests)
           /\ Unique(running) /\ Unique(waiting) /\ Range(running) \cap Range(waiting) = {}
           /\ Line \in Seq(Requests) /\ Unique(Line)
           /\ Range(Line) = Range(running) \cup Range(waiting)
<1>1. /\ running \in Seq(Requests) /\ waiting \in Seq(Requests)
      /\ Unique(running) /\ Unique(waiting)
      /\ Range(waiting) = {r \in Requests : req[r].status \in {"waiting", "preempted"}}
      /\ \A r \in Range(running) : req[r].status = "running" \/ req[r].status = "finished"
  BY DEF IInv, Queues
<1>2. Range(running) \cap Range(waiting) = {}
  BY <1>1
<1> QED BY <1>1, <1>2, ConcatUnique DEF Line

\* In a queue without repetition nobody is both before and behind another.
LEMMA PrecedesOnce ==
    ASSUME NEW q \in Seq(Requests), Unique(q), NEW a, NEW b, Precedes(q, a, b)
    PROVE  /\ ~Precedes(q, b, a) /\ a \in Range(q) /\ b \in Range(q)
<1>1. PICK i, j \in DOMAIN q : i < j /\ q[i] = a /\ q[j] = b
  BY DEF Precedes
<1>2. ASSUME NEW k \in DOMAIN q, NEW l \in DOMAIN q, k < l, q[k] = b, q[l] = a
      PROVE  FALSE
  <2>1. k = j /\ l = i
    BY <1>1, <1>2 DEF Unique
  <2> QED BY <1>1, <1>2, <2>1
<1> QED BY <1>1, <1>2 DEF Precedes, Range

\* A step that neither swaps two requests nor brings one back lets none overtake.
Ordered(q, z) ==
    \A a, b \in Range(z) : Precedes(q, a, b) => Precedes(z, a, b)

\* A queue without some of its requests.
LEMMA KeepOrdered ==
    ASSUME NEW q \in Seq(Requests), NEW S
    PROVE  Ordered(q, Keep(q, S)) /\ Range(Keep(q, S)) \subseteq Range(q)
<1>1. Range(Keep(q, S)) = Range(q) \cap S
  BY KeepProperties
<1>2. \A a, b \in S : Precedes(q, a, b) => Precedes(Keep(q, S), a, b)
  BY KeepOrder
<1> QED BY <1>1, <1>2 DEF Ordered

\* One queue after the other.
LEMMA ConcatOrdered ==
    ASSUME NEW q \in Seq(Requests), NEW p \in Seq(Requests), Range(q) \cap Range(p) = {},
           NEW y \in Seq(Requests), NEW z \in Seq(Requests),
           Ordered(q, y), Range(y) \subseteq Range(q), Ordered(p, z), Range(z) \subseteq Range(p)
    PROVE  Ordered(q \o p, y \o z)
<1>1. Range(y \o z) = Range(y) \cup Range(z)
  BY ConcatUnique
<1> SUFFICES ASSUME NEW a \in Range(y \o z), NEW b \in Range(y \o z), Precedes(q \o p, a, b)
             PROVE  Precedes(y \o z, a, b)
  BY DEF Ordered
<1>2. /\ Precedes(y, a, b) => Precedes(y \o z, a, b)
      /\ Precedes(z, a, b) => Precedes(y \o z, a, b)
      /\ a \in Range(y) /\ b \in Range(z) => Precedes(y \o z, a, b)
  BY ConcatOrder
<1>3. Precedes(q, a, b) \/ Precedes(p, a, b) \/ (a \in Range(q) /\ b \in Range(p))
  BY ConcatOrder
<1>4. /\ Precedes(q, a, b) => a \in Range(q) /\ b \in Range(q)
      /\ Precedes(p, a, b) => a \in Range(p) /\ b \in Range(p)
  BY DEF Precedes, Range
<1>5. CASE Precedes(q, a, b)
  <2>1. a \in Range(y) /\ b \in Range(y)
    BY <1>1, <1>4, <1>5
  <2> QED BY <1>2, <1>5, <2>1 DEF Ordered
<1>6. CASE Precedes(p, a, b)
  <2>1. a \in Range(z) /\ b \in Range(z)
    BY <1>1, <1>4, <1>6
  <2> QED BY <1>2, <1>6, <2>1 DEF Ordered
<1>7. CASE a \in Range(q) /\ b \in Range(p)
  <2>1. a \in Range(y) /\ b \in Range(z)
    BY <1>1, <1>7
  <2> QED BY <1>2, <2>1
<1> QED BY <1>3, <1>5, <1>6, <1>7

\* w is u followed by v, k and l requests long.
Joined(w, u, v, k, l) ==
    /\ w \in Seq(Requests) /\ Len(w) = k + l
    /\ \A i \in 1 .. k + l : w[i] = IF i <= k THEN u[i] ELSE v[i - k]

\* Concatenation, of sequences whose lengths are known.
LEMMA ConcatJoins ==
    ASSUME NEW u \in Seq(Requests), NEW v \in Seq(Requests), NEW k \in Nat, NEW l \in Nat,
           Len(u) = k, Len(v) = l
    PROVE  Joined(u \o v, u, v, k, l)
<1> QED BY ConcatProperties DEF Joined

\* The last request of one queue becomes the first of the next, and back.
LEMMA Shifted ==
    ASSUME NEW q \in Seq(Requests), NEW p \in Seq(Requests), Unique(q), Unique(p)
    PROVE  /\ q # << >> => /\ Front(q) \o (<< Last(q) >> \o p) = q \o p
                           /\ Without(q, Last(q)) = Front(q)
           /\ p # << >> => Append(q, Head(p)) \o Tail(p) = q \o p
<1>0. PICK n, m : n = Len(q) /\ m = Len(p)
  OBVIOUS
<1>1. n = Len(q) /\ m = Len(p) /\ n \in Nat /\ m \in Nat
  BY <1>0, LenProperties
<1>2. /\ DOMAIN q = 1 .. n /\ DOMAIN p = 1 .. m
      /\ \A i \in 1 .. n : q[i] \in Requests
      /\ \A i \in 1 .. m : p[i] \in Requests
  BY <1>1
<1> DEFINE c == q \o p
<1>4. c \in Seq(Requests) /\ Len(c) = n + m
  BY <1>1, ConcatProperties
<1>5. \A i \in 1 .. n + m : c[i] = IF i <= n THEN q[i] ELSE p[i - n]
  BY <1>1, <1>2, ConcatProperties
<1> HIDE DEF c
<1>6. ASSUME q # << >>
      PROVE  Front(q) \o (<< Last(q) >> \o p) = c /\ Without(q, Last(q)) = Front(q)
  <2>1. n # 0 /\ Last(q) = q[n] /\ Last(q) \in Requests
    BY <1>1, <1>2, <1>6, EmptySeq DEF Last
  <2> DEFINE f == Front(q)
             b == << q[n] >>
  <2>2. f \in Seq(Requests) /\ Len(f) = n - 1 /\ \A i \in 1 .. n - 1 : f[i] = q[i]
    BY <1>1, <1>2, <2>1 DEF Front
  <2>3. b \in Seq(Requests) /\ Len(b) = 1 /\ b[1] = q[n]
    BY <2>1
  <2> HIDE DEF f, b
  <2> DEFINE d == b \o p
  <2>4. /\ d \in Seq(Requests) /\ Len(d) = 1 + m
        /\ \A i \in 1 .. 1 + m : d[i] = IF i <= 1 THEN b[i] ELSE p[i - 1]
    <3>1. /\ d \in Seq(Requests) /\ Len(d) = Len(b) + Len(p)
          /\ \A i \in 1 .. Len(b) + Len(p) : d[i] = IF i <= Len(b) THEN b[i] ELSE p[i - Len(b)]
      BY <2>3, ConcatProperties
    <3>2. Len(b) = 1 /\ Len(p) = m
      BY <1>1, <2>3
    <3> QED BY <3>1, <3>2
  <2> HIDE DEF d
  <2> DEFINE e == f \o d
  <2>5. /\ e \in Seq(Requests) /\ Len(e) = n + m
        /\ \A i \in 1 .. n + m : e[i] = IF i <= n - 1 THEN f[i] ELSE d[i - (n - 1)]
    <3> DEFINE k == n - 1
               l == 1 + m
    <3>1. k \in Nat /\ l \in Nat /\ k + l = n + m
      BY <1>1, <2>1
    <3>2. f \in Seq(Requests) /\ d \in Seq(Requests) /\ Len(f) = k /\ Len(d) = l
      BY <2>2, <2>4
    <3> HIDE DEF k, l
    <3>3. Joined(e, f, d, k, l)
      BY ONLY <3>1, <3>2, ConcatJoins
    <3> HIDE DEF e
    <3> QED BY <3>1, <3>3 DEF k, Joined
  <2> HIDE DEF e
  <2>6. ASSUME NEW i \in 1 .. n + m PROVE e[i] = c[i]
    <3>1. CASE i <= n - 1
      <4>1. i \in 1 .. n - 1 /\ i <= n
        BY <1>1, <3>1
      <4>2. e[i] = f[i] /\ c[i] = q[i] /\ f[i] = q[i]
        BY <1>5, <2>2, <2>5, <3>1, <4>1
      <4> QED BY <4>2
    <3>2. CASE i = n
      <4>1. ~(n <= n - 1) /\ n <= n /\ n - (n - 1) = 1 /\ 1 \in 1 .. 1 + m /\ n \in 1 .. n + m
        BY <1>1, <2>1
      <4>2. e[n] = d[n - (n - 1)]
        BY <2>5, <4>1
      <4>3. c[n] = q[n]
        BY <1>5, <4>1
      <4>5. d[1] = b[1]
        <5>1. 1 <= 1
          OBVIOUS
        <5> QED BY <2>4, <4>1, <5>1
      <4> QED BY <2>3, <3>2, <4>1, <4>2, <4>3, <4>5
    <3>3. CASE i > n
      <4>1. /\ ~(i <= n - 1) /\ ~(i <= n) /\ i - (n - 1) \in 1 .. 1 + m
            /\ ~(i - (n - 1) <= 1) /\ (i - (n - 1)) - 1 = i - n
        BY <1>1, <2>1, <3>3
      <4>2. e[i] = d[i - (n - 1)] /\ c[i] = p[i - n]
        BY <1>5, <2>5, <4>1
      <4>3. d[i - (n - 1)] = p[(i - (n - 1)) - 1]
        BY <2>4, <4>1
      <4> QED BY <4>1, <4>2, <4>3
    <3> QED BY <1>1, <3>1, <3>2, <3>3
  <2>7. e = c
    BY <1>1, <1>4, <2>5, <2>6
  <2>8. Without(q, q[n]) = f
    <3>1. n \in DOMAIN q
      BY <1>1, <1>2, <2>1
    <3>2. Len(Without(q, q[n])) = n - 1 /\ \A j \in 1 .. n : j < n => Without(q, q[n])[j] = q[j]
      BY <1>1, <3>1, WithoutIndex
    <3>3. Without(q, q[n]) \in Seq(Requests)
      BY WithoutIs
    <3> DEFINE w == Without(q, q[n])
    <3>4. w \in Seq(Requests) /\ Len(w) = n - 1 /\ \A j \in 1 .. n - 1 : w[j] = f[j]
      <4>1. \A j \in 1 .. n - 1 : j \in 1 .. n /\ j < n
        BY <1>1
      <4> QED BY <2>2, <3>2, <3>3, <4>1
    <3> HIDE DEF w
    <3>5. w = f
      BY <1>1, <2>2, <3>4
    <3> QED BY <3>5 DEF w
  <2> QED BY <2>1, <2>7, <2>8 DEF e, d, b, f
<1>7. ASSUME p # << >>
      PROVE  Append(q, Head(p)) \o Tail(p) = c
  <2>1. m # 0 /\ Head(p) = p[1] /\ p[1] \in Requests
    BY <1>1, <1>2, <1>7, EmptySeq
  <2> DEFINE f == Append(q, p[1])
             t == Tail(p)
  <2>2. /\ f \in Seq(Requests) /\ Len(f) = n + 1 /\ f[n + 1] = p[1]
        /\ \A i \in 1 .. n : f[i] = q[i]
    BY <1>1, <1>2, <2>1
  <2>3. t \in Seq(Requests) /\ Len(t) = m - 1 /\ \A i \in 1 .. m - 1 : t[i] = p[i + 1]
    BY <1>1, <1>2, <2>1
  <2> HIDE DEF f, t
  <2> DEFINE e == f \o t
  <2>5. /\ e \in Seq(Requests) /\ Len(e) = n + m
        /\ \A i \in 1 .. n + m : e[i] = IF i <= n + 1 THEN f[i] ELSE t[i - (n + 1)]
    <3> DEFINE k == n + 1
               l == m - 1
    <3>1. k \in Nat /\ l \in Nat /\ k + l = n + m
      BY <1>1, <2>1
    <3>2. f \in Seq(Requests) /\ t \in Seq(Requests) /\ Len(f) = k /\ Len(t) = l
      BY <2>2, <2>3
    <3> HIDE DEF k, l
    <3>3. Joined(e, f, t, k, l)
      BY ONLY <3>1, <3>2, ConcatJoins
    <3> HIDE DEF e
    <3> QED BY <3>1, <3>3 DEF k, Joined
  <2> HIDE DEF e
  <2>6. ASSUME NEW i \in 1 .. n + m PROVE e[i] = c[i]
    <3>1. CASE i <= n
      BY <1>1, <1>5, <2>2, <2>5, <3>1
    <3>2. CASE i = n + 1
      BY <1>1, <1>5, <2>1, <2>2, <2>5, <3>2
    <3>3. CASE i > n + 1
      <4>1. e[i] = t[i - (n + 1)] /\ i - (n + 1) \in 1 .. m - 1 /\ c[i] = p[i - n]
        BY <1>1, <1>5, <2>1, <2>5, <3>3
      <4>2. t[i - (n + 1)] = p[i - (n + 1) + 1]
        BY <2>3, <4>1
      <4>3. i - (n + 1) + 1 = i - n
        BY <1>1
      <4> QED BY <4>1, <4>2, <4>3
    <3> QED BY <1>1, <3>1, <3>2, <3>3
  <2>7. e = c
    BY <1>1, <1>4, <2>5, <2>6
  <2> QED BY <2>1, <2>7 DEF e, f, t
<1> QED BY <1>6, <1>7 DEF c

\* Under FCFS no step puts a request before one that it was behind.
LEMMA LineOrdered ==
    ASSUME IInv, [Next]_vars, Policy = "fcfs"
    PROVE  Ordered(Line, Line')
<1>1. /\ running \in Seq(Requests) /\ waiting \in Seq(Requests)
      /\ Unique(running) /\ Unique(waiting) /\ Range(running) \cap Range(waiting) = {}
  BY LineUnique
<1>2. CASE Line' = Line
  BY <1>2 DEF Ordered
<1>3. ASSUME NEW r \in Requests, AddRequest(r)
      PROVE  Ordered(Line, Line')
  <2> DEFINE b == << r >>
  <2>0. b \in Seq(Requests) /\ Range(b) = {r}
    BY SingletonIs
  <2>1. running' = running /\ waiting' = waiting \o b
    BY <1>1, <1>3 DEF AddRequest, Enqueued
  <2> HIDE DEF b
  <2>2. /\ b \in Seq(Requests) /\ waiting \o b \in Seq(Requests)
        /\ Range(waiting \o b) = Range(waiting) \cup {r}
        /\ Range(running \o waiting) = Range(running) \cup Range(waiting)
    BY <1>1, <2>0, ConcatUnique
  <2> SUFFICES ASSUME NEW x, NEW y, Precedes(running \o waiting, x, y)
               PROVE  Precedes(running \o (waiting \o b), x, y)
    BY <2>1 DEF Ordered, Line
  <2>3. /\ Precedes(running, x, y) \/ Precedes(waiting, x, y)
             \/ (x \in Range(running) /\ y \in Range(waiting))
    BY <1>1, ConcatOrder
  <2>4. Precedes(waiting, x, y) => Precedes(waiting \o b, x, y)
    BY <1>1, <2>2, ConcatOrder
  <2>5. /\ Precedes(running, x, y) => Precedes(running \o (waiting \o b), x, y)
        /\ Precedes(waiting \o b, x, y) => Precedes(running \o (waiting \o b), x, y)
        /\ x \in Range(running) /\ y \in Range(waiting \o b)
             => Precedes(running \o (waiting \o b), x, y)
    BY <1>1, <2>2, ConcatOrder
  <2> QED BY <2>2, <2>3, <2>4, <2>5
<1>4. ASSUME NEW r \in Requests, Abort(r)
      PROVE  Ordered(Line, Line')
  <2>1. running' = Without(running, r) /\ waiting' = Without(waiting, r)
    BY <1>4 DEF Abort
  <2>2. /\ Without(running, r) \in Seq(Requests) /\ Without(waiting, r) \in Seq(Requests)
        /\ Ordered(running, Without(running, r)) /\ Range(Without(running, r)) \subseteq Range(running)
        /\ Ordered(waiting, Without(waiting, r)) /\ Range(Without(waiting, r)) \subseteq Range(waiting)
    BY <1>1, WithoutIs, KeepOrdered DEF Without
  <2>3. Ordered(running \o waiting, Without(running, r) \o Without(waiting, r))
    BY <1>1, <2>2, ConcatOrdered
  <2> QED BY <2>1, <2>3 DEF Line
<1>5. CASE EndUpdate
  <2> DEFINE k == Keep(running, {r \in Requests : req[r].status # "finished"})
  <2>1. running' = k /\ waiting' = waiting
    BY <1>5 DEF EndUpdate
  <2>2. k \in Seq(Requests) /\ Ordered(running, k) /\ Range(k) \subseteq Range(running)
    BY <1>1, KeepProperties, KeepOrdered
  <2> HIDE DEF k
  <2>3. Ordered(waiting, waiting)
    BY DEF Ordered
  <2>4. Ordered(running \o waiting, k \o waiting)
    BY <1>1, <2>2, <2>3, ConcatOrdered
  <2> QED BY <2>1, <2>4 DEF Line
<1>6. CASE PreemptRunning
  <2>1. running # << >>
    <3>1. step.idx \in Nat /\ step.idx # 0 /\ step.idx <= Len(running)
      BY <1>6 DEF IInv, Steps, StepRecord, Budgets, Scheduling, PreemptRunning, AtRunning
    <3> QED BY <1>1, <3>1
  <2>2. running' = Without(running, Last(running)) /\ waiting' = << Last(running) >> \o waiting
    BY <1>6 DEF PreemptRunning, Victim, Prepended
  <2>3. Line' = Line
    BY <1>1, <2>1, <2>2, Shifted DEF Line
  <2> QED BY <1>2, <2>3
<1>7. CASE ResetPreempt
  <2>1. /\ running # << >> /\ running' = Front(running)
        /\ waiting' = << Last(running) >> \o waiting
    BY <1>7 DEF ResetPreempt, Prepended
  <2>2. Line' = Line
    BY <1>1, <2>1, Shifted DEF Line
  <2> QED BY <1>2, <2>2
<1>8. CASE Admit
  <2>1. waiting # << >> /\ running' = Append(running, Head(waiting)) /\ waiting' = Tail(waiting)
    BY <1>8 DEF Admit, AtWaiting, RoomToAdmit
  <2>2. Line' = Line
    BY <1>1, <2>1, Shifted DEF Line
  <2> QED BY <1>2, <2>2
<1>9. CASE UNCHANGED queues
  BY <1>2, <1>9 DEF queues, Line
<1>10. \/ UNCHANGED queues \/ EndUpdate \/ PreemptRunning \/ ResetPreempt \/ Admit
       \/ \E r \in Requests : AddRequest(r) \/ Abort(r)
  <2>1. CASE EngineStep
    BY <2>1 DEF EngineStep, IdleStep, BeginStep, SkipRunning, ScheduleRunning, EndRunning, Refuse,
       EndWaiting, Dispatch, BeginUpdate, UpdateRequest, EndReset, queues
  <2>2. CASE BeginReset \/ TryReset
    BY <2>2 DEF BeginReset, TryReset, queues
  <2>3. CASE UNCHANGED vars
    BY <2>3 DEF vars, queues
  <2> QED BY <2>1, <2>2, <2>3 DEF Next
<1> QED BY <1>3, <1>4, <1>5, <1>6, <1>7, <1>8, <1>9, <1>10

\* Under FCFS no request ever overtakes another one, through preemptions, early
\* refusals, chunks, aborts and resets.
THEOREM NobodyOvertakes == Padding /\ Policy = "fcfs" => (Spec => NoOvertaking)
<1>1. ASSUME IInv, Padding, Policy = "fcfs", [Next]_vars
      PROVE  \A r, s \in Requests : Ahead(r, s) => ~Ahead(s, r)'
  <2>1. IInv'
    BY <1>1, IInvStep
  <2>2. Line' \in Seq(Requests) /\ Unique(Line')
    <3>1. /\ running' \in Seq(Requests) /\ waiting' \in Seq(Requests)
          /\ Unique(running') /\ Unique(waiting')
          /\ Range(waiting') = {r \in Requests : req'[r].status \in {"waiting", "preempted"}}
          /\ \A r \in Range(running') : req'[r].status = "running" \/ req'[r].status = "finished"
      BY <2>1 DEF IInv, Queues
    <3>2. Range(running') \cap Range(waiting') = {}
      BY <3>1
    <3> QED BY <3>1, <3>2, ConcatUnique DEF Line
  <2>3. Ordered(Line, Line')
    BY <1>1, LineOrdered
  <2> SUFFICES ASSUME NEW r \in Requests, NEW s \in Requests, Ahead(r, s), Ahead(s, r)'
               PROVE  FALSE
    OBVIOUS
  <2>4. Precedes(Line, r, s) /\ Precedes(Line', s, r)
    BY DEF Ahead, Precedes
  <2>5. ~Precedes(Line', r, s) /\ r \in Range(Line') /\ s \in Range(Line')
    BY <2>2, <2>4, PrecedesOnce
  <2> QED BY <2>3, <2>4, <2>5 DEF Ordered
<1>2. Padding /\ Policy = "fcfs" /\ IInv /\ [Next]_vars =>
         [\A r, s \in Requests : Ahead(r, s) => ~Ahead(s, r)']_vars
  BY <1>1
<1>3. Padding => []Padding
  OBVIOUS
<1>4. Policy = "fcfs" => [](Policy = "fcfs")
  OBVIOUS
<1> QED BY <1>2, <1>3, <1>4, Invariant, PTL DEF Spec, NoOvertaking

----------------------------------------------------------------------------
(* What the slots hold, under FCFS.                                        *)

\* The pass of the step being put together will write the KV of prefix k to slot
\* o of block b.
Due(b, o, k) ==
    /\ Scheduling
    /\ \E s \in Batch : \E p \in Fed(s) : SlotOf(s, p) = << b, o >> /\ Prefix[s][p] = k
Holds(b, o, k) == slots[b][o] = k \/ Due(b, o, k)

\* The tokens of a request that no rejection takes back any more.
Sure(r) == IF Passed(r) THEN req[r].computed - Rejected(r) ELSE req[r].computed

\* A block under a key holds, or is about to hold, the tokens the key stands for;
\* so do the blocks of a request, as far as it has computed; and every key is one
\* of a full block of some request.
CachedHolds ==
    \A b \in Blocks, r \in Requests : \A i : \A o \in 1 .. BlockSize :
        Keyed(i) /\ kv.pool.hash[b] = BlockKey(r, i) =>
            Holds(b, o, Prefix[r][(i - 1) * BlockSize + o])
ComputedHolds ==
    \A r \in Requests : req[r].status = "running" =>
        \A p \in 1 .. Sure(r) : Holds(SlotOf(r, p)[1], SlotOf(r, p)[2], Prefix[r][p])
KeysKnown ==
    \A b \in Blocks : kv.pool.hash[b] # NoKey =>
        \E r \in Requests : \E i : Keyed(i) /\ kv.pool.hash[b] = BlockKey(r, i)
KVInv == CachedHolds /\ ComputedHolds /\ KeysKnown

\* A token is at its offset in its block.
LEMMA PlaceAt ==
    ASSUME NEW p \in Nat \ {0}
    PROVE  (CDiv(p, BlockSize) - 1) * BlockSize + (((p - 1) % BlockSize) + 1) = p
<1> DEFINE j == CDiv(p, BlockSize)
           g == (p - 1) % BlockSize
           y == (j - 1) * BlockSize
<1>1. BlockSize \in Nat \ {0}
  BY TokenFacts
<1>2. j \in Nat \ {0} /\ y + g + 1 = p
  BY ONLY PlaceIs DEF j, g, y
<1>3. g \in Nat
  BY <1>1
<1>4. y \in Nat
  <2>1. j - 1 \in Nat
    BY <1>2
  <2> QED BY ONLY <1>1, <2>1, MulMono DEF y
<1>5. y + (g + 1) = p
  <2> HIDE DEF y, g
  <2> QED BY <1>2, <1>3, <1>4
<1> QED BY ONLY <1>5 DEF j, g, y

\* A token has one place: the block and the offset determine it.
LEMMA PlaceOf ==
    ASSUME NEW i \in Nat \ {0}, NEW o \in 1 .. BlockSize
    PROVE  /\ (i - 1) * BlockSize + o \in Nat \ {0}
           /\ CDiv((i - 1) * BlockSize + o, BlockSize) = i
           /\ ((((i - 1) * BlockSize + o) - 1) % BlockSize) + 1 = o
           /\ (i - 1) * BlockSize + o <= i * BlockSize
           /\ i * BlockSize \in Nat
<1> DEFINE p == (i - 1) * BlockSize + o
           j == CDiv(p, BlockSize)
           f == ((p - 1) % BlockSize) + 1
           x == (i - 1) * BlockSize
           y == (j - 1) * BlockSize
<1>1. BlockSize \in Nat \ {0} /\ i - 1 \in Nat
  BY TokenFacts
<1>2. x \in Nat /\ i * BlockSize = x + BlockSize /\ i * BlockSize \in Nat
  <2>1. ((i - 1) + 1) * BlockSize = (i - 1) * BlockSize + BlockSize
    BY ONLY <1>1, MulOrder
  <2>2. (i - 1) + 1 = i
    OBVIOUS
  <2>3. (i - 1) * BlockSize \in Nat /\ i * BlockSize \in Nat
    BY ONLY <1>1, MulMono
  <2> QED BY <2>1, <2>2, <2>3
<1>3. p = x + o
  OBVIOUS
<1> HIDE DEF x
<1>4. p \in Nat \ {0}
  BY <1>1, <1>2, <1>3
<1>5. j \in Nat \ {0} /\ f \in 1 .. BlockSize /\ y + f = p
  BY ONLY <1>4, PlaceIs, PlaceAt DEF j, f, y
<1>6. j - 1 \in Nat /\ y \in Nat
  BY ONLY <1>1, <1>5, MulMono DEF y
<1>7. x < y => x + BlockSize <= y
  <2>1. y <= x \/ i - 1 < j - 1
    <3>1. j - 1 <= i - 1 => y <= x
      BY ONLY <1>1, <1>6, MulMono DEF x, y
    <3> QED BY <1>1, <1>6, <3>1
  <2>2. i - 1 < j - 1 => x + BlockSize <= y
    BY ONLY <1>1, <1>6, MulOrder DEF x, y
  <2> QED BY <1>2, <1>6, <2>1, <2>2
<1>8. y < x => y + BlockSize <= x
  <2>1. x <= y \/ j - 1 < i - 1
    <3>1. i - 1 <= j - 1 => x <= y
      BY ONLY <1>1, <1>6, MulMono DEF x, y
    <3> QED BY <1>1, <1>6, <3>1
  <2>2. j - 1 < i - 1 => y + BlockSize <= x
    BY ONLY <1>1, <1>6, MulOrder DEF x, y
  <2> QED BY <1>2, <1>6, <2>1, <2>2
<1> HIDE DEF p, j, f, y
<1>9. x = y /\ f = o
  BY <1>1, <1>2, <1>3, <1>5, <1>6, <1>7, <1>8
<1>10. i = j
  <2>1. i - 1 <= j - 1 /\ j - 1 <= i - 1
    BY ONLY <1>1, <1>2, <1>6, <1>9, MulOrder DEF x, y
  <2> QED BY <1>5, <2>1
<1>11. p <= i * BlockSize
  BY <1>1, <1>2, <1>3
<1>12. CDiv(p, BlockSize) = i /\ ((p - 1) % BlockSize) + 1 = o
  BY ONLY <1>9, <1>10 DEF j, f
<1> QED BY ONLY <1>2, <1>4, <1>11, <1>12 DEF p

\* The tokens that are sure are in the blocks of the request.
LEMMA SureIs ==
    ASSUME IInv, NEW r \in Requests, req[r].status = "running"
    PROVE  /\ Sure(r) \in Nat /\ Sure(r) <= req[r].computed /\ req[r].computed <= MaxModelLen
           /\ ~Passed(r) => Sure(r) = req[r].computed
           /\ \A p \in 1 .. Sure(r) :
                 /\ p \in Nat \ {0} /\ p <= MaxModelLen
                 /\ CDiv(p, BlockSize) \in 1 .. Len(kv.table[r])
                 /\ SlotOf(r, p)[1] = kv.table[r][CDiv(p, BlockSize)]
                 /\ SlotOf(r, p)[1] \in Range(kv.table[r]) /\ SlotOf(r, p)[1] \in Blocks
                 /\ SlotOf(r, p)[2] = ((p - 1) % BlockSize) + 1
                 /\ SlotOf(r, p)[2] \in 1 .. BlockSize
<1> DEFINE l == Len(kv.table[r])
<1>1. /\ Held(kv.pool, kv.table, kv.numCached) /\ req[r].computed \in Nat
      /\ req[r].computed <= MaxModelLen /\ MaxModelLen \in Nat
      /\ req[r].ntok \in Nat \ {0} /\ req[r].accepted \in Nat
      /\ BlockSize \in Nat \ {0}
  BY TablesRunning, TokenFacts
<1>2. /\ l \in Nat /\ kv.table[r] \in Seq(Blocks) /\ l * BlockSize \in Nat
      /\ \A i \in 1 .. l : kv.table[r][i] \in Blocks /\ kv.table[r][i] \in Range(kv.table[r])
  <2>1. /\ l \in Nat /\ kv.table[r] \in Seq(Blocks)
        /\ \A i \in 1 .. l : kv.table[r][i] \in Blocks /\ kv.table[r][i] \in Range(kv.table[r])
    BY <1>1, HeldFacts
  <2>2. l * BlockSize \in Nat
    BY ONLY <1>1, <2>1, MulMono
  <2> QED BY <2>1, <2>2
<1>3. Advance(r)
  BY DEF IInv, Progress
<1>4. Sure(r) \in Nat /\ Sure(r) <= req[r].computed /\ req[r].computed <= l * BlockSize
  <2>1. CASE Scheduling /\ r \in Batch
    <3>1. ~Passed(r)
      BY <2>1 DEF Scheduling, Passed
    <3>2. step.sched[r] \in Nat
      BY <2>1, SharesIs DEF IInv, Steps, StepRecord, Batch
    <3>3. req[r].computed + step.sched[r] <= l * BlockSize
      BY <1>3, <2>1 DEF Advance, Batched
    <3> HIDE DEF l
    <3> QED BY <1>1, <1>2, <3>1, <3>2, <3>3 DEF Sure
  <2>2. CASE Passed(r)
    <3>1. ~(Scheduling /\ r \in Batch)
      BY <2>2 DEF Scheduling, Passed
    <3>2. Ran(kv.numCached[r], l, req[r], step.specs[r])
      BY <1>3, <2>2, <3>1 DEF Advance
    <3>3. /\ req[r].computed <= l * BlockSize
          /\ step.specs[r] = Greater(req[r].computed - req[r].ntok, 0)
          /\ req[r].accepted <= step.specs[r]
      BY <3>2 DEF Ran
    <3> HIDE DEF l
    <3> QED BY <1>1, <2>2, <3>3 DEF Sure, Rejected, Greater
  <2>3. CASE ~(Scheduling /\ r \in Batch) /\ ~Passed(r)
    <3>1. Resting(kv.numCached[r], l, req[r])
      BY <1>3, <2>3 DEF Advance
    <3> QED BY <1>1, <2>3, <3>1 DEF Sure, Resting
  <2> QED BY <2>1, <2>2, <2>3
<1>5. ASSUME NEW p \in 1 .. Sure(r)
      PROVE  /\ p \in Nat \ {0} /\ p <= MaxModelLen
             /\ CDiv(p, BlockSize) \in 1 .. l
             /\ ((p - 1) % BlockSize) + 1 \in 1 .. BlockSize
  <2>1. p \in Nat \ {0} /\ p <= req[r].computed
    BY <1>1, <1>4
  <2>2. p <= l * BlockSize /\ p <= MaxModelLen
    BY <1>1, <1>2, <1>4, <2>1
  <2>3. /\ CDiv(p, BlockSize) \in Nat \ {0} /\ CDiv(p, BlockSize) <= l
        /\ ((p - 1) % BlockSize) + 1 \in 1 .. BlockSize
    BY ONLY <1>2, <2>1, <2>2, PlaceIs
  <2> QED BY <1>2, <2>1, <2>2, <2>3
<1>6. ~Passed(r) => Sure(r) = req[r].computed
  BY DEF Sure
<1>7. ASSUME NEW p \in 1 .. Sure(r)
      PROVE  /\ SlotOf(r, p)[1] = kv.table[r][CDiv(p, BlockSize)]
             /\ SlotOf(r, p)[2] = ((p - 1) % BlockSize) + 1
  BY DEF SlotOf
<1> QED BY <1>1, <1>2, <1>4, <1>5, <1>6, <1>7

\* What is forgotten is under no key and in no table.
LEMMA Forgotten ==
    ASSUME NEW m, NEW s, ManagerOK(m), NEW b \in Blocks
    PROVE  \/ Remembered(m.pool, s)[b] = s[b]
           \/ m.pool.hash[b] = NoKey /\ \A r \in Requests : b \notin Range(m.table[r])
<1>1. Held(m.pool, m.table, m.numCached)
  BY DEF ManagerOK
<1>2. m.pool.ref[b] = 0 <=> \A r \in Requests : b \notin Range(m.table[r])
  BY <1>1, HeldFacts
<1> QED BY <1>2 DEF Remembered, KeysOf

\* A block that is held, or that keeps its key, is not handed out afresh.
LEMMA Kept ==
    ASSUME NEW p, NEW q, NEW s, NEW b \in Blocks,
           p.ref[b] # 0 \/ (p.hash[b] # NoKey /\ q.hash[b] = p.hash[b])
    PROVE  Refreshed(p, q, s)[b] = s[b]
BY DEF Refreshed, KeysOf

\* What the step was to write it still is, when no share of it changes.
LEMMA DueKept ==
    ASSUME Scheduling => /\ Scheduling'
                         /\ \A s \in Batch : /\ s \in Batch' /\ step'.sched[s] = step.sched[s]
                                             /\ kv'.table[s] = kv.table[s]
                                             /\ req'[s].computed = req[s].computed
    PROVE  \A b, o, k : Due(b, o, k) => Due(b, o, k)'
<1> SUFFICES ASSUME NEW b, NEW o, NEW k, Due(b, o, k)
             PROVE  Due(b, o, k)'
  OBVIOUS
<1>1. Scheduling
  BY DEF Due
<1>2. PICK s \in Batch : \E p \in Fed(s) : SlotOf(s, p) = << b, o >> /\ Prefix[s][p] = k
  BY DEF Due
<1>3. PICK p \in Fed(s) : SlotOf(s, p) = << b, o >> /\ Prefix[s][p] = k
  BY <1>2
<1>4. /\ Scheduling' /\ s \in Batch' /\ step'.sched[s] = step.sched[s]
      /\ kv'.table[s] = kv.table[s] /\ req'[s].computed = req[s].computed
  BY <1>1
<1>5. p \in Fed(s)'
  BY <1>3, <1>4 DEF Fed
<1>6. (SlotOf(s, p) = << b, o >>)'
  BY <1>3, <1>4 DEF SlotOf
<1> QED BY <1>3, <1>4, <1>5, <1>6 DEF Due

\* A step that writes nothing keeps what the slots hold, if it only takes keys away,
\* forgets what nothing refers to, and lets no request count more than it did.
LEMMA Carries ==
    ASSUME IInv, KVInv,
           \A b \in Blocks : kv'.pool.hash[b] = kv.pool.hash[b] \/ kv'.pool.hash[b] = NoKey,
           \A b \in Blocks : slots'[b] = slots[b] \/
               (kv'.pool.hash[b] = NoKey /\ \A r \in Requests : b \notin Range(kv'.table[r])),
           \A b, o, k : Due(b, o, k) => Due(b, o, k)',
           \A r \in Requests : req'[r].status = "running" =>
               /\ req[r].status = "running" /\ kv'.table[r] = kv.table[r]
               /\ Sure(r)' = Sure(r)
    PROVE  KVInv'
<1>1. ASSUME NEW b \in Blocks, slots'[b] = slots[b], NEW o, NEW k, Holds(b, o, k)
      PROVE  Holds(b, o, k)'
  <2>1. CASE slots[b][o] = k
    <3>1. slots'[b][o] = k
      BY <1>1, <2>1
    <3> QED BY <3>1 DEF Holds
  <2>2. CASE Due(b, o, k)
    <3>1. Due(b, o, k)'
      BY <2>2
    <3> QED BY <3>1 DEF Holds
  <2> QED BY <1>1, <2>1, <2>2 DEF Holds
<1>2. CachedHolds'
  <2> SUFFICES ASSUME NEW b \in Blocks, NEW r \in Requests, NEW i, NEW o \in 1 .. BlockSize,
                      Keyed(i), kv'.pool.hash[b] = BlockKey(r, i)
               PROVE  Holds(b, o, Prefix[r][(i - 1) * BlockSize + o])'
    BY DEF CachedHolds
  <2>1. BlockKey(r, i) # NoKey
    BY KeyFacts
  <2>2. kv.pool.hash[b] = BlockKey(r, i) /\ slots'[b] = slots[b]
    BY <2>1
  <2>3. Holds(b, o, Prefix[r][(i - 1) * BlockSize + o])
    BY <2>2 DEF KVInv, CachedHolds
  <2> QED BY <1>1, <2>2, <2>3
<1>3. ComputedHolds'
  <2> SUFFICES ASSUME NEW r \in Requests, req'[r].status = "running", NEW p \in 1 .. Sure(r)'
               PROVE  Holds(SlotOf(r, p)[1], SlotOf(r, p)[2], Prefix[r][p])'
    BY DEF ComputedHolds
  <2>1. req[r].status = "running" /\ kv'.table[r] = kv.table[r] /\ p \in 1 .. Sure(r)
    OBVIOUS
  <2>2. SlotOf(r, p)[1] \in Blocks /\ SlotOf(r, p)[1] \in Range(kv.table[r])
    BY <2>1, SureIs
  <2>3. PICK b \in Blocks : b = SlotOf(r, p)[1]
    BY <2>2
  <2>4. PICK o : o = SlotOf(r, p)[2]
    OBVIOUS
  <2>5. Holds(b, o, Prefix[r][p])
    BY <2>1, <2>3, <2>4 DEF KVInv, ComputedHolds
  <2>6. SlotOf(r, p)' = SlotOf(r, p)
    BY <2>1 DEF SlotOf
  <2>7. slots'[b] = slots[b]
    BY <2>1, <2>2, <2>3
  <2>8. Holds(b, o, Prefix[r][p])'
    BY <1>1, <2>5, <2>7
  <2>9. b = SlotOf(r, p)[1]' /\ o = SlotOf(r, p)[2]'
    BY <2>3, <2>4, <2>6
  <2> QED BY <2>8, <2>9 DEF Holds, Due
<1>4. KeysKnown'
  <2> SUFFICES ASSUME NEW b \in Blocks, kv'.pool.hash[b] # NoKey
               PROVE  \E r \in Requests : \E i : Keyed(i) /\ kv'.pool.hash[b] = BlockKey(r, i)
    BY DEF KeysKnown
  <2> QED BY DEF KVInv, KeysKnown
<1> QED BY <1>2, <1>3, <1>4 DEF KVInv

\* Where the KV cache and the counts stay, so does what the slots hold.
LEMMA RestsKV ==
    ASSUME IInv, KVInv, kv'.pool = kv.pool, kv'.table = kv.table, slots' = slots,
           \A r \in Requests : req'[r].status = "running" =>
               req'[r] = req[r] /\ step'.specs = step.specs /\ (Passed(r)' <=> Passed(r)),
           Scheduling => Scheduling' /\ step'.sched = step.sched /\ req' = req
    PROVE  KVInv'
<1>1. \A b, o, k : Due(b, o, k) => Due(b, o, k)'
  <2>1. Scheduling => /\ Scheduling'
                      /\ \A s \in Batch : /\ s \in Batch' /\ step'.sched[s] = step.sched[s]
                                          /\ kv'.table[s] = kv.table[s]
                                          /\ req'[s].computed = req[s].computed
    BY DEF Batch
  <2> QED BY <2>1, DueKept
<1>2. \A r \in Requests : req'[r].status = "running" =>
          req[r].status = "running" /\ kv'.table[r] = kv.table[r] /\ Sure(r)' = Sure(r)
  BY DEF Sure, Rejected
<1>3. \A b \in Blocks : kv'.pool.hash[b] = kv.pool.hash[b] /\ slots'[b] = slots[b]
  OBVIOUS
<1> QED BY <1>1, <1>2, <1>3, Carries

\* A request that gives up its blocks takes none of the other requests' KV with it.
LEMMA FreesKV ==
    ASSUME IInv, KVInv, NEW v \in Requests, NEW m, ManagerOK(m), m.pool = kv.pool,
           m.table = kv.table, kv' = FreeRequest(m, v), slots' = Remembered(kv'.pool, slots),
           req'[v].status # "running", step'.specs = step.specs,
           \A s \in Requests \ {v} : req'[s] = req[s] /\ (Passed(s)' <=> Passed(s)),
           Scheduling => Scheduling' /\ step'.sched = step.sched /\ v \notin Batch
    PROVE  KVInv'
<1>1. /\ ManagerOK(kv') /\ kv'.table = [kv.table EXCEPT ![v] = << >>]
      /\ kv'.pool.hash = kv.pool.hash
  <2>1. /\ ManagerOK(FreeRequest(m, v))
        /\ FreeRequest(m, v).table = [m.table EXCEPT ![v] = << >>]
        /\ FreeRequest(m, v).pool.hash = m.pool.hash
    BY ONLY v \in Requests, ManagerOK(m), FreeOK
  <2> QED BY ONLY <2>1, kv' = FreeRequest(m, v), m.pool = kv.pool, m.table = kv.table
<1>2. /\ kv.table \in [Requests -> Seq(Blocks)]
      /\ \A s \in Requests \ {v} : kv'.table[s] = kv.table[s]
  BY <1>1, TablesRunning
<1>3. \A b, o, k : Due(b, o, k) => Due(b, o, k)'
  <2>1. Batch \subseteq Requests
    BY SharesIs DEF IInv, Steps, StepRecord, Batch
  <2>2. Scheduling => /\ Scheduling'
                      /\ \A s \in Batch : /\ s \in Batch' /\ step'.sched[s] = step.sched[s]
                                          /\ kv'.table[s] = kv.table[s]
                                          /\ req'[s].computed = req[s].computed
    BY <1>2, <2>1 DEF Batch
  <2> QED BY <2>2, DueKept
<1>4. \A s \in Requests : req'[s].status = "running" =>
          req[s].status = "running" /\ kv'.table[s] = kv.table[s] /\ Sure(s)' = Sure(s)
  <2> SUFFICES ASSUME NEW s \in Requests, req'[s].status = "running"
               PROVE  /\ req[s].status = "running" /\ kv'.table[s] = kv.table[s]
                      /\ Sure(s)' = Sure(s)
    OBVIOUS
  <2>1. s \in Requests \ {v}
    OBVIOUS
  <2>2. /\ req'[s] = req[s] /\ (Passed(s)' <=> Passed(s)) /\ step'.specs = step.specs
        /\ kv'.table[s] = kv.table[s]
    BY <1>2, <2>1
  <2> QED BY ONLY <2>2, req'[s].status = "running" DEF Sure, Rejected
<1>5. \A b \in Blocks : slots'[b] = slots[b] \/
          (kv'.pool.hash[b] = NoKey /\ \A r \in Requests : b \notin Range(kv'.table[r]))
  BY ONLY <1>1, slots' = Remembered(kv'.pool, slots), Forgotten
<1>6. \A b \in Blocks : kv'.pool.hash[b] = kv.pool.hash[b]
  BY <1>1
<1> QED BY <1>3, <1>4, <1>5, <1>6, Carries

\* The engine between its steps, and the turns of schedule() that give nothing.
LEMMA QuietKV ==
    ASSUME IInv, KVInv,
           \/ UNCHANGED vars \/ IdleStep \/ BeginReset \/ BeginStep \/ SkipRunning
           \/ EndRunning \/ EndWaiting \/ Refuse \/ BeginUpdate
           \/ \E r \in Requests : AddRequest(r)
    PROVE  KVInv'
<1>1. step \in StepRecord
  BY DEF IInv, Steps
<1>2. CASE UNCHANGED vars \/ IdleStep
  <2>1. kv' = kv /\ slots' = slots /\ req' = req /\ step' = step /\ running' = running
    BY <1>2 DEF vars, IdleStep, queues
  <2> QED BY <2>1, RestsKV DEF Passed, Delivered, Batch, Scheduling
<1>3. CASE BeginReset
  <2>1. /\ kv' = kv /\ slots' = slots /\ req' = req /\ running' = running
        /\ step' = [step EXCEPT !.phase = "resetting"] /\ step.phase = "idle"
    BY <1>3 DEF BeginReset, queues, Between
  <2>2. step'.phase = "resetting" /\ step'.specs = step.specs
    BY <1>1, <2>1 DEF StepRecord
  <2> QED BY <2>1, <2>2, RestsKV DEF Passed, Scheduling
<1>4. CASE BeginStep
  <2>1. /\ kv' = kv /\ slots' = slots /\ req' = req /\ running' = running
        /\ step'.phase = "running" /\ step'.specs = << >> /\ step.phase = "idle"
    BY <1>4 DEF BeginStep, queues, Between, Quiet
  <2>2. \A r \in Requests : ~Passed(r) /\ ~Passed(r)'
    BY <2>1 DEF Passed
  <2>3. \A r \in Requests : Sure(r)' = Sure(r)
    BY <2>1, <2>2 DEF Sure
  <2>4. \A b, o, k : ~Due(b, o, k)
    BY <2>1 DEF Due, Scheduling
  <2> QED BY <2>1, <2>3, <2>4, Carries
<1>5. CASE SkipRunning \/ EndRunning \/ EndWaiting \/ Refuse
  <2>1. /\ slots' = slots /\ req' = req /\ running' = running
        /\ step.phase \in {"running", "waiting"}
        /\ \/ step' = [step EXCEPT !.idx = @ + 1]
           \/ step' = [step EXCEPT !.phase = "waiting"]
           \/ step' = [step EXCEPT !.phase = "dispatch"]
    BY <1>5 DEF SkipRunning, EndRunning, EndWaiting, Refuse, queues, AtRunning, AtWaiting
  <2>2. /\ step'.sched = step.sched /\ step'.specs = step.specs
        /\ step'.phase \in {"running", "waiting", "dispatch"}
    BY <1>1, <2>1 DEF StepRecord
  <2>3. kv'.pool = kv.pool /\ kv'.table = kv.table
    <3>1. CASE kv' = kv
      BY <3>1
    <3>2. CASE Refuse
      <4>1. waiting # << >> /\ kv' = RefuseSlots(kv, WaitingCall(Head(waiting)))
        BY <3>2 DEF Refuse, AtWaiting, RoomToAdmit
      <4>2. Head(waiting) \in Requests
        BY <4>1, EndsAre DEF IInv, Queues
      <4>3. WaitingCall(Head(waiting)).req \in Requests
        BY <4>2 DEF WaitingCall
      <4> QED BY <4>1, <4>3, RefuseOK DEF IInv
    <3> QED BY <1>5, <3>1, <3>2 DEF SkipRunning, EndRunning, EndWaiting
  <2> QED BY <2>1, <2>2, <2>3, RestsKV DEF Passed, Scheduling
<1>6. CASE BeginUpdate
  <2>1. /\ kv' = kv /\ slots' = slots /\ req' = req /\ running' = running
        /\ step.phase = "executed" /\ step' = [step EXCEPT !.phase = "update", !.idx = 1]
    BY <1>6 DEF BeginUpdate, queues
  <2>2. /\ step'.phase = "update" /\ step'.idx = 1 /\ step'.sched = step.sched
        /\ step'.specs = step.specs
    BY <1>1, <2>1 DEF StepRecord
  <2>3. \A r \in Requests : Passed(r)' <=> Passed(r)
    <3>1. running \in Seq(Requests)
      BY DEF IInv, Queues
    <3>2. \A r \in Requests : ~Delivered(r) /\ ~Delivered(r)'
      BY <2>1, <2>2, <3>1 DEF Delivered
    <3> QED BY <2>1, <2>2, <3>2 DEF Passed, Batch
  <2> QED BY <2>1, <2>2, <2>3, RestsKV DEF Scheduling
<1>7. ASSUME NEW r \in Requests, AddRequest(r)
      PROVE  KVInv'
  <2>1. /\ kv' = kv /\ slots' = slots /\ running' = running /\ step' = step
        /\ req' = [req EXCEPT ![r].status = "waiting"] /\ step.phase = "idle"
    BY <1>7 DEF AddRequest, Between
  <2>2. req \in [Requests -> RequestRecord]
    BY TablesRunning
  <2>3. \A s \in Requests : req'[s].status = "running" => req'[s] = req[s]
    BY <2>1, <2>2 DEF RequestRecord
  <2> QED BY <2>1, <2>3, RestsKV DEF Passed, Scheduling
<1> QED BY <1>2, <1>3, <1>4, <1>5, <1>6, <1>7

\* reset_prefix_cache takes all keys away or none.
LEMMA ResetKV ==
    ASSUME IInv, KVInv, EndReset \/ TryReset
    PROVE  KVInv'
<1> DEFINE A == [kv EXCEPT !.pool = ResetPrefixCache(kv.pool)]
<1>1. /\ kv' = A /\ slots' = Remembered(kv'.pool, slots) /\ req' = req
      /\ step.phase \in {"idle", "resetting"}
      /\ \/ step' = step
         \/ step' = [step EXCEPT !.phase =
                        IF CanResetPrefixCache(kv.pool) THEN "idle" ELSE "crashed"]
  BY DEF EndReset, TryReset, Between
<1>2. step.phase \notin {"executed", "update"} /\ step'.phase \notin {"executed", "update"}
  BY <1>1 DEF IInv, Steps, StepRecord
<1>3. \A r \in Requests : Sure(r) = req[r].computed /\ Sure(r)' = req[r].computed
  BY <1>1, <1>2 DEF Sure, Passed
<1>4. \A b, o, k : ~Due(b, o, k)
  BY <1>1 DEF Due, Scheduling
<1>5. /\ ManagerOK(A) /\ A.table = kv.table
      /\ A.pool = kv.pool \/ \A b \in Blocks : A.pool.hash[b] = NoKey
  <2>1. ManagerOK(kv)
    BY DEF IInv
  <2> QED BY ONLY <2>1, ResetOK DEF A
<1> HIDE DEF A
<1>6. \A b \in Blocks : slots'[b] = slots[b] \/
          (kv'.pool.hash[b] = NoKey /\ \A r \in Requests : b \notin Range(kv'.table[r]))
  BY ONLY <1>1, <1>5, Forgotten
<1>7. \A b \in Blocks : kv'.pool.hash[b] = kv.pool.hash[b] \/ kv'.pool.hash[b] = NoKey
  BY <1>1, <1>5
<1>8. \A r \in Requests : req'[r].status = "running" =>
          req[r].status = "running" /\ kv'.table[r] = kv.table[r] /\ Sure(r)' = Sure(r)
  BY <1>1, <1>3, <1>5
<1> QED BY <1>4, <1>6, <1>7, <1>8, Carries

\* finish_requests.
LEMMA AbortKV ==
    ASSUME IInv, KVInv, NEW r \in Requests, Abort(r)
    PROVE  KVInv'
<1>1. /\ kv' = FreeRequest(kv, r) /\ slots' = Remembered(kv'.pool, slots) /\ step' = step
      /\ req' = [req EXCEPT ![r].status = "finished", ![r].accepted = 0]
      /\ step.phase \in {"idle", "executed"}
  BY DEF Abort
<1>2. req \in [Requests -> RequestRecord] /\ ManagerOK(kv)
  BY TablesRunning DEF IInv
<1>3. req'[r].status # "running" /\ \A s \in Requests \ {r} : req'[s] = req[s]
  BY <1>1, <1>2 DEF RequestRecord
<1>4. \A s \in Requests : Passed(s)' <=> Passed(s)
  <2>1. \A s \in Requests : ~Delivered(s) /\ ~Delivered(s)'
    BY <1>1 DEF Delivered
  <2> QED BY <1>1, <2>1 DEF Passed, Batch
<1>5. ~Scheduling
  BY <1>1 DEF Scheduling
<1> QED BY <1>1, <1>2, <1>3, <1>4, <1>5, FreesKV

\* A preemption before a reset: no step is being put together.
LEMMA ResetPreemptKV ==
    ASSUME IInv, KVInv, ResetPreempt
    PROVE  KVInv'
<1> DEFINE v == Last(running)
<1>1. /\ kv' = FreeRequest(kv, v) /\ slots' = Remembered(kv'.pool, slots) /\ step' = step
      /\ req' = PreemptedReq(v) /\ step.phase = "resetting" /\ running # << >>
  BY DEF ResetPreempt
<1>2. v \in Requests
  BY <1>1, EndsAre DEF IInv, Queues
<1> HIDE DEF v
<1>3. req \in [Requests -> RequestRecord] /\ ManagerOK(kv)
  BY TablesRunning DEF IInv
<1>4. req'[v].status # "running" /\ \A s \in Requests \ {v} : req'[s] = req[s]
  BY <1>1, <1>2, <1>3 DEF RequestRecord, PreemptedReq
<1>5. \A s \in Requests : ~Passed(s) /\ ~Passed(s)'
  BY <1>1 DEF Passed
<1>6. ~Scheduling
  BY <1>1 DEF Scheduling
<1> QED BY <1>1, <1>2, <1>3, <1>4, <1>5, <1>6, FreesKV

\* A preemption in schedule(): under FCFS the victim, the last of the running
\* requests, is not yet part of the batch.
LEMMA PreemptRunningKV ==
    ASSUME IInv, KVInv, Policy = "fcfs", PreemptRunning
    PROVE  KVInv'
<1> DEFINE v == Last(running)
           m == RefuseSlots(kv, RunningCall(Current))
           n == IF v = Current THEN 0 ELSE NumNewTokens(Current)
           i == IF IndexOf(running, v) < step.idx THEN step.idx - 1 ELSE step.idx
           f == IF v = Current THEN "dispatch" ELSE step.phase
<1>1. Victim = v
  BY DEF Victim
<1>2. /\ kv' = FreeRequest(m, v) /\ slots' = Remembered(kv'.pool, slots)
      /\ req' = PreemptedReq(v) /\ AtRunning /\ step.phase = "running" /\ step.idx <= Len(running)
  BY <1>1 DEF PreemptRunning, AtRunning
<1>3. /\ step \in StepRecord /\ step.ran = Batch /\ running \in Seq(Requests) /\ Unique(running)
      /\ \A r \in Batch : \E j \in DOMAIN running : j < step.idx /\ running[j] = r
      /\ step.idx \in Nat /\ step.idx # 0
  BY <1>2 DEF IInv, Steps, Queues, StepRecord, Budgets, Scheduling
<1>4. v \in Requests /\ running # << >>
  BY <1>2, <1>3, EndsAre
<1>5. v \notin Batch
  <2>1. Len(running) \in DOMAIN running /\ v = running[Len(running)]
    BY <1>3, <1>4 DEF Last
  <2>2. ASSUME NEW j \in DOMAIN running, j < step.idx, running[j] = v
        PROVE  FALSE
    <3>1. j = Len(running)
      BY <1>3, <2>1, <2>2 DEF Unique
    <3> QED BY <1>2, <1>3, <2>2, <3>1
  <2> QED BY <1>3, <2>2
<1>6. Undone(v) = step
  BY <1>3, <1>5 DEF Undone
<1>7. step' = [step EXCEPT !.preempted = TRUE, !.want = n, !.idx = i, !.phase = f]
  BY <1>1, <1>6 DEF PreemptRunning
<1> HIDE DEF n, i
<1>8. /\ step'.sched = step.sched /\ step'.specs = step.specs
      /\ step'.phase \in {"running", "dispatch"}
  BY <1>2, <1>3, <1>7 DEF StepRecord
<1> HIDE DEF v, f
<1>9. ManagerOK(m) /\ m.pool = kv.pool /\ m.table = kv.table
  <2>1. ManagerOK(kv) /\ RunningCall(Current).req \in Requests
    BY <1>2, CurrentIs DEF IInv, RunningCall
  <2> QED BY ONLY <2>1, RefuseOK DEF m
<1> HIDE DEF m
<1>10. req \in [Requests -> RequestRecord]
  BY TablesRunning
<1>11. req'[v].status # "running" /\ \A s \in Requests \ {v} : req'[s] = req[s]
  BY <1>2, <1>4, <1>10 DEF RequestRecord, PreemptedReq
<1>12. \A s \in Requests : ~Passed(s) /\ ~Passed(s)'
  BY <1>2, <1>8 DEF Passed
<1>13. Scheduling'
  BY <1>8 DEF Scheduling
<1> QED BY <1>2, <1>4, <1>5, <1>8, <1>9, <1>11, <1>12, <1>13, FreesKV

\* What a request had sure before its output was delivered it has computed after.
LEMMA UpdateRequestKV ==
    ASSUME IInv, KVInv, UpdateRequest
    PROVE  KVInv'
<1>1. step.phase = "update" /\ step.idx <= Len(running)
  BY DEF UpdateRequest
<1>2. /\ step \in StepRecord /\ running \in Seq(Requests) /\ Unique(running) /\ ManagerOK(kv)
      /\ step.idx \in Nat /\ step.idx # 0 /\ step.idx \in DOMAIN running
  BY <1>1 DEF IInv, Steps, Queues, StepRecord
<1>3. PICK r \in Requests : r = running[step.idx]
  BY <1>1, <1>2
<1> DEFINE done == TokensAfter(r) = Total(r)
<1>4. /\ step' = [step EXCEPT !.idx = @ + 1] /\ running' = running
      /\ r \notin Batch => kv' = kv /\ slots' = slots /\ req' = req
      /\ r \in Batch =>
            /\ req' = [req EXCEPT ![r].computed = @ - Rejected(r), ![r].ntok = TokensAfter(r),
                                  ![r].accepted = 0,
                                  ![r].status = IF done THEN "finished" ELSE @]
            /\ kv' = IF done THEN FreeRequest(kv, r) ELSE kv
            /\ slots' = Remembered(kv'.pool, slots)
  BY <1>3 DEF UpdateRequest, queues, Batch
<1>5. /\ step'.phase = "update" /\ step'.sched = step.sched /\ step'.specs = step.specs
      /\ step'.idx = step.idx + 1 /\ Batch' = Batch
  BY <1>1, <1>2, <1>4 DEF StepRecord, Batch
<1>6. \A s \in Requests \ {r} : Delivered(s)' <=> Delivered(s)
  BY <1>1, <1>2, <1>3, <1>4, <1>5 DEF Delivered
<1>7. Delivered(r)' /\ ~Delivered(r)
  <2>1. Delivered(r)'
    BY <1>1, <1>2, <1>3, <1>4, <1>5 DEF Delivered
  <2>2. ~Delivered(r)
    BY <1>2, <1>3 DEF Delivered, Unique
  <2> QED BY <2>1, <2>2
<1> HIDE DEF done
<1>8. /\ \A s \in Requests \ {r} : Passed(s)' <=> Passed(s)
      /\ ~Passed(r)' /\ (Passed(r) <=> r \in Batch)
  BY <1>1, <1>5, <1>6, <1>7 DEF Passed
<1>9. ~Scheduling
  BY <1>1 DEF Scheduling
<1>10. req \in [Requests -> RequestRecord]
  BY TablesRunning
<1>11. CASE r \notin Batch
  <2>1. kv' = kv /\ slots' = slots /\ req' = req
    BY <1>4, <1>11
  <2>2. \A s \in Requests : Passed(s)' <=> Passed(s)
    BY <1>8, <1>11
  <2> QED BY <1>5, <1>9, <2>1, <2>2, RestsKV
<1>12. CASE r \in Batch /\ done
  <2>1. kv' = FreeRequest(kv, r) /\ slots' = Remembered(kv'.pool, slots)
    BY <1>4, <1>12
  <2>2. req'[r].status # "running" /\ \A s \in Requests \ {r} : req'[s] = req[s]
    BY <1>4, <1>10, <1>12 DEF RequestRecord
  <2> QED BY <1>2, <1>5, <1>8, <1>9, <2>1, <2>2, FreesKV
<1>13. CASE r \in Batch /\ ~done
  <2>1. kv' = kv /\ slots' = Remembered(kv.pool, slots)
    BY <1>4, <1>13
  <2>2. /\ req'[r].status = req[r].status /\ req'[r].computed = req[r].computed - Rejected(r)
        /\ \A s \in Requests \ {r} : req'[s] = req[s]
    BY <1>4, <1>10, <1>13 DEF RequestRecord
  <2>3. Sure(r)' = Sure(r)
    BY <1>8, <1>13, <2>2 DEF Sure
  <2>4. \A s \in Requests \ {r} : Sure(s)' = Sure(s)
    BY <1>5, <1>8, <2>2 DEF Sure, Rejected
  <2>5. \A s \in Requests : req'[s].status = "running" =>
            req[s].status = "running" /\ kv'.table[s] = kv.table[s] /\ Sure(s)' = Sure(s)
    BY <2>1, <2>2, <2>3, <2>4
  <2>6. \A b \in Blocks : slots'[b] = slots[b] \/
            (kv'.pool.hash[b] = NoKey /\ \A s \in Requests : b \notin Range(kv'.table[s]))
    BY ONLY <1>2, <2>1, Forgotten
  <2>7. \A b, o, k : ~Due(b, o, k)
    BY <1>9 DEF Due
  <2>8. \A b \in Blocks : kv'.pool.hash[b] = kv.pool.hash[b]
    BY <2>1
  <2> QED BY <2>5, <2>6, <2>7, <2>8, Carries
<1> QED BY <1>11, <1>12, <1>13

\* When the step ends, the output of every request that runs has been delivered.
LEMMA EndUpdateKV ==
    ASSUME IInv, KVInv, EndUpdate
    PROVE  KVInv'
<1>1. /\ kv' = kv /\ slots' = slots /\ step' = Quiet
      /\ step.phase = "update" /\ step.idx > Len(running)
      /\ req' = [r \in Requests |->
                    [req[r] EXCEPT !.drafts = IF Drafted(r) THEN NumSpec ELSE @]]
  BY DEF EndUpdate
<1>2. /\ step \in StepRecord /\ running \in Seq(Requests) /\ step.idx \in Nat
      /\ req \in [Requests -> RequestRecord]
  BY TablesRunning DEF IInv, Steps, Queues, StepRecord
<1>3. \A r \in Requests : req'[r].status = req[r].status /\ req'[r].computed = req[r].computed
  BY <1>1, <1>2 DEF RequestRecord
<1>4. ASSUME NEW r \in Requests, req'[r].status = "running"
      PROVE  Sure(r)' = Sure(r)
  <2>1. r \in Range(running)
    BY <1>3, <1>4 DEF IInv, Queues
  <2>2. PICK j \in DOMAIN running : running[j] = r
    BY <2>1 DEF Range
  <2>3. j < step.idx
    BY <1>1, <1>2, <2>2
  <2>4. ~Passed(r)
    BY <1>1, <2>2, <2>3 DEF Passed, Delivered
  <2>5. ~Passed(r)'
    BY <1>1, QuietIs DEF Passed
  <2> QED BY <1>3, <2>4, <2>5 DEF Sure
<1>5. \A b, o, k : ~Due(b, o, k)
  BY <1>1 DEF Due, Scheduling
<1>6. \A r \in Requests : req'[r].status = "running" =>
          req[r].status = "running" /\ kv'.table[r] = kv.table[r] /\ Sure(r)' = Sure(r)
  BY <1>1, <1>3, <1>4
<1> QED BY <1>1, <1>5, <1>6, Carries

\* What allocate_slots gives to request r of call c, when r joins the batch: the
\* blocks of the KV it has computed, in which nothing is overwritten.
Adopts(c, r) ==
    \A p \in 1 .. LocalComputed(c) :
        LET i == CDiv(p, BlockSize)
            b == AdoptedTable(kv, c)[i]
        IN  /\ i \in 1 .. Len(AdoptedTable(kv, c)) /\ b \in Blocks /\ slots'[b] = slots[b]
            /\ Holds(b, ((p - 1) % BlockSize) + 1, Prefix[r][p])

\* A request that joins the batch: the blocks that allocate_slots puts under a key
\* before the model has run hold what the request has computed, and the rest of
\* their tokens are its share of this very step.
LEMMA JoinsKV ==
    ASSUME IInv, KVInv, Scheduling, Scheduling',
           NEW c, NEW r \in Requests, c.req = r, CallOK(kv, c), Allocated(kv, c, kv'),
           slots' = Refreshed(kv.pool, kv'.pool, slots), r \notin Batch, r \in Batch',
           \A s \in Batch : s \in Batch' /\ step'.sched[s] = step.sched[s],
           step'.sched[r] = c.new, req'[r].computed = LocalComputed(c),
           \A s \in Requests \ {r} : req'[s] = req[s], Adopts(c, r)
    PROVE  KVInv'
<1> DEFINE T == AdoptedTable(kv, c)
           z == CachedBefore(kv, c)
           y == CachedAfter(kv, c)
<1>1. /\ Held(kv.pool, kv.table, kv.numCached) /\ kv.table \in [Requests -> Seq(Blocks)]
      /\ \A s \in Requests : req[s].computed \in Nat
  BY TablesRunning
<1>2. /\ ManagerOK(kv') /\ kv'.table = [kv.table EXCEPT ![r] = T \o Got(kv, c)]
      /\ z \in Nat /\ y \in Nat
      /\ y = z \/ y * BlockSize <= CacheableTokens(c)
      /\ Got(kv, c) \in Seq(Blocks)
      /\ \A b \in Blocks :
            \/ b \notin Range(Got(kv, c)) /\ kv'.pool.hash[b] = kv.pool.hash[b]
            \/ b \in Range(Got(kv, c)) /\ kv'.pool.hash[b] = NoKey
            \/ \E i \in z + 1 .. y :
                  /\ b = kv'.table[r][i] /\ kv'.pool.hash[b] = BlockKey(r, i)
                  /\ b \notin Range(Got(kv, c)) => kv.pool.hash[b] = NoKey
  BY DEF Allocated
<1>3. /\ LocalComputed(c) \in Nat /\ CacheableTokens(c) \in Nat /\ c.new \in Nat
      /\ CacheableTokens(c) <= LocalComputed(c) + c.new
      /\ CacheableTokens(c) <= c.numTokens /\ c.numTokens <= MaxModelLen /\ c.numTokens \in Nat
      /\ BlockSize \in Nat \ {0} /\ MaxModelLen \in Nat
  BY CallTokens, TokenFacts DEF CallOK
<1>4. T \in Seq(Blocks)
  <2>1. kv.table[r] \in Seq(Blocks) /\ c.hits \in Seq(Blocks)
    BY <1>1 DEF CallOK
  <2> QED BY <2>1 DEF AdoptedTable
<1> HIDE DEF T, z, y
<1>5. /\ \A s \in Requests \ {r} : kv'.table[s] = kv.table[s]
      /\ kv'.table[r] = T \o Got(kv, c)
      /\ \A i \in 1 .. Len(T) : kv'.table[r][i] = T[i]
  <2>1. /\ \A s \in Requests \ {r} : kv'.table[s] = kv.table[s]
        /\ kv'.table[r] = T \o Got(kv, c)
    BY <1>1, <1>2
  <2> QED BY <1>2, <1>4, <2>1
<1>6. \A b, o, k : Due(b, o, k) => Due(b, o, k)'
  <2>1. Batch \subseteq Requests
    BY SharesIs DEF IInv, Steps, StepRecord, Batch
  <2>2. \A s \in Batch : /\ s \in Batch' /\ step'.sched[s] = step.sched[s]
                         /\ kv'.table[s] = kv.table[s] /\ req'[s].computed = req[s].computed
    BY <1>5, <2>1
  <2> QED BY <2>2, DueKept
<1>7. ASSUME NEW b \in Blocks, slots'[b] = slots[b], NEW o, NEW k, Holds(b, o, k)
      PROVE  Holds(b, o, k)'
  <2>1. Due(b, o, k) => Due(b, o, k)'
    BY <1>6
  <2>2. slots[b][o] = k => slots'[b][o] = k
    BY <1>7
  <2> QED BY <1>7, <2>1, <2>2 DEF Holds
<1>8. \A s \in Requests : Sure(s) = req[s].computed /\ Sure(s)' = req'[s].computed
  BY DEF Sure, Passed, Scheduling
<1>9. ComputedHolds'
  <2> SUFFICES ASSUME NEW s \in Requests, req'[s].status = "running", NEW p \in 1 .. Sure(s)'
               PROVE  Holds(SlotOf(s, p)[1], SlotOf(s, p)[2], Prefix[s][p])'
    BY DEF ComputedHolds
  <2>1. CASE s = r
    <3>1. p \in 1 .. LocalComputed(c)
      BY <1>8, <2>1
    <3> DEFINE i == CDiv(p, BlockSize)
    <3>2. /\ i \in 1 .. Len(T) /\ T[i] \in Blocks /\ slots'[T[i]] = slots[T[i]]
          /\ Holds(T[i], ((p - 1) % BlockSize) + 1, Prefix[r][p])
      BY <3>1 DEF Adopts, T
    <3>3. PICK b \in Blocks : b = T[i]
      BY <3>2
    <3>4. Holds(b, ((p - 1) % BlockSize) + 1, Prefix[r][p])'
      BY <1>7, <3>2, <3>3
    <3>5. b = kv'.table[r][i]
      BY <1>5, <3>2, <3>3
    <3>6. SlotOf(r, p)' = << b, ((p - 1) % BlockSize) + 1 >>
      BY <3>5 DEF SlotOf
    <3> QED BY <2>1, <3>4, <3>6 DEF Holds, Due
  <2>2. CASE s # r
    <3>1. req[s].status = "running" /\ p \in 1 .. Sure(s) /\ kv'.table[s] = kv.table[s]
      BY <1>5, <1>8, <2>2
    <3>2. SlotOf(s, p)[1] \in Blocks /\ SlotOf(s, p)[1] \in Range(kv.table[s])
      BY <3>1, SureIs
    <3>3. PICK b, o : b \in Blocks /\ b = SlotOf(s, p)[1] /\ o = SlotOf(s, p)[2]
      BY <3>2
    <3>4. Holds(b, o, Prefix[s][p])
      BY <3>1, <3>3 DEF KVInv, ComputedHolds
    <3>5. kv.pool.ref[b] # 0
      BY <1>1, <3>2, <3>3, HeldFacts
    <3>6. slots'[b] = slots[b]
      BY <3>3, <3>5, Kept
    <3>7. Holds(b, o, Prefix[s][p])'
      BY <1>7, <3>3, <3>4, <3>6
    <3>8. SlotOf(s, p)' = SlotOf(s, p)
      BY <3>1 DEF SlotOf
    <3>9. b = SlotOf(s, p)[1]' /\ o = SlotOf(s, p)[2]'
      BY <3>3, <3>8
    <3> QED BY <3>7, <3>9 DEF Holds, Due
  <2> QED BY <2>1, <2>2
<1>10. ASSUME NEW j \in z + 1 .. y
       PROVE  Keyed(j) /\ j \in Nat \ {0} /\ j * BlockSize <= LocalComputed(c) + c.new
  <2>1. j \in Nat \ {0} /\ j <= y /\ y # z
    BY <1>2
  <2>2. j * BlockSize \in Nat /\ y * BlockSize \in Nat /\ j * BlockSize <= y * BlockSize
    BY ONLY <1>2, <1>3, <2>1, MulMono
  <2>3. y * BlockSize <= CacheableTokens(c)
    BY <1>2, <2>1
  <2> QED BY <1>3, <2>1, <2>2, <2>3 DEF Keyed
<1>11. CachedHolds'
  <2> SUFFICES ASSUME NEW b \in Blocks, NEW s \in Requests, NEW i, NEW o \in 1 .. BlockSize,
                      Keyed(i), kv'.pool.hash[b] = BlockKey(s, i)
               PROVE  Holds(b, o, Prefix[s][(i - 1) * BlockSize + o])'
    BY DEF CachedHolds
  <2>1. BlockKey(s, i) # NoKey
    BY KeyFacts
  <2>2. CASE kv'.pool.hash[b] = kv.pool.hash[b]
    <3>1. slots'[b] = slots[b]
      BY <2>1, <2>2, Kept
    <3>2. Holds(b, o, Prefix[s][(i - 1) * BlockSize + o])
      BY <2>2 DEF KVInv, CachedHolds
    <3> QED BY <1>7, <3>1, <3>2
  <2>3. ASSUME NEW j \in z + 1 .. y, b = kv'.table[r][j], kv'.pool.hash[b] = BlockKey(r, j)
        PROVE  Holds(b, o, Prefix[s][(i - 1) * BlockSize + o])'
    <3>1. Keyed(j) /\ j \in Nat \ {0} /\ j * BlockSize <= LocalComputed(c) + c.new
      BY <1>10
    <3>2. i = j /\ \A p \in 1 .. i * BlockSize : Prefix[s][p] = Prefix[r][p]
      BY <2>3, <3>1, SameKey
    <3> DEFINE p == (i - 1) * BlockSize + o
    <3>3. /\ p \in Nat \ {0} /\ CDiv(p, BlockSize) = i /\ ((p - 1) % BlockSize) + 1 = o
          /\ p <= i * BlockSize /\ i * BlockSize \in Nat
      BY <3>1, <3>2, PlaceOf
    <3> HIDE DEF p
    <3>4. Prefix[s][p] = Prefix[r][p] /\ p <= LocalComputed(c) + c.new
      BY <1>3, <3>1, <3>2, <3>3
    <3>5. SlotOf(r, p)' = << b, o >>
      BY <2>3, <3>2, <3>3 DEF SlotOf
    <3>6. CASE p <= LocalComputed(c)
      <4>1. p \in 1 .. LocalComputed(c)
        BY <1>3, <3>3, <3>6
      <4>2. /\ i \in 1 .. Len(T) /\ T[i] \in Blocks /\ slots'[T[i]] = slots[T[i]]
            /\ Holds(T[i], o, Prefix[r][p])
        BY <3>3, <4>1 DEF Adopts, T
      <4>3. T[i] = b
        BY <1>5, <2>3, <3>2, <4>2
      <4>4. Holds(b, o, Prefix[r][p])'
        BY <1>7, <4>2, <4>3
      <4> QED BY <3>4, <4>4 DEF p
    <3>7. CASE ~(p <= LocalComputed(c))
      <4>1. p \in Fed(r)'
        BY <1>3, <3>3, <3>4, <3>7 DEF Fed
      <4>2. Due(b, o, Prefix[s][p])'
        BY <3>4, <3>5, <4>1 DEF Due
      <4> QED BY <4>2 DEF Holds, p
    <3> QED BY <3>6, <3>7
  <2> QED BY <1>2, <2>1, <2>2, <2>3
<1>12. KeysKnown'
  <2> SUFFICES ASSUME NEW b \in Blocks, kv'.pool.hash[b] # NoKey
               PROVE  \E s \in Requests : \E i : Keyed(i) /\ kv'.pool.hash[b] = BlockKey(s, i)
    BY DEF KeysKnown
  <2>1. CASE kv'.pool.hash[b] = kv.pool.hash[b]
    BY <2>1 DEF KVInv, KeysKnown
  <2>2. CASE kv'.pool.hash[b] # kv.pool.hash[b]
    BY <1>2, <1>10, <2>2
  <2> QED BY <2>1, <2>2
<1> QED BY <1>9, <1>11, <1>12 DEF KVInv

\* A running request is given tokens.
LEMMA ScheduleRunningKV ==
    ASSUME IInv, KVInv, ScheduleRunning
    PROVE  KVInv'
<1>1. AtRunning
  BY DEF ScheduleRunning
<1>2. PICK r \in Requests : r = Current
  BY <1>1, CurrentIs
<1> DEFINE n == NumNewTokens(r)
           c == RunningCall(r)
           d == Greater(n + req[r].computed - req[r].ntok, 0)
<1>3. /\ step.phase = "running" /\ ~Deferred(r) /\ n > 0
      /\ CanAllocateSlots(kv, c) /\ Allocate(c)
      /\ step' = IF ~AllocationSucceeds(kv, c)
                 THEN [step EXCEPT !.phase = "crashed"]
                 ELSE [Spent(n) EXCEPT !.idx = @ + 1, !.sched = Given(@, r, n),
                                       !.specs = Given(@, r, d), !.ran = @ \cup {r},
                                       !.prefill = @ \/ req[r].chunk]
      /\ req' = [req EXCEPT ![r].drafts = 0]
  BY <1>1, <1>2 DEF ScheduleRunning, AtRunning
<1>4. req[r].status = "running" /\ r \notin Batch
  BY <1>1, <1>2, CurrentIs
<1>5. n \in Nat \ {0}
  BY <1>1, <1>2, <1>3, NumNewTokensIs
<1>6. /\ req[r].computed \in Nat /\ req[r].ntok \in Nat /\ req[r].ntok <= MaxModelLen
      /\ req \in [Requests -> RequestRecord] /\ kv.table[r] \in Seq(Blocks)
      /\ Held(kv.pool, kv.table, kv.numCached)
      /\ MaxModelLen \in Nat /\ Lookahead \in Nat
  BY TablesRunning, TokenFacts, ConfigFacts
<1>7. /\ c.req = r /\ c.numTokens = req[r].ntok /\ c.computed = req[r].computed /\ c.new = n
      /\ c.hits = << >> /\ c.external = 0 /\ c.lookahead = Lookahead
      /\ c.delay = FALSE /\ c.reserved = 0
  BY DEF RunningCall
<1> HIDE DEF n, c, d
<1>8. CallOK(kv, c)
  BY <1>5, <1>6, <1>7 DEF CallOK
<1>9. /\ AllocationSucceeds(kv, c) /\ slots' = Refreshed(kv.pool, kv'.pool, slots)
      /\ Allocated(kv, c, kv')
  BY <1>3, <1>8, GrownIs DEF IInv
<1>10. AdoptedTable(kv, c) = kv.table[r] /\ LocalComputed(c) = req[r].computed
  <2>1. AdoptedTable(kv, c) = kv.table[r]
    BY <1>6, <1>7 DEF AdoptedTable
  <2>2. LocalComputed(c) = req[r].computed
    BY <1>6, <1>7, TokenFacts DEF LocalComputed
  <2> QED BY <2>1, <2>2
<1>11. step \in StepRecord
  BY DEF IInv, Steps
<1>12. step'.phase = "running" /\ step'.sched = Given(step.sched, r, n)
  BY <1>3, <1>9, <1>11 DEF StepRecord, Spent
<1>13. /\ Batch' = Batch \cup {r} /\ step'.sched[r] = n
       /\ \A s \in Batch : step'.sched[s] = step.sched[s]
  <2>1. step.sched \in Shares
    BY <1>11 DEF StepRecord
  <2>2. /\ DOMAIN Given(step.sched, r, n) = DOMAIN step.sched \cup {r}
        /\ Given(step.sched, r, n)[r] = n
        /\ \A s \in DOMAIN step.sched : s # r => Given(step.sched, r, n)[s] = step.sched[s]
    BY ONLY <1>5, <2>1, GivenIs
  <2> QED BY ONLY <1>4, <1>12, <2>2 DEF Batch
<1>14. Scheduling /\ Scheduling'
  BY <1>3, <1>12 DEF Scheduling
<1>15. /\ req'[r].computed = req[r].computed
       /\ \A s \in Requests \ {r} : req'[s] = req[s]
  BY <1>3, <1>6 DEF RequestRecord
<1>16. Adopts(c, r)
  <2> SUFFICES ASSUME NEW p \in 1 .. req[r].computed
               PROVE  LET i == CDiv(p, BlockSize)
                          b == kv.table[r][i]
                      IN  /\ i \in 1 .. Len(kv.table[r]) /\ b \in Blocks /\ slots'[b] = slots[b]
                          /\ Holds(b, ((p - 1) % BlockSize) + 1, Prefix[r][p])
    BY <1>10 DEF Adopts
  <2> DEFINE i == CDiv(p, BlockSize)
             b == kv.table[r][i]
  <2>1. ~Passed(r)
    BY <1>14 DEF Passed, Scheduling
  <2>2. p \in 1 .. Sure(r)
    BY <1>4, <2>1, SureIs
  <2>3. /\ i \in 1 .. Len(kv.table[r]) /\ b \in Blocks /\ b \in Range(kv.table[r])
        /\ SlotOf(r, p)[1] = b /\ SlotOf(r, p)[2] = ((p - 1) % BlockSize) + 1
    BY <1>4, <2>2, SureIs
  <2> HIDE DEF i, b
  <2>4. slots'[b] = slots[b]
    <3>1. kv.pool.ref[b] # 0
      BY <1>6, <2>3, HeldFacts
    <3> QED BY <1>9, <2>3, <3>1, Kept
  <2>5. Holds(b, ((p - 1) % BlockSize) + 1, Prefix[r][p])
    BY <1>4, <2>2, <2>3 DEF KVInv, ComputedHolds
  <2> QED BY <2>3, <2>4, <2>5 DEF i, b
<1> QED BY <1>7, <1>8, <1>9, <1>4, <1>10, <1>13, <1>14, <1>15, <1>16, JoinsKV

\* A request that is admitted finds in its hits what their keys stand for.
LEMMA AdmitKV ==
    ASSUME IInv, Padding, KVInv, Admit
    PROVE  KVInv'
<1>1. waiting # << >> /\ waiting \in Seq(Requests) /\ Unique(waiting)
  BY DEF Admit, AtWaiting, RoomToAdmit, IInv, Queues
<1>2. PICK r \in Requests : r = Head(waiting)
  BY <1>1, EndsAre
<1> DEFINE n == FirstTokens(r)
           c == WaitingCall(r)
           d == IF Padded(r) THEN NumSpec ELSE 0
<1>3. /\ step.phase = "waiting" /\ BudgetLeft
      /\ Padded(r) => PaddingFits(r)
      /\ CanAllocateSlots(kv, c) /\ Allocate(c)
      /\ req' = [req EXCEPT ![r].status = "running", ![r].computed = HitTokens(r)]
      /\ step' = IF ~AllocationSucceeds(kv, c)
                 THEN [step EXCEPT !.phase = "crashed"]
                 ELSE [Spent(n) EXCEPT !.sched = Given(@, r, n), !.specs = Given(@, r, d)]
  BY <1>2 DEF Admit, AtWaiting, RoomToAdmit, Considered
<1>4. Scheduling
  BY <1>3 DEF Scheduling
<1>5. req[r].status # "running" /\ r \notin Batch
  <2>1. r \in Range(waiting)
    BY <1>1, <1>2, EndsAre
  <2>2. req[r].status \in {"waiting", "preempted"}
    BY <2>1 DEF IInv, Queues
  <2>3. r \notin Range(running)
    BY <1>3, <2>2, RunningIs
  <2>4. Batch \subseteq Range(running)
    BY <1>4 DEF IInv, Steps, Budgets
  <2> QED BY <2>2, <2>3, <2>4
<1>6. /\ req[r].ntok \in Nat /\ req[r].ntok <= MaxModelLen /\ kv.table[r] = << >>
      /\ req \in [Requests -> RequestRecord]
      /\ MaxModelLen \in Nat /\ Lookahead \in Nat /\ BlockSize \in Nat \ {0}
  BY <1>5, TablesRunning, TokenFacts, ConfigFacts
<1>7. /\ HitsOf(r) \in Seq(Blocks) /\ HitTokens(r) = Len(HitsOf(r)) * BlockSize
      /\ HitTokens(r) \in Nat
      /\ \A i \in 1 .. Len(HitsOf(r)) :
            Keyed(i) /\ kv.pool.hash[HitsOf(r)[i]] = BlockKey(r, i)
  BY HitsAre DEF HitTokens
<1>8. n \in Nat \ {0}
  BY <1>3, FirstTokensIs
<1>9. /\ c.req = r /\ c.numTokens = req[r].ntok /\ c.computed = 0 /\ c.new = n
      /\ c.hits = HitsOf(r) /\ c.external = 0 /\ c.lookahead = Lookahead
      /\ c.delay = FALSE /\ c.reserved = 0
  BY DEF WaitingCall
<1> HIDE DEF n, c, d
<1>10. CallOK(kv, c)
  BY <1>6, <1>7, <1>8, <1>9 DEF CallOK
<1>11. /\ AllocationSucceeds(kv, c) /\ slots' = Refreshed(kv.pool, kv'.pool, slots)
       /\ Allocated(kv, c, kv')
  BY <1>3, <1>10, GrownIs DEF IInv
<1>12. AdoptedTable(kv, c) = HitsOf(r) /\ LocalComputed(c) = HitTokens(r)
  <2>1. AdoptedTable(kv, c) = HitsOf(r)
    BY <1>6, <1>7, <1>9 DEF AdoptedTable
  <2>2. LocalComputed(c) = HitTokens(r)
    BY <1>7, <1>9 DEF LocalComputed
  <2> QED BY <2>1, <2>2
<1>13. step \in StepRecord
  BY DEF IInv, Steps
<1>14. step'.phase = "waiting" /\ step'.sched = Given(step.sched, r, n)
  BY <1>3, <1>11, <1>13 DEF StepRecord, Spent
<1>15. /\ Batch' = Batch \cup {r} /\ step'.sched[r] = n
       /\ \A s \in Batch : step'.sched[s] = step.sched[s]
  <2>1. step.sched \in Shares
    BY <1>13 DEF StepRecord
  <2>2. /\ DOMAIN Given(step.sched, r, n) = DOMAIN step.sched \cup {r}
        /\ Given(step.sched, r, n)[r] = n
        /\ \A s \in DOMAIN step.sched : s # r => Given(step.sched, r, n)[s] = step.sched[s]
    BY ONLY <1>8, <2>1, GivenIs
  <2> QED BY ONLY <1>5, <1>14, <2>2 DEF Batch
<1>16. Scheduling'
  BY <1>14 DEF Scheduling
<1>17. /\ req'[r].computed = HitTokens(r)
       /\ \A s \in Requests \ {r} : req'[s] = req[s]
  BY <1>3, <1>6 DEF RequestRecord
<1>18. Adopts(c, r)
  <2> SUFFICES ASSUME NEW p \in 1 .. HitTokens(r)
               PROVE  LET i == CDiv(p, BlockSize)
                          b == HitsOf(r)[i]
                      IN  /\ i \in 1 .. Len(HitsOf(r)) /\ b \in Blocks /\ slots'[b] = slots[b]
                          /\ Holds(b, ((p - 1) % BlockSize) + 1, Prefix[r][p])
    BY <1>12 DEF Adopts
  <2> DEFINE i == CDiv(p, BlockSize)
             b == HitsOf(r)[i]
             o == ((p - 1) % BlockSize) + 1
  <2>1. p \in Nat \ {0} /\ p <= HitTokens(r) /\ Len(HitsOf(r)) \in Nat
    BY <1>7
  <2>2. i \in Nat \ {0} /\ i <= Len(HitsOf(r)) /\ o \in 1 .. BlockSize
    BY <1>7, <2>1, PlaceIs
  <2>3. (i - 1) * BlockSize + o = p
    BY ONLY <2>1, PlaceAt
  <2> HIDE DEF i, o
  <2>4. /\ i \in 1 .. Len(HitsOf(r)) /\ b \in Blocks
        /\ Keyed(i) /\ kv.pool.hash[b] = BlockKey(r, i)
    BY <1>7, <2>1, <2>2
  <2> HIDE DEF b
  <2>5. Holds(b, o, Prefix[r][p])
    BY <2>2, <2>3, <2>4 DEF KVInv, CachedHolds
  <2>6. slots'[b] = slots[b]
    <3>1. BlockKey(r, i) # NoKey
      BY <2>4, KeyFacts
    <3>2. b \in Range(HitsOf(r))
      BY <1>7, <2>4 DEF b, Range
    <3>3. b \notin Range(Got(kv, c))
      BY <1>9, <1>11, <3>2 DEF Allocated
    <3>4. kv'.pool.hash[b] = kv.pool.hash[b]
      BY <1>9, <1>11, <2>4, <3>1, <3>3 DEF Allocated
    <3> QED BY <1>11, <2>4, <3>1, <3>4, Kept
  <2> QED BY <2>4, <2>5, <2>6 DEF i, o, b
<1> QED BY <1>4, <1>5, <1>9, <1>10, <1>11, <1>12, <1>15, <1>16, <1>17, <1>18, JoinsKV

\* The prefixes of a request reach to the maximal length.
LEMMA PrefixIs ==
    ASSUME NEW r \in Requests
    PROVE  DOMAIN Prefix[r] = 1 .. MaxModelLen
<1>1. Prefix[r] \in Seq(Keys) /\ Len(Prefix[r]) = MaxModelLen
  BY KVCacheManagerAssumption, SchedulerAssumption
<1> QED BY <1>1

\* A block that two requests share is under a key.
LEMMA SharedKeyed ==
    ASSUME NEW p, NEW T, NEW n, Held(p, T, n), NEW r \in Requests, NEW s \in Requests, r # s,
           NEW i \in 1 .. Len(T[r]), NEW j \in 1 .. Len(T[s]), T[r][i] = T[s][j]
    PROVE  i <= n[r]
<1>1. \A x \in Requests : \A y \in 1 .. Len(T[x]) :
         y > n[x] => p.hash[T[x][y]] = NoKey /\ Holders(T, T[x][y]) = {x}
  <2>1. Held(p, T, n)
    OBVIOUS
  <2> QED BY ONLY <2>1, BlockUnkeyed
<1>2. T[s][j] \in Range(T[s]) /\ n[r] \in Nat /\ Len(T[r]) \in Nat
  BY HeldFacts
<1>3. Holders(T, T[r][i]) # {r}
  BY <1>2 DEF Holders
<1>4. ~(i > n[r])
  BY ONLY <1>1, <1>3, r \in Requests, i \in 1 .. Len(T[r])
<1>5. i \in Int
  OBVIOUS
<1> QED BY ONLY <1>2, <1>4, <1>5

\* A member of the batch.
LEMMA MemberIs ==
    ASSUME IInv, Scheduling, NEW s \in Batch
    PROVE  /\ s \in Requests /\ req[s].status = "running" /\ s \in Range(running)
           /\ step.sched[s] \in Nat /\ step.specs[s] \in Nat
           /\ Batched(kv.numCached[s], Len(kv.table[s]), req[s], step.sched[s], step.specs[s])
<1>1. step \in StepRecord /\ Budgets /\ DOMAIN step.specs = Batch
  BY DEF IInv, Steps
<1>2. s \in Range(running) /\ s \in Requests /\ step.sched[s] \in Nat /\ step.specs[s] \in Nat
  <2>1. step.sched \in Shares /\ step.specs \in Shares
    BY <1>1 DEF StepRecord
  <2>2. s \in Requests /\ step.sched[s] \in Nat
    BY <2>1, SharesIs DEF Batch
  <2>3. step.specs[s] \in Nat
    BY <1>1, <2>1, SharesIs
  <2> QED BY <1>1, <2>2, <2>3 DEF Budgets
<1>3. req[s].status = "running"
  <2>1. step.phase # "update"
    BY DEF Scheduling
  <2> QED BY <1>2, <2>1, RunningIs
<1> QED BY <1>2, <1>3 DEF IInv, Progress, Advance

\* A pass writes to a block that is under a key what the key stands for, and only
\* final tokens: no draft gets into it.
LEMMA WritesKey ==
    ASSUME IInv, Scheduling, NEW s \in Batch, NEW q \in Fed(s), NEW b, NEW o,
           SlotOf(s, q) = << b, o >>, NEW r \in Requests, NEW i, Keyed(i),
           kv.pool.hash[b] = BlockKey(r, i)
    PROVE  /\ q = (i - 1) * BlockSize + o /\ q <= req[s].ntok
           /\ Prefix[s][q] = Prefix[r][q]
<1> DEFINE j == CDiv(q, BlockSize)
<1>1. /\ s \in Requests /\ q \in Nat \ {0} /\ j \in 1 .. Len(kv.table[s])
      /\ SlotOf(s, q)[1] = kv.table[s][j]
  BY FedIs
<1>2. b = kv.table[s][j] /\ o = ((q - 1) % BlockSize) + 1
  BY <1>1 DEF SlotOf
<1>3. Held(kv.pool, kv.table, kv.numCached) /\ req[s].ntok \in Nat
  BY <1>1, TablesRunning
<1>4. i \in 1 .. MaxModelLen \div BlockSize
  BY KeyedIs
<1> HIDE DEF j
<1>5. j = i /\ j <= kv.numCached[s]
  BY <1>1, <1>2, <1>3, <1>4, BlockIndex
<1>6. kv.pool.hash[b] = BlockKey(s, i)
  BY <1>1, <1>2, <1>3, <1>5, BlockKeyed
<1>7. \A p \in 1 .. i * BlockSize : Prefix[r][p] = Prefix[s][p]
  <2>1. BlockKey(r, i) = BlockKey(s, i) /\ s \in Requests
    BY <1>1, <1>6
  <2> QED BY ONLY <2>1, r \in Requests, Keyed(i), SameKey
<1>8. q = (i - 1) * BlockSize + o /\ q <= i * BlockSize
  <2>1. (j - 1) * BlockSize + (((q - 1) % BlockSize) + 1) = q
    BY ONLY <1>1, PlaceAt DEF j
  <2>2. q <= j * BlockSize
    BY ONLY <1>1, PlaceIs DEF j
  <2> QED BY <1>2, <1>5, <2>1, <2>2
<1>9. kv.numCached[s] * BlockSize <= req[s].ntok
  BY MemberIs DEF Batched
<1>10. /\ i * BlockSize \in Nat /\ kv.numCached[s] * BlockSize \in Nat
       /\ i * BlockSize <= kv.numCached[s] * BlockSize
  <2>1. kv.numCached[s] \in Nat /\ i \in Nat /\ BlockSize \in Nat \ {0} /\ i <= kv.numCached[s]
    BY <1>1, <1>3, <1>5, HeldFacts, TokenFacts DEF Keyed
  <2> QED BY ONLY <2>1, MulMono
<1> QED BY <1>1, <1>3, <1>7, <1>8, <1>9, <1>10

\* With a tokens computed, of which the d beyond the n tokens of the request are
\* drafts, and x of these accepted, no more than n + x are left.
LEMMA SureLeft ==
    ASSUME NEW a \in Nat, NEW n \in Nat, NEW x \in Nat, NEW d, d = Greater(a - n, 0), x <= d,
           NEW u, u = a - (IF a < n THEN 0 ELSE d - x)
    PROVE  u \in Int /\ u <= a /\ u <= n + x
BY DEF Greater

\* The block of a position that a request has computed or is fed.
LEMMA Covered ==
    ASSUME IInv, Scheduling, NEW r \in Requests, req[r].status = "running", NEW p,
           p \in 1 .. req[r].computed \/ (r \in Batch /\ p \in Fed(r))
    PROVE  /\ p \in Nat \ {0} /\ p <= MaxModelLen
           /\ CDiv(p, BlockSize) \in 1 .. Len(kv.table[r])
           /\ kv.table[r][CDiv(p, BlockSize)] \in Blocks
           /\ ((p - 1) % BlockSize) + 1 \in 1 .. BlockSize
<1>1. Held(kv.pool, kv.table, kv.numCached)
  BY TablesRunning
<1>2. CASE p \in 1 .. req[r].computed
  <2>1. ~Passed(r)
    BY DEF Passed, Scheduling
  <2>2. p \in 1 .. Sure(r)
    BY <1>2, <2>1, SureIs
  <2>3. /\ p \in Nat \ {0} /\ p <= MaxModelLen
        /\ CDiv(p, BlockSize) \in 1 .. Len(kv.table[r])
    BY <2>2, SureIs
  <2>4. ((p - 1) % BlockSize) + 1 \in 1 .. BlockSize
    BY ONLY <2>3, PlaceIs
  <2> QED BY <1>1, <2>3, <2>4, HeldFacts
<1>3. CASE r \in Batch /\ p \in Fed(r)
  <2>1. /\ p \in Nat \ {0} /\ p <= MaxModelLen
        /\ CDiv(p, BlockSize) \in 1 .. Len(kv.table[r])
    BY <1>3, FedIs
  <2>2. ((p - 1) % BlockSize) + 1 \in 1 .. BlockSize
    BY ONLY <2>1, PlaceIs
  <2> QED BY <1>1, <2>1, <2>2, HeldFacts
<1> QED BY <1>2, <1>3

\* The forward pass puts all that was due where it was due: a slot that is written
\* is written for one request, or else for a prefix that the block is known by.
LEMMA DispatchKV ==
    ASSUME IInv, IInv', KVInv, Dispatch
    PROVE  KVInv'
<1>1. /\ kv' = kv /\ running' = running /\ step.phase = "dispatch"
      /\ step' = [step EXCEPT !.phase = IF ScheduleAsserts THEN "executed" ELSE "crashed"]
  BY DEF Dispatch, queues
<1>2. step \in StepRecord /\ step' \in StepRecord
  BY DEF IInv, Steps
<1>3. ScheduleAsserts
  BY <1>1, <1>2 DEF StepRecord
<1>4. /\ step'.phase = "executed" /\ step'.sched = step.sched /\ step'.specs = step.specs
      /\ Batch' = Batch /\ Scheduling /\ ~Scheduling'
  BY <1>1, <1>2, <1>3 DEF StepRecord, Batch, Scheduling
<1> DEFINE W == UNION {{<< r, p >> : p \in Fed(r)} : r \in Batch}
<1>5. PICK acc \in [Batch -> 0 .. NumSpec] :
         /\ \A r \in Batch : acc[r] <= Verified(r)
         /\ slots' = [b \in Blocks |-> [o \in 1 .. BlockSize |->
                LET here == {w \in W : SlotOf(w[1], w[2]) = << b, o >>}
                IN  IF here = {} THEN slots[b][o]
                    ELSE LET w == CHOOSE w \in here : TRUE
                         IN  Content(w[1], w[2], acc[w[1]])]]
         /\ req' = [r \in Requests |->
                IF r \notin Batch THEN req[r]
                ELSE [req[r] EXCEPT !.computed = req[r].computed + step.sched[r],
                                    !.chunk    = req[r].computed + step.sched[r] < req[r].ntok,
                                    !.accepted = acc[r]]]
  BY <1>3 DEF Dispatch, Batch
<1>6. ASSUME NEW b \in Blocks, NEW o \in 1 .. BlockSize
      PROVE  \/ /\ slots'[b][o] = slots[b][o]
                /\ \A s \in Batch : \A q \in Fed(s) : SlotOf(s, q) # << b, o >>
             \/ \E s \in Batch : \E q \in Fed(s) :
                   SlotOf(s, q) = << b, o >> /\ slots'[b][o] = Content(s, q, acc[s])
  <2> DEFINE H == {w \in W : SlotOf(w[1], w[2]) = << b, o >>}
             w == CHOOSE w \in H : TRUE
  <2>1. slots'[b][o] = IF H = {} THEN slots[b][o] ELSE Content(w[1], w[2], acc[w[1]])
    BY <1>5
  <2>2. CASE H = {}
    <3>1. ASSUME NEW s \in Batch, NEW q \in Fed(s), SlotOf(s, q) = << b, o >>
          PROVE  FALSE
      <4>1. << s, q >> \in W
        OBVIOUS
      <4>2. << s, q >> \in H
        BY <3>1, <4>1
      <4> QED BY <2>2, <4>2
    <3> QED BY <2>1, <2>2, <3>1
  <2>3. CASE H # {}
    <3>1. w \in W /\ SlotOf(w[1], w[2]) = << b, o >>
      BY <2>3
    <3> HIDE DEF w
    <3>2. PICK s \in Batch : \E q \in Fed(s) : w = << s, q >>
      BY <3>1
    <3>3. PICK q \in Fed(s) : w = << s, q >>
      BY <3>2
    <3>4. w[1] = s /\ w[2] = q
      BY ONLY <3>3
    <3>5. slots'[b][o] = Content(s, q, acc[s])
      BY <2>1, <2>3, <3>4
    <3> QED BY <3>1, <3>4, <3>5
  <2> QED BY <2>2, <2>3
<1> HIDE DEF W
<1>7. req \in [Requests -> RequestRecord] /\ NumSpec \in Nat
  BY TablesRunning, ConfigFacts
<1>8. ASSUME NEW r \in Batch
      PROVE  /\ r \in Requests /\ req[r].status = "running"
             /\ acc[r] \in Nat /\ acc[r] <= step.specs[r]
             /\ step.sched[r] \in Nat
             /\ req[r].computed \in Nat /\ req[r].ntok \in Nat
             /\ req[r].computed + step.sched[r] <= MaxModelLen
             /\ step.specs[r] = Greater(req[r].computed + step.sched[r] - req[r].ntok, 0)
             /\ req'[r].computed = req[r].computed + step.sched[r]
             /\ req'[r].chunk = (req[r].computed + step.sched[r] < req[r].ntok)
             /\ req'[r].accepted = acc[r] /\ req'[r].status = "running"
  <2>1. /\ r \in Requests /\ req[r].status = "running"
        /\ step.sched[r] \in Nat /\ step.specs[r] \in Nat
        /\ Batched(kv.numCached[r], Len(kv.table[r]), req[r], step.sched[r], step.specs[r])
    BY <1>4, MemberIs
  <2>2. req[r].computed \in Nat /\ req[r].ntok \in Nat
    BY <2>1, TablesRunning
  <2>3. acc[r] \in Nat /\ acc[r] <= step.specs[r]
    <3>1. acc[r] \in 0 .. NumSpec /\ acc[r] <= Verified(r)
      BY <1>5
    <3> QED BY <1>7, <2>1, <3>1 DEF Verified
  <2>4. req'[r] = [req[r] EXCEPT !.computed = req[r].computed + step.sched[r],
                                 !.chunk    = req[r].computed + step.sched[r] < req[r].ntok,
                                 !.accepted = acc[r]]
    BY <1>5, <2>1
  <2>5. req[r] \in RequestRecord
    BY <1>7, <2>1
  <2>6. /\ req'[r].computed = req[r].computed + step.sched[r]
        /\ req'[r].chunk = (req[r].computed + step.sched[r] < req[r].ntok)
        /\ req'[r].accepted = acc[r] /\ req'[r].status = req[r].status
    BY ONLY <2>4, <2>5 DEF RequestRecord
  <2> QED BY <2>1, <2>2, <2>3, <2>6 DEF Batched
<1>9. \A r \in Requests : r \notin Batch => req'[r] = req[r]
  BY <1>5
\* What a member of the batch wrote at a position that is sure is its own prefix.
<1>10. ASSUME NEW r \in Requests, req'[r].status = "running", NEW p \in 1 .. Sure(r)'
       PROVE  /\ req[r].status = "running"
              /\ p \in 1 .. req[r].computed \/ (r \in Batch /\ p \in Fed(r))
              /\ r \in Batch => p <= req[r].ntok + acc[r]
  <2>1. CASE r \in Batch
    <3>1. Passed(r)'
      BY <1>4, <2>1 DEF Passed, Delivered
    <3>2. Sure(r)' = req'[r].computed
                        - (IF req'[r].chunk THEN 0 ELSE step.specs[r] - req'[r].accepted)
      BY <1>4, <3>1 DEF Sure, Rejected
    <3> DEFINE a == req[r].computed + step.sched[r]
    <3>3. /\ req'[r].computed = a /\ req'[r].chunk = (a < req[r].ntok)
          /\ req'[r].accepted = acc[r]
          /\ step.specs[r] = Greater(a - req[r].ntok, 0)
          /\ acc[r] \in Nat /\ acc[r] <= step.specs[r]
          /\ req[r].ntok \in Nat /\ a \in Nat /\ req[r].status = "running"
          /\ req[r].computed \in Nat /\ step.sched[r] \in Nat
      BY <1>8, <2>1
    <3> HIDE DEF a
    <3>4. PICK u : u = Sure(r)'
      OBVIOUS
    <3>5. PICK e : e = step.specs[r]
      OBVIOUS
    <3>6. PICK n : n = req[r].ntok
      OBVIOUS
    <3>7. PICK x : x = acc[r]
      OBVIOUS
    <3>8. PICK h : h = a
      OBVIOUS
    <3>9. /\ h \in Nat /\ n \in Nat /\ x \in Nat /\ e = Greater(h - n, 0) /\ x <= e
          /\ u = h - (IF h < n THEN 0 ELSE e - x)
      BY ONLY <3>2, <3>3, <3>4, <3>5, <3>6, <3>7, <3>8
    <3>10. u \in Int /\ u <= h /\ u <= n + x
      BY ONLY <3>9, SureLeft
    <3>11. p \in 1 .. u
      BY <3>4
    <3>12. p \in 1 .. req[r].computed \/ p \in Fed(r)
      BY ONLY <3>3, <3>8, <3>10, <3>11 DEF a, Fed
    <3>13. p <= req[r].ntok + acc[r]
      <4>1. p <= n + x
        BY ONLY <3>9, <3>10, <3>11
      <4> QED BY ONLY <3>6, <3>7, <4>1
    <3> QED BY ONLY <2>1, <3>3, <3>12, <3>13
  <2>2. CASE r \notin Batch
    <3>1. ~Passed(r)'
      BY <1>4, <2>2 DEF Passed
    <3>2. req'[r] = req[r]
      BY <1>9, <2>2
    <3>3. Sure(r)' = req[r].computed
      BY ONLY <3>1, <3>2 DEF Sure
    <3> QED BY <1>10, <2>2, <3>2, <3>3
  <2> QED BY <2>1, <2>2
<1>11. ASSUME NEW s \in Batch, NEW q \in Fed(s), NEW b \in Blocks, NEW o,
              SlotOf(s, q) = << b, o >>, NEW r \in Requests, NEW i, Keyed(i),
              kv.pool.hash[b] = BlockKey(r, i)
       PROVE  /\ q = (i - 1) * BlockSize + o
              /\ Content(s, q, acc[s]) = Prefix[r][(i - 1) * BlockSize + o]
  <2>1. q = (i - 1) * BlockSize + o /\ q <= req[s].ntok /\ Prefix[s][q] = Prefix[r][q]
    BY <1>4, <1>11, WritesKey
  <2>2. q \in DOMAIN Prefix[s]
    <3>1. s \in Requests /\ q \in Nat \ {0} /\ q <= MaxModelLen
      BY <1>4, FedIs
    <3> QED BY <3>1, PrefixIs, TokenFacts
  <2>3. q <= req[s].ntok + acc[s]
    <3>1. q \in Nat
      BY <1>4, FedIs
    <3> QED BY <1>8, <2>1, <3>1
  <2> QED BY <2>1, <2>2, <2>3 DEF Content
<1>12. \A b, o, k : Holds(b, o, k)' <=> slots'[b][o] = k
  BY <1>4 DEF Holds, Due
<1>13. CachedHolds'
  <2> SUFFICES ASSUME NEW b \in Blocks, NEW r \in Requests, NEW i, NEW o \in 1 .. BlockSize,
                      Keyed(i), kv.pool.hash[b] = BlockKey(r, i)
               PROVE  slots'[b][o] = Prefix[r][(i - 1) * BlockSize + o]
    BY <1>1, <1>12 DEF CachedHolds
  <2> DEFINE k == Prefix[r][(i - 1) * BlockSize + o]
  <2>1. CASE /\ slots'[b][o] = slots[b][o]
             /\ \A s \in Batch : \A q \in Fed(s) : SlotOf(s, q) # << b, o >>
    <3>1. Holds(b, o, k)
      BY DEF KVInv, CachedHolds
    <3>2. ~Due(b, o, k)
      BY <2>1 DEF Due
    <3> QED BY <2>1, <3>1, <3>2 DEF Holds
  <2>2. ASSUME NEW s \in Batch, NEW q \in Fed(s), SlotOf(s, q) = << b, o >>,
               slots'[b][o] = Content(s, q, acc[s])
        PROVE  slots'[b][o] = k
    BY <1>11, <2>2
  <2> QED BY <1>6, <2>1, <2>2
<1>14. ComputedHolds'
  <2>0. \A r, p : SlotOf(r, p)' = SlotOf(r, p)
    BY <1>1 DEF SlotOf
  <2> SUFFICES ASSUME NEW r \in Requests, req'[r].status = "running", NEW p \in 1 .. Sure(r)'
               PROVE  slots'[SlotOf(r, p)[1]][SlotOf(r, p)[2]] = Prefix[r][p]
    BY <1>4, <2>0 DEF ComputedHolds, Holds, Due
  <2> DEFINE i == CDiv(p, BlockSize)
  <2>1. /\ req[r].status = "running"
        /\ p \in 1 .. req[r].computed \/ (r \in Batch /\ p \in Fed(r))
        /\ r \in Batch => p <= req[r].ntok + acc[r]
    BY <1>10
  <2>2. /\ p \in Nat \ {0} /\ p <= MaxModelLen /\ i \in 1 .. Len(kv.table[r])
        /\ kv.table[r][i] \in Blocks /\ ((p - 1) % BlockSize) + 1 \in 1 .. BlockSize
    BY <1>4, <2>1, Covered
  <2>3. PICK b \in Blocks, o \in 1 .. BlockSize :
           b = kv.table[r][i] /\ o = ((p - 1) % BlockSize) + 1
    BY <2>2
  <2>4. SlotOf(r, p) = << b, o >>
    BY <2>3 DEF SlotOf
  <2>5. (i - 1) * BlockSize + o = p
    <3>1. (CDiv(p, BlockSize) - 1) * BlockSize + (((p - 1) % BlockSize) + 1) = p
      BY ONLY <2>2, PlaceAt
    <3> QED BY ONLY <2>3, <3>1 DEF i
  <2>6. Held(kv.pool, kv.table, kv.numCached)
    BY TablesRunning
  <2> HIDE DEF i
  <2>7. CASE /\ slots'[b][o] = slots[b][o]
             /\ \A s \in Batch : \A q \in Fed(s) : SlotOf(s, q) # << b, o >>
    <3>1. p \in 1 .. req[r].computed /\ ~Passed(r)
      BY <1>4, <2>1, <2>4, <2>7 DEF Passed, Scheduling
    <3>2. p \in 1 .. Sure(r)
      BY <2>1, <3>1, SureIs
    <3>3. Holds(b, o, Prefix[r][p])
      BY <2>1, <2>4, <3>2 DEF KVInv, ComputedHolds
    <3>4. ~Due(b, o, Prefix[r][p])
      BY <2>7 DEF Due
    <3> QED BY <2>4, <2>7, <3>3, <3>4 DEF Holds
  <2>8. ASSUME NEW s \in Batch, NEW q \in Fed(s), SlotOf(s, q) = << b, o >>,
               slots'[b][o] = Content(s, q, acc[s])
        PROVE  slots'[b][o] = Prefix[r][p]
    <3> DEFINE j == CDiv(q, BlockSize)
    <3>1. /\ s \in Requests /\ q \in Nat \ {0} /\ j \in 1 .. Len(kv.table[s])
          /\ SlotOf(s, q)[1] = kv.table[s][j]
      BY <1>4, FedIs
    <3>2. b = kv.table[s][j] /\ o = ((q - 1) % BlockSize) + 1
      BY <2>8, <3>1 DEF SlotOf
    <3>3. (j - 1) * BlockSize + o = q
      <4>1. (CDiv(q, BlockSize) - 1) * BlockSize + (((q - 1) % BlockSize) + 1) = q
        BY ONLY <3>1, PlaceAt
      <4> QED BY ONLY <3>2, <4>1 DEF j
    <3> HIDE DEF j
    <3>4. CASE s = r
      <4>1. i = j
        <5>1. Unique(kv.table[r]) /\ DOMAIN kv.table[r] = 1 .. Len(kv.table[r])
          BY <2>6, HeldFacts
        <5> QED BY <2>2, <2>3, <3>1, <3>2, <3>4, <5>1 DEF Unique
      <4>2. q = p
        BY <2>5, <3>3, <4>1
      <4>3. p \in DOMAIN Prefix[r] /\ p <= req[r].ntok + acc[r]
        <5>1. p \in DOMAIN Prefix[r]
          BY <2>2, PrefixIs, TokenFacts
        <5> QED BY <2>1, <3>4, <5>1
      <4> QED BY <2>8, <3>4, <4>2, <4>3 DEF Content
    <3>5. CASE s # r
      <4>1. i <= kv.numCached[r]
        BY <2>2, <2>3, <2>6, <3>1, <3>2, <3>5, SharedKeyed
      <4>2. kv.pool.hash[b] = BlockKey(r, i) /\ Keyed(i)
        BY <2>2, <2>3, <2>6, <4>1, BlockKeyed
      <4>3. Content(s, q, acc[s]) = Prefix[r][(i - 1) * BlockSize + o]
        BY <1>11, <2>8, <4>2
      <4> QED BY <2>5, <2>8, <4>3
    <3> QED BY <3>4, <3>5
  <2> QED BY <1>6, <2>4, <2>7, <2>8
<1>15. KeysKnown'
  BY <1>1 DEF KVInv, KeysKnown
<1> QED BY <1>13, <1>14, <1>15 DEF KVInv

\* The pool starts empty, and nothing is computed.
LEMMA InitKV == Init => KVInv
<1> SUFFICES ASSUME Init PROVE KVInv
  OBVIOUS
<1>1. \A b \in Blocks : kv.pool.hash[b] = NoKey
  BY DEF Init, ManagerInit, PoolInit
<1>2. \A r \in Requests : req[r].status # "running"
  BY DEF Init
<1>3. ASSUME NEW r \in Requests, NEW i, Keyed(i)
      PROVE  BlockKey(r, i) # NoKey
  BY <1>3, KeyFacts
<1> QED BY <1>1, <1>2, <1>3 DEF KVInv, CachedHolds, ComputedHolds, KeysKnown

\* Every step keeps what the slots hold.
LEMMA KVStep ==
    ASSUME IInv, IInv', Padding, Policy = "fcfs", KVInv, [Next]_vars
    PROVE  KVInv'
<1>1. CASE \/ UNCHANGED vars \/ IdleStep \/ BeginReset \/ BeginStep \/ SkipRunning
           \/ EndRunning \/ EndWaiting \/ Refuse \/ BeginUpdate
           \/ \E r \in Requests : AddRequest(r)
  BY <1>1, QuietKV
<1>2. CASE EndReset \/ TryReset
  BY <1>2, ResetKV
<1>3. ASSUME NEW r \in Requests, Abort(r) PROVE KVInv'
  BY <1>3, AbortKV
<1>4. CASE ResetPreempt
  BY <1>4, ResetPreemptKV
<1>5. CASE ScheduleRunning
  BY <1>5, ScheduleRunningKV
<1>6. CASE PreemptRunning
  BY <1>6, PreemptRunningKV
<1>7. CASE Admit
  BY <1>7, AdmitKV
<1>8. CASE Dispatch
  BY <1>8, DispatchKV
<1>9. CASE UpdateRequest
  BY <1>9, UpdateRequestKV
<1>10. CASE EndUpdate
  BY <1>10, EndUpdateKV
<1> QED BY <1>1, <1>2, <1>3, <1>4, <1>5, <1>6, <1>7, <1>8, <1>9, <1>10 DEF Next, EngineStep

\* Between steps nothing is due any more.
LEMMA CachedWritten ==
    ASSUME IInv, KVInv
    PROVE  CachedKVWritten
<1> SUFFICES ASSUME Between, NEW b \in Blocks, NEW k \in KeysOf(kv.pool, b)
             PROVE  HoldsPrefix(b, k)
  BY DEF CachedKVWritten
<1>1. kv.pool.hash[b] = k /\ k # NoKey
  <2>1. kv.pool.more[b] = {}
    BY TablesRunning DEF Held, Labelled
  <2> QED BY <2>1 DEF KeysOf
<1>2. PICK r \in Requests : \E i : Keyed(i) /\ kv.pool.hash[b] = BlockKey(r, i)
  BY <1>1 DEF KVInv, KeysKnown
<1>3. PICK i : Keyed(i) /\ kv.pool.hash[b] = BlockKey(r, i)
  BY <1>2
<1>4. i \in 1 .. MaxModelLen \div BlockSize
  BY <1>3, KeyedIs
<1>5. \A o \in 1 .. BlockSize : Holds(b, o, Prefix[r][(i - 1) * BlockSize + o])
  BY <1>3 DEF KVInv, CachedHolds
<1>6. \A o \in 1 .. BlockSize : slots[b][o] = Prefix[r][(i - 1) * BlockSize + o]
  BY <1>5 DEF Holds, Due, Scheduling, Between
<1> QED BY <1>1, <1>3, <1>4, <1>6 DEF HoldsPrefix

\* Once the model has run, what is sure has been written.
LEMMA ComputedWritten ==
    ASSUME IInv, KVInv
    PROVE  ComputedKVWritten
<1> SUFFICES ASSUME step.phase \in {"idle", "executed"}, NEW r \in Range(running),
                    NEW p \in 1 .. req[r].computed - Unconfirmed(r)
             PROVE  slots[SlotOf(r, p)[1]][SlotOf(r, p)[2]] = Prefix[r][p]
  BY DEF ComputedKVWritten
<1>1. r \in Requests /\ req[r].status = "running"
  BY RunningIs
<1>2. Sure(r) = req[r].computed - Unconfirmed(r)
  <2>1. Passed(r) <=> step.phase = "executed" /\ r \in DOMAIN step.sched
    BY DEF Passed, Delivered, Batch
  <2>2. req[r].computed \in Nat
    BY <1>1, TablesRunning
  <2> QED BY <2>1, <2>2 DEF Sure, Unconfirmed
<1>3. Holds(SlotOf(r, p)[1], SlotOf(r, p)[2], Prefix[r][p])
  BY <1>1, <1>2 DEF KVInv, ComputedHolds
<1> QED BY <1>3 DEF Holds, Due, Scheduling

\* Under FCFS a hit leads to KV that a forward pass has written for that very prefix,
\* although allocate_slots caches a block before the model has run.
THEOREM CacheIsWritten == Padding /\ Policy = "fcfs" => (Spec => []CachedKVWritten)
<1>1. IInv /\ IInv' /\ Padding /\ Policy = "fcfs" /\ KVInv /\ [Next]_vars => KVInv'
  BY KVStep
<1>2. IInv /\ KVInv => CachedKVWritten
  BY CachedWritten
<1>3. Padding => []Padding
  OBVIOUS
<1>4. Policy = "fcfs" => [](Policy = "fcfs")
  OBVIOUS
<1> QED BY <1>1, <1>2, <1>3, <1>4, InitKV, Invariant, PTL DEF Spec

\* Under FCFS the tokens that num_computed_tokens counts, less the drafts still to be
\* rejected, are in the request's own blocks whenever a step ends or has executed.
THEOREM ComputedIsWritten == Padding /\ Policy = "fcfs" => (Spec => []ComputedKVWritten)
<1>1. IInv /\ IInv' /\ Padding /\ Policy = "fcfs" /\ KVInv /\ [Next]_vars => KVInv'
  BY KVStep
<1>2. IInv /\ KVInv => ComputedKVWritten
  BY ComputedWritten
<1>3. Padding => []Padding
  OBVIOUS
<1>4. Policy = "fcfs" => [](Policy = "fcfs")
  OBVIOUS
<1> QED BY <1>1, <1>2, <1>3, <1>4, InitKV, Invariant, PTL DEF Spec
================================================================================
