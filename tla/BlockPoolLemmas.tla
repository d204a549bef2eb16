---------------------------- MODULE BlockPoolLemmas ----------------------------
(***************************************************************************)
(* Lemmas about the operators of BlockPool, for every pool: what the       *)
(* methods of block_pool.py return, preserve and need.  The theorems about *)
(* the modules that use a pool cite them.                                  *)
(***************************************************************************)
EXTENDS BlockPool, FiniteSetTheorems, SequenceTheorems, TLAPS

----------------------------------------------------------------------------
(* Sequences.                                                              *)

Rank(I, i) == Cardinality({j \in I : j <= i})

\* The n-th element of a finite set of numbers exists, and is the only one of
\* its rank.
LEMMA RankBijective ==
    ASSUME NEW n \in Nat, NEW I \in SUBSET (1 .. n)
    PROVE  /\ IsFiniteSet(I)
           /\ Cardinality(I) \in Nat
           /\ \A i \in I : Rank(I, i) \in 1 .. Cardinality(I)
           /\ \A i, j \in I : Rank(I, i) = Rank(I, j) => i = j
           /\ \A i, j \in I : i < j => Rank(I, i) < Rank(I, j)
           /\ \A k \in 1 .. Cardinality(I) : \E i \in I : Rank(I, i) = k
<1> DEFINE Low(i) == {j \in I : j <= i}
           c == Cardinality(I)
<1>1. IsFiniteSet(I) /\ c \in Nat
  <2>1. IsFiniteSet(1 .. n)
    BY FS_Interval
  <2>2. IsFiniteSet(I)
    BY <2>1, FS_Subset
  <2> QED BY <2>2, FS_CardinalityType
<1>2. ASSUME NEW i \in I
      PROVE  IsFiniteSet(Low(i)) /\ Rank(I, i) \in 1 .. c
  <2>1. Low(i) \in SUBSET I
    OBVIOUS
  <2>2. IsFiniteSet(Low(i)) /\ Cardinality(Low(i)) <= c
    BY <1>1, <2>1, FS_Subset
  <2>3. Cardinality(Low(i)) \in Nat /\ Cardinality(Low(i)) # 0
    <3>1. i \in Low(i)
      OBVIOUS
    <3> QED BY <2>2, <3>1, FS_CardinalityType, FS_EmptySet
  <2> QED BY <1>1, <2>2, <2>3 DEF Rank
<1>3. ASSUME NEW i \in I, NEW j \in I, i < j
      PROVE  Rank(I, i) < Rank(I, j)
  <2>1. Low(i) \in SUBSET Low(j) /\ j \in Low(j) /\ j \notin Low(i)
    <3>1. \A k \in I : k <= i => k <= j
      BY <1>3
    <3>2. j <= j /\ ~(j <= i)
      BY <1>3
    <3> QED BY <3>1, <3>2
  <2>2. IsFiniteSet(Low(j))
    BY <1>2
  <2>3. /\ Cardinality(Low(i)) <= Cardinality(Low(j))
        /\ Cardinality(Low(j)) = Cardinality(Low(i)) => Low(j) = Low(i)
    BY <2>1, <2>2, FS_Subset
  <2>4. Rank(I, i) \in Nat /\ Rank(I, j) \in Nat
    <3>1. Rank(I, i) \in 1 .. c /\ Rank(I, j) \in 1 .. c
      BY <1>2
    <3> QED BY <1>1, <3>1
  <2>5. Cardinality(Low(i)) # Cardinality(Low(j))
    BY <2>1, <2>3
  <2> QED BY <2>3, <2>4, <2>5 DEF Rank
<1>4. \A i, j \in I : Rank(I, i) = Rank(I, j) => i = j
  <2> SUFFICES ASSUME NEW i \in I, NEW j \in I, Rank(I, i) = Rank(I, j), i # j
               PROVE  FALSE
    OBVIOUS
  <2>1. i < j \/ j < i
    OBVIOUS
  <2>2. Rank(I, i) \in 1 .. c
    BY <1>2
  <2>3. Rank(I, i) \in Int
    BY <1>1, <2>2
  <2>4. Rank(I, i) < Rank(I, j) \/ Rank(I, j) < Rank(I, i)
    BY <1>3, <2>1
  <2> QED BY <2>3, <2>4
<1>5. \A k \in 1 .. c : \E i \in I : Rank(I, i) = k
  <2> DEFINE f == [i \in I |-> Rank(I, i)]
  <2>1. f \in Injection(I, 1 .. c)
    BY <1>2, <1>4 DEF Injection, IsInjective
  <2>2. IsFiniteSet(1 .. c) /\ Cardinality(1 .. c) = c
    BY <1>1, FS_Interval
  <2>3. f \in Surjection(I, 1 .. c)
    BY <2>1, <2>2, FS_Injection
  <2> QED BY <2>3 DEF Surjection
<1> QED BY <1>1, <1>2, <1>3, <1>4, <1>5

\* KeepAt returns the elements at the given indices, as a sequence, each once
\* if they are different.
LEMMA KeepAtProperties ==
    ASSUME NEW S, NEW q \in Seq(S), NEW I \in SUBSET (DOMAIN q)
    PROVE  /\ KeepAt(q, I) \in Seq(S)
           /\ Range(KeepAt(q, I)) = {q[i] : i \in I}
           /\ (\A i, j \in I : q[i] = q[j] => i = j) => Unique(KeepAt(q, I))
<1> DEFINE c == Cardinality(I)
           At(n) == CHOOSE i \in I : Rank(I, i) = n
           k == KeepAt(q, I)
<1>1. Len(q) \in Nat /\ DOMAIN q = 1 .. Len(q) /\ \A i \in I : q[i] \in S
  BY LenProperties
<1>2. /\ c \in Nat
      /\ \A i \in I : Rank(I, i) \in 1 .. c
      /\ \A i, j \in I : Rank(I, i) = Rank(I, j) => i = j
      /\ \A n \in 1 .. c : \E i \in I : Rank(I, i) = n
  BY <1>1, RankBijective
<1>3. k = [n \in 1 .. c |-> q[At(n)]]
  BY DEF KeepAt, Rank
<1> HIDE DEF k
<1>4. \A n \in 1 .. c : At(n) \in I /\ Rank(I, At(n)) = n
  BY <1>2
<1>5. \A i \in I : At(Rank(I, i)) = i
  BY <1>2
<1> HIDE DEF At, c
<1>6. DOMAIN k = 1 .. c /\ \A n \in 1 .. c : k[n] = q[At(n)]
  BY <1>3
<1>7. k \in Seq(S)
  <2>1. k \in [1 .. c -> S]
    BY <1>1, <1>3, <1>4
  <2> QED BY <1>2, <2>1, SeqDef
<1>8. Range(k) = {q[i] : i \in I}
  <2>1. \A n \in 1 .. c : k[n] \in {q[i] : i \in I}
    BY <1>4, <1>6
  <2>2. \A i \in I : q[i] = k[Rank(I, i)] /\ Rank(I, i) \in 1 .. c
    BY <1>2, <1>5, <1>6
  <2> QED BY <1>6, <2>1, <2>2 DEF Range
<1>9. ASSUME \A i, j \in I : q[i] = q[j] => i = j
      PROVE  Unique(k)
  <2> SUFFICES ASSUME NEW m \in 1 .. c, NEW n \in 1 .. c, k[m] = k[n]
               PROVE  m = n
    BY <1>6 DEF Unique
  <2>1. At(m) = At(n)
    BY <1>4, <1>6, <1>9
  <2> QED BY <1>4, <2>1
<1> QED BY <1>7, <1>8, <1>9 DEF k

\* Keep(q, S) is q without the elements outside S.
LEMMA KeepProperties ==
    ASSUME NEW B, NEW q \in Seq(B), NEW S
    PROVE  /\ Keep(q, S) \in Seq(B)
           /\ Range(Keep(q, S)) = Range(q) \cap S
           /\ Unique(q) => Unique(Keep(q, S))
<1> DEFINE I == {i \in DOMAIN q : q[i] \in S}
<1>1. I \in SUBSET (DOMAIN q)
  OBVIOUS
<1>2. /\ Keep(q, S) \in Seq(B)
      /\ Range(Keep(q, S)) = {q[i] : i \in I}
      /\ (\A i, j \in I : q[i] = q[j] => i = j) => Unique(Keep(q, S))
  BY <1>1, KeepAtProperties DEF Keep
<1>3. {q[i] : i \in I} = Range(q) \cap S
  BY DEF Range
<1>4. Unique(q) => \A i, j \in I : q[i] = q[j] => i = j
  BY DEF Unique
<1> QED BY <1>2, <1>3, <1>4

\* Append and Unique.
LEMMA AppendUnique ==
    ASSUME NEW B, NEW q \in Seq(B), NEW b \in B
    PROVE  /\ Append(q, b) \in Seq(B)
           /\ Range(Append(q, b)) = Range(q) \cup {b}
           /\ Unique(q) /\ b \notin Range(q) => Unique(Append(q, b))
<1> DEFINE a == Append(q, b)
           n == Len(q)
<1>1. n \in Nat /\ DOMAIN q = 1 .. n
  BY LenProperties
<1>2. /\ a \in Seq(B) /\ Len(a) = n + 1
      /\ \A i \in 1 .. n : a[i] = q[i]
      /\ a[n + 1] = b
  BY AppendProperties
<1>3. DOMAIN a = 1 .. n + 1
  BY <1>2, LenProperties
<1> HIDE DEF a, n
<1>4. 1 .. n + 1 = 1 .. n \cup {n + 1}
  BY <1>1
<1>5. Range(a) = Range(q) \cup {b}
  BY <1>1, <1>2, <1>3, <1>4 DEF Range
<1>6. ASSUME Unique(q), b \notin Range(q)
      PROVE  Unique(a)
  <2>1. \A i \in 1 .. n : a[i] # b
    BY <1>1, <1>2, <1>6 DEF Range
  <2>2. \A i, j \in 1 .. n : a[i] = a[j] => i = j
    BY <1>1, <1>2, <1>6 DEF Unique
  <2> QED BY <1>2, <1>3, <1>4, <2>1, <2>2 DEF Unique
<1> QED BY <1>2, <1>5, <1>6 DEF a

\* Replacing one element of a sequence by a new one.
LEMMA ExceptUnique ==
    ASSUME NEW B, NEW q \in Seq(B), Unique(q),
           NEW i \in DOMAIN q, NEW x \in B, x \notin Range(q)
    PROVE  /\ [q EXCEPT ![i] = x] \in Seq(B)
           /\ Range([q EXCEPT ![i] = x]) = (Range(q) \ {q[i]}) \cup {x}
           /\ Unique([q EXCEPT ![i] = x])
<1> DEFINE u == [q EXCEPT ![i] = x]
<1>1. Len(q) \in Nat /\ DOMAIN q = 1 .. Len(q) /\ q \in [1 .. Len(q) -> B]
  BY LenProperties
<1>2. DOMAIN u = DOMAIN q /\ u[i] = x /\ \A j \in DOMAIN q : j # i => u[j] = q[j]
  OBVIOUS
<1>3. u \in Seq(B)
  <2>1. u \in [1 .. Len(q) -> B]
    BY <1>1
  <2> QED BY <1>1, <2>1, SeqDef
<1> HIDE DEF u
<1>4. \A j \in DOMAIN q : q[j] \in Range(q) /\ q[j] # x /\ (q[j] = q[i] => j = i)
  BY DEF Range, Unique
<1>5. Range(u) = (Range(q) \ {q[i]}) \cup {x}
  <2>1. \A j \in DOMAIN q : u[j] \in (Range(q) \ {q[i]}) \cup {x}
    BY <1>2, <1>4
  <2>2. ASSUME NEW y \in Range(q), y # q[i]
        PROVE  \E j \in DOMAIN q : u[j] = y
    BY <1>2, <2>2 DEF Range
  <2> QED BY <1>2, <2>1, <2>2 DEF Range
<1>6. Unique(u)
  <2>1. \A j, k \in DOMAIN q : q[j] = q[k] => j = k
    BY DEF Unique
  <2> QED BY <1>2, <1>4, <2>1 DEF Unique
<1> QED BY <1>3, <1>5, <1>6 DEF u

\* Concatenation and Unique.
LEMMA ConcatUnique ==
    ASSUME NEW B, NEW a \in Seq(B), NEW b \in Seq(B)
    PROVE  /\ a \o b \in Seq(B)
           /\ Range(a \o b) = Range(a) \cup Range(b)
           /\ (Unique(a) /\ Unique(b) /\ Range(a) \cap Range(b) = {}) => Unique(a \o b)
<1> DEFINE c == a \o b
           m == Len(a)
           n == Len(b)
<1>1. m \in Nat /\ n \in Nat /\ DOMAIN a = 1 .. m /\ DOMAIN b = 1 .. n
  BY LenProperties
<1>2. /\ c \in Seq(B) /\ Len(c) = m + n
      /\ \A i \in 1 .. m + n : c[i] = IF i <= m THEN a[i] ELSE b[i - m]
  BY ConcatProperties
<1>3. DOMAIN c = 1 .. m + n
  BY <1>2, LenProperties
<1> HIDE DEF c, m, n
<1>4. /\ \A i \in 1 .. m : c[i] = a[i] /\ a[i] \in Range(a)
      /\ \A i \in 1 .. n : c[m + i] = b[i] /\ b[i] \in Range(b)
      /\ \A i \in 1 .. m + n : i \in 1 .. m \/ \E j \in 1 .. n : i = m + j
  <2>1. ASSUME NEW i \in 1 .. m
        PROVE  c[i] = a[i] /\ a[i] \in Range(a)
    <3>1. i \in 1 .. m + n /\ i <= m
      BY <1>1
    <3>2. c[i] = a[i]
      BY <1>2, <3>1
    <3> QED BY <1>1, <3>2 DEF Range
  <2>2. ASSUME NEW i \in 1 .. n
        PROVE  c[m + i] = b[i] /\ b[i] \in Range(b)
    <3>1. PICK k \in 1 .. m + n : k = m + i /\ ~(k <= m) /\ k - m = i
      BY <1>1
    <3>2. c[k] = IF k <= m THEN a[k] ELSE b[k - m]
      BY <1>2
    <3>3. c[m + i] = b[i]
      BY <3>1, <3>2
    <3> QED BY <1>1, <3>3 DEF Range
  <2>3. \A i \in 1 .. n : c[m + i] = b[i] /\ b[i] \in Range(b)
    BY <2>2
  <2>4. ASSUME NEW i \in 1 .. m + n, i \notin 1 .. m
        PROVE  i - m \in 1 .. n /\ i = m + (i - m)
    BY <1>1, <2>4
  <2> QED BY <2>1, <2>3, <2>4
<1>5. Range(c) = Range(a) \cup Range(b)
  <2>1. \A x \in Range(c) : x \in Range(a) \cup Range(b)
    BY <1>3, <1>4 DEF Range
  <2>2. \A x \in Range(a) : x \in Range(c)
    <3>1. \A i \in 1 .. m : i \in DOMAIN c
      BY <1>1, <1>3
    <3>2. ASSUME NEW i \in DOMAIN a
          PROVE  a[i] \in Range(c)
      <4>1. i \in DOMAIN c /\ c[i] = a[i]
        BY <1>1, <1>4, <3>1
      <4> QED BY <4>1 DEF Range
    <3> QED BY <3>2 DEF Range
  <2>3. \A x \in Range(b) : x \in Range(c)
    <3>1. \A i \in 1 .. n : m + i \in DOMAIN c
      BY <1>1, <1>3
    <3>2. ASSUME NEW i \in DOMAIN b
          PROVE  b[i] \in Range(c)
      <4>1. m + i \in DOMAIN c /\ c[m + i] = b[i]
        BY <1>1, <1>4, <3>1
      <4> QED BY <4>1 DEF Range
    <3> QED BY <3>2 DEF Range
  <2> QED BY <2>1, <2>2, <2>3
<1>6. ASSUME Unique(a), Unique(b), Range(a) \cap Range(b) = {}
      PROVE  Unique(c)
  <2>1. \A i, j \in 1 .. m : c[i] = c[j] => i = j
    BY <1>1, <1>4, <1>6 DEF Unique
  <2>2. ASSUME NEW i \in 1 .. n, NEW j \in 1 .. n, c[m + i] = c[m + j]
        PROVE  i = j
    <3>1. b[i] = b[j]
      BY <1>4, <2>2
    <3> QED BY <1>1, <1>6, <3>1 DEF Unique
  <2>3. \A i \in 1 .. m, j \in 1 .. n : c[i] # c[m + j]
    BY <1>4, <1>6
  <2>4. ASSUME NEW i \in 1 .. m + n, NEW j \in 1 .. m + n, c[i] = c[j]
        PROVE  i = j
    BY <1>4, <2>1, <2>2, <2>3, <2>4
  <2> QED BY <1>3, <2>4 DEF Unique
<1> QED BY <1>2, <1>5, <1>6 DEF c

\* Cutting a sequence in two after n elements.
LEMMA SplitProperties ==
    ASSUME NEW B, NEW q \in Seq(B), NEW n \in Nat, n <= Len(q)
    PROVE  /\ SubSeq(q, 1, n) \in Seq(B) /\ Len(SubSeq(q, 1, n)) = n
           /\ SubSeq(q, n + 1, Len(q)) \in Seq(B)
           /\ Range(q) = Range(SubSeq(q, 1, n)) \cup Range(SubSeq(q, n + 1, Len(q)))
           /\ Unique(q) =>
                 /\ Unique(SubSeq(q, 1, n)) /\ Unique(SubSeq(q, n + 1, Len(q)))
                 /\ Range(SubSeq(q, 1, n)) \cap Range(SubSeq(q, n + 1, Len(q))) = {}
<1> DEFINE l == Len(q)
           a == SubSeq(q, 1, n)
           b == SubSeq(q, n + 1, l)
<1>1. l \in Nat /\ DOMAIN q = 1 .. l /\ \A i \in 1 .. l : q[i] \in B
  BY LenProperties
<1>2. a \in Seq(B) /\ Len(a) = n /\ \A i \in 1 .. n : a[i] = q[i]
  <2>1. \A i \in 1 .. n : q[i] \in B
    BY <1>1
  <2> QED BY <2>1, SubSeqProperties
<1>3. b \in Seq(B) /\ Len(b) = l - n /\ \A i \in 1 .. l - n : b[i] = q[n + i]
  <2>1. \A i \in n + 1 .. l : q[i] \in B
    BY <1>1
  <2>2. /\ b \in Seq(B)
        /\ Len(b) = IF n + 1 <= l THEN l - (n + 1) + 1 ELSE 0
        /\ \A i \in 1 .. l - (n + 1) + 1 : b[i] = q[(n + 1) + i - 1]
    BY <1>1, <2>1, SubSeqProperties
  <2> HIDE DEF b
  <2>3. l - (n + 1) + 1 = l - n /\ \A i \in 1 .. l - n : (n + 1) + i - 1 = n + i
    BY <1>1
  <2>4. n <= l
    OBVIOUS
  <2> HIDE DEF l
  <2>5. Len(b) = l - n
    BY <1>1, <2>2, <2>4
  <2> QED BY <2>2, <2>3, <2>5
<1>4. DOMAIN a = 1 .. n /\ DOMAIN b = 1 .. l - n
  BY <1>2, <1>3, LenProperties
<1> HIDE DEF a, b, l
<1>5. \A i \in 1 .. l : i \in 1 .. n \/ (i - n \in 1 .. l - n /\ n + (i - n) = i)
  BY <1>1
<1>6. /\ \A i \in 1 .. n : i \in 1 .. l
      /\ \A i \in 1 .. l - n : n + i \in 1 .. l /\ n + i \notin 1 .. n
  BY <1>1 DEF l
<1>7. Range(q) = Range(a) \cup Range(b)
  <2>1. ASSUME NEW i \in 1 .. l
        PROVE  q[i] \in Range(a) \cup Range(b)
    <3>1. CASE i \in 1 .. n
      BY <1>2, <1>4, <3>1 DEF Range
    <3>2. CASE i - n \in 1 .. l - n /\ n + (i - n) = i
      <4>1. b[i - n] = q[i]
        BY <1>3, <3>2
      <4> QED BY <1>4, <3>2, <4>1 DEF Range
    <3> QED BY <1>5, <3>1, <3>2
  <2> QED BY <1>1, <1>2, <1>3, <1>4, <1>6, <2>1 DEF Range
<1>8. ASSUME Unique(q)
      PROVE  Unique(a) /\ Unique(b) /\ Range(a) \cap Range(b) = {}
  <2>1. Unique(a)
    BY <1>1, <1>2, <1>4, <1>6, <1>8 DEF Unique
  <2>2. Unique(b)
    <3> SUFFICES ASSUME NEW i \in 1 .. l - n, NEW j \in 1 .. l - n, b[i] = b[j]
                 PROVE  i = j
      BY <1>4 DEF Unique
    <3>1. n + i = n + j
      BY <1>1, <1>3, <1>6, <1>8 DEF Unique
    <3> QED BY <3>1
  <2>3. ASSUME NEW i \in 1 .. n, NEW j \in 1 .. l - n
        PROVE  a[i] # b[j]
    <3>1. i \in 1 .. l /\ n + j \in 1 .. l /\ i # n + j
      BY <1>6
    <3>2. a[i] = q[i] /\ b[j] = q[n + j]
      BY <1>2, <1>3
    <3> QED BY <1>1, <1>8, <3>1, <3>2 DEF Unique
  <2> QED BY <1>4, <2>1, <2>2, <2>3 DEF Range
<1> QED BY <1>2, <1>3, <1>7, <1>8 DEF a, b, l

\* What Occurs counts.
LEMMA OccursProperties ==
    ASSUME NEW B, NEW q \in Seq(B), NEW b
    PROVE  /\ Occurs(q, b) \in Nat
           /\ Occurs(q, b) = 0 <=> b \notin Range(q)
           /\ Unique(q) => Occurs(q, b) = IF b \in Range(q) THEN 1 ELSE 0
           /\ b \in Range(q) =>
                 \E i \in DOMAIN q : q[i] = b /\ \A j \in DOMAIN q : j > i => q[j] # b
<1> DEFINE I == {i \in DOMAIN q : q[i] = b}
<1>1. Len(q) \in Nat /\ DOMAIN q = 1 .. Len(q) /\ I \in SUBSET (1 .. Len(q))
  BY LenProperties
<1>2. IsFiniteSet(I) /\ Cardinality(I) \in Nat
  BY <1>1, RankBijective
<1>3. Cardinality(I) = 0 <=> I = {}
  BY <1>2, FS_EmptySet
<1>4. I = {} <=> b \notin Range(q)
  BY DEF Range
<1>5. ASSUME Unique(q), b \in Range(q)
      PROVE  Cardinality(I) = 1
  <2>1. PICK i \in I : I = {i}
    BY <1>4, <1>5 DEF Unique
  <2> QED BY <2>1, FS_Singleton
<1>6. ASSUME b \in Range(q)
      PROVE  \E i \in DOMAIN q : q[i] = b /\ \A j \in DOMAIN q : j > i => q[j] # b
  <2> DEFINE c == Cardinality(I)
  <2>1. c \in 1 .. c
    BY <1>2, <1>3, <1>4, <1>6
  <2>2. PICK i \in I : Rank(I, i) = c
    BY <1>1, <2>1, RankBijective
  <2>3. ASSUME NEW j \in I, i < j
        PROVE  FALSE
    <3>1. Rank(I, i) < Rank(I, j)
      BY <1>1, <2>3, RankBijective
    <3>2. Rank(I, j) \in 1 .. c
      BY <1>1, RankBijective
    <3> QED BY <1>2, <2>2, <3>1, <3>2
  <2>4. \A j \in DOMAIN q : j > i => q[j] # b
    BY <1>1, <2>3
  <2> QED BY <2>4
<1> QED BY <1>2, <1>3, <1>4, <1>5, <1>6 DEF Occurs

\* Occurs in a longer sequence.
LEMMA OccursAppend ==
    ASSUME NEW B, NEW q \in Seq(B), NEW x \in B, NEW b
    PROVE  Occurs(Append(q, x), b) = Occurs(q, b) + IF x = b THEN 1 ELSE 0
<1> DEFINE a == Append(q, x)
           n == Len(q)
           I == {i \in DOMAIN q : q[i] = b}
           J == {i \in DOMAIN a : a[i] = b}
<1>1. n \in Nat /\ DOMAIN q = 1 .. n
  BY LenProperties
<1>2. /\ a \in Seq(B) /\ Len(a) = n + 1
      /\ \A i \in 1 .. n : a[i] = q[i]
      /\ a[n + 1] = x
  BY AppendProperties
<1>3. DOMAIN a = 1 .. n + 1
  BY <1>2, LenProperties
<1> HIDE DEF a, n
<1>4. 1 .. n + 1 = 1 .. n \cup {n + 1} /\ n + 1 \notin 1 .. n
  BY <1>1
<1>5. J = I \cup (IF x = b THEN {n + 1} ELSE {}) /\ n + 1 \notin I
  BY <1>1, <1>2, <1>3, <1>4
<1>6. IsFiniteSet(I) /\ Cardinality(I) \in Nat
  <2>1. I \in SUBSET (1 .. n)
    BY <1>1
  <2> HIDE DEF I
  <2> QED BY <1>1, <2>1, RankBijective
<1>7. Cardinality(J) = Cardinality(I) + IF x = b THEN 1 ELSE 0
  <2> HIDE DEF I, J
  <2>1. CASE x = b
    <3>1. J = I \cup {n + 1}
      BY <1>5, <2>1
    <3>2. Cardinality(J) = Cardinality(I) + 1
      BY <1>5, <1>6, <3>1, FS_AddElement
    <3> QED BY <2>1, <3>2
  <2>2. CASE x # b
    BY <1>5, <1>6, <2>2
  <2> QED BY <2>1, <2>2
<1> QED BY <1>7 DEF Occurs, a

\* Reversed only changes the order.
LEMMA ReversedProperties ==
    ASSUME NEW B, NEW q \in Seq(B)
    PROVE  /\ Reversed(q) \in Seq(B)
           /\ Range(Reversed(q)) = Range(q)
           /\ Unique(q) => Unique(Reversed(q))
<1> DEFINE n == Len(q)
           v == Reversed(q)
<1>1. n \in Nat /\ DOMAIN q = 1 .. n /\ \A i \in 1 .. n : q[i] \in B
  BY LenProperties
<1>2. DOMAIN v = 1 .. n /\ \A i \in 1 .. n : v[i] = q[n + 1 - i]
  BY DEF Reversed
<1> HIDE DEF n, v
<1>3. \A i \in 1 .. n : n + 1 - i \in 1 .. n /\ n + 1 - (n + 1 - i) = i
  BY <1>1
<1>4. v \in Seq(B)
  <2>1. v \in [1 .. n -> B]
    BY <1>1, <1>2, <1>3 DEF Reversed, n, v
  <2> QED BY <1>1, <2>1, SeqDef
<1>5. Range(v) = Range(q)
  <2>1. \A i \in 1 .. n : v[i] \in Range(q)
    BY <1>1, <1>2, <1>3 DEF Range
  <2>2. \A i \in 1 .. n : q[i] = v[n + 1 - i]
    BY <1>2, <1>3
  <2> QED BY <1>1, <1>2, <1>3, <2>1, <2>2 DEF Range
<1>6. ASSUME Unique(q)
      PROVE  Unique(v)
  <2> SUFFICES ASSUME NEW i \in 1 .. n, NEW j \in 1 .. n, v[i] = v[j]
               PROVE  i = j
    BY <1>2 DEF Unique
  <2>1. n + 1 - i = n + 1 - j
    BY <1>1, <1>2, <1>3, <1>6 DEF Unique
  <2> QED BY <1>1, <2>1
<1> QED BY <1>4, <1>5, <1>6 DEF v

----------------------------------------------------------------------------
(* The prefix cache.                                                       *)

\* The type of a pool without the claim that reference counts are not negative,
\* which depends on how the pool is used.
PoolRecord ==
    [free   : Seq(Blocks),
     ref    : [Blocks -> Int],
     hash   : [Blocks -> Keys \cup {NoKey}],
     more   : [Blocks -> SUBSET Keys],
     cached : [Keys -> Seq(Blocks)]]

\* A pool whose cache is as in q, whatever its queue and its counts are, agrees
\* with itself when q does.
LEMMA IndexOfSameCache ==
    ASSUME NEW p, NEW q, CacheIndexExact(q),
           p.hash = q.hash, p.more = q.more, p.cached = q.cached
    PROVE  CacheIndexExact(p)
BY DEF CacheIndexExact, KeysOf

\* _remove_cached_block_hashes: the blocks of S lose all keys, the others keep
\* theirs, and the two directions of the cache still agree.
LEMMA RemoveHashesProperties ==
    ASSUME NEW p \in PoolRecord, CacheIndexExact(p), NEW S
    PROVE  /\ RemoveHashes(p, S) \in PoolRecord
           /\ RemoveHashes(p, S).free = p.free
           /\ RemoveHashes(p, S).ref = p.ref
           /\ \A b \in Blocks : b \in S =>
                 RemoveHashes(p, S).hash[b] = NoKey /\ RemoveHashes(p, S).more[b] = {}
           /\ \A b \in Blocks : b \notin S =>
                 /\ RemoveHashes(p, S).hash[b] = p.hash[b]
                 /\ RemoveHashes(p, S).more[b] = p.more[b]
           /\ CacheIndexExact(RemoveHashes(p, S))
<1> DEFINE q == RemoveHashes(p, S)
           Left(k) == {b \in Blocks : ~(b \in S /\ k \in KeysOf(p, b))}
<1>1. /\ q.free = p.free /\ q.ref = p.ref
      /\ q.hash = [b \in Blocks |-> IF b \in S THEN NoKey ELSE p.hash[b]]
      /\ q.more = [b \in Blocks |-> IF b \in S THEN {} ELSE p.more[b]]
      /\ q.cached = [k \in Keys |-> Keep(p.cached[k], Left(k))]
      /\ (q.hash \in [Blocks -> Keys \cup {NoKey}] /\ q.more \in [Blocks -> SUBSET Keys]
          /\ q.cached \in [Keys -> Seq(Blocks)]) => q \in PoolRecord
  <2> DEFINE h == [b \in Blocks |-> IF b \in S THEN NoKey ELSE p.hash[b]]
             m == [b \in Blocks |-> IF b \in S THEN {} ELSE p.more[b]]
             c == [k \in Keys |-> Keep(p.cached[k], Left(k))]
  <2>1. q = [p EXCEPT !.hash = h, !.more = m, !.cached = c]
    BY DEF RemoveHashes
  <2> HIDE DEF q, h, m, c
  <2>2. /\ q.free = p.free /\ q.ref = p.ref
        /\ q.hash = h /\ q.more = m /\ q.cached = c
        /\ (h \in [Blocks -> Keys \cup {NoKey}] /\ m \in [Blocks -> SUBSET Keys]
            /\ c \in [Keys -> Seq(Blocks)]) => q \in PoolRecord
    BY <2>1 DEF PoolRecord
  <2> QED BY <2>2 DEF h, m, c
<1> HIDE DEF q
<1>2. ASSUME NEW k \in Keys
      PROVE  /\ q.cached[k] \in Seq(Blocks)
             /\ Range(q.cached[k]) = Range(p.cached[k]) \cap Left(k)
             /\ Unique(q.cached[k])
  <2>1. p.cached[k] \in Seq(Blocks)
    BY DEF PoolRecord
  <2>2. Unique(p.cached[k])
    BY DEF CacheIndexExact
  <2>3. q.cached[k] = Keep(p.cached[k], Left(k))
    BY <1>1
  <2> HIDE DEF Left
  <2> QED BY <2>1, <2>2, <2>3, KeepProperties
<1>3. q \in PoolRecord
  <2>1. q.hash \in [Blocks -> Keys \cup {NoKey}] /\ q.more \in [Blocks -> SUBSET Keys]
    BY <1>1 DEF PoolRecord
  <2>2. q.cached \in [Keys -> Seq(Blocks)]
    BY <1>1, <1>2
  <2> QED BY <1>1, <2>1, <2>2
<1>4. \A b \in Blocks : /\ b \in S => q.hash[b] = NoKey /\ q.more[b] = {}
                        /\ b \notin S => q.hash[b] = p.hash[b] /\ q.more[b] = p.more[b]
  BY <1>1
<1>5. \A b \in Blocks : KeysOf(q, b) = IF b \in S THEN {} ELSE KeysOf(p, b)
  BY <1>4 DEF KeysOf
<1>6. CacheIndexExact(q)
  <2>1. ASSUME NEW k \in Keys
        PROVE  Range(q.cached[k]) = {b \in Blocks : k \in KeysOf(q, b)}
    <3>1. Range(p.cached[k]) = {b \in Blocks : k \in KeysOf(p, b)}
      BY DEF CacheIndexExact
    <3> QED BY <1>2, <1>5, <3>1
  <2>2. \A b \in Blocks : /\ q.hash[b] \notin q.more[b]
                          /\ q.hash[b] = NoKey => q.more[b] = {}
    BY <1>4 DEF CacheIndexExact
  <2> QED BY <1>2, <2>1, <2>2 DEF CacheIndexExact
<1> QED BY <1>1, <1>3, <1>4, <1>6 DEF q

\* New entries: every key k of K is appended for one block D[k] that did not
\* have it, and the blocks record just these keys.
LEMMA InsertedIndex ==
    ASSUME NEW p \in PoolRecord, CacheIndexExact(p), NEW q \in PoolRecord,
           NEW K \in SUBSET Keys, NEW D \in [K -> Blocks],
           \A k \in K : k \notin KeysOf(p, D[k]),
           \A b \in Blocks : KeysOf(q, b) = KeysOf(p, b) \cup {k \in K : D[k] = b},
           \A b \in Blocks : /\ q.hash[b] \notin q.more[b]
                             /\ q.hash[b] = NoKey => q.more[b] = {},
           \A k \in Keys : q.cached[k] = IF k \in K THEN Append(p.cached[k], D[k])
                                         ELSE p.cached[k]
    PROVE  CacheIndexExact(q)
<1>1. ASSUME NEW k \in Keys
      PROVE  /\ Unique(q.cached[k])
             /\ Range(q.cached[k]) = {b \in Blocks : k \in KeysOf(q, b)}
  <2>1. /\ p.cached[k] \in Seq(Blocks)
        /\ Unique(p.cached[k])
        /\ Range(p.cached[k]) = {b \in Blocks : k \in KeysOf(p, b)}
    BY DEF PoolRecord, CacheIndexExact
  <2>2. CASE k \notin K
    <3>1. \A b \in Blocks : k \in KeysOf(q, b) <=> k \in KeysOf(p, b)
      BY <2>2
    <3> QED BY <2>1, <2>2, <3>1
  <2>3. CASE k \in K
    <3>1. D[k] \in Blocks /\ D[k] \notin Range(p.cached[k])
      BY <2>1, <2>3
    <3>2. /\ Range(q.cached[k]) = Range(p.cached[k]) \cup {D[k]}
          /\ Unique(q.cached[k])
      BY <2>1, <2>3, <3>1, AppendUnique
    <3>3. \A b \in Blocks : k \in KeysOf(q, b) <=> k \in KeysOf(p, b) \/ b = D[k]
      BY <2>3
    <3> QED BY <2>1, <3>1, <3>2, <3>3
  <2> QED BY <2>2, <2>3
<1> QED BY <1>1 DEF CacheIndexExact

\* _insert_block_hash keeps the two directions of the cache in agreement.
LEMMA InsertHashProperties ==
    ASSUME NEW p \in PoolRecord, CacheIndexExact(p), NEW b \in Blocks, NEW k \in Keys
    PROVE  /\ InsertHash(p, b, k) \in PoolRecord
           /\ InsertHash(p, b, k).free = p.free
           /\ InsertHash(p, b, k).ref = p.ref
           /\ CacheIndexExact(InsertHash(p, b, k))
<1> DEFINE q == InsertHash(p, b, k)
<1>1. Range(p.cached[k]) = {x \in Blocks : k \in KeysOf(p, x)}
  BY DEF CacheIndexExact
<1>2. CASE p.hash[b] = k \/ b \in Range(p.cached[k])
  <2>1. q = p
    BY <1>2 DEF InsertHash
  <2> QED BY <2>1
<1>3. CASE ~(p.hash[b] = k \/ b \in Range(p.cached[k]))
  <2>1. q = [p EXCEPT !.hash[b]   = IF p.hash[b] = NoKey THEN k ELSE @,
                      !.more[b]   = IF p.hash[b] = NoKey THEN @ ELSE @ \cup {k},
                      !.cached[k] = Append(@, b)]
    BY <1>3 DEF InsertHash
  <2> HIDE DEF q
  <2>2. /\ p.hash \in [Blocks -> Keys \cup {NoKey}]
        /\ p.more \in [Blocks -> SUBSET Keys]
        /\ p.cached \in [Keys -> Seq(Blocks)]
    BY DEF PoolRecord
  <2>3. /\ q.free = p.free /\ q.ref = p.ref
        /\ q.hash = [p.hash EXCEPT ![b] = IF p.hash[b] = NoKey THEN k ELSE @]
        /\ q.more = [p.more EXCEPT ![b] = IF p.hash[b] = NoKey THEN @ ELSE @ \cup {k}]
        /\ q.cached = [p.cached EXCEPT ![k] = Append(@, b)]
    BY <2>1 DEF PoolRecord
  <2>4. q \in PoolRecord
    <3>1. /\ q.hash \in [Blocks -> Keys \cup {NoKey}]
          /\ q.more \in [Blocks -> SUBSET Keys]
      BY <2>2, <2>3
    <3>2. q.cached \in [Keys -> Seq(Blocks)]
      <4>1. Append(p.cached[k], b) \in Seq(Blocks)
        BY <2>2, AppendUnique
      <4> QED BY <2>2, <2>3, <4>1
    <3> QED BY <2>1, <2>3, <3>1, <3>2 DEF PoolRecord
  <2>5. k \notin KeysOf(p, b)
    BY <1>1, <1>3
  <2>6. k # NoKey
    BY BlockPoolAssumption
  <2>7. \A x \in Blocks : /\ q.hash[x] \notin q.more[x]
                          /\ q.hash[x] = NoKey => q.more[x] = {}
    BY <2>2, <2>3, <2>5, <2>6 DEF CacheIndexExact, KeysOf
  <2>8. \A x \in Blocks : KeysOf(q, x) = KeysOf(p, x) \cup (IF x = b THEN {k} ELSE {})
    BY <2>2, <2>3, <2>6 DEF CacheIndexExact, KeysOf
  <2> DEFINE D == [l \in {k} |-> b]
  <2>9. /\ D \in [{k} -> Blocks] /\ {k} \in SUBSET Keys
        /\ \A l \in {k} : l \notin KeysOf(p, D[l])
        /\ \A x \in Blocks : {l \in {k} : D[l] = x} = IF x = b THEN {k} ELSE {}
    BY <2>5
  <2>10. \A l \in Keys : q.cached[l] = IF l \in {k} THEN Append(p.cached[l], D[l])
                                       ELSE p.cached[l]
    BY <2>2, <2>3
  <2>11. \A x \in Blocks : KeysOf(q, x) = KeysOf(p, x) \cup {l \in {k} : D[l] = x}
    BY <2>8, <2>9
  <2> HIDE DEF D
  <2>12. CacheIndexExact(q)
    BY <2>4, <2>7, <2>9, <2>10, <2>11, InsertedIndex
  <2> QED BY <2>3, <2>4, <2>12 DEF q
<1> QED BY <1>2, <1>3

\* cache_full_blocks on one block.
LEMMA CacheFullBlockProperties ==
    ASSUME NEW p \in PoolRecord, CacheIndexExact(p), NEW b \in Blocks, NEW k \in Keys
    PROVE  /\ CacheFullBlocks(p, << b >>, << k >>) \in PoolRecord
           /\ CacheFullBlocks(p, << b >>, << k >>).free = p.free
           /\ CacheFullBlocks(p, << b >>, << k >>).ref = p.ref
           /\ CacheIndexExact(CacheFullBlocks(p, << b >>, << k >>))
<1> DEFINE q == RemoveHashes(p, Range(<< b >>))
           c == CacheFullBlocks(p, << b >>, << k >>)
           D == [l \in {k} |-> b]
<1>1. Range(<< b >>) = {b}
  BY DEF Range
<1>2. /\ q \in PoolRecord /\ q.free = p.free /\ q.ref = p.ref
      /\ q.hash[b] = NoKey /\ q.more[b] = {}
      /\ CacheIndexExact(q)
  BY <1>1, RemoveHashesProperties
<1>3. c = [q EXCEPT !.hash   = [x \in Blocks |-> IF x = b THEN k ELSE q.hash[x]],
                    !.cached = [l \in Keys |-> IF l = k THEN Append(q.cached[l], b)
                                                ELSE q.cached[l]]]
  <2> DEFINE At(x) == CHOOSE i \in DOMAIN << b >> : << b >>[i] = x
             For(l) == CHOOSE i \in DOMAIN << b >> : << k >>[i] = l
             h == [x \in Blocks |-> IF x \in Range(<< b >>) THEN << k >>[At(x)]
                                    ELSE q.hash[x]]
             m == [l \in Keys |-> IF \E i \in DOMAIN << b >> : << k >>[i] = l
                                  THEN Append(q.cached[l], << b >>[For(l)])
                                  ELSE q.cached[l]]
  <2>1. c = [q EXCEPT !.hash = h, !.cached = m]
    BY DEF CacheFullBlocks
  <2>2. DOMAIN << b >> = {1} /\ << b >>[1] = b /\ << k >>[1] = k
    OBVIOUS
  <2>3. At(b) = 1 /\ For(k) = 1
    BY <2>2
  <2>4. h = [x \in Blocks |-> IF x = b THEN k ELSE q.hash[x]]
    BY <1>1, <2>2, <2>3
  <2>5. m = [l \in Keys |-> IF l = k THEN Append(q.cached[l], b) ELSE q.cached[l]]
    BY <2>2, <2>3
  <2> QED BY <2>1, <2>4, <2>5
<1> HIDE DEF q, c
<1>4. /\ c.free = q.free /\ c.ref = q.ref /\ c.more = q.more
      /\ c.hash = [x \in Blocks |-> IF x = b THEN k ELSE q.hash[x]]
      /\ c.cached = [l \in Keys |-> IF l = k THEN Append(q.cached[l], b)
                                    ELSE q.cached[l]]
  BY <1>2, <1>3 DEF PoolRecord
<1>5. /\ q.hash \in [Blocks -> Keys \cup {NoKey}]
      /\ q.more \in [Blocks -> SUBSET Keys]
      /\ q.cached \in [Keys -> Seq(Blocks)]
  BY <1>2 DEF PoolRecord
<1>6. c \in PoolRecord
  <2>1. c.hash \in [Blocks -> Keys \cup {NoKey}]
    BY <1>4, <1>5
  <2>2. c.cached \in [Keys -> Seq(Blocks)]
    <3>1. \A l \in Keys : Append(q.cached[l], b) \in Seq(Blocks)
      BY <1>5, AppendUnique
    <3> QED BY <1>4, <1>5, <3>1
  <2> QED BY <1>2, <1>3, <1>4, <2>1, <2>2 DEF PoolRecord
<1>7. k # NoKey /\ KeysOf(q, b) = {}
  BY <1>2, BlockPoolAssumption DEF KeysOf
<1>8. \A x \in Blocks : KeysOf(c, x) = KeysOf(q, x) \cup {l \in {k} : D[l] = x}
  <2>1. \A x \in Blocks : KeysOf(c, x) = IF x = b THEN {k} ELSE KeysOf(q, x)
    BY <1>2, <1>4, <1>7 DEF KeysOf
  <2> QED BY <1>7, <2>1
<1>9. \A x \in Blocks : /\ c.hash[x] \notin c.more[x]
                        /\ c.hash[x] = NoKey => c.more[x] = {}
  BY <1>2, <1>4, <1>7 DEF CacheIndexExact
<1>10. /\ D \in [{k} -> Blocks] /\ {k} \in SUBSET Keys
       /\ \A l \in {k} : l \notin KeysOf(q, D[l])
       /\ \A l \in Keys : c.cached[l] = IF l \in {k} THEN Append(q.cached[l], D[l])
                                        ELSE q.cached[l]
  BY <1>4, <1>7
<1> HIDE DEF D
<1>11. CacheIndexExact(c)
  BY <1>2, <1>6, <1>8, <1>9, <1>10, InsertedIndex
<1> QED BY <1>2, <1>4, <1>6, <1>11 DEF c

\* cache_partial_block.
LEMMA CachePartialBlockProperties ==
    ASSUME NEW p \in PoolRecord, CacheIndexExact(p), NEW b \in Blocks, NEW k \in Keys
    PROVE  /\ CachePartialBlock(p, b, k) \in PoolRecord
           /\ CachePartialBlock(p, b, k).free = p.free
           /\ CachePartialBlock(p, b, k).ref = p.ref
           /\ CacheIndexExact(CachePartialBlock(p, b, k))
<1>1. CASE CachePartialBlock(p, b, k) = InsertHash(p, b, k)
  BY <1>1, InsertHashProperties
<1>2. CASE CachePartialBlock(p, b, k) = InsertHash(RemoveHashes(p, {b}), b, k)
  <2> DEFINE q == RemoveHashes(p, {b})
  <2>1. q \in PoolRecord /\ q.free = p.free /\ q.ref = p.ref /\ CacheIndexExact(q)
    BY RemoveHashesProperties
  <2> HIDE DEF q
  <2>2. /\ InsertHash(q, b, k) \in PoolRecord
        /\ InsertHash(q, b, k).free = q.free
        /\ InsertHash(q, b, k).ref = q.ref
        /\ CacheIndexExact(InsertHash(q, b, k))
    BY <2>1, InsertHashProperties
  <2> QED BY <1>2, <2>1, <2>2 DEF q
<1> QED BY <1>1, <1>2 DEF CachePartialBlock

\* move_block_hashes to a block without hashes.
LEMMA MoveBlockHashesProperties ==
    ASSUME NEW p \in PoolRecord, CacheIndexExact(p), NEW src \in Blocks,
           NEW dst \in Blocks, CanMoveBlockHashes(p, dst)
    PROVE  /\ MoveBlockHashes(p, src, dst) \in PoolRecord
           /\ MoveBlockHashes(p, src, dst).free = p.free
           /\ MoveBlockHashes(p, src, dst).ref = p.ref
           /\ CacheIndexExact(MoveBlockHashes(p, src, dst))
<1> DEFINE q == RemoveHashes(p, {src})
           c == MoveBlockHashes(p, src, dst)
           K == KeysOf(p, src)
           D == [l \in K |-> dst]
<1>1. /\ q \in PoolRecord /\ q.free = p.free /\ q.ref = p.ref
      /\ CacheIndexExact(q)
      /\ q.hash[dst] = NoKey /\ q.more[dst] = {}
  <2>1. p.hash[dst] = NoKey /\ p.more[dst] = {}
    BY DEF CanMoveBlockHashes
  <2> QED BY <2>1, RemoveHashesProperties
<1>2. c = [q EXCEPT !.hash[dst] = p.hash[src],
                    !.more[dst] = p.more[src],
                    !.cached    = [k \in Keys |-> IF k \in K THEN Append(q.cached[k], dst)
                                                  ELSE q.cached[k]]]
  BY DEF MoveBlockHashes
<1>3. /\ p.hash[src] \in Keys \cup {NoKey} /\ p.more[src] \in SUBSET Keys
      /\ p.hash[src] \notin p.more[src]
      /\ p.hash[src] = NoKey => p.more[src] = {}
      /\ K \in SUBSET Keys
  BY DEF PoolRecord, CacheIndexExact, KeysOf
<1> HIDE DEF q, c
<1>4. /\ c.free = q.free /\ c.ref = q.ref
      /\ c.hash = [q.hash EXCEPT ![dst] = p.hash[src]]
      /\ c.more = [q.more EXCEPT ![dst] = p.more[src]]
      /\ c.cached = [k \in Keys |-> IF k \in K THEN Append(q.cached[k], dst)
                                    ELSE q.cached[k]]
  BY <1>1, <1>2 DEF PoolRecord
<1>5. /\ q.hash \in [Blocks -> Keys \cup {NoKey}]
      /\ q.more \in [Blocks -> SUBSET Keys]
      /\ q.cached \in [Keys -> Seq(Blocks)]
  BY <1>1 DEF PoolRecord
<1>6. c \in PoolRecord
  <2>1. /\ c.hash \in [Blocks -> Keys \cup {NoKey}]
        /\ c.more \in [Blocks -> SUBSET Keys]
    BY <1>3, <1>4, <1>5
  <2>2. c.cached \in [Keys -> Seq(Blocks)]
    <3>1. \A l \in Keys : Append(q.cached[l], dst) \in Seq(Blocks)
      BY <1>5, AppendUnique
    <3> QED BY <1>4, <1>5, <3>1
  <2> QED BY <1>1, <1>2, <1>4, <2>1, <2>2 DEF PoolRecord
<1>7. KeysOf(q, dst) = {}
  BY <1>1 DEF KeysOf
<1>8. \A x \in Blocks : KeysOf(c, x) = KeysOf(q, x) \cup {l \in K : D[l] = x}
  <2>1. \A x \in Blocks : KeysOf(c, x) = IF x = dst THEN K ELSE KeysOf(q, x)
    BY <1>4, <1>5 DEF KeysOf
  <2> QED BY <1>7, <2>1
<1>9. \A x \in Blocks : /\ c.hash[x] \notin c.more[x]
                        /\ c.hash[x] = NoKey => c.more[x] = {}
  BY <1>1, <1>3, <1>4, <1>5 DEF CacheIndexExact
<1>10. /\ D \in [K -> Blocks]
       /\ \A l \in K : l \notin KeysOf(q, D[l])
       /\ \A l \in Keys : c.cached[l] = IF l \in K THEN Append(q.cached[l], D[l])
                                        ELSE q.cached[l]
  BY <1>3, <1>4, <1>7
<1> HIDE DEF D, K
<1>11. CacheIndexExact(c)
  BY <1>1, <1>3, <1>6, <1>8, <1>9, <1>10, InsertedIndex
<1> QED BY <1>1, <1>4, <1>6, <1>11 DEF c

----------------------------------------------------------------------------
(* Allocation.                                                             *)

\* get_new_blocks: the blocks it hands out have no hash, and come from the
\* free queue, whose rest stays exact when it was.
LEMMA GetNewBlocksProperties ==
    ASSUME NEW p \in PoolRecord, CacheIndexExact(p), NEW n \in Nat, CanGetNewBlocks(p, n)
    PROVE  /\ NewBlocks(p, n) \in Seq(Blocks) /\ Len(NewBlocks(p, n)) = n
           /\ GetNewBlocks(p, n) \in PoolRecord
           /\ GetNewBlocks(p, n).ref =
                 [b \in Blocks |-> IF b \in Range(NewBlocks(p, n)) THEN p.ref[b] + 1
                                   ELSE p.ref[b]]
           /\ CacheIndexExact(GetNewBlocks(p, n))
           /\ \A b \in Range(NewBlocks(p, n)) : CanMoveBlockHashes(GetNewBlocks(p, n), b)
           /\ FreeQueueExact(p) =>
                 /\ FreeQueueExact(GetNewBlocks(p, n))
                 /\ Unique(NewBlocks(p, n))
                 /\ \A b \in Range(NewBlocks(p, n)) : p.ref[b] = 0
<1> DEFINE a == NewBlocks(p, n)
           z == SubSeq(p.free, n + 1, Len(p.free))
           got == Range(a)
           q == RemoveHashes(p, got)
           g == GetNewBlocks(p, n)
           ref == [b \in Blocks |-> IF b \in got THEN p.ref[b] + 1 ELSE p.ref[b]]
<1>1. p.free \in Seq(Blocks) /\ n <= Len(p.free) /\ p.ref \in [Blocks -> Int]
  BY DEF PoolRecord, CanGetNewBlocks, NumFree
<1>2. /\ a \in Seq(Blocks) /\ Len(a) = n /\ z \in Seq(Blocks)
      /\ Range(p.free) = got \cup Range(z)
      /\ Unique(p.free) => Unique(a) /\ Unique(z) /\ got \cap Range(z) = {}
  BY <1>1, SplitProperties DEF NewBlocks
<1>3. /\ q \in PoolRecord /\ CacheIndexExact(q)
      /\ \A b \in Blocks : b \in got => q.hash[b] = NoKey /\ q.more[b] = {}
  BY RemoveHashesProperties
<1>4. g = [q EXCEPT !.free = z, !.ref = ref]
  BY DEF GetNewBlocks
<1>5. got \subseteq Blocks
  BY <1>2, RangeOfSeq DEF Range
<1> HIDE DEF a, z, q, g
<1>6. /\ g.free = z /\ g.ref = ref
      /\ g.hash = q.hash /\ g.more = q.more /\ g.cached = q.cached
  BY <1>3, <1>4 DEF PoolRecord
<1>7. ref \in [Blocks -> Int]
  BY <1>1
<1> HIDE DEF ref
<1>8. g \in PoolRecord
  BY <1>2, <1>3, <1>4, <1>7 DEF PoolRecord
<1>9. CacheIndexExact(g)
  BY <1>3, <1>6, IndexOfSameCache
<1>10. \A b \in got : CanMoveBlockHashes(g, b)
  BY <1>3, <1>5, <1>6 DEF CanMoveBlockHashes
<1>11. ASSUME FreeQueueExact(p)
       PROVE  FreeQueueExact(g) /\ Unique(a) /\ \A b \in got : p.ref[b] = 0
  <2>1. Unique(p.free) /\ Range(p.free) = {b \in Blocks : p.ref[b] = 0}
    BY <1>11 DEF FreeQueueExact
  <2>2. \A b \in got : p.ref[b] = 0
    BY <1>2, <2>1
  <2>3. \A b \in Blocks : ref[b] = 0 <=> p.ref[b] = 0 /\ b \notin got
    BY <1>1, <2>2 DEF ref
  <2>4. Range(z) = {b \in Blocks : ref[b] = 0}
    BY <1>2, <2>1, <2>3
  <2> QED BY <1>2, <1>6, <2>1, <2>2, <2>4 DEF FreeQueueExact
<1> QED BY <1>2, <1>6, <1>8, <1>9, <1>10, <1>11 DEF a, g, ref

\* touch.
LEMMA TouchProperties ==
    ASSUME NEW p \in PoolRecord, NEW S
    PROVE  /\ Touch(p, S) \in PoolRecord
           /\ Touch(p, S).ref =
                 [b \in Blocks |-> IF b \in S THEN p.ref[b] + 1 ELSE p.ref[b]]
           /\ CacheIndexExact(p) => CacheIndexExact(Touch(p, S))
           /\ (FreeQueueExact(p) /\ p.ref \in [Blocks -> Nat]) => FreeQueueExact(Touch(p, S))
<1> DEFINE t == Touch(p, S)
           left == {b \in Blocks : ~(b \in S /\ p.ref[b] = 0)}
           free == Keep(p.free, left)
           ref == [b \in Blocks |-> IF b \in S THEN p.ref[b] + 1 ELSE p.ref[b]]
<1>1. t = [p EXCEPT !.free = free, !.ref = ref]
  BY DEF Touch
<1>2. p.free \in Seq(Blocks) /\ p.ref \in [Blocks -> Int]
  BY DEF PoolRecord
<1>3. /\ free \in Seq(Blocks)
      /\ Range(free) = Range(p.free) \cap left
      /\ Unique(p.free) => Unique(free)
  <2> HIDE DEF left
  <2> QED BY <1>2, KeepProperties
<1>4. ref \in [Blocks -> Int]
  BY <1>2
<1> HIDE DEF t, free, ref
<1>5. /\ t.free = free /\ t.ref = ref
      /\ t.hash = p.hash /\ t.more = p.more /\ t.cached = p.cached
  BY <1>1 DEF PoolRecord
<1>6. t \in PoolRecord
  BY <1>1, <1>3, <1>4 DEF PoolRecord
<1>7. CacheIndexExact(p) => CacheIndexExact(t)
  BY <1>5, IndexOfSameCache
<1>8. ASSUME FreeQueueExact(p), p.ref \in [Blocks -> Nat]
      PROVE  FreeQueueExact(t)
  <2>1. Unique(p.free) /\ Range(p.free) = {b \in Blocks : p.ref[b] = 0}
    BY <1>8 DEF FreeQueueExact
  <2>2. \A b \in Blocks : ref[b] = 0 <=> p.ref[b] = 0 /\ b \notin S
    BY <1>8 DEF ref
  <2>3. Range(free) = {b \in Blocks : ref[b] = 0}
    BY <1>3, <2>1, <2>2
  <2> QED BY <1>3, <1>5, <2>1, <2>3 DEF FreeQueueExact
<1> QED BY <1>5, <1>6, <1>7, <1>8 DEF t, ref

\* free_blocks: the counts go down by the occurrences, the cache stays, and when
\* no count is exceeded the free queue stays exact.
LEMMA FreeBlocksProperties ==
    ASSUME NEW p \in PoolRecord, NEW q \in Seq(Blocks)
    PROVE  /\ FreeBlocks(p, q) \in PoolRecord
           /\ FreeBlocks(p, q).ref = [b \in Blocks |-> p.ref[b] - Occurs(q, b)]
           /\ CacheIndexExact(p) => CacheIndexExact(FreeBlocks(p, q))
           /\ (FreeQueueExact(p) /\ CanFreeBlocks(p, q)) => FreeQueueExact(FreeBlocks(p, q))
<1> DEFINE f == FreeBlocks(p, q)
           left == [b \in Blocks |-> p.ref[b] - Occurs(q, b)]
           zero == {i \in DOMAIN q : /\ left[q[i]] = 0
                                     /\ \A j \in DOMAIN q : j > i => q[j] # q[i]}
           first == {i \in zero : p.hash[q[i]] = NoKey}
           a == KeepAt(q, first)
           z == KeepAt(q, zero \ first)
           free == a \o p.free \o z
<1>1. f = [p EXCEPT !.free = free, !.ref = left]
  BY DEF FreeBlocks
<1>2. p.free \in Seq(Blocks) /\ p.ref \in [Blocks -> Int]
  BY DEF PoolRecord
<1>3. \A b \in Blocks : Occurs(q, b) \in Nat /\ (Occurs(q, b) = 0 <=> b \notin Range(q))
  BY OccursProperties
<1>4. left \in [Blocks -> Int]
  BY <1>2, <1>3
<1>5. DOMAIN q = 1 .. Len(q) /\ Len(q) \in Nat /\ \A i \in DOMAIN q : q[i] \in Blocks
  BY LenProperties
<1>6. \A i, j \in zero : q[i] = q[j] => i = j
  <2> SUFFICES ASSUME NEW i \in zero, NEW j \in zero, q[i] = q[j], i # j
               PROVE  FALSE
    OBVIOUS
  <2>1. i > j \/ j > i
    BY <1>5
  <2> QED BY <2>1
<1>7. /\ a \in Seq(Blocks) /\ Range(a) = {q[i] : i \in first} /\ Unique(a)
      /\ z \in Seq(Blocks) /\ Range(z) = {q[i] : i \in zero \ first} /\ Unique(z)
  <2>1. first \in SUBSET (DOMAIN q) /\ zero \ first \in SUBSET (DOMAIN q)
    OBVIOUS
  <2>2. /\ \A i, j \in first : q[i] = q[j] => i = j
        /\ \A i, j \in zero \ first : q[i] = q[j] => i = j
    BY <1>6
  <2> HIDE DEF zero, first
  <2> QED BY <2>1, <2>2, KeepAtProperties
<1>8. /\ Range(a) \cap Range(z) = {}
      /\ Range(a) \cup Range(z) = {q[i] : i \in zero}
  <2>1. first \subseteq zero
    OBVIOUS
  <2> HIDE DEF zero, first, a, z
  <2> QED BY <1>6, <1>7, <2>1
<1> HIDE DEF f, a, z
<1>9. /\ free \in Seq(Blocks)
      /\ Range(free) = Range(p.free) \cup (Range(a) \cup Range(z))
      /\ (Unique(p.free) /\ Range(p.free) \cap (Range(a) \cup Range(z)) = {}) => Unique(free)
  <2> DEFINE old == p.free
             front == a \o old
  <2>1. a \in Seq(Blocks) /\ old \in Seq(Blocks) /\ z \in Seq(Blocks)
    BY <1>2, <1>7
  <2> HIDE DEF old
  <2>2. /\ front \in Seq(Blocks)
        /\ Range(front) = Range(a) \cup Range(old)
        /\ (Unique(a) /\ Unique(old) /\ Range(a) \cap Range(old) = {}) => Unique(front)
    BY <2>1, ConcatUnique
  <2>3. free = front \o z
    BY DEF old
  <2> HIDE DEF front
  <2>4. /\ front \o z \in Seq(Blocks)
        /\ Range(front \o z) = Range(front) \cup Range(z)
        /\ (Unique(front) /\ Unique(z) /\ Range(front) \cap Range(z) = {})
              => Unique(front \o z)
    BY <2>1, <2>2, ConcatUnique
  <2> HIDE DEF free
  <2> QED BY <1>7, <1>8, <2>2, <2>3, <2>4 DEF old
<1>10. ASSUME NEW b \in Blocks
       PROVE  b \in {q[i] : i \in zero} <=> b \in Range(q) /\ left[b] = 0
  <2>1. b \in {q[i] : i \in zero} => b \in Range(q) /\ left[b] = 0
    BY DEF Range
  <2>2. ASSUME b \in Range(q), left[b] = 0
        PROVE  b \in {q[i] : i \in zero}
    <3>1. PICK i \in DOMAIN q : q[i] = b /\ \A j \in DOMAIN q : j > i => q[j] # b
      BY <2>2, OccursProperties
    <3>2. i \in zero
      BY <2>2, <3>1
    <3> QED BY <3>1, <3>2
  <2> QED BY <2>1, <2>2
<1>11. {q[i] : i \in zero} \subseteq Blocks
  BY <1>5
<1> HIDE DEF free, zero, first
<1>12. /\ f.free = free /\ f.ref = left
       /\ f.hash = p.hash /\ f.more = p.more /\ f.cached = p.cached
  BY <1>1 DEF PoolRecord
<1>13. f \in PoolRecord
  <2> HIDE DEF left
  <2> QED BY <1>1, <1>4, <1>9 DEF PoolRecord
<1>14. CacheIndexExact(p) => CacheIndexExact(f)
  BY <1>12, IndexOfSameCache
<1>15. ASSUME FreeQueueExact(p), CanFreeBlocks(p, q)
       PROVE  FreeQueueExact(f)
  <2>1. /\ Unique(p.free) /\ Range(p.free) = {b \in Blocks : p.ref[b] = 0}
        /\ \A b \in Blocks : Occurs(q, b) <= p.ref[b]
    BY <1>15 DEF FreeQueueExact, CanFreeBlocks
  <2>2. \A b \in Blocks : left[b] = 0 <=> (p.ref[b] = 0 \/ (b \in Range(q) /\ left[b] = 0))
    BY <1>2, <1>3, <2>1
  <2>3. \A b \in Blocks : b \in Range(q) => p.ref[b] # 0
    BY <1>2, <1>3, <2>1
  <2> HIDE DEF left
  <2>4. Range(p.free) \cap {q[i] : i \in zero} = {}
    BY <1>10, <1>11, <2>1, <2>3
  <2>5. Unique(free)
    BY <1>8, <1>9, <2>1, <2>4
  <2>6. Range(free) = {b \in Blocks : left[b] = 0}
    BY <1>8, <1>9, <1>10, <1>11, <2>1, <2>2
  <2> QED BY <1>12, <2>5, <2>6 DEF FreeQueueExact
<1> QED BY <1>12, <1>13, <1>14, <1>15 DEF f, left

\* reset_prefix_cache.
LEMMA ResetProperties ==
    ASSUME NEW p \in PoolRecord, CacheIndexExact(p)
    PROVE  /\ ResetPrefixCache(p) \in PoolRecord
           /\ ResetPrefixCache(p).free = p.free
           /\ ResetPrefixCache(p).ref = p.ref
           /\ CacheIndexExact(ResetPrefixCache(p))
<1> DEFINE h == [b \in Blocks |-> NoKey]
           m == [b \in Blocks |-> {}]
           c == [k \in Keys |-> << >>]
           f == ResetPrefixCache(p)
<1>1. CASE ~CanResetPrefixCache(p)
  BY <1>1 DEF ResetPrefixCache
<1>2. CASE CanResetPrefixCache(p)
  <2>1. f = [p EXCEPT !.hash = h, !.more = m, !.cached = c]
    BY <1>2 DEF ResetPrefixCache
  <2>2. /\ h \in [Blocks -> Keys \cup {NoKey}]
        /\ m \in [Blocks -> SUBSET Keys]
        /\ c \in [Keys -> Seq(Blocks)]
    OBVIOUS
  <2>3. Range(<< >>) = {} /\ Unique(<< >>)
    BY DEF Range, Unique
  <2>4. /\ \A b \in Blocks : h[b] = NoKey /\ m[b] = {}
        /\ \A k \in Keys : c[k] = << >>
    OBVIOUS
  <2> HIDE DEF f, h, m, c
  <2>5. /\ f.free = p.free /\ f.ref = p.ref
        /\ f.hash = h /\ f.more = m /\ f.cached = c
        /\ f \in PoolRecord
    BY <2>1, <2>2 DEF PoolRecord
  <2>6. CacheIndexExact(f)
    BY <2>3, <2>4, <2>5 DEF CacheIndexExact, KeysOf
  <2> QED BY <2>5, <2>6 DEF f
<1> QED BY <1>1, <1>2

\* The pool of the constructor.
LEMMA PoolInitProperties ==
    /\ PoolInit \in PoolRecord
    /\ PoolInit.ref = [b \in Blocks |-> 0]
    /\ CacheIndexExact(PoolInit)
    /\ FreeQueueExact(PoolInit)
<1> DEFINE free == [i \in Blocks |-> i]
<1>1. NumBlocks \in Nat
  BY BlockPoolAssumption
<1>2. free \in Seq(Blocks)
  <2>1. free \in [1 .. NumBlocks -> Blocks]
    BY DEF Blocks
  <2> QED BY <1>1, <2>1, SeqDef
<1>3. PoolInit \in PoolRecord
  BY <1>2 DEF PoolInit, PoolRecord
<1>4. CacheIndexExact(PoolInit)
  <2>1. Range(<< >>) = {} /\ Unique(<< >>)
    BY DEF Range, Unique
  <2> QED BY <2>1 DEF CacheIndexExact, KeysOf, PoolInit
<1>5. FreeQueueExact(PoolInit)
  <2>1. Range(free) = Blocks /\ Unique(free)
    BY DEF Range, Unique
  <2> QED BY <2>1 DEF FreeQueueExact, PoolInit
<1> QED BY <1>3, <1>4, <1>5 DEF PoolInit

----------------------------------------------------------------------------
(* The order of a sequence.                                                *)

Precedes(q, a, b) == \E i, j \in DOMAIN q : i < j /\ q[i] = a /\ q[j] = b

\* The elements kept stay in their order, and are no more than there were.
LEMMA KeepAtOrder ==
    ASSUME NEW S, NEW q \in Seq(S), NEW I \in SUBSET (DOMAIN q)
    PROVE  /\ Len(KeepAt(q, I)) = Cardinality(I) /\ Cardinality(I) <= Len(q)
           /\ \A i, j \in I : i < j => Precedes(KeepAt(q, I), q[i], q[j])
<1> DEFINE c == Cardinality(I)
           At(n) == CHOOSE i \in I : Rank(I, i) = n
           k == KeepAt(q, I)
<1>1. Len(q) \in Nat /\ DOMAIN q = 1 .. Len(q)
  BY LenProperties
<1>2. /\ IsFiniteSet(I) /\ c \in Nat
      /\ \A i \in I : Rank(I, i) \in 1 .. c
      /\ \A i, j \in I : Rank(I, i) = Rank(I, j) => i = j
      /\ \A i, j \in I : i < j => Rank(I, i) < Rank(I, j)
  BY <1>1, RankBijective
<1>3. k = [n \in 1 .. c |-> q[At(n)]]
  BY DEF KeepAt, Rank
<1> HIDE DEF k
<1>4. \A i \in I : At(Rank(I, i)) = i
  BY <1>2
<1> HIDE DEF At, c
<1>5. DOMAIN k = 1 .. c /\ Len(k) = c /\ \A i \in I : k[Rank(I, i)] = q[i]
  BY <1>2, <1>3, <1>4
<1>6. c <= Len(q)
  <2> DEFINE n == Len(q)
  <2>1. n \in Nat /\ I \subseteq 1 .. n
    BY <1>1
  <2> HIDE DEF n
  <2>2. IsFiniteSet(1 .. n) /\ Cardinality(1 .. n) = n
    BY ONLY <2>1, FS_Interval
  <2>3. c <= n
    BY <2>1, <2>2, FS_Subset DEF c
  <2> QED BY <2>3 DEF n
<1>7. ASSUME NEW i \in I, NEW j \in I, i < j
      PROVE  Precedes(k, q[i], q[j])
  <2>1. Rank(I, i) \in DOMAIN k /\ Rank(I, j) \in DOMAIN k /\ Rank(I, i) < Rank(I, j)
    BY <1>2, <1>5, <1>7
  <2> QED BY <1>5, <2>1 DEF Precedes
<1> QED BY <1>5, <1>6, <1>7 DEF c, k

\* The elements kept keep their order, by value.
LEMMA KeepOrder ==
    ASSUME NEW B, NEW q \in Seq(B), NEW S
    PROVE  /\ Len(Keep(q, S)) <= Len(q)
           /\ \A a, b \in S : Precedes(q, a, b) => Precedes(Keep(q, S), a, b)
<1> DEFINE I == {i \in DOMAIN q : q[i] \in S}
<1>1. I \in SUBSET (DOMAIN q) /\ Keep(q, S) = KeepAt(q, I)
  BY DEF Keep
<1>2. ASSUME NEW a \in S, NEW b \in S, Precedes(q, a, b)
      PROVE  \E i, j \in I : i < j /\ q[i] = a /\ q[j] = b
  BY <1>2 DEF Precedes
<1> HIDE DEF I
<1>3. /\ Len(KeepAt(q, I)) = Cardinality(I) /\ Cardinality(I) <= Len(q)
      /\ \A i, j \in I : i < j => Precedes(KeepAt(q, I), q[i], q[j])
  BY <1>1, KeepAtOrder
<1> QED BY <1>1, <1>2, <1>3

\* Without its k-th element a sequence moves up from there.
LEMMA KeepAllBut ==
    ASSUME NEW B, NEW q \in Seq(B), Unique(q), NEW k \in DOMAIN q, NEW S,
           \A x \in B : x \in S <=> x # q[k]
    PROVE  /\ Len(Keep(q, S)) = Len(q) - 1
           /\ \A j \in 1 .. Len(q) : /\ j < k => Keep(q, S)[j] = q[j]
                                     /\ j > k => Keep(q, S)[j - 1] = q[j]
<1> DEFINE n == Len(q)
           I == {i \in DOMAIN q : q[i] \in S}
           At(m) == CHOOSE i \in I : Rank(I, i) = m
<1>1. n \in Nat /\ DOMAIN q = 1 .. n /\ \A i \in DOMAIN q : q[i] \in B
  BY LenProperties
<1>2. I = (1 .. n) \ {k} /\ k \in 1 .. n
  <2>1. \A i \in DOMAIN q : q[i] = q[k] => i = k
    BY DEF Unique
  <2> HIDE DEF n
  <2> QED BY <1>1, <2>1
<1>3. Keep(q, S) = [m \in 1 .. Cardinality(I) |-> q[At(m)]]
  BY DEF Keep, KeepAt, Rank
<1> HIDE DEF n, I
<1>4. /\ IsFiniteSet(I) /\ Cardinality(I) \in Nat
      /\ \A i \in I : Rank(I, i) \in 1 .. Cardinality(I)
      /\ \A i, j \in I : Rank(I, i) = Rank(I, j) => i = j
  <2>1. I \in SUBSET (1 .. n)
    BY <1>2
  <2> QED BY <1>1, <2>1, RankBijective
<1>5. Cardinality(I) = n - 1
  <2>1. IsFiniteSet(1 .. n) /\ Cardinality(1 .. n) = n
    BY <1>1, FS_Interval
  <2> QED BY <1>1, <1>2, <2>1, FS_RemoveElement
<1>6. \A i \in I : Rank(I, i) = IF i < k THEN i ELSE i - 1
  <2> SUFFICES ASSUME NEW i \in I PROVE Rank(I, i) = IF i < k THEN i ELSE i - 1
    OBVIOUS
  <2>1. IsFiniteSet(1 .. i) /\ Cardinality(1 .. i) = i /\ i \in Nat
    BY <1>2, FS_Interval
  <2>2. CASE i < k
    <3>1. {j \in I : j <= i} = 1 .. i
      BY <1>1, <1>2, <2>2
    <3> QED BY <2>1, <2>2, <3>1 DEF Rank
  <2>3. CASE ~(i < k)
    <3>1. {j \in I : j <= i} = (1 .. i) \ {k} /\ k \in 1 .. i
      BY <1>1, <1>2, <2>3
    <3>2. Cardinality((1 .. i) \ {k}) = i - 1
      BY <2>1, <3>1, FS_RemoveElement
    <3> QED BY <2>3, <3>1, <3>2 DEF Rank
  <2> QED BY <2>2, <2>3
<1>7. \A i \in I : At(Rank(I, i)) = i
  BY <1>4
<1> HIDE DEF At
<1>8. \A i \in I : Keep(q, S)[Rank(I, i)] = q[i]
  BY <1>3, <1>4, <1>7
<1>9. Len(Keep(q, S)) = n - 1
  BY <1>3, <1>4, <1>5
<1>10. ASSUME NEW j \in 1 .. n
       PROVE  /\ j < k => Keep(q, S)[j] = q[j]
              /\ j > k => Keep(q, S)[j - 1] = q[j]
  <2>1. CASE j = k
    BY <1>1, <1>2, <2>1
  <2>2. CASE j # k
    <3>1. j \in I
      BY <1>2, <2>2
    <3>2. Keep(q, S)[IF j < k THEN j ELSE j - 1] = q[j]
      BY <1>6, <1>8, <3>1
    <3> QED BY <1>1, <1>2, <2>2, <3>2
  <2> QED BY <2>1, <2>2
<1> QED BY <1>9, <1>10 DEF n

\* Concatenation keeps the order, and what stands in the first part comes first.
LEMMA ConcatOrder ==
    ASSUME NEW B, NEW a \in Seq(B), NEW b \in Seq(B), NEW x, NEW y
    PROVE  /\ Precedes(a, x, y) => Precedes(a \o b, x, y)
           /\ Precedes(b, x, y) => Precedes(a \o b, x, y)
           /\ x \in Range(a) /\ y \in Range(b) => Precedes(a \o b, x, y)
           /\ Precedes(a \o b, x, y) =>
                 Precedes(a, x, y) \/ Precedes(b, x, y) \/ (x \in Range(a) /\ y \in Range(b))
<1> DEFINE c == a \o b
<1>0. PICK m, n : m = Len(a) /\ n = Len(b)
  OBVIOUS
<1>1. m \in Nat /\ n \in Nat /\ DOMAIN a = 1 .. m /\ DOMAIN b = 1 .. n
  BY <1>0, LenProperties
<1>2. /\ c \in Seq(B) /\ Len(c) = m + n
      /\ \A i \in 1 .. m + n : c[i] = IF i <= m THEN a[i] ELSE b[i - m]
  BY <1>0, ConcatProperties
<1>3. DOMAIN c = 1 .. m + n
  BY <1>2, LenProperties
<1> HIDE DEF c
<1>4. \A i \in 1 .. m : i \in DOMAIN c /\ c[i] = a[i]
  <2>1. \A i \in 1 .. m : i \in 1 .. m + n /\ i <= m
    BY <1>1
  <2> QED BY <1>2, <1>3, <2>1
<1>5. \A i \in 1 .. n : m + i \in DOMAIN c /\ c[m + i] = b[i]
  <2>1. \A i \in 1 .. n : m + i \in 1 .. m + n /\ ~(m + i <= m) /\ (m + i) - m = i
    BY <1>1
  <2> QED BY <1>2, <1>3, <2>1
<1>6. ASSUME Precedes(a, x, y) PROVE Precedes(c, x, y)
  <2>1. PICK i \in DOMAIN a, j \in DOMAIN a : i < j /\ a[i] = x /\ a[j] = y
    BY <1>6 DEF Precedes
  <2> QED BY <1>1, <1>4, <2>1 DEF Precedes
<1>7. ASSUME Precedes(b, x, y) PROVE Precedes(c, x, y)
  <2>1. PICK i \in DOMAIN b, j \in DOMAIN b : i < j /\ b[i] = x /\ b[j] = y
    BY <1>7 DEF Precedes
  <2>2. m + i < m + j
    BY <1>1, <2>1
  <2> QED BY <1>1, <1>5, <2>1, <2>2 DEF Precedes
<1>8. ASSUME x \in Range(a), y \in Range(b) PROVE Precedes(c, x, y)
  <2>1. PICK i \in DOMAIN a, j \in DOMAIN b : a[i] = x /\ b[j] = y
    BY <1>8 DEF Range
  <2>2. i < m + j
    BY <1>1
  <2> QED BY <1>1, <1>4, <1>5, <2>1, <2>2 DEF Precedes
<1>9. ASSUME Precedes(c, x, y)
      PROVE  Precedes(a, x, y) \/ Precedes(b, x, y) \/ (x \in Range(a) /\ y \in Range(b))
  <2>1. PICK i \in 1 .. m + n, j \in 1 .. m + n : i < j /\ c[i] = x /\ c[j] = y
    BY <1>3, <1>9 DEF Precedes
  <2>2. CASE j <= m
    <3>1. i \in 1 .. m /\ j \in 1 .. m
      BY <1>1, <2>1, <2>2
    <3>2. a[i] = x /\ a[j] = y /\ i \in DOMAIN a /\ j \in DOMAIN a
      BY <1>1, <1>4, <2>1, <3>1
    <3>3. Precedes(a, x, y)
      BY <2>1, <3>2 DEF Precedes
    <3> QED BY <3>3
  <2>3. CASE ~(i <= m)
    <3>1. i - m \in 1 .. n /\ j - m \in 1 .. n /\ i - m < j - m /\ ~(j <= m)
      BY <1>1, <2>1, <2>3
    <3>2. b[i - m] = x /\ b[j - m] = y /\ i - m \in DOMAIN b /\ j - m \in DOMAIN b
      BY <1>1, <1>2, <2>1, <2>3, <3>1
    <3>3. Precedes(b, x, y)
      BY <3>1, <3>2 DEF Precedes
    <3> QED BY <3>3
  <2>4. CASE i <= m /\ ~(j <= m)
    <3>1. i \in 1 .. m /\ j - m \in 1 .. n
      BY <1>1, <2>4
    <3>2. a[i] = x /\ b[j - m] = y
      BY <1>2, <2>1, <2>4
    <3> QED BY <1>1, <3>1, <3>2 DEF Range
  <2> QED BY <2>2, <2>3, <2>4
<1> QED BY <1>6, <1>7, <1>8, <1>9 DEF c

\* A sequence is its first n elements and the rest.
LEMMA SplitConcat ==
    ASSUME NEW B, NEW q \in Seq(B), NEW n \in Nat, n <= Len(q)
    PROVE  q = SubSeq(q, 1, n) \o SubSeq(q, n + 1, Len(q))
<1>1. PICK m \in Nat : m = Len(q) /\ DOMAIN q = 1 .. m
  BY LenProperties
<1>2. SubSeq(q, 1, n) = [i \in 1 .. n |-> q[i]]
  BY <1>1
<1>3. SubSeq(q, n + 1, m) = [i \in 1 .. m - n |-> q[n + i]]
  BY <1>1
<1>4. PICK a, b : a = SubSeq(q, 1, n) /\ b = SubSeq(q, n + 1, m)
  OBVIOUS
<1>5. a \in Seq(B) /\ b \in Seq(B) /\ Len(a) = n /\ Len(b) = m - n
  <2>1. a \in Seq(B) /\ Len(a) = n /\ b \in Seq(B)
    BY <1>1, <1>4, SplitProperties
  <2>2. Len(b) = m - n
    BY <1>1, <1>3, <1>4
  <2> QED BY <2>1, <2>2
<1>6. /\ a \o b \in Seq(B) /\ Len(a \o b) = m
      /\ \A i \in 1 .. m : (a \o b)[i] = IF i <= n THEN a[i] ELSE b[i - n]
  <2>1. Len(a) + Len(b) = m
    BY <1>1, <1>5
  <2> QED BY <1>5, <2>1, ConcatProperties
<1>7. \A i \in 1 .. m : (a \o b)[i] = q[i]
  <2> SUFFICES ASSUME NEW i \in 1 .. m PROVE (a \o b)[i] = q[i]
    OBVIOUS
  <2>1. CASE i <= n
    BY <1>2, <1>4, <1>6, <2>1
  <2>2. CASE ~(i <= n)
    <3>1. i - n \in 1 .. m - n /\ n + (i - n) = i
      BY <1>1, <2>2
    <3>2. b[i - n] = q[i]
      BY <1>3, <1>4, <3>1
    <3> QED BY <1>6, <2>2, <3>2
  <2> QED BY <2>1, <2>2
<1>8. q = a \o b
  <2>1. PICK c : c = a \o b
    OBVIOUS
  <2>2. c \in Seq(B) /\ Len(c) = m /\ \A i \in 1 .. m : c[i] = q[i]
    BY <1>6, <1>7, <2>1
  <2>3. c = q
    BY <1>1, <2>2
  <2> QED BY <2>1, <2>3
<1> QED BY <1>1, <1>4, <1>8

\* Taking the first n elements away takes nothing before it takes what precedes it.
LEMMA SplitOrder ==
    ASSUME NEW B, NEW q \in Seq(B), Unique(q), NEW n \in Nat, n <= Len(q), NEW x, NEW y,
           Precedes(q, x, y), x \notin Range(SubSeq(q, 1, n))
    PROVE  Precedes(SubSeq(q, n + 1, Len(q)), x, y) /\ y \notin Range(SubSeq(q, 1, n))
<1>1. PICK a, b : a = SubSeq(q, 1, n) /\ b = SubSeq(q, n + 1, Len(q))
  OBVIOUS
<1>2. /\ a \in Seq(B) /\ b \in Seq(B) /\ q = a \o b
      /\ Range(a) \cap Range(b) = {}
  BY <1>1, SplitConcat, SplitProperties
<1>3. Precedes(a, x, y) => x \in Range(a)
  BY DEF Precedes, Range
<1>4. Precedes(b, x, y) => y \in Range(b)
  BY DEF Precedes, Range
<1>5. Precedes(a, x, y) \/ Precedes(b, x, y) \/ (x \in Range(a) /\ y \in Range(b))
  <2>1. Precedes(a \o b, x, y)
    BY <1>2
  <2>2. a \in Seq(B) /\ b \in Seq(B)
    BY <1>2
  <2> QED BY <2>1, <2>2, ConcatOrder
<1> QED BY <1>1, <1>2, <1>3, <1>4, <1>5
\* A sequence without repetition is as long as it has elements.
LEMMA UniqueLength ==
    ASSUME NEW B, NEW q \in Seq(B), Unique(q)
    PROVE  IsFiniteSet(Range(q)) /\ Cardinality(Range(q)) = Len(q)
<1>1. Len(q) \in Nat /\ DOMAIN q = 1 .. Len(q)
  BY LenProperties
<1>2. IsFiniteSet(1 .. Len(q)) /\ Cardinality(1 .. Len(q)) = Len(q)
  BY <1>1, FS_Interval
<1>3. [i \in 1 .. Len(q) |-> q[i]] \in Bijection(1 .. Len(q), Range(q))
  <2>1. \A i \in 1 .. Len(q) : q[i] \in Range(q)
    BY <1>1 DEF Range
  <2>2. \A x \in Range(q) : \E i \in 1 .. Len(q) : q[i] = x
    BY <1>1 DEF Range
  <2>3. \A i, j \in 1 .. Len(q) : q[i] = q[j] => i = j
    BY <1>1 DEF Unique
  <2> QED BY <2>1, <2>2, <2>3 DEF Bijection, Injection, Surjection, IsInjective
<1> QED BY <1>2, <1>3, FS_Bijection DEF ExistsBijection

----------------------------------------------------------------------------
(* The free queue and its order.                                           *)

\* The length of the free queue counts the blocks without a reference.
LEMMA FreeCount ==
    ASSUME NEW p \in PoolRecord, FreeQueueExact(p)
    PROVE  /\ IsFiniteSet({b \in Blocks : p.ref[b] = 0})
           /\ NumFree(p) = Cardinality({b \in Blocks : p.ref[b] = 0})
           /\ NumFree(p) \in Nat
<1>1. p.free \in Seq(Blocks) /\ Unique(p.free) /\ Range(p.free) = {b \in Blocks : p.ref[b] = 0}
  BY DEF PoolRecord, FreeQueueExact
<1>2. IsFiniteSet(Range(p.free)) /\ Cardinality(Range(p.free)) = Len(p.free) /\ Len(p.free) \in Nat
  BY <1>1, UniqueLength, LenProperties
<1> QED BY <1>1, <1>2 DEF NumFree

\* touch leaves the cache alone and the other free blocks in their order.
LEMMA TouchKeeps ==
    ASSUME NEW p \in PoolRecord, NEW S
    PROVE  /\ Touch(p, S).hash = p.hash /\ Touch(p, S).more = p.more
           /\ Touch(p, S).cached = p.cached
           /\ \A x, y \in Blocks : Precedes(p.free, x, y) /\ x \notin S /\ y \notin S
                                      => Precedes(Touch(p, S).free, x, y)
<1> DEFINE t == Touch(p, S)
           left == {b \in Blocks : ~(b \in S /\ p.ref[b] = 0)}
           free == Keep(p.free, left)
           ref == [b \in Blocks |-> IF b \in S THEN p.ref[b] + 1 ELSE p.ref[b]]
<1>1. t = [p EXCEPT !.free = free, !.ref = ref]
  BY DEF Touch
<1>2. p.free \in Seq(Blocks)
  BY DEF PoolRecord
<1>3. \A x, y \in left : Precedes(p.free, x, y) => Precedes(free, x, y)
  <2> HIDE DEF left
  <2> QED BY <1>2, KeepOrder
<1> HIDE DEF t, free, ref
<1>4. t.free = free /\ t.hash = p.hash /\ t.more = p.more /\ t.cached = p.cached
  BY <1>1 DEF PoolRecord
<1>5. \A x \in Blocks : x \notin S => x \in left
  OBVIOUS
<1> QED BY <1>3, <1>4, <1>5 DEF t

\* get_new_blocks takes the front of the queue and the keys of what it takes.
LEMMA GetNewBlocksKeeps ==
    ASSUME NEW p \in PoolRecord, CacheIndexExact(p), FreeQueueExact(p),
           NEW n \in Nat, CanGetNewBlocks(p, n)
    PROVE  /\ \A b \in Blocks :
                 IF b \in Range(NewBlocks(p, n))
                 THEN GetNewBlocks(p, n).hash[b] = NoKey /\ GetNewBlocks(p, n).more[b] = {}
                 ELSE /\ GetNewBlocks(p, n).hash[b] = p.hash[b]
                      /\ GetNewBlocks(p, n).more[b] = p.more[b]
           /\ \A x, y \in Blocks : Precedes(p.free, x, y) /\ x \notin Range(NewBlocks(p, n))
                 => /\ Precedes(GetNewBlocks(p, n).free, x, y)
                    /\ y \notin Range(NewBlocks(p, n))
<1> DEFINE a == NewBlocks(p, n)
           z == SubSeq(p.free, n + 1, Len(p.free))
           q == RemoveHashes(p, Range(a))
           g == GetNewBlocks(p, n)
           ref == [b \in Blocks |-> IF b \in Range(a) THEN p.ref[b] + 1 ELSE p.ref[b]]
<1>1. p.free \in Seq(Blocks) /\ n <= Len(p.free) /\ Unique(p.free)
  BY DEF PoolRecord, CanGetNewBlocks, NumFree, FreeQueueExact
<1>2. \A x, y \in Blocks : Precedes(p.free, x, y) /\ x \notin Range(a)
         => Precedes(z, x, y) /\ y \notin Range(a)
  <2> SUFFICES ASSUME NEW x \in Blocks, NEW y \in Blocks, Precedes(p.free, x, y),
                      x \notin Range(SubSeq(p.free, 1, n))
               PROVE  Precedes(z, x, y) /\ y \notin Range(SubSeq(p.free, 1, n))
    BY DEF NewBlocks
  <2> QED BY <1>1, SplitOrder
<1>3. /\ q \in PoolRecord
      /\ \A b \in Blocks : IF b \in Range(a) THEN q.hash[b] = NoKey /\ q.more[b] = {}
                           ELSE q.hash[b] = p.hash[b] /\ q.more[b] = p.more[b]
  <2> HIDE DEF a
  <2> QED BY RemoveHashesProperties
<1>4. g = [q EXCEPT !.free = z, !.ref = ref]
  BY DEF GetNewBlocks
<1> HIDE DEF a, z, q, g, ref
<1>5. g.free = z /\ g.hash = q.hash /\ g.more = q.more
  BY <1>3, <1>4 DEF PoolRecord
<1>6. \A b \in Blocks : IF b \in Range(a) THEN g.hash[b] = NoKey /\ g.more[b] = {}
                        ELSE g.hash[b] = p.hash[b] /\ g.more[b] = p.more[b]
  BY <1>3, <1>5
<1>7. \A x, y \in Blocks : Precedes(p.free, x, y) /\ x \notin Range(a)
         => Precedes(g.free, x, y) /\ y \notin Range(a)
  BY <1>2, <1>5
<1> QED BY <1>6, <1>7 DEF a, g

\* free_blocks of blocks named once: the cache stays; the free blocks stay in their
\* order, the cached blocks that become free follow them in the order given.
LEMMA FreeBlocksKeeps ==
    ASSUME NEW p \in PoolRecord, NEW q \in Seq(Blocks), Unique(q)
    PROVE  /\ FreeBlocks(p, q).hash = p.hash /\ FreeBlocks(p, q).more = p.more
           /\ FreeBlocks(p, q).cached = p.cached
           /\ \A x, y \in Blocks : Precedes(p.free, x, y) => Precedes(FreeBlocks(p, q).free, x, y)
           /\ \A x, y \in Blocks :
                 /\ y \in Range(q) /\ FreeBlocks(p, q).ref[y] = 0 /\ p.hash[y] # NoKey
                 /\ \/ x \in Range(p.free)
                    \/ Precedes(q, x, y) /\ FreeBlocks(p, q).ref[x] = 0 /\ p.hash[x] # NoKey
                 => Precedes(FreeBlocks(p, q).free, x, y)
<1> DEFINE f == FreeBlocks(p, q)
           left == [b \in Blocks |-> p.ref[b] - Occurs(q, b)]
           zero == {i \in DOMAIN q : /\ left[q[i]] = 0
                                     /\ \A j \in DOMAIN q : j > i => q[j] # q[i]}
           first == {i \in zero : p.hash[q[i]] = NoKey}
           a == KeepAt(q, first)
           z == KeepAt(q, zero \ first)
           free == a \o p.free \o z
<1>1. f = [p EXCEPT !.free = free, !.ref = left]
  BY DEF FreeBlocks
<1>2. p.free \in Seq(Blocks)
  BY DEF PoolRecord
<1>3. DOMAIN q = 1 .. Len(q) /\ Len(q) \in Nat /\ \A i \in DOMAIN q : q[i] \in Blocks
  BY LenProperties
<1>4. \A i \in DOMAIN q : left[q[i]] = 0 /\ p.hash[q[i]] # NoKey => i \in zero \ first
  <2>1. \A i, j \in DOMAIN q : j > i => q[j] # q[i]
    BY <1>3 DEF Unique
  <2> HIDE DEF left
  <2> QED BY <2>1
<1>5. first \in SUBSET (DOMAIN q) /\ zero \ first \in SUBSET (DOMAIN q)
  OBVIOUS
<1> HIDE DEF zero, first, left, f
<1>6. a \in Seq(Blocks)
  BY <1>5, KeepAtProperties
<1>7. /\ z \in Seq(Blocks)
      /\ \A i, j \in zero \ first : i < j => Precedes(z, q[i], q[j])
      /\ Range(z) = {q[i] : i \in zero \ first}
  BY <1>5, KeepAtProperties, KeepAtOrder
<1> HIDE DEF a, z
<1>8. PICK front : front = a \o p.free /\ front \in Seq(Blocks) /\ Range(front) = Range(a) \cup Range(p.free)
  BY <1>2, <1>6, ConcatUnique
<1>9. free = front \o z
  BY <1>8
<1>10. \A x, y : Precedes(p.free, x, y) => Precedes(front, x, y)
  BY <1>2, <1>6, <1>8, ConcatOrder
<1>11. \A x, y : /\ Precedes(front, x, y) \/ Precedes(z, x, y) => Precedes(free, x, y)
                 /\ x \in Range(front) /\ y \in Range(z) => Precedes(free, x, y)
  <2> HIDE DEF free
  <2> QED BY <1>7, <1>8, <1>9, ConcatOrder
<1> HIDE DEF free
<1>12. /\ f.free = free /\ f.ref = left
       /\ f.hash = p.hash /\ f.more = p.more /\ f.cached = p.cached
  BY <1>1 DEF PoolRecord
<1>13. ASSUME NEW x \in Blocks, NEW y \in Blocks, y \in Range(q), f.ref[y] = 0, p.hash[y] # NoKey,
              \/ x \in Range(p.free)
              \/ Precedes(q, x, y) /\ f.ref[x] = 0 /\ p.hash[x] # NoKey
       PROVE  Precedes(f.free, x, y)
  <2>1. CASE x \in Range(p.free)
    <3>1. PICK i \in DOMAIN q : q[i] = y
      BY <1>13 DEF Range
    <3>2. i \in zero \ first
      BY <1>4, <1>12, <1>13, <3>1
    <3>3. y \in Range(z)
      BY <1>7, <3>1, <3>2
    <3> QED BY <1>8, <1>11, <1>12, <2>1, <3>3
  <2>2. CASE Precedes(q, x, y) /\ f.ref[x] = 0 /\ p.hash[x] # NoKey
    <3>1. PICK i, j \in DOMAIN q : i < j /\ q[i] = x /\ q[j] = y
      BY <2>2 DEF Precedes
    <3>2. i \in zero \ first /\ j \in zero \ first
      BY <1>4, <1>12, <1>13, <2>2, <3>1
    <3>3. Precedes(z, x, y)
      BY <1>7, <3>1, <3>2
    <3> QED BY <1>11, <1>12, <3>3
  <2> QED BY <1>13, <2>1, <2>2
<1> QED BY <1>10, <1>11, <1>12, <1>13 DEF f

\* The order of the reversed sequence.
LEMMA ReversedOrder ==
    ASSUME NEW B, NEW q \in Seq(B), NEW i \in DOMAIN q, NEW j \in DOMAIN q, i < j
    PROVE  Precedes(Reversed(q), q[j], q[i])
<1>1. PICK n : n = Len(q)
  OBVIOUS
<1>2. n \in Nat /\ DOMAIN q = 1 .. n
  BY <1>1, LenProperties
<1>3. Reversed(q) = [k \in 1 .. n |-> q[n + 1 - k]]
  BY <1>1 DEF Reversed
<1>4. n + 1 - j \in 1 .. n /\ n + 1 - i \in 1 .. n /\ n + 1 - j < n + 1 - i
  BY <1>2
<1>5. n + 1 - (n + 1 - j) = j /\ n + 1 - (n + 1 - i) = i
  BY <1>2
<1>6. Reversed(q)[n + 1 - j] = q[j] /\ Reversed(q)[n + 1 - i] = q[i] /\ DOMAIN Reversed(q) = 1 .. n
  BY <1>3, <1>4, <1>5
<1> QED BY <1>4, <1>6 DEF Precedes

\* cache_full_blocks of several blocks: each is known under its key only, and the
\* two directions of the cache agree.
LEMMA CacheFullBlocksProperties ==
    ASSUME NEW p \in PoolRecord, NEW n \in Nat,
           NEW blks \in [1 .. n -> Blocks], NEW keys \in [1 .. n -> Keys], CacheIndexExact(p),
           \A i, j \in 1 .. n : blks[i] = blks[j] \/ keys[i] = keys[j] => i = j
    PROVE  /\ CacheFullBlocks(p, blks, keys) \in PoolRecord
           /\ CacheFullBlocks(p, blks, keys).free = p.free
           /\ CacheFullBlocks(p, blks, keys).ref = p.ref
           /\ CacheIndexExact(CacheFullBlocks(p, blks, keys))
           /\ \A i \in 1 .. n : /\ CacheFullBlocks(p, blks, keys).hash[blks[i]] = keys[i]
                                /\ CacheFullBlocks(p, blks, keys).more[blks[i]] = {}
           /\ \A b \in Blocks \ Range(blks) :
                 /\ CacheFullBlocks(p, blks, keys).hash[b] = p.hash[b]
                 /\ CacheFullBlocks(p, blks, keys).more[b] = p.more[b]
<1> DEFINE q == RemoveHashes(p, Range(blks))
           At(b) == CHOOSE i \in DOMAIN blks : blks[i] = b
           For(k) == CHOOSE i \in DOMAIN blks : keys[i] = k
           K == Range(keys)
           D == [k \in K |-> blks[For(k)]]
           hash == [b \in Blocks |-> IF b \in Range(blks) THEN keys[At(b)] ELSE q.hash[b]]
           cached == [k \in Keys |-> IF \E i \in DOMAIN blks : keys[i] = k
                                     THEN Append(q.cached[k], blks[For(k)]) ELSE q.cached[k]]
           c == CacheFullBlocks(p, blks, keys)
<1>1. c = [q EXCEPT !.hash = hash, !.cached = cached]
  BY DEF CacheFullBlocks
<1>2. DOMAIN blks = 1 .. n /\ DOMAIN keys = 1 .. n /\ Range(blks) \subseteq Blocks /\ K \in SUBSET Keys
  BY DEF Range
<1>3. /\ q \in PoolRecord /\ q.free = p.free /\ q.ref = p.ref /\ CacheIndexExact(q)
      /\ \A b \in Blocks : b \in Range(blks) => q.hash[b] = NoKey /\ q.more[b] = {}
      /\ \A b \in Blocks : b \notin Range(blks) => q.hash[b] = p.hash[b] /\ q.more[b] = p.more[b]
  BY RemoveHashesProperties
<1>4. \A i \in 1 .. n : At(blks[i]) = i /\ For(keys[i]) = i
  BY <1>2
<1>5. \A k \in K : \E i \in 1 .. n : keys[i] = k
  BY <1>2 DEF Range
<1>6. \A b \in Range(blks) : \E i \in 1 .. n : blks[i] = b
  BY <1>2 DEF Range
<1>7. \A i \in 1 .. n : blks[i] \in Range(blks) /\ keys[i] \in K /\ keys[i] \in Keys
  BY <1>2 DEF Range
<1> HIDE DEF q, At, For, K
<1>8. D \in [K -> Blocks] /\ \A i \in 1 .. n : D[keys[i]] = blks[i]
  BY <1>4, <1>5, <1>7
<1>9. /\ hash \in [Blocks -> Keys \cup {NoKey}]
      /\ \A i \in 1 .. n : hash[blks[i]] = keys[i]
      /\ \A b \in Blocks : b \notin Range(blks) => hash[b] = q.hash[b]
  <2>1. q.hash \in [Blocks -> Keys \cup {NoKey}]
    BY <1>3 DEF PoolRecord
  <2>2. \A b \in Range(blks) : keys[At(b)] \in Keys
    BY <1>4, <1>6, <1>7
  <2> QED BY <1>2, <1>4, <1>7, <2>1, <2>2
<1>10. \A k \in Keys : cached[k] = IF k \in K THEN Append(q.cached[k], D[k]) ELSE q.cached[k]
  BY <1>2, <1>5, <1>7
<1>11. cached \in [Keys -> Seq(Blocks)]
  <2>1. \A k \in Keys : q.cached[k] \in Seq(Blocks)
    BY <1>3 DEF PoolRecord
  <2>2. \A k \in K : D[k] \in Blocks
    BY <1>8
  <2>3. ASSUME NEW k \in Keys PROVE cached[k] \in Seq(Blocks)
    <3>1. PICK s \in Seq(Blocks) : s = q.cached[k]
      BY <2>1
    <3>2. k \in K => Append(s, D[k]) \in Seq(Blocks)
      BY <2>2
    <3> HIDE DEF cached, D
    <3> QED BY <1>10, <3>1, <3>2
  <2> QED BY <2>3
<1> HIDE DEF c, D, hash, cached
<1>12. /\ c \in PoolRecord /\ c.free = q.free /\ c.ref = q.ref /\ c.more = q.more
       /\ c.hash = hash /\ c.cached = cached
  BY <1>1, <1>3, <1>9, <1>11 DEF PoolRecord
<1>13. CacheIndexExact(c)
  <2>1. \A k \in K : k \notin KeysOf(q, D[k])
    <3>1. \A i \in 1 .. n : KeysOf(q, blks[i]) = {}
      BY <1>2, <1>3, <1>7 DEF KeysOf
    <3> QED BY <1>5, <1>8, <3>1
  <2>2. ASSUME NEW b \in Blocks
        PROVE  KeysOf(c, b) = KeysOf(q, b) \cup {k \in K : D[k] = b}
    <3>1. CASE b \in Range(blks)
      <4>1. PICK i \in 1 .. n : blks[i] = b
        BY <1>6, <3>1
      <4>2. KeysOf(q, b) = {} /\ KeysOf(c, b) = {keys[i]}
        <5>1. q.hash[b] = NoKey /\ q.more[b] = {} /\ c.hash[b] = keys[i] /\ c.more[b] = {}
          BY <1>3, <1>9, <1>12, <3>1, <4>1
        <5>2. keys[i] # NoKey
          BY <1>7, BlockPoolAssumption
        <5> QED BY <5>1, <5>2 DEF KeysOf
      <4>3. {k \in K : D[k] = b} = {keys[i]}
        BY <1>5, <1>7, <1>8, <4>1
      <4> QED BY <4>2, <4>3
    <3>2. CASE b \notin Range(blks)
      <4>1. {k \in K : D[k] = b} = {}
        BY <1>5, <1>7, <1>8, <3>2
      <4>2. KeysOf(c, b) = KeysOf(q, b)
        BY <1>9, <1>12, <3>2 DEF KeysOf
      <4> QED BY <4>1, <4>2
    <3> QED BY <3>1, <3>2
  <2>3. \A b \in Blocks : /\ c.hash[b] \notin c.more[b]
                          /\ c.hash[b] = NoKey => c.more[b] = {}
    <3>1. \A b \in Blocks : q.hash[b] \notin q.more[b] /\ (q.hash[b] = NoKey => q.more[b] = {})
      BY <1>3 DEF CacheIndexExact
    <3>2. \A b \in Range(blks) : c.more[b] = {}
      BY <1>2, <1>3, <1>12
    <3>3. \A b \in Blocks : b \notin Range(blks) => c.hash[b] = q.hash[b] /\ c.more[b] = q.more[b]
      BY <1>9, <1>12
    <3> QED BY <3>1, <3>2, <3>3
  <2>4. \A k \in Keys : c.cached[k] = IF k \in K THEN Append(q.cached[k], D[k]) ELSE q.cached[k]
    BY <1>10, <1>12
  <2>5. /\ q \in PoolRecord /\ CacheIndexExact(q) /\ c \in PoolRecord
        /\ K \in SUBSET Keys /\ D \in [K -> Blocks]
    BY <1>2, <1>3, <1>8, <1>12
  <2> QED BY ONLY <2>1, <2>2, <2>3, <2>4, <2>5, InsertedIndex
<1>14. \A i \in 1 .. n : c.hash[blks[i]] = keys[i] /\ c.more[blks[i]] = {}
  BY <1>2, <1>3, <1>7, <1>9, <1>12
<1>15. \A b \in Blocks \ Range(blks) : c.hash[b] = p.hash[b] /\ c.more[b] = p.more[b]
  BY <1>3, <1>9, <1>12
<1> QED BY <1>3, <1>12, <1>13, <1>14, <1>15 DEF c

\* What is cached under a key is a block with that key.
LEMMA CachedHas ==
    ASSUME NEW p \in PoolRecord, CacheIndexExact(p), NEW k \in Keys
    PROVE  /\ IsCached(p, k) <=> \E b \in Blocks : k \in KeysOf(p, b)
           /\ IsCached(p, k) => GetOneBlock(p, k) \in Blocks /\ k \in KeysOf(p, GetOneBlock(p, k))
<1>1. p.cached[k] \in Seq(Blocks) /\ Range(p.cached[k]) = {b \in Blocks : k \in KeysOf(p, b)}
  BY DEF PoolRecord, CacheIndexExact
<1>2. PICK q \in Seq(Blocks) : q = p.cached[k]
  BY <1>1
<1>3. q # << >> => Head(q) \in Range(q)
  <2>1. q # << >> => 1 \in DOMAIN q /\ Head(q) = q[1]
    BY EmptySeq, LenProperties
  <2> QED BY <2>1 DEF Range
<1>4. q = << >> => Range(q) = {}
  BY DEF Range
<1> QED BY <1>1, <1>2, <1>3, <1>4 DEF IsCached, GetOneBlock
=============================================================================
