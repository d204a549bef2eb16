------------------------------ MODULE BlockPool ------------------------------
(***************************************************************************)
(* The KV-cache block pool of the engine core: block_pool.py (BlockPool,   *)
(* BlockHashToBlockMap) over the free list of kv_cache_utils.py.           *)
(*                                                                         *)
(* The pool is a value p, and every method is an operator that returns the *)
(* pool after the call, so that a caller which makes several calls in one  *)
(* handler composes them.  The methods that raise or assert have a         *)
(* companion Can... operator that says when they do not.                   *)
(*                                                                         *)
(*   p.free    the free queue, next block to allocate first                *)
(*   p.ref     ref_cnt of each block                                       *)
(*   p.hash    the primary block_hash of each block, or NoKey              *)
(*   p.more    cached_block_hashes_by_block: the additional keys of a block*)
(*   p.cached  cached_block_hash_to_block: the blocks of a key, the first  *)
(*             inserted first                                              *)
(*                                                                         *)
(* A key stands for a BlockHashWithGroupId: the chained hash of a prefix of*)
(* tokens in one KV-cache group.  Block 0, the null block, is popped from  *)
(* the free list by the constructor, is never returned to it and its       *)
(* ref_cnt is not maintained, so it is left out: Blocks are the others.    *)
(***************************************************************************)
EXTENDS Naturals, Sequences, FiniteSets, Functions

CONSTANTS
    NumBlocks,      \* usable blocks: num_gpu_blocks without the null block
    Keys,           \* the keys of the prefix cache
    KeyTokens,      \* the number of prefix tokens a key covers
    NoKey           \* block_hash = None

ASSUME BlockPoolAssumption ==
    /\ NumBlocks \in Nat \ {0}
    /\ NoKey \notin Keys
    /\ KeyTokens \in [Keys -> Nat]

Blocks == 1 .. NumBlocks

\* The elements of q at the indices I, and those that are in S, in the order
\* of q.  (Not SelectSeq: a definition without recursion is one the proofs can
\* expand.)
KeepAt(q, I) ==
    LET Rank(i) == Cardinality({j \in I : j <= i})
    IN  [n \in 1 .. Cardinality(I) |-> q[CHOOSE i \in I : Rank(i) = n]]
Keep(q, S) == KeepAt(q, {i \in DOMAIN q : q[i] \in S})

\* q[n], q[n-1], ..., q[1]
Reversed(q) == [i \in 1 .. Len(q) |-> q[Len(q) + 1 - i]]

Unique(q) == \A i, j \in DOMAIN q : q[i] = q[j] => i = j
Occurs(q, b) == Cardinality({i \in DOMAIN q : q[i] = b})

PoolInit ==
    [free   |-> [i \in Blocks |-> i],
     ref    |-> [b \in Blocks |-> 0],
     hash   |-> [b \in Blocks |-> NoKey],
     more   |-> [b \in Blocks |-> {}],
     cached |-> [k \in Keys |-> << >>]]

----------------------------------------------------------------------------
(* The prefix cache.                                                       *)

KeysOf(p, b) == p.more[b] \cup ({p.hash[b]} \ {NoKey})

\* get_one_block: any duplicate will do, the first inserted is returned.
IsCached(p, k)  == p.cached[k] # << >>
GetOneBlock(p, k) == Head(p.cached[k])

\* _remove_cached_block_hashes for every block of S: each key of a block gives
\* up that block and the other blocks stay under the key.
RemoveHashes(p, S) ==
    [p EXCEPT !.hash   = [b \in Blocks |-> IF b \in S THEN NoKey ELSE p.hash[b]],
              !.more   = [b \in Blocks |-> IF b \in S THEN {} ELSE p.more[b]],
              !.cached = [k \in Keys |->
                  Keep(p.cached[k],
                       {b \in Blocks : ~(b \in S /\ k \in KeysOf(p, b))})]]

\* _insert_block_hash: the first key of a block is its primary one, the rest
\* are kept beside it.  A key the block already has is not inserted again.
InsertHash(p, b, k) ==
    IF p.hash[b] = k \/ b \in Range(p.cached[k])
    THEN p
    ELSE [p EXCEPT !.hash[b]   = IF p.hash[b] = NoKey THEN k ELSE @,
                   !.more[b]   = IF p.hash[b] = NoKey THEN @ ELSE @ \cup {k},
                   !.cached[k] = Append(@, b)]

\* The assertion of cache_full_blocks: a "new full block" that already has a
\* hash is a partial entry about to be promoted.
CanCacheFull(p, blks, keys) ==
    \A i \in DOMAIN blks :
        p.hash[blks[i]] # NoKey => KeyTokens[p.hash[blks[i]]] < KeyTokens[keys[i]]

\* cache_full_blocks: blks[i], a full block, becomes reachable under keys[i]
\* only.  The blocks and the keys of one call are distinct.
CacheFullBlocks(p, blks, keys) ==
    LET q == RemoveHashes(p, Range(blks))
        At(b) == CHOOSE i \in DOMAIN blks : blks[i] = b
        For(k) == CHOOSE i \in DOMAIN blks : keys[i] = k
    IN  [q EXCEPT !.hash   = [b \in Blocks |->
                      IF b \in Range(blks) THEN keys[At(b)] ELSE q.hash[b]],
                  !.cached = [k \in Keys |->
                      IF \E i \in DOMAIN blks : keys[i] = k
                      THEN Append(q.cached[k], blks[For(k)])
                      ELSE q.cached[k]]]

\* cache_partial_block: a boundary inside the block.  A longer boundary takes
\* the place of everything the block was known under, a shorter one is added.
CachePartialBlock(p, b, k) ==
    IF /\ ~(p.hash[b] = k \/ b \in Range(p.cached[k]))
       /\ p.hash[b] # NoKey
       /\ KeyTokens[p.hash[b]] < KeyTokens[k]
    THEN InsertHash(RemoveHashes(p, {b}), b, k)
    ELSE InsertHash(p, b, k)

\* Fault: the additional keys of the source are not recorded for the copy.
MoveBlockHashesPrimaryOnly(p, src, dst) ==
    LET q == RemoveHashes(p, {src})
    IN  [q EXCEPT !.hash[dst] = p.hash[src],
                  !.cached    = [k \in Keys |->
                      IF k \in KeysOf(p, src) THEN Append(q.cached[k], dst) ELSE q.cached[k]]]

\* move_block_hashes: the private copy dst takes over every entry of src.
CanMoveBlockHashes(p, dst) == p.hash[dst] = NoKey /\ p.more[dst] = {}
MoveBlockHashes(p, src, dst) ==
    LET q == RemoveHashes(p, {src})
        moved == KeysOf(p, src)
    IN  [q EXCEPT !.hash[dst] = p.hash[src],
                  !.more[dst] = p.more[src],
                  !.cached    = [k \in Keys |->
                      IF k \in moved THEN Append(q.cached[k], dst) ELSE q.cached[k]]]

\* evict_blocks: the blocks leave the prefix cache and stay where they are.
EvictBlocks(p, S) == RemoveHashes(p, S)

\* reset_prefix_cache: refused while any block is in use.
CanResetPrefixCache(p) == Len(p.free) = NumBlocks
ResetPrefixCache(p) ==
    IF CanResetPrefixCache(p)
    THEN [p EXCEPT !.hash   = [b \in Blocks |-> NoKey],
                   !.more   = [b \in Blocks |-> {}],
                   !.cached = [k \in Keys |-> << >>]]
    ELSE p

----------------------------------------------------------------------------
(* Allocation.                                                             *)

NumFree(p) == Len(p.free)

\* get_new_blocks raises ValueError when the pool is short.
CanGetNewBlocks(p, n) == n <= NumFree(p)
NewBlocks(p, n) == SubSeq(p.free, 1, n)

\* Fault: the blocks stay in the queue.
GetNewBlocksUnpopped(p, n) ==
    LET got == Range(NewBlocks(p, n))
    IN  [RemoveHashes(p, got) EXCEPT
            !.ref = [b \in Blocks |-> IF b \in got THEN p.ref[b] + 1 ELSE p.ref[b]]]

\* get_new_blocks: pop the front of the queue, evict what those blocks cached.
GetNewBlocks(p, n) ==
    LET got == Range(NewBlocks(p, n))
        q == RemoveHashes(p, got)
    IN  [q EXCEPT !.free = SubSeq(p.free, n + 1, Len(p.free)),
                  !.ref  = [b \in Blocks |->
                               IF b \in got THEN p.ref[b] + 1 ELSE p.ref[b]]]

\* Faults: a hit on an unused block leaves it in the queue, or is not counted.
TouchUnpopped(p, S) ==
    [p EXCEPT !.ref = [b \in Blocks |-> IF b \in S THEN p.ref[b] + 1 ELSE p.ref[b]]]
TouchUncounted(p, S) ==
    [p EXCEPT !.free = Keep(p.free, {b \in Blocks : ~(b \in S /\ p.ref[b] = 0)})]

\* touch: a block nobody holds also leaves the free queue.
Touch(p, S) ==
    [p EXCEPT !.free = Keep(p.free, {b \in Blocks : ~(b \in S /\ p.ref[b] = 0)}),
              !.ref  = [b \in Blocks |->
                           IF b \in S THEN p.ref[b] + 1 ELSE p.ref[b]]]

\* free_blocks: one reference less for every occurrence in q.  A block whose
\* count reaches zero goes to the front of the queue when nothing is cached in
\* it and to the back when something is; each end receives its blocks in the
\* order they reached zero, the first evicted first.
CanFreeBlocks(p, q) == \A b \in Blocks : Occurs(q, b) <= p.ref[b]
FreeBlocks(p, q) ==
    LET left  == [b \in Blocks |-> p.ref[b] - Occurs(q, b)]
        zero  == {i \in DOMAIN q : /\ left[q[i]] = 0
                                   /\ \A j \in DOMAIN q : j > i => q[j] # q[i]}
        first == {i \in zero : p.hash[q[i]] = NoKey}
    IN  [p EXCEPT !.free = KeepAt(q, first) \o p.free \o KeepAt(q, zero \ first),
                  !.ref  = left]

----------------------------------------------------------------------------
(* What the pool keeps true of itself.                                     *)

PoolTypeOK(p) ==
    /\ p.free \in Seq(Blocks)
    /\ p.ref \in [Blocks -> Nat]
    /\ p.hash \in [Blocks -> Keys \cup {NoKey}]
    /\ p.more \in [Blocks -> SUBSET Keys]
    /\ p.cached \in [Keys -> Seq(Blocks)]

\* The free queue holds every block with no reference, once, and no other.
FreeQueueExact(p) ==
    /\ Unique(p.free)
    /\ Range(p.free) = {b \in Blocks : p.ref[b] = 0}

\* The map from keys to blocks and the keys of each block say the same; the
\* primary key of a block is not also one of its additional keys, and a block
\* with additional keys has a primary one.
CacheIndexExact(p) ==
    /\ \A k \in Keys :
          /\ Unique(p.cached[k])
          /\ Range(p.cached[k]) = {b \in Blocks : k \in KeysOf(p, b)}
    /\ \A b \in Blocks :
          /\ p.hash[b] \notin p.more[b]
          /\ p.hash[b] = NoKey => p.more[b] = {}

PoolInv(p) == PoolTypeOK(p) /\ FreeQueueExact(p) /\ CacheIndexExact(p)
=============================================================================
