--------------------------- MODULE BlockPoolClients ---------------------------
(***************************************************************************)
(* The block pool and the managers that share it: what the single-type     *)
(* managers of single_type_kv_cache_manager.py may do to the pool on behalf*)
(* of requests, in any order.  A request holds the blocks of its table     *)
(* (req_to_blocks); a copy-on-write that the worker has not run yet holds  *)
(* both of its endpoints (_pending_cow_copies).                            *)
(***************************************************************************)
EXTENDS BlockPool

CONSTANTS
    Requests,
    BlockSize,      \* tokens of a cache block
    MaxTable,       \* bound: the longest table
    MaxCopies       \* bound: pending copies

ASSUME BlockPoolClientsAssumption ==
    /\ IsFiniteSet(Requests)
    /\ BlockSize \in Nat \ {0}

VARIABLES
    pool,
    table,          \* req_to_blocks
    copies          \* _pending_cow_copies: << source, private copy >>

vars == << pool, table, copies >>

Init ==
    /\ pool = PoolInit
    /\ table = [r \in Requests |-> << >>]
    /\ copies = << >>

\* allocate_new_blocks: the table grows by n blocks.
AllocateNewBlocks(r, n) ==
    /\ CanGetNewBlocks(pool, n)
    /\ Len(table[r]) + n <= MaxTable
    /\ pool' = GetNewBlocks(pool, n)
    /\ table' = [table EXCEPT ![r] = @ \o NewBlocks(pool, n)]
    /\ UNCHANGED copies

\* add_local_computed_blocks: a prefix-cache hit on the block of k.
AddLocalComputedBlock(r, k) ==
    /\ Len(table[r]) < MaxTable
    /\ IsCached(pool, k)
    /\ GetOneBlock(pool, k) \notin Range(table[r])
    /\ pool' = Touch(pool, {GetOneBlock(pool, k)})
    /\ table' = [table EXCEPT ![r] = Append(@, GetOneBlock(pool, k))]
    /\ UNCHANGED copies

\* cache_blocks / cache_full_blocks on block i of the table.
CacheFull(r, i, k) ==
    /\ KeyTokens[k] % BlockSize = 0
    /\ CanCacheFull(pool, << table[r][i] >>, << k >>)
    /\ pool' = CacheFullBlocks(pool, << table[r][i] >>, << k >>)
    /\ UNCHANGED << table, copies >>

\* _cache_partial_tail_block on block i of the table.
CachePartial(r, i, k) ==
    /\ KeyTokens[k] % BlockSize # 0
    /\ pool' = CachePartialBlock(pool, table[r][i], k)
    /\ UNCHANGED << table, copies >>

\* Fault: the pending copy holds no reference on its destination.
CopyOnWriteUnretained(r, i) ==
    LET cow == NewBlocks(pool, 1)[1]
    IN  /\ Len(copies) < MaxCopies
        /\ CanGetNewBlocks(pool, 1)
        /\ pool.hash[table[r][i]] # NoKey
        /\ pool' = GetNewBlocks(pool, 1)
        /\ table' = [table EXCEPT ![r][i] = cow]
        /\ copies' = Append(copies, << table[r][i], cow >>)

\* allocate_new_blocks after a partial hit, _apply_cow: the request leaves the
\* shared block for a private one.  The source keeps the reference of the hit
\* and the copy takes one beyond the request's.
CopyOnWrite(r, i) ==
    LET src == table[r][i]
        cow == NewBlocks(pool, 1)[1]
    IN  /\ Len(copies) < MaxCopies
        /\ CanGetNewBlocks(pool, 1)
        /\ pool.hash[src] # NoKey
        /\ pool' = Touch(GetNewBlocks(pool, 1), {cow})
        /\ table' = [table EXCEPT ![r][i] = cow]
        /\ copies' = Append(copies, << src, cow >>)

\* allocate_new_blocks of a running "align" request: the request stays on the
\* block it goes on writing and the cache moves to a private copy.
CopyAndMove(r, i) ==
    LET src == table[r][i]
        cow == NewBlocks(pool, 1)[1]
    IN  /\ Len(copies) < MaxCopies
        /\ CanGetNewBlocks(pool, 1)
        /\ pool.hash[src] # NoKey
        /\ pool' = Touch(MoveBlockHashes(GetNewBlocks(pool, 1), src, cow), {src})
        /\ copies' = Append(copies, << src, cow >>)
        /\ UNCHANGED table

\* take_kv_cache_block_copies and _free_cow_retained_blocks: both endpoints of
\* every copy are given back in one call.
Endpoints(c) == [i \in 1 .. 2 * Len(c) |-> c[(i + 1) \div 2][2 - (i % 2)]]
TakeBlockCopies ==
    /\ copies # << >>
    /\ pool' = FreeBlocks(pool, Endpoints(copies))
    /\ copies' = << >>
    /\ UNCHANGED table

\* free: the tail of the table is evicted first.
Free(r) ==
    /\ table[r] # << >>
    /\ pool' = FreeBlocks(pool, Reversed(table[r]))
    /\ table' = [table EXCEPT ![r] = << >>]
    /\ UNCHANGED copies

Evict(b) ==
    /\ pool' = EvictBlocks(pool, {b})
    /\ UNCHANGED << table, copies >>

Reset ==
    /\ CanResetPrefixCache(pool)
    /\ pool' = ResetPrefixCache(pool)
    /\ UNCHANGED << table, copies >>

Next ==
    \/ \E r \in Requests :
          \/ \E n \in 1 .. 2 : AllocateNewBlocks(r, n)
          \/ \E k \in Keys : AddLocalComputedBlock(r, k)
          \/ \E i \in DOMAIN table[r] :
                \/ \E k \in Keys : CacheFull(r, i, k) \/ CachePartial(r, i, k)
                \/ CopyOnWrite(r, i)
                \/ CopyAndMove(r, i)
          \/ Free(r)
    \/ TakeBlockCopies
    \/ \E b \in Blocks : Evict(b)
    \/ Reset

Spec == Init /\ [][Next]_vars

----------------------------------------------------------------------------
Holds(r, b) == b \in Range(table[r])

TypeOK ==
    /\ PoolTypeOK(pool)
    /\ table \in [Requests -> Seq(Blocks)]
    /\ copies \in Seq(Blocks \X Blocks)

\* No table names a block twice: each reference of a request is one block.
TablesUnique == \A r \in Requests : Unique(table[r])

\* The free queue is exactly the blocks without a reference, whatever order
\* tables, hits, copies and evictions come in (ref_cnt and free_block_queue of
\* block_pool.py are updated apart).
FreeIsUnreferenced == FreeQueueExact(pool)

\* The two directions of the prefix cache agree (cached_block_hash_to_block,
\* and block_hash with cached_block_hashes_by_block), so that evicting a block
\* leaves no key that still leads to it.
IndexAgrees == CacheIndexExact(pool)

\* Every reference is one table entry or one endpoint of a pending copy: none
\* is leaked and none is given back twice (touch, get_new_blocks, _apply_cow,
\* free_blocks).
RefsAccounted ==
    \A b \in Blocks :
        pool.ref[b] = Cardinality({r \in Requests : Holds(r, b)})
                      + Occurs(Endpoints(copies), b)
=============================================================================
