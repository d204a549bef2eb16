---------------------------- MODULE KVCacheManager ----------------------------
(***************************************************************************)
(* kv_cache_manager.py over one full-attention group (KVCacheManager, the  *)
(* unitary coordinator, FullAttentionManager with hash_block_size equal to *)
(* block_size).  A manager is a value m:                                   *)
(*                                                                         *)
(*   m.pool       the block pool                                           *)
(*   m.table      req_to_blocks                                            *)
(*   m.numCached  num_cached_block, 0 for a request that is not tracked    *)
(*   m.blocked    _reserve_blocked: attempts refused by the admission      *)
(*                reserve alone, counted up to ReserveAge, where it stops  *)
(*                to matter                                                *)
(*                                                                         *)
(* The tokens of a request are known to the model by their prefixes:       *)
(* Prefix[r][p] is the identity of the first p tokens of r, prompt and     *)
(* output, so that two requests share the KV of position p exactly when    *)
(* they have the same prefix there.  The key of block i is the prefix that *)
(* ends with it (the chained block hash).                                  *)
(***************************************************************************)
EXTENDS BlockPool

CONSTANTS
    Requests,
    Prefix,             \* [Requests -> Seq(Keys)]
    BlockSize,
    MaxModelLen,
    Watermark,          \* watermark_blocks
    Reserve,            \* mamba_state_reserve, VLLM_MAMBA_STATE_PROTECT
    ReserveAge,         \* mamba_reserve_age, VLLM_MAMBA_STATE_PROTECT_AGE
    FullSequenceMustFit \* scheduler_reserve_full_isl

ASSUME KVCacheManagerAssumption ==
    /\ IsFiniteSet(Requests) /\ Prefix \in [Requests -> Seq(Keys)]
    /\ BlockSize \in Nat \ {0}
    /\ MaxModelLen \in Nat
    /\ Watermark \in Nat /\ Reserve \in Nat /\ ReserveAge \in Nat
    /\ FullSequenceMustFit \in BOOLEAN

\* Block hashes are chained: equal prefixes have equal beginnings.
ASSUME PrefixAssumption ==
    \A r, s \in Requests : \A p \in DOMAIN Prefix[r], q \in DOMAIN Prefix[s] :
        Prefix[r][p] = Prefix[s][q] =>
            p = q /\ \A i \in 1 .. p : Prefix[r][i] = Prefix[s][i]

Lesser(a, b) == IF a < b THEN a ELSE b
Greater(a, b) == IF a < b THEN b ELSE a
CDiv(a, b) == (a + b - 1) \div b

BlockKey(r, i) == Prefix[r][i * BlockSize]
BlockKeys(r, from, to) == [i \in 1 .. to - from |-> BlockKey(r, from + i)]

ManagerInit ==
    [pool      |-> PoolInit,
     table     |-> [r \in Requests |-> << >>],
     numCached |-> [r \in Requests |-> 0],
     blocked   |-> [r \in Requests |-> 0]]

\* find_longest_cache_hit: the longest run of cached full blocks from the
\* start that leaves at least one token of numTokens to compute.
HitLength(m, r, numTokens) ==
    LET most == (numTokens - 1) \div BlockSize
    IN  CHOOSE n \in 0 .. most :
            /\ \A i \in 1 .. n : IsCached(m.pool, BlockKey(r, i))
            /\ n < most => ~IsCached(m.pool, BlockKey(r, n + 1))
GetComputedBlocks(m, r, numTokens) ==
    [i \in 1 .. HitLength(m, r, numTokens) |-> GetOneBlock(m.pool, BlockKey(r, i))]

\* get_num_blocks_to_allocate: new blocks, and the hits nobody holds, which
\* leave the free queue when the request takes them.
NumBlocksToAllocate(m, r, numTokens, hits) ==
    Greater(CDiv(numTokens, BlockSize) - (Len(hits) + Len(m.table[r])), 0)
    + Cardinality({i \in DOMAIN hits : m.pool.ref[hits[i]] = 0})

\* allocate_slots.  c is the call: c.req, c.numTokens (request.num_tokens),
\* c.computed (request.num_computed_tokens), c.new, c.hits, c.external,
\* c.lookahead, c.waiting (status WAITING or PREEMPTED), c.hasRunning,
\* c.delay (delay_cache_blocks), c.reserved (reserved_blocks).
LocalComputed(c) == c.computed + Len(c.hits) * BlockSize
TotalComputed(c) == Lesser(LocalComputed(c) + c.external, MaxModelLen)
TokensNeedSlot(c) == Lesser(TotalComputed(c) + c.new + c.lookahead, MaxModelLen)
WatermarkBlocks(c) == IF c.waiting /\ c.hasRunning THEN Watermark ELSE 0

\* Fault: the reserve never gives way.
ReserveNeverAges(m, r) == FALSE

\* The reserve asks for more than the demand on a first allocation, until the
\* request was refused ReserveAge times by the reserve alone.
ReserveAgedOut(m, r) ==
    Reserve > 0 /\ ReserveAge > 0 /\ m.blocked[r] >= ReserveAge
StateReserve(m, c) ==
    IF m.table[c.req] = << >> /\ ~ReserveAgedOut(m, c.req) THEN Reserve ELSE 0

FullDemand(m, c) ==
    NumBlocksToAllocate(m, c.req, Lesser(c.numTokens, MaxModelLen), c.hits)
StepDemand(m, c) == NumBlocksToAllocate(m, c.req, TokensNeedSlot(c), c.hits)

\* The two admission gates, each with the part of it that is not the reserve.
GateFull(m, c) ==
    IF c.waiting /\ FullSequenceMustFit THEN FullDemand(m, c) + WatermarkBlocks(c) ELSE 0
GateStep(m, c) ==
    WatermarkBlocks(c) + IF StateReserve(m, c) > 0
                         THEN Greater(StepDemand(m, c), FullDemand(m, c))
                         ELSE StepDemand(m, c)
PassesFull(m, c, reserve) ==
    c.waiting /\ FullSequenceMustFit => GateFull(m, c) + reserve <= NumFree(m.pool)
PassesStep(m, c, reserve) ==
    GateStep(m, c) + reserve + c.reserved <= NumFree(m.pool)

CanAllocateSlots(m, c) ==
    /\ PassesFull(m, c, StateReserve(m, c))
    /\ PassesStep(m, c, StateReserve(m, c))

\* A refusal feeds the aging escape when the gate that refused would have let
\* the request through without the reserve.
RefuseSlots(m, c) ==
    LET soleReason == IF ~PassesFull(m, c, StateReserve(m, c))
                      THEN PassesFull(m, c, 0)
                      ELSE PassesStep(m, c, 0)
    IN  IF StateReserve(m, c) > 0 /\ soleReason
        THEN [m EXCEPT !.blocked[c.req] = Lesser(@ + 1, ReserveAge)]
        ELSE m

\* Touch and adopt the hits, take the new blocks (those of the external tokens
\* first), cache the blocks that the finalized tokens of this call fill unless
\* they are still to be loaded.
AdoptedTable(m, c) == m.table[c.req] \o c.hits
NumNewBlocks(m, c) ==
    Greater(CDiv(TokensNeedSlot(c), BlockSize) - Len(AdoptedTable(m, c)), 0)
GrownPool(m, c) ==
    GetNewBlocks(Touch(m.pool, Range(c.hits)), NumNewBlocks(m, c))
GrownTable(m, c) ==
    AdoptedTable(m, c) \o NewBlocks(Touch(m.pool, Range(c.hits)), NumNewBlocks(m, c))
CachedBefore(m, c) == IF c.hits = << >> THEN m.numCached[c.req] ELSE Len(c.hits)
CacheableTokens(c) == IF c.delay THEN 0 ELSE Lesser(TotalComputed(c) + c.new, c.numTokens)
\* Fault: drafts are cached as if they were final.
CachedAfterWithDrafts(m, c) ==
    Greater((TotalComputed(c) + c.new) \div BlockSize, CachedBefore(m, c))
CachedAfter(m, c) == Greater(CacheableTokens(c) \div BlockSize, CachedBefore(m, c))
NewlyFull(m, c) == SubSeq(GrownTable(m, c), CachedBefore(m, c) + 1, CachedAfter(m, c))
NewKeys(m, c) == BlockKeys(c.req, CachedBefore(m, c), CachedAfter(m, c))

AllocateSlots(m, c) ==
    [m EXCEPT !.pool = CacheFullBlocks(GrownPool(m, c), NewlyFull(m, c), NewKeys(m, c)),
              !.table[c.req] = GrownTable(m, c),
              !.numCached[c.req] = CachedAfter(m, c),
              !.blocked[c.req] = IF m.table[c.req] = << >> THEN 0 ELSE @]

\* What may not happen inside a call that passed the gates: get_new_blocks
\* raises ValueError, cache_full_blocks fails its assertion, or
\* add_local_computed_blocks finds the request already holding blocks.
AllocationSucceeds(m, c) ==
    /\ CanGetNewBlocks(Touch(m.pool, Range(c.hits)), NumNewBlocks(m, c))
    /\ CanCacheFull(GrownPool(m, c), NewlyFull(m, c), NewKeys(m, c))
    /\ c.hits # << >> => m.table[c.req] = << >>

\* cache_blocks: the first n tokens are there, cache the full blocks not yet cached.
CacheBlocks(m, r, n) ==
    LET full == Greater(n \div BlockSize, m.numCached[r])
    IN  [m EXCEPT !.pool = CacheFullBlocks(m.pool,
                               SubSeq(m.table[r], m.numCached[r] + 1, full),
                               BlockKeys(r, m.numCached[r], full)),
                  !.numCached[r] = full]

\* evict_blocks: the requests that hold the blocks keep them.
EvictFromCache(m, S) == [m EXCEPT !.pool = EvictBlocks(m.pool, S)]

\* Fault: the head of the table is evicted first.
FreeRequestHeadFirst(m, r) ==
    [m EXCEPT !.pool = FreeBlocks(m.pool, m.table[r]),
              !.table[r] = << >>,
              !.numCached[r] = 0,
              !.blocked[r] = 0]

\* free: the blocks go back tail first and the request is forgotten.
FreeRequest(m, r) ==
    [m EXCEPT !.pool = FreeBlocks(m.pool, Reversed(m.table[r])),
              !.table[r] = << >>,
              !.numCached[r] = 0,
              !.blocked[r] = 0]
=============================================================================
