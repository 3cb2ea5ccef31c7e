--------------------------- MODULE KVCacheManager ---------------------------
(***************************************************************************)
(* The KV-cache manager (mini_runtime/cache/kv_cache.py): a fixed set of   *)
(* physical blocks, each with a reference count, a FIFO free list, the     *)
(* blocks in use, and the tensors the block pool stores for them.  Its     *)
(* users are the requests, which hold blocks through their block tables,   *)
(* and the prefix cache, which holds one more reference on every block it  *)
(* keeps.  Every action below is one use the engine makes of the manager   *)
(* between two points where the event loop may switch: the engine is one   *)
(* asyncio task and awaits nothing inside them.                            *)
(*                                                                         *)
(* The module states what the manager guarantees to users who keep their   *)
(* side: one who holds a block counts it, and the cache keeps no block it  *)
(* was not given.  PrefixReuse and Engine have the users as they are.      *)
(*                                                                         *)
(* Left out: is_free and max_allocated (written, never read to decide      *)
(* anything), the tensors' shapes, the table's offset (the prefix cache    *)
(* only ever returns 0, see PrefixCache), and the radix tree: here the     *)
(* cache is just the set of blocks it holds.                               *)
(***************************************************************************)
EXTENDS Integers, Sequences, FiniteSets, Functions

CONSTANTS
    Requests,     \* requests, each with a block table
    Cache,        \* the prefix cache, as a holder of blocks
    NumBlocks,    \* num_blocks
    BlockSize,    \* block_size, in tokens
    MaxTokens     \* bound on the tokens a request asks room for

ASSUME RequestsAssumption == IsFiniteSet(Requests) /\ Cache \notin Requests
ASSUME SizesAssumption == /\ NumBlocks \in Nat
                          /\ BlockSize \in Nat \ {0}
                          /\ MaxTokens \in Nat

VARIABLES
    ref,      \* blocks[b].ref_count
    free,     \* free_blocks_ids, a deque used as a FIFO
    used,     \* used_blocks_ids, a list whose order nothing reads
    stored,   \* the blocks whose tensors exist: pool._blocks[b] is not None
    table,    \* request.block_table.block_ids
    matched,  \* request.num_matched_blocks: how much of the table was reused
    phase,    \* which of the engine's lists the request is in
    cached,   \* the blocks the nodes of the prefix cache hold
    open      \* FALSE once release_all has run: the scheduler loop is over

vars == <<ref, free, used, stored, table, matched, phase, cached, open>>

Blocks == 0 .. NumBlocks - 1
Phases == {"none", "prefilling", "running"}

(* The sequences without repetition over a subset of S. *)
DistinctSeqs(S) ==
    {q \in UNION {[1 .. n -> S] : n \in 0 .. Cardinality(S)} : IsInjective(q)}

(* The elements of S in the order in which the sequence s lists them. *)
InOrderOf(s, S) ==
    {q \in [1 .. Cardinality(S) -> S] :
        \A i, j \in DOMAIN q : i < j =>
            \E k, l \in DOMAIN s : k < l /\ s[k] = q[i] /\ s[l] = q[j]}

(* Those who hold a block: the tables it is in, and the cache. *)
Holders(b) == {r \in Requests : b \in Range(table[r])}
              \cup (IF b \in cached THEN {Cache} ELSE {})

Init ==
    /\ ref = [b \in Blocks |-> 0]
    /\ free = [i \in 1 .. NumBlocks |-> i - 1]
    /\ used = {}
    /\ stored = {}
    /\ table = [r \in Requests |-> <<>>]
    /\ matched = [r \in Requests |-> 0]
    /\ phase = [r \in Requests |-> "none"]
    /\ cached = {}
    /\ open = TRUE

-----------------------------------------------------------------------------
(* allocate(): blocks still needed for n tokens on top of a table of len     *)
(* blocks; a table that is already long enough takes none.                   *)
NumNeed(len, n) ==
    LET total == (n + BlockSize - 1) \div BlockSize
    IN  IF total > len THEN total - len ELSE 0

(* Mutant: the blocks allocated stay on the free list.                       *)
AllocatePeek(r, base, n) ==
    LET got == SubSeq(free, 1, NumNeed(Len(base), n))
        new == Range(base \o got) \ Range(table[r])
    IN  /\ Len(free) >= NumNeed(Len(base), n)
        /\ table' = [table EXCEPT ![r] = base \o got]
        /\ free' = free
        /\ used' = used \cup Range(got)
        /\ ref' = [b \in Blocks |-> IF b \in new THEN ref[b] + 1 ELSE ref[b]]

(* inc_ref on the blocks of base that the table does not hold yet, then      *)
(* allocate(), in the case where the free list is long enough.               *)
Allocate(r, base, n) ==
    LET need == NumNeed(Len(base), n)
        got == SubSeq(free, 1, need)
        new == Range(base \o got) \ Range(table[r])
    IN  /\ Len(free) >= need
        /\ table' = [table EXCEPT ![r] = base \o got]
        /\ free' = SubSeq(free, need + 1, Len(free))
        /\ used' = used \cup Range(got)
        /\ ref' = [b \in Blocks |-> IF b \in new THEN ref[b] + 1 ELSE ref[b]]

(* Mutants: a block that is let go does not return to the free list; keeps   *)
(* its tensors; is let go one reference too early.                           *)
DecRefLeak(s) ==
    LET gone == {b \in Range(s) : ref[b] = 1}
    IN  /\ ref' = [b \in Blocks |-> IF b \in Range(s) THEN ref[b] - 1 ELSE ref[b]]
        /\ used' = used \ gone
        /\ stored' = stored \ gone
        /\ free' = free

DecRefKeepsTensors(s) ==
    LET gone == {b \in Range(s) : ref[b] = 1}
    IN  /\ ref' = [b \in Blocks |-> IF b \in Range(s) THEN ref[b] - 1 ELSE ref[b]]
        /\ used' = used \ gone
        /\ stored' = stored
        /\ \E q \in InOrderOf(s, gone) : free' = free \o q

DecRefEager(s) ==
    LET gone == {b \in Range(s) : ref[b] <= 2}
    IN  /\ ref' = [b \in Blocks |-> IF b \in Range(s) THEN ref[b] - 1 ELSE ref[b]]
        /\ used' = used \ gone
        /\ stored' = stored \ gone
        /\ \E q \in InOrderOf(s, gone) : free' = free \o q

(* dec_ref on each block of the sequence s, which repeats none: the blocks    *)
(* whose count reaches zero lose their tensors and go to the tail of the     *)
(* free list, in the order of s.                                             *)
DecRefAll(s) ==
    LET gone == {b \in Range(s) : ref[b] = 1}
    IN  /\ ref' = [b \in Blocks |-> IF b \in Range(s) THEN ref[b] - 1 ELSE ref[b]]
        /\ used' = used \ gone
        /\ stored' = stored \ gone
        /\ \E q \in InOrderOf(s, gone) : free' = free \o q

-----------------------------------------------------------------------------
(* Admission: reuse cached blocks, then allocate for the n prompt tokens.    *)
(* When allocate() fails for good the engine rolls the reuse back, which     *)
(* leaves only the evictions it tried (Evict).                               *)
Admit(r, hit, n) ==
    /\ open
    /\ phase[r] = "none"
    /\ Allocate(r, hit, n)
    /\ matched' = [matched EXCEPT ![r] = Len(hit)]
    /\ phase' = [phase EXCEPT ![r] = "prefilling"]
    /\ UNCHANGED <<stored, cached, open>>

(* The part of a table that admission allocated.                             *)
Fresh(r) == SubSeq(table[r], matched[r] + 1, Len(table[r]))

(* Mutant: the cache takes no reference.                                     *)
InsertUncounted(r) ==
    LET fresh == Range(Fresh(r))
    IN  /\ open
        /\ phase[r] = "prefilling"
        /\ cached' = cached \cup fresh
        /\ phase' = [phase EXCEPT ![r] = "running"]
        /\ UNCHANGED <<ref, free, used, stored, table, matched, open>>

(* The last prefill chunk: the blocks that were not reused enter the cache,  *)
(* which takes one reference on each.                                        *)
Insert(r) ==
    LET fresh == Range(Fresh(r))
    IN  /\ open
        /\ phase[r] = "prefilling"
        /\ cached' = cached \cup fresh
        /\ ref' = [b \in Blocks |-> IF b \in fresh THEN ref[b] + 1 ELSE ref[b]]
        /\ phase' = [phase EXCEPT ![r] = "running"]
        /\ UNCHANGED <<free, used, stored, table, matched, open>>

(* Decode: the table no longer covers the n tokens, and grows.               *)
Grow(r, n) ==
    /\ open
    /\ phase[r] = "running"
    /\ n > Len(table[r]) * BlockSize
    /\ Allocate(r, table[r], n)
    /\ UNCHANGED <<stored, matched, phase, cached, open>>

(* Prefill and decode write the KV of a token into a block of the table; the *)
(* pool creates the block's tensors at the first write.                      *)
Write(r, b) ==
    /\ open
    /\ phase[r] # "none"
    /\ b \in Range(table[r])
    /\ stored' = stored \cup {b}
    /\ UNCHANGED <<ref, free, used, table, matched, phase, cached, open>>

(* Mutant: the table is not cleared.                                         *)
FreeWithoutClear(r) ==
    /\ open
    /\ phase[r] = "running"
    /\ DecRefAll(table[r])
    /\ matched' = [matched EXCEPT ![r] = 0]
    /\ phase' = [phase EXCEPT ![r] = "none"]
    /\ UNCHANGED <<table, cached, open>>

(* free(): a finished request, or one the decoder found no room for.         *)
Free(r) ==
    /\ open
    /\ phase[r] = "running"
    /\ DecRefAll(table[r])
    /\ table' = [table EXCEPT ![r] = <<>>]
    /\ matched' = [matched EXCEPT ![r] = 0]
    /\ phase' = [phase EXCEPT ![r] = "none"]
    /\ UNCHANGED <<cached, open>>

(* An evicted node's blocks leave the cache, in the order of the node.  The  *)
(* engine evicts when allocate() fails; here eviction may come at any time.  *)
Evict(s) ==
    /\ open
    /\ s # <<>>
    /\ DecRefAll(s)
    /\ cached' = cached \ Range(s)
    /\ UNCHANGED <<table, matched, phase, open>>

(* shutdown() and _fail_all_requests(): every table is freed, then           *)
(* release_all() resets the manager.  The prefix tree is left as it is.      *)
ReleaseAll ==
    /\ open' = FALSE
    /\ ref' = [b \in Blocks |-> 0]
    /\ free' = [i \in 1 .. NumBlocks |-> i - 1]
    /\ used' = {}
    /\ stored' = stored \ used
    /\ table' = [r \in Requests |-> <<>>]
    /\ matched' = [r \in Requests |-> 0]
    /\ phase' = [r \in Requests |-> "none"]
    /\ UNCHANGED cached

Next ==
    \/ \E r \in Requests, hit \in DistinctSeqs(cached), n \in 1 .. MaxTokens :
            Admit(r, hit, n)
    \/ \E r \in Requests : Insert(r) \/ Free(r)
    \/ \E r \in Requests, n \in 1 .. MaxTokens : Grow(r, n)
    \/ \E r \in Requests, b \in Blocks : Write(r, b)
    \/ \E s \in DistinctSeqs(cached) : Evict(s)
    \/ ReleaseAll

Spec == Init /\ [][Next]_vars

-----------------------------------------------------------------------------
(* Types; no repetition in a table or in the free list; an idle request      *)
(* holds nothing.                                                            *)
TypeOK ==
    /\ ref \in [Blocks -> Nat]
    /\ free \in Seq(Blocks) /\ IsInjective(free)
    /\ used \subseteq Blocks
    /\ stored \subseteq Blocks
    /\ table \in [Requests -> Seq(Blocks)]
    /\ \A r \in Requests : IsInjective(table[r])
    /\ matched \in [Requests -> Nat]
    /\ \A r \in Requests : matched[r] <= Len(table[r])
    /\ phase \in [Requests -> Phases]
    /\ \A r \in Requests : phase[r] = "none" => table[r] = <<>>
    /\ cached \subseteq Blocks
    /\ open \in BOOLEAN

(* The count of a block is the number of those who hold it, as long as the   *)
(* engine lives (kv_cache.py:67 and :71 say who counts).                     *)
RefCountIsHolders == open => \A b \in Blocks : ref[b] = Cardinality(Holders(b))

(* A block is in exactly one of the free list and the used list, and it is   *)
(* in use exactly when it is referenced: none is lost, none is handed out    *)
(* twice.                                                                    *)
FreeIffUnreferenced ==
    /\ used = {b \in Blocks : ref[b] > 0}
    /\ Range(free) = Blocks \ used

(* Only blocks in use keep tensors in the pool: a released block gives its   *)
(* GPU memory back, also after release_all, which visits the used list only. *)
StoredWithinUsed == stored \subseteq used

(* Until its prompt is in the cache, the blocks a request allocated belong   *)
(* to it alone: no other request and no node of the cache may reach them.    *)
FreshBlocksAreOwned ==
    \A r \in Requests : phase[r] = "prefilling" =>
        \A b \in Range(Fresh(r)) : Holders(b) = {r}

(* The inductive invariant behind the properties of this module.             *)
IInv == /\ TypeOK
        /\ RefCountIsHolders
        /\ FreeIffUnreferenced
        /\ StoredWithinUsed
        /\ FreshBlocksAreOwned

(* A block loses its tensors only when its last holder leaves: never while a *)
(* request, or the cache, still holds it after the step.                     *)
DropWithLastHolder ==
    [][open' => \A b \in stored \ stored' : Holders(b)' = {}]_vars

(* A block that enters a table is either taken from the cache, or had no     *)
(* holder and no data of anybody.                                            *)
FreshBlocksAreClean ==
    [][\A r \in Requests : \A b \in Range(table'[r]) \ Range(table[r]) :
            b \notin cached => Holders(b) = {} /\ b \notin stored]_vars

(* The blocks and their owners as BlockOwnership sees them: once release_all *)
(* has run nobody owns any, although the tree still names some.              *)
Owners == [b \in Blocks |-> IF open THEN Holders(b) ELSE {}]

Ownership == INSTANCE BlockOwnership
                 WITH Holder <- Requests \cup {Cache}, owners <- Owners, data <- stored

(* The manager keeps the promise of BlockOwnership: reference counts, free   *)
(* list and tables together behave like sets of owners, so that a block goes *)
(* to a new request only when its last holder has left, and without the KV   *)
(* of that holder (kv_cache.py:57 and :71-78).                               *)
ImplementsOwnership == Ownership!Spec

=============================================================================
