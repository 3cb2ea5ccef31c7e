------------------------------ MODULE KVBlocks ------------------------------
(***************************************************************************)
(* The methods of KVCacheManager (mini_runtime/cache/kv_cache.py) as       *)
(* operators on a record, loop by loop, for the modules whose steps call   *)
(* several of them.  Nothing is assumed of the caller: a count may go      *)
(* below zero, a block may be given back twice.  KVCacheManager states     *)
(* what holds when the callers keep their side of the bargain.             *)
(*                                                                         *)
(* err stands for the ValueError that used_blocks_ids.remove() raises; the *)
(* models that use a pool stop there.                                      *)
(***************************************************************************)
EXTENDS Integers, Sequences, FiniteSets, SequencesExt

CONSTANTS
    NumBlocks,    \* num_blocks
    BlockSize     \* block_size, in tokens

ASSUME BlocksAssumption == NumBlocks \in Nat /\ BlockSize \in Nat \ {0}

Blocks == 0 .. NumBlocks - 1

NewPool == [ref  |-> [b \in Blocks |-> 0],
            free |-> [i \in 1 .. NumBlocks |-> i - 1],
            used |-> {},
            err  |-> FALSE]

CeilDiv(n, d) == (n + d - 1) \div d

IncRef(p, b) == [p EXCEPT !.ref[b] = @ + 1]

DecRef(p, b) ==
    IF p.ref[b] # 1 THEN [p EXCEPT !.ref[b] = @ - 1]
    ELSE IF b \notin p.used THEN [p EXCEPT !.ref[b] = 0, !.err = TRUE]
    ELSE [p EXCEPT !.ref[b] = 0, !.used = @ \ {b}, !.free = Append(@, b)]

IncRefs(p, s) == FoldLeft(IncRef, p, s)
DecRefs(p, s) == FoldLeft(DecRef, p, s)

(* allocate(): a table of len blocks asks room for n tokens.                 *)
(* Mutant: the last, incomplete block is not counted.                        *)
NumNeedFloor(len, n) == n \div BlockSize - len

NumNeed(len, n) == CeilDiv(n, BlockSize) - len

CanAllocate(p, len, n) == Len(p.free) >= NumNeed(len, n)

Allocated(p, len, n) == SubSeq(p.free, 1, NumNeed(len, n))

(* Mutants: popleft() is only a look; used_blocks_ids is not kept.           *)
AllocatePeek(p, len, n) ==
    LET got == Allocated(p, len, n)
    IN  [IncRefs(p, got) EXCEPT !.used = @ \cup ToSet(got)]
AllocateUnlisted(p, len, n) ==
    LET got == Allocated(p, len, n)
    IN  [IncRefs(p, got) EXCEPT !.free = SubSeq(@, Len(got) + 1, Len(@))]

Allocate(p, len, n) ==
    LET got == Allocated(p, len, n)
    IN  [IncRefs(p, got) EXCEPT !.free = SubSeq(@, Len(got) + 1, Len(@)),
                                !.used = @ \cup ToSet(got)]

(* release_all() *)
ReleaseAllBlocks(p) == [NewPool EXCEPT !.err = p.err]

=============================================================================
