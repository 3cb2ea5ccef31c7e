----------------------------- MODULE PrefixReuse -----------------------------
(***************************************************************************)
(* One request at a time through the prefix cache, as in tests/test_evict  *)
(* and in an engine with max_batch_size = 1: match, reuse, allocate (and   *)
(* evict until there is room), prefill what was not matched, insert, free. *)
(* The point is what later requests then find in the tree, so the model    *)
(* keeps what every slot of every block holds.  The KV of a token depends  *)
(* on all the tokens before it: a slot holds the sequence of tokens up to  *)
(* its own.  Decode is left out: it writes behind the prompt, in slots no  *)
(* cached prompt owns, and in blocks that the request gives back.          *)
(***************************************************************************)
EXTENDS PrefixCache

CONSTANTS
    Prompts,      \* the prompts requests may bring, as token sequences
    MaxServed,    \* bound on the requests served
    MaxEvicted    \* bound on the evictions asked for from outside

ASSUME PromptsAssumption == <<>> \notin Prompts

VARIABLES
    tree,     \* prefix_cache
    pool,     \* kv_manager
    data,     \* kv_manager.pool: what the slots of each block hold
    seen,     \* the prompts served so far, in order
    evicted   \* how many leaves were evicted

vars == <<tree, pool, data, seen, evicted>>

Slots == 0 .. BlockSize - 1
NoData == [s \in Slots |-> <<>>]

Init ==
    /\ tree = EmptyTree
    /\ pool = NewPool
    /\ data = [b \in Blocks |-> NoData]
    /\ seen = <<>>
    /\ evicted = 0

(* Where the KV of token i (from 0) of a request lives.                      *)
BlockAt(table, offset, i) == table[(offset + i) \div BlockSize + 1]
SlotAt(offset, i) == (offset + i) % BlockSize

(* write_chunk_kv over all of prefill: tokens from .. Len(tokens) - 1.       *)
Prefilled(d, tokens, table, offset, from) ==
    [b \in Blocks |-> [s \in Slots |->
        IF \E i \in from .. Len(tokens) - 1 :
               BlockAt(table, offset, i) = b /\ SlotAt(offset, i) = s
        THEN SubSeq(tokens, 1, 1 + CHOOSE i \in from .. Len(tokens) - 1 :
                        BlockAt(table, offset, i) = b /\ SlotAt(offset, i) = s)
        ELSE d[b][s]]]

(* BlockPool.release on the blocks that have no reference left.              *)
Kept(d, p) == [b \in Blocks |-> IF b \in p.used THEN d[b] ELSE NoData]

(* The tree and the pool once the matched blocks are reused and, when more   *)
(* are needed, leaves were evicted until allocate() would succeed.           *)
Room(tokens, m) ==
    LET reused == IncRefs(pool, m.blocks)
    IN  IF Remaining(tokens, m) = <<>> THEN [tree |-> m.tree, pool |-> reused]
        ELSE EvictUntilRoom(m.tree, reused, Len(m.blocks), Len(tokens))

LeavesEvicted(tokens, m) ==
    Cardinality(InTree(m.tree) \ InTree(Room(tokens, m).tree))

HasRoom(tokens, m) ==
    \/ Remaining(tokens, m) = <<>>
    \/ CanAllocate(Room(tokens, m).pool, Len(m.blocks), Len(tokens))

Serve(tokens) ==
    LET m == Match(tree, tokens)
        room == Room(tokens, m)
        table == m.blocks \o Allocated(room.pool, Len(m.blocks), Len(tokens))
        filled == Prefilled(Kept(data, room.pool), tokens, table, m.offset, m.pos)
        ins == Insert(room.tree, tokens, table, m)
        held == IncRefs(Allocate(room.pool, Len(m.blocks), Len(tokens)), ins.new)
    IN  /\ ~pool.err
        /\ Len(seen) < MaxServed
        /\ HasRoom(tokens, m)
        /\ tree' = Collect(ins.tree, {})
        /\ pool' = DecRefs(held, table)
        /\ data' = Kept(filled, pool')
        /\ seen' = Append(seen, tokens)
        /\ evicted' = evicted + LeavesEvicted(tokens, m)

(* Not even an empty tree makes room: what was reused is given back.         *)
ServeFails(tokens) ==
    LET m == Match(tree, tokens)
        room == Room(tokens, m)
    IN  /\ ~pool.err
        /\ Len(seen) < MaxServed
        /\ ~HasRoom(tokens, m)
        /\ tree' = Collect(room.tree, {})
        /\ pool' = DecRefs(room.pool, m.blocks)
        /\ data' = Kept(data, pool')
        /\ evicted' = evicted + LeavesEvicted(tokens, m)
        /\ UNCHANGED seen

(* evict() and dec_ref on the blocks of the leaf.                            *)
Evict ==
    LET leaf == LRULeaf(tree)
    IN  /\ ~pool.err
        /\ evicted < MaxEvicted
        /\ Leaves(tree) # {}
        /\ tree' = Collect(Without(tree, leaf), {})
        /\ pool' = DecRefs(pool, tree.node[leaf].blocks)
        /\ data' = Kept(data, pool')
        /\ evicted' = evicted + 1
        /\ UNCHANGED seen

Next == (\E tokens \in Prompts : Serve(tokens) \/ ServeFails(tokens)) \/ Evict

Spec == Init /\ [][Next]_vars

-----------------------------------------------------------------------------
NodesWith(b) == {n \in InTree(tree) : b \in ToSet(tree.node[n].blocks)}

TypeOK ==
    /\ pool.free \in Seq(Blocks) /\ pool.used \subseteq Blocks
    /\ pool.ref \in [Blocks -> Nat]
    /\ Root \in DOMAIN tree.node
    /\ \A n \in DOMAIN tree.node :
          /\ tree.node[n].kids \in DOMAIN tree.dict
          /\ tree.node[n].blocks \in Seq(Blocks)
          /\ Range(Children(tree, n)) \subseteq DOMAIN tree.node
    /\ data \in [Blocks -> [Slots -> Seq(UNION {Range(p) : p \in Prompts})]]
    /\ seen \in Seq(Prompts)
    /\ evicted \in Nat

(* Between requests the cache is the only holder: a block is referenced once *)
(* when exactly one node of the tree has it, and is free otherwise, so that  *)
(* evicting can give every block back (test_refcount.py, test_evict.py).     *)
OneReferencePerCachedBlock ==
    \A b \in Blocks : /\ Cardinality(NodesWith(b)) <= 1
                      /\ pool.ref[b] = Cardinality(NodesWith(b))
                      /\ (pool.ref[b] = 0) <=> Contains(pool.free, b)

(* A request that reuses blocks attends to them as they are: slot by slot    *)
(* they must hold the KV of the request's own first tokens.                  *)
ReusedDataIsRight ==
    \A q \in Prompts :
        LET m == Match(tree, q)
        IN  \A i \in 0 .. m.pos - 1 :
                data[BlockAt(m.blocks, m.offset, i)][SlotAt(m.offset, i)]
                    = SubSeq(q, 1, i + 1)

(* prefix_cache.py:41 "the longest prefix match": a match stays within the   *)
(* common prefix with some prompt served before ...                          *)
MatchWasServed ==
    \A q \in Prompts :
        \E s \in ToSet(seen) \cup {<<>>} : IsPrefix(SubSeq(q, 1, Match(tree, q).pos), s)

(* ... and, as long as nothing was evicted, reaches the end of the last full *)
(* block of the longest one.                                                 *)
MatchIsLongest ==
    evicted = 0 =>
        \A q \in Prompts : \A s \in ToSet(seen) :
            Match(tree, q).pos >=
                (Len(LongestCommonPrefix({q, s})) \div BlockSize) * BlockSize

(* Evicting leaves, on request or for a prompt that gets no room, takes away *)
(* those leaves only: every prompt still matches what it matched before, but *)
(* for the blocks given back.                                                *)
EvictionIsLocal ==
    [][evicted' # evicted /\ seen' = seen =>
          \A q \in Prompts :
              LET before == Match(tree, q).blocks
              IN  Match(tree', q).blocks
                      = SelectSeq(before, LAMBDA b : b \notin pool.used \ pool'.used)]_vars

(* The cached prompt used last is the last to be evicted: an eviction never  *)
(* shortens its match while another leaf is left.                            *)
RecentlyUsedStays ==
    [][evicted' # evicted /\ seen' = seen /\ Leaves(tree) \cap InTree(tree') # {} =>
          Match(tree', seen[Len(seen)]).pos = Match(tree, seen[Len(seen)]).pos]_vars

(* What the tree offers is referenced: a later match never hands out a block *)
(* that is on the free list.                                                 *)
NodesAreReferenced ==
    \A n \in InTree(tree) : \A b \in ToSet(tree.node[n].blocks) : pool.ref[b] > 0

=============================================================================
