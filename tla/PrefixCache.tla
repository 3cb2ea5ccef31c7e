----------------------------- MODULE PrefixCache -----------------------------
(***************************************************************************)
(* The radix tree of cached prompts (mini_runtime/cache/prefix_cache.py)   *)
(* as operators on a record: match, insert and evict.                      *)
(*                                                                         *)
(* A tree is a heap of nodes, because the code keeps references to nodes   *)
(* across calls: what match() returns names nodes that a later insert()    *)
(* uses, whatever happened to them in between.  For the same reason the    *)
(* children of a node live in a table of their own: the node that takes    *)
(* over the tail of a split edge shares it with the node that was split.   *)
(* RadixNode.ref_count is left out (written, never read).                  *)
(***************************************************************************)
EXTENDS KVBlocks

Root == 0

RadixNode(edge, blocks, offset, last, kids) ==
    [edge |-> edge, blocks |-> blocks, offset |-> offset, last |-> last, kids |-> kids]

EmptyTree == [node  |-> [n \in {Root} |-> RadixNode(<<>>, <<>>, 0, 0, Root)],
              dict  |-> [d \in {Root} |-> <<>>],
              clock |-> 0]

(* f[k] = v, where k may be a new key.                                       *)
SetItem(f, k, v) == [x \in DOMAIN f \cup {k} |-> IF x = k THEN v ELSE f[x]]

Children(T, n) == T.dict[T.node[n].kids]

(* The nodes that can be reached from those of S. *)
ReachableFrom(T, S) ==
    FoldSet(LAMBDA i, R : R \cup UNION {Range(Children(T, n)) : n \in R},
            S, DOMAIN T.node)

InTree(T) == ReachableFrom(T, {Root})

(* Forget the nodes that neither the tree nor the references in S reach. *)
Collect(T, S) ==
    LET live == ReachableFrom(T, {Root} \cup S)
    IN  [T EXCEPT !.node = Restrict(@, live),
                  !.dict = Restrict(@, {T.node[n].kids : n \in live})]

-----------------------------------------------------------------------------
(* match(): one iteration of the loop per call of Descend.  In the result,   *)
(* pos is num_matched_tokens and blocks is matched_blocks.                   *)
MatchStart(T) ==
    [tree |-> T, node |-> Root, pos |-> 0, blocks |-> <<>>, offset |-> 0,
     split |-> FALSE, child |-> Root, common |-> 0, done |-> FALSE]

(* Mutant: last_access is not refreshed.                                     *)
TouchNot(T, n) == T

Touch(T, n) == [T EXCEPT !.clock = @ + 1, !.node[n].last = T.clock + 1]

(* s[:n]: the first n of a list, or all when there are fewer.                *)
UpTo(s, n) == SubSeq(s, 1, Min({n, Len(s)}))

Aligned(m) == (m.common \div BlockSize) * BlockSize
FloorBlocks(m) == m.common \div BlockSize

WholeEdge(m, c) ==
    LET child == m.tree.node[c]
    IN  [m EXCEPT !.tree = Touch(@, c),
                  !.node = c,
                  !.pos = @ + Len(child.edge),
                  !.blocks = @ \o child.blocks,
                  !.offset = IF m.blocks = <<>> THEN child.offset ELSE @]

(* Mutant: a full block is missed.                                           *)
PartOfEdgeShort(m, c, common) ==
    LET child == m.tree.node[c]
        reused == UpTo(child.blocks, (common - 1) \div BlockSize)
    IN  [m EXCEPT !.tree = Touch(@, c),
                  !.pos = @ + ((common - 1) \div BlockSize) * BlockSize,
                  !.blocks = @ \o reused,
                  !.offset = IF m.blocks = <<>> /\ reused # <<>> THEN child.offset ELSE @,
                  !.split = TRUE,
                  !.child = c,
                  !.common = common,
                  !.done = TRUE]

PartOfEdge(m, c, common) ==
    LET child == m.tree.node[c]
        reused == UpTo(child.blocks, common \div BlockSize)
    IN  [m EXCEPT !.tree = Touch(@, c),
                  !.pos = @ + (common \div BlockSize) * BlockSize,
                  !.blocks = @ \o reused,
                  !.offset = IF m.blocks = <<>> /\ reused # <<>> THEN child.offset ELSE @,
                  !.split = TRUE,
                  !.child = c,
                  !.common = common,
                  !.done = TRUE]

(* Mutant: only the first token of an edge is compared.                      *)
DescendByFirstToken(tokens, m) ==
    LET rest == SubSeq(tokens, m.pos + 1, Len(tokens))
        kids == Children(m.tree, m.node)
    IN  IF m.done \/ rest = <<>> THEN m
        ELSE IF Head(rest) \notin DOMAIN kids THEN [m EXCEPT !.done = TRUE]
        ELSE LET c == kids[Head(rest)]
                 edge == m.tree.node[c].edge
             IN  IF Len(edge) <= Len(rest) THEN WholeEdge(m, c)
                 ELSE PartOfEdge(m, c, Len(rest))

Descend(tokens, m) ==
    LET rest == SubSeq(tokens, m.pos + 1, Len(tokens))
        kids == Children(m.tree, m.node)
    IN  IF m.done \/ rest = <<>> THEN m
        ELSE IF Head(rest) \notin DOMAIN kids THEN [m EXCEPT !.done = TRUE]
        ELSE LET c == kids[Head(rest)]
                 edge == m.tree.node[c].edge
                 common == Len(LongestCommonPrefix({rest, edge}))
             IN  IF common = 0 THEN [m EXCEPT !.done = TRUE]
                 ELSE IF common = Len(edge) THEN WholeEdge(m, c)
                 ELSE PartOfEdge(m, c, common)

Match(T, tokens) ==
    FoldLeft(LAMBDA m, t : Descend(tokens, m), MatchStart(T), tokens)

Remaining(tokens, m) == SubSeq(tokens, m.pos + 1, Len(tokens))

-----------------------------------------------------------------------------
(* insert(): the blocks of the new branch are those of the table that were   *)
(* not reused; they are what the caller counts a reference for.              *)
NewBlocksAll(table, m) == table                                       \* mutant
NewBlocksFirst(table, m) == SubSeq(table, 1, Len(table) - Len(m.blocks))  \* mutant
NewBlocks(table, m) == SubSeq(table, Len(m.blocks) + 1, Len(table))

AddBranch(T, tokens, table, m) ==
    LET id == Max(DOMAIN T.node) + 1
        rest == Remaining(tokens, m)
        branch == RadixNode(rest, NewBlocks(table, m), 0, T.clock + 1, id)
        parent == T.node[m.node].kids
    IN  [node  |-> SetItem(T.node, id, branch),
         dict  |-> SetItem(SetItem(T.dict, id, <<>>),
                           parent, SetItem(T.dict[parent], Head(rest), id)),
         clock |-> T.clock + 1]

SplitEdge(T, tokens, table, m) ==
    LET id == Max(DOMAIN T.node)
        top == id + 1
        tail == id + 2
        branch == id + 3
        child == T.node[m.child]
        rest == Remaining(tokens, m)
        topNode == RadixNode(SubSeq(child.edge, 1, Aligned(m)),
                             UpTo(child.blocks, FloorBlocks(m)),
                             child.offset, child.last, top)
        tailNode == RadixNode(SubSeq(child.edge, m.common + 1, Len(child.edge)),
                              SubSeq(child.blocks, FloorBlocks(m) + 1, Len(child.blocks)),
                              m.common - Aligned(m), child.last, child.kids)
        newNode == RadixNode(rest, NewBlocks(table, m), 0, T.clock + 1, branch)
        toTail == SetItem(<<>>, child.edge[m.common + 1], tail)
        topKids == IF rest = <<>> THEN toTail ELSE SetItem(toTail, Head(rest), branch)
        parent == T.node[m.node].kids
    IN  [node  |-> SetItem(SetItem(SetItem(T.node, top, topNode), tail, tailNode),
                           branch, newNode),
         dict  |-> SetItem(SetItem(SetItem(T.dict, top, topKids), branch, <<>>),
                           parent, SetItem(T.dict[parent], Head(child.edge), top)),
         clock |-> T.clock + 1]

(* Mutant: the caller is told of no new blocks.                              *)
InsertUncounted(T, tokens, table, m) ==
    IF m.split THEN [tree |-> SplitEdge(T, tokens, table, m), new |-> <<>>]
    ELSE IF Remaining(tokens, m) = <<>> THEN [tree |-> T, new |-> <<>>]
    ELSE [tree |-> AddBranch(T, tokens, table, m), new |-> <<>>]

Insert(T, tokens, table, m) ==
    IF m.split THEN [tree |-> SplitEdge(T, tokens, table, m), new |-> NewBlocks(table, m)]
    ELSE IF Remaining(tokens, m) = <<>> THEN [tree |-> T, new |-> <<>>]
    ELSE [tree |-> AddBranch(T, tokens, table, m), new |-> NewBlocks(table, m)]

-----------------------------------------------------------------------------
(* evict(): the leaf that was used longest ago leaves the tree.  No two      *)
(* leaves have the same age: ages are ticks of one clock, and the two parts  *)
(* of a split edge, which share one, are above each other.                   *)
Leaves(T) == {n \in InTree(T) \ {Root} : Children(T, n) = <<>>}

LRULeaf(T) ==
    CHOOSE n \in Leaves(T) : \A o \in Leaves(T) : T.node[n].last <= T.node[o].last

(* Mutants: the leaf stays in its parent's table; its siblings go with it.   *)
WithoutNot(T, leaf) == T
WithoutSiblings(T, leaf) ==
    [T EXCEPT !.dict = [d \in DOMAIN @ |-> IF leaf \in Range(@[d]) THEN <<>> ELSE @[d]]]

Without(T, leaf) ==
    [T EXCEPT !.dict = [d \in DOMAIN @ |->
                           Restrict(@[d], {t \in DOMAIN @[d] : @[d][t] # leaf})]]

(* The engine's evict-and-retry loop around allocate(): evict a leaf, give   *)
(* its blocks back, try again, until the allocation succeeds or no leaf is   *)
(* left.                                                                     *)
EvictOnce(s, len, n) ==
    IF CanAllocate(s.pool, len, n) \/ Leaves(s.tree) = {} THEN s
    ELSE LET leaf == LRULeaf(s.tree)
         IN  [tree |-> Without(s.tree, leaf),
              pool |-> DecRefs(s.pool, s.tree.node[leaf].blocks)]

(* Mutant: allocate() is tried again only once.                              *)
EvictForRoomOnce(T, p, len, n) == EvictOnce([tree |-> T, pool |-> p], len, n)

EvictUntilRoom(T, p, len, n) ==
    FoldSet(LAMBDA i, s : EvictOnce(s, len, n), [tree |-> T, pool |-> p], DOMAIN T.node)

=============================================================================
