--------------------------- MODULE BlockOwnership ---------------------------
(***************************************************************************)
(* What the KV-cache manager promises, without reference counts, free list *)
(* or tables: every block has a set of owners, who joined it one by one; a *)
(* block comes to its first owner without data; data are written by an     *)
(* owner, and stay as long as anyone owns the block and no longer.         *)
(* KVCacheManager implements this.                                         *)
(***************************************************************************)
CONSTANTS
    Blocks,
    Holder      \* whoever may own a block

VARIABLES
    owners,     \* who owns each block
    data        \* the blocks with data in them

vars == <<owners, data>>

Init ==
    /\ owners = [b \in Blocks |-> {}]
    /\ data = {}

(* h joins the owners of some blocks; those nobody owned are blank.          *)
Acquire(h) ==
    /\ owners' \in [Blocks -> SUBSET Holder]
    /\ \A b \in Blocks : /\ owners'[b] \in {owners[b], owners[b] \cup {h}}
                         /\ owners[b] = {} /\ b \in data => owners'[b] = {}
    /\ UNCHANGED data

Write(h, b) ==
    /\ h \in owners[b]
    /\ data' = data \cup {b}
    /\ UNCHANGED owners

(* h leaves some of its blocks: the data go with the last owner.             *)
Leave(h) ==
    /\ owners' \in [Blocks -> SUBSET Holder]
    /\ \A b \in Blocks : owners'[b] \in {owners[b], owners[b] \ {h}}
    /\ data' = {b \in data : owners'[b] # {}}

(* Everybody leaves everything at once.                                      *)
Reset ==
    /\ owners' = [b \in Blocks |-> {}]
    /\ data' = {}

Next ==
    \/ \E h \in Holder : Acquire(h) \/ Leave(h)
    \/ \E h \in Holder, b \in Blocks : Write(h, b)
    \/ Reset

Spec == Init /\ [][Next]_vars

-----------------------------------------------------------------------------
TypeOK ==
    /\ owners \in [Blocks -> SUBSET Holder]
    /\ data \subseteq Blocks

(* Nobody's block is blank.                                                  *)
BlankWhenUnowned == \A b \in data : owners[b] # {}

(* The data an owner finds in a block were written while the block had an    *)
(* owner without interruption: they appear in an owned block only, and none  *)
(* survives the moment in which the block is nobody's.                       *)
DataEndWithOwners ==
    [][\A b \in Blocks : /\ b \in data' \ data => owners[b] # {}
                         /\ b \in data \ data' => owners'[b] = {}
                         /\ owners[b] = {} => b \notin data']_vars

=============================================================================
