------------------------------ MODULE MCEngine ------------------------------
(* Requests and prompts for Engine, over a block size of 2.                  *)
EXTENDS Engine

CONSTANTS r1, r2, r3
AnyOrder == Permutations(Requests)

Page(t) == <<t, 0>>

(* Whole blocks: prompts that share a first page, and one that is reused in  *)
(* full.                                                                     *)
PagedPrompts == {Page(1), Page(1) \o Page(2), Page(1) \o Page(3)}

(* Two of them, one of which begins the other.                               *)
TwoPages == {Page(1), Page(1) \o Page(2)}

(* Two that part after their first page, and one of three blocks.            *)
ForkingPrompts ==
    {Page(1) \o Page(2), Page(1) \o Page(3), Page(4) \o Page(1) \o Page(2)}

(* Prompts that share nothing, and one of three blocks.                      *)
DisjointPrompts == {Page(1), Page(2) \o Page(1), Page(3) \o Page(1) \o Page(2)}

(* A prompt that ends within a block, and one that goes on from there.       *)
TailPrompts == {<<1>>, <<1, 2>>}
=============================================================================
