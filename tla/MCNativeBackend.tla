--------------------------- MODULE MCNativeBackend ---------------------------
(* Prompts for NativeBackend, over a block size of 2.                        *)
EXTENDS NativeBackend, TLC

AnyOrder == Permutations(Requests) \cup Permutations(Blocks)

(* Prompts of one to four tokens, three of which share a first block.        *)
SharedPrompts == {<<1, 2>>, <<1, 2, 3>>, <<1, 2, 3, 5>>, <<4>>}
=============================================================================
