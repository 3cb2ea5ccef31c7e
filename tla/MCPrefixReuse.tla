---------------------------- MODULE MCPrefixReuse ----------------------------
(* Prompts for PrefixReuse, over a block size of 2.                          *)
EXTENDS PrefixReuse

(* Whole blocks, told apart by their first token: prompts of such pages only *)
(* ever diverge at a block boundary.                                         *)
Page(t) == <<t, 0>>
PagedPrompts == {Page(1), Page(1) \o Page(2), Page(1) \o Page(2) \o Page(1),
                 Page(1) \o Page(3), Page(2) \o Page(1)}

(* The same and one that is too long for a pool of seven blocks, for which   *)
(* everything is evicted in vain.                                            *)
TooLong == Page(4) \o Page(4) \o Page(4) \o Page(4) \o
           Page(4) \o Page(4) \o Page(4) \o Page(4)
PagedOrTooLong == PagedPrompts \cup {TooLong}

(* Two prompts that diverge after their first page.                          *)
ForkedPrompts == {Page(1) \o Page(2) \o Page(1), Page(1) \o Page(3)}
=============================================================================
