-------------------------- MODULE MCKVCacheManager --------------------------
(* A small instance of KVCacheManager for TLC. *)
EXTENDS KVCacheManager, TLC

(* The requests are interchangeable. *)
RequestSymmetry == Permutations(Requests)
=============================================================================
