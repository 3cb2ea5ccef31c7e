---------------------------- MODULE MCRuntimeV0 ----------------------------
(* A small instance of RuntimeV0.                                            *)
EXTENDS RuntimeV0
=============================================================================
