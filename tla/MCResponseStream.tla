-------------------------- MODULE MCResponseStream --------------------------
(* ResponseStream for TLC: the items of function calls are interchangeable. *)
EXTENDS ResponseStream

AnyItem == Permutations(Items)
=============================================================================
