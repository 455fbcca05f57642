---------------------------- MODULE MCProductCache ---------------------------
(* ProductCache on small instances: two clients that read on either of two  *)
(* API processes while two changes are announced in either order.           *)
EXTENDS ProductCache, TLC

CONSTANTS a, b, i1, i2

Symmetric == Permutations(Reader) \cup Permutations(Instance)
=============================================================================
