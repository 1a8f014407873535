---------------------------- MODULE MCCrossRefs ----------------------------
(* Namespaces are alike and so are workers: only invariants are checked. *)
EXTENDS CrossRefs, TLC

Symmetry == Permutations(Namespaces) \union Permutations(Workers)
=============================================================================
