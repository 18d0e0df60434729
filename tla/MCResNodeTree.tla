----------------------------- MODULE MCResNodeTree -----------------------------
(* The resource node tree on a handful of addresses. *)
EXTENDS ResNodeTree, TLC

Symmetry == Permutations(Node)

================================================================================
