------------------------------- MODULE MCXv6Log -----------------------------
(* Small instances of Xv6Log for TLC. *)
EXTENDS Xv6Log, TLC

Symmetry == Permutations(Op) \union Permutations(Block)
=============================================================================
