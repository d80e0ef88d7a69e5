----------------------------- MODULE MCNetStack -----------------------------
(* An instance of NetStack for TLC. *)
EXTENDS NetStack, TLC

Symmetry == Permutations(Names)
=============================================================================
