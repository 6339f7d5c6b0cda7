------------------------------- MODULE MCLent --------------------------------
(***************************************************************************)
(* A small instance of Lent for TLC: see README.md for the bounds.         *)
(***************************************************************************)
EXTENDS Lent, TLC

Symmetry == Permutations(Threads) \cup Permutations(Scopes) \cup Permutations(Fns)
=============================================================================
