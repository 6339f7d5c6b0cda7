------------------------------ MODULE MCKeyvals ------------------------------
(***************************************************************************)
(* A small instance of Keyvals for TLC: see README.md for the bounds.      *)
(***************************************************************************)
EXTENDS Keyvals, TLC

\* Threads, numbers and objects are interchangeable.
Symmetry ==
  Permutations(Threads) \cup Permutations(Values) \cup Permutations(Objects)
=============================================================================
