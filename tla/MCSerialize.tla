----------------------------- MODULE MCSerialize -----------------------------
(***************************************************************************)
(* A small instance of Serialize for TLC: see README.md for the bounds.    *)
(***************************************************************************)
EXTENDS Serialize, TLC

\* Threads, and the handles the implementation creates, are interchangeable.
Symmetry == Permutations(Threads) \cup Permutations(Values)
=============================================================================
