-------------------------- MODULE MCStagedRequests ---------------------------
(***************************************************************************)
(* A small instance of StagedRequests for TLC: see README.md for the       *)
(* bounds.                                                                 *)
(***************************************************************************)
EXTENDS StagedRequests, TLC

CONSTANTS h1, h2

\* The probing for two handles starts at one slot, the last, and wraps around.
MCHandles == {BuiltIn, h1, h2}
MCHome == [h \in MCHandles |-> IF h = BuiltIn THEN 0 ELSE Capacity - 1]

Symmetry == Permutations(Threads) \cup Permutations(Ops) \cup Permutations({h1, h2})
=============================================================================
