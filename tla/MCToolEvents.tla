---------------------------- MODULE MCToolEvents -----------------------------
(***************************************************************************)
(* A small instance of ToolEvents for TLC: see README.md for the bounds.   *)
(***************************************************************************)
EXTENDS ToolEvents, TLC

\* Bounds.  A fourth call is made one at a time, registers a callback, and finds slots
\* that have all had an owner.
FourthCall ==
  lastTag = 4 =>
    /\ env = "serialized"
    /\ \A s \in Slots : key[s] # NoReg
    /\ \A t \in Callers : job[t].tag = 4 => job[t].op = "cb" /\ ~job[t].null

\* What fresh allows, apart does too, so two calls are enough there.
TwoCalls == env = "fresh" => lastTag <= 2

\* Calls for one handle overlap here only to fill the map: two for one handle claim
\* both slots, and the other handle finds none.
FullMap ==
  env = "overlapping" =>
    /\ \A t \in Callers : job[t].op # "free" /\ ~job[t].null
    /\ \/ \A s \in Slots : used[s]
       \/ lastTag <= 2 /\ Cardinality({r \in Regs : born[r] # -1}) <= 1

Symmetry == Permutations(Callers) \cup Permutations(Regs)
=============================================================================
