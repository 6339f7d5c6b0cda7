---------------------------- MODULE MCErrorCodes -----------------------------
(***************************************************************************)
(* A small instance of ErrorCodes for TLC: one number for user codes, so   *)
(* that it is removed and issued again, and one the implementation invents.*)
(***************************************************************************)
EXTENDS ErrorCodes

CONSTANTS user, invented
MCValues    == {user, invented}
MCUserCodes == {user}
=============================================================================
