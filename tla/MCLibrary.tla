------------------------------ MODULE MCLibrary ------------------------------
(* The constructor, then every body of wrappers.c in any order, in one thread. *)
EXTENDS Library, BodyTable
=============================================================================
