------------------------------ MODULE BodyTable -------------------------------
(***************************************************************************)
(* The table of bodies: what mpiwrapper_vtable_instance points to, apart   *)
(* from the functions that are written by hand.                            *)
(***************************************************************************)
EXTENDS BodiesAtoI, BodiesMtoZ

AllBodies == BodiesFromAToI \cup BodiesFromMToZ
=============================================================================
