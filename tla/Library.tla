------------------------------- MODULE Library -------------------------------
(***************************************************************************)
(* Both libraries: the constructor of libmpi_abi, then the calls of an     *)
(* application, each through mpi_abi_vt to its body.                       *)
(***************************************************************************)
EXTENDS Bodies, Startup

allVars == <<vars, startVars>>

LibraryInit == Init /\ StartInit

\* No function is called before the constructor has returned, and an entry
\* point does not check the pointer it calls through.
LibraryNext ==
  \/ StartNext /\ UNCHANGED vars
  \/ /\ loading = "loaded"
     /\ Next
     /\ UNCHANGED startVars

LibrarySpec == LibraryInit /\ [][LibraryNext]_allVars

(***************************************************************************)
(* Whatever runs in a body was called through the wrapper's table, whose   *)
(* slots are all filled and agree with the caller about their layout; the  *)
(* maps that its conversions read are built; and no call that it makes     *)
(* comes back into libmpi_abi, whether or not dladdr could tell.           *)
(* (bootstrap.c:205-226 and 252-283; getvtable.c:96-162; handles.c:5-8     *)
(* "built once ... before any slot can be called".)                        *)
(***************************************************************************)
CallsFollowTheHandshake ==
  pc # "idle" =>
    /\ mpi_abi_vt = "table"
    /\ matches /\ filled /\ maps
    /\ captured = "none"
=============================================================================
