------------------------------- MODULE Startup -------------------------------
(***************************************************************************)
(* The constructor of libmpi_abi, which loads libmpiwrapper and fetches    *)
(* its table of functions: mpi_abi_ctor, vt_load and resolution_probe_     *)
(* passed of src/mpi_abi/bootstrap.c, and mpiwrapper_get_vtable of         *)
(* src/mpiwrapper/getvtable.c.                                             *)
(*                                                                         *)
(* Some of the calls below libmpi_abi may be captured: bound back to its   *)
(* own exported functions, and so executed twice or without end.  It is    *)
(* the loader that decides (external):                                     *)
(*   none            every call goes outward;                              *)
(*   wrapper         the wrapper was loaded without isolation, and its     *)
(*                   calls come back;                                      *)
(*   implementation  the implementation was built with a flat namespace:   *)
(*                   the wrapper reaches it, but the PMPI function behind  *)
(*                   each of its MPI functions is libmpi_abi's.            *)
(* Every failure ends the process.                                         *)
(***************************************************************************)
CONSTANT Captures    \* which of these can happen

ASSUME CapturesAssumption ==
  Captures \subseteq {"none", "wrapper", "implementation"}

VARIABLES
  loading,       \* where the constructor is
  captured,
  matches,       \* the version, subversion, layout and size are the same
  filled,        \* no slot of the table is empty
  dladdrKnows,   \* dladdr finds the libraries of both functions
  initialized,   \* getvtable.c
  maps,          \* whether the reverse maps of handles.c are built
  reentered,     \* probe_reentered
  mpi_abi_vt     \* "null", "decoy" or "table"

startVars == <<loading, captured, matches, filled, dladdrKnows, initialized,
               maps, reentered, mpi_abi_vt>>
given == <<captured, matches, filled, dladdrKnows>>

StartInit ==
  /\ loading = "dlopen"
  /\ captured \in Captures
  /\ matches \in BOOLEAN /\ filled \in BOOLEAN /\ dladdrKnows \in BOOLEAN
  /\ initialized = FALSE /\ maps = FALSE
  /\ reentered = FALSE
  /\ mpi_abi_vt = "null"

Goto(l) == loading' = l
Abort   == Goto("aborted")

Dlopen ==
  /\ loading = "dlopen"
  /\ Goto("get vtable") \/ Abort
  /\ UNCHANGED <<given, initialized, maps, reentered, mpi_abi_vt>>

\* resolution_is_outward: does the wrapper's MPI_Send live in libmpi_abi?
ResolutionIsOutward == ~dladdrKnows \/ captured # "wrapper"

\* The checks, and the exchange that elects the builder of the maps.
GetVtable ==
  /\ loading = "get vtable"
  /\ IF matches /\ ResolutionIsOutward /\ filled
     THEN /\ initialized' = TRUE
          /\ Goto(IF initialized THEN "decoy" ELSE "build maps")
     ELSE Abort /\ UNCHANGED initialized
  /\ UNCHANGED <<given, maps, reentered, mpi_abi_vt>>

\* mpiwrapper_init_reverse_maps; a map finds no perfect hash, or every one is
\* built.
BuildMaps ==
  /\ loading = "build maps"
  /\ \/ maps' = TRUE /\ Goto("decoy")
     \/ Abort /\ UNCHANGED maps
  /\ UNCHANGED <<given, initialized, reentered, mpi_abi_vt>>

SetDecoy ==
  /\ loading = "decoy"
  /\ reentered' = FALSE
  /\ mpi_abi_vt' = "decoy"
  /\ Goto("probe")
  /\ UNCHANGED <<given, initialized, maps>>

\* One call of MPI_Get_version.  Whatever comes back runs a slot of the table
\* that mpi_abi_vt points to.
\* Mistake: the wrapper answers without asking the implementation.
ComesBackUnasked == FALSE
ComesBack == captured # "none"

Probe ==
  /\ loading = "probe"
  /\ reentered' = ComesBack
  /\ mpi_abi_vt' = "null"
  /\ Goto("store")
  /\ UNCHANGED <<given, initialized, maps>>

StoreVt ==
  /\ loading = "store"
  /\ IF reentered THEN Abort /\ UNCHANGED mpi_abi_vt
     ELSE mpi_abi_vt' = "table" /\ Goto("loaded")
  /\ UNCHANGED <<given, initialized, maps, reentered>>

StartNext ==
  Dlopen \/ GetVtable \/ BuildMaps \/ SetDecoy \/ Probe \/ StoreVt
=============================================================================
