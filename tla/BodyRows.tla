------------------------------- MODULE BodyRows -------------------------------
(***************************************************************************)
(* What a row of the table of bodies is.  A row describes one generated    *)
(* body of gen/mpiwrapper/wrappers.c; Bodies.tla says how it runs.         *)
(*                                                                         *)
(* A row names the handles a call makes, those it changes in place and the *)
(* arrays of handles it fills in; and for each arm the queries and         *)
(* conversions before the call that can refuse it, in their order.  A twin *)
(* comes with the parameters whose type in the prototype of MPI_X_c is     *)
(* wider than in that of MPI_X.                                            *)
(***************************************************************************)
EXTENDS Naturals, Sequences

-----------------------------------------------------------------------------
(***************************************************************************)
(* Steps and parts.  The arrays of a local part are freed when the call    *)
(* returns; those of a shared one are one block, which outlives it.        *)
(***************************************************************************)
Narrowed(p)  == [do |-> "narrow",     of |-> p]
Asked(q)     == [do |-> "extent",     of |-> q]
CountCheck   == [do |-> "check",      of |-> "count"]

Counts(p)    == [do |-> "counts",     of |-> p]
Handles(p)   == [do |-> "handles",    of |-> p]
SendTypes(p) == [do |-> "send types", of |-> p]
Statuses(p)  == [do |-> "statuses",   of |-> p]
Room(p)      == [do |-> "room",       of |-> p]   \* for the call to write

Local(pre, arrays)  == [pre |-> pre, arrays |-> arrays, block |-> FALSE]
Shared(pre, arrays) == [pre |-> pre, arrays |-> arrays, block |-> TRUE]

Narrowing(ps) == Local([i \in 1 .. Len(ps) |-> Narrowed(ps[i])], << >>)

-----------------------------------------------------------------------------
(***************************************************************************)
(* Rows.                                                                   *)
(***************************************************************************)
Row(name, outs, changes, fills) ==
  [name |-> name, calls |-> "implementation",
   native |-> Local(<< >>, << >>),
   twin |-> FALSE, fallback |-> Local(<< >>, << >>), wide |-> {},
   outs |-> outs, changes |-> changes, fills |-> fills,
   completes |-> "no", inPlace |-> FALSE, persistent |-> FALSE]

Calls(name)                          == Row(name, {}, {}, {})
Makes(name, outs)                    == Row(name, outs, {}, {})
Changes(name, handles)               == Row(name, {}, handles, {})
FillsIn(name, arrays)                == Row(name, {}, {}, arrays)
MakesAndChanges(name, outs, handles) == Row(name, outs, handles, {})
MakesAndFills(name, outs, arrays)    == Row(name, outs, {}, arrays)

\* The requests these change may become null; their blocks are released then.
CompletesOne(name, request) ==
  [Changes(name, {request}) EXCEPT !.completes = "one"]
CompletesArray(name, requests) ==
  [Changes(name, {requests}) EXCEPT !.completes = "array"]

\* No error code; no call at all.
Value(name)        == [Calls(name) EXCEPT !.calls = "value"]
CallsNothing(name) == [Calls(name) EXCEPT !.calls = "nothing"]

Native(row, part)     == [row EXCEPT !.native = part]
Twin(row, wide, part) ==
  [row EXCEPT !.twin = TRUE, !.wide = wide, !.fallback = part]

\* A call in place ignores its send arrays; a persistent operation never
\* completes within the call that creates it.
InPlace(row)    == [row EXCEPT !.inPlace = TRUE]
Persistent(row) == [row EXCEPT !.persistent = TRUE]
=============================================================================
