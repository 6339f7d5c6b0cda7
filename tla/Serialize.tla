------------------------------ MODULE Serialize ------------------------------
(***************************************************************************)
(* Handle serialization: the table of src/mpiwrapper/serialize.c behind    *)
(* MPI_<class>_toint and _c2f, _fromint and _f2c (hw_converters.c).  A     *)
(* handle the implementation created is interned and serializes to         *)
(* Base + its index; a predefined handle serializes to its own value.      *)
(*                                                                         *)
(* Values are the bits of the handles the implementation creates.  The     *)
(* empty marker Unset is the bits 0, which an application can pass too.    *)
(* An implementation that reuses the bits of a freed handle changes        *)
(* nothing here: the integer is a name of the bits.                        *)
(***************************************************************************)
EXTENDS AppendTable

CONSTANTS
  Base,         \* MPIWRAPPER_SERIAL_ABI_BASE
  Predefined,   \* ABI values of predefined handles
  None          \* "no call has returned", and the null handle of a class

ASSUME BaseAssumption == Base \in Nat \ {0}
ASSUME PredefinedAssumption == Predefined \subseteq 1 .. Base - 1
ASSUME PredefinedAreNoHandles == Predefined \cap (Values \cup {Unset}) = {}
ASSUME NoneAssumption == None \notin Int \cup Values \cup {Unset}

VARIABLES
  arg,      \* what each thread passed to the call it is in
  out,      \* <<operation, argument, answer>> of the last call to return
  given,    \* every <<thread, handle, integer>> that _toint has answered
  known,    \* what it passed had an answer when the call began
  raced     \* handles that two overlapping calls have serialized

ghostVars == <<given, known, raced>>
vars      == <<tableVars, arg, out, ghostVars>>

Zero == 0    \* the answer of _toint that is no integer of any handle

Init ==
  /\ TableInit
  /\ arg   = [t \in Threads |-> None]
  /\ out   = [t \in Threads |-> None]
  /\ given = {}
  /\ known = [t \in Threads |-> FALSE]
  /\ raced = {}

Answer(t, op, in, result) == out' = [out EXCEPT ![t] = <<op, in, result>>]

Return(t) ==
  /\ Leave(t)
  /\ arg'   = [arg EXCEPT ![t] = None]
  /\ known' = [known EXCEPT ![t] = FALSE]

Integers(h) == {g[3] : g \in {x \in given : x[2] = h}}

-----------------------------------------------------------------------------
(* mpiwrapper_handle_toint. *)

Tointing == {"count", "scan", "missed", "found", "claim", "overflow", "full",
             "publish", "added"}

\* Not interned: a predefined handle, and the bits that mark an empty cell.
TointAtOnce(t) ==
  /\ pc[t] = "idle"
  /\ \E bits \in Predefined \cup {Unset} :
       Answer(t, "toint", bits, IF bits \in Predefined THEN bits ELSE Zero)
  /\ UNCHANGED <<tableVars, arg, ghostVars>>

Toint(t) ==
  /\ pc[t] = "idle"
  /\ \E h \in Values :
       /\ val'   = [val EXCEPT ![t] = h]
       /\ arg'   = [arg EXCEPT ![t] = h]
       /\ known' = [known EXCEPT ![t] = Integers(h) # {}]
       /\ raced' = IF \E u \in Threads : pc[u] \in Tointing /\ arg[u] = h
                   THEN raced \cup {h} ELSE raced
  /\ out' = [out EXCEPT ![t] = None]
  /\ Goto(t, "count")
  /\ UNCHANGED <<cell, count, idx, given>>

\* No entry has the handle: append one.
Append(t) ==
  /\ pc[t] = "missed"
  /\ Goto(t, "claim")
  /\ UNCHANGED <<cell, count, val, idx, arg, out, ghostVars>>

TointReturns(t) ==
  /\ pc[t] \in {"found", "added"}
  /\ given' = given \cup {<<t, arg[t], Base + idx[t]>>}
  /\ Answer(t, "toint", arg[t], Base + idx[t])
  /\ Return(t)
  /\ UNCHANGED <<cell, count, raced>>

\* Mistake: a handle that found no room is answered like one that did.
TointFailsUnchecked(t) ==
  /\ pc[t] = "full"
  /\ given' = given \cup {<<t, arg[t], Base + idx[t]>>}
  /\ Answer(t, "toint", arg[t], Base + idx[t])
  /\ Return(t)
  /\ UNCHANGED <<cell, count, raced>>

TointFails(t) ==
  /\ pc[t] = "full"
  /\ Answer(t, "toint", arg[t], Zero)
  /\ Return(t)
  /\ UNCHANGED <<cell, count, given, raced>>

-----------------------------------------------------------------------------
(* mpiwrapper_handle_fromint.  It does not look at the counter: any index  *)
(* of the table is loaded, claimed or not.                                 *)

FromintAtOnce(t) ==
  /\ pc[t] = "idle"
  /\ \E p \in Predefined : Answer(t, "fromint", p, p)
  /\ UNCHANGED <<tableVars, arg, ghostVars>>

\* An integer is a name of the table, or lies on either side of those.
Fromint(t) ==
  /\ pc[t] = "idle"
  /\ \E i \in ({Zero} \cup (Base - 1 .. Base + Capacity)) \ Predefined :
       /\ arg' = [arg EXCEPT ![t] = i]
       /\ idx' = [idx EXCEPT ![t] = i - Base]
       /\ known' = [known EXCEPT ![t] = \E g \in given : g[3] = i]
  /\ out' = [out EXCEPT ![t] = None]
  /\ Goto(t, "check")
  /\ UNCHANGED <<cell, count, val, given, raced>>

CheckInteger(t) ==
  /\ CheckIndex(t, Capacity)
  /\ UNCHANGED <<arg, out, ghostVars>>

FromintReturns(t) ==
  /\ pc[t] = "loaded"
  /\ val[t] # Unset
  /\ Answer(t, "fromint", arg[t], val[t])
  /\ Return(t)
  /\ UNCHANGED <<cell, count, given, raced>>

\* The null handle of the class.
FromintFails(t) ==
  /\ pc[t] = "nosuch" \/ (pc[t] = "loaded" /\ val[t] = Unset)
  /\ Answer(t, "fromint", arg[t], None)
  /\ Return(t)
  /\ UNCHANGED <<cell, count, given, raced>>

-----------------------------------------------------------------------------

TableAction(t) == TableStep(t) /\ UNCHANGED <<arg, out, ghostVars>>

Next ==
  \E t \in Threads :
    \/ TableAction(t)
    \/ TointAtOnce(t) \/ Toint(t) \/ Append(t) \/ TointReturns(t) \/ TointFails(t)
    \/ FromintAtOnce(t) \/ Fromint(t) \/ CheckInteger(t)
    \/ FromintReturns(t) \/ FromintFails(t)

Spec == Init /\ [][Next]_vars

-----------------------------------------------------------------------------
(* Properties. *)

Names == Base .. Base + Capacity - 1

TypeOK ==
  /\ TableTypeOK
  /\ arg   \in [Threads -> Values \cup Int \cup {None}]
  /\ given \subseteq Threads \X Values \X Names
  /\ known \in [Threads -> BOOLEAN]
  /\ raced \subseteq Values
  /\ \A t \in Threads : out[t] # None => out[t][1] \in {"toint", "fromint"}

(***************************************************************************)
(* An integer that _toint answered goes back to the handle it was answered *)
(* for: no two handles share one, a conversion that begins after it was    *)
(* answered finds the handle, and no integer ever stands for a handle      *)
(* other than its own.  Predefined handles are their own integers, and no  *)
(* other handle takes one of theirs (MPI-5.0 20.4.5, serialize.c:1-35).    *)
(***************************************************************************)
RoundTrip ==
  /\ \A g, h \in given : g[3] = h[3] => g[2] = h[2]
  /\ \A t \in Threads :
       /\ pc[t] = "loaded" =>
            \A g \in given : g[3] = arg[t] => val[t] = g[2] \/ (~known[t] /\ val[t] = Unset)
       /\ pc[t] = "nosuch" => ~known[t]
       /\ out[t] # None /\ {out[t][2], out[t][3]} \cap Predefined # {} =>
            out[t][2] = out[t][3]

(***************************************************************************)
(* A handle that some call has already serialized when a call begins is    *)
(* not appended again and does not fail for want of room, so a full table  *)
(* keeps answering for everything it ever named (serialize.c:72-83).       *)
(***************************************************************************)
OnceNamedAlwaysNamed ==
  \A t \in Threads :
    pc[t] \in Tointing /\ known[t] => pc[t] \in {"count", "scan", "found"}

(***************************************************************************)
(* The same handle serializes to the same integer, for every thread, as    *)
(* long as no two calls have serialized it at the same time                *)
(* (serialize.c:72-76).                                                    *)
(***************************************************************************)
OneIntegerUnlessRaced ==
  \A h \in Values \ raced : Cardinality(Integers(h)) <= 1

(***************************************************************************)
(* What the calls amount to for their callers: the table is the names, and *)
(* a call has its answer from the access that decides it -- the load that  *)
(* matches, the store that publishes, the fetch-and-add past the end, the  *)
(* check or the load of an integer's index.                                *)
(***************************************************************************)
AskedBy(t) ==
  IF pc[t] \in Tointing THEN <<"toint", arg[t], known[t]>>
  ELSE IF pc[t] \in {"check", "load", "loaded", "nosuch"}
       THEN <<"fromint", IF arg[t] - Base \in Slots THEN arg[t] - Base ELSE None, known[t]>>
       ELSE <<"nothing", None, FALSE>>

AnswerTo(t) ==
  IF pc[t] \in {"found", "added"} THEN <<idx[t]>>
  ELSE IF pc[t] = "loaded" /\ val[t] # Unset THEN <<val[t]>>
  ELSE IF pc[t] \in {"overflow", "full", "nosuch", "loaded"} THEN <<None>>
       ELSE << >>

Promise == INSTANCE HandleNames WITH
  name   <- cell,
  given  <- {<<g[2], g[3] - Base>> : g \in given},
  asked  <- [t \in Threads |-> AskedBy(t)],
  answer <- [t \in Threads |-> AnswerTo(t)]

(***************************************************************************)
(* Serialization keeps its promise (module HandleNames): for its callers   *)
(* the names are looked up, given and used up at one moment of each call,  *)
(* although a scan takes many steps and others append during it; and no    *)
(* slot is lost, so that a call that is refused has met a table of which   *)
(* every slot is taken (serialize.c:63-121).                               *)
(***************************************************************************)
KeepsPromise == Promise!Spec

(***************************************************************************)
(* What the race of serialize.c:85-91 can cost: a handle takes one slot    *)
(* for each thread at the most, however often it is serialized.            *)
(***************************************************************************)
SlotsPerHandle ==
  \A h \in Values :
    Cardinality({s \in Slots : cell[s] = h}) <= Cardinality(Threads)

(***************************************************************************)
(* The comment in serialize.c:88-91: two threads may be handed two         *)
(* integers for one handle, but "the standard's requirement holds for      *)
(* every sequence of calls a single thread can observe": the calls of one  *)
(* thread answer one integer for one handle.                               *)
(***************************************************************************)
OneIntegerPerThread ==
  \A g, h \in given : g[1] = h[1] /\ g[2] = h[2] => g[3] = h[3]
=============================================================================
