------------------------------- MODULE Keyvals -------------------------------
(***************************************************************************)
(* Attribute keys: the registry of src/mpiwrapper/keyvals.c and the entry  *)
(* points around it.  MPI_*_create_keyval registers the number the         *)
(* implementation chose and hands the application the index as its own     *)
(* keyval; MPI_*_set_attr, _get_attr, _delete_attr and _free_keyval        *)
(* convert that back; and the copy and delete trampolines of extrastate.c  *)
(* convert the implementation's number when MPI calls the application.     *)
(*                                                                         *)
(* The implementation below the wrapper is external.  It may reuse the     *)
(* number of a key once that key has been freed and nothing refers to it   *)
(* any more (MPI-5.0 7.7), which is the reason for the direction of the    *)
(* scan.  The application is correct: it uses a keyval only between its    *)
(* creation and its freeing, and does not free one that another of its     *)
(* calls is using.  It may present an integer that is no keyval.           *)
(***************************************************************************)
EXTENDS AppendTable

CONSTANTS
  Objects,    \* communicators, datatypes or windows that carry attributes
  NoKey,      \* "no ABI keyval": stands beside the members of Slots
  NoObject    \* stands beside the members of Objects

ASSUME NoKeyAssumption == NoKey \notin Int /\ NoKey \notin Values
ASSUME NoObjectAssumption == NoObject \notin Objects

VARIABLES
  key,        \* the implementation's state of each keyval number
  attrs,      \* the objects that hold an attribute under each number
  abi,        \* the ABI keyval the application holds for each number
  held,       \* ABI keyvals the application may still use
  call, obj,  \* what each thread is in the middle of, and on which object
  arg         \* the ABI keyval it passed, until the call is forwarded

implVars == <<key, attrs>>
appVars  == <<abi, held>>
callVars == <<call, obj, arg>>
vars     == <<tableVars, implVars, appVars, callVars>>

\* An integer that no create call returned.
Unissued == Capacity

Calls == {"none", "create", "set", "get", "delete", "free", "copy", "drop"}

Init ==
  /\ TableInit
  /\ key   = [n \in Values |-> "free"]
  /\ attrs = [n \in Values |-> {}]
  /\ abi   = [n \in Values |-> NoKey]
  /\ held  = {}
  /\ call  = [t \in Threads |-> "none"]
  /\ obj   = [t \in Threads |-> NoObject]
  /\ arg   = [t \in Threads |-> NoKey]

Return(t) ==
  /\ Leave(t)
  /\ call' = [call EXCEPT ![t] = "none"]
  /\ obj'  = [obj EXCEPT ![t] = NoObject]
  /\ arg'  = [arg EXCEPT ![t] = NoKey]

-----------------------------------------------------------------------------
(* MPI_*_create_keyval. *)

\* TARGET succeeds with a number that names no key; keyval_add follows.
CreateKeyval(t) ==
  /\ pc[t] = "idle"
  /\ \E n \in Values :
       /\ key[n] = "free"
       /\ key' = [key EXCEPT ![n] = "live"]
       /\ val' = [val EXCEPT ![t] = n]
  /\ call' = [call EXCEPT ![t] = "create"]
  /\ Goto(t, "claim")
  /\ UNCHANGED <<cell, count, idx, attrs, appVars, obj, arg>>

CreateReturns(t) ==
  /\ pc[t] = "added"
  /\ abi'  = [abi EXCEPT ![val[t]] = idx[t]]
  /\ held' = held \cup {idx[t]}
  /\ Return(t)
  /\ UNCHANGED <<cell, count, implVars>>

\* Mistake: the result of keyval_add is used unchecked.
CreateFailsUnchecked(t) ==
  /\ pc[t] = "full"
  /\ abi'  = [abi EXCEPT ![val[t]] = idx[t]]
  /\ held' = held \cup {idx[t]}
  /\ Return(t)
  /\ UNCHANGED <<cell, count, implVars>>

\* The registry is full: MPIABI_ERR_INTERN, and the key stays behind in the
\* implementation.
CreateFails(t) ==
  /\ pc[t] = "full"
  /\ Return(t)
  /\ UNCHANGED <<cell, count, implVars, appVars>>

-----------------------------------------------------------------------------
(* Calls that take an ABI keyval. *)

Converting == {"check", "load", "loaded", "nosuch"}
Scanning   == {"count", "scan", "found", "missed"}

\* Threads whose call is on its way down with ABI keyval s.
Using(s) == {t \in Threads : pc[t] \in Converting /\ arg[t] = s}

Present(t, c, o, s) ==
  /\ pc[t] = "idle"
  /\ call' = [call EXCEPT ![t] = c]
  /\ obj'  = [obj EXCEPT ![t] = o]
  /\ arg'  = [arg EXCEPT ![t] = s]
  /\ idx'  = [idx EXCEPT ![t] = s]
  /\ Goto(t, "check")
  /\ UNCHANGED <<cell, count, val, implVars, abi>>

UseKeyval(t) ==
  /\ \E c \in {"set", "get", "delete"}, o \in Objects, s \in held \cup {Unissued} :
       Present(t, c, o, s)
  /\ UNCHANGED held

FreeKeyval(t) ==
  \E s \in held :
    /\ Using(s) = {}
    /\ Present(t, "free", NoObject, s)
    /\ held' = held \ {s}

\* keyval_dynamic_fromabi looks at the claimed part of the table only.
CheckKeyval(t) ==
  /\ CheckIndex(t, NewestIndex + 1)
  /\ UNCHANGED <<implVars, appVars, callVars>>

\* MPI_KEYVAL_INVALID goes down and the implementation refuses it.
Refused(t) ==
  /\ pc[t] = "nosuch"
  /\ Return(t)
  /\ UNCHANGED <<cell, count, implVars, appVars>>

\* The implementation holds object o while it runs a function for one of its
\* attributes.
Busy(o) == \E u \in Threads : pc[u] \in Scanning /\ obj[u] = o

\* A number that goes back to the implementation is nobody's keyval.
Settle(n, state) ==
  /\ key' = [key EXCEPT ![n] = state]
  /\ abi' = IF state = "free" THEN [abi EXCEPT ![n] = NoKey] ELSE abi

\* The implementation reads the attribute, or has none to delete.
ForwardRead(t) ==
  /\ pc[t] = "loaded"
  /\ \/ call[t] = "get"
     \/ call[t] = "delete" /\ obj[t] \notin attrs[val[t]]
  /\ Return(t)
  /\ UNCHANGED <<cell, count, implVars, appVars>>

\* It stores an attribute where there was none.
ForwardStore(t) ==
  /\ pc[t] = "loaded"
  /\ call[t] = "set"
  /\ ~Busy(obj[t])
  /\ obj[t] \notin attrs[val[t]]
  /\ attrs' = [attrs EXCEPT ![val[t]] = @ \cup {obj[t]}]
  /\ Return(t)
  /\ UNCHANGED <<cell, count, key, appVars>>

\* It calls the delete function of the attribute to replace or remove.
ForwardDelete(t) ==
  /\ pc[t] = "loaded"
  /\ call[t] \in {"set", "delete"}
  /\ ~Busy(obj[t])
  /\ obj[t] \in attrs[val[t]]
  /\ arg' = [arg EXCEPT ![t] = NoKey]
  /\ Goto(t, "count")
  /\ UNCHANGED <<cell, count, val, idx, implVars, appVars, call, obj>>

\* MPI_*_free_keyval: the key lives on while attributes refer to it.
ForwardFree(t) ==
  /\ pc[t] = "loaded"
  /\ call[t] = "free"
  /\ Settle(val[t], IF attrs[val[t]] = {} THEN "free" ELSE "marked")
  /\ Return(t)
  /\ UNCHANGED <<cell, count, attrs, held>>

-----------------------------------------------------------------------------
(* The trampolines: MPI calls the application for an attribute it holds.   *)

\* Duplicating or freeing an object makes the implementation run the copy or
\* the delete function of each of its attributes.
StartCallback(t) ==
  /\ pc[t] = "idle"
  /\ \E c \in {"copy", "drop"}, n \in Values : \E o \in attrs[n] :
       /\ ~Busy(o)
       /\ call' = [call EXCEPT ![t] = c]
       /\ obj'  = [obj EXCEPT ![t] = o]
       /\ val'  = [val EXCEPT ![t] = n]
  /\ Goto(t, "count")
  /\ UNCHANGED <<cell, count, idx, implVars, appVars, arg>>

\* The application's function has run, with idx as its keyval argument or
\* MPIABI_KEYVAL_INVALID, and MPI removes the attribute ...
EndDelete(t) ==
  LET n    == val[t]
      left == attrs[n] \ {obj[t]}
  IN
  /\ pc[t] \in {"found", "missed"}
  /\ call[t] \in {"delete", "drop"}
  /\ attrs' = [attrs EXCEPT ![n] = left]
  /\ Settle(n, IF key[n] = "marked" /\ left = {} THEN "free" ELSE key[n])
  /\ Return(t)
  /\ UNCHANGED <<cell, count, held>>

\* ... or stores the new value in its place ...
EndReplace(t) ==
  /\ pc[t] \in {"found", "missed"}
  /\ call[t] = "set"
  /\ Return(t)
  /\ UNCHANGED <<cell, count, implVars, appVars>>

\* ... or gives a copy to another object, if the function's flag says so.
EndCopy(t) ==
  /\ pc[t] \in {"found", "missed"}
  /\ call[t] = "copy"
  /\ \E new \in SUBSET Objects :
       /\ Cardinality(new) <= 1 /\ \A o \in new : ~Busy(o)
       /\ attrs' = [attrs EXCEPT ![val[t]] = @ \cup new]
  /\ Return(t)
  /\ UNCHANGED <<cell, count, key, appVars>>

-----------------------------------------------------------------------------

TableAction(t) == TableStep(t) /\ UNCHANGED <<implVars, appVars, callVars>>

Step(t) ==
  \/ TableAction(t) \/ CreateReturns(t) \/ CreateFails(t) \/ CheckKeyval(t)
  \/ Refused(t)
  \/ ForwardRead(t) \/ ForwardStore(t) \/ ForwardDelete(t) \/ ForwardFree(t)
  \/ EndDelete(t) \/ EndReplace(t) \/ EndCopy(t)

Begin(t) ==
  CreateKeyval(t) \/ UseKeyval(t) \/ FreeKeyval(t) \/ StartCallback(t)

Next == \E t \in Threads : Step(t) \/ Begin(t)

Spec == Init /\ [][Next]_vars

-----------------------------------------------------------------------------
(* Properties. *)

\* The types of the state.
TypeOK ==
  /\ TableTypeOK
  /\ key   \in [Values -> {"free", "live", "marked"}]
  /\ attrs \in [Values -> SUBSET Objects]
  /\ abi   \in [Values -> Slots \cup {NoKey}]
  /\ held  \subseteq Slots
  /\ call  \in [Threads -> Calls]
  /\ obj   \in [Threads -> Objects \cup {NoObject}]
  /\ arg   \in [Threads -> Slots \cup {Unissued, NoKey}]

(***************************************************************************)
(* A copy or delete function is called with the keyval its attribute was   *)
(* set under: never MPIABI_KEYVAL_INVALID, and never the keyval of an      *)
(* earlier key whose number the implementation has reused, although other  *)
(* threads append while the trampoline scans (keyvals.c:96-107, called     *)
(* from extrastate.c:75, 93).                                              *)
(***************************************************************************)
CallbackNamesItsKey ==
  \A t \in Threads :
    pc[t] \in {"found", "missed"} => pc[t] = "found" /\ idx[t] = abi[val[t]]

(***************************************************************************)
(* A call that passes a keyval it was given reaches that key in the        *)
(* implementation, and no other that has had its number; an integer that   *)
(* is no keyval goes down as MPI_KEYVAL_INVALID (keyvals.c:80-88).         *)
(***************************************************************************)
CallReachesItsKey ==
  \A t \in Threads :
    /\ pc[t] = "loaded" => /\ arg[t] \in Slots
                           /\ val[t] \in Values
                           /\ key[val[t]] = "live"
                           /\ abi[val[t]] = arg[t]
    /\ pc[t] = "nosuch" => arg[t] = Unissued

\* The ABI keyvals that create calls have returned.
Issued == {s \in Slots : cell[s] # Unset /\ \A t \in Threads : pc[t] = "added" => idx[t] # s}

\* The conversion that the call of t is waiting for, and its answer.
AskedBy(t) ==
  IF pc[t] \in Scanning THEN <<"toabi", val[t]>>
  ELSE IF pc[t] \in Converting /\ arg[t] \in Slots THEN <<"fromabi", arg[t]>>
  ELSE <<"nothing", NoKey>>

AnswerTo(t) ==
  IF pc[t] = "found" THEN idx[t] ELSE IF pc[t] = "loaded" THEN val[t] ELSE NoKey

Map == INSTANCE KeyvalMap WITH
  bind   <- abi,
  issued <- Issued,
  asked  <- [t \in Threads |-> AskedBy(t)],
  answer <- [t \in Threads |-> AnswerTo(t)]

(***************************************************************************)
(* The registry behaves as an atomic map (module KeyvalMap): an index is   *)
(* issued once, and the answer of every conversion is the binding at one   *)
(* moment of the call (keyvals.c:62-107).                                  *)
(***************************************************************************)
ImplementsMap == Map!Spec

-----------------------------------------------------------------------------
(* The inductive invariant behind them. *)

Creating == {"claim", "overflow", "full", "publish", "added"}

\* The number a create call holds is nobody else's, and has no attribute yet.
CreateOwnsNumber ==
  /\ \A t \in Threads : pc[t] \in Creating =>
       /\ val[t] \in Values
       /\ key[val[t]] = "live"
       /\ abi[val[t]] = NoKey
       /\ attrs[val[t]] = {}
  /\ \A t, u \in Threads :
       t # u /\ pc[t] \in Creating /\ pc[u] \in Creating => val[t] # val[u]

\* No later entry repeats the number of a published entry that is in use, or
\* of one that is about to be published: the newest entry is the live one.
NewestIsLive ==
  /\ \A n \in Values : abi[n] # NoKey =>
       /\ abi[n] < count
       /\ cell[abi[n]] = n
       /\ \A s \in Slots : s > abi[n] => cell[s] # n
  /\ \A t \in Threads : OwnsIndex(t) =>
       \A s \in Slots : s > idx[t] => cell[s] # val[t]

\* What the implementation references has an ABI keyval.
ReferencedIsIssued ==
  \A n \in Values :
    /\ attrs[n] # {} => abi[n] # NoKey
    /\ key[n] = "free" => attrs[n] = {} /\ abi[n] = NoKey

\* An ABI keyval the application may use names a live key.
Names(s) == /\ s \in Slots
            /\ cell[s] \in Values
            /\ abi[cell[s]] = s
            /\ key[cell[s]] = "live"

HeldIsLive ==
  /\ \A s \in held : Names(s)
  /\ \A t \in Threads : pc[t] \in Converting =>
       /\ arg[t] # NoKey
       /\ arg[t] \in Slots => Names(arg[t])
       /\ pc[t] # "loaded" => idx[t] = arg[t]
       /\ pc[t] = "loaded" => arg[t] \in Slots /\ val[t] = cell[arg[t]]
       /\ pc[t] = "load"   => arg[t] \in Slots
       /\ pc[t] = "nosuch" => arg[t] = Unissued

\* A call that is not a free has an object.
CallHasObject ==
  \A t \in Threads : pc[t] \in Converting /\ call[t] # "free" => obj[t] \in Objects

\* Only one call uses a keyval that is being freed.
FreeIsExclusive ==
  \A t \in Threads : pc[t] \in Converting /\ call[t] = "free" =>
    /\ arg[t] \in Slots
    /\ arg[t] \notin held
    /\ \A u \in Threads \ {t} : pc[u] \in Converting => arg[u] # arg[t]

\* A trampoline runs for an attribute that exists, one at a time for each
\* object, and the entry it looks for is still ahead of its scan.
ScanIsAhead ==
  /\ \A t \in Threads : pc[t] \in Scanning =>
       /\ val[t] \in Values
       /\ obj[t] \in attrs[val[t]]
       /\ pc[t] = "scan"  => idx[t] >= abi[val[t]] /\ idx[t] < Capacity
       /\ pc[t] = "found" => idx[t] = abi[val[t]]
       /\ pc[t] # "missed"
  /\ \A t, u \in Threads :
       t # u /\ pc[t] \in Scanning /\ pc[u] \in Scanning => obj[t] # obj[u]

KeyvalInv ==
  /\ TypeOK
  /\ TableInv
  /\ CreateOwnsNumber
  /\ NewestIsLive
  /\ ReferencedIsIssued
  /\ HeldIsLive
  /\ CallHasObject
  /\ FreeIsExclusive
  /\ ScanIsAhead
=============================================================================
