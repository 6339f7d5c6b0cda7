----------------------------- MODULE ToolEvents ------------------------------
(***************************************************************************)
(* MPI_T event callbacks: the map of src/mpiwrapper/toolevents.c, from the *)
(* implementation's registration handle to the application's functions,    *)
(* the three entry points of hw_callbacks.c that fill it, and the three    *)
(* trampolines the implementation calls.                                   *)
(*                                                                         *)
(* An entry has a flag (used), a key, and seven fields, all atomic: one    *)
(* access is one action.  An entry is found by scanning from the first     *)
(* slot; it is claimed by a compare-and-swap on the flag, after which the  *)
(* key is stored and the fields are cleared; it is given up by the free    *)
(* trampoline, which leaves key and fields as they are.                    *)
(*                                                                         *)
(* A registration passes a function and data.  Each call gets a tag, a     *)
(* number greater than all before it, that stands for both, so that a      *)
(* field says which call it comes from.  The implementation is external:   *)
(* it raises events for a registration whenever a trampoline is installed, *)
(* calls the free trampoline when no other runs for that registration, and *)
(* may use the handle again afterwards.  Env says what may overlap:        *)
(*   serialized   one call at a time;                                      *)
(*   fresh        calls overlap for different handles, none is used again; *)
(*   apart        calls overlap for different handles;                     *)
(*   overlapping  calls for one handle overlap too.                        *)
(* But in fresh, handles are used again.  Events are raised at any time.   *)
(***************************************************************************)
EXTENDS Integers, FiniteSets, Sequences

CONSTANTS
  Callers,        \* application threads
  Deliverers,     \* threads on which the implementation raises events
  Regs,           \* its registration handles
  NumLevels,      \* MPIWRAPPER_T_CB_LEVELS
  Capacity,       \* MPIWRAPPER_T_EVENT_SLOTS
  MaxTag,         \* bound on the number of calls with a function
  MaxOverlapping, \* bound on the handles in use where calls overlap
  Environments,   \* see above
  NoReg           \* the key of an entry never claimed

Slots  == 0 .. Capacity - 1
Levels == 1 .. NumLevels

ASSUME CapacityAssumption == Capacity \in Nat \ {0}
ASSUME BoundsAssumption == MaxTag \in Nat /\ MaxOverlapping \in Nat
ASSUME NumLevelsAssumption == NumLevels \in Nat \ {0}
ASSUME NoRegAssumption == NoReg \notin Regs
ASSUME ThreadsAssumption == Callers \cap Deliverers = {}
ASSUME EnvironmentsAssumption ==
  Environments \subseteq {"serialized", "fresh", "apart", "overlapping"}

Threads == Callers \cup Deliverers

\* The fields of an entry besides used and key, in the order intern clears them.
NumFields == 2 * NumLevels + 3
ClearOrder ==
  [i \in 1 .. NumFields |->
     IF i <= 2 * NumLevels
     THEN <<IF i % 2 = 1 THEN "cb" ELSE "data", (i + 1) \div 2>>
     ELSE <<<<"dropped", "freefn", "freedata">>[i - 2 * NumLevels], 0>>]
Fields == {ClearOrder[i] : i \in 1 .. NumFields}

Null == 0
Tags == 0 .. MaxTag

VARIABLES
  env,
  used, key, field,        \* events[]
  alive, installed, born,  \* the implementation's registrations, what is
                           \* installed for each, and the last tag before it
  lastTag,                 \* tags given out
  want,                    \* the tag of the last call stored for each field
                           \* of a registration, as the application sees it
  pc, job, slot, todo,     \* of each thread: where it is, what it does,
                           \* which entry it looks at, the field to clear
  fn, data,                \* what a trampoline has loaded
  crossed                  \* history, for the properties: a search has taken
                           \* an entry that a call had not put its key in yet

entryVars == <<used, key, field>>
implVars  == <<alive, installed, born>>
appVars   == <<lastTag, want>>
localVars == <<pc, job, slot, todo, fn, data>>
vars      == <<env, crossed, entryVars, implVars, appVars, localVars>>

NoJob == [op |-> "none", reg |-> NoReg, level |-> 0, tag |-> Null, null |-> FALSE]

Init ==
  /\ env \in Environments
  /\ used  = [s \in Slots |-> FALSE]
  /\ key   = [s \in Slots |-> NoReg]
  /\ field = [s \in Slots |-> [f \in Fields |-> Null]]
  /\ alive = {}
  /\ installed = {}
  /\ born  = [r \in Regs |-> -1]
  /\ lastTag = 0
  /\ want  = [r \in Regs |-> [f \in Fields |-> Null]]
  /\ pc    = [t \in Threads |-> "idle"]
  /\ job   = [t \in Threads |-> NoJob]
  /\ slot  = [t \in Threads |-> 0]
  /\ todo  = [t \in Threads |-> 0]
  /\ fn    = [t \in Threads |-> Null]
  /\ data  = [t \in Threads |-> Null]
  /\ crossed = FALSE

Goto(t, label) == pc' = [pc EXCEPT ![t] = label]

At(t, s, label) ==
  /\ slot' = [slot EXCEPT ![t] = s]
  /\ Goto(t, label)

Return(t) ==
  /\ At(t, 0, "idle")
  /\ job'  = [job EXCEPT ![t] = NoJob]
  /\ todo' = [todo EXCEPT ![t] = 0]
  /\ fn'   = [fn EXCEPT ![t] = Null]
  /\ data' = [data EXCEPT ![t] = Null]

Busy(r)    == {t \in Threads : job[t].reg = r}
Calling(r) == Busy(r) \cap Callers

-----------------------------------------------------------------------------
(* The implementation's registrations. *)

\* MPI_T_event_handle_alloc.
Alloc(r) ==
  /\ r \notin alive
  /\ env = "fresh" => born[r] = -1
  /\ env # "serialized" => Cardinality({q \in Regs \ {r} : born[q] # -1}) < MaxOverlapping
  /\ alive' = alive \cup {r}
  /\ born'  = [born EXCEPT ![r] = lastTag]
  /\ want'  = [want EXCEPT ![r] = [f \in Fields |-> Null]]
  /\ UNCHANGED <<env, crossed, entryVars, installed, lastTag, localVars>>

\* The application frees a registration once, and does not use it afterwards.
Freeing(r) ==
  \/ <<r, "free">> \in installed
  \/ \E t \in Callers : job[t].reg = r /\ job[t].op = "free"

MayCall(t, r) ==
  /\ pc[t] = "idle"
  /\ r \in alive
  /\ ~Freeing(r)
  /\ env = "serialized" => \A u \in Callers : pc[u] = "idle"
  /\ env \in {"fresh", "apart"} => Calling(r) = {}

Call(t, r, op, level, null) ==
  /\ MayCall(t, r)
  /\ lastTag < MaxTag
  /\ lastTag' = lastTag + 1
  /\ job' = [job EXCEPT ![t] = [op |-> op, reg |-> r, level |-> level,
                                tag |-> lastTag + 1, null |-> null]]
  /\ At(t, 0, "find")
  /\ UNCHANGED <<env, crossed, entryVars, implVars, want, todo, fn, data>>

\* MPI_T_event_register_callback; one call at a time for a level.  Here and in the
\* next two, null is a function that removes the one before.
Register(t) ==
  \E r \in Regs, l \in Levels, null \in BOOLEAN :
    /\ \A u \in Calling(r) : job[u].op # "cb" \/ job[u].level # l
    /\ Call(t, r, "cb", l, null)

SetDropped(t) ==
  \E r \in Regs, null \in BOOLEAN :
    /\ \A u \in Calling(r) : job[u].op # "dropped"
    /\ Call(t, r, "dropped", 0, null)

\* MPI_T_event_handle_free, with or without a function of the application's.
HandleFree(t) ==
  \E r \in Regs, null \in BOOLEAN :
    /\ Calling(r) = {}
    /\ Call(t, r, "free", 0, null)

-----------------------------------------------------------------------------
(* find: used and key are separate loads. *)

\* A call that finds no entry claims one, unless it has tried to.
AfterMiss(t) ==
  IF t \in Callers /\ pc[t] \in {"find", "findkey"} THEN "claim" ELSE "nothing"

\* Mistake: the scan goes one slot too far.
FindNextPast(t, label) ==
  IF slot[t] < Capacity THEN At(t, slot[t] + 1, label) ELSE At(t, 0, AfterMiss(t))

FindNext(t, label) ==
  IF slot[t] + 1 < Capacity THEN At(t, slot[t] + 1, label) ELSE At(t, 0, AfterMiss(t))

FindUnused(t) ==
  /\ pc[t] \in {"find", "refind"}
  /\ ~used[slot[t]]
  /\ FindNext(t, pc[t])
  /\ UNCHANGED <<env, crossed, entryVars, implVars, appVars, job, todo, fn, data>>

FindUsed(t) ==
  /\ pc[t] \in {"find", "refind"}
  /\ used[slot[t]]
  /\ Goto(t, IF pc[t] = "find" THEN "findkey" ELSE "refindkey")
  /\ UNCHANGED <<env, crossed, entryVars, implVars, appVars, job, slot, todo, fn, data>>

\* What a thread does with the entry it has found or made.
Entered(t) == IF t \in Callers THEN "store" ELSE "load"

\* A slot that has been claimed, but still has the key of its last owner.
Unkeyed(s) == \E t \in Callers : pc[t] = "setkey" /\ slot[t] = s

\* Mistake: any entry in use is taken for the right one.
FindHitAny(t) ==
  /\ pc[t] \in {"findkey", "refindkey"}
  /\ Goto(t, Entered(t))
  /\ UNCHANGED <<env, crossed, entryVars, implVars, appVars, job, slot, todo, fn, data>>

FindHit(t) ==
  /\ pc[t] \in {"findkey", "refindkey"}
  /\ key[slot[t]] = job[t].reg
  /\ Goto(t, Entered(t))
  /\ crossed' = (crossed \/ Unkeyed(slot[t]))
  /\ UNCHANGED <<env, entryVars, implVars, appVars, job, slot, todo, fn, data>>

FindOther(t) ==
  /\ pc[t] \in {"findkey", "refindkey"}
  /\ key[slot[t]] # job[t].reg
  /\ FindNext(t, IF pc[t] = "findkey" THEN "find" ELSE "refind")
  /\ UNCHANGED <<env, crossed, entryVars, implVars, appVars, job, todo, fn, data>>

-----------------------------------------------------------------------------
(* intern: the loop over the slots, and the initialization of the one it   *)
(* claims.  One that is taken is passed over, whoever takes it.            *)

Claim(t) ==
  /\ pc[t] = "claim"
  /\ ~used[slot[t]]
  /\ used' = [used EXCEPT ![slot[t]] = TRUE]
  /\ Goto(t, "setkey")
  /\ UNCHANGED <<env, crossed, key, field, implVars, appVars, job, slot, todo, fn, data>>

ClaimNext(t) ==
  /\ pc[t] = "claim"
  /\ used[slot[t]]
  /\ IF slot[t] + 1 < Capacity
     THEN At(t, slot[t] + 1, "claim")
     ELSE At(t, 0, "refind")
  /\ UNCHANGED <<env, crossed, entryVars, implVars, appVars, job, todo, fn, data>>

\* Mistake: a claimed entry keeps the functions of its last owner.
StoreKeyOnly(t) ==
  /\ pc[t] = "setkey"
  /\ key' = [key EXCEPT ![slot[t]] = job[t].reg]
  /\ Goto(t, "store")
  /\ UNCHANGED <<env, crossed, used, field, implVars, appVars, job, slot, todo, fn, data>>

StoreKey(t) ==
  /\ pc[t] = "setkey"
  /\ key' = [key EXCEPT ![slot[t]] = job[t].reg]
  /\ todo' = [todo EXCEPT ![t] = 1]
  /\ Goto(t, "clear")
  /\ UNCHANGED <<env, crossed, used, field, implVars, appVars, job, slot, fn, data>>

ClearField(t) ==
  /\ pc[t] = "clear"
  /\ field' = [field EXCEPT ![slot[t]][ClearOrder[todo[t]]] = Null]
  /\ IF todo[t] < NumFields
     THEN /\ todo' = [todo EXCEPT ![t] = @ + 1]
          /\ UNCHANGED pc
     ELSE /\ todo' = [todo EXCEPT ![t] = 0]
          /\ Goto(t, "store")
  /\ UNCHANGED <<env, crossed, used, key, implVars, appVars, job, slot, fn, data>>

\* The map is full: MPIABI_ERR_INTERN, and the implementation is not called.
Full(t) ==
  /\ pc[t] = "nothing"
  /\ t \in Callers
  /\ Return(t)
  /\ UNCHANGED <<env, crossed, entryVars, implVars, appVars>>

-----------------------------------------------------------------------------
(* mpiwrapper_t_event_set_cb, _set_dropped and _set_free: the data first,  *)
(* then the function; then the implementation is told.                     *)

DataField(t) == IF job[t].op = "cb" THEN <<"data", job[t].level>> ELSE <<"freedata", 0>>
FnField(t) ==
  CASE job[t].op = "cb"      -> <<"cb", job[t].level>>
    [] job[t].op = "dropped" -> <<"dropped", 0>>
    [] job[t].op = "free"    -> <<"freefn", 0>>

Write(t, f, v) ==
  /\ field' = [field EXCEPT ![slot[t]][f] = v]
  /\ want'  = [want EXCEPT ![job[t].reg][f] = v]

StoreData(t) ==
  /\ pc[t] = "store"
  /\ IF job[t].op = "dropped"
     THEN UNCHANGED <<field, want>>
     ELSE Write(t, DataField(t), job[t].tag)
  /\ Goto(t, "storefn")
  /\ UNCHANGED <<env, crossed, used, key, implVars, lastTag, job, slot, todo, fn, data>>

StoreFn(t) ==
  /\ pc[t] = "storefn"
  /\ Write(t, FnField(t), IF job[t].null THEN Null ELSE job[t].tag)
  /\ Goto(t, "target")
  /\ UNCHANGED <<env, crossed, used, key, implVars, lastTag, job, slot, todo, fn, data>>

Association(t) ==
  IF job[t].op = "cb" THEN <<job[t].reg, "cb", job[t].level>> ELSE <<job[t].reg, job[t].op>>

\* Mistake: no free trampoline where the application has no free function.
TargetFreesUnseen(t) ==
  /\ pc[t] = "target"
  /\ IF job[t].null
     THEN IF job[t].op = "free"
          THEN /\ alive' = alive \ {job[t].reg}
               /\ installed' = {a \in installed : a[1] # job[t].reg}
          ELSE /\ installed' = installed \ {Association(t)}
               /\ UNCHANGED alive
     ELSE /\ installed' = installed \cup {Association(t)}
          /\ UNCHANGED alive
  /\ Return(t)
  /\ UNCHANGED <<env, crossed, entryVars, born, appVars>>

\* TARGET succeeds.  The free trampoline is installed in any case.
Target(t) ==
  /\ pc[t] = "target"
  /\ installed' = IF job[t].null /\ job[t].op # "free"
                  THEN installed \ {Association(t)}
                  ELSE installed \cup {Association(t)}
  /\ Return(t)
  /\ UNCHANGED <<env, crossed, entryVars, alive, born, appVars>>

\* TARGET fails.  The entry stays as it is.
TargetFails(t) ==
  /\ pc[t] = "target"
  /\ Return(t)
  /\ UNCHANGED <<env, crossed, entryVars, implVars, appVars>>

-----------------------------------------------------------------------------
(* Trampolines. *)

Deliver(t, r, op, level) ==
  /\ pc[t] = "idle"
  /\ job' = [job EXCEPT ![t] = [NoJob EXCEPT !.op = op, !.reg = r, !.level = level]]
  /\ At(t, 0, "find")
  /\ UNCHANGED <<env, crossed, entryVars, implVars, appVars, todo, fn, data>>

Raise(t) ==
  \E r \in alive, l \in Levels :
    /\ <<r, "free">> \notin installed
    /\ \/ <<r, "cb", l>> \in installed /\ Deliver(t, r, "event", l)
       \/ <<r, "dropped">> \in installed /\ Deliver(t, r, "drop", l)

\* No event instance of r is left, nor will there be another.
RaiseFree(t) ==
  \E r \in alive :
    /\ <<r, "free">> \in installed
    /\ Busy(r) = {}
    /\ Deliver(t, r, "release", 0)

LoadedFn(t) ==
  CASE job[t].op = "event"   -> <<"cb", job[t].level>>
    [] job[t].op = "drop"    -> <<"dropped", 0>>
    [] job[t].op = "release" -> <<"freefn", 0>>

LoadedData(t) ==
  IF job[t].op = "release" THEN <<"freedata", 0>> ELSE <<"data", job[t].level>>

AfterCall(t) == IF job[t].op = "release" THEN "giveup" ELSE "done"

LoadFn(t) ==
  /\ pc[t] = "load"
  /\ fn' = [fn EXCEPT ![t] = field[slot[t]][LoadedFn(t)]]
  /\ Goto(t, IF field[slot[t]][LoadedFn(t)] # Null THEN "loaddata"
             ELSE AfterCall(t))
  /\ UNCHANGED <<env, crossed, entryVars, implVars, appVars, job, slot, todo, data>>

\* The function is called with the data; it runs until the next step.
LoadData(t) ==
  /\ pc[t] = "loaddata"
  /\ data' = [data EXCEPT ![t] = field[slot[t]][LoadedData(t)]]
  /\ Goto(t, AfterCall(t))
  /\ UNCHANGED <<env, crossed, entryVars, implVars, appVars, job, slot, todo, fn>>

GiveUp(t) ==
  /\ pc[t] = "giveup"
  /\ used' = [used EXCEPT ![slot[t]] = FALSE]
  /\ Goto(t, "done")
  /\ UNCHANGED <<env, crossed, key, field, implVars, appVars, job, slot, todo, fn, data>>

\* Back in the implementation; a registration that was freed is gone.
Delivered(t) ==
  /\ t \in Deliverers
  /\ pc[t] \in {"done", "nothing"}
  /\ IF job[t].op = "release"
     THEN /\ alive' = alive \ {job[t].reg}
          /\ installed' = {a \in installed : a[1] # job[t].reg}
     ELSE UNCHANGED <<alive, installed>>
  /\ Return(t)
  /\ UNCHANGED <<env, crossed, entryVars, born, appVars>>

-----------------------------------------------------------------------------

Lookup(t)     == FindUnused(t) \/ FindUsed(t) \/ FindHit(t) \/ FindOther(t)
CallStep(t)   == \/ Claim(t) \/ ClaimNext(t) \/ StoreKey(t) \/ ClearField(t) \/ Full(t)
                 \/ StoreData(t) \/ StoreFn(t) \/ Target(t) \/ TargetFails(t)
Begin(t)      == Register(t) \/ SetDropped(t) \/ HandleFree(t)
DeliverStep(t) == LoadFn(t) \/ LoadData(t) \/ GiveUp(t) \/ Delivered(t)

Next ==
  \/ \E r \in Regs : Alloc(r)
  \/ \E t \in Threads : Lookup(t)
  \/ \E t \in Callers : Begin(t) \/ CallStep(t)
  \/ \E t \in Deliverers : Raise(t) \/ RaiseFree(t) \/ DeliverStep(t)

Spec == Init /\ [][Next]_vars

-----------------------------------------------------------------------------
(* Properties. *)

TypeOK ==
  /\ env   \in Environments
  /\ used  \in [Slots -> BOOLEAN]
  /\ key   \in [Slots -> Regs \cup {NoReg}]
  /\ field \in [Slots -> [Fields -> Tags]]
  /\ alive \subseteq Regs
  /\ born  \in [Regs -> -1 .. MaxTag]
  /\ lastTag \in Tags
  /\ want  \in [Regs -> [Fields -> Tags]]
  /\ slot  \in [Threads -> Slots]
  /\ todo  \in [Threads -> 0 .. NumFields]
  /\ fn    \in [Threads -> Tags]
  /\ data  \in [Threads -> Tags]
  /\ crossed \in BOOLEAN

(***************************************************************************)
(* Calls do not race for one handle; and where both calls overlap and      *)
(* handles are used again, no search for a handle has taken the entry that *)
(* another call has claimed and that still shows this handle, from an      *)
(* earlier life (toolevents.c:87-88 between :101 and :105).                *)
(***************************************************************************)
Orderly == env \in {"serialized", "fresh"} \/ (env = "apart" /\ ~crossed)

(***************************************************************************)
(* An event of a registration is delivered to a function that was          *)
(* registered for it, in this life of the handle -- not to one its entry   *)
(* or its handle had before --, with data that is at least as new as the   *)
(* function: the data registered with it, or by a later call that has      *)
(* replaced it meanwhile (toolevents.c:136-139, :185-197, :223-231).       *)
(***************************************************************************)
EventsFindTheirFunction ==
  \A t \in Deliverers :
    Orderly /\ pc[t] \in {"giveup", "done"} /\ fn[t] # Null =>
      /\ fn[t] > born[job[t].reg]
      /\ fn[t] <= want[job[t].reg][LoadedFn(t)] \/ want[job[t].reg][LoadedFn(t)] = Null
      /\ job[t].op # "drop" => /\ data[t] >= fn[t]
                               /\ data[t] <= want[job[t].reg][LoadedData(t)]
      /\ job[t].op = "drop" => data[t] = Null \/ data[t] > born[job[t].reg]

\* What find returns for the handle of r; a slot a call is about to put its key in
\* does not count where it can be met (in apart, it sets crossed).
Found(r) ==
  {s \in Slots :
     /\ used[s]
     /\ key[s] = r
     /\ \A s2 \in Slots :
          s2 < s /\ used[s2] /\ key[s2] = r => env = "apart" /\ Unkeyed(s2)}

(***************************************************************************)
(* What a call has stored for a registration is what an event of that      *)
(* registration finds: while no call is in progress for it, the first      *)
(* entry in use under its handle holds what the last calls stored -- even  *)
(* where the handle had another entry in an earlier life, whose key is     *)
(* still in its slot when another call claims that, before or behind the   *)
(* handle's entry (toolevents.c:84-125).  The map holds what a call stored *)
(* whether or not the implementation then accepted the call, which the     *)
(* code does not undo (hw_callbacks.c:577-586).                            *)
(***************************************************************************)
EntryHoldsLastCalls ==
  \A r \in alive :
    Orderly /\ Busy(r) = {} /\ (\E f \in Fields : want[r][f] # Null) =>
      \E s \in Found(r) : field[s] = want[r]

(***************************************************************************)
(* toolevents.c:20-30: the implementation calls the free trampoline when   *)
(* "the entry is dead.  So mpiwrapper_t_event_free_tramp releases it",     *)
(* "since otherwise a tool that allocates and frees registrations in a     *)
(* loop would exhaust the map".  So an entry in use belongs to a           *)
(* registration that exists, or a call has just claimed it.                *)
(***************************************************************************)
DeadEntriesAreReleased ==
  \A s \in Slots :
    used[s] => key[s] \in alive \/ Unkeyed(s)

(***************************************************************************)
(* The same where the code keeps to it: the free trampoline gives up the   *)
(* entry although the application passed no free function                  *)
(* (hw_callbacks.c:649-651, :663-664, toolevents.c:24-30).                *)
(***************************************************************************)
EntriesAreReclaimed == Orderly => DeadEntriesAreReleased

(***************************************************************************)
(* The comment in toolevents.c:93-97: "A registration handle is claimed by *)
(* exactly one entry: the CAS on `used` is what makes that true when two   *)
(* threads register callbacks for the same handle at once".                *)
(***************************************************************************)
OneEntryPerHandle ==
  \A s, s2 \in Slots :
    s # s2 /\ used[s] /\ used[s2] /\ key[s] = key[s2] => Unkeyed(s) \/ Unkeyed(s2)
=============================================================================
