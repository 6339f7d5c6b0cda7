--------------------------- MODULE StagedRequests ----------------------------
(***************************************************************************)
(* Temporaries that outlive their call: the request-keyed table of         *)
(* src/mpiwrapper/staging.c, and the generated bodies around it.  A        *)
(* nonblocking or persistent collective with count, displacement or        *)
(* datatype arrays converts them into a block the implementation reads     *)
(* until the operation ends; mpiwrapper_staged_keep stores the block under *)
(* the implementation's request handle, and every entry point that nulls a *)
(* request releases whatever the table holds under that handle.            *)
(*                                                                         *)
(* The implementation is external.  Its handles name operations only while *)
(* these are live: it reuses the handle of a completed request, and        *)
(* answers operations that are complete on return with one built-in        *)
(* request (NOTES.md 6.3).  Env says how calls and handles interleave:     *)
(*   serialized  MPI_THREAD_SERIALIZED: calls do not overlap;              *)
(*   deferred    calls overlap, and the handle of a completed request is   *)
(*               not reused before the call that completed it returns;     *)
(*   immediate   calls overlap, and a handle is reused at once;            *)
(*   unasked     as deferred, in a build for an implementation without     *)
(*               MPI_Request_get_status (the #else of staged_is_complete). *)
(*                                                                         *)
(* Every atomic access of the C code is one action.                        *)
(***************************************************************************)
EXTENDS Integers, FiniteSets, Sequences

CONSTANTS
  Threads,
  Ops,            \* operations that can exist at one time
  Handles,        \* the implementation's request handles
  BuiltIn,        \* the one it shares between complete operations
  Capacity,       \* MPIWRAPPER_STAGED_REQUEST_SLOTS
  Home,           \* staged_home: where the probing for a handle starts
  Environments,   \* see above
  Empty, Locked, Tomb,   \* the reserved keys
  None

Slots == 0 .. Capacity - 1

ASSUME CapacityAssumption == Capacity \in Nat \ {0}
ASSUME HandlesAssumption ==
  /\ BuiltIn \in Handles /\ {Empty, Locked, Tomb, None} \cap Handles = {}
  /\ Empty # Locked /\ Empty # Tomb /\ Locked # Tomb
ASSUME HomeAssumption == Home \in [Handles -> Slots]
ASSUME OpsAssumption == IsFiniteSet(Ops)
ASSUME NoneAssumption == None \notin Ops
ASSUME EnvironmentsAssumption ==
  Environments \subseteq {"serialized", "deferred", "immediate", "unasked"}

VARIABLES
  env,
  key, blk, live,      \* staged_table[].key and .block, staged_live
  kind, phase, handle, \* of each operation, in the implementation
  block,               \* of each operation: its staged arrays
  pc, op, todo,        \* what each thread does, for which operation, and
                       \* the handles whose blocks it has yet to release
  slot, probe, seen    \* the locals of the probing loops

tableVars == <<key, blk, live>>
implVars  == <<kind, phase, handle>>
loopVars  == <<slot, probe, seen>>
vars      == <<env, tableVars, implVars, block, pc, op, todo, loopVars>>

Init ==
  /\ env \in Environments
  /\ key    = [s \in Slots |-> Empty]
  /\ blk    = [s \in Slots |-> None]
  /\ live   = 0
  /\ kind   = [o \in Ops |-> "plain"]
  /\ phase  = [o \in Ops |-> "finished"]
  /\ handle = [o \in Ops |-> None]
  /\ block  = [o \in Ops |-> "none"]
  /\ pc     = [t \in Threads |-> "idle"]
  /\ op     = [t \in Threads |-> None]
  /\ todo   = [t \in Threads |-> <<>>]
  /\ slot   = [t \in Threads |-> 0]
  /\ probe  = [t \in Threads |-> 0]
  /\ seen   = [t \in Threads |-> Empty]

Goto(t, label) == pc' = [pc EXCEPT ![t] = label]

AllIdle == \A t \in Threads : pc[t] = "idle"

\* A thread may call MPI.
MayCall(t) ==
  /\ pc[t] = "idle"
  /\ env = "serialized" => AllIdle

ResetLoop(t) ==
  /\ slot'  = [slot EXCEPT ![t] = 0]
  /\ probe' = [probe EXCEPT ![t] = 0]
  /\ seen'  = [seen EXCEPT ![t] = Empty]

StartLoop(t, h) ==
  /\ slot'  = [slot EXCEPT ![t] = Home[h]]
  /\ probe' = [probe EXCEPT ![t] = 0]
  /\ UNCHANGED seen

\* Mistake: the probing does not wrap around.
NextSlotUnwrapped(t) ==
  /\ slot'  = [slot EXCEPT ![t] = @ + 1]
  /\ probe' = [probe EXCEPT ![t] = @ + 1]
  /\ UNCHANGED seen

NextSlot(t) ==
  /\ slot'  = [slot EXCEPT ![t] = (@ + 1) % Capacity]
  /\ probe' = [probe EXCEPT ![t] = @ + 1]
  /\ UNCHANGED seen

-----------------------------------------------------------------------------
(* The implementation. *)

Releasing(h) == \E t \in Threads, i \in 1 .. 2 : i <= Len(todo[t]) /\ todo[t][i] = h

\* Handles it can give to a new request.
FreeHandles ==
  {h \in Handles \ {BuiltIn} :
     /\ \A o \in Ops : phase[o] # "finished" => handle[o] # h
     /\ env \in {"deferred", "unasked"} => ~Releasing(h)}

\* Operations nothing is left of, or only a block that has been lost.
Spare ==
  {o \in Ops :
     /\ phase[o] = "finished"
     /\ \/ handle[o] = None
        \/ /\ \A s \in Slots : blk[s] # o
           /\ \A t \in Threads : op[t] # o
           /\ ~Releasing(handle[o])}

\* An operation that is in flight completes.
Finish(o) ==
  /\ phase[o] = "active"
  /\ phase' = [phase EXCEPT ![o] = "complete"]
  /\ UNCHANGED <<env, tableVars, kind, handle, block, pc, op, todo, loopVars>>

\* TARGET starts operation o with handle h.
Begin(o, k, ph, h) ==
  /\ kind'   = [kind EXCEPT ![o] = k]
  /\ phase'  = [phase EXCEPT ![o] = ph]
  /\ handle' = [handle EXCEPT ![o] = h]

-----------------------------------------------------------------------------
(* Posting an operation.  One that fails, or has nothing to stage, frees   *)
(* its block at once and is not told from a plain one.                     *)

Answers == {<<"active", h>> : h \in FreeHandles} \cup {<<"complete", BuiltIn>>}

\* MPI_Isend and everything else that stages nothing.
PostPlain(t) ==
  /\ MayCall(t)
  /\ \E o \in Spare, a \in Answers : Begin(o, "plain", a[1], a[2])
  /\ UNCHANGED <<env, tableVars, block, pc, op, todo, loopVars>>

PostStaged(t, o, k, ph, h) ==
  /\ Begin(o, k, ph, h)
  /\ block' = [block EXCEPT ![o] = "held"]
  /\ op'    = [op EXCEPT ![t] = o]
  /\ Goto(t, "keep")
  /\ UNCHANGED <<env, tableVars, todo, loopVars>>

PostNonblocking(t) ==
  /\ MayCall(t)
  /\ \E o \in Spare, a \in Answers : PostStaged(t, o, "nonblocking", a[1], a[2])

\* The _init forms; neither implementation shares a persistent request.
PostPersistent(t) ==
  /\ MayCall(t)
  /\ \E o \in Spare, h \in FreeHandles : PostStaged(t, o, "persistent", "inactive", h)

-----------------------------------------------------------------------------
(* mpiwrapper_staged_keep and mpiwrapper_staged_attach. *)

\* The posting call returns; its block has met this fate.
Settle(t, fate) ==
  /\ block' = [block EXCEPT ![op[t]] = fate]
  /\ op'    = [op EXCEPT ![t] = None]
  /\ Goto(t, "idle")
  /\ ResetLoop(t)

IsComplete(o) == env # "unasked" /\ phase[o] = "complete"

\* Mistake: persistent requests are asked too, and an inactive one is complete.
KeepNothingOfPersistent(t) ==
  /\ pc[t] = "keep"
  /\ IsComplete(op[t]) \/ phase[op[t]] = "inactive"
  /\ Settle(t, "freed")
  /\ UNCHANGED <<env, tableVars, implVars, todo>>

KeepNothing(t) ==
  /\ pc[t] = "keep"
  /\ kind[op[t]] = "nonblocking"
  /\ IsComplete(op[t])
  /\ Settle(t, "freed")
  /\ UNCHANGED <<env, tableVars, implVars, todo>>

\* PMPI_Request_get_status says no, or fails -- which it does not for the
\* built-in request.  A persistent request is not asked.
KeepBlock(t) ==
  /\ pc[t] = "keep"
  /\ kind[op[t]] = "nonblocking" => ~IsComplete(op[t]) \/ handle[op[t]] # BuiltIn
  /\ Goto(t, "attach")
  /\ StartLoop(t, handle[op[t]])
  /\ UNCHANGED <<env, tableVars, implVars, block, op, todo>>

AttachFull(t) ==
  /\ pc[t] = "attach"
  /\ probe[t] = Capacity
  /\ Settle(t, "full")
  /\ UNCHANGED <<env, tableVars, implVars, todo>>

AttachDuplicate(t) ==
  /\ pc[t] = "attach"
  /\ probe[t] < Capacity
  /\ key[slot[t]] = handle[op[t]]
  /\ Settle(t, "duplicate")
  /\ UNCHANGED <<env, tableVars, implVars, todo>>

AttachSeesRoom(t) ==
  /\ pc[t] = "attach"
  /\ probe[t] < Capacity
  /\ key[slot[t]] \in {Empty, Tomb}
  /\ seen' = [seen EXCEPT ![t] = key[slot[t]]]
  /\ Goto(t, "cas")
  /\ UNCHANGED <<env, tableVars, implVars, block, op, todo, slot, probe>>

AttachSkips(t) ==
  /\ pc[t] = "attach"
  /\ probe[t] < Capacity
  /\ key[slot[t]] \notin {Empty, Tomb, handle[op[t]]}
  /\ NextSlot(t)
  /\ UNCHANGED <<env, tableVars, implVars, block, pc, op, todo>>

AttachTakes(t) ==
  /\ pc[t] = "cas"
  /\ key[slot[t]] = seen[t]
  /\ key' = [key EXCEPT ![slot[t]] = handle[op[t]]]
  /\ Goto(t, "store")
  /\ UNCHANGED <<env, blk, live, implVars, block, op, todo, loopVars>>

\* Someone else took it.
AttachLoses(t) ==
  /\ pc[t] = "cas"
  /\ key[slot[t]] # seen[t]
  /\ NextSlot(t)
  /\ Goto(t, "attach")
  /\ UNCHANGED <<env, tableVars, implVars, block, op, todo>>

StoreBlock(t) ==
  /\ pc[t] = "store"
  /\ blk' = [blk EXCEPT ![slot[t]] = op[t]]
  /\ Goto(t, "stored")
  /\ UNCHANGED <<env, key, live, implVars, block, op, todo, loopVars>>

\* Mistake: the block is stored and not counted.
CountBlockForgotten(t) ==
  /\ pc[t] = "stored"
  /\ Settle(t, block[op[t]])
  /\ UNCHANGED <<env, tableVars, implVars, todo>>

CountBlock(t) ==
  /\ pc[t] = "stored"
  /\ live' = live + 1
  /\ Settle(t, block[op[t]])
  /\ UNCHANGED <<env, key, blk, implVars, todo>>

-----------------------------------------------------------------------------
(* Calls that take requests.  TARGET nulls a request that it deallocates,  *)
(* and the body then releases what is stored under the handle it had.      *)

\* MPI_Start and _Startall null nothing.
Start(t) ==
  /\ MayCall(t)
  /\ \E o \in Ops :
       /\ phase[o] = "inactive"
       /\ o \notin {op[u] : u \in Threads}
       /\ phase' = [phase EXCEPT ![o] = "active"]
  /\ UNCHANGED <<env, tableVars, kind, handle, block, pc, op, todo, loopVars>>

\* The application holds the request of o: the call that posted it returned.
Posted(o) == \A u \in Threads : op[u] = o => pc[u] = "free"

\* The operations in S are over, and forgotten unless there is a block left.
End(S) ==
  LET gone == {o \in S : block[o] # "held"} IN
  /\ kind'   = [o \in Ops |-> IF o \in S THEN "plain" ELSE kind[o]]
  /\ handle' = [o \in Ops |-> IF o \in gone THEN None ELSE handle[o]]
  /\ block'  = [o \in Ops |-> IF o \in gone THEN "none" ELSE block[o]]

\* MPI_Wait, _Test and the array forms, of one or two requests.
Complete(t) ==
  /\ MayCall(t)
  /\ \E S \in SUBSET {o \in Ops : phase[o] = "complete" /\ Posted(o)} :
       LET nulled == {o \in S : kind[o] # "persistent"} IN
       /\ Cardinality(S) \in 1 .. 2
       /\ phase' = [o \in Ops |-> IF o \notin S THEN phase[o]
                                  ELSE IF o \in nulled THEN "finished" ELSE "inactive"]
       /\ \E order \in [1 .. Cardinality(nulled) -> nulled] :
            /\ {order[i] : i \in DOMAIN order} = nulled
            /\ todo' = [todo EXCEPT ![t] = [i \in DOMAIN order |-> handle[order[i]]]]
       /\ End(nulled)
  /\ Goto(t, "any")
  /\ UNCHANGED <<env, tableVars, op, loopVars>>

\* MPI_Request_free, of a persistent request that is inactive or of a plain one
\* that is complete: one in flight keeps its handle until it is, so freeing it
\* is less of a hazard.  A nonblocking collective must not be freed.
Free(t) ==
  /\ MayCall(t)
  /\ \E o \in Ops :
       /\ \/ phase[o] = "inactive"
          \/ kind[o] = "plain" /\ phase[o] = "complete"
       /\ Posted(o)
       /\ phase' = [phase EXCEPT ![o] = "finished"]
       /\ todo'  = [todo EXCEPT ![t] = <<handle[o]>>]
       /\ End({o})
  /\ Goto(t, "any")
  /\ UNCHANGED <<env, tableVars, op, loopVars>>

-----------------------------------------------------------------------------
(* mpiwrapper_staged_any and mpiwrapper_staged_release. *)

Return(t) ==
  /\ todo' = [todo EXCEPT ![t] = <<>>]
  /\ Goto(t, "idle")
  /\ ResetLoop(t)

NothingStaged(t) ==
  /\ pc[t] = "any"
  /\ live = 0 \/ todo[t] = <<>>
  /\ Return(t)
  /\ UNCHANGED <<env, tableVars, implVars, block, op>>

SomethingStaged(t) ==
  /\ pc[t] = "any"
  /\ live # 0 /\ todo[t] # <<>>
  /\ Goto(t, "release")
  /\ UNCHANGED <<env, tableVars, implVars, block, op, todo, loopVars>>

\* The release of the first handle is over: go on with the others.
NextRelease(t) ==
  IF Len(todo[t]) = 1
  THEN Return(t)
  ELSE /\ todo' = [todo EXCEPT ![t] = Tail(@)]
       /\ Goto(t, "release")
       /\ ResetLoop(t)

ReleaseIdle(t) ==
  /\ pc[t] = "release"
  /\ live = 0
  /\ NextRelease(t)
  /\ UNCHANGED <<env, tableVars, implVars, block, op>>

ReleaseStart(t) ==
  /\ pc[t] = "release"
  /\ live # 0
  /\ StartLoop(t, Head(todo[t]))
  /\ Goto(t, "look")
  /\ UNCHANGED <<env, tableVars, implVars, block, op, todo>>

\* Mistake: a request that is not in the table is taken off the count.
ReleaseMissesUncounts(t) ==
  /\ pc[t] = "look"
  /\ probe[t] = Capacity \/ key[slot[t]] = Empty
  /\ live' = live - 1
  /\ NextRelease(t)
  /\ UNCHANGED <<env, key, blk, implVars, block, op>>

\* Never inserted: not one of ours.
ReleaseMisses(t) ==
  /\ pc[t] = "look"
  /\ probe[t] = Capacity \/ key[slot[t]] = Empty
  /\ NextRelease(t)
  /\ UNCHANGED <<env, tableVars, implVars, block, op>>

ReleaseSkips(t) ==
  /\ pc[t] = "look"
  /\ probe[t] < Capacity
  /\ key[slot[t]] \notin {Empty, Head(todo[t])}
  /\ NextSlot(t)
  /\ UNCHANGED <<env, tableVars, implVars, block, pc, op, todo>>

ReleaseHits(t) ==
  /\ pc[t] = "look"
  /\ probe[t] < Capacity
  /\ key[slot[t]] = Head(todo[t])
  /\ Goto(t, "lock")
  /\ UNCHANGED <<env, tableVars, implVars, block, op, todo, loopVars>>

Lock(t) ==
  /\ pc[t] = "lock"
  /\ key[slot[t]] = Head(todo[t])
  /\ key' = [key EXCEPT ![slot[t]] = Locked]
  /\ Goto(t, "take")
  /\ UNCHANGED <<env, blk, live, implVars, block, op, todo, loopVars>>

\* Another thread is completing the same request.
LockLost(t) ==
  /\ pc[t] = "lock"
  /\ key[slot[t]] # Head(todo[t])
  /\ NextRelease(t)
  /\ UNCHANGED <<env, tableVars, implVars, block, op>>

TakeBlock(t) ==
  /\ pc[t] = "take"
  /\ op'  = [op EXCEPT ![t] = blk[slot[t]]]
  /\ blk' = [blk EXCEPT ![slot[t]] = None]
  /\ Goto(t, "uncount")
  /\ UNCHANGED <<env, key, live, implVars, block, todo, loopVars>>

UncountBlock(t) ==
  /\ pc[t] = "uncount"
  /\ live' = live - 1
  /\ Goto(t, "unlock")
  /\ UNCHANGED <<env, key, blk, implVars, block, op, todo, loopVars>>

\* Mistake: the slot is emptied, which ends every probing that crosses it.
UnlockToEmpty(t) ==
  /\ pc[t] = "unlock"
  /\ key' = [key EXCEPT ![slot[t]] = Empty]
  /\ Goto(t, "free")
  /\ UNCHANGED <<env, blk, live, implVars, block, op, todo, loopVars>>

Unlock(t) ==
  /\ pc[t] = "unlock"
  /\ key' = [key EXCEPT ![slot[t]] = Tomb]
  /\ Goto(t, "free")
  /\ UNCHANGED <<env, blk, live, implVars, block, op, todo, loopVars>>

\* free(block), which may be NULL.
FreeBlock(t) ==
  /\ pc[t] = "free"
  /\ LET over == {o \in {op[t]} \ {None} : phase[o] = "finished"} IN
       /\ block'  = [o \in Ops |-> IF o # op[t] THEN block[o]
                                   ELSE IF block[o] # "held" THEN "freed twice"
                                   ELSE IF o \in over THEN "none" ELSE "freed"]
       /\ handle' = [o \in Ops |-> IF o \in over THEN None ELSE handle[o]]
  /\ op' = [op EXCEPT ![t] = None]
  /\ NextRelease(t)
  /\ UNCHANGED <<env, tableVars, kind, phase>>

-----------------------------------------------------------------------------

Step(t) ==
  \/ PostPlain(t) \/ PostNonblocking(t) \/ PostPersistent(t)
  \/ KeepNothing(t) \/ KeepBlock(t)
  \/ AttachFull(t) \/ AttachDuplicate(t) \/ AttachSeesRoom(t) \/ AttachSkips(t)
  \/ AttachTakes(t) \/ AttachLoses(t) \/ StoreBlock(t) \/ CountBlock(t)
  \/ Start(t) \/ Complete(t) \/ Free(t)
  \/ NothingStaged(t) \/ SomethingStaged(t)
  \/ ReleaseIdle(t) \/ ReleaseStart(t) \/ ReleaseMisses(t) \/ ReleaseSkips(t)
  \/ ReleaseHits(t) \/ Lock(t) \/ LockLost(t)
  \/ TakeBlock(t) \/ UncountBlock(t) \/ Unlock(t) \/ FreeBlock(t)

Next == (\E t \in Threads : Step(t)) \/ (\E o \in Ops : Finish(o))

Spec == Init /\ [][Next]_vars

-----------------------------------------------------------------------------
(* Properties. *)

TypeOK ==
  /\ env    \in Environments
  /\ key    \in [Slots -> Handles \cup {Empty, Locked, Tomb}]
  /\ blk    \in [Slots -> Ops \cup {None}]
  /\ live   \in Int
  /\ kind   \in [Ops -> {"plain", "nonblocking", "persistent"}]
  /\ phase  \in [Ops -> {"active", "inactive", "complete", "finished"}]
  /\ handle \in [Ops -> Handles \cup {None}]
  /\ block  \in [Ops -> {"none", "held", "freed", "freed twice", "full", "duplicate"}]
  /\ op     \in [Threads -> Ops \cup {None}]
  /\ \A t \in Threads : Len(todo[t]) <= 2
  /\ slot   \in [Threads -> Slots]
  /\ probe  \in [Threads -> 0 .. Capacity]
  /\ seen   \in [Threads -> {Empty, Tomb}]

\* Environments in which a handle names one operation at a time.
Orderly == env \in {"serialized", "deferred"}

\* The implementation may read the arrays of o.
InUse(o) ==
  \/ kind[o] = "nonblocking" /\ phase[o] = "active"
  \/ kind[o] = "persistent"  /\ phase[o] # "finished"

(***************************************************************************)
(* The arrays of an operation are not freed while the implementation may   *)
(* still read them -- although every completion releases by the value of a *)
(* handle, which other operations have had before -- nor freed twice       *)
(* (staging.c:18-21, 175-193; NOTES.md 6.3).                               *)
(***************************************************************************)
BlockOutlivesOperation ==
  \A o \in Ops : /\ InUse(o) => block[o] # "freed"
                 /\ block[o] # "freed twice"

(***************************************************************************)
(* The arrays of an operation that is over are freed, unless the call that *)
(* posted it counted them as leaked: only the call that completes the      *)
(* operation may still be at it (staging.c:41-61, 256-282).                *)
(***************************************************************************)
BlockIsReclaimed ==
  \A o \in Ops :
    Orderly /\ phase[o] = "finished" /\ block[o] = "held" =>
      \E t \in Threads, i \in 1 .. 2 : i <= Len(todo[t]) /\ todo[t][i] = handle[o]

(***************************************************************************)
(* No operation meets its own key in the table: the entry of an earlier    *)
(* one with the same handle has been released by then, so nothing is       *)
(* leaked for it (staging.c:119-126, NOTES.md 13.2 (b)).                   *)
(***************************************************************************)
NoDuplicate == \A o \in Ops : Orderly => block[o] # "duplicate"

(***************************************************************************)
(* While no call is inside the wrapper, staged_live counts the blocks in   *)
(* the table -- so that a completion that reads zero misses nothing -- and *)
(* each is stored under the handle of an operation that is not over        *)
(* (staging.c:87-90, 92-129, 256-282).                                     *)
(***************************************************************************)
TableMatchesOperations ==
  Orderly /\ AllIdle =>
    /\ live = Cardinality({s \in Slots : key[s] \in Handles})
    /\ \A s \in Slots :
         /\ key[s] # Locked
         /\ key[s] \in Handles <=> blk[s] # None
         /\ blk[s] # None => /\ handle[blk[s]] = key[s]
                             /\ phase[blk[s]] # "finished"
                             /\ block[blk[s]] = "held"
=============================================================================
