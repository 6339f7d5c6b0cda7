-------------------------------- MODULE Lent ---------------------------------
(***************************************************************************)
(* What libmpiwrapper lends to the implementation and may take back:       *)
(*                                                                         *)
(*   buffers   attached in place of MPI_BUFFER_AUTOMATIC, in the table of  *)
(*             src/mpiwrapper/buffers.c, and hw_buffers.c around it;       *)
(*   slots     of the trampoline pools of callbacks.c, one for each user   *)
(*             operation or error handler, claimed in hw_callbacks.c;      *)
(*   pairs     of a generalized request's functions and extra state, in    *)
(*             extrastate.c and hw_callbacks.c.                            *)
(*                                                                         *)
(* Buffers and slots are claimed by a compare-and-swap on the first free   *)
(* entry.  The twelve forms of attach and detach share two bodies, and the *)
(* seven pools and their creators one; an operation stands for both kinds  *)
(* of object.                                                              *)
(*                                                                         *)
(* The implementation and the application are external.  The               *)
(* implementation keeps one buffer for a scope, uses an operation in       *)
(* reductions that outlive its freeing, and calls a request's functions    *)
(* until it calls the free function, once.  Env says what the application  *)
(* does:                                                                   *)
(*   orderly  calls for one scope do not overlap, and no automatic buffer  *)
(*            is attached where one is attached already;                   *)
(*   any      neither is excluded.                                         *)
(***************************************************************************)
EXTENDS Integers, FiniteSets

CONSTANTS
  Threads,
  Scopes,         \* of buffers: the process, communicators, sessions
  Fns,            \* user functions
  BufCapacity,    \* MPIWRAPPER_AUTOBUF_SLOTS
  PoolCapacity,   \* MPIWRAPPER_OP_SLOTS, MPIWRAPPER_ERRHANDLER_SLOTS
  MaxAlloc,       \* bound on the number of buffers and pairs
  MaxCalls,       \* bound on the number of calls
  Environments,
  NoScope, NoFn, UserBuffer

BufSlots  == 0 .. BufCapacity - 1
PoolSlots == 0 .. PoolCapacity - 1

\* Buffers and pairs, in the order of their allocation.
Blocks  == 1 .. MaxAlloc
NoBlock == 0

ASSUME CapacitiesAssumption ==
  /\ BufCapacity \in Nat \ {0}
  /\ PoolCapacity \in Nat \ {0}
ASSUME BoundsAssumption == MaxAlloc \in Nat /\ MaxCalls \in Nat
ASSUME NothingAssumption ==
  /\ NoScope \notin Scopes
  /\ NoFn \notin Fns
  /\ UserBuffer \notin 0 .. MaxAlloc
ASSUME EnvironmentsAssumption == Environments \subseteq {"orderly", "any"}

VARIABLES
  env,
  scope, block,      \* autobuf[]
  poolFn,            \* op_fn[] or one of its like
  heap,              \* of each block: "unused", "live" or "freed"
  attached,          \* the implementation: the buffer of each scope,
  ops,               \* its operations, the freed ones too,
  greqs,             \* the pairs of its generalized requests
  calls,             \* the number of calls so far
  pc, job, idx,      \* of each thread: where it is, what it does, which slot
                     \* it looks at,
  mine,              \* the block it has allocated,
  got, took,         \* what a detach got, what a release took,
  before             \* the blocks there were when the release began

tableVars == <<scope, block>>
implVars  == <<attached, ops, greqs>>
localVars == <<job, mine, got, took, before>>
vars == <<env, tableVars, poolFn, heap, implVars, calls, pc, idx, localVars>>

NoJob == [op |-> "none", scope |-> NoScope, fn |-> NoFn, auto |-> FALSE]

Init ==
  /\ env \in Environments
  /\ scope = [s \in BufSlots |-> NoScope]
  /\ block = [s \in BufSlots |-> NoBlock]
  /\ poolFn = [p \in PoolSlots |-> NoFn]
  /\ heap = [b \in Blocks |-> "unused"]
  /\ attached = [c \in Scopes |-> NoBlock]
  /\ ops = {}
  /\ greqs = {}
  /\ calls = 0
  /\ pc   = [t \in Threads |-> "idle"]
  /\ job  = [t \in Threads |-> NoJob]
  /\ idx  = [t \in Threads |-> 0]
  /\ mine = [t \in Threads |-> NoBlock]
  /\ got  = [t \in Threads |-> NoBlock]
  /\ took = [t \in Threads |-> NoBlock]
  /\ before = [t \in Threads |-> {}]

At(t, i, label) ==
  /\ idx' = [idx EXCEPT ![t] = i]
  /\ pc'  = [pc EXCEPT ![t] = label]

Goto(t, label) == At(t, 0, label)

Return(t) ==
  /\ Goto(t, "idle")
  /\ job'  = [job EXCEPT ![t] = NoJob]
  /\ mine' = [mine EXCEPT ![t] = NoBlock]
  /\ got'  = [got EXCEPT ![t] = NoBlock]
  /\ took' = [took EXCEPT ![t] = NoBlock]
  /\ before' = [before EXCEPT ![t] = {}]

Allocated == {b \in Blocks : heap[b] # "unused"}

Begin(t, j, label) ==
  /\ pc[t] = "idle"
  /\ calls < MaxCalls
  /\ calls' = calls + 1
  /\ job' = [job EXCEPT ![t] = j]
  /\ Goto(t, label)
  /\ UNCHANGED <<env, tableVars, poolFn, heap, implVars, mine, got, took, before>>

\* malloc
Alloc(t) ==
  \E b \in Blocks :
    /\ heap[b] = "unused"
    /\ \A b2 \in Blocks : b2 < b => heap[b2] # "unused"
    /\ heap' = [heap EXCEPT ![b] = "live"]
    /\ mine' = [mine EXCEPT ![t] = b]

-----------------------------------------------------------------------------
(* Buffers: MPI_Buffer_attach and its like. *)

InScope(c) == {t \in Threads : job[t].scope = c}

Attach(t) ==
  \E c \in Scopes, auto \in BOOLEAN :
    /\ env = "orderly" => /\ InScope(c) = {}
                          /\ auto => attached[c] \notin Blocks
    /\ Begin(t, [NoJob EXCEPT !.op = "attach", !.scope = c, !.auto = auto],
             IF auto THEN "bufalloc" ELSE "attach")

BufAlloc(t) ==
  /\ pc[t] = "bufalloc"
  /\ Alloc(t)
  /\ Goto(t, "bufclaim")
  /\ UNCHANGED <<env, tableVars, poolFn, implVars, calls, job, got, took, before>>

\* MPIABI_ERR_INTERN
AllocFails(t) ==
  /\ pc[t] \in {"bufalloc", "pairalloc"}
  /\ Return(t)
  /\ UNCHANGED <<env, tableVars, poolFn, heap, implVars, calls>>

BufClaim(t) ==
  /\ pc[t] = "bufclaim"
  /\ scope[idx[t]] = NoScope
  /\ scope' = [scope EXCEPT ![idx[t]] = job[t].scope]
  /\ At(t, idx[t], "bufstore")
  /\ UNCHANGED <<env, block, poolFn, heap, implVars, calls, localVars>>

\* Mistake: the table ends one slot later.
BufClaimNextPast(t) ==
  /\ pc[t] = "bufclaim"
  /\ scope[idx[t]] # NoScope
  /\ At(t, idx[t] + 1, "bufclaim")
  /\ UNCHANGED <<env, tableVars, poolFn, heap, implVars, calls, localVars>>

BufClaimNext(t) ==
  /\ pc[t] = "bufclaim"
  /\ scope[idx[t]] # NoScope
  /\ idx[t] + 1 < BufCapacity
  /\ At(t, idx[t] + 1, "bufclaim")
  /\ UNCHANGED <<env, tableVars, poolFn, heap, implVars, calls, localVars>>

\* The table is full.
BufClaimFails(t) ==
  /\ pc[t] = "bufclaim"
  /\ scope[idx[t]] # NoScope
  /\ idx[t] + 1 = BufCapacity
  /\ heap' = [heap EXCEPT ![mine[t]] = "freed"]
  /\ Return(t)
  /\ UNCHANGED <<env, tableVars, poolFn, implVars, calls>>

BufStore(t) ==
  /\ pc[t] = "bufstore"
  /\ block' = [block EXCEPT ![idx[t]] = mine[t]]
  /\ Goto(t, "attach")
  /\ UNCHANGED <<env, scope, poolFn, heap, implVars, calls, localVars>>

\* TARGET succeeds, where the implementation has no buffer for the scope.
AttachSucceeds(t) ==
  /\ pc[t] = "attach"
  /\ attached[job[t].scope] = NoBlock
  /\ attached' = [attached EXCEPT ![job[t].scope] =
                    IF job[t].auto THEN mine[t] ELSE UserBuffer]
  /\ Return(t)
  /\ UNCHANGED <<env, tableVars, poolFn, heap, ops, greqs, calls>>

\* Mistake: a failed attach keeps its buffer.
AttachFailsKeeps(t) ==
  /\ pc[t] = "attach"
  /\ Return(t)
  /\ UNCHANGED <<env, tableVars, poolFn, heap, implVars, calls>>

\* TARGET fails, for any reason; an automatic buffer is released.
AttachFails(t) ==
  /\ pc[t] = "attach"
  /\ IF job[t].auto
     THEN /\ before' = [before EXCEPT ![t] = Allocated]
          /\ Goto(t, "release")
          /\ UNCHANGED <<job, mine, got, took>>
     ELSE Return(t)
  /\ UNCHANGED <<env, tableVars, poolFn, heap, implVars, calls>>

-----------------------------------------------------------------------------
(* Buffers: MPI_Buffer_detach and its like. *)

Detach(t) ==
  \E c \in Scopes :
    /\ env = "orderly" => InScope(c) = {}
    /\ Begin(t, [NoJob EXCEPT !.op = "detach", !.scope = c], "detach")

DetachSucceeds(t) ==
  /\ pc[t] = "detach"
  /\ attached[job[t].scope] # NoBlock
  /\ got' = [got EXCEPT ![t] = attached[job[t].scope]]
  /\ attached' = [attached EXCEPT ![job[t].scope] = NoBlock]
  /\ before' = [before EXCEPT ![t] = Allocated]
  /\ Goto(t, "release")
  /\ UNCHANGED <<env, tableVars, poolFn, heap, ops, greqs, calls, job, mine, took>>

DetachFails(t) ==
  /\ pc[t] = "detach"
  /\ Return(t)
  /\ UNCHANGED <<env, tableVars, poolFn, heap, implVars, calls>>

ReleaseNext(t) ==
  IF idx[t] + 1 < BufCapacity THEN At(t, idx[t] + 1, "release") ELSE Goto(t, "answer")

\* Mistake: a slot of any scope is released.
ReleaseMatchAny(t) ==
  /\ pc[t] = "release"
  /\ At(t, idx[t], "take")
  /\ UNCHANGED <<env, tableVars, poolFn, heap, implVars, calls, localVars>>

ReleaseMatch(t) ==
  /\ pc[t] = "release"
  /\ scope[idx[t]] = job[t].scope
  /\ At(t, idx[t], "take")
  /\ UNCHANGED <<env, tableVars, poolFn, heap, implVars, calls, localVars>>

ReleaseOther(t) ==
  /\ pc[t] = "release"
  /\ scope[idx[t]] # job[t].scope
  /\ ReleaseNext(t)
  /\ UNCHANGED <<env, tableVars, poolFn, heap, implVars, calls, localVars>>

\* The exchange picks one of several releases.
TakeBlock(t) ==
  /\ pc[t] = "take"
  /\ block[idx[t]] # NoBlock
  /\ took'  = [took EXCEPT ![t] = block[idx[t]]]
  /\ block' = [block EXCEPT ![idx[t]] = NoBlock]
  /\ At(t, idx[t], "unscope")
  /\ UNCHANGED <<env, scope, poolFn, heap, implVars, calls, job, mine, got, before>>

TakeNothing(t) ==
  /\ pc[t] = "take"
  /\ block[idx[t]] = NoBlock
  /\ ReleaseNext(t)
  /\ UNCHANGED <<env, tableVars, poolFn, heap, implVars, calls, localVars>>

\* The slot is given back, then the block.
Unscope(t) ==
  /\ pc[t] = "unscope"
  /\ scope' = [scope EXCEPT ![idx[t]] = NoScope]
  /\ heap'  = [heap EXCEPT ![took[t]] = "freed"]
  /\ Goto(t, "answer")
  /\ UNCHANGED <<env, block, poolFn, implVars, calls, localVars>>

\* A detach answers MPI_BUFFER_AUTOMATIC if something was released, and what
\* it got if not.
Answer(t) ==
  /\ pc[t] = "answer"
  /\ Return(t)
  /\ UNCHANGED <<env, tableVars, poolFn, heap, implVars, calls>>

-----------------------------------------------------------------------------
(* Slots: MPI_Op_create, MPI_Comm_create_errhandler and their like. *)

Create(t) ==
  \E f \in Fns :
    Begin(t, [NoJob EXCEPT !.op = "create", !.fn = f], "slotclaim")

SlotClaim(t) ==
  /\ pc[t] = "slotclaim"
  /\ poolFn[idx[t]] = NoFn
  /\ poolFn' = [poolFn EXCEPT ![idx[t]] = job[t].fn]
  /\ At(t, idx[t], "create")
  /\ UNCHANGED <<env, tableVars, heap, implVars, calls, localVars>>

SlotClaimNext(t) ==
  /\ pc[t] = "slotclaim"
  /\ poolFn[idx[t]] # NoFn
  /\ idx[t] + 1 < PoolCapacity
  /\ At(t, idx[t] + 1, "slotclaim")
  /\ UNCHANGED <<env, tableVars, poolFn, heap, implVars, calls, localVars>>

\* The pool is exhausted.
SlotClaimFails(t) ==
  /\ pc[t] = "slotclaim"
  /\ poolFn[idx[t]] # NoFn
  /\ idx[t] + 1 = PoolCapacity
  /\ Return(t)
  /\ UNCHANGED <<env, tableVars, poolFn, heap, implVars, calls>>

\* TARGET succeeds.  Whether or not the handle can be converted, the
\* operation exists.
CreateSucceeds(t) ==
  /\ pc[t] = "create"
  /\ ops' = ops \cup {[slot |-> idx[t], fn |-> job[t].fn, freed |-> FALSE, used |-> FALSE]}
  /\ Return(t)
  /\ UNCHANGED <<env, tableVars, poolFn, heap, attached, greqs, calls>>

\* Mistake: the slot of a failed creation is not given back.
CreateFailsKeeps(t) ==
  /\ pc[t] = "create"
  /\ Return(t)
  /\ UNCHANGED <<env, tableVars, poolFn, heap, implVars, calls>>

CreateFails(t) ==
  /\ pc[t] = "create"
  /\ poolFn' = [poolFn EXCEPT ![idx[t]] = NoFn]
  /\ Return(t)
  /\ UNCHANGED <<env, tableVars, heap, implVars, calls>>

Replace(o, with) ==
  /\ ops' = (ops \ {o}) \cup {with}
  /\ UNCHANGED <<env, tableVars, heap, attached, greqs, calls, pc, idx, localVars>>

\* A reduction is posted, or an error handler set.
Use ==
  \E o \in ops :
    /\ ~o.freed
    /\ ~o.used
    /\ Replace(o, [o EXCEPT !.used = TRUE])
    /\ UNCHANGED poolFn

\* It is over.
Unuse ==
  \E o \in ops :
    /\ o.used
    /\ Replace(o, [o EXCEPT !.used = FALSE])
    /\ UNCHANGED poolFn

\* Mistake: MPI_Op_free gives the slot back.
FreeGivesBack ==
  \E o \in ops :
    /\ ~o.freed
    /\ Replace(o, [o EXCEPT !.freed = TRUE])
    /\ poolFn' = [poolFn EXCEPT ![o.slot] = NoFn]

\* MPI_Op_free, MPI_Errhandler_free: the pool is not touched.
Free ==
  \E o \in ops :
    /\ ~o.freed
    /\ Replace(o, [o EXCEPT !.freed = TRUE])
    /\ UNCHANGED poolFn

\* The function that the trampoline of o calls.
Dispatch(o) == poolFn[o.slot]

-----------------------------------------------------------------------------
(* Pairs: MPI_Grequest_start and the three functions. *)

Grequest(t) == Begin(t, [NoJob EXCEPT !.op = "grequest"], "pairalloc")

PairAlloc(t) ==
  /\ pc[t] = "pairalloc"
  /\ Alloc(t)
  /\ Goto(t, "start")
  /\ UNCHANGED <<env, tableVars, poolFn, implVars, calls, job, got, took, before>>

StartSucceeds(t) ==
  /\ pc[t] = "start"
  /\ greqs' = greqs \cup {mine[t]}
  /\ Return(t)
  /\ UNCHANGED <<env, tableVars, poolFn, heap, attached, ops, calls>>

\* No function will ever be called.
StartFails(t) ==
  /\ pc[t] = "start"
  /\ heap' = [heap EXCEPT ![mine[t]] = "freed"]
  /\ Return(t)
  /\ UNCHANGED <<env, tableVars, poolFn, implVars, calls>>

\* The free function; query and cancel, which only read the pair, come before.
FreePair ==
  \E g \in greqs :
    /\ heap' = [heap EXCEPT ![g] = "freed"]
    /\ greqs' = greqs \ {g}
    /\ UNCHANGED <<env, tableVars, poolFn, attached, ops, calls, pc, idx, localVars>>

-----------------------------------------------------------------------------

BufStep(t) ==
  \/ Attach(t) \/ BufAlloc(t) \/ AllocFails(t) \/ BufClaim(t) \/ BufClaimNext(t)
  \/ BufClaimFails(t) \/ BufStore(t) \/ AttachSucceeds(t) \/ AttachFails(t)
  \/ Detach(t) \/ DetachSucceeds(t) \/ DetachFails(t)
  \/ ReleaseMatch(t) \/ ReleaseOther(t) \/ TakeBlock(t) \/ TakeNothing(t)
  \/ Unscope(t) \/ Answer(t)

SlotStep(t) ==
  \/ Create(t) \/ SlotClaim(t) \/ SlotClaimNext(t) \/ SlotClaimFails(t)
  \/ CreateSucceeds(t) \/ CreateFails(t)

PairStep(t) == Grequest(t) \/ PairAlloc(t) \/ StartSucceeds(t) \/ StartFails(t)

Next ==
  \/ \E t \in Threads : BufStep(t) \/ SlotStep(t) \/ PairStep(t)
  \/ Use \/ Unuse \/ Free \/ FreePair

Spec == Init /\ [][Next]_vars

-----------------------------------------------------------------------------
(* Properties. *)

TypeOK ==
  /\ env \in Environments
  /\ scope \in [BufSlots -> Scopes \cup {NoScope}]
  /\ block \in [BufSlots -> Blocks \cup {NoBlock}]
  /\ poolFn \in [PoolSlots -> Fns \cup {NoFn}]
  /\ heap \in [Blocks -> {"unused", "live", "freed"}]
  /\ attached \in [Scopes -> Blocks \cup {NoBlock, UserBuffer}]
  /\ ops \subseteq [slot : PoolSlots, fn : Fns, freed : BOOLEAN, used : BOOLEAN]
  /\ greqs \subseteq Blocks
  /\ calls \in 0 .. MaxCalls
  /\ job \in [Threads -> [op : {"none", "attach", "detach", "create", "grequest"},
                          scope : Scopes \cup {NoScope},
                          fn : Fns \cup {NoFn},
                          auto : BOOLEAN]]
  /\ \A t \in Threads :
       idx[t] \in IF pc[t] \in {"slotclaim", "create"} THEN PoolSlots ELSE BufSlots
  /\ mine \in [Threads -> Blocks \cup {NoBlock}]
  /\ got  \in [Threads -> Blocks \cup {NoBlock, UserBuffer}]
  /\ took \in [Threads -> Blocks \cup {NoBlock}]
  /\ before \in [Threads -> SUBSET Blocks]

(***************************************************************************)
(* The memory the implementation has is not freed: neither the buffer it   *)
(* holds for a scope, while slots of other scopes are claimed and given    *)
(* back around it, nor the pair of a request; and no memory is freed       *)
(* twice, whatever overlaps (buffers.c:109-127, extrastate.c:286-306).     *)
(***************************************************************************)
LentMemoryIsLive ==
  /\ env = "orderly" =>
       \A c \in Scopes : attached[c] \in Blocks => heap[attached[c]] = "live"
  /\ \A g \in greqs : heap[g] = "live"
  /\ \A t, u \in Threads :
       pc[t] = "unscope" =>
         /\ heap[took[t]] = "live"
         /\ pc[u] = "unscope" /\ t # u => took[t] # took[u]

(***************************************************************************)
(* A detach answers what was attached: MPI_BUFFER_AUTOMATIC if and only if *)
(* it was that, also after attaches that failed, and the buffer it frees   *)
(* is the one the implementation has returned (hw_buffers.c:70-79).        *)
(***************************************************************************)
DetachAnswersWhatWasAttached ==
  \A t \in Threads :
    env = "orderly" /\ pc[t] = "answer" /\ job[t].op = "detach" =>
      took[t] = IF got[t] \in Blocks THEN got[t] ELSE NoBlock

(***************************************************************************)
(* Nothing is lost: memory that is live is lent or in the hands of a call, *)
(* and so is a slot that is taken -- a creation that failed has given it   *)
(* back.  A slot stays taken for good once its object existed, because a   *)
(* reduction may outlive MPI_Op_free (callbacks.c:23-33, :121-126).        *)
(***************************************************************************)
NothingIsLost ==
  env = "orderly" =>
    /\ \A b \in Blocks :
         heap[b] = "live" =>
           \/ b \in greqs
           \/ \E c \in Scopes : attached[c] = b
           \/ \E t \in Threads : b \in {mine[t], got[t]}
    /\ \A s \in BufSlots :
         scope[s] # NoScope => \/ block[s] # NoBlock
                              \/ \E t \in Threads : pc[t] \in {"bufstore", "unscope"}
                                                     /\ idx[t] = s
    /\ \A p \in PoolSlots :
         poolFn[p] # NoFn => \/ \E o \in ops : o.slot = p
                             \/ \E t \in Threads : pc[t] = "create" /\ idx[t] = p

(***************************************************************************)
(* The trampoline of an operation calls the function the operation was     *)
(* created with, for as long as a reduction can use it, which is longer    *)
(* than the application has the handle; and no two operations have one     *)
(* trampoline (callbacks.c:68-82, :108-130).                               *)
(***************************************************************************)
TrampolineCallsItsFunction ==
  /\ \A o \in ops : ~o.freed \/ o.used => Dispatch(o) = o.fn
  /\ \A t, u \in Threads :
       pc[t] = "create" =>
         /\ poolFn[idx[t]] = job[t].fn
         /\ \A o \in ops : o.slot # idx[t]
         /\ pc[u] = "create" /\ t # u => idx[t] # idx[u]

(***************************************************************************)
(* The comment in buffers.c:66-69: clearing the block first and the scope  *)
(* last "is what makes it impossible for a release to free a block that a  *)
(* later claim has just put there".                                        *)
(***************************************************************************)
NoLaterBlockIsFreed ==
  \A t \in Threads : took[t] # NoBlock => took[t] \in before[t]
=============================================================================
