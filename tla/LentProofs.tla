----------------------------- MODULE LentProofs ------------------------------
(***************************************************************************)
(* Proofs about Lent, for any number of threads, scopes and functions, any *)
(* size of the tables and any bounds.  LentInv is inductive: one lemma for *)
(* each action says that the action preserves it, with a step for each     *)
(* conjunct.                                                               *)
(***************************************************************************)
EXTENDS Lent, TLAPS

Releasing == {"release", "take", "unscope", "answer"}
Labels    == Releasing \cup
  {"idle", "bufalloc", "bufclaim", "bufstore", "attach", "detach", "slotclaim",
   "create", "pairalloc", "start"}
Jobs == [op : {"none", "attach", "detach", "create", "grequest"},
         scope : Scopes \cup {NoScope}, fn : Fns \cup {NoFn}, auto : BOOLEAN]

Types ==
  /\ env \in Environments
  /\ scope \in [BufSlots -> Scopes \cup {NoScope}]
  /\ block \in [BufSlots -> Blocks \cup {NoBlock}]
  /\ poolFn \in [PoolSlots -> Fns \cup {NoFn}]
  /\ heap \in [Blocks -> {"unused", "live", "freed"}]
  /\ attached \in [Scopes -> Blocks \cup {NoBlock, UserBuffer}]
  /\ ops \subseteq [slot : PoolSlots, fn : Fns, freed : BOOLEAN, used : BOOLEAN]
  /\ greqs \subseteq Blocks
  /\ calls \in 0 .. MaxCalls
  /\ job \in [Threads -> Jobs]
  /\ mine \in [Threads -> Blocks \cup {NoBlock}]
  /\ got  \in [Threads -> Blocks \cup {NoBlock, UserBuffer}]
  /\ took \in [Threads -> Blocks \cup {NoBlock}]
  /\ before \in [Threads -> SUBSET Blocks]
  /\ pc  \in [Threads -> Labels]
  /\ idx \in [Threads -> Int]

\* Where a thread is says what it does and which table it looks at.
JobAt ==
  \A t \in Threads :
    /\ pc[t] = "idle" => job[t] = NoJob
    /\ pc[t] \in {"bufalloc", "bufclaim", "bufstore"} =>
         job[t].op = "attach" /\ job[t].auto
    /\ pc[t] = "attach" => job[t].op = "attach"
    /\ pc[t] = "detach" => job[t].op = "detach"
    /\ pc[t] \in Releasing =>
         job[t].op = "detach" \/ (job[t].op = "attach" /\ job[t].auto)
    /\ pc[t] \in {"slotclaim", "create"} => job[t].op = "create" /\ job[t].fn \in Fns
    /\ pc[t] \in {"pairalloc", "start"} => job[t].op = "grequest"
    /\ job[t].scope \in Scopes <=> job[t].op \in {"attach", "detach"}
    /\ idx[t] \in IF pc[t] \in {"slotclaim", "create"} THEN PoolSlots ELSE BufSlots

-----------------------------------------------------------------------------
(* A block that is live has one owner.                                     *)

Holding == {"bufclaim", "bufstore", "start"}
Holds(t) ==
  IF pc[t] = "unscope" THEN took[t]
  ELSE IF pc[t] \in Holding THEN mine[t] ELSE NoBlock

OwnedIsLive ==
  /\ \A s \in BufSlots : block[s] # NoBlock => heap[block[s]] = "live"
  /\ \A t \in Threads : Holds(t) # NoBlock => heap[Holds(t)] = "live"
  /\ \A g \in greqs : heap[g] = "live"

OneOwner ==
  /\ \A s \in BufSlots : block[s] # NoBlock =>
       /\ block[s] \notin greqs
       /\ \A r \in BufSlots \ {s} : block[r] # block[s]
  /\ \A t \in Threads : Holds(t) # NoBlock =>
       /\ Holds(t) \notin greqs
       /\ \A s \in BufSlots : block[s] # Holds(t)
       /\ \A u \in Threads \ {t} : Holds(u) # Holds(t)

HoldersHold ==
  \A t \in Threads : pc[t] \in Holding \cup {"unscope"} => Holds(t) # NoBlock

-----------------------------------------------------------------------------
(* A slot of a pool belongs to one operation, or to the call that makes it. *)

SlotIsTaken ==
  /\ \A o \in ops : poolFn[o.slot] = o.fn
  /\ \A t \in Threads : pc[t] = "create" =>
       /\ poolFn[idx[t]] = job[t].fn
       /\ \A o \in ops : o.slot # idx[t]
       /\ \A u \in Threads \ {t} : pc[u] = "create" => idx[u] # idx[t]

SlotIsNotLost ==
  \A p \in PoolSlots : poolFn[p] # NoFn =>
    \/ \E o \in ops : o.slot = p
    \/ \E t \in Threads : pc[t] = "create" /\ idx[t] = p

-----------------------------------------------------------------------------
(* Where the calls for one scope do not overlap, the table follows them.   *)

\* The block that the release of t is about.
Wanted(t) == IF job[t].op = "attach" THEN mine[t] ELSE got[t]

OneCallPerScope ==
  \A t, u \in Threads : t # u /\ job[t].scope \in Scopes => job[t].scope # job[u].scope

OneSlotPerScope ==
  /\ \A s, r \in BufSlots : scope[s] # NoScope /\ scope[s] = scope[r] => s = r
  /\ \A s \in BufSlots : scope[s] = NoScope => block[s] = NoBlock

\* What t is doing to slot s.
InHand(t, s) ==
  \/ pc[t] \in {"bufstore", "unscope"} /\ idx[t] = s /\ block[s] = NoBlock
  \/ pc[t] = "attach" /\ job[t].auto /\ block[s] = mine[t] /\ mine[t] \in Blocks
  \/ pc[t] \in {"release", "take"} /\ block[s] = Wanted(t) /\ Wanted(t) \in Blocks

SlotHasReason ==
  \A s \in BufSlots : scope[s] # NoScope =>
    \/ block[s] # NoBlock /\ block[s] = attached[scope[s]]
    \/ \E t \in Threads : job[t].scope = scope[s] /\ InHand(t, s)

AttachedIsKept ==
  \A c \in Scopes : attached[c] \in Blocks =>
    \E s \in BufSlots : scope[s] = c /\ block[s] = attached[c]

CallKnowsItsSlot ==
  \A t \in Threads :
    /\ pc[t] \in {"bufstore", "unscope"} =>
         scope[idx[t]] = job[t].scope /\ block[idx[t]] = NoBlock
    /\ pc[t] = "attach" /\ job[t].auto =>
         /\ mine[t] \in Blocks
         /\ \E s \in BufSlots : scope[s] = job[t].scope /\ block[s] = mine[t]
    /\ pc[t] \in {"release", "take"} =>
         /\ Wanted(t) # NoBlock
         /\ Wanted(t) \in Blocks => \E s \in BufSlots :
              s >= idx[t] /\ scope[s] = job[t].scope /\ block[s] = Wanted(t)
    /\ pc[t] = "take" => scope[idx[t]] = job[t].scope
    /\ (job[t].op = "attach" /\ job[t].auto) \/ pc[t] \in Releasing =>
         attached[job[t].scope] \notin Blocks

CallTookItsBlock ==
  \A t \in Threads :
    /\ pc[t] \in {"release", "take"} => took[t] = NoBlock
    /\ pc[t] = "unscope" => took[t] = Wanted(t)
    /\ pc[t] = "answer" =>
         took[t] = IF Wanted(t) \in Blocks THEN Wanted(t) ELSE NoBlock
    /\ pc[t] \notin Releasing => took[t] = NoBlock

LiveIsOwned ==
  \A b \in Blocks : heap[b] = "live" =>
    \/ b \in greqs
    \/ \E s \in BufSlots : block[s] = b
    \/ \E t \in Threads : Holds(t) = b

Orderly ==
  /\ OneCallPerScope
  /\ OneSlotPerScope
  /\ SlotHasReason
  /\ AttachedIsKept
  /\ CallKnowsItsSlot
  /\ CallTookItsBlock
  /\ LiveIsOwned

LentInv ==
  /\ Types
  /\ JobAt
  /\ OwnedIsLive
  /\ OneOwner
  /\ HoldersHold
  /\ SlotIsTaken
  /\ SlotIsNotLost
  /\ env = "orderly" => Orderly

LEMMA Zero == 0 \in BufSlots /\ 0 \in PoolSlots
  BY CapacitiesAssumption DEF BufSlots, PoolSlots

LEMMA NoJobFacts ==
  /\ NoJob \in Jobs
  /\ NoJob.op = "none" /\ NoJob.scope = NoScope /\ NoJob.fn = NoFn
  /\ NoJob.auto = FALSE
  /\ NoScope \notin Scopes /\ NoFn \notin Fns
  BY NothingAssumption DEF NoJob, Jobs

LEMMA Nothing ==
  NoBlock \notin Blocks /\ UserBuffer \notin Blocks /\ UserBuffer # NoBlock
  BY NothingAssumption, BoundsAssumption DEF NoBlock, Blocks

\* A job has an operation, a scope or none, and a function or none.
LEMMA JobFields ==
  ASSUME NEW j \in Jobs
  PROVE  /\ j.op \in {"none", "attach", "detach", "create", "grequest"}
         /\ j.scope \in Scopes \cup {NoScope}
         /\ j.fn \in Fns \cup {NoFn}
         /\ j.auto \in BOOLEAN
  BY DEF Jobs

LEMMA InitEstablishes == Init => LentInv
<1> SUFFICES ASSUME Init PROVE LentInv  OBVIOUS
<1> USE DEF Init
<1>1. 0 \in BufSlots /\ \A t \in Threads : pc[t] = "idle" /\ idx[t] \in BufSlots
  BY CapacitiesAssumption DEF BufSlots
<1>2. Types
  BY BoundsAssumption, NoJobFacts DEF Types, Labels
<1>3. JobAt
  BY <1>1, NoJobFacts DEF JobAt, Releasing
<1>4. \A t \in Threads : Holds(t) = NoBlock  BY <1>1 DEF Holds, Holding
<1>5. Orderly
  BY <1>1, <1>4, NoJobFacts
  DEF Orderly, OneCallPerScope, OneSlotPerScope, SlotHasReason, AttachedIsKept,
      CallKnowsItsSlot, CallTookItsBlock, LiveIsOwned, Releasing, NoBlock,
      Blocks
<1>   QED
  BY <1>1, <1>2, <1>3, <1>4, <1>5
  DEF LentInv, OwnedIsLive, OneOwner, HoldersHold, Holding, SlotIsTaken,
      SlotIsNotLost

\* What a thread works with, by where it is.
LEMMA BufferCall ==
  ASSUME LentInv, NEW t \in Threads,
         pc[t] \in {"bufalloc", "bufclaim", "bufstore", "attach", "detach"} \cup Releasing
  PROVE  job[t].scope \in Scopes /\ idx[t] \in BufSlots /\ idx[t] \in Int
  BY DEF LentInv, Types, JobAt, Releasing

LEMMA SlotCall ==
  ASSUME LentInv, NEW t \in Threads, pc[t] \in {"slotclaim", "create"}
  PROVE  /\ job[t].fn \in Fns /\ job[t].fn # NoFn
         /\ idx[t] \in PoolSlots /\ idx[t] \in Int
  BY NoJobFacts DEF LentInv, Types, JobAt

LEMMA HolderOwns ==
  ASSUME LentInv, NEW t \in Threads, pc[t] \in Holding \cup {"unscope"}
  PROVE  /\ Holds(t) \in Blocks /\ Holds(t) # NoBlock
         /\ heap[Holds(t)] = "live"
         /\ Holds(t) \notin greqs
         /\ \A s \in BufSlots : block[s] # Holds(t)
         /\ \A u \in Threads \ {t} : Holds(u) # Holds(t)
<1>1. Holds(t) # NoBlock  BY DEF LentInv, HoldersHold
<1>2. Holds(t) \in Blocks  BY <1>1 DEF LentInv, Types, Holds
<1>   QED  BY <1>1, <1>2 DEF LentInv, OwnedIsLive, OneOwner

\* In the orderly environment, the slot of a call's scope is in its hands or
\* holds what is attached.
LEMMA SlotsOfCaller ==
  ASSUME LentInv, env = "orderly", NEW t \in Threads, NEW s \in BufSlots,
         scope[s] = job[t].scope, job[t].scope \in Scopes
  PROVE  InHand(t, s) \/ (block[s] # NoBlock /\ block[s] = attached[job[t].scope])
  BY NoJobFacts DEF LentInv, Orderly, SlotHasReason, OneCallPerScope

\* A buffer is attached where the application may (hw_buffers.c:52).
LEMMA AttachPreserves ==
  ASSUME NEW t \in Threads, LentInv, Attach(t)
  PROVE  LentInv'
<1> USE DEF LentInv, Types, Attach, Begin, Goto, At, tableVars, implVars
<1>0. PICK c \in Scopes, auto \in BOOLEAN, j \in Jobs :
        /\ j.op = "attach" /\ j.scope = c /\ j.auto = auto
        /\ job' = [job EXCEPT ![t] = j]
        /\ pc' = [pc EXCEPT ![t] = IF auto THEN "bufalloc" ELSE "attach"]
        /\ calls' \in 0 .. MaxCalls
        /\ env = "orderly" =>
             /\ \A u \in Threads : job[u].scope # c
             /\ auto => attached[c] \notin Blocks
  <2>1. PICK c \in Scopes, auto \in BOOLEAN :
          /\ env = "orderly" => /\ InScope(c) = {}
                                /\ auto => attached[c] \notin Blocks
          /\ Begin(t, [NoJob EXCEPT !.op = "attach", !.scope = c, !.auto = auto],
                   IF auto THEN "bufalloc" ELSE "attach")
    BY DEF Attach
  <2>2. [NoJob EXCEPT !.op = "attach", !.scope = c, !.auto = auto] \in Jobs
    BY DEF NoJob, Jobs
  <2>3. calls' \in 0 .. MaxCalls  BY <2>1, BoundsAssumption
  <2>4. env = "orderly" => \A u \in Threads : job[u].scope # c
    BY <2>1 DEF InScope
  <2>   QED  BY <2>1, <2>2, <2>3, <2>4 DEF NoJob
<1>1. Types'  BY <1>0, NoJobFacts, Nothing DEF Labels, Releasing
<1>2. JobAt'  BY <1>0, NoJobFacts, Zero DEF JobAt, Releasing
<1>3. OwnedIsLive'  BY <1>0 DEF OwnedIsLive, OneOwner, Holds, Holding
<1>4. OneOwner'  BY <1>0 DEF OwnedIsLive, OneOwner, Holds, Holding
<1>5. HoldersHold'  BY <1>0 DEF HoldersHold, Holds, Holding
<1>6. SlotIsTaken'  BY <1>0 DEF SlotIsTaken, JobAt
<1>7. SlotIsNotLost'  BY <1>0 DEF SlotIsNotLost
<1>8. ASSUME env = "orderly"  PROVE OneCallPerScope'
  <2>1. /\ job'[t].scope = c
        /\ \A u \in Threads \ {t} : job'[u] = job[u] /\ job[u].scope # c
    BY <1>8, <1>0
  <2>2. OneCallPerScope  BY <1>8 DEF Orderly
  <2>   QED  BY <2>1, <2>2 DEF OneCallPerScope
<1>9. ASSUME env = "orderly"  PROVE OneSlotPerScope'
  BY <1>9, <1>0 DEF Orderly, OneSlotPerScope
<1>10. ASSUME env = "orderly"  PROVE SlotHasReason'
  BY <1>10, <1>0 DEF Orderly, SlotHasReason, InHand, Wanted
<1>11. ASSUME env = "orderly"  PROVE AttachedIsKept'
  BY <1>11, <1>0 DEF Orderly, AttachedIsKept
<1>12. ASSUME env = "orderly"  PROVE CallKnowsItsSlot'
  BY <1>12, <1>0, NoJobFacts DEF Orderly, CallKnowsItsSlot, Wanted, Releasing
<1>13. ASSUME env = "orderly"  PROVE CallTookItsBlock'
  BY <1>13, <1>0 DEF Orderly, CallTookItsBlock, Wanted, Releasing
<1>14. ASSUME env = "orderly"  PROVE LiveIsOwned'
  BY <1>14, <1>0 DEF Orderly, LiveIsOwned, Holds, Holding
<1> QED
  BY <1>1, <1>2, <1>3, <1>4, <1>5, <1>6, <1>7, <1>8, <1>9, <1>10, <1>11, <1>12, <1>13, <1>14
  DEF Orderly

\* A block that nobody has is allocated.
LEMMA BufAllocPreserves ==
  ASSUME NEW t \in Threads, LentInv, BufAlloc(t)
  PROVE  LentInv'
<1> USE DEF LentInv, Types, BufAlloc, Alloc, Goto, At, tableVars, implVars
<1>0. PICK b \in Blocks :
        /\ heap[b] = "unused" /\ b # NoBlock
        /\ heap' = [heap EXCEPT ![b] = "live"]
        /\ mine' = [mine EXCEPT ![t] = b]
        /\ \A u \in Threads : Holds(u)' = IF u = t THEN b ELSE Holds(u)
        /\ Holds(t) = NoBlock
  BY Nothing DEF Holds, Holding
<1>1. Types'  BY <1>0, NoJobFacts, Nothing DEF Labels, Releasing
<1>2. JobAt'  BY <1>0, NoJobFacts, Zero DEF JobAt, Releasing
<1>3. OwnedIsLive'  BY <1>0 DEF OwnedIsLive, OneOwner, Holds, Holding
<1>4. OneOwner'  BY <1>0 DEF OwnedIsLive, OneOwner, Holds, Holding
<1>5. HoldersHold'  BY <1>0 DEF HoldersHold, Holds, Holding
<1>6. SlotIsTaken'  BY <1>0 DEF SlotIsTaken, JobAt
<1>7. SlotIsNotLost'  BY <1>0 DEF SlotIsNotLost
<1>8. ASSUME env = "orderly"  PROVE OneCallPerScope'
  BY <1>8, <1>0, NoJobFacts DEF Orderly, OneCallPerScope
<1>9. ASSUME env = "orderly"  PROVE OneSlotPerScope'
  BY <1>9, <1>0 DEF Orderly, OneSlotPerScope
<1>10. ASSUME env = "orderly"  PROVE SlotHasReason'
  BY <1>10, <1>0 DEF Orderly, SlotHasReason, InHand, Wanted
<1>11. ASSUME env = "orderly"  PROVE AttachedIsKept'
  BY <1>11, <1>0 DEF Orderly, AttachedIsKept
<1>12. ASSUME env = "orderly"  PROVE CallKnowsItsSlot'
  BY <1>12, <1>0, NoJobFacts DEF Orderly, CallKnowsItsSlot, Wanted, Releasing
<1>13. ASSUME env = "orderly"  PROVE CallTookItsBlock'
  BY <1>13, <1>0 DEF Orderly, CallTookItsBlock, Wanted, Releasing
<1>14. ASSUME env = "orderly"  PROVE LiveIsOwned'
  BY <1>14, <1>0, Nothing DEF Orderly, LiveIsOwned
<1> QED
  BY <1>1, <1>2, <1>3, <1>4, <1>5, <1>6, <1>7, <1>8, <1>9, <1>10, <1>11, <1>12, <1>13, <1>14
  DEF Orderly

\* There is no memory.
LEMMA AllocFailsPreserves ==
  ASSUME NEW t \in Threads, LentInv, AllocFails(t)
  PROVE  LentInv'
<1> USE DEF LentInv, Types, AllocFails, Return, Goto, At, tableVars, implVars
<1>1. Types'  BY NoJobFacts, Nothing DEF Labels, Releasing
<1>2. JobAt'  BY NoJobFacts, Zero DEF JobAt, Releasing
<1>3. OwnedIsLive'  BY DEF OwnedIsLive, OneOwner, Holds, Holding
<1>4. OneOwner'  BY DEF OwnedIsLive, OneOwner, Holds, Holding
<1>5. HoldersHold'  BY DEF HoldersHold, Holds, Holding
<1>6. SlotIsTaken'  BY DEF SlotIsTaken, JobAt
<1>7. SlotIsNotLost'  BY DEF SlotIsNotLost
<1>8. ASSUME env = "orderly"  PROVE OneCallPerScope'
  BY <1>8, NoJobFacts DEF Orderly, OneCallPerScope
<1>9. ASSUME env = "orderly"  PROVE OneSlotPerScope'
  BY <1>9 DEF Orderly, OneSlotPerScope
<1>10. ASSUME env = "orderly"  PROVE SlotHasReason'
  BY <1>10 DEF Orderly, SlotHasReason, InHand, Wanted
<1>11. ASSUME env = "orderly"  PROVE AttachedIsKept'
  BY <1>11 DEF Orderly, AttachedIsKept
<1>12. ASSUME env = "orderly"  PROVE CallKnowsItsSlot'
  BY <1>12, NoJobFacts DEF Orderly, CallKnowsItsSlot, Wanted, Releasing
<1>13. ASSUME env = "orderly"  PROVE CallTookItsBlock'
  BY <1>13 DEF Orderly, CallTookItsBlock, Wanted, Releasing
<1>14. ASSUME env = "orderly"  PROVE LiveIsOwned'
  BY <1>14 DEF Orderly, LiveIsOwned, Holds, Holding
<1> QED
  BY <1>1, <1>2, <1>3, <1>4, <1>5, <1>6, <1>7, <1>8, <1>9, <1>10, <1>11, <1>12, <1>13, <1>14
  DEF Orderly

\* The compare-and-swap claims a free slot (buffers.c:92).
LEMMA BufClaimPreserves ==
  ASSUME NEW t \in Threads, LentInv, BufClaim(t)
  PROVE  LentInv'
<1> USE DEF LentInv, Types, BufClaim, At, implVars, localVars
<1>0. job[t].scope \in Scopes /\ idx[t] \in BufSlots  BY BufferCall
<1>1. Types'  BY <1>0, NoJobFacts, Nothing DEF Labels, Releasing
<1>2. JobAt'  BY <1>0, NoJobFacts, Zero DEF JobAt, Releasing
<1>3. OwnedIsLive'  BY <1>0 DEF OwnedIsLive, OneOwner, Holds, Holding
<1>4. OneOwner'  BY <1>0 DEF OwnedIsLive, OneOwner, Holds, Holding
<1>5. HoldersHold'  BY <1>0 DEF HoldersHold, Holds, Holding
<1>6. SlotIsTaken'  BY <1>0 DEF SlotIsTaken, JobAt
<1>7. SlotIsNotLost'  BY <1>0 DEF SlotIsNotLost
<1>8. ASSUME env = "orderly"  PROVE OneCallPerScope'
  BY <1>8, <1>0, NoJobFacts DEF Orderly, OneCallPerScope
<1>9. ASSUME env = "orderly"  PROVE OneSlotPerScope'
  <2>1. \A s \in BufSlots : scope[s] # job[t].scope
    BY <1>9, SlotsOfCaller, Nothing DEF Orderly, CallKnowsItsSlot, InHand, JobAt
  <2>   QED  BY <1>9, <2>1, NoJobFacts DEF Orderly, OneSlotPerScope, JobAt
<1>10. ASSUME env = "orderly"  PROVE SlotHasReason'
  <2>1. block[idx[t]] = NoBlock  BY <1>10 DEF Orderly, OneSlotPerScope, JobAt
  <2>2. InHand(t, idx[t])'  BY <2>1 DEF InHand
  <2>3. \A u \in Threads \ {t}, s \in BufSlots : InHand(u, s) => InHand(u, s)'
    BY DEF InHand, Wanted
  <2>4. \A s \in BufSlots : ~InHand(t, s)  BY DEF InHand
  <2>   QED  BY <1>10, <2>2, <2>3, <2>4 DEF Orderly, SlotHasReason
<1>11. ASSUME env = "orderly"  PROVE AttachedIsKept'
  BY <1>11, Nothing DEF Orderly, AttachedIsKept, OneSlotPerScope, JobAt
<1>12. ASSUME env = "orderly"  PROVE CallKnowsItsSlot'
  <2>1. block[idx[t]] = NoBlock  BY <1>12 DEF Orderly, OneSlotPerScope, JobAt
  <2>2. \A s \in BufSlots \ {idx[t]} : scope'[s] = scope[s]  OBVIOUS
  <2>3. scope'[idx[t]] = job[t].scope  BY DEF JobAt
  <2>   QED
    BY <1>12, <2>1, <2>2, <2>3, NoJobFacts, JobFields
    DEF Orderly, CallKnowsItsSlot, Wanted, Releasing, JobAt
<1>13. ASSUME env = "orderly"  PROVE CallTookItsBlock'
  BY <1>13, <1>0 DEF Orderly, CallTookItsBlock, Wanted, Releasing
<1>14. ASSUME env = "orderly"  PROVE LiveIsOwned'
  BY <1>14, <1>0 DEF Orderly, LiveIsOwned, Holds, Holding
<1> QED
  BY <1>1, <1>2, <1>3, <1>4, <1>5, <1>6, <1>7, <1>8, <1>9, <1>10, <1>11, <1>12, <1>13, <1>14
  DEF Orderly

\* The slot is taken; try the next one.
LEMMA BufClaimNextPreserves ==
  ASSUME NEW t \in Threads, LentInv, BufClaimNext(t)
  PROVE  LentInv'
<1> USE DEF LentInv, Types, BufClaimNext, At, tableVars, implVars, localVars
<1>0. idx[t] \in BufSlots /\ idx[t] + 1 \in BufSlots  BY BufferCall, CapacitiesAssumption DEF BufSlots
<1>1. Types'  BY <1>0, NoJobFacts, Nothing DEF Labels, Releasing
<1>2. JobAt'  BY <1>0, NoJobFacts, Zero DEF JobAt, Releasing
<1>3. OwnedIsLive'  BY <1>0 DEF OwnedIsLive, OneOwner, Holds, Holding
<1>4. OneOwner'  BY <1>0 DEF OwnedIsLive, OneOwner, Holds, Holding
<1>5. HoldersHold'  BY <1>0 DEF HoldersHold, Holds, Holding
<1>6. SlotIsTaken'  BY <1>0 DEF SlotIsTaken, JobAt
<1>7. SlotIsNotLost'  BY <1>0 DEF SlotIsNotLost
<1>8. ASSUME env = "orderly"  PROVE OneCallPerScope'
  BY <1>8, <1>0, NoJobFacts DEF Orderly, OneCallPerScope
<1>9. ASSUME env = "orderly"  PROVE OneSlotPerScope'
  BY <1>9, <1>0 DEF Orderly, OneSlotPerScope
<1>10. ASSUME env = "orderly"  PROVE SlotHasReason'
  BY <1>10, <1>0 DEF Orderly, SlotHasReason, InHand, Wanted
<1>11. ASSUME env = "orderly"  PROVE AttachedIsKept'
  BY <1>11, <1>0 DEF Orderly, AttachedIsKept
<1>12. ASSUME env = "orderly"  PROVE CallKnowsItsSlot'
  BY <1>12, <1>0, NoJobFacts DEF Orderly, CallKnowsItsSlot, Wanted, Releasing
<1>13. ASSUME env = "orderly"  PROVE CallTookItsBlock'
  BY <1>13, <1>0 DEF Orderly, CallTookItsBlock, Wanted, Releasing
<1>14. ASSUME env = "orderly"  PROVE LiveIsOwned'
  BY <1>14, <1>0 DEF Orderly, LiveIsOwned, Holds, Holding
<1> QED
  BY <1>1, <1>2, <1>3, <1>4, <1>5, <1>6, <1>7, <1>8, <1>9, <1>10, <1>11, <1>12, <1>13, <1>14
  DEF Orderly

\* The table is full, and the block is freed (buffers.c:102).
LEMMA BufClaimFailsPreserves ==
  ASSUME NEW t \in Threads, LentInv, BufClaimFails(t)
  PROVE  LentInv'
<1> USE DEF LentInv, Types, BufClaimFails, Return, Goto, At, tableVars, implVars
<1>0. /\ mine[t] \in Blocks /\ Holds(t) = mine[t] /\ heap[mine[t]] = "live"
      /\ mine[t] \notin greqs
      /\ \A s \in BufSlots : block[s] # mine[t]
      /\ \A u \in Threads \ {t} : Holds(u) # mine[t]
      /\ \A u \in Threads : Holds(u)' = IF u = t THEN NoBlock ELSE Holds(u)
  BY HolderOwns DEF Holds, Holding
<1>1. Types'  BY <1>0, NoJobFacts, Nothing DEF Labels, Releasing
<1>2. JobAt'  BY <1>0, NoJobFacts, Zero DEF JobAt, Releasing
<1>3. OwnedIsLive'
  BY <1>0, Nothing DEF OwnedIsLive, OneOwner
<1>4. OneOwner'
  BY <1>0, Nothing DEF OneOwner
<1>5. HoldersHold'  BY <1>0 DEF HoldersHold, Holds, Holding
<1>6. SlotIsTaken'  BY <1>0 DEF SlotIsTaken, JobAt
<1>7. SlotIsNotLost'  BY <1>0 DEF SlotIsNotLost
<1>8. ASSUME env = "orderly"  PROVE OneCallPerScope'
  BY <1>8, <1>0, NoJobFacts DEF Orderly, OneCallPerScope
<1>9. ASSUME env = "orderly"  PROVE OneSlotPerScope'
  BY <1>9, <1>0 DEF Orderly, OneSlotPerScope
<1>10. ASSUME env = "orderly"  PROVE SlotHasReason'
  BY <1>10, <1>0 DEF Orderly, SlotHasReason, InHand, Wanted
<1>11. ASSUME env = "orderly"  PROVE AttachedIsKept'
  BY <1>11, <1>0 DEF Orderly, AttachedIsKept
<1>12. ASSUME env = "orderly"  PROVE CallKnowsItsSlot'
  BY <1>12, <1>0, NoJobFacts DEF Orderly, CallKnowsItsSlot, Wanted, Releasing
<1>13. ASSUME env = "orderly"  PROVE CallTookItsBlock'
  BY <1>13, <1>0 DEF Orderly, CallTookItsBlock, Wanted, Releasing
<1>14. ASSUME env = "orderly"  PROVE LiveIsOwned'
  BY <1>14, <1>0, Nothing DEF Orderly, LiveIsOwned
<1> QED
  BY <1>1, <1>2, <1>3, <1>4, <1>5, <1>6, <1>7, <1>8, <1>9, <1>10, <1>11, <1>12, <1>13, <1>14
  DEF Orderly

\* The block is stored in the slot (buffers.c:96).
LEMMA BufStorePreserves ==
  ASSUME NEW t \in Threads, LentInv, BufStore(t)
  PROVE  LentInv'
<1> USE DEF LentInv, Types, BufStore, Goto, At, implVars, localVars
<1>0. /\ job[t].scope \in Scopes /\ idx[t] \in BufSlots
      /\ mine[t] \in Blocks /\ Holds(t) = mine[t] /\ heap[mine[t]] = "live"
      /\ mine[t] \notin greqs
      /\ \A s \in BufSlots : block[s] # mine[t]
      /\ \A u \in Threads \ {t} : Holds(u) # mine[t]
      /\ \A u \in Threads : Holds(u)' = IF u = t THEN NoBlock ELSE Holds(u)
  BY HolderOwns, BufferCall DEF Holds, Holding, Releasing
<1>1. Types'  BY <1>0, NoJobFacts, Nothing DEF Labels, Releasing
<1>2. JobAt'  BY <1>0, NoJobFacts, Zero DEF JobAt, Releasing
<1>3. OwnedIsLive'
  BY <1>0, Nothing DEF OwnedIsLive, OneOwner
<1>4. OneOwner'
  BY <1>0, Nothing DEF OneOwner
<1>5. HoldersHold'  BY <1>0 DEF HoldersHold, Holds, Holding
<1>6. SlotIsTaken'  BY <1>0 DEF SlotIsTaken, JobAt
<1>7. SlotIsNotLost'  BY <1>0 DEF SlotIsNotLost
<1>8. ASSUME env = "orderly"  PROVE OneCallPerScope'
  BY <1>8, <1>0, NoJobFacts DEF Orderly, OneCallPerScope
<1>9. ASSUME env = "orderly"  PROVE OneSlotPerScope'
  BY <1>9, <1>0, NoJobFacts DEF Orderly, OneSlotPerScope, CallKnowsItsSlot
<1>10. ASSUME env = "orderly"  PROVE SlotHasReason'
  <2>1. job[t].auto /\ scope[idx[t]] = job[t].scope
    BY <1>10 DEF Orderly, CallKnowsItsSlot, JobAt
  <2>2. ASSUME NEW s \in BufSlots, s = idx[t]  PROVE InHand(t, s)'
    BY <1>0, <2>1, <2>2 DEF InHand
  <2>3. \A u \in Threads \ {t}, s \in BufSlots \ {idx[t]} : InHand(u, s) => InHand(u, s)'
    BY DEF InHand, Wanted
  <2>4. \A s \in BufSlots \ {idx[t]} : ~InHand(t, s)  BY DEF InHand
  <2>   QED  BY <1>10, <1>0, <2>1, <2>2, <2>3, <2>4 DEF Orderly, SlotHasReason
<1>11. ASSUME env = "orderly"  PROVE AttachedIsKept'
  <2>1. block[idx[t]] = NoBlock  BY <1>11 DEF Orderly, CallKnowsItsSlot
  <2>   QED  BY <1>11, <1>0, <2>1, Nothing DEF Orderly, AttachedIsKept
<1>12. ASSUME env = "orderly"  PROVE CallKnowsItsSlot'
  <2>1. /\ job[t].op = "attach" /\ job[t].auto
        /\ scope[idx[t]] = job[t].scope /\ attached[job[t].scope] \notin Blocks
    BY <1>12 DEF Orderly, CallKnowsItsSlot, JobAt
  <2>2. \A u \in Threads \ {t} : job[u].scope # scope[idx[t]]
    BY <1>12, <1>0, <2>1 DEF Orderly, OneCallPerScope
  <2>   QED
    BY <1>12, <1>0, <2>1, <2>2 DEF Orderly, CallKnowsItsSlot, Wanted, Releasing
<1>13. ASSUME env = "orderly"  PROVE CallTookItsBlock'
  BY <1>13, <1>0 DEF Orderly, CallTookItsBlock, Wanted, Releasing
<1>14. ASSUME env = "orderly"  PROVE LiveIsOwned'
  <2>1. block[idx[t]] = NoBlock  BY <1>14 DEF Orderly, CallKnowsItsSlot
  <2>   QED  BY <1>14, <1>0, <2>1, Nothing DEF Orderly, LiveIsOwned
<1> QED
  BY <1>1, <1>2, <1>3, <1>4, <1>5, <1>6, <1>7, <1>8, <1>9, <1>10, <1>11, <1>12, <1>13, <1>14
  DEF Orderly

\* The implementation takes the buffer (hw_buffers.c:62).
LEMMA AttachSucceedsPreserves ==
  ASSUME NEW t \in Threads, LentInv, AttachSucceeds(t)
  PROVE  LentInv'
<1> USE DEF LentInv, Types, AttachSucceeds, Return, Goto, At, tableVars
<1>0. /\ job[t].scope \in Scopes /\ job[t].op = "attach"
      /\ \A u \in Threads \ {t} : env = "orderly" => job[u].scope # job[t].scope
  BY BufferCall DEF JobAt, Orderly, OneCallPerScope
<1>1. Types'  BY <1>0, NoJobFacts, Nothing DEF Labels, Releasing
<1>2. JobAt'  BY <1>0, NoJobFacts, Zero DEF JobAt, Releasing
<1>3. OwnedIsLive'  BY <1>0 DEF OwnedIsLive, OneOwner, Holds, Holding
<1>4. OneOwner'  BY <1>0 DEF OwnedIsLive, OneOwner, Holds, Holding
<1>5. HoldersHold'  BY <1>0 DEF HoldersHold, Holds, Holding
<1>6. SlotIsTaken'  BY <1>0 DEF SlotIsTaken, JobAt
<1>7. SlotIsNotLost'  BY <1>0 DEF SlotIsNotLost
<1>8. ASSUME env = "orderly"  PROVE OneCallPerScope'
  BY <1>8, <1>0, NoJobFacts DEF Orderly, OneCallPerScope
<1>9. ASSUME env = "orderly"  PROVE OneSlotPerScope'
  BY <1>9, <1>0 DEF Orderly, OneSlotPerScope
<1>10. ASSUME env = "orderly"  PROVE SlotHasReason'
  <2>1. \A u \in Threads \ {t}, s \in BufSlots : InHand(u, s) => InHand(u, s)'
    BY DEF InHand, Wanted
  <2>2. \A s \in BufSlots : InHand(t, s) => /\ job[t].auto /\ block[s] = mine[t]
                                             /\ mine[t] \in Blocks
    BY DEF InHand
  <2>   QED  BY <1>10, <1>0, <2>1, <2>2, Nothing DEF Orderly, SlotHasReason
<1>11. ASSUME env = "orderly"  PROVE AttachedIsKept'
  BY <1>11, <1>0, Nothing DEF Orderly, AttachedIsKept, CallKnowsItsSlot
<1>12. ASSUME env = "orderly"  PROVE CallKnowsItsSlot'
  <2>1. \A u \in Threads \ {t} : /\ attached'[job[u].scope] = attached[job[u].scope]
                                  /\ Wanted(u)' = Wanted(u)
    BY <1>12, <1>0 DEF Wanted
  <2>   QED  BY <1>12, <2>1, NoJobFacts DEF Orderly, CallKnowsItsSlot, Releasing
<1>13. ASSUME env = "orderly"  PROVE CallTookItsBlock'
  BY <1>13, <1>0 DEF Orderly, CallTookItsBlock, Wanted, Releasing
<1>14. ASSUME env = "orderly"  PROVE LiveIsOwned'
  BY <1>14, <1>0 DEF Orderly, LiveIsOwned, Holds, Holding
<1> QED
  BY <1>1, <1>2, <1>3, <1>4, <1>5, <1>6, <1>7, <1>8, <1>9, <1>10, <1>11, <1>12, <1>13, <1>14
  DEF Orderly

\* It does not, and an automatic buffer is to be released (hw_buffers.c:66).
LEMMA AttachFailsPreserves ==
  ASSUME NEW t \in Threads, LentInv, AttachFails(t)
  PROVE  LentInv'
<1> USE DEF LentInv, Types, AttachFails, Return, Goto, At, tableVars, implVars
<1>0. /\ job[t].scope \in Scopes /\ job[t].op = "attach"
      /\ \A s \in BufSlots : s >= 0
  BY BufferCall DEF JobAt, BufSlots
<1>1. Types'
  BY <1>0, NoJobFacts, Nothing DEF Labels, Releasing, Allocated
<1>2. JobAt'  BY <1>0, NoJobFacts, Zero DEF JobAt, Releasing
<1>3. OwnedIsLive'  BY <1>0 DEF OwnedIsLive, OneOwner, Holds, Holding
<1>4. OneOwner'  BY <1>0 DEF OwnedIsLive, OneOwner, Holds, Holding
<1>5. HoldersHold'  BY <1>0 DEF HoldersHold, Holds, Holding
<1>6. SlotIsTaken'  BY <1>0 DEF SlotIsTaken, JobAt
<1>7. SlotIsNotLost'  BY <1>0 DEF SlotIsNotLost
<1>8. ASSUME env = "orderly"  PROVE OneCallPerScope'
  BY <1>8, <1>0, NoJobFacts DEF Orderly, OneCallPerScope
<1>9. ASSUME env = "orderly"  PROVE OneSlotPerScope'
  BY <1>9, <1>0 DEF Orderly, OneSlotPerScope
<1>10. ASSUME env = "orderly"  PROVE SlotHasReason'
  <2>1. \A u \in Threads \ {t}, s \in BufSlots : InHand(u, s) => InHand(u, s)'
    BY DEF InHand, Wanted
  <2>2. \A s \in BufSlots : InHand(t, s) => InHand(t, s)' /\ job[t].auto
    BY <1>0 DEF InHand, Wanted
  <2>   QED  BY <1>10, <2>1, <2>2 DEF Orderly, SlotHasReason
<1>11. ASSUME env = "orderly"  PROVE AttachedIsKept'
  BY <1>11, <1>0 DEF Orderly, AttachedIsKept
<1>12. ASSUME env = "orderly"  PROVE CallKnowsItsSlot'
  <2>1. \A u \in Threads \ {t} : Wanted(u)' = Wanted(u)  BY DEF Wanted
  <2>2. job[t].auto => Wanted(t)' = mine[t]  BY <1>0 DEF Wanted
  <2>3. CASE job[t].auto
    BY <1>12, <1>0, <2>1, <2>2, <2>3, Nothing DEF Orderly, CallKnowsItsSlot, Releasing
  <2>4. CASE ~job[t].auto
    BY <1>12, <2>1, <2>4, NoJobFacts DEF Orderly, CallKnowsItsSlot, Releasing
  <2>   QED  BY <2>3, <2>4
<1>13. ASSUME env = "orderly"  PROVE CallTookItsBlock'
  BY <1>13, <1>0 DEF Orderly, CallTookItsBlock, Wanted, Releasing
<1>14. ASSUME env = "orderly"  PROVE LiveIsOwned'
  BY <1>14, <1>0 DEF Orderly, LiveIsOwned, Holds, Holding
<1> QED
  BY <1>1, <1>2, <1>3, <1>4, <1>5, <1>6, <1>7, <1>8, <1>9, <1>10, <1>11, <1>12, <1>13, <1>14
  DEF Orderly

\* A detach begins (hw_buffers.c:73).
LEMMA DetachPreserves ==
  ASSUME NEW t \in Threads, LentInv, Detach(t)
  PROVE  LentInv'
<1> USE DEF LentInv, Types, Detach, Begin, Goto, At, tableVars, implVars
<1>0. PICK c \in Scopes, j \in Jobs :
        /\ j.op = "detach" /\ j.scope = c
        /\ job' = [job EXCEPT ![t] = j]
        /\ calls' \in 0 .. MaxCalls
        /\ env = "orderly" => \A u \in Threads : job[u].scope # c
  <2>1. PICK c \in Scopes :
          /\ env = "orderly" => InScope(c) = {}
          /\ Begin(t, [NoJob EXCEPT !.op = "detach", !.scope = c], "detach")
    BY DEF Detach
  <2>2. [NoJob EXCEPT !.op = "detach", !.scope = c] \in Jobs  BY DEF NoJob, Jobs
  <2>3. calls' \in 0 .. MaxCalls  BY <2>1, BoundsAssumption
  <2>4. env = "orderly" => \A u \in Threads : job[u].scope # c
    BY <2>1 DEF InScope
  <2>   QED  BY <2>1, <2>2, <2>3, <2>4 DEF NoJob
<1>1. Types'  BY <1>0, NoJobFacts, Nothing DEF Labels, Releasing
<1>2. JobAt'  BY <1>0, NoJobFacts, Zero DEF JobAt, Releasing
<1>3. OwnedIsLive'  BY <1>0 DEF OwnedIsLive, OneOwner, Holds, Holding
<1>4. OneOwner'  BY <1>0 DEF OwnedIsLive, OneOwner, Holds, Holding
<1>5. HoldersHold'  BY <1>0 DEF HoldersHold, Holds, Holding
<1>6. SlotIsTaken'  BY <1>0 DEF SlotIsTaken, JobAt
<1>7. SlotIsNotLost'  BY <1>0 DEF SlotIsNotLost
<1>8. ASSUME env = "orderly"  PROVE OneCallPerScope'
  <2>1. /\ job'[t].scope = c
        /\ \A u \in Threads \ {t} : job'[u] = job[u] /\ job[u].scope # c
    BY <1>8, <1>0
  <2>2. OneCallPerScope  BY <1>8 DEF Orderly
  <2>   QED  BY <2>1, <2>2 DEF OneCallPerScope
<1>9. ASSUME env = "orderly"  PROVE OneSlotPerScope'
  BY <1>9, <1>0 DEF Orderly, OneSlotPerScope
<1>10. ASSUME env = "orderly"  PROVE SlotHasReason'
  BY <1>10, <1>0 DEF Orderly, SlotHasReason, InHand, Wanted
<1>11. ASSUME env = "orderly"  PROVE AttachedIsKept'
  BY <1>11, <1>0 DEF Orderly, AttachedIsKept
<1>12. ASSUME env = "orderly"  PROVE CallKnowsItsSlot'
  BY <1>12, <1>0, NoJobFacts DEF Orderly, CallKnowsItsSlot, Wanted, Releasing
<1>13. ASSUME env = "orderly"  PROVE CallTookItsBlock'
  BY <1>13, <1>0 DEF Orderly, CallTookItsBlock, Wanted, Releasing
<1>14. ASSUME env = "orderly"  PROVE LiveIsOwned'
  BY <1>14, <1>0 DEF Orderly, LiveIsOwned, Holds, Holding
<1> QED
  BY <1>1, <1>2, <1>3, <1>4, <1>5, <1>6, <1>7, <1>8, <1>9, <1>10, <1>11, <1>12, <1>13, <1>14
  DEF Orderly

\* The implementation lets go of the buffer.
LEMMA DetachSucceedsPreserves ==
  ASSUME NEW t \in Threads, LentInv, DetachSucceeds(t)
  PROVE  LentInv'
<1> USE DEF LentInv, Types, DetachSucceeds, Goto, At, tableVars
<1>0. /\ job[t].scope \in Scopes /\ job[t].op = "detach"
      /\ \A s \in BufSlots : s >= 0
      /\ \A u \in Threads \ {t} : env = "orderly" => job[u].scope # job[t].scope
  BY BufferCall DEF JobAt, BufSlots, Orderly, OneCallPerScope
<1>1. Types'
  BY <1>0, NoJobFacts, Nothing DEF Labels, Releasing, Allocated
<1>2. JobAt'  BY <1>0, NoJobFacts, Zero DEF JobAt, Releasing
<1>3. OwnedIsLive'  BY <1>0 DEF OwnedIsLive, OneOwner, Holds, Holding
<1>4. OneOwner'  BY <1>0 DEF OwnedIsLive, OneOwner, Holds, Holding
<1>5. HoldersHold'  BY <1>0 DEF HoldersHold, Holds, Holding
<1>6. SlotIsTaken'  BY <1>0 DEF SlotIsTaken, JobAt
<1>7. SlotIsNotLost'  BY <1>0 DEF SlotIsNotLost
<1>8. ASSUME env = "orderly"  PROVE OneCallPerScope'
  BY <1>8, <1>0, NoJobFacts DEF Orderly, OneCallPerScope
<1>9. ASSUME env = "orderly"  PROVE OneSlotPerScope'
  BY <1>9, <1>0 DEF Orderly, OneSlotPerScope
<1>10. ASSUME env = "orderly"  PROVE SlotHasReason'
  <2>1. \A u \in Threads \ {t}, s \in BufSlots : InHand(u, s) => InHand(u, s)'
    BY DEF InHand, Wanted
  <2>2. \A s \in BufSlots : ~InHand(t, s)  BY DEF InHand
  <2>3. \A s \in BufSlots : block[s] # NoBlock /\ block[s] = attached[job[t].scope]
                            => InHand(t, s)'
    BY <1>0 DEF InHand, Wanted
  <2>   QED  BY <1>10, <1>0, <2>1, <2>2, <2>3 DEF Orderly, SlotHasReason
<1>11. ASSUME env = "orderly"  PROVE AttachedIsKept'
  BY <1>11, <1>0, Nothing DEF Orderly, AttachedIsKept
<1>12. ASSUME env = "orderly"  PROVE CallKnowsItsSlot'
  <2>1. \A u \in Threads \ {t} : /\ attached'[job[u].scope] = attached[job[u].scope]
                                  /\ Wanted(u)' = Wanted(u)
    BY <1>12, <1>0 DEF Wanted
  <2>2. Wanted(t)' = attached[job[t].scope]  BY <1>0 DEF Wanted
  <2>3. attached[job[t].scope] \in Blocks =>
          \E s \in BufSlots : scope[s] = job[t].scope /\ block[s] = attached[job[t].scope]
    BY <1>12, <1>0 DEF Orderly, AttachedIsKept
  <2>   QED
    BY <1>12, <1>0, <2>1, <2>2, <2>3, Nothing DEF Orderly, CallKnowsItsSlot, Releasing
<1>13. ASSUME env = "orderly"  PROVE CallTookItsBlock'
  BY <1>13, <1>0 DEF Orderly, CallTookItsBlock, Wanted, Releasing
<1>14. ASSUME env = "orderly"  PROVE LiveIsOwned'
  BY <1>14, <1>0 DEF Orderly, LiveIsOwned, Holds, Holding
<1> QED
  BY <1>1, <1>2, <1>3, <1>4, <1>5, <1>6, <1>7, <1>8, <1>9, <1>10, <1>11, <1>12, <1>13, <1>14
  DEF Orderly

\* It has none.
LEMMA DetachFailsPreserves ==
  ASSUME NEW t \in Threads, LentInv, DetachFails(t)
  PROVE  LentInv'
<1> USE DEF LentInv, Types, DetachFails, Return, Goto, At, tableVars, implVars
<1>1. Types'  BY NoJobFacts, Nothing DEF Labels, Releasing
<1>2. JobAt'  BY NoJobFacts, Zero DEF JobAt, Releasing
<1>3. OwnedIsLive'  BY DEF OwnedIsLive, OneOwner, Holds, Holding
<1>4. OneOwner'  BY DEF OwnedIsLive, OneOwner, Holds, Holding
<1>5. HoldersHold'  BY DEF HoldersHold, Holds, Holding
<1>6. SlotIsTaken'  BY DEF SlotIsTaken, JobAt
<1>7. SlotIsNotLost'  BY DEF SlotIsNotLost
<1>8. ASSUME env = "orderly"  PROVE OneCallPerScope'
  BY <1>8, NoJobFacts DEF Orderly, OneCallPerScope
<1>9. ASSUME env = "orderly"  PROVE OneSlotPerScope'
  BY <1>9 DEF Orderly, OneSlotPerScope
<1>10. ASSUME env = "orderly"  PROVE SlotHasReason'
  BY <1>10 DEF Orderly, SlotHasReason, InHand, Wanted
<1>11. ASSUME env = "orderly"  PROVE AttachedIsKept'
  BY <1>11 DEF Orderly, AttachedIsKept
<1>12. ASSUME env = "orderly"  PROVE CallKnowsItsSlot'
  BY <1>12, NoJobFacts DEF Orderly, CallKnowsItsSlot, Wanted, Releasing
<1>13. ASSUME env = "orderly"  PROVE CallTookItsBlock'
  BY <1>13 DEF Orderly, CallTookItsBlock, Wanted, Releasing
<1>14. ASSUME env = "orderly"  PROVE LiveIsOwned'
  BY <1>14 DEF Orderly, LiveIsOwned, Holds, Holding
<1> QED
  BY <1>1, <1>2, <1>3, <1>4, <1>5, <1>6, <1>7, <1>8, <1>9, <1>10, <1>11, <1>12, <1>13, <1>14
  DEF Orderly

\* The release finds a slot of its scope (buffers.c:117).
LEMMA ReleaseMatchPreserves ==
  ASSUME NEW t \in Threads, LentInv, ReleaseMatch(t)
  PROVE  LentInv'
<1> USE DEF LentInv, Types, ReleaseMatch, At, tableVars, implVars, localVars
<1>1. Types'  BY NoJobFacts, Nothing DEF Labels, Releasing
<1>2. JobAt'  BY NoJobFacts, Zero DEF JobAt, Releasing
<1>3. OwnedIsLive'  BY DEF OwnedIsLive, OneOwner, Holds, Holding
<1>4. OneOwner'  BY DEF OwnedIsLive, OneOwner, Holds, Holding
<1>5. HoldersHold'  BY DEF HoldersHold, Holds, Holding
<1>6. SlotIsTaken'  BY DEF SlotIsTaken, JobAt
<1>7. SlotIsNotLost'  BY DEF SlotIsNotLost
<1>8. ASSUME env = "orderly"  PROVE OneCallPerScope'
  BY <1>8, NoJobFacts DEF Orderly, OneCallPerScope
<1>9. ASSUME env = "orderly"  PROVE OneSlotPerScope'
  BY <1>9 DEF Orderly, OneSlotPerScope
<1>10. ASSUME env = "orderly"  PROVE SlotHasReason'
  BY <1>10 DEF Orderly, SlotHasReason, InHand, Wanted
<1>11. ASSUME env = "orderly"  PROVE AttachedIsKept'
  BY <1>11 DEF Orderly, AttachedIsKept
<1>12. ASSUME env = "orderly"  PROVE CallKnowsItsSlot'
  BY <1>12, NoJobFacts DEF Orderly, CallKnowsItsSlot, Wanted, Releasing
<1>13. ASSUME env = "orderly"  PROVE CallTookItsBlock'
  BY <1>13 DEF Orderly, CallTookItsBlock, Wanted, Releasing
<1>14. ASSUME env = "orderly"  PROVE LiveIsOwned'
  BY <1>14 DEF Orderly, LiveIsOwned, Holds, Holding
<1> QED
  BY <1>1, <1>2, <1>3, <1>4, <1>5, <1>6, <1>7, <1>8, <1>9, <1>10, <1>11, <1>12, <1>13, <1>14
  DEF Orderly

\* The slot is of another scope.
LEMMA ReleaseOtherPreserves ==
  ASSUME NEW t \in Threads, LentInv, ReleaseOther(t)
  PROVE  LentInv'
<1> USE DEF LentInv, Types, ReleaseOther, ReleaseNext, Goto, At, tableVars, implVars, localVars
<1>0. /\ job[t].scope \in Scopes /\ idx[t] \in BufSlots /\ idx'[t] \in BufSlots
      /\ \/ pc'[t] = "release" /\ idx'[t] = idx[t] + 1
         \/ pc'[t] = "answer" /\ \A s \in BufSlots : s <= idx[t]
      /\ \A s \in BufSlots : s >= idx[t] /\ s # idx[t] => s >= idx[t] + 1
  BY BufferCall, Zero, CapacitiesAssumption DEF BufSlots, Releasing
<1>1. Types'  BY <1>0, NoJobFacts, Nothing DEF Labels, Releasing
<1>2. JobAt'  BY <1>0, NoJobFacts, Zero DEF JobAt, Releasing
<1>3. OwnedIsLive'  BY <1>0 DEF OwnedIsLive, OneOwner, Holds, Holding
<1>4. OneOwner'  BY <1>0 DEF OwnedIsLive, OneOwner, Holds, Holding
<1>5. HoldersHold'  BY <1>0 DEF HoldersHold, Holds, Holding
<1>6. SlotIsTaken'  BY <1>0 DEF SlotIsTaken, JobAt
<1>7. SlotIsNotLost'  BY <1>0 DEF SlotIsNotLost
<1>8. ASSUME env = "orderly"  PROVE OneCallPerScope'
  BY <1>8, <1>0, NoJobFacts DEF Orderly, OneCallPerScope
<1>9. ASSUME env = "orderly"  PROVE OneSlotPerScope'
  BY <1>9, <1>0 DEF Orderly, OneSlotPerScope
<1>10. ASSUME env = "orderly"  PROVE SlotHasReason'
  <2>1. \A u \in Threads \ {t}, s \in BufSlots : InHand(u, s) => InHand(u, s)'
    BY DEF InHand, Wanted
  <2>2. ASSUME NEW s \in BufSlots, InHand(t, s)  PROVE InHand(t, s)'
    <3>1. Wanted(t) \in Blocks  BY <2>2 DEF InHand
    <3>2. PICK r \in BufSlots : r >= idx[t] /\ scope[r] = job[t].scope
      BY <1>10, <3>1 DEF Orderly, CallKnowsItsSlot
    <3>3. pc'[t] = "release"  BY <1>0, <3>2 DEF BufSlots
    <3>   QED  BY <2>2, <3>3 DEF InHand, Wanted
  <2>   QED  BY <1>10, <2>1, <2>2 DEF Orderly, SlotHasReason
<1>11. ASSUME env = "orderly"  PROVE AttachedIsKept'
  BY <1>11, <1>0 DEF Orderly, AttachedIsKept
<1>12. ASSUME env = "orderly"  PROVE CallKnowsItsSlot'
  <2>1. ASSUME Wanted(t) \in Blocks
        PROVE  \E s \in BufSlots : /\ s >= idx[t] + 1 /\ s # idx[t]
                                    /\ scope[s] = job[t].scope /\ block[s] = Wanted(t)
    BY <1>12, <1>0, <2>1 DEF Orderly, CallKnowsItsSlot
  <2>2. Wanted(t)' = Wanted(t)  BY DEF Wanted
  <2>3. Wanted(t) # NoBlock /\ attached[job[t].scope] \notin Blocks
    BY <1>12 DEF Orderly, CallKnowsItsSlot, Releasing
  <2>4. \A u \in Threads \ {t} : pc'[u] = pc[u] /\ idx'[u] = idx[u] /\ Wanted(u)' = Wanted(u)
    BY DEF Wanted
  <2>   QED
    BY <1>12, <1>0, <2>1, <2>2, <2>3, <2>4 DEF Orderly, CallKnowsItsSlot, Releasing
<1>13. ASSUME env = "orderly"  PROVE CallTookItsBlock'
  <2>1. ASSUME Wanted(t) \in Blocks  PROVE pc'[t] = "release"
    <3>1. PICK s \in BufSlots : s >= idx[t] /\ scope[s] = job[t].scope
      BY <1>13, <2>1 DEF Orderly, CallKnowsItsSlot
    <3>   QED  BY <1>0, <3>1 DEF BufSlots
  <2>   QED  BY <1>13, <1>0, <2>1 DEF Orderly, CallTookItsBlock, Wanted, Releasing
<1>14. ASSUME env = "orderly"  PROVE LiveIsOwned'
  BY <1>14, <1>0 DEF Orderly, LiveIsOwned, Holds, Holding
<1> QED
  BY <1>1, <1>2, <1>3, <1>4, <1>5, <1>6, <1>7, <1>8, <1>9, <1>10, <1>11, <1>12, <1>13, <1>14
  DEF Orderly

\* The exchange takes the block (buffers.c:119).
LEMMA TakeBlockPreserves ==
  ASSUME NEW t \in Threads, LentInv, TakeBlock(t)
  PROVE  LentInv'
<1> USE DEF LentInv, Types, TakeBlock, At, implVars
<1>0. /\ job[t].scope \in Scopes /\ idx[t] \in BufSlots /\ block[idx[t]] \in Blocks
      /\ \A u \in Threads : Holds(u)' = IF u = t THEN block[idx[t]] ELSE Holds(u)
      /\ Holds(t) = NoBlock
  BY BufferCall DEF Holds, Holding, Releasing
<1>1. Types'  BY <1>0, NoJobFacts, Nothing DEF Labels, Releasing
<1>2. JobAt'  BY <1>0, NoJobFacts, Zero DEF JobAt, Releasing
<1>3. OwnedIsLive'
  BY <1>0, Nothing DEF OwnedIsLive, OneOwner
<1>4. OneOwner'
  BY <1>0, Nothing DEF OneOwner
<1>5. HoldersHold'  BY <1>0 DEF HoldersHold, Holds, Holding
<1>6. SlotIsTaken'  BY <1>0 DEF SlotIsTaken, JobAt
<1>7. SlotIsNotLost'  BY <1>0 DEF SlotIsNotLost
<1>8. ASSUME env = "orderly"  PROVE OneCallPerScope'
  BY <1>8, <1>0, NoJobFacts DEF Orderly, OneCallPerScope
<1>9. ASSUME env = "orderly"  PROVE OneSlotPerScope'
  BY <1>9, <1>0 DEF Orderly, OneSlotPerScope
<1>10. ASSUME env = "orderly"  PROVE SlotHasReason'
  <2>1. scope[idx[t]] = job[t].scope  BY <1>10 DEF Orderly, CallKnowsItsSlot
  <2>2. InHand(t, idx[t])'  BY <1>0 DEF InHand
  <2>3. \A u \in Threads \ {t}, s \in BufSlots \ {idx[t]} : InHand(u, s) => InHand(u, s)'
    BY DEF InHand, Wanted
  <2>4. \A s \in BufSlots \ {idx[t]} : scope[s] # job[t].scope
    BY <1>10, <1>0, <2>1, NoJobFacts DEF Orderly, OneSlotPerScope
  <2>   QED  BY <1>10, <1>0, <2>1, <2>2, <2>3, <2>4 DEF Orderly, SlotHasReason
<1>11. ASSUME env = "orderly"  PROVE AttachedIsKept'
  <2>1. scope[idx[t]] = job[t].scope /\ attached[job[t].scope] \notin Blocks
    BY <1>11 DEF Orderly, CallKnowsItsSlot, Releasing
  <2>   QED  BY <1>11, <1>0, <2>1 DEF Orderly, AttachedIsKept
<1>12. ASSUME env = "orderly"  PROVE CallKnowsItsSlot'
  <2>1. scope[idx[t]] = job[t].scope /\ attached[job[t].scope] \notin Blocks
    BY <1>12 DEF Orderly, CallKnowsItsSlot, Releasing
  <2>2. \A u \in Threads \ {t} : job[u].scope # scope[idx[t]]
    BY <1>12, <1>0, <2>1 DEF Orderly, OneCallPerScope
  <2>   QED
    BY <1>12, <1>0, <2>1, <2>2 DEF Orderly, CallKnowsItsSlot, Wanted, Releasing
<1>13. ASSUME env = "orderly"  PROVE CallTookItsBlock'
  <2>1. scope[idx[t]] = job[t].scope /\ attached[job[t].scope] \notin Blocks
    BY <1>13 DEF Orderly, CallKnowsItsSlot, Releasing
  <2>2. block[idx[t]] = Wanted(t)
    BY <1>13, <1>0, <2>1, SlotsOfCaller DEF InHand
  <2>   QED  BY <1>13, <1>0, <2>2 DEF Orderly, CallTookItsBlock, Wanted, Releasing
<1>14. ASSUME env = "orderly"  PROVE LiveIsOwned'
  BY <1>14, <1>0, Nothing DEF Orderly, LiveIsOwned
<1> QED
  BY <1>1, <1>2, <1>3, <1>4, <1>5, <1>6, <1>7, <1>8, <1>9, <1>10, <1>11, <1>12, <1>13, <1>14
  DEF Orderly

\* Somebody else has it.
LEMMA TakeNothingPreserves ==
  ASSUME NEW t \in Threads, LentInv, TakeNothing(t)
  PROVE  LentInv'
<1> USE DEF LentInv, Types, TakeNothing, ReleaseNext, Goto, At, tableVars, implVars, localVars
<1>0. env # "orderly" /\ idx[t] \in BufSlots /\ idx'[t] \in BufSlots
  <2>1. job[t].scope \in Scopes /\ idx[t] \in BufSlots /\ idx'[t] \in BufSlots
    BY BufferCall, Zero, CapacitiesAssumption DEF BufSlots, Releasing
  <2>2. ASSUME env = "orderly"  PROVE FALSE
    BY <2>1, <2>2, SlotsOfCaller, Nothing DEF Orderly, CallKnowsItsSlot, InHand
  <2>   QED  BY <2>1, <2>2
<1>1. Types'  BY <1>0, NoJobFacts, Nothing DEF Labels, Releasing
<1>2. JobAt'  BY <1>0, NoJobFacts, Zero DEF JobAt, Releasing
<1>3. OwnedIsLive'  BY <1>0 DEF OwnedIsLive, OneOwner, Holds, Holding
<1>4. OneOwner'  BY <1>0 DEF OwnedIsLive, OneOwner, Holds, Holding
<1>5. HoldersHold'  BY <1>0 DEF HoldersHold, Holds, Holding
<1>6. SlotIsTaken'  BY <1>0 DEF SlotIsTaken, JobAt
<1>7. SlotIsNotLost'  BY <1>0 DEF SlotIsNotLost
<1>8. ASSUME env = "orderly"  PROVE OneCallPerScope'
  BY <1>8, <1>0
<1>9. ASSUME env = "orderly"  PROVE OneSlotPerScope'
  BY <1>9, <1>0
<1>10. ASSUME env = "orderly"  PROVE SlotHasReason'
  BY <1>10, <1>0
<1>11. ASSUME env = "orderly"  PROVE AttachedIsKept'
  BY <1>11, <1>0
<1>12. ASSUME env = "orderly"  PROVE CallKnowsItsSlot'
  BY <1>12, <1>0
<1>13. ASSUME env = "orderly"  PROVE CallTookItsBlock'
  BY <1>13, <1>0
<1>14. ASSUME env = "orderly"  PROVE LiveIsOwned'
  BY <1>14, <1>0
<1> QED
  BY <1>1, <1>2, <1>3, <1>4, <1>5, <1>6, <1>7, <1>8, <1>9, <1>10, <1>11, <1>12, <1>13, <1>14
  DEF Orderly

\* The slot is given back and the block freed (buffers.c:121-122).
LEMMA UnscopePreserves ==
  ASSUME NEW t \in Threads, LentInv, Unscope(t)
  PROVE  LentInv'
<1> USE DEF LentInv, Types, Unscope, Goto, At, implVars, localVars
<1>0. /\ job[t].scope \in Scopes /\ idx[t] \in BufSlots
      /\ took[t] \in Blocks /\ Holds(t) = took[t] /\ heap[took[t]] = "live"
      /\ took[t] \notin greqs
      /\ \A s \in BufSlots : block[s] # took[t]
      /\ \A u \in Threads \ {t} : Holds(u) # took[t]
      /\ \A u \in Threads : Holds(u)' = IF u = t THEN NoBlock ELSE Holds(u)
  BY HolderOwns, BufferCall DEF Holds, Holding, Releasing
<1>1. Types'  BY <1>0, NoJobFacts, Nothing DEF Labels, Releasing
<1>2. JobAt'  BY <1>0, NoJobFacts, Zero DEF JobAt, Releasing
<1>3. OwnedIsLive'
  BY <1>0, Nothing DEF OwnedIsLive, OneOwner
<1>4. OneOwner'
  BY <1>0, Nothing DEF OneOwner
<1>5. HoldersHold'  BY <1>0 DEF HoldersHold, Holds, Holding
<1>6. SlotIsTaken'  BY <1>0 DEF SlotIsTaken, JobAt
<1>7. SlotIsNotLost'  BY <1>0 DEF SlotIsNotLost
<1>8. ASSUME env = "orderly"  PROVE OneCallPerScope'
  BY <1>8, <1>0, NoJobFacts DEF Orderly, OneCallPerScope
<1>9. ASSUME env = "orderly"  PROVE OneSlotPerScope'
  BY <1>9, <1>0, NoJobFacts DEF Orderly, OneSlotPerScope, CallKnowsItsSlot
<1>10. ASSUME env = "orderly"  PROVE SlotHasReason'
  BY <1>10, <1>0 DEF Orderly, SlotHasReason, InHand, Wanted
<1>11. ASSUME env = "orderly"  PROVE AttachedIsKept'
  <2>1. block[idx[t]] = NoBlock  BY <1>11 DEF Orderly, CallKnowsItsSlot
  <2>   QED  BY <1>11, <1>0, <2>1, Nothing DEF Orderly, AttachedIsKept
<1>12. ASSUME env = "orderly"  PROVE CallKnowsItsSlot'
  <2>1. scope[idx[t]] = job[t].scope /\ attached[job[t].scope] \notin Blocks
    BY <1>12 DEF Orderly, CallKnowsItsSlot, Releasing
  <2>2. \A u \in Threads \ {t} : job[u].scope # scope[idx[t]]
    BY <1>12, <1>0, <2>1 DEF Orderly, OneCallPerScope
  <2>   QED
    BY <1>12, <1>0, <2>1, <2>2 DEF Orderly, CallKnowsItsSlot, Wanted, Releasing
<1>13. ASSUME env = "orderly"  PROVE CallTookItsBlock'
  BY <1>13, <1>0 DEF Orderly, CallTookItsBlock, Wanted, Releasing
<1>14. ASSUME env = "orderly"  PROVE LiveIsOwned'
  BY <1>14, <1>0, Nothing DEF Orderly, LiveIsOwned
<1> QED
  BY <1>1, <1>2, <1>3, <1>4, <1>5, <1>6, <1>7, <1>8, <1>9, <1>10, <1>11, <1>12, <1>13, <1>14
  DEF Orderly

\* The call that released returns.
LEMMA AnswerPreserves ==
  ASSUME NEW t \in Threads, LentInv, Answer(t)
  PROVE  LentInv'
<1> USE DEF LentInv, Types, Answer, Return, Goto, At, tableVars, implVars
<1>1. Types'  BY NoJobFacts, Nothing DEF Labels, Releasing
<1>2. JobAt'  BY NoJobFacts, Zero DEF JobAt, Releasing
<1>3. OwnedIsLive'  BY DEF OwnedIsLive, OneOwner, Holds, Holding
<1>4. OneOwner'  BY DEF OwnedIsLive, OneOwner, Holds, Holding
<1>5. HoldersHold'  BY DEF HoldersHold, Holds, Holding
<1>6. SlotIsTaken'  BY DEF SlotIsTaken, JobAt
<1>7. SlotIsNotLost'  BY DEF SlotIsNotLost
<1>8. ASSUME env = "orderly"  PROVE OneCallPerScope'
  BY <1>8, NoJobFacts DEF Orderly, OneCallPerScope
<1>9. ASSUME env = "orderly"  PROVE OneSlotPerScope'
  BY <1>9 DEF Orderly, OneSlotPerScope
<1>10. ASSUME env = "orderly"  PROVE SlotHasReason'
  BY <1>10 DEF Orderly, SlotHasReason, InHand, Wanted
<1>11. ASSUME env = "orderly"  PROVE AttachedIsKept'
  BY <1>11 DEF Orderly, AttachedIsKept
<1>12. ASSUME env = "orderly"  PROVE CallKnowsItsSlot'
  BY <1>12, NoJobFacts DEF Orderly, CallKnowsItsSlot, Wanted, Releasing
<1>13. ASSUME env = "orderly"  PROVE CallTookItsBlock'
  BY <1>13 DEF Orderly, CallTookItsBlock, Wanted, Releasing
<1>14. ASSUME env = "orderly"  PROVE LiveIsOwned'
  BY <1>14 DEF Orderly, LiveIsOwned, Holds, Holding
<1> QED
  BY <1>1, <1>2, <1>3, <1>4, <1>5, <1>6, <1>7, <1>8, <1>9, <1>10, <1>11, <1>12, <1>13, <1>14
  DEF Orderly

\* An operation is to be created.
LEMMA CreatePreserves ==
  ASSUME NEW t \in Threads, LentInv, Create(t)
  PROVE  LentInv'
<1> USE DEF LentInv, Types, Create, Begin, Goto, At, tableVars, implVars
<1>0. PICK f \in Fns, j \in Jobs :
        /\ j.op = "create" /\ j.scope = NoScope /\ j.fn = f
        /\ job' = [job EXCEPT ![t] = j]
        /\ calls' \in 0 .. MaxCalls
  <2>1. PICK f \in Fns :
          Begin(t, [NoJob EXCEPT !.op = "create", !.fn = f], "slotclaim")
    BY DEF Create
  <2>2. [NoJob EXCEPT !.op = "create", !.fn = f] \in Jobs  BY DEF NoJob, Jobs
  <2>3. calls' \in 0 .. MaxCalls  BY <2>1, BoundsAssumption
  <2>   QED  BY <2>1, <2>2, <2>3 DEF NoJob
<1>1. Types'  BY <1>0, NoJobFacts, Nothing DEF Labels, Releasing
<1>2. JobAt'  BY <1>0, NoJobFacts, Zero DEF JobAt, Releasing
<1>3. OwnedIsLive'  BY <1>0 DEF OwnedIsLive, OneOwner, Holds, Holding
<1>4. OneOwner'  BY <1>0 DEF OwnedIsLive, OneOwner, Holds, Holding
<1>5. HoldersHold'  BY <1>0 DEF HoldersHold, Holds, Holding
<1>6. SlotIsTaken'  BY <1>0 DEF SlotIsTaken, JobAt
<1>7. SlotIsNotLost'  BY <1>0 DEF SlotIsNotLost
<1>8. ASSUME env = "orderly"  PROVE OneCallPerScope'
  BY <1>8, <1>0, NoJobFacts DEF Orderly, OneCallPerScope
<1>9. ASSUME env = "orderly"  PROVE OneSlotPerScope'
  BY <1>9, <1>0 DEF Orderly, OneSlotPerScope
<1>10. ASSUME env = "orderly"  PROVE SlotHasReason'
  BY <1>10, <1>0 DEF Orderly, SlotHasReason, InHand, Wanted
<1>11. ASSUME env = "orderly"  PROVE AttachedIsKept'
  BY <1>11, <1>0 DEF Orderly, AttachedIsKept
<1>12. ASSUME env = "orderly"  PROVE CallKnowsItsSlot'
  BY <1>12, <1>0, NoJobFacts DEF Orderly, CallKnowsItsSlot, Wanted, Releasing
<1>13. ASSUME env = "orderly"  PROVE CallTookItsBlock'
  BY <1>13, <1>0 DEF Orderly, CallTookItsBlock, Wanted, Releasing
<1>14. ASSUME env = "orderly"  PROVE LiveIsOwned'
  BY <1>14, <1>0 DEF Orderly, LiveIsOwned, Holds, Holding
<1> QED
  BY <1>1, <1>2, <1>3, <1>4, <1>5, <1>6, <1>7, <1>8, <1>9, <1>10, <1>11, <1>12, <1>13, <1>14
  DEF Orderly

\* The compare-and-swap claims a slot of the pool (callbacks.c:108).
LEMMA SlotClaimPreserves ==
  ASSUME NEW t \in Threads, LentInv, SlotClaim(t)
  PROVE  LentInv'
<1> USE DEF LentInv, Types, SlotClaim, At, tableVars, implVars, localVars
<1>0. job[t].fn \in Fns /\ job[t].fn # NoFn /\ idx[t] \in PoolSlots  BY SlotCall
<1>1. Types'  BY <1>0, NoJobFacts, Nothing DEF Labels, Releasing
<1>2. JobAt'  BY <1>0, NoJobFacts, Zero DEF JobAt, Releasing
<1>3. OwnedIsLive'  BY <1>0 DEF OwnedIsLive, OneOwner, Holds, Holding
<1>4. OneOwner'  BY <1>0 DEF OwnedIsLive, OneOwner, Holds, Holding
<1>5. HoldersHold'  BY <1>0 DEF HoldersHold, Holds, Holding
<1>6. SlotIsTaken'
  <2>1. \A o \in ops : o.slot # idx[t] /\ o.slot \in PoolSlots
    BY NoJobFacts DEF SlotIsTaken
  <2>2. \A u \in Threads \ {t} : pc[u] = "create" => idx[u] # idx[t]
    BY NoJobFacts DEF SlotIsTaken, JobAt
  <2>   QED  BY <1>0, <2>1, <2>2 DEF SlotIsTaken, JobAt
<1>7. SlotIsNotLost'  BY <1>0 DEF SlotIsNotLost
<1>8. ASSUME env = "orderly"  PROVE OneCallPerScope'
  BY <1>8, <1>0, NoJobFacts DEF Orderly, OneCallPerScope
<1>9. ASSUME env = "orderly"  PROVE OneSlotPerScope'
  BY <1>9, <1>0 DEF Orderly, OneSlotPerScope
<1>10. ASSUME env = "orderly"  PROVE SlotHasReason'
  BY <1>10, <1>0 DEF Orderly, SlotHasReason, InHand, Wanted
<1>11. ASSUME env = "orderly"  PROVE AttachedIsKept'
  BY <1>11, <1>0 DEF Orderly, AttachedIsKept
<1>12. ASSUME env = "orderly"  PROVE CallKnowsItsSlot'
  BY <1>12, <1>0, NoJobFacts DEF Orderly, CallKnowsItsSlot, Wanted, Releasing
<1>13. ASSUME env = "orderly"  PROVE CallTookItsBlock'
  BY <1>13, <1>0 DEF Orderly, CallTookItsBlock, Wanted, Releasing
<1>14. ASSUME env = "orderly"  PROVE LiveIsOwned'
  BY <1>14, <1>0 DEF Orderly, LiveIsOwned, Holds, Holding
<1> QED
  BY <1>1, <1>2, <1>3, <1>4, <1>5, <1>6, <1>7, <1>8, <1>9, <1>10, <1>11, <1>12, <1>13, <1>14
  DEF Orderly

\* The slot is taken; try the next one.
LEMMA SlotClaimNextPreserves ==
  ASSUME NEW t \in Threads, LentInv, SlotClaimNext(t)
  PROVE  LentInv'
<1> USE DEF LentInv, Types, SlotClaimNext, At, tableVars, implVars, localVars
<1>0. idx[t] \in PoolSlots /\ idx[t] + 1 \in PoolSlots  BY SlotCall, CapacitiesAssumption DEF PoolSlots
<1>1. Types'  BY <1>0, NoJobFacts, Nothing DEF Labels, Releasing
<1>2. JobAt'  BY <1>0, NoJobFacts, Zero DEF JobAt, Releasing
<1>3. OwnedIsLive'  BY <1>0 DEF OwnedIsLive, OneOwner, Holds, Holding
<1>4. OneOwner'  BY <1>0 DEF OwnedIsLive, OneOwner, Holds, Holding
<1>5. HoldersHold'  BY <1>0 DEF HoldersHold, Holds, Holding
<1>6. SlotIsTaken'  BY <1>0 DEF SlotIsTaken, JobAt
<1>7. SlotIsNotLost'  BY <1>0 DEF SlotIsNotLost
<1>8. ASSUME env = "orderly"  PROVE OneCallPerScope'
  BY <1>8, <1>0, NoJobFacts DEF Orderly, OneCallPerScope
<1>9. ASSUME env = "orderly"  PROVE OneSlotPerScope'
  BY <1>9, <1>0 DEF Orderly, OneSlotPerScope
<1>10. ASSUME env = "orderly"  PROVE SlotHasReason'
  BY <1>10, <1>0 DEF Orderly, SlotHasReason, InHand, Wanted
<1>11. ASSUME env = "orderly"  PROVE AttachedIsKept'
  BY <1>11, <1>0 DEF Orderly, AttachedIsKept
<1>12. ASSUME env = "orderly"  PROVE CallKnowsItsSlot'
  BY <1>12, <1>0, NoJobFacts DEF Orderly, CallKnowsItsSlot, Wanted, Releasing
<1>13. ASSUME env = "orderly"  PROVE CallTookItsBlock'
  BY <1>13, <1>0 DEF Orderly, CallTookItsBlock, Wanted, Releasing
<1>14. ASSUME env = "orderly"  PROVE LiveIsOwned'
  BY <1>14, <1>0 DEF Orderly, LiveIsOwned, Holds, Holding
<1> QED
  BY <1>1, <1>2, <1>3, <1>4, <1>5, <1>6, <1>7, <1>8, <1>9, <1>10, <1>11, <1>12, <1>13, <1>14
  DEF Orderly

\* The pool is exhausted.
LEMMA SlotClaimFailsPreserves ==
  ASSUME NEW t \in Threads, LentInv, SlotClaimFails(t)
  PROVE  LentInv'
<1> USE DEF LentInv, Types, SlotClaimFails, Return, Goto, At, tableVars, implVars
<1>1. Types'  BY NoJobFacts, Nothing DEF Labels, Releasing
<1>2. JobAt'  BY NoJobFacts, Zero DEF JobAt, Releasing
<1>3. OwnedIsLive'  BY DEF OwnedIsLive, OneOwner, Holds, Holding
<1>4. OneOwner'  BY DEF OwnedIsLive, OneOwner, Holds, Holding
<1>5. HoldersHold'  BY DEF HoldersHold, Holds, Holding
<1>6. SlotIsTaken'  BY DEF SlotIsTaken, JobAt
<1>7. SlotIsNotLost'  BY DEF SlotIsNotLost
<1>8. ASSUME env = "orderly"  PROVE OneCallPerScope'
  BY <1>8, NoJobFacts DEF Orderly, OneCallPerScope
<1>9. ASSUME env = "orderly"  PROVE OneSlotPerScope'
  BY <1>9 DEF Orderly, OneSlotPerScope
<1>10. ASSUME env = "orderly"  PROVE SlotHasReason'
  BY <1>10 DEF Orderly, SlotHasReason, InHand, Wanted
<1>11. ASSUME env = "orderly"  PROVE AttachedIsKept'
  BY <1>11 DEF Orderly, AttachedIsKept
<1>12. ASSUME env = "orderly"  PROVE CallKnowsItsSlot'
  BY <1>12, NoJobFacts DEF Orderly, CallKnowsItsSlot, Wanted, Releasing
<1>13. ASSUME env = "orderly"  PROVE CallTookItsBlock'
  BY <1>13 DEF Orderly, CallTookItsBlock, Wanted, Releasing
<1>14. ASSUME env = "orderly"  PROVE LiveIsOwned'
  BY <1>14 DEF Orderly, LiveIsOwned, Holds, Holding
<1> QED
  BY <1>1, <1>2, <1>3, <1>4, <1>5, <1>6, <1>7, <1>8, <1>9, <1>10, <1>11, <1>12, <1>13, <1>14
  DEF Orderly

\* The operation exists.
LEMMA CreateSucceedsPreserves ==
  ASSUME NEW t \in Threads, LentInv, CreateSucceeds(t)
  PROVE  LentInv'
<1> USE DEF LentInv, Types, CreateSucceeds, Return, Goto, At, tableVars
<1>0. job[t].fn \in Fns /\ job[t].fn # NoFn /\ idx[t] \in PoolSlots  BY SlotCall
<1>1. Types'
  <2>1. [slot |-> idx[t], fn |-> job[t].fn, freed |-> FALSE, used |-> FALSE]
          \in [slot : PoolSlots, fn : Fns, freed : BOOLEAN, used : BOOLEAN]
    BY <1>0
  <2>2. ops' \subseteq [slot : PoolSlots, fn : Fns, freed : BOOLEAN, used : BOOLEAN]
    BY <2>1
  <2>   QED  BY <2>2, NoJobFacts, Nothing DEF Labels, Releasing
<1>2. JobAt'  BY <1>0, NoJobFacts, Zero DEF JobAt, Releasing
<1>3. OwnedIsLive'  BY <1>0 DEF OwnedIsLive, OneOwner, Holds, Holding
<1>4. OneOwner'  BY <1>0 DEF OwnedIsLive, OneOwner, Holds, Holding
<1>5. HoldersHold'  BY <1>0 DEF HoldersHold, Holds, Holding
<1>6. SlotIsTaken'  BY <1>0 DEF SlotIsTaken, JobAt
<1>7. SlotIsNotLost'
  <2>1. [slot |-> idx[t], fn |-> job[t].fn, freed |-> FALSE, used |-> FALSE] \in ops'
    OBVIOUS
  <2>2. \E o \in ops' : o.slot = idx[t]  BY <2>1
  <2>3. ops \subseteq ops' /\ poolFn' = poolFn  OBVIOUS
  <2>4. \A u \in Threads \ {t} : pc'[u] = pc[u] /\ idx'[u] = idx[u]  OBVIOUS
  <2>   QED  BY <2>2, <2>3, <2>4 DEF SlotIsNotLost
<1>8. ASSUME env = "orderly"  PROVE OneCallPerScope'
  BY <1>8, <1>0, NoJobFacts DEF Orderly, OneCallPerScope
<1>9. ASSUME env = "orderly"  PROVE OneSlotPerScope'
  BY <1>9, <1>0 DEF Orderly, OneSlotPerScope
<1>10. ASSUME env = "orderly"  PROVE SlotHasReason'
  BY <1>10, <1>0 DEF Orderly, SlotHasReason, InHand, Wanted
<1>11. ASSUME env = "orderly"  PROVE AttachedIsKept'
  BY <1>11, <1>0 DEF Orderly, AttachedIsKept
<1>12. ASSUME env = "orderly"  PROVE CallKnowsItsSlot'
  BY <1>12, <1>0, NoJobFacts DEF Orderly, CallKnowsItsSlot, Wanted, Releasing
<1>13. ASSUME env = "orderly"  PROVE CallTookItsBlock'
  BY <1>13, <1>0 DEF Orderly, CallTookItsBlock, Wanted, Releasing
<1>14. ASSUME env = "orderly"  PROVE LiveIsOwned'
  BY <1>14, <1>0 DEF Orderly, LiveIsOwned, Holds, Holding
<1> QED
  BY <1>1, <1>2, <1>3, <1>4, <1>5, <1>6, <1>7, <1>8, <1>9, <1>10, <1>11, <1>12, <1>13, <1>14
  DEF Orderly

\* It does not, and the slot is given back (callbacks.c:121).
LEMMA CreateFailsPreserves ==
  ASSUME NEW t \in Threads, LentInv, CreateFails(t)
  PROVE  LentInv'
<1> USE DEF LentInv, Types, CreateFails, Return, Goto, At, tableVars, implVars
<1>0. job[t].fn \in Fns /\ job[t].fn # NoFn /\ idx[t] \in PoolSlots  BY SlotCall
<1>1. Types'  BY <1>0, NoJobFacts, Nothing DEF Labels, Releasing
<1>2. JobAt'  BY <1>0, NoJobFacts, Zero DEF JobAt, Releasing
<1>3. OwnedIsLive'  BY <1>0 DEF OwnedIsLive, OneOwner, Holds, Holding
<1>4. OneOwner'  BY <1>0 DEF OwnedIsLive, OneOwner, Holds, Holding
<1>5. HoldersHold'  BY <1>0 DEF HoldersHold, Holds, Holding
<1>6. SlotIsTaken'  BY <1>0 DEF SlotIsTaken, JobAt
<1>7. SlotIsNotLost'  BY <1>0 DEF SlotIsNotLost
<1>8. ASSUME env = "orderly"  PROVE OneCallPerScope'
  BY <1>8, <1>0, NoJobFacts DEF Orderly, OneCallPerScope
<1>9. ASSUME env = "orderly"  PROVE OneSlotPerScope'
  BY <1>9, <1>0 DEF Orderly, OneSlotPerScope
<1>10. ASSUME env = "orderly"  PROVE SlotHasReason'
  BY <1>10, <1>0 DEF Orderly, SlotHasReason, InHand, Wanted
<1>11. ASSUME env = "orderly"  PROVE AttachedIsKept'
  BY <1>11, <1>0 DEF Orderly, AttachedIsKept
<1>12. ASSUME env = "orderly"  PROVE CallKnowsItsSlot'
  BY <1>12, <1>0, NoJobFacts DEF Orderly, CallKnowsItsSlot, Wanted, Releasing
<1>13. ASSUME env = "orderly"  PROVE CallTookItsBlock'
  BY <1>13, <1>0 DEF Orderly, CallTookItsBlock, Wanted, Releasing
<1>14. ASSUME env = "orderly"  PROVE LiveIsOwned'
  BY <1>14, <1>0 DEF Orderly, LiveIsOwned, Holds, Holding
<1> QED
  BY <1>1, <1>2, <1>3, <1>4, <1>5, <1>6, <1>7, <1>8, <1>9, <1>10, <1>11, <1>12, <1>13, <1>14
  DEF Orderly

\* A generalized request is to be started.
LEMMA GrequestPreserves ==
  ASSUME NEW t \in Threads, LentInv, Grequest(t)
  PROVE  LentInv'
<1> USE DEF LentInv, Types, Grequest, Begin, Goto, At, tableVars, implVars
<1>0. PICK j \in Jobs :
        /\ j.op = "grequest" /\ j.scope = NoScope
        /\ job' = [job EXCEPT ![t] = j]
        /\ calls' \in 0 .. MaxCalls
  <2>1. [NoJob EXCEPT !.op = "grequest"] \in Jobs  BY DEF NoJob, Jobs
  <2>2. calls' \in 0 .. MaxCalls  BY BoundsAssumption
  <2>   QED  BY <2>1, <2>2 DEF NoJob
<1>1. Types'  BY <1>0, NoJobFacts, Nothing DEF Labels, Releasing
<1>2. JobAt'  BY <1>0, NoJobFacts, Zero DEF JobAt, Releasing
<1>3. OwnedIsLive'  BY <1>0 DEF OwnedIsLive, OneOwner, Holds, Holding
<1>4. OneOwner'  BY <1>0 DEF OwnedIsLive, OneOwner, Holds, Holding
<1>5. HoldersHold'  BY <1>0 DEF HoldersHold, Holds, Holding
<1>6. SlotIsTaken'  BY <1>0 DEF SlotIsTaken, JobAt
<1>7. SlotIsNotLost'  BY <1>0 DEF SlotIsNotLost
<1>8. ASSUME env = "orderly"  PROVE OneCallPerScope'
  BY <1>8, <1>0, NoJobFacts DEF Orderly, OneCallPerScope
<1>9. ASSUME env = "orderly"  PROVE OneSlotPerScope'
  BY <1>9, <1>0 DEF Orderly, OneSlotPerScope
<1>10. ASSUME env = "orderly"  PROVE SlotHasReason'
  BY <1>10, <1>0 DEF Orderly, SlotHasReason, InHand, Wanted
<1>11. ASSUME env = "orderly"  PROVE AttachedIsKept'
  BY <1>11, <1>0 DEF Orderly, AttachedIsKept
<1>12. ASSUME env = "orderly"  PROVE CallKnowsItsSlot'
  BY <1>12, <1>0, NoJobFacts DEF Orderly, CallKnowsItsSlot, Wanted, Releasing
<1>13. ASSUME env = "orderly"  PROVE CallTookItsBlock'
  BY <1>13, <1>0 DEF Orderly, CallTookItsBlock, Wanted, Releasing
<1>14. ASSUME env = "orderly"  PROVE LiveIsOwned'
  BY <1>14, <1>0 DEF Orderly, LiveIsOwned, Holds, Holding
<1> QED
  BY <1>1, <1>2, <1>3, <1>4, <1>5, <1>6, <1>7, <1>8, <1>9, <1>10, <1>11, <1>12, <1>13, <1>14
  DEF Orderly

\* Its pair is allocated (extrastate.c:286).
LEMMA PairAllocPreserves ==
  ASSUME NEW t \in Threads, LentInv, PairAlloc(t)
  PROVE  LentInv'
<1> USE DEF LentInv, Types, PairAlloc, Alloc, Goto, At, tableVars, implVars
<1>0. PICK b \in Blocks :
        /\ heap[b] = "unused" /\ b # NoBlock
        /\ heap' = [heap EXCEPT ![b] = "live"]
        /\ mine' = [mine EXCEPT ![t] = b]
        /\ \A u \in Threads : Holds(u)' = IF u = t THEN b ELSE Holds(u)
        /\ Holds(t) = NoBlock
  BY Nothing DEF Holds, Holding
<1>1. Types'  BY <1>0, NoJobFacts, Nothing DEF Labels, Releasing
<1>2. JobAt'  BY <1>0, NoJobFacts, Zero DEF JobAt, Releasing
<1>3. OwnedIsLive'  BY <1>0 DEF OwnedIsLive, OneOwner, Holds, Holding
<1>4. OneOwner'  BY <1>0 DEF OwnedIsLive, OneOwner, Holds, Holding
<1>5. HoldersHold'  BY <1>0 DEF HoldersHold, Holds, Holding
<1>6. SlotIsTaken'  BY <1>0 DEF SlotIsTaken, JobAt
<1>7. SlotIsNotLost'  BY <1>0 DEF SlotIsNotLost
<1>8. ASSUME env = "orderly"  PROVE OneCallPerScope'
  BY <1>8, <1>0, NoJobFacts DEF Orderly, OneCallPerScope
<1>9. ASSUME env = "orderly"  PROVE OneSlotPerScope'
  BY <1>9, <1>0 DEF Orderly, OneSlotPerScope
<1>10. ASSUME env = "orderly"  PROVE SlotHasReason'
  BY <1>10, <1>0 DEF Orderly, SlotHasReason, InHand, Wanted
<1>11. ASSUME env = "orderly"  PROVE AttachedIsKept'
  BY <1>11, <1>0 DEF Orderly, AttachedIsKept
<1>12. ASSUME env = "orderly"  PROVE CallKnowsItsSlot'
  BY <1>12, <1>0, NoJobFacts DEF Orderly, CallKnowsItsSlot, Wanted, Releasing
<1>13. ASSUME env = "orderly"  PROVE CallTookItsBlock'
  BY <1>13, <1>0 DEF Orderly, CallTookItsBlock, Wanted, Releasing
<1>14. ASSUME env = "orderly"  PROVE LiveIsOwned'
  BY <1>14, <1>0, Nothing DEF Orderly, LiveIsOwned
<1> QED
  BY <1>1, <1>2, <1>3, <1>4, <1>5, <1>6, <1>7, <1>8, <1>9, <1>10, <1>11, <1>12, <1>13, <1>14
  DEF Orderly

\* The implementation has the pair.
LEMMA StartSucceedsPreserves ==
  ASSUME NEW t \in Threads, LentInv, StartSucceeds(t)
  PROVE  LentInv'
<1> USE DEF LentInv, Types, StartSucceeds, Return, Goto, At, tableVars
<1>0. /\ mine[t] \in Blocks /\ Holds(t) = mine[t] /\ heap[mine[t]] = "live"
      /\ mine[t] \notin greqs
      /\ \A s \in BufSlots : block[s] # mine[t]
      /\ \A u \in Threads \ {t} : Holds(u) # mine[t]
      /\ \A u \in Threads : Holds(u)' = IF u = t THEN NoBlock ELSE Holds(u)
  BY HolderOwns DEF Holds, Holding
<1>1. Types'  BY <1>0, NoJobFacts, Nothing DEF Labels, Releasing
<1>2. JobAt'  BY <1>0, NoJobFacts, Zero DEF JobAt, Releasing
<1>3. OwnedIsLive'
  BY <1>0, Nothing DEF OwnedIsLive, OneOwner
<1>4. OneOwner'
  BY <1>0, Nothing DEF OneOwner
<1>5. HoldersHold'  BY <1>0 DEF HoldersHold, Holds, Holding
<1>6. SlotIsTaken'  BY <1>0 DEF SlotIsTaken, JobAt
<1>7. SlotIsNotLost'  BY <1>0 DEF SlotIsNotLost
<1>8. ASSUME env = "orderly"  PROVE OneCallPerScope'
  BY <1>8, <1>0, NoJobFacts DEF Orderly, OneCallPerScope
<1>9. ASSUME env = "orderly"  PROVE OneSlotPerScope'
  BY <1>9, <1>0 DEF Orderly, OneSlotPerScope
<1>10. ASSUME env = "orderly"  PROVE SlotHasReason'
  BY <1>10, <1>0 DEF Orderly, SlotHasReason, InHand, Wanted
<1>11. ASSUME env = "orderly"  PROVE AttachedIsKept'
  BY <1>11, <1>0 DEF Orderly, AttachedIsKept
<1>12. ASSUME env = "orderly"  PROVE CallKnowsItsSlot'
  BY <1>12, <1>0, NoJobFacts DEF Orderly, CallKnowsItsSlot, Wanted, Releasing
<1>13. ASSUME env = "orderly"  PROVE CallTookItsBlock'
  BY <1>13, <1>0 DEF Orderly, CallTookItsBlock, Wanted, Releasing
<1>14. ASSUME env = "orderly"  PROVE LiveIsOwned'
  BY <1>14, <1>0, Nothing DEF Orderly, LiveIsOwned
<1> QED
  BY <1>1, <1>2, <1>3, <1>4, <1>5, <1>6, <1>7, <1>8, <1>9, <1>10, <1>11, <1>12, <1>13, <1>14
  DEF Orderly

\* No function of the pair will be called, and it is freed.
LEMMA StartFailsPreserves ==
  ASSUME NEW t \in Threads, LentInv, StartFails(t)
  PROVE  LentInv'
<1> USE DEF LentInv, Types, StartFails, Return, Goto, At, tableVars, implVars
<1>0. /\ mine[t] \in Blocks /\ Holds(t) = mine[t] /\ heap[mine[t]] = "live"
      /\ mine[t] \notin greqs
      /\ \A s \in BufSlots : block[s] # mine[t]
      /\ \A u \in Threads \ {t} : Holds(u) # mine[t]
      /\ \A u \in Threads : Holds(u)' = IF u = t THEN NoBlock ELSE Holds(u)
  BY HolderOwns DEF Holds, Holding
<1>1. Types'  BY <1>0, NoJobFacts, Nothing DEF Labels, Releasing
<1>2. JobAt'  BY <1>0, NoJobFacts, Zero DEF JobAt, Releasing
<1>3. OwnedIsLive'
  BY <1>0, Nothing DEF OwnedIsLive, OneOwner
<1>4. OneOwner'
  BY <1>0, Nothing DEF OneOwner
<1>5. HoldersHold'  BY <1>0 DEF HoldersHold, Holds, Holding
<1>6. SlotIsTaken'  BY <1>0 DEF SlotIsTaken, JobAt
<1>7. SlotIsNotLost'  BY <1>0 DEF SlotIsNotLost
<1>8. ASSUME env = "orderly"  PROVE OneCallPerScope'
  BY <1>8, <1>0, NoJobFacts DEF Orderly, OneCallPerScope
<1>9. ASSUME env = "orderly"  PROVE OneSlotPerScope'
  BY <1>9, <1>0 DEF Orderly, OneSlotPerScope
<1>10. ASSUME env = "orderly"  PROVE SlotHasReason'
  BY <1>10, <1>0 DEF Orderly, SlotHasReason, InHand, Wanted
<1>11. ASSUME env = "orderly"  PROVE AttachedIsKept'
  BY <1>11, <1>0 DEF Orderly, AttachedIsKept
<1>12. ASSUME env = "orderly"  PROVE CallKnowsItsSlot'
  BY <1>12, <1>0, NoJobFacts DEF Orderly, CallKnowsItsSlot, Wanted, Releasing
<1>13. ASSUME env = "orderly"  PROVE CallTookItsBlock'
  BY <1>13, <1>0 DEF Orderly, CallTookItsBlock, Wanted, Releasing
<1>14. ASSUME env = "orderly"  PROVE LiveIsOwned'
  BY <1>14, <1>0, Nothing DEF Orderly, LiveIsOwned
<1> QED
  BY <1>1, <1>2, <1>3, <1>4, <1>5, <1>6, <1>7, <1>8, <1>9, <1>10, <1>11, <1>12, <1>13, <1>14
  DEF Orderly

\* A reduction is posted.
LEMMA UsePreserves ==
  ASSUME LentInv, Use
  PROVE  LentInv'
<1> USE DEF LentInv, Types, Use, Replace, tableVars, localVars
<1>0. PICK o \in ops, w \in [slot : PoolSlots, fn : Fns, freed : BOOLEAN, used : BOOLEAN] :
        ops' = (ops \ {o}) \cup {w} /\ w.slot = o.slot /\ w.fn = o.fn
  <2>1. PICK o \in ops : Replace(o, [o EXCEPT !.used = TRUE])  OBVIOUS
  <2>2. o \in [slot : PoolSlots, fn : Fns, freed : BOOLEAN, used : BOOLEAN]
    OBVIOUS
  <2>3. PICK w : w = [o EXCEPT !.used = TRUE]  OBVIOUS
  <2>4. w \in [slot : PoolSlots, fn : Fns, freed : BOOLEAN, used : BOOLEAN]
        /\ w.slot = o.slot /\ w.fn = o.fn
    BY <2>2, <2>3
  <2>5. ops' = (ops \ {o}) \cup {w}  BY <2>1, <2>3
  <2>   QED  BY <2>4, <2>5
<1>1. Types'  BY <1>0, NoJobFacts, Nothing DEF Labels, Releasing
<1>2. JobAt'  BY <1>0, NoJobFacts, Zero DEF JobAt, Releasing
<1>3. OwnedIsLive'  BY <1>0 DEF OwnedIsLive, OneOwner, Holds, Holding
<1>4. OneOwner'  BY <1>0 DEF OwnedIsLive, OneOwner, Holds, Holding
<1>5. HoldersHold'  BY <1>0 DEF HoldersHold, Holds, Holding
<1>6. SlotIsTaken'
  BY <1>0 DEF SlotIsTaken
<1>7. SlotIsNotLost'
  <2>1. \A q \in ops : \E r \in ops' : r.slot = q.slot  BY <1>0
  <2>   QED  BY <2>1 DEF SlotIsNotLost
<1>8. ASSUME env = "orderly"  PROVE OneCallPerScope'
  BY <1>8, <1>0, NoJobFacts DEF Orderly, OneCallPerScope
<1>9. ASSUME env = "orderly"  PROVE OneSlotPerScope'
  BY <1>9, <1>0 DEF Orderly, OneSlotPerScope
<1>10. ASSUME env = "orderly"  PROVE SlotHasReason'
  BY <1>10, <1>0 DEF Orderly, SlotHasReason, InHand, Wanted
<1>11. ASSUME env = "orderly"  PROVE AttachedIsKept'
  BY <1>11, <1>0 DEF Orderly, AttachedIsKept
<1>12. ASSUME env = "orderly"  PROVE CallKnowsItsSlot'
  BY <1>12, <1>0, NoJobFacts DEF Orderly, CallKnowsItsSlot, Wanted, Releasing
<1>13. ASSUME env = "orderly"  PROVE CallTookItsBlock'
  BY <1>13, <1>0 DEF Orderly, CallTookItsBlock, Wanted, Releasing
<1>14. ASSUME env = "orderly"  PROVE LiveIsOwned'
  BY <1>14, <1>0 DEF Orderly, LiveIsOwned, Holds, Holding
<1> QED
  BY <1>1, <1>2, <1>3, <1>4, <1>5, <1>6, <1>7, <1>8, <1>9, <1>10, <1>11, <1>12, <1>13, <1>14
  DEF Orderly

\* A reduction is over.
LEMMA UnusePreserves ==
  ASSUME LentInv, Unuse
  PROVE  LentInv'
<1> USE DEF LentInv, Types, Unuse, Replace, tableVars, localVars
<1>0. PICK o \in ops, w \in [slot : PoolSlots, fn : Fns, freed : BOOLEAN, used : BOOLEAN] :
        ops' = (ops \ {o}) \cup {w} /\ w.slot = o.slot /\ w.fn = o.fn
  <2>1. PICK o \in ops : Replace(o, [o EXCEPT !.used = FALSE])  OBVIOUS
  <2>2. o \in [slot : PoolSlots, fn : Fns, freed : BOOLEAN, used : BOOLEAN]
    OBVIOUS
  <2>3. PICK w : w = [o EXCEPT !.used = FALSE]  OBVIOUS
  <2>4. w \in [slot : PoolSlots, fn : Fns, freed : BOOLEAN, used : BOOLEAN]
        /\ w.slot = o.slot /\ w.fn = o.fn
    BY <2>2, <2>3
  <2>5. ops' = (ops \ {o}) \cup {w}  BY <2>1, <2>3
  <2>   QED  BY <2>4, <2>5
<1>1. Types'  BY <1>0, NoJobFacts, Nothing DEF Labels, Releasing
<1>2. JobAt'  BY <1>0, NoJobFacts, Zero DEF JobAt, Releasing
<1>3. OwnedIsLive'  BY <1>0 DEF OwnedIsLive, OneOwner, Holds, Holding
<1>4. OneOwner'  BY <1>0 DEF OwnedIsLive, OneOwner, Holds, Holding
<1>5. HoldersHold'  BY <1>0 DEF HoldersHold, Holds, Holding
<1>6. SlotIsTaken'
  BY <1>0 DEF SlotIsTaken
<1>7. SlotIsNotLost'
  <2>1. \A q \in ops : \E r \in ops' : r.slot = q.slot  BY <1>0
  <2>   QED  BY <2>1 DEF SlotIsNotLost
<1>8. ASSUME env = "orderly"  PROVE OneCallPerScope'
  BY <1>8, <1>0, NoJobFacts DEF Orderly, OneCallPerScope
<1>9. ASSUME env = "orderly"  PROVE OneSlotPerScope'
  BY <1>9, <1>0 DEF Orderly, OneSlotPerScope
<1>10. ASSUME env = "orderly"  PROVE SlotHasReason'
  BY <1>10, <1>0 DEF Orderly, SlotHasReason, InHand, Wanted
<1>11. ASSUME env = "orderly"  PROVE AttachedIsKept'
  BY <1>11, <1>0 DEF Orderly, AttachedIsKept
<1>12. ASSUME env = "orderly"  PROVE CallKnowsItsSlot'
  BY <1>12, <1>0, NoJobFacts DEF Orderly, CallKnowsItsSlot, Wanted, Releasing
<1>13. ASSUME env = "orderly"  PROVE CallTookItsBlock'
  BY <1>13, <1>0 DEF Orderly, CallTookItsBlock, Wanted, Releasing
<1>14. ASSUME env = "orderly"  PROVE LiveIsOwned'
  BY <1>14, <1>0 DEF Orderly, LiveIsOwned, Holds, Holding
<1> QED
  BY <1>1, <1>2, <1>3, <1>4, <1>5, <1>6, <1>7, <1>8, <1>9, <1>10, <1>11, <1>12, <1>13, <1>14
  DEF Orderly

\* The handle is freed, and the slot stays taken.
LEMMA FreePreserves ==
  ASSUME LentInv, Free
  PROVE  LentInv'
<1> USE DEF LentInv, Types, Free, Replace, tableVars, localVars
<1>0. PICK o \in ops, w \in [slot : PoolSlots, fn : Fns, freed : BOOLEAN, used : BOOLEAN] :
        ops' = (ops \ {o}) \cup {w} /\ w.slot = o.slot /\ w.fn = o.fn
  <2>1. PICK o \in ops : Replace(o, [o EXCEPT !.freed = TRUE])  OBVIOUS
  <2>2. o \in [slot : PoolSlots, fn : Fns, freed : BOOLEAN, used : BOOLEAN]
    OBVIOUS
  <2>3. PICK w : w = [o EXCEPT !.freed = TRUE]  OBVIOUS
  <2>4. w \in [slot : PoolSlots, fn : Fns, freed : BOOLEAN, used : BOOLEAN]
        /\ w.slot = o.slot /\ w.fn = o.fn
    BY <2>2, <2>3
  <2>5. ops' = (ops \ {o}) \cup {w}  BY <2>1, <2>3
  <2>   QED  BY <2>4, <2>5
<1>1. Types'  BY <1>0, NoJobFacts, Nothing DEF Labels, Releasing
<1>2. JobAt'  BY <1>0, NoJobFacts, Zero DEF JobAt, Releasing
<1>3. OwnedIsLive'  BY <1>0 DEF OwnedIsLive, OneOwner, Holds, Holding
<1>4. OneOwner'  BY <1>0 DEF OwnedIsLive, OneOwner, Holds, Holding
<1>5. HoldersHold'  BY <1>0 DEF HoldersHold, Holds, Holding
<1>6. SlotIsTaken'
  BY <1>0 DEF SlotIsTaken
<1>7. SlotIsNotLost'
  <2>1. \A q \in ops : \E r \in ops' : r.slot = q.slot  BY <1>0
  <2>   QED  BY <2>1 DEF SlotIsNotLost
<1>8. ASSUME env = "orderly"  PROVE OneCallPerScope'
  BY <1>8, <1>0, NoJobFacts DEF Orderly, OneCallPerScope
<1>9. ASSUME env = "orderly"  PROVE OneSlotPerScope'
  BY <1>9, <1>0 DEF Orderly, OneSlotPerScope
<1>10. ASSUME env = "orderly"  PROVE SlotHasReason'
  BY <1>10, <1>0 DEF Orderly, SlotHasReason, InHand, Wanted
<1>11. ASSUME env = "orderly"  PROVE AttachedIsKept'
  BY <1>11, <1>0 DEF Orderly, AttachedIsKept
<1>12. ASSUME env = "orderly"  PROVE CallKnowsItsSlot'
  BY <1>12, <1>0, NoJobFacts DEF Orderly, CallKnowsItsSlot, Wanted, Releasing
<1>13. ASSUME env = "orderly"  PROVE CallTookItsBlock'
  BY <1>13, <1>0 DEF Orderly, CallTookItsBlock, Wanted, Releasing
<1>14. ASSUME env = "orderly"  PROVE LiveIsOwned'
  BY <1>14, <1>0 DEF Orderly, LiveIsOwned, Holds, Holding
<1> QED
  BY <1>1, <1>2, <1>3, <1>4, <1>5, <1>6, <1>7, <1>8, <1>9, <1>10, <1>11, <1>12, <1>13, <1>14
  DEF Orderly

\* The free function of a request has run (extrastate.c:303).
LEMMA FreePairPreserves ==
  ASSUME LentInv, FreePair
  PROVE  LentInv'
<1> USE DEF LentInv, Types, FreePair, tableVars, localVars
<1>1. Types'  BY NoJobFacts, Nothing DEF Labels, Releasing
<1>2. JobAt'  BY NoJobFacts, Zero DEF JobAt, Releasing
<1>3. OwnedIsLive'  BY DEF OwnedIsLive, OneOwner, Holds, Holding
<1>4. OneOwner'  BY DEF OwnedIsLive, OneOwner, Holds, Holding
<1>5. HoldersHold'  BY DEF HoldersHold, Holds, Holding
<1>6. SlotIsTaken'  BY DEF SlotIsTaken, JobAt
<1>7. SlotIsNotLost'  BY DEF SlotIsNotLost
<1>8. ASSUME env = "orderly"  PROVE OneCallPerScope'
  BY <1>8, NoJobFacts DEF Orderly, OneCallPerScope
<1>9. ASSUME env = "orderly"  PROVE OneSlotPerScope'
  BY <1>9 DEF Orderly, OneSlotPerScope
<1>10. ASSUME env = "orderly"  PROVE SlotHasReason'
  BY <1>10 DEF Orderly, SlotHasReason, InHand, Wanted
<1>11. ASSUME env = "orderly"  PROVE AttachedIsKept'
  BY <1>11 DEF Orderly, AttachedIsKept
<1>12. ASSUME env = "orderly"  PROVE CallKnowsItsSlot'
  BY <1>12, NoJobFacts DEF Orderly, CallKnowsItsSlot, Wanted, Releasing
<1>13. ASSUME env = "orderly"  PROVE CallTookItsBlock'
  BY <1>13 DEF Orderly, CallTookItsBlock, Wanted, Releasing
<1>14. ASSUME env = "orderly"  PROVE LiveIsOwned'
  BY <1>14 DEF Orderly, LiveIsOwned, Holds, Holding
<1> QED
  BY <1>1, <1>2, <1>3, <1>4, <1>5, <1>6, <1>7, <1>8, <1>9, <1>10, <1>11, <1>12, <1>13, <1>14
  DEF Orderly

-----------------------------------------------------------------------------
LEMMA StutterPreserves ==
  ASSUME LentInv, UNCHANGED vars
  PROVE  LentInv'
<1> USE DEF vars, tableVars, implVars, localVars
<1>1. Types'  BY DEF LentInv, Types
<1>2. JobAt'  BY DEF LentInv, JobAt
<1>3. OwnedIsLive'  BY DEF LentInv, OwnedIsLive, Holds
<1>4. OneOwner'  BY DEF LentInv, OneOwner, Holds
<1>5. HoldersHold'  BY DEF LentInv, HoldersHold, Holds
<1>6. SlotIsTaken'  BY DEF LentInv, SlotIsTaken
<1>7. SlotIsNotLost'  BY DEF LentInv, SlotIsNotLost
<1>8. ASSUME env = "orderly"  PROVE Orderly'
  BY <1>8
  DEF LentInv, Orderly, OneCallPerScope, OneSlotPerScope, SlotHasReason, InHand,
      Wanted, AttachedIsKept, CallKnowsItsSlot, CallTookItsBlock, LiveIsOwned,
      Holds
<1> QED  BY <1>1, <1>2, <1>3, <1>4, <1>5, <1>6, <1>7, <1>8 DEF LentInv

LEMMA NextPreserves == LentInv /\ [Next]_vars => LentInv'
<1> SUFFICES ASSUME LentInv, [Next]_vars PROVE LentInv'  OBVIOUS
<1>1. CASE UNCHANGED vars  BY <1>1, StutterPreserves
<1>2. ASSUME NEW t \in Threads, BufStep(t)  PROVE LentInv'
  BY <1>2, AttachPreserves, BufAllocPreserves, AllocFailsPreserves,
     BufClaimPreserves, BufClaimNextPreserves, BufClaimFailsPreserves,
     BufStorePreserves, AttachSucceedsPreserves, AttachFailsPreserves,
     DetachPreserves, DetachSucceedsPreserves, DetachFailsPreserves,
     ReleaseMatchPreserves, ReleaseOtherPreserves, TakeBlockPreserves,
     TakeNothingPreserves, UnscopePreserves, AnswerPreserves
  DEF BufStep
<1>3. ASSUME NEW t \in Threads, SlotStep(t)  PROVE LentInv'
  BY <1>3, CreatePreserves, SlotClaimPreserves, SlotClaimNextPreserves,
     SlotClaimFailsPreserves, CreateSucceedsPreserves, CreateFailsPreserves
  DEF SlotStep
<1>4. ASSUME NEW t \in Threads, PairStep(t)  PROVE LentInv'
  BY <1>4, GrequestPreserves, PairAllocPreserves, StartSucceedsPreserves,
     StartFailsPreserves
  DEF PairStep
<1>5. CASE Use \/ Unuse \/ Free \/ FreePair
  BY <1>5, UsePreserves, UnusePreserves, FreePreserves, FreePairPreserves
<1> QED  BY <1>1, <1>2, <1>3, <1>4, <1>5 DEF Next

LEMMA InvHolds == Spec => []LentInv
  BY InitEstablishes, NextPreserves, PTL DEF Spec

-----------------------------------------------------------------------------
(***************************************************************************)
(* The variables keep their types, and a walk of a table stays in it       *)
(* (buffers.c:87, :113, callbacks.c:106).                                  *)
(***************************************************************************)
THEOREM TypeCorrect == Spec => []TypeOK
<1>1. LentInv => TypeOK
  BY DEF LentInv, Types, JobAt, TypeOK, Jobs
<1>   QED  BY <1>1, InvHolds, PTL

(***************************************************************************)
(* No buffer is freed while the implementation has it, no pair before its  *)
(* request ends, and no memory twice (buffers.c:109-127,                   *)
(* extrastate.c:286-306).  The last two hold in any environment.           *)
(***************************************************************************)
THEOREM LentMemoryLives == Spec => []LentMemoryIsLive
<1>1. LentInv => LentMemoryIsLive
  <2> SUFFICES ASSUME LentInv PROVE LentMemoryIsLive  OBVIOUS
  <2>1. ASSUME env = "orderly", NEW c \in Scopes, attached[c] \in Blocks
        PROVE  heap[attached[c]] = "live"
    BY <2>1, Nothing DEF LentInv, Orderly, AttachedIsKept, OwnedIsLive
  <2>2. \A g \in greqs : heap[g] = "live"  BY DEF LentInv, OwnedIsLive
  <2>3. ASSUME NEW t \in Threads, NEW u \in Threads, pc[t] = "unscope"
        PROVE  /\ heap[took[t]] = "live"
               /\ pc[u] = "unscope" /\ t # u => took[t] # took[u]
    <3>1. /\ Holds(t) = took[t]
          /\ pc[u] = "unscope" => Holds(u) = took[u]
      BY <2>3 DEF Holds
    <3>   QED  BY <2>3, <3>1, HolderOwns
  <2>   QED  BY <2>1, <2>2, <2>3 DEF LentMemoryIsLive
<1>   QED  BY <1>1, InvHolds, PTL

(***************************************************************************)
(* A detach answers MPI_BUFFER_AUTOMATIC if and only if that was attached, *)
(* and frees the buffer the implementation returned (hw_buffers.c:70-79),  *)
(* where the calls for one scope do not overlap.                           *)
(***************************************************************************)
THEOREM DetachAnswersRight == Spec => []DetachAnswersWhatWasAttached
<1>1. LentInv => DetachAnswersWhatWasAttached
  BY DEF LentInv, Orderly, CallTookItsBlock, Wanted, DetachAnswersWhatWasAttached
<1>   QED  BY <1>1, InvHolds, PTL

(***************************************************************************)
(* Whatever fails, no block and no slot is left without an owner           *)
(* (buffers.c:99-105, callbacks.c:121-126).                                *)
(***************************************************************************)
THEOREM NothingLeaks == Spec => []NothingIsLost
<1>1. LentInv => NothingIsLost
  <2> SUFFICES ASSUME LentInv, env = "orderly"
               PROVE  /\ \A b \in Blocks : heap[b] = "live" =>
                           \/ b \in greqs
                           \/ \E c \in Scopes : attached[c] = b
                           \/ \E t \in Threads : b \in {mine[t], got[t]}
                      /\ \A s \in BufSlots : scope[s] # NoScope =>
                           \/ block[s] # NoBlock
                           \/ \E t \in Threads : /\ pc[t] \in {"bufstore", "unscope"}
                                                 /\ idx[t] = s
                      /\ \A p \in PoolSlots : poolFn[p] # NoFn =>
                           \/ \E o \in ops : o.slot = p
                           \/ \E t \in Threads : pc[t] = "create" /\ idx[t] = p
    BY DEF NothingIsLost
  <2>1. ASSUME NEW b \in Blocks, heap[b] = "live"
        PROVE  \/ b \in greqs
               \/ \E c \in Scopes : attached[c] = b
               \/ \E t \in Threads : b \in {mine[t], got[t]}
    <3>1. CASE b \in greqs  BY <3>1
    <3>2. ASSUME NEW s \in BufSlots, block[s] = b
          PROVE  \/ \E c \in Scopes : attached[c] = b
                 \/ \E t \in Threads : b \in {mine[t], got[t]}
      <4>1. scope[s] \in Scopes
        BY <2>1, <3>2, Nothing DEF LentInv, Types, Orderly, OneSlotPerScope
      <4>2. \/ block[s] = attached[scope[s]]
            \/ \E t \in Threads : InHand(t, s)
        BY <4>1, NoJobFacts DEF LentInv, Orderly, SlotHasReason
      <4>3. ASSUME NEW t \in Threads, InHand(t, s)  PROVE b \in {mine[t], got[t]}
        BY <2>1, <3>2, <4>3, Nothing DEF InHand, Wanted
      <4>   QED  BY <3>2, <4>1, <4>2, <4>3
    <3>3. ASSUME NEW t \in Threads, Holds(t) = b  PROVE b \in {mine[t], got[t]}
      <4>1. pc[t] = "unscope" => took[t] \in {mine[t], got[t]}
        BY DEF LentInv, Orderly, CallTookItsBlock, Wanted
      <4>   QED  BY <2>1, <3>3, <4>1, Nothing DEF Holds
    <3>   QED  BY <2>1, <3>1, <3>2, <3>3 DEF LentInv, Orderly, LiveIsOwned
  <2>2. ASSUME NEW s \in BufSlots, scope[s] # NoScope
        PROVE  \/ block[s] # NoBlock
               \/ \E t \in Threads : pc[t] \in {"bufstore", "unscope"} /\ idx[t] = s
    BY <2>2, Nothing DEF LentInv, Orderly, SlotHasReason, InHand
  <2>3. \A p \in PoolSlots : poolFn[p] # NoFn =>
          \/ \E o \in ops : o.slot = p
          \/ \E t \in Threads : pc[t] = "create" /\ idx[t] = p
    BY DEF LentInv, SlotIsNotLost
  <2>   QED  BY <2>1, <2>2, <2>3
<1>   QED  BY <1>1, InvHolds, PTL

(***************************************************************************)
(* A trampoline calls the function its operation was created with for as   *)
(* long as the operation can be used (callbacks.c:68-82), in any           *)
(* environment.                                                            *)
(***************************************************************************)
THEOREM TrampolinesCallTheirFunctions == Spec => []TrampolineCallsItsFunction
<1>1. LentInv => TrampolineCallsItsFunction
  BY DEF LentInv, SlotIsTaken, Dispatch, TrampolineCallsItsFunction
<1>   QED  BY <1>1, InvHolds, PTL
=============================================================================
