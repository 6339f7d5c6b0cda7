-------------------------- MODULE ToolEventsProofs ---------------------------
(***************************************************************************)
(* Proofs about ToolEvents, for any number of threads, registrations,      *)
(* levels, slots and calls.                                                *)
(*                                                                         *)
(* TypeInv is inductive in every environment: TypeOK and the types of what *)
(* each thread is doing.  OrderlyInv is inductive where calls do not race  *)
(* for one handle, and, where they overlap for others and handles are used *)
(* again, as long as no search has taken an entry that another call has    *)
(* claimed and not yet put its key in.  It follows a registration through  *)
(* the map: who works for it, which entry has its key, where a search for  *)
(* that entry stands, what it holds, and which tags can be read from it.   *)
(*                                                                         *)
(* A step of one thread leaves alone what is said of the others: the       *)
(* lemmas ...Kept.  What is left for each action is the thread that takes  *)
(* it, and what it does to entries and registrations.                      *)
(***************************************************************************)
EXTENDS ToolEvents, TLAPS

-----------------------------------------------------------------------------
(* The fields of an entry.                                                 *)

\* The fields of an entry, by their names.
LEMMA FieldNames ==
  /\ \A l \in Levels : <<"cb", l>> \in Fields /\ <<"data", l>> \in Fields
  /\ <<"dropped", 0>> \in Fields
  /\ <<"freefn", 0>> \in Fields
  /\ <<"freedata", 0>> \in Fields
  /\ NumFields \in Nat \ {0}
<1>0. NumFields \in Nat /\ NumFields = 2 * NumLevels + 3 /\ NumLevels \in Nat
  BY NumLevelsAssumption DEF NumFields
<1>1. ASSUME NEW l \in Levels  PROVE <<"cb", l>> \in Fields
  <2>1. 2 * l - 1 \in 1 .. NumFields /\ 2 * l - 1 <= 2 * NumLevels
    BY <1>0 DEF Levels
  <2>2. (2 * l - 1) % 2 = 1 /\ ((2 * l - 1) + 1) \div 2 = l
    BY DEF Levels
  <2>3. ClearOrder[2 * l - 1] = <<"cb", l>>
    BY <2>1, <2>2 DEF ClearOrder
  <2> QED  BY <2>1, <2>3, Zenon DEF Fields
<1>2. ASSUME NEW l \in Levels  PROVE <<"data", l>> \in Fields
  <2>1. 2 * l \in 1 .. NumFields /\ 2 * l <= 2 * NumLevels
    BY <1>0 DEF Levels
  <2>2. (2 * l) % 2 # 1 /\ (2 * l + 1) \div 2 = l
    BY DEF Levels
  <2>3. ClearOrder[2 * l] = <<"data", l>>
    BY <2>1, <2>2 DEF ClearOrder
  <2> QED  BY <2>1, <2>3, Zenon DEF Fields
<1>3. ASSUME NEW i \in 1 .. 3
      PROVE  <<<<"dropped", "freefn", "freedata">>[i], 0>> \in Fields
  <2>1. 2 * NumLevels + i \in 1 .. NumFields /\ ~(2 * NumLevels + i <= 2 * NumLevels)
        /\ (2 * NumLevels + i) - 2 * NumLevels = i
    BY <1>0
  <2>2. ClearOrder[2 * NumLevels + i] = <<<<"dropped", "freefn", "freedata">>[i], 0>>
    BY <2>1, Zenon DEF ClearOrder
  <2> QED  BY <2>1, <2>2, Zenon DEF Fields
<1>4. /\ <<"dropped", "freefn", "freedata">>[1] = "dropped"
      /\ <<"dropped", "freefn", "freedata">>[2] = "freefn"
      /\ <<"dropped", "freefn", "freedata">>[3] = "freedata"
  OBVIOUS
<1>5. 1 \in 1 .. 3 /\ 2 \in 1 .. 3 /\ 3 \in 1 .. 3
  OBVIOUS
<1>6. NumFields # 0
  BY <1>0
<1> QED  BY <1>0, <1>1, <1>2, <1>3, <1>4, <1>5, <1>6

\* The loop of intern clears every field.
LEMMA ClearedFields ==
  /\ \A i \in 1 .. NumFields : ClearOrder[i] \in Fields
  /\ \A f \in Fields : \E i \in 1 .. NumFields : f = ClearOrder[i]
  BY DEF Fields

\* Fields with different names are different.
LEMMA FieldsApart ==
  ASSUME NEW l \in Levels, NEW k \in Levels
  PROVE  /\ <<"cb", l>> # <<"data", k>>
         /\ <<"cb", l>> # <<"dropped", 0>>
         /\ <<"cb", l>> # <<"freefn", 0>>
         /\ <<"cb", l>> # <<"freedata", 0>>
         /\ <<"data", l>> # <<"dropped", 0>>
         /\ <<"data", l>> # <<"freefn", 0>>
         /\ <<"data", l>> # <<"freedata", 0>>
         /\ <<"dropped", 0>> # <<"freefn", 0>>
         /\ <<"dropped", 0>> # <<"freedata", 0>>
         /\ <<"freefn", 0>> # <<"freedata", 0>>
         /\ <<"cb", l>> = <<"cb", k>> => l = k
         /\ <<"data", l>> = <<"data", k>> => l = k
  OBVIOUS

-----------------------------------------------------------------------------
(* What TypeOK leaves out: the labels of callers and deliverers, and the   *)
(* jobs they have there.                                                   *)

CallLabels == {"idle", "find", "findkey", "claim", "setkey", "clear", "refind",
               "refindkey", "store", "storefn", "target", "nothing"}
DeliverLabels == {"idle", "find", "findkey", "load", "loaddata", "giveup", "done",
                  "nothing"}
Labels == CallLabels \cup DeliverLabels

CallOps    == {"cb", "dropped", "free"}
DeliverOps == {"event", "drop", "release"}
Jobs == [op : CallOps \cup DeliverOps \cup {"none"}, reg : Regs \cup {NoReg},
         level : 0 .. NumLevels, tag : Tags, null : BOOLEAN]

IsCall(j) ==
  /\ j.op \in CallOps
  /\ j.reg \in Regs
  /\ j.op = "cb" => j.level \in Levels

IsDelivery(j) ==
  /\ j.op \in DeliverOps
  /\ j.reg \in Regs
  /\ j.op # "release" => j.level \in Levels

CallerOK(t) ==
  /\ pc[t] \in CallLabels
  /\ pc[t] # "idle" => /\ IsCall(job[t])
                       /\ 1 <= job[t].tag /\ job[t].tag <= lastTag
  /\ pc[t] = "clear" => 1 <= todo[t]

DelivererOK(t) ==
  /\ pc[t] \in DeliverLabels
  /\ pc[t] # "idle" => IsDelivery(job[t])

ThreadsOK ==
  /\ pc  \in [Threads -> Labels]
  /\ job \in [Threads -> Jobs]
  /\ \A t \in Threads : pc[t] = "idle" => job[t].reg = NoReg
  /\ \A t \in Callers : CallerOK(t)
  /\ \A t \in Deliverers : DelivererOK(t)

TypeInv == TypeOK /\ ThreadsOK

\* What a thread is left with when it returns.
LEMMA Zeros ==
  /\ 0 \in Slots /\ Null \in Tags /\ 0 \in 0 .. NumLevels /\ 0 \in 0 .. NumFields
  /\ NoJob \in Jobs /\ NoJob.reg = NoReg
  BY CapacityAssumption, BoundsAssumption, NumLevelsAssumption, FieldNames
     DEF Slots, Tags, Null, Jobs, NoJob

\* The initial state has the types.
LEMMA InitIsTyped == Init => TypeInv
<1> SUFFICES ASSUME Init PROVE TypeInv
  OBVIOUS
<1>1. TypeOK
  <2>1. crossed \in BOOLEAN
    BY DEF Init
  <2> QED  BY <2>1, Zeros, BoundsAssumption DEF Init, TypeOK, Tags, Null
<1>2. ThreadsOK
  BY Zeros, ThreadsAssumption
     DEF Init, ThreadsOK, CallerOK, DelivererOK, Threads, Labels, CallLabels,
         DeliverLabels
<1> QED  BY <1>1, <1>2 DEF TypeInv

\* What a step of t does to the types of the threads: a new label, a new job, or none.
LEMMA ThreadIsTyped ==
  ASSUME TypeInv, NEW t \in Threads,
         NEW l \in Labels, pc' = [pc EXCEPT ![t] = l],
         NEW j \in Jobs, job' = [job EXCEPT ![t] = j],
         l = "idle" => j.reg = NoReg,
         lastTag' \in Tags, lastTag <= lastTag',
         \A u \in Threads \ {t} : todo'[u] = todo[u],
         t \in Callers => /\ l \in CallLabels
                          /\ l # "idle" => IsCall(j) /\ 1 <= j.tag /\ j.tag <= lastTag'
                          /\ l = "clear" => 1 <= todo'[t],
         t \in Deliverers => /\ l \in DeliverLabels
                             /\ l # "idle" => IsDelivery(j)
  PROVE  ThreadsOK'
<1>1. pc' \in [Threads -> Labels] /\ job' \in [Threads -> Jobs]
  BY DEF TypeInv, ThreadsOK
<1>2. \A u \in Threads : /\ pc'[u] = IF u = t THEN l ELSE pc[u]
                         /\ job'[u] = IF u = t THEN j ELSE job[u]
  BY DEF TypeInv, ThreadsOK
<1>3. \A u \in Threads : pc'[u] = "idle" => job'[u].reg = NoReg
  BY <1>2 DEF TypeInv, ThreadsOK
<1>4. ASSUME NEW u \in Callers  PROVE CallerOK(u)'
  <2>1. CASE u = t
    BY <2>1, <1>2 DEF CallerOK, Threads
  <2>2. CASE u # t
    <3>1. u \in Threads /\ CallerOK(u) /\ job[u] \in Jobs
      BY DEF TypeInv, ThreadsOK, Threads
    <3>2. /\ pc'[u] = pc[u] /\ job'[u] = job[u] /\ todo'[u] = todo[u]
          /\ job[u].tag \in Int /\ lastTag \in Int /\ lastTag' \in Int
      BY <3>1, <2>2, <1>2 DEF Jobs, Tags, TypeInv, TypeOK
    <3> QED  BY <3>1, <3>2 DEF CallerOK
  <2> QED  BY <2>1, <2>2
<1>5. ASSUME NEW u \in Deliverers  PROVE DelivererOK(u)'
  <2>1. CASE u = t
    BY <2>1, <1>2 DEF DelivererOK, Threads
  <2>2. CASE u # t
    <3>1. u \in Threads /\ DelivererOK(u)
      BY DEF TypeInv, ThreadsOK, Threads
    <3>2. pc'[u] = pc[u] /\ job'[u] = job[u]
      BY <3>1, <2>2, <1>2
    <3> QED  BY <3>1, <3>2 DEF DelivererOK
  <2> QED  BY <2>1, <2>2
<1> QED  BY <1>1, <1>3, <1>4, <1>5 DEF ThreadsOK

\* A step that leaves the job alone.
LEMMA SameJobIsTyped ==
  ASSUME TypeInv, NEW t \in Threads,
         NEW l \in Labels, pc' = [pc EXCEPT ![t] = l],
         job' = job, pc[t] # "idle", l # "idle", lastTag' = lastTag,
         \A u \in Threads \ {t} : todo'[u] = todo[u],
         t \in Callers => l \in CallLabels /\ (l = "clear" => 1 <= todo'[t]),
         t \in Deliverers => l \in DeliverLabels
  PROVE  ThreadsOK'
<1>1. /\ job[t] \in Jobs /\ job' = [job EXCEPT ![t] = job[t]]
      /\ lastTag' \in Tags /\ lastTag <= lastTag'
  BY DEF TypeInv, ThreadsOK, TypeOK, Tags
<1>2. t \in Callers => IsCall(job[t]) /\ 1 <= job[t].tag /\ job[t].tag <= lastTag'
  BY DEF TypeInv, ThreadsOK, CallerOK
<1>3. t \in Deliverers => IsDelivery(job[t])
  BY DEF TypeInv, ThreadsOK, DelivererOK
<1> QED  BY <1>1, <1>2, <1>3, ThreadIsTyped

\* A return.
LEMMA ReturnIsTyped ==
  ASSUME TypeInv, NEW t \in Threads, Return(t), lastTag' = lastTag
  PROVE  /\ ThreadsOK'
         /\ slot' \in [Threads -> Slots] /\ todo' \in [Threads -> 0 .. NumFields]
         /\ fn' \in [Threads -> Tags] /\ data' \in [Threads -> Tags]
<1>1. /\ "idle" \in Labels /\ "idle" \in CallLabels /\ "idle" \in DeliverLabels
      /\ pc' = [pc EXCEPT ![t] = "idle"] /\ job' = [job EXCEPT ![t] = NoJob]
  BY DEF Return, At, Goto, Labels, CallLabels, DeliverLabels
<1>2. lastTag' \in Tags /\ lastTag <= lastTag' /\ \A u \in Threads \ {t} : todo'[u] = todo[u]
  BY DEF Return, TypeInv, TypeOK, Tags
<1>3. ThreadsOK'
  BY <1>1, <1>2, Zeros, ThreadIsTyped
<1> QED  BY <1>3, Zeros DEF Return, At, TypeInv, TypeOK

-----------------------------------------------------------------------------
(* Each action keeps the types.                                            *)

\* A new registration keeps the types.
LEMMA AllocIsTyped ==
  ASSUME TypeInv, NEW r \in Regs, Alloc(r)
  PROVE  TypeInv'
<1>1. ThreadsOK'
  BY DEF TypeInv, ThreadsOK, CallerOK, DelivererOK, Alloc, localVars
<1>2. TypeOK'
  BY Zeros, BoundsAssumption
     DEF TypeInv, TypeOK, Alloc, localVars, entryVars, Tags
<1> QED  BY <1>1, <1>2 DEF TypeInv

\* So does a call that begins, whichever it is.
LEMMA CallIsTyped ==
  ASSUME TypeInv, NEW t \in Callers, NEW r \in Regs, NEW op \in CallOps,
         NEW level \in 0 .. NumLevels, op = "cb" => level \in Levels,
         NEW null \in BOOLEAN, Call(t, r, op, level, null)
  PROVE  TypeInv'
<1>1. lastTag' \in Tags /\ lastTag' = lastTag + 1 /\ lastTag \in Nat
  BY BoundsAssumption DEF Call, TypeInv, TypeOK, Tags
<1>2. TypeOK'
  BY <1>1, Zeros DEF TypeInv, TypeOK, Call, At, entryVars, implVars
<1> DEFINE j == [op |-> op, reg |-> r, level |-> level, tag |-> lastTag + 1, null |-> null]
<1>3. j \in Jobs /\ IsCall(j) /\ 1 <= j.tag /\ j.tag <= lastTag'
  BY <1>1 DEF Jobs, IsCall
<1>4. /\ "find" \in Labels /\ "find" \in CallLabels /\ t \in Threads /\ t \notin Deliverers
      /\ pc' = [pc EXCEPT ![t] = "find"] /\ job' = [job EXCEPT ![t] = j]
      /\ \A u \in Threads \ {t} : todo'[u] = todo[u]
  BY ThreadsAssumption DEF Call, At, Goto, Labels, CallLabels, Threads
<1>5. ThreadsOK'
  <2> HIDE DEF j
  <2>1. lastTag <= lastTag' /\ "find" # "idle" /\ "find" # "clear"
    BY <1>1
  <2> QED  BY <1>1, <1>3, <1>4, <2>1, ThreadIsTyped
<1> QED  BY <1>2, <1>5 DEF TypeInv

\* The three entry points begin such a call.
LEMMA BeginIsTyped ==
  ASSUME TypeInv, NEW t \in Callers, Begin(t)
  PROVE  TypeInv'
<1>1. /\ \A l \in Levels : l \in 0 .. NumLevels
      /\ "cb" \in CallOps /\ "dropped" \in CallOps /\ "free" \in CallOps
      /\ "dropped" # "cb" /\ "free" # "cb"
  BY NumLevelsAssumption DEF Levels, CallOps
<1>2. ASSUME Register(t)  PROVE TypeInv'
  <2> PICK r \in Regs, l \in Levels, null \in BOOLEAN : Call(t, r, "cb", l, null)
    BY <1>2 DEF Register
  <2> QED  BY <1>1, CallIsTyped
<1>3. ASSUME SetDropped(t)  PROVE TypeInv'
  <2> PICK r \in Regs, null \in BOOLEAN : Call(t, r, "dropped", 0, null)
    BY <1>3 DEF SetDropped
  <2> QED  BY <1>1, Zeros, CallIsTyped
<1>4. ASSUME HandleFree(t)  PROVE TypeInv'
  <2> PICK r \in Regs, null \in BOOLEAN : Call(t, r, "free", 0, null)
    BY <1>4 DEF HandleFree
  <2> QED  BY <1>1, Zeros, CallIsTyped
<1> QED  BY <1>2, <1>3, <1>4 DEF Begin

\* Where a thread goes on, and at which slot.
LEMMA MoveIsTyped ==
  ASSUME TypeInv, NEW t \in Threads, NEW s \in Slots, NEW l \in Labels,
         At(t, s, l), pc[t] # "idle", l \notin {"idle", "clear"},
         t \in Callers => l \in CallLabels,
         t \in Deliverers => l \in DeliverLabels,
         UNCHANGED <<env, crossed, entryVars, implVars, appVars, job, todo, fn, data>>
  PROVE  TypeInv'
<1>1. TypeOK'
  BY DEF TypeInv, TypeOK, At, entryVars, implVars, appVars
<1>2. ThreadsOK'
  BY SameJobIsTyped DEF At, Goto, appVars
<1> QED  BY <1>1, <1>2 DEF TypeInv

\* The same at the same slot.
LEMMA GotoIsTyped ==
  ASSUME TypeInv, NEW t \in Threads, NEW l \in Labels,
         Goto(t, l), pc[t] # "idle", l \notin {"idle", "clear"},
         t \in Callers => l \in CallLabels,
         t \in Deliverers => l \in DeliverLabels,
         crossed' \in BOOLEAN,
         UNCHANGED <<env, entryVars, implVars, appVars, job, slot, todo, fn, data>>
  PROVE  TypeInv'
<1>1. TypeOK'
  BY DEF TypeInv, TypeOK, Goto, entryVars, implVars, appVars
<1>2. ThreadsOK'
  BY SameJobIsTyped DEF Goto, appVars
<1> QED  BY <1>1, <1>2 DEF TypeInv

\* To the next slot, or past the last one.
LEMMA FindNextIsTyped ==
  ASSUME TypeInv, NEW t \in Threads, pc[t] # "idle", NEW l \in {"find", "refind"},
         t \in Deliverers => l = "find",
         FindNext(t, l),
         UNCHANGED <<env, crossed, entryVars, implVars, appVars, job, todo, fn, data>>
  PROVE  TypeInv'
<1>1. slot[t] \in Slots /\ slot[t] \in Nat /\ Capacity \in Nat
  BY CapacityAssumption DEF TypeInv, TypeOK, Slots
<1>2. CASE slot[t] + 1 < Capacity
  <2>1. slot[t] + 1 \in Slots
    BY <1>1, <1>2 DEF Slots
  <2>2. At(t, slot[t] + 1, l)
    BY <1>2 DEF FindNext
  <2>3. /\ l \in Labels /\ l \in CallLabels /\ l \notin {"idle", "clear"}
        /\ t \in Deliverers => l \in DeliverLabels
    BY DEF Labels, CallLabels, DeliverLabels
  <2> QED  BY <2>1, <2>2, <2>3, MoveIsTyped
<1>3. CASE ~(slot[t] + 1 < Capacity)
  <2>1. At(t, 0, AfterMiss(t))
    BY <1>3 DEF FindNext
  <2>2. /\ AfterMiss(t) \in Labels /\ AfterMiss(t) \notin {"idle", "clear"}
        /\ t \in Callers => AfterMiss(t) \in CallLabels
        /\ t \in Deliverers => AfterMiss(t) \in DeliverLabels
    BY ThreadsAssumption DEF AfterMiss, Labels, CallLabels, DeliverLabels
  <2> QED  BY <2>1, <2>2, Zeros, MoveIsTyped
<1> QED  BY <1>2, <1>3

\* The labels of a search by a deliverer: it looks once.
LEMMA DeliverersLookOnce ==
  ASSUME TypeInv, NEW t \in Deliverers
  PROVE  pc[t] \notin {"refind", "refindkey", "claim", "setkey", "clear", "store",
                       "storefn", "target"}
  BY DEF TypeInv, ThreadsOK, DelivererOK, DeliverLabels

\* Every step of find.
LEMMA LookupIsTyped ==
  ASSUME TypeInv, NEW t \in Threads, Lookup(t)
  PROVE  TypeInv'
<1>1. ASSUME FindUnused(t)  PROVE TypeInv'
  BY <1>1, FindNextIsTyped, DeliverersLookOnce DEF FindUnused
<1>2. ASSUME FindUsed(t)  PROVE TypeInv'
  <2> DEFINE l == IF pc[t] = "find" THEN "findkey" ELSE "refindkey"
  <2>1. /\ l \in Labels /\ l \notin {"idle", "clear"} /\ l \in CallLabels
        /\ t \in Deliverers => l \in DeliverLabels
    BY <1>2, DeliverersLookOnce DEF FindUsed, Labels, CallLabels, DeliverLabels
  <2>2. Goto(t, l) /\ pc[t] # "idle" /\ crossed' \in BOOLEAN
    BY <1>2 DEF FindUsed, TypeInv, TypeOK
  <2> HIDE DEF l
  <2> QED  BY <1>2, <2>1, <2>2, GotoIsTyped DEF FindUsed
<1>3. ASSUME FindHit(t)  PROVE TypeInv'
  <2>1. /\ Entered(t) \in Labels /\ Entered(t) \notin {"idle", "clear"}
        /\ t \in Callers => Entered(t) \in CallLabels
        /\ t \in Deliverers => Entered(t) \in DeliverLabels
    BY ThreadsAssumption DEF Entered, Labels, CallLabels, DeliverLabels
  <2>2. crossed' \in BOOLEAN
    BY <1>3 DEF FindHit
  <2> QED  BY <1>3, <2>1, <2>2, GotoIsTyped DEF FindHit
<1>4. ASSUME FindOther(t)  PROVE TypeInv'
  <2> DEFINE l == IF pc[t] = "findkey" THEN "find" ELSE "refind"
  <2>1. l \in {"find", "refind"} /\ (t \in Deliverers => l = "find") /\ pc[t] # "idle"
    BY <1>4, DeliverersLookOnce DEF FindOther
  <2>2. FindNext(t, l)
    BY <1>4 DEF FindOther
  <2> HIDE DEF l
  <2> QED  BY <1>4, <2>1, <2>2, FindNextIsTyped DEF FindOther
<1> QED  BY <1>1, <1>2, <1>3, <1>4 DEF Lookup

\* Every step of a call after find.
LEMMA CallStepIsTyped ==
  ASSUME TypeInv, NEW t \in Callers, CallStep(t)
  PROVE  TypeInv'
<1> USE DEF TypeInv
<1>0. /\ t \in Threads /\ t \notin Deliverers
      /\ \A l \in CallLabels : l \in Labels
      /\ slot[t] \in Slots /\ slot[t] \in Nat
  BY ThreadsAssumption DEF Threads, Labels, TypeOK, Slots
<1>L. /\ "setkey" \in CallLabels /\ "claim" \in CallLabels /\ "refind" \in CallLabels
      /\ "clear" \in CallLabels /\ "store" \in CallLabels /\ "storefn" \in CallLabels
      /\ "target" \in CallLabels
  BY DEF CallLabels
<1>J. pc[t] # "idle" => job[t].reg \in Regs /\ IsCall(job[t]) /\ job[t].tag \in Tags
  BY DEF ThreadsOK, CallerOK, IsCall, Jobs, Threads
<1>1. ASSUME Claim(t)  PROVE TypeInv'
  <2>1. TypeOK'
    BY <1>1 DEF Claim, TypeOK, implVars, appVars
  <2>2. ThreadsOK'
    BY <1>1, <1>0, <1>L, SameJobIsTyped DEF Claim, Goto, appVars
  <2> QED  BY <2>1, <2>2
<1>2. ASSUME ClaimNext(t)  PROVE TypeInv'
  <2>1. CASE slot[t] + 1 < Capacity
    <3>1. slot[t] + 1 \in Slots
      BY <1>0, <2>1, CapacityAssumption DEF Slots
    <3> QED  BY <1>2, <2>1, <3>1, <1>0, <1>L, MoveIsTyped DEF ClaimNext
  <2>2. CASE ~(slot[t] + 1 < Capacity)
    BY <1>2, <2>2, <1>0, <1>L, Zeros, MoveIsTyped DEF ClaimNext
  <2> QED  BY <2>1, <2>2
<1>3. ASSUME StoreKey(t)  PROVE TypeInv'
  <2>1. 1 \in 0 .. NumFields
    BY FieldNames
  <2>2. TypeOK'
    BY <1>3, <1>J, <2>1 DEF StoreKey, TypeOK, implVars, appVars
  <2>3. todo'[t] = 1 /\ \A u \in Threads \ {t} : todo'[u] = todo[u]
    BY <1>3, <1>0 DEF StoreKey, TypeOK
  <2>4. ThreadsOK'
    <3>1. /\ pc' = [pc EXCEPT ![t] = "clear"] /\ job' = job /\ lastTag' = lastTag
          /\ pc[t] # "idle" /\ "clear" # "idle" /\ 1 <= todo'[t]
      BY <1>3, <2>3 DEF StoreKey, Goto, appVars
    <3> QED  BY <1>0, <1>L, <2>3, <3>1, SameJobIsTyped
  <2> QED  BY <2>2, <2>4
<1>4. ASSUME ClearField(t)  PROVE TypeInv'
  <2>0. 1 <= todo[t] /\ todo[t] \in 0 .. NumFields /\ NumFields \in Nat
    BY <1>4, <1>0, FieldNames DEF ClearField, ThreadsOK, CallerOK, TypeOK
  <2>1. ClearOrder[todo[t]] \in Fields
    BY <2>0, ClearedFields
  <2>2. field' \in [Slots -> [Fields -> Tags]]
    BY <1>4, <1>0, <2>1, Zeros DEF ClearField, TypeOK
  <2>3. /\ todo' \in [Threads -> 0 .. NumFields]
        /\ \A u \in Threads \ {t} : todo'[u] = todo[u]
    BY <1>4, <1>0, <2>0 DEF ClearField, TypeOK
  <2>4. TypeOK'
    BY <1>4, <2>2, <2>3 DEF ClearField, TypeOK, implVars, appVars
  <2>5. CASE todo[t] < NumFields
    <3>1. todo'[t] = todo[t] + 1 /\ pc' = [pc EXCEPT ![t] = "clear"]
      BY <1>4, <2>5, <1>0 DEF ClearField, TypeOK, ThreadsOK
    <3>2. ThreadsOK'
      <4>1. /\ job' = job /\ lastTag' = lastTag
            /\ pc[t] # "idle" /\ "clear" # "idle" /\ 1 <= todo'[t]
        BY <1>4, <2>0, <3>1 DEF ClearField, appVars
      <4> QED  BY <1>0, <1>L, <2>3, <3>1, <4>1, SameJobIsTyped
    <3> QED  BY <2>4, <3>2
  <2>6. CASE ~(todo[t] < NumFields)
    <3>1. ThreadsOK'
      BY <1>4, <2>6, <1>0, <1>L, <2>3, SameJobIsTyped DEF ClearField, Goto, appVars
    <3> QED  BY <2>4, <3>1
  <2> QED  BY <2>5, <2>6
<1>5. ASSUME Return(t), UNCHANGED <<env, crossed, entryVars, born, appVars>>,
             alive' = alive
      PROVE  TypeInv'
  BY <1>5, <1>0, ReturnIsTyped DEF TypeOK, entryVars, appVars
<1>6. pc[t] # "idle" => DataField(t) \in Fields /\ FnField(t) \in Fields
  BY <1>J, FieldNames DEF DataField, FnField, IsCall, CallOps
<1>7. ASSUME NEW f \in Fields, NEW v \in Tags, Write(t, f, v), pc[t] # "idle"
      PROVE  /\ field' \in [Slots -> [Fields -> Tags]]
             /\ want' \in [Regs -> [Fields -> Tags]]
  BY <1>7, <1>0, <1>J DEF Write, TypeOK
<1>8. ASSUME StoreData(t)  PROVE TypeInv'
  <2>1. /\ field' \in [Slots -> [Fields -> Tags]]
        /\ want' \in [Regs -> [Fields -> Tags]]
    <3>1. CASE job[t].op = "dropped"
      BY <1>8, <3>1 DEF StoreData, TypeOK
    <3>2. CASE job[t].op # "dropped"
      <4>1. Write(t, DataField(t), job[t].tag) /\ pc[t] # "idle"
        BY <1>8, <3>2 DEF StoreData
      <4> QED  BY <4>1, <1>6, <1>7, <1>J
    <3> QED  BY <3>1, <3>2
  <2>2. TypeOK'
    BY <1>8, <2>1 DEF StoreData, TypeOK, implVars
  <2>3. ThreadsOK'
    BY <1>8, <1>0, <1>L, SameJobIsTyped DEF StoreData, Goto
  <2> QED  BY <2>2, <2>3
<1>9. ASSUME StoreFn(t)  PROVE TypeInv'
  <2>1. /\ field' \in [Slots -> [Fields -> Tags]]
        /\ want' \in [Regs -> [Fields -> Tags]]
    <3> DEFINE v == IF job[t].null THEN Null ELSE job[t].tag
    <3>1. Write(t, FnField(t), v) /\ pc[t] # "idle"
      BY <1>9 DEF StoreFn
    <3>2. v \in Tags
      BY <1>J, <3>1, Zeros
    <3> HIDE DEF v
    <3> QED  BY <3>1, <3>2, <1>6, <1>7
  <2>2. TypeOK'
    BY <1>9, <2>1 DEF StoreFn, TypeOK, implVars
  <2>3. ThreadsOK'
    BY <1>9, <1>0, <1>L, SameJobIsTyped DEF StoreFn, Goto
  <2> QED  BY <2>2, <2>3
<1> QED  BY <1>1, <1>2, <1>3, <1>4, <1>5, <1>8, <1>9
         DEF CallStep, Full, Target, TargetFails, implVars

\* A trampoline that starts, whichever it is.
LEMMA DeliverIsTyped ==
  ASSUME TypeInv, NEW t \in Deliverers, NEW r \in Regs, NEW op \in DeliverOps,
         NEW level \in 0 .. NumLevels, op # "release" => level \in Levels,
         Deliver(t, r, op, level)
  PROVE  TypeInv'
<1>1. TypeOK'
  BY Zeros DEF TypeInv, TypeOK, Deliver, At, entryVars, implVars, appVars
<1> DEFINE j == [NoJob EXCEPT !.op = op, !.reg = r, !.level = level]
<1>2. j \in Jobs /\ IsDelivery(j)
  BY Zeros DEF Jobs, IsDelivery, NoJob
<1>3. /\ "find" \in Labels /\ "find" \in DeliverLabels /\ t \in Threads /\ t \notin Callers
      /\ pc' = [pc EXCEPT ![t] = "find"] /\ job' = [job EXCEPT ![t] = j]
      /\ \A u \in Threads \ {t} : todo'[u] = todo[u]
  BY ThreadsAssumption DEF Deliver, At, Goto, Labels, DeliverLabels, Threads
<1>4. lastTag' \in Tags /\ lastTag <= lastTag'
  BY DEF TypeInv, TypeOK, Tags, Deliver, appVars
<1>5. ThreadsOK'
  <2> HIDE DEF j
  <2> QED  BY <1>2, <1>3, <1>4, ThreadIsTyped
<1> QED  BY <1>1, <1>5 DEF TypeInv

\* The implementation starts such a trampoline.
LEMMA RaiseIsTyped ==
  ASSUME TypeInv, NEW t \in Deliverers, Raise(t) \/ RaiseFree(t)
  PROVE  TypeInv'
<1>1. /\ \A l \in Levels : l \in 0 .. NumLevels
      /\ "event" \in DeliverOps /\ "drop" \in DeliverOps /\ "release" \in DeliverOps
      /\ alive \subseteq Regs
  BY NumLevelsAssumption DEF Levels, DeliverOps, TypeInv, TypeOK
<1>2. ASSUME Raise(t)  PROVE TypeInv'
  <2> PICK r \in alive, l \in Levels : Deliver(t, r, "event", l) \/ Deliver(t, r, "drop", l)
    BY <1>2 DEF Raise
  <2> QED  BY <1>1, DeliverIsTyped
<1>3. ASSUME RaiseFree(t)  PROVE TypeInv'
  <2> PICK r \in alive : Deliver(t, r, "release", 0)
    BY <1>3 DEF RaiseFree
  <2> QED  BY <1>1, Zeros, DeliverIsTyped
<1> QED  BY <1>2, <1>3

\* Every step of a trampoline after find.
LEMMA DeliverStepIsTyped ==
  ASSUME TypeInv, NEW t \in Deliverers, DeliverStep(t)
  PROVE  TypeInv'
<1> USE DEF TypeInv
<1>0. t \in Threads /\ t \notin Callers /\ slot[t] \in Slots
  BY ThreadsAssumption DEF Threads, TypeOK
<1>L. /\ \A l \in DeliverLabels : l \in Labels
      /\ AfterCall(t) \in DeliverLabels /\ "loaddata" \in DeliverLabels
      /\ "done" \in DeliverLabels /\ AfterCall(t) \notin {"idle", "clear"}
  BY DEF Labels, DeliverLabels, AfterCall
<1>1. ASSUME LoadFn(t)  PROVE TypeInv'
  <2>1. IsDelivery(job[t])
    BY <1>1 DEF ThreadsOK, DelivererOK, LoadFn
  <2>2. LoadedFn(t) \in Fields
    BY <2>1, FieldNames DEF LoadedFn, IsDelivery, DeliverOps
  <2>3. TypeOK'
    BY <1>1, <1>0, <2>2 DEF LoadFn, TypeOK, entryVars, implVars, appVars
  <2> DEFINE l == IF field[slot[t]][LoadedFn(t)] # Null THEN "loaddata" ELSE AfterCall(t)
  <2>4. l \in DeliverLabels /\ l \notin {"idle", "clear"}
    BY <1>L
  <2>5. Goto(t, l) /\ pc[t] # "idle"
    BY <1>1 DEF LoadFn
  <2>6. ThreadsOK'
    <3> HIDE DEF l
    <3> QED  BY <1>1, <1>0, <1>L, <2>4, <2>5, SameJobIsTyped DEF LoadFn, Goto, appVars
  <2> QED  BY <2>3, <2>6
<1>2. ASSUME LoadData(t)  PROVE TypeInv'
  <2>1. IsDelivery(job[t])
    BY <1>2 DEF ThreadsOK, DelivererOK, LoadData
  <2>2. LoadedData(t) \in Fields
    BY <2>1, FieldNames DEF LoadedData, IsDelivery, DeliverOps
  <2>3. TypeOK'
    BY <1>2, <1>0, <2>2 DEF LoadData, TypeOK, entryVars, implVars, appVars
  <2>4. ThreadsOK'
    BY <1>2, <1>0, <1>L, SameJobIsTyped DEF LoadData, Goto, appVars
  <2> QED  BY <2>3, <2>4
<1>3. ASSUME GiveUp(t)  PROVE TypeInv'
  <2>1. TypeOK'
    BY <1>3 DEF GiveUp, TypeOK, implVars, appVars
  <2>2. ThreadsOK'
    BY <1>3, <1>0, <1>L, SameJobIsTyped DEF GiveUp, Goto, appVars
  <2> QED  BY <2>1, <2>2
<1>4. ASSUME Delivered(t)  PROVE TypeInv'
  <2>1. alive' \subseteq Regs
    BY <1>4 DEF Delivered, TypeOK
  <2> QED  BY <1>4, <1>0, <2>1, ReturnIsTyped DEF Delivered, TypeOK, entryVars, appVars
<1> QED  BY <1>1, <1>2, <1>3, <1>4 DEF DeliverStep

\* All actions together.
LEMMA NextIsTyped ==
  ASSUME TypeInv, [Next]_vars
  PROVE  TypeInv'
<1>1. CASE UNCHANGED vars
  BY <1>1 DEF vars, entryVars, implVars, appVars, localVars, TypeInv, TypeOK,
              ThreadsOK, CallerOK, DelivererOK
<1>2. CASE Next
  BY <1>2, AllocIsTyped, LookupIsTyped, BeginIsTyped, CallStepIsTyped, RaiseIsTyped,
     DeliverStepIsTyped DEF Next
<1> QED  BY <1>1, <1>2

\* The type invariant, strengthened by the threads' own.
LEMMA TypeInvariant == Spec => []TypeInv
  BY InitIsTyped, NextIsTyped, PTL DEF Spec

(***************************************************************************)
(* Type correctness, in every environment: no scan leaves the map, and no  *)
(* step stores anything but a call's tag in a field an entry has.          *)
(***************************************************************************)
THEOREM EventsAreTyped == Spec => []TypeOK
<1>1. TypeInv => TypeOK
  BY DEF TypeInv
<1> QED  BY <1>1, TypeInvariant, PTL

-----------------------------------------------------------------------------
(* Where calls do not race for one handle, up to a search that takes the   *)
(* entry of another call.                                                  *)

\* The entries that have their registration's key.
Keyed == {s \in Slots : used[s] /\ ~Unkeyed(s)}
NoEntry(r) == \A s \in Keyed : key[s] # r

\* The free trampoline of t has given up the entry and not returned yet.
GaveUp(t) == pc[t] = "done" /\ job[t].op = "release"

\* The registrations whose free trampoline has given up their entry.
Ended == {r \in Regs : \E t \in Deliverers : GaveUp(t) /\ job[t].reg = r}

\* The entries that a call is clearing.
Cleared == {s \in Slots : \E t \in Callers : pc[t] = "clear" /\ slot[t] = s}

-----------------------------------------------------------------------------
\* Calls do not overlap for one registration.
CallsAreApart ==
  \A t, u \in Callers :
    /\ pc[t] # "idle" /\ pc[u] # "idle"
    /\ \/ env = "serialized"
       \/ job[t].reg = job[u].reg
    => t = u

\* A thread is at work for a registration that exists.
RegistrationsLive ==
  /\ \A t \in Threads : pc[t] # "idle" => job[t].reg \in alive
  /\ \A a \in installed : a[1] \in alive
  /\ \A r \in alive : born[r] # -1

\* The free trampoline runs alone for its registration.
ReleasesAreAlone ==
  /\ \A t \in Deliverers :
       pc[t] # "idle" /\ job[t].op = "release" =>
         /\ \A u \in Threads : job[u].reg = job[t].reg => u = t
         /\ <<job[t].reg, "free">> \in installed
  /\ \A t \in Callers : pc[t] # "idle" => <<job[t].reg, "free">> \notin installed

\* An entry with a key belongs to a registration that exists; one for which the
\* implementation has something to call has an entry until it is given up.
EntriesLive ==
  /\ \A s \in Keyed : key[s] \in alive
  /\ \A r \in Ended : NoEntry(r)
  /\ \A a \in installed : a[1] \in Ended \/ ~NoEntry(a[1])

\* A registration has one entry.  A key left behind comes after the entry that has
\* taken its place, unless calls overlap where handles are used again; where none is
\* used again, there is no such key of a live registration.
KeysLeftBehind ==
  /\ \A s, s2 \in Keyed : key[s] = key[s2] => s = s2
  /\ env # "apart" =>
       \A s \in Keyed, s2 \in Slots : key[s] = key[s2] /\ s # s2 => s < s2
  /\ \A s \in Slots : key[s] # NoReg => born[key[s]] # -1
  /\ \A s \in Slots :
       env = "fresh" /\ key[s] \in alive => key[s] \in Ended \/ s \in Keyed

\* The slots claimed are in use, each by one call.
ClaimsAreApart ==
  \A t \in Callers :
    pc[t] = "setkey" =>
      /\ used[slot[t]]
      /\ \A u \in Callers : pc[u] = "setkey" /\ slot[u] = slot[t] => u = t

\* A call on its way to its entry, and at it.
CallerAt(t) ==
  LET r == job[t].reg IN
  /\ pc[t] \in {"find", "findkey"} =>
       \A s \in Keyed : s < slot[t] => key[s] # r
  /\ pc[t] \in {"findkey", "refindkey"} /\ key[slot[t]] = r => used[slot[t]]
  /\ pc[t] \in {"claim", "setkey", "refind", "refindkey", "nothing"} => NoEntry(r)
  /\ pc[t] \in {"claim", "setkey"} /\ env # "apart" =>
       \A s \in Slots : s < slot[t] => key[s] # r
  /\ pc[t] \in {"clear", "store", "storefn", "target"} =>
       slot[t] \in Keyed /\ key[slot[t]] = r

\* A trampoline finds its entry.
DelivererAt(t) ==
  LET r == job[t].reg IN
  /\ pc[t] # "nothing"
  /\ pc[t] # "idle" /\ ~GaveUp(t) => ~NoEntry(r)
  /\ pc[t] \in {"find", "findkey"} =>
       \E s \in Keyed : key[s] = r /\ slot[t] <= s
  /\ pc[t] = "findkey" /\ key[slot[t]] = r => used[slot[t]]
  /\ pc[t] \in {"load", "loaddata", "giveup"} => slot[t] \in Keyed /\ key[slot[t]] = r
  /\ pc[t] = "giveup" => job[t].op = "release"

Unset(r) == \A f \in Fields : want[r][f] = Null

\* What the entries hold.
EntriesHold ==
  /\ \A r \in alive : NoEntry(r) => r \in Ended \/ Unset(r)
  /\ \A s \in Keyed : s \notin Cleared => field[s] = want[key[s]]

\* While an entry is cleared, nothing has been stored or installed for it.
ClearsFirst(t) ==
  pc[t] = "clear" =>
    /\ Unset(job[t].reg)
    /\ \A i \in 1 .. NumFields :
         i < todo[t] => field[slot[t]][ClearOrder[i]] = Null
    /\ \A a \in installed : a[1] # job[t].reg
    /\ \A u \in Deliverers : job[u].reg # job[t].reg

\* Tags grow: those of this life of the handle are above those before it, and a
\* function is not later than its data.
TagsGrow ==
  /\ \A r \in Regs : born[r] <= lastTag
  /\ \A r \in alive : \A f \in Fields :
       want[r][f] # Null => born[r] < want[r][f] /\ want[r][f] <= lastTag
  /\ \A r \in alive : \A l \in Levels :
       want[r][<<"cb", l>>] <= want[r][<<"data", l>>]
  /\ \A r \in alive : want[r][<<"freefn", 0>>] <= want[r][<<"freedata", 0>>]

\* A call's tag is above those of the calls before it.
CallIsLast(t) ==
  pc[t] # "idle" =>
    /\ born[job[t].reg] < job[t].tag
    /\ \A f \in Fields : want[job[t].reg][f] <= job[t].tag
    /\ pc[t] = "storefn" /\ job[t].op # "dropped" =>
         want[job[t].reg][DataField(t)] = job[t].tag

\* v was stored in this life of r, by a call that is not later than any in progress.
StoredFor(v, r) ==
  /\ born[r] < v /\ v <= lastTag
  /\ \A u \in Callers : job[u].reg = r => v <= job[u].tag

\* What a trampoline has loaded.
LoadIsRight(t) ==
  LET r == job[t].reg IN
  /\ pc[t] = "loaddata" => fn[t] # Null
  /\ pc[t] \in {"loaddata", "giveup", "done"} /\ fn[t] # Null =>
       /\ StoredFor(fn[t], r)
       /\ \/ want[r][LoadedFn(t)] = Null
          \/ fn[t] <= want[r][LoadedFn(t)]
       /\ job[t].op # "drop" => fn[t] <= want[r][LoadedData(t)]
  /\ pc[t] \in {"giveup", "done"} /\ fn[t] # Null =>
       /\ data[t] # Null => StoredFor(data[t], r)
       /\ job[t].op # "drop" =>
            fn[t] <= data[t] /\ data[t] <= want[r][LoadedData(t)]

OrderlyInv ==
  /\ CallsAreApart
  /\ RegistrationsLive
  /\ ReleasesAreAlone
  /\ EntriesLive
  /\ KeysLeftBehind
  /\ ClaimsAreApart
  /\ \A t \in Callers : CallerAt(t)
  /\ \A t \in Deliverers : DelivererAt(t)
  /\ EntriesHold
  /\ \A t \in Callers : ClearsFirst(t)
  /\ TagsGrow
  /\ \A t \in Callers : CallIsLast(t)
  /\ \A t \in Deliverers : LoadIsRight(t)

-----------------------------------------------------------------------------
(* What a step leaves alone.                                               *)

\* Nothing changes at the threads other than t.
StepOf(t) ==
  \A u \in Threads : u # t =>
    /\ pc'[u] = pc[u] /\ slot'[u] = slot[u] /\ job'[u] = job[u]
    /\ todo'[u] = todo[u] /\ fn'[u] = fn[u] /\ data'[u] = data[u]

\* What is said of job and tags has these types.
LEMMA ThreadTypes ==
  ASSUME TypeInv
  PROVE  /\ \A t \in Threads : /\ job[t] \in Jobs /\ job[t].tag \in Nat
                               /\ slot[t] \in Slots /\ slot[t] \in Nat
                               /\ fn[t] \in Nat /\ data[t] \in Nat
                               /\ pc[t] = "idle" => job[t].reg = NoReg
         /\ \A t \in Callers : pc[t] # "idle" => job[t].reg \in Regs
         /\ \A t \in Deliverers : pc[t] # "idle" => job[t].reg \in Regs
         /\ \A r \in Regs : \A f \in Fields : want[r][f] \in Nat
         /\ \A r \in Regs : born[r] \in Int
         /\ lastTag \in Nat
         /\ \A s \in Slots : s \in Nat /\ s < Capacity
         /\ Callers \subseteq Threads /\ Deliverers \subseteq Threads
<1>1. \A t \in Callers : pc[t] # "idle" => job[t].reg \in Regs
  BY DEF TypeInv, ThreadsOK, CallerOK, IsCall
<1>2. \A t \in Deliverers : pc[t] # "idle" => job[t].reg \in Regs
  BY DEF TypeInv, ThreadsOK, DelivererOK, IsDelivery
<1>3. \A t \in Threads : /\ job[t] \in Jobs /\ job[t].tag \in Nat
                         /\ slot[t] \in Slots
                         /\ fn[t] \in Nat /\ data[t] \in Nat
                         /\ pc[t] = "idle" => job[t].reg = NoReg
  BY DEF TypeInv, TypeOK, ThreadsOK, Jobs, Tags
<1>4. /\ \A r \in Regs : \A f \in Fields : want[r][f] \in Nat
      /\ \A r \in Regs : born[r] \in Int
      /\ lastTag \in Nat
  BY DEF TypeInv, TypeOK, Tags
<1>5. \A s \in Slots : s \in Nat /\ s < Capacity
  BY CapacityAssumption DEF Slots
<1> QED  BY <1>1, <1>2, <1>3, <1>4, <1>5 DEF Threads

\* The sets derived from the flags and the labels, where t neither comes to nor
\* leaves a place that matters to them.
LEMMA KeyedKept ==
  ASSUME NEW t \in Threads, StepOf(t), used' = used,
         t \in Callers => pc[t] # "setkey" /\ pc'[t] # "setkey"
  PROVE  Keyed' = Keyed
<1>1. \A s \in Slots : Unkeyed(s)' <=> Unkeyed(s)
  BY DEF Unkeyed, StepOf, Threads
<1> QED  BY <1>1 DEF Keyed

\* No entry begins or ends to be cleared.
LEMMA ClearedKept ==
  ASSUME NEW t \in Threads, StepOf(t),
         t \in Callers => pc[t] # "clear" /\ pc'[t] # "clear"
  PROVE  Cleared' = Cleared
  BY DEF Cleared, StepOf, Threads

\* No free trampoline gives up an entry or returns.
LEMMA EndedKept ==
  ASSUME NEW t \in Threads, StepOf(t),
         t \in Deliverers => ~GaveUp(t) /\ ~GaveUp(t)'
  PROVE  Ended' = Ended
<1>1. \A u \in Deliverers : u # t => (GaveUp(u)' <=> GaveUp(u)) /\ job'[u] = job[u]
  BY DEF GaveUp, StepOf, Threads
<1> QED  BY <1>1 DEF Ended

-----------------------------------------------------------------------------
(* What is said of a thread that takes no step stays true as long as the   *)
(* step of another does not touch its registration.                        *)

\* A caller whose registration keeps its keys and entries.
LEMMA CallerKept ==
  ASSUME NEW u \in Callers, pc'[u] = pc[u], slot'[u] = slot[u], job'[u] = job[u],
         CallerAt(u), slot[u] \in Slots, Keyed \subseteq Slots, Keyed' \subseteq Slots,
         env' = env,
         \A s \in Slots : key'[s] = job[u].reg =>
           key[s] = job[u].reg /\ (used[s] => used'[s]),
         \A s \in Slots : s \in Keyed' /\ key'[s] = job[u].reg <=>
                          s \in Keyed /\ key[s] = job[u].reg
  PROVE  CallerAt(u)'
  BY DEF CallerAt, NoEntry

\* A trampoline whose registration keeps its entry.
LEMMA DelivererKept ==
  ASSUME NEW u \in Deliverers, pc'[u] = pc[u], slot'[u] = slot[u], job'[u] = job[u],
         DelivererAt(u), Keyed \subseteq Slots, slot[u] \in Slots,
         \A s \in Slots : key'[s] = job[u].reg =>
           key[s] = job[u].reg /\ (used[s] => used'[s]),
         \A s \in Keyed : key[s] = job[u].reg => key'[s] = key[s] /\ s \in Keyed'
  PROVE  DelivererAt(u)'
  BY DEF DelivererAt, NoEntry, GaveUp

\* A caller clearing an entry that nobody else writes or installs for.
LEMMA ClearsFirstKept ==
  ASSUME NEW u \in Callers, pc'[u] = pc[u], slot'[u] = slot[u], job'[u] = job[u],
         todo'[u] = todo[u], ClearsFirst(u),
         pc[u] = "clear" =>
           /\ want'[job[u].reg] = want[job[u].reg]
           /\ \A i \in 1 .. NumFields :
                i < todo[u] => field'[slot[u]][ClearOrder[i]] = field[slot[u]][ClearOrder[i]]
           /\ \A a \in installed' : a[1] = job[u].reg => a \in installed
           /\ \A v \in Deliverers : job'[v].reg = job[u].reg => job'[v] = job[v]
  PROVE  ClearsFirst(u)'
  BY DEF ClearsFirst, Unset

\* A call for whose registration nothing else is stored.
LEMMA CallIsLastKept ==
  ASSUME NEW u \in Callers, pc'[u] = pc[u], job'[u] = job[u], CallIsLast(u),
         pc[u] # "idle" => /\ want'[job[u].reg] = want[job[u].reg]
                           /\ born'[job[u].reg] = born[job[u].reg]
  PROVE  CallIsLast(u)'
  BY DEF CallIsLast, DataField

\* Of a call that begins for a registration while t works for it, the tag is new.
LEMMA LoadKept ==
  ASSUME TypeInv, TypeInv', NEW u \in Deliverers,
         pc'[u] = pc[u], job'[u] = job[u], fn'[u] = fn[u], data'[u] = data[u],
         LoadIsRight(u), lastTag <= lastTag',
         pc[u] # "idle" =>
           /\ want'[job[u].reg] = want[job[u].reg]
           /\ born'[job[u].reg] = born[job[u].reg]
           /\ \A v \in Callers :
                job'[v].reg = job[u].reg => job'[v] = job[v] \/ job'[v].tag > lastTag
  PROVE  LoadIsRight(u)'
<1> DEFINE r == job[u].reg
<1>0. lastTag \in Nat /\ lastTag' \in Nat /\ \A w \in Callers : job'[w].tag \in Nat
  BY DEF TypeInv, TypeOK, ThreadsOK, Jobs, Tags, Threads
<1>1. ASSUME NEW v \in Nat, StoredFor(v, r), pc[u] # "idle"  PROVE StoredFor(v, r)'
  <2>1. born'[r] < v /\ v <= lastTag'
    BY <1>0, <1>1 DEF StoredFor
  <2>2. ASSUME NEW w \in Callers, job'[w].reg = r  PROVE v <= job'[w].tag
    <3>1. job'[w] = job[w] \/ job'[w].tag > lastTag
      BY <1>1, <2>2
    <3>2. CASE job'[w] = job[w]
      BY <1>1, <2>2, <3>2 DEF StoredFor
    <3>3. CASE job'[w].tag > lastTag
      BY <1>0, <1>1, <3>3 DEF StoredFor
    <3> QED  BY <3>1, <3>2, <3>3
  <2> QED  BY <2>1, <2>2 DEF StoredFor
<1>2. /\ LoadedFn(u)' = LoadedFn(u) /\ LoadedData(u)' = LoadedData(u)
      /\ fn[u] \in Nat /\ data[u] \in Nat
  BY ThreadTypes DEF LoadedFn, LoadedData
<1>3. CASE pc[u] = "idle"
  BY <1>3 DEF LoadIsRight
<1>4. CASE pc[u] # "idle"
  <2>1. /\ fn[u] # Null /\ StoredFor(fn[u], r) => StoredFor(fn[u], r)'
        /\ data[u] # Null /\ StoredFor(data[u], r) => StoredFor(data[u], r)'
    BY <1>1, <1>2, <1>4
  <2>2. want'[r] = want[r] /\ fn'[u] = fn[u] /\ data'[u] = data[u] /\ job'[u] = job[u]
    BY <1>4
  <2> QED  BY <1>2, <1>4, <2>1, <2>2 DEF LoadIsRight
<1> QED  BY <1>3, <1>4

-----------------------------------------------------------------------------
(* The steps that change least: on a thread's way to its entry, and back.  *)

\* A step of t on its way: only the place where it is changes.
LEMMA OnTheWay ==
  ASSUME TypeInv, TypeInv', OrderlyInv, NEW t \in Threads, StepOf(t),
         UNCHANGED <<env, entryVars, implVars, appVars, job, todo>>,
         pc[t] # "idle", pc'[t] # "idle",
         t \in Callers =>
           /\ pc[t] \notin {"setkey", "clear"}
           /\ pc'[t] \notin {"setkey", "clear"}
           /\ pc'[t] = "storefn" => job[t].op = "dropped"
           /\ CallerAt(t)',
         t \in Deliverers =>
           /\ ~GaveUp(t) /\ ~GaveUp(t)'
           /\ DelivererAt(t)' /\ LoadIsRight(t)'
  PROVE  OrderlyInv'
<1> USE DEF OrderlyInv, entryVars, implVars, appVars
<1>1. Keyed' = Keyed /\ Cleared' = Cleared /\ Ended' = Ended
  BY KeyedKept, ClearedKept, EndedKept
<1>2. /\ env' = env /\ used' = used /\ key' = key /\ field' = field
      /\ alive' = alive /\ installed' = installed /\ born' = born
      /\ lastTag' = lastTag /\ want' = want /\ job' = job /\ todo' = todo
  OBVIOUS
<1>3. \A r : NoEntry(r)' <=> NoEntry(r)
  BY <1>1, <1>2 DEF NoEntry
<1>4. \A u \in Threads : pc'[u] # "idle" <=> pc[u] # "idle"
  BY DEF StepOf
<1>5. Callers \subseteq Threads /\ Deliverers \subseteq Threads
  BY DEF Threads
<1>a. CallsAreApart'
  BY <1>2, <1>4, <1>5 DEF CallsAreApart
<1>b. RegistrationsLive'
  BY <1>2, <1>4 DEF RegistrationsLive
<1>c. ReleasesAreAlone'
  BY <1>2, <1>4, <1>5 DEF ReleasesAreAlone
<1>d. EntriesLive'
  BY <1>1, <1>2, <1>3 DEF EntriesLive
<1>e. KeysLeftBehind'
  BY <1>1, <1>2 DEF KeysLeftBehind
<1>f. ClaimsAreApart'
  <2>1. \A u \in Callers : pc'[u] = "setkey" => u # t /\ pc[u] = "setkey" /\ slot'[u] = slot[u]
    BY <1>5 DEF StepOf
  <2> QED  BY <1>2, <2>1 DEF ClaimsAreApart
<1>g. ASSUME NEW u \in Callers  PROVE CallerAt(u)'
  <2>1. CASE u = t
    BY <2>1
  <2>2. CASE u # t
    <3>1. /\ pc'[u] = pc[u] /\ slot'[u] = slot[u] /\ job'[u] = job[u]
          /\ slot[u] \in Slots /\ Keyed \subseteq Slots /\ Keyed' \subseteq Slots
          /\ CallerAt(u)
      BY <2>2, <1>5, ThreadTypes DEF StepOf, Keyed
    <3> QED  BY <3>1, <1>1, <1>2, CallerKept
  <2> QED  BY <2>1, <2>2
<1>h. ASSUME NEW u \in Deliverers  PROVE DelivererAt(u)'
  <2>1. CASE u = t
    BY <2>1
  <2>2. CASE u # t
    <3>1. /\ pc'[u] = pc[u] /\ slot'[u] = slot[u] /\ job'[u] = job[u]
          /\ slot[u] \in Slots /\ Keyed \subseteq Slots
          /\ DelivererAt(u)
      BY <2>2, <1>5, ThreadTypes DEF StepOf, Keyed
    <3> QED  BY <3>1, <1>1, <1>2, DelivererKept
  <2> QED  BY <2>1, <2>2
<1>i. EntriesHold'
  BY <1>1, <1>2, <1>3 DEF EntriesHold, Unset
<1>j. ASSUME NEW u \in Callers  PROVE ClearsFirst(u)'
  <2>1. CASE u = t
    BY <2>1 DEF ClearsFirst
  <2>2. CASE u # t
    <3>1. /\ pc'[u] = pc[u] /\ slot'[u] = slot[u] /\ job'[u] = job[u] /\ todo'[u] = todo[u]
          /\ ClearsFirst(u)
      BY <2>2, <1>5 DEF StepOf
    <3> QED  BY <3>1, <1>2, ClearsFirstKept
  <2> QED  BY <2>1, <2>2
<1>k. TagsGrow'
  BY <1>2 DEF TagsGrow
<1>l. ASSUME NEW u \in Callers  PROVE CallIsLast(u)'
  <2>1. CASE u = t
    <3>1. CallIsLast(u) /\ pc[u] # "idle" /\ (pc'[u] = "storefn" => job[u].op = "dropped")
      BY <2>1
    <3> QED  BY <3>1, <1>2 DEF CallIsLast
  <2>2. CASE u # t
    <3>1. pc'[u] = pc[u] /\ CallIsLast(u)
      BY <2>2, <1>5 DEF StepOf
    <3> QED  BY <3>1, <1>2, CallIsLastKept
  <2> QED  BY <2>1, <2>2
<1>m. ASSUME NEW u \in Deliverers  PROVE LoadIsRight(u)'
  <2>1. CASE u = t
    BY <2>1
  <2>2. CASE u # t
    <3>1. /\ pc'[u] = pc[u] /\ fn'[u] = fn[u] /\ data'[u] = data[u]
          /\ LoadIsRight(u) /\ lastTag <= lastTag'
      BY <2>2, <1>5, <1>2, ThreadTypes DEF StepOf
    <3> QED  BY <3>1, <1>2, LoadKept
  <2> QED  BY <2>1, <2>2
<1> QED  BY <1>a, <1>b, <1>c, <1>d, <1>e, <1>f, <1>g, <1>h, <1>i, <1>j, <1>k, <1>l, <1>m

\* A step with which t returns.  What is installed may change for its registration.
LEMMA OnTheWayBack ==
  ASSUME TypeInv, TypeInv', OrderlyInv, NEW t \in Threads, StepOf(t),
         UNCHANGED <<env, entryVars, alive, born, appVars>>,
         pc[t] # "idle", pc'[t] = "idle", job'[t] = NoJob,
         t \in Callers => pc[t] \notin {"setkey", "clear"},
         t \in Deliverers => ~GaveUp(t),
         \A a \in installed' :
           a \in installed \/ (t \in Callers /\ a[1] = job[t].reg /\ ~NoEntry(a[1])),
         \A r \in Regs :
           <<r, "free">> \in installed => <<r, "free">> \in installed'
  PROVE  OrderlyInv'
<1> USE DEF OrderlyInv
<1>1. Keyed' = Keyed /\ Cleared' = Cleared /\ Ended' = Ended
  <2>1. used' = used /\ ~GaveUp(t)'
    BY DEF entryVars, GaveUp
  <2> QED  BY <2>1, KeyedKept, ClearedKept, EndedKept
<1>2. /\ env' = env /\ used' = used /\ key' = key /\ field' = field
      /\ alive' = alive /\ born' = born /\ lastTag' = lastTag /\ want' = want
  BY DEF entryVars, appVars
<1>3. \A r : NoEntry(r)' <=> NoEntry(r)
  BY <1>1, <1>2 DEF NoEntry
<1>4. \A u \in Threads : pc'[u] # "idle" => u # t /\ pc[u] # "idle" /\ job'[u] = job[u]
  BY DEF StepOf
<1>5. Callers \subseteq Threads /\ Deliverers \subseteq Threads
  BY DEF Threads
<1>6. \A u \in Threads : job'[u].reg \in Regs => u # t /\ job'[u] = job[u]
  BY NoRegAssumption, Zeros DEF StepOf
<1>7. \A u \in Callers : pc[u] # "idle" => job[u].reg \in Regs
  BY ThreadTypes
<1>8. \A u \in Deliverers : pc[u] # "idle" => job[u].reg \in Regs
  BY ThreadTypes
<1>9. \A a \in installed' : a[1] \in Regs /\ a[1] \in alive
  BY <1>7 DEF RegistrationsLive, TypeInv, TypeOK
<1>a. CallsAreApart'
  BY <1>2, <1>4, <1>5 DEF CallsAreApart
<1>b. RegistrationsLive'
  BY <1>2, <1>4, <1>9 DEF RegistrationsLive
<1>c. ReleasesAreAlone'
  <2>1. ASSUME NEW u \in Deliverers, pc'[u] # "idle", job'[u].op = "release"
        PROVE  /\ \A v \in Threads : job'[v].reg = job'[u].reg => v = u
               /\ <<job'[u].reg, "free">> \in installed'
    <3>1. job'[u] = job[u] /\ pc[u] # "idle" /\ job[u].reg \in Regs
      BY <2>1, <1>4, <1>5, <1>8
    <3>2. \A v \in Threads : job'[v].reg = job[u].reg => job'[v] = job[v]
      BY <3>1, <1>6
    <3> QED  BY <2>1, <3>1, <3>2 DEF ReleasesAreAlone
  <2>2. ASSUME NEW u \in Callers, pc'[u] # "idle"
        PROVE  <<job'[u].reg, "free">> \notin installed'
    <3>1. u # t /\ job'[u] = job[u] /\ pc[u] # "idle"
      BY <2>2, <1>4, <1>5
    <3>2. <<job[u].reg, "free">> \notin installed
      BY <3>1 DEF ReleasesAreAlone
    <3>3. t \in Callers => job[t].reg # job[u].reg
      BY <3>1, <1>5 DEF CallsAreApart
    <3>4. <<job[u].reg, "free">>[1] = job[u].reg
      OBVIOUS
    <3> QED  BY <3>1, <3>2, <3>3, <3>4
  <2> QED  BY <2>1, <2>2 DEF ReleasesAreAlone
<1>d. EntriesLive'
  BY <1>1, <1>2, <1>3 DEF EntriesLive
<1>e. KeysLeftBehind'
  BY <1>1, <1>2 DEF KeysLeftBehind
<1>f. ClaimsAreApart'
  <2>1. \A u \in Callers : pc'[u] = "setkey" => u # t /\ pc[u] = "setkey" /\ slot'[u] = slot[u]
    BY <1>5 DEF StepOf
  <2> QED  BY <1>2, <2>1 DEF ClaimsAreApart
<1>g. ASSUME NEW u \in Callers  PROVE CallerAt(u)'
  <2>1. CASE u = t
    BY <2>1 DEF CallerAt
  <2>2. CASE u # t
    <3>1. /\ pc'[u] = pc[u] /\ slot'[u] = slot[u] /\ job'[u] = job[u]
          /\ slot[u] \in Slots /\ Keyed \subseteq Slots /\ Keyed' \subseteq Slots
          /\ CallerAt(u)
      BY <2>2, <1>5, ThreadTypes DEF StepOf, Keyed
    <3> QED  BY <3>1, <1>1, <1>2, CallerKept
  <2> QED  BY <2>1, <2>2
<1>h. ASSUME NEW u \in Deliverers  PROVE DelivererAt(u)'
  <2>1. CASE u = t
    BY <2>1 DEF DelivererAt
  <2>2. CASE u # t
    <3>1. /\ pc'[u] = pc[u] /\ slot'[u] = slot[u] /\ job'[u] = job[u]
          /\ slot[u] \in Slots /\ Keyed \subseteq Slots
          /\ DelivererAt(u)
      BY <2>2, <1>5, ThreadTypes DEF StepOf, Keyed
    <3> QED  BY <3>1, <1>1, <1>2, DelivererKept
  <2> QED  BY <2>1, <2>2
<1>i. EntriesHold'
  BY <1>1, <1>2, <1>3 DEF EntriesHold, Unset
<1>j. ASSUME NEW u \in Callers  PROVE ClearsFirst(u)'
  <2>1. CASE u = t
    BY <2>1 DEF ClearsFirst
  <2>2. CASE u # t
    <3>1. /\ pc'[u] = pc[u] /\ slot'[u] = slot[u] /\ job'[u] = job[u] /\ todo'[u] = todo[u]
          /\ ClearsFirst(u)
      BY <2>2, <1>5 DEF StepOf
    <3>2. ASSUME pc[u] = "clear"
          PROVE  /\ \A a \in installed' : a[1] = job[u].reg => a \in installed
                 /\ \A v \in Deliverers : job'[v].reg = job[u].reg => job'[v] = job[v]
      <4>1. t \in Callers => job[t].reg # job[u].reg
        BY <3>2, <2>2 DEF CallsAreApart
      <4>2. \A v \in Deliverers : job'[v].reg = job[u].reg => job'[v] = job[v]
        BY <3>2, <1>5, <1>6, <1>7
      <4> QED  BY <4>1, <4>2
    <3> QED  BY <3>1, <3>2, <1>2, ClearsFirstKept
  <2> QED  BY <2>1, <2>2
<1>k. TagsGrow'
  BY <1>2 DEF TagsGrow
<1>l. ASSUME NEW u \in Callers  PROVE CallIsLast(u)'
  <2>1. CASE u = t
    BY <2>1 DEF CallIsLast
  <2>2. CASE u # t
    <3>1. pc'[u] = pc[u] /\ job'[u] = job[u] /\ CallIsLast(u)
      BY <2>2, <1>5 DEF StepOf
    <3> QED  BY <3>1, <1>2, CallIsLastKept
  <2> QED  BY <2>1, <2>2
<1>m. ASSUME NEW u \in Deliverers  PROVE LoadIsRight(u)'
  <2>1. CASE u = t
    BY <2>1 DEF LoadIsRight
  <2>2. CASE u # t
    <3>1. /\ pc'[u] = pc[u] /\ fn'[u] = fn[u] /\ data'[u] = data[u] /\ job'[u] = job[u]
          /\ LoadIsRight(u) /\ lastTag <= lastTag'
      BY <2>2, <1>5, <1>2, ThreadTypes DEF StepOf
    <3>2. pc[u] # "idle" =>
            \A v \in Callers : job'[v].reg = job[u].reg => job'[v] = job[v]
      BY <1>5, <1>6, <1>8
    <3> QED  BY <3>1, <3>2, <1>2, LoadKept
  <2> QED  BY <2>1, <2>2
<1> QED  BY <1>a, <1>b, <1>c, <1>d, <1>e, <1>f, <1>g, <1>h, <1>i, <1>j, <1>k, <1>l, <1>m

-----------------------------------------------------------------------------
(* find.                                                                   *)

\* A registration for which a thread is at work has not ended.
LEMMA BusyIsNotEnded ==
  ASSUME TypeInv, OrderlyInv, NEW u \in Threads, pc[u] # "idle",
         u \in Deliverers => ~GaveUp(u)
  PROVE  job[u].reg \notin Ended
<1> SUFFICES ASSUME NEW v \in Deliverers, GaveUp(v), job[v].reg = job[u].reg
             PROVE  FALSE
  BY DEF Ended
<1>1. pc[v] # "idle" /\ job[v].op = "release"
  BY DEF GaveUp
<1>2. u = v
  BY <1>1 DEF OrderlyInv, ReleasesAreAlone
<1> QED  BY <1>2

\* An entry in use with the key of a call's registration is its entry, unless calls
\* overlap where handles are used again.
LEMMA FoundIsKeyed ==
  ASSUME TypeInv, OrderlyInv, Orderly, env # "apart",
         NEW t \in Callers, pc[t] \notin {"idle", "setkey"},
         NEW s \in Slots, used[s], key[s] = job[t].reg
  PROVE  s \in Keyed
<1> SUFFICES ASSUME NEW v \in Callers, pc[v] = "setkey", slot[v] = s
             PROVE  s \in Keyed
  BY DEF Keyed, Unkeyed
<1>1. env # "serialized"
  BY DEF OrderlyInv, CallsAreApart
<1>2. env = "fresh"
  BY <1>1 DEF Orderly
<1>3. t \in Threads /\ t \notin Deliverers
  BY ThreadsAssumption DEF Threads
<1>4. job[t].reg \notin Ended
  BY <1>3, BusyIsNotEnded
<1>5. key[s] \in alive
  BY <1>3 DEF OrderlyInv, RegistrationsLive
<1> QED  BY <1>2, <1>4, <1>5 DEF OrderlyInv, KeysLeftBehind

\* The scan of find and of intern, from the caller's side.
LEMMA CallerLooksOn ==
  ASSUME TypeInv, TypeInv', OrderlyInv, NEW t \in Callers, CallerAt(t),
         pc[t] \in {"find", "findkey", "refind", "refindkey"},
         slot[t] \in Keyed => key[slot[t]] # job[t].reg,
         NEW l \in {"find", "refind"}, l = "find" <=> pc[t] \in {"find", "findkey"},
         FindNext(t, l), Keyed' = Keyed, UNCHANGED <<job, key>>
  PROVE  CallerAt(t)' /\ pc'[t] \in {"find", "refind", "claim", "nothing"}
<1>0. /\ t \in Threads /\ slot[t] \in Nat /\ \A s \in Keyed : s \in Nat /\ s < Capacity
      /\ Capacity \in Nat
  BY CapacityAssumption, ThreadTypes DEF Threads, Keyed
<1>1. CASE slot[t] + 1 < Capacity
  <2>1. slot'[t] = slot[t] + 1 /\ pc'[t] = l
    BY <1>0, <1>1 DEF FindNext, At, Goto, TypeInv, TypeOK, ThreadsOK
  <2>2. l = "find" => \A s \in Keyed : s < slot[t] + 1 => key[s] # job[t].reg
    BY <1>0 DEF CallerAt
  <2>3. l = "refind" => NoEntry(job[t].reg)
    BY DEF CallerAt
  <2> QED  BY <2>1, <2>2, <2>3 DEF CallerAt, NoEntry
<1>2. CASE ~(slot[t] + 1 < Capacity)
  <2>1. slot'[t] = 0 /\ pc'[t] = AfterMiss(t)
    BY <1>0, <1>2 DEF FindNext, At, Goto, TypeInv, TypeOK, ThreadsOK
  <2>2. AfterMiss(t) \in {"claim", "nothing"}
    BY DEF AfterMiss
  <2>3. NoEntry(job[t].reg)
    <3>1. CASE pc[t] \in {"find", "findkey"}
      <4>1. \A s \in Keyed : s < slot[t] \/ s = slot[t]
        BY <1>0, <1>2
      <4> QED  BY <3>1, <4>1 DEF CallerAt, NoEntry
    <3>2. CASE pc[t] \in {"refind", "refindkey"}
      BY <3>2 DEF CallerAt
    <3> QED  BY <3>1, <3>2
  <2>4. \A s \in Slots : ~(s < 0)
    BY DEF Slots
  <2> QED  BY <2>1, <2>2, <2>3, <2>4 DEF CallerAt, NoEntry
<1> QED  BY <1>1, <1>2

\* The scan of find from a trampoline's side: its entry is still ahead.
LEMMA DelivererLooksOn ==
  ASSUME TypeInv, TypeInv', OrderlyInv, NEW t \in Deliverers, DelivererAt(t),
         pc[t] \in {"find", "findkey"},
         slot[t] \in Keyed => key[slot[t]] # job[t].reg,
         FindNext(t, "find"), Keyed' = Keyed, UNCHANGED <<job, key>>
  PROVE  DelivererAt(t)' /\ pc'[t] = "find"
<1>0. /\ t \in Threads /\ slot[t] \in Nat /\ \A s \in Keyed : s \in Nat /\ s < Capacity
      /\ Capacity \in Nat
  BY CapacityAssumption, ThreadTypes DEF Threads, Keyed
<1>1. PICK s \in Keyed : key[s] = job[t].reg /\ slot[t] <= s
  BY DEF DelivererAt
<1>2. slot[t] + 1 <= s
  BY <1>0, <1>1
<1>3. slot'[t] = slot[t] + 1 /\ pc'[t] = "find"
  BY <1>0, <1>2 DEF FindNext, At, Goto, TypeInv, TypeOK, ThreadsOK
<1> QED  BY <1>1, <1>2, <1>3 DEF DelivererAt, NoEntry, GaveUp

\* Of a thread that searches, nothing has been loaded.
LEMMA SearchLoadsNothing ==
  ASSUME NEW t \in Deliverers, pc'[t] \in {"idle", "find", "findkey", "load"}
  PROVE  LoadIsRight(t)' /\ ~GaveUp(t)'
  BY DEF LoadIsRight, GaveUp

\* Every step of find: what is passed over is not the entry, what is taken is.
LEMMA LookupPreserves ==
  ASSUME TypeInv, TypeInv', OrderlyInv, Orderly, Orderly', NEW t \in Threads, Lookup(t)
  PROVE  OrderlyInv'
<1>0. /\ slot[t] \in Slots
      /\ \A l : pc' = [pc EXCEPT ![t] = l] =>
           pc'[t] = l /\ \A u \in Threads : u # t => pc'[u] = pc[u]
      /\ \A s : slot' = [slot EXCEPT ![t] = s] =>
           slot'[t] = s /\ \A u \in Threads : u # t => slot'[u] = slot[u]
  BY DEF TypeInv, TypeOK, ThreadsOK
<1>1. StepOf(t) /\ UNCHANGED <<env, entryVars, implVars, appVars, job, todo>>
  BY <1>0 DEF Lookup, FindUnused, FindUsed, FindHit, FindOther, FindNext, At, Goto, StepOf
<1>2. pc[t] \in {"find", "findkey", "refind", "refindkey"}
  BY DEF Lookup, FindUnused, FindUsed, FindHit, FindOther
<1>3. t \in Deliverers => pc[t] \in {"find", "findkey"} /\ t \notin Callers
  BY <1>2, ThreadsAssumption, DeliverersLookOnce
<1>4. job' = job /\ key' = key /\ used' = used
  BY <1>1 DEF entryVars
<1>5. t \in Callers => CallerAt(t)
  BY DEF OrderlyInv
<1>6. t \in Deliverers => DelivererAt(t)
  BY DEF OrderlyInv
<1>7. ASSUME pc'[t] \in Labels \ {"idle", "setkey", "clear", "storefn"},
             t \in Callers => CallerAt(t)',
             t \in Deliverers => DelivererAt(t)' /\ pc'[t] \in {"find", "findkey", "load"}
      PROVE  OrderlyInv'
  BY <1>1, <1>2, <1>3, <1>7, SearchLoadsNothing, OnTheWay DEF GaveUp
<1>8. Callers \cup Deliverers = Threads
  BY DEF Threads
<1>9. \A l \in {"find", "refind"} : FindNext(t, l) => pc'[t] # "setkey"
  BY <1>0 DEF FindNext, At, Goto, AfterMiss
<1>K. ASSUME pc'[t] # "setkey"  PROVE Keyed' = Keyed
  BY <1>1, <1>2, <1>4, <1>K, KeyedKept
<1>a. ASSUME FindUnused(t)  PROVE OrderlyInv'
  <2>1. slot[t] \notin Keyed
    BY <1>a DEF FindUnused, Keyed
  <2>2. FindNext(t, pc[t]) /\ pc[t] \in {"find", "refind"} /\ Keyed' = Keyed
    BY <1>a, <1>9, <1>K DEF FindUnused
  <2>3. CASE t \in Callers
    <3>1. CallerAt(t)' /\ pc'[t] \in {"find", "refind", "claim", "nothing"}
      BY <1>4, <1>5, <2>1, <2>2, <2>3, CallerLooksOn
    <3> QED  BY <1>3, <1>7, <2>3, <3>1 DEF Labels, CallLabels
  <2>4. CASE t \in Deliverers
    <3>1. DelivererAt(t)' /\ pc'[t] = "find"
      BY <1>3, <1>4, <1>6, <2>1, <2>2, <2>4, DelivererLooksOn
    <3> QED  BY <1>3, <1>7, <2>4, <3>1 DEF Labels, CallLabels
  <2> QED  BY <1>8, <2>3, <2>4
<1>b. ASSUME FindUsed(t)  PROVE OrderlyInv'
  <2>1. /\ pc'[t] = IF pc[t] = "find" THEN "findkey" ELSE "refindkey"
        /\ pc[t] \in {"find", "refind"} /\ slot'[t] = slot[t] /\ used[slot[t]]
    BY <1>b, <1>0 DEF FindUsed, Goto
  <2>2. Keyed' = Keyed
    BY <2>1, <1>K
  <2>3. CASE t \in Callers
    <3>1. CallerAt(t)'
      BY <1>4, <1>5, <2>1, <2>2, <2>3 DEF CallerAt, NoEntry
    <3> QED  BY <1>3, <1>7, <2>1, <2>3, <3>1 DEF Labels, CallLabels
  <2>4. CASE t \in Deliverers
    <3>1. pc'[t] = "findkey"
      BY <1>3, <2>1, <2>4
    <3>2. DelivererAt(t)'
      BY <1>3, <1>4, <1>6, <2>1, <2>2, <2>4, <3>1 DEF DelivererAt, NoEntry, GaveUp
    <3> QED  BY <1>3, <1>7, <2>4, <3>1, <3>2 DEF Labels, CallLabels
  <2> QED  BY <1>8, <2>3, <2>4
<1>c. ASSUME FindHit(t)  PROVE OrderlyInv'
  <2>1. /\ pc'[t] = Entered(t) /\ pc[t] \in {"findkey", "refindkey"}
        /\ slot'[t] = slot[t] /\ key[slot[t]] = job[t].reg
    BY <1>c, <1>0 DEF FindHit, Goto
  <2>2. Keyed' = Keyed
    BY <2>1, <1>K DEF Entered
  <2>5. ASSUME env = "apart", used[slot[t]]  PROVE slot[t] \in Keyed
    <3>1. env' = env
      BY <1>c DEF FindHit
    <3>2. ~Unkeyed(slot[t])
      BY <1>c, <2>5, <3>1 DEF FindHit, Orderly
    <3> QED  BY <1>0, <2>5, <3>2 DEF Keyed
  <2>3. CASE t \in Callers
    <3>0. used[slot[t]]
      BY <1>5, <2>1, <2>3 DEF CallerAt
    <3>1. pc'[t] = "store" /\ slot[t] \in Keyed
      BY <1>0, <2>1, <2>3, <2>5, <3>0, FoundIsKeyed DEF Entered
    <3>2. CallerAt(t)'
      BY <1>4, <2>1, <2>2, <3>1 DEF CallerAt
    <3> QED  BY <1>3, <1>7, <2>3, <3>1, <3>2 DEF Labels, CallLabels
  <2>4. CASE t \in Deliverers
    <3>1. pc'[t] = "load" /\ pc[t] = "findkey"
      BY <1>3, <2>1, <2>4 DEF Entered
    <3>2. PICK s \in Keyed : key[s] = job[t].reg /\ slot[t] <= s
      BY <1>6, <2>4, <3>1 DEF DelivererAt
    <3>3. env # "apart" /\ s # slot[t] => s < slot[t]
      BY <1>0, <2>1, <3>2 DEF OrderlyInv, KeysLeftBehind
    <3>4. slot[t] \in Nat /\ s \in Nat
      BY <1>0, <3>2 DEF Slots, Keyed
    <3>7. used[slot[t]]
      BY <1>6, <2>1, <2>4, <3>1 DEF DelivererAt
    <3>5. slot[t] \in Keyed
      BY <2>5, <3>2, <3>3, <3>4, <3>7
    <3>6. DelivererAt(t)'
      BY <1>4, <2>1, <2>2, <3>1, <3>5 DEF DelivererAt, NoEntry, GaveUp
    <3> QED  BY <1>3, <1>7, <2>4, <3>1, <3>6 DEF Labels, DeliverLabels
  <2> QED  BY <1>8, <2>3, <2>4
<1>d. ASSUME FindOther(t)  PROVE OrderlyInv'
  <2> DEFINE l == IF pc[t] = "findkey" THEN "find" ELSE "refind"
  <2>1. l \in {"find", "refind"} /\ FindNext(t, l) /\ key[slot[t]] # job[t].reg
        /\ pc[t] \in {"findkey", "refindkey"}
        /\ (l = "find" <=> pc[t] \in {"find", "findkey"})
        /\ (pc[t] = "findkey" => l = "find")
    BY <1>d DEF FindOther
  <2> HIDE DEF l
  <2>2. Keyed' = Keyed
    BY <2>1, <1>9, <1>K
  <2>3. CASE t \in Callers
    <3>1. CallerAt(t)' /\ pc'[t] \in {"find", "refind", "claim", "nothing"}
      BY <1>2, <1>4, <1>5, <2>1, <2>2, <2>3, CallerLooksOn
    <3> QED  BY <1>3, <1>7, <2>3, <3>1 DEF Labels, CallLabels
  <2>4. CASE t \in Deliverers
    <3>1. pc[t] = "findkey" /\ FindNext(t, "find")
      BY <1>3, <2>1, <2>4
    <3>2. DelivererAt(t)' /\ pc'[t] = "find"
      BY <1>4, <1>6, <2>1, <2>2, <2>4, <3>1, DelivererLooksOn
    <3> QED  BY <1>3, <1>7, <2>4, <3>2 DEF Labels, CallLabels
  <2> QED  BY <1>8, <2>3, <2>4
<1> QED  BY <1>a, <1>b, <1>c, <1>d DEF Lookup

-----------------------------------------------------------------------------
(* intern: the claim of an entry, and its initialization.                  *)

\* The calls that are in progress beside t work for other registrations.
LEMMA OtherCallsElsewhere ==
  ASSUME TypeInv, OrderlyInv, NEW t \in Callers, pc[t] # "idle"
  PROVE  \A u \in Callers : u # t /\ pc[u] # "idle" => job[u].reg # job[t].reg
  BY DEF OrderlyInv, CallsAreApart

\* The compare-and-swap: the slot is in use, and keeps the key of its last owner.
LEMMA ClaimPreserves ==
  ASSUME TypeInv, TypeInv', OrderlyInv, Orderly, NEW t \in Callers, Claim(t)
  PROVE  OrderlyInv'
<1> USE DEF OrderlyInv
<1>0. t \in Threads /\ t \notin Deliverers /\ slot[t] \in Slots
      /\ Callers \subseteq Threads /\ Deliverers \subseteq Threads
  BY ThreadsAssumption, ThreadTypes DEF Threads
<1>1. /\ pc[t] = "claim" /\ pc'[t] = "setkey" /\ ~used[slot[t]] /\ StepOf(t)
      /\ used' = [used EXCEPT ![slot[t]] = TRUE] /\ slot' = slot
      /\ env' = env /\ key' = key /\ field' = field
      /\ alive' = alive /\ installed' = installed /\ born' = born
      /\ lastTag' = lastTag /\ want' = want /\ job' = job /\ todo' = todo
      /\ fn' = fn /\ data' = data
  BY <1>0 DEF Claim, Goto, StepOf, implVars, appVars, TypeInv, ThreadsOK
<1>2. \A s \in Slots : used'[s] <=> used[s] \/ s = slot[t]
  BY <1>0, <1>1 DEF TypeInv, TypeOK
<1>3. \A u \in Threads : u # t => pc'[u] = pc[u]
  BY <1>1 DEF StepOf
<1>4. Cleared' = Cleared /\ Ended' = Ended
  BY <1>0, <1>1, ClearedKept, EndedKept
<1>5. Keyed' = Keyed
  <2>1. Unkeyed(slot[t])'
    BY <1>1 DEF Unkeyed
  <2>2. \A s \in Slots : s # slot[t] => (Unkeyed(s)' <=> Unkeyed(s))
    BY <1>0, <1>1, <1>3 DEF Unkeyed
  <2> QED  BY <1>1, <1>2, <2>1, <2>2 DEF Keyed
<1>6. \A r : NoEntry(r)' <=> NoEntry(r)
  BY <1>5, <1>1 DEF NoEntry
<1>7. \A u \in Threads : pc'[u] # "idle" <=> pc[u] # "idle"
  BY <1>1, <1>3
<1>a. CallsAreApart'
  BY <1>0, <1>1, <1>7 DEF CallsAreApart
<1>b. RegistrationsLive'
  BY <1>1, <1>7 DEF RegistrationsLive
<1>c. ReleasesAreAlone'
  BY <1>0, <1>1, <1>7 DEF ReleasesAreAlone
<1>d. EntriesLive'
  BY <1>1, <1>4, <1>5, <1>6 DEF EntriesLive
<1>e. KeysLeftBehind'
  BY <1>1, <1>4, <1>5 DEF KeysLeftBehind
<1>f. ClaimsAreApart'
  <2>1. \A u \in Callers : u # t /\ pc'[u] = "setkey" =>
          pc[u] = "setkey" /\ used[slot[u]] /\ slot[u] # slot[t] /\ slot[u] \in Slots
    BY <1>0, <1>1, <1>3, ThreadTypes DEF ClaimsAreApart
  <2> QED  BY <1>0, <1>1, <1>2, <2>1 DEF ClaimsAreApart
<1>g. ASSUME NEW u \in Callers  PROVE CallerAt(u)'
  <2>1. CASE u = t
    <3>1. CallerAt(t)
      OBVIOUS
    <3> QED  BY <2>1, <3>1, <1>1, <1>6 DEF CallerAt
  <2>2. CASE u # t
    <3>1. /\ pc'[u] = pc[u] /\ slot'[u] = slot[u] /\ job'[u] = job[u]
          /\ slot[u] \in Slots /\ Keyed \subseteq Slots /\ Keyed' \subseteq Slots
          /\ CallerAt(u)
      BY <2>2, <1>0, <1>1, <1>3, ThreadTypes DEF Keyed
    <3> QED  BY <3>1, <1>1, <1>2, <1>5, CallerKept
  <2> QED  BY <2>1, <2>2
<1>h. ASSUME NEW u \in Deliverers  PROVE DelivererAt(u)'
  <2>1. /\ pc'[u] = pc[u] /\ slot'[u] = slot[u] /\ job'[u] = job[u]
        /\ slot[u] \in Slots /\ Keyed \subseteq Slots
        /\ DelivererAt(u)
    BY <1>0, <1>1, <1>3, ThreadTypes DEF Keyed
  <2> QED  BY <2>1, <1>1, <1>2, <1>5, DelivererKept
<1>i. EntriesHold'
  BY <1>1, <1>4, <1>5, <1>6 DEF EntriesHold, Unset
<1>j. ASSUME NEW u \in Callers  PROVE ClearsFirst(u)'
  <2>1. CASE u = t
    BY <2>1, <1>1 DEF ClearsFirst
  <2>2. CASE u # t
    BY <2>2, <1>0, <1>1, <1>3, ClearsFirstKept
  <2> QED  BY <2>1, <2>2
<1>k. TagsGrow'
  BY <1>1 DEF TagsGrow
<1>l. ASSUME NEW u \in Callers  PROVE CallIsLast(u)'
  <2>1. CASE u = t
    <3>1. CallIsLast(t)
      OBVIOUS
    <3> QED  BY <2>1, <3>1, <1>1 DEF CallIsLast
  <2>2. CASE u # t
    BY <2>2, <1>0, <1>1, <1>3, CallIsLastKept
  <2> QED  BY <2>1, <2>2
<1>m. ASSUME NEW u \in Deliverers  PROVE LoadIsRight(u)'
  <2>1. pc'[u] = pc[u] /\ LoadIsRight(u) /\ lastTag <= lastTag'
    BY <1>0, <1>1, <1>3, ThreadTypes
  <2> QED  BY <2>1, <1>1, LoadKept
<1> QED  BY <1>a, <1>b, <1>c, <1>d, <1>e, <1>f, <1>g, <1>h, <1>i, <1>j, <1>k, <1>l, <1>m

\* The slot passed over has another key.
LEMMA ClaimNextPreserves ==
  ASSUME TypeInv, TypeInv', OrderlyInv, Orderly, NEW t \in Callers, ClaimNext(t)
  PROVE  OrderlyInv'
<1>0. t \in Threads /\ t \notin Deliverers /\ slot[t] \in Slots /\ slot[t] \in Nat
  BY ThreadsAssumption, ThreadTypes DEF Threads
<1>1. /\ pc[t] = "claim" /\ used[slot[t]] /\ StepOf(t)
      /\ UNCHANGED <<env, entryVars, implVars, appVars, job, todo>>
      /\ \/ pc'[t] = "claim" /\ slot'[t] = slot[t] + 1
         \/ pc'[t] = "refind" /\ slot'[t] = 0
  BY <1>0 DEF ClaimNext, At, Goto, StepOf, TypeInv, TypeOK, ThreadsOK
<1>2. used' = used /\ key' = key /\ job' = job
  BY <1>1 DEF entryVars
<1>3. Keyed' = Keyed
  BY <1>0, <1>1, <1>2, KeyedKept
<1>4. CallerAt(t) /\ NoEntry(job[t].reg)
  BY <1>1 DEF OrderlyInv, CallerAt
<1>5. env # "apart" => key[slot[t]] # job[t].reg
  BY <1>0, <1>1, <1>4, FoundIsKeyed DEF NoEntry
<1>6. CASE pc'[t] = "claim"
  <2>1. \A s \in Slots : s < slot[t] + 1 => s < slot[t] \/ s = slot[t]
    BY <1>0 DEF Slots
  <2>2. slot'[t] = slot[t] + 1
    BY <1>1, <1>6
  <2>3. CallerAt(t)'
    <3>1. env' = env
      BY <1>1
    <3> QED  BY <1>1, <1>2, <1>3, <1>4, <1>5, <1>6, <2>1, <2>2, <3>1 DEF CallerAt, NoEntry
  <2> QED  BY <1>0, <1>1, <1>6, <2>3, OnTheWay
<1>7. CASE pc'[t] = "refind"
  <2>1. CallerAt(t)'
    BY <1>2, <1>3, <1>4, <1>7 DEF CallerAt, NoEntry
  <2> QED  BY <1>0, <1>1, <1>7, <2>1, OnTheWay
<1> QED  BY <1>1, <1>6, <1>7

\* The slot becomes the entry of a registration that had none.
LEMMA StoreKeyPreserves ==
  ASSUME TypeInv, TypeInv', OrderlyInv, Orderly, NEW t \in Callers, StoreKey(t)
  PROVE  OrderlyInv'
<1> USE DEF OrderlyInv
<1> DEFINE r == job[t].reg
           sl == slot[t]
<1>0. t \in Threads /\ t \notin Deliverers /\ sl \in Slots
      /\ Callers \subseteq Threads /\ Deliverers \subseteq Threads
  BY ThreadsAssumption, ThreadTypes DEF Threads
<1>1. /\ pc[t] = "setkey" /\ pc'[t] = "clear" /\ StepOf(t) /\ todo'[t] = 1
      /\ key' = [key EXCEPT ![sl] = r] /\ slot' = slot
      /\ env' = env /\ used' = used /\ field' = field
      /\ alive' = alive /\ installed' = installed /\ born' = born
      /\ lastTag' = lastTag /\ want' = want /\ job' = job
      /\ fn' = fn /\ data' = data
  BY <1>0 DEF StoreKey, Goto, StepOf, implVars, appVars, TypeInv, TypeOK, ThreadsOK
<1>2. \A s \in Slots : key'[s] = IF s = sl THEN r ELSE key[s]
  BY <1>0, <1>1 DEF TypeInv, TypeOK
<1>3. \A u \in Threads : u # t => pc'[u] = pc[u] /\ todo'[u] = todo[u]
  BY <1>1 DEF StepOf
<1>4. Ended' = Ended
  BY <1>0, <1>1, EndedKept
<1>5. sl \notin Keyed /\ Keyed' = Keyed \cup {sl}
  <2>1. Unkeyed(sl) /\ used[sl]
    BY <1>1 DEF Unkeyed, ClaimsAreApart
  <2>2. ~Unkeyed(sl)'
    BY <1>0, <1>1, <1>3 DEF Unkeyed, ClaimsAreApart
  <2>3. \A s \in Slots : s # sl => (Unkeyed(s)' <=> Unkeyed(s))
    BY <1>0, <1>1, <1>3 DEF Unkeyed
  <2> QED  BY <1>0, <1>1, <2>1, <2>2, <2>3 DEF Keyed
<1>6. Cleared' = Cleared \cup {sl}
  BY <1>0, <1>1, <1>3 DEF Cleared
<1>7. /\ r \in Regs /\ r \in alive /\ r \notin Ended /\ born[r] # -1
      /\ NoEntry(r) /\ (env # "apart" => \A s \in Slots : s < sl => key[s] # r)
  BY <1>0, <1>1, ThreadTypes, BusyIsNotEnded DEF RegistrationsLive, CallerAt
<1>8. \A s \in Keyed : s \in Slots /\ s # sl /\ key'[s] = key[s] /\ key[s] # r
  BY <1>2, <1>5, <1>7 DEF Keyed, NoEntry
<1>9. \A q : q # r => (NoEntry(q)' <=> NoEntry(q))
  BY <1>0, <1>2, <1>5, <1>8 DEF NoEntry
<1>10. ~NoEntry(r)'
  BY <1>0, <1>1, <1>2, <1>5 DEF NoEntry
<1>11. \A u \in Threads : pc'[u] # "idle" <=> pc[u] # "idle"
  BY <1>1, <1>3
<1>12. \A u \in Deliverers : job[u].reg # r
  <2> SUFFICES ASSUME NEW u \in Deliverers, job[u].reg = r  PROVE FALSE
    OBVIOUS
  <2>1. pc[u] # "idle"
    BY <1>0, <1>7, ThreadTypes, NoRegAssumption
  <2>2. ~GaveUp(u)
    BY <2>1, <1>0, <1>1 DEF ReleasesAreAlone, GaveUp
  <2> QED  BY <2>1, <2>2, <1>7 DEF DelivererAt
<1>13. \A u \in Callers : u # t /\ pc[u] # "idle" => job[u].reg # r
  BY <1>1, OtherCallsElsewhere
<1>a. CallsAreApart'
  BY <1>0, <1>1, <1>11 DEF CallsAreApart
<1>b. RegistrationsLive'
  BY <1>1, <1>11 DEF RegistrationsLive
<1>c. ReleasesAreAlone'
  BY <1>0, <1>1, <1>11 DEF ReleasesAreAlone
<1>d. EntriesLive'
  <2>1. \A s \in Keyed' : key'[s] \in alive'
    BY <1>0, <1>1, <1>2, <1>5, <1>7, <1>8 DEF EntriesLive
  <2>2. \A q \in Ended' : NoEntry(q)'
    BY <1>4, <1>7, <1>9 DEF EntriesLive
  <2>3. \A a \in installed' : a[1] \in Ended' \/ ~NoEntry(a[1])'
    BY <1>1, <1>4, <1>9, <1>10 DEF EntriesLive
  <2> QED  BY <2>1, <2>2, <2>3 DEF EntriesLive
<1>e. KeysLeftBehind'
  <2>0. ASSUME NEW s \in Keyed', NEW s2 \in Keyed', key'[s] = key'[s2]  PROVE s = s2
    BY <2>0, <1>0, <1>2, <1>5, <1>8 DEF KeysLeftBehind
  <2>1. ASSUME env # "apart", NEW s \in Keyed', NEW s2 \in Slots, key'[s] = key'[s2],
               s # s2
        PROVE  s < s2
    <3>1. CASE s = sl
      <4>1. key[s2] = r
        BY <1>0, <1>2, <2>1, <3>1
      <4>2. ~(s2 < sl) /\ s2 \in Nat /\ sl \in Nat
        BY <2>1, <4>1, <1>0, <1>7 DEF Slots
      <4> QED  BY <4>2, <3>1, <2>1
    <3>2. CASE s # sl
      <4>1. s \in Keyed /\ key'[s] = key[s] /\ key[s] # r
        BY <1>5, <1>8, <2>1, <3>2
      <4>2. s2 # sl /\ key'[s2] = key[s2]
        BY <4>1, <1>0, <1>2, <2>1
      <4> QED  BY <4>1, <4>2, <2>1 DEF KeysLeftBehind
    <3> QED  BY <3>1, <3>2
  <2>2. \A s \in Slots : key'[s] # NoReg => born'[key'[s]] # -1
    BY <1>1, <1>2, <1>7 DEF KeysLeftBehind
  <2>3. \A s \in Slots :
          env' = "fresh" /\ key'[s] \in alive' => key'[s] \in Ended' \/ s \in Keyed'
    BY <1>1, <1>2, <1>4, <1>5 DEF KeysLeftBehind
  <2> QED  BY <2>0, <2>1, <2>2, <2>3, <1>1 DEF KeysLeftBehind
<1>f. ClaimsAreApart'
  <2>1. \A u \in Callers : pc'[u] = "setkey" => u # t /\ pc[u] = "setkey"
    BY <1>0, <1>1, <1>3
  <2> QED  BY <1>1, <2>1 DEF ClaimsAreApart
<1>g. ASSUME NEW u \in Callers  PROVE CallerAt(u)'
  <2>1. CASE u = t
    BY <2>1, <1>0, <1>1, <1>2, <1>5 DEF CallerAt
  <2>2. CASE u # t
    <3>1. /\ pc'[u] = pc[u] /\ slot'[u] = slot[u] /\ job'[u] = job[u]
          /\ slot[u] \in Slots /\ Keyed \subseteq Slots /\ Keyed' \subseteq Slots
          /\ CallerAt(u)
      BY <2>2, <1>0, <1>1, <1>3, ThreadTypes DEF Keyed
    <3>2. CASE pc[u] = "idle"
      BY <3>1, <3>2 DEF CallerAt
    <3>3. CASE pc[u] # "idle"
      <4>1. job[u].reg # r
        BY <1>13, <2>2, <3>3
      <4>2. /\ \A s \in Slots : key'[s] = job[u].reg => key[s] = job[u].reg
            /\ \A s \in Slots : s \in Keyed' /\ key'[s] = job[u].reg <=>
                                s \in Keyed /\ key[s] = job[u].reg
        BY <1>0, <1>2, <1>5, <1>8, <4>1
      <4> QED  BY <3>1, <4>2, <1>1, CallerKept
    <3> QED  BY <3>2, <3>3
  <2> QED  BY <2>1, <2>2
<1>h. ASSUME NEW u \in Deliverers  PROVE DelivererAt(u)'
  <2>1. /\ pc'[u] = pc[u] /\ slot'[u] = slot[u] /\ job'[u] = job[u]
        /\ slot[u] \in Slots /\ Keyed \subseteq Slots
        /\ DelivererAt(u)
    BY <1>0, <1>1, <1>3, ThreadTypes DEF Keyed
  <2>2. \A s \in Slots : key'[s] = job[u].reg => key[s] = job[u].reg
    BY <1>2, <1>12
  <2> QED  BY <2>1, <2>2, <1>1, <1>5, <1>8, DelivererKept
<1>i. EntriesHold'
  <2>1. \A q \in alive' : NoEntry(q)' => q \in Ended' \/ Unset(q)'
    BY <1>1, <1>4, <1>9, <1>10 DEF EntriesHold, Unset
  <2>2. \A s \in Keyed' : s \notin Cleared' => field'[s] = want'[key'[s]]
    BY <1>1, <1>5, <1>6, <1>8 DEF EntriesHold
  <2> QED  BY <2>1, <2>2 DEF EntriesHold
<1>j. ASSUME NEW u \in Callers  PROVE ClearsFirst(u)'
  <2>1. CASE u = t
    <3>1. Unset(r)' /\ job'[t] = job[t]
      BY <1>1, <1>7 DEF EntriesHold, Unset
    <3>2. \A i \in 1 .. NumFields : ~(i < todo'[t])
      BY <1>1
    <3>3. \A a \in installed' : a[1] # r
      BY <1>1, <1>7 DEF EntriesLive
    <3>4. \A v \in Deliverers : job'[v].reg # r
      BY <1>1, <1>12
    <3> QED  BY <2>1, <3>1, <3>2, <3>3, <3>4 DEF ClearsFirst
  <2>2. CASE u # t
    BY <2>2, <1>0, <1>1, <1>3, ClearsFirstKept
  <2> QED  BY <2>1, <2>2
<1>k. TagsGrow'
  BY <1>1 DEF TagsGrow
<1>l. ASSUME NEW u \in Callers  PROVE CallIsLast(u)'
  <2>1. CASE u = t
    <3>1. CallIsLast(t)
      OBVIOUS
    <3> QED  BY <2>1, <3>1, <1>1 DEF CallIsLast
  <2>2. CASE u # t
    BY <2>2, <1>0, <1>1, <1>3, CallIsLastKept
  <2> QED  BY <2>1, <2>2
<1>m. ASSUME NEW u \in Deliverers  PROVE LoadIsRight(u)'
  <2>1. pc'[u] = pc[u] /\ LoadIsRight(u) /\ lastTag <= lastTag'
    BY <1>0, <1>1, <1>3, ThreadTypes
  <2> QED  BY <2>1, <1>1, LoadKept
<1> QED  BY <1>a, <1>b, <1>c, <1>d, <1>e, <1>f, <1>g, <1>h, <1>i, <1>j, <1>k, <1>l, <1>m

\* One field less to clear; after the last, the entry is as unset as want.
LEMMA ClearFieldPreserves ==
  ASSUME TypeInv, TypeInv', OrderlyInv, Orderly, NEW t \in Callers, ClearField(t)
  PROVE  OrderlyInv'
<1> USE DEF OrderlyInv
<1> DEFINE r == job[t].reg
           sl == slot[t]
<1>0. t \in Threads /\ t \notin Deliverers /\ sl \in Slots
      /\ Callers \subseteq Threads /\ Deliverers \subseteq Threads
  BY ThreadsAssumption, ThreadTypes DEF Threads
<1>1. /\ pc[t] = "clear" /\ StepOf(t) /\ slot' = slot
      /\ env' = env /\ used' = used /\ key' = key
      /\ alive' = alive /\ installed' = installed /\ born' = born
      /\ lastTag' = lastTag /\ want' = want /\ job' = job
      /\ fn' = fn /\ data' = data
      /\ \/ todo[t] < NumFields /\ pc'[t] = "clear" /\ todo'[t] = todo[t] + 1
         \/ ~(todo[t] < NumFields) /\ pc'[t] = "store"
  BY <1>0 DEF ClearField, Goto, StepOf, implVars, appVars, TypeInv, TypeOK, ThreadsOK
<1>2. /\ todo[t] \in 1 .. NumFields /\ NumFields \in Nat
      /\ ClearOrder[todo[t]] \in Fields
  BY <1>0, <1>1, FieldNames, ClearedFields DEF TypeInv, TypeOK, ThreadsOK, CallerOK
<1>3. /\ \A s \in Slots : s # sl => field'[s] = field[s]
      /\ \A f \in Fields :
           field'[sl][f] = IF f = ClearOrder[todo[t]] THEN Null ELSE field[sl][f]
  BY <1>0, <1>2 DEF ClearField, TypeInv, TypeOK
<1>4. \A u \in Threads : u # t => pc'[u] = pc[u] /\ todo'[u] = todo[u]
  BY <1>1 DEF StepOf
<1>5. Ended' = Ended /\ Keyed' = Keyed
  BY <1>0, <1>1, EndedKept, KeyedKept
<1>6. CallerAt(t) /\ sl \in Keyed /\ key[sl] = r /\ r \in Regs /\ ClearsFirst(t)
  BY <1>0, <1>1, ThreadTypes DEF CallerAt
<1>7. \A q : NoEntry(q)' <=> NoEntry(q)
  BY <1>1, <1>5 DEF NoEntry
<1>8. \A u \in Threads : pc'[u] # "idle" <=> pc[u] # "idle"
  BY <1>1, <1>4
<1>9. \A u \in Callers : u # t /\ pc[u] = "clear" => slot[u] # sl
  BY <1>1, <1>6, OtherCallsElsewhere DEF CallerAt
<1>10. \A s \in Slots : s # sl => (s \in Cleared' <=> s \in Cleared)
  BY <1>0, <1>1, <1>4 DEF Cleared
<1>11. pc'[t] = "clear" => sl \in Cleared'
  BY <1>0, <1>1 DEF Cleared
<1>12. \A i \in 1 .. NumFields : i < todo[t] + 1 => field'[sl][ClearOrder[i]] = Null
  <2> TAKE i \in 1 .. NumFields
  <2>1. ClearOrder[i] \in Fields
    BY ClearedFields
  <2>2. CASE i = todo[t]
    BY <2>1, <2>2, <1>3
  <2>3. CASE i < todo[t]
    BY <2>1, <2>3, <1>1, <1>3, <1>6 DEF ClearsFirst
  <2>4. i < todo[t] + 1 => i = todo[t] \/ i < todo[t]
    BY <1>2
  <2> QED  BY <2>2, <2>3, <2>4
<1>a. CallsAreApart'
  BY <1>0, <1>1, <1>8 DEF CallsAreApart
<1>b. RegistrationsLive'
  BY <1>1, <1>8 DEF RegistrationsLive
<1>c. ReleasesAreAlone'
  BY <1>0, <1>1, <1>8 DEF ReleasesAreAlone
<1>d. EntriesLive'
  BY <1>1, <1>5, <1>7 DEF EntriesLive
<1>e. KeysLeftBehind'
  BY <1>1, <1>5 DEF KeysLeftBehind
<1>f. ClaimsAreApart'
  <2>1. \A u \in Callers : pc'[u] = "setkey" => u # t /\ pc[u] = "setkey"
    BY <1>0, <1>1, <1>4
  <2> QED  BY <1>1, <2>1 DEF ClaimsAreApart
<1>g. ASSUME NEW u \in Callers  PROVE CallerAt(u)'
  <2>1. CASE u = t
    BY <2>1, <1>1, <1>5, <1>6 DEF CallerAt
  <2>2. CASE u # t
    <3>1. /\ pc'[u] = pc[u] /\ slot'[u] = slot[u] /\ job'[u] = job[u]
          /\ slot[u] \in Slots /\ Keyed \subseteq Slots /\ Keyed' \subseteq Slots
          /\ CallerAt(u)
      BY <2>2, <1>0, <1>1, <1>4, ThreadTypes DEF Keyed
    <3> QED  BY <3>1, <1>1, <1>5, CallerKept
  <2> QED  BY <2>1, <2>2
<1>h. ASSUME NEW u \in Deliverers  PROVE DelivererAt(u)'
  <2>1. /\ pc'[u] = pc[u] /\ slot'[u] = slot[u] /\ job'[u] = job[u]
        /\ slot[u] \in Slots /\ Keyed \subseteq Slots
        /\ DelivererAt(u)
    BY <1>0, <1>1, <1>4, ThreadTypes DEF Keyed
  <2> QED  BY <2>1, <1>1, <1>5, DelivererKept
<1>i. EntriesHold'
  <2>1. \A q \in alive' : NoEntry(q)' => q \in Ended' \/ Unset(q)'
    BY <1>1, <1>5, <1>7 DEF EntriesHold, Unset
  <2>2. ASSUME NEW s \in Keyed', s \notin Cleared'  PROVE field'[s] = want'[key'[s]]
    <3>1. CASE s # sl
      <4>1. s \in Keyed /\ s \in Slots /\ s \notin Cleared
        BY <2>2, <3>1, <1>5, <1>10 DEF Keyed
      <4> QED  BY <4>1, <3>1, <1>1, <1>3 DEF EntriesHold
    <3>2. CASE s = sl
      <4>1. pc'[t] # "clear"
        BY <2>2, <3>2, <1>11
      <4>2. \A i \in 1 .. NumFields : i < todo[t] + 1
        BY <4>1, <1>1, <1>2
      <4>3. \A f \in Fields : field'[sl][f] = Null
        BY <4>2, <1>12, ClearedFields
      <4>4. \A f \in Fields : want[r][f] = Null
        BY <1>1, <1>6 DEF ClearsFirst, Unset
      <4>5. field'[sl] \in [Fields -> Tags] /\ want[r] \in [Fields -> Tags]
        BY <1>0, <1>6 DEF TypeInv, TypeOK
      <4>6. field'[sl] = want[r]
        BY <4>3, <4>4, <4>5
      <4> QED  BY <4>6, <3>2, <1>1, <1>6
    <3> QED  BY <3>1, <3>2
  <2> QED  BY <2>1, <2>2 DEF EntriesHold
<1>j. ASSUME NEW u \in Callers  PROVE ClearsFirst(u)'
  <2>1. CASE u = t
    <3>1. CASE pc'[t] = "clear"
      <4>1. todo'[t] = todo[t] + 1
        BY <3>1, <1>1
      <4> QED  BY <2>1, <4>1, <1>1, <1>6, <1>12 DEF ClearsFirst, Unset
    <3>2. CASE pc'[t] # "clear"
      BY <2>1, <3>2 DEF ClearsFirst
    <3> QED  BY <3>1, <3>2
  <2>2. CASE u # t
    <3>1. /\ pc'[u] = pc[u] /\ slot'[u] = slot[u] /\ job'[u] = job[u] /\ todo'[u] = todo[u]
          /\ ClearsFirst(u) /\ slot[u] \in Slots
      BY <2>2, <1>0, <1>1, <1>4, ThreadTypes
    <3>2. pc[u] = "clear" => field'[slot[u]] = field[slot[u]]
      BY <2>2, <3>1, <1>3, <1>9
    <3> QED  BY <3>1, <3>2, <1>1, ClearsFirstKept
  <2> QED  BY <2>1, <2>2
<1>k. TagsGrow'
  BY <1>1 DEF TagsGrow
<1>l. ASSUME NEW u \in Callers  PROVE CallIsLast(u)'
  <2>1. CASE u = t
    <3>1. CallIsLast(t)
      OBVIOUS
    <3> QED  BY <2>1, <3>1, <1>1 DEF CallIsLast
  <2>2. CASE u # t
    BY <2>2, <1>0, <1>1, <1>4, CallIsLastKept
  <2> QED  BY <2>1, <2>2
<1>m. ASSUME NEW u \in Deliverers  PROVE LoadIsRight(u)'
  <2>1. pc'[u] = pc[u] /\ LoadIsRight(u) /\ lastTag <= lastTag'
    BY <1>0, <1>1, <1>4, ThreadTypes
  <2> QED  BY <2>1, <1>1, LoadKept
<1> QED  BY <1>a, <1>b, <1>c, <1>d, <1>e, <1>f, <1>g, <1>h, <1>i, <1>j, <1>k, <1>l, <1>m

-----------------------------------------------------------------------------
(* set_cb, set_dropped and set_free, and what follows them.                *)

\* The fields a call writes, and those a trampoline reads.
LEMMA CallFields ==
  ASSUME TypeInv, NEW t \in Callers, pc[t] # "idle"
  PROVE  /\ DataField(t) \in Fields /\ FnField(t) \in Fields
         /\ \A l \in Levels : /\ DataField(t) # <<"cb", l>> /\ FnField(t) # <<"data", l>>
                              /\ FnField(t) = <<"cb", l>> =>
                                   DataField(t) = <<"data", l>> /\ job[t].op # "dropped"
         /\ DataField(t) # <<"freefn", 0>> /\ FnField(t) # <<"freedata", 0>>
         /\ FnField(t) = <<"freefn", 0>> =>
              DataField(t) = <<"freedata", 0>> /\ job[t].op # "dropped"
         /\ DataField(t) # <<"dropped", 0>>
<1>1. IsCall(job[t])
  BY DEF TypeInv, ThreadsOK, CallerOK
<1> QED  BY <1>1, FieldNames, FieldsApart DEF IsCall, CallOps, DataField, FnField

\* The fields a trampoline reads belong together.
LEMMA DeliverFields ==
  ASSUME TypeInv, NEW u \in Deliverers, pc[u] # "idle"
  PROVE  /\ LoadedFn(u) \in Fields /\ LoadedData(u) \in Fields
         /\ \/ \E l \in Levels : LoadedFn(u) = <<"cb", l>> /\ LoadedData(u) = <<"data", l>>
            \/ LoadedFn(u) = <<"freefn", 0>> /\ LoadedData(u) = <<"freedata", 0>>
            \/ /\ job[u].op = "drop" /\ LoadedFn(u) = <<"dropped", 0>>
               /\ \E l \in Levels : LoadedData(u) = <<"data", l>>
<1>1. IsDelivery(job[u])
  BY DEF TypeInv, ThreadsOK, DelivererOK
<1> QED  BY <1>1, FieldNames DEF IsDelivery, DeliverOps, LoadedFn, LoadedData

\* A function is not stored where data is read, nor data where a function is.
LEMMA FieldsDiffer ==
  ASSUME TypeInv, NEW t \in Callers, pc[t] # "idle", NEW u \in Deliverers, pc[u] # "idle"
  PROVE  LoadedFn(u) # DataField(t) /\ LoadedData(u) # FnField(t)
  BY CallFields, DeliverFields

\* t stores v in the field f of its entry.
LEMMA WritePreserves ==
  ASSUME TypeInv, TypeInv', OrderlyInv, Orderly, NEW t \in Callers,
         NEW f \in Fields, NEW v \in Tags, NEW l, Write(t, f, v), Goto(t, l),
         \/ /\ pc[t] = "store" /\ l = "storefn" /\ f = DataField(t)
            /\ v = job[t].tag
         \/ /\ pc[t] = "storefn" /\ l = "target" /\ f = FnField(t)
            /\ v \in {Null, job[t].tag},
         UNCHANGED <<env, used, key, implVars, lastTag, job, slot, todo, fn, data>>
  PROVE  OrderlyInv'
<1> USE DEF OrderlyInv
<1> DEFINE r == job[t].reg
           sl == slot[t]
           tag == job[t].tag
<1>0. t \in Threads /\ t \notin Deliverers /\ sl \in Slots
      /\ Callers \subseteq Threads /\ Deliverers \subseteq Threads
  BY ThreadsAssumption, ThreadTypes DEF Threads
<1>1. /\ pc[t] \in {"store", "storefn"} /\ pc'[t] = l /\ l \in {"storefn", "target"}
      /\ StepOf(t)
      /\ slot' = slot /\ env' = env /\ used' = used /\ key' = key
      /\ alive' = alive /\ installed' = installed /\ born' = born
      /\ lastTag' = lastTag /\ job' = job /\ todo' = todo
      /\ fn' = fn /\ data' = data
  BY <1>0 DEF Goto, StepOf, implVars, TypeInv, ThreadsOK
<1>2. /\ CallerAt(t) /\ CallIsLast(t) /\ sl \in Keyed /\ key[sl] = r /\ r \in Regs
      /\ r \in alive
  BY <1>0, <1>1, ThreadTypes DEF CallerAt, RegistrationsLive
<1>3. /\ \A s \in Slots : s # sl => field'[s] = field[s]
      /\ \A q \in Regs : q # r => want'[q] = want[q]
      /\ field'[sl] = [field[sl] EXCEPT ![f] = v]
      /\ want'[r] = [want[r] EXCEPT ![f] = v]
  BY <1>0, <1>2 DEF Write, TypeInv, TypeOK
<1>4. /\ \A g \in Fields : want'[r][g] = IF g = f THEN v ELSE want[r][g]
      /\ \A g \in Fields : want[r][g] \in Nat /\ want'[r][g] \in Nat
      /\ v \in Nat /\ tag \in Nat /\ lastTag \in Nat /\ born[r] \in Int
      /\ v # Null => v = tag
      /\ v <= tag /\ tag <= lastTag
  <2>1. want[r] \in [Fields -> Tags] /\ want'[r] \in [Fields -> Tags]
    BY <1>2 DEF TypeInv, TypeOK
  <2>2. /\ v \in Nat /\ tag \in Nat /\ lastTag \in Nat /\ born[r] \in Int
        /\ tag <= lastTag
    BY <1>0, <1>1, <1>2, ThreadTypes DEF Tags, TypeInv, ThreadsOK, CallerOK
  <2> QED  BY <1>3, <2>1, <2>2 DEF Tags, Null
<1>5. \A u \in Threads : u # t => pc'[u] = pc[u]
  BY <1>1 DEF StepOf
<1>6. Ended' = Ended /\ Keyed' = Keyed /\ Cleared' = Cleared
  BY <1>0, <1>1, EndedKept, KeyedKept, ClearedKept
<1>7. \A q : NoEntry(q)' <=> NoEntry(q)
  BY <1>1, <1>6 DEF NoEntry
<1>8. \A u \in Threads : pc'[u] # "idle" <=> pc[u] # "idle"
  BY <1>1, <1>5
<1>9. \A u \in Callers : u # t /\ pc[u] # "idle" => job[u].reg # r
  BY <1>1, OtherCallsElsewhere
<1>10. \A u \in Callers : u # t /\ pc[u] = "clear" => slot[u] # sl
  BY <1>2, <1>9 DEF CallerAt
<1>11. sl \notin Cleared
  BY <1>1, <1>10 DEF Cleared
<1>12. \A s \in Keyed : s # sl => s \in Slots /\ key[s] # r
  <2>1. \A s \in Keyed : s \in Slots /\ s \in Nat
    BY ThreadTypes DEF Keyed
  <2> QED  BY <1>2, <2>1 DEF KeysLeftBehind
<1>13. \A s \in Keyed : key[s] \in Regs
  BY DEF EntriesLive, TypeInv, TypeOK
<1>a. CallsAreApart'
  BY <1>0, <1>1, <1>8 DEF CallsAreApart
<1>b. RegistrationsLive'
  BY <1>1, <1>8 DEF RegistrationsLive
<1>c. ReleasesAreAlone'
  BY <1>0, <1>1, <1>8 DEF ReleasesAreAlone
<1>d. EntriesLive'
  BY <1>1, <1>6, <1>7 DEF EntriesLive
<1>e. KeysLeftBehind'
  BY <1>1, <1>6 DEF KeysLeftBehind
<1>f. ClaimsAreApart'
  <2>1. \A u \in Callers : pc'[u] = "setkey" => u # t /\ pc[u] = "setkey"
    BY <1>0, <1>1, <1>5
  <2> QED  BY <1>1, <2>1 DEF ClaimsAreApart
<1>g. ASSUME NEW u \in Callers  PROVE CallerAt(u)'
  <2>1. CASE u = t
    BY <2>1, <1>1, <1>2, <1>6 DEF CallerAt
  <2>2. CASE u # t
    <3>1. /\ pc'[u] = pc[u] /\ slot'[u] = slot[u] /\ job'[u] = job[u]
          /\ slot[u] \in Slots /\ Keyed \subseteq Slots /\ Keyed' \subseteq Slots
          /\ CallerAt(u)
      BY <2>2, <1>0, <1>1, <1>5, ThreadTypes DEF Keyed
    <3> QED  BY <3>1, <1>1, <1>6, CallerKept
  <2> QED  BY <2>1, <2>2
<1>h. ASSUME NEW u \in Deliverers  PROVE DelivererAt(u)'
  <2>1. /\ pc'[u] = pc[u] /\ slot'[u] = slot[u] /\ job'[u] = job[u]
        /\ slot[u] \in Slots /\ Keyed \subseteq Slots
        /\ DelivererAt(u)
    BY <1>0, <1>1, <1>5, ThreadTypes DEF Keyed
  <2> QED  BY <2>1, <1>1, <1>6, DelivererKept
<1>i. EntriesHold'
  <2>1. ASSUME NEW q \in alive', NoEntry(q)'  PROVE q \in Ended' \/ Unset(q)'
    <3>1. q # r /\ q \in alive /\ q \in Regs /\ NoEntry(q)
      <4>0. NoEntry(q)  BY <2>1, <1>7
      <4>1. q # r       BY <4>0, <1>2 DEF NoEntry
      <4>2. q \in alive  BY <2>1, <1>1, <1>2
      <4>3. q \in Regs  BY <4>2 DEF TypeInv, TypeOK
      <4> QED  BY <4>0, <4>1, <4>2, <4>3
    <3>2. want'[q] = want[q]
      BY <3>1, <1>3
    <3> QED  BY <3>1, <3>2, <1>6 DEF EntriesHold, Unset
  <2>2. ASSUME NEW s \in Keyed', s \notin Cleared'  PROVE field'[s] = want'[key'[s]]
    <3>1. s \in Keyed /\ s \notin Cleared /\ field[s] = want[key[s]]
      BY <2>2, <1>6 DEF EntriesHold
    <3>2. CASE s # sl
      BY <3>1, <3>2, <1>1, <1>3, <1>12, <1>13
    <3>3. CASE s = sl
      BY <3>1, <3>3, <1>1, <1>2, <1>3
    <3> QED  BY <3>2, <3>3
  <2> QED  BY <2>1, <2>2 DEF EntriesHold
<1>j. ASSUME NEW u \in Callers  PROVE ClearsFirst(u)'
  <2>1. CASE u = t
    BY <2>1, <1>1 DEF ClearsFirst
  <2>2. CASE u # t
    <3>1. /\ pc'[u] = pc[u] /\ slot'[u] = slot[u] /\ job'[u] = job[u] /\ todo'[u] = todo[u]
          /\ ClearsFirst(u) /\ slot[u] \in Slots
          /\ pc[u] # "idle" => job[u].reg \in Regs
      BY <2>2, <1>0, <1>1, <1>5, ThreadTypes
    <3>2. pc[u] = "clear" => /\ field'[slot[u]] = field[slot[u]]
                             /\ want'[job[u].reg] = want[job[u].reg]
      BY <2>2, <3>1, <1>3, <1>9, <1>10
    <3> QED  BY <3>1, <3>2, <1>1, ClearsFirstKept
  <2> QED  BY <2>1, <2>2
<1>14. DataField(t) \in Fields /\ FnField(t) \in Fields /\ pc[t] # "idle"
  BY <1>1, CallFields
<1>15. pc[t] = "storefn" /\ job[t].op # "dropped" => want[r][DataField(t)] = tag
  BY <1>2 DEF CallIsLast
<1>16. \A g \in Fields : want[r][g] <= tag
  BY <1>1, <1>2 DEF CallIsLast
<1>k. TagsGrow'
  <2>1. ASSUME NEW p \in Fields, NEW q \in Fields, p # q, want[r][p] <= want[r][q],
               f = p => want[r][q] = tag, f = q => v = tag
        PROVE  want'[r][p] <= want'[r][q]
    BY <2>1, <1>4, <1>16
  <2>2. \A q \in Regs : born'[q] <= lastTag'
    BY <1>1 DEF TagsGrow
  <2>3. ASSUME NEW q \in alive', NEW g \in Fields, want'[q][g] # Null
        PROVE  born'[q] < want'[q][g] /\ want'[q][g] <= lastTag'
    <3>1. CASE q # r
      BY <2>3, <3>1, <1>1, <1>3 DEF TagsGrow, TypeInv, TypeOK
    <3>2. CASE q = r
      <4>1. born[r] < tag
        BY <1>1, <1>2 DEF CallIsLast
      <4>2. CASE g = f
        BY <2>3, <3>2, <4>1, <4>2, <1>1, <1>4
      <4>3. CASE g # f
        BY <2>3, <3>2, <4>3, <1>1, <1>2, <1>4 DEF TagsGrow
      <4> QED  BY <4>2, <4>3
    <3> QED  BY <3>1, <3>2
  <2>4. ASSUME NEW q \in alive', NEW k \in Levels
        PROVE  want'[q][<<"cb", k>>] <= want'[q][<<"data", k>>]
    <3>1. CASE q # r
      BY <2>4, <3>1, <1>1, <1>3 DEF TagsGrow, TypeInv, TypeOK
    <3>2. CASE q = r
      <4>1. /\ <<"cb", k>> \in Fields /\ <<"data", k>> \in Fields
            /\ <<"cb", k>> # <<"data", k>>
        BY FieldNames, FieldsApart
      <4>2. want[r][<<"cb", k>>] <= want[r][<<"data", k>>]
        BY <1>2 DEF TagsGrow
      <4>3. f = <<"cb", k>> => want[r][<<"data", k>>] = tag
        BY <1>14, <1>15, CallFields
      <4>4. f = <<"data", k>> => v = tag
        BY <1>14, CallFields
      <4> QED  BY <3>2, <4>1, <4>2, <4>3, <4>4, <2>1
    <3> QED  BY <3>1, <3>2
  <2>5. ASSUME NEW q \in alive'
        PROVE  want'[q][<<"freefn", 0>>] <= want'[q][<<"freedata", 0>>]
    <3>1. CASE q # r
      BY <2>5, <3>1, <1>1, <1>3 DEF TagsGrow, TypeInv, TypeOK
    <3>2. CASE q = r
      <4>1. /\ <<"freefn", 0>> \in Fields /\ <<"freedata", 0>> \in Fields
            /\ <<"freefn", 0>> # <<"freedata", 0>>
        BY FieldNames
      <4>2. want[r][<<"freefn", 0>>] <= want[r][<<"freedata", 0>>]
        BY <1>2 DEF TagsGrow
      <4>3. f = <<"freefn", 0>> => want[r][<<"freedata", 0>>] = tag
        BY <1>14, <1>15, CallFields
      <4>4. f = <<"freedata", 0>> => v = tag
        BY <1>14, CallFields
      <4> QED  BY <3>2, <4>1, <4>2, <4>3, <4>4, <2>1
    <3> QED  BY <3>1, <3>2
  <2> QED  BY <2>2, <2>3, <2>4, <2>5 DEF TagsGrow
<1>l. ASSUME NEW u \in Callers  PROVE CallIsLast(u)'
  <2>1. CASE u = t
    <3>1. born'[r] < tag
      BY <1>1, <1>2 DEF CallIsLast
    <3>2. \A g \in Fields : want'[r][g] <= tag
      BY <1>4, <1>16
    <3>3. l = "storefn" => want'[r][DataField(t)] = tag
      BY <1>4, <1>14
    <3>4. DataField(t)' = DataField(t) /\ job'[t] = job[t]
      BY <1>1 DEF DataField
    <3> QED  BY <2>1, <3>1, <3>2, <3>3, <3>4, <1>1 DEF CallIsLast
  <2>2. CASE u # t
    <3>1. /\ pc'[u] = pc[u] /\ job'[u] = job[u] /\ CallIsLast(u)
          /\ pc[u] # "idle" => want'[job[u].reg] = want[job[u].reg]
      BY <2>2, <1>0, <1>1, <1>3, <1>5, <1>9, ThreadTypes
    <3> QED  BY <3>1, <1>1, CallIsLastKept
  <2> QED  BY <2>1, <2>2
<1>m. ASSUME NEW u \in Deliverers  PROVE LoadIsRight(u)'
  <2>0. /\ pc'[u] = pc[u] /\ LoadIsRight(u) /\ lastTag <= lastTag' /\ job'[u] = job[u]
        /\ fn'[u] = fn[u] /\ data'[u] = data[u] /\ fn[u] \in Nat /\ data[u] \in Nat
    BY <1>0, <1>1, <1>5, ThreadTypes
  <2>1. CASE pc[u] = "idle"
    BY <2>0, <2>1 DEF LoadIsRight
  <2>2. CASE pc[u] # "idle" /\ job[u].reg # r
    <3>1. want'[job[u].reg] = want[job[u].reg]
      BY <2>2, <1>3, ThreadTypes
    <3> QED  BY <2>0, <3>1, <1>1, LoadKept
  <2>3. CASE pc[u] # "idle" /\ job[u].reg = r
    <3>1. /\ LoadedFn(u)' = LoadedFn(u) /\ LoadedData(u)' = LoadedData(u)
          /\ LoadedFn(u) \in Fields /\ LoadedData(u) \in Fields
          /\ LoadedFn(u) # DataField(t) /\ LoadedData(u) # FnField(t)
      BY <2>0, <2>3, <1>14, DeliverFields, FieldsDiffer DEF LoadedFn, LoadedData
    <3>2. \A w : StoredFor(w, r)' <=> StoredFor(w, r)
      BY <1>1 DEF StoredFor
    <3>3. \A w : StoredFor(w, r) => w <= tag
      BY DEF StoredFor
    <3>4. f = LoadedFn(u) => v = Null \/ v = tag
      BY <1>4
    <3>5. f = LoadedData(u) => v = tag
      BY <3>1
    <3>6. want'[r][LoadedFn(u)] = IF f = LoadedFn(u) THEN v ELSE want[r][LoadedFn(u)]
      BY <3>1, <1>4
    <3>7. want'[r][LoadedData(u)] = IF f = LoadedData(u) THEN tag ELSE want[r][LoadedData(u)]
      BY <3>1, <3>5, <1>4
    <3>8. data[u] = Null => data[u] <= tag
      BY <1>4 DEF Null
    <3>9. pc[u] \in {"loaddata", "giveup", "done"} /\ fn[u] # Null =>
            /\ StoredFor(fn[u], r)'
            /\ \/ want'[r][LoadedFn(u)] = Null
               \/ fn[u] <= want'[r][LoadedFn(u)]
            /\ job[u].op # "drop" => fn[u] <= want'[r][LoadedData(u)]
      BY <2>0, <2>3, <3>2, <3>3, <3>4, <3>6, <3>7 DEF LoadIsRight
    <3>10. pc[u] \in {"giveup", "done"} /\ fn[u] # Null =>
            /\ data[u] # Null => StoredFor(data[u], r)'
            /\ job[u].op # "drop" =>
                 fn[u] <= data[u] /\ data[u] <= want'[r][LoadedData(u)]
      BY <2>0, <2>3, <3>2, <3>3, <3>7, <3>8 DEF LoadIsRight
    <3>11. job'[u].reg = r /\ job'[t] = job[t]
      BY <2>0, <2>3, <1>1
    <3> QED  BY <2>0, <3>1, <3>9, <3>10, <3>11 DEF LoadIsRight
  <2> QED  BY <2>1, <2>2, <2>3
<1> QED  BY <1>a, <1>b, <1>c, <1>d, <1>e, <1>f, <1>g, <1>h, <1>i, <1>j, <1>k, <1>l, <1>m

\* The data; a dropped handler has none.
LEMMA StoreDataPreserves ==
  ASSUME TypeInv, TypeInv', OrderlyInv, Orderly, NEW t \in Callers, StoreData(t)
  PROVE  OrderlyInv'
<1>0. t \in Threads /\ t \notin Deliverers /\ pc[t] = "store"
  BY ThreadsAssumption DEF Threads, StoreData
<1>1. CASE job[t].op = "dropped"
  <2>1. /\ pc'[t] = "storefn" /\ StepOf(t)
        /\ UNCHANGED <<env, entryVars, implVars, appVars, job, slot, todo>>
    BY <1>0, <1>1 DEF StoreData, Goto, StepOf, entryVars, appVars, TypeInv, ThreadsOK
  <2>2. used' = used /\ key' = key
    BY <2>1 DEF entryVars
  <2>3. Keyed' = Keyed
    BY <1>0, <2>1, <2>2, KeyedKept
  <2>4. CallerAt(t)'
    <3>1. CallerAt(t)
      BY DEF OrderlyInv
    <3> QED  BY <3>1, <1>0, <2>1, <2>2, <2>3 DEF CallerAt
  <2> QED  BY <1>0, <1>1, <2>1, <2>4, OnTheWay
<1>2. CASE job[t].op # "dropped"
  <2>1. Write(t, DataField(t), job[t].tag) /\ Goto(t, "storefn")
    BY <1>2 DEF StoreData
  <2>2. job[t].tag \in Tags /\ DataField(t) \in Fields
    BY <1>0, CallFields DEF TypeInv, ThreadsOK, Jobs
  <2> QED  BY <1>0, <2>1, <2>2, WritePreserves DEF StoreData
<1> QED  BY <1>1, <1>2

\* The function, or null.
LEMMA StoreFnPreserves ==
  ASSUME TypeInv, TypeInv', OrderlyInv, Orderly, NEW t \in Callers, StoreFn(t)
  PROVE  OrderlyInv'
<1> DEFINE v == IF job[t].null THEN Null ELSE job[t].tag
<1>0. t \in Threads /\ pc[t] = "storefn"
  BY DEF Threads, StoreFn
<1>1. Write(t, FnField(t), v) /\ Goto(t, "target")
  BY DEF StoreFn
<1>2. v \in Tags /\ v \in {Null, job[t].tag} /\ FnField(t) \in Fields
  BY <1>0, CallFields, Zeros DEF TypeInv, ThreadsOK, Jobs
<1> HIDE DEF v
<1> QED  BY <1>0, <1>1, <1>2, WritePreserves DEF StoreFn

\* Return is a step of its thread.
LEMMA ReturnsFrom ==
  ASSUME TypeInv, NEW t \in Threads, Return(t)
  PROVE  StepOf(t) /\ pc'[t] = "idle" /\ job'[t] = NoJob
  BY DEF Return, At, Goto, StepOf, TypeInv, TypeOK, ThreadsOK

\* Full, and TARGET, whether it succeeds or fails.
LEMMA CallReturnsPreserves ==
  ASSUME TypeInv, TypeInv', OrderlyInv, Orderly, NEW t \in Callers,
         Full(t) \/ Target(t) \/ TargetFails(t)
  PROVE  OrderlyInv'
<1>0. /\ t \in Threads /\ t \notin Deliverers /\ Return(t)
      /\ pc[t] \in {"nothing", "target"}
      /\ UNCHANGED <<env, entryVars, alive, born, appVars>>
  BY ThreadsAssumption DEF Threads, Full, Target, TargetFails, implVars
<1>1. StepOf(t) /\ pc'[t] = "idle" /\ job'[t] = NoJob
  BY <1>0, ReturnsFrom
<1>2. /\ \A a \in installed' :
           a \in installed \/ (a[1] = job[t].reg /\ ~NoEntry(a[1]))
      /\ \A r \in Regs :
           <<r, "free">> \in installed => <<r, "free">> \in installed'
  <2>1. CASE installed' = installed
    BY <2>1
  <2>2. CASE Target(t)
    <3>1. /\ installed' = installed \ {Association(t)} /\ job[t].op # "free"
          \/ installed' = installed \cup {Association(t)}
      BY <2>2 DEF Target
    <3>2. Association(t)[1] = job[t].reg
      BY DEF Association
    <3>3. ~NoEntry(job[t].reg)
      <4>1. CallerAt(t) /\ pc[t] = "target"
        BY <2>2 DEF OrderlyInv, Target
      <4> QED  BY <4>1 DEF CallerAt, NoEntry
    <3>4. job[t].op # "free" => \A r \in Regs : Association(t) # <<r, "free">>
      <4>1. IsCall(job[t])
        BY <1>0 DEF TypeInv, ThreadsOK, CallerOK
      <4>2. \A r, q, k : <<q, "cb", k>> # <<r, "free">>
        OBVIOUS
      <4> QED  BY <4>1, <4>2 DEF Association, IsCall, CallOps
    <3> QED  BY <3>1, <3>2, <3>3, <3>4
  <2> QED  BY <2>1, <2>2 DEF Full, TargetFails, implVars
<1> QED  BY <1>0, <1>1, <1>2, OnTheWayBack

\* Every step of a call after find.
LEMMA CallStepPreserves ==
  ASSUME TypeInv, TypeInv', OrderlyInv, Orderly, NEW t \in Callers, CallStep(t)
  PROVE  OrderlyInv'
  BY ClaimPreserves, ClaimNextPreserves, StoreKeyPreserves, ClearFieldPreserves,
     StoreDataPreserves, StoreFnPreserves, CallReturnsPreserves DEF CallStep

-----------------------------------------------------------------------------
(* Registrations and calls begin.                                          *)

\* A registration starts without entry and unset, whatever its handle had before.
LEMMA AllocPreserves ==
  ASSUME TypeInv, TypeInv', OrderlyInv, Orderly, NEW r \in Regs, Alloc(r)
  PROVE  OrderlyInv'
<1> USE DEF OrderlyInv
<1>1. /\ r \notin alive /\ alive' = alive \cup {r}
      /\ env = "fresh" => born[r] = -1
      /\ env' = env /\ used' = used /\ key' = key /\ field' = field
      /\ installed' = installed /\ lastTag' = lastTag
      /\ pc' = pc /\ job' = job /\ slot' = slot /\ todo' = todo /\ fn' = fn /\ data' = data
  BY DEF Alloc, entryVars, localVars
<1>2. /\ \A q \in Regs : born'[q] = IF q = r THEN lastTag ELSE born[q]
      /\ \A q \in Regs : q # r => want'[q] = want[q]
      /\ \A f \in Fields : want'[r][f] = Null
      /\ lastTag \in Nat /\ Null = 0
  BY ThreadTypes DEF Alloc, TypeInv, TypeOK, Null
<1>3. Keyed' = Keyed /\ Ended' = Ended /\ Cleared' = Cleared
  BY <1>1 DEF Keyed, Unkeyed, Ended, Cleared, GaveUp
<1>4. \A q : NoEntry(q)' <=> NoEntry(q)
  BY <1>1, <1>3 DEF NoEntry
<1>5. /\ \A t \in Callers : pc[t] # "idle" => job[t].reg \in Regs /\ job[t].reg # r
      /\ \A t \in Deliverers : pc[t] # "idle" => job[t].reg \in Regs /\ job[t].reg # r
  BY <1>1, ThreadTypes DEF RegistrationsLive
<1>6. alive \subseteq Regs
  BY DEF TypeInv, TypeOK
<1>a. CallsAreApart'
  BY <1>1 DEF CallsAreApart
<1>b. RegistrationsLive'
  BY <1>1, <1>2, <1>6 DEF RegistrationsLive
<1>c. ReleasesAreAlone'
  BY <1>1 DEF ReleasesAreAlone
<1>d. EntriesLive'
  BY <1>1, <1>3, <1>4 DEF EntriesLive
<1>e. KeysLeftBehind'
  <2>1. \A s \in Slots : key'[s] # NoReg => born'[key'[s]] # -1
    <3>1. \A s \in Slots : key[s] # NoReg => key[s] \in Regs
      BY DEF TypeInv, TypeOK
    <3> QED  BY <3>1, <1>1, <1>2 DEF KeysLeftBehind
  <2>2. ASSUME NEW s \in Slots, env' = "fresh", key'[s] \in alive'
        PROVE  key'[s] \in Ended' \/ s \in Keyed'
    <3>1. key[s] # r
      BY <2>2, <1>1, NoRegAssumption DEF KeysLeftBehind
    <3> QED  BY <2>2, <3>1, <1>1, <1>3 DEF KeysLeftBehind
  <2> QED  BY <2>1, <2>2, <1>1, <1>3 DEF KeysLeftBehind
<1>f. ClaimsAreApart'
  BY <1>1 DEF ClaimsAreApart
<1>g. ASSUME NEW u \in Callers  PROVE CallerAt(u)'
  <2>1. CallerAt(u)
    OBVIOUS
  <2> QED  BY <2>1, <1>1, <1>3, <1>4 DEF CallerAt
<1>h. ASSUME NEW u \in Deliverers  PROVE DelivererAt(u)'
  <2>1. DelivererAt(u)
    OBVIOUS
  <2> QED  BY <2>1, <1>1, <1>3, <1>4 DEF DelivererAt, GaveUp
<1>i. EntriesHold'
  <2>1. ASSUME NEW q \in alive', NoEntry(q)'  PROVE q \in Ended' \/ Unset(q)'
    <3>1. CASE q = r
      BY <3>1, <1>2 DEF Unset
    <3>2. CASE q # r
      BY <2>1, <3>2, <1>1, <1>2, <1>3, <1>4, <1>6 DEF EntriesHold, Unset
    <3> QED  BY <3>1, <3>2
  <2>2. \A s \in Keyed' : s \notin Cleared' => field'[s] = want'[key'[s]]
    <3>1. \A s \in Keyed : key[s] \in Regs /\ key[s] # r
      BY <1>1, <1>6 DEF EntriesLive
    <3> QED  BY <3>1, <1>1, <1>2, <1>3 DEF EntriesHold
  <2> QED  BY <2>1, <2>2 DEF EntriesHold
<1>j. ASSUME NEW u \in Callers  PROVE ClearsFirst(u)'
  <2>1. pc[u] = "clear" => want'[job[u].reg] = want[job[u].reg]
    BY <1>2, <1>5
  <2> QED  BY <2>1, <1>1, ClearsFirstKept
<1>k. TagsGrow'
  <2>1. \A q \in Regs : born'[q] <= lastTag'
    BY <1>1, <1>2 DEF TagsGrow
  <2>2. ASSUME NEW q \in alive'
        PROVE  /\ \A f \in Fields :
                    want'[q][f] # Null => born'[q] < want'[q][f] /\ want'[q][f] <= lastTag'
               /\ \A l \in Levels : want'[q][<<"cb", l>>] <= want'[q][<<"data", l>>]
               /\ want'[q][<<"freefn", 0>>] <= want'[q][<<"freedata", 0>>]
    <3>1. CASE q = r
      BY <3>1, <1>2, FieldNames
    <3>2. CASE q # r
      <4>1. q \in alive /\ want'[q] = want[q] /\ born'[q] = born[q]
        BY <2>2, <3>2, <1>1, <1>2, <1>6
      <4> QED  BY <4>1, <1>1 DEF TagsGrow
    <3> QED  BY <3>1, <3>2
  <2> QED  BY <2>1, <2>2 DEF TagsGrow
<1>l. ASSUME NEW u \in Callers  PROVE CallIsLast(u)'
  <2>1. pc[u] # "idle" => /\ want'[job[u].reg] = want[job[u].reg]
                          /\ born'[job[u].reg] = born[job[u].reg]
    BY <1>2, <1>5
  <2> QED  BY <2>1, <1>1, CallIsLastKept
<1>m. ASSUME NEW u \in Deliverers  PROVE LoadIsRight(u)'
  <2>1. pc[u] # "idle" => /\ want'[job[u].reg] = want[job[u].reg]
                          /\ born'[job[u].reg] = born[job[u].reg]
    BY <1>2, <1>5
  <2>2. lastTag <= lastTag'
    BY <1>1, <1>2
  <2> QED  BY <2>1, <2>2, <1>1, LoadKept
<1> QED  BY <1>a, <1>b, <1>c, <1>d, <1>e, <1>f, <1>g, <1>h, <1>i, <1>j, <1>k, <1>l, <1>m

\* A call starts with a tag above all others, where none is in its way.
LEMMA CallPreserves ==
  ASSUME TypeInv, TypeInv', OrderlyInv, Orderly, NEW t \in Callers, NEW r \in Regs,
         NEW op \in CallOps, NEW level, NEW null, Call(t, r, op, level, null)
  PROVE  OrderlyInv'
<1> USE DEF OrderlyInv
<1> DEFINE j == [op |-> op, reg |-> r, level |-> level, tag |-> lastTag + 1, null |-> null]
<1>0. t \in Threads /\ t \notin Deliverers
      /\ Callers \subseteq Threads /\ Deliverers \subseteq Threads
  BY ThreadsAssumption DEF Threads
<1>1. /\ pc[t] = "idle" /\ pc'[t] = "find" /\ slot'[t] = 0 /\ job'[t] = j /\ StepOf(t)
      /\ env' = env /\ used' = used /\ key' = key /\ field' = field
      /\ alive' = alive /\ installed' = installed /\ born' = born
      /\ lastTag' = lastTag + 1 /\ want' = want /\ todo' = todo
      /\ fn' = fn /\ data' = data
  BY <1>0 DEF Call, MayCall, At, Goto, StepOf, entryVars, implVars, TypeInv, TypeOK, ThreadsOK
<1>j. j.reg = r /\ j.tag = lastTag + 1
  OBVIOUS
<1> HIDE DEF j
<1>2. /\ r \in alive /\ <<r, "free">> \notin installed
      /\ env = "serialized" => \A u \in Callers : pc[u] = "idle"
      /\ env \in {"fresh", "apart"} => \A u \in Callers : job[u].reg # r
  BY <1>0 DEF Call, MayCall, Freeing, Calling, Busy
<1>3. \A u \in Threads : u # t => /\ pc'[u] = pc[u] /\ slot'[u] = slot[u] /\ job'[u] = job[u]
  BY <1>1 DEF StepOf
<1>4. Keyed' = Keyed /\ Ended' = Ended /\ Cleared' = Cleared
  BY <1>0, <1>1, KeyedKept, EndedKept, ClearedKept
<1>5. \A q : NoEntry(q)' <=> NoEntry(q)
  BY <1>1, <1>4 DEF NoEntry
<1>6. \A u \in Callers : u # t /\ pc[u] # "idle" => env # "serialized" /\ job[u].reg # r
  BY <1>2 DEF Orderly
<1>7. lastTag \in Nat
  BY ThreadTypes
<1>a. CallsAreApart'
  BY <1>0, <1>1, <1>3, <1>6, <1>j DEF CallsAreApart
<1>b. RegistrationsLive'
  BY <1>1, <1>2, <1>3, <1>j DEF RegistrationsLive
<1>c. ReleasesAreAlone'
  <2>1. ASSUME NEW u \in Deliverers, pc'[u] # "idle", job'[u].op = "release"
        PROVE  /\ \A v \in Threads : job'[v].reg = job'[u].reg => v = u
               /\ <<job'[u].reg, "free">> \in installed'
    <3>1. job'[u] = job[u] /\ pc[u] # "idle" /\ <<job[u].reg, "free">> \in installed
      BY <2>1, <1>0, <1>3 DEF ReleasesAreAlone
    <3>2. job[u].reg # r
      BY <3>1, <1>2
    <3> QED  BY <2>1, <3>1, <3>2, <1>1, <1>3, <1>j DEF ReleasesAreAlone
  <2>2. ASSUME NEW u \in Callers, pc'[u] # "idle"
        PROVE  <<job'[u].reg, "free">> \notin installed'
    BY <2>2, <1>0, <1>1, <1>2, <1>3, <1>j DEF ReleasesAreAlone
  <2> QED  BY <2>1, <2>2 DEF ReleasesAreAlone
<1>d. EntriesLive'
  BY <1>1, <1>4, <1>5 DEF EntriesLive
<1>e. KeysLeftBehind'
  BY <1>1, <1>4 DEF KeysLeftBehind
<1>f. ClaimsAreApart'
  <2>1. \A u \in Callers : pc'[u] = "setkey" => u # t /\ pc[u] = "setkey" /\ slot'[u] = slot[u]
    BY <1>0, <1>1, <1>3
  <2> QED  BY <1>1, <2>1 DEF ClaimsAreApart
<1>g. ASSUME NEW u \in Callers  PROVE CallerAt(u)'
  <2>1. CASE u = t
    <3>1. \A s \in Keyed : ~(s < 0)
      BY DEF Keyed, Slots
    <3> QED  BY <2>1, <3>1, <1>1, <1>4 DEF CallerAt
  <2>2. CASE u # t
    <3>1. /\ pc'[u] = pc[u] /\ slot'[u] = slot[u] /\ job'[u] = job[u]
          /\ slot[u] \in Slots /\ Keyed \subseteq Slots /\ Keyed' \subseteq Slots
          /\ CallerAt(u)
      BY <2>2, <1>0, <1>3, ThreadTypes DEF Keyed
    <3> QED  BY <3>1, <1>1, <1>4, CallerKept
  <2> QED  BY <2>1, <2>2
<1>h. ASSUME NEW u \in Deliverers  PROVE DelivererAt(u)'
  <2>1. /\ pc'[u] = pc[u] /\ slot'[u] = slot[u] /\ job'[u] = job[u]
        /\ slot[u] \in Slots /\ Keyed \subseteq Slots
        /\ DelivererAt(u)
    BY <1>0, <1>3, ThreadTypes DEF Keyed
  <2> QED  BY <2>1, <1>1, <1>4, DelivererKept
<1>i. EntriesHold'
  BY <1>1, <1>4, <1>5 DEF EntriesHold, Unset
<1>jj. ASSUME NEW u \in Callers  PROVE ClearsFirst(u)'
  <2>1. CASE u = t
    BY <2>1, <1>1 DEF ClearsFirst
  <2>2. CASE u # t
    <3>1. /\ pc'[u] = pc[u] /\ slot'[u] = slot[u] /\ job'[u] = job[u] /\ ClearsFirst(u)
          /\ \A v \in Deliverers : job'[v] = job[v]
      BY <2>2, <1>0, <1>3
    <3> QED  BY <3>1, <1>1, ClearsFirstKept
  <2> QED  BY <2>1, <2>2
<1>k. TagsGrow'
  <2>1. \A q \in Regs : born[q] \in Int /\ \A f \in Fields : want[q][f] \in Nat
    BY ThreadTypes
  <2>2. \A q \in Regs : born'[q] <= lastTag'
    BY <2>1, <1>1, <1>7 DEF TagsGrow
  <2>3. ASSUME NEW q \in alive', NEW f \in Fields, want'[q][f] # Null
        PROVE  born'[q] < want'[q][f] /\ want'[q][f] <= lastTag'
    <3>1. q \in Regs /\ q \in alive
      BY <2>3, <1>1 DEF TypeInv, TypeOK
    <3> QED  BY <2>1, <2>3, <3>1, <1>1, <1>7 DEF TagsGrow
  <2> QED  BY <2>2, <2>3, <1>1 DEF TagsGrow
<1>l. ASSUME NEW u \in Callers  PROVE CallIsLast(u)'
  <2>1. CASE u = t
    <3>1. born[r] < lastTag + 1
      BY <1>7, ThreadTypes DEF TagsGrow
    <3>2. ASSUME NEW f \in Fields  PROVE want[r][f] <= lastTag + 1
      <4>1. want[r][f] \in Nat /\ (want[r][f] # Null => want[r][f] <= lastTag)
        BY <1>2, ThreadTypes DEF TagsGrow
      <4> QED  BY <4>1, <1>7 DEF Null
    <3> QED  BY <2>1, <3>1, <3>2, <1>1, <1>j DEF CallIsLast
  <2>2. CASE u # t
    BY <2>2, <1>0, <1>1, <1>3, CallIsLastKept
  <2> QED  BY <2>1, <2>2
<1>m. ASSUME NEW u \in Deliverers  PROVE LoadIsRight(u)'
  <2>1. /\ pc'[u] = pc[u] /\ job'[u] = job[u] /\ LoadIsRight(u) /\ lastTag <= lastTag'
    BY <1>0, <1>1, <1>3, <1>7
  <2>2. \A v \in Callers : job'[v] = job[v] \/ job'[v].tag > lastTag
    BY <1>0, <1>1, <1>3, <1>7, <1>j
  <2> QED  BY <2>1, <2>2, <1>1, LoadKept
<1> QED  BY <1>a, <1>b, <1>c, <1>d, <1>e, <1>f, <1>g, <1>h, <1>i, <1>jj, <1>k, <1>l, <1>m

\* The three entry points begin such a call.
LEMMA BeginPreserves ==
  ASSUME TypeInv, TypeInv', OrderlyInv, Orderly, NEW t \in Callers, Begin(t)
  PROVE  OrderlyInv'
<1>1. "cb" \in CallOps /\ "dropped" \in CallOps /\ "free" \in CallOps
  BY DEF CallOps
<1>2. PICK r \in Regs, op \in CallOps : \E level, null : Call(t, r, op, level, null)
  BY <1>1 DEF Begin, Register, SetDropped, HandleFree
<1> QED  BY <1>2, CallPreserves

-----------------------------------------------------------------------------
(* The trampolines.                                                        *)

\* A trampoline starts for r: an event where nothing has freed r, or the free
\* function where no other thread is at work for it.
LEMMA DeliverPreserves ==
  ASSUME TypeInv, TypeInv', OrderlyInv, Orderly, NEW t \in Deliverers, NEW r \in alive,
         NEW op \in DeliverOps, NEW level, Deliver(t, r, op, level),
         \E a \in installed : a[1] = r,
         \/ op # "release" /\ <<r, "free">> \notin installed
         \/ op = "release" /\ <<r, "free">> \in installed /\ Busy(r) = {}
  PROVE  OrderlyInv'
<1> USE DEF OrderlyInv
<1> DEFINE j == [NoJob EXCEPT !.op = op, !.reg = r, !.level = level]
<1>0. t \in Threads /\ t \notin Callers /\ r \in Regs
      /\ Callers \subseteq Threads /\ Deliverers \subseteq Threads
  BY ThreadsAssumption DEF Threads, TypeInv, TypeOK
<1>1. /\ pc[t] = "idle" /\ pc'[t] = "find" /\ slot'[t] = 0 /\ job'[t] = j /\ StepOf(t)
      /\ env' = env /\ used' = used /\ key' = key /\ field' = field
      /\ alive' = alive /\ installed' = installed /\ born' = born
      /\ lastTag' = lastTag /\ want' = want /\ todo' = todo
      /\ fn' = fn /\ data' = data
  BY <1>0 DEF Deliver, At, Goto, StepOf, entryVars, implVars, appVars,
              TypeInv, TypeOK, ThreadsOK
<1>j. j.reg = r /\ j.op = op
  BY DEF NoJob
<1> HIDE DEF j
<1>2. \A u \in Threads : u # t => /\ pc'[u] = pc[u] /\ slot'[u] = slot[u] /\ job'[u] = job[u]
  BY <1>1 DEF StepOf
<1>3. Keyed' = Keyed /\ Ended' = Ended /\ Cleared' = Cleared
  BY <1>0, <1>1, KeyedKept, EndedKept, ClearedKept DEF GaveUp
<1>4. \A q : NoEntry(q)' <=> NoEntry(q)
  BY <1>1, <1>3 DEF NoEntry
<1>5. ~NoEntry(r)
  <2>1. r \notin Ended
    <3> SUFFICES ASSUME NEW u \in Deliverers, GaveUp(u), job[u].reg = r  PROVE FALSE
      BY DEF Ended
    <3>1. <<r, "free">> \in installed /\ Busy(r) # {}
      BY <1>0 DEF ReleasesAreAlone, GaveUp, Busy
    <3> QED  BY <3>1
  <2> QED  BY <2>1 DEF EntriesLive
<1>6. \A u \in Callers : u # t
  BY <1>0
<1>a. CallsAreApart'
  BY <1>0, <1>1, <1>2, <1>6 DEF CallsAreApart
<1>b. RegistrationsLive'
  BY <1>1, <1>2, <1>j DEF RegistrationsLive
<1>c. ReleasesAreAlone'
  <2>1. ASSUME NEW u \in Deliverers, pc'[u] # "idle", job'[u].op = "release"
        PROVE  /\ \A v \in Threads : job'[v].reg = job'[u].reg => v = u
               /\ <<job'[u].reg, "free">> \in installed'
    <3>1. CASE u = t
      <4>1. op = "release" /\ <<r, "free">> \in installed /\ \A v \in Threads : job[v].reg # r
        BY <2>1, <3>1, <1>1, <1>j DEF Busy
      <4> QED  BY <3>1, <4>1, <1>1, <1>2, <1>j
    <3>2. CASE u # t
      <4>1. /\ job'[u] = job[u] /\ pc[u] # "idle" /\ <<job[u].reg, "free">> \in installed
            /\ u \in Threads
        BY <2>1, <3>2, <1>0, <1>2 DEF ReleasesAreAlone
      <4>2. job[u].reg # r
        BY <4>1 DEF Busy
      <4> QED  BY <2>1, <4>1, <4>2, <1>1, <1>2, <1>j DEF ReleasesAreAlone
    <3> QED  BY <3>1, <3>2
  <2>2. ASSUME NEW u \in Callers, pc'[u] # "idle"
        PROVE  <<job'[u].reg, "free">> \notin installed'
    BY <2>2, <1>0, <1>1, <1>2, <1>6 DEF ReleasesAreAlone
  <2> QED  BY <2>1, <2>2 DEF ReleasesAreAlone
<1>d. EntriesLive'
  BY <1>1, <1>3, <1>4 DEF EntriesLive
<1>e. KeysLeftBehind'
  BY <1>1, <1>3 DEF KeysLeftBehind
<1>f. ClaimsAreApart'
  BY <1>0, <1>1, <1>2, <1>6 DEF ClaimsAreApart
<1>g. ASSUME NEW u \in Callers  PROVE CallerAt(u)'
  <2>1. /\ pc'[u] = pc[u] /\ slot'[u] = slot[u] /\ job'[u] = job[u]
        /\ slot[u] \in Slots /\ Keyed \subseteq Slots /\ Keyed' \subseteq Slots
        /\ CallerAt(u)
    BY <1>0, <1>2, <1>6, ThreadTypes DEF Keyed
  <2> QED  BY <2>1, <1>1, <1>3, CallerKept
<1>h. ASSUME NEW u \in Deliverers  PROVE DelivererAt(u)'
  <2>1. CASE u = t
    <3>1. PICK s \in Keyed : key[s] = r /\ 0 <= s
      BY <1>5, ThreadTypes DEF NoEntry, Keyed
    <3> QED  BY <2>1, <3>1, <1>1, <1>3, <1>4, <1>5, <1>j DEF DelivererAt, GaveUp
  <2>2. CASE u # t
    <3>1. /\ pc'[u] = pc[u] /\ slot'[u] = slot[u] /\ job'[u] = job[u]
          /\ slot[u] \in Slots /\ Keyed \subseteq Slots
          /\ DelivererAt(u)
      BY <2>2, <1>0, <1>2, ThreadTypes DEF Keyed
    <3> QED  BY <3>1, <1>1, <1>3, DelivererKept
  <2> QED  BY <2>1, <2>2
<1>i. EntriesHold'
  BY <1>1, <1>3, <1>4 DEF EntriesHold, Unset
<1>jj. ASSUME NEW u \in Callers  PROVE ClearsFirst(u)'
  <2>1. /\ pc'[u] = pc[u] /\ slot'[u] = slot[u] /\ job'[u] = job[u] /\ ClearsFirst(u)
    BY <1>0, <1>2, <1>6
  <2>2. pc[u] = "clear" => job[u].reg # r
    BY <2>1 DEF ClearsFirst
  <2>3. \A v \in Deliverers : v # t => job'[v] = job[v]
    BY <1>0, <1>2
  <2> QED  BY <2>1, <2>2, <2>3, <1>1, <1>j, ClearsFirstKept
<1>k. TagsGrow'
  BY <1>1 DEF TagsGrow
<1>l. ASSUME NEW u \in Callers  PROVE CallIsLast(u)'
  BY <1>0, <1>1, <1>2, <1>6, CallIsLastKept
<1>m. ASSUME NEW u \in Deliverers  PROVE LoadIsRight(u)'
  <2>1. CASE u = t
    BY <2>1, <1>1, SearchLoadsNothing
  <2>2. CASE u # t
    <3>1. /\ pc'[u] = pc[u] /\ job'[u] = job[u] /\ LoadIsRight(u) /\ lastTag <= lastTag'
          /\ \A v \in Callers : job'[v] = job[v]
      BY <2>2, <1>0, <1>1, <1>2, <1>6, ThreadTypes
    <3> QED  BY <3>1, <1>1, LoadKept
  <2> QED  BY <2>1, <2>2
<1> QED  BY <1>a, <1>b, <1>c, <1>d, <1>e, <1>f, <1>g, <1>h, <1>i, <1>jj, <1>k, <1>l, <1>m

\* The implementation calls what is installed, so there is an entry to find.
LEMMA RaisePreserves ==
  ASSUME TypeInv, TypeInv', OrderlyInv, Orderly, NEW t \in Deliverers,
         Raise(t) \/ RaiseFree(t)
  PROVE  OrderlyInv'
<1>0. "event" \in DeliverOps /\ "drop" \in DeliverOps /\ "release" \in DeliverOps
  BY DEF DeliverOps
<1>1. ASSUME Raise(t)  PROVE OrderlyInv'
  <2>1. PICK r \in alive, l \in Levels :
          /\ <<r, "free">> \notin installed
          /\ \/ <<r, "cb", l>> \in installed /\ Deliver(t, r, "event", l)
             \/ <<r, "dropped">> \in installed /\ Deliver(t, r, "drop", l)
    BY <1>1 DEF Raise
  <2>2. <<r, "cb", l>>[1] = r /\ <<r, "dropped">>[1] = r
    OBVIOUS
  <2>3. \E a \in installed : a[1] = r
    BY <2>1, <2>2
  <2>4. CASE Deliver(t, r, "event", l)
    BY <1>0, <2>1, <2>3, <2>4, DeliverPreserves
  <2>5. CASE Deliver(t, r, "drop", l)
    BY <1>0, <2>1, <2>3, <2>5, DeliverPreserves
  <2> QED  BY <2>1, <2>4, <2>5
<1>2. ASSUME RaiseFree(t)  PROVE OrderlyInv'
  <2>1. PICK r \in alive :
          /\ <<r, "free">> \in installed
          /\ Busy(r) = {}
          /\ Deliver(t, r, "release", 0)
    BY <1>2 DEF RaiseFree
  <2>2. \E a \in installed : a[1] = r
    <3>1. <<r, "free">>[1] = r
      OBVIOUS
    <3> QED  BY <2>1, <3>1
  <2> QED  BY <1>0, <2>1, <2>2, DeliverPreserves
<1> QED  BY <1>1, <1>2

\* The entry a trampoline has found holds what the last calls stored.
LEMMA FindsLastCalls ==
  ASSUME TypeInv, OrderlyInv, NEW t \in Deliverers, pc[t] \in {"load", "loaddata"}
  PROVE  /\ job[t].reg \in alive /\ job[t].reg \in Regs
         /\ slot[t] \in Keyed /\ key[slot[t]] = job[t].reg
         /\ field[slot[t]] = want[job[t].reg]
<1> USE DEF OrderlyInv
<1>1. job[t].reg \in alive /\ job[t].reg \in Regs
  BY ThreadTypes DEF RegistrationsLive
<1>2. slot[t] \in Keyed /\ key[slot[t]] = job[t].reg
  BY DEF DelivererAt
<1>3. slot[t] \notin Cleared
  <2> SUFFICES ASSUME NEW u \in Callers, pc[u] = "clear", slot[u] = slot[t]
               PROVE  FALSE
    BY DEF Cleared
  <2>1. job[u].reg = job[t].reg
    BY <1>2 DEF CallerAt
  <2> QED  BY <2>1 DEF ClearsFirst
<1> QED  BY <1>1, <1>2, <1>3 DEF EntriesHold

\* The function loaded is the last one stored.
LEMMA LoadFnPreserves ==
  ASSUME TypeInv, TypeInv', OrderlyInv, Orderly, NEW t \in Deliverers, LoadFn(t)
  PROVE  OrderlyInv'
<1> DEFINE r == job[t].reg
           v == field[slot[t]][LoadedFn(t)]
<1>0. t \in Threads /\ t \notin Callers /\ pc[t] = "load"
  BY ThreadsAssumption DEF Threads, LoadFn
<1>1. /\ StepOf(t) /\ fn'[t] = v /\ slot' = slot
      /\ pc'[t] = IF v # Null THEN "loaddata" ELSE AfterCall(t)
      /\ UNCHANGED <<env, entryVars, implVars, appVars, job, todo>>
  BY <1>0 DEF LoadFn, Goto, StepOf, TypeInv, TypeOK, ThreadsOK
<1>2. used' = used /\ key' = key /\ want' = want /\ born' = born /\ lastTag' = lastTag
      /\ job' = job
  BY <1>1 DEF entryVars, implVars, appVars
<1>3. Keyed' = Keyed
  BY <1>0, <1>1, <1>2, KeyedKept
<1>4. AfterCall(t) = IF job[t].op = "release" THEN "giveup" ELSE "done"
  BY DEF AfterCall
<1>5. ~GaveUp(t) /\ ~GaveUp(t)'
  BY <1>0, <1>1, <1>2, <1>4 DEF GaveUp
<1>6. /\ r \in alive /\ r \in Regs /\ slot[t] \in Keyed /\ key[slot[t]] = r
      /\ field[slot[t]] = want[r]
  BY <1>0, FindsLastCalls
<1>7. DelivererAt(t)'
  BY <1>1, <1>2, <1>3, <1>4, <1>6 DEF DelivererAt, NoEntry
<1>8. LoadIsRight(t)'
  <2>1. CASE v = Null
    BY <2>1, <1>1, <1>4 DEF LoadIsRight
  <2>2. CASE v # Null
    <3>0. /\ LoadedFn(t) \in Fields /\ LoadedData(t) \in Fields /\ pc[t] # "idle"
          /\ v = want[r][LoadedFn(t)] /\ v \in Nat
      BY <1>0, <1>6, DeliverFields, ThreadTypes
    <3>1. StoredFor(v, r)
      <4>1. born[r] < v /\ v <= lastTag
        BY <2>2, <3>0, <1>6 DEF OrderlyInv, TagsGrow
      <4>2. ASSUME NEW u \in Callers, job[u].reg = r  PROVE v <= job[u].tag
        <5>1. pc[u] # "idle"
          BY <4>2, <1>6, NoRegAssumption, ThreadTypes
        <5> QED  BY <4>2, <5>1, <3>0 DEF OrderlyInv, CallIsLast
      <4> QED  BY <4>1, <4>2 DEF StoredFor
    <3>2. job[t].op # "drop" => v <= want[r][LoadedData(t)]
      BY <3>0, <1>6, DeliverFields DEF OrderlyInv, TagsGrow
    <3>3. /\ LoadedFn(t)' = LoadedFn(t) /\ LoadedData(t)' = LoadedData(t)
          /\ \A w : StoredFor(w, r)' <=> StoredFor(w, r)
          /\ job'[t] = job[t]
      BY <1>2 DEF LoadedFn, LoadedData, StoredFor
    <3>4. v <= v /\ pc'[t] = "loaddata"
      BY <3>0, <2>2, <1>1
    <3> QED  BY <2>2, <3>0, <3>1, <3>2, <3>3, <3>4, <1>1, <1>2 DEF LoadIsRight
  <2> QED  BY <2>1, <2>2
<1>9. pc[t] # "idle" /\ pc'[t] # "idle"
  BY <1>0, <1>1, <1>4
<1> QED  BY <1>0, <1>1, <1>5, <1>7, <1>8, <1>9, OnTheWay

\* The data loaded is the last stored, and not older than the function.
LEMMA LoadDataPreserves ==
  ASSUME TypeInv, TypeInv', OrderlyInv, Orderly, NEW t \in Deliverers, LoadData(t)
  PROVE  OrderlyInv'
<1> DEFINE r == job[t].reg
           v == field[slot[t]][LoadedData(t)]
<1>0. t \in Threads /\ t \notin Callers /\ pc[t] = "loaddata"
  BY ThreadsAssumption DEF Threads, LoadData
<1>1. /\ StepOf(t) /\ data'[t] = v /\ fn' = fn /\ slot' = slot
      /\ pc'[t] = AfterCall(t)
      /\ UNCHANGED <<env, entryVars, implVars, appVars, job, todo>>
  BY <1>0 DEF LoadData, Goto, StepOf, TypeInv, TypeOK, ThreadsOK
<1>2. used' = used /\ key' = key /\ want' = want /\ born' = born /\ lastTag' = lastTag
      /\ job' = job
  BY <1>1 DEF entryVars, implVars, appVars
<1>3. Keyed' = Keyed
  BY <1>0, <1>1, <1>2, KeyedKept
<1>4. AfterCall(t) = IF job[t].op = "release" THEN "giveup" ELSE "done"
  BY DEF AfterCall
<1>5. ~GaveUp(t) /\ ~GaveUp(t)'
  BY <1>0, <1>1, <1>2, <1>4 DEF GaveUp
<1>6. /\ r \in alive /\ r \in Regs /\ slot[t] \in Keyed /\ key[slot[t]] = r
      /\ field[slot[t]] = want[r]
  BY <1>0, FindsLastCalls
<1>7. DelivererAt(t)'
  BY <1>1, <1>2, <1>3, <1>4, <1>6 DEF DelivererAt, NoEntry
<1>8. LoadIsRight(t)'
  <2>0. /\ LoadedData(t) \in Fields /\ v = want[r][LoadedData(t)] /\ v \in Nat
        /\ LoadIsRight(t) /\ fn[t] # Null
    BY <1>0, <1>6, DeliverFields, ThreadTypes DEF OrderlyInv, LoadIsRight
  <2>1. v # Null => StoredFor(v, r)
    <3> SUFFICES ASSUME v # Null  PROVE StoredFor(v, r)
      OBVIOUS
    <3>1. born[r] < v /\ v <= lastTag
      BY <2>0, <1>6 DEF OrderlyInv, TagsGrow
    <3>2. ASSUME NEW u \in Callers, job[u].reg = r  PROVE v <= job[u].tag
      <4>1. pc[u] # "idle"
        BY <3>2, <1>6, NoRegAssumption, ThreadTypes
      <4> QED  BY <3>2, <4>1, <2>0 DEF OrderlyInv, CallIsLast
    <3> QED  BY <3>1, <3>2 DEF StoredFor
  <2>2. /\ StoredFor(fn[t], r)
        /\ \/ want[r][LoadedFn(t)] = Null
           \/ fn[t] <= want[r][LoadedFn(t)]
        /\ job[t].op # "drop" => fn[t] <= v
    BY <2>0, <1>0 DEF LoadIsRight
  <2>3. /\ LoadedFn(t)' = LoadedFn(t) /\ LoadedData(t)' = LoadedData(t)
        /\ \A w : StoredFor(w, r)' <=> StoredFor(w, r)
        /\ job'[t] = job[t] /\ pc'[t] # "loaddata"
    BY <1>1, <1>2, <1>4 DEF LoadedFn, LoadedData, StoredFor
  <2>4. v <= v
    BY <2>0
  <2> QED  BY <2>0, <2>1, <2>2, <2>3, <2>4, <1>1, <1>2 DEF LoadIsRight
<1>9. pc[t] # "idle" /\ pc'[t] # "idle"
  BY <1>0, <1>1, <1>4
<1> QED  BY <1>0, <1>1, <1>5, <1>7, <1>8, <1>9, OnTheWay

\* The entry of a registration nobody else works for is given up.
LEMMA GiveUpPreserves ==
  ASSUME TypeInv, TypeInv', OrderlyInv, Orderly, NEW t \in Deliverers, GiveUp(t)
  PROVE  OrderlyInv'
<1> USE DEF OrderlyInv
<1> DEFINE r == job[t].reg
           sl == slot[t]
<1>0. t \in Threads /\ t \notin Callers /\ sl \in Slots
      /\ Callers \subseteq Threads /\ Deliverers \subseteq Threads
  BY ThreadsAssumption, ThreadTypes DEF Threads
<1>1. /\ pc[t] = "giveup" /\ pc'[t] = "done" /\ StepOf(t)
      /\ used' = [used EXCEPT ![sl] = FALSE]
      /\ env' = env /\ key' = key /\ field' = field
      /\ alive' = alive /\ installed' = installed /\ born' = born
      /\ lastTag' = lastTag /\ want' = want /\ job' = job /\ slot' = slot /\ todo' = todo
      /\ fn' = fn /\ data' = data
  BY <1>0 DEF GiveUp, Goto, StepOf, implVars, appVars, TypeInv, ThreadsOK
<1>2. \A u \in Threads : u # t => pc'[u] = pc[u]
  BY <1>1 DEF StepOf
<1>3. /\ job[t].op = "release" /\ sl \in Keyed /\ key[sl] = r /\ r \in Regs
      /\ \A u \in Threads : u # t => job[u].reg # r
  BY <1>0, <1>1, ThreadTypes DEF DelivererAt, ReleasesAreAlone
<1>4. Cleared' = Cleared
  BY <1>0, <1>1, ClearedKept
<1>5. Keyed' = Keyed \ {sl}
  <2>1. \A s \in Slots : Unkeyed(s)' <=> Unkeyed(s)
    BY <1>0, <1>1, <1>2 DEF Unkeyed
  <2>2. \A s \in Slots : used'[s] <=> used[s] /\ s # sl
    BY <1>0, <1>1 DEF TypeInv, TypeOK
  <2> QED  BY <2>1, <2>2 DEF Keyed
<1>6. Ended' = Ended \cup {r}
  <2>1. GaveUp(t)' /\ ~GaveUp(t)
    BY <1>1, <1>3 DEF GaveUp
  <2>2. \A u \in Deliverers : u # t => (GaveUp(u)' <=> GaveUp(u))
    BY <1>0, <1>1, <1>2 DEF GaveUp
  <2> QED  BY <1>1, <1>3, <2>1, <2>2 DEF Ended
<1>7. \A s \in Keyed : s \in Slots /\ (s # sl => key[s] # r)
  <2>1. \A s \in Keyed : s \in Slots /\ s \in Nat
    BY ThreadTypes DEF Keyed
  <2> QED  BY <1>3, <2>1 DEF KeysLeftBehind
<1>8. /\ NoEntry(r)'
      /\ \A q : q # r => (NoEntry(q)' <=> NoEntry(q))
  BY <1>1, <1>3, <1>5, <1>7 DEF NoEntry
<1>9. \A u \in Threads : pc'[u] # "idle" <=> pc[u] # "idle"
  BY <1>1, <1>2
<1>a. CallsAreApart'
  BY <1>0, <1>1, <1>9 DEF CallsAreApart
<1>b. RegistrationsLive'
  BY <1>1, <1>9 DEF RegistrationsLive
<1>c. ReleasesAreAlone'
  BY <1>0, <1>1, <1>9 DEF ReleasesAreAlone
<1>d. EntriesLive'
  <2>1. \A s \in Keyed' : key'[s] \in alive'
    BY <1>1, <1>5 DEF EntriesLive
  <2>2. \A q \in Ended' : NoEntry(q)'
    <3> TAKE q \in Ended'
    <3>1. CASE q = r
      BY <3>1, <1>1, <1>8
    <3>2. CASE q # r
      BY <3>2, <1>6, <1>8 DEF EntriesLive
    <3> QED  BY <3>1, <3>2
  <2>3. \A a \in installed' : a[1] \in Ended' \/ ~NoEntry(a[1])'
    BY <1>1, <1>6, <1>8 DEF EntriesLive
  <2> QED  BY <2>1, <2>2, <2>3 DEF EntriesLive
<1>e. KeysLeftBehind'
  BY <1>1, <1>3, <1>5, <1>6 DEF KeysLeftBehind
<1>f. ClaimsAreApart'
  <2>1. \A u \in Callers : pc[u] = "setkey" => slot[u] # sl /\ slot[u] \in Slots
    BY <1>0, <1>3, ThreadTypes DEF Keyed, Unkeyed
  <2>2. \A u \in Callers : pc'[u] = pc[u]
    BY <1>0, <1>2
  <2>3. \A s \in Slots : s # sl => used'[s] = used[s]
    BY <1>0, <1>1 DEF TypeInv, TypeOK
  <2> QED  BY <2>1, <2>2, <2>3, <1>1 DEF ClaimsAreApart
<1>g. ASSUME NEW u \in Callers  PROVE CallerAt(u)'
  <2>1. /\ pc'[u] = pc[u] /\ slot'[u] = slot[u] /\ job'[u] = job[u]
        /\ slot[u] \in Slots /\ Keyed \subseteq Slots /\ Keyed' \subseteq Slots
        /\ CallerAt(u) /\ job[u].reg # r
    BY <1>0, <1>1, <1>2, <1>3, ThreadTypes DEF Keyed
  <2>2. \A s \in Slots : key[s] = job[u].reg => (s \in Keyed' <=> s \in Keyed)
    BY <2>1, <1>3, <1>5
  <2>3. \A s \in Slots : key[s] = job[u].reg => used'[s] = used[s]
    BY <2>1, <1>0, <1>1, <1>3 DEF TypeInv, TypeOK
  <2> QED  BY <2>1, <2>2, <2>3, <1>1, CallerKept
<1>h. ASSUME NEW u \in Deliverers  PROVE DelivererAt(u)'
  <2>1. CASE u = t
    BY <2>1, <1>1, <1>3 DEF DelivererAt, GaveUp
  <2>2. CASE u # t
    <3>1. /\ pc'[u] = pc[u] /\ slot'[u] = slot[u] /\ job'[u] = job[u]
          /\ slot[u] \in Slots /\ Keyed \subseteq Slots
          /\ DelivererAt(u) /\ job[u].reg # r
      BY <2>2, <1>0, <1>1, <1>2, <1>3, ThreadTypes DEF Keyed
    <3>2. \A s \in Keyed : key[s] = job[u].reg => key'[s] = key[s] /\ s \in Keyed'
      BY <3>1, <1>1, <1>3, <1>5
    <3>3. \A s \in Slots : key[s] = job[u].reg => used'[s] = used[s]
      BY <3>1, <1>0, <1>1, <1>3 DEF TypeInv, TypeOK
    <3> QED  BY <3>1, <3>2, <3>3, <1>1, DelivererKept
  <2> QED  BY <2>1, <2>2
<1>i. EntriesHold'
  BY <1>1, <1>4, <1>5, <1>6, <1>8 DEF EntriesHold, Unset
<1>j. ASSUME NEW u \in Callers  PROVE ClearsFirst(u)'
  BY <1>0, <1>1, <1>2, ClearsFirstKept
<1>k. TagsGrow'
  BY <1>1 DEF TagsGrow
<1>l. ASSUME NEW u \in Callers  PROVE CallIsLast(u)'
  BY <1>0, <1>1, <1>2, CallIsLastKept
<1>m. ASSUME NEW u \in Deliverers  PROVE LoadIsRight(u)'
  <2>1. LoadIsRight(u) /\ lastTag <= lastTag'
    BY <1>1, ThreadTypes
  <2>2. CASE u = t
    <3>1. /\ LoadedFn(t)' = LoadedFn(t) /\ LoadedData(t)' = LoadedData(t)
          /\ \A w : StoredFor(w, r)' <=> StoredFor(w, r)
      BY <1>1 DEF LoadedFn, LoadedData, StoredFor
    <3> QED  BY <2>1, <2>2, <3>1, <1>1 DEF LoadIsRight
  <2>3. CASE u # t
    BY <2>1, <2>3, <1>0, <1>1, <1>2, LoadKept
  <2> QED  BY <2>2, <2>3
<1> QED  BY <1>a, <1>b, <1>c, <1>d, <1>e, <1>f, <1>g, <1>h, <1>i, <1>j, <1>k, <1>l, <1>m

\* The free trampoline returns, and its registration is gone.
LEMMA ReleasedPreserves ==
  ASSUME TypeInv, TypeInv', OrderlyInv, Orderly, NEW t \in Deliverers, Delivered(t),
         job[t].op = "release"
  PROVE  OrderlyInv'
<1> USE DEF OrderlyInv
<1> DEFINE r == job[t].reg
<1>0. t \in Threads /\ t \notin Callers
      /\ Callers \subseteq Threads /\ Deliverers \subseteq Threads
  BY ThreadsAssumption DEF Threads
<1>1. /\ pc[t] = "done" /\ pc'[t] = "idle" /\ StepOf(t) /\ job'[t] = NoJob
      /\ alive' = alive \ {r} /\ installed' = {a \in installed : a[1] # r}
      /\ env' = env /\ used' = used /\ key' = key /\ field' = field /\ born' = born
      /\ lastTag' = lastTag /\ want' = want
  <2>1. Return(t) /\ pc[t] \in {"done", "nothing"} /\ pc[t] # "nothing"
    BY DEF Delivered, DelivererAt
  <2> QED  BY <2>1, <1>0, ReturnsFrom DEF Delivered, entryVars, appVars
<1>2. \A u \in Threads : u # t => /\ pc'[u] = pc[u] /\ job'[u] = job[u] /\ slot'[u] = slot[u]
                                  /\ todo'[u] = todo[u] /\ fn'[u] = fn[u] /\ data'[u] = data[u]
  BY <1>1 DEF StepOf
<1>3. /\ GaveUp(t) /\ r \in Regs
      /\ \A u \in Threads : u # t => job[u].reg # r
  BY <1>0, <1>1, ThreadTypes DEF ReleasesAreAlone, GaveUp
<1>4. Keyed' = Keyed /\ Cleared' = Cleared
  BY <1>0, <1>1, KeyedKept, ClearedKept
<1>5. Ended' = Ended \ {r} /\ r \in Ended
  <2>1. \A u \in Deliverers : u # t => (GaveUp(u)' <=> GaveUp(u))
    BY <1>0, <1>2 DEF GaveUp
  <2>2. ~GaveUp(t)'
    BY <1>1 DEF GaveUp
  <2> QED  BY <1>0, <1>2, <1>3, <2>1, <2>2 DEF Ended
<1>6. NoEntry(r)
  BY <1>5 DEF EntriesLive
<1>7. \A q : NoEntry(q)' <=> NoEntry(q)
  BY <1>1, <1>4 DEF NoEntry
<1>8. \A u \in Threads : pc'[u] # "idle" =>
        u # t /\ pc[u] # "idle" /\ job'[u] = job[u] /\ job[u].reg # r
  BY <1>1, <1>2, <1>3
<1>9. \A u \in Threads : job'[u].reg \in Regs => u # t /\ job'[u] = job[u]
  BY <1>1, <1>2, NoRegAssumption, Zeros
<1>10. \A u \in Callers : /\ pc'[u] = pc[u] /\ job'[u] = job[u] /\ slot'[u] = slot[u]
                          /\ todo'[u] = todo[u]
  BY <1>0, <1>2
<1>a. CallsAreApart'
  BY <1>1, <1>10 DEF CallsAreApart
<1>b. RegistrationsLive'
  BY <1>1, <1>8 DEF RegistrationsLive
<1>c. ReleasesAreAlone'
  <2>1. ASSUME NEW u \in Deliverers, pc'[u] # "idle", job'[u].op = "release"
        PROVE  /\ \A v \in Threads : job'[v].reg = job'[u].reg => v = u
               /\ <<job'[u].reg, "free">> \in installed'
    <3>1. /\ job'[u] = job[u] /\ pc[u] # "idle" /\ job[u].reg \in Regs /\ job[u].reg # r
          /\ <<job[u].reg, "free">> \in installed
          /\ \A v \in Threads : job[v].reg = job[u].reg => v = u
      BY <2>1, <1>0, <1>8, ThreadTypes DEF ReleasesAreAlone
    <3>2. <<job[u].reg, "free">>[1] = job[u].reg
      OBVIOUS
    <3> QED  BY <3>1, <3>2, <1>1, <1>9
  <2>2. ASSUME NEW u \in Callers, pc'[u] # "idle"
        PROVE  <<job'[u].reg, "free">> \notin installed'
    BY <2>2, <1>1, <1>10 DEF ReleasesAreAlone
  <2> QED  BY <2>1, <2>2 DEF ReleasesAreAlone
<1>d. EntriesLive'
  <2>1. \A s \in Keyed' : key'[s] \in alive'
    BY <1>1, <1>4, <1>6 DEF EntriesLive, NoEntry
  <2>2. \A q \in Ended' : NoEntry(q)'
    BY <1>5, <1>7 DEF EntriesLive
  <2>3. \A a \in installed' : a[1] \in Ended' \/ ~NoEntry(a[1])'
    BY <1>1, <1>5, <1>7 DEF EntriesLive
  <2> QED  BY <2>1, <2>2, <2>3 DEF EntriesLive
<1>e. KeysLeftBehind'
  BY <1>1, <1>4, <1>5 DEF KeysLeftBehind
<1>f. ClaimsAreApart'
  BY <1>1, <1>10 DEF ClaimsAreApart
<1>g. ASSUME NEW u \in Callers  PROVE CallerAt(u)'
  <2>1. /\ slot[u] \in Slots /\ Keyed \subseteq Slots /\ Keyed' \subseteq Slots
        /\ CallerAt(u)
    BY <1>0, ThreadTypes DEF Keyed
  <2> QED  BY <2>1, <1>1, <1>4, <1>10, CallerKept
<1>h. ASSUME NEW u \in Deliverers  PROVE DelivererAt(u)'
  <2>1. CASE u = t
    BY <2>1, <1>1 DEF DelivererAt
  <2>2. CASE u # t
    <3>1. /\ pc'[u] = pc[u] /\ slot'[u] = slot[u] /\ job'[u] = job[u]
          /\ slot[u] \in Slots /\ Keyed \subseteq Slots
          /\ DelivererAt(u)
      BY <2>2, <1>0, <1>2, ThreadTypes DEF Keyed
    <3> QED  BY <3>1, <1>1, <1>4, DelivererKept
  <2> QED  BY <2>1, <2>2
<1>i. EntriesHold'
  BY <1>1, <1>4, <1>5, <1>7 DEF EntriesHold, Unset
<1>j. ASSUME NEW u \in Callers  PROVE ClearsFirst(u)'
  <2>1. pc[u] = "clear" =>
          \A v \in Deliverers : job'[v].reg = job[u].reg => job'[v] = job[v]
    BY <1>0, <1>9, ThreadTypes
  <2> QED  BY <2>1, <1>1, <1>10, ClearsFirstKept
<1>k. TagsGrow'
  BY <1>1 DEF TagsGrow
<1>l. ASSUME NEW u \in Callers  PROVE CallIsLast(u)'
  BY <1>1, <1>10, CallIsLastKept
<1>m. ASSUME NEW u \in Deliverers  PROVE LoadIsRight(u)'
  <2>1. CASE u = t
    BY <2>1, <1>1 DEF LoadIsRight
  <2>2. CASE u # t
    <3>1. LoadIsRight(u) /\ lastTag <= lastTag'
      BY <1>1, ThreadTypes
    <3> QED  BY <2>2, <3>1, <1>0, <1>1, <1>2, <1>10, LoadKept
  <2> QED  BY <2>1, <2>2
<1> QED  BY <1>a, <1>b, <1>c, <1>d, <1>e, <1>f, <1>g, <1>h, <1>i, <1>j, <1>k, <1>l, <1>m

\* A trampoline returns.
LEMMA DeliveredPreserves ==
  ASSUME TypeInv, TypeInv', OrderlyInv, Orderly, NEW t \in Deliverers, Delivered(t)
  PROVE  OrderlyInv'
<1>1. CASE job[t].op # "release"
  <2>1. /\ t \in Threads /\ t \notin Callers /\ Return(t)
        /\ pc[t] # "idle" /\ ~GaveUp(t) /\ installed' = installed
        /\ UNCHANGED <<env, entryVars, alive, born, appVars>>
    BY <1>1, ThreadsAssumption DEF Threads, Delivered, GaveUp
  <2>2. StepOf(t) /\ pc'[t] = "idle" /\ job'[t] = NoJob
    BY <2>1, ReturnsFrom
  <2> QED  BY <2>1, <2>2, OnTheWayBack
<1> QED  BY <1>1, ReleasedPreserves

-----------------------------------------------------------------------------
\* All actions together.
LEMMA NextPreserves ==
  ASSUME TypeInv, TypeInv', OrderlyInv, Orderly, Orderly', [Next]_vars
  PROVE  OrderlyInv'
<1>1. ASSUME Next  PROVE OrderlyInv'
  BY <1>1, AllocPreserves, LookupPreserves, BeginPreserves, CallStepPreserves,
     RaisePreserves, LoadFnPreserves, LoadDataPreserves, GiveUpPreserves,
     DeliveredPreserves DEF Next, DeliverStep
<1>2. ASSUME UNCHANGED vars  PROVE OrderlyInv'
  <2>1. /\ env' = env /\ used' = used /\ key' = key /\ field' = field
        /\ alive' = alive /\ installed' = installed /\ born' = born
        /\ lastTag' = lastTag /\ want' = want
        /\ pc' = pc /\ job' = job /\ slot' = slot /\ todo' = todo /\ fn' = fn /\ data' = data
    BY <1>2 DEF vars, entryVars, implVars, appVars, localVars
  <2>2. Keyed' = Keyed /\ Ended' = Ended /\ Cleared' = Cleared
    BY <2>1 DEF Keyed, Unkeyed, Ended, Cleared, GaveUp
  <2>3. \A q : NoEntry(q)' <=> NoEntry(q)
    BY <2>1, <2>2 DEF NoEntry
  <2>4. /\ CallsAreApart' /\ RegistrationsLive' /\ ReleasesAreAlone' /\ EntriesLive'
        /\ KeysLeftBehind' /\ ClaimsAreApart' /\ EntriesHold' /\ TagsGrow'
    BY <2>1, <2>2, <2>3
       DEF OrderlyInv, CallsAreApart, RegistrationsLive, ReleasesAreAlone, EntriesLive,
           KeysLeftBehind, ClaimsAreApart, EntriesHold, TagsGrow, Unset
  <2>5. ASSUME NEW u \in Callers  PROVE CallerAt(u)' /\ ClearsFirst(u)' /\ CallIsLast(u)'
    <3>1. CallerAt(u) /\ ClearsFirst(u) /\ CallIsLast(u)
      BY DEF OrderlyInv
    <3>2. CallerAt(u)'
      BY <2>1, <2>2, <2>3, <3>1 DEF CallerAt
    <3> QED  BY <2>1, <3>1, <3>2, ClearsFirstKept, CallIsLastKept
  <2>6. ASSUME NEW u \in Deliverers  PROVE DelivererAt(u)' /\ LoadIsRight(u)'
    <3>1. DelivererAt(u) /\ LoadIsRight(u) /\ lastTag <= lastTag'
      BY <2>1, ThreadTypes DEF OrderlyInv
    <3>2. DelivererAt(u)'
      BY <2>1, <2>2, <2>3, <3>1 DEF DelivererAt, GaveUp
    <3> QED  BY <2>1, <3>1, <3>2, LoadKept
  <2> QED  BY <2>4, <2>5, <2>6 DEF OrderlyInv
<1> QED  BY <1>1, <1>2

\* At the start there is nothing to find.
LEMMA InitIsOrderly == Init => OrderlyInv
<1> SUFFICES ASSUME Init  PROVE OrderlyInv
  OBVIOUS
<1>1. /\ \A t \in Callers : pc[t] = "idle" /\ t \in Threads
      /\ \A t \in Deliverers : pc[t] = "idle" /\ t \in Threads
      /\ \A t \in Threads : pc[t] = "idle"
      /\ alive = {} /\ installed = {} /\ lastTag = 0
      /\ \A s \in Slots : ~used[s] /\ key[s] = NoReg
      /\ \A r \in Regs : born[r] = -1
  BY DEF Init, Threads
<1>2. Keyed = {} /\ Ended = {}
  BY <1>1 DEF Keyed, Ended, GaveUp
<1>3. /\ CallsAreApart /\ RegistrationsLive /\ ReleasesAreAlone /\ EntriesLive
      /\ KeysLeftBehind /\ ClaimsAreApart /\ EntriesHold /\ TagsGrow
  BY <1>1, <1>2
     DEF CallsAreApart, RegistrationsLive, ReleasesAreAlone, EntriesLive,
         KeysLeftBehind, ClaimsAreApart, EntriesHold, TagsGrow
<1>4. \A t \in Callers : CallerAt(t) /\ ClearsFirst(t) /\ CallIsLast(t)
  BY <1>1 DEF CallerAt, ClearsFirst, CallIsLast
<1>5. \A t \in Deliverers : DelivererAt(t) /\ LoadIsRight(t)
  BY <1>1 DEF DelivererAt, LoadIsRight
<1> QED  BY <1>3, <1>4, <1>5 DEF OrderlyInv

\* env never changes, and a crossing is not undone.
LEMMA OrderlyStays ==
  ASSUME [Next]_vars
  PROVE  Orderly' => Orderly
<1>1. ASSUME NEW r \in Regs, Alloc(r)  PROVE env' = env /\ (crossed => crossed')
  BY <1>1 DEF Alloc
<1>2. ASSUME NEW t \in Threads, Lookup(t)  PROVE env' = env /\ (crossed => crossed')
  <2>1. CASE FindHit(t)
    <3>1. crossed' = (crossed \/ Unkeyed(slot[t])) /\ env' = env
      BY <2>1 DEF FindHit
    <3> QED  BY <3>1, Zenon
  <2>2. CASE FindUnused(t) \/ FindUsed(t) \/ FindOther(t)
    BY <2>2 DEF FindUnused, FindUsed, FindOther
  <2> QED  BY <1>2, <2>1, <2>2 DEF Lookup
<1>3. ASSUME NEW t \in Callers, Begin(t)  PROVE env' = env /\ (crossed => crossed')
  BY <1>3 DEF Begin, Register, SetDropped, HandleFree, Call
<1>4. ASSUME NEW t \in Callers, CallStep(t)  PROVE env' = env /\ (crossed => crossed')
  BY <1>4 DEF CallStep, Claim, ClaimNext, StoreKey, ClearField, Full, StoreData,
              StoreFn, Target, TargetFails
<1>5. ASSUME NEW t \in Deliverers, Raise(t) \/ RaiseFree(t)
      PROVE  env' = env /\ (crossed => crossed')
  <2>1. \E r \in alive, op \in {"event", "drop", "release"}, l \in Levels \cup {0} :
          Deliver(t, r, op, l)
    BY <1>5 DEF Raise, RaiseFree
  <2> QED  BY <2>1 DEF Deliver
<1>6. ASSUME NEW t \in Deliverers, DeliverStep(t)  PROVE env' = env /\ (crossed => crossed')
  BY <1>6 DEF DeliverStep, LoadFn, LoadData, GiveUp, Delivered
<1>7. ASSUME UNCHANGED vars  PROVE env' = env /\ (crossed => crossed')
  BY <1>7 DEF vars
<1>8. env' = env /\ (crossed => crossed')
  BY <1>1, <1>2, <1>3, <1>4, <1>5, <1>6, <1>7 DEF Next
<1> QED  BY <1>8 DEF Orderly

\* The inductive invariant of Spec.
EventInv == TypeInv /\ (Orderly => OrderlyInv)

\* The inductive invariant holds.
LEMMA EventInvariant == Spec => []EventInv
<1>1. Init => EventInv
  BY InitIsTyped, InitIsOrderly DEF EventInv
<1>2. EventInv /\ [Next]_vars => EventInv'
  <2> SUFFICES ASSUME EventInv, [Next]_vars  PROVE EventInv'
    OBVIOUS
  <2>1. TypeInv /\ TypeInv'
    BY NextIsTyped DEF EventInv
  <2>2. ASSUME Orderly'  PROVE OrderlyInv'
    BY <2>1, <2>2, OrderlyStays, NextPreserves DEF EventInv
  <2> QED  BY <2>1, <2>2 DEF EventInv
<1> QED  BY <1>1, <1>2, PTL DEF Spec

(***************************************************************************)
(* Where calls do not race for one handle, an event that is delivered      *)
(* calls a function registered in this life of the handle, with data that  *)
(* is not older than the function (set_cb stores the data first,           *)
(* toolevents.c:136-139).  So it is one call at a time, where handles are  *)
(* used again; where calls overlap and no handle is used again; and where  *)
(* both happen, until a search takes an entry that another call has        *)
(* claimed and that still has the searched handle as its old key.          *)
(***************************************************************************)
THEOREM EventsReachTheirFunctions == Spec => []EventsFindTheirFunction
<1>1. EventInv => EventsFindTheirFunction
  <2> SUFFICES ASSUME EventInv, Orderly, NEW t \in Deliverers,
                      pc[t] \in {"giveup", "done"}, fn[t] # Null
               PROVE  /\ fn[t] > born[job[t].reg]
                      /\ \/ fn[t] <= want[job[t].reg][LoadedFn(t)]
                         \/ want[job[t].reg][LoadedFn(t)] = Null
                      /\ job[t].op # "drop" =>
                           /\ data[t] >= fn[t]
                           /\ data[t] <= want[job[t].reg][LoadedData(t)]
                      /\ job[t].op = "drop" =>
                           data[t] = Null \/ data[t] > born[job[t].reg]
    BY DEF EventsFindTheirFunction
  <2>1. LoadIsRight(t)
    BY DEF EventInv, OrderlyInv
  <2>2. /\ fn[t] \in Nat /\ data[t] \in Nat /\ born[job[t].reg] \in Int
    BY ThreadTypes DEF EventInv
  <2> QED  BY <2>1, <2>2 DEF LoadIsRight, StoredFor
<1> QED  BY <1>1, EventInvariant, PTL

(***************************************************************************)
(* In the same cases, while no call is in progress for a handle, find      *)
(* comes to the entry that holds what the last calls stored for it: the    *)
(* keys that stay in slots given up are behind it, or, where calls overlap *)
(* and handles are used again, a slot before it with its key is one that a *)
(* call is about to put another key in (toolevents.c:84-125).              *)
(***************************************************************************)
THEOREM EntriesHoldLastCalls == Spec => []EntryHoldsLastCalls
<1>1. EventInv => EntryHoldsLastCalls
  <2> SUFFICES ASSUME EventInv, Orderly, NEW r \in alive, Busy(r) = {},
                      NEW f \in Fields, want[r][f] # Null
               PROVE  \E s \in Found(r) : field[s] = want[r]
    BY DEF EntryHoldsLastCalls
  <2> USE DEF EventInv, OrderlyInv
  <2>0. Callers \subseteq Threads /\ Deliverers \subseteq Threads
    BY DEF Threads
  <2>1. r \notin Ended
    BY <2>0 DEF Ended, Busy
  <2>2. ~NoEntry(r)
    BY <2>1 DEF EntriesHold, Unset
  <2>3. PICK s \in Keyed : key[s] = r
    BY <2>2 DEF NoEntry
  <2>4. s \notin Cleared
    <3> SUFFICES ASSUME NEW u \in Callers, pc[u] = "clear", slot[u] = s  PROVE FALSE
      BY DEF Cleared
    <3>1. job[u].reg = r
      BY <2>3 DEF CallerAt
    <3> QED  BY <3>1, <2>0 DEF Busy
  <2>5. field[s] = want[r]
    BY <2>3, <2>4 DEF EntriesHold
  <2>6. s \in Found(r)
    <3>1. s \in Slots /\ used[s]
      BY <2>3 DEF Keyed
    <3>2. ASSUME NEW s2 \in Slots, s2 < s, used[s2], key[s2] = r
          PROVE  env = "apart" /\ Unkeyed(s2)
      <4>0. s \in Int /\ s2 \in Int /\ s # s2 /\ ~(s < s2)
        BY <3>1, <3>2, ThreadTypes
      <4>1. env = "apart"
        BY <3>2, <2>3, <4>0 DEF KeysLeftBehind
      <4>2. s2 \notin Keyed
        BY <3>2, <2>3, <4>0 DEF KeysLeftBehind
      <4> QED  BY <3>2, <4>1, <4>2 DEF Keyed
    <3> QED  BY <2>3, <3>1, <3>2 DEF Found
  <2> QED  BY <2>5, <2>6
<1> QED  BY <1>1, EventInvariant, PTL

(***************************************************************************)
(* In the same cases, every entry in use is that of a registration that    *)
(* exists, or about to get its key: the free trampoline gives every entry  *)
(* up (toolevents.c:246-249), and no other is made for its handle.         *)
(***************************************************************************)
THEOREM EntriesComeBack == Spec => []EntriesAreReclaimed
<1>1. EventInv => EntriesAreReclaimed
  BY DEF EventInv, OrderlyInv, EntriesLive, EntriesAreReclaimed, DeadEntriesAreReleased,
         Keyed
<1> QED  BY <1>1, EventInvariant, PTL
=============================================================================
