------------------------- MODULE StagedRequestsProofs ------------------------
(***************************************************************************)
(* Proofs about StagedRequests, for any number of threads, operations and  *)
(* handles, any size of the table and any hash.  StagedInv is inductive:   *)
(* its first part in every environment, InOrder in those of Orderly.       *)
(* ArraysInOrder is too, in all but "immediate"; it says less, and enough  *)
(* for arrays not to be freed in use.                                      *)
(***************************************************************************)
EXTENDS StagedRequests, FiniteSetTheorems, SequenceTheorems, TLAPS

Posting  == {"keep", "attach", "cas", "store", "stored"}
Removing == {"release", "look", "lock", "take", "uncount", "unlock", "free"}
Taken    == {"uncount", "unlock", "free"}
Locking  == {"take", "uncount", "unlock"}

\* The i-th slot a probing for h looks at.
PosAt(h, i) ==
  IF Home[h] + i < Capacity THEN Home[h] + i ELSE Home[h] + i - Capacity

\* The call of t has yet to release what is stored under h.
Pending(t, h) == \E i \in 1 .. 2 : i <= Len(todo[t]) /\ todo[t][i] = h

Types ==
  /\ env    \in Environments
  /\ key    \in [Slots -> Handles \cup {Empty, Locked, Tomb}]
  /\ blk    \in [Slots -> Ops \cup {None}]
  /\ live   \in Int
  /\ kind   \in [Ops -> {"plain", "nonblocking", "persistent"}]
  /\ phase  \in [Ops -> {"active", "inactive", "complete", "finished"}]
  /\ handle \in [Ops -> Handles \cup {None}]
  /\ block  \in [Ops -> {"none", "held", "freed", "freed twice", "full", "duplicate"}]
  /\ pc     \in [Threads -> Posting \cup Removing \cup {"idle", "any"}]
  /\ op     \in [Threads -> Ops \cup {None}]
  /\ todo   \in [Threads -> Seq(Handles)]
  /\ slot   \in [Threads -> Slots]
  /\ probe  \in [Threads -> 0 .. Capacity]
  /\ seen   \in [Threads -> {Empty, Tomb}]

\* Where a thread is says what it has in hand.
InHand ==
  \A t \in Threads :
    /\ Len(todo[t]) <= 2
    /\ pc[t] \in Removing => todo[t] # <<>>
    /\ pc[t] \in Posting \cup {"idle"} => todo[t] = <<>>
    /\ pc[t] \in Posting => op[t] \in Ops /\ phase[op[t]] # "finished"
    /\ pc[t] \notin Posting \cup Taken => op[t] = None
    /\ pc[t] \in {"cas", "lock"} => probe[t] < Capacity

RequestsHaveHandles ==
  \A o \in Ops : phase[o] # "finished" => handle[o] \in Handles

\* A block in a slot, or in the hands of a thread, has not been freed.
PlacesHold ==
  /\ \A s \in Slots : blk[s] # None => block[blk[s]] = "held"
  /\ \A t \in Threads : op[t] # None => block[op[t]] = "held"

\* It is in one place, unless it has just been stored.
OnePlace ==
  /\ \A s, r \in Slots : blk[s] # None /\ blk[s] = blk[r] => s = r
  /\ \A t, u \in Threads : op[t] # None /\ op[t] = op[u] => t = u
  /\ \A t \in Threads, s \in Slots :
       op[t] # None /\ blk[s] = op[t] => pc[t] = "stored" /\ slot[t] = s

HeldHasPlace ==
  \A o \in Ops : block[o] = "held" =>
    (\E s \in Slots : blk[s] = o) \/ (\E t \in Threads : op[t] = o)

\* What a thread finds at its slot.
AtSlot ==
  \A t \in Threads :
    /\ pc[t] = "store"  => key[slot[t]] = handle[op[t]] /\ blk[slot[t]] = None
    /\ pc[t] = "stored" => key[slot[t]] = handle[op[t]] /\ blk[slot[t]] = op[t]
    /\ pc[t] = "lock"   => key[slot[t]] = Head(todo[t])
    /\ pc[t] \in Locking => key[slot[t]] = Locked
    /\ pc[t] = "take" =>
         blk[slot[t]] # None /\ handle[blk[slot[t]]] = Head(todo[t])
    /\ pc[t] \in {"uncount", "unlock"} => blk[slot[t]] = None
    /\ pc[t] \in Taken =>
         /\ op[t] # None
         /\ phase[op[t]] = "finished"
         /\ handle[op[t]] = Head(todo[t])

LockIsExclusive ==
  /\ \A t, u \in Threads :
       pc[t] \in Locking /\ pc[u] \in Locking /\ slot[t] = slot[u] => t = u
  /\ \A s \in Slots : key[s] = Locked =>
       \E t \in Threads : pc[t] \in Locking /\ slot[t] = s

\* A key and the block beside it.
KeyNamesBlock ==
  \A s \in Slots :
    /\ key[s] # BuiltIn
    /\ blk[s] # None =>
         \/ key[s] = handle[blk[s]]
         \/ \E t \in Threads : pc[t] = "take" /\ slot[t] = s
    /\ key[s] \in Handles /\ blk[s] = None =>
         \E t \in Threads : pc[t] = "store" /\ slot[t] = s

\* While a block is held, the implementation's handle stays its own.
Alive(o) == phase[o] # "finished" \/ block[o] = "held"

OneHandle ==
  /\ \A o \in Ops : Alive(o) <=> handle[o] # None
  /\ \A o, p \in Ops :
       handle[o] \notin {None, BuiltIn} /\ handle[o] = handle[p] => o = p

\* What has the built-in handle is complete, and nothing is kept for it.
BuiltInIsComplete ==
  \A o \in Ops : handle[o] = BuiltIn =>
    /\ phase[o] = "complete"
    /\ kind[o] # "persistent"
    /\ block[o] = "held" => kind[o] = "nonblocking" /\ \E t \in Threads : pc[t] = "keep" /\ op[t] = o

PendingIsOver ==
  \A t \in Threads, h \in Handles \ {BuiltIn} : Pending(t, h) =>
    /\ \A o \in Ops : phase[o] # "finished" => handle[o] # h
    /\ \A u \in Threads : Pending(u, h) => u = t
    /\ Len(todo[t]) = 2 => todo[t][1] # todo[t][2]

OverIsPending ==
  \A o \in Ops : phase[o] = "finished" /\ block[o] = "held" =>
    \E t \in Threads : Pending(t, handle[o])

Fates ==
  \A o \in Ops :
    /\ block[o] \notin {"freed twice", "duplicate"}
    /\ block[o] = "freed" => phase[o] = "complete" /\ kind[o] = "nonblocking"

\* Slots whose block is on the count: one that is not counted yet is not, one
\* that has been taken and is still counted is.
Storing(t, s) == pc[t] = "stored"  /\ slot[t] = s
Counts(t, s)  == pc[t] = "uncount" /\ slot[t] = s
Counted ==
  {s \in Slots :
     \/ blk[s] # None /\ ~\E t \in Threads : Storing(t, s)
     \/ \E t \in Threads : Counts(t, s)}

CountIsRight == live = Cardinality(Counted)

\* The probing for a key that is in the table passes no empty slot.
Reachable ==
  \A s \in Slots : key[s] \in Handles =>
    \E i \in Slots : /\ s = PosAt(key[s], i)
                     /\ \A j \in 0 .. i - 1 : key[PosAt(key[s], j)] # Empty

AttachHasPassed ==
  \A t \in Threads : pc[t] \in {"attach", "cas"} =>
    /\ handle[op[t]] # BuiltIn
    /\ probe[t] < Capacity => slot[t] = PosAt(handle[op[t]], probe[t])
    /\ \A j \in 0 .. probe[t] - 1 : key[PosAt(handle[op[t]], j)] # Empty
    /\ pc[t] = "cas" /\ seen[t] = Tomb => key[slot[t]] # Empty

LookHasPassed ==
  \A t \in Threads : pc[t] = "look" =>
    /\ probe[t] < Capacity => slot[t] = PosAt(Head(todo[t]), probe[t])
    /\ \A j \in 0 .. probe[t] - 1 : key[PosAt(Head(todo[t]), j)] # Head(todo[t])

InOrder ==
  /\ PlacesHold /\ OnePlace /\ HeldHasPlace
  /\ AtSlot /\ LockIsExclusive /\ KeyNamesBlock
  /\ OneHandle /\ BuiltInIsComplete
  /\ PendingIsOver /\ OverIsPending
  /\ Fates /\ CountIsRight
  /\ Reachable /\ AttachHasPassed /\ LookHasPassed

StagedInv ==
  /\ Types /\ InHand /\ RequestsHaveHandles
  /\ Orderly => InOrder

-----------------------------------------------------------------------------
(* Facts that several steps need. *)

LEMMA Values ==
  /\ None \notin Ops /\ None \notin Handles
  /\ BuiltIn \in Handles
  /\ Empty \notin Handles /\ Tomb \notin Handles /\ Locked \notin Handles
  /\ Empty # Locked /\ Empty # Tomb /\ Locked # Tomb
  /\ Capacity \in Nat /\ Capacity > 0
  BY HandlesAssumption, NoneAssumption, CapacityAssumption DEF Slots

LEMMA ZeroIsSlot == 0 \in Slots /\ 0 \in 0 .. Capacity
  BY CapacityAssumption DEF Slots

LEMMA Ranges ==
  ASSUME Types
  PROVE  /\ \A s \in Slots : /\ blk[s] \in Ops \cup {None}
                            /\ key[s] \in Handles \cup {Empty, Locked, Tomb}
         /\ \A t \in Threads : /\ op[t] \in Ops \cup {None} /\ slot[t] \in Slots
                              /\ probe[t] \in 0 .. Capacity
                              /\ seen[t] \in {Empty, Tomb}
         /\ \A o \in Ops : handle[o] \in Handles \cup {None}
  BY DEF Types

\* The probing for a handle starts at its home and goes on by one, modulo the
\* size of the table (staging.c:96, 105-107).
LEMMA StartsAtHome ==
  ASSUME NEW h \in Handles
  PROVE  Home[h] \in Slots /\ PosAt(h, 0) = Home[h]
  BY HomeAssumption, Values DEF PosAt, Slots

LEMMA NextIsIf ==
  ASSUME NEW s \in Slots
  PROVE  (s + 1) % Capacity = IF s + 1 = Capacity THEN 0 ELSE s + 1
<1> USE Values DEF Slots
<1>1. CASE s + 1 = Capacity
  <2>1. \A c \in Nat : c > 0 => c % c = 0  OBVIOUS
  <2>   QED  BY <1>1, <2>1
<1>2. CASE s + 1 # Capacity
  <2>1. \A c \in Nat, x \in Nat : c > 0 /\ x < c => x % c = x  OBVIOUS
  <2>   QED  BY <1>2, <2>1
<1>   QED  BY <1>1, <1>2

LEMMA NextPos ==
  ASSUME NEW h \in Handles, NEW i \in 0 .. Capacity - 1
  PROVE  /\ PosAt(h, i) \in Slots
         /\ (PosAt(h, i) + 1) % Capacity \in Slots
         /\ i + 1 < Capacity => (PosAt(h, i) + 1) % Capacity = PosAt(h, i + 1)
<1>1. Home[h] \in Slots  BY StartsAtHome
<1>2. PosAt(h, i) \in Slots  BY <1>1, Values DEF PosAt, Slots
<1>3. (PosAt(h, i) + 1) % Capacity
        = IF PosAt(h, i) + 1 = Capacity THEN 0 ELSE PosAt(h, i) + 1
  BY <1>2, NextIsIf
<1>   QED  BY <1>1, <1>2, <1>3, Values DEF PosAt, Slots

\* One turn of a probing loop.
LEMMA SlotStep ==
  ASSUME Types, NEW t \in Threads, NextSlot(t), probe[t] < Capacity
  PROVE  /\ slot' \in [Threads -> Slots] /\ probe' \in [Threads -> 0 .. Capacity]
         /\ seen' = seen
         /\ probe'[t] = probe[t] + 1
         /\ \A u \in Threads \ {t} : slot'[u] = slot[u] /\ probe'[u] = probe[u]
         /\ \A h \in Handles : slot[t] = PosAt(h, probe[t]) /\ probe'[t] < Capacity
              => slot'[t] = PosAt(h, probe'[t])
<1>1. probe[t] \in 0 .. Capacity /\ slot[t] \in Slots  BY DEF Types
<1>2. probe[t] \in 0 .. Capacity - 1 /\ probe[t] + 1 \in 0 .. Capacity
  BY <1>1, Values
<1>3. (slot[t] + 1) % Capacity \in Slots
  <2>1. slot[t] \in 0 .. Capacity - 1  BY <1>1 DEF Slots
  <2>2. (IF slot[t] + 1 = Capacity THEN 0 ELSE slot[t] + 1) \in 0 .. Capacity - 1
    BY <2>1, Values
  <2>   QED  BY <1>1, <2>2, NextIsIf DEF Slots
<1>4. /\ slot'  = [slot EXCEPT ![t] = (slot[t] + 1) % Capacity]
      /\ probe' = [probe EXCEPT ![t] = probe[t] + 1]
      /\ seen' = seen
  BY DEF NextSlot
<1>5. slot'[t] = (slot[t] + 1) % Capacity /\ probe'[t] = probe[t] + 1
  BY <1>4 DEF Types
<1>6. \A h \in Handles : slot[t] = PosAt(h, probe[t]) /\ probe'[t] < Capacity
        => slot'[t] = PosAt(h, probe'[t])
  BY <1>2, <1>5, NextPos
<1>   QED  BY <1>2, <1>3, <1>4, <1>5, <1>6 DEF Types

\* The handles of a call that releases one or two.
LEMMA Handful ==
  ASSUME NEW q \in Seq(Handles), q # <<>>, Len(q) <= 2
  PROVE  /\ Len(q) \in {1, 2}
         /\ Head(q) = q[1] /\ Head(q) \in Handles
         /\ Len(q) = 2 => /\ Tail(q) \in Seq(Handles) /\ Tail(q) # <<>>
                          /\ Len(Tail(q)) = 1 /\ Tail(q)[1] = q[2]
<1>1. Len(q) \in Nat /\ Len(q) > 0  BY EmptySeq
<1>2. Len(q) \in {1, 2}
  <2>1. \A n \in Nat : n > 0 /\ n <= 2 => n \in {1, 2}  OBVIOUS
  <2>   QED  BY <1>1, <2>1
<1>3. Head(q) = q[1] /\ Head(q) \in Handles  BY HeadTailProperties
<1>4. ASSUME Len(q) = 2
      PROVE  Tail(q) \in Seq(Handles) /\ Len(Tail(q)) = 1 /\ Tail(q)[1] = q[2]
  BY <1>4, HeadTailProperties
<1>5. ASSUME Len(q) = 2  PROVE Tail(q) # <<>>
  <2>1. Len(<<>>) = 0  BY EmptySeq
  <2>2. Tail(q) = <<>> => Len(Tail(q)) = Len(<<>>)  BY Zenon
  <2>3. Len(Tail(q)) = 1  BY <1>4, <1>5
  <2>4. 0 # 1  OBVIOUS
  <2>   QED  BY <2>1, <2>2, <2>3, <2>4, Zenon
<1>   QED  BY <1>2, <1>3, <1>4, <1>5

\* Going on to the next handle leaves the first one behind, and no other.
Advanced(t) ==
  /\ \A u \in Threads \ {t} :
       /\ todo'[u] = todo[u] /\ pc'[u] = pc[u]
       /\ slot'[u] = slot[u] /\ probe'[u] = probe[u] /\ seen'[u] = seen[u]
  /\ Len(todo'[t]) <= 1
  /\ pc'[t] \in {"idle", "release"}
  /\ pc'[t] = "idle" => todo'[t] = <<>>
  /\ pc'[t] = "release" => todo'[t] # <<>>

LeftBehind(t) ==
  /\ \A u \in Threads : \A h : Pending(u, h)' => Pending(u, h)
  /\ \A u \in Threads : \A h :
       Pending(u, h) => Pending(u, h)' \/ (u = t /\ h = Head(todo[t]))

LEMMA Advance ==
  ASSUME Types, InHand, NEW t \in Threads, NextRelease(t), todo[t] # <<>>
  PROVE  /\ Advanced(t) /\ LeftBehind(t)
         /\ todo' \in [Threads -> Seq(Handles)]
         /\ pc' \in [Threads -> Posting \cup Removing \cup {"idle", "any"}]
         /\ slot' \in [Threads -> Slots] /\ probe' \in [Threads -> 0 .. Capacity]
         /\ seen' \in [Threads -> {Empty, Tomb}]
<1>1. Len(todo[t]) <= 2 /\ todo[t] \in Seq(Handles)  BY DEF Types, InHand
<1>2. todo[t][1] = Head(todo[t]) /\ Len(todo[t]) \in {1, 2}  BY <1>1, Handful
<1>3. /\ \A u \in Threads \ {t} : slot'[u] = slot[u] /\ probe'[u] = probe[u] /\ seen'[u] = seen[u]
      /\ slot' \in [Threads -> Slots] /\ probe' \in [Threads -> 0 .. Capacity]
      /\ seen' \in [Threads -> {Empty, Tomb}]
  <2>1. 0 \in Slots /\ 0 \in 0 .. Capacity  BY Values DEF Slots
  <2>2. /\ slot'  = [slot EXCEPT ![t] = 0]
        /\ probe' = [probe EXCEPT ![t] = 0]
        /\ seen'  = [seen EXCEPT ![t] = Empty]
    BY Zenon DEF NextRelease, Return, ResetLoop
  <2>3. slot \in [Threads -> Slots] /\ probe \in [Threads -> 0 .. Capacity]
        /\ seen \in [Threads -> {Empty, Tomb}]
    BY DEF Types
  <2>   QED  BY <2>1, <2>2, <2>3
<1>4. CASE Len(todo[t]) = 1
  <2>1. todo' = [todo EXCEPT ![t] = <<>>] /\ pc' = [pc EXCEPT ![t] = "idle"]
    BY <1>4 DEF NextRelease, Return, Goto
  <2>2. /\ todo'[t] = <<>> /\ \A u \in Threads \ {t} : todo'[u] = todo[u]
        /\ pc'[t] = "idle" /\ \A u \in Threads \ {t} : pc'[u] = pc[u]
        /\ todo' \in [Threads -> Seq(Handles)]
    <3>1. <<>> \in Seq(Handles)  BY EmptySeq
    <3>2. todo \in [Threads -> Seq(Handles)] /\ DOMAIN pc = Threads  BY DEF Types
    <3>   QED  BY <2>1, <3>1, <3>2
  <2>3. Len(todo'[t]) = 0  BY <2>2, EmptySeq
  <2>4. \A u \in Threads : \A h : Pending(u, h)' => Pending(u, h)
    <3> SUFFICES ASSUME NEW u \in Threads, NEW h, NEW i \in 1 .. 2,
                        i <= Len(todo'[u]), todo'[u][i] = h
                 PROVE  Pending(u, h)
      BY DEF Pending
    <3>1. u # t  BY <2>3
    <3>   QED  BY <2>2, <3>1 DEF Pending
  <2>5. \A u \in Threads : \A h : Pending(u, h) => Pending(u, h)' \/ (u = t /\ h = Head(todo[t]))
    <3> SUFFICES ASSUME NEW u \in Threads, NEW h, NEW i \in 1 .. 2,
                        i <= Len(todo[u]), todo[u][i] = h,
                        ~(u = t /\ h = Head(todo[t]))
                 PROVE  Pending(u, h)'
      BY DEF Pending
    <3>1. CASE u = t  BY <1>2, <1>4, <3>1
    <3>2. CASE u # t  BY <2>2, <3>2 DEF Pending
    <3>   QED  BY <3>1, <3>2
  <2>6. pc' \in [Threads -> Posting \cup Removing \cup {"idle", "any"}]
    BY <2>1 DEF Types
  <2>   QED  BY <1>3, <2>2, <2>3, <2>4, <2>5, <2>6 DEF Advanced, LeftBehind
<1>5. CASE Len(todo[t]) = 2
  <2>1. Tail(todo[t]) \in Seq(Handles) /\ Tail(todo[t]) # <<>>
        /\ Len(Tail(todo[t])) = 1 /\ Tail(todo[t])[1] = todo[t][2]
    BY <1>1, <1>5, Handful
  <2>2. todo' = [todo EXCEPT ![t] = Tail(todo[t])] /\ pc' = [pc EXCEPT ![t] = "release"]
    BY <1>5 DEF NextRelease, Goto
  <2>3. /\ todo'[t] = Tail(todo[t]) /\ \A u \in Threads \ {t} : todo'[u] = todo[u]
        /\ pc'[t] = "release" /\ \A u \in Threads \ {t} : pc'[u] = pc[u]
        /\ todo' \in [Threads -> Seq(Handles)]
    BY <2>1, <2>2 DEF Types
  <2>4. \A u \in Threads : \A h : Pending(u, h)' => Pending(u, h)
    <3> SUFFICES ASSUME NEW u \in Threads, NEW h, NEW i \in 1 .. 2,
                        i <= Len(todo'[u]), todo'[u][i] = h
                 PROVE  Pending(u, h)
      BY DEF Pending
    <3>1. CASE u = t
      <4>1. i = 1  BY <2>1, <2>3, <3>1
      <4>2. todo[t][2] = h  BY <2>1, <2>3, <3>1, <4>1
      <4>3. 2 \in 1 .. 2 /\ 2 <= Len(todo[t])  BY <1>5
      <4>   QED  BY <3>1, <4>2, <4>3, Zenon DEF Pending
    <3>2. CASE u # t  BY <2>3, <3>2 DEF Pending
    <3>   QED  BY <3>1, <3>2
  <2>5. \A u \in Threads : \A h : Pending(u, h) => Pending(u, h)' \/ (u = t /\ h = Head(todo[t]))
    <3> SUFFICES ASSUME NEW u \in Threads, NEW h, NEW i \in 1 .. 2,
                        i <= Len(todo[u]), todo[u][i] = h,
                        ~(u = t /\ h = Head(todo[t]))
                 PROVE  Pending(u, h)'
      BY DEF Pending
    <3>1. CASE u = t
      <4>1. i = 2  BY <1>2, <3>1
      <4>2. 1 <= Len(todo'[u]) /\ todo'[u][1] = h  BY <2>1, <2>3, <3>1, <4>1
      <4>   QED  BY <4>2 DEF Pending
    <3>2. CASE u # t  BY <2>3, <3>2 DEF Pending
    <3>   QED  BY <3>1, <3>2
  <2>6. pc' \in [Threads -> Posting \cup Removing \cup {"idle", "any"}]
    BY <2>2 DEF Types, Removing
  <2>7. Len(todo'[t]) <= 1 /\ todo'[t] # <<>>  BY <2>1, <2>3
  <2>   QED  BY <1>3, <2>3, <2>4, <2>5, <2>6, <2>7 DEF Advanced, LeftBehind
<1>   QED  BY <1>2, <1>4, <1>5

\* The handle a call is at is one it has yet to release.
LEMMA HeadIsPending ==
  ASSUME Types, InHand, NEW t \in Threads, pc[t] \in Removing
  PROVE  Head(todo[t]) \in Handles /\ Pending(t, Head(todo[t]))
<1>1. todo[t] \in Seq(Handles) /\ todo[t] # <<>> /\ Len(todo[t]) <= 2
  BY DEF Types, InHand
<1>   QED  BY <1>1, Handful DEF Pending

LEMMA PendingIsHandle ==
  ASSUME Types, NEW t \in Threads, NEW h, Pending(t, h)
  PROVE  h \in Handles /\ todo[t] # <<>>
<1>1. PICK i \in 1 .. 2 : i <= Len(todo[t]) /\ todo[t][i] = h  BY DEF Pending
<1>2. todo[t] \in Seq(Handles)  BY DEF Types
<1>   QED  BY <1>1, <1>2

\* A block in a slot belongs to an operation with a handle of its own.
LEMMA InTable ==
  ASSUME Types, InHand, InOrder, NEW s \in Slots, blk[s] # None
  PROVE  /\ blk[s] \in Ops /\ block[blk[s]] = "held"
         /\ handle[blk[s]] \in Handles \ {BuiltIn}
<1>1. blk[s] \in Ops /\ block[blk[s]] = "held"
  <2>1. blk[s] \in Ops \cup {None}  BY DEF Types
  <2>   QED  BY <2>1 DEF InOrder, PlacesHold
<1>2. handle[blk[s]] \in Handles  BY <1>1, Values DEF Types, InOrder, OneHandle, Alive
<1>3. ASSUME handle[blk[s]] = BuiltIn PROVE FALSE
  <2>1. PICK t \in Threads : pc[t] = "keep" /\ op[t] = blk[s]
    BY <1>1, <1>3 DEF InOrder, BuiltInIsComplete
  <2>   QED  BY <2>1 DEF InOrder, OnePlace
<1>   QED  BY <1>1, <1>2, <1>3

\* The operation of a call that keeps its block has a handle of its own.
LEMMA Kept ==
  ASSUME Types, InHand, InOrder, NEW t \in Threads, pc[t] \in Posting \ {"keep"}
  PROVE  /\ op[t] \in Ops /\ block[op[t]] = "held" /\ phase[op[t]] # "finished"
         /\ handle[op[t]] \in Handles \ {BuiltIn}
<1>1. op[t] \in Ops /\ op[t] # None /\ phase[op[t]] # "finished"
  BY Values DEF InHand
<1>2. block[op[t]] = "held"  BY <1>1 DEF InOrder, PlacesHold
<1>3. handle[op[t]] \in Handles
  BY <1>1, Values DEF Types, InOrder, OneHandle, Alive
<1>4. ASSUME handle[op[t]] = BuiltIn PROVE FALSE
  <2>1. PICK u \in Threads : pc[u] = "keep" /\ op[u] = op[t]
    BY <1>1, <1>2, <1>4 DEF InOrder, BuiltInIsComplete
  <2>   QED  BY <1>1, <2>1 DEF InOrder, OnePlace
<1>   QED  BY <1>1, <1>2, <1>3, <1>4

\* No other block is in the hands of a call that is to store or release one.
LEMMA OverIsInTable ==
  ASSUME Types, InHand, InOrder, NEW t \in Threads, pc[t] \notin Taken \cup {"take"},
         NEW o \in Ops, phase[o] = "finished", block[o] = "held",
         Pending(t, handle[o])
  PROVE  \E s \in Slots : blk[s] = o /\ key[s] = handle[o] /\ s \in Counted
<1>1. handle[o] \in Handles \ {BuiltIn}
  BY PendingIsHandle DEF InOrder, BuiltInIsComplete
<1>2. \A u \in Threads : Pending(u, handle[o]) => u = t
  BY <1>1 DEF InOrder, PendingIsOver
<1>3. \A u \in Threads : op[u] # o
  <2> SUFFICES ASSUME NEW u \in Threads, op[u] = o PROVE FALSE  OBVIOUS
  <2>1. CASE pc[u] \in Posting  BY <2>1 DEF InHand
  <2>2. CASE pc[u] \in Taken
    <3>1. handle[o] = Head(todo[u])  BY <2>2 DEF InOrder, AtSlot
    <3>2. Pending(u, handle[o])  BY <2>2, <3>1, HeadIsPending DEF Taken, Removing
    <3>   QED  BY <1>2, <2>2, <3>2
  <2>   QED  BY <2>1, <2>2, Values DEF InHand
<1>4. PICK s \in Slots : blk[s] = o  BY <1>3 DEF InOrder, HeldHasPlace
<1>5. key[s] = handle[o]
  <2> SUFFICES ASSUME NEW u \in Threads, pc[u] = "take", slot[u] = s PROVE FALSE
    BY <1>4, Values DEF InOrder, KeyNamesBlock
  <2>1. handle[o] = Head(todo[u])  BY <1>4 DEF InOrder, AtSlot
  <2>2. Pending(u, handle[o])  BY <2>1, HeadIsPending DEF Removing
  <2>   QED  BY <1>2, <2>2
<1>6. s \in Counted
  <2>1. ~\E u \in Threads : Storing(u, s)
    BY <1>3, <1>4 DEF InOrder, AtSlot, Storing
  <2>   QED  BY <1>4, <2>1, Values DEF Counted
<1>   QED  BY <1>4, <1>5, <1>6

LEMMA SlotsFinite == IsFiniteSet(Slots) /\ IsFiniteSet(Counted)
<1>1. IsFiniteSet(Slots)  BY FS_Interval, Values DEF Slots
<1>   QED  BY <1>1, FS_Subset DEF Counted

\* When the count is zero there is nothing to release (staging.c:261).
LEMMA ZeroIsEmpty ==
  ASSUME InOrder, live = 0
  PROVE  Counted = {}
  BY SlotsFinite, FS_EmptySet DEF InOrder, CountIsRight

\* The key a call is to store is not in the table yet.
LEMMA KeyIsNew ==
  ASSUME Types, InHand, InOrder, NEW t \in Threads, pc[t] \in {"attach", "cas"},
         NEW s \in Slots
  PROVE  key[s] # handle[op[t]]
<1> SUFFICES ASSUME key[s] = handle[op[t]] PROVE FALSE  OBVIOUS
<1>1. op[t] \in Ops /\ handle[op[t]] \in Handles \ {BuiltIn}
  BY Kept DEF Posting
<1>2. CASE blk[s] # None
  <2>1. key[s] = handle[blk[s]]
    BY <1>1, <1>2, Values DEF InOrder, KeyNamesBlock, AtSlot, Locking
  <2>2. blk[s] = op[t]  BY <1>1, <1>2, <2>1, InTable, Values DEF InOrder, OneHandle
  <2>   QED  BY <1>1, <2>2, Values DEF InOrder, OnePlace
<1>3. CASE blk[s] = None
  <2>1. PICK u \in Threads : pc[u] = "store" /\ slot[u] = s
    BY <1>1, <1>3 DEF InOrder, KeyNamesBlock
  <2>2. handle[op[u]] = handle[op[t]]  BY <2>1 DEF InOrder, AtSlot
  <2>3. op[u] \in Ops  BY <2>1, Kept DEF Posting
  <2>4. op[u] = op[t]  BY <1>1, <2>2, <2>3, Values DEF InOrder, OneHandle
  <2>   QED  BY <1>1, <2>1, <2>4, Values DEF InOrder, OnePlace
<1>   QED  BY <1>2, <1>3

\* A probing that ends misses nothing.
LEMMA MissIsMiss ==
  ASSUME Types, InHand, InOrder, NEW t \in Threads, pc[t] = "look",
         probe[t] = Capacity \/ key[slot[t]] = Empty, NEW s \in Slots
  PROVE  key[s] # Head(todo[t])
<1> DEFINE h == Head(todo[t])
<1> SUFFICES ASSUME key[s] = h PROVE FALSE  OBVIOUS
<1>1. h \in Handles  BY HeadIsPending DEF Removing
<1>2. PICK i \in Slots : /\ s = PosAt(h, i)
                         /\ \A j \in 0 .. i - 1 : key[PosAt(h, j)] # Empty
  BY <1>1 DEF InOrder, Reachable
<1>3. /\ probe[t] < Capacity => slot[t] = PosAt(h, probe[t])
      /\ \A j \in 0 .. probe[t] - 1 : key[PosAt(h, j)] # h
  BY DEF InOrder, LookHasPassed
<1>4. probe[t] \in 0 .. Capacity  BY DEF Types
<1>5. i >= probe[t]  BY <1>2, <1>3, <1>4, Values DEF Slots
<1>6. probe[t] < Capacity  BY <1>4, <1>5, Values DEF Slots
<1>7. key[PosAt(h, probe[t])] = Empty  BY <1>3, <1>6, Values
<1>8. i # probe[t]  BY <1>1, <1>2, <1>7, Values
<1>   QED  BY <1>2, <1>4, <1>5, <1>7, <1>8, Values DEF Slots

\* What a new operation starts from.
LEMMA SpareIsGone ==
  ASSUME Types, InOrder, NEW o \in Spare
  PROVE  /\ o \in Ops /\ phase[o] = "finished" /\ handle[o] = None
         /\ block[o] # "held"
         /\ \A s \in Slots : blk[s] # o
         /\ \A t \in Threads : op[t] # o
<1>1. o \in Ops /\ phase[o] = "finished"  BY DEF Spare
<1>2. block[o] # "held"
  BY <1>1, Values DEF Spare, InOrder, HeldHasPlace, OneHandle, Alive
<1>3. handle[o] = None  BY <1>1, <1>2 DEF InOrder, OneHandle, Alive
<1>   QED  BY <1>1, <1>2, <1>3, Values DEF InOrder, PlacesHold

LEMMA HandleIsFresh ==
  ASSUME Types, InHand, Orderly, InOrder, NEW t \in Threads, MayCall(t),
         NEW h \in FreeHandles
  PROVE  /\ h \in Handles \ {BuiltIn}
         /\ \A o \in Ops : handle[o] # h
         /\ \A u \in Threads : ~Pending(u, h)
<1>1. h \in Handles \ {BuiltIn} /\ \A o \in Ops : phase[o] # "finished" => handle[o] # h
  BY DEF FreeHandles
<1>2. \A u \in Threads : ~Pending(u, h)
  <2>1. CASE env = "deferred"
    BY <2>1 DEF FreeHandles, Releasing, Pending
  <2>2. CASE env = "serialized"
    <3>1. \A u \in Threads : todo[u] = <<>>
      BY <2>2 DEF MayCall, AllIdle, InHand
    <3>   QED  BY <3>1 DEF Pending
  <2>   QED  BY <2>1, <2>2 DEF Orderly
<1>3. \A o \in Ops : handle[o] # h
  <2> SUFFICES ASSUME NEW o \in Ops, handle[o] = h PROVE FALSE  OBVIOUS
  <2>1. phase[o] = "finished" /\ block[o] = "held"
    BY <1>1, Values DEF InOrder, OneHandle, Alive
  <2>   QED  BY <1>2, <2>1 DEF InOrder, OverIsPending
<1>   QED  BY <1>1, <1>2, <1>3

-----------------------------------------------------------------------------
(* The steps inside a call. *)

\* The implementation completes an operation at any time.
LEMMA FinishPreserves ==
  ASSUME NEW o \in Ops, StagedInv, Finish(o)
  PROVE  StagedInv'
<1>1. Types /\ InHand /\ RequestsHaveHandles  BY DEF StagedInv
<1>2. /\ phase[o] = "active" /\ phase'[o] = "complete"
      /\ \A p \in Ops \ {o} : phase'[p] = phase[p]
      /\ env' = env /\ key' = key /\ blk' = blk /\ live' = live
      /\ kind' = kind /\ handle' = handle /\ block' = block /\ pc' = pc
      /\ op' = op /\ todo' = todo /\ slot' = slot /\ probe' = probe
      /\ seen' = seen
  BY <1>1 DEF Finish, tableVars, loopVars, Types
<1>3. \A u \in Threads : \A h : Pending(u, h)' <=> Pending(u, h)
  BY <1>2 DEF Pending
<1>4. Types'
  BY <1>1, Values DEF Finish, tableVars, loopVars, Types, Posting, Removing
<1>5. InHand'  BY <1>1, <1>2, Values DEF InHand, Posting, Removing, Taken
<1>6. RequestsHaveHandles'  BY <1>1, <1>2, Values DEF RequestsHaveHandles
<1>7. ASSUME Orderly  PROVE InOrder'
  <2>1. InOrder  BY <1>7 DEF StagedInv
  <2>2. PlacesHold'  BY <2>1, <1>2 DEF InOrder, PlacesHold
  <2>3. OnePlace'  BY <2>1, <1>2 DEF InOrder, OnePlace
  <2>4. HeldHasPlace'  BY <2>1, <1>2 DEF InOrder, HeldHasPlace
  <2>5. AtSlot'  BY <2>1, <1>2, <1>1, Ranges DEF InOrder, AtSlot, Locking, Taken
  <2>6. LockIsExclusive'  BY <2>1, <1>2 DEF InOrder, LockIsExclusive, Locking
  <2>7. KeyNamesBlock'  BY <2>1, <1>2 DEF InOrder, KeyNamesBlock
  <2>8. OneHandle'  BY <2>1, <1>2 DEF InOrder, OneHandle, Alive
  <2>9. BuiltInIsComplete'  BY <2>1, <1>2 DEF InOrder, BuiltInIsComplete
  <2>10. PendingIsOver'  BY <2>1, <1>2, <1>3 DEF InOrder, PendingIsOver
  <2>11. OverIsPending'  BY <2>1, <1>2, <1>3 DEF InOrder, OverIsPending
  <2>12. Fates'  BY <2>1, <1>2 DEF InOrder, Fates
  <2>13. CountIsRight'
    BY <2>1, <1>2 DEF InOrder, CountIsRight, Counted, Counts, Storing
  <2>14. Reachable'  BY <2>1, <1>2 DEF InOrder, Reachable
  <2>15. AttachHasPassed'  BY <2>1, <1>2 DEF InOrder, AttachHasPassed
  <2>16. LookHasPassed'  BY <2>1, <1>2 DEF InOrder, LookHasPassed
  <2>   QED  BY <2>2, <2>3, <2>4, <2>5, <2>6, <2>7, <2>8, <2>9,
               <2>10, <2>11, <2>12, <2>13, <2>14, <2>15, <2>16
            DEF InOrder
<1>   QED  BY <1>4, <1>5, <1>6, <1>7, <1>2 DEF StagedInv, Orderly

\* The block of a request that is complete is freed (staging.c:227).
LEMMA KeepNothingPreserves ==
  ASSUME NEW t \in Threads, StagedInv, KeepNothing(t)
  PROVE  StagedInv'
<1>1. Types /\ InHand /\ RequestsHaveHandles  BY DEF StagedInv
<1>2. op[t] \in Ops /\ op[t] # None /\ handle[op[t]] \in Handles /\ phase[op[t]] # "finished"
  BY <1>1, Values DEF KeepNothing, InHand, Posting, RequestsHaveHandles
<1>3. /\ pc[t] = "keep" /\ kind[op[t]] = "nonblocking" /\ phase[op[t]] = "complete"
      /\ op'[t] = None /\ pc'[t] = "idle"
      /\ block'[op[t]] = "freed" /\ \A o \in Ops \ {op[t]} : block'[o] = block[o]
      /\ \A u \in Threads \ {t} :
           /\ pc'[u] = pc[u]
           /\ op'[u] = op[u]
           /\ slot'[u] = slot[u]
           /\ probe'[u] = probe[u]
           /\ seen'[u] = seen[u]
      /\ env' = env /\ key' = key /\ blk' = blk /\ live' = live
      /\ kind' = kind /\ phase' = phase /\ handle' = handle /\ todo' = todo
  BY <1>1, <1>2
  DEF KeepNothing, IsComplete, Settle, Goto, ResetLoop, tableVars, implVars,
      Types
<1>4. \A u \in Threads : \A h : Pending(u, h)' <=> Pending(u, h)
  BY <1>3 DEF Pending
<1>5. Types'
  BY <1>1, <1>2, ZeroIsSlot
  DEF KeepNothing, Settle, Goto, ResetLoop, tableVars, implVars, Types
<1>6. InHand'  BY <1>1, <1>2, <1>3, Values DEF InHand, Posting, Removing, Taken
<1>7. RequestsHaveHandles'  BY <1>1, <1>2, <1>3, Values DEF RequestsHaveHandles
<1>8. ASSUME Orderly  PROVE InOrder'
  <2>1. InOrder  BY <1>8 DEF StagedInv
  <2>2. PlacesHold'
    BY <2>1, <1>2, <1>3, <1>1, Ranges, Values DEF InOrder, PlacesHold, OnePlace
  <2>3. OnePlace'  BY <2>1, <1>2, <1>3 DEF InOrder, OnePlace
  <2>4. HeldHasPlace'  BY <2>1, <1>2, <1>3 DEF InOrder, HeldHasPlace
  <2>5. AtSlot'  BY <2>1, <1>2, <1>3 DEF InOrder, AtSlot, Locking, Taken
  <2>6. LockIsExclusive'
    BY <2>1, <1>2, <1>3 DEF InOrder, LockIsExclusive, Locking
  <2>7. KeyNamesBlock'  BY <2>1, <1>2, <1>3 DEF InOrder, KeyNamesBlock
  <2>8. OneHandle'  BY <2>1, <1>2, <1>3 DEF InOrder, OneHandle, Alive
  <2>9. BuiltInIsComplete'  BY <2>1, <1>2, <1>3 DEF InOrder, BuiltInIsComplete
  <2>10. PendingIsOver'  BY <2>1, <1>2, <1>3, <1>4 DEF InOrder, PendingIsOver
  <2>11. OverIsPending'  BY <2>1, <1>2, <1>3, <1>4 DEF InOrder, OverIsPending
  <2>12. Fates'  BY <2>1, <1>2, <1>3 DEF InOrder, Fates
  <2>13. CountIsRight'
    <3>1. \A s \in Slots, u \in Threads : Counts(u, s)' <=> Counts(u, s)
  BY <2>1, <1>2, <1>3 DEF Counts
    <3>2. \A s \in Slots, u \in Threads : Storing(u, s)' <=> Storing(u, s)
  BY <2>1, <1>2, <1>3 DEF Storing
    <3>3. Counted' = Counted  BY <1>3, <3>1, <3>2 DEF Counted
    <3>   QED  BY <2>1, <1>3, <3>3 DEF InOrder, CountIsRight
  <2>14. Reachable'  BY <2>1, <1>2, <1>3 DEF InOrder, Reachable
  <2>15. AttachHasPassed'  BY <2>1, <1>2, <1>3 DEF InOrder, AttachHasPassed
  <2>16. LookHasPassed'  BY <2>1, <1>2, <1>3 DEF InOrder, LookHasPassed
  <2>   QED  BY <2>2, <2>3, <2>4, <2>5, <2>6, <2>7, <2>8, <2>9,
               <2>10, <2>11, <2>12, <2>13, <2>14, <2>15, <2>16
            DEF InOrder
<1>   QED  BY <1>5, <1>6, <1>7, <1>8, <1>3 DEF StagedInv, Orderly

\* It is to be stored under the request's handle.
LEMMA KeepBlockPreserves ==
  ASSUME NEW t \in Threads, StagedInv, KeepBlock(t)
  PROVE  StagedInv'
<1>1. Types /\ InHand /\ RequestsHaveHandles  BY DEF StagedInv
<1>2. op[t] \in Ops /\ op[t] # None /\ handle[op[t]] \in Handles /\ phase[op[t]] # "finished"
  BY <1>1, Values DEF KeepBlock, InHand, Posting, RequestsHaveHandles
<1>3. /\ pc[t] = "keep" /\ pc'[t] = "attach"
      /\ kind[op[t]] = "nonblocking" => ~IsComplete(op[t]) \/ handle[op[t]] # BuiltIn
      /\ slot'[t] = Home[handle[op[t]]] /\ probe'[t] = 0
      /\ \A u \in Threads \ {t} :
           /\ pc'[u] = pc[u]
           /\ slot'[u] = slot[u]
           /\ probe'[u] = probe[u]
      /\ env' = env /\ key' = key /\ blk' = blk /\ live' = live
      /\ kind' = kind /\ phase' = phase /\ handle' = handle /\ block' = block
      /\ op' = op /\ todo' = todo /\ seen' = seen
  BY <1>1, <1>2 DEF KeepBlock, Goto, StartLoop, tableVars, implVars, Types
<1>4. \A u \in Threads : \A h : Pending(u, h)' <=> Pending(u, h)
  BY <1>3 DEF Pending
<1>5. Types'
  BY <1>1, <1>2, StartsAtHome, ZeroIsSlot
  DEF KeepBlock, Goto, StartLoop, tableVars, implVars, Types, Posting
<1>6. InHand'  BY <1>1, <1>2, <1>3, Values DEF InHand, Posting, Removing, Taken
<1>7. RequestsHaveHandles'  BY <1>1, <1>2, <1>3, Values DEF RequestsHaveHandles
<1>8. ASSUME Orderly  PROVE InOrder'
  <2>1. InOrder  BY <1>8 DEF StagedInv
  <2>2. handle[op[t]] # BuiltIn
    BY <1>2, <1>3, <2>1, <1>8 DEF InOrder, BuiltInIsComplete, PlacesHold, IsComplete, Orderly
  <2>3. PlacesHold'  BY <2>1, <1>2, <2>2, <1>3 DEF InOrder, PlacesHold
  <2>4. OnePlace'  BY <2>1, <1>2, <2>2, <1>3 DEF InOrder, OnePlace
  <2>5. HeldHasPlace'  BY <2>1, <1>2, <2>2, <1>3 DEF InOrder, HeldHasPlace
  <2>6. AtSlot'  BY <2>1, <1>2, <2>2, <1>3 DEF InOrder, AtSlot, Locking, Taken
  <2>7. LockIsExclusive'
    BY <2>1, <1>2, <2>2, <1>3 DEF InOrder, LockIsExclusive, Locking
  <2>8. KeyNamesBlock'  BY <2>1, <1>2, <2>2, <1>3 DEF InOrder, KeyNamesBlock
  <2>9. OneHandle'  BY <2>1, <1>2, <2>2, <1>3 DEF InOrder, OneHandle, Alive
  <2>10. BuiltInIsComplete'
    BY <2>1, <1>2, <2>2, <1>3 DEF InOrder, BuiltInIsComplete
  <2>11. PendingIsOver'
    BY <2>1, <1>2, <2>2, <1>3, <1>4 DEF InOrder, PendingIsOver
  <2>12. OverIsPending'
    BY <2>1, <1>2, <2>2, <1>3, <1>4 DEF InOrder, OverIsPending
  <2>13. Fates'  BY <2>1, <1>2, <2>2, <1>3 DEF InOrder, Fates
  <2>14. CountIsRight'
    <3>1. \A s \in Slots, u \in Threads : Counts(u, s)' <=> Counts(u, s)
  BY <2>1, <1>2, <2>2, <1>3 DEF Counts
    <3>2. \A s \in Slots, u \in Threads : Storing(u, s)' <=> Storing(u, s)
  BY <2>1, <1>2, <2>2, <1>3 DEF Storing
    <3>3. Counted' = Counted  BY <1>3, <3>1, <3>2 DEF Counted
    <3>   QED  BY <2>1, <1>3, <3>3 DEF InOrder, CountIsRight
  <2>15. Reachable'  BY <2>1, <1>2, <2>2, <1>3 DEF InOrder, Reachable
  <2>16. AttachHasPassed'
    BY <2>1, <1>2, <2>2, <1>3, StartsAtHome DEF InOrder, AttachHasPassed
  <2>17. LookHasPassed'  BY <2>1, <1>2, <2>2, <1>3 DEF InOrder, LookHasPassed
  <2>   QED  BY <2>3, <2>4, <2>5, <2>6, <2>7, <2>8, <2>9, <2>10,
               <2>11, <2>12, <2>13, <2>14, <2>15, <2>16, <2>17
            DEF InOrder
<1>   QED  BY <1>5, <1>6, <1>7, <1>8, <1>3 DEF StagedInv, Orderly

\* There is no room, and the block is counted as leaked.
LEMMA AttachFullPreserves ==
  ASSUME NEW t \in Threads, StagedInv, AttachFull(t)
  PROVE  StagedInv'
<1>1. Types /\ InHand /\ RequestsHaveHandles  BY DEF StagedInv
<1>2. op[t] \in Ops /\ op[t] # None /\ handle[op[t]] \in Handles /\ phase[op[t]] # "finished"
  BY <1>1, Values DEF AttachFull, InHand, Posting, RequestsHaveHandles
<1>3. /\ pc[t] = "attach"
      /\ op'[t] = None /\ pc'[t] = "idle"
      /\ block'[op[t]] = "full" /\ \A o \in Ops \ {op[t]} : block'[o] = block[o]
      /\ \A u \in Threads \ {t} :
           /\ pc'[u] = pc[u]
           /\ op'[u] = op[u]
           /\ slot'[u] = slot[u]
           /\ probe'[u] = probe[u]
           /\ seen'[u] = seen[u]
      /\ env' = env /\ key' = key /\ blk' = blk /\ live' = live
      /\ kind' = kind /\ phase' = phase /\ handle' = handle /\ todo' = todo
  BY <1>1, <1>2
  DEF AttachFull, Settle, Goto, ResetLoop, tableVars, implVars, Types
<1>4. \A u \in Threads : \A h : Pending(u, h)' <=> Pending(u, h)
  BY <1>3 DEF Pending
<1>5. Types'
  BY <1>1, <1>2, ZeroIsSlot
  DEF AttachFull, Settle, Goto, ResetLoop, tableVars, implVars, Types
<1>6. InHand'  BY <1>1, <1>2, <1>3, Values DEF InHand, Posting, Removing, Taken
<1>7. RequestsHaveHandles'  BY <1>1, <1>2, <1>3, Values DEF RequestsHaveHandles
<1>8. ASSUME Orderly  PROVE InOrder'
  <2>1. InOrder  BY <1>8 DEF StagedInv
  <2>2. PlacesHold'
    BY <2>1, <1>2, <1>3, <1>1, Ranges, Values DEF InOrder, PlacesHold, OnePlace
  <2>3. OnePlace'  BY <2>1, <1>2, <1>3 DEF InOrder, OnePlace
  <2>4. HeldHasPlace'  BY <2>1, <1>2, <1>3 DEF InOrder, HeldHasPlace
  <2>5. AtSlot'  BY <2>1, <1>2, <1>3 DEF InOrder, AtSlot, Locking, Taken
  <2>6. LockIsExclusive'
    BY <2>1, <1>2, <1>3 DEF InOrder, LockIsExclusive, Locking
  <2>7. KeyNamesBlock'  BY <2>1, <1>2, <1>3 DEF InOrder, KeyNamesBlock
  <2>8. OneHandle'
    BY <2>1, <1>2, <1>3, <1>1, Values, Ranges
    DEF InOrder, OneHandle, Alive, PlacesHold
  <2>9. BuiltInIsComplete'  BY <2>1, <1>2, <1>3 DEF InOrder, BuiltInIsComplete
  <2>10. PendingIsOver'  BY <2>1, <1>2, <1>3, <1>4 DEF InOrder, PendingIsOver
  <2>11. OverIsPending'  BY <2>1, <1>2, <1>3, <1>4 DEF InOrder, OverIsPending
  <2>12. Fates'  BY <2>1, <1>2, <1>3 DEF InOrder, Fates
  <2>13. CountIsRight'
    <3>1. \A s \in Slots, u \in Threads : Counts(u, s)' <=> Counts(u, s)
  BY <2>1, <1>2, <1>3 DEF Counts
    <3>2. \A s \in Slots, u \in Threads : Storing(u, s)' <=> Storing(u, s)
  BY <2>1, <1>2, <1>3 DEF Storing
    <3>3. Counted' = Counted  BY <1>3, <3>1, <3>2 DEF Counted
    <3>   QED  BY <2>1, <1>3, <3>3 DEF InOrder, CountIsRight
  <2>14. Reachable'  BY <2>1, <1>2, <1>3 DEF InOrder, Reachable
  <2>15. AttachHasPassed'  BY <2>1, <1>2, <1>3 DEF InOrder, AttachHasPassed
  <2>16. LookHasPassed'  BY <2>1, <1>2, <1>3 DEF InOrder, LookHasPassed
  <2>   QED  BY <2>2, <2>3, <2>4, <2>5, <2>6, <2>7, <2>8, <2>9,
               <2>10, <2>11, <2>12, <2>13, <2>14, <2>15, <2>16
            DEF InOrder
<1>   QED  BY <1>5, <1>6, <1>7, <1>8, <1>3 DEF StagedInv, Orderly

\* It is never met in an orderly environment: the key is new (staging.c:119).
LEMMA AttachDuplicatePreserves ==
  ASSUME NEW t \in Threads, StagedInv, AttachDuplicate(t)
  PROVE  StagedInv'
<1>1. Types /\ InHand /\ RequestsHaveHandles  BY DEF StagedInv
<1>2. op[t] \in Ops /\ op[t] # None /\ handle[op[t]] \in Handles /\ phase[op[t]] # "finished"
  BY <1>1, Values DEF AttachDuplicate, InHand, Posting, RequestsHaveHandles
<1>3. /\ pc[t] = "attach" /\ key[slot[t]] = handle[op[t]]
      /\ op'[t] = None /\ pc'[t] = "idle"
      /\ \A u \in Threads \ {t} :
           /\ pc'[u] = pc[u]
           /\ op'[u] = op[u]
           /\ slot'[u] = slot[u]
           /\ probe'[u] = probe[u]
           /\ seen'[u] = seen[u]
      /\ env' = env /\ key' = key /\ blk' = blk /\ live' = live
      /\ kind' = kind /\ phase' = phase /\ handle' = handle /\ todo' = todo
  BY <1>1, <1>2
  DEF AttachDuplicate, Settle, Goto, ResetLoop, tableVars, implVars, Types
<1>4. \A u \in Threads : \A h : Pending(u, h)' <=> Pending(u, h)
  BY <1>3 DEF Pending
<1>5. Types'
  BY <1>1, <1>2, ZeroIsSlot
  DEF AttachDuplicate, Settle, Goto, ResetLoop, tableVars, implVars, Types
<1>6. InHand'  BY <1>1, <1>2, <1>3, Values DEF InHand, Posting, Removing, Taken
<1>7. RequestsHaveHandles'  BY <1>1, <1>2, <1>3, Values DEF RequestsHaveHandles
<1>8. ASSUME Orderly  PROVE InOrder'
  <2>1. InOrder  BY <1>8 DEF StagedInv
  <2>   QED  BY <1>1, <2>1, <1>3, KeyIsNew, Ranges
<1>   QED  BY <1>5, <1>6, <1>7, <1>8, <1>3 DEF StagedInv, Orderly

\* The probing reads a key that can be replaced (staging.c:108-110).
LEMMA AttachSeesRoomPreserves ==
  ASSUME NEW t \in Threads, StagedInv, AttachSeesRoom(t)
  PROVE  StagedInv'
<1>1. Types /\ InHand /\ RequestsHaveHandles  BY DEF StagedInv
<1>2. op[t] \in Ops /\ op[t] # None /\ handle[op[t]] \in Handles /\ phase[op[t]] # "finished"
  BY <1>1, Values DEF AttachSeesRoom, InHand, Posting, RequestsHaveHandles
<1>3. /\ pc[t] = "attach" /\ probe[t] < Capacity /\ pc'[t] = "cas"
      /\ seen'[t] = key[slot[t]]
      /\ \A u \in Threads \ {t} : pc'[u] = pc[u] /\ seen'[u] = seen[u]
      /\ env' = env /\ key' = key /\ blk' = blk /\ live' = live
      /\ kind' = kind /\ phase' = phase /\ handle' = handle /\ block' = block
      /\ op' = op /\ todo' = todo /\ slot' = slot /\ probe' = probe
  BY <1>1, <1>2 DEF AttachSeesRoom, Goto, tableVars, implVars, Types
<1>4. \A u \in Threads : \A h : Pending(u, h)' <=> Pending(u, h)
  BY <1>3 DEF Pending
<1>5. Types'
  BY <1>1, <1>2, Values
  DEF AttachSeesRoom, Goto, tableVars, implVars, Types, Posting, Removing
<1>6. InHand'  BY <1>1, <1>2, <1>3, Values DEF InHand, Posting, Removing, Taken
<1>7. RequestsHaveHandles'  BY <1>1, <1>2, <1>3, Values DEF RequestsHaveHandles
<1>8. ASSUME Orderly  PROVE InOrder'
  <2>1. InOrder  BY <1>8 DEF StagedInv
  <2>2. PlacesHold'  BY <2>1, <1>2, <1>3 DEF InOrder, PlacesHold
  <2>3. OnePlace'  BY <2>1, <1>2, <1>3 DEF InOrder, OnePlace
  <2>4. HeldHasPlace'  BY <2>1, <1>2, <1>3 DEF InOrder, HeldHasPlace
  <2>5. AtSlot'  BY <2>1, <1>2, <1>3 DEF InOrder, AtSlot, Locking, Taken
  <2>6. LockIsExclusive'
    BY <2>1, <1>2, <1>3 DEF InOrder, LockIsExclusive, Locking
  <2>7. KeyNamesBlock'  BY <2>1, <1>2, <1>3 DEF InOrder, KeyNamesBlock
  <2>8. OneHandle'  BY <2>1, <1>2, <1>3 DEF InOrder, OneHandle, Alive
  <2>9. BuiltInIsComplete'  BY <2>1, <1>2, <1>3 DEF InOrder, BuiltInIsComplete
  <2>10. PendingIsOver'  BY <2>1, <1>2, <1>3, <1>4 DEF InOrder, PendingIsOver
  <2>11. OverIsPending'  BY <2>1, <1>2, <1>3, <1>4 DEF InOrder, OverIsPending
  <2>12. Fates'  BY <2>1, <1>2, <1>3 DEF InOrder, Fates
  <2>13. CountIsRight'
    <3>1. \A s \in Slots, u \in Threads : Counts(u, s)' <=> Counts(u, s)
  BY <2>1, <1>2, <1>3 DEF Counts
    <3>2. \A s \in Slots, u \in Threads : Storing(u, s)' <=> Storing(u, s)
  BY <2>1, <1>2, <1>3 DEF Storing
    <3>3. Counted' = Counted  BY <1>3, <3>1, <3>2 DEF Counted
    <3>   QED  BY <2>1, <1>3, <3>3 DEF InOrder, CountIsRight
  <2>14. Reachable'  BY <2>1, <1>2, <1>3 DEF InOrder, Reachable
  <2>15. AttachHasPassed'
    BY <2>1, <1>2, <1>3, Values DEF InOrder, AttachHasPassed
  <2>16. LookHasPassed'  BY <2>1, <1>2, <1>3 DEF InOrder, LookHasPassed
  <2>   QED  BY <2>2, <2>3, <2>4, <2>5, <2>6, <2>7, <2>8, <2>9,
               <2>10, <2>11, <2>12, <2>13, <2>14, <2>15, <2>16
            DEF InOrder
<1>   QED  BY <1>5, <1>6, <1>7, <1>8, <1>3 DEF StagedInv, Orderly

\* The slot is another request's.
LEMMA AttachSkipsPreserves ==
  ASSUME NEW t \in Threads, StagedInv, AttachSkips(t)
  PROVE  StagedInv'
<1>1. Types /\ InHand /\ RequestsHaveHandles  BY DEF StagedInv
<1>2. op[t] \in Ops /\ op[t] # None /\ handle[op[t]] \in Handles /\ phase[op[t]] # "finished"
  BY <1>1, Values DEF AttachSkips, InHand, Posting, RequestsHaveHandles
<1>3. probe[t] < Capacity /\ NextSlot(t)
  BY <1>1, Values DEF AttachSkips
<1>4. /\ slot' \in [Threads -> Slots] /\ probe' \in [Threads -> 0 .. Capacity]
      /\ probe'[t] = probe[t] + 1
      /\ \A u \in Threads \ {t} : slot'[u] = slot[u] /\ probe'[u] = probe[u]
      /\ \A h \in Handles : slot[t] = PosAt(h, probe[t]) /\ probe'[t] < Capacity
           => slot'[t] = PosAt(h, probe'[t])
  BY <1>1, <1>3, SlotStep
<1>5. /\ pc[t] = "attach" /\ probe[t] < Capacity /\ key[slot[t]] # Empty
      /\ env' = env /\ key' = key /\ blk' = blk /\ live' = live
      /\ kind' = kind /\ phase' = phase /\ handle' = handle /\ block' = block
      /\ pc' = pc /\ op' = op /\ todo' = todo /\ seen' = seen
  BY <1>1, <1>2, <1>3, <1>4
  DEF AttachSkips, NextSlot, tableVars, implVars, Types
<1>6. \A u \in Threads : \A h : Pending(u, h)' <=> Pending(u, h)
  BY <1>5 DEF Pending
<1>7. Types'
  BY <1>1, <1>4 DEF AttachSkips, NextSlot, Goto, tableVars, implVars, Types, Posting
<1>8. InHand'
  BY <1>1, <1>2, <1>3, <1>4, <1>5, Values DEF InHand, Posting, Removing, Taken
<1>9. RequestsHaveHandles'
  BY <1>1, <1>2, <1>3, <1>4, <1>5, Values DEF RequestsHaveHandles
<1>10. ASSUME Orderly  PROVE InOrder'
  <2>1. InOrder  BY <1>10 DEF StagedInv
  <2>2. PlacesHold'  BY <2>1, <1>2, <1>3, <1>4, <1>5 DEF InOrder, PlacesHold
  <2>3. OnePlace'  BY <2>1, <1>2, <1>3, <1>4, <1>5 DEF InOrder, OnePlace
  <2>4. HeldHasPlace'  BY <2>1, <1>2, <1>3, <1>4, <1>5 DEF InOrder, HeldHasPlace
  <2>5. AtSlot'
    BY <2>1, <1>2, <1>3, <1>4, <1>5 DEF InOrder, AtSlot, Locking, Taken
  <2>6. LockIsExclusive'
    BY <2>1, <1>2, <1>3, <1>4, <1>5 DEF InOrder, LockIsExclusive, Locking
  <2>7. KeyNamesBlock'
    BY <2>1, <1>2, <1>3, <1>4, <1>5 DEF InOrder, KeyNamesBlock
  <2>8. OneHandle'
    BY <2>1, <1>2, <1>3, <1>4, <1>5 DEF InOrder, OneHandle, Alive
  <2>9. BuiltInIsComplete'
    BY <2>1, <1>2, <1>3, <1>4, <1>5 DEF InOrder, BuiltInIsComplete
  <2>10. PendingIsOver'
    BY <2>1, <1>2, <1>3, <1>4, <1>5, <1>6 DEF InOrder, PendingIsOver
  <2>11. OverIsPending'
    BY <2>1, <1>2, <1>3, <1>4, <1>5, <1>6 DEF InOrder, OverIsPending
  <2>12. Fates'  BY <2>1, <1>2, <1>3, <1>4, <1>5 DEF InOrder, Fates
  <2>13. CountIsRight'
    <3>1. \A s \in Slots, u \in Threads : Counts(u, s)' <=> Counts(u, s)
  BY <2>1, <1>2, <1>3, <1>4, <1>5 DEF Counts
    <3>2. \A s \in Slots, u \in Threads : Storing(u, s)' <=> Storing(u, s)
  BY <2>1, <1>2, <1>3, <1>4, <1>5 DEF Storing
    <3>3. Counted' = Counted  BY <1>5, <3>1, <3>2 DEF Counted
    <3>   QED  BY <2>1, <1>5, <3>3 DEF InOrder, CountIsRight
  <2>14. Reachable'  BY <2>1, <1>2, <1>3, <1>4, <1>5 DEF InOrder, Reachable
  <2>15. AttachHasPassed'
    <3> SUFFICES ASSUME NEW u \in Threads, pc[u] \in {"attach", "cas"}
                 PROVE  /\ probe'[u] < Capacity => slot'[u] = PosAt(handle[op[u]], probe'[u])
                        /\ \A j \in 0 .. probe'[u] - 1 : key[PosAt(handle[op[u]], j)] # Empty
                        /\ pc[u] = "cas" /\ seen[u] = Tomb => key[slot'[u]] # Empty
      BY <2>1, <1>5 DEF InOrder, AttachHasPassed
    <3>1. CASE u = t
      BY <1>1, <1>2, <1>3, <1>4, <2>1, <1>5, <3>1, Ranges DEF InOrder, AttachHasPassed
    <3>2. CASE u # t  BY <1>4, <2>1, <3>2 DEF InOrder, AttachHasPassed
    <3>   QED  BY <3>1, <3>2
  <2>16. LookHasPassed'
    BY <2>1, <1>2, <1>3, <1>4, <1>5 DEF InOrder, LookHasPassed
  <2>   QED  BY <2>2, <2>3, <2>4, <2>5, <2>6, <2>7, <2>8, <2>9,
               <2>10, <2>11, <2>12, <2>13, <2>14, <2>15, <2>16
            DEF InOrder
<1>   QED  BY <1>7, <1>8, <1>9, <1>10, <1>5 DEF StagedInv, Orderly

\* The compare-and-swap takes the slot (staging.c:111).
LEMMA AttachTakesPreserves ==
  ASSUME NEW t \in Threads, StagedInv, AttachTakes(t)
  PROVE  StagedInv'
<1>1. Types /\ InHand /\ RequestsHaveHandles  BY DEF StagedInv
<1>2. op[t] \in Ops /\ op[t] # None /\ handle[op[t]] \in Handles /\ phase[op[t]] # "finished"
  BY <1>1, Values DEF AttachTakes, InHand, Posting, RequestsHaveHandles
<1>3. /\ pc[t] = "cas" /\ pc'[t] = "store" /\ key[slot[t]] = seen[t]
      /\ key'[slot[t]] = handle[op[t]] /\ \A s \in Slots \ {slot[t]} : key'[s] = key[s]
      /\ \A u \in Threads \ {t} : pc'[u] = pc[u]
      /\ env' = env /\ blk' = blk /\ live' = live /\ kind' = kind
      /\ phase' = phase /\ handle' = handle /\ block' = block /\ op' = op
      /\ todo' = todo /\ slot' = slot /\ probe' = probe /\ seen' = seen
  BY <1>1, <1>2 DEF AttachTakes, Goto, implVars, loopVars, Types
<1>4. \A u \in Threads : \A h : Pending(u, h)' <=> Pending(u, h)
  BY <1>3 DEF Pending
<1>5. Types'
  BY <1>1, <1>2, Values
  DEF AttachTakes, Goto, implVars, loopVars, Types, Posting, Removing
<1>6. InHand'  BY <1>1, <1>2, <1>3, Values DEF InHand, Posting, Removing, Taken
<1>7. RequestsHaveHandles'  BY <1>1, <1>2, <1>3, Values DEF RequestsHaveHandles
<1>8. ASSUME Orderly  PROVE InOrder'
  <2>1. InOrder  BY <1>8 DEF StagedInv
  <2>2. handle[op[t]] # BuiltIn  BY <2>1, <1>3 DEF InOrder, AttachHasPassed
  <2>3. slot[t] \in Slots /\ key[slot[t]] \in {Empty, Tomb}  BY <1>1, <1>3, Ranges
  <2>4. blk[slot[t]] = None
    BY <1>1, <2>1, <2>3, InTable, Values DEF InOrder, KeyNamesBlock, AtSlot, Locking
  <2>5. \A s \in Slots : key[s] # Empty => key'[s] # Empty
    BY <1>1, <1>2, <1>3, Values
  <2>6. \A u \in Threads : pc[u] = "look" =>
          Head(todo[u]) \in Handles /\ Head(todo[u]) # handle[op[t]]
    BY <1>1, <1>2, <2>1, <2>2, HeadIsPending DEF InOrder, PendingIsOver, Removing
  <2>7. \A u \in Threads \ {t} :
          pc[u] \in {"store", "stored", "lock"} \cup Locking => slot[u] # slot[t]
    BY <1>1, <2>1, <2>3, Values, Kept, HeadIsPending
    DEF InOrder, AtSlot, Posting, Removing, Locking
  <2>8. PlacesHold'
    BY <2>1, <1>2, <2>2, <2>3, <2>4, <2>5, <2>6, <2>7, <1>3
    DEF InOrder, PlacesHold
  <2>9. OnePlace'
    BY <2>1, <1>2, <2>2, <2>3, <2>4, <2>5, <2>6, <2>7, <1>3
    DEF InOrder, OnePlace
  <2>10. HeldHasPlace'
    BY <2>1, <1>2, <2>2, <2>3, <2>4, <2>5, <2>6, <2>7, <1>3
    DEF InOrder, HeldHasPlace
  <2>11. AtSlot'
    BY <2>1, <1>2, <2>2, <2>3, <2>4, <2>5, <2>6, <2>7, <1>3, <1>1, Ranges
    DEF InOrder, AtSlot, Locking, Taken
  <2>12. LockIsExclusive'
    BY <2>1, <1>2, <2>2, <2>3, <2>4, <2>5, <2>6, <2>7, <1>3, Values
    DEF InOrder, LockIsExclusive, Locking
  <2>13. KeyNamesBlock'
    BY <2>1, <1>2, <2>2, <2>3, <2>4, <2>5, <2>6, <2>7, <1>3, Values
    DEF InOrder, KeyNamesBlock
  <2>14. OneHandle'
    BY <2>1, <1>2, <2>2, <2>3, <2>4, <2>5, <2>6, <2>7, <1>3
    DEF InOrder, OneHandle, Alive
  <2>15. BuiltInIsComplete'
    BY <2>1, <1>2, <2>2, <2>3, <2>4, <2>5, <2>6, <2>7, <1>3
    DEF InOrder, BuiltInIsComplete
  <2>16. PendingIsOver'
    BY <2>1, <1>2, <2>2, <2>3, <2>4, <2>5, <2>6, <2>7, <1>3, <1>4
    DEF InOrder, PendingIsOver
  <2>17. OverIsPending'
    BY <2>1, <1>2, <2>2, <2>3, <2>4, <2>5, <2>6, <2>7, <1>3, <1>4
    DEF InOrder, OverIsPending
  <2>18. Fates'
    BY <2>1, <1>2, <2>2, <2>3, <2>4, <2>5, <2>6, <2>7, <1>3 DEF InOrder, Fates
  <2>19. CountIsRight'
    <3>1. \A s \in Slots, u \in Threads : Counts(u, s)' <=> Counts(u, s)
  BY <2>1, <1>2, <2>2, <2>3, <2>4, <2>5, <2>6, <2>7, <1>3 DEF Counts
    <3>2. \A s \in Slots, u \in Threads : Storing(u, s)' <=> Storing(u, s)
  BY <2>1, <1>2, <2>2, <2>3, <2>4, <2>5, <2>6, <2>7, <1>3 DEF Storing
    <3>3. Counted' = Counted  BY <1>3, <3>1, <3>2 DEF Counted
    <3>   QED  BY <2>1, <1>3, <3>3 DEF InOrder, CountIsRight
  <2>20. Reachable'
    <3>1. \A h \in Handles, i \in Slots : PosAt(h, i) \in Slots
      BY NextPos DEF Slots
    <3>2. ASSUME NEW s \in Slots, s # slot[t], key[s] \in Handles
          PROVE  \E i \in Slots : /\ s = PosAt(key[s], i)
                                  /\ \A j \in 0 .. i - 1 : key'[PosAt(key[s], j)] # Empty
      <4>1. PICK i \in Slots : /\ s = PosAt(key[s], i)
                               /\ \A j \in 0 .. i - 1 : key[PosAt(key[s], j)] # Empty
        BY <2>1, <3>2 DEF InOrder, Reachable
      <4>2. \A j \in 0 .. i - 1 : j \in Slots  BY CapacityAssumption DEF Slots
      <4>   QED  BY <2>5, <3>1, <3>2, <4>1, <4>2
    <3>3. \E i \in Slots : /\ slot[t] = PosAt(handle[op[t]], i)
                          /\ \A j \in 0 .. i - 1 : key'[PosAt(handle[op[t]], j)] # Empty
      <4>1. /\ probe[t] \in Slots /\ slot[t] = PosAt(handle[op[t]], probe[t])
            /\ \A j \in 0 .. probe[t] - 1 : key[PosAt(handle[op[t]], j)] # Empty
        BY <1>1, <2>1, <1>3, Ranges, CapacityAssumption
        DEF InOrder, AttachHasPassed, InHand, Slots
      <4>2. \A j \in 0 .. probe[t] - 1 : j \in Slots
        BY <4>1, CapacityAssumption DEF Slots
      <4>   QED  BY <1>2, <2>5, <3>1, <4>1, <4>2
    <3>   QED  BY <1>3, <3>2, <3>3 DEF Reachable
  <2>21. AttachHasPassed'
    <3>1. \A h \in Handles, i \in Slots : PosAt(h, i) \in Slots
      BY NextPos DEF Slots
    <3> SUFFICES ASSUME NEW u \in Threads, u # t, pc[u] \in {"attach", "cas"}
                 PROVE  /\ \A j \in 0 .. probe[u] - 1 : key'[PosAt(handle[op[u]], j)] # Empty
                        /\ pc[u] = "cas" /\ seen[u] = Tomb => key'[slot[u]] # Empty
      BY <2>1, <1>3 DEF InOrder, AttachHasPassed
    <3>2. \A j \in 0 .. probe[u] - 1 : j \in Slots
      BY <1>1, Ranges, CapacityAssumption DEF Slots
    <3>3. handle[op[u]] \in Handles  BY <1>1, <2>1, Kept DEF Posting
    <3>   QED
      BY <1>1, <2>1, <2>5, <3>1, <3>2, <3>3, Ranges DEF InOrder, AttachHasPassed
  <2>22. LookHasPassed'
    <3> SUFFICES ASSUME NEW u \in Threads, pc[u] = "look", NEW j \in 0 .. probe[u] - 1
                 PROVE  key'[PosAt(Head(todo[u]), j)] # Head(todo[u])
      BY <2>1, <1>3 DEF InOrder, LookHasPassed
    <3>1. j \in Slots /\ Head(todo[u]) \in Handles
      BY <1>1, <2>6, Ranges, CapacityAssumption DEF Slots
    <3>2. PosAt(Head(todo[u]), j) \in Slots  BY <3>1, NextPos DEF Slots
    <3>   QED  BY <2>1, <2>6, <3>2, <1>3 DEF InOrder, LookHasPassed
  <2>   QED  BY <2>8, <2>9, <2>10, <2>11, <2>12, <2>13, <2>14, <2>15,
               <2>16, <2>17, <2>18, <2>19, <2>20, <2>21, <2>22
            DEF InOrder
<1>   QED  BY <1>5, <1>6, <1>7, <1>8, <1>3 DEF StagedInv, Orderly

\* Another thread was first.
LEMMA AttachLosesPreserves ==
  ASSUME NEW t \in Threads, StagedInv, AttachLoses(t)
  PROVE  StagedInv'
<1>1. Types /\ InHand /\ RequestsHaveHandles  BY DEF StagedInv
<1>2. op[t] \in Ops /\ op[t] # None /\ handle[op[t]] \in Handles /\ phase[op[t]] # "finished"
  BY <1>1, Values DEF AttachLoses, InHand, Posting, RequestsHaveHandles
<1>3. probe[t] < Capacity /\ NextSlot(t)
  BY <1>1 DEF AttachLoses, InHand
<1>4. /\ slot' \in [Threads -> Slots] /\ probe' \in [Threads -> 0 .. Capacity]
      /\ probe'[t] = probe[t] + 1
      /\ \A u \in Threads \ {t} : slot'[u] = slot[u] /\ probe'[u] = probe[u]
      /\ \A h \in Handles : slot[t] = PosAt(h, probe[t]) /\ probe'[t] < Capacity
           => slot'[t] = PosAt(h, probe'[t])
  BY <1>1, <1>3, SlotStep
<1>5. /\ pc[t] = "cas" /\ pc'[t] = "attach" /\ key[slot[t]] # seen[t]
      /\ \A u \in Threads \ {t} : pc'[u] = pc[u]
      /\ env' = env /\ key' = key /\ blk' = blk /\ live' = live
      /\ kind' = kind /\ phase' = phase /\ handle' = handle /\ block' = block
      /\ op' = op /\ todo' = todo /\ seen' = seen
  <2>1. pc[t] = "cas" /\ key[slot[t]] # seen[t]  BY DEF AttachLoses
  <2>2. pc'[t] = "attach" /\ \A u \in Threads \ {t} : pc'[u] = pc[u]
    BY <1>1 DEF AttachLoses, Goto, Types
  <2>3. /\ env' = env /\ key' = key /\ blk' = blk /\ live' = live
        /\ kind' = kind /\ phase' = phase /\ handle' = handle /\ block' = block
        /\ op' = op /\ todo' = todo /\ seen' = seen
    BY <1>3 DEF AttachLoses, NextSlot, tableVars, implVars
  <2>   QED  BY <2>1, <2>2, <2>3
<1>6. \A u \in Threads : \A h : Pending(u, h)' <=> Pending(u, h)
  BY <1>5 DEF Pending
<1>7. Types'
  BY <1>1, <1>4 DEF AttachLoses, NextSlot, Goto, tableVars, implVars, Types, Posting
<1>8. InHand'
  BY <1>1, <1>2, <1>3, <1>4, <1>5, Values DEF InHand, Posting, Removing, Taken
<1>9. RequestsHaveHandles'
  BY <1>1, <1>2, <1>3, <1>4, <1>5, Values DEF RequestsHaveHandles
<1>10. ASSUME Orderly  PROVE InOrder'
  <2>1. InOrder  BY <1>10 DEF StagedInv
  <2>2. key[slot[t]] # Empty
    BY <1>1, <2>1, <1>5, Ranges DEF InOrder, AttachHasPassed
  <2>3. PlacesHold'
    BY <2>1, <1>2, <1>3, <1>4, <2>2, <1>5 DEF InOrder, PlacesHold
  <2>4. OnePlace'  BY <2>1, <1>2, <1>3, <1>4, <2>2, <1>5 DEF InOrder, OnePlace
  <2>5. HeldHasPlace'
    BY <2>1, <1>2, <1>3, <1>4, <2>2, <1>5 DEF InOrder, HeldHasPlace
  <2>6. AtSlot'
    BY <2>1, <1>2, <1>3, <1>4, <2>2, <1>5 DEF InOrder, AtSlot, Locking, Taken
  <2>7. LockIsExclusive'
    BY <2>1, <1>2, <1>3, <1>4, <2>2, <1>5 DEF InOrder, LockIsExclusive, Locking
  <2>8. KeyNamesBlock'
    BY <2>1, <1>2, <1>3, <1>4, <2>2, <1>5 DEF InOrder, KeyNamesBlock
  <2>9. OneHandle'
    BY <2>1, <1>2, <1>3, <1>4, <2>2, <1>5 DEF InOrder, OneHandle, Alive
  <2>10. BuiltInIsComplete'
    BY <2>1, <1>2, <1>3, <1>4, <2>2, <1>5 DEF InOrder, BuiltInIsComplete
  <2>11. PendingIsOver'
    BY <2>1, <1>2, <1>3, <1>4, <2>2, <1>5, <1>6 DEF InOrder, PendingIsOver
  <2>12. OverIsPending'
    BY <2>1, <1>2, <1>3, <1>4, <2>2, <1>5, <1>6 DEF InOrder, OverIsPending
  <2>13. Fates'  BY <2>1, <1>2, <1>3, <1>4, <2>2, <1>5 DEF InOrder, Fates
  <2>14. CountIsRight'
    <3>1. \A s \in Slots, u \in Threads : Counts(u, s)' <=> Counts(u, s)
  BY <2>1, <1>2, <1>3, <1>4, <2>2, <1>5 DEF Counts
    <3>2. \A s \in Slots, u \in Threads : Storing(u, s)' <=> Storing(u, s)
  BY <2>1, <1>2, <1>3, <1>4, <2>2, <1>5 DEF Storing
    <3>3. Counted' = Counted  BY <1>5, <3>1, <3>2 DEF Counted
    <3>   QED  BY <2>1, <1>5, <3>3 DEF InOrder, CountIsRight
  <2>15. Reachable'
    BY <2>1, <1>2, <1>3, <1>4, <2>2, <1>5 DEF InOrder, Reachable
  <2>16. AttachHasPassed'
    <3>1. \A u \in Threads : pc'[u] \in {"attach", "cas"} => pc[u] \in {"attach", "cas"}
      BY <1>5
    <3> SUFFICES ASSUME NEW u \in Threads, pc'[u] \in {"attach", "cas"}
                 PROVE  /\ probe'[u] < Capacity => slot'[u] = PosAt(handle[op[u]], probe'[u])
                        /\ \A j \in 0 .. probe'[u] - 1 : key[PosAt(handle[op[u]], j)] # Empty
                        /\ pc'[u] = "cas" /\ seen[u] = Tomb => key[slot'[u]] # Empty
      BY <2>1, <1>5, <3>1 DEF InOrder, AttachHasPassed
    <3>2. CASE u = t
      BY <1>1, <1>2, <1>3, <1>4, <2>1, <2>2, <1>5, <3>2, Ranges DEF InOrder, AttachHasPassed
    <3>3. CASE u # t  BY <1>4, <2>1, <1>5, <3>3 DEF InOrder, AttachHasPassed
    <3>   QED  BY <3>2, <3>3
  <2>17. LookHasPassed'
    BY <2>1, <1>2, <1>3, <1>4, <2>2, <1>5 DEF InOrder, LookHasPassed
  <2>   QED  BY <2>3, <2>4, <2>5, <2>6, <2>7, <2>8, <2>9, <2>10,
               <2>11, <2>12, <2>13, <2>14, <2>15, <2>16, <2>17
            DEF InOrder
<1>   QED  BY <1>7, <1>8, <1>9, <1>10, <1>5 DEF StagedInv, Orderly

\* The block is stored beside the key.
LEMMA StoreBlockPreserves ==
  ASSUME NEW t \in Threads, StagedInv, StoreBlock(t)
  PROVE  StagedInv'
<1>1. Types /\ InHand /\ RequestsHaveHandles  BY DEF StagedInv
<1>2. op[t] \in Ops /\ op[t] # None /\ handle[op[t]] \in Handles /\ phase[op[t]] # "finished"
  BY <1>1, Values DEF StoreBlock, InHand, Posting, RequestsHaveHandles
<1>3. /\ pc[t] = "store" /\ pc'[t] = "stored"
      /\ blk'[slot[t]] = op[t] /\ \A s \in Slots \ {slot[t]} : blk'[s] = blk[s]
      /\ \A u \in Threads \ {t} : pc'[u] = pc[u]
      /\ env' = env /\ key' = key /\ live' = live /\ kind' = kind
      /\ phase' = phase /\ handle' = handle /\ block' = block /\ op' = op
      /\ todo' = todo /\ slot' = slot /\ probe' = probe /\ seen' = seen
  BY <1>1, <1>2 DEF StoreBlock, Goto, implVars, loopVars, Types
<1>4. \A u \in Threads : \A h : Pending(u, h)' <=> Pending(u, h)
  BY <1>3 DEF Pending
<1>5. Types'
  BY <1>1, <1>2, Values
  DEF StoreBlock, Goto, implVars, loopVars, Types, Posting, Removing
<1>6. InHand'  BY <1>1, <1>2, <1>3, Values DEF InHand, Posting, Removing, Taken
<1>7. RequestsHaveHandles'  BY <1>1, <1>2, <1>3, Values DEF RequestsHaveHandles
<1>8. ASSUME Orderly  PROVE InOrder'
  <2>1. InOrder  BY <1>8 DEF StagedInv
  <2>2. handle[op[t]] \in Handles \ {BuiltIn}  BY <1>1, <2>1, <1>3, Kept DEF Posting
  <2>3. slot[t] \in Slots /\ key[slot[t]] = handle[op[t]] /\ blk[slot[t]] = None
    BY <1>1, <2>1, <1>3, Ranges DEF InOrder, AtSlot
  <2>4. \A u \in Threads \ {t} :
          pc[u] \in {"store", "stored"} \cup Locking => slot[u] # slot[t]
    <3> SUFFICES ASSUME NEW u \in Threads \ {t}, slot[u] = slot[t],
                        pc[u] \in {"store", "stored"} \cup Locking
                 PROVE  FALSE
      OBVIOUS
    <3>1. pc[u] \notin Locking  BY <2>1, <2>2, <2>3, Values DEF InOrder, AtSlot
    <3>2. op[u] \in Ops /\ handle[op[u]] = handle[op[t]]
      BY <1>1, <2>1, <2>3, <3>1, Kept DEF InOrder, AtSlot, Posting
    <3>   QED  BY <1>2, <2>1, <2>2, <3>2, Values DEF InOrder, OneHandle, OnePlace
  <2>5. PlacesHold'
    BY <2>1, <1>2, <2>2, <2>3, <2>4, <1>3 DEF InOrder, PlacesHold
  <2>6. OnePlace'  BY <2>1, <1>2, <2>2, <2>3, <2>4, <1>3 DEF InOrder, OnePlace
  <2>7. HeldHasPlace'
    BY <2>1, <1>2, <2>2, <2>3, <2>4, <1>3, Values DEF InOrder, HeldHasPlace
  <2>8. AtSlot'
    BY <2>1, <1>2, <2>2, <2>3, <2>4, <1>3, <1>1, Ranges
    DEF InOrder, AtSlot, Locking, Taken
  <2>9. LockIsExclusive'
    BY <2>1, <1>2, <2>2, <2>3, <2>4, <1>3 DEF InOrder, LockIsExclusive, Locking
  <2>10. KeyNamesBlock'
    BY <2>1, <1>2, <2>2, <2>3, <2>4, <1>3, Values DEF InOrder, KeyNamesBlock
  <2>11. OneHandle'
    BY <2>1, <1>2, <2>2, <2>3, <2>4, <1>3 DEF InOrder, OneHandle, Alive
  <2>12. BuiltInIsComplete'
    BY <2>1, <1>2, <2>2, <2>3, <2>4, <1>3 DEF InOrder, BuiltInIsComplete
  <2>13. PendingIsOver'
    BY <2>1, <1>2, <2>2, <2>3, <2>4, <1>3, <1>4 DEF InOrder, PendingIsOver
  <2>14. OverIsPending'
    BY <2>1, <1>2, <2>2, <2>3, <2>4, <1>3, <1>4 DEF InOrder, OverIsPending
  <2>15. Fates'  BY <2>1, <1>2, <2>2, <2>3, <2>4, <1>3 DEF InOrder, Fates
  <2>16. CountIsRight'
    <3>1. \A s \in Slots, u \in Threads : Counts(u, s)' <=> Counts(u, s)
      BY <1>3 DEF Counts
    <3>2. \A s \in Slots : (\E u \in Threads : Storing(u, s))' <=>
              s = slot[t] \/ \E u \in Threads : Storing(u, s)
      BY <1>3 DEF Storing
    <3>3. Counted' = Counted  BY <1>2, <2>3, <1>3, <3>1, <3>2 DEF Counted
    <3>   QED  BY <2>1, <1>3, <3>3 DEF InOrder, CountIsRight
  <2>17. Reachable'
    BY <2>1, <1>2, <2>2, <2>3, <2>4, <1>3 DEF InOrder, Reachable
  <2>18. AttachHasPassed'
    BY <2>1, <1>2, <2>2, <2>3, <2>4, <1>3 DEF InOrder, AttachHasPassed
  <2>19. LookHasPassed'
    BY <2>1, <1>2, <2>2, <2>3, <2>4, <1>3 DEF InOrder, LookHasPassed
  <2>   QED  BY <2>5, <2>6, <2>7, <2>8, <2>9, <2>10, <2>11, <2>12,
               <2>13, <2>14, <2>15, <2>16, <2>17, <2>18, <2>19
            DEF InOrder
<1>   QED  BY <1>5, <1>6, <1>7, <1>8, <1>3 DEF StagedInv, Orderly

\* The block is counted, and the call that posted it returns.
LEMMA CountBlockPreserves ==
  ASSUME NEW t \in Threads, StagedInv, CountBlock(t)
  PROVE  StagedInv'
<1>1. Types /\ InHand /\ RequestsHaveHandles  BY DEF StagedInv
<1>2. op[t] \in Ops /\ op[t] # None /\ handle[op[t]] \in Handles /\ phase[op[t]] # "finished"
  BY <1>1, Values DEF CountBlock, InHand, Posting, RequestsHaveHandles
<1>3. /\ pc[t] = "stored" /\ live' = live + 1
      /\ op'[t] = None /\ pc'[t] = "idle"
      /\ \A u \in Threads \ {t} :
           /\ pc'[u] = pc[u]
           /\ op'[u] = op[u]
           /\ slot'[u] = slot[u]
           /\ probe'[u] = probe[u]
           /\ seen'[u] = seen[u]
      /\ env' = env /\ key' = key /\ blk' = blk /\ kind' = kind
      /\ phase' = phase /\ handle' = handle /\ block' = block /\ todo' = todo
  BY <1>1, <1>2 DEF CountBlock, Settle, Goto, ResetLoop, implVars, Types
<1>4. \A u \in Threads : \A h : Pending(u, h)' <=> Pending(u, h)
  BY <1>3 DEF Pending
<1>5. Types'
  <2>1. live' \in Int
    <3>1. live \in Int /\ live' = live + 1  BY <1>1, <1>3 DEF Types
    <3>   QED  BY <3>1
  <2>2. op' \in [Threads -> Ops \cup {None}]
    BY <1>1 DEF CountBlock, Settle, Types
  <2>3. pc' \in [Threads -> Posting \cup Removing \cup {"idle", "any"}]
    BY <1>1 DEF CountBlock, Settle, Goto, Types
  <2>4. /\ slot' \in [Threads -> Slots] /\ probe' \in [Threads -> 0 .. Capacity]
        /\ seen' \in [Threads -> {Empty, Tomb}]
    BY <1>1, ZeroIsSlot DEF CountBlock, Settle, ResetLoop, Types
  <2>   QED  BY <1>1, <1>3, <2>1, <2>2, <2>3, <2>4 DEF Types
<1>6. InHand'  BY <1>1, <1>2, <1>3, Values DEF InHand, Posting, Removing, Taken
<1>7. RequestsHaveHandles'  BY <1>1, <1>2, <1>3, Values DEF RequestsHaveHandles
<1>8. ASSUME Orderly  PROVE InOrder'
  <2>1. InOrder  BY <1>8 DEF StagedInv
  <2>2. slot[t] \in Slots /\ key[slot[t]] = handle[op[t]] /\ blk[slot[t]] = op[t]
    BY <1>1, <2>1, <1>3, Ranges DEF InOrder, AtSlot
  <2>3. PlacesHold'  BY <2>1, <1>2, <2>2, <1>3 DEF InOrder, PlacesHold
  <2>4. OnePlace'  BY <2>1, <1>2, <2>2, <1>3 DEF InOrder, OnePlace
  <2>5. HeldHasPlace'  BY <2>1, <1>2, <2>2, <1>3 DEF InOrder, HeldHasPlace
  <2>6. AtSlot'  BY <2>1, <1>2, <2>2, <1>3 DEF InOrder, AtSlot, Locking, Taken
  <2>7. LockIsExclusive'
    BY <2>1, <1>2, <2>2, <1>3 DEF InOrder, LockIsExclusive, Locking
  <2>8. KeyNamesBlock'  BY <2>1, <1>2, <2>2, <1>3 DEF InOrder, KeyNamesBlock
  <2>9. OneHandle'  BY <2>1, <1>2, <2>2, <1>3 DEF InOrder, OneHandle, Alive
  <2>10. BuiltInIsComplete'
    BY <2>1, <1>2, <2>2, <1>3 DEF InOrder, BuiltInIsComplete
  <2>11. PendingIsOver'
    BY <2>1, <1>2, <2>2, <1>3, <1>4 DEF InOrder, PendingIsOver
  <2>12. OverIsPending'
    BY <2>1, <1>2, <2>2, <1>3, <1>4 DEF InOrder, OverIsPending
  <2>13. Fates'  BY <2>1, <1>2, <2>2, <1>3 DEF InOrder, Fates
  <2>14. CountIsRight'
    <3>1. \A s \in Slots, u \in Threads : Counts(u, s)' <=> Counts(u, s)
      BY <1>3 DEF Counts
    <3>2. \A s \in Slots, u \in Threads :
            Storing(u, s)' <=> u # t /\ Storing(u, s)
      BY <1>3 DEF Storing
    <3>3. \A s \in Slots : Storing(t, s) <=> s = slot[t]  BY <1>3 DEF Storing
    <3>4. \A u \in Threads : Storing(u, slot[t]) => u = t
      BY <1>2, <2>1, <2>2 DEF InOrder, AtSlot, OnePlace, Storing
    <3>5. \A u \in Threads : ~Counts(u, slot[t])
      BY <1>2, <2>1, <2>2 DEF InOrder, AtSlot, Counts
    <3>6. slot[t] \notin Counted  BY <3>3, <3>5 DEF Counted
    <3>7. Counted' = Counted \cup {slot[t]}
      BY <1>2, <2>2, <1>3, <3>1, <3>2, <3>3, <3>4 DEF Counted
    <3>   QED
      BY <2>1, <1>3, <3>6, <3>7, SlotsFinite, FS_AddElement DEF InOrder, CountIsRight
  <2>15. Reachable'  BY <2>1, <1>2, <2>2, <1>3 DEF InOrder, Reachable
  <2>16. AttachHasPassed'
    BY <2>1, <1>2, <2>2, <1>3 DEF InOrder, AttachHasPassed
  <2>17. LookHasPassed'  BY <2>1, <1>2, <2>2, <1>3 DEF InOrder, LookHasPassed
  <2>   QED  BY <2>3, <2>4, <2>5, <2>6, <2>7, <2>8, <2>9, <2>10,
               <2>11, <2>12, <2>13, <2>14, <2>15, <2>16, <2>17
            DEF InOrder
<1>   QED  BY <1>5, <1>6, <1>7, <1>8, <1>3 DEF StagedInv, Orderly

\* A call that nulls requests finds that something is stored.
LEMMA SomethingStagedPreserves ==
  ASSUME NEW t \in Threads, StagedInv, SomethingStaged(t)
  PROVE  StagedInv'
<1>1. Types /\ InHand /\ RequestsHaveHandles  BY DEF StagedInv
<1>2. /\ pc[t] = "any" /\ pc'[t] = "release" /\ todo[t] # <<>>
      /\ \A u \in Threads \ {t} : pc'[u] = pc[u]
      /\ env' = env /\ key' = key /\ blk' = blk /\ live' = live
      /\ kind' = kind /\ phase' = phase /\ handle' = handle /\ block' = block
      /\ op' = op /\ todo' = todo /\ slot' = slot /\ probe' = probe
      /\ seen' = seen
  BY <1>1 DEF SomethingStaged, Goto, tableVars, implVars, loopVars, Types
<1>3. \A u \in Threads : \A h : Pending(u, h)' <=> Pending(u, h)
  BY <1>2 DEF Pending
<1>4. Types'
  BY <1>1, Values
  DEF SomethingStaged, Goto, tableVars, implVars, loopVars, Types, Posting,
      Removing
<1>5. InHand'  BY <1>1, <1>2, Values DEF InHand, Posting, Removing, Taken
<1>6. RequestsHaveHandles'  BY <1>1, <1>2, Values DEF RequestsHaveHandles
<1>7. ASSUME Orderly  PROVE InOrder'
  <2>1. InOrder  BY <1>7 DEF StagedInv
  <2>2. PlacesHold'  BY <2>1, <1>2 DEF InOrder, PlacesHold
  <2>3. OnePlace'  BY <2>1, <1>2 DEF InOrder, OnePlace
  <2>4. HeldHasPlace'  BY <2>1, <1>2 DEF InOrder, HeldHasPlace
  <2>5. AtSlot'  BY <2>1, <1>2 DEF InOrder, AtSlot, Locking, Taken
  <2>6. LockIsExclusive'  BY <2>1, <1>2 DEF InOrder, LockIsExclusive, Locking
  <2>7. KeyNamesBlock'  BY <2>1, <1>2 DEF InOrder, KeyNamesBlock
  <2>8. OneHandle'  BY <2>1, <1>2 DEF InOrder, OneHandle, Alive
  <2>9. BuiltInIsComplete'  BY <2>1, <1>2 DEF InOrder, BuiltInIsComplete
  <2>10. PendingIsOver'  BY <2>1, <1>2, <1>3 DEF InOrder, PendingIsOver
  <2>11. OverIsPending'  BY <2>1, <1>2, <1>3 DEF InOrder, OverIsPending
  <2>12. Fates'  BY <2>1, <1>2 DEF InOrder, Fates
  <2>13. CountIsRight'
    <3>1. \A s \in Slots, u \in Threads : Counts(u, s)' <=> Counts(u, s)
  BY <2>1, <1>2 DEF Counts
    <3>2. \A s \in Slots, u \in Threads : Storing(u, s)' <=> Storing(u, s)
  BY <2>1, <1>2 DEF Storing
    <3>3. Counted' = Counted  BY <1>2, <3>1, <3>2 DEF Counted
    <3>   QED  BY <2>1, <1>2, <3>3 DEF InOrder, CountIsRight
  <2>14. Reachable'  BY <2>1, <1>2 DEF InOrder, Reachable
  <2>15. AttachHasPassed'  BY <2>1, <1>2 DEF InOrder, AttachHasPassed
  <2>16. LookHasPassed'  BY <2>1, <1>2 DEF InOrder, LookHasPassed
  <2>   QED  BY <2>2, <2>3, <2>4, <2>5, <2>6, <2>7, <2>8, <2>9,
               <2>10, <2>11, <2>12, <2>13, <2>14, <2>15, <2>16
            DEF InOrder
<1>   QED  BY <1>4, <1>5, <1>6, <1>7, <1>2 DEF StagedInv, Orderly

\* A call that nulls requests has nothing to release (staging.c:87-90).
LEMMA NothingStagedPreserves ==
  ASSUME NEW t \in Threads, StagedInv, NothingStaged(t)
  PROVE  StagedInv'
<1>1. Types /\ InHand /\ RequestsHaveHandles  BY DEF StagedInv
<1>2. todo'[t] = <<>> /\ Len(todo'[t]) = 0
  BY <1>1, EmptySeq DEF NothingStaged, Return, Types
<1>3. /\ pc[t] = "any" /\ (live = 0 \/ todo[t] = <<>>)
      /\ pc'[t] = "idle" /\ todo'[t] = <<>>
      /\ \A u \in Threads \ {t} :
           /\ pc'[u] = pc[u]
           /\ todo'[u] = todo[u]
           /\ slot'[u] = slot[u]
           /\ probe'[u] = probe[u]
           /\ seen'[u] = seen[u]
      /\ env' = env /\ key' = key /\ blk' = blk /\ live' = live
      /\ kind' = kind /\ phase' = phase /\ handle' = handle /\ block' = block
      /\ op' = op
  BY <1>1, <1>2
  DEF NothingStaged, Return, Goto, ResetLoop, tableVars, implVars, Types
<1>4. Types'
  BY <1>1, ZeroIsSlot, EmptySeq
  DEF NothingStaged, Return, Goto, ResetLoop, tableVars, implVars, Types
<1>5. InHand'  BY <1>1, <1>2, <1>3, Values DEF InHand, Posting, Removing, Taken
<1>6. RequestsHaveHandles'  BY <1>1, <1>2, <1>3, Values DEF RequestsHaveHandles
<1>7. ASSUME Orderly  PROVE InOrder'
  <2>1. InOrder  BY <1>7 DEF StagedInv
  <2>2. \A o \in Ops : phase[o] = "finished" /\ block[o] = "held" =>
          ~Pending(t, handle[o])
    <3> SUFFICES ASSUME NEW o \in Ops, phase[o] = "finished", block[o] = "held",
                        Pending(t, handle[o])
                 PROVE  FALSE
      OBVIOUS
    <3>1. \E s \in Slots : s \in Counted
      BY <1>1, <2>1, <1>3, OverIsInTable DEF Taken
    <3>   QED  BY <1>1, <2>1, <1>3, <3>1, ZeroIsEmpty, PendingIsHandle
  <2>3. \A u \in Threads : \A h : Pending(u, h)' <=> u # t /\ Pending(u, h)
    BY <1>2, <1>3 DEF Pending
  <2>4. PlacesHold'  BY <2>1, <1>2, <2>2, <2>3, <1>3 DEF InOrder, PlacesHold
  <2>5. OnePlace'  BY <2>1, <1>2, <2>2, <2>3, <1>3 DEF InOrder, OnePlace
  <2>6. HeldHasPlace'  BY <2>1, <1>2, <2>2, <2>3, <1>3 DEF InOrder, HeldHasPlace
  <2>7. AtSlot'
    BY <2>1, <1>2, <2>2, <2>3, <1>3 DEF InOrder, AtSlot, Locking, Taken
  <2>8. LockIsExclusive'
    BY <2>1, <1>2, <2>2, <2>3, <1>3 DEF InOrder, LockIsExclusive, Locking
  <2>9. KeyNamesBlock'
    BY <2>1, <1>2, <2>2, <2>3, <1>3 DEF InOrder, KeyNamesBlock
  <2>10. OneHandle'
    BY <2>1, <1>2, <2>2, <2>3, <1>3 DEF InOrder, OneHandle, Alive
  <2>11. BuiltInIsComplete'
    BY <2>1, <1>2, <2>2, <2>3, <1>3 DEF InOrder, BuiltInIsComplete
  <2>12. PendingIsOver'
    BY <2>1, <1>2, <2>2, <2>3, <1>3 DEF InOrder, PendingIsOver
  <2>13. OverIsPending'
    BY <2>1, <1>2, <2>2, <2>3, <1>3 DEF InOrder, OverIsPending
  <2>14. Fates'  BY <2>1, <1>2, <2>2, <2>3, <1>3 DEF InOrder, Fates
  <2>15. CountIsRight'
    <3>1. \A s \in Slots, u \in Threads : Counts(u, s)' <=> Counts(u, s)
  BY <2>1, <1>2, <2>2, <2>3, <1>3 DEF Counts
    <3>2. \A s \in Slots, u \in Threads : Storing(u, s)' <=> Storing(u, s)
  BY <2>1, <1>2, <2>2, <2>3, <1>3 DEF Storing
    <3>3. Counted' = Counted  BY <1>3, <3>1, <3>2 DEF Counted
    <3>   QED  BY <2>1, <1>3, <3>3 DEF InOrder, CountIsRight
  <2>16. Reachable'  BY <2>1, <1>2, <2>2, <2>3, <1>3 DEF InOrder, Reachable
  <2>17. AttachHasPassed'
    BY <2>1, <1>2, <2>2, <2>3, <1>3 DEF InOrder, AttachHasPassed
  <2>18. LookHasPassed'
    BY <2>1, <1>2, <2>2, <2>3, <1>3 DEF InOrder, LookHasPassed
  <2>   QED  BY <2>4, <2>5, <2>6, <2>7, <2>8, <2>9, <2>10, <2>11,
               <2>12, <2>13, <2>14, <2>15, <2>16, <2>17, <2>18
            DEF InOrder
<1>   QED  BY <1>4, <1>5, <1>6, <1>7, <1>3 DEF StagedInv, Orderly

\* The probing for a handle begins.
LEMMA ReleaseStartPreserves ==
  ASSUME NEW t \in Threads, StagedInv, ReleaseStart(t)
  PROVE  StagedInv'
<1>1. Types /\ InHand /\ RequestsHaveHandles  BY DEF StagedInv
<1>2. todo[t] # <<>> /\ Head(todo[t]) \in Handles
  BY <1>1, HeadIsPending DEF ReleaseStart, InHand, Removing
<1>3. /\ pc[t] = "release" /\ pc'[t] = "look"
      /\ slot'[t] = Home[Head(todo[t])] /\ probe'[t] = 0
      /\ \A u \in Threads \ {t} :
           /\ pc'[u] = pc[u]
           /\ slot'[u] = slot[u]
           /\ probe'[u] = probe[u]
      /\ env' = env /\ key' = key /\ blk' = blk /\ live' = live
      /\ kind' = kind /\ phase' = phase /\ handle' = handle /\ block' = block
      /\ op' = op /\ todo' = todo /\ seen' = seen
  BY <1>1, <1>2 DEF ReleaseStart, Goto, StartLoop, tableVars, implVars, Types
<1>4. \A u \in Threads : \A h : Pending(u, h)' <=> Pending(u, h)
  BY <1>3 DEF Pending
<1>5. Types'
  BY <1>1, <1>2, StartsAtHome, ZeroIsSlot
  DEF ReleaseStart, Goto, StartLoop, tableVars, implVars, Types, Removing
<1>6. InHand'  BY <1>1, <1>2, <1>3, Values DEF InHand, Posting, Removing, Taken
<1>7. RequestsHaveHandles'  BY <1>1, <1>2, <1>3, Values DEF RequestsHaveHandles
<1>8. ASSUME Orderly  PROVE InOrder'
  <2>1. InOrder  BY <1>8 DEF StagedInv
  <2>2. PlacesHold'  BY <2>1, <1>2, <1>3 DEF InOrder, PlacesHold
  <2>3. OnePlace'  BY <2>1, <1>2, <1>3 DEF InOrder, OnePlace
  <2>4. HeldHasPlace'  BY <2>1, <1>2, <1>3 DEF InOrder, HeldHasPlace
  <2>5. AtSlot'  BY <2>1, <1>2, <1>3 DEF InOrder, AtSlot, Locking, Taken
  <2>6. LockIsExclusive'
    BY <2>1, <1>2, <1>3 DEF InOrder, LockIsExclusive, Locking
  <2>7. KeyNamesBlock'  BY <2>1, <1>2, <1>3 DEF InOrder, KeyNamesBlock
  <2>8. OneHandle'  BY <2>1, <1>2, <1>3 DEF InOrder, OneHandle, Alive
  <2>9. BuiltInIsComplete'  BY <2>1, <1>2, <1>3 DEF InOrder, BuiltInIsComplete
  <2>10. PendingIsOver'  BY <2>1, <1>2, <1>3, <1>4 DEF InOrder, PendingIsOver
  <2>11. OverIsPending'  BY <2>1, <1>2, <1>3, <1>4 DEF InOrder, OverIsPending
  <2>12. Fates'  BY <2>1, <1>2, <1>3 DEF InOrder, Fates
  <2>13. CountIsRight'
    <3>1. \A s \in Slots, u \in Threads : Counts(u, s)' <=> Counts(u, s)
  BY <2>1, <1>2, <1>3 DEF Counts
    <3>2. \A s \in Slots, u \in Threads : Storing(u, s)' <=> Storing(u, s)
  BY <2>1, <1>2, <1>3 DEF Storing
    <3>3. Counted' = Counted  BY <1>3, <3>1, <3>2 DEF Counted
    <3>   QED  BY <2>1, <1>3, <3>3 DEF InOrder, CountIsRight
  <2>14. Reachable'  BY <2>1, <1>2, <1>3 DEF InOrder, Reachable
  <2>15. AttachHasPassed'  BY <2>1, <1>2, <1>3 DEF InOrder, AttachHasPassed
  <2>16. LookHasPassed'
    BY <2>1, <1>2, <1>3, StartsAtHome DEF InOrder, LookHasPassed
  <2>   QED  BY <2>2, <2>3, <2>4, <2>5, <2>6, <2>7, <2>8, <2>9,
               <2>10, <2>11, <2>12, <2>13, <2>14, <2>15, <2>16
            DEF InOrder
<1>   QED  BY <1>5, <1>6, <1>7, <1>8, <1>3 DEF StagedInv, Orderly

\* The slot is another request's, or free again.
LEMMA ReleaseSkipsPreserves ==
  ASSUME NEW t \in Threads, StagedInv, ReleaseSkips(t)
  PROVE  StagedInv'
<1>1. Types /\ InHand /\ RequestsHaveHandles  BY DEF StagedInv
<1>2. todo[t] # <<>> /\ Head(todo[t]) \in Handles
  BY <1>1, HeadIsPending DEF ReleaseSkips, InHand, Removing
<1>3. probe[t] < Capacity /\ NextSlot(t)
  BY DEF ReleaseSkips
<1>4. /\ slot' \in [Threads -> Slots] /\ probe' \in [Threads -> 0 .. Capacity]
      /\ probe'[t] = probe[t] + 1
      /\ \A u \in Threads \ {t} : slot'[u] = slot[u] /\ probe'[u] = probe[u]
      /\ \A h \in Handles : slot[t] = PosAt(h, probe[t]) /\ probe'[t] < Capacity
           => slot'[t] = PosAt(h, probe'[t])
  BY <1>1, <1>3, SlotStep
<1>5. /\ pc[t] = "look" /\ probe[t] < Capacity /\ key[slot[t]] # Head(todo[t])
      /\ env' = env /\ key' = key /\ blk' = blk /\ live' = live
      /\ kind' = kind /\ phase' = phase /\ handle' = handle /\ block' = block
      /\ pc' = pc /\ op' = op /\ todo' = todo /\ seen' = seen
  BY <1>1, <1>2, <1>3, <1>4
  DEF ReleaseSkips, NextSlot, tableVars, implVars, Types
<1>6. \A u \in Threads : \A h : Pending(u, h)' <=> Pending(u, h)
  BY <1>5 DEF Pending
<1>7. Types'
  BY <1>1, <1>4 DEF ReleaseSkips, NextSlot, tableVars, implVars, Types
<1>8. InHand'
  BY <1>1, <1>2, <1>3, <1>4, <1>5, Values DEF InHand, Posting, Removing, Taken
<1>9. RequestsHaveHandles'
  BY <1>1, <1>2, <1>3, <1>4, <1>5, Values DEF RequestsHaveHandles
<1>10. ASSUME Orderly  PROVE InOrder'
  <2>1. InOrder  BY <1>10 DEF StagedInv
  <2>2. PlacesHold'  BY <2>1, <1>2, <1>3, <1>4, <1>5 DEF InOrder, PlacesHold
  <2>3. OnePlace'  BY <2>1, <1>2, <1>3, <1>4, <1>5 DEF InOrder, OnePlace
  <2>4. HeldHasPlace'  BY <2>1, <1>2, <1>3, <1>4, <1>5 DEF InOrder, HeldHasPlace
  <2>5. AtSlot'
    BY <2>1, <1>2, <1>3, <1>4, <1>5 DEF InOrder, AtSlot, Locking, Taken
  <2>6. LockIsExclusive'
    BY <2>1, <1>2, <1>3, <1>4, <1>5 DEF InOrder, LockIsExclusive, Locking
  <2>7. KeyNamesBlock'
    BY <2>1, <1>2, <1>3, <1>4, <1>5 DEF InOrder, KeyNamesBlock
  <2>8. OneHandle'
    BY <2>1, <1>2, <1>3, <1>4, <1>5 DEF InOrder, OneHandle, Alive
  <2>9. BuiltInIsComplete'
    BY <2>1, <1>2, <1>3, <1>4, <1>5 DEF InOrder, BuiltInIsComplete
  <2>10. PendingIsOver'
    BY <2>1, <1>2, <1>3, <1>4, <1>5, <1>6 DEF InOrder, PendingIsOver
  <2>11. OverIsPending'
    BY <2>1, <1>2, <1>3, <1>4, <1>5, <1>6 DEF InOrder, OverIsPending
  <2>12. Fates'  BY <2>1, <1>2, <1>3, <1>4, <1>5 DEF InOrder, Fates
  <2>13. CountIsRight'
    <3>1. \A s \in Slots, u \in Threads : Counts(u, s)' <=> Counts(u, s)
  BY <2>1, <1>2, <1>3, <1>4, <1>5 DEF Counts
    <3>2. \A s \in Slots, u \in Threads : Storing(u, s)' <=> Storing(u, s)
  BY <2>1, <1>2, <1>3, <1>4, <1>5 DEF Storing
    <3>3. Counted' = Counted  BY <1>5, <3>1, <3>2 DEF Counted
    <3>   QED  BY <2>1, <1>5, <3>3 DEF InOrder, CountIsRight
  <2>14. Reachable'  BY <2>1, <1>2, <1>3, <1>4, <1>5 DEF InOrder, Reachable
  <2>15. AttachHasPassed'
    BY <2>1, <1>2, <1>3, <1>4, <1>5 DEF InOrder, AttachHasPassed
  <2>16. LookHasPassed'
    <3> SUFFICES ASSUME NEW u \in Threads, pc[u] = "look"
                 PROVE  /\ probe'[u] < Capacity => slot'[u] = PosAt(Head(todo[u]), probe'[u])
                        /\ \A j \in 0 .. probe'[u] - 1 : key[PosAt(Head(todo[u]), j)] # Head(todo[u])
      BY <2>1, <1>5 DEF InOrder, LookHasPassed
    <3>1. CASE u = t
      BY <1>1, <1>2, <1>3, <1>4, <2>1, <1>5, <3>1, Ranges DEF InOrder, LookHasPassed
    <3>2. CASE u # t  BY <1>4, <2>1, <3>2 DEF InOrder, LookHasPassed
    <3>   QED  BY <3>1, <3>2
  <2>   QED  BY <2>2, <2>3, <2>4, <2>5, <2>6, <2>7, <2>8, <2>9,
               <2>10, <2>11, <2>12, <2>13, <2>14, <2>15, <2>16
            DEF InOrder
<1>   QED  BY <1>7, <1>8, <1>9, <1>10, <1>5 DEF StagedInv, Orderly

\* The handle is found.
LEMMA ReleaseHitsPreserves ==
  ASSUME NEW t \in Threads, StagedInv, ReleaseHits(t)
  PROVE  StagedInv'
<1>1. Types /\ InHand /\ RequestsHaveHandles  BY DEF StagedInv
<1>2. /\ pc[t] = "look" /\ pc'[t] = "lock" /\ probe[t] < Capacity
      /\ key[slot[t]] = Head(todo[t])
      /\ \A u \in Threads \ {t} : pc'[u] = pc[u]
      /\ env' = env /\ key' = key /\ blk' = blk /\ live' = live
      /\ kind' = kind /\ phase' = phase /\ handle' = handle /\ block' = block
      /\ op' = op /\ todo' = todo /\ slot' = slot /\ probe' = probe
      /\ seen' = seen
  BY <1>1 DEF ReleaseHits, Goto, tableVars, implVars, loopVars, Types
<1>3. \A u \in Threads : \A h : Pending(u, h)' <=> Pending(u, h)
  BY <1>2 DEF Pending
<1>4. Types'
  BY <1>1, Values
  DEF ReleaseHits, Goto, tableVars, implVars, loopVars, Types, Posting,
      Removing
<1>5. InHand'  BY <1>1, <1>2, Values DEF InHand, Posting, Removing, Taken
<1>6. RequestsHaveHandles'  BY <1>1, <1>2, Values DEF RequestsHaveHandles
<1>7. ASSUME Orderly  PROVE InOrder'
  <2>1. InOrder  BY <1>7 DEF StagedInv
  <2>2. PlacesHold'  BY <2>1, <1>2 DEF InOrder, PlacesHold
  <2>3. OnePlace'  BY <2>1, <1>2 DEF InOrder, OnePlace
  <2>4. HeldHasPlace'  BY <2>1, <1>2 DEF InOrder, HeldHasPlace
  <2>5. AtSlot'  BY <2>1, <1>2 DEF InOrder, AtSlot, Locking, Taken
  <2>6. LockIsExclusive'  BY <2>1, <1>2 DEF InOrder, LockIsExclusive, Locking
  <2>7. KeyNamesBlock'  BY <2>1, <1>2 DEF InOrder, KeyNamesBlock
  <2>8. OneHandle'  BY <2>1, <1>2 DEF InOrder, OneHandle, Alive
  <2>9. BuiltInIsComplete'  BY <2>1, <1>2 DEF InOrder, BuiltInIsComplete
  <2>10. PendingIsOver'  BY <2>1, <1>2, <1>3 DEF InOrder, PendingIsOver
  <2>11. OverIsPending'  BY <2>1, <1>2, <1>3 DEF InOrder, OverIsPending
  <2>12. Fates'  BY <2>1, <1>2 DEF InOrder, Fates
  <2>13. CountIsRight'
    <3>1. \A s \in Slots, u \in Threads : Counts(u, s)' <=> Counts(u, s)
  BY <2>1, <1>2 DEF Counts
    <3>2. \A s \in Slots, u \in Threads : Storing(u, s)' <=> Storing(u, s)
  BY <2>1, <1>2 DEF Storing
    <3>3. Counted' = Counted  BY <1>2, <3>1, <3>2 DEF Counted
    <3>   QED  BY <2>1, <1>2, <3>3 DEF InOrder, CountIsRight
  <2>14. Reachable'  BY <2>1, <1>2 DEF InOrder, Reachable
  <2>15. AttachHasPassed'  BY <2>1, <1>2 DEF InOrder, AttachHasPassed
  <2>16. LookHasPassed'  BY <2>1, <1>2 DEF InOrder, LookHasPassed
  <2>   QED  BY <2>2, <2>3, <2>4, <2>5, <2>6, <2>7, <2>8, <2>9,
               <2>10, <2>11, <2>12, <2>13, <2>14, <2>15, <2>16
            DEF InOrder
<1>   QED  BY <1>4, <1>5, <1>6, <1>7, <1>2 DEF StagedInv, Orderly

\* The compare-and-swap locks the slot (staging.c:271).
LEMMA LockPreserves ==
  ASSUME NEW t \in Threads, StagedInv, Lock(t)
  PROVE  StagedInv'
<1>1. Types /\ InHand /\ RequestsHaveHandles  BY DEF StagedInv
<1>2. Head(todo[t]) \in Handles /\ slot[t] \in Slots
  BY <1>1, HeadIsPending, Ranges DEF Lock, Removing
<1>3. /\ pc[t] = "lock" /\ pc'[t] = "take" /\ key[slot[t]] = Head(todo[t])
      /\ key'[slot[t]] = Locked /\ \A s \in Slots \ {slot[t]} : key'[s] = key[s]
      /\ \A u \in Threads \ {t} : pc'[u] = pc[u]
      /\ env' = env /\ blk' = blk /\ live' = live /\ kind' = kind
      /\ phase' = phase /\ handle' = handle /\ block' = block /\ op' = op
      /\ todo' = todo /\ slot' = slot /\ probe' = probe /\ seen' = seen
  BY <1>1, <1>2 DEF Lock, Goto, implVars, loopVars, Types
<1>4. \A u \in Threads : \A h : Pending(u, h)' <=> Pending(u, h)
  BY <1>3 DEF Pending
<1>5. Types'
  BY <1>1, <1>2, Values
  DEF Lock, Goto, implVars, loopVars, Types, Posting, Removing
<1>6. InHand'  BY <1>1, <1>2, <1>3, Values DEF InHand, Posting, Removing, Taken
<1>7. RequestsHaveHandles'  BY <1>1, <1>2, <1>3, Values DEF RequestsHaveHandles
<1>8. ASSUME Orderly  PROVE InOrder'
  <2>1. InOrder  BY <1>8 DEF StagedInv
  <2>2. Head(todo[t]) # BuiltIn  BY <2>1, <1>2, <1>3 DEF InOrder, KeyNamesBlock
  <2>3. Pending(t, Head(todo[t]))  BY <1>1, <1>3, HeadIsPending DEF Removing
  <2>4. \A o \in Ops : phase[o] # "finished" => handle[o] # Head(todo[t])
    BY <1>2, <2>1, <2>2, <2>3 DEF InOrder, PendingIsOver
  <2>5. \A u \in Threads : pc[u] \in {"store", "stored"} => slot[u] # slot[t]
    BY <1>1, <2>1, <1>3, <2>4, Kept DEF InOrder, AtSlot, Posting
  <2>6. blk[slot[t]] # None /\ handle[blk[slot[t]]] = Head(todo[t])
    BY <1>2, <2>1, <1>3, <2>5, Values DEF InOrder, KeyNamesBlock, AtSlot, Locking
  <2>7. \A u \in Threads \ {t} : pc[u] \in {"lock"} \cup Locking => slot[u] # slot[t]
    <3> SUFFICES ASSUME NEW u \in Threads \ {t}, slot[u] = slot[t],
                        pc[u] \in {"lock"} \cup Locking
                 PROVE  FALSE
      OBVIOUS
    <3>1. pc[u] = "lock" /\ Head(todo[u]) = Head(todo[t])
      BY <1>2, <2>1, <1>3, Values DEF InOrder, AtSlot, Locking
    <3>2. Pending(u, Head(todo[t]))  BY <1>1, <3>1, HeadIsPending DEF Removing
    <3>   QED  BY <1>2, <2>1, <2>2, <2>3, <3>2 DEF InOrder, PendingIsOver
  <2>8. PlacesHold'
    BY <2>1, <1>2, <2>2, <2>3, <2>4, <2>5, <2>6, <2>7, <1>3
    DEF InOrder, PlacesHold
  <2>9. OnePlace'
    BY <2>1, <1>2, <2>2, <2>3, <2>4, <2>5, <2>6, <2>7, <1>3
    DEF InOrder, OnePlace
  <2>10. HeldHasPlace'
    BY <2>1, <1>2, <2>2, <2>3, <2>4, <2>5, <2>6, <2>7, <1>3
    DEF InOrder, HeldHasPlace
  <2>11. AtSlot'
    BY <2>1, <1>2, <2>2, <2>3, <2>4, <2>5, <2>6, <2>7, <1>3, <1>1, Ranges
    DEF InOrder, AtSlot, Locking, Taken
  <2>12. LockIsExclusive'
    BY <2>1, <1>2, <2>2, <2>3, <2>4, <2>5, <2>6, <2>7, <1>3
    DEF InOrder, LockIsExclusive, Locking
  <2>13. KeyNamesBlock'
    BY <2>1, <1>2, <2>2, <2>3, <2>4, <2>5, <2>6, <2>7, <1>3, Values
    DEF InOrder, KeyNamesBlock
  <2>14. OneHandle'
    BY <2>1, <1>2, <2>2, <2>3, <2>4, <2>5, <2>6, <2>7, <1>3
    DEF InOrder, OneHandle, Alive
  <2>15. BuiltInIsComplete'
    BY <2>1, <1>2, <2>2, <2>3, <2>4, <2>5, <2>6, <2>7, <1>3
    DEF InOrder, BuiltInIsComplete
  <2>16. PendingIsOver'
    BY <2>1, <1>2, <2>2, <2>3, <2>4, <2>5, <2>6, <2>7, <1>3, <1>4
    DEF InOrder, PendingIsOver
  <2>17. OverIsPending'
    BY <2>1, <1>2, <2>2, <2>3, <2>4, <2>5, <2>6, <2>7, <1>3, <1>4
    DEF InOrder, OverIsPending
  <2>18. Fates'
    BY <2>1, <1>2, <2>2, <2>3, <2>4, <2>5, <2>6, <2>7, <1>3 DEF InOrder, Fates
  <2>19. CountIsRight'
    <3>1. \A s \in Slots, u \in Threads : Counts(u, s)' <=> Counts(u, s)
  BY <2>1, <1>2, <2>2, <2>3, <2>4, <2>5, <2>6, <2>7, <1>3 DEF Counts
    <3>2. \A s \in Slots, u \in Threads : Storing(u, s)' <=> Storing(u, s)
  BY <2>1, <1>2, <2>2, <2>3, <2>4, <2>5, <2>6, <2>7, <1>3 DEF Storing
    <3>3. Counted' = Counted  BY <1>3, <3>1, <3>2 DEF Counted
    <3>   QED  BY <2>1, <1>3, <3>3 DEF InOrder, CountIsRight
  <2>20. Reachable'
    <3>1. \A h \in Handles, i \in Slots : PosAt(h, i) \in Slots
      BY NextPos DEF Slots
    <3>2. \A s \in Slots : key[s] # Empty => key'[s] # Empty  BY <1>3, Values
    <3> SUFFICES ASSUME NEW s \in Slots, s # slot[t], key[s] \in Handles
                 PROVE  \E i \in Slots :
                          /\ s = PosAt(key[s], i)
                          /\ \A j \in 0 .. i - 1 : key'[PosAt(key[s], j)] # Empty
      BY <1>3, Values DEF Reachable
    <3>3. PICK i \in Slots : /\ s = PosAt(key[s], i)
                             /\ \A j \in 0 .. i - 1 : key[PosAt(key[s], j)] # Empty
      BY <2>1 DEF InOrder, Reachable
    <3>4. \A j \in 0 .. i - 1 : j \in Slots  BY CapacityAssumption DEF Slots
    <3>   QED  BY <3>1, <3>2, <3>3, <3>4
  <2>21. AttachHasPassed'
    <3>1. \A h \in Handles, i \in Slots : PosAt(h, i) \in Slots
      BY NextPos DEF Slots
    <3>2. \A s \in Slots : key[s] # Empty => key'[s] # Empty  BY <1>3, Values
    <3> SUFFICES ASSUME NEW u \in Threads, u # t, pc[u] \in {"attach", "cas"}
                 PROVE  /\ \A j \in 0 .. probe[u] - 1 : key'[PosAt(handle[op[u]], j)] # Empty
                        /\ pc[u] = "cas" /\ seen[u] = Tomb => key'[slot[u]] # Empty
      BY <2>1, <1>3 DEF InOrder, AttachHasPassed
    <3>3. \A j \in 0 .. probe[u] - 1 : j \in Slots
      BY <1>1, Ranges, CapacityAssumption DEF Slots
    <3>4. handle[op[u]] \in Handles  BY <1>1, <2>1, Kept DEF Posting
    <3>   QED
      BY <1>1, <2>1, <3>1, <3>2, <3>3, <3>4, Ranges DEF InOrder, AttachHasPassed
  <2>22. LookHasPassed'
    <3> SUFFICES ASSUME NEW u \in Threads, pc[u] = "look", NEW j \in 0 .. probe[u] - 1
                 PROVE  key'[PosAt(Head(todo[u]), j)] # Head(todo[u])
      BY <2>1, <1>3 DEF InOrder, LookHasPassed
    <3>1. j \in Slots /\ Head(todo[u]) \in Handles
      BY <1>1, Ranges, CapacityAssumption, HeadIsPending DEF Slots, Removing
    <3>2. PosAt(Head(todo[u]), j) \in Slots  BY <3>1, NextPos DEF Slots
    <3>   QED  BY <2>1, <3>1, <3>2, <1>3, Values DEF InOrder, LookHasPassed
  <2>   QED  BY <2>8, <2>9, <2>10, <2>11, <2>12, <2>13, <2>14, <2>15,
               <2>16, <2>17, <2>18, <2>19, <2>20, <2>21, <2>22
            DEF InOrder
<1>   QED  BY <1>5, <1>6, <1>7, <1>8, <1>3 DEF StagedInv, Orderly

\* The block is taken out.
LEMMA TakeBlockPreserves ==
  ASSUME NEW t \in Threads, StagedInv, TakeBlock(t)
  PROVE  StagedInv'
<1>1. Types /\ InHand /\ RequestsHaveHandles  BY DEF StagedInv
<1>2. slot[t] \in Slots  BY <1>1, Ranges
<1>3. /\ pc[t] = "take" /\ pc'[t] = "uncount" /\ op'[t] = blk[slot[t]]
      /\ blk'[slot[t]] = None /\ \A s \in Slots \ {slot[t]} : blk'[s] = blk[s]
      /\ \A u \in Threads \ {t} : pc'[u] = pc[u] /\ op'[u] = op[u]
      /\ env' = env /\ key' = key /\ live' = live /\ kind' = kind
      /\ phase' = phase /\ handle' = handle /\ block' = block /\ todo' = todo
      /\ slot' = slot /\ probe' = probe /\ seen' = seen
  BY <1>1, <1>2 DEF TakeBlock, Goto, implVars, loopVars, Types
<1>4. \A u \in Threads : \A h : Pending(u, h)' <=> Pending(u, h)
  BY <1>3 DEF Pending
<1>5. Types'
  BY <1>1, <1>2, Values
  DEF TakeBlock, Goto, implVars, loopVars, Types, Posting, Removing
<1>6. InHand'
  BY <1>1, <1>2, <1>3, Values, Ranges DEF InHand, Posting, Removing, Taken
<1>7. RequestsHaveHandles'  BY <1>1, <1>2, <1>3, Values DEF RequestsHaveHandles
<1>8. ASSUME Orderly  PROVE InOrder'
  <2>1. InOrder  BY <1>8 DEF StagedInv
  <2>2. /\ blk[slot[t]] \in Ops /\ block[blk[slot[t]]] = "held"
        /\ handle[blk[slot[t]]] \in Handles \ {BuiltIn}
        /\ handle[blk[slot[t]]] = Head(todo[t])
        /\ key[slot[t]] = Locked
    BY <1>1, <1>2, <2>1, <1>3, InTable DEF InOrder, AtSlot, Locking
  <2>3. phase[blk[slot[t]]] = "finished"
    BY <1>1, <2>1, <1>3, <2>2, HeadIsPending DEF InOrder, PendingIsOver, Removing
  <2>4. \A u \in Threads : op[u] # blk[slot[t]]
    BY <1>1, <1>2, <2>1, <1>3, <2>2, <2>3, Values DEF InOrder, OnePlace, InHand, Posting
  <2>5. \A u \in Threads \ {t} : pc[u] \in {"store", "stored"} \cup Locking => slot[u] # slot[t]
    BY <1>1, <2>1, <1>3, <2>2, Values, Kept
    DEF InOrder, AtSlot, LockIsExclusive, Posting, Locking
  <2>6. PlacesHold'
    BY <2>1, <1>2, <2>2, <2>3, <2>4, <2>5, <1>3 DEF InOrder, PlacesHold
  <2>7. OnePlace'
    BY <2>1, <1>2, <2>2, <2>3, <2>4, <2>5, <1>3, Values DEF InOrder, OnePlace
  <2>8. HeldHasPlace'
    <3> SUFFICES ASSUME NEW o \in Ops, block[o] = "held"
                 PROVE  (\E s \in Slots : blk'[s] = o) \/ (\E u \in Threads : op'[u] = o)
      BY <1>3 DEF HeldHasPlace
    <3>1. op[t] = None  BY <1>1, <1>3 DEF InHand, Posting, Taken
    <3>2. CASE \E s \in Slots : blk[s] = o  BY <1>3, <3>2
    <3>3. CASE \E u \in Threads : op[u] = o  BY <1>3, <3>1, <3>3, Values
    <3>   QED  BY <2>1, <3>2, <3>3 DEF InOrder, HeldHasPlace
  <2>9. AtSlot'
    BY <2>1, <1>2, <2>2, <2>3, <2>4, <2>5, <1>3, <1>1, Ranges, Values
    DEF InOrder, AtSlot, Locking, Taken
  <2>10. LockIsExclusive'
    BY <2>1, <1>2, <2>2, <2>3, <2>4, <2>5, <1>3
    DEF InOrder, LockIsExclusive, Locking
  <2>11. KeyNamesBlock'
    BY <2>1, <1>2, <2>2, <2>3, <2>4, <2>5, <1>3, Values
    DEF InOrder, KeyNamesBlock
  <2>12. OneHandle'
    BY <2>1, <1>2, <2>2, <2>3, <2>4, <2>5, <1>3 DEF InOrder, OneHandle, Alive
  <2>13. BuiltInIsComplete'
    BY <2>1, <1>2, <2>2, <2>3, <2>4, <2>5, <1>3 DEF InOrder, BuiltInIsComplete
  <2>14. PendingIsOver'
    BY <2>1, <1>2, <2>2, <2>3, <2>4, <2>5, <1>3, <1>4 DEF InOrder, PendingIsOver
  <2>15. OverIsPending'
    BY <2>1, <1>2, <2>2, <2>3, <2>4, <2>5, <1>3, <1>4 DEF InOrder, OverIsPending
  <2>16. Fates'  BY <2>1, <1>2, <2>2, <2>3, <2>4, <2>5, <1>3 DEF InOrder, Fates
  <2>17. CountIsRight'
    <3>1. \A s \in Slots : (\E u \in Threads : Counts(u, s))' <=>
              s = slot[t] \/ \E u \in Threads : Counts(u, s)
      BY <1>3 DEF Counts
    <3>2. \A s \in Slots, u \in Threads : Storing(u, s)' <=> Storing(u, s)
      BY <1>3 DEF Storing
    <3>3. \A u \in Threads : ~Storing(u, slot[t])  BY <2>5, <1>3 DEF Storing
    <3>4. slot[t] \in Counted  BY <1>2, <2>2, <3>3, Values DEF Counted
    <3>5. Counted' = Counted  BY <1>2, <1>3, <3>1, <3>2, <3>4 DEF Counted
    <3>   QED  BY <2>1, <1>3, <3>5 DEF InOrder, CountIsRight
  <2>18. Reachable'
    BY <2>1, <1>2, <2>2, <2>3, <2>4, <2>5, <1>3 DEF InOrder, Reachable
  <2>19. AttachHasPassed'
    BY <2>1, <1>2, <2>2, <2>3, <2>4, <2>5, <1>3 DEF InOrder, AttachHasPassed
  <2>20. LookHasPassed'
    BY <2>1, <1>2, <2>2, <2>3, <2>4, <2>5, <1>3 DEF InOrder, LookHasPassed
  <2>   QED  BY <2>6, <2>7, <2>8, <2>9, <2>10, <2>11, <2>12, <2>13,
               <2>14, <2>15, <2>16, <2>17, <2>18, <2>19, <2>20
            DEF InOrder
<1>   QED  BY <1>5, <1>6, <1>7, <1>8, <1>3 DEF StagedInv, Orderly

\* It is taken off the count.
LEMMA UncountBlockPreserves ==
  ASSUME NEW t \in Threads, StagedInv, UncountBlock(t)
  PROVE  StagedInv'
<1>1. Types /\ InHand /\ RequestsHaveHandles  BY DEF StagedInv
<1>2. slot[t] \in Slots  BY <1>1, Ranges
<1>3. /\ pc[t] = "uncount" /\ pc'[t] = "unlock" /\ live' = live - 1
      /\ \A u \in Threads \ {t} : pc'[u] = pc[u]
      /\ env' = env /\ key' = key /\ blk' = blk /\ kind' = kind
      /\ phase' = phase /\ handle' = handle /\ block' = block /\ op' = op
      /\ todo' = todo /\ slot' = slot /\ probe' = probe /\ seen' = seen
  BY <1>1, <1>2 DEF UncountBlock, Goto, implVars, loopVars, Types
<1>4. \A u \in Threads : \A h : Pending(u, h)' <=> Pending(u, h)
  BY <1>3 DEF Pending
<1>5. Types'
  <2>1. live' \in Int
    <3>1. live \in Int /\ live' = live - 1  BY <1>1, <1>3 DEF Types
    <3>   QED  BY <3>1
  <2>2. pc' \in [Threads -> Posting \cup Removing \cup {"idle", "any"}]
    BY <1>1 DEF UncountBlock, Goto, Types, Removing
  <2>   QED  BY <1>1, <1>3, <2>1, <2>2 DEF Types
<1>6. InHand'  BY <1>1, <1>2, <1>3, Values DEF InHand, Posting, Removing, Taken
<1>7. RequestsHaveHandles'  BY <1>1, <1>2, <1>3, Values DEF RequestsHaveHandles
<1>8. ASSUME Orderly  PROVE InOrder'
  <2>1. InOrder  BY <1>8 DEF StagedInv
  <2>2. PlacesHold'  BY <2>1, <1>2, <1>3 DEF InOrder, PlacesHold
  <2>3. OnePlace'  BY <2>1, <1>2, <1>3 DEF InOrder, OnePlace
  <2>4. HeldHasPlace'  BY <2>1, <1>2, <1>3 DEF InOrder, HeldHasPlace
  <2>5. AtSlot'  BY <2>1, <1>2, <1>3 DEF InOrder, AtSlot, Locking, Taken
  <2>6. LockIsExclusive'
    BY <2>1, <1>2, <1>3 DEF InOrder, LockIsExclusive, Locking
  <2>7. KeyNamesBlock'  BY <2>1, <1>2, <1>3 DEF InOrder, KeyNamesBlock
  <2>8. OneHandle'  BY <2>1, <1>2, <1>3 DEF InOrder, OneHandle, Alive
  <2>9. BuiltInIsComplete'  BY <2>1, <1>2, <1>3 DEF InOrder, BuiltInIsComplete
  <2>10. PendingIsOver'  BY <2>1, <1>2, <1>3, <1>4 DEF InOrder, PendingIsOver
  <2>11. OverIsPending'  BY <2>1, <1>2, <1>3, <1>4 DEF InOrder, OverIsPending
  <2>12. Fates'  BY <2>1, <1>2, <1>3 DEF InOrder, Fates
  <2>13. CountIsRight'
    <3>1. \A s \in Slots, u \in Threads : Counts(u, s)' <=> u # t /\ Counts(u, s)
      BY <1>3 DEF Counts
    <3>2. \A s \in Slots, u \in Threads : Storing(u, s)' <=> Storing(u, s)
      BY <1>3 DEF Storing
    <3>3. blk[slot[t]] = None  BY <2>1, <1>3 DEF InOrder, AtSlot
    <3>4. \A s \in Slots : Counts(t, s) <=> s = slot[t]  BY <1>3 DEF Counts
    <3>5. \A u \in Threads : Counts(u, slot[t]) => u = t
      BY <2>1, <1>3 DEF InOrder, LockIsExclusive, Locking, Counts
    <3>6. slot[t] \in Counted  BY <1>2, <3>4 DEF Counted
    <3>7. Counted' = Counted \ {slot[t]}
      BY <1>2, <1>3, <3>1, <3>2, <3>3, <3>4, <3>5 DEF Counted
    <3>   QED
      BY <2>1, <1>3, <3>6, <3>7, SlotsFinite, FS_RemoveElement
      DEF InOrder, CountIsRight
  <2>14. Reachable'  BY <2>1, <1>2, <1>3 DEF InOrder, Reachable
  <2>15. AttachHasPassed'  BY <2>1, <1>2, <1>3 DEF InOrder, AttachHasPassed
  <2>16. LookHasPassed'  BY <2>1, <1>2, <1>3 DEF InOrder, LookHasPassed
  <2>   QED  BY <2>2, <2>3, <2>4, <2>5, <2>6, <2>7, <2>8, <2>9,
               <2>10, <2>11, <2>12, <2>13, <2>14, <2>15, <2>16
            DEF InOrder
<1>   QED  BY <1>5, <1>6, <1>7, <1>8, <1>3 DEF StagedInv, Orderly

\* The slot can be used again, and a probing goes past it.
LEMMA UnlockPreserves ==
  ASSUME NEW t \in Threads, StagedInv, Unlock(t)
  PROVE  StagedInv'
<1>1. Types /\ InHand /\ RequestsHaveHandles  BY DEF StagedInv
<1>2. slot[t] \in Slots  BY <1>1, Ranges
<1>3. /\ pc[t] = "unlock" /\ pc'[t] = "free"
      /\ key'[slot[t]] = Tomb /\ \A s \in Slots \ {slot[t]} : key'[s] = key[s]
      /\ \A u \in Threads \ {t} : pc'[u] = pc[u]
      /\ env' = env /\ blk' = blk /\ live' = live /\ kind' = kind
      /\ phase' = phase /\ handle' = handle /\ block' = block /\ op' = op
      /\ todo' = todo /\ slot' = slot /\ probe' = probe /\ seen' = seen
  BY <1>1, <1>2 DEF Unlock, Goto, implVars, loopVars, Types
<1>4. \A u \in Threads : \A h : Pending(u, h)' <=> Pending(u, h)
  BY <1>3 DEF Pending
<1>5. Types'
  BY <1>1, <1>2, Values
  DEF Unlock, Goto, implVars, loopVars, Types, Posting, Removing
<1>6. InHand'  BY <1>1, <1>2, <1>3, Values DEF InHand, Posting, Removing, Taken
<1>7. RequestsHaveHandles'  BY <1>1, <1>2, <1>3, Values DEF RequestsHaveHandles
<1>8. ASSUME Orderly  PROVE InOrder'
  <2>1. InOrder  BY <1>8 DEF StagedInv
  <2>2. key[slot[t]] = Locked /\ blk[slot[t]] = None
    BY <2>1, <1>3 DEF InOrder, AtSlot, Locking
  <2>3. \A u \in Threads \ {t} :
          pc[u] \in {"store", "stored", "lock"} \cup Locking => slot[u] # slot[t]
    BY <1>1, <2>1, <1>3, <2>2, Values, Kept, HeadIsPending
    DEF InOrder, AtSlot, LockIsExclusive, Posting, Locking, Removing
  <2>4. PlacesHold'  BY <2>1, <1>2, <2>2, <2>3, <1>3 DEF InOrder, PlacesHold
  <2>5. OnePlace'  BY <2>1, <1>2, <2>2, <2>3, <1>3 DEF InOrder, OnePlace
  <2>6. HeldHasPlace'  BY <2>1, <1>2, <2>2, <2>3, <1>3 DEF InOrder, HeldHasPlace
  <2>7. AtSlot'
    BY <2>1, <1>2, <2>2, <2>3, <1>3, <1>1, Ranges, Values
    DEF InOrder, AtSlot, Locking, Taken
  <2>8. LockIsExclusive'
    BY <2>1, <1>2, <2>2, <2>3, <1>3, Values
    DEF InOrder, LockIsExclusive, Locking
  <2>9. KeyNamesBlock'
    BY <2>1, <1>2, <2>2, <2>3, <1>3, Values DEF InOrder, KeyNamesBlock
  <2>10. OneHandle'
    BY <2>1, <1>2, <2>2, <2>3, <1>3 DEF InOrder, OneHandle, Alive
  <2>11. BuiltInIsComplete'
    BY <2>1, <1>2, <2>2, <2>3, <1>3 DEF InOrder, BuiltInIsComplete
  <2>12. PendingIsOver'
    BY <2>1, <1>2, <2>2, <2>3, <1>3, <1>4 DEF InOrder, PendingIsOver
  <2>13. OverIsPending'
    BY <2>1, <1>2, <2>2, <2>3, <1>3, <1>4 DEF InOrder, OverIsPending
  <2>14. Fates'  BY <2>1, <1>2, <2>2, <2>3, <1>3 DEF InOrder, Fates
  <2>15. CountIsRight'
    <3>1. \A s \in Slots, u \in Threads : Counts(u, s)' <=> Counts(u, s)
  BY <2>1, <1>2, <2>2, <2>3, <1>3 DEF Counts
    <3>2. \A s \in Slots, u \in Threads : Storing(u, s)' <=> Storing(u, s)
  BY <2>1, <1>2, <2>2, <2>3, <1>3 DEF Storing
    <3>3. Counted' = Counted  BY <1>3, <3>1, <3>2 DEF Counted
    <3>   QED  BY <2>1, <1>3, <3>3 DEF InOrder, CountIsRight
  <2>16. Reachable'
    <3>1. \A h \in Handles, i \in Slots : PosAt(h, i) \in Slots
      BY NextPos DEF Slots
    <3>2. \A s \in Slots : key[s] # Empty => key'[s] # Empty  BY <1>3, Values
    <3> SUFFICES ASSUME NEW s \in Slots, s # slot[t], key[s] \in Handles
                 PROVE  \E i \in Slots :
                          /\ s = PosAt(key[s], i)
                          /\ \A j \in 0 .. i - 1 : key'[PosAt(key[s], j)] # Empty
      BY <1>3, Values DEF Reachable
    <3>3. PICK i \in Slots : /\ s = PosAt(key[s], i)
                             /\ \A j \in 0 .. i - 1 : key[PosAt(key[s], j)] # Empty
      BY <2>1 DEF InOrder, Reachable
    <3>4. \A j \in 0 .. i - 1 : j \in Slots  BY CapacityAssumption DEF Slots
    <3>   QED  BY <3>1, <3>2, <3>3, <3>4
  <2>17. AttachHasPassed'
    <3>1. \A h \in Handles, i \in Slots : PosAt(h, i) \in Slots
      BY NextPos DEF Slots
    <3>2. \A s \in Slots : key[s] # Empty => key'[s] # Empty  BY <1>3, Values
    <3> SUFFICES ASSUME NEW u \in Threads, u # t, pc[u] \in {"attach", "cas"}
                 PROVE  /\ \A j \in 0 .. probe[u] - 1 : key'[PosAt(handle[op[u]], j)] # Empty
                        /\ pc[u] = "cas" /\ seen[u] = Tomb => key'[slot[u]] # Empty
      BY <2>1, <1>3 DEF InOrder, AttachHasPassed
    <3>3. \A j \in 0 .. probe[u] - 1 : j \in Slots
      BY <1>1, Ranges, CapacityAssumption DEF Slots
    <3>4. handle[op[u]] \in Handles  BY <1>1, <2>1, Kept DEF Posting
    <3>   QED
      BY <1>1, <2>1, <3>1, <3>2, <3>3, <3>4, Ranges DEF InOrder, AttachHasPassed
  <2>18. LookHasPassed'
    <3> SUFFICES ASSUME NEW u \in Threads, pc[u] = "look", NEW j \in 0 .. probe[u] - 1
                 PROVE  key'[PosAt(Head(todo[u]), j)] # Head(todo[u])
      BY <2>1, <1>3 DEF InOrder, LookHasPassed
    <3>1. j \in Slots /\ Head(todo[u]) \in Handles
      BY <1>1, Ranges, CapacityAssumption, HeadIsPending DEF Slots, Removing
    <3>2. PosAt(Head(todo[u]), j) \in Slots  BY <3>1, NextPos DEF Slots
    <3>   QED  BY <2>1, <3>1, <3>2, <1>3, Values DEF InOrder, LookHasPassed
  <2>   QED  BY <2>4, <2>5, <2>6, <2>7, <2>8, <2>9, <2>10, <2>11,
               <2>12, <2>13, <2>14, <2>15, <2>16, <2>17, <2>18
            DEF InOrder
<1>   QED  BY <1>5, <1>6, <1>7, <1>8, <1>3 DEF StagedInv, Orderly

-----------------------------------------------------------------------------
(* Posting. *)

\* An operation that stages nothing.
LEMMA PostPlainPreserves ==
  ASSUME NEW t \in Threads, StagedInv, PostPlain(t)
  PROVE  StagedInv'
<1>1. Types /\ InHand /\ RequestsHaveHandles  BY DEF StagedInv
<1>2. PICK o \in Spare, a \in Answers : Begin(o, "plain", a[1], a[2])
  BY DEF PostPlain
<1>3. PICK ph, h : /\ ph = a[1] /\ h = a[2]
                   /\ \/ ph = "active" /\ h \in FreeHandles
                      \/ ph = "complete" /\ h = BuiltIn
  BY DEF Answers
<1>4. o \in Ops /\ phase[o] = "finished"  BY DEF Spare
<1>5. h \in Handles /\ ph \in {"active", "complete"}
  BY <1>3, Values DEF FreeHandles
<1>6. /\ kind' = [kind EXCEPT ![o] = "plain"]
      /\ phase' = [phase EXCEPT ![o] = ph] /\ handle' = [handle EXCEPT ![o] = h]
  BY <1>2, <1>3 DEF Begin
<1>7. /\ kind'[o] = "plain" /\ phase'[o] = ph /\ handle'[o] = h
      /\ \A p \in Ops \ {o} :
           kind'[p] = kind[p] /\ phase'[p] = phase[p] /\ handle'[p] = handle[p]
  BY <1>1, <1>4, <1>6 DEF Types
<1>8. /\ env' = env /\ key' = key /\ blk' = blk /\ live' = live
      /\ block' = block /\ pc' = pc /\ op' = op /\ todo' = todo
      /\ slot' = slot /\ probe' = probe /\ seen' = seen
  BY DEF PostPlain, tableVars, loopVars
<1>9. Types'  BY <1>1, <1>4, <1>5, <1>6, <1>8 DEF Types
<1>10. InHand'
  <2>1. \A p \in Ops : phase[p] # "finished" => phase'[p] # "finished"
    BY <1>4, <1>7
  <2>   QED  BY <1>1, <1>8, <2>1 DEF InHand
<1>11. RequestsHaveHandles'  BY <1>1, <1>5, <1>7 DEF RequestsHaveHandles
<1>12. ASSUME Orderly  PROVE InOrder'
  <2>1. InOrder  BY <1>12 DEF StagedInv
  <2>2. /\ handle[o] = None /\ block[o] # "held"
        /\ \A s \in Slots : blk[s] # o
        /\ \A u \in Threads : op[u] # o
    BY <1>1, <2>1, SpareIsGone
  <2>3. h # BuiltIn => /\ \A p \in Ops : handle[p] # h
                       /\ \A u \in Threads : ~Pending(u, h)
    BY <1>1, <1>3, <1>12, <2>1, HandleIsFresh DEF PostPlain
  <2>4. \A s \in Slots : blk[s] # None => blk[s] \in Ops \ {o}
    BY <1>1, <2>2, Ranges
  <2>5. \A u \in Threads : op[u] # None => op[u] \in Ops \ {o}
    BY <1>1, <2>2, Ranges
  <2>6. \A u \in Threads : \A g : Pending(u, g)' <=> Pending(u, g)
    BY <1>8 DEF Pending
  <2>7. PlacesHold'  BY <1>8, <2>1 DEF InOrder, PlacesHold
  <2>8. OnePlace'  BY <1>8, <2>1 DEF InOrder, OnePlace
  <2>9. HeldHasPlace'  BY <1>8, <2>1 DEF InOrder, HeldHasPlace
  <2>10. AtSlot'
    <3>1. \A u \in Threads : pc[u] \in Posting => op[u] \in Ops \ {o}
      BY <1>1, <2>2 DEF InHand
    <3>2. \A u \in Threads : pc[u] \in {"store", "stored"} => handle'[op[u]] = handle[op[u]]
      BY <1>7, <3>1 DEF Posting
    <3>3. \A u \in Threads : op[u] # None =>
            handle'[op[u]] = handle[op[u]] /\ phase'[op[u]] = phase[op[u]]
      BY <1>7, <2>5
    <3>4. \A s \in Slots : blk[s] # None => handle'[blk[s]] = handle[blk[s]]
      BY <1>7, <2>4
    <3>5. \A u \in Threads : slot[u] \in Slots  BY <1>1, Ranges
    <3>   QED
      BY <1>8, <2>1, <3>2, <3>3, <3>4, <3>5 DEF InOrder, AtSlot, Locking, Taken
  <2>11. LockIsExclusive'  BY <1>8, <2>1 DEF InOrder, LockIsExclusive
  <2>12. KeyNamesBlock'
    BY <1>7, <1>8, <2>1, <2>4 DEF InOrder, KeyNamesBlock
  <2>13. OneHandle'
    <3>1. \A p \in Ops : Alive(p)' <=> handle'[p] # None
      BY <1>4, <1>5, <1>7, <1>8, <2>1, Values DEF InOrder, OneHandle, Alive
    <3>2. \A p \in Ops \ {o} : h # BuiltIn => handle'[p] # h
      BY <1>7, <2>3
    <3>   QED  BY <1>4, <1>7, <2>1, <3>1, <3>2 DEF InOrder, OneHandle
  <2>14. BuiltInIsComplete'
    <3>1. h = BuiltIn => ph = "complete"  BY <1>3 DEF FreeHandles
    <3>   QED  BY <1>7, <1>8, <2>1, <2>2, <3>1 DEF InOrder, BuiltInIsComplete
  <2>15. PendingIsOver'
    BY <1>7, <1>8, <2>1, <2>3, <2>6 DEF InOrder, PendingIsOver
  <2>16. OverIsPending'
    <3> SUFFICES ASSUME NEW p \in Ops, phase'[p] = "finished", block[p] = "held"
                 PROVE  \E u \in Threads, i \in 1 .. 2 :
                          i <= Len(todo[u]) /\ todo[u][i] = handle'[p]
      BY <1>8 DEF OverIsPending, Pending
    <3>   QED  BY <1>7, <2>1, <2>2 DEF InOrder, OverIsPending, Pending
  <2>17. Fates'  BY <1>4, <1>7, <1>8, <2>1 DEF InOrder, Fates
  <2>18. CountIsRight'
    <3>1. \A s \in Slots, u \in Threads : Counts(u, s)' <=> Counts(u, s)
      BY <1>8 DEF Counts
    <3>2. \A s \in Slots, u \in Threads : Storing(u, s)' <=> Storing(u, s)
      BY <1>8 DEF Storing
    <3>3. Counted' = Counted  BY <1>8, <3>1, <3>2 DEF Counted
    <3>   QED  BY <1>8, <2>1, <3>3 DEF InOrder, CountIsRight
  <2>19. Reachable'  BY <1>8, <2>1 DEF InOrder, Reachable
  <2>20. AttachHasPassed'
    <3>1. \A u \in Threads : pc[u] \in {"attach", "cas"} => handle'[op[u]] = handle[op[u]]
      BY <1>1, <1>7, <2>2 DEF InHand, Posting
    <3>   QED  BY <1>8, <2>1, <3>1 DEF InOrder, AttachHasPassed
  <2>21. LookHasPassed'  BY <1>8, <2>1 DEF InOrder, LookHasPassed
  <2>   QED  BY <2>7, <2>8, <2>9, <2>10, <2>11, <2>12, <2>13, <2>14,
               <2>15, <2>16, <2>17, <2>18, <2>19, <2>20, <2>21
            DEF InOrder
<1>   QED  BY <1>8, <1>9, <1>10, <1>11, <1>12 DEF StagedInv, Orderly

\* One that stages arrays: its body calls mpiwrapper_staged_keep.
LEMMA PostStagedPreserves ==
  ASSUME NEW t \in Threads, StagedInv, MayCall(t), NEW o \in Spare,
         NEW k \in {"nonblocking", "persistent"},
         NEW ph \in {"active", "inactive", "complete"}, NEW h,
         h \in FreeHandles \/ (h = BuiltIn /\ ph = "complete" /\ k = "nonblocking"),
         PostStaged(t, o, k, ph, h)
  PROVE  StagedInv'
<1>1. Types /\ InHand /\ RequestsHaveHandles  BY DEF StagedInv
<1>2. pc[t] = "idle" /\ op[t] = None /\ todo[t] = <<>>
  BY <1>1 DEF MayCall, InHand, Posting, Taken
<1>3. o \in Ops /\ phase[o] = "finished"  BY DEF Spare
<1>4. h \in Handles  BY Values DEF FreeHandles
<1>5. /\ kind' = [kind EXCEPT ![o] = k] /\ phase' = [phase EXCEPT ![o] = ph]
      /\ handle' = [handle EXCEPT ![o] = h] /\ block' = [block EXCEPT ![o] = "held"]
      /\ op' = [op EXCEPT ![t] = o] /\ pc' = [pc EXCEPT ![t] = "keep"]
  BY DEF PostStaged, Begin, Goto
<1>6. /\ kind'[o] = k /\ phase'[o] = ph /\ handle'[o] = h /\ block'[o] = "held"
      /\ \A p \in Ops \ {o} :
           /\ kind'[p] = kind[p] /\ phase'[p] = phase[p]
           /\ handle'[p] = handle[p] /\ block'[p] = block[p]
  BY <1>1, <1>3, <1>5 DEF Types
<1>7. /\ op'[t] = o /\ pc'[t] = "keep"
      /\ \A u \in Threads \ {t} : op'[u] = op[u] /\ pc'[u] = pc[u]
  BY <1>1, <1>5 DEF Types
<1>8. /\ env' = env /\ key' = key /\ blk' = blk /\ live' = live /\ todo' = todo
      /\ slot' = slot /\ probe' = probe /\ seen' = seen
  BY DEF PostStaged, tableVars, loopVars
<1>9. Types'
  <2>1. /\ kind' \in [Ops -> {"plain", "nonblocking", "persistent"}]
        /\ phase' \in [Ops -> {"active", "inactive", "complete", "finished"}]
    BY <1>1, <1>3, <1>5 DEF Types
  <2>2. handle' \in [Ops -> Handles \cup {None}]  BY <1>1, <1>3, <1>4, <1>5 DEF Types
  <2>3. block' \in [Ops -> {"none", "held", "freed", "freed twice", "full", "duplicate"}]
    BY <1>1, <1>3, <1>5 DEF Types
  <2>4. op' \in [Threads -> Ops \cup {None}]  BY <1>1, <1>3, <1>5 DEF Types
  <2>5. pc' \in [Threads -> Posting \cup Removing \cup {"idle", "any"}]
    BY <1>1, <1>5 DEF Types, Posting
  <2>   QED  BY <1>1, <1>8, <2>1, <2>2, <2>3, <2>4, <2>5 DEF Types
<1>10. InHand'
  <2>1. \A p \in Ops : phase[p] # "finished" => phase'[p] # "finished"
    BY <1>3, <1>6
  <2> SUFFICES ASSUME NEW u \in Threads
               PROVE  /\ Len(todo[u]) <= 2
                      /\ pc'[u] \in Removing => todo[u] # <<>>
                      /\ pc'[u] \in Posting \cup {"idle"} => todo[u] = <<>>
                      /\ pc'[u] \in Posting => op'[u] \in Ops /\ phase'[op'[u]] # "finished"
                      /\ pc'[u] \notin Posting \cup Taken => op'[u] = None
                      /\ pc'[u] \in {"cas", "lock"} => probe[u] < Capacity
    BY <1>8 DEF InHand
  <2>2. CASE u = t
    BY <1>1, <1>2, <1>3, <1>6, <1>7, <2>2 DEF InHand, Posting, Removing
  <2>3. CASE u # t  BY <1>1, <1>7, <2>1, <2>3 DEF InHand
  <2>   QED  BY <2>2, <2>3
<1>11. RequestsHaveHandles'  BY <1>1, <1>4, <1>6 DEF RequestsHaveHandles
<1>12. ASSUME Orderly  PROVE InOrder'
  <2>1. InOrder  BY <1>12 DEF StagedInv
  <2>2. /\ handle[o] = None /\ block[o] # "held"
        /\ \A s \in Slots : blk[s] # o
        /\ \A u \in Threads : op[u] # o
    BY <1>1, <2>1, SpareIsGone
  <2>3. h # BuiltIn => /\ \A p \in Ops : handle[p] # h
                       /\ \A u \in Threads : ~Pending(u, h)
    BY <1>1, <1>12, <2>1, HandleIsFresh
  <2>4. \A s \in Slots : blk[s] # None => blk[s] \in Ops \ {o}
    BY <1>1, <2>2, Ranges
  <2>5. \A u \in Threads : op[u] # None => u # t /\ op[u] \in Ops \ {o}
    BY <1>1, <1>2, <2>2, Ranges
  <2>6. \A u \in Threads : \A g : Pending(u, g)' <=> Pending(u, g)
    BY <1>8 DEF Pending
  <2>7. \A u \in Threads : pc'[u] # "keep" => u # t /\ op'[u] = op[u] /\ pc'[u] = pc[u]
    BY <1>7
  <2>8. \A u \in Threads : pc[u] # "idle" => u # t /\ op'[u] = op[u] /\ pc'[u] = pc[u]
    BY <1>2, <1>7
  <2>9. PlacesHold'
    <3>1. \A u \in Threads : op'[u] # None => block'[op'[u]] = "held"
      BY <1>6, <1>7, <2>1, <2>5 DEF InOrder, PlacesHold
    <3>2. \A s \in Slots : blk[s] # None => block'[blk[s]] = "held"
      BY <1>6, <2>1, <2>4 DEF InOrder, PlacesHold
    <3>   QED  BY <1>8, <3>1, <3>2 DEF PlacesHold
  <2>10. OnePlace'
    <3>1. \A u, v \in Threads : op'[u] # None /\ op'[u] = op'[v] => u = v
      BY <1>7, <2>1, <2>2 DEF InOrder, OnePlace
    <3>2. \A u \in Threads, s \in Slots : op'[u] # None /\ blk[s] = op'[u] =>
            pc'[u] = "stored" /\ slot[u] = s
      BY <1>7, <2>1, <2>2 DEF InOrder, OnePlace
    <3>   QED  BY <1>8, <2>1, <3>1, <3>2 DEF InOrder, OnePlace
  <2>11. HeldHasPlace'
    <3> SUFFICES ASSUME NEW p \in Ops, block'[p] = "held"
                 PROVE  (\E s \in Slots : blk[s] = p) \/ (\E u \in Threads : op'[u] = p)
      BY <1>8 DEF HeldHasPlace
    <3>1. CASE p = o  BY <1>7, <3>1
    <3>2. CASE p # o
      <4>1. \A u \in Threads : op[u] = p => op'[u] = p  BY <1>2, <1>7, NoneAssumption
      <4>   QED  BY <1>6, <2>1, <3>2, <4>1 DEF InOrder, HeldHasPlace
    <3>   QED  BY <3>1, <3>2
  <2>12. AtSlot'
    <3>1. \A u \in Threads : pc[u] \in Posting => op[u] \in Ops \ {o}
      BY <1>1, <2>2 DEF InHand
    <3>2. \A u \in Threads : pc[u] \in {"store", "stored"} => handle'[op[u]] = handle[op[u]]
      BY <1>6, <3>1 DEF Posting
    <3>3. \A u \in Threads : op[u] # None =>
            handle'[op[u]] = handle[op[u]] /\ phase'[op[u]] = phase[op[u]]
      BY <1>6, <2>5
    <3>4. \A s \in Slots : blk[s] # None => handle'[blk[s]] = handle[blk[s]]
      BY <1>6, <2>4
    <3>5. \A u \in Threads : slot[u] \in Slots  BY <1>1, Ranges
    <3>   QED
      BY <1>8, <2>1, <2>7, <3>2, <3>3, <3>4, <3>5 DEF InOrder, AtSlot, Locking, Taken
  <2>13. LockIsExclusive'
    <3>1. \A u \in Threads : pc'[u] \in Locking <=> pc[u] \in Locking
      BY <2>7, <2>8 DEF Locking
    <3>   QED  BY <1>8, <2>1, <3>1 DEF InOrder, LockIsExclusive
  <2>14. KeyNamesBlock'
    <3>1. \A u \in Threads : pc[u] \in {"take", "store"} => pc'[u] = pc[u]  BY <2>8
    <3>   QED  BY <1>6, <1>8, <2>1, <2>4, <3>1 DEF InOrder, KeyNamesBlock
  <2>15. OneHandle'
    <3>1. \A p \in Ops : Alive(p)' <=> handle'[p] # None
      BY <1>3, <1>4, <1>6, <2>1, Values DEF InOrder, OneHandle, Alive
    <3>2. \A p \in Ops \ {o} : h # BuiltIn => handle'[p] # h
      BY <1>6, <2>3
    <3>   QED  BY <1>3, <1>6, <2>1, <3>1, <3>2 DEF InOrder, OneHandle
  <2>16. BuiltInIsComplete'
    <3>1. h = BuiltIn => ph = "complete" /\ k = "nonblocking"  BY DEF FreeHandles
    <3>2. \A u \in Threads : pc[u] = "keep" => pc'[u] = "keep" /\ op'[u] = op[u]
      BY <2>8
    <3>3. pc'[t] = "keep" /\ op'[t] = o  BY <1>7
    <3>   QED
      BY <1>3, <1>6, <2>1, <3>1, <3>2, <3>3 DEF InOrder, BuiltInIsComplete
  <2>17. PendingIsOver'
    BY <1>6, <1>8, <2>1, <2>3, <2>6 DEF InOrder, PendingIsOver
  <2>18. OverIsPending'
    <3> SUFFICES ASSUME NEW p \in Ops, phase'[p] = "finished", block'[p] = "held"
                 PROVE  \E u \in Threads, i \in 1 .. 2 :
                          i <= Len(todo[u]) /\ todo[u][i] = handle'[p]
      BY <1>8 DEF OverIsPending, Pending
    <3>   QED  BY <1>6, <2>1, <2>2 DEF InOrder, OverIsPending, Pending
  <2>19. Fates'  BY <1>3, <1>6, <2>1 DEF InOrder, Fates
  <2>20. CountIsRight'
    <3>1. \A s \in Slots, u \in Threads : Counts(u, s)' <=> Counts(u, s)
      BY <1>8, <2>7, <2>8 DEF Counts
    <3>2. \A s \in Slots, u \in Threads : Storing(u, s)' <=> Storing(u, s)
      BY <1>8, <2>7, <2>8 DEF Storing
    <3>3. Counted' = Counted  BY <1>8, <3>1, <3>2 DEF Counted
    <3>   QED  BY <1>8, <2>1, <3>3 DEF InOrder, CountIsRight
  <2>21. Reachable'  BY <1>8, <2>1 DEF InOrder, Reachable
  <2>22. AttachHasPassed'
    <3>1. \A u \in Threads : pc'[u] \in {"attach", "cas"} =>
            /\ pc[u] = pc'[u] /\ op'[u] = op[u]
            /\ handle'[op[u]] = handle[op[u]]
      BY <1>1, <1>6, <2>2, <2>7 DEF InHand, Posting
    <3>   QED  BY <1>8, <2>1, <3>1 DEF InOrder, AttachHasPassed
  <2>23. LookHasPassed'  BY <1>8, <2>1, <2>7 DEF InOrder, LookHasPassed
  <2>   QED  BY <2>9, <2>10, <2>11, <2>12, <2>13, <2>14, <2>15, <2>16,
               <2>17, <2>18, <2>19, <2>20, <2>21, <2>22, <2>23
            DEF InOrder
<1>   QED  BY <1>8, <1>9, <1>10, <1>11, <1>12 DEF StagedInv, Orderly

\* A nonblocking collective.
LEMMA PostNonblockingPreserves ==
  ASSUME NEW t \in Threads, StagedInv, PostNonblocking(t)
  PROVE  StagedInv'
<1>1. PICK o \in Spare, a \in Answers : PostStaged(t, o, "nonblocking", a[1], a[2])
  BY DEF PostNonblocking
<1>2. PICK ph, h : /\ ph = a[1] /\ h = a[2]
                   /\ \/ ph = "active" /\ h \in FreeHandles
                      \/ ph = "complete" /\ h = BuiltIn
  BY DEF Answers
<1>3. PostStaged(t, o, "nonblocking", ph, h)  BY <1>1, <1>2
<1>   QED  BY <1>2, <1>3, PostStagedPreserves DEF PostNonblocking

\* A persistent one.
LEMMA PostPersistentPreserves ==
  ASSUME NEW t \in Threads, StagedInv, PostPersistent(t)
  PROVE  StagedInv'
  BY PostStagedPreserves DEF PostPersistent

\* MPI_Start: the operation has a handle of its own, and keeps it.
LEMMA StartPreserves ==
  ASSUME NEW t \in Threads, StagedInv, Start(t)
  PROVE  StagedInv'
<1>1. Types /\ InHand /\ RequestsHaveHandles  BY DEF StagedInv
<1>2. PICK o \in Ops : /\ phase[o] = "inactive"
                       /\ o \notin {op[u] : u \in Threads}
                       /\ phase' = [phase EXCEPT ![o] = "active"]
  BY DEF Start
<1>3. /\ phase[o] = "inactive" /\ phase'[o] = "active"
      /\ \A p \in Ops \ {o} : phase'[p] = phase[p]
      /\ \A u \in Threads : op[u] # o
  BY <1>1, <1>2 DEF Types
<1>4. /\ env' = env /\ key' = key /\ blk' = blk /\ live' = live
      /\ kind' = kind /\ handle' = handle /\ block' = block
      /\ pc' = pc /\ op' = op /\ todo' = todo
      /\ slot' = slot /\ probe' = probe /\ seen' = seen
  BY DEF Start, tableVars, loopVars
<1>5. Types'  BY <1>1, <1>2, <1>4 DEF Types
<1>6. \A p \in Ops : phase'[p] = "finished" <=> phase[p] = "finished"  BY <1>3
<1>7. InHand'  BY <1>1, <1>4, <1>6 DEF InHand
<1>8. RequestsHaveHandles'  BY <1>1, <1>4, <1>6 DEF RequestsHaveHandles
<1>9. ASSUME Orderly  PROVE InOrder'
  <2>1. InOrder  BY <1>9 DEF StagedInv
  <2>2. PlacesHold'  BY <1>4, <2>1 DEF InOrder, PlacesHold
  <2>3. OnePlace'  BY <1>4, <2>1 DEF InOrder, OnePlace
  <2>4. HeldHasPlace'  BY <1>4, <2>1 DEF InOrder, HeldHasPlace
  <2>5. AtSlot'
    <3>1. \A u \in Threads : op[u] # None => op[u] \in Ops  BY <1>1, Ranges
    <3>   QED  BY <1>4, <1>6, <2>1, <3>1 DEF InOrder, AtSlot, Locking, Taken
  <2>6. LockIsExclusive'  BY <1>4, <2>1 DEF InOrder, LockIsExclusive
  <2>7. KeyNamesBlock'  BY <1>4, <2>1 DEF InOrder, KeyNamesBlock
  <2>8. OneHandle'  BY <1>4, <1>6, <2>1 DEF InOrder, OneHandle, Alive
  <2>9. BuiltInIsComplete'
    BY <1>3, <1>4, <2>1 DEF InOrder, BuiltInIsComplete
  <2>10. \A u \in Threads : \A h : Pending(u, h)' <=> Pending(u, h)
    BY <1>4 DEF Pending
  <2>11. PendingIsOver'
    BY <1>4, <1>6, <2>1, <2>10 DEF InOrder, PendingIsOver
  <2>12. OverIsPending'
    BY <1>4, <1>6, <2>1 DEF InOrder, OverIsPending, Pending
  <2>13. Fates'  BY <1>3, <1>4, <2>1 DEF InOrder, Fates
  <2>14. CountIsRight'
    <3>1. \A s \in Slots, u \in Threads : Counts(u, s)' <=> Counts(u, s)
      BY <1>4 DEF Counts
    <3>2. \A s \in Slots, u \in Threads : Storing(u, s)' <=> Storing(u, s)
      BY <1>4 DEF Storing
    <3>3. Counted' = Counted  BY <1>4, <3>1, <3>2 DEF Counted
    <3>   QED  BY <1>4, <2>1, <3>3 DEF InOrder, CountIsRight
  <2>15. Reachable'  BY <1>4, <2>1 DEF InOrder, Reachable
  <2>16. AttachHasPassed'  BY <1>4, <2>1 DEF InOrder, AttachHasPassed
  <2>17. LookHasPassed'  BY <1>4, <2>1 DEF InOrder, LookHasPassed
  <2>   QED  BY <2>2, <2>3, <2>4, <2>5, <2>6, <2>7, <2>8, <2>9,
               <2>11, <2>12, <2>13, <2>14, <2>15, <2>16, <2>17
            DEF InOrder
<1>   QED  BY <1>4, <1>5, <1>7, <1>8, <1>9 DEF StagedInv, Orderly

-----------------------------------------------------------------------------
(* Calls that null requests. *)

\* The requests of the operations in S are nulled ...
Nulls(S) ==
  /\ \A o \in S : phase[o] \in {"complete", "inactive"} /\ Posted(o)
  /\ phase' \in [Ops -> {"active", "inactive", "complete", "finished"}]
  /\ \A o \in S : phase'[o] = "finished"
  /\ \A o \in Ops \ S :
       \/ phase'[o] = phase[o]
       \/ phase[o] = "complete" /\ kind[o] = "persistent" /\ phase'[o] = "inactive"
  /\ End(S)

\* ... and q lists the handles they had.
Lists(S, q) ==
  /\ q \in Seq(Handles) /\ Len(q) <= 2
  /\ \A o \in S : \E i \in 1 .. 2 : i <= Len(q) /\ q[i] = handle[o]
  /\ \A i \in 1 .. 2 : i <= Len(q) => \E o \in S : q[i] = handle[o]
  /\ Len(q) = 2 => \E o, p \in S : o # p /\ q[1] = handle[o] /\ q[2] = handle[p]

\* The call has these handles to release.
LEMMA EndPreserves ==
  ASSUME NEW t \in Threads, StagedInv, MayCall(t), NEW S \in SUBSET Ops, NEW q,
         Nulls(S), Lists(S, q), todo' = [todo EXCEPT ![t] = q],
         Goto(t, "any"), UNCHANGED <<env, tableVars, op, loopVars>>
  PROVE  StagedInv'
<1>1. Types /\ InHand /\ RequestsHaveHandles  BY DEF StagedInv
<1>2. pc[t] = "idle" /\ op[t] = None /\ todo[t] = <<>>
  BY <1>1 DEF MayCall, InHand, Posting, Taken
<1>3. /\ pc' = [pc EXCEPT ![t] = "any"]
      /\ env' = env /\ key' = key /\ blk' = blk /\ live' = live /\ op' = op
      /\ slot' = slot /\ probe' = probe /\ seen' = seen
  BY DEF Goto, tableVars, loopVars
<1>4. /\ pc'[t] = "any" /\ todo'[t] = q
      /\ \A u \in Threads \ {t} : pc'[u] = pc[u] /\ todo'[u] = todo[u]
  BY <1>1, <1>3, Zenon DEF Types
<1>5. \A u \in Threads : pc'[u] # "any" => u # t /\ pc'[u] = pc[u] /\ todo'[u] = todo[u]
  BY <1>4
<1>6. \A u \in Threads : pc[u] # "idle" => u # t /\ pc'[u] = pc[u]
  BY <1>2, <1>4
<1>7. \A o \in Ops :
        /\ kind'[o] = IF o \in S THEN "plain" ELSE kind[o]
        /\ handle'[o] = IF o \in S /\ block[o] # "held" THEN None ELSE handle[o]
        /\ block'[o] = IF o \in S /\ block[o] # "held" THEN "none" ELSE block[o]
  BY DEF End, Nulls
<1>8. Types'
  <2>1. kind' = [o \in Ops |-> kind'[o]] /\ handle' = [o \in Ops |-> handle'[o]]
        /\ block' = [o \in Ops |-> block'[o]]
    BY DEF End, Nulls
  <2>2. \A o \in Ops :
          /\ kind'[o] \in {"plain", "nonblocking", "persistent"}
          /\ handle'[o] \in Handles \cup {None}
          /\ block'[o] \in {"none", "held", "freed", "freed twice", "full", "duplicate"}
    BY <1>1, <1>7 DEF Types
  <2>3. /\ kind' \in [Ops -> {"plain", "nonblocking", "persistent"}]
        /\ handle' \in [Ops -> Handles \cup {None}]
        /\ block' \in [Ops -> {"none", "held", "freed", "freed twice", "full", "duplicate"}]
    BY <2>1, <2>2, Zenon
  <2>4. todo' \in [Threads -> Seq(Handles)]  BY <1>1 DEF Types, Lists
  <2>5. pc' \in [Threads -> Posting \cup Removing \cup {"idle", "any"}]
    BY <1>1, <1>3 DEF Types
  <2>6. phase' \in [Ops -> {"active", "inactive", "complete", "finished"}]  BY DEF Nulls
  <2>   QED  BY <1>1, <1>3, <2>3, <2>4, <2>5, <2>6 DEF Types
<1>9. \A u \in Threads : pc[u] \in Posting => op[u] \in Ops \ S
  BY <1>1 DEF InHand, Nulls, Posted, Posting
<1>10. /\ \A o \in Ops : phase'[o] # "finished" => o \notin S /\ phase[o] # "finished"
       /\ \A o \in Ops : phase[o] = "finished" => phase'[o] = "finished"
       /\ \A o \in S : phase[o] # "finished"
  BY DEF Nulls
<1>11. InHand'
  <2> SUFFICES ASSUME NEW u \in Threads
               PROVE  /\ Len(todo'[u]) <= 2
                      /\ pc'[u] \in Removing => todo'[u] # <<>>
                      /\ pc'[u] \in Posting \cup {"idle"} => todo'[u] = <<>>
                      /\ pc'[u] \in Posting => op[u] \in Ops /\ phase'[op[u]] # "finished"
                      /\ pc'[u] \notin Posting \cup Taken => op[u] = None
                      /\ pc'[u] \in {"cas", "lock"} => probe[u] < Capacity
    BY <1>3 DEF InHand
  <2>1. CASE u = t
    <3>1. Len(q) <= 2  BY DEF Lists
    <3>   QED  BY <1>2, <1>4, <2>1, <3>1 DEF Posting, Removing
  <2>2. CASE u # t
    <3>1. pc[u] \in Posting => phase'[op[u]] # "finished"
      <4> SUFFICES ASSUME pc[u] \in Posting  PROVE phase'[op[u]] # "finished"  OBVIOUS
      <4>1. op[u] \in Ops \ S /\ phase[op[u]] # "finished"  BY <1>1, <1>9 DEF InHand
      <4>   QED  BY <4>1 DEF Nulls
    <3>   QED  BY <1>1, <1>4, <2>2, <3>1 DEF InHand
  <2>   QED  BY <2>1, <2>2
<1>12. RequestsHaveHandles'
  BY <1>1, <1>7, <1>10 DEF RequestsHaveHandles
<1>13. ASSUME Orderly  PROVE InOrder'
  <2>1. InOrder  BY <1>13 DEF StagedInv
  <2>2. \A o \in Ops : block[o] = "held" => block'[o] = "held" /\ handle'[o] = handle[o]
    BY <1>7
  <2>3. \A s \in Slots : blk[s] # None => blk[s] \in Ops /\ block[blk[s]] = "held"
    BY <1>1, <2>1, Ranges DEF InOrder, PlacesHold
  <2>4. \A u \in Threads : op[u] # None => op[u] \in Ops /\ block[op[u]] = "held"
    BY <1>1, <2>1, Ranges DEF InOrder, PlacesHold
  <2>5. \A u \in Threads : pc[u] \in Posting => op[u] # None
    BY <1>1, Values DEF InHand
  <2>6. \A u \in Threads : \A h : u # t => (Pending(u, h)' <=> Pending(u, h))
    BY <1>4 DEF Pending
  <2>7. \A h : ~Pending(t, h)
    <3>1. Len(todo[t]) = 0  BY <1>2, EmptySeq
    <3>   QED  BY <3>1 DEF Pending
  <2>8. \A h : Pending(t, h)' => \E o \in S : h = handle[o]
    BY <1>4 DEF Pending, Lists
  <2>9. PlacesHold'  BY <1>3, <2>2, <2>3, <2>4 DEF PlacesHold
  <2>10. OnePlace'
    <3>1. \A u \in Threads, s \in Slots : op[u] # None /\ blk[s] = op[u] =>
            pc'[u] = "stored" /\ slot[u] = s
      BY <1>6, <2>1 DEF InOrder, OnePlace
    <3>   QED  BY <1>3, <2>1, <3>1 DEF InOrder, OnePlace
  <2>11. HeldHasPlace'  BY <1>3, <1>7, <2>1 DEF InOrder, HeldHasPlace
  <2>12. AtSlot'
    <3>1. \A u \in Threads : pc[u] \in {"store", "stored"} \cup Taken =>
            handle'[op[u]] = handle[op[u]]
      BY <2>1, <2>2, <2>4, <2>5 DEF InOrder, AtSlot, Posting
    <3>2. \A s \in Slots : blk[s] # None => handle'[blk[s]] = handle[blk[s]]
      BY <2>2, <2>3
    <3>4. \A u \in Threads : slot[u] \in Slots  BY <1>1, Ranges
    <3>   QED
      BY <1>3, <1>5, <1>10, <2>1, <2>4, <3>1, <3>2, <3>4
      DEF InOrder, AtSlot, Locking, Taken
  <2>13. LockIsExclusive'
    <3>1. \A u \in Threads : pc'[u] \in Locking <=> pc[u] \in Locking
      BY <1>5, <1>6 DEF Locking
    <3>   QED  BY <1>3, <2>1, <3>1 DEF InOrder, LockIsExclusive
  <2>14. KeyNamesBlock'
    <3>1. \A u \in Threads : pc[u] \in {"take", "store"} => pc'[u] = pc[u]  BY <1>6
    <3>2. \A s \in Slots : blk[s] # None => handle'[blk[s]] = handle[blk[s]]
      BY <2>2, <2>3
    <3>   QED  BY <1>3, <2>1, <3>1, <3>2 DEF InOrder, KeyNamesBlock
  <2>15. OneHandle'
    <3>1. \A o \in Ops : Alive(o)' <=> handle'[o] # None
      <4> SUFFICES ASSUME NEW o \in Ops
                   PROVE  phase'[o] # "finished" \/ block'[o] = "held" <=> handle'[o] # None
        BY DEF Alive
      <4>1. CASE o \in S  BY <1>7, <2>1, <4>1
        DEF InOrder, OneHandle, Alive, Nulls
      <4>2. CASE o \notin S
        <5>1. phase'[o] = "finished" <=> phase[o] = "finished"  BY <4>2 DEF Nulls
        <5>   QED  BY <1>7, <2>1, <4>2, <5>1 DEF InOrder, OneHandle, Alive
      <4>   QED  BY <4>1, <4>2
    <3>2. \A o \in Ops : handle'[o] # None => handle'[o] = handle[o]  BY <1>7
    <3>   QED  BY <2>1, <3>1, <3>2 DEF InOrder, OneHandle
  <2>16. BuiltInIsComplete'
    <3> SUFFICES ASSUME NEW o \in Ops, handle'[o] = BuiltIn
                 PROVE  /\ phase'[o] = "complete"
                        /\ kind'[o] # "persistent"
                        /\ block'[o] = "held" =>
                             /\ kind'[o] = "nonblocking"
                             /\ \E u \in Threads : pc'[u] = "keep" /\ op[u] = o
      BY <1>3 DEF BuiltInIsComplete
    <3>1. handle[o] = BuiltIn /\ (o \in S => block[o] = "held")
      BY <1>7, Values
    <3>2. o \notin S
      <4> SUFFICES ASSUME o \in S  PROVE FALSE  OBVIOUS
      <4>1. PICK u \in Threads : pc[u] = "keep" /\ op[u] = o
        BY <2>1, <3>1 DEF InOrder, BuiltInIsComplete
      <4>   QED  BY <4>1 DEF Nulls, Posted
    <3>3. \A u \in Threads : pc[u] = "keep" => pc'[u] = "keep"  BY <1>6
    <3>   QED  BY <1>7, <2>1, <3>1, <3>2, <3>3 DEF InOrder, BuiltInIsComplete, Nulls
  <2>17. \A o \in S : \A u \in Threads :
           handle[o] # BuiltIn => ~Pending(u, handle[o])
    <3> SUFFICES ASSUME NEW o \in S, NEW u \in Threads, handle[o] # BuiltIn,
                        Pending(u, handle[o])
                 PROVE  FALSE
      OBVIOUS
    <3>1. handle[o] \in Handles \ {BuiltIn}  BY <1>1, PendingIsHandle
    <3>   QED  BY <1>10, <2>1, <3>1 DEF InOrder, PendingIsOver
  <2>18. PendingIsOver'
    <3> SUFFICES ASSUME NEW u \in Threads, NEW h \in Handles \ {BuiltIn}, Pending(u, h)'
                 PROVE  /\ \A o \in Ops : phase'[o] # "finished" => handle'[o] # h
                        /\ \A v \in Threads : Pending(v, h)' => v = u
                        /\ Len(todo'[u]) = 2 => todo'[u][1] # todo'[u][2]
      BY DEF PendingIsOver
    <3>1. CASE u = t
      <4>1. PICK o \in S : h = handle[o]  BY <2>8, <3>1
      <4>2. \A p \in Ops : handle[p] = h => p = o
        BY <2>1, <4>1, Values DEF InOrder, OneHandle
      <4>3. \A p \in Ops : phase'[p] # "finished" => handle'[p] # h
        BY <1>7, <1>10, <4>1, <4>2
      <4>4. \A v \in Threads : Pending(v, h)' => v = u
        BY <2>6, <2>17, <3>1, <4>1
      <4>5. Len(q) = 2 => q[1] # q[2]
        <5> SUFFICES ASSUME Len(q) = 2, q[1] = q[2]  PROVE FALSE  OBVIOUS
        <5>1. PICK o1, o2 \in S : o1 # o2 /\ q[1] = handle[o1] /\ q[2] = handle[o2]
          BY DEF Lists
        <5>2. \E i \in 1 .. 2 : i <= Len(q) /\ q[i] = h
          BY <1>4, <3>1 DEF Pending
        <5>3. h = q[1] \/ h = q[2]
          <6>1. PICK i \in 1 .. 2 : q[i] = h  BY <5>2
          <6>2. i = 1 \/ i = 2  OBVIOUS
          <6>   QED  BY <6>1, <6>2
        <5>   QED  BY <4>2, <5>1, <5>3
      <4>   QED  BY <1>4, <3>1, <4>3, <4>4, <4>5
    <3>2. CASE u # t
      <4>1. Pending(u, h)  BY <2>6, <3>2
      <4>2. \A o \in Ops : phase[o] # "finished" => handle[o] # h
        BY <2>1, <4>1 DEF InOrder, PendingIsOver
      <4>3. \A v \in Threads : Pending(v, h)' => v = u
        <5>1. ~Pending(t, h)'
          <6> SUFFICES ASSUME Pending(t, h)'  PROVE FALSE  OBVIOUS
          <6>1. PICK o \in S : h = handle[o]  BY <2>8
          <6>   QED  BY <1>10, <4>2, <6>1
        <5>   QED  BY <2>1, <2>6, <4>1, <5>1 DEF InOrder, PendingIsOver
      <4>   QED
        BY <1>4, <1>7, <1>10, <2>1, <3>2, <4>1, <4>2, <4>3
        DEF InOrder, PendingIsOver
    <3>   QED  BY <3>1, <3>2
  <2>19. OverIsPending'
    <3> SUFFICES ASSUME NEW o \in Ops, phase'[o] = "finished", block'[o] = "held"
                 PROVE  \E u \in Threads, i \in 1 .. 2 :
                          i <= Len(todo'[u]) /\ todo'[u][i] = handle'[o]
      BY DEF OverIsPending, Pending
    <3>1. block[o] = "held" /\ handle'[o] = handle[o]  BY <1>7
    <3>2. CASE o \in S  BY <1>4, <3>1, <3>2 DEF Lists
    <3>3. CASE o \notin S
      <4>1. phase[o] = "finished"  BY <3>3 DEF Nulls
      <4>2. PICK u \in Threads : Pending(u, handle[o])
        BY <2>1, <3>1, <4>1 DEF InOrder, OverIsPending
      <4>3. u # t  BY <2>7, <4>2
      <4>   QED  BY <1>4, <3>1, <4>2, <4>3 DEF Pending
    <3>   QED  BY <3>2, <3>3
  <2>20. Fates'
    <3> SUFFICES ASSUME NEW o \in Ops
                 PROVE  /\ block'[o] \notin {"freed twice", "duplicate"}
                        /\ block'[o] = "freed" =>
                             phase'[o] = "complete" /\ kind'[o] = "nonblocking"
      BY DEF Fates
    <3>1. block'[o] \notin {"freed twice", "duplicate"}
      BY <1>7, <2>1 DEF InOrder, Fates
    <3>2. ASSUME block'[o] = "freed"
          PROVE  phase'[o] = "complete" /\ kind'[o] = "nonblocking"
      <4>1. o \notin S /\ block[o] = "freed"  BY <1>7, <3>2
      <4>2. phase[o] = "complete" /\ kind[o] = "nonblocking"
        BY <2>1, <4>1 DEF InOrder, Fates
      <4>   QED  BY <1>7, <4>1, <4>2 DEF Nulls
    <3>   QED  BY <3>1, <3>2
  <2>21. CountIsRight'
    <3>1. \A s \in Slots, u \in Threads : Counts(u, s)' <=> Counts(u, s)
      BY <1>3, <1>5, <1>6 DEF Counts
    <3>2. \A s \in Slots, u \in Threads : Storing(u, s)' <=> Storing(u, s)
      BY <1>3, <1>5, <1>6 DEF Storing
    <3>3. Counted' = Counted  BY <1>3, <3>1, <3>2 DEF Counted
    <3>   QED  BY <1>3, <2>1, <3>3 DEF InOrder, CountIsRight
  <2>22. Reachable'  BY <1>3, <2>1 DEF InOrder, Reachable
  <2>23. AttachHasPassed'
    <3>1. \A u \in Threads : pc'[u] \in {"attach", "cas"} =>
            pc[u] = pc'[u] /\ handle'[op[u]] = handle[op[u]]
      BY <1>5, <1>7, <1>9 DEF Posting
    <3>   QED  BY <1>3, <2>1, <3>1 DEF InOrder, AttachHasPassed
  <2>24. LookHasPassed'  BY <1>3, <1>5, <2>1 DEF InOrder, LookHasPassed
  <2>   QED  BY <2>9, <2>10, <2>11, <2>12, <2>13, <2>14, <2>15, <2>16,
               <2>18, <2>19, <2>20, <2>21, <2>22, <2>23, <2>24
            DEF InOrder
<1>   QED  BY <1>3, <1>8, <1>11, <1>12, <1>13 DEF StagedInv, Orderly

\* A completion of one or two requests.
LEMMA CompleteNulls ==
  ASSUME NEW t \in Threads, Types, RequestsHaveHandles, Complete(t)
  PROVE  \E S \in SUBSET Ops : \E q :
           Nulls(S) /\ Lists(S, q) /\ todo' = [todo EXCEPT ![t] = q]
<1>2. PICK S \in SUBSET {o \in Ops : phase[o] = "complete" /\ Posted(o)} :
        LET nulled == {o \in S : kind[o] # "persistent"} IN
        /\ Cardinality(S) \in 1 .. 2
        /\ phase' = [o \in Ops |-> IF o \notin S THEN phase[o]
                                   ELSE IF o \in nulled THEN "finished" ELSE "inactive"]
        /\ \E order \in [1 .. Cardinality(nulled) -> nulled] :
             /\ {order[i] : i \in DOMAIN order} = nulled
             /\ todo' = [todo EXCEPT ![t] = [i \in DOMAIN order |-> handle[order[i]]]]
        /\ End(nulled)
  BY Zenon DEF Complete
<1> DEFINE nulled == {o \in S : kind[o] # "persistent"}
<1> DEFINE n == Cardinality(nulled)
<1>3. PICK order \in [1 .. n -> nulled] :
        /\ {order[i] : i \in DOMAIN order} = nulled
        /\ todo' = [todo EXCEPT ![t] = [i \in DOMAIN order |-> handle[order[i]]]]
  BY <1>2
<1>4. n \in 0 .. 2 /\ IsFiniteSet(nulled)
  <2>1. IsFiniteSet(S)  BY <1>2, OpsAssumption, FS_Subset
  <2>2. IsFiniteSet(nulled) /\ n <= Cardinality(S)  BY <2>1, FS_Subset
  <2>3. n \in Nat  BY <2>2, FS_CardinalityType
  <2>   QED  BY <1>2, <2>2, <2>3
<1> DEFINE q == [i \in 1 .. n |-> handle[order[i]]]
<1>5. \A i \in 1 .. n : order[i] \in nulled /\ q[i] = handle[order[i]]
  BY <1>3
<1>6. DOMAIN order = 1 .. n  BY <1>3
<1>7. q \in Seq(Handles) /\ Len(q) = n
  <2>1. \A o \in nulled : handle[o] \in Handles
    BY <1>2 DEF RequestsHaveHandles
  <2>2. \A i \in 1 .. n : q[i] \in Handles  BY <1>5, <2>1
  <2>3. q \in [1 .. n -> Handles]  BY <2>2
  <2>4. n \in Nat  BY <1>4
  <2> HIDE DEF n, q
  <2>   QED  BY <2>3, <2>4
<1>8. todo' = [todo EXCEPT ![t] = q]  BY <1>3, <1>6
<1>9. \A o \in nulled : \E i \in 1 .. n : o = order[i]  BY <1>3, <1>6
<1> HIDE DEF q
<1>10. Lists(nulled, q)
  <2> HIDE DEF nulled
  <2>1. Len(q) <= 2  BY <1>4, <1>7
  <2>2. \A i \in 1 .. 2 : i <= Len(q) => i \in 1 .. n  BY <1>4, <1>7
  <2>3. \A i \in 1 .. n : i \in 1 .. 2 /\ i <= Len(q)  BY <1>4, <1>7
  <2>4. \A o \in nulled : \E i \in 1 .. 2 : i <= Len(q) /\ q[i] = handle[o]
    <3> SUFFICES ASSUME NEW o \in nulled
                 PROVE  \E i \in 1 .. 2 : i <= Len(q) /\ q[i] = handle[o]
      OBVIOUS
    <3>1. PICK i \in 1 .. n : o = order[i]  BY <1>9
    <3>2. q[i] = handle[o] /\ i \in 1 .. 2 /\ i <= Len(q)  BY <1>5, <2>3, <3>1
    <3>   QED  BY <3>2
  <2>5. \A i \in 1 .. 2 : i <= Len(q) => \E o \in nulled : q[i] = handle[o]
    BY <1>5, <2>2, Zenon
  <2>6. ASSUME Len(q) = 2
        PROVE  \E o, p \in nulled : o # p /\ q[1] = handle[o] /\ q[2] = handle[p]
    <3>1. 1 \in 1 .. n /\ 2 \in 1 .. n /\ 1 .. n = {1, 2}  BY <1>7, <2>6
    <3>2. order[1] # order[2]
      <4> SUFFICES ASSUME order[1] = order[2]  PROVE FALSE  OBVIOUS
      <4>1. nulled = {order[1]}  BY <1>5, <1>9, <3>1
      <4>2. Cardinality({order[1]}) = 1  BY FS_Singleton
      <4>3. Cardinality(nulled) = 2  BY <1>7, <2>6
      <4>   QED  BY <4>1, <4>2, <4>3
    <3>   QED  BY <1>5, <3>1, <3>2
  <2>   QED  BY <1>7, <2>1, <2>4, <2>5, <2>6 DEF Lists
<1>11. Nulls(nulled)
  <2>1. \A o \in Ops \ nulled :
          \/ phase'[o] = phase[o]
          \/ phase[o] = "complete" /\ kind[o] = "persistent" /\ phase'[o] = "inactive"
    BY <1>2
  <2>2. /\ \A o \in nulled : phase'[o] = "finished"
        /\ \A o \in nulled : phase[o] \in {"complete", "inactive"} /\ Posted(o)
    BY <1>2
  <2>3. phase' \in [Ops -> {"active", "inactive", "complete", "finished"}]
    BY <1>2 DEF Types
  <2>   QED  BY <1>2, <2>1, <2>2, <2>3 DEF Nulls
<1>12. nulled \in SUBSET Ops  BY <1>2
<1> HIDE DEF nulled
<1>   QED  BY <1>8, <1>10, <1>11, <1>12

LEMMA CompletePreserves ==
  ASSUME NEW t \in Threads, StagedInv, Complete(t)
  PROVE  StagedInv'
<1>0. PICK S \in SUBSET Ops : \E q :
        Nulls(S) /\ Lists(S, q) /\ todo' = [todo EXCEPT ![t] = q]
  BY CompleteNulls DEF StagedInv
<1>1. PICK q :
        Nulls(S) /\ Lists(S, q) /\ todo' = [todo EXCEPT ![t] = q]
  BY <1>0
<1>   QED  BY <1>1, EndPreserves DEF Complete

\* MPI_Request_free.
LEMMA FreeNulls ==
  ASSUME NEW t \in Threads, Types, RequestsHaveHandles, Free(t)
  PROVE  \E S \in SUBSET Ops : \E q :
           Nulls(S) /\ Lists(S, q) /\ todo' = [todo EXCEPT ![t] = q]
<1>2. PICK o \in Ops : /\ phase[o] \in {"inactive", "complete"}
                       /\ Posted(o)
                       /\ phase' = [phase EXCEPT ![o] = "finished"]
                       /\ todo'  = [todo EXCEPT ![t] = <<handle[o]>>]
                       /\ End({o})
  BY DEF Free
<1> DEFINE q == <<handle[o]>>
<1>3. handle[o] \in Handles  BY <1>2 DEF RequestsHaveHandles
<1>4. q \in Seq(Handles) /\ Len(q) = 1 /\ q[1] = handle[o]  BY <1>3
<1>5. Lists({o}, q)  BY <1>4 DEF Lists
<1>6. Nulls({o})
  <2>1. /\ phase' \in [Ops -> {"active", "inactive", "complete", "finished"}]
        /\ phase'[o] = "finished" /\ \A p \in Ops \ {o} : phase'[p] = phase[p]
    BY <1>2 DEF Types
  <2>   QED  BY <1>2, <2>1 DEF Nulls
<1>7. {o} \in SUBSET Ops  OBVIOUS
<1>   QED  BY <1>2, <1>5, <1>6, <1>7

LEMMA FreePreserves ==
  ASSUME NEW t \in Threads, StagedInv, Free(t)
  PROVE  StagedInv'
<1>0. PICK S \in SUBSET Ops : \E q :
        Nulls(S) /\ Lists(S, q) /\ todo' = [todo EXCEPT ![t] = q]
  BY FreeNulls DEF StagedInv
<1>1. PICK q :
        Nulls(S) /\ Lists(S, q) /\ todo' = [todo EXCEPT ![t] = q]
  BY <1>0
<1>   QED  BY <1>1, EndPreserves DEF Free

-----------------------------------------------------------------------------
(* The end of a release. *)

\* A call that has released its first handle, or found nothing to release,
\* goes on; only what it had in hand changes.
LEMMA ReleaseOver ==
  ASSUME NEW t \in Threads, StagedInv, pc[t] \in {"release", "look", "lock"},
         NextRelease(t), UNCHANGED <<env, tableVars, implVars, block, op>>,
         Orderly => \A o \in Ops : phase[o] = "finished" /\ block[o] = "held" =>
                                     handle[o] # Head(todo[t])
  PROVE  StagedInv'
<1>1. Types /\ InHand /\ RequestsHaveHandles  BY DEF StagedInv
<1>2. /\ env' = env /\ key' = key /\ blk' = blk /\ live' = live
      /\ kind' = kind /\ phase' = phase /\ handle' = handle /\ block' = block
      /\ op' = op
  BY DEF tableVars, implVars
<1>3. todo[t] # <<>>  BY <1>1 DEF InHand, Removing
<1>4. /\ Advanced(t) /\ LeftBehind(t)
      /\ todo' \in [Threads -> Seq(Handles)]
      /\ pc' \in [Threads -> Posting \cup Removing \cup {"idle", "any"}]
      /\ slot' \in [Threads -> Slots] /\ probe' \in [Threads -> 0 .. Capacity]
      /\ seen' \in [Threads -> {Empty, Tomb}]
  BY <1>1, <1>3, Advance
<1>5. Types'  BY <1>1, <1>2, <1>4 DEF Types
<1>6. \A u \in Threads : pc'[u] \notin {"idle", "release"} =>
        /\ pc[u] = pc'[u] /\ slot'[u] = slot[u] /\ todo'[u] = todo[u]
        /\ probe'[u] = probe[u] /\ seen'[u] = seen[u]
  BY <1>4 DEF Advanced
<1>7. \A u \in Threads : pc[u] \notin {"release", "look", "lock"} =>
        pc'[u] = pc[u] /\ slot'[u] = slot[u]
  BY <1>4 DEF Advanced
<1>8. InHand'
  <2> SUFFICES ASSUME NEW u \in Threads
               PROVE  /\ Len(todo'[u]) <= 2
                      /\ pc'[u] \in Removing => todo'[u] # <<>>
                      /\ pc'[u] \in Posting \cup {"idle"} => todo'[u] = <<>>
                      /\ pc'[u] \in Posting => op[u] \in Ops /\ phase[op[u]] # "finished"
                      /\ pc'[u] \notin Posting \cup Taken => op[u] = None
                      /\ pc'[u] \in {"cas", "lock"} => probe'[u] < Capacity
    BY <1>2 DEF InHand
  <2>1. CASE u = t
    <3>1. Len(todo'[t]) <= 2
      <4>1. todo'[t] \in Seq(Handles)  BY <1>4
      <4>2. Len(todo'[t]) \in Nat  BY <4>1
      <4>   QED  BY <1>4, <4>2 DEF Advanced
    <3>2. op[t] = None  BY <1>1 DEF InHand, Posting, Taken
    <3>   QED  BY <1>4, <2>1, <3>1, <3>2 DEF Advanced, Posting, Removing, Taken
  <2>2. CASE u # t
    BY <1>1, <1>4, <2>2 DEF InHand, Advanced
  <2>   QED  BY <2>1, <2>2
<1>9. RequestsHaveHandles'  BY <1>1, <1>2 DEF RequestsHaveHandles
<1>10. ASSUME Orderly  PROVE InOrder'
  <2>1. InOrder  BY <1>10 DEF StagedInv
  <2>2. PlacesHold'  BY <1>2, <2>1 DEF InOrder, PlacesHold
  <2>3. OnePlace'
    <3>1. \A u \in Threads, s \in Slots : op[u] # None /\ blk[s] = op[u] =>
            pc'[u] = "stored" /\ slot'[u] = s
      BY <1>7, <2>1 DEF InOrder, OnePlace
    <3>   QED  BY <1>2, <2>1, <3>1 DEF InOrder, OnePlace
  <2>4. HeldHasPlace'  BY <1>2, <2>1 DEF InOrder, HeldHasPlace
  <2>5. AtSlot'
    BY <1>2, <1>6, <2>1 DEF InOrder, AtSlot, Locking, Taken
  <2>6. LockIsExclusive'
    BY <1>2, <1>6, <1>7, <2>1 DEF InOrder, LockIsExclusive, Locking
  <2>7. KeyNamesBlock'
    <3> SUFFICES ASSUME NEW s \in Slots
                 PROVE  /\ key[s] # BuiltIn
                        /\ blk[s] # None =>
                             \/ key[s] = handle[blk[s]]
                             \/ \E u \in Threads : pc'[u] = "take" /\ slot'[u] = s
                        /\ key[s] \in Handles /\ blk[s] = None =>
                             \E u \in Threads : pc'[u] = "store" /\ slot'[u] = s
      BY <1>2 DEF KeyNamesBlock
    <3>1. \A u \in Threads : pc[u] \in {"take", "store"} => pc'[u] = pc[u] /\ slot'[u] = slot[u]
      BY <1>7
    <3>   QED  BY <2>1, <3>1 DEF InOrder, KeyNamesBlock
  <2>8. OneHandle'  BY <1>2, <2>1 DEF InOrder, OneHandle, Alive
  <2>9. BuiltInIsComplete'
    <3>1. \A u \in Threads : pc[u] = "keep" => pc'[u] = "keep"  BY <1>7
    <3>   QED  BY <1>2, <2>1, <3>1 DEF InOrder, BuiltInIsComplete
  <2>10. PendingIsOver'
    <3> SUFFICES ASSUME NEW u \in Threads, NEW h \in Handles \ {BuiltIn}, Pending(u, h)'
                 PROVE  /\ \A o \in Ops : phase[o] # "finished" => handle[o] # h
                        /\ \A v \in Threads : Pending(v, h)' => v = u
                        /\ Len(todo'[u]) = 2 => todo'[u][1] # todo'[u][2]
      BY <1>2 DEF PendingIsOver
    <3>1. Pending(u, h)  BY <1>4 DEF LeftBehind
    <3>2. ASSUME Len(todo'[u]) = 2  PROVE todo'[u] = todo[u]
      <4>1. u # t
        <5> SUFFICES ASSUME u = t  PROVE FALSE  OBVIOUS
        <5>1. Len(todo'[t]) = 2  BY <3>2
        <5>2. Len(todo'[t]) <= 1  BY <1>4 DEF Advanced
        <5>3. 2 <= 1  BY <5>1, <5>2, Zenon
        <5>   QED  BY <5>3
      <4>   QED  BY <1>4, <4>1 DEF Advanced
    <3>   QED  BY <1>4, <2>1, <3>1, <3>2 DEF InOrder, PendingIsOver, LeftBehind
  <2>11. OverIsPending'
    <3>1. \A o \in Ops : phase[o] = "finished" /\ block[o] = "held" => handle[o] # Head(todo[t])
      BY <1>10
    <3>   QED  BY <1>2, <1>4, <2>1, <3>1 DEF InOrder, OverIsPending, LeftBehind
  <2>12. Fates'  BY <1>2, <2>1 DEF InOrder, Fates
  <2>13. CountIsRight'
    <3>1. \A s \in Slots, u \in Threads : Counts(u, s)' <=> Counts(u, s)
      BY <1>6, <1>7 DEF Counts
    <3>2. \A s \in Slots, u \in Threads : Storing(u, s)' <=> Storing(u, s)
      BY <1>6, <1>7 DEF Storing
    <3>3. Counted' = Counted  BY <1>2, <3>1, <3>2 DEF Counted
    <3>   QED  BY <1>2, <2>1, <3>3 DEF InOrder, CountIsRight
  <2>14. Reachable'  BY <1>2, <2>1 DEF InOrder, Reachable
  <2>15. AttachHasPassed'
    BY <1>2, <1>6, <2>1 DEF InOrder, AttachHasPassed
  <2>16. LookHasPassed'
    BY <1>2, <1>6, <2>1 DEF InOrder, LookHasPassed
  <2>   QED  BY <2>2, <2>3, <2>4, <2>5, <2>6, <2>7, <2>8, <2>9,
               <2>10, <2>11, <2>12, <2>13, <2>14, <2>15, <2>16
            DEF InOrder
<1>   QED  BY <1>2, <1>5, <1>8, <1>9, <1>10 DEF StagedInv, Orderly

\* There is nothing to release (staging.c:261).
LEMMA ReleaseIdlePreserves ==
  ASSUME NEW t \in Threads, StagedInv, ReleaseIdle(t)
  PROVE  StagedInv'
<1>1. Types /\ InHand  BY DEF StagedInv
<1>2. pc[t] = "release" /\ live = 0  BY DEF ReleaseIdle
<1>3. ASSUME Orderly, NEW o \in Ops, phase[o] = "finished", block[o] = "held",
             handle[o] = Head(todo[t])
      PROVE  FALSE
  <2>1. InOrder  BY <1>3 DEF StagedInv
  <2>2. Pending(t, handle[o])  BY <1>1, <1>2, <1>3, HeadIsPending DEF Removing
  <2>3. \E s \in Slots : s \in Counted
    BY <1>1, <1>2, <1>3, <2>1, <2>2, OverIsInTable DEF Taken
  <2>   QED  BY <1>2, <2>1, <2>3, ZeroIsEmpty
<1>   QED  BY <1>2, <1>3, ReleaseOver DEF ReleaseIdle

\* The handle is not in the table (staging.c:268).
LEMMA ReleaseMissesPreserves ==
  ASSUME NEW t \in Threads, StagedInv, ReleaseMisses(t)
  PROVE  StagedInv'
<1>1. Types /\ InHand  BY DEF StagedInv
<1>2. pc[t] = "look" /\ (probe[t] = Capacity \/ key[slot[t]] = Empty)
  BY DEF ReleaseMisses
<1>3. ASSUME Orderly, NEW o \in Ops, phase[o] = "finished", block[o] = "held",
             handle[o] = Head(todo[t])
      PROVE  FALSE
  <2>1. InOrder  BY <1>3 DEF StagedInv
  <2>2. Pending(t, handle[o])  BY <1>1, <1>2, <1>3, HeadIsPending DEF Removing
  <2>3. \E s \in Slots : key[s] = handle[o]
    BY <1>1, <1>2, <1>3, <2>1, <2>2, OverIsInTable DEF Taken
  <2>   QED  BY <1>1, <1>2, <1>3, <2>1, <2>3, MissIsMiss
<1>   QED  BY <1>2, <1>3, ReleaseOver DEF ReleaseMisses

\* In an orderly environment nobody else releases the handle.
LEMMA LockLostPreserves ==
  ASSUME NEW t \in Threads, StagedInv, LockLost(t)
  PROVE  StagedInv'
<1>1. pc[t] = "lock" /\ key[slot[t]] # Head(todo[t])  BY DEF LockLost
<1>2. ~Orderly  BY <1>1 DEF StagedInv, InOrder, AtSlot
<1>   QED  BY <1>1, <1>2, ReleaseOver DEF LockLost

\* The block is freed, and nothing is left of its operation (staging.c:279).
LEMMA FreeBlockPreserves ==
  ASSUME NEW t \in Threads, StagedInv, FreeBlock(t)
  PROVE  StagedInv'
<1>1. Types /\ InHand /\ RequestsHaveHandles  BY DEF StagedInv
<1>2. /\ pc[t] = "free" /\ NextRelease(t)
      /\ op' = [op EXCEPT ![t] = None]
      /\ env' = env /\ key' = key /\ blk' = blk /\ live' = live
      /\ kind' = kind /\ phase' = phase
  BY DEF FreeBlock, tableVars
<1>3. op'[t] = None /\ \A u \in Threads \ {t} : op'[u] = op[u]
  BY <1>1, <1>2 DEF Types
<1>4. /\ Advanced(t) /\ LeftBehind(t)
      /\ todo' \in [Threads -> Seq(Handles)]
      /\ pc' \in [Threads -> Posting \cup Removing \cup {"idle", "any"}]
      /\ slot' \in [Threads -> Slots] /\ probe' \in [Threads -> 0 .. Capacity]
      /\ seen' \in [Threads -> {Empty, Tomb}]
  <2>1. todo[t] # <<>>  BY <1>1, <1>2 DEF InHand, Removing
  <2>   QED  BY <1>1, <1>2, <2>1, Advance
<1>5. Types'
  <2>1. /\ block'  \in [Ops -> {"none", "held", "freed", "freed twice", "full", "duplicate"}]
        /\ handle' \in [Ops -> Handles \cup {None}]
    BY <1>1 DEF FreeBlock, Types
  <2>2. op' \in [Threads -> Ops \cup {None}]  BY <1>1, <1>2 DEF Types
  <2>   QED  BY <1>1, <1>2, <1>4, <2>1, <2>2 DEF Types
<1>6. \A u \in Threads : pc'[u] \notin {"idle", "release"} =>
        /\ u # t /\ op'[u] = op[u]
        /\ pc[u] = pc'[u] /\ slot'[u] = slot[u] /\ todo'[u] = todo[u]
        /\ probe'[u] = probe[u] /\ seen'[u] = seen[u]
  BY <1>3, <1>4 DEF Advanced
<1>7. \A u \in Threads : pc[u] # "free" =>
        /\ u # t /\ op'[u] = op[u]
        /\ pc'[u] = pc[u] /\ slot'[u] = slot[u]
  BY <1>2, <1>3, <1>4 DEF Advanced
<1>8. InHand'
  <2> SUFFICES ASSUME NEW u \in Threads
               PROVE  /\ Len(todo'[u]) <= 2
                      /\ pc'[u] \in Removing => todo'[u] # <<>>
                      /\ pc'[u] \in Posting \cup {"idle"} => todo'[u] = <<>>
                      /\ pc'[u] \in Posting => op'[u] \in Ops /\ phase[op'[u]] # "finished"
                      /\ pc'[u] \notin Posting \cup Taken => op'[u] = None
                      /\ pc'[u] \in {"cas", "lock"} => probe'[u] < Capacity
    BY <1>2 DEF InHand
  <2>1. CASE u = t
    <3>1. Len(todo'[t]) <= 2
      <4>1. todo'[t] \in Seq(Handles)  BY <1>4
      <4>2. Len(todo'[t]) \in Nat  BY <4>1
      <4>   QED  BY <1>4, <4>2 DEF Advanced
    <3>   QED  BY <1>3, <1>4, <2>1, <3>1 DEF Advanced, Posting, Removing, Taken
  <2>2. CASE u # t
    BY <1>1, <1>3, <1>4, <2>2 DEF InHand, Advanced
  <2>   QED  BY <2>1, <2>2
<1>9. RequestsHaveHandles'
  <2>1. \A o \in Ops : phase[o] # "finished" => handle'[o] = handle[o]
    BY DEF FreeBlock
  <2>   QED  BY <1>1, <1>2, <2>1 DEF RequestsHaveHandles
<1>10. ASSUME Orderly  PROVE InOrder'
  <2>1. InOrder  BY <1>10 DEF StagedInv
  <2>2. PICK p \in Ops : p = op[t]
    BY <1>1, <1>2, <2>1, Ranges DEF InOrder, AtSlot, Taken
  <2>3. phase[p] = "finished" /\ block[p] = "held" /\ handle[p] = Head(todo[t])
    BY <1>2, <2>1, <2>2, Values DEF InOrder, AtSlot, Taken, PlacesHold
  <2>4. /\ block'[p] = "none" /\ handle'[p] = None
        /\ \A o \in Ops \ {p} : block'[o] = block[o] /\ handle'[o] = handle[o]
    BY <2>2, <2>3, Values DEF FreeBlock
  <2>5. \A s \in Slots : blk[s] # p
    BY <1>2, <2>1, <2>2, Values DEF InOrder, OnePlace
  <2>6. \A u \in Threads \ {t} : op[u] # p
    BY <2>1, <2>2, Values DEF InOrder, OnePlace
  <2>7. \A u \in Threads : op'[u] # p  BY <1>3, <2>6, Values
  <2>8. \A u \in Threads : op'[u] # None => u # t /\ op'[u] = op[u]  BY <1>3
  <2>9. PlacesHold'
    <3>1. \A s \in Slots : blk[s] # None => blk[s] \in Ops \ {p}
      BY <1>1, <2>5, Ranges
    <3>2. \A u \in Threads : op'[u] # None => op'[u] \in Ops \ {p}
      BY <1>1, <2>7, <2>8, Ranges
    <3>   QED  BY <1>2, <2>1, <2>4, <2>8, <3>1, <3>2 DEF InOrder, PlacesHold
  <2>10. OnePlace'
    <3>1. \A u \in Threads, s \in Slots : op'[u] # None /\ blk[s] = op'[u] =>
            pc'[u] = "stored" /\ slot'[u] = s
      BY <1>7, <2>1, <2>8 DEF InOrder, OnePlace
    <3>   QED  BY <1>2, <2>1, <2>8, <3>1 DEF InOrder, OnePlace
  <2>11. HeldHasPlace'
    <3> SUFFICES ASSUME NEW o \in Ops, block'[o] = "held"
                 PROVE  (\E s \in Slots : blk[s] = o) \/ (\E u \in Threads : op'[u] = o)
      BY <1>2 DEF HeldHasPlace
    <3>1. o # p /\ block[o] = "held"  BY <2>4
    <3>2. \A u \in Threads : op[u] = o => op'[u] = o  BY <1>3, <2>2, <3>1
    <3>   QED  BY <2>1, <3>1, <3>2 DEF InOrder, HeldHasPlace
  <2>12. AtSlot'
    <3>1. \A u \in Threads : u # t => op'[u] = op[u] /\ op[u] # p  BY <1>3, <2>6
    <3>2. \A u \in Threads : op[u] \in Ops /\ u # t => handle'[op[u]] = handle[op[u]]
      BY <2>4, <3>1
    <3>3. \A s \in Slots : blk[s] \in Ops => handle'[blk[s]] = handle[blk[s]]
      BY <2>4, <2>5
    <3>4. \A u \in Threads : /\ pc[u] \in Posting => op[u] \in Ops
                            /\ slot[u] \in Slots
      BY <1>1, Ranges DEF InHand
    <3>5. \A u \in Threads : op[u] # None => op[u] \in Ops  BY <1>1, Ranges
    <3>6. \A s \in Slots : blk[s] # None => blk[s] \in Ops  BY <1>1, Ranges
    <3> SUFFICES ASSUME NEW u \in Threads
                 PROVE
          /\ pc'[u] = "store"  => key[slot'[u]] = handle'[op'[u]] /\ blk[slot'[u]] = None
          /\ pc'[u] = "stored" => key[slot'[u]] = handle'[op'[u]] /\ blk[slot'[u]] = op'[u]
          /\ pc'[u] = "lock"   => key[slot'[u]] = Head(todo'[u])
          /\ pc'[u] \in Locking => key[slot'[u]] = Locked
          /\ pc'[u] = "take" =>
               blk[slot'[u]] # None /\ handle'[blk[slot'[u]]] = Head(todo'[u])
          /\ pc'[u] \in {"uncount", "unlock"} => blk[slot'[u]] = None
          /\ pc'[u] \in Taken =>
               /\ op'[u] # None
               /\ phase[op'[u]] = "finished"
               /\ handle'[op'[u]] = Head(todo'[u])
      BY <1>2 DEF AtSlot
    <3>7. CASE pc'[u] \in {"idle", "release"}  BY <3>7 DEF Locking, Taken
    <3>8. CASE pc'[u] \notin {"idle", "release"}
      <4>1. /\ u # t /\ op'[u] = op[u] /\ pc[u] = pc'[u]
            /\ slot'[u] = slot[u] /\ todo'[u] = todo[u]
        BY <1>6, <3>8
      <4>2. CASE pc[u] \in {"store", "stored"}
        BY <2>1, <3>2, <3>4, <4>1, <4>2 DEF InOrder, AtSlot, Posting, Locking, Taken
      <4>3. CASE pc[u] \in {"lock", "take"}
        BY <2>1, <3>3, <3>4, <3>6, <4>1, <4>3 DEF InOrder, AtSlot, Locking, Taken
      <4>4. CASE pc[u] \in Taken
        BY <2>1, <3>2, <3>5, <4>1, <4>4 DEF InOrder, AtSlot, Locking, Taken
      <4>   QED  BY <4>1, <4>2, <4>3, <4>4 DEF Locking, Taken
    <3>   QED  BY <3>7, <3>8
  <2>13. LockIsExclusive'
    <3>1. \A u \in Threads : pc'[u] \in Locking => pc[u] \in Locking /\ slot'[u] = slot[u]
      BY <1>6 DEF Locking
    <3>2. \A u \in Threads : pc[u] \in Locking => pc'[u] \in Locking /\ slot'[u] = slot[u]
      BY <1>7 DEF Locking
    <3>   QED  BY <1>2, <2>1, <3>1, <3>2 DEF InOrder, LockIsExclusive
  <2>14. KeyNamesBlock'
    <3>1. \A s \in Slots : blk[s] # None => handle'[blk[s]] = handle[blk[s]]
      BY <1>1, <2>4, <2>5, Ranges
    <3>2. \A u \in Threads : pc[u] \in {"take", "store"} => pc'[u] = pc[u] /\ slot'[u] = slot[u]
      BY <1>7
    <3>   QED  BY <1>2, <2>1, <3>1, <3>2 DEF InOrder, KeyNamesBlock
  <2>15. OneHandle'
    BY <1>2, <2>1, <2>3, <2>4 DEF InOrder, OneHandle, Alive
  <2>16. BuiltInIsComplete'
    <3>1. \A u \in Threads : pc[u] = "keep" => pc'[u] = "keep" /\ op'[u] = op[u]
      BY <1>7
    <3>   QED  BY <1>2, <2>1, <2>4, <3>1, Values DEF InOrder, BuiltInIsComplete
  <2>17. PendingIsOver'
    <3> SUFFICES ASSUME NEW u \in Threads, NEW h \in Handles \ {BuiltIn}, Pending(u, h)'
                 PROVE  /\ \A o \in Ops : phase[o] # "finished" => handle'[o] # h
                        /\ \A v \in Threads : Pending(v, h)' => v = u
                        /\ Len(todo'[u]) = 2 => todo'[u][1] # todo'[u][2]
      BY <1>2 DEF PendingIsOver
    <3>1. Pending(u, h)  BY <1>4 DEF LeftBehind
    <3>2. ASSUME Len(todo'[u]) = 2  PROVE todo'[u] = todo[u]
      <4>1. u # t
        <5> SUFFICES ASSUME u = t  PROVE FALSE  OBVIOUS
        <5>1. Len(todo'[t]) = 2  BY <3>2
        <5>2. Len(todo'[t]) <= 1  BY <1>4 DEF Advanced
        <5>3. 2 <= 1  BY <5>1, <5>2, Zenon
        <5>   QED  BY <5>3
      <4>   QED  BY <1>4, <4>1 DEF Advanced
    <3>3. \A o \in Ops : phase[o] # "finished" => handle'[o] # h
      BY <2>1, <2>3, <2>4, <3>1 DEF InOrder, PendingIsOver
    <3>4. \A v \in Threads : Pending(v, h)' => v = u
      BY <1>4, <2>1, <3>1 DEF InOrder, PendingIsOver, LeftBehind
    <3>5. Len(todo'[u]) = 2 => todo'[u][1] # todo'[u][2]
      BY <2>1, <3>1, <3>2 DEF InOrder, PendingIsOver
    <3>   QED  BY <3>3, <3>4, <3>5
  <2>18. OverIsPending'
    <3> SUFFICES ASSUME NEW o \in Ops, phase[o] = "finished", block'[o] = "held"
                 PROVE  \E u \in Threads, i \in 1 .. 2 :
                          i <= Len(todo'[u]) /\ todo'[u][i] = handle'[o]
      BY <1>2 DEF OverIsPending, Pending
    <3>1. o # p /\ block[o] = "held" /\ handle'[o] = handle[o]  BY <2>4
    <3>2. PICK u \in Threads : Pending(u, handle[o])
      BY <2>1, <3>1 DEF InOrder, OverIsPending
    <3>3. handle[o] \notin {None, BuiltIn}
      BY <1>1, <2>1, <3>2, PendingIsHandle, Values DEF InOrder, BuiltInIsComplete
    <3>4. handle[o] # Head(todo[t])
      BY <2>1, <2>3, <3>1, <3>3 DEF InOrder, OneHandle
    <3>5. \E i \in 1 .. 2 : i <= Len(todo'[u]) /\ todo'[u][i] = handle[o]
      <4>1. PICK h \in Handles : h = handle[o]
        BY <1>1, <3>2, PendingIsHandle
      <4>2. h # Head(todo[t]) /\ Pending(u, h)  BY <3>2, <3>4, <4>1
      <4>3. Pending(u, h)'  BY <1>4, <4>2 DEF LeftBehind
      <4>   QED  BY <4>1, <4>3 DEF Pending
    <3>   QED  BY <3>1, <3>5 DEF Pending
  <2>19. Fates'  BY <1>2, <2>1, <2>4 DEF InOrder, Fates
  <2>20. CountIsRight'
    <3>1. \A s \in Slots, u \in Threads : Counts(u, s)' <=> Counts(u, s)
      BY <1>6, <1>7 DEF Counts
    <3>2. \A s \in Slots, u \in Threads : Storing(u, s)' <=> Storing(u, s)
      BY <1>6, <1>7 DEF Storing
    <3>3. Counted' = Counted  BY <1>2, <3>1, <3>2 DEF Counted
    <3>   QED  BY <1>2, <2>1, <3>3 DEF InOrder, CountIsRight
  <2>21. Reachable'  BY <1>2, <2>1 DEF InOrder, Reachable
  <2>22. AttachHasPassed'
    <3> SUFFICES ASSUME NEW u \in Threads, pc'[u] \in {"attach", "cas"}
                 PROVE  /\ handle'[op'[u]] # BuiltIn
                        /\ probe'[u] < Capacity => slot'[u] = PosAt(handle'[op'[u]], probe'[u])
                        /\ \A j \in 0 .. probe'[u] - 1 : key[PosAt(handle'[op'[u]], j)] # Empty
                        /\ pc'[u] = "cas" /\ seen'[u] = Tomb => key[slot'[u]] # Empty
      BY <1>2 DEF AttachHasPassed
    <3>1. /\ u # t /\ op'[u] = op[u] /\ pc'[u] = pc[u]
          /\ slot'[u] = slot[u] /\ probe'[u] = probe[u] /\ seen'[u] = seen[u]
      BY <1>6
    <3>2. op[u] \in Ops \ {p}  BY <1>1, <2>6, <3>1 DEF InHand, Posting
    <3>3. handle'[op'[u]] = handle[op[u]]  BY <2>4, <3>1, <3>2
    <3>   QED  BY <2>1, <3>1, <3>3 DEF InOrder, AttachHasPassed
  <2>23. LookHasPassed'
    BY <1>2, <1>6, <2>1 DEF InOrder, LookHasPassed
  <2>   QED  BY <2>9, <2>10, <2>11, <2>12, <2>13, <2>14, <2>15, <2>16,
               <2>17, <2>18, <2>19, <2>20, <2>21, <2>22, <2>23
            DEF InOrder
<1>   QED  BY <1>2, <1>5, <1>8, <1>9, <1>10 DEF StagedInv, Orderly

-----------------------------------------------------------------------------
(* The invariant. *)

LEMMA InitEstablishes == Init => StagedInv
<1> SUFFICES ASSUME Init PROVE StagedInv  OBVIOUS
<1> USE Values
<1>1. Types
  <2>1. 0 \in Slots /\ 0 \in 0 .. Capacity /\ <<>> \in Seq(Handles)
    BY ZeroIsSlot, EmptySeq
  <2>   QED  BY <2>1 DEF Init, Types
<1>2. InHand
  <2>1. \A t \in Threads : pc[t] = "idle" /\ op[t] = None /\ todo[t] = <<>>
    BY DEF Init
  <2>2. Len(<<>>) = 0  BY EmptySeq
  <2>   QED  BY <2>1, <2>2 DEF InHand, Posting, Removing, Taken
<1>3. RequestsHaveHandles  BY DEF Init, RequestsHaveHandles
<1>4. InOrder
  <2>1. /\ \A t \in Threads : pc[t] = "idle" /\ op[t] = None /\ todo[t] = <<>>
        /\ \A s \in Slots : key[s] = Empty /\ blk[s] = None
        /\ \A o \in Ops : /\ phase[o] = "finished" /\ handle[o] = None
                          /\ block[o] = "none"
        /\ live = 0
    BY DEF Init
  <2>2. \A t \in Threads : \A h : ~Pending(t, h)
    <3>1. Len(<<>>) = 0  BY EmptySeq
    <3>   QED  BY <2>1, <3>1 DEF Pending
  <2>3. PlacesHold /\ OnePlace /\ HeldHasPlace
    BY <2>1 DEF PlacesHold, OnePlace, HeldHasPlace
  <2>4. AtSlot /\ LockIsExclusive /\ KeyNamesBlock
    BY <2>1 DEF AtSlot, LockIsExclusive, KeyNamesBlock, Locking, Taken
  <2>5. OneHandle /\ BuiltInIsComplete /\ Fates
    BY <2>1 DEF OneHandle, Alive, BuiltInIsComplete, Fates
  <2>6. PendingIsOver /\ OverIsPending
    BY <2>1, <2>2 DEF PendingIsOver, OverIsPending
  <2>7. CountIsRight
    <3>1. Counted = {}  BY <2>1 DEF Counted, Storing, Counts
    <3>   QED  BY <2>1, <3>1, FS_EmptySet DEF CountIsRight
  <2>8. Reachable /\ AttachHasPassed /\ LookHasPassed
    BY <2>1 DEF Reachable, AttachHasPassed, LookHasPassed
  <2>   QED  BY <2>3, <2>4, <2>5, <2>6, <2>7, <2>8 DEF InOrder
<1>   QED  BY <1>1, <1>2, <1>3, <1>4 DEF StagedInv

LEMMA StutterPreserves ==
  ASSUME StagedInv, UNCHANGED vars  PROVE StagedInv'
<1>1. /\ env' = env /\ key' = key /\ blk' = blk /\ live' = live
      /\ kind' = kind /\ phase' = phase /\ handle' = handle /\ block' = block
      /\ pc' = pc /\ op' = op /\ todo' = todo
      /\ slot' = slot /\ probe' = probe /\ seen' = seen
  BY DEF vars, tableVars, implVars, loopVars
<1>2. Types' /\ InHand' /\ RequestsHaveHandles'
  BY <1>1 DEF StagedInv, Types, InHand, RequestsHaveHandles
<1>3. ASSUME Orderly  PROVE InOrder'
  <2>1. InOrder  BY <1>3 DEF StagedInv
  <2>2. (PlacesHold /\ OnePlace /\ HeldHasPlace)'
    BY <1>1, <2>1 DEF InOrder, PlacesHold, OnePlace, HeldHasPlace
  <2>3. (AtSlot /\ LockIsExclusive /\ KeyNamesBlock)'
    BY <1>1, <2>1 DEF InOrder, AtSlot, LockIsExclusive, KeyNamesBlock
  <2>4. OneHandle'          BY <1>1, <2>1 DEF InOrder, OneHandle, Alive
  <2>5. BuiltInIsComplete'  BY <1>1, <2>1 DEF InOrder, BuiltInIsComplete
  <2>6. Fates'              BY <1>1, <2>1 DEF InOrder, Fates
  <2>7. PendingIsOver'      BY <1>1, <2>1 DEF InOrder, PendingIsOver, Pending
  <2>8. OverIsPending'      BY <1>1, <2>1 DEF InOrder, OverIsPending, Pending
  <2>9. CountIsRight'
    BY <1>1, <2>1 DEF InOrder, CountIsRight, Counted, Storing, Counts
  <2>10. Reachable'         BY <1>1, <2>1 DEF InOrder, Reachable
  <2>11. AttachHasPassed'   BY <1>1, <2>1 DEF InOrder, AttachHasPassed
  <2>12. LookHasPassed'     BY <1>1, <2>1 DEF InOrder, LookHasPassed
  <2>   QED  BY <2>2, <2>3, <2>4, <2>5, <2>6, <2>7, <2>8, <2>9, <2>10, <2>11, <2>12
            DEF InOrder
<1>   QED  BY <1>1, <1>2, <1>3 DEF StagedInv, Orderly

LEMMA StepPreserves ==
  ASSUME NEW t \in Threads, StagedInv, Step(t)  PROVE StagedInv'
  BY PostPlainPreserves, PostNonblockingPreserves, PostPersistentPreserves,
     KeepNothingPreserves, KeepBlockPreserves, AttachFullPreserves,
     AttachDuplicatePreserves, AttachSeesRoomPreserves, AttachSkipsPreserves,
     AttachTakesPreserves, AttachLosesPreserves, StoreBlockPreserves,
     CountBlockPreserves, StartPreserves, CompletePreserves, FreePreserves,
     NothingStagedPreserves, SomethingStagedPreserves, ReleaseIdlePreserves,
     ReleaseStartPreserves, ReleaseMissesPreserves, ReleaseSkipsPreserves,
     ReleaseHitsPreserves, LockPreserves, LockLostPreserves, TakeBlockPreserves,
     UncountBlockPreserves, UnlockPreserves, FreeBlockPreserves
  DEF Step

LEMMA Invariance == Spec => []StagedInv
<1>1. ASSUME StagedInv, [Next]_vars  PROVE StagedInv'
  BY <1>1, StepPreserves, FinishPreserves, StutterPreserves DEF Next
<1>   QED  BY InitEstablishes, <1>1, PTL DEF Spec

-----------------------------------------------------------------------------
(***************************************************************************)
(* Arrays are not freed in use, in every environment but "immediate": also *)
(* in a build that cannot ask whether a request is complete, and then      *)
(* keeps arrays under the handle that complete operations share.  Calls    *)
(* that release that handle can then meet in one slot, and the count of    *)
(* the table and the blocks in it part; what is freed is still only what   *)
(* nobody reads.                                                           *)
(***************************************************************************)

\* What the implementation has no arrays to read for any more: its request is
\* over, or was complete on return.
Over(o) == phase[o] = "finished" \/ handle[o] = BuiltIn

\* A block in a slot, or in hand, has not been freed.  One that has just been
\* stored may have been: a call that releases the built-in handle can come
\* between the store and the count.
PlacedIsHeld ==
  /\ \A s \in Slots : blk[s] # None => block[blk[s]] = "held"
  /\ \A t \in Threads : op[t] # None /\ pc[t] # "stored" => block[op[t]] = "held"

PlacedOnce ==
  /\ \A s, r \in Slots : blk[s] # None /\ blk[s] = blk[r] => s = r
  /\ \A t, u \in Threads : op[t] # None /\ op[t] = op[u] =>
       \/ t = u
       \/ pc[t] = "stored" /\ pc[u] \in Taken
       \/ pc[u] = "stored" /\ pc[t] \in Taken
  /\ \A t \in Threads, s \in Slots : op[t] # None /\ blk[s] = op[t] => pc[t] = "stored"

PlacedHasHandle ==
  /\ \A s \in Slots : blk[s] # None => handle[blk[s]] # None
  /\ \A t \in Threads : op[t] # None => handle[op[t]] # None

LocksHold ==
  /\ \A t \in Threads : pc[t] \in Locking => key[slot[t]] = Locked
  /\ \A t, u \in Threads :
       pc[t] \in Locking /\ pc[u] \in Locking /\ slot[t] = slot[u] => t = u

StoresUnderOwnKey ==
  \A t \in Threads :
    pc[t] = "store" => key[slot[t]] = handle[op[t]] \/ handle[op[t]] = BuiltIn

\* The block of a request that is not over is under its own key ...
LiveUnderOwnKey ==
  \A s \in Slots : blk[s] # None => Over(blk[s]) \/ key[s] = handle[blk[s]]

\* ... so what a call takes, it takes of one that is.
TakenIsOver ==
  \A t \in Threads : pc[t] \in Taken /\ op[t] # None => Over(op[t])

\* A handle names one request, and none while a call releases it.
HandleNamesOne ==
  \A o, p \in Ops :
    ~Over(o) /\ ~Over(p) /\ handle[o] = handle[p] => o = p

BuiltInWasComplete ==
  \A o \in Ops : handle[o] = BuiltIn =>
    phase[o] \in {"complete", "finished"} /\ kind[o] # "persistent"

ReleasedIsOver ==
  \A t \in Threads, o \in Ops : Pending(t, handle[o]) => Over(o)

FreedIsComplete ==
  \A o \in Ops :
    /\ block[o] # "freed twice"
    /\ block[o] = "freed" => phase[o] = "complete" /\ kind[o] # "persistent"

ArraysInOrder ==
  /\ PlacedIsHeld /\ PlacedOnce /\ PlacedHasHandle
  /\ LocksHold /\ StoresUnderOwnKey /\ LiveUnderOwnKey /\ TakenIsOver
  /\ HandleNamesOne /\ BuiltInWasComplete /\ ReleasedIsOver
  /\ FreedIsComplete

\* A handle is not reused while a call still releases it.
HandlesRest == env # "immediate"

\* Types, and what a call has in hand, hold in every state.
Known == Types /\ InHand /\ RequestsHaveHandles

\* What each place can hold.
LEMMA Places ==
  ASSUME Known
  PROVE  /\ None \notin Ops /\ None \notin Handles /\ BuiltIn \in Handles
         /\ {Empty, Locked, Tomb} \cap Handles = {}
         /\ Locked \notin {Empty, Tomb}
         /\ \A s \in Slots : blk[s] \in Ops \cup {None}
         /\ \A t \in Threads : op[t] \in Ops \cup {None} /\ slot[t] \in Slots
         /\ \A o \in Ops : handle[o] \in Handles \cup {None}
         /\ \A o \in Ops : phase[o] # "finished" => handle[o] \in Handles
         /\ \A t \in Threads : pc[t] \in Posting =>
              op[t] \in Ops /\ phase[op[t]] # "finished"
         /\ \A t \in Threads : pc[t] \notin Posting \cup Taken => op[t] = None
  BY Values, Ranges DEF Known, InHand, RequestsHaveHandles

\* A step that only moves a thread: to another slot, or on to another handle.
Quiet ==
  /\ UNCHANGED <<env, key, blk, kind, phase, handle, block, op>>
  /\ \A u \in Threads :
       /\ pc'[u] = "stored" <=> pc[u] = "stored"
       /\ pc'[u] \in Taken <=> pc[u] \in Taken
       /\ pc'[u] = "store" => pc[u] = "store" /\ slot'[u] = slot[u]
       /\ pc'[u] \in Locking => pc[u] \in Locking /\ slot'[u] = slot[u]
       /\ \A h : Pending(u, h)' => Pending(u, h)

\* It disturbs nothing.
LEMMA QuietKeepsOrder ==
  ASSUME ArraysInOrder, Quiet  PROVE ArraysInOrder'
<1> USE DEF ArraysInOrder, Quiet
<1>1. \A o : Over(o)' <=> Over(o)  BY DEF Over
<1>2. PlacedIsHeld'       BY DEF PlacedIsHeld
<1>3. PlacedOnce'         BY DEF PlacedOnce
<1>4. PlacedHasHandle'    BY DEF PlacedHasHandle
<1>5. LocksHold'          BY DEF LocksHold
<1>6. StoresUnderOwnKey'  BY DEF StoresUnderOwnKey
<1>7. LiveUnderOwnKey'    BY <1>1 DEF LiveUnderOwnKey
<1>8. TakenIsOver'        BY <1>1 DEF TakenIsOver
<1>9. HandleNamesOne'     BY <1>1 DEF HandleNamesOne
<1>10. BuiltInWasComplete'  BY DEF BuiltInWasComplete
<1>11. ReleasedIsOver'      BY <1>1 DEF ReleasedIsOver
<1>12. FreedIsComplete'     BY DEF FreedIsComplete
<1>   QED
  BY <1>2, <1>3, <1>4, <1>5, <1>6, <1>7, <1>8, <1>9, <1>10, <1>11, <1>12

\* Deciding to keep the block, and the probing of both loops (staging.c:106-127,
\* 226-231, 264-277).
LEMMA ProbingIsQuiet ==
  ASSUME Known, NEW t \in Threads,
         \/ KeepBlock(t) \/ AttachSeesRoom(t) \/ AttachSkips(t) \/ AttachLoses(t)
         \/ SomethingStaged(t) \/ ReleaseStart(t) \/ ReleaseSkips(t)
         \/ ReleaseHits(t) \/ UncountBlock(t)
  PROVE  Quiet
<1> USE DEF Known, Types, Goto, tableVars, implVars, loopVars, StartLoop, NextSlot,
            Taken, Locking
<1>1. ASSUME todo' = todo
      PROVE  \A u \in Threads : \A h : Pending(u, h)' => Pending(u, h)
  BY <1>1 DEF Pending
<1>2. CASE KeepBlock(t)        BY <1>1, <1>2 DEF KeepBlock, Quiet
<1>3. CASE AttachSeesRoom(t)   BY <1>1, <1>3 DEF AttachSeesRoom, Quiet
<1>4. CASE AttachSkips(t)      BY <1>1, <1>4 DEF AttachSkips, Quiet
<1>5. CASE AttachLoses(t)      BY <1>1, <1>5 DEF AttachLoses, Quiet
<1>6. CASE SomethingStaged(t)  BY <1>1, <1>6 DEF SomethingStaged, Quiet
<1>7. CASE ReleaseStart(t)     BY <1>1, <1>7 DEF ReleaseStart, Quiet
<1>8. CASE ReleaseSkips(t)     BY <1>1, <1>8 DEF ReleaseSkips, Quiet
<1>9. CASE ReleaseHits(t)      BY <1>1, <1>9 DEF ReleaseHits, Quiet
<1>10. CASE UncountBlock(t)    BY <1>1, <1>10 DEF UncountBlock, Quiet
<1>   QED  BY <1>2, <1>3, <1>4, <1>5, <1>6, <1>7, <1>8, <1>9, <1>10

\* A release that has nothing to do goes on to the next handle
\* (staging.c:261-274).
LEMMA GoingOnIsQuiet ==
  ASSUME Known, NEW t \in Threads,
         \/ NothingStaged(t) \/ ReleaseIdle(t) \/ ReleaseMisses(t) \/ LockLost(t)
  PROVE  Quiet
<1>1. CASE NothingStaged(t)
  <2>1. /\ pc[t] = "any" /\ pc'[t] = "idle" /\ todo'[t] = <<>>
        /\ \A u \in Threads \ {t} :
             pc'[u] = pc[u] /\ todo'[u] = todo[u] /\ slot'[u] = slot[u]
    BY <1>1 DEF NothingStaged, Return, Goto, ResetLoop, Known, Types
  <2>2. \A h : ~Pending(t, h)'
    <3>1. Len(<<>>) = 0  BY EmptySeq
    <3>   QED  BY <2>1, <3>1 DEF Pending
  <2>3. \A u \in Threads : \A h : Pending(u, h)' => Pending(u, h)
    BY <2>1, <2>2 DEF Pending
  <2>   QED
    BY <1>1, <2>1, <2>3 DEF NothingStaged, Quiet, Taken, Locking, tableVars, implVars
<1>2. CASE ReleaseIdle(t) \/ ReleaseMisses(t) \/ LockLost(t)
  <2>1. /\ pc[t] \in {"release", "look", "lock"} /\ NextRelease(t)
        /\ UNCHANGED <<env, tableVars, implVars, block, op>>
    BY <1>2 DEF ReleaseIdle, ReleaseMisses, LockLost
  <2>2. todo[t] # <<>>  BY <2>1 DEF Known, InHand, Removing
  <2>3. Advanced(t) /\ LeftBehind(t)  BY <2>1, <2>2, Advance DEF Known
  <2>   QED
    BY <2>1, <2>3 DEF Advanced, LeftBehind, Quiet, Taken, Locking, tableVars, implVars
<1>   QED  BY <1>1, <1>2

\* The posting call returns without its block in the table (staging.c:119-128,
\* 226-252).
LEMMA SettleKeepsOrder ==
  ASSUME Known, ArraysInOrder, NEW t \in Threads,
         KeepNothing(t) \/ AttachFull(t) \/ AttachDuplicate(t)
  PROVE  ArraysInOrder'
<1>1. /\ pc[t] \in {"keep", "attach"} /\ pc'[t] = "idle"
      /\ \A u \in Threads \ {t} :
           pc'[u] = pc[u] /\ op'[u] = op[u] /\ slot'[u] = slot[u]
      /\ op'[t] = None /\ op[t] \in Ops
      /\ block'[op[t]] \in {"freed", "full", "duplicate"}
      /\ block'[op[t]] = "freed" =>
           phase[op[t]] = "complete" /\ kind[op[t]] = "nonblocking"
      /\ \A o \in Ops \ {op[t]} : block'[o] = block[o]
      /\ env' = env /\ key' = key /\ blk' = blk /\ kind' = kind
      /\ phase' = phase /\ handle' = handle /\ todo' = todo
  <2> USE DEF Settle, Goto, ResetLoop, tableVars, implVars, Known, Types, Posting
  <2>1. CASE KeepNothing(t)
    <3>1. /\ pc[t] = "keep" /\ op[t] \in Ops
          /\ phase[op[t]] = "complete" /\ kind[op[t]] = "nonblocking"
      BY <2>1, Places DEF KeepNothing, IsComplete
    <3>2. Settle(t, "freed") /\ UNCHANGED <<env, tableVars, implVars, todo>>
      BY <2>1 DEF KeepNothing
    <3>   QED  BY <3>1, <3>2
  <2>2. CASE AttachFull(t)       BY <2>2, Places DEF AttachFull
  <2>3. CASE AttachDuplicate(t)
    <3>1. pc[t] = "attach" /\ op[t] \in Ops  BY <2>3, Places DEF AttachDuplicate
    <3>2. Settle(t, "duplicate") /\ UNCHANGED <<env, tableVars, implVars, todo>>
      BY <2>3 DEF AttachDuplicate
    <3>   QED  BY <3>1, <3>2
  <2>   QED  BY <2>1, <2>2, <2>3
<1>2. \A u \in Threads : \A h : Pending(u, h)' <=> Pending(u, h)
  BY <1>1 DEF Pending
<1> USE DEF ArraysInOrder
<1>3. /\ \A s \in Slots : blk[s] # op[t]
      /\ \A u \in Threads \ {t} : op[u] # op[t]
  BY <1>1, Places DEF PlacedOnce, Taken
<1>4. \A o : Over(o)' <=> Over(o)  BY <1>1 DEF Over
<1>5. PlacedIsHeld'       BY <1>1, <1>3, Places DEF PlacedIsHeld
<1>6. PlacedOnce'         BY <1>1 DEF PlacedOnce
<1>7. PlacedHasHandle'    BY <1>1 DEF PlacedHasHandle
<1>8. LocksHold'          BY <1>1 DEF LocksHold, Locking
<1>9. StoresUnderOwnKey'  BY <1>1 DEF StoresUnderOwnKey
<1>10. LiveUnderOwnKey'   BY <1>1, <1>4 DEF LiveUnderOwnKey
<1>11. TakenIsOver'       BY <1>1, <1>4 DEF TakenIsOver, Taken
<1>12. HandleNamesOne'    BY <1>1, <1>4 DEF HandleNamesOne
<1>13. BuiltInWasComplete'  BY <1>1 DEF BuiltInWasComplete
<1>14. ReleasedIsOver'      BY <1>1, <1>2, <1>4 DEF ReleasedIsOver
<1>15. FreedIsComplete'     BY <1>1 DEF FreedIsComplete
<1>   QED
  BY <1>5, <1>6, <1>7, <1>8, <1>9, <1>10, <1>11, <1>12, <1>13, <1>14, <1>15

\* It returns with the block in the table, wherever that is by then
\* (staging.c:116).
LEMMA CountKeepsOrder ==
  ASSUME Known, ArraysInOrder, NEW t \in Threads, CountBlock(t)
  PROVE  ArraysInOrder'
<1>1. /\ pc[t] = "stored" /\ pc'[t] = "idle" /\ op'[t] = None
      /\ \A u \in Threads \ {t} :
           pc'[u] = pc[u] /\ op'[u] = op[u] /\ slot'[u] = slot[u]
      /\ block' = block /\ env' = env /\ key' = key /\ blk' = blk
      /\ kind' = kind /\ phase' = phase /\ handle' = handle /\ todo' = todo
  BY DEF CountBlock, Settle, Goto, ResetLoop, implVars, Known, Types
<1>2. \A u \in Threads : \A h : Pending(u, h)' <=> Pending(u, h)
  BY <1>1 DEF Pending
<1> USE DEF ArraysInOrder
<1>3. \A o : Over(o)' <=> Over(o)  BY <1>1 DEF Over
<1>4. PlacedIsHeld'       BY <1>1 DEF PlacedIsHeld
<1>5. PlacedOnce'         BY <1>1 DEF PlacedOnce
<1>6. PlacedHasHandle'    BY <1>1 DEF PlacedHasHandle
<1>7. LocksHold'          BY <1>1 DEF LocksHold, Locking
<1>8. StoresUnderOwnKey'  BY <1>1 DEF StoresUnderOwnKey
<1>9. LiveUnderOwnKey'    BY <1>1, <1>3 DEF LiveUnderOwnKey
<1>10. TakenIsOver'       BY <1>1, <1>3 DEF TakenIsOver, Taken
<1>11. HandleNamesOne'    BY <1>1, <1>3 DEF HandleNamesOne
<1>12. BuiltInWasComplete'  BY <1>1 DEF BuiltInWasComplete
<1>13. ReleasedIsOver'      BY <1>1, <1>2, <1>3 DEF ReleasedIsOver
<1>14. FreedIsComplete'     BY <1>1 DEF FreedIsComplete
<1>   QED
  BY <1>4, <1>5, <1>6, <1>7, <1>8, <1>9, <1>10, <1>11, <1>12, <1>13, <1>14

\* The steps that write a key leave the blocks, and who has them, alone.
WritesKey(t, k) ==
  /\ slot[t] \in Slots
  /\ key'[slot[t]] = k /\ \A s \in Slots \ {slot[t]} : key'[s] = key[s]
  /\ \A u \in Threads \ {t} : pc'[u] = pc[u]
  /\ UNCHANGED <<env, blk, kind, phase, handle, block, op, todo, slot>>

\* What is not about keys stays as it is.
LEMMA WritingAKeyKeepsBlocks ==
  ASSUME Known, ArraysInOrder, NEW t \in Threads, NEW k, WritesKey(t, k),
         pc[t] # "stored", pc'[t] # "stored",
         pc'[t] \in Taken <=> pc[t] \in Taken
  PROVE  /\ PlacedIsHeld' /\ PlacedOnce' /\ PlacedHasHandle' /\ TakenIsOver'
         /\ HandleNamesOne' /\ BuiltInWasComplete' /\ ReleasedIsOver'
         /\ FreedIsComplete'
<1> USE DEF ArraysInOrder, WritesKey
<1>1. \A o : Over(o)' <=> Over(o)  BY DEF Over
<1>2. \A u \in Threads : \A h : Pending(u, h)' <=> Pending(u, h)
  BY DEF Pending
<1>3. \A u \in Threads : /\ pc'[u] = "stored" <=> pc[u] = "stored"
                         /\ pc'[u] \in Taken <=> pc[u] \in Taken
  OBVIOUS
<1>4. PlacedIsHeld'     BY <1>3 DEF PlacedIsHeld
<1>5. PlacedOnce'       BY <1>3 DEF PlacedOnce
<1>6. PlacedHasHandle'  BY DEF PlacedHasHandle
<1>7. TakenIsOver'      BY <1>1, <1>3 DEF TakenIsOver
<1>8. HandleNamesOne'   BY <1>1 DEF HandleNamesOne
<1>9. BuiltInWasComplete'  BY DEF BuiltInWasComplete
<1>10. ReleasedIsOver'     BY <1>1, <1>2 DEF ReleasedIsOver
<1>11. FreedIsComplete'    BY DEF FreedIsComplete
<1>   QED  BY <1>4, <1>5, <1>6, <1>7, <1>8, <1>9, <1>10, <1>11

\* A slot that is claimed was empty or a tombstone: a block that was left there
\* is of an operation that is over (staging.c:111).
LEMMA ClaimingASlotKeepsOrder ==
  ASSUME Known, ArraysInOrder, NEW t \in Threads, AttachTakes(t)
  PROVE  ArraysInOrder'
<1> USE DEF ArraysInOrder
<1>1. /\ WritesKey(t, handle[op[t]])
      /\ pc[t] = "cas" /\ pc'[t] = "store" /\ key[slot[t]] \in {Empty, Tomb}
  BY DEF AttachTakes, WritesKey, Goto, implVars, loopVars, Known, Types
<1>2. /\ PlacedIsHeld' /\ PlacedOnce' /\ PlacedHasHandle' /\ TakenIsOver'
      /\ HandleNamesOne' /\ BuiltInWasComplete' /\ ReleasedIsOver'
      /\ FreedIsComplete'
  BY <1>1, WritingAKeyKeepsBlocks DEF Taken
<1> USE DEF WritesKey
<1>3. LocksHold'
  <2>1. \A u \in Threads : pc[u] \in Locking => slot[u] # slot[t]
    BY <1>1, Places DEF LocksHold
  <2>   QED  BY <1>1, <2>1, Places DEF LocksHold, Locking
<1>4. StoresUnderOwnKey'
  <2>1. \A u \in Threads : pc[u] = "store" /\ slot[u] = slot[t] =>
          handle[op[u]] = BuiltIn
    BY <1>1, Places DEF StoresUnderOwnKey, Posting
  <2>   QED  BY <1>1, <2>1, Places DEF StoresUnderOwnKey
<1>5. LiveUnderOwnKey'
  <2>1. \A o : Over(o)' <=> Over(o)  BY <1>1 DEF Over
  <2>2. blk[slot[t]] # None => Over(blk[slot[t]])
    BY <1>1, Places DEF LiveUnderOwnKey, PlacedHasHandle
  <2>   QED  BY <1>1, <2>1, <2>2 DEF LiveUnderOwnKey
<1>   QED  BY <1>2, <1>3, <1>4, <1>5

\* A slot that a release locks has the block of a request that is over, and of
\* no posting call but one for the built-in handle (staging.c:271).
LEMMA LockKeepsOrder ==
  ASSUME Known, ArraysInOrder, NEW t \in Threads, Lock(t)
  PROVE  ArraysInOrder'
<1> USE DEF ArraysInOrder
<1>1. /\ WritesKey(t, Locked)
      /\ pc[t] = "lock" /\ pc'[t] = "take" /\ key[slot[t]] = Head(todo[t])
  BY DEF Lock, WritesKey, Goto, implVars, loopVars, Known, Types
<1>2. /\ PlacedIsHeld' /\ PlacedOnce' /\ PlacedHasHandle' /\ TakenIsOver'
      /\ HandleNamesOne' /\ BuiltInWasComplete' /\ ReleasedIsOver'
      /\ FreedIsComplete'
  BY <1>1, WritingAKeyKeepsBlocks DEF Taken
<1>3. key[slot[t]] \in Handles /\ Pending(t, key[slot[t]])
  BY <1>1, HeadIsPending DEF Known, Removing
<1> USE DEF WritesKey
<1>4. LocksHold'
  <2>1. \A u \in Threads : pc[u] \in Locking => slot[u] # slot[t]
    BY <1>3, Places DEF LocksHold
  <2>   QED  BY <1>1, <2>1, Places DEF LocksHold, Locking
<1>5. StoresUnderOwnKey'
  <2>1. \A u \in Threads : pc[u] = "store" /\ slot[u] = slot[t] =>
          handle[op[u]] = BuiltIn
    <3> SUFFICES ASSUME NEW u \in Threads, pc[u] = "store", slot[u] = slot[t],
                        handle[op[u]] = key[slot[t]]
                 PROVE  handle[op[u]] = BuiltIn
      BY DEF StoresUnderOwnKey
    <3>1. op[u] \in Ops /\ phase[op[u]] # "finished"  BY Places DEF Posting
    <3>   QED  BY <1>3, <3>1 DEF ReleasedIsOver, Over
  <2>   QED  BY <1>1, <2>1, Places DEF StoresUnderOwnKey
<1>6. LiveUnderOwnKey'
  <2>1. \A o : Over(o)' <=> Over(o)  BY <1>1 DEF Over
  <2>2. blk[slot[t]] # None => Over(blk[slot[t]])
    BY <1>3, Places DEF LiveUnderOwnKey, ReleasedIsOver
  <2>   QED  BY <1>1, <2>1, <2>2 DEF LiveUnderOwnKey
<1>   QED  BY <1>2, <1>4, <1>5, <1>6

\* The tombstone takes the place of the release's own lock (staging.c:278).
LEMMA UnlockKeepsOrder ==
  ASSUME Known, ArraysInOrder, NEW t \in Threads, Unlock(t)
  PROVE  ArraysInOrder'
<1> USE DEF ArraysInOrder
<1>1. WritesKey(t, Tomb) /\ pc[t] = "unlock" /\ pc'[t] = "free"
  BY DEF Unlock, WritesKey, Goto, implVars, loopVars, Known, Types
<1>2. /\ PlacedIsHeld' /\ PlacedOnce' /\ PlacedHasHandle' /\ TakenIsOver'
      /\ HandleNamesOne' /\ BuiltInWasComplete' /\ ReleasedIsOver'
      /\ FreedIsComplete'
  BY <1>1, WritingAKeyKeepsBlocks DEF Taken
<1>3. key[slot[t]] = Locked  BY <1>1 DEF LocksHold, Locking
<1> USE DEF WritesKey
<1>4. LocksHold'
  <2>1. \A u \in Threads \ {t} : pc[u] \in Locking => slot[u] # slot[t]
    BY <1>1 DEF LocksHold, Locking
  <2>   QED  BY <1>1, <2>1, Places DEF LocksHold, Locking
<1>5. StoresUnderOwnKey'
  <2>1. \A u \in Threads : pc[u] = "store" /\ slot[u] = slot[t] =>
          handle[op[u]] = BuiltIn
    BY <1>3, Places DEF StoresUnderOwnKey, Posting
  <2>   QED  BY <1>1, <2>1, Places DEF StoresUnderOwnKey
<1>6. LiveUnderOwnKey'
  <2>1. \A o : Over(o)' <=> Over(o)  BY <1>1 DEF Over
  <2>2. blk[slot[t]] # None => Over(blk[slot[t]])
    BY <1>3, Places DEF LiveUnderOwnKey, PlacedHasHandle
  <2>   QED  BY <1>1, <2>1, <2>2 DEF LiveUnderOwnKey
<1>   QED  BY <1>2, <1>4, <1>5, <1>6

\* The store puts the block where nothing of it was, under its own key or the
\* built-in one (staging.c:115).
LEMMA StoreKeepsOrder ==
  ASSUME Known, ArraysInOrder, NEW t \in Threads, StoreBlock(t)
  PROVE  ArraysInOrder'
<1>1. /\ pc[t] = "store" /\ pc'[t] = "stored" /\ op[t] \in Ops
      /\ \A u \in Threads \ {t} : pc'[u] = pc[u]
      /\ slot[t] \in Slots /\ blk'[slot[t]] = op[t]
      /\ \A s \in Slots \ {slot[t]} : blk'[s] = blk[s]
      /\ env' = env /\ key' = key /\ kind' = kind /\ phase' = phase
      /\ handle' = handle /\ block' = block /\ op' = op /\ todo' = todo /\ slot' = slot
  BY Places DEF StoreBlock, Goto, implVars, loopVars, Known, Types, Posting
<1>2. \A u \in Threads : \A h : Pending(u, h)' <=> Pending(u, h)
  BY <1>1 DEF Pending
<1> USE DEF ArraysInOrder
<1>3. /\ \A s \in Slots : blk[s] # op[t]
      /\ \A u \in Threads \ {t} : op[u] # op[t]
      /\ block[op[t]] = "held" /\ handle[op[t]] # None
  BY <1>1, Places DEF PlacedOnce, PlacedIsHeld, PlacedHasHandle, Taken
<1>4. \A o : Over(o)' <=> Over(o)  BY <1>1 DEF Over
<1>5. PlacedIsHeld'       BY <1>1, <1>3 DEF PlacedIsHeld
<1>6. PlacedOnce'
  <2>1. \A s, r \in Slots : blk'[s] # None /\ blk'[s] = blk'[r] => s = r
    BY <1>1, <1>3 DEF PlacedOnce
  <2>2. \A u, v \in Threads : op[u] # None /\ op[u] = op[v] =>
          \/ u = v
          \/ pc'[u] = "stored" /\ pc'[v] \in Taken
          \/ pc'[v] = "stored" /\ pc'[u] \in Taken
    BY <1>1, <1>3 DEF PlacedOnce
  <2>3. \A u \in Threads, s \in Slots : op[u] # None /\ blk'[s] = op[u] => pc'[u] = "stored"
    BY <1>1, <1>3 DEF PlacedOnce
  <2>   QED  BY <1>1, <2>1, <2>2, <2>3 DEF PlacedOnce
<1>7. PlacedHasHandle'    BY <1>1, <1>3 DEF PlacedHasHandle
<1>8. LocksHold'          BY <1>1 DEF LocksHold, Locking
<1>9. StoresUnderOwnKey'  BY <1>1 DEF StoresUnderOwnKey
<1>10. LiveUnderOwnKey'
  <2>1. Over(op[t]) \/ key[slot[t]] = handle[op[t]]
    BY <1>1 DEF StoresUnderOwnKey, Over
  <2>   QED  BY <1>1, <1>4, <2>1 DEF LiveUnderOwnKey
<1>11. TakenIsOver'         BY <1>1, <1>4 DEF TakenIsOver, Taken
<1>12. HandleNamesOne'      BY <1>1, <1>4 DEF HandleNamesOne
<1>13. BuiltInWasComplete'  BY <1>1 DEF BuiltInWasComplete
<1>14. ReleasedIsOver'      BY <1>1, <1>2, <1>4 DEF ReleasedIsOver
<1>15. FreedIsComplete'     BY <1>1 DEF FreedIsComplete
<1>   QED
  BY <1>5, <1>6, <1>7, <1>8, <1>9, <1>10, <1>11, <1>12, <1>13, <1>14, <1>15

\* What is taken from a slot, if anything, is of a request that is over
\* (staging.c:276).
LEMMA TakeKeepsOrder ==
  ASSUME Known, ArraysInOrder, NEW t \in Threads, TakeBlock(t)
  PROVE  ArraysInOrder'
<1>1. /\ pc[t] = "take" /\ pc'[t] = "uncount" /\ op[t] = None
      /\ slot[t] \in Slots /\ op'[t] = blk[slot[t]] /\ blk'[slot[t]] = None
      /\ \A u \in Threads \ {t} : pc'[u] = pc[u] /\ op'[u] = op[u]
      /\ \A s \in Slots \ {slot[t]} : blk'[s] = blk[s]
      /\ env' = env /\ key' = key /\ kind' = kind /\ phase' = phase
      /\ handle' = handle /\ block' = block /\ todo' = todo /\ slot' = slot
  <2>1. pc[t] = "take" /\ op[t] = None /\ slot[t] \in Slots
    BY Places DEF TakeBlock, Posting, Taken
  <2>2. /\ op'[t] = blk[slot[t]] /\ \A u \in Threads \ {t} : op'[u] = op[u]
        /\ blk'[slot[t]] = None /\ \A s \in Slots \ {slot[t]} : blk'[s] = blk[s]
    BY <2>1 DEF TakeBlock, Known, Types
  <2>3. pc'[t] = "uncount" /\ \A u \in Threads \ {t} : pc'[u] = pc[u]
    BY DEF TakeBlock, Goto, Known, Types
  <2>4. /\ env' = env /\ key' = key /\ kind' = kind /\ phase' = phase
        /\ handle' = handle /\ block' = block /\ todo' = todo /\ slot' = slot
    BY DEF TakeBlock, implVars, loopVars
  <2>   QED  BY <2>1, <2>2, <2>3, <2>4
<1>2. \A u \in Threads : \A h : Pending(u, h)' <=> Pending(u, h)
  BY <1>1 DEF Pending
<1> USE DEF ArraysInOrder
<1>3. \A o : Over(o)' <=> Over(o)  BY <1>1 DEF Over
<1>4. blk[slot[t]] # None => Over(blk[slot[t]])
  <2>1. key[slot[t]] = Locked  BY <1>1 DEF LocksHold, Locking
  <2>   QED  BY <1>1, <2>1, Places DEF LiveUnderOwnKey, PlacedHasHandle
<1>5. PlacedIsHeld'  BY <1>1 DEF PlacedIsHeld
<1>6. PlacedOnce'
  <2>1. \A s, r \in Slots : blk'[s] # None /\ blk'[s] = blk'[r] => s = r
    BY <1>1 DEF PlacedOnce
  <2>2. \A u, v \in Threads : op'[u] # None /\ op'[u] = op'[v] =>
          \/ u = v
          \/ pc'[u] = "stored" /\ pc'[v] \in Taken
          \/ pc'[v] = "stored" /\ pc'[u] \in Taken
    BY <1>1 DEF PlacedOnce, Taken
  <2>3. \A u \in Threads, s \in Slots :
          op'[u] # None /\ blk'[s] = op'[u] => pc'[u] = "stored"
    BY <1>1 DEF PlacedOnce
  <2>   QED  BY <2>1, <2>2, <2>3 DEF PlacedOnce
<1>7. PlacedHasHandle'    BY <1>1 DEF PlacedHasHandle
<1>8. LocksHold'          BY <1>1 DEF LocksHold, Locking
<1>9. StoresUnderOwnKey'  BY <1>1 DEF StoresUnderOwnKey
<1>10. LiveUnderOwnKey'   BY <1>1, <1>3 DEF LiveUnderOwnKey
<1>11. TakenIsOver'       BY <1>1, <1>3, <1>4 DEF TakenIsOver, Taken
<1>12. HandleNamesOne'      BY <1>1, <1>3 DEF HandleNamesOne
<1>13. BuiltInWasComplete'  BY <1>1 DEF BuiltInWasComplete
<1>14. ReleasedIsOver'      BY <1>1, <1>2, <1>3 DEF ReleasedIsOver
<1>15. FreedIsComplete'     BY <1>1 DEF FreedIsComplete
<1>   QED
  BY <1>5, <1>6, <1>7, <1>8, <1>9, <1>10, <1>11, <1>12, <1>13, <1>14, <1>15

\* The block that is freed was held, by this release alone, and nobody reads it
\* (staging.c:279).
LEMMA FreeBlockKeepsOrder ==
  ASSUME Known, ArraysInOrder, NEW t \in Threads, FreeBlock(t)
  PROVE  ArraysInOrder'
<1>1. /\ pc[t] = "free" /\ NextRelease(t)
      /\ op'[t] = None /\ \A u \in Threads \ {t} : op'[u] = op[u]
      /\ env' = env /\ key' = key /\ blk' = blk /\ kind' = kind /\ phase' = phase
  BY DEF FreeBlock, tableVars, Known, Types
<1>2. Advanced(t) /\ LeftBehind(t)
  <2>1. todo[t] # <<>>  BY <1>1 DEF Known, InHand, Removing
  <2>   QED  BY <1>1, <2>1, Advance DEF Known
<1>3. /\ pc'[t] \in {"idle", "release"}
      /\ \A u \in Threads \ {t} : pc'[u] = pc[u] /\ slot'[u] = slot[u]
      /\ \A u \in Threads : \A h : Pending(u, h)' => Pending(u, h)
  BY <1>2 DEF Advanced, LeftBehind
<1> USE DEF ArraysInOrder
<1>4. op[t] # None => block[op[t]] = "held" /\ Over(op[t])
  BY <1>1 DEF PlacedIsHeld, TakenIsOver, Taken
<1>5. /\ \A o \in Ops : o # op[t] => block'[o] = block[o] /\ handle'[o] = handle[o]
      /\ \A o \in Ops : o = op[t] =>
           IF phase[o] = "finished"
           THEN block'[o] = "none" /\ handle'[o] = None
           ELSE block'[o] = "freed" /\ handle'[o] = handle[o]
  <2>1. None \notin Ops  BY Places
  <2>2. ASSUME NEW o \in Ops  PROVE block'[o] = (IF o # op[t] THEN block[o]
                          ELSE IF block[o] # "held" THEN "freed twice"
                          ELSE IF phase[o] = "finished" THEN "none" ELSE "freed")
    BY <2>1 DEF FreeBlock
  <2>3. ASSUME NEW o \in Ops
        PROVE  handle'[o] = (IF o = op[t] /\ phase[o] = "finished" THEN None
                             ELSE handle[o])
    BY <2>1 DEF FreeBlock
  <2>4. \A o \in Ops : o = op[t] => block[o] = "held"  BY <1>4, <2>1
  <2>   QED  BY <2>2, <2>3, <2>4
<1>6. \A o \in Ops : Over(o)' <=> Over(o)  BY <1>1, <1>5 DEF Over
<1>7. op[t] # None => /\ \A s \in Slots : blk[s] # op[t]
                      /\ \A u \in Threads \ {t} : op[u] = op[t] => pc[u] = "stored"
  BY <1>1, Places DEF PlacedOnce, Taken
<1>8. PlacedIsHeld'
  <2>1. \A s \in Slots : blk[s] # None => block'[blk[s]] = "held"
    BY <1>5, <1>7, Places DEF PlacedIsHeld
  <2>2. \A u \in Threads : op'[u] # None /\ pc'[u] # "stored" => block'[op'[u]] = "held"
    BY <1>1, <1>3, <1>5, <1>7, Places DEF PlacedIsHeld
  <2>   QED  BY <1>1, <2>1, <2>2 DEF PlacedIsHeld
<1>9. PlacedOnce'  BY <1>1, <1>3 DEF PlacedOnce
<1>10. PlacedHasHandle'
  <2>1. \A s \in Slots : blk[s] # None => handle'[blk[s]] # None
    BY <1>5, <1>7, Places DEF PlacedHasHandle
  <2>2. \A u \in Threads \ {t} : op[u] # None /\ op[u] = op[t] => phase[op[u]] # "finished"
    BY <1>7, Places DEF Posting
  <2>3. \A u \in Threads : op'[u] # None => handle'[op'[u]] # None
    BY <1>1, <1>5, <2>2, Places DEF PlacedHasHandle
  <2>   QED  BY <1>1, <2>1, <2>3 DEF PlacedHasHandle
<1>11. LocksHold'  BY <1>1, <1>3 DEF LocksHold, Locking
<1>12. StoresUnderOwnKey'
  <2>1. \A u \in Threads : pc[u] = "store" => op[u] \in Ops /\ handle'[op[u]] = handle[op[u]]
    BY <1>5, Places DEF Posting
  <2>   QED  BY <1>1, <1>3, <2>1 DEF StoresUnderOwnKey
<1>13. LiveUnderOwnKey'
  BY <1>1, <1>5, <1>6, <1>7, Places DEF LiveUnderOwnKey
<1>14. TakenIsOver'
  BY <1>1, <1>3, <1>6, Places DEF TakenIsOver, Taken
<1>15. HandleNamesOne'
  <2>1. \A o \in Ops : ~Over(o) => handle'[o] = handle[o]  BY <1>4, <1>5, Places
  <2>   QED  BY <1>6, <2>1 DEF HandleNamesOne
<1>16. BuiltInWasComplete'  BY <1>1, <1>5, Places DEF BuiltInWasComplete
<1>17. ReleasedIsOver'
  <2>1. \A o \in Ops : ~Over(o) => handle'[o] = handle[o]  BY <1>4, <1>5, Places
  <2>   QED  BY <1>3, <1>6, <2>1 DEF ReleasedIsOver
<1>18. FreedIsComplete'
  <2>1. \A o \in Ops : o = op[t] /\ phase[o] # "finished" =>
          phase[o] = "complete" /\ kind[o] # "persistent"
    BY <1>4, Places DEF Over, BuiltInWasComplete
  <2>   QED  BY <1>1, <1>5, <2>1 DEF FreedIsComplete
<1>   QED
  BY <1>8, <1>9, <1>10, <1>11, <1>12, <1>13, <1>14, <1>15, <1>16, <1>17, <1>18

\* An operation in flight has neither the built-in handle nor freed arrays.
LEMMA FinishKeepsOrder ==
  ASSUME Known, ArraysInOrder, NEW o \in Ops, Finish(o)
  PROVE  ArraysInOrder'
<1>1. /\ phase[o] = "active" /\ phase'[o] = "complete"
      /\ \A p \in Ops \ {o} : phase'[p] = phase[p]
      /\ env' = env /\ key' = key /\ blk' = blk /\ kind' = kind
      /\ handle' = handle /\ block' = block /\ pc' = pc /\ op' = op
      /\ todo' = todo /\ slot' = slot
  BY DEF Finish, tableVars, loopVars, Known, Types
<1>2. \A u \in Threads : \A h : Pending(u, h)' <=> Pending(u, h)
  BY <1>1 DEF Pending
<1> USE DEF ArraysInOrder
<1>3. \A p \in Ops : Over(p)' <=> Over(p)  BY <1>1 DEF Over
<1>4. PlacedIsHeld'         BY <1>1 DEF PlacedIsHeld
<1>5. PlacedOnce'           BY <1>1 DEF PlacedOnce
<1>6. PlacedHasHandle'      BY <1>1 DEF PlacedHasHandle
<1>7. LocksHold'            BY <1>1 DEF LocksHold
<1>8. StoresUnderOwnKey'    BY <1>1 DEF StoresUnderOwnKey
<1>9. LiveUnderOwnKey'      BY <1>1, <1>3, Places DEF LiveUnderOwnKey
<1>10. TakenIsOver'         BY <1>1, <1>3, Places DEF TakenIsOver
<1>11. HandleNamesOne'      BY <1>1, <1>3 DEF HandleNamesOne
<1>12. BuiltInWasComplete'  BY <1>1 DEF BuiltInWasComplete
<1>13. ReleasedIsOver'      BY <1>1, <1>2, <1>3 DEF ReleasedIsOver
<1>14. FreedIsComplete'     BY <1>1 DEF FreedIsComplete
<1>   QED
  BY <1>4, <1>5, <1>6, <1>7, <1>8, <1>9, <1>10, <1>11, <1>12, <1>13, <1>14

\* Nor has a persistent request that is started.
LEMMA StartKeepsOrder ==
  ASSUME Known, ArraysInOrder, NEW t \in Threads, Start(t)
  PROVE  ArraysInOrder'
<1>1. PICK o \in Ops : phase[o] = "inactive" /\ phase' = [phase EXCEPT ![o] = "active"]
  BY DEF Start
<1>2. /\ phase'[o] = "active" /\ \A p \in Ops \ {o} : phase'[p] = phase[p]
      /\ env' = env /\ key' = key /\ blk' = blk /\ kind' = kind
      /\ handle' = handle /\ block' = block /\ pc' = pc /\ op' = op
      /\ todo' = todo /\ slot' = slot
  BY <1>1 DEF Start, tableVars, loopVars, Known, Types
<1>3. \A u \in Threads : \A h : Pending(u, h)' <=> Pending(u, h)
  BY <1>2 DEF Pending
<1> USE DEF ArraysInOrder
<1>4. \A p \in Ops : Over(p)' <=> Over(p)  BY <1>1, <1>2 DEF Over
<1>5. PlacedIsHeld'         BY <1>2 DEF PlacedIsHeld
<1>6. PlacedOnce'           BY <1>2 DEF PlacedOnce
<1>7. PlacedHasHandle'      BY <1>2 DEF PlacedHasHandle
<1>8. LocksHold'            BY <1>2 DEF LocksHold
<1>9. StoresUnderOwnKey'    BY <1>2 DEF StoresUnderOwnKey
<1>10. LiveUnderOwnKey'     BY <1>2, <1>4, Places DEF LiveUnderOwnKey
<1>11. TakenIsOver'         BY <1>2, <1>4, Places DEF TakenIsOver
<1>12. HandleNamesOne'      BY <1>2, <1>4 DEF HandleNamesOne
<1>13. BuiltInWasComplete'  BY <1>1, <1>2 DEF BuiltInWasComplete
<1>14. ReleasedIsOver'      BY <1>2, <1>3, <1>4 DEF ReleasedIsOver
<1>15. FreedIsComplete'     BY <1>1, <1>2 DEF FreedIsComplete
<1>   QED
  BY <1>5, <1>6, <1>7, <1>8, <1>9, <1>10, <1>11, <1>12, <1>13, <1>14, <1>15

\* Nothing is left of a spare operation, in the table or in hand.
LEMMA SpareIsNowhere ==
  ASSUME Known, ArraysInOrder, NEW o \in Spare
  PROVE  /\ o \in Ops /\ phase[o] = "finished" /\ block[o] # "freed"
         /\ \A s \in Slots : blk[s] # o
         /\ \A u \in Threads : op[u] # o
  BY Places DEF Spare, ArraysInOrder, PlacedHasHandle, FreedIsComplete

\* A handle for a new request names no other, and no call releases it.
LEMMA NewHandleIsFree ==
  ASSUME Known, HandlesRest, NEW t \in Threads, MayCall(t), NEW h \in FreeHandles
  PROVE  /\ h \in Handles \ {BuiltIn}
         /\ \A o \in Ops : phase[o] # "finished" => handle[o] # h
         /\ \A u \in Threads : ~Pending(u, h)
<1>1. env \in {"serialized", "deferred", "unasked"}
  BY EnvironmentsAssumption DEF HandlesRest, Known, Types
<1>2. \A u \in Threads : ~Pending(u, h)
  <2>1. CASE env = "serialized"
    <3>1. \A u \in Threads : todo[u] = <<>>
      BY <2>1 DEF MayCall, AllIdle, Known, InHand
    <3>2. Len(<<>>) = 0  BY EmptySeq
    <3>   QED  BY <3>1, <3>2 DEF Pending
  <2>2. CASE env # "serialized"
    BY <1>1, <2>2 DEF FreeHandles, Releasing, Pending
  <2>   QED  BY <2>1, <2>2
<1>   QED  BY <1>2 DEF FreeHandles

\* A request begins: with a free handle, or complete with the built-in one.
BeginsFresh(o, k, ph, h) ==
  /\ k \in {"plain", "nonblocking", "persistent"}
  /\ ph \in {"active", "inactive", "complete"}
  /\ h \in FreeHandles \/ (h = BuiltIn /\ ph = "complete" /\ k # "persistent")
  /\ Begin(o, k, ph, h)

\* It disturbs no other, whether its arrays are staged or it has none.
LEMMA BeginningKeepsOrder ==
  ASSUME Known, ArraysInOrder, HandlesRest, NEW t \in Threads, MayCall(t),
         NEW o \in Spare, NEW k, NEW ph, NEW h, BeginsFresh(o, k, ph, h),
         UNCHANGED <<env, tableVars, todo, loopVars>>,
         \A p \in Ops \ {o} : block'[p] = block[p],
         \A u \in Threads \ {t} : op'[u] = op[u] /\ pc'[u] = pc[u],
         \/ op'[t] = op[t] /\ pc'[t] = pc[t] /\ block'[o] = block[o]
         \/ op'[t] = o /\ pc'[t] = "keep" /\ block'[o] = "held"
  PROVE  ArraysInOrder'
<1>1. /\ o \in Ops /\ phase[o] = "finished" /\ block[o] # "freed"
      /\ \A s \in Slots : blk[s] # o
      /\ \A u \in Threads : op[u] # o
  BY SpareIsNowhere
<1>2. pc[t] = "idle" /\ op[t] = None
  BY Places DEF MayCall, Posting, Taken
<1>3. /\ kind'[o] = k /\ phase'[o] = ph /\ handle'[o] = h
      /\ \A p \in Ops \ {o} :
           kind'[p] = kind[p] /\ phase'[p] = phase[p] /\ handle'[p] = handle[p]
      /\ env' = env /\ key' = key /\ blk' = blk /\ todo' = todo /\ slot' = slot
  BY <1>1 DEF BeginsFresh, Begin, tableVars, loopVars, Known, Types
<1>4. h # BuiltIn => /\ h \in Handles
                     /\ \A p \in Ops : phase[p] # "finished" => handle[p] # h
                     /\ \A u \in Threads : ~Pending(u, h)
  BY NewHandleIsFree DEF BeginsFresh
<1>5. h \in Handles  BY <1>4, Places
<1>6. /\ \A s \in Slots : blk[s] # None => blk[s] \in Ops \ {o}
      /\ \A u \in Threads : op[u] # None => op[u] \in Ops \ {o} /\ u # t
  BY <1>1, <1>2, Places
<1>7. \A u \in Threads : \A g : Pending(u, g)' <=> Pending(u, g)
  BY <1>3 DEF Pending
<1>8. /\ \A p \in Ops \ {o} : Over(p)' <=> Over(p)
      /\ Over(o)' <=> h = BuiltIn
  BY <1>3 DEF Over, BeginsFresh
<1> USE DEF ArraysInOrder
<1>9. PlacedIsHeld'
  BY <1>2, <1>3, <1>6 DEF PlacedIsHeld
<1>10. PlacedOnce'
  <2>1. \A u \in Threads \ {t} : op'[u] # op'[t] \/ op'[u] = None
    BY <1>2, <1>6
  <2>2. \A s \in Slots : op'[t] # None => blk[s] # op'[t]  BY <1>1, <1>2
  <2>   QED  BY <1>3, <2>1, <2>2 DEF PlacedOnce
<1>11. PlacedHasHandle'
  BY <1>2, <1>3, <1>5, <1>6, Places DEF PlacedHasHandle
<1>12. LocksHold'  BY <1>2, <1>3 DEF LocksHold, Locking
<1>13. StoresUnderOwnKey'
  <2>1. \A u \in Threads : pc'[u] = "store" =>
          pc[u] = "store" /\ op'[u] = op[u] /\ op[u] \in Ops \ {o}
    BY <1>1, <1>2, Places DEF Posting
  <2>   QED  BY <1>3, <2>1 DEF StoresUnderOwnKey
<1>14. LiveUnderOwnKey'  BY <1>3, <1>6, <1>8 DEF LiveUnderOwnKey
<1>15. TakenIsOver'
  BY <1>2, <1>6, <1>8 DEF TakenIsOver, Taken
<1>16. HandleNamesOne'
  <2>1. \A p \in Ops \ {o} : ~Over(p) /\ h # BuiltIn => handle[p] # h
    BY <1>4 DEF Over
  <2>   QED  BY <1>3, <1>8, <2>1 DEF HandleNamesOne
<1>17. BuiltInWasComplete'
  <2>1. h = BuiltIn => ph = "complete" /\ k # "persistent"
    BY DEF BeginsFresh, FreeHandles
  <2>   QED  BY <1>3, <2>1 DEF BuiltInWasComplete
<1>18. ReleasedIsOver'  BY <1>3, <1>4, <1>7, <1>8 DEF ReleasedIsOver
<1>19. FreedIsComplete'  BY <1>1, <1>3 DEF FreedIsComplete
<1>   QED
  BY <1>9, <1>10, <1>11, <1>12, <1>13, <1>14, <1>15, <1>16, <1>17, <1>18, <1>19

\* The three calls that post a request.
LEMMA PostingKeepsOrder ==
  ASSUME Known, ArraysInOrder, HandlesRest, NEW t \in Threads,
         PostPlain(t) \/ PostNonblocking(t) \/ PostPersistent(t)
  PROVE  ArraysInOrder'
<1>1. ASSUME NEW a \in Answers
      PROVE  \E ph, h : /\ ph = a[1] /\ h = a[2]
                        /\ \/ ph = "active" /\ h \in FreeHandles
                           \/ ph = "complete" /\ h = BuiltIn
  BY <1>1 DEF Answers
<1>2. ASSUME NEW o \in Spare, NEW k \in {"nonblocking", "persistent"},
             NEW ph \in {"active", "inactive", "complete"}, NEW h,
             \/ h \in FreeHandles
             \/ h = BuiltIn /\ ph = "complete" /\ k = "nonblocking",
             MayCall(t), PostStaged(t, o, k, ph, h)
      PROVE  ArraysInOrder'
  <2>1. o \in Ops  BY DEF Spare
  <2>2. BeginsFresh(o, k, ph, h)  BY <1>2 DEF PostStaged, BeginsFresh
  <2>3. /\ UNCHANGED <<env, tableVars, todo, loopVars>>
        /\ \A p \in Ops \ {o} : block'[p] = block[p]
        /\ \A u \in Threads \ {t} : op'[u] = op[u] /\ pc'[u] = pc[u]
        /\ op'[t] = o /\ pc'[t] = "keep" /\ block'[o] = "held"
    BY <1>2, <2>1 DEF PostStaged, Goto, Known, Types
  <2>   QED  BY <1>2, <2>2, <2>3, BeginningKeepsOrder
<1>3. CASE PostPlain(t)
  <2>1. PICK o \in Spare, a \in Answers : Begin(o, "plain", a[1], a[2])
    BY <1>3 DEF PostPlain
  <2>2. PICK ph, h : /\ ph = a[1] /\ h = a[2]
                     /\ \/ ph = "active" /\ h \in FreeHandles
                        \/ ph = "complete" /\ h = BuiltIn
    BY <1>1
  <2>3. BeginsFresh(o, "plain", ph, h)  BY <2>1, <2>2 DEF BeginsFresh
  <2>4. /\ MayCall(t) /\ UNCHANGED <<env, tableVars, todo, loopVars>>
        /\ block' = block /\ op' = op /\ pc' = pc
    BY <1>3 DEF PostPlain
  <2>   QED  BY <2>3, <2>4, BeginningKeepsOrder
<1>4. CASE PostNonblocking(t)
  <2>1. PICK o \in Spare, a \in Answers : PostStaged(t, o, "nonblocking", a[1], a[2])
    BY <1>4 DEF PostNonblocking
  <2>2. PICK ph, h : /\ ph = a[1] /\ h = a[2]
                     /\ \/ ph = "active" /\ h \in FreeHandles
                        \/ ph = "complete" /\ h = BuiltIn
    BY <1>1
  <2>3. PostStaged(t, o, "nonblocking", ph, h)  BY <2>1, <2>2
  <2>   QED  BY <1>2, <1>4, <2>2, <2>3 DEF PostNonblocking
<1>5. CASE PostPersistent(t)
  BY <1>2, <1>5 DEF PostPersistent
<1>   QED  BY <1>3, <1>4, <1>5

\* The calls that null requests list exactly the handles of requests that are
\* over from then on.
LEMMA EndingKeepsOrder ==
  ASSUME Known, ArraysInOrder, NEW t \in Threads, Complete(t) \/ Free(t)
  PROVE  ArraysInOrder'
<1>0. PICK S \in SUBSET Ops : \E q :
        Nulls(S) /\ Lists(S, q) /\ todo' = [todo EXCEPT ![t] = q]
  BY CompleteNulls, FreeNulls DEF Known
<1>1. PICK q :
        Nulls(S) /\ Lists(S, q) /\ todo' = [todo EXCEPT ![t] = q]
  BY <1>0
<1>2. /\ pc[t] = "idle" /\ pc'[t] = "any" /\ todo'[t] = q
      /\ \A u \in Threads \ {t} : pc'[u] = pc[u] /\ todo'[u] = todo[u]
      /\ env' = env /\ key' = key /\ blk' = blk /\ op' = op /\ slot' = slot
  <2>1. /\ pc[t] = "idle" /\ pc' = [pc EXCEPT ![t] = "any"]
        /\ UNCHANGED <<env, tableVars, op, loopVars>>
    BY DEF Complete, Free, MayCall, Goto
  <2>   QED  BY <1>1, <2>1 DEF Known, Types, tableVars, loopVars
<1>3. \A o \in Ops :
        /\ o \in S => phase[o] # "finished" /\ phase'[o] = "finished"
        /\ o \notin S => \/ phase'[o] = phase[o]
                         \/ /\ phase[o] = "complete" /\ kind[o] = "persistent"
                            /\ phase'[o] = "inactive"
        /\ kind'[o] = IF o \in S THEN "plain" ELSE kind[o]
        /\ handle'[o] = IF o \in S /\ block[o] # "held" THEN None ELSE handle[o]
        /\ block'[o] = IF o \in S /\ block[o] # "held" THEN "none" ELSE block[o]
  BY <1>1 DEF Nulls, End
<1>4. \A u \in Threads : op[u] \in S => pc[u] = "free"
  BY <1>1 DEF Nulls, Posted
<1> USE DEF ArraysInOrder
<1>5. /\ \A o \in Ops : Over(o) => Over(o)'
      /\ \A o \in S : Over(o)'
  BY <1>3, Places DEF Over
<1>6. /\ \A s \in Slots : blk[s] # None =>
           handle'[blk[s]] = handle[blk[s]] /\ block'[blk[s]] = block[blk[s]]
      /\ \A u \in Threads : op[u] # None =>
           handle'[op[u]] = handle[op[u]] /\ block'[op[u]] = block[op[u]]
  BY <1>3, <1>4, Places DEF PlacedIsHeld
<1>7. PlacedIsHeld'       BY <1>2, <1>6, Places DEF PlacedIsHeld, Taken
<1>8. PlacedOnce'
  <2>1. \A u \in Threads : /\ pc[u] = "stored" => pc'[u] = "stored"
                           /\ pc[u] \in Taken => pc'[u] \in Taken
    BY <1>2 DEF Taken
  <2>   QED  BY <1>2, <2>1 DEF PlacedOnce
<1>9. PlacedHasHandle'    BY <1>2, <1>6 DEF PlacedHasHandle
<1>10. LocksHold'         BY <1>2 DEF LocksHold, Locking
<1>11. StoresUnderOwnKey'
  <2>1. \A u \in Threads : pc'[u] = "store" => pc[u] = "store" /\ op[u] # None
    BY <1>2, Places DEF Posting
  <2>   QED  BY <1>2, <1>6, <2>1 DEF StoresUnderOwnKey
<1>12. LiveUnderOwnKey'   BY <1>2, <1>5, <1>6, Places DEF LiveUnderOwnKey
<1>13. TakenIsOver'       BY <1>2, <1>5, Places DEF TakenIsOver, Taken
<1>14. \A o \in Ops : ~Over(o)' => ~Over(o) /\ o \notin S /\ handle'[o] = handle[o]
  BY <1>3, <1>5
<1>15. HandleNamesOne'      BY <1>14 DEF HandleNamesOne
<1>16. BuiltInWasComplete'  BY <1>3, Places DEF BuiltInWasComplete
<1>17. ReleasedIsOver'
  <2> SUFFICES ASSUME NEW u \in Threads, NEW o \in Ops, Pending(u, handle[o])',
                      ~Over(o)'
               PROVE  FALSE
    BY DEF ReleasedIsOver
  <2>1. ~Over(o) /\ o \notin S /\ handle'[o] = handle[o]  BY <1>14
  <2>2. CASE u = t
    <3>1. PICK i \in 1 .. 2 : i <= Len(q) /\ q[i] = handle[o]
      BY <1>2, <2>1, <2>2 DEF Pending
    <3>2. PICK p \in S : handle[p] = handle[o]  BY <1>1, <3>1 DEF Lists
    <3>3. ~Over(p)  BY <1>3, <2>1, <3>2 DEF Over
    <3>   QED  BY <2>1, <3>2, <3>3 DEF HandleNamesOne
  <2>3. CASE u # t
    <3>1. Pending(u, handle[o])  BY <1>2, <2>1, <2>3 DEF Pending
    <3>   QED  BY <2>1, <3>1 DEF ReleasedIsOver
  <2>   QED  BY <2>2, <2>3
<1>18. FreedIsComplete'     BY <1>3 DEF FreedIsComplete
<1>   QED
  BY <1>7, <1>8, <1>9, <1>10, <1>11, <1>12, <1>13, <1>15, <1>16, <1>17, <1>18

\* Every step keeps the arrays in order.
LEMMA StepKeepsOrder ==
  ASSUME Known, ArraysInOrder, HandlesRest, [Next]_vars
  PROVE  ArraysInOrder'
<1>1. CASE UNCHANGED vars
  <2>1. Quiet
    BY <1>1 DEF vars, tableVars, implVars, loopVars, Quiet, Pending
  <2>   QED  BY <2>1, QuietKeepsOrder
<1>2. ASSUME NEW o \in Ops, Finish(o)  PROVE ArraysInOrder'
  BY <1>2, FinishKeepsOrder
<1>3. ASSUME NEW t \in Threads, Step(t)  PROVE ArraysInOrder'
  BY <1>3, QuietKeepsOrder, ProbingIsQuiet, GoingOnIsQuiet, SettleKeepsOrder,
     CountKeepsOrder, ClaimingASlotKeepsOrder, StoreKeepsOrder, LockKeepsOrder,
     TakeKeepsOrder, UnlockKeepsOrder, FreeBlockKeepsOrder, StartKeepsOrder,
     PostingKeepsOrder, EndingKeepsOrder
  DEF Step
<1>   QED  BY <1>1, <1>2, <1>3 DEF Next

\* ArraysInOrder is inductive beside what Known says, which StagedInv contains.
LEMMA ArraysStayInOrder == Spec => [](HandlesRest => ArraysInOrder)
<1>1. Init => ArraysInOrder
  <2> SUFFICES ASSUME Init PROVE ArraysInOrder  OBVIOUS
  <2>1. /\ \A t \in Threads : pc[t] = "idle" /\ op[t] = None /\ todo[t] = <<>>
        /\ \A s \in Slots : blk[s] = None
        /\ \A o \in Ops : /\ phase[o] = "finished" /\ handle[o] = None
                          /\ block[o] = "none" /\ kind[o] = "plain"
    BY DEF Init
  <2>2. \A o \in Ops : Over(o)  BY <2>1 DEF Over
  <2>   QED
    BY <2>1, <2>2
    DEF ArraysInOrder, PlacedIsHeld, PlacedOnce, PlacedHasHandle, LocksHold,
        StoresUnderOwnKey, LiveUnderOwnKey, TakenIsOver, HandleNamesOne,
        BuiltInWasComplete, ReleasedIsOver, FreedIsComplete, Locking, Taken
<1>2. StagedInv => Known  BY DEF StagedInv, Known
<1>3. [Next]_vars => env' = env
  <2>1. ASSUME NEW t \in Threads,
               \/ PostPlain(t) \/ PostNonblocking(t) \/ PostPersistent(t)
               \/ KeepNothing(t) \/ KeepBlock(t)
        PROVE  env' = env
    BY <2>1, Zenon DEF PostPlain, PostNonblocking, PostPersistent, PostStaged,
                       KeepNothing, KeepBlock
  <2>2. ASSUME NEW t \in Threads,
               \/ AttachFull(t) \/ AttachDuplicate(t) \/ AttachSeesRoom(t)
               \/ AttachSkips(t) \/ AttachTakes(t) \/ AttachLoses(t)
               \/ StoreBlock(t) \/ CountBlock(t)
        PROVE  env' = env
    BY <2>2, Zenon DEF AttachFull, AttachDuplicate, AttachSeesRoom, AttachSkips,
                       AttachTakes, AttachLoses, StoreBlock, CountBlock
  <2>3. ASSUME NEW t \in Threads,
               \/ Start(t) \/ Complete(t) \/ Free(t)
               \/ NothingStaged(t) \/ SomethingStaged(t)
        PROVE  env' = env
    BY <2>3, Zenon DEF Start, Complete, Free, NothingStaged, SomethingStaged
  <2>4. ASSUME NEW t \in Threads,
               \/ ReleaseIdle(t) \/ ReleaseStart(t) \/ ReleaseMisses(t)
               \/ ReleaseSkips(t) \/ ReleaseHits(t)
        PROVE  env' = env
    BY <2>4, Zenon DEF ReleaseIdle, ReleaseStart, ReleaseMisses, ReleaseSkips,
                       ReleaseHits
  <2>5. ASSUME NEW t \in Threads,
               \/ Lock(t) \/ LockLost(t)
               \/ TakeBlock(t) \/ UncountBlock(t) \/ Unlock(t) \/ FreeBlock(t)
        PROVE  env' = env
    BY <2>5, Zenon DEF Lock, LockLost, TakeBlock, UncountBlock, Unlock, FreeBlock
  <2>6. ASSUME NEW o \in Ops, Finish(o)  PROVE env' = env  BY <2>6 DEF Finish
  <2>7. ASSUME UNCHANGED vars  PROVE env' = env  BY <2>7 DEF vars
  <2>8. ASSUME NEW t \in Threads, Step(t)  PROVE env' = env
    BY <2>1, <2>2, <2>3, <2>4, <2>5, <2>8, Zenon DEF Step
  <2>   QED  BY <2>6, <2>7, <2>8 DEF Next
<1>4. Known /\ (HandlesRest => ArraysInOrder) /\ [Next]_vars =>
        (HandlesRest => ArraysInOrder)'
  BY <1>3, StepKeepsOrder DEF HandlesRest
<1>   QED  BY <1>1, <1>2, <1>4, Invariance, PTL DEF Spec

-----------------------------------------------------------------------------
(* What it implies. *)

\* Every variable keeps its type in every environment, for any number of
\* threads, operations and handles; no call has more than the two handles of
\* its requests to release (staging.c:92-129, 256-282).
THEOREM TypeCorrect == Spec => []TypeOK
<1>1. StagedInv => TypeOK  BY DEF StagedInv, Types, InHand, TypeOK
<1>   QED  BY <1>1, Invariance, PTL

\* Where the implementation does not reuse a handle during the call that ends
\* its request, the arrays of an operation that is over are freed, or the call
\* that completed it is still to release them (staging.c:41-61, 256-282).
THEOREM Reclaimed == Spec => []BlockIsReclaimed
<1>1. StagedInv => BlockIsReclaimed
  <2> SUFFICES ASSUME StagedInv, NEW o \in Ops, Orderly, phase[o] = "finished",
                      block[o] = "held"
               PROVE  \E t \in Threads, i \in 1 .. 2 :
                        i <= Len(todo[t]) /\ todo[t][i] = handle[o]
    BY DEF BlockIsReclaimed
  <2>   QED  BY DEF StagedInv, InOrder, OverIsPending, Pending
<1>   QED  BY <1>1, Invariance, PTL

\* There, no operation finds its own key in the table, whatever the number of
\* slots and however the calls interleave (staging.c:119-126).
THEOREM KeysAreNew == Spec => []NoDuplicate
<1>1. StagedInv => NoDuplicate
  BY DEF StagedInv, InOrder, Fates, NoDuplicate
<1>   QED  BY <1>1, Invariance, PTL

\* There, the count is that of the blocks in the table whenever no call is
\* inside the wrapper, and each block is stored under the handle of an
\* operation that is not over (staging.c:87-90, 92-129, 256-282).
THEOREM TableMatches == Spec => []TableMatchesOperations
<1>1. StagedInv => TableMatchesOperations
  <2> SUFFICES ASSUME StagedInv, Orderly, AllIdle
               PROVE  /\ live = Cardinality({s \in Slots : key[s] \in Handles})
                      /\ \A s \in Slots :
                           /\ key[s] # Locked
                           /\ key[s] \in Handles <=> blk[s] # None
                           /\ blk[s] # None => /\ handle[blk[s]] = key[s]
                                               /\ phase[blk[s]] # "finished"
                                               /\ block[blk[s]] = "held"
    BY DEF TableMatchesOperations
  <2>1. Types /\ InHand /\ InOrder  BY DEF StagedInv
  <2>2. \A t \in Threads : pc[t] = "idle"  BY DEF AllIdle
  <2>3. \A s \in Slots : key[s] # Locked
    BY <2>1, <2>2 DEF InOrder, LockIsExclusive, Locking
  <2>4. \A s \in Slots : blk[s] # None => handle[blk[s]] = key[s]
    BY <2>1, <2>2 DEF InOrder, KeyNamesBlock
  <2>5. \A s \in Slots : key[s] \in Handles <=> blk[s] # None
    <3>1. \A s \in Slots : blk[s] # None => key[s] \in Handles
      BY <2>1, <2>4, InTable
    <3>   QED  BY <2>1, <2>2, <3>1 DEF InOrder, KeyNamesBlock
  <2>6. \A s \in Slots : blk[s] # None =>
          phase[blk[s]] # "finished" /\ block[blk[s]] = "held"
    <3>1. \A t \in Threads : \A h : ~Pending(t, h)
      <4>1. Len(<<>>) = 0  BY EmptySeq
      <4>2. \A t \in Threads : todo[t] = <<>>  BY <2>1, <2>2 DEF InHand
      <4>   QED  BY <4>1, <4>2 DEF Pending
    <3>2. \A s \in Slots : blk[s] # None => blk[s] \in Ops /\ block[blk[s]] = "held"
      BY <2>1, InTable
    <3>   QED  BY <2>1, <3>1, <3>2 DEF InOrder, OverIsPending
  <2>7. live = Cardinality({s \in Slots : key[s] \in Handles})
    <3>1. Counted = {s \in Slots : key[s] \in Handles}
      BY <2>2, <2>5 DEF Counted, Storing, Counts
    <3>   QED  BY <2>1, <3>1 DEF InOrder, CountIsRight
  <2>   QED  BY <2>3, <2>4, <2>5, <2>6, <2>7
<1>   QED  BY <1>1, Invariance, PTL

\* In every environment but "immediate", no array is freed while the
\* implementation may still read it, nor freed twice -- also where requests
\* cannot be asked whether they are complete, and complete operations share a
\* key (staging.c:18-21, 175-193; NOTES.md 6.3).
THEOREM ArraysOutlive ==
  Spec => [](env # "immediate" => BlockOutlivesOperation)
<1>1. StagedInv /\ (HandlesRest => ArraysInOrder) =>
        (env # "immediate" => BlockOutlivesOperation)
  BY DEF HandlesRest, ArraysInOrder, FreedIsComplete, BlockOutlivesOperation, InUse
<1>   QED  BY <1>1, Invariance, ArraysStayInOrder, PTL

=============================================================================
