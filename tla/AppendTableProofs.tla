-------------------------- MODULE AppendTableProofs --------------------------
(***************************************************************************)
(* What the accesses to an append table preserve, for every table that     *)
(* AppendTable describes: the lemmas on which the proofs about the modules *)
(* that extend it rest.                                                    *)
(***************************************************************************)
EXTENDS AppendTable, TLAPS, FiniteSetTheorems

\* A step of thread t that leaves the table alone.
Elsewhere(t) ==
  /\ UNCHANGED <<cell, count>>
  /\ pc'  \in [Threads -> Labels]
  /\ val' \in [Threads -> Values \cup {Unset}]
  /\ idx' \in [Threads -> Int]
  /\ \A u \in Threads \ {t} :
       pc'[u] = pc[u] /\ val'[u] = val[u] /\ idx'[u] = idx[u]
  /\ pc'[t] \notin {"overflow", "full", "publish", "added"}

\* The static storage of keyvals.c, errorcodes.c and serialize.c, before the
\* first call: zeroes, and a counter of zero.
LEMMA TableInitInv == TableInit => TableInv
  BY CapacityAssumption
  DEF TableInit, TableInv, TableTypeOK, UnclaimedIsUnset, ClaimIsExclusive,
      PublishedOnce, FullMeansFull, OwnsIndex, Labels, Slots

\* A call that begins, converts or returns does not disturb the table.
LEMMA TableElsewhere ==
  ASSUME NEW t \in Threads, TableInv, Elsewhere(t)
  PROVE  TableInv'
<1>1. /\ cell' = cell /\ count' = count
      /\ \A u \in Threads :
           pc'[u] \in {"overflow", "full", "publish", "added"} =>
             pc'[u] = pc[u] /\ val'[u] = val[u] /\ idx'[u] = idx[u]
  BY DEF Elsewhere
<1>2. TableTypeOK'       BY <1>1 DEF TableInv, TableTypeOK, Elsewhere
<1>3. UnclaimedIsUnset'  BY <1>1 DEF TableInv, UnclaimedIsUnset
<1>4. ClaimIsExclusive'  BY <1>1 DEF TableInv, ClaimIsExclusive, OwnsIndex
<1>5. PublishedOnce'     BY <1>1 DEF TableInv, PublishedOnce
<1>6. FullMeansFull'     BY <1>1 DEF TableInv, FullMeansFull
<1>   QED  BY <1>2, <1>3, <1>4, <1>5, <1>6 DEF TableInv

\* The fetch-and-add gives an index that nobody owns and nobody has
\* published to (keyvals.c:64, errorcodes.c:94, serialize.c:92).
LEMMA TableClaim ==
  ASSUME NEW t \in Threads, TableInv, Claim(t), val[t] \in Values
  PROVE  TableInv'
  BY CapacityAssumption
  DEF Claim, Goto, TableInv, TableTypeOK, UnclaimedIsUnset, ClaimIsExclusive,
      PublishedOnce, FullMeansFull, OwnsIndex, Slots, Labels

\* Putting the counter back does not put it below a claimed index
\* (keyvals.c:70, errorcodes.c:100, serialize.c:98).
LEMMA TableReset ==
  ASSUME NEW t \in Threads, TableInv, ResetCounter(t)
  PROVE  TableInv'
  BY CapacityAssumption
  DEF ResetCounter, Goto, TableInv, TableTypeOK, UnclaimedIsUnset, ClaimIsExclusive,
      PublishedOnce, FullMeansFull, OwnsIndex, Slots, Labels

\* Publishing writes the owner's cell and no other
\* (keyvals.c:74, errorcodes.c:104, serialize.c:102).
LEMMA TablePublish ==
  ASSUME NEW t \in Threads, TableInv, Publish(t)
  PROVE  TableInv'
  BY DEF Publish, Goto, TableInv, TableTypeOK, UnclaimedIsUnset, ClaimIsExclusive,
         PublishedOnce, FullMeansFull, OwnsIndex, Slots, Labels

\* A scan, the check of an index and the load it allows only read.
LEMMA TableRead ==
  ASSUME NEW t \in Threads, TableInv,
         \/ ReadCount(t) \/ ScanMatch(t) \/ ScanNext(t) \/ ScanEnd(t)
         \/ LoadCell(t) /\ idx[t] \in Slots
         \/ CheckIndex(t, NewestIndex + 1)
  PROVE  Elsewhere(t)
<1> USE DEF Goto, Elsewhere, TableInv, TableTypeOK
<1>1. CASE ReadCount(t)
  <2>1. NewestIndex \in Int  BY CapacityAssumption, <1>1 DEF NewestIndex
  <2>   QED  BY <1>1, <2>1 DEF ReadCount, Labels
<1>2. CASE ScanMatch(t)  BY <1>2 DEF ScanMatch, Labels
<1>3. CASE ScanNext(t)   BY <1>3 DEF ScanNext, Labels
<1>4. CASE ScanEnd(t)    BY <1>4 DEF ScanEnd, Labels
<1>5. CASE LoadCell(t) /\ idx[t] \in Slots  BY <1>5 DEF LoadCell, Labels
<1>6. CASE CheckIndex(t, NewestIndex + 1)   BY <1>6 DEF CheckIndex, Labels
<1>   QED  BY <1>1, <1>2, <1>3, <1>4, <1>5, <1>6

\* The first index a scan looks at is below the capacity and is at or above
\* every claimed index that is (keyvals.c:99-101).
LEMMA NewestIndexCovers ==
  ASSUME TableTypeOK
  PROVE  /\ NewestIndex \in -1 .. Capacity - 1
         /\ \A s \in Slots : s < count => s <= NewestIndex
  BY CapacityAssumption DEF NewestIndex, TableTypeOK, Slots

\* A finite number of threads is past the end of the table at any time.
LEMMA OverflowingFinite ==
  IsFiniteSet(Overflowing) /\ Cardinality(Overflowing) \in Nat
  BY ThreadsAssumption, FS_Subset, FS_CardinalityType DEF Overflowing

\* A fetch-and-add past the end puts one more thread there, and that thread
\* is the only one that moved.
LEMMA CounterClaim ==
  ASSUME NEW t \in Threads, TableTypeOK, CounterStaysInReach, Claim(t)
  PROVE  CounterStaysInReach'
<1> USE DEF Claim, Goto, TableTypeOK, CounterStaysInReach
<1>1. CASE count < Capacity
  <2>1. Overflowing' = Overflowing  BY <1>1, CapacityAssumption DEF Overflowing
  <2>   QED  BY <1>1, <2>1, OverflowingFinite, CapacityAssumption
<1>2. CASE count >= Capacity
  <2>1. Overflowing' = Overflowing \cup {t} /\ t \notin Overflowing
    BY <1>2 DEF Overflowing
  <2>2. Cardinality(Overflowing') = Cardinality(Overflowing) + 1
    BY <2>1, OverflowingFinite, FS_AddElement
  <2>   QED  BY <1>2, <2>2, OverflowingFinite, CapacityAssumption
<1> QED  BY <1>1, <1>2, CapacityAssumption

\* The store puts the counter at the end of the table, whoever else is past it.
LEMMA CounterReset ==
  ASSUME NEW t \in Threads, ResetCounter(t)
  PROVE  CounterStaysInReach'
<1>1. Cardinality(Overflowing') \in Nat
  BY ThreadsAssumption, FS_Subset, FS_CardinalityType DEF Overflowing
<1> QED  BY <1>1, CapacityAssumption DEF ResetCounter, CounterStaysInReach

\* No slot is lost: what the counter has passed is published, or about to be.
ClaimedIsTaken ==
  \A s \in Slots : s < count =>
    cell[s] # Unset \/ \E u \in Threads : pc[u] = "publish" /\ idx[u] = s

LEMMA TableStepTakes ==
  ASSUME NEW t \in Threads, TableInv, ClaimedIsTaken, TableStep(t)
  PROVE  ClaimedIsTaken'
<1> USE DEF TableInv, TableTypeOK, Goto
<1>1. SUFFICES ASSUME NEW s \in Slots, s < count', cell'[s] = Unset
               PROVE  \E u \in Threads : pc'[u] = "publish" /\ idx'[u] = s
  BY DEF ClaimedIsTaken
<1>2. CASE Claim(t)
  <2> USE <1>2 DEF Claim
  <2>1. CASE s < count
    <3>1. PICK u \in Threads : pc[u] = "publish" /\ idx[u] = s
      BY <1>1, <2>1 DEF ClaimedIsTaken
    <3>2. pc'[u] = "publish" /\ idx'[u] = s  BY <3>1
    <3>   QED  BY <3>2
  <2>2. CASE ~(s < count)
    <3>1. s = count /\ s < Capacity
      BY <1>1, <2>2, CapacityAssumption DEF Slots
    <3>2. pc'[t] = "publish" /\ idx'[t] = s  BY <3>1, CapacityAssumption
    <3>   QED  BY <3>2
  <2>   QED  BY <2>1, <2>2
<1>3. CASE ResetCounter(t)
  <2> USE <1>3 DEF ResetCounter
  <2>1. s < count  BY CapacityAssumption DEF FullMeansFull, Slots
  <2>2. PICK u \in Threads : pc[u] = "publish" /\ idx[u] = s
    BY <1>1, <2>1 DEF ClaimedIsTaken
  <2>3. pc'[u] = "publish" /\ idx'[u] = s  BY <2>2
  <2>   QED  BY <2>3
<1>4. CASE Publish(t)
  <2> USE <1>4 DEF Publish
  <2>1. idx[t] \in Slots /\ val[t] \in Values
    BY DEF ClaimIsExclusive, PublishedOnce, OwnsIndex
  <2>2. s # idx[t] /\ cell[s] = Unset
    BY <1>1, <2>1, UnsetAssumption
  <2>3. PICK u \in Threads : pc[u] = "publish" /\ idx[u] = s
    BY <1>1, <2>2 DEF ClaimedIsTaken
  <2>4. u # t  BY <2>2, <2>3
  <2>5. pc'[u] = "publish" /\ idx'[u] = s  BY <2>3, <2>4
  <2>   QED  BY <2>5
<1>5. CASE ReadCount(t) \/ ScanMatch(t) \/ ScanNext(t) \/ ScanEnd(t) \/ LoadCell(t)
  <2>1. /\ cell' = cell /\ count' = count
        /\ \A u \in Threads : pc[u] = "publish" => pc'[u] = "publish" /\ idx'[u] = idx[u]
    BY <1>5 DEF ReadCount, ScanMatch, ScanNext, ScanEnd, LoadCell
  <2>   QED  BY <1>1, <2>1 DEF ClaimedIsTaken
<1>   QED  BY <1>2, <1>3, <1>4, <1>5 DEF TableStep

\* A step that leaves the table and the threads that publish alone.
LEMMA TakenElsewhere ==
  ASSUME ClaimedIsTaken, cell' = cell, count' = count,
         \A u \in Threads : pc[u] = "publish" => pc'[u] = "publish" /\ idx'[u] = idx[u]
  PROVE  ClaimedIsTaken'
  BY DEF ClaimedIsTaken

\* A scan stays between the newest entry and the end below the oldest.
ScanInBounds ==
  \A t \in Threads : pc[t] = "scan" => idx[t] \in -1 .. Capacity - 1

LEMMA TableStepInBounds ==
  ASSUME NEW t \in Threads, TableTypeOK, ScanInBounds, TableStep(t)
  PROVE  ScanInBounds'
<1> USE DEF TableTypeOK, ScanInBounds, Goto
<1>1. CASE Claim(t)        BY <1>1 DEF Claim
<1>2. CASE ResetCounter(t) BY <1>2 DEF ResetCounter
<1>3. CASE Publish(t)      BY <1>3 DEF Publish
<1>4. CASE ReadCount(t)
  <2>1. NewestIndex \in -1 .. Capacity - 1  BY NewestIndexCovers
  <2>   QED  BY <1>4, <2>1 DEF ReadCount
<1>5. CASE ScanMatch(t)    BY <1>5 DEF ScanMatch
<1>6. CASE ScanNext(t)
  <2>1. idx[t] - 1 \in -1 .. Capacity - 1
    BY <1>6, CapacityAssumption DEF ScanNext
  <2>2. /\ pc' = pc /\ idx'[t] = idx[t] - 1
        /\ \A u \in Threads \ {t} : idx'[u] = idx[u]
    BY <1>6 DEF ScanNext
  <2>   QED  BY <2>1, <2>2
<1>7. CASE ScanEnd(t)      BY <1>7 DEF ScanEnd
<1>8. CASE LoadCell(t)     BY <1>8 DEF LoadCell
<1>   QED  BY <1>1, <1>2, <1>3, <1>4, <1>5, <1>6, <1>7, <1>8 DEF TableStep

\* A step that leaves no thread at a scan that was not there.
LEMMA InBoundsElsewhere ==
  ASSUME ScanInBounds,
         \A t \in Threads : pc'[t] = "scan" => pc[t] = "scan" /\ idx'[t] = idx[t]
  PROVE  ScanInBounds'
  BY DEF ScanInBounds

StepsBounded == \A t \in Threads : StepsLeft(t) \in 0 .. MostSteps

LEMMA BoundsGiveSteps == TableTypeOK /\ ScanInBounds => StepsBounded
<1> SUFFICES ASSUME TableTypeOK, ScanInBounds, NEW t \in Threads
             PROVE  StepsLeft(t) \in 0 .. MostSteps
  BY DEF StepsBounded
<1>1. pc[t] \in Labels  BY DEF TableTypeOK
<1>2. CASE pc[t] = "scan"
  <2>1. idx[t] \in -1 .. Capacity - 1  BY <1>2 DEF ScanInBounds
  <2>2. StepsLeft(t) = idx[t] + 6       BY <1>2 DEF StepsLeft
  <2>   QED  BY <2>1, <2>2, CapacityAssumption DEF MostSteps
<1>3. CASE pc[t] # "scan"
  <2>1. StepsLeft(t) \in {0, 1, 2, 3, 4, Capacity + 6, Capacity + 7, Capacity + 8, Capacity + 9}
    BY <1>1, <1>3 DEF StepsLeft, Labels
  <2>   QED  BY <2>1, CapacityAssumption DEF MostSteps
<1>   QED  BY <1>2, <1>3

\* Every access of a call to the table leaves the call fewer, whatever the
\* other threads have done to the counter and the cells in between.
LEMMA TableStepCounts ==
  ASSUME NEW t \in Threads, TableTypeOK, ScanInBounds,
         TableStep(t) \/ (\E bound \in Int : CheckIndex(t, bound))
  PROVE  StepsLeft(t)' < StepsLeft(t)
<1> USE CapacityAssumption DEF TableTypeOK, Goto, StepsLeft
<1>1. CASE Claim(t)        BY <1>1 DEF Claim
<1>2. CASE ResetCounter(t) BY <1>2 DEF ResetCounter
<1>3. CASE Publish(t)      BY <1>3 DEF Publish
<1>4. CASE ReadCount(t)
  <2>1. NewestIndex \in -1 .. Capacity - 1  BY NewestIndexCovers
  <2>2. pc[t] = "count" /\ pc'[t] = "scan" /\ idx'[t] = NewestIndex
    BY <1>4 DEF ReadCount
  <2>   QED  BY <2>1, <2>2
<1>5. CASE ScanMatch(t)
  <2>1. pc[t] = "scan" /\ pc'[t] = "found" /\ idx[t] >= 0
    BY <1>5 DEF ScanMatch
  <2>   QED  BY <2>1
<1>6. CASE ScanNext(t)
  <2>1. pc[t] = "scan" /\ pc'[t] = "scan" /\ idx'[t] = idx[t] - 1 /\ idx[t] \in Int
    BY <1>6 DEF ScanNext
  <2>   QED  BY <2>1
<1>7. CASE ScanEnd(t)
  <2>1. pc[t] = "scan" /\ pc'[t] = "missed" /\ idx[t] \in -1 .. Capacity - 1
    BY <1>7 DEF ScanEnd, ScanInBounds
  <2>   QED  BY <2>1
<1>8. CASE LoadCell(t)     BY <1>8 DEF LoadCell
<1>9. CASE \E bound \in Int : CheckIndex(t, bound)
  <2>1. pc[t] = "check" /\ pc'[t] \in {"load", "nosuch"}
    BY <1>9 DEF CheckIndex
  <2>   QED  BY <2>1
<1>   QED  BY <1>1, <1>2, <1>3, <1>4, <1>5, <1>6, <1>7, <1>8, <1>9 DEF TableStep

\* Every other step leaves the counter and the threads past the end alone.
LEMMA CounterElsewhere ==
  ASSUME CounterStaysInReach, count' = count, Overflowing' = Overflowing
  PROVE  CounterStaysInReach'
  BY DEF CounterStaysInReach
=============================================================================
