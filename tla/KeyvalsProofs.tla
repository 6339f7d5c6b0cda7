---------------------------- MODULE KeyvalsProofs ----------------------------
(***************************************************************************)
(* Proofs about Keyvals, for any number of threads, keyval numbers and     *)
(* objects, and any capacity of the registry.  KeyvalInv is inductive: one *)
(* lemma below for each action of Keyvals says that the action preserves   *)
(* it, with a step for each conjunct.  The properties follow from it, and  *)
(* so does, at the end, that Keyvals implements KeyvalMap.                 *)
(***************************************************************************)
EXTENDS Keyvals, AppendTableProofs

\* Before the first call there is no key and nobody is in a call.
LEMMA InitEstablishes ==
  ASSUME Init
  PROVE  KeyvalInv
<1> USE DEF Init
<1>1. TableInv  BY TableInitInv
<1>2. TypeOK
  BY <1>1 DEF TypeOK, TableInv, Calls
<1>3. \A t \in Threads : pc[t] = "idle"
  BY DEF TableInit
<1> QED
  BY <1>1, <1>2, <1>3
  DEF KeyvalInv, CreateOwnsNumber, Creating, NewestIsLive, OwnsIndex,
      ReferencedIsIssued, HeldIsLive, Converting, CallHasObject,
      FreeIsExclusive, ScanIsAhead, Scanning

-----------------------------------------------------------------------------
(* The entry points and the trampolines. *)

\* The implementation chose a number that names no key (hw_callbacks.c:278).
LEMMA CreateKeyvalPreserves ==
  ASSUME NEW t \in Threads, KeyvalInv, CreateKeyval(t)
  PROVE  KeyvalInv'
<1> USE DEF KeyvalInv, TypeOK, TableTypeOK, CreateKeyval, Goto, appVars
<1>1. TypeOK'
  BY DEF Slots, Calls, Unissued, Labels
<1>2. TableInv'
  <2>1. Elsewhere(t)
    BY DEF Elsewhere, TableInv, Labels
  <2> QED  BY <2>1, TableElsewhere
<1>3. CreateOwnsNumber'
  BY DEF CreateOwnsNumber, Creating, ReferencedIsIssued
<1>4. NewestIsLive'
  BY DEF NewestIsLive, Slots, OwnsIndex
<1>5. ReferencedIsIssued'
  BY DEF ReferencedIsIssued
<1>6. HeldIsLive'
  BY DEF HeldIsLive, Names, Converting, Slots, Unissued
<1>7. CallHasObject'
  BY DEF CallHasObject, Converting
<1>8. FreeIsExclusive'
  BY DEF FreeIsExclusive, Converting, Slots
<1>9. ScanIsAhead'
  BY DEF ScanIsAhead, Scanning
<1> QED  BY <1>1, <1>2, <1>3, <1>4, <1>5, <1>6, <1>7, <1>8, <1>9

\* The create call returns the index it published (hw_callbacks.c:283-287).
LEMMA CreateReturnsPreserves ==
  ASSUME NEW t \in Threads, KeyvalInv, CreateReturns(t)
  PROVE  KeyvalInv'
<1> USE DEF KeyvalInv, TypeOK, TableTypeOK, CreateReturns, Return, implVars,
            Leave, Goto
<1>1. TypeOK'
  <2>1. idx[t] \in Slots /\ val[t] \in Values
    BY DEF TableInv, ClaimIsExclusive, PublishedOnce, OwnsIndex
  <2>2. abi' \in [Values -> Slots \cup {NoKey}] /\ held' \subseteq Slots
    BY <2>1
  <2> QED  BY <2>2 DEF Labels, Calls
<1>2. TableInv'
  <2>1. Elsewhere(t)
    BY DEF Elsewhere, TableInv, Labels
  <2> QED  BY <2>1, TableElsewhere
<1>3. CreateOwnsNumber'
  BY DEF CreateOwnsNumber, Creating
<1>4. NewestIsLive'
  BY DEF NewestIsLive, Slots, OwnsIndex, TableInv, ClaimIsExclusive,
         PublishedOnce
<1>5. ReferencedIsIssued'
  BY DEF ReferencedIsIssued, CreateOwnsNumber, Creating
<1>6. HeldIsLive'
  BY NoKeyAssumption
  DEF HeldIsLive, Names, Converting, Slots, Unissued, CreateOwnsNumber,
      Creating, TableInv, ClaimIsExclusive, PublishedOnce, OwnsIndex
<1>7. CallHasObject'
  BY DEF CallHasObject, Converting
<1>8. FreeIsExclusive'
  BY DEF FreeIsExclusive, Converting, Slots, CreateOwnsNumber, Creating,
         HeldIsLive, Names, Unissued, TableInv, ClaimIsExclusive,
         PublishedOnce, OwnsIndex
<1>9. ScanIsAhead'
  BY DEF ScanIsAhead, Scanning, CreateOwnsNumber, Creating
<1> QED  BY <1>1, <1>2, <1>3, <1>4, <1>5, <1>6, <1>7, <1>8, <1>9

\* The registry is full, and the create call fails (hw_callbacks.c:283-286).
LEMMA CreateFailsPreserves ==
  ASSUME NEW t \in Threads, KeyvalInv, CreateFails(t)
  PROVE  KeyvalInv'
<1> USE DEF KeyvalInv, TypeOK, TableTypeOK, CreateFails, Return, implVars,
            appVars, Leave, Goto
<1>1. TypeOK'
  BY DEF Slots, Calls, Unissued, Labels
<1>2. TableInv'
  <2>1. Elsewhere(t)
    BY DEF Elsewhere, TableInv, Labels
  <2> QED  BY <2>1, TableElsewhere
<1>3. CreateOwnsNumber'
  BY DEF CreateOwnsNumber, Creating
<1>4. NewestIsLive'
  BY DEF NewestIsLive, Slots, OwnsIndex
<1>5. ReferencedIsIssued'
  BY DEF ReferencedIsIssued
<1>6. HeldIsLive'
  BY DEF HeldIsLive, Names, Converting, Slots, Unissued
<1>7. CallHasObject'
  BY DEF CallHasObject, Converting
<1>8. FreeIsExclusive'
  BY DEF FreeIsExclusive, Converting, Slots
<1>9. ScanIsAhead'
  BY DEF ScanIsAhead, Scanning
<1> QED  BY <1>1, <1>2, <1>3, <1>4, <1>5, <1>6, <1>7, <1>8, <1>9

\* A call with a keyval, or an integer that is none, enters the wrapper.
LEMMA UseKeyvalPreserves ==
  ASSUME NEW t \in Threads, KeyvalInv, UseKeyval(t)
  PROVE  KeyvalInv'
<1> USE DEF KeyvalInv, TypeOK, TableTypeOK, UseKeyval, Unissued, Present,
            Goto, implVars
<1>1. TypeOK'
  BY DEF Slots, Calls, Labels
<1>2. TableInv'
  <2>1. Elsewhere(t)
    BY DEF Elsewhere, TableInv, Labels, Slots
  <2> QED  BY <2>1, TableElsewhere
<1>3. CreateOwnsNumber'
  BY DEF CreateOwnsNumber, Creating
<1>4. NewestIsLive'
  BY DEF NewestIsLive, Slots, OwnsIndex
<1>5. ReferencedIsIssued'
  BY DEF ReferencedIsIssued
<1>6. HeldIsLive'
  BY NoKeyAssumption
  DEF HeldIsLive, Names, Converting, Slots
<1>7. CallHasObject'
  BY DEF CallHasObject, Converting
<1>8. FreeIsExclusive'
  BY DEF FreeIsExclusive, Converting, Slots
<1>9. ScanIsAhead'
  BY DEF ScanIsAhead, Scanning
<1> QED  BY <1>1, <1>2, <1>3, <1>4, <1>5, <1>6, <1>7, <1>8, <1>9

\* MPI_*_free_keyval enters the wrapper.
LEMMA FreeKeyvalPreserves ==
  ASSUME NEW t \in Threads, KeyvalInv, FreeKeyval(t)
  PROVE  KeyvalInv'
<1> USE DEF KeyvalInv, TypeOK, TableTypeOK, FreeKeyval, Using, Present,
            Converting, Goto, implVars
<1>1. TypeOK'
  BY DEF Slots, Calls, Unissued, Labels
<1>2. TableInv'
  <2>1. Elsewhere(t)
    BY DEF Elsewhere, TableInv, Labels, Slots
  <2> QED  BY <2>1, TableElsewhere
<1>3. CreateOwnsNumber'
  BY DEF CreateOwnsNumber, Creating
<1>4. NewestIsLive'
  BY DEF NewestIsLive, Slots, OwnsIndex
<1>5. ReferencedIsIssued'
  BY DEF ReferencedIsIssued
<1>6. HeldIsLive'
  BY NoKeyAssumption
  DEF HeldIsLive, Names, Slots, Unissued
<1>7. CallHasObject'
  BY DEF CallHasObject
<1>8. FreeIsExclusive'
  BY DEF FreeIsExclusive, Slots
<1>9. ScanIsAhead'
  BY DEF ScanIsAhead, Scanning
<1> QED  BY <1>1, <1>2, <1>3, <1>4, <1>5, <1>6, <1>7, <1>8, <1>9

\* keyval_dynamic_fromabi compares the index with the counter (keyvals.c:82-86).
LEMMA CheckKeyvalPreserves ==
  ASSUME NEW t \in Threads, KeyvalInv, CheckKeyval(t)
  PROVE  KeyvalInv'
<1> USE DEF KeyvalInv, TypeOK, TableTypeOK, CheckKeyval, CheckIndex,
            NewestIndex, implVars, appVars, callVars, Goto
<1>1. TypeOK'
  BY DEF Slots, Calls, Unissued, Labels
<1>2. TableInv'
  BY TableRead, TableElsewhere
<1>3. CreateOwnsNumber'
  BY DEF CreateOwnsNumber, Creating
<1>4. NewestIsLive'
  BY DEF NewestIsLive, Slots, OwnsIndex
<1>5. ReferencedIsIssued'
  BY DEF ReferencedIsIssued
<1>6. HeldIsLive'
  BY CapacityAssumption
  DEF HeldIsLive, Names, Converting, Slots, Unissued, NewestIsLive, OwnsIndex
<1>7. CallHasObject'
  BY DEF CallHasObject, Converting
<1>8. FreeIsExclusive'
  BY DEF FreeIsExclusive, Converting, Slots
<1>9. ScanIsAhead'
  BY DEF ScanIsAhead, Scanning
<1> QED  BY <1>1, <1>2, <1>3, <1>4, <1>5, <1>6, <1>7, <1>8, <1>9

\* The implementation refuses MPI_KEYVAL_INVALID.
LEMMA RefusedPreserves ==
  ASSUME NEW t \in Threads, KeyvalInv, Refused(t)
  PROVE  KeyvalInv'
<1> USE DEF KeyvalInv, TypeOK, TableTypeOK, Refused, Return, implVars,
            appVars, Leave, Goto
<1>1. TypeOK'
  BY DEF Slots, Calls, Unissued, Labels
<1>2. TableInv'
  <2>1. Elsewhere(t)
    BY DEF Elsewhere, TableInv, Labels
  <2> QED  BY <2>1, TableElsewhere
<1>3. CreateOwnsNumber'
  BY DEF CreateOwnsNumber, Creating
<1>4. NewestIsLive'
  BY DEF NewestIsLive, Slots, OwnsIndex
<1>5. ReferencedIsIssued'
  BY DEF ReferencedIsIssued
<1>6. HeldIsLive'
  BY DEF HeldIsLive, Names, Converting, Slots, Unissued
<1>7. CallHasObject'
  BY DEF CallHasObject, Converting
<1>8. FreeIsExclusive'
  BY DEF FreeIsExclusive, Converting, Slots
<1>9. ScanIsAhead'
  BY DEF ScanIsAhead, Scanning
<1> QED  BY <1>1, <1>2, <1>3, <1>4, <1>5, <1>6, <1>7, <1>8, <1>9

\* The implementation looks an attribute up.
LEMMA ForwardReadPreserves ==
  ASSUME NEW t \in Threads, KeyvalInv, ForwardRead(t)
  PROVE  KeyvalInv'
<1> USE DEF KeyvalInv, TypeOK, TableTypeOK, ForwardRead, Return, implVars,
            appVars, Leave, Goto
<1>1. TypeOK'
  BY DEF Slots, Calls, Unissued, Labels
<1>2. TableInv'
  <2>1. Elsewhere(t)
    BY DEF Elsewhere, TableInv, Labels
  <2> QED  BY <2>1, TableElsewhere
<1>3. CreateOwnsNumber'
  BY DEF CreateOwnsNumber, Creating
<1>4. NewestIsLive'
  BY DEF NewestIsLive, Slots, OwnsIndex
<1>5. ReferencedIsIssued'
  BY DEF ReferencedIsIssued
<1>6. HeldIsLive'
  BY DEF HeldIsLive, Names, Converting, Slots, Unissued
<1>7. CallHasObject'
  BY DEF CallHasObject, Converting
<1>8. FreeIsExclusive'
  BY DEF FreeIsExclusive, Converting, Slots
<1>9. ScanIsAhead'
  BY DEF ScanIsAhead, Scanning
<1> QED  BY <1>1, <1>2, <1>3, <1>4, <1>5, <1>6, <1>7, <1>8, <1>9

\* The implementation stores a new attribute.
LEMMA ForwardStorePreserves ==
  ASSUME NEW t \in Threads, KeyvalInv, ForwardStore(t)
  PROVE  KeyvalInv'
<1> USE DEF KeyvalInv, TypeOK, TableTypeOK, ForwardStore, Busy, Return,
            appVars, Scanning, Leave, Goto
<1>1. TypeOK'
  BY DEF Slots, Calls, Unissued, Labels, HeldIsLive, Names, Converting,
         CallHasObject
<1>2. TableInv'
  <2>1. Elsewhere(t)
    BY DEF Elsewhere, TableInv, Labels
  <2> QED  BY <2>1, TableElsewhere
<1>3. CreateOwnsNumber'
  BY DEF CreateOwnsNumber, Creating, HeldIsLive, Names, Converting, Slots,
         Unissued
<1>4. NewestIsLive'
  BY DEF NewestIsLive, Slots, OwnsIndex
<1>5. ReferencedIsIssued'
  BY DEF ReferencedIsIssued, HeldIsLive, Names, Converting, Slots, Unissued
<1>6. HeldIsLive'
  BY DEF HeldIsLive, Names, Converting, Slots, Unissued
<1>7. CallHasObject'
  BY DEF CallHasObject, Converting
<1>8. FreeIsExclusive'
  BY DEF FreeIsExclusive, Converting, Slots
<1>9. ScanIsAhead'
  BY DEF ScanIsAhead
<1> QED  BY <1>1, <1>2, <1>3, <1>4, <1>5, <1>6, <1>7, <1>8, <1>9

\* The implementation calls the delete function of an attribute.
LEMMA ForwardDeletePreserves ==
  ASSUME NEW t \in Threads, KeyvalInv, ForwardDelete(t)
  PROVE  KeyvalInv'
<1> USE DEF KeyvalInv, TypeOK, TableTypeOK, ForwardDelete, Busy, Goto,
            implVars, appVars, Scanning
<1>1. TypeOK'
  BY DEF Slots, Calls, Unissued, Labels
<1>2. TableInv'
  <2>1. Elsewhere(t)
    BY DEF Elsewhere, TableInv, Labels
  <2> QED  BY <2>1, TableElsewhere
<1>3. CreateOwnsNumber'
  BY DEF CreateOwnsNumber, Creating
<1>4. NewestIsLive'
  BY DEF NewestIsLive, Slots, OwnsIndex
<1>5. ReferencedIsIssued'
  BY DEF ReferencedIsIssued
<1>6. HeldIsLive'
  BY DEF HeldIsLive, Names, Converting, Slots, Unissued
<1>7. CallHasObject'
  BY DEF CallHasObject, Converting
<1>8. FreeIsExclusive'
  BY DEF FreeIsExclusive, Converting, Slots
<1>9. ScanIsAhead'
  BY DEF ScanIsAhead, HeldIsLive, Names, Converting, Slots, Unissued
<1> QED  BY <1>1, <1>2, <1>3, <1>4, <1>5, <1>6, <1>7, <1>8, <1>9

\* The implementation frees the key, or marks it.
LEMMA ForwardFreePreserves ==
  ASSUME NEW t \in Threads, KeyvalInv, ForwardFree(t)
  PROVE  KeyvalInv'
<1> USE DEF KeyvalInv, TypeOK, TableTypeOK, ForwardFree, Settle, Return,
            Leave, Goto
<1>1. TypeOK'
  BY DEF Slots, Calls, Unissued, Labels, HeldIsLive, Names, Converting
<1>2. TableInv'
  <2>1. Elsewhere(t)
    BY DEF Elsewhere, TableInv, Labels
  <2> QED  BY <2>1, TableElsewhere
<1>3. CreateOwnsNumber'
  BY DEF CreateOwnsNumber, Creating, HeldIsLive, Names, Converting, Slots,
         Unissued
<1>4. NewestIsLive'
  BY DEF NewestIsLive, Slots, OwnsIndex
<1>5. ReferencedIsIssued'
  BY DEF ReferencedIsIssued
<1>6. HeldIsLive'
  BY DEF HeldIsLive, Names, Converting, Slots, Unissued, FreeIsExclusive
<1>7. CallHasObject'
  BY DEF CallHasObject, Converting
<1>8. FreeIsExclusive'
  BY DEF FreeIsExclusive, Converting, Slots
<1>9. ScanIsAhead'
  BY DEF ScanIsAhead, Scanning
<1> QED  BY <1>1, <1>2, <1>3, <1>4, <1>5, <1>6, <1>7, <1>8, <1>9

\* The implementation calls a copy or delete function on its own account.
LEMMA StartCallbackPreserves ==
  ASSUME NEW t \in Threads, KeyvalInv, StartCallback(t)
  PROVE  KeyvalInv'
<1> USE DEF KeyvalInv, TypeOK, TableTypeOK, StartCallback, Busy, Goto,
            implVars, appVars, Scanning
<1>1. TypeOK'
  BY DEF Slots, Calls, Unissued, Labels
<1>2. TableInv'
  <2>1. Elsewhere(t)
    BY DEF Elsewhere, TableInv, Labels
  <2> QED  BY <2>1, TableElsewhere
<1>3. CreateOwnsNumber'
  BY DEF CreateOwnsNumber, Creating
<1>4. NewestIsLive'
  BY DEF NewestIsLive, Slots, OwnsIndex
<1>5. ReferencedIsIssued'
  BY DEF ReferencedIsIssued
<1>6. HeldIsLive'
  BY DEF HeldIsLive, Names, Converting, Slots, Unissued
<1>7. CallHasObject'
  BY DEF CallHasObject, Converting
<1>8. FreeIsExclusive'
  BY DEF FreeIsExclusive, Converting, Slots
<1>9. ScanIsAhead'
  BY DEF ScanIsAhead
<1> QED  BY <1>1, <1>2, <1>3, <1>4, <1>5, <1>6, <1>7, <1>8, <1>9

\* The delete function returned, and the attribute is gone.
LEMMA EndDeletePreserves ==
  ASSUME NEW t \in Threads, KeyvalInv, EndDelete(t)
  PROVE  KeyvalInv'
<1> USE DEF KeyvalInv, TypeOK, TableTypeOK, EndDelete, Settle, Return, Leave,
            Goto
<1>1. TypeOK'
  BY DEF Slots, Calls, Unissued, Labels, ScanIsAhead, Scanning
<1>2. TableInv'
  <2>1. Elsewhere(t)
    BY DEF Elsewhere, TableInv, Labels
  <2> QED  BY <2>1, TableElsewhere
<1>3. CreateOwnsNumber'
  BY DEF CreateOwnsNumber, Creating
<1>4. NewestIsLive'
  BY DEF NewestIsLive, Slots, OwnsIndex
<1>5. ReferencedIsIssued'
  BY DEF ReferencedIsIssued
<1>6. HeldIsLive'
  BY DEF HeldIsLive, Names, Converting, Slots, Unissued
<1>7. CallHasObject'
  BY DEF CallHasObject, Converting
<1>8. FreeIsExclusive'
  BY DEF FreeIsExclusive, Converting, Slots
<1>9. ScanIsAhead'
  BY DEF ScanIsAhead, Scanning, ReferencedIsIssued
<1> QED  BY <1>1, <1>2, <1>3, <1>4, <1>5, <1>6, <1>7, <1>8, <1>9

\* The delete function returned, and the new attribute is in place.
LEMMA EndReplacePreserves ==
  ASSUME NEW t \in Threads, KeyvalInv, EndReplace(t)
  PROVE  KeyvalInv'
<1> USE DEF KeyvalInv, TypeOK, TableTypeOK, EndReplace, Return, implVars,
            appVars, Leave, Goto
<1>1. TypeOK'
  BY DEF Slots, Calls, Unissued, Labels
<1>2. TableInv'
  <2>1. Elsewhere(t)
    BY DEF Elsewhere, TableInv, Labels
  <2> QED  BY <2>1, TableElsewhere
<1>3. CreateOwnsNumber'
  BY DEF CreateOwnsNumber, Creating
<1>4. NewestIsLive'
  BY DEF NewestIsLive, Slots, OwnsIndex
<1>5. ReferencedIsIssued'
  BY DEF ReferencedIsIssued
<1>6. HeldIsLive'
  BY DEF HeldIsLive, Names, Converting, Slots, Unissued
<1>7. CallHasObject'
  BY DEF CallHasObject, Converting
<1>8. FreeIsExclusive'
  BY DEF FreeIsExclusive, Converting, Slots
<1>9. ScanIsAhead'
  BY DEF ScanIsAhead, Scanning
<1> QED  BY <1>1, <1>2, <1>3, <1>4, <1>5, <1>6, <1>7, <1>8, <1>9

\* The copy function returned, and the copy is in place.
LEMMA EndCopyPreserves ==
  ASSUME NEW t \in Threads, KeyvalInv, EndCopy(t)
  PROVE  KeyvalInv'
<1> USE DEF KeyvalInv, TypeOK, TableTypeOK, EndCopy, Busy, Return, appVars,
            Scanning, Leave, Goto
<1>1. TypeOK'
  BY DEF Slots, Calls, Unissued, Labels, ScanIsAhead
<1>2. TableInv'
  <2>1. Elsewhere(t)
    BY DEF Elsewhere, TableInv, Labels
  <2> QED  BY <2>1, TableElsewhere
<1>3. CreateOwnsNumber'
  BY DEF CreateOwnsNumber, Creating, ScanIsAhead
<1>4. NewestIsLive'
  BY DEF NewestIsLive, Slots, OwnsIndex
<1>5. ReferencedIsIssued'
  BY DEF ReferencedIsIssued, ScanIsAhead
<1>6. HeldIsLive'
  BY DEF HeldIsLive, Names, Converting, Slots, Unissued
<1>7. CallHasObject'
  BY DEF CallHasObject, Converting
<1>8. FreeIsExclusive'
  BY DEF FreeIsExclusive, Converting, Slots
<1>9. ScanIsAhead'
  BY DEF ScanIsAhead
<1> QED  BY <1>1, <1>2, <1>3, <1>4, <1>5, <1>6, <1>7, <1>8, <1>9

-----------------------------------------------------------------------------
(* The accesses to the table. *)

\* keyval_add claims an index (keyvals.c:64).
LEMMA ClaimPreserves ==
  ASSUME NEW t \in Threads, KeyvalInv, Claim(t), UNCHANGED <<implVars, appVars, callVars>>
  PROVE  KeyvalInv'
<1> USE DEF KeyvalInv, TypeOK, TableTypeOK, Claim, Goto, implVars, appVars,
            callVars
<1>1. TypeOK'
  BY DEF Slots, Calls, Unissued, Labels
<1>2. TableInv'
  BY TableClaim
  DEF CreateOwnsNumber, Creating
<1>3. CreateOwnsNumber'
  BY DEF CreateOwnsNumber, Creating
<1>4. NewestIsLive'
  BY UnsetAssumption
  DEF NewestIsLive, Slots, OwnsIndex, CreateOwnsNumber, Creating, TableInv,
      ClaimIsExclusive, PublishedOnce, UnclaimedIsUnset
<1>5. ReferencedIsIssued'
  BY DEF ReferencedIsIssued
<1>6. HeldIsLive'
  BY DEF HeldIsLive, Names, Converting, Slots, Unissued
<1>7. CallHasObject'
  BY DEF CallHasObject, Converting
<1>8. FreeIsExclusive'
  BY DEF FreeIsExclusive, Converting, Slots
<1>9. ScanIsAhead'
  BY DEF ScanIsAhead, Scanning
<1> QED  BY <1>1, <1>2, <1>3, <1>4, <1>5, <1>6, <1>7, <1>8, <1>9

\* keyval_add puts the counter back (keyvals.c:70).
LEMMA ResetCounterPreserves ==
  ASSUME NEW t \in Threads, KeyvalInv, ResetCounter(t), UNCHANGED <<implVars, appVars, callVars>>
  PROVE  KeyvalInv'
<1> USE DEF KeyvalInv, TypeOK, TableTypeOK, ResetCounter, Goto, implVars,
            appVars, callVars
<1>1. TypeOK'
  BY CapacityAssumption
  DEF Slots, Calls, Unissued, Labels
<1>2. TableInv'
  BY TableReset
<1>3. CreateOwnsNumber'
  BY DEF CreateOwnsNumber, Creating
<1>4. NewestIsLive'
  BY CapacityAssumption
  DEF NewestIsLive, Slots, OwnsIndex
<1>5. ReferencedIsIssued'
  BY DEF ReferencedIsIssued
<1>6. HeldIsLive'
  BY DEF HeldIsLive, Names, Converting, Slots, Unissued
<1>7. CallHasObject'
  BY DEF CallHasObject, Converting
<1>8. FreeIsExclusive'
  BY DEF FreeIsExclusive, Converting, Slots
<1>9. ScanIsAhead'
  BY DEF ScanIsAhead, Scanning
<1> QED  BY <1>1, <1>2, <1>3, <1>4, <1>5, <1>6, <1>7, <1>8, <1>9

\* keyval_add publishes the number (keyvals.c:74).
LEMMA PublishPreserves ==
  ASSUME NEW t \in Threads, KeyvalInv, Publish(t), UNCHANGED <<implVars, appVars, callVars>>
  PROVE  KeyvalInv'
<1> USE DEF KeyvalInv, TypeOK, TableTypeOK, Publish, Goto, implVars, appVars,
            callVars
<1>1. TypeOK'
  BY DEF Slots, Calls, Unissued, Labels, TableInv, ClaimIsExclusive,
         PublishedOnce, OwnsIndex
<1>2. TableInv'
  BY TablePublish
<1>3. CreateOwnsNumber'
  BY DEF CreateOwnsNumber, Creating
<1>4. NewestIsLive'
  BY UnsetAssumption
  DEF NewestIsLive, Slots, OwnsIndex, CreateOwnsNumber, Creating, TableInv,
      ClaimIsExclusive, PublishedOnce
<1>5. ReferencedIsIssued'
  BY DEF ReferencedIsIssued
<1>6. HeldIsLive'
  BY UnsetAssumption
  DEF HeldIsLive, Names, Converting, Slots, Unissued, TableInv,
      ClaimIsExclusive, PublishedOnce, OwnsIndex
<1>7. CallHasObject'
  BY DEF CallHasObject, Converting
<1>8. FreeIsExclusive'
  BY DEF FreeIsExclusive, Converting, Slots
<1>9. ScanIsAhead'
  BY DEF ScanIsAhead, Scanning
<1> QED  BY <1>1, <1>2, <1>3, <1>4, <1>5, <1>6, <1>7, <1>8, <1>9

\* keyval_dynamic_toabi reads the counter (keyvals.c:98-100).
LEMMA ReadCountPreserves ==
  ASSUME NEW t \in Threads, KeyvalInv, ReadCount(t), UNCHANGED <<implVars, appVars, callVars>>
  PROVE  KeyvalInv'
<1> USE DEF KeyvalInv, TypeOK, TableTypeOK, ReadCount, NewestIndex, Goto,
            implVars, appVars, callVars
<1>1. TypeOK'
  BY CapacityAssumption
  DEF Slots, Calls, Unissued, Labels
<1>2. TableInv'
  BY TableRead, TableElsewhere
<1>3. CreateOwnsNumber'
  BY DEF CreateOwnsNumber, Creating
<1>4. NewestIsLive'
  BY DEF NewestIsLive, Slots, OwnsIndex
<1>5. ReferencedIsIssued'
  BY DEF ReferencedIsIssued
<1>6. HeldIsLive'
  BY DEF HeldIsLive, Names, Converting, Slots, Unissued
<1>7. CallHasObject'
  BY DEF CallHasObject, Converting
<1>8. FreeIsExclusive'
  BY DEF FreeIsExclusive, Converting, Slots
<1>9. ScanIsAhead'
  BY CapacityAssumption, NoKeyAssumption
  DEF ScanIsAhead, Scanning, NewestIsLive, Slots, OwnsIndex,
      ReferencedIsIssued
<1> QED  BY <1>1, <1>2, <1>3, <1>4, <1>5, <1>6, <1>7, <1>8, <1>9

\* It finds the number (keyvals.c:104-105).
LEMMA ScanMatchPreserves ==
  ASSUME NEW t \in Threads, KeyvalInv, ScanMatch(t), UNCHANGED <<implVars, appVars, callVars>>
  PROVE  KeyvalInv'
<1> USE DEF KeyvalInv, TypeOK, TableTypeOK, ScanMatch, Goto, implVars,
            appVars, callVars
<1>1. TypeOK'
  BY DEF Slots, Calls, Unissued, Labels
<1>2. TableInv'
  BY TableRead, TableElsewhere
<1>3. CreateOwnsNumber'
  BY DEF CreateOwnsNumber, Creating
<1>4. NewestIsLive'
  BY DEF NewestIsLive, Slots, OwnsIndex
<1>5. ReferencedIsIssued'
  BY DEF ReferencedIsIssued
<1>6. HeldIsLive'
  BY DEF HeldIsLive, Names, Converting, Slots, Unissued
<1>7. CallHasObject'
  BY DEF CallHasObject, Converting
<1>8. FreeIsExclusive'
  BY DEF FreeIsExclusive, Converting, Slots
<1>9. ScanIsAhead'
  BY CapacityAssumption
  DEF ScanIsAhead, Scanning, NewestIsLive, Slots, OwnsIndex,
      ReferencedIsIssued
<1> QED  BY <1>1, <1>2, <1>3, <1>4, <1>5, <1>6, <1>7, <1>8, <1>9

\* It goes on to the next older entry (keyvals.c:103).
LEMMA ScanNextPreserves ==
  ASSUME NEW t \in Threads, KeyvalInv, ScanNext(t), UNCHANGED <<implVars, appVars, callVars>>
  PROVE  KeyvalInv'
<1> USE DEF KeyvalInv, TypeOK, TableTypeOK, ScanNext, implVars, appVars,
            callVars
<1>1. TypeOK'
  BY DEF Slots, Calls, Unissued, Labels
<1>2. TableInv'
  BY TableRead, TableElsewhere
<1>3. CreateOwnsNumber'
  BY DEF CreateOwnsNumber, Creating
<1>4. NewestIsLive'
  BY DEF NewestIsLive, Slots, OwnsIndex
<1>5. ReferencedIsIssued'
  BY DEF ReferencedIsIssued
<1>6. HeldIsLive'
  BY DEF HeldIsLive, Names, Converting, Slots, Unissued
<1>7. CallHasObject'
  BY DEF CallHasObject, Converting
<1>8. FreeIsExclusive'
  BY DEF FreeIsExclusive, Converting, Slots
<1>9. ScanIsAhead'
  BY CapacityAssumption
  DEF ScanIsAhead, Scanning, NewestIsLive, Slots, OwnsIndex,
      ReferencedIsIssued
<1> QED  BY <1>1, <1>2, <1>3, <1>4, <1>5, <1>6, <1>7, <1>8, <1>9

\* It has seen every entry (keyvals.c:106).
LEMMA ScanEndPreserves ==
  ASSUME NEW t \in Threads, KeyvalInv, ScanEnd(t), UNCHANGED <<implVars, appVars, callVars>>
  PROVE  KeyvalInv'
<1> USE DEF KeyvalInv, TypeOK, TableTypeOK, ScanEnd, Goto, implVars, appVars,
            callVars
<1>1. TypeOK'
  BY DEF Slots, Calls, Unissued, Labels
<1>2. TableInv'
  BY TableRead, TableElsewhere
<1>3. CreateOwnsNumber'
  BY DEF CreateOwnsNumber, Creating
<1>4. NewestIsLive'
  BY DEF NewestIsLive, Slots, OwnsIndex
<1>5. ReferencedIsIssued'
  BY DEF ReferencedIsIssued
<1>6. HeldIsLive'
  BY DEF HeldIsLive, Names, Converting, Slots, Unissued
<1>7. CallHasObject'
  BY DEF CallHasObject, Converting
<1>8. FreeIsExclusive'
  BY DEF FreeIsExclusive, Converting, Slots
<1>9. ScanIsAhead'
  BY DEF ScanIsAhead, Scanning, NewestIsLive, Slots, OwnsIndex,
         ReferencedIsIssued
<1> QED  BY <1>1, <1>2, <1>3, <1>4, <1>5, <1>6, <1>7, <1>8, <1>9

\* keyval_dynamic_fromabi loads the entry (keyvals.c:87).
LEMMA LoadCellPreserves ==
  ASSUME NEW t \in Threads, KeyvalInv, LoadCell(t), UNCHANGED <<implVars, appVars, callVars>>
  PROVE  KeyvalInv'
<1> USE DEF KeyvalInv, TypeOK, TableTypeOK, LoadCell, Goto, implVars, appVars,
            callVars
<1>1. TypeOK'
  BY DEF Slots, Calls, Unissued, Labels, HeldIsLive, Names, Converting
<1>2. TableInv'
  BY TableRead, TableElsewhere
  DEF HeldIsLive, Converting
<1>3. CreateOwnsNumber'
  BY DEF CreateOwnsNumber, Creating
<1>4. NewestIsLive'
  BY DEF NewestIsLive, Slots, OwnsIndex
<1>5. ReferencedIsIssued'
  BY DEF ReferencedIsIssued
<1>6. HeldIsLive'
  BY DEF HeldIsLive, Names, Converting, Slots, Unissued
<1>7. CallHasObject'
  BY DEF CallHasObject, Converting
<1>8. FreeIsExclusive'
  BY DEF FreeIsExclusive, Converting, Slots
<1>9. ScanIsAhead'
  BY DEF ScanIsAhead, Scanning
<1> QED  BY <1>1, <1>2, <1>3, <1>4, <1>5, <1>6, <1>7, <1>8, <1>9

-----------------------------------------------------------------------------
(* The theorems. *)

\* KeyvalInv is an invariant of the registry and of everything around it, for
\* every interleaving of the calls of any number of threads.
THEOREM InvariantHolds == Spec => []KeyvalInv
<1>1. Init => KeyvalInv  BY InitEstablishes
<1>2. KeyvalInv /\ [Next]_vars => KeyvalInv'
  <2> SUFFICES ASSUME KeyvalInv, [Next]_vars
               PROVE  KeyvalInv'
    OBVIOUS
  <2>1. ASSUME NEW t \in Threads, TableAction(t)
        PROVE  KeyvalInv'
    BY <2>1, ClaimPreserves, ResetCounterPreserves, PublishPreserves,
       ReadCountPreserves, ScanMatchPreserves, ScanNextPreserves,
       ScanEndPreserves, LoadCellPreserves
    DEF TableAction, TableStep
  <2>2. ASSUME NEW t \in Threads, Step(t)
        PROVE  KeyvalInv'
    BY <2>1, <2>2, CreateReturnsPreserves, CreateFailsPreserves,
       CheckKeyvalPreserves, RefusedPreserves, ForwardReadPreserves,
       ForwardStorePreserves, ForwardDeletePreserves, ForwardFreePreserves,
       EndDeletePreserves, EndReplacePreserves, EndCopyPreserves
    DEF Step
  <2>3. ASSUME NEW t \in Threads, Begin(t)
        PROVE  KeyvalInv'
    BY <2>3, CreateKeyvalPreserves, UseKeyvalPreserves, FreeKeyvalPreserves,
       StartCallbackPreserves
    DEF Begin
  <2>4. CASE UNCHANGED vars
    BY <2>4
    DEF vars, tableVars, implVars, appVars, callVars, KeyvalInv, TypeOK,
        TableTypeOK, TableInv, UnclaimedIsUnset, ClaimIsExclusive, OwnsIndex,
        PublishedOnce, FullMeansFull, CreateOwnsNumber, Creating,
        NewestIsLive, ReferencedIsIssued, HeldIsLive, Converting, Names,
        CallHasObject, FreeIsExclusive, ScanIsAhead, Scanning
  <2> QED  BY <2>2, <2>3, <2>4 DEF Next
<1> QED  BY <1>1, <1>2, PTL DEF Spec

\* The state of the registry, of the implementation's keys and of every call
\* keeps its type; in particular, an ABI keyval is always an index of the
\* table, although the counter may be past its end (keyvals.c:62-77).
THEOREM TypeCorrect == Spec => []TypeOK
<1>1. KeyvalInv => TypeOK  BY DEF KeyvalInv
<1> QED  BY <1>1, InvariantHolds, PTL

\* A copy or delete function is called with the keyval under which its
\* attribute was set (extrastate.c:75, 93 and keyvals.c:96-107).
THEOREM CallbacksNameTheirKey == Spec => []CallbackNamesItsKey
<1>1. KeyvalInv => CallbackNamesItsKey
  BY DEF KeyvalInv, ScanIsAhead, Scanning, CallbackNamesItsKey
<1> QED  BY <1>1, InvariantHolds, PTL

\* A call with a keyval reaches the key it was given for, and one with an
\* integer that is no keyval reaches none (keyvals.c:80-88).
THEOREM CallsReachTheirKey == Spec => []CallReachesItsKey
<1>1. KeyvalInv => CallReachesItsKey
  <2> SUFFICES ASSUME KeyvalInv, NEW t \in Threads
               PROVE  /\ pc[t] = "loaded" => /\ arg[t] \in Slots
                                             /\ val[t] \in Values
                                             /\ key[val[t]] = "live"
                                             /\ abi[val[t]] = arg[t]
                      /\ pc[t] = "nosuch" => arg[t] = Unissued
    BY DEF CallReachesItsKey
  <2> QED  BY DEF KeyvalInv, HeldIsLive, Converting, Names
<1> QED  BY <1>1, InvariantHolds, PTL

\* However many calls find the registry full, the counter is past its end by
\* no more than the threads that are about to put it back (keyvals.c:64-73).
THEOREM CounterNeverRunsAway == Spec => []CounterStaysInReach
<1>1. Init => CounterStaysInReach
  <2>1. Init => count = 0  BY DEF Init, TableInit
  <2> QED  BY <2>1, OverflowingFinite, CapacityAssumption DEF CounterStaysInReach
<1>2. KeyvalInv /\ CounterStaysInReach /\ [Next]_vars => CounterStaysInReach'
  <2> SUFFICES ASSUME KeyvalInv, CounterStaysInReach, [Next]_vars
               PROVE  CounterStaysInReach'
    OBVIOUS
  <2> USE DEF KeyvalInv, TypeOK
  <2>1. ASSUME NEW t \in Threads, Claim(t)
        PROVE  CounterStaysInReach'
    BY <2>1, CounterClaim
  <2>2. ASSUME NEW t \in Threads, ResetCounter(t)
        PROVE  CounterStaysInReach'
    BY <2>2, CounterReset
  <2>3. ASSUME NEW t \in Threads, Begin(t)
        PROVE  count' = count /\ Overflowing' = Overflowing
    BY <2>3
    DEF Begin, CreateKeyval, UseKeyval, FreeKeyval, Present, StartCallback,
        Goto, TableTypeOK, Overflowing
  <2>4. ASSUME NEW t \in Threads, Step(t), ~Claim(t), ~ResetCounter(t)
        PROVE  count' = count /\ Overflowing' = Overflowing
    BY <2>4
    DEF Step, TableAction, TableStep, Publish, ReadCount, ScanMatch, ScanNext,
        ScanEnd, LoadCell, CheckKeyval, CheckIndex, CreateReturns,
        CreateFails, Refused, ForwardRead, ForwardStore, ForwardDelete,
        ForwardFree, EndDelete, EndReplace, EndCopy, Return, Leave, Goto,
        implVars, TableTypeOK, Overflowing
  <2>5. CASE UNCHANGED vars
    BY <2>5, CounterElsewhere DEF vars, tableVars, Overflowing
  <2> QED  BY <2>1, <2>2, <2>3, <2>4, <2>5, CounterElsewhere DEF Next
<1> QED  BY <1>1, <1>2, InvariantHolds, PTL DEF Spec

-----------------------------------------------------------------------------
(***************************************************************************)
(* Keyvals implements KeyvalMap: the registry, with its table that several *)
(* threads scan and append to at once, looks to its callers like a map     *)
(* whose conversions are atomic.  A step of a thread asks, answers, or     *)
(* uses an answer, or it binds a keyval, or the map does not see it.       *)
(***************************************************************************)
\* What the other threads ask for and are told does not change.
Alone(t) ==
  \A u \in Threads \ {t} :
    pc'[u] = pc[u] /\ val'[u] = val[u] /\ idx'[u] = idx[u] /\ arg'[u] = arg[u]

Asked   == [t \in Threads |-> AskedBy(t)]
Answers == [t \in Threads |-> AnswerTo(t)]

\* A step of one thread changes the map's variables at that thread only.
LEMMA OneThread ==
  ASSUME NEW t \in Threads, Alone(t)
  PROVE  /\ Asked' = [Asked EXCEPT ![t] = AskedBy(t)']
         /\ Answers' = [Answers EXCEPT ![t] = AnswerTo(t)']
<1>1. \A u \in Threads \ {t} : AskedBy(u)' = AskedBy(u) /\ AnswerTo(u)' = AnswerTo(u)
  BY DEF Alone, AskedBy, AnswerTo
<1> QED  BY <1>1 DEF Asked, Answers

\* Only a thread that is about to return from, or to enter, "added" changes
\* what has been issued.
LEMMA NothingIssued ==
  ASSUME NEW t \in Threads, Alone(t), cell' = cell,
         pc[t] # "added", pc'[t] # "added"
  PROVE  Issued' = Issued
BY DEF Alone, Issued

\* A step the map does not see.
LEMMA Unseen ==
  ASSUME NEW t \in Threads, Alone(t), abi' = abi, Issued' = Issued,
         AskedBy(t)' = AskedBy(t), AnswerTo(t)' = AnswerTo(t)
  PROVE  UNCHANGED Map!mapVars
<1>1. Asked' = Asked /\ Answers' = Answers
  BY OneThread DEF Asked, Answers
<1> QED  BY <1>1 DEF Map!mapVars, Asked, Answers

\* A step that asks.
LEMMA Asks ==
  ASSUME NEW t \in Threads, Alone(t), abi' = abi, Issued' = Issued,
         AskedBy(t) = Map!Nothing \/ AnswerTo(t) # NoKey,
         AnswerTo(t)' = NoKey,
         \/ \E n \in Values : abi[n] # NoKey /\ AskedBy(t)' = <<"toabi", n>>
         \/ \E s \in Issued : AskedBy(t)' = <<"fromabi", s>>
  PROVE  Map!Next
<1>1. /\ Asked' = [Asked EXCEPT ![t] = AskedBy(t)']
      /\ Answers' = [Answers EXCEPT ![t] = NoKey]
  BY OneThread
<1>2. Asked[t] = AskedBy(t) /\ Answers[t] = AnswerTo(t)
  BY DEF Asked, Answers
<1>3. Map!Ask(t, AskedBy(t)')
  BY <1>1, <1>2 DEF Map!Ask, Asked, Answers
<1>4. Map!AskToAbi(t) \/ Map!AskFromAbi(t)
  BY <1>3 DEF Map!AskToAbi, Map!AskFromAbi
<1> QED  BY <1>4 DEF Map!Next

\* A step that answers.
LEMMA IsAnswered ==
  ASSUME NEW t \in Threads, Alone(t), abi' = abi, Issued' = Issued,
         AnswerTo(t) = NoKey, AskedBy(t)' = AskedBy(t),
         \/ \E n \in Values : AskedBy(t) = <<"toabi", n>> /\ AnswerTo(t)' = abi[n]
         \/ \E s \in Slots : /\ AskedBy(t) = <<"fromabi", s>>
                             /\ AnswerTo(t)' \in Values
                             /\ abi[AnswerTo(t)'] = s
  PROVE  Map!Next
<1>1. /\ Asked' = Asked
      /\ Answers' = [Answers EXCEPT ![t] = AnswerTo(t)']
  BY OneThread DEF Asked
<1>2. Asked[t] = AskedBy(t) /\ Answers[t] = AnswerTo(t)
  BY DEF Asked, Answers
<1>3. UNCHANGED <<abi, Issued, Asked>> /\ Answers[t] = NoKey
  BY <1>1, <1>2
<1>4. CASE \E n \in Values : AskedBy(t) = <<"toabi", n>> /\ AnswerTo(t)' = abi[n]
  <2>1. PICK n \in Values : AskedBy(t) = <<"toabi", n>> /\ AnswerTo(t)' = abi[n]
    BY <1>4
  <2>2. /\ Asked[t][1] = "toabi"
        /\ Answers' = [Answers EXCEPT ![t] = abi[Asked[t][2]]]
    BY <1>1, <1>2, <2>1
  <2>3. Map!Answer(t)
    BY <1>3, <2>2 DEF Map!Answer, Asked, Answers
  <2> QED  BY <2>3 DEF Map!Next
<1>5. CASE \E s \in Slots : /\ AskedBy(t) = <<"fromabi", s>>
                             /\ AnswerTo(t)' \in Values
                             /\ abi[AnswerTo(t)'] = s
  <2>1. PICK s \in Slots : /\ AskedBy(t) = <<"fromabi", s>>
                           /\ AnswerTo(t)' \in Values
                           /\ abi[AnswerTo(t)'] = s
    BY <1>5
  <2>2. Asked[t][1] = "fromabi" /\ Asked[t][2] = s
    BY <1>2, <2>1
  <2>3. /\ Asked[t][1] = "fromabi"
        /\ \E n \in Values : /\ abi[n] = Asked[t][2]
                             /\ Answers' = [Answers EXCEPT ![t] = n]
    BY <1>1, <2>1, <2>2
  <2>4. Map!Answer(t)
    BY <1>3, <2>3 DEF Map!Answer, Asked, Answers
  <2> QED  BY <2>4 DEF Map!Next
<1> QED  BY <1>4, <1>5

\* A step that uses the answer.
LEMMA Finishes ==
  ASSUME NEW t \in Threads, Alone(t), Issued' = Issued,
         AnswerTo(t) # NoKey, AnswerTo(t)' = NoKey, AskedBy(t)' = Map!Nothing,
         abi' = abi \/ \E n \in Values : abi' = [abi EXCEPT ![n] = NoKey]
  PROVE  Map!Next
<1>1. /\ Asked' = [Asked EXCEPT ![t] = Map!Nothing]
      /\ Answers' = [Answers EXCEPT ![t] = NoKey]
  BY OneThread
<1>2. Answers[t] = AnswerTo(t)
  BY DEF Answers
<1>3. Map!Finish(t)
  BY <1>1, <1>2 DEF Map!Finish, Asked, Answers
<1> QED  BY <1>3 DEF Map!Next

-----------------------------------------------------------------------------
(* The accesses to the table. *)

\* Claiming an index, putting the counter back, reading the counter, the index
\* check and a scan that goes on are the table's own business.
LEMMA TableWorkIsUnseen ==
  ASSUME NEW t \in Threads, KeyvalInv, UNCHANGED <<implVars, appVars, callVars>>,
         \/ Claim(t) \/ ResetCounter(t) \/ ReadCount(t) \/ ScanNext(t)
         \/ CheckIndex(t, NewestIndex + 1)
  PROVE  UNCHANGED Map!mapVars
<1> USE DEF Claim, ResetCounter, ReadCount, ScanNext, CheckIndex, Goto, KeyvalInv,
            TypeOK, TableTypeOK, appVars, callVars
<1>1. Alone(t) /\ cell' = cell /\ abi' = abi
  BY DEF Alone
<1>2. pc[t] # "added" /\ pc'[t] # "added"
  OBVIOUS
<1>3. AskedBy(t)' = AskedBy(t)
  BY DEF AskedBy, Scanning, Converting
<1>4. AnswerTo(t)' = AnswerTo(t)
  BY DEF AnswerTo
<1>5. Issued' = Issued
  BY <1>1, <1>2, NothingIssued
<1> QED  BY <1>1, <1>3, <1>4, <1>5, Unseen

\* A published index has been issued only when the create call returns it.
LEMMA PublishIsUnseen ==
  ASSUME NEW t \in Threads, KeyvalInv, UNCHANGED <<implVars, appVars, callVars>>,
         Publish(t)
  PROVE  UNCHANGED Map!mapVars
<1> USE DEF Publish, Goto, KeyvalInv, TypeOK, TableTypeOK, appVars, callVars
<1>1. Alone(t) /\ abi' = abi
  BY DEF Alone
<1>2. AskedBy(t)' = AskedBy(t) /\ AnswerTo(t)' = AnswerTo(t)
  BY DEF AskedBy, AnswerTo, Scanning, Converting
<1>3. idx[t] \in Slots /\ cell[idx[t]] = Unset /\ cell' = [cell EXCEPT ![idx[t]] = val[t]]
  BY DEF TableInv, ClaimIsExclusive, PublishedOnce, OwnsIndex
<1>4. pc'[t] = "added" /\ idx' = idx /\ pc[t] = "publish"
  OBVIOUS
<1>5. \A s \in Slots : s \in Issued' <=> s \in Issued
  <2> TAKE s \in Slots
  <2>1. CASE s = idx[t]
    BY <1>3, <1>4, <2>1 DEF Issued
  <2>2. CASE s # idx[t]
    BY <1>1, <1>3, <1>4, <2>2 DEF Issued, Alone
  <2> QED  BY <2>1, <2>2
<1>6. Issued' = Issued
  BY <1>5 DEF Issued
<1> QED  BY <1>1, <1>2, <1>6, Unseen

\* The scan ends at the entry that is bound to the number it looks for.
LEMMA ScanMatchAnswers ==
  ASSUME NEW t \in Threads, KeyvalInv, KeyvalInv', ScanMatch(t),
         UNCHANGED <<implVars, appVars, callVars>>
  PROVE  Map!Next
<1> USE DEF ScanMatch, Goto, appVars, callVars
<1>1. pc' = [pc EXCEPT ![t] = "found"] /\ pc \in [Threads -> Labels]
  BY DEF KeyvalInv, TypeOK, TableTypeOK
<1>2. Alone(t) /\ cell' = cell /\ abi' = abi /\ val' = val
  BY <1>1 DEF Alone
<1>3. Issued' = Issued
  BY <1>1, <1>2, NothingIssued
<1>4. val[t] \in Values /\ idx'[t] = abi[val[t]]
  BY <1>1, <1>2 DEF KeyvalInv, ScanIsAhead, Scanning
<1>5. /\ AskedBy(t) = <<"toabi", val[t]>> /\ AskedBy(t)' = AskedBy(t)
      /\ AnswerTo(t) = NoKey /\ AnswerTo(t)' = abi[val[t]]
  BY <1>1, <1>2, <1>4 DEF AskedBy, AnswerTo, Scanning
<1> QED  BY <1>2, <1>3, <1>4, <1>5, IsAnswered

\* The cell holds the number that is bound to its index.
LEMMA LoadCellAnswers ==
  ASSUME NEW t \in Threads, KeyvalInv, LoadCell(t),
         UNCHANGED <<implVars, appVars, callVars>>
  PROVE  Map!Next
<1> USE DEF LoadCell, Goto, appVars, callVars
<1>1. /\ pc' = [pc EXCEPT ![t] = "loaded"] /\ pc \in [Threads -> Labels]
      /\ val' = [val EXCEPT ![t] = cell[idx[t]]] /\ DOMAIN val = Threads
  BY DEF KeyvalInv, TypeOK, TableTypeOK
<1>2. Alone(t) /\ cell' = cell /\ abi' = abi /\ arg' = arg
  BY <1>1 DEF Alone
<1>3. Issued' = Issued
  BY <1>1, <1>2, NothingIssued
<1>4. /\ arg[t] \in Slots /\ idx[t] = arg[t]
      /\ cell[arg[t]] \in Values /\ abi[cell[arg[t]]] = arg[t]
  BY DEF KeyvalInv, HeldIsLive, Converting, Names
<1>5. /\ AskedBy(t) = <<"fromabi", arg[t]>> /\ AskedBy(t)' = AskedBy(t)
      /\ AnswerTo(t) = NoKey /\ AnswerTo(t)' = cell[arg[t]]
  BY <1>1, <1>2, <1>4 DEF AskedBy, AnswerTo, Converting, Scanning
<1> QED  BY <1>2, <1>3, <1>4, <1>5, IsAnswered

\* A scan for an attribute's number does not reach the end of the table.
LEMMA ScanEndsEarlier ==
  ASSUME NEW t \in Threads, KeyvalInv, ScanEnd(t)
  PROVE  FALSE
<1>1. /\ pc[t] = "scan" /\ idx[t] < 0
      /\ val[t] \in Values /\ attrs[val[t]] # {} /\ idx[t] >= abi[val[t]]
  BY DEF ScanEnd, KeyvalInv, ScanIsAhead, Scanning
<1>2. abi[val[t]] \in Slots
  BY <1>1 DEF KeyvalInv, ReferencedIsIssued, TypeOK
<1>3. idx[t] \in Int
  BY DEF KeyvalInv, TypeOK, TableTypeOK
<1> QED  BY <1>1, <1>2, <1>3 DEF Slots

-----------------------------------------------------------------------------
(* The entry points and the trampolines. *)

\* A create call that begins or fails, and a call that presents no keyval.
LEMMA OtherCallsAreUnseen ==
  ASSUME NEW t \in Threads, KeyvalInv,
         CreateKeyval(t) \/ CreateFails(t) \/ Refused(t)
  PROVE  UNCHANGED Map!mapVars
<1> USE DEF CreateKeyval, CreateFails, Refused, Return, Leave, Goto, KeyvalInv,
            TypeOK, TableTypeOK, appVars
<1>1. Alone(t) /\ cell' = cell /\ abi' = abi
  BY DEF Alone
<1>2. pc[t] # "added" /\ pc'[t] # "added"
  OBVIOUS
<1>3. pc[t] = "nosuch" => arg[t] \notin Slots
  BY DEF HeldIsLive, Converting, Unissued, Slots
<1>4. AskedBy(t)' = AskedBy(t)
  BY <1>3 DEF AskedBy, Scanning, Converting
<1>5. AnswerTo(t)' = AnswerTo(t)
  BY DEF AnswerTo
<1>6. Issued' = Issued
  BY <1>1, <1>2, NothingIssued
<1> QED  BY <1>1, <1>4, <1>5, <1>6, Unseen

\* The create call returns an index that was never issued before.
LEMMA CreateReturnsBinds ==
  ASSUME NEW t \in Threads, KeyvalInv, CreateReturns(t)
  PROVE  Map!Next
<1> USE DEF CreateReturns, Return, Leave, Goto
<1>1. /\ pc[t] = "added" /\ pc' = [pc EXCEPT ![t] = "idle"]
      /\ pc \in [Threads -> Labels] /\ cell' = cell
      /\ abi' = [abi EXCEPT ![val[t]] = idx[t]]
  BY DEF KeyvalInv, TypeOK, TableTypeOK
<1>2. Alone(t)
  BY DEF Alone, KeyvalInv, TypeOK, TableTypeOK
<1>3. idx[t] \in Slots /\ val[t] \in Values /\ cell[idx[t]] = val[t]
  BY <1>1 DEF KeyvalInv, TableInv, ClaimIsExclusive, PublishedOnce, OwnsIndex
<1>4. \A u \in Threads \ {t} : pc[u] = "added" => idx[u] # idx[t]
  BY <1>1 DEF KeyvalInv, TableInv, ClaimIsExclusive, OwnsIndex
<1>5. cell[idx[t]] # Unset
  BY <1>3, UnsetAssumption
<1>6. idx[t] \in Slots \ Issued
  BY <1>1, <1>3 DEF Issued
<1>7. Issued' = Issued \cup {idx[t]}
  <2>1. \A s \in Slots : s \in Issued' <=> s \in Issued \cup {idx[t]}
    BY <1>1, <1>2, <1>3, <1>4, <1>5 DEF Issued, Alone
  <2>2. Issued' \subseteq Slots /\ Issued \cup {idx[t]} \subseteq Slots
    BY <1>3 DEF Issued, Slots
  <2> QED  BY <2>1, <2>2
<1>8. abi[val[t]] = NoKey
  BY <1>1 DEF KeyvalInv, CreateOwnsNumber, Creating
<1>9. AskedBy(t)' = AskedBy(t) /\ AnswerTo(t)' = AnswerTo(t)
  BY <1>1 DEF AskedBy, AnswerTo, Scanning, Converting
<1>10. Asked' = Asked /\ Answers' = Answers
  BY <1>2, <1>9, OneThread DEF Asked, Answers
<1>11. Map!Bind
  BY <1>1, <1>3, <1>6, <1>7, <1>8, <1>10 DEF Map!Bind, Asked, Answers
<1> QED  BY <1>11 DEF Map!Next

\* A keyval the application may use was issued by a create call.
LEMMA HeldIsIssued ==
  ASSUME KeyvalInv
  PROVE  held \subseteq Issued
<1> SUFFICES ASSUME NEW s \in held
             PROVE  s \in Issued
  OBVIOUS
<1>1. s \in Slots /\ cell[s] \in Values /\ abi[cell[s]] = s
  BY DEF KeyvalInv, HeldIsLive, Names
<1>2. s # NoKey
  BY <1>1, NoKeyAssumption DEF Slots
<1>3. ASSUME NEW u \in Threads, pc[u] = "added", idx[u] = s
      PROVE  FALSE
  <2>1. val[u] = cell[s] /\ abi[val[u]] = NoKey
    BY <1>3 DEF KeyvalInv, TableInv, PublishedOnce, CreateOwnsNumber, Creating
  <2> QED  BY <2>1, <1>1, <1>2
<1>4. cell[s] # Unset
  BY <1>1, UnsetAssumption
<1> QED  BY <1>1, <1>3, <1>4 DEF Issued

\* A call with an ABI keyval asks for the number behind it.
LEMMA PresentAsks ==
  ASSUME NEW t \in Threads, KeyvalInv, NEW c, NEW o, NEW s \in held,
         Present(t, c, o, s)
  PROVE  Map!Next
<1> USE DEF Present, Goto
<1>1. /\ pc[t] = "idle" /\ pc' = [pc EXCEPT ![t] = "check"]
      /\ pc \in [Threads -> Labels]
      /\ arg'[t] = s
  BY DEF KeyvalInv, TypeOK, TableTypeOK
<1>2. Alone(t) /\ cell' = cell /\ abi' = abi
  BY DEF Alone, KeyvalInv, TypeOK, TableTypeOK
<1>3. Issued' = Issued
  BY <1>1, <1>2, NothingIssued
<1>4. s \in Issued /\ s \in Slots
  BY HeldIsIssued DEF Issued
<1>5. AskedBy(t) = Map!Nothing
  BY <1>1 DEF AskedBy, Scanning, Converting, Map!Nothing
<1>6. pc'[t] = "check"
  BY <1>1
<1>7. AskedBy(t)' = <<"fromabi", s>>
  BY <1>1, <1>4, <1>6 DEF AskedBy, Scanning, Converting, Slots
<1>8. AnswerTo(t)' = NoKey
  BY <1>6 DEF AnswerTo
<1> QED  BY <1>2, <1>3, <1>4, <1>5, <1>7, <1>8, Asks

\* A call with an integer that is no keyval asks for nothing.
LEMMA PresentUnissuedIsUnseen ==
  ASSUME NEW t \in Threads, KeyvalInv, NEW c, NEW o, Present(t, c, o, Unissued)
  PROVE  UNCHANGED Map!mapVars
<1> USE DEF Present, Goto
<1>1. /\ pc[t] = "idle" /\ pc' = [pc EXCEPT ![t] = "check"]
      /\ pc \in [Threads -> Labels]
      /\ arg'[t] = Unissued /\ Unissued \notin Slots
  BY DEF KeyvalInv, TypeOK, TableTypeOK, Unissued, Slots
<1>2. Alone(t) /\ cell' = cell /\ abi' = abi
  BY DEF Alone, KeyvalInv, TypeOK, TableTypeOK
<1>3. Issued' = Issued
  BY <1>1, <1>2, NothingIssued
<1>4. pc'[t] = "check"
  BY <1>1
<1>5. AskedBy(t)' = AskedBy(t)
  BY <1>1, <1>4 DEF AskedBy, Scanning, Converting, Slots
<1>6. AnswerTo(t)' = AnswerTo(t)
  BY <1>1, <1>4 DEF AnswerTo
<1> QED  BY <1>2, <1>3, <1>5, <1>6, Unseen

\* A thread that has a number or a keyval to work with has been answered.
LEMMA AnswerIsAValue ==
  ASSUME NEW t \in Threads, KeyvalInv, pc[t] \in {"loaded", "found"}
  PROVE  AnswerTo(t) # NoKey
<1>1. CASE pc[t] = "loaded"
  <2>1. val[t] \in Values
    BY <1>1 DEF KeyvalInv, HeldIsLive, Converting, Names
  <2> QED  BY <1>1, <2>1, NoKeyAssumption DEF AnswerTo
<1>2. CASE pc[t] = "found"
  BY <1>2, NoKeyAssumption DEF AnswerTo, KeyvalInv, TypeOK, TableTypeOK
<1> QED  BY <1>1, <1>2

\* The implementation runs a delete function before it forgets or replaces a
\* value: the call asks again, for the keyval this time.
LEMMA ForwardDeleteAsks ==
  ASSUME NEW t \in Threads, KeyvalInv, ForwardDelete(t)
  PROVE  Map!Next
<1> USE DEF ForwardDelete, Goto
<1>1. /\ pc[t] = "loaded" /\ pc' = [pc EXCEPT ![t] = "count"]
      /\ pc \in [Threads -> Labels]
      /\ attrs[val[t]] # {} /\ val' = val
  BY DEF KeyvalInv, TypeOK, TableTypeOK
<1>2. Alone(t) /\ cell' = cell /\ abi' = abi
  BY DEF Alone, KeyvalInv, TypeOK, TableTypeOK, appVars
<1>3. Issued' = Issued
  BY <1>1, <1>2, NothingIssued
<1>4. val[t] \in Values /\ abi[val[t]] # NoKey
  BY <1>1 DEF KeyvalInv, HeldIsLive, Converting, Names, ReferencedIsIssued
<1>5. pc'[t] = "count"
  BY <1>1
<1>6. AskedBy(t)' = <<"toabi", val[t]>> /\ AnswerTo(t)' = NoKey
  BY <1>1, <1>5 DEF AskedBy, AnswerTo, Scanning
<1> QED  BY <1>1, <1>2, <1>3, <1>4, <1>6, AnswerIsAValue, Asks

\* So does the callback for an attribute of an object that is copied or freed.
LEMMA StartCallbackAsks ==
  ASSUME NEW t \in Threads, KeyvalInv, StartCallback(t)
  PROVE  Map!Next
<1> USE DEF StartCallback, Goto
<1>1. /\ pc[t] = "idle" /\ pc' = [pc EXCEPT ![t] = "count"]
      /\ pc \in [Threads -> Labels]
  BY DEF KeyvalInv, TypeOK, TableTypeOK
<1>2. PICK n \in Values : attrs[n] # {} /\ val' = [val EXCEPT ![t] = n]
  OBVIOUS
<1>3. Alone(t) /\ cell' = cell /\ abi' = abi
  BY DEF Alone, KeyvalInv, TypeOK, TableTypeOK, appVars
<1>4. Issued' = Issued
  BY <1>1, <1>3, NothingIssued
<1>5. abi[n] # NoKey
  BY <1>2 DEF KeyvalInv, ReferencedIsIssued
<1>6. pc'[t] = "count" /\ val'[t] = n
  BY <1>1, <1>2 DEF KeyvalInv, TypeOK, TableTypeOK
<1>7. AskedBy(t) = Map!Nothing
  BY <1>1 DEF AskedBy, Scanning, Converting, Map!Nothing
<1>8. AskedBy(t)' = <<"toabi", n>> /\ AnswerTo(t)' = NoKey
  BY <1>6 DEF AskedBy, AnswerTo, Scanning
<1> QED  BY <1>3, <1>4, <1>5, <1>7, <1>8, Asks

\* Returning from a call with the answer in hand uses it.
LEMMA ReturnFinishes ==
  ASSUME NEW t \in Threads, KeyvalInv, Return(t), cell' = cell,
         pc[t] \in {"loaded", "found"},
         abi' = abi \/ \E n \in Values : abi' = [abi EXCEPT ![n] = NoKey]
  PROVE  Map!Next
<1> USE DEF Return, Leave, Goto
<1>1. pc' = [pc EXCEPT ![t] = "idle"] /\ pc \in [Threads -> Labels]
  BY DEF KeyvalInv, TypeOK, TableTypeOK
<1>2. Alone(t)
  BY DEF Alone, KeyvalInv, TypeOK, TableTypeOK
<1>3. Issued' = Issued
  BY <1>1, <1>2, NothingIssued
<1>4. pc'[t] = "idle"
  BY <1>1
<1>5. AskedBy(t)' = Map!Nothing /\ AnswerTo(t)' = NoKey
  BY <1>4 DEF AskedBy, AnswerTo, Scanning, Converting, Map!Nothing
<1> QED  BY <1>2, <1>3, <1>5, AnswerIsAValue, Finishes

\* The calls that return from the implementation, one by one.
LEMMA ForwardFinishes ==
  ASSUME NEW t \in Threads, KeyvalInv,
         ForwardRead(t) \/ ForwardStore(t) \/ ForwardFree(t)
  PROVE  Map!Next
<1> USE AnswerIsAValue DEF appVars
<1>1. pc[t] = "loaded" /\ Return(t) /\ cell' = cell
  BY DEF ForwardRead, ForwardStore, ForwardFree
<1>2. CASE ForwardRead(t) \/ ForwardStore(t)
  BY <1>1, <1>2, ReturnFinishes DEF ForwardRead, ForwardStore
<1>3. CASE ForwardFree(t)
  <2>1. val[t] \in Values
    BY <1>1 DEF KeyvalInv, HeldIsLive, Converting, Names
  <2>2. abi' = abi \/ abi' = [abi EXCEPT ![val[t]] = NoKey]
    BY <1>3 DEF ForwardFree, Settle
  <2> QED  BY <1>1, <2>1, <2>2, ReturnFinishes
<1> QED  BY <1>2, <1>3

LEMMA CallbackFinishes ==
  ASSUME NEW t \in Threads, KeyvalInv,
         EndDelete(t) \/ EndReplace(t) \/ EndCopy(t)
  PROVE  Map!Next
<1> USE DEF appVars
<1>1. pc[t] \in {"found", "missed"} /\ Return(t) /\ cell' = cell
  BY DEF EndDelete, EndReplace, EndCopy
<1>2. pc[t] = "found" /\ val[t] \in Values
  BY <1>1 DEF KeyvalInv, ScanIsAhead, Scanning
<1>3. abi' = abi \/ abi' = [abi EXCEPT ![val[t]] = NoKey]
  BY DEF EndDelete, EndReplace, EndCopy, Settle
<1> QED  BY <1>1, <1>2, <1>3, ReturnFinishes

-----------------------------------------------------------------------------

\* Initially nothing is bound, issued or asked.
LEMMA InitMaps ==
  ASSUME Init
  PROVE  Map!Init
<1>1. /\ cell = [s \in Slots |-> Unset] /\ pc = [t \in Threads |-> "idle"]
      /\ abi = [n \in Values |-> NoKey]
  BY DEF Init, TableInit
<1>2. Issued = {}
  BY <1>1 DEF Issued
<1>3. \A t \in Threads : AskedBy(t) = Map!Nothing /\ AnswerTo(t) = NoKey
  BY <1>1 DEF AskedBy, AnswerTo, Scanning, Converting, Map!Nothing
<1> QED  BY <1>1, <1>2, <1>3 DEF Map!Init

\* Every step of the registry is a step of the map, or the map stutters.
LEMMA StepMaps ==
  ASSUME KeyvalInv, KeyvalInv', [Next]_vars
  PROVE  [Map!Next]_(Map!mapVars)
<1>1. CASE UNCHANGED vars
  <2>1. /\ UNCHANGED <<cell, pc, val, idx, arg, abi>>
    BY <1>1 DEF vars, tableVars, callVars, appVars
  <2> QED
    BY <2>1 DEF Map!mapVars, Issued, AskedBy, AnswerTo
<1>2. ASSUME NEW t \in Threads, TableAction(t)
      PROVE  [Map!Next]_(Map!mapVars)
  <2>1. UNCHANGED <<implVars, appVars, callVars>> /\ TableStep(t)
    BY <1>2 DEF TableAction
  <2>2. CASE Claim(t) \/ ResetCounter(t) \/ ReadCount(t) \/ ScanNext(t)
    BY <2>1, <2>2, TableWorkIsUnseen
  <2>3. CASE Publish(t)
    BY <2>1, <2>3, PublishIsUnseen
  <2>4. CASE ScanMatch(t)
    BY <2>1, <2>4, ScanMatchAnswers
  <2>5. CASE LoadCell(t)
    BY <2>1, <2>5, LoadCellAnswers
  <2>6. CASE ScanEnd(t)
    BY <2>6, ScanEndsEarlier
  <2> QED  BY <2>1, <2>2, <2>3, <2>4, <2>5, <2>6 DEF TableStep
<1>3. ASSUME NEW t \in Threads, CheckKeyval(t)
      PROVE  [Map!Next]_(Map!mapVars)
  BY <1>3, TableWorkIsUnseen DEF CheckKeyval
<1>4. ASSUME NEW t \in Threads, CreateKeyval(t) \/ CreateFails(t) \/ Refused(t)
      PROVE  [Map!Next]_(Map!mapVars)
  BY <1>4, OtherCallsAreUnseen
<1>5. ASSUME NEW t \in Threads, CreateReturns(t)
      PROVE  [Map!Next]_(Map!mapVars)
  BY <1>5, CreateReturnsBinds
<1>6. ASSUME NEW t \in Threads, UseKeyval(t)
      PROVE  [Map!Next]_(Map!mapVars)
  <2>1. PICK c \in {"set", "get", "delete"}, o \in Objects,
             s \in held \cup {Unissued} : Present(t, c, o, s)
    BY <1>6 DEF UseKeyval
  <2>2. CASE s \in held
    BY <2>1, <2>2, PresentAsks
  <2>3. CASE s = Unissued
    BY <2>1, <2>3, PresentUnissuedIsUnseen
  <2> QED  BY <2>2, <2>3
<1>7. ASSUME NEW t \in Threads, FreeKeyval(t)
      PROVE  [Map!Next]_(Map!mapVars)
  BY <1>7, PresentAsks DEF FreeKeyval
<1>8. ASSUME NEW t \in Threads, ForwardDelete(t) \/ StartCallback(t)
      PROVE  [Map!Next]_(Map!mapVars)
  BY <1>8, ForwardDeleteAsks, StartCallbackAsks
<1>9. ASSUME NEW t \in Threads, ForwardRead(t) \/ ForwardStore(t) \/ ForwardFree(t)
      PROVE  [Map!Next]_(Map!mapVars)
  BY <1>9, ForwardFinishes
<1>10. ASSUME NEW t \in Threads, EndDelete(t) \/ EndReplace(t) \/ EndCopy(t)
       PROVE  [Map!Next]_(Map!mapVars)
  BY <1>10, CallbackFinishes
<1> QED
  BY <1>1, <1>2, <1>3, <1>4, <1>5, <1>6, <1>7, <1>8, <1>9, <1>10
  DEF Next, Step, Begin

(***************************************************************************)
(* The registry behaves as an atomic map: the answer of every conversion   *)
(* is the binding at one moment of the call, and no index is issued twice  *)
(* (keyvals.c:62-107).                                                     *)
(***************************************************************************)
THEOREM RegistryIsAMap == Spec => ImplementsMap
<1>1. Init => Map!Init
  BY InitMaps
<1>2. KeyvalInv /\ KeyvalInv' /\ [Next]_vars => [Map!Next]_(Map!mapVars)
  BY StepMaps
<1>3. Spec => []KeyvalInv
  BY InvariantHolds
<1> QED  BY <1>1, <1>2, <1>3, PTL DEF Spec, ImplementsMap, Map!Spec
=============================================================================
