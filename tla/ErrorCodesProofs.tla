-------------------------- MODULE ErrorCodesProofs ---------------------------
(***************************************************************************)
(* Proofs about ErrorCodes, for any number of threads, any sets of codes   *)
(* and any capacity of the registry.  CodeInv is inductive: one lemma for  *)
(* each action says that the action preserves it, with a step for each     *)
(* conjunct.                                                               *)
(***************************************************************************)
EXTENDS ErrorCodes, AppendTableProofs

Presenting == {"check", "load", "loaded", "nosuch"}
Appending  == {"claim", "overflow", "publish", "added", "full"}
Scanning   == {"count", "scan", "found"}

CodeTypes ==
  /\ live    \subseteq UserCodes
  /\ abi     \in [UserCodes -> Slots \cup {NoCode}]
  /\ meaning \in [Slots -> Values \cup {NoCode}]
  /\ call    \in [Threads -> Calls]
  /\ arg     \in [Threads -> Slots \cup {Unissued, NoCode}]
  /\ before  \in [Threads -> SUBSET Slots]

\* Where a thread is agrees with the call it is in.
CallAt ==
  \A t \in Threads :
    /\ call[t] = "none"    => pc[t] = "idle"
    /\ call[t] = "report"  => pc[t] \in Scanning \cup {"missed"} \cup Appending
    /\ call[t] = "add"     => pc[t] \in Appending
    /\ call[t] = "addcode" => pc[t] \in Presenting \cup Appending
    /\ call[t] \in Reading \cup Removing => pc[t] \in Presenting
    /\ call[t] = "lastused" => pc[t] = "found"

\* ... and says what its locals hold.
Carried ==
  \A t \in Threads :
    /\ pc[t] \in {"check", "load"} => idx[t] = arg[t]
    /\ pc[t] \in Presenting =>
         arg[t] = Unissued \/ (arg[t] \in Slots /\ meaning[arg[t]] # NoCode)
    /\ pc[t] = "load"   => arg[t] \in Slots
    /\ pc[t] = "loaded" => arg[t] \in Slots /\ val[t] = meaning[arg[t]]
    /\ pc[t] = "nosuch" => arg[t] = Unissued
    /\ call[t] = "report" \/ pc[t] = "claim" => val[t] \in Values
    /\ pc[t] = "scan" => idx[t] < Capacity
    /\ call[t] = "report" /\ pc[t] = "found" =>
         idx[t] \in Slots /\ cell[idx[t]] = val[t]

\* The registry still holds what every ABI code was handed out for.
MeaningIsStored ==
  \A s \in Slots : meaning[s] # NoCode => cell[s] = meaning[s]

\* The name of a code the application has added, and the newest entry of it.
AbiIsNewest ==
  \A n \in UserCodes :
    abi[n] # NoCode =>
      /\ n \in live /\ meaning[abi[n]] = n
      /\ \A s \in Slots : cell[s] = n => s <= abi[n]

\* A code that is being added has no name yet, and one adder.
Adding(t) == call[t] \in {"add", "addcode"} /\ pc[t] \in Appending
AddingOwns ==
  /\ \A t \in Threads : Adding(t) =>
       /\ val[t] \in live /\ abi[val[t]] = NoCode
       /\ pc[t] \in {"publish", "added"} =>
            \A s \in Slots : cell[s] = val[t] => s <= idx[t]
  /\ \A t, u \in Threads : t # u /\ Adding(t) /\ Adding(u) => val[t] # val[u]

\* A code that is being removed exists until then, and has one remover.
RemovalOwns ==
  /\ \A t \in Threads : call[t] \in Removing =>
       /\ arg[t] \in Slots
       /\ meaning[arg[t]] \in live /\ abi[meaning[arg[t]]] = arg[t]
  /\ \A t, u \in Threads :
       t # u /\ call[t] \in Removing /\ call[u] \in Removing => arg[t] # arg[u]

\* A conversion has not gone past any name its code had when it began.
ScanIsAhead ==
  \A t \in Threads : call[t] = "report" => \A s \in before[t] :
    cell[s] = val[t] /\ (pc[t] \in {"scan", "found"} => s <= idx[t])

\* A user code is reported only after it was named, so it is not interned.
NamedIsFound ==
  \A t \in Threads : call[t] = "report" =>
    /\ val[t] \in UserCodes => before[t] # {}
    /\ before[t] # {} => pc[t] \in Scanning

CodeInv ==
  /\ TableInv
  /\ CodeTypes
  /\ CallAt
  /\ Carried
  /\ MeaningIsStored
  /\ AbiIsNewest
  /\ AddingOwns
  /\ RemovalOwns
  /\ ScanIsAhead
  /\ NamedIsFound

LEMMA InitEstablishes == Init => CodeInv
<1> SUFFICES ASSUME Init PROVE CodeInv  OBVIOUS
<1> USE DEF Init
<1>1. TableInv  BY TableInitInv
<1>2. \A t \in Threads : pc[t] = "idle" /\ call[t] = "none"  BY DEF TableInit
<1>   QED
  BY <1>1, <1>2
  DEF CodeInv, CodeTypes, CallAt, Carried, MeaningIsStored, AbiIsNewest, Adding,
      AddingOwns, RemovalOwns, ScanIsAhead, NamedIsFound, Calls, Presenting,
      Appending, Scanning, Reading, Removing

\* The index is above every published cell (errorcodes.c:94).
LEMMA ClaimPreserves ==
  ASSUME NEW t \in Threads, CodeInv, Claim(t) /\ UNCHANGED <<codeVars, callVars>>
  PROVE  CodeInv'
<1> USE DEF CodeInv, TableInv, TableTypeOK, Claim, Goto, codeVars, callVars
<1>1. TableInv'
  <2>1. val[t] \in Values  BY DEF Carried
  <2>   QED  BY <2>1, TableClaim
<1>2. CodeTypes'  BY DEF CodeTypes, Calls, Slots
<1>3. CallAt'
  BY DEF CallAt, CodeTypes, Presenting, Appending, Scanning, Reading, Removing
<1>4. Carried'  BY DEF Carried, CodeTypes, Presenting, Slots, Unissued
<1>5. MeaningIsStored'  BY DEF MeaningIsStored, CodeTypes, Slots
<1>6. AbiIsNewest'  BY DEF AbiIsNewest, CodeTypes, Slots
<1>7. AddingOwns'
  BY UnsetAssumption
  DEF AddingOwns, Adding, Carried, UnclaimedIsUnset, CodeTypes, Appending, Slots
<1>8. RemovalOwns'  BY DEF RemovalOwns, CodeTypes, Removing, Slots
<1>9. ScanIsAhead'  BY DEF ScanIsAhead, CodeTypes, Slots
<1>10. NamedIsFound'  BY DEF NamedIsFound, CodeTypes, Scanning
<1> QED  BY <1>1, <1>2, <1>3, <1>4, <1>5, <1>6, <1>7, <1>8, <1>9, <1>10

\* The counter of a full registry is put back (errorcodes.c:100).
LEMMA ResetCounterPreserves ==
  ASSUME NEW t \in Threads, CodeInv, ResetCounter(t) /\ UNCHANGED <<codeVars, callVars>>
  PROVE  CodeInv'
<1> USE DEF CodeInv, TableInv, TableTypeOK, ResetCounter, Goto, codeVars, callVars
<1>1. TableInv'  BY TableReset
<1>2. CodeTypes'  BY DEF CodeTypes, Calls, Slots
<1>3. CallAt'
  BY DEF CallAt, CodeTypes, Presenting, Appending, Scanning, Reading, Removing
<1>4. Carried'  BY DEF Carried, CodeTypes, Presenting, Slots, Unissued
<1>5. MeaningIsStored'  BY DEF MeaningIsStored, CodeTypes, Slots
<1>6. AbiIsNewest'  BY DEF AbiIsNewest, CodeTypes, Slots
<1>7. AddingOwns'  BY DEF AddingOwns, Adding, CodeTypes, Appending, Slots
<1>8. RemovalOwns'  BY DEF RemovalOwns, CodeTypes, Removing, Slots
<1>9. ScanIsAhead'  BY DEF ScanIsAhead, CodeTypes, Slots
<1>10. NamedIsFound'  BY DEF NamedIsFound, CodeTypes, Scanning
<1> QED  BY <1>1, <1>2, <1>3, <1>4, <1>5, <1>6, <1>7, <1>8, <1>9, <1>10

\* The one step that changes a cell: an empty one, of a code that has no name
\* (errorcodes.c:104).
LEMMA PublishPreserves ==
  ASSUME NEW t \in Threads, CodeInv, Publish(t) /\ UNCHANGED <<codeVars, callVars>>
  PROVE  CodeInv'
<1> USE DEF CodeInv, TableInv, TableTypeOK, Publish, Goto, codeVars, callVars
<1>0. /\ idx[t] \in Slots /\ cell[idx[t]] = Unset /\ val[t] \in Values
      /\ cell' = [cell EXCEPT ![idx[t]] = val[t]]
      /\ Adding(t) \/ (call[t] = "report" /\ val[t] \notin UserCodes)
  <2>1. /\ idx[t] \in Slots /\ cell[idx[t]] = Unset /\ val[t] \in Values
        /\ cell' = [cell EXCEPT ![idx[t]] = val[t]]
    BY DEF ClaimIsExclusive, PublishedOnce, OwnsIndex
  <2>2. call[t] \in {"add", "addcode", "report"}
    BY DEF CallAt, CodeTypes, Calls, Presenting, Reading, Removing
  <2>3. Adding(t) \/ (call[t] = "report" /\ val[t] \notin UserCodes)
    BY <2>2 DEF Adding, Appending, NamedIsFound, Scanning
  <2>   QED  BY <2>1, <2>3
<1>1. TableInv'  BY TablePublish
<1>2. CodeTypes'  BY <1>0 DEF CodeTypes, Calls, Slots
<1>3. CallAt'
  BY <1>0 DEF CallAt, CodeTypes, Presenting, Appending, Scanning, Reading, Removing
<1>4. Carried'
  BY <1>0, UnsetAssumption DEF Carried, CodeTypes, Presenting, Slots, Unissued
<1>5. MeaningIsStored'
  BY <1>0, UnsetAssumption, NoCodeAssumption DEF MeaningIsStored, CodeTypes
<1>6. AbiIsNewest'
  <2>1. val[t] \in UserCodes => abi[val[t]] = NoCode
    BY <1>0 DEF AddingOwns
  <2>   QED  BY <1>0, <2>1 DEF AbiIsNewest, CodeTypes
<1>7. AddingOwns'
  <2>1. \A u \in Threads \ {t} : Adding(u) => val[u] # val[t]
    BY <1>0 DEF AddingOwns, CodeTypes
  <2>2. \A u \in Threads : Adding(u)' <=> Adding(u)
    BY DEF Adding, Appending
  <2>3. Adding(t) => \A s \in Slots : cell[s] = val[t] => s <= idx[t]
    BY DEF AddingOwns
  <2>4. idx[t] <= idx[t]  BY <1>0 DEF Slots
  <2>   QED  BY <1>0, <2>1, <2>2, <2>3, <2>4 DEF AddingOwns
<1>8. RemovalOwns'  BY <1>0 DEF RemovalOwns, CodeTypes, Removing, Slots
<1>9. ScanIsAhead'
  BY <1>0, UnsetAssumption DEF ScanIsAhead, Carried, CodeTypes
<1>10. NamedIsFound'  BY <1>0 DEF NamedIsFound, CodeTypes, Scanning
<1> QED  BY <1>1, <1>2, <1>3, <1>4, <1>5, <1>6, <1>7, <1>8, <1>9, <1>10

\* A scan begins at or above every published cell (errorcodes.c:146).
LEMMA ReadCountPreserves ==
  ASSUME NEW t \in Threads, CodeInv, ReadCount(t) /\ UNCHANGED <<codeVars, callVars>>
  PROVE  CodeInv'
<1> USE DEF CodeInv, TableInv, TableTypeOK, ReadCount, Goto, codeVars, callVars
<1>1. TableInv'  BY TableRead, TableElsewhere
<1>2. CodeTypes'  BY DEF CodeTypes, Calls, Slots
<1>3. CallAt'
  BY DEF CallAt, CodeTypes, Presenting, Appending, Scanning, Reading, Removing
<1>4. Carried'
  BY NewestIndexCovers, CapacityAssumption DEF Carried, CodeTypes, Presenting, Slots, Unissued
<1>5. MeaningIsStored'  BY DEF MeaningIsStored, CodeTypes, Slots
<1>6. AbiIsNewest'  BY DEF AbiIsNewest, CodeTypes, Slots
<1>7. AddingOwns'  BY DEF AddingOwns, Adding, CodeTypes, Appending, Slots
<1>8. RemovalOwns'  BY DEF RemovalOwns, CodeTypes, Removing, Slots
<1>9. ScanIsAhead'
  <2>1. call[t] = "report" => \A s \in before[t] : s <= NewestIndex
    BY NewestIndexCovers, UnsetAssumption
    DEF ScanIsAhead, Carried, CodeTypes, UnclaimedIsUnset, Slots
  <2>   QED  BY <2>1 DEF ScanIsAhead
<1>10. NamedIsFound'  BY DEF NamedIsFound, CodeTypes, Scanning
<1> QED  BY <1>1, <1>2, <1>3, <1>4, <1>5, <1>6, <1>7, <1>8, <1>9, <1>10

\* The scan finds the code (errorcodes.c:148).
LEMMA ScanMatchPreserves ==
  ASSUME NEW t \in Threads, CodeInv, ScanMatch(t) /\ UNCHANGED <<codeVars, callVars>>
  PROVE  CodeInv'
<1> USE DEF CodeInv, TableInv, TableTypeOK, ScanMatch, Goto, codeVars, callVars
<1>1. TableInv'  BY TableRead, TableElsewhere
<1>2. CodeTypes'  BY DEF CodeTypes, Calls, Slots
<1>3. CallAt'
  BY DEF CallAt, CodeTypes, Presenting, Appending, Scanning, Reading, Removing
<1>4. Carried'
  BY CapacityAssumption DEF Carried, CodeTypes, Presenting, Slots, Unissued
<1>5. MeaningIsStored'  BY DEF MeaningIsStored, CodeTypes, Slots
<1>6. AbiIsNewest'  BY DEF AbiIsNewest, CodeTypes, Slots
<1>7. AddingOwns'  BY DEF AddingOwns, Adding, CodeTypes, Appending, Slots
<1>8. RemovalOwns'  BY DEF RemovalOwns, CodeTypes, Removing, Slots
<1>9. ScanIsAhead'  BY DEF ScanIsAhead, CodeTypes, Slots
<1>10. NamedIsFound'  BY DEF NamedIsFound, CodeTypes, Scanning
<1> QED  BY <1>1, <1>2, <1>3, <1>4, <1>5, <1>6, <1>7, <1>8, <1>9, <1>10

\* It goes on below a cell that holds another code (errorcodes.c:147).
LEMMA ScanNextPreserves ==
  ASSUME NEW t \in Threads, CodeInv, ScanNext(t) /\ UNCHANGED <<codeVars, callVars>>
  PROVE  CodeInv'
<1> USE DEF CodeInv, TableInv, TableTypeOK, ScanNext, Goto, codeVars, callVars
<1>1. TableInv'  BY TableRead, TableElsewhere
<1>2. CodeTypes'  BY DEF CodeTypes, Calls, Slots
<1>3. CallAt'
  BY DEF CallAt, CodeTypes, Presenting, Appending, Scanning, Reading, Removing
<1>4. Carried'
  BY CapacityAssumption DEF Carried, CodeTypes, Presenting, Slots, Unissued
<1>5. MeaningIsStored'  BY DEF MeaningIsStored, CodeTypes, Slots
<1>6. AbiIsNewest'  BY DEF AbiIsNewest, CodeTypes, Slots
<1>7. AddingOwns'  BY DEF AddingOwns, Adding, CodeTypes, Appending, Slots
<1>8. RemovalOwns'  BY DEF RemovalOwns, CodeTypes, Removing, Slots
<1>9. ScanIsAhead'  BY DEF ScanIsAhead, CodeTypes, Slots
<1>10. NamedIsFound'  BY DEF NamedIsFound, CodeTypes, Scanning
<1> QED  BY <1>1, <1>2, <1>3, <1>4, <1>5, <1>6, <1>7, <1>8, <1>9, <1>10

\* It ends without a match, which no named code does.
LEMMA ScanEndPreserves ==
  ASSUME NEW t \in Threads, CodeInv, ScanEnd(t) /\ UNCHANGED <<codeVars, callVars>>
  PROVE  CodeInv'
<1> USE DEF CodeInv, TableInv, TableTypeOK, ScanEnd, Goto, codeVars, callVars
<1>1. TableInv'  BY TableRead, TableElsewhere
<1>2. CodeTypes'  BY DEF CodeTypes, Calls, Slots
<1>3. CallAt'
  BY DEF CallAt, CodeTypes, Presenting, Appending, Scanning, Reading, Removing
<1>4. Carried'  BY DEF Carried, CodeTypes, Presenting, Slots, Unissued
<1>5. MeaningIsStored'  BY DEF MeaningIsStored, CodeTypes, Slots
<1>6. AbiIsNewest'  BY DEF AbiIsNewest, CodeTypes, Slots
<1>7. AddingOwns'  BY DEF AddingOwns, Adding, CodeTypes, Appending, Slots
<1>8. RemovalOwns'  BY DEF RemovalOwns, CodeTypes, Removing, Slots
<1>9. ScanIsAhead'  BY DEF ScanIsAhead, CodeTypes, Slots
<1>10. NamedIsFound'
  BY DEF NamedIsFound, ScanIsAhead, CodeTypes, Scanning, Slots
<1> QED  BY <1>1, <1>2, <1>3, <1>4, <1>5, <1>6, <1>7, <1>8, <1>9, <1>10

\* A conversion to the implementation's code loads the cell (errorcodes.c:134).
LEMMA LoadCellPreserves ==
  ASSUME NEW t \in Threads, CodeInv, LoadCell(t) /\ UNCHANGED <<codeVars, callVars>>
  PROVE  CodeInv'
<1> USE DEF CodeInv, TableInv, TableTypeOK, LoadCell, Goto, codeVars, callVars
<1>0. call[t] # "report" /\ cell[idx[t]] = meaning[arg[t]] /\ arg[t] \in Slots
  <2>1. call[t] # "report"  BY DEF CallAt, Scanning, Appending
  <2>2. arg[t] \in Slots /\ idx[t] = arg[t] /\ meaning[arg[t]] # NoCode
    BY CapacityAssumption DEF Carried, Presenting, Unissued, Slots
  <2>   QED  BY <2>1, <2>2 DEF MeaningIsStored
<1>1. TableInv'
  <2>1. idx[t] \in Slots  BY <1>0 DEF Carried
  <2>   QED  BY <2>1, TableRead, TableElsewhere
<1>2. CodeTypes'  BY <1>0 DEF CodeTypes, Calls, Slots
<1>3. CallAt'
  BY <1>0 DEF CallAt, CodeTypes, Presenting, Appending, Scanning, Reading, Removing
<1>4. Carried'
  BY <1>0 DEF Carried, CodeTypes, Presenting, Slots, Unissued
<1>5. MeaningIsStored'  BY <1>0 DEF MeaningIsStored, CodeTypes, Slots
<1>6. AbiIsNewest'  BY <1>0 DEF AbiIsNewest, CodeTypes, Slots
<1>7. AddingOwns'  BY <1>0 DEF AddingOwns, Adding, CodeTypes, Appending, Slots
<1>8. RemovalOwns'  BY <1>0 DEF RemovalOwns, CodeTypes, Removing, Slots
<1>9. ScanIsAhead'
  BY <1>0 DEF ScanIsAhead
<1>10. NamedIsFound'
  BY <1>0 DEF NamedIsFound, Scanning
<1> QED  BY <1>1, <1>2, <1>3, <1>4, <1>5, <1>6, <1>7, <1>8, <1>9, <1>10

\* A code that was handed out is below the counter (errorcodes.c:132).
LEMMA CheckCodePreserves ==
  ASSUME NEW t \in Threads, CodeInv, CheckCode(t)
  PROVE  CodeInv'
<1> USE DEF CodeInv, TableInv, TableTypeOK, CheckCode, CheckIndex, Goto, codeVars, callVars
<1>0. /\ idx[t] = arg[t]
      /\ arg[t] = Unissued => arg[t] \notin 0 .. NewestIndex
      /\ arg[t] # Unissued => arg[t] \in Slots /\ arg[t] \in 0 .. NewestIndex
      /\ NewestIndex \in Int
  <2>1. idx[t] = arg[t]  BY DEF Carried
  <2>2. NewestIndex \in -1 .. Capacity - 1
    BY NewestIndexCovers
  <2>3. ASSUME arg[t] # Unissued  PROVE  arg[t] \in Slots /\ arg[t] \in 0 .. NewestIndex
    <3>1. arg[t] \in Slots /\ meaning[arg[t]] # NoCode
      BY <2>3 DEF Carried, Presenting
    <3>2. cell[arg[t]] # Unset
      BY <3>1, UnsetAssumption DEF MeaningIsStored, CodeTypes
    <3>3. arg[t] <= NewestIndex
      BY <3>1, <3>2, NewestIndexCovers DEF UnclaimedIsUnset, Slots
    <3>   QED  BY <3>1, <3>3, <2>2 DEF Slots
  <2>   QED  BY <2>1, <2>2, <2>3, CapacityAssumption DEF Unissued
<1>1. TableInv'
  <2>1. Elsewhere(t)
    BY DEF Elsewhere, TableInv, CodeTypes, Labels, Slots, OwnsIndex, TableTypeOK
  <2>   QED  BY <2>1, TableElsewhere
<1>2. CodeTypes'  BY <1>0 DEF CodeTypes, Calls, Slots
<1>3. CallAt'
  BY <1>0 DEF CallAt, CodeTypes, Presenting, Appending, Scanning, Reading, Removing
<1>4. Carried'
  BY <1>0 DEF Carried, CodeTypes, Presenting, Slots, Unissued
<1>5. MeaningIsStored'  BY <1>0 DEF MeaningIsStored, CodeTypes, Slots
<1>6. AbiIsNewest'  BY <1>0 DEF AbiIsNewest, CodeTypes, Slots
<1>7. AddingOwns'  BY <1>0 DEF AddingOwns, Adding, CodeTypes, Appending, Slots
<1>8. RemovalOwns'  BY <1>0 DEF RemovalOwns, CodeTypes, Removing, Slots
<1>9. ScanIsAhead'  BY <1>0 DEF ScanIsAhead, CodeTypes, Slots
<1>10. NamedIsFound'  BY <1>0 DEF NamedIsFound, CodeTypes, Scanning
<1> QED  BY <1>1, <1>2, <1>3, <1>4, <1>5, <1>6, <1>7, <1>8, <1>9, <1>10

\* A code that no cell holds is appended (errorcodes.c:159).
LEMMA InternPreserves ==
  ASSUME NEW t \in Threads, CodeInv, Intern(t)
  PROVE  CodeInv'
<1> USE DEF CodeInv, TableInv, TableTypeOK, Intern, Goto, codeVars, callVars
<1>0. call[t] = "report"
  BY DEF CallAt, CodeTypes, Calls, Presenting, Appending, Reading, Removing
<1>1. TableInv'
  <2>1. Elsewhere(t)
    BY DEF Elsewhere, TableInv, CodeTypes, Labels, Slots, OwnsIndex, TableTypeOK
  <2>   QED  BY <2>1, TableElsewhere
<1>2. CodeTypes'  BY <1>0 DEF CodeTypes, Calls, Slots
<1>3. CallAt'
  BY <1>0 DEF CallAt, CodeTypes, Presenting, Appending, Scanning, Reading, Removing
<1>4. Carried'
  BY <1>0 DEF Carried, CodeTypes, Presenting, Slots, Unissued
<1>5. MeaningIsStored'  BY <1>0 DEF MeaningIsStored, CodeTypes, Slots
<1>6. AbiIsNewest'  BY <1>0 DEF AbiIsNewest, CodeTypes, Slots
<1>7. AddingOwns'
  BY <1>0 DEF AddingOwns, Adding, Appending
<1>8. RemovalOwns'  BY <1>0 DEF RemovalOwns, CodeTypes, Removing, Slots
<1>9. ScanIsAhead'  BY <1>0 DEF ScanIsAhead, CodeTypes, Slots
<1>10. NamedIsFound'  BY <1>0 DEF NamedIsFound, CodeTypes, Scanning
<1> QED  BY <1>1, <1>2, <1>3, <1>4, <1>5, <1>6, <1>7, <1>8, <1>9, <1>10

\* A conversion begins, of an answer or of the argument of an error handler.
LEMMA ConvertPreserves ==
  ASSUME NEW t \in Threads, CodeInv, (\E n \in Reportable : Convert(t, n)) /\ pc[t] \in {"idle", "loaded", "nosuch"}
  PROVE  CodeInv'
<1> USE DEF CodeInv, TableInv, TableTypeOK, Convert, Goto, codeVars
<1>0. PICK n \in Values :
        /\ val'    = [val EXCEPT ![t] = n]
        /\ before' = [before EXCEPT ![t] = {s \in Slots : meaning[s] = n}]
        /\ n \in UserCodes => \E s \in Slots : meaning[s] = n
  BY UserCodesAssumption DEF Reportable, Invented
<1>1. TableInv'
  <2>1. Elsewhere(t)
    BY <1>0
    DEF Elsewhere, TableInv, CodeTypes, Labels, Slots, OwnsIndex, TableTypeOK
  <2>   QED  BY <2>1, TableElsewhere
<1>2. CodeTypes'  BY <1>0 DEF CodeTypes, Calls, Slots
<1>3. CallAt'
  BY <1>0 DEF CallAt, CodeTypes, Presenting, Appending, Scanning, Reading, Removing
<1>4. Carried'
  BY <1>0 DEF Carried, CodeTypes, Presenting, Slots, Unissued
<1>5. MeaningIsStored'  BY <1>0 DEF MeaningIsStored, CodeTypes, Slots
<1>6. AbiIsNewest'  BY <1>0 DEF AbiIsNewest, CodeTypes, Slots
<1>7. AddingOwns'  BY <1>0 DEF AddingOwns, Adding, CodeTypes, Appending, Slots
<1>8. RemovalOwns'  BY <1>0 DEF RemovalOwns, CodeTypes, Removing, Slots
<1>9. ScanIsAhead'
  BY <1>0, NoCodeAssumption DEF ScanIsAhead, MeaningIsStored, CodeTypes
<1>10. NamedIsFound'
  BY <1>0 DEF NamedIsFound, CodeTypes, Scanning
<1> QED  BY <1>1, <1>2, <1>3, <1>4, <1>5, <1>6, <1>7, <1>8, <1>9, <1>10

\* The code is handed out under the index it was found or published at.
LEMMA ReportReturnsPreserves ==
  ASSUME NEW t \in Threads, CodeInv, ReportReturns(t)
  PROVE  CodeInv'
<1> USE DEF CodeInv, TableInv, TableTypeOK, ReportReturns, Return, Leave, Goto, codeVars
<1>0. /\ idx[t] \in Slots /\ cell[idx[t]] = val[t] /\ val[t] \in Values
      /\ \A s \in Slots : meaning[s] # NoCode => meaning'[s] = meaning[s]
  <2>1. idx[t] \in Slots /\ cell[idx[t]] = val[t] /\ val[t] \in Values
    BY DEF Carried, ClaimIsExclusive, PublishedOnce, OwnsIndex
  <2>   QED  BY <2>1 DEF MeaningIsStored, CodeTypes
<1>1. TableInv'
  <2>1. Elsewhere(t)
    BY DEF Elsewhere, TableInv, CodeTypes, Labels, Slots, OwnsIndex, TableTypeOK
  <2>   QED  BY <2>1, TableElsewhere
<1>2. CodeTypes'
  BY <1>0 DEF CodeTypes, Calls
<1>3. CallAt'
  BY <1>0 DEF CallAt, CodeTypes, Presenting, Appending, Scanning, Reading, Removing
<1>4. Carried'
  BY <1>0 DEF Carried, CodeTypes, Presenting, Slots, Unissued
<1>5. MeaningIsStored'
  BY <1>0 DEF MeaningIsStored, CodeTypes
<1>6. AbiIsNewest'
  BY <1>0, NoCodeAssumption, UserCodesAssumption DEF AbiIsNewest, CodeTypes
<1>7. AddingOwns'  BY <1>0 DEF AddingOwns, Adding, CodeTypes, Appending, Slots
<1>8. RemovalOwns'
  BY <1>0, NoCodeAssumption, UserCodesAssumption DEF RemovalOwns, CodeTypes, Removing
<1>9. ScanIsAhead'  BY <1>0 DEF ScanIsAhead, CodeTypes, Slots
<1>10. NamedIsFound'  BY <1>0 DEF NamedIsFound, CodeTypes, Scanning
<1> QED  BY <1>1, <1>2, <1>3, <1>4, <1>5, <1>6, <1>7, <1>8, <1>9, <1>10

\* The registry is full, and the code goes up as MPI_ERR_OTHER.
LEMMA ReportDegradesPreserves ==
  ASSUME NEW t \in Threads, CodeInv, ReportDegrades(t)
  PROVE  CodeInv'
<1> USE DEF CodeInv, TableInv, TableTypeOK, ReportDegrades, Return, Leave, Goto, codeVars
<1>1. TableInv'
  <2>1. Elsewhere(t)
    BY DEF Elsewhere, TableInv, CodeTypes, Labels, Slots, OwnsIndex, TableTypeOK
  <2>   QED  BY <2>1, TableElsewhere
<1>2. CodeTypes'  BY DEF CodeTypes, Calls, Slots
<1>3. CallAt'
  BY DEF CallAt, CodeTypes, Presenting, Appending, Scanning, Reading, Removing
<1>4. Carried'  BY DEF Carried, CodeTypes, Presenting, Slots, Unissued
<1>5. MeaningIsStored'  BY DEF MeaningIsStored, CodeTypes, Slots
<1>6. AbiIsNewest'  BY DEF AbiIsNewest, CodeTypes, Slots
<1>7. AddingOwns'  BY DEF AddingOwns, Adding, CodeTypes, Appending, Slots
<1>8. RemovalOwns'  BY DEF RemovalOwns, CodeTypes, Removing, Slots
<1>9. ScanIsAhead'  BY DEF ScanIsAhead, CodeTypes, Slots
<1>10. NamedIsFound'  BY DEF NamedIsFound, CodeTypes, Scanning
<1> QED  BY <1>1, <1>2, <1>3, <1>4, <1>5, <1>6, <1>7, <1>8, <1>9, <1>10

\* The implementation issues a number that names no code (hw_errors.c).
LEMMA AddClassPreserves ==
  ASSUME NEW t \in Threads, CodeInv, AddClass(t)
  PROVE  CodeInv'
<1> USE DEF CodeInv, TableInv, TableTypeOK, AddClass, Issue, Goto
<1>0. PICK n \in UserCodes \ live :
        /\ live' = live \cup {n}
        /\ val'  = [val EXCEPT ![t] = n]
        /\ abi[n] = NoCode
        /\ \A u \in Threads : Adding(u) => val[u] # n
  <2>1. PICK n \in UserCodes \ live :
          live' = live \cup {n} /\ val' = [val EXCEPT ![t] = n]
    OBVIOUS
  <2>2. abi[n] = NoCode  BY <2>1 DEF AbiIsNewest
  <2>3. \A u \in Threads : Adding(u) => val[u] # n  BY <2>1 DEF AddingOwns
  <2>   QED  BY <2>1, <2>2, <2>3
<1>1. TableInv'
  <2>1. Elsewhere(t)
    BY <1>0, UserCodesAssumption
    DEF Elsewhere, TableInv, CodeTypes, Labels, Slots, OwnsIndex, TableTypeOK
  <2>   QED  BY <2>1, TableElsewhere
<1>2. CodeTypes'  BY <1>0 DEF CodeTypes, Calls, Slots
<1>3. CallAt'
  BY <1>0 DEF CallAt, CodeTypes, Presenting, Appending, Scanning, Reading, Removing
<1>4. Carried'
  BY <1>0, UserCodesAssumption DEF Carried, CodeTypes, Presenting, Slots, Unissued
<1>5. MeaningIsStored'  BY <1>0 DEF MeaningIsStored, CodeTypes, Slots
<1>6. AbiIsNewest'  BY <1>0 DEF AbiIsNewest, CodeTypes, Slots
<1>7. AddingOwns'
  BY <1>0 DEF AddingOwns, Adding, CodeTypes, Appending
<1>8. RemovalOwns'  BY <1>0 DEF RemovalOwns, CodeTypes, Removing, Slots
<1>9. ScanIsAhead'  BY <1>0 DEF ScanIsAhead, CodeTypes, Slots
<1>10. NamedIsFound'  BY <1>0 DEF NamedIsFound, CodeTypes, Scanning
<1> QED  BY <1>1, <1>2, <1>3, <1>4, <1>5, <1>6, <1>7, <1>8, <1>9, <1>10

\* The same, under a class that was converted first.
LEMMA AddCodePreserves ==
  ASSUME NEW t \in Threads, CodeInv, AddCode(t)
  PROVE  CodeInv'
<1> USE DEF CodeInv, TableInv, TableTypeOK, AddCode, Issue, Converted, Goto, callVars
<1>0. PICK n \in UserCodes \ live :
        /\ live' = live \cup {n}
        /\ val'  = [val EXCEPT ![t] = n]
        /\ abi[n] = NoCode
        /\ \A u \in Threads : Adding(u) => val[u] # n
  <2>1. PICK n \in UserCodes \ live :
          live' = live \cup {n} /\ val' = [val EXCEPT ![t] = n]
    OBVIOUS
  <2>2. abi[n] = NoCode  BY <2>1 DEF AbiIsNewest
  <2>3. \A u \in Threads : Adding(u) => val[u] # n  BY <2>1 DEF AddingOwns
  <2>   QED  BY <2>1, <2>2, <2>3
<1>1. TableInv'
  <2>1. Elsewhere(t)
    BY <1>0, UserCodesAssumption
    DEF Elsewhere, TableInv, CodeTypes, Labels, Slots, OwnsIndex, TableTypeOK
  <2>   QED  BY <2>1, TableElsewhere
<1>2. CodeTypes'  BY <1>0 DEF CodeTypes, Calls, Slots
<1>3. CallAt'
  BY <1>0 DEF CallAt, CodeTypes, Presenting, Appending, Scanning, Reading, Removing
<1>4. Carried'
  BY <1>0, UserCodesAssumption DEF Carried, CodeTypes, Presenting, Slots, Unissued
<1>5. MeaningIsStored'  BY <1>0 DEF MeaningIsStored, CodeTypes, Slots
<1>6. AbiIsNewest'  BY <1>0 DEF AbiIsNewest, CodeTypes, Slots
<1>7. AddingOwns'
  BY <1>0 DEF AddingOwns, Adding, CodeTypes, Appending
<1>8. RemovalOwns'  BY <1>0 DEF RemovalOwns, CodeTypes, Removing, Slots
<1>9. ScanIsAhead'  BY <1>0 DEF ScanIsAhead, CodeTypes, Slots
<1>10. NamedIsFound'  BY <1>0 DEF NamedIsFound, CodeTypes, Scanning
<1> QED  BY <1>1, <1>2, <1>3, <1>4, <1>5, <1>6, <1>7, <1>8, <1>9, <1>10

\* The application gets the name of its code (hw_errors.c).
LEMMA AddReturnsPreserves ==
  ASSUME NEW t \in Threads, CodeInv, AddReturns(t)
  PROVE  CodeInv'
<1> USE DEF CodeInv, TableInv, TableTypeOK, AddReturns, Return, Leave, Goto, codeVars
<1>0. /\ idx[t] \in Slots /\ cell[idx[t]] = val[t]
      /\ val[t] \in live /\ val[t] \in UserCodes /\ val[t] \in Values
      /\ abi[val[t]] = NoCode
      /\ \A s \in Slots : cell[s] = val[t] => s <= idx[t]
      /\ \A s \in Slots : meaning[s] # NoCode => meaning'[s] = meaning[s]
      /\ \A u \in Threads \ {t} : Adding(u) => val[u] # val[t]
  <2>1. idx[t] \in Slots /\ cell[idx[t]] = val[t] /\ val[t] \in Values
    BY DEF ClaimIsExclusive, PublishedOnce, OwnsIndex
  <2>2. Adding(t)  BY DEF Adding, Appending
  <2>3. /\ val[t] \in live /\ val[t] \in UserCodes /\ abi[val[t]] = NoCode
        /\ \A s \in Slots : cell[s] = val[t] => s <= idx[t]
        /\ \A u \in Threads \ {t} : Adding(u) => val[u] # val[t]
    BY <2>2 DEF AddingOwns, CodeTypes
  <2>   QED  BY <2>1, <2>3 DEF MeaningIsStored, CodeTypes
<1>1. TableInv'
  <2>1. Elsewhere(t)
    BY DEF Elsewhere, TableInv, CodeTypes, Labels, Slots, OwnsIndex, TableTypeOK
  <2>   QED  BY <2>1, TableElsewhere
<1>2. CodeTypes'
  BY <1>0 DEF CodeTypes, Calls
<1>3. CallAt'
  BY <1>0 DEF CallAt, CodeTypes, Presenting, Appending, Scanning, Reading, Removing
<1>4. Carried'
  BY <1>0 DEF Carried, CodeTypes, Presenting, Slots, Unissued
<1>5. MeaningIsStored'
  BY <1>0 DEF MeaningIsStored, CodeTypes
<1>6. AbiIsNewest'
  BY <1>0, NoCodeAssumption, UserCodesAssumption DEF AbiIsNewest, CodeTypes
<1>7. AddingOwns'
  BY <1>0 DEF AddingOwns, Adding, CodeTypes, Appending
<1>8. RemovalOwns'
  <2>1. ASSUME NEW u \in Threads, call[u] \in Removing
        PROVE  /\ meaning[arg[u]] # val[t] /\ arg[u] \in Slots
               /\ meaning[arg[u]] # NoCode /\ meaning[arg[u]] \in UserCodes
               /\ u # t
    <3>1. /\ arg[u] \in Slots /\ meaning[arg[u]] \in live
          /\ abi[meaning[arg[u]]] = arg[u]
      BY <2>1 DEF RemovalOwns
    <3>2. meaning[arg[u]] \in UserCodes  BY <3>1 DEF CodeTypes
    <3>3. meaning[arg[u]] # val[t]  BY <1>0, <3>1, NoCodeAssumption DEF Slots
    <3>   QED
      BY <2>1, <3>1, <3>2, <3>3, NoCodeAssumption, UserCodesAssumption DEF Removing
  <2>   QED  BY <1>0, <2>1 DEF RemovalOwns, CodeTypes, Removing
<1>9. ScanIsAhead'  BY <1>0 DEF ScanIsAhead, CodeTypes, Slots
<1>10. NamedIsFound'  BY <1>0 DEF NamedIsFound, CodeTypes, Scanning
<1> QED  BY <1>1, <1>2, <1>3, <1>4, <1>5, <1>6, <1>7, <1>8, <1>9, <1>10

\* The registry is full, and the code has no name.
LEMMA AddFailsPreserves ==
  ASSUME NEW t \in Threads, CodeInv, AddFails(t)
  PROVE  CodeInv'
<1> USE DEF CodeInv, TableInv, TableTypeOK, AddFails, Return, Leave, Goto, codeVars
<1>1. TableInv'
  <2>1. Elsewhere(t)
    BY DEF Elsewhere, TableInv, CodeTypes, Labels, Slots, OwnsIndex, TableTypeOK
  <2>   QED  BY <2>1, TableElsewhere
<1>2. CodeTypes'  BY DEF CodeTypes, Calls, Slots
<1>3. CallAt'
  BY DEF CallAt, CodeTypes, Presenting, Appending, Scanning, Reading, Removing
<1>4. Carried'  BY DEF Carried, CodeTypes, Presenting, Slots, Unissued
<1>5. MeaningIsStored'  BY DEF MeaningIsStored, CodeTypes, Slots
<1>6. AbiIsNewest'  BY DEF AbiIsNewest, CodeTypes, Slots
<1>7. AddingOwns'  BY DEF AddingOwns, Adding, CodeTypes, Appending, Slots
<1>8. RemovalOwns'  BY DEF RemovalOwns, CodeTypes, Removing, Slots
<1>9. ScanIsAhead'  BY DEF ScanIsAhead, CodeTypes, Slots
<1>10. NamedIsFound'  BY DEF NamedIsFound, CodeTypes, Scanning
<1> QED  BY <1>1, <1>2, <1>3, <1>4, <1>5, <1>6, <1>7, <1>8, <1>9, <1>10

\* A call with a code that was handed out, or with another integer.
LEMMA PresentCodePreserves ==
  ASSUME NEW t \in Threads, CodeInv, PresentCode(t)
  PROVE  CodeInv'
<1> USE DEF CodeInv, TableInv, TableTypeOK, PresentCode, Present, Goto, codeVars
<1>0. PICK c \in {"addcode"} \cup Reading, s \in Slots \cup {Unissued} :
        /\ s # Unissued => s \in Slots /\ meaning[s] # NoCode
        /\ call' = [call EXCEPT ![t] = c]
        /\ arg'  = [arg EXCEPT ![t] = s]
        /\ idx'  = [idx EXCEPT ![t] = s]
        /\ s \in Int
  <2>1. PICK c \in {"addcode"} \cup Reading, s \in Handed \cup {Unissued} :
          /\ call' = [call EXCEPT ![t] = c]
          /\ arg'  = [arg EXCEPT ![t] = s]
          /\ idx'  = [idx EXCEPT ![t] = s]
    OBVIOUS
  <2>2. s # Unissued => s \in Slots /\ meaning[s] # NoCode  BY DEF Handed
  <2>3. s \in Slots \cup {Unissued} /\ s \in Int
    BY <2>2, CapacityAssumption DEF Slots, Unissued
  <2>   QED  BY <2>1, <2>2, <2>3
<1>1. TableInv'
  <2>1. Elsewhere(t)
    BY <1>0
    DEF Elsewhere, TableInv, CodeTypes, Labels, Slots, OwnsIndex, TableTypeOK
  <2>   QED  BY <2>1, TableElsewhere
<1>2. CodeTypes'
  BY <1>0 DEF CodeTypes, Calls
<1>3. CallAt'
  BY <1>0 DEF CallAt, CodeTypes, Presenting, Reading, Removing
<1>4. Carried'
  BY <1>0, CapacityAssumption DEF Carried, CodeTypes, Presenting, Slots, Unissued, Reading, Removing
<1>5. MeaningIsStored'  BY <1>0 DEF MeaningIsStored, CodeTypes, Slots
<1>6. AbiIsNewest'  BY <1>0 DEF AbiIsNewest, CodeTypes, Slots
<1>7. AddingOwns'
  BY <1>0 DEF AddingOwns, Adding, Appending, CodeTypes
<1>8. RemovalOwns'
  BY <1>0 DEF RemovalOwns, CodeTypes, Reading, Removing
<1>9. ScanIsAhead'
  BY <1>0 DEF ScanIsAhead, CodeTypes, Reading, Removing
<1>10. NamedIsFound'
  BY <1>0 DEF NamedIsFound, CodeTypes, Reading, Removing
<1> QED  BY <1>1, <1>2, <1>3, <1>4, <1>5, <1>6, <1>7, <1>8, <1>9, <1>10

\* A removal of a code the application has added, once.
LEMMA PresentRemovalPreserves ==
  ASSUME NEW t \in Threads, CodeInv, PresentRemoval(t)
  PROVE  CodeInv'
<1> USE DEF CodeInv, TableInv, TableTypeOK, PresentRemoval, Present, Goto, codeVars
<1>0. PICK c \in Removing, s \in Slots :
        /\ \A u \in Threads : call[u] \in Removing => arg[u] # s
        /\ call' = [call EXCEPT ![t] = c]
        /\ arg'  = [arg EXCEPT ![t] = s]
        /\ idx'  = [idx EXCEPT ![t] = s]
        /\ meaning[s] \in live /\ meaning[s] # NoCode /\ abi[meaning[s]] = s
        /\ s \in Int
  <2>1. PICK c \in Removing, s \in Added :
          /\ \A u \in Threads : call[u] \in Removing => arg[u] # s
          /\ call' = [call EXCEPT ![t] = c]
          /\ arg'  = [arg EXCEPT ![t] = s]
          /\ idx'  = [idx EXCEPT ![t] = s]
    OBVIOUS
  <2>2. PICK n \in live : s = abi[n] /\ s # NoCode
    BY DEF Added
  <2>3. s \in Slots /\ meaning[s] = n /\ n # NoCode
    BY <2>2, UserCodesAssumption, NoCodeAssumption DEF AbiIsNewest, CodeTypes
  <2>4. meaning[s] \in live /\ meaning[s] # NoCode /\ abi[meaning[s]] = s
    BY <2>2, <2>3
  <2>5. s \in Int  BY <2>3, CapacityAssumption DEF Slots
  <2>   QED  BY <2>1, <2>3, <2>4, <2>5
<1>1. TableInv'
  <2>1. Elsewhere(t)
    BY <1>0
    DEF Elsewhere, TableInv, CodeTypes, Labels, Slots, OwnsIndex, TableTypeOK
  <2>   QED  BY <2>1, TableElsewhere
<1>2. CodeTypes'
  BY <1>0 DEF CodeTypes, Calls
<1>3. CallAt'
  BY <1>0 DEF CallAt, CodeTypes, Presenting, Reading, Removing
<1>4. Carried'
  BY <1>0, CapacityAssumption DEF Carried, CodeTypes, Presenting, Slots, Unissued, Reading, Removing
<1>5. MeaningIsStored'  BY <1>0 DEF MeaningIsStored, CodeTypes, Slots
<1>6. AbiIsNewest'  BY <1>0 DEF AbiIsNewest, CodeTypes, Slots
<1>7. AddingOwns'
  BY <1>0 DEF AddingOwns, Adding, Appending, CodeTypes
<1>8. RemovalOwns'
  BY <1>0 DEF RemovalOwns, CodeTypes, Reading, Removing
<1>9. ScanIsAhead'
  BY <1>0 DEF ScanIsAhead, CodeTypes, Reading, Removing
<1>10. NamedIsFound'
  BY <1>0 DEF NamedIsFound, CodeTypes, Reading, Removing
<1> QED  BY <1>1, <1>2, <1>3, <1>4, <1>5, <1>6, <1>7, <1>8, <1>9, <1>10

\* A call that only reads the code returns.
LEMMA ReadPreserves ==
  ASSUME NEW t \in Threads, CodeInv, Read(t)
  PROVE  CodeInv'
<1> USE DEF CodeInv, TableInv, TableTypeOK, Read, Converted, Return, Leave, Goto, codeVars
<1>1. TableInv'
  <2>1. Elsewhere(t)
    BY DEF Elsewhere, TableInv, CodeTypes, Labels, Slots, OwnsIndex, TableTypeOK
  <2>   QED  BY <2>1, TableElsewhere
<1>2. CodeTypes'  BY DEF CodeTypes, Calls, Slots
<1>3. CallAt'
  BY DEF CallAt, CodeTypes, Presenting, Appending, Scanning, Reading, Removing
<1>4. Carried'  BY DEF Carried, CodeTypes, Presenting, Slots, Unissued
<1>5. MeaningIsStored'  BY DEF MeaningIsStored, CodeTypes, Slots
<1>6. AbiIsNewest'  BY DEF AbiIsNewest, CodeTypes, Slots
<1>7. AddingOwns'  BY DEF AddingOwns, Adding, CodeTypes, Appending, Slots
<1>8. RemovalOwns'  BY DEF RemovalOwns, CodeTypes, Removing, Slots
<1>9. ScanIsAhead'  BY DEF ScanIsAhead, CodeTypes, Slots
<1>10. NamedIsFound'  BY DEF NamedIsFound, CodeTypes, Scanning
<1> QED  BY <1>1, <1>2, <1>3, <1>4, <1>5, <1>6, <1>7, <1>8, <1>9, <1>10

\* The implementation forgets the code; the registry does not (hw_errors.c).
LEMMA RemovePreserves ==
  ASSUME NEW t \in Threads, CodeInv, Remove(t)
  PROVE  CodeInv'
<1> USE DEF CodeInv, TableInv, TableTypeOK, Remove, Return, Leave, Goto, codeVars
<1>0. /\ val[t] = meaning[arg[t]] /\ arg[t] \in Slots
      /\ abi[val[t]] = arg[t] /\ val[t] \in live
      /\ \A u \in Threads : Adding(u) => val[u] # val[t]
      /\ \A u \in Threads \ {t} : call[u] \in Removing => meaning[arg[u]] # val[t]
  <2>1. /\ val[t] = meaning[arg[t]] /\ arg[t] \in Slots
        /\ abi[val[t]] = arg[t] /\ val[t] \in live
    BY DEF Carried, RemovalOwns
  <2>2. \A u \in Threads : Adding(u) => val[u] # val[t]
    BY <2>1, NoCodeAssumption DEF AddingOwns, Slots
  <2>3. \A u \in Threads \ {t} : call[u] \in Removing => meaning[arg[u]] # val[t]
    BY <2>1 DEF RemovalOwns
  <2>   QED  BY <2>1, <2>2, <2>3
<1>1. TableInv'
  <2>1. Elsewhere(t)
    BY DEF Elsewhere, TableInv, CodeTypes, Labels, Slots, OwnsIndex, TableTypeOK
  <2>   QED  BY <2>1, TableElsewhere
<1>2. CodeTypes'  BY <1>0 DEF CodeTypes, Calls, Slots
<1>3. CallAt'
  BY <1>0 DEF CallAt, CodeTypes, Presenting, Appending, Scanning, Reading, Removing
<1>4. Carried'  BY <1>0 DEF Carried, CodeTypes, Presenting, Slots, Unissued
<1>5. MeaningIsStored'  BY <1>0 DEF MeaningIsStored, CodeTypes, Slots
<1>6. AbiIsNewest'  BY <1>0 DEF AbiIsNewest, CodeTypes, Slots
<1>7. AddingOwns'
  BY <1>0 DEF AddingOwns, Adding, CodeTypes, Appending
<1>8. RemovalOwns'
  BY <1>0 DEF RemovalOwns, CodeTypes, Removing
<1>9. ScanIsAhead'  BY <1>0 DEF ScanIsAhead, CodeTypes, Slots
<1>10. NamedIsFound'  BY <1>0 DEF NamedIsFound, CodeTypes, Scanning
<1> QED  BY <1>1, <1>2, <1>3, <1>4, <1>5, <1>6, <1>7, <1>8, <1>9, <1>10

\* The implementation refuses the call.
LEMMA RefusePreserves ==
  ASSUME NEW t \in Threads, CodeInv, Refuse(t)
  PROVE  CodeInv'
<1> USE DEF CodeInv, TableInv, TableTypeOK, Refuse, Converted, Return, Leave, Goto, codeVars
<1>1. TableInv'
  <2>1. Elsewhere(t)
    BY DEF Elsewhere, TableInv, CodeTypes, Labels, Slots, OwnsIndex, TableTypeOK
  <2>   QED  BY <2>1, TableElsewhere
<1>2. CodeTypes'  BY DEF CodeTypes, Calls, Slots
<1>3. CallAt'
  BY DEF CallAt, CodeTypes, Presenting, Appending, Scanning, Reading, Removing
<1>4. Carried'  BY DEF Carried, CodeTypes, Presenting, Slots, Unissued
<1>5. MeaningIsStored'  BY DEF MeaningIsStored, CodeTypes, Slots
<1>6. AbiIsNewest'  BY DEF AbiIsNewest, CodeTypes, Slots
<1>7. AddingOwns'  BY DEF AddingOwns, Adding, CodeTypes, Appending, Slots
<1>8. RemovalOwns'  BY DEF RemovalOwns, CodeTypes, Removing, Slots
<1>9. ScanIsAhead'  BY DEF ScanIsAhead, CodeTypes, Slots
<1>10. NamedIsFound'  BY DEF NamedIsFound, CodeTypes, Scanning
<1> QED  BY <1>1, <1>2, <1>3, <1>4, <1>5, <1>6, <1>7, <1>8, <1>9, <1>10

\* MPI_LASTUSEDCODE is computed from the counter (errorcodes.c:109-125).
LEMMA GetLastUsedPreserves ==
  ASSUME NEW t \in Threads, CodeInv, GetLastUsed(t)
  PROVE  CodeInv'
<1> USE DEF CodeInv, TableInv, TableTypeOK, GetLastUsed, LastUsed, Goto, codeVars
<1>1. TableInv'
  <2>1. NewestIndex \in Int  BY NewestIndexCovers
  <2>2. Elsewhere(t)
    BY <2>1 DEF Elsewhere, TableInv, Labels, OwnsIndex, TableTypeOK
  <2>   QED  BY <2>2, TableElsewhere
<1>2. CodeTypes'  BY DEF CodeTypes, Calls, Slots
<1>3. CallAt'
  BY DEF CallAt, CodeTypes, Presenting, Appending, Scanning, Reading, Removing
<1>4. Carried'  BY DEF Carried, CodeTypes, Presenting, Slots, Unissued
<1>5. MeaningIsStored'  BY DEF MeaningIsStored, CodeTypes, Slots
<1>6. AbiIsNewest'  BY DEF AbiIsNewest, CodeTypes, Slots
<1>7. AddingOwns'  BY DEF AddingOwns, Adding, CodeTypes, Appending, Slots
<1>8. RemovalOwns'  BY DEF RemovalOwns, CodeTypes, Removing, Slots
<1>9. ScanIsAhead'  BY DEF ScanIsAhead, CodeTypes, Slots
<1>10. NamedIsFound'  BY DEF NamedIsFound, CodeTypes, Scanning
<1> QED  BY <1>1, <1>2, <1>3, <1>4, <1>5, <1>6, <1>7, <1>8, <1>9, <1>10

\* MPI_LASTUSEDCODE is answered.
LEMMA LastUsedReturnsPreserves ==
  ASSUME NEW t \in Threads, CodeInv, LastUsedReturns(t)
  PROVE  CodeInv'
<1> USE DEF CodeInv, TableInv, TableTypeOK, LastUsedReturns, Return, Leave, Goto, codeVars
<1>1. TableInv'
  <2>1. Elsewhere(t)
    BY DEF Elsewhere, TableInv, CodeTypes, Labels, Slots, OwnsIndex, TableTypeOK
  <2>   QED  BY <2>1, TableElsewhere
<1>2. CodeTypes'  BY DEF CodeTypes, Calls, Slots
<1>3. CallAt'
  BY DEF CallAt, CodeTypes, Presenting, Appending, Scanning, Reading, Removing
<1>4. Carried'  BY DEF Carried, CodeTypes, Presenting, Slots, Unissued
<1>5. MeaningIsStored'  BY DEF MeaningIsStored, CodeTypes, Slots
<1>6. AbiIsNewest'  BY DEF AbiIsNewest, CodeTypes, Slots
<1>7. AddingOwns'  BY DEF AddingOwns, Adding, CodeTypes, Appending, Slots
<1>8. RemovalOwns'  BY DEF RemovalOwns, CodeTypes, Removing, Slots
<1>9. ScanIsAhead'  BY DEF ScanIsAhead, CodeTypes, Slots
<1>10. NamedIsFound'  BY DEF NamedIsFound, CodeTypes, Scanning
<1> QED  BY <1>1, <1>2, <1>3, <1>4, <1>5, <1>6, <1>7, <1>8, <1>9, <1>10

-----------------------------------------------------------------------------
(* Every step, and the theorems. *)

\* An answer, or the code an error handler gets, is converted by an idle thread ...
LEMMA ReportPreserves ==
  ASSUME NEW t \in Threads, CodeInv, Report(t)
  PROVE  CodeInv'
<1>1. (\E n \in Reportable : Convert(t, n)) /\ pc[t] \in {"idle", "loaded", "nosuch"}
  BY DEF Report
<1>   QED  BY <1>1, ConvertPreserves

\* ... and the refusal of a call before it returns.
LEMMA RefuseWithCodePreserves ==
  ASSUME NEW t \in Threads, CodeInv, RefuseWithCode(t)
  PROVE  CodeInv'
<1>1. (\E n \in Reportable : Convert(t, n)) /\ pc[t] \in {"idle", "loaded", "nosuch"}
  BY DEF RefuseWithCode, Converted, Reportable
<1>   QED  BY <1>1, ConvertPreserves

LEMMA StutterPreserves ==
  ASSUME CodeInv, UNCHANGED vars
  PROVE  CodeInv'
  BY DEF CodeInv, vars, tableVars, codeVars, callVars, TableInv, TableTypeOK,
         UnclaimedIsUnset, ClaimIsExclusive, PublishedOnce, FullMeansFull,
         OwnsIndex, CodeTypes, CallAt, Carried, MeaningIsStored, AbiIsNewest,
         AddingOwns, Adding, RemovalOwns, ScanIsAhead, NamedIsFound

LEMMA NextPreserves ==
  ASSUME CodeInv, [Next]_vars
  PROVE  CodeInv'
<1>1. CASE UNCHANGED vars  BY <1>1, StutterPreserves
<1>2. ASSUME NEW t \in Threads, Begin(t)  PROVE CodeInv'
  BY <1>2, ReportPreserves, AddClassPreserves, PresentCodePreserves,
     PresentRemovalPreserves, GetLastUsedPreserves
  DEF Begin
<1>3. ASSUME NEW t \in Threads, Step(t)  PROVE CodeInv'
  <2>1. CASE TableAction(t)
    BY <2>1, ClaimPreserves, ResetCounterPreserves, PublishPreserves,
       ReadCountPreserves, ScanMatchPreserves, ScanNextPreserves,
       ScanEndPreserves, LoadCellPreserves
    DEF TableAction, TableStep
  <2>2. CASE \/ Intern(t) \/ ReportReturns(t) \/ ReportDegrades(t)
             \/ AddReturns(t) \/ AddFails(t)
    BY <2>2, InternPreserves, ReportReturnsPreserves, ReportDegradesPreserves,
       AddReturnsPreserves, AddFailsPreserves
  <2>3. CASE \/ CheckCode(t) \/ AddCode(t) \/ Read(t) \/ Remove(t) \/ Refuse(t)
             \/ RefuseWithCode(t) \/ LastUsedReturns(t)
    BY <2>3, CheckCodePreserves, AddCodePreserves, ReadPreserves,
       RemovePreserves, RefusePreserves, RefuseWithCodePreserves,
       LastUsedReturnsPreserves
  <2>   QED  BY <1>3, <2>1, <2>2, <2>3 DEF Step
<1>   QED  BY <1>1, <1>2, <1>3 DEF Next

LEMMA CodeInvHolds == Spec => []CodeInv
  BY InitEstablishes, NextPreserves, PTL DEF Spec

(***************************************************************************)
(* The state of ErrorCodes keeps its type.                                 *)
(***************************************************************************)
THEOREM TypeCorrect == Spec => []TypeOK
<1>1. CodeInv => TypeOK  BY DEF CodeInv, CodeTypes, TableInv, TypeOK
<1>   QED  BY <1>1, CodeInvHolds, PTL

(***************************************************************************)
(* An ABI code goes down as what it was handed out for, also after a       *)
(* removal (errorcodes.c:127-137).                                         *)
(***************************************************************************)
THEOREM CodesRoundTrip == Spec => []CodeRoundTrips
<1>1. CodeInv => CodeRoundTrips  BY DEF CodeInv, Carried, CodeRoundTrips
<1>   QED  BY <1>1, CodeInvHolds, PTL

(***************************************************************************)
(* A code that has a name keeps it, when the registry is full too          *)
(* (errorcodes.c:139-161).                                                 *)
(***************************************************************************)
THEOREM NamedStaysNamed == Spec => []NamedCodeStaysNamed
<1>1. CodeInv => NamedCodeStaysNamed
  BY DEF CodeInv, NamedIsFound, NamedCodeStaysNamed, Scanning
<1>   QED  BY <1>1, CodeInvHolds, PTL

(***************************************************************************)
(* The application is told the name it was given last, although earlier    *)
(* codes had the number too (errorcodes.c:147, hw_errors.c:4-9).           *)
(***************************************************************************)
THEOREM NewestNameComesBack == Spec => []OwnCodeComesBack
<1>1. CodeInv => OwnCodeComesBack
  <2> SUFFICES ASSUME CodeInv, NEW t \in Threads, call[t] = "report",
                      pc[t] \in {"found", "added", "full"},
                      val[t] \in live, abi[val[t]] \in before[t]
               PROVE  pc[t] = "found" /\ idx[t] = abi[val[t]]
    BY DEF OwnCodeComesBack
  <2> USE DEF CodeInv
  <2>1. pc[t] = "found"  BY DEF NamedIsFound, Scanning
  <2>2. abi[val[t]] \in Slots /\ val[t] \in UserCodes /\ abi[val[t]] # NoCode
    BY NoCodeAssumption DEF CodeTypes, Slots
  <2>3. idx[t] \in Slots /\ cell[idx[t]] = val[t]  BY <2>1 DEF Carried
  <2>4. idx[t] <= abi[val[t]]  BY <2>2, <2>3 DEF AbiIsNewest
  <2>5. abi[val[t]] <= idx[t]  BY <2>1 DEF ScanIsAhead
  <2>   QED  BY <2>1, <2>2, <2>3, <2>4, <2>5 DEF Slots
<1>   QED  BY <1>1, CodeInvHolds, PTL

(***************************************************************************)
(* MPI_LASTUSEDCODE is computed from the counter and covers every code     *)
(* that was handed out to any thread (errorcodes.c:109-125).               *)
(***************************************************************************)
THEOREM LastUsedIsLast == Spec => LastUsedCoversAll
<1> DEFINE Covers == \A t \in Threads : call[t] = "none" /\ call'[t] = "lastused" =>
                       \A s \in Slots : meaning[s] # NoCode => s <= idx'[t]
<1>1. CodeInv /\ [Next]_vars => [Covers]_vars
  <2> SUFFICES ASSUME CodeInv, Next, NEW u \in Threads,
                      call[u] = "none", call'[u] = "lastused",
                      NEW s \in Slots, meaning[s] # NoCode
               PROVE  s <= idx'[u]
    OBVIOUS
  <2> USE DEF CodeInv
  <2>1. GetLastUsed(u)
    <3>1. PICK t \in Threads : Begin(t) \/ Step(t)  BY DEF Next
    <3>2. CASE Begin(t)
      BY <3>2 DEF Begin, Report, Convert, AddClass, PresentCode, PresentRemoval,
                  Present, Reading, Removing, GetLastUsed, CodeTypes
    <3>3. CASE Step(t)
      BY <3>3 DEF Step, TableAction, callVars, Intern, ReportReturns,
                  ReportDegrades, AddReturns, AddFails, CheckCode, AddCode, Read,
                  Remove, Refuse, RefuseWithCode, Convert, LastUsedReturns,
                  Return, CodeTypes
    <3>   QED  BY <3>1, <3>2, <3>3
  <2>2. idx'[u] = NewestIndex
    BY <2>1 DEF GetLastUsed, LastUsed, TableInv, TableTypeOK
  <2>3. s < count
    BY UnsetAssumption DEF MeaningIsStored, CodeTypes, TableInv, TableTypeOK,
                           UnclaimedIsUnset, Slots
  <2>   QED  BY <2>2, <2>3, NewestIndexCovers DEF TableInv
<1>   QED  BY <1>1, CodeInvHolds, PTL DEF Spec, LastUsedCoversAll

-----------------------------------------------------------------------------
(* Calls return after a number of their own steps. *)

\* Between its calls and within them a thread leaves the others where they are.
LEMMA OthersStayPut ==
  ASSUME CodeInv, NEW t \in Threads, Begin(t) \/ Step(t), NEW u \in Threads \ {t}
  PROVE  UNCHANGED <<pc[u], val[u], idx[u], call[u], arg[u]>>
<1> USE DEF CodeInv, CodeTypes, TableInv, TableTypeOK, Goto
<1>1. CASE TableAction(t)
  BY <1>1 DEF TableAction, TableStep, callVars, Claim, ResetCounter, Publish,
              ReadCount, ScanMatch, ScanNext, ScanEnd, LoadCell
<1>2. CASE Report(t) \/ RefuseWithCode(t)
  BY <1>2 DEF Report, RefuseWithCode, Convert
<1>3. CASE AddClass(t) \/ AddCode(t)
  BY <1>3 DEF AddClass, AddCode, Issue, callVars
<1>4. CASE PresentCode(t) \/ PresentRemoval(t)
  BY <1>4 DEF PresentCode, PresentRemoval, Present
<1>5. CASE GetLastUsed(t) \/ Intern(t) \/ CheckCode(t)
  BY <1>5 DEF GetLastUsed, Intern, CheckCode, CheckIndex, callVars
<1>6. CASE \/ ReportReturns(t) \/ ReportDegrades(t) \/ AddReturns(t) \/ AddFails(t)
           \/ Read(t) \/ Remove(t) \/ Refuse(t) \/ LastUsedReturns(t)
  <2>1. Return(t)
    BY <1>6 DEF ReportReturns, ReportDegrades, AddReturns, AddFails, Read, Remove,
                Refuse, LastUsedReturns
  <2>   QED  BY <2>1 DEF Return, Leave
<1>   QED  BY <1>1, <1>2, <1>3, <1>4, <1>5, <1>6 DEF Begin, Step

\* Every step within a call leaves the call fewer.
LEMMA StepCounts ==
  ASSUME CodeInv, ScanInBounds, NEW t \in Threads, Step(t)
  PROVE  StepsLeft(t)' < StepsLeft(t)
<1> USE DEF CodeInv, TableInv
<1>1. CASE TableAction(t) \/ CheckCode(t)
  <2>1. NewestIndex + 1 \in Int  BY NewestIndexCovers
  <2>   QED  BY <1>1, <2>1, TableStepCounts DEF TableAction, CheckCode
<1>2. pc[t] # "idle" => StepsLeft(t) > 0
  <2>1. pc[t] \in Labels  BY DEF TableTypeOK
  <2>2. pc[t] = "scan" => idx[t] \in -1 .. Capacity - 1  BY DEF ScanInBounds
  <2>   QED  BY <2>1, <2>2, CapacityAssumption DEF StepsLeft, Labels
<1>3. CASE \/ ReportReturns(t) \/ ReportDegrades(t) \/ AddReturns(t) \/ AddFails(t)
           \/ Read(t) \/ Remove(t) \/ Refuse(t) \/ LastUsedReturns(t)
  <2>1. Return(t) /\ pc[t] # "idle"
    BY <1>3 DEF ReportReturns, ReportDegrades, AddReturns, AddFails, Read, Remove,
                Refuse, LastUsedReturns, Converted, CallAt
  <2>2. pc'[t] = "idle"  BY <2>1 DEF Return, Leave, Goto, TableTypeOK
  <2>3. StepsLeft(t)' = 0  BY <2>2 DEF StepsLeft
  <2>   QED  BY <1>2, <2>1, <2>3
<1>4. CASE Intern(t)
  BY <1>4 DEF Intern, Goto, TableTypeOK, StepsLeft
<1>5. CASE AddCode(t) \/ RefuseWithCode(t)
  <2>1. pc[t] \in {"loaded", "nosuch"} /\ pc'[t] \in {"claim", "count"}
    BY <1>5 DEF AddCode, RefuseWithCode, Convert, Issue, Converted, Goto, TableTypeOK
  <2>   QED  BY <2>1, CapacityAssumption DEF StepsLeft
<1>   QED  BY <1>1, <1>3, <1>4, <1>5 DEF Step

LEMMA ScansStayInBounds ==
  ASSUME CodeInv, ScanInBounds, [Next]_vars
  PROVE  ScanInBounds'
<1> USE DEF CodeInv, CodeTypes, TableInv
<1>1. CASE UNCHANGED vars
  BY <1>1, InBoundsElsewhere DEF vars, tableVars
<1>2. ASSUME NEW t \in Threads, TableAction(t)  PROVE ScanInBounds'
  BY <1>2, TableStepInBounds DEF TableAction
<1>3. ASSUME NEW t \in Threads, Begin(t) \/ Step(t), ~TableAction(t)
      PROVE  ScanInBounds'
  <2>1. \A u \in Threads \ {t} : pc'[u] = pc[u] /\ idx'[u] = idx[u]
    BY <1>3, OthersStayPut
  <2>2. pc'[t] # "scan"
    <3> USE DEF Goto, TableTypeOK
    <3>1. CASE Report(t) \/ RefuseWithCode(t)
      BY <3>1 DEF Report, RefuseWithCode, Convert
    <3>2. CASE AddClass(t) \/ AddCode(t)
      BY <3>2 DEF AddClass, AddCode, Issue
    <3>3. CASE PresentCode(t) \/ PresentRemoval(t)
      BY <3>3 DEF PresentCode, PresentRemoval, Present
    <3>4. CASE GetLastUsed(t) \/ Intern(t) \/ CheckCode(t)
      BY <3>4 DEF GetLastUsed, Intern, CheckCode, CheckIndex
    <3>5. CASE \/ ReportReturns(t) \/ ReportDegrades(t) \/ AddReturns(t)
               \/ AddFails(t) \/ Read(t) \/ Remove(t) \/ Refuse(t)
               \/ LastUsedReturns(t)
      <4>1. Return(t)
        BY <3>5 DEF ReportReturns, ReportDegrades, AddReturns, AddFails, Read,
                    Remove, Refuse, LastUsedReturns
      <4>   QED  BY <4>1 DEF Return, Leave
    <3>   QED  BY <1>3, <3>1, <3>2, <3>3, <3>4, <3>5 DEF Begin, Step
  <2>   QED  BY <2>1, <2>2, InBoundsElsewhere
<1>   QED  BY <1>1, <1>2, <1>3 DEF Next

(***************************************************************************)
(* A call to the registry returns after a number of its own steps that the *)
(* capacity bounds, whatever the other threads do (errorcodes.c:82-107,    *)
(* :139-161).                                                              *)
(***************************************************************************)
THEOREM CallsRunOutOfSteps == Spec => StepsRunOut
<1> DEFINE Counts ==
      \A t \in Threads :
        /\ StepsLeft(t)' \in 0 .. MostSteps
        /\ pc[t] # "idle" =>
             \/ StepsLeft(t)' < StepsLeft(t)
             \/ UNCHANGED <<pc[t], val[t], idx[t], call[t], arg[t]>>
<1>1. Init => ScanInBounds  BY DEF Init, TableInit, ScanInBounds
<1>2. CodeInv /\ ScanInBounds => StepsBounded
  BY BoundsGiveSteps DEF CodeInv, TableInv
<1>3. CodeInv /\ ScanInBounds /\ StepsBounded' /\ [Next]_vars => [Counts]_vars
  <2> SUFFICES ASSUME CodeInv, ScanInBounds, StepsBounded', Next, NEW u \in Threads
               PROVE  /\ StepsLeft(u)' \in 0 .. MostSteps
                      /\ pc[u] # "idle" =>
                           \/ StepsLeft(u)' < StepsLeft(u)
                           \/ UNCHANGED <<pc[u], val[u], idx[u], call[u], arg[u]>>
    OBVIOUS
  <2>1. StepsLeft(u)' \in 0 .. MostSteps
    BY DEF StepsBounded, MostSteps
  <2>2. PICK t \in Threads : Begin(t) \/ Step(t)  BY DEF Next
  <2>3. CASE u # t
    BY <2>1, <2>2, <2>3, OthersStayPut
  <2>4. CASE u = t /\ Step(t)
    BY <2>1, <2>4, StepCounts
  <2>5. CASE u = t /\ Begin(t)
    <3>1. pc[t] = "idle"
      BY <2>5 DEF Begin, Report, AddClass, PresentCode, PresentRemoval, Present,
                  GetLastUsed
    <3>   QED  BY <2>1, <2>5, <3>1
  <2>   QED  BY <2>2, <2>3, <2>4, <2>5
<1>   QED
  BY <1>1, <1>2, <1>3, CodeInvHolds, ScansStayInBounds, PTL DEF Spec, StepsRunOut
=============================================================================
