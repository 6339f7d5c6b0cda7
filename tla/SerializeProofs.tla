--------------------------- MODULE SerializeProofs ---------------------------
(***************************************************************************)
(* Proofs about Serialize, for any number of threads, handles and          *)
(* predefined values, and any capacity of the table.  SerialInv is         *)
(* inductive: one lemma for each action says that the action preserves it, *)
(* with a step for each conjunct.                                          *)
(***************************************************************************)
EXTENDS Serialize, AppendTableProofs

Fromints == {"check", "load", "loaded", "nosuch"}
Answers  == Values \cup Int \cup {None, Unset}

SerialTypes ==
  /\ arg   \in [Threads -> Values \cup Int \cup {None}]
  /\ out   \in [Threads -> {None} \cup ({"toint", "fromint"} \X Answers \X Answers)]
  /\ given \subseteq Threads \X Values \X Names
  /\ known \in [Threads -> BOOLEAN]
  /\ raced \subseteq Values

\* Where a call is says what its locals hold.
Carried ==
  \A t \in Threads :
    /\ pc[t] \in Tointing => arg[t] \in Values /\ val[t] = arg[t]
    /\ pc[t] \in Fromints => arg[t] \in Int \ Predefined /\ idx[t] = arg[t] - Base
    /\ pc[t] = "scan"  => idx[t] < Capacity
    /\ pc[t] = "found" => idx[t] \in Slots /\ cell[idx[t]] = val[t]
    /\ pc[t] = "load"  => idx[t] \in Slots
    /\ pc[t] = "nosuch" => idx[t] \notin Slots

\* The table stores what was answered; with cells that never change, an
\* integer has one handle.
GivenIsStored ==
  \A g \in given : g[3] - Base \in Slots /\ cell[g[3] - Base] = g[2]

\* What a call passed was named before it began, and the scan has not gone
\* past that entry.
KnownIsGiven ==
  \A t \in Threads :
    /\ pc[t] \in Tointing /\ known[t] => \E g \in given : g[2] = arg[t]
    /\ pc[t] \in Fromints /\ known[t] => \E g \in given : g[3] = arg[t]

ScanIsAhead ==
  \A t \in Threads :
    pc[t] = "scan" /\ known[t] => \E s \in Slots : s <= idx[t] /\ cell[s] = arg[t]

KnownIsFound ==
  \A t \in Threads :
    pc[t] \in Tointing /\ known[t] => pc[t] \in {"count", "scan", "found"}

\* What _fromint loaded is what the cell still holds, or it was empty.
Loaded ==
  \A t \in Threads :
    pc[t] = "loaded" =>
      /\ idx[t] \in Slots
      /\ val[t] = cell[idx[t]] \/ (val[t] = Unset /\ ~known[t])

PredefinedAnswers ==
  \A t \in Threads :
    out[t] # None /\ {out[t][2], out[t][3]} \cap Predefined # {} =>
      out[t][2] = out[t][3]

\* A handle that no two calls have serialized at once has one cell, and a
\* call appends it only when it has none.
Appending == {"missed", "claim", "overflow", "full", "publish"}
Alone ==
  \A t, u \in Threads :
    pc[t] \in Tointing /\ pc[u] \in Tointing /\ arg[t] = arg[u] /\ t # u =>
      arg[t] \in raced
OneCell ==
  \A r, s \in Slots : cell[r] = cell[s] /\ cell[r] \in Values \ raced => r = s
AppendsIfAbsent ==
  \A t \in Threads : \A s \in Slots :
    pc[t] \in Tointing /\ arg[t] \notin raced /\ cell[s] = arg[t] =>
      /\ pc[t] \notin Appending
      /\ pc[t] = "scan" => s <= idx[t]

SerialInv ==
  /\ TableInv
  /\ SerialTypes
  /\ Carried
  /\ GivenIsStored
  /\ KnownIsGiven
  /\ ScanIsAhead
  /\ KnownIsFound
  /\ Loaded
  /\ PredefinedAnswers
  /\ Alone
  /\ OneCell
  /\ AppendsIfAbsent

LEMMA InitEstablishes == Init => SerialInv
<1> SUFFICES ASSUME Init PROVE SerialInv  OBVIOUS
<1> USE DEF Init
<1>1. TableInv  BY TableInitInv
<1>2. \A t \in Threads : pc[t] = "idle"  BY DEF TableInit
<1>3. \A s \in Slots : cell[s] = Unset   BY DEF TableInit
<1>   QED
  BY <1>1, <1>2, <1>3, UnsetAssumption
  DEF SerialInv, SerialTypes, Carried, GivenIsStored, KnownIsGiven, ScanIsAhead,
      KnownIsFound, Loaded, PredefinedAnswers, Alone, OneCell, AppendsIfAbsent,
      Tointing, Fromints

\* The index is claimed by one fetch-and-add (serialize.c:92).
LEMMA ClaimPreserves ==
  ASSUME NEW t \in Threads, SerialInv, Claim(t) /\ UNCHANGED <<arg, out, ghostVars>>
  PROVE  SerialInv'
<1> USE DEF SerialInv, TableInv, TableTypeOK, Claim, Goto, ghostVars
<1>1. TableInv'
  <2>1. val[t] \in Values  BY DEF Carried, Tointing
  <2>   QED  BY <2>1, TableClaim
<1>2. SerialTypes'  BY DEF SerialTypes, Answers, Names, Slots
<1>3. Carried'  BY DEF Carried, Tointing, Fromints, Slots
<1>4. GivenIsStored'  BY DEF GivenIsStored, SerialTypes, Names, Slots
<1>5. KnownIsGiven'  BY DEF KnownIsGiven, Tointing, Fromints
<1>6. ScanIsAhead'  BY DEF ScanIsAhead, Slots
<1>7. KnownIsFound'  BY DEF KnownIsFound, Tointing
<1>8. Loaded'  BY DEF Loaded, Slots
<1>9. PredefinedAnswers'  BY DEF PredefinedAnswers, Slots
<1>10. Alone'  BY DEF Alone, Tointing
<1>11. OneCell'  BY DEF OneCell, Slots
<1>12. AppendsIfAbsent'  BY DEF AppendsIfAbsent, Tointing, Appending, Slots
<1> QED  BY <1>1, <1>2, <1>3, <1>4, <1>5, <1>6, <1>7, <1>8, <1>9, <1>10, <1>11, <1>12

\* The counter of a full table is put back (serialize.c:98).
LEMMA ResetCounterPreserves ==
  ASSUME NEW t \in Threads, SerialInv, ResetCounter(t) /\ UNCHANGED <<arg, out, ghostVars>>
  PROVE  SerialInv'
<1> USE DEF SerialInv, TableInv, TableTypeOK, ResetCounter, Goto, ghostVars
<1>1. TableInv'  BY TableReset
<1>2. SerialTypes'  BY DEF SerialTypes, Answers, Names, Slots
<1>3. Carried'  BY DEF Carried, Tointing, Fromints, Slots
<1>4. GivenIsStored'  BY DEF GivenIsStored, SerialTypes, Names, Slots
<1>5. KnownIsGiven'  BY DEF KnownIsGiven, Tointing, Fromints
<1>6. ScanIsAhead'  BY DEF ScanIsAhead, Slots
<1>7. KnownIsFound'  BY DEF KnownIsFound, Tointing
<1>8. Loaded'  BY DEF Loaded, Slots
<1>9. PredefinedAnswers'  BY DEF PredefinedAnswers, Slots
<1>10. Alone'  BY DEF Alone, Tointing
<1>11. OneCell'  BY DEF OneCell, Slots
<1>12. AppendsIfAbsent'  BY DEF AppendsIfAbsent, Tointing, Appending, Slots
<1> QED  BY <1>1, <1>2, <1>3, <1>4, <1>5, <1>6, <1>7, <1>8, <1>9, <1>10, <1>11, <1>12

\* The one step that changes a cell: an empty one, of a handle that has none
\* unless it was raced for (serialize.c:102).
LEMMA PublishPreserves ==
  ASSUME NEW t \in Threads, SerialInv, Publish(t) /\ UNCHANGED <<arg, out, ghostVars>>
  PROVE  SerialInv'
<1> USE DEF SerialInv, TableInv, TableTypeOK, Publish, Goto, ghostVars
<1>0. /\ idx[t] \in Slots /\ cell[idx[t]] = Unset
      /\ arg[t] \in Values /\ cell' = [cell EXCEPT ![idx[t]] = arg[t]]
  BY DEF Carried, Tointing, ClaimIsExclusive, PublishedOnce, OwnsIndex
<1>1. TableInv'  BY TablePublish
<1>2. SerialTypes'  BY DEF SerialTypes, Answers, Names, Slots
<1>3. Carried'
  BY <1>0, UnsetAssumption DEF Carried, Tointing, Fromints, Slots
<1>4. GivenIsStored'
  BY <1>0, UnsetAssumption DEF GivenIsStored, SerialTypes
<1>5. KnownIsGiven'  BY DEF KnownIsGiven, Tointing, Fromints
<1>6. ScanIsAhead'
  BY <1>0, UnsetAssumption DEF ScanIsAhead, Carried, Tointing
<1>7. KnownIsFound'  BY DEF KnownIsFound, Tointing
<1>8. Loaded'
  <2>1. \A u \in Threads : pc[u] = "loaded" /\ known[u] => cell[idx[u]] \in Values
    BY DEF KnownIsGiven, GivenIsStored, Carried, Fromints, SerialTypes
  <2>   QED  BY <1>0, <2>1, UnsetAssumption DEF Loaded
<1>9. PredefinedAnswers'  BY DEF PredefinedAnswers, Slots
<1>10. Alone'  BY DEF Alone, Tointing
<1>11. OneCell'
  <2>1. arg[t] \notin raced => \A s \in Slots : cell[s] # arg[t]
    BY DEF AppendsIfAbsent, Tointing, Appending
  <2>   QED  BY <1>0, <2>1 DEF OneCell
<1>12. AppendsIfAbsent'
  <2>1. \A u \in Threads \ {t} :
          pc[u] \in Tointing /\ arg[u] = arg[t] => arg[u] \in raced
    BY DEF Alone, Tointing
  <2>   QED  BY <1>0, <2>1 DEF AppendsIfAbsent, Tointing, Appending
<1> QED  BY <1>1, <1>2, <1>3, <1>4, <1>5, <1>6, <1>7, <1>8, <1>9, <1>10, <1>11, <1>12

\* A scan begins at or above every cell that is published (serialize.c:80).
LEMMA ReadCountPreserves ==
  ASSUME NEW t \in Threads, SerialInv, ReadCount(t) /\ UNCHANGED <<arg, out, ghostVars>>
  PROVE  SerialInv'
<1> USE DEF SerialInv, TableInv, TableTypeOK, ReadCount, Goto, ghostVars
<1>1. TableInv'  BY TableRead, TableElsewhere
<1>2. SerialTypes'  BY DEF SerialTypes, Answers, Names, Slots
<1>3. Carried'
  BY NewestIndexCovers, CapacityAssumption DEF Carried, Tointing, Fromints, Slots
<1>4. GivenIsStored'  BY DEF GivenIsStored, SerialTypes, Names, Slots
<1>5. KnownIsGiven'  BY DEF KnownIsGiven, Tointing, Fromints
<1>6. ScanIsAhead'
  <2>1. known[t] => \E s \in Slots : s <= NewestIndex /\ cell[s] = arg[t]
    BY NewestIndexCovers, UnsetAssumption
    DEF KnownIsGiven, GivenIsStored, SerialTypes, Tointing, UnclaimedIsUnset, Slots
  <2>   QED  BY <2>1 DEF ScanIsAhead
<1>7. KnownIsFound'  BY DEF KnownIsFound, Tointing
<1>8. Loaded'  BY DEF Loaded, Slots
<1>9. PredefinedAnswers'  BY DEF PredefinedAnswers, Slots
<1>10. Alone'  BY DEF Alone, Tointing
<1>11. OneCell'  BY DEF OneCell, Slots
<1>12. AppendsIfAbsent'
  <2>1. \A s \in Slots : cell[s] = arg[t] => s <= NewestIndex
    BY NewestIndexCovers, UnsetAssumption
    DEF Carried, Tointing, UnclaimedIsUnset, Slots
  <2>   QED  BY <2>1 DEF AppendsIfAbsent, Tointing, Appending
<1> QED  BY <1>1, <1>2, <1>3, <1>4, <1>5, <1>6, <1>7, <1>8, <1>9, <1>10, <1>11, <1>12

\* The scan finds the handle (serialize.c:81).
LEMMA ScanMatchPreserves ==
  ASSUME NEW t \in Threads, SerialInv, ScanMatch(t) /\ UNCHANGED <<arg, out, ghostVars>>
  PROVE  SerialInv'
<1> USE DEF SerialInv, TableInv, TableTypeOK, ScanMatch, Goto, ghostVars
<1>1. TableInv'  BY TableRead, TableElsewhere
<1>2. SerialTypes'  BY DEF SerialTypes, Answers, Names, Slots
<1>3. Carried'
  BY CapacityAssumption DEF Carried, Tointing, Fromints, Slots
<1>4. GivenIsStored'  BY DEF GivenIsStored, SerialTypes, Names, Slots
<1>5. KnownIsGiven'  BY DEF KnownIsGiven, Tointing, Fromints
<1>6. ScanIsAhead'  BY DEF ScanIsAhead, Slots
<1>7. KnownIsFound'  BY DEF KnownIsFound, Tointing
<1>8. Loaded'  BY DEF Loaded, Slots
<1>9. PredefinedAnswers'  BY DEF PredefinedAnswers, Slots
<1>10. Alone'  BY DEF Alone, Tointing
<1>11. OneCell'  BY DEF OneCell, Slots
<1>12. AppendsIfAbsent'  BY DEF AppendsIfAbsent, Tointing, Appending, Slots
<1> QED  BY <1>1, <1>2, <1>3, <1>4, <1>5, <1>6, <1>7, <1>8, <1>9, <1>10, <1>11, <1>12

\* It goes on below a cell that holds another handle (serialize.c:80).
LEMMA ScanNextPreserves ==
  ASSUME NEW t \in Threads, SerialInv, ScanNext(t) /\ UNCHANGED <<arg, out, ghostVars>>
  PROVE  SerialInv'
<1> USE DEF SerialInv, TableInv, TableTypeOK, ScanNext, Goto, ghostVars
<1>1. TableInv'  BY TableRead, TableElsewhere
<1>2. SerialTypes'  BY DEF SerialTypes, Answers, Names, Slots
<1>3. Carried'
  BY CapacityAssumption DEF Carried, Tointing, Fromints, Slots
<1>4. GivenIsStored'  BY DEF GivenIsStored, SerialTypes, Names, Slots
<1>5. KnownIsGiven'  BY DEF KnownIsGiven, Tointing, Fromints
<1>6. ScanIsAhead'
  BY DEF ScanIsAhead, Carried, Tointing, Slots
<1>7. KnownIsFound'  BY DEF KnownIsFound, Tointing
<1>8. Loaded'  BY DEF Loaded, Slots
<1>9. PredefinedAnswers'  BY DEF PredefinedAnswers, Slots
<1>10. Alone'  BY DEF Alone, Tointing
<1>11. OneCell'  BY DEF OneCell, Slots
<1>12. AppendsIfAbsent'
  BY DEF AppendsIfAbsent, Carried, Tointing, Appending, Slots
<1> QED  BY <1>1, <1>2, <1>3, <1>4, <1>5, <1>6, <1>7, <1>8, <1>9, <1>10, <1>11, <1>12

\* It ends without a match, which no known handle does.
LEMMA ScanEndPreserves ==
  ASSUME NEW t \in Threads, SerialInv, ScanEnd(t) /\ UNCHANGED <<arg, out, ghostVars>>
  PROVE  SerialInv'
<1> USE DEF SerialInv, TableInv, TableTypeOK, ScanEnd, Goto, ghostVars
<1>1. TableInv'  BY TableRead, TableElsewhere
<1>2. SerialTypes'  BY DEF SerialTypes, Answers, Names, Slots
<1>3. Carried'  BY DEF Carried, Tointing, Fromints, Slots
<1>4. GivenIsStored'  BY DEF GivenIsStored, SerialTypes, Names, Slots
<1>5. KnownIsGiven'  BY DEF KnownIsGiven, Tointing, Fromints
<1>6. ScanIsAhead'  BY DEF ScanIsAhead, Slots
<1>7. KnownIsFound'
  BY DEF KnownIsFound, ScanIsAhead, Tointing, Slots
<1>8. Loaded'  BY DEF Loaded, Slots
<1>9. PredefinedAnswers'  BY DEF PredefinedAnswers, Slots
<1>10. Alone'  BY DEF Alone, Tointing
<1>11. OneCell'  BY DEF OneCell, Slots
<1>12. AppendsIfAbsent'  BY DEF AppendsIfAbsent, Tointing, Appending, Slots
<1> QED  BY <1>1, <1>2, <1>3, <1>4, <1>5, <1>6, <1>7, <1>8, <1>9, <1>10, <1>11, <1>12

\* _fromint loads a cell, published or not (serialize.c:113-118).
LEMMA LoadCellPreserves ==
  ASSUME NEW t \in Threads, SerialInv, LoadCell(t) /\ UNCHANGED <<arg, out, ghostVars>>
  PROVE  SerialInv'
<1> USE DEF SerialInv, TableInv, TableTypeOK, LoadCell, Goto, ghostVars
<1>1. TableInv'
  <2>1. idx[t] \in Slots  BY DEF LoadCell, Carried
  <2>   QED  BY <2>1, TableRead, TableElsewhere
<1>2. SerialTypes'  BY DEF SerialTypes, Answers, Names, Slots
<1>3. Carried'  BY DEF Carried, Tointing, Fromints, Slots
<1>4. GivenIsStored'  BY DEF GivenIsStored, SerialTypes, Names, Slots
<1>5. KnownIsGiven'  BY DEF KnownIsGiven, Tointing, Fromints
<1>6. ScanIsAhead'  BY DEF ScanIsAhead, Slots
<1>7. KnownIsFound'  BY DEF KnownIsFound, Tointing
<1>8. Loaded'
  BY DEF Loaded, Carried
<1>9. PredefinedAnswers'  BY DEF PredefinedAnswers, Slots
<1>10. Alone'  BY DEF Alone, Tointing
<1>11. OneCell'  BY DEF OneCell, Slots
<1>12. AppendsIfAbsent'  BY DEF AppendsIfAbsent, Tointing, Appending, Slots
<1> QED  BY <1>1, <1>2, <1>3, <1>4, <1>5, <1>6, <1>7, <1>8, <1>9, <1>10, <1>11, <1>12

\* _fromint compares with the size of the table, not with the counter.
LEMMA CheckIntegerPreserves ==
  ASSUME NEW t \in Threads, SerialInv, CheckInteger(t)
  PROVE  SerialInv'
<1> USE DEF SerialInv, TableInv, TableTypeOK, CheckInteger, CheckIndex, Goto, ghostVars
<1>1. TableInv'
  <2>1. Elsewhere(t)
    BY DEF Elsewhere, TableInv, Labels, Slots, OwnsIndex, TableTypeOK
  <2>   QED  BY <2>1, TableElsewhere
<1>2. SerialTypes'  BY DEF SerialTypes, Answers, Names, Slots
<1>3. Carried'  BY DEF Carried, Tointing, Fromints, Slots
<1>4. GivenIsStored'  BY DEF GivenIsStored, SerialTypes, Names, Slots
<1>5. KnownIsGiven'  BY DEF KnownIsGiven, Tointing, Fromints
<1>6. ScanIsAhead'  BY DEF ScanIsAhead, Slots
<1>7. KnownIsFound'  BY DEF KnownIsFound, Tointing
<1>8. Loaded'  BY DEF Loaded, Slots
<1>9. PredefinedAnswers'  BY DEF PredefinedAnswers, Slots
<1>10. Alone'  BY DEF Alone, Tointing
<1>11. OneCell'  BY DEF OneCell, Slots
<1>12. AppendsIfAbsent'  BY DEF AppendsIfAbsent, Tointing, Appending, Slots
<1> QED  BY <1>1, <1>2, <1>3, <1>4, <1>5, <1>6, <1>7, <1>8, <1>9, <1>10, <1>11, <1>12

\* A predefined handle, or none, needs no table.
LEMMA TointAtOncePreserves ==
  ASSUME NEW t \in Threads, SerialInv, TointAtOnce(t)
  PROVE  SerialInv'
<1> USE DEF SerialInv, TableInv, TableTypeOK, TointAtOnce, Answer, tableVars, ghostVars
<1>0. PICK bits \in Predefined \cup {Unset}, n \in Int :
        /\ out' = [out EXCEPT ![t] = <<"toint", bits, n>>]
        /\ <<"toint", bits, n>> \in {"toint", "fromint"} \X Answers \X Answers
        /\ {bits, n} \cap Predefined # {} => bits = n
  <2>1. PICK bits \in Predefined \cup {Unset} :
          out' = [out EXCEPT ![t] =
                   <<"toint", bits, IF bits \in Predefined THEN bits ELSE Zero>>]
    OBVIOUS
  <2>2. Predefined \subseteq Int /\ Zero \in Int \ Predefined
    BY PredefinedAssumption, BaseAssumption DEF Zero
  <2>3. CASE bits \in Predefined  BY <2>1, <2>2, <2>3 DEF Answers
  <2>4. CASE bits \notin Predefined
    <3>1. bits = Unset /\ Unset \notin Predefined  BY <2>4
    <3>2. out' = [out EXCEPT ![t] = <<"toint", Unset, Zero>>]  BY <2>1, <3>1
    <3>3. {Unset, Zero} \cap Predefined = {}  BY <2>2, <3>1
    <3>   QED  BY <2>2, <3>2, <3>3 DEF Answers
  <2>   QED  BY <2>3, <2>4
<1>1. TableInv'
  <2>1. Elsewhere(t)
    BY DEF Elsewhere, TableInv, Labels, Slots, OwnsIndex, TableTypeOK
  <2>   QED  BY <2>1, TableElsewhere
<1>2. SerialTypes'
  BY <1>0 DEF SerialTypes
<1>3. Carried'  BY DEF Carried, Tointing, Fromints, Slots
<1>4. GivenIsStored'  BY DEF GivenIsStored, SerialTypes, Names, Slots
<1>5. KnownIsGiven'  BY DEF KnownIsGiven, Tointing, Fromints
<1>6. ScanIsAhead'  BY DEF ScanIsAhead, Slots
<1>7. KnownIsFound'  BY DEF KnownIsFound, Tointing
<1>8. Loaded'  BY DEF Loaded, Slots
<1>9. PredefinedAnswers'
  BY <1>0 DEF PredefinedAnswers, SerialTypes
<1>10. Alone'  BY DEF Alone, Tointing
<1>11. OneCell'  BY DEF OneCell, Slots
<1>12. AppendsIfAbsent'  BY DEF AppendsIfAbsent, Tointing, Appending, Slots
<1> QED  BY <1>1, <1>2, <1>3, <1>4, <1>5, <1>6, <1>7, <1>8, <1>9, <1>10, <1>11, <1>12

\* _toint begins, and notes the calls it overlaps with.
LEMMA TointPreserves ==
  ASSUME NEW t \in Threads, SerialInv, Toint(t)
  PROVE  SerialInv'
<1> USE DEF SerialInv, TableInv, TableTypeOK, Toint, Goto
<1>0. PICK h \in Values :
        /\ val'   = [val EXCEPT ![t] = h]
        /\ arg'   = [arg EXCEPT ![t] = h]
        /\ known' = [known EXCEPT ![t] = Integers(h) # {}]
        /\ raced' = IF \E u \in Threads : pc[u] \in Tointing /\ arg[u] = h
                    THEN raced \cup {h} ELSE raced
  OBVIOUS
<1>1. TableInv'
  <2>1. Elsewhere(t)
    BY DEF Elsewhere, TableInv, Labels, Slots, OwnsIndex, TableTypeOK
  <2>   QED  BY <2>1, TableElsewhere
<1>2. SerialTypes'  BY DEF SerialTypes, Answers, Names, Slots
<1>3. Carried'
  BY <1>0 DEF Carried, Tointing, Fromints, SerialTypes
<1>4. GivenIsStored'  BY DEF GivenIsStored, SerialTypes, Names, Slots
<1>5. KnownIsGiven'
  <2>1. known'[t] => Integers(arg'[t]) # {}
    BY <1>0 DEF SerialTypes
  <2>2. known'[t] => \E g \in given : g[2] = arg'[t]
    BY <2>1 DEF Integers
  <2>   QED  BY <1>0, <2>2 DEF KnownIsGiven, SerialTypes, Tointing, Fromints
<1>6. ScanIsAhead'  BY DEF ScanIsAhead, Slots
<1>7. KnownIsFound'  BY DEF KnownIsFound, Tointing
<1>8. Loaded'  BY DEF Loaded, Slots
<1>9. PredefinedAnswers'  BY DEF PredefinedAnswers, Slots
<1>10. Alone'
  BY <1>0 DEF Alone, Tointing, SerialTypes
<1>11. OneCell'  BY DEF OneCell, Slots
<1>12. AppendsIfAbsent'  BY DEF AppendsIfAbsent, Tointing, Appending, Slots
<1> QED  BY <1>1, <1>2, <1>3, <1>4, <1>5, <1>6, <1>7, <1>8, <1>9, <1>10, <1>11, <1>12

\* The scan found nothing: append.
LEMMA AppendPreserves ==
  ASSUME NEW t \in Threads, SerialInv, Append(t)
  PROVE  SerialInv'
<1> USE DEF SerialInv, TableInv, TableTypeOK, Append, Goto, ghostVars
<1>1. TableInv'
  <2>1. Elsewhere(t)
    BY DEF Elsewhere, TableInv, Labels, Slots, OwnsIndex, TableTypeOK
  <2>   QED  BY <2>1, TableElsewhere
<1>2. SerialTypes'  BY DEF SerialTypes, Answers, Names, Slots
<1>3. Carried'  BY DEF Carried, Tointing, Fromints, Slots
<1>4. GivenIsStored'  BY DEF GivenIsStored, SerialTypes, Names, Slots
<1>5. KnownIsGiven'  BY DEF KnownIsGiven, Tointing, Fromints
<1>6. ScanIsAhead'  BY DEF ScanIsAhead, Slots
<1>7. KnownIsFound'  BY DEF KnownIsFound, Tointing
<1>8. Loaded'  BY DEF Loaded, Slots
<1>9. PredefinedAnswers'  BY DEF PredefinedAnswers, Slots
<1>10. Alone'  BY DEF Alone, Tointing
<1>11. OneCell'  BY DEF OneCell, Slots
<1>12. AppendsIfAbsent'  BY DEF AppendsIfAbsent, Tointing, Appending, Slots
<1> QED  BY <1>1, <1>2, <1>3, <1>4, <1>5, <1>6, <1>7, <1>8, <1>9, <1>10, <1>11, <1>12

\* _toint answers the index it found or published.
LEMMA TointReturnsPreserves ==
  ASSUME NEW t \in Threads, SerialInv, TointReturns(t)
  PROVE  SerialInv'
<1> USE DEF SerialInv, TableInv, TableTypeOK, TointReturns, Answer, Return, Leave, Goto
<1>0. /\ arg[t] \in Values /\ idx[t] \in Slots /\ cell[idx[t]] = arg[t]
      /\ Base + idx[t] \in Names \ Predefined /\ Base + idx[t] \in Int
      /\ arg[t] \notin Predefined
  <2>1. arg[t] \in Values /\ idx[t] \in Slots /\ cell[idx[t]] = arg[t]
    BY DEF Carried, Tointing, ClaimIsExclusive, PublishedOnce, OwnsIndex
  <2>2. Base + idx[t] \in Int /\ Base + idx[t] \in Names \ Predefined
    BY <2>1, PredefinedAssumption, BaseAssumption, CapacityAssumption DEF Slots, Names
  <2>   QED  BY <2>1, <2>2, PredefinedAreNoHandles
<1>1. TableInv'
  <2>1. Elsewhere(t)
    BY DEF Elsewhere, TableInv, Labels, Slots, OwnsIndex, TableTypeOK
  <2>   QED  BY <2>1, TableElsewhere
<1>2. SerialTypes'
  <2>1. out' \in [Threads -> {None} \cup ({"toint", "fromint"} \X Answers \X Answers)]
    BY <1>0 DEF SerialTypes, Answers
  <2>2. given' \subseteq Threads \X Values \X Names
    BY <1>0 DEF SerialTypes
  <2>   QED  BY <2>1, <2>2 DEF SerialTypes
<1>3. Carried'  BY DEF Carried, Tointing, Fromints, Slots
<1>4. GivenIsStored'
  BY <1>0, BaseAssumption DEF GivenIsStored
<1>5. KnownIsGiven'  BY DEF KnownIsGiven, Tointing, Fromints
<1>6. ScanIsAhead'  BY DEF ScanIsAhead, Slots
<1>7. KnownIsFound'  BY DEF KnownIsFound, Tointing
<1>8. Loaded'  BY DEF Loaded, Slots
<1>9. PredefinedAnswers'
  BY <1>0 DEF PredefinedAnswers, SerialTypes
<1>10. Alone'  BY DEF Alone, Tointing
<1>11. OneCell'  BY DEF OneCell, Slots
<1>12. AppendsIfAbsent'  BY DEF AppendsIfAbsent, Tointing, Appending, Slots
<1> QED  BY <1>1, <1>2, <1>3, <1>4, <1>5, <1>6, <1>7, <1>8, <1>9, <1>10, <1>11, <1>12

\* _toint finds no room and answers zero.
LEMMA TointFailsPreserves ==
  ASSUME NEW t \in Threads, SerialInv, TointFails(t)
  PROVE  SerialInv'
<1> USE DEF SerialInv, TableInv, TableTypeOK, TointFails, Answer, Return, Leave, Goto
<1>0. /\ <<"toint", arg[t], Zero>> \in {"toint", "fromint"} \X Answers \X Answers
      /\ {arg[t], Zero} \cap Predefined = {}
  BY PredefinedAssumption, PredefinedAreNoHandles, BaseAssumption
  DEF Carried, Tointing, Answers, Zero
<1>1. TableInv'
  <2>1. Elsewhere(t)
    BY DEF Elsewhere, TableInv, Labels, Slots, OwnsIndex, TableTypeOK
  <2>   QED  BY <2>1, TableElsewhere
<1>2. SerialTypes'
  BY <1>0 DEF SerialTypes
<1>3. Carried'  BY DEF Carried, Tointing, Fromints, Slots
<1>4. GivenIsStored'  BY DEF GivenIsStored, SerialTypes, Names, Slots
<1>5. KnownIsGiven'  BY DEF KnownIsGiven, Tointing, Fromints
<1>6. ScanIsAhead'  BY DEF ScanIsAhead, Slots
<1>7. KnownIsFound'  BY DEF KnownIsFound, Tointing
<1>8. Loaded'  BY DEF Loaded, Slots
<1>9. PredefinedAnswers'
  BY <1>0 DEF PredefinedAnswers, SerialTypes
<1>10. Alone'  BY DEF Alone, Tointing
<1>11. OneCell'  BY DEF OneCell, Slots
<1>12. AppendsIfAbsent'  BY DEF AppendsIfAbsent, Tointing, Appending, Slots
<1> QED  BY <1>1, <1>2, <1>3, <1>4, <1>5, <1>6, <1>7, <1>8, <1>9, <1>10, <1>11, <1>12

\* A predefined value needs no table.
LEMMA FromintAtOncePreserves ==
  ASSUME NEW t \in Threads, SerialInv, FromintAtOnce(t)
  PROVE  SerialInv'
<1> USE DEF SerialInv, TableInv, TableTypeOK, FromintAtOnce, Answer, tableVars, ghostVars
<1>1. TableInv'
  <2>1. Elsewhere(t)
    BY DEF Elsewhere, TableInv, Labels, Slots, OwnsIndex, TableTypeOK
  <2>   QED  BY <2>1, TableElsewhere
<1>2. SerialTypes'
  BY PredefinedAssumption DEF SerialTypes, Answers
<1>3. Carried'  BY DEF Carried, Tointing, Fromints, Slots
<1>4. GivenIsStored'  BY DEF GivenIsStored, SerialTypes, Names, Slots
<1>5. KnownIsGiven'  BY DEF KnownIsGiven, Tointing, Fromints
<1>6. ScanIsAhead'  BY DEF ScanIsAhead, Slots
<1>7. KnownIsFound'  BY DEF KnownIsFound, Tointing
<1>8. Loaded'  BY DEF Loaded, Slots
<1>9. PredefinedAnswers'  BY DEF PredefinedAnswers, Slots
<1>10. Alone'  BY DEF Alone, Tointing
<1>11. OneCell'  BY DEF OneCell, Slots
<1>12. AppendsIfAbsent'  BY DEF AppendsIfAbsent, Tointing, Appending, Slots
<1> QED  BY <1>1, <1>2, <1>3, <1>4, <1>5, <1>6, <1>7, <1>8, <1>9, <1>10, <1>11, <1>12

\* _fromint begins, with any integer.
LEMMA FromintPreserves ==
  ASSUME NEW t \in Threads, SerialInv, Fromint(t)
  PROVE  SerialInv'
<1> USE DEF SerialInv, TableInv, TableTypeOK, Fromint, Goto
<1>0. PICK i \in Int \ Predefined :
        /\ arg' = [arg EXCEPT ![t] = i]
        /\ idx' = [idx EXCEPT ![t] = i - Base]
        /\ i - Base \in Int
        /\ known' = [known EXCEPT ![t] = \E g \in given : g[3] = i]
  <2>1. PICK i \in ({Zero} \cup (Base - 1 .. Base + Capacity)) \ Predefined :
          /\ arg' = [arg EXCEPT ![t] = i]
          /\ idx' = [idx EXCEPT ![t] = i - Base]
          /\ known' = [known EXCEPT ![t] = \E g \in given : g[3] = i]
    OBVIOUS
  <2>2. i \in Int \ Predefined /\ i - Base \in Int
    BY BaseAssumption, CapacityAssumption DEF Zero
  <2>   QED  BY <2>1, <2>2
<1>1. TableInv'
  <2>1. Elsewhere(t)
    BY <1>0 DEF Elsewhere, TableInv, Labels, Slots, OwnsIndex, TableTypeOK
  <2>   QED  BY <2>1, TableElsewhere
<1>2. SerialTypes'
  BY <1>0 DEF SerialTypes, Answers
<1>3. Carried'
  BY <1>0 DEF Carried, Tointing, Fromints, SerialTypes
<1>4. GivenIsStored'  BY DEF GivenIsStored, SerialTypes, Names, Slots
<1>5. KnownIsGiven'
  BY <1>0 DEF KnownIsGiven, Tointing, Fromints, SerialTypes
<1>6. ScanIsAhead'  BY DEF ScanIsAhead, Slots
<1>7. KnownIsFound'  BY DEF KnownIsFound, Tointing
<1>8. Loaded'  BY DEF Loaded, Slots
<1>9. PredefinedAnswers'  BY DEF PredefinedAnswers, Slots
<1>10. Alone'  BY DEF Alone, Tointing
<1>11. OneCell'  BY DEF OneCell, Slots
<1>12. AppendsIfAbsent'  BY DEF AppendsIfAbsent, Tointing, Appending, Slots
<1> QED  BY <1>1, <1>2, <1>3, <1>4, <1>5, <1>6, <1>7, <1>8, <1>9, <1>10, <1>11, <1>12

\* _fromint answers what it loaded.
LEMMA FromintReturnsPreserves ==
  ASSUME NEW t \in Threads, SerialInv, FromintReturns(t)
  PROVE  SerialInv'
<1> USE DEF SerialInv, TableInv, TableTypeOK, FromintReturns, Answer, Return, Leave, Goto
<1>0. /\ <<"fromint", arg[t], val[t]>> \in {"toint", "fromint"} \X Answers \X Answers
      /\ {arg[t], val[t]} \cap Predefined = {}
  BY PredefinedAreNoHandles DEF Carried, Fromints, Answers
<1>1. TableInv'
  <2>1. Elsewhere(t)
    BY DEF Elsewhere, TableInv, Labels, Slots, OwnsIndex, TableTypeOK
  <2>   QED  BY <2>1, TableElsewhere
<1>2. SerialTypes'
  BY <1>0 DEF SerialTypes
<1>3. Carried'  BY DEF Carried, Tointing, Fromints, Slots
<1>4. GivenIsStored'  BY DEF GivenIsStored, SerialTypes, Names, Slots
<1>5. KnownIsGiven'  BY DEF KnownIsGiven, Tointing, Fromints
<1>6. ScanIsAhead'  BY DEF ScanIsAhead, Slots
<1>7. KnownIsFound'  BY DEF KnownIsFound, Tointing
<1>8. Loaded'  BY DEF Loaded, Slots
<1>9. PredefinedAnswers'
  BY <1>0 DEF PredefinedAnswers, SerialTypes
<1>10. Alone'  BY DEF Alone, Tointing
<1>11. OneCell'  BY DEF OneCell, Slots
<1>12. AppendsIfAbsent'  BY DEF AppendsIfAbsent, Tointing, Appending, Slots
<1> QED  BY <1>1, <1>2, <1>3, <1>4, <1>5, <1>6, <1>7, <1>8, <1>9, <1>10, <1>11, <1>12

\* _fromint answers the null handle.
LEMMA FromintFailsPreserves ==
  ASSUME NEW t \in Threads, SerialInv, FromintFails(t)
  PROVE  SerialInv'
<1> USE DEF SerialInv, TableInv, TableTypeOK, FromintFails, Answer, Return, Leave, Goto
<1>0. /\ <<"fromint", arg[t], None>> \in {"toint", "fromint"} \X Answers \X Answers
      /\ {arg[t], None} \cap Predefined = {}
  <2>1. arg[t] \in Int \ Predefined  BY DEF Carried, Fromints
  <2>2. None \notin Predefined  BY PredefinedAssumption, BaseAssumption, NoneAssumption
  <2>   QED  BY <2>1, <2>2 DEF Answers
<1>1. TableInv'
  <2>1. Elsewhere(t)
    BY DEF Elsewhere, TableInv, Labels, Slots, OwnsIndex, TableTypeOK
  <2>   QED  BY <2>1, TableElsewhere
<1>2. SerialTypes'
  BY <1>0 DEF SerialTypes
<1>3. Carried'  BY DEF Carried, Tointing, Fromints, Slots
<1>4. GivenIsStored'  BY DEF GivenIsStored, SerialTypes, Names, Slots
<1>5. KnownIsGiven'  BY DEF KnownIsGiven, Tointing, Fromints
<1>6. ScanIsAhead'  BY DEF ScanIsAhead, Slots
<1>7. KnownIsFound'  BY DEF KnownIsFound, Tointing
<1>8. Loaded'  BY DEF Loaded, Slots
<1>9. PredefinedAnswers'
  BY <1>0 DEF PredefinedAnswers, SerialTypes
<1>10. Alone'  BY DEF Alone, Tointing
<1>11. OneCell'  BY DEF OneCell, Slots
<1>12. AppendsIfAbsent'  BY DEF AppendsIfAbsent, Tointing, Appending, Slots
<1> QED  BY <1>1, <1>2, <1>3, <1>4, <1>5, <1>6, <1>7, <1>8, <1>9, <1>10, <1>11, <1>12

-----------------------------------------------------------------------------
(* Every step, and the theorems. *)

LEMMA StutterPreserves ==
  ASSUME SerialInv, UNCHANGED vars
  PROVE  SerialInv'
  BY DEF SerialInv, vars, tableVars, ghostVars, TableInv, TableTypeOK,
         UnclaimedIsUnset, ClaimIsExclusive, PublishedOnce, FullMeansFull,
         OwnsIndex, SerialTypes, Carried, GivenIsStored, KnownIsGiven,
         ScanIsAhead, KnownIsFound, Loaded, PredefinedAnswers, Alone, OneCell,
         AppendsIfAbsent

LEMMA NextPreserves ==
  ASSUME SerialInv, [Next]_vars
  PROVE  SerialInv'
<1>1. CASE UNCHANGED vars  BY <1>1, StutterPreserves
<1>2. CASE Next
  <2>1. PICK t \in Threads :
          \/ TableAction(t)
          \/ TointAtOnce(t) \/ Toint(t) \/ Append(t) \/ TointReturns(t) \/ TointFails(t)
          \/ FromintAtOnce(t) \/ Fromint(t) \/ CheckInteger(t)
          \/ FromintReturns(t) \/ FromintFails(t)
    BY <1>2 DEF Next
  <2>2. CASE TableAction(t)
    BY <2>2, ClaimPreserves, ResetCounterPreserves, PublishPreserves,
       ReadCountPreserves, ScanMatchPreserves, ScanNextPreserves,
       ScanEndPreserves, LoadCellPreserves
    DEF TableAction, TableStep
  <2>3. CASE TointAtOnce(t) \/ Toint(t) \/ Append(t) \/ TointReturns(t) \/ TointFails(t)
    BY <2>3, TointAtOncePreserves, TointPreserves, AppendPreserves,
       TointReturnsPreserves, TointFailsPreserves
  <2>4. CASE \/ FromintAtOnce(t) \/ Fromint(t) \/ CheckInteger(t)
             \/ FromintReturns(t) \/ FromintFails(t)
    BY <2>4, FromintAtOncePreserves, FromintPreserves, CheckIntegerPreserves,
       FromintReturnsPreserves, FromintFailsPreserves
  <2>   QED  BY <2>1, <2>2, <2>3, <2>4
<1>   QED  BY <1>1, <1>2

LEMMA SerialInvHolds == Spec => []SerialInv
  BY InitEstablishes, NextPreserves, PTL DEF Spec

(***************************************************************************)
(* The state of Serialize keeps its type.                                  *)
(***************************************************************************)
THEOREM TypeCorrect == Spec => []TypeOK
<1>1. SerialInv => TypeOK
  <2> SUFFICES ASSUME SerialInv PROVE TypeOK  OBVIOUS
  <2>1. \A t \in Threads : out[t] # None => out[t][1] \in {"toint", "fromint"}
    BY DEF SerialInv, SerialTypes
  <2>   QED  BY <2>1 DEF SerialInv, SerialTypes, TableInv, TypeOK
<1>   QED  BY <1>1, SerialInvHolds, PTL

(***************************************************************************)
(* An integer that _toint answered goes back to its handle and no other,   *)
(* for every number of threads and every capacity (serialize.c:1-35).      *)
(***************************************************************************)
THEOREM HandlesRoundTrip == Spec => []RoundTrip
<1>1. SerialInv => RoundTrip
  <2> SUFFICES ASSUME SerialInv PROVE RoundTrip  OBVIOUS
  <2> USE DEF SerialInv
  <2>1. \A g, h \in given : g[3] = h[3] => g[2] = h[2]
    BY DEF GivenIsStored
  <2>2. ASSUME NEW t \in Threads, pc[t] = "loaded", NEW g \in given, g[3] = arg[t]
        PROVE  val[t] = g[2] \/ (~known[t] /\ val[t] = Unset)
    BY <2>2 DEF Loaded, Carried, Fromints, GivenIsStored
  <2>3. ASSUME NEW t \in Threads, pc[t] = "nosuch"
        PROVE  ~known[t]
    BY <2>3 DEF KnownIsGiven, GivenIsStored, Carried, Fromints
  <2>   QED  BY <2>1, <2>2, <2>3 DEF RoundTrip, PredefinedAnswers
<1>   QED  BY <1>1, SerialInvHolds, PTL

(***************************************************************************)
(* A handle that has an integer is neither appended again nor refused for  *)
(* want of room (serialize.c:72-83).                                       *)
(***************************************************************************)
THEOREM NamedStaysNamed == Spec => []OnceNamedAlwaysNamed
<1>1. SerialInv => OnceNamedAlwaysNamed
  BY DEF SerialInv, KnownIsFound, OnceNamedAlwaysNamed
<1>   QED  BY <1>1, SerialInvHolds, PTL

(***************************************************************************)
(* Every thread is answered the same integer for a handle that no two      *)
(* calls serialized at the same time (serialize.c:72-76).                  *)
(***************************************************************************)
THEOREM OneIntegerEach == Spec => []OneIntegerUnlessRaced
<1>1. SerialInv => OneIntegerUnlessRaced
  <2> SUFFICES ASSUME SerialInv, NEW h \in Values \ raced
               PROVE  Cardinality(Integers(h)) <= 1
    BY DEF OneIntegerUnlessRaced
  <2> USE DEF SerialInv
  <2>1. \A g, k \in given : g[2] = h /\ k[2] = h => g[3] = k[3]
    <3> SUFFICES ASSUME NEW g \in given, NEW k \in given, g[2] = h, k[2] = h
                 PROVE  g[3] = k[3]
      OBVIOUS
    <3>1. g[3] - Base = k[3] - Base  BY DEF GivenIsStored, OneCell
    <3>2. g[3] \in Int /\ k[3] \in Int
      BY BaseAssumption, CapacityAssumption DEF SerialTypes, Names
    <3>   QED  BY <3>1, <3>2, BaseAssumption
  <2>2. CASE Integers(h) = {}
    BY <2>2, FS_EmptySet
  <2>3. CASE Integers(h) # {}
    <3>1. PICK i : i \in Integers(h)  BY <2>3
    <3>2. Integers(h) = {i}  BY <2>1, <3>1 DEF Integers
    <3>3. Cardinality({i}) = 1  BY FS_Singleton, Zenon
    <3>   QED  BY <3>2, <3>3
  <2>   QED  BY <2>2, <2>3
<1>   QED  BY <1>1, SerialInvHolds, PTL

-----------------------------------------------------------------------------
(***************************************************************************)
(* What a race can cost.  Once a handle has a cell, a call that has not    *)
(* yet passed it finds it, so the calls that may still append the handle   *)
(* get fewer and each of them appends it once: they and the cells of the   *)
(* handle together are no more than the threads.                           *)
(***************************************************************************)
SlotsOf(h) == {s \in Slots : cell[s] = h}

MayAppend(h) ==
  {t \in Threads :
     /\ arg[t] = h
     /\ \/ pc[t] \in Appending
        \/ pc[t] = "count" /\ SlotsOf(h) = {}
        \/ pc[t] = "scan" /\ \A s \in SlotsOf(h) : s > idx[t]}

SlotsAndAppenders(h) == Cardinality(SlotsOf(h)) + Cardinality(MayAppend(h))

ThreadsAreLeft == \A h \in Values : SlotsAndAppenders(h) <= Cardinality(Threads)

\* No cell is written, and no call comes to append the handle.
NoMoreAppend(h) ==
  SlotsOf(h)' = SlotsOf(h) /\ MayAppend(h)' \subseteq MayAppend(h)

\* One of the calls that may append the handle has done so.
OneHasAppended(h) ==
  \E t \in MayAppend(h), s \in Slots \ SlotsOf(h) :
    /\ SlotsOf(h)' = SlotsOf(h) \cup {s}
    /\ MayAppend(h)' \subseteq MayAppend(h) \ {t}

\* Slots and threads are finitely many.
LEMMA SlotsAndThreadsAreFinite ==
  ASSUME NEW S \in SUBSET Slots, NEW M \in SUBSET Threads
  PROVE  /\ IsFiniteSet(S) /\ Cardinality(S) \in Nat
         /\ IsFiniteSet(M) /\ Cardinality(M) \in Nat
         /\ Cardinality(M) <= Cardinality(Threads)
         /\ Cardinality(Threads) \in Nat
<1>1. IsFiniteSet(Slots)
  BY CapacityAssumption, FS_Interval DEF Slots
<1>2. IsFiniteSet(S)  BY <1>1, FS_Subset
<1>3. IsFiniteSet(M) /\ Cardinality(M) <= Cardinality(Threads)
  BY ThreadsAssumption, FS_Subset
<1>   QED  BY <1>2, <1>3, ThreadsAssumption, FS_CardinalityType

\* The accesses to the table: a cell that is published lies ahead of every
\* scan that starts after it, and a scan passes no cell of its handle
\* (serialize.c:80-104).
LEMMA TableStepAppendsOnce ==
  ASSUME SerialInv, NEW t \in Threads, TableAction(t), NEW h \in Values
  PROVE  NoMoreAppend(h) \/ OneHasAppended(h)
<1> USE DEF SerialInv, TableInv, TableTypeOK, TableAction, ghostVars, Goto
<1>1. CASE Claim(t)
  BY <1>1 DEF Claim, NoMoreAppend, SlotsOf, MayAppend, Appending
<1>2. CASE ResetCounter(t)
  BY <1>2 DEF ResetCounter, NoMoreAppend, SlotsOf, MayAppend, Appending
<1>3. CASE Publish(t)
  <2> USE <1>3 DEF Publish
  <2>0. /\ idx[t] \in Slots /\ cell[idx[t]] = Unset
        /\ arg[t] \in Values /\ cell' = [cell EXCEPT ![idx[t]] = arg[t]]
    BY DEF Carried, Tointing, ClaimIsExclusive, PublishedOnce, OwnsIndex
  <2>1. CASE arg[t] = h
    <3>1. t \in MayAppend(h)  BY <2>1 DEF MayAppend, Appending
    <3>2. idx[t] \in Slots \ SlotsOf(h)
      BY <2>0, UnsetAssumption DEF SlotsOf
    <3>3. SlotsOf(h)' = SlotsOf(h) \cup {idx[t]}
      BY <2>0, <2>1 DEF SlotsOf
    <3>4. MayAppend(h)' \subseteq MayAppend(h) \ {t}
      <4>1. t \notin MayAppend(h)'  BY DEF MayAppend, Appending
      <4>2. ASSUME NEW u \in MayAppend(h)'  PROVE u \in MayAppend(h)
        BY <3>3, <4>1, <4>2 DEF MayAppend
      <4>   QED  BY <4>1, <4>2
    <3>   QED  BY <3>1, <3>2, <3>3, <3>4 DEF OneHasAppended
  <2>2. CASE arg[t] # h
    <3>1. SlotsOf(h)' = SlotsOf(h)
      BY <2>0, <2>2, UnsetAssumption DEF SlotsOf
    <3>2. MayAppend(h)' \subseteq MayAppend(h)
      BY <2>2, <3>1 DEF MayAppend, Appending
    <3>   QED  BY <3>1, <3>2 DEF NoMoreAppend
  <2>   QED  BY <2>1, <2>2
<1>4. CASE ReadCount(t)
  <2> USE <1>4 DEF ReadCount
  <2>1. SlotsOf(h)' = SlotsOf(h)  BY DEF SlotsOf
  <2>2. \A s \in SlotsOf(h) : s <= NewestIndex
    BY NewestIndexCovers, UnsetAssumption DEF SlotsOf, UnclaimedIsUnset, Slots
  <2>3. NewestIndex \in Int /\ idx' = [idx EXCEPT ![t] = NewestIndex]
    BY NewestIndexCovers, CapacityAssumption
  <2>4. SlotsOf(h) \subseteq Int  BY DEF SlotsOf, Slots
  <2>5. t \in MayAppend(h)' => t \in MayAppend(h)
    BY <2>1, <2>2, <2>3, <2>4 DEF MayAppend, Appending
  <2>6. \A u \in Threads \ {t} : u \in MayAppend(h)' <=> u \in MayAppend(h)
    BY <2>1, <2>3 DEF MayAppend
  <2>7. MayAppend(h)' \subseteq Threads  BY DEF MayAppend
  <2>   QED  BY <2>1, <2>5, <2>6, <2>7 DEF NoMoreAppend
<1>5. CASE ScanMatch(t)
  BY <1>5 DEF ScanMatch, NoMoreAppend, SlotsOf, MayAppend, Appending
<1>6. CASE ScanNext(t)
  <2> USE <1>6 DEF ScanNext
  <2>1. SlotsOf(h)' = SlotsOf(h)  BY DEF SlotsOf
  <2>2. arg[t] = h => idx[t] \notin SlotsOf(h)
    BY DEF Carried, Tointing, SlotsOf
  <2>3. SlotsOf(h) \subseteq Int  BY DEF SlotsOf, Slots
  <2>4. t \in MayAppend(h)' => t \in MayAppend(h)
    BY <2>1, <2>2, <2>3 DEF MayAppend, Appending
  <2>5. \A u \in Threads \ {t} : u \in MayAppend(h)' <=> u \in MayAppend(h)
    BY <2>1 DEF MayAppend
  <2>6. MayAppend(h)' \subseteq Threads  BY DEF MayAppend
  <2>   QED  BY <2>1, <2>4, <2>5, <2>6 DEF NoMoreAppend
<1>7. CASE ScanEnd(t)
  <2> USE <1>7 DEF ScanEnd
  <2>1. SlotsOf(h)' = SlotsOf(h)  BY DEF SlotsOf
  <2>2. \A s \in SlotsOf(h) : s > idx[t]  BY CapacityAssumption DEF SlotsOf, Slots
  <2>3. MayAppend(h)' \subseteq MayAppend(h)
    BY <2>1, <2>2 DEF MayAppend, Appending
  <2>   QED  BY <2>1, <2>3 DEF NoMoreAppend
<1>8. CASE LoadCell(t)
  BY <1>8 DEF LoadCell, NoMoreAppend, SlotsOf, MayAppend, Appending
<1> QED  BY <1>1, <1>2, <1>3, <1>4, <1>5, <1>6, <1>7, <1>8 DEF TableStep

\* A call that begins with a handle that has a cell is none that may append
\* it (serialize.c:72-83).
LEMMA TointAppendsOnce ==
  ASSUME SerialInv, NEW t \in Threads, Toint(t), NEW h \in Values
  PROVE  SlotsOf(h)' = {} \/ NoMoreAppend(h)
<1> USE DEF SerialInv, TableInv, TableTypeOK, SerialTypes, Toint, Goto
<1>1. SlotsOf(h)' = SlotsOf(h)  BY DEF SlotsOf
<1>2. SUFFICES ASSUME SlotsOf(h) # {} PROVE MayAppend(h)' \subseteq MayAppend(h)
  BY <1>1 DEF NoMoreAppend
<1>3. t \notin MayAppend(h)'  BY <1>1, <1>2 DEF MayAppend, Appending
<1>4. \A u \in Threads \ {t} : u \in MayAppend(h)' <=> u \in MayAppend(h)
  BY <1>1 DEF MayAppend
<1>5. MayAppend(h)' \subseteq Threads  BY DEF MayAppend
<1>   QED  BY <1>3, <1>4, <1>5

\* Deciding to append comes after the scan; a call that returns, or goes the
\* other way, appends nothing.
LEMMA OthersAppendNothing ==
  ASSUME SerialInv, NEW t \in Threads, NEW h \in Values,
         \/ TointAtOnce(t) \/ Append(t) \/ TointReturns(t) \/ TointFails(t)
         \/ FromintAtOnce(t) \/ Fromint(t) \/ CheckInteger(t)
         \/ FromintReturns(t) \/ FromintFails(t)
  PROVE  NoMoreAppend(h)
<1> USE DEF SerialInv, TableInv, TableTypeOK, SerialTypes, Goto, Leave, Return,
            Answer, tableVars, ghostVars, NoMoreAppend, SlotsOf, MayAppend,
            Appending
<1>1. CASE TointAtOnce(t)    BY <1>1 DEF TointAtOnce
<1>2. CASE Append(t)         BY <1>2 DEF Append
<1>3. CASE TointReturns(t)   BY <1>3 DEF TointReturns
<1>4. CASE TointFails(t)     BY <1>4 DEF TointFails
<1>5. CASE FromintAtOnce(t)  BY <1>5 DEF FromintAtOnce
<1>6. CASE Fromint(t)        BY <1>6 DEF Fromint
<1>7. CASE CheckInteger(t)   BY <1>7 DEF CheckInteger, CheckIndex
<1>8. CASE FromintReturns(t) BY <1>8 DEF FromintReturns
<1>9. CASE FromintFails(t)   BY <1>9 DEF FromintFails
<1>   QED  BY <1>1, <1>2, <1>3, <1>4, <1>5, <1>6, <1>7, <1>8, <1>9

\* Whatever a step does with a handle, it takes no more than there are threads.
LEMMA EveryStepAppendsOnce ==
  ASSUME SerialInv, [Next]_vars, NEW h \in Values
  PROVE  SlotsOf(h)' = {} \/ NoMoreAppend(h) \/ OneHasAppended(h)
<1>1. CASE UNCHANGED vars
  BY <1>1 DEF vars, tableVars, NoMoreAppend, SlotsOf, MayAppend
<1>2. CASE Next
  BY <1>2, TableStepAppendsOnce, TointAppendsOnce, OthersAppendNothing DEF Next
<1>   QED  BY <1>1, <1>2

LEMMA ThreadsAreLeftPreserved ==
  ASSUME SerialInv, ThreadsAreLeft, [Next]_vars
  PROVE  ThreadsAreLeft'
<1> SUFFICES ASSUME NEW h \in Values
             PROVE  SlotsAndAppenders(h)' <= Cardinality(Threads)
  BY DEF ThreadsAreLeft
<1> DEFINE S == SlotsOf(h)
           M == MayAppend(h)
<1>1. /\ IsFiniteSet(S) /\ Cardinality(S) \in Nat
      /\ IsFiniteSet(M) /\ Cardinality(M) \in Nat
  BY SlotsAndThreadsAreFinite DEF SlotsOf, MayAppend
<1>2. /\ Cardinality(S') \in Nat
      /\ IsFiniteSet(M') /\ Cardinality(M') \in Nat
      /\ Cardinality(M') <= Cardinality(Threads)
      /\ Cardinality(Threads) \in Nat
  BY SlotsAndThreadsAreFinite DEF SlotsOf, MayAppend
<1>3. Cardinality(S) + Cardinality(M) <= Cardinality(Threads)
  BY DEF ThreadsAreLeft, SlotsAndAppenders
<1>4. SUFFICES Cardinality(S') + Cardinality(M') <= Cardinality(Threads)
  BY DEF SlotsAndAppenders
<1>5. CASE S' = {}
  <2>1. Cardinality(S') = 0  BY <1>5, FS_EmptySet
  <2>   QED  BY <1>2, <2>1
<1>6. CASE NoMoreAppend(h)
  <2>1. S' = S /\ M' \subseteq M  BY <1>6 DEF NoMoreAppend
  <2>2. Cardinality(M') <= Cardinality(M)  BY <1>1, <2>1, FS_Subset
  <2>   QED  BY <1>1, <1>2, <1>3, <2>1, <2>2
<1>7. CASE OneHasAppended(h)
  <2>1. PICK t \in M, s \in Slots \ S : S' = S \cup {s} /\ M' \subseteq M \ {t}
    BY <1>7 DEF OneHasAppended
  <2>2. Cardinality(S') = Cardinality(S) + 1  BY <1>1, <2>1, FS_AddElement
  <2>3. IsFiniteSet(M \ {t}) /\ Cardinality(M \ {t}) = Cardinality(M) - 1
    BY <1>1, <2>1, FS_RemoveElement
  <2>4. Cardinality(M') <= Cardinality(M \ {t})  BY <2>1, <2>3, FS_Subset
  <2>   QED  BY <1>1, <1>2, <1>3, <2>2, <2>3, <2>4
<1>   QED  BY <1>5, <1>6, <1>7, EveryStepAppendsOnce

(***************************************************************************)
(* A handle takes one slot for each thread at the most, whatever calls     *)
(* race for it and however often (serialize.c:85-91).                      *)
(***************************************************************************)
THEOREM RacesCostASlotPerThread == Spec => []SlotsPerHandle
<1>1. Init => ThreadsAreLeft
  <2> SUFFICES ASSUME Init, NEW h \in Values
               PROVE  SlotsAndAppenders(h) <= Cardinality(Threads)
    BY DEF ThreadsAreLeft
  <2>1. SlotsOf(h) = {}
    BY UnsetAssumption DEF Init, TableInit, SlotsOf
  <2>2. Cardinality(SlotsOf(h)) = 0  BY <2>1, FS_EmptySet
  <2>3. MayAppend(h) \subseteq Threads  BY DEF MayAppend
  <2>   QED  BY <2>2, <2>3, SlotsAndThreadsAreFinite DEF SlotsAndAppenders
<1>2. ThreadsAreLeft => SlotsPerHandle
  <2> SUFFICES ASSUME ThreadsAreLeft, NEW h \in Values
               PROVE  Cardinality(SlotsOf(h)) <= Cardinality(Threads)
    BY DEF SlotsPerHandle, SlotsOf
  <2>1. SlotsOf(h) \subseteq Slots /\ MayAppend(h) \subseteq Threads
    BY DEF SlotsOf, MayAppend
  <2>   QED  BY <2>1, SlotsAndThreadsAreFinite DEF ThreadsAreLeft, SlotsAndAppenders
<1>   QED
  BY <1>1, <1>2, SerialInvHolds, ThreadsAreLeftPreserved, PTL DEF Spec

-----------------------------------------------------------------------------
(***************************************************************************)
(* Serialize implements HandleNames: a step of a thread asks, decides an   *)
(* answer, or returns with it, or its callers do not see it.               *)
(***************************************************************************)
Given    == {<<g[2], g[3] - Base>> : g \in given}
Asked    == [t \in Threads |-> AskedBy(t)]
Answered == [t \in Threads |-> AnswerTo(t)]

OnlyThread(t) ==
  \A u \in Threads \ {t} :
    /\ pc'[u] = pc[u] /\ val'[u] = val[u] /\ idx'[u] = idx[u]
    /\ arg'[u] = arg[u] /\ known'[u] = known[u]

\* What no step but the return of _toint changes, and no step but the store
\* that publishes.
SameNames == cell' = cell /\ given' = given

LEMMA OneThread ==
  ASSUME NEW t \in Threads, OnlyThread(t)
  PROVE  /\ Asked' = [Asked EXCEPT ![t] = AskedBy(t)']
         /\ Answered' = [Answered EXCEPT ![t] = AnswerTo(t)']
         /\ Asked[t] = AskedBy(t) /\ Answered[t] = AnswerTo(t)
<1>1. \A u \in Threads \ {t} : AskedBy(u)' = AskedBy(u) /\ AnswerTo(u)' = AnswerTo(u)
  BY DEF OnlyThread, AskedBy, AnswerTo
<1>   QED  BY <1>1 DEF Asked, Answered

\* What has been given, in the terms of Serialize.
LEMMA GivenIsGiven ==
  ASSUME SerialInv
  PROVE  \A h \in Values, s \in Slots :
           <<h, s>> \in Given <=> \E g \in given : g[2] = h /\ g[3] = Base + s
<1> SUFFICES ASSUME NEW h \in Values, NEW s \in Slots
             PROVE  <<h, s>> \in Given <=> \E g \in given : g[2] = h /\ g[3] = Base + s
  OBVIOUS
<1>1. \A g \in given : g[3] \in Int
  BY BaseAssumption, CapacityAssumption DEF SerialInv, SerialTypes, Names
<1>2. s \in Int /\ Base \in Int  BY BaseAssumption DEF Slots
<1>3. \A g \in given : g[3] - Base = s <=> g[3] = Base + s  BY <1>1, <1>2
<1>   QED  BY <1>3 DEF Given

\* An answer of _toint adds its name.
LEMMA GivenGrows ==
  ASSUME NEW t, NEW h, NEW i \in Int, given' = given \cup {<<t, h, Base + i>>}
  PROVE  Given' = Given \cup {<<h, i>>}
<1>1. (Base + i) - Base = i  BY BaseAssumption
<1>2. \A p : p \in Given' <=> \E g \in given' : p = <<g[2], g[3] - Base>>
  BY DEF Given
<1>3. \A p : p \in Given <=> \E g \in given : p = <<g[2], g[3] - Base>>
  BY DEF Given
<1> DEFINE new == <<t, h, Base + i>>
<1>4. new[2] = h /\ new[3] = Base + i /\ given' = given \cup {new}  OBVIOUS
<1> HIDE DEF new
<1>5. <<new[2], new[3] - Base>> = <<h, i>>  BY <1>1, <1>4
<1>6. \A p : p \in Given' <=> p \in Given \/ p = <<h, i>>
  BY <1>2, <1>3, <1>4, <1>5, Zenon
<1>   QED  BY <1>6

LEMMA Unseen ==
  ASSUME NEW t \in Threads, OnlyThread(t), SameNames,
         AskedBy(t)' = AskedBy(t), AnswerTo(t)' = AnswerTo(t)
  PROVE  UNCHANGED Promise!nameVars
<1>1. Asked' = Asked /\ Answered' = Answered
  BY OneThread DEF Asked, Answered
<1>   QED  BY <1>1 DEF Promise!nameVars, Asked, Answered, SameNames

\* A step that asks.
LEMMA Asks ==
  ASSUME NEW t \in Threads, OnlyThread(t), SameNames,
         AskedBy(t) = Promise!Nothing, AnswerTo(t)' = AnswerTo(t),
         \/ \E h \in Values :
              AskedBy(t)' = <<"toint", h, \E s \in Slots : <<h, s>> \in Given>>
         \/ \E s \in Slots \cup {None} :
              AskedBy(t)' = <<"fromint", s, \E h \in Values : <<h, s>> \in Given>>
  PROVE  Promise!Next
<1>1. /\ Asked' = [Asked EXCEPT ![t] = AskedBy(t)']
      /\ Answered' = Answered /\ Asked[t] = Promise!Nothing
  BY OneThread DEF Answered
<1>2. Promise!Ask(t, AskedBy(t)')
  BY <1>1 DEF Promise!Ask, Asked, Answered, SameNames
<1>3. Promise!AskName(t) \/ Promise!AskHandle(t)
  BY <1>2 DEF Promise!AskName, Promise!AskHandle, Given
<1>   QED  BY <1>3 DEF Promise!Next

\* A step that decides the answer, and what the map says of it.
LEMMA Decides ==
  ASSUME NEW t \in Threads, OnlyThread(t), given' = given,
         AskedBy(t)' = AskedBy(t), AnswerTo(t) = << >>,
         NEW a, AnswerTo(t)' = <<a>>
  PROVE  Promise!Say(t, a) /\ Asked[t] = AskedBy(t) /\ Answered[t] = << >>
<1>1. Asked' = Asked /\ Answered' = [Answered EXCEPT ![t] = <<a>>]
  BY OneThread DEF Asked
<1>2. Promise!Say(t, a)
  BY <1>1 DEF Promise!Say, Asked, Answered
<1>   QED  BY <1>2, OneThread

\* The access that ends a scan at an entry finds a name of the handle
\* (serialize.c:81-83).
LEMMA ScanMatchFinds ==
  ASSUME NEW t \in Threads, SerialInv, ScanMatch(t), UNCHANGED <<arg, out, ghostVars>>
  PROVE  Promise!Next
<1> USE DEF SerialInv, TableInv, TableTypeOK, ScanMatch, Goto, ghostVars
<1>1. OnlyThread(t) /\ SameNames  BY DEF OnlyThread, SameNames
<1>2. idx[t] \in Slots /\ cell[idx[t]] = arg[t]
  BY CapacityAssumption DEF Carried, Tointing, Slots
<1>3. AskedBy(t) = <<"toint", arg[t], known[t]>> /\ AskedBy(t)' = AskedBy(t)
  BY DEF AskedBy, Tointing
<1>4. AnswerTo(t) = << >> /\ AnswerTo(t)' = <<idx[t]>>
  BY DEF AnswerTo
<1>5. /\ Promise!Say(t, idx[t])
      /\ Asked[t] = AskedBy(t) /\ Answered[t] = << >>
  BY <1>1, <1>3, <1>4, Decides DEF SameNames
<1>6. Asked[t][1] = "toint" /\ Asked[t][2] = arg[t]  BY <1>3, <1>5
<1>7. Promise!FindName(t)
  BY <1>1, <1>2, <1>5, <1>6
  DEF Promise!FindName, Promise!Waits, Asked, Answered, SameNames
<1>   QED  BY <1>7 DEF Promise!Next

\* A call that appends its handle may do so: the handle had no name when the
\* call began.
LEMMA AppenderMayGive ==
  ASSUME SerialInv, NEW u \in Threads, pc[u] \in {"claim", "publish"}
  PROVE  /\ Promise!MayGive(u)
         /\ AskedBy(u) = <<"toint", arg[u], known[u]>> /\ AnswerTo(u) = << >>
<1>1. ~known[u]  BY DEF SerialInv, KnownIsFound, Tointing, SerialTypes
<1>2. /\ AskedBy(u) = <<"toint", arg[u], known[u]>>
      /\ AnswerTo(u) = << >>
  BY DEF AskedBy, AnswerTo, Tointing
<1>3. Asked[u] = AskedBy(u) /\ Answered[u] = AnswerTo(u)  BY DEF Asked, Answered
<1>4. Asked[u][1] = "toint" /\ ~Asked[u][3] /\ Answered[u] = << >>
  BY <1>1, <1>2, <1>3
<1>5. Promise!MayGive(u)
  BY <1>4 DEF Promise!MayGive, Promise!Waits, Asked, Answered
<1>   QED  BY <1>2, <1>5

\* The fetch-and-add that finds no room decides that the call fails: every
\* slot has a handle or a thread that is about to publish one
\* (serialize.c:92-101).
LEMMA ClaimFails ==
  ASSUME NEW t \in Threads, SerialInv, ClaimedIsTaken, Claim(t), count >= Capacity,
         UNCHANGED <<arg, out, ghostVars>>
  PROVE  Promise!Next
<1> USE DEF SerialInv, TableInv, TableTypeOK, Claim, Goto, ghostVars
<1>1. OnlyThread(t) /\ SameNames  BY DEF OnlyThread, SameNames
<1>2. /\ Promise!MayGive(t)
      /\ AskedBy(t) = <<"toint", arg[t], known[t]>> /\ AnswerTo(t) = << >>
  BY AppenderMayGive
<1>3. AskedBy(t)' = AskedBy(t) /\ AnswerTo(t)' = <<None>>
  BY DEF AskedBy, AnswerTo, Tointing
<1>4. Promise!Say(t, None)
  BY <1>1, <1>2, <1>3, Decides DEF SameNames
<1> DEFINE Left == {s \in Slots : cell[s] = Unset}
           Publisher(s) == CHOOSE u \in Threads : pc[u] = "publish" /\ idx[u] = s
           giver == [s \in Left |-> Publisher(s)]
<1>5. \A s \in Left : /\ Publisher(s) \in Threads
                      /\ pc[Publisher(s)] = "publish" /\ idx[Publisher(s)] = s
  <2> SUFFICES ASSUME NEW s \in Left
               PROVE  \E u \in Threads : pc[u] = "publish" /\ idx[u] = s
    OBVIOUS
  <2>1. s < count  BY CapacityAssumption DEF Slots
  <2>   QED  BY <2>1 DEF ClaimedIsTaken
<1>6. giver \in [Left -> Threads \ {t}]  BY <1>5
<1>7. \A s \in Left : Promise!MayGive(giver[s])
  BY <1>5, AppenderMayGive
<1>8. \A r, s \in Left : giver[r] = giver[s] => r = s  BY <1>5
<1>9. Promise!NoNameIsLeft(t)
  <2>1. DOMAIN giver = Left  OBVIOUS
  <2> HIDE DEF giver
  <2>   QED  BY <1>6, <1>7, <1>8, <2>1 DEF Promise!NoNameIsLeft
<1>10. Promise!FailToName(t)
  BY <1>1, <1>2, <1>4, <1>9 DEF Promise!FailToName, SameNames
<1>   QED  BY <1>10 DEF Promise!Next

\* The store that publishes gives the handle its name (serialize.c:102).
LEMMA PublishGives ==
  ASSUME NEW t \in Threads, SerialInv, Publish(t), UNCHANGED <<arg, out, ghostVars>>
  PROVE  Promise!Next
<1> USE DEF SerialInv, TableInv, TableTypeOK, Publish, Goto, ghostVars
<1>1. OnlyThread(t) /\ given' = given  BY DEF OnlyThread
<1>2. /\ Promise!MayGive(t)
      /\ AskedBy(t) = <<"toint", arg[t], known[t]>> /\ AnswerTo(t) = << >>
  BY AppenderMayGive
<1>3. AskedBy(t)' = AskedBy(t) /\ AnswerTo(t)' = <<idx[t]>>
  BY DEF AskedBy, AnswerTo, Tointing
<1>4. Promise!Say(t, idx[t]) /\ Asked[t] = AskedBy(t)
  BY <1>1, <1>2, <1>3, Decides
<1>5. Asked[t][2] = arg[t]  BY <1>2, <1>4
<1>6. /\ idx[t] \in Slots /\ cell[idx[t]] = Unset
      /\ cell' = [cell EXCEPT ![idx[t]] = Asked[t][2]]
  BY <1>5 DEF Carried, Tointing, ClaimIsExclusive, PublishedOnce, OwnsIndex
<1>7. Promise!GiveName(t)
  BY <1>2, <1>4, <1>6 DEF Promise!GiveName, Asked
<1>   QED  BY <1>7 DEF Promise!Next

\* An integer is looked up by the check that refuses it, or else by the load
\* (serialize.c:108-121).
LEMMA CheckOrLoadFinds ==
  ASSUME NEW t \in Threads, SerialInv, UNCHANGED <<arg, out, ghostVars>>,
         \/ CheckIndex(t, Capacity) /\ idx[t] \notin Slots
         \/ LoadCell(t)
  PROVE  Promise!Next
<1> USE DEF SerialInv, TableInv, TableTypeOK, CheckIndex, LoadCell, Goto, ghostVars
<1>1. OnlyThread(t) /\ SameNames  BY DEF OnlyThread, SameNames
<1> DEFINE name == IF idx[t] \in Slots THEN idx[t] ELSE None
           found == IF idx[t] \in Slots /\ cell[idx[t]] # Unset THEN cell[idx[t]] ELSE None
<1>2. idx[t] = arg[t] - Base  BY DEF Carried, Fromints
<1>3. AskedBy(t) = <<"fromint", name, known[t]>> /\ AskedBy(t)' = AskedBy(t)
  BY <1>2 DEF AskedBy, Tointing, Slots
<1>4. AnswerTo(t) = << >> /\ AnswerTo(t)' = <<found>>
  <2>1. CASE CheckIndex(t, Capacity) /\ idx[t] \notin Slots
    BY <2>1 DEF AnswerTo, Slots
  <2>2. CASE LoadCell(t)
    <3>1. idx[t] \in Slots /\ pc'[t] = "loaded" /\ val'[t] = cell[idx[t]]
      BY <2>2 DEF Carried
    <3>   QED  BY <2>2, <3>1 DEF AnswerTo
  <2>   QED  BY <2>1, <2>2
<1>5. /\ Promise!Say(t, found)
      /\ Asked[t] = AskedBy(t) /\ Answered[t] = << >>
  BY <1>1, <1>3, <1>4, Decides DEF SameNames
<1>6. Asked[t][1] = "fromint" /\ Asked[t][2] = name  BY <1>3, <1>5
<1>7. found = IF name \in Slots /\ cell[name] # Unset THEN cell[name] ELSE None
  BY NoneAssumption DEF Slots
<1> HIDE DEF name, found
<1>8. Promise!FindHandle(t)
  BY <1>1, <1>5, <1>6, <1>7
  DEF Promise!FindHandle, Promise!Waits, Asked, Answered, SameNames
<1>   QED  BY <1>8 DEF Promise!Next

\* What the callers do not see: the rest of the table's work, and calls that
\* are answered at once.
LEMMA TableWorkIsUnseen ==
  ASSUME NEW t \in Threads, SerialInv,
         \/ /\ \/ Claim(t) /\ ~(count >= Capacity)
               \/ ResetCounter(t) \/ ReadCount(t) \/ ScanNext(t) \/ ScanEnd(t)
               \/ CheckIndex(t, Capacity) /\ idx[t] \in Slots
            /\ UNCHANGED <<arg, out, ghostVars>>
         \/ Append(t)
  PROVE  UNCHANGED Promise!nameVars
<1> USE DEF SerialInv, TableInv, TableTypeOK, Claim, ResetCounter, ReadCount,
            ScanNext, ScanEnd, CheckIndex, Append, Goto, ghostVars
<1>1. OnlyThread(t) /\ SameNames  BY DEF OnlyThread, SameNames
<1>2. arg'[t] = arg[t] /\ known'[t] = known[t]  OBVIOUS
<1>3. \/ pc[t] \in Tointing /\ pc'[t] \in Tointing
      \/ pc[t] = "check" /\ pc'[t] = "load"
  BY DEF Tointing, Slots
<1>4. AskedBy(t)' = AskedBy(t)  BY <1>2, <1>3 DEF AskedBy, Tointing
<1>5. \/ pc[t] = "overflow" /\ pc'[t] = "full"
      \/ /\ pc[t] \in {"claim", "count", "scan", "missed", "check"}
         /\ pc'[t] \in {"publish", "scan", "missed", "claim", "load"}
  BY DEF Slots
<1>6. AnswerTo(t)' = AnswerTo(t)  BY <1>5 DEF AnswerTo
<1>   QED  BY <1>1, <1>4, <1>6, Unseen

LEMMA AtOnceIsUnseen ==
  ASSUME NEW t \in Threads, TointAtOnce(t) \/ FromintAtOnce(t)
  PROVE  UNCHANGED Promise!nameVars
<1>1. UNCHANGED <<pc, val, idx, cell, arg, known, given>>
  BY DEF TointAtOnce, FromintAtOnce, tableVars, ghostVars
<1>2. OnlyThread(t) /\ SameNames  BY <1>1 DEF OnlyThread, SameNames
<1>3. AskedBy(t)' = AskedBy(t) /\ AnswerTo(t)' = AnswerTo(t)
  BY <1>1 DEF AskedBy, AnswerTo
<1>   QED  BY <1>2, <1>3, Unseen

\* A call of _toint or _fromint that begins asks, and whether it asks for
\* something that has been given is settled then.
LEMMA TointAsks ==
  ASSUME NEW t \in Threads, SerialInv, Toint(t)
  PROVE  Promise!Next
<1> USE DEF SerialInv, TableInv, TableTypeOK, SerialTypes, Toint, Goto
<1>1. OnlyThread(t) /\ SameNames  BY DEF OnlyThread, SameNames
<1>2. AskedBy(t) = Promise!Nothing /\ AnswerTo(t)' = AnswerTo(t)
  BY DEF AskedBy, AnswerTo, Tointing, Promise!Nothing
<1>3. PICK h \in Values : /\ arg' = [arg EXCEPT ![t] = h]
                         /\ known' = [known EXCEPT ![t] = Integers(h) # {}]
  OBVIOUS
<1>4. AskedBy(t)' = <<"toint", h, Integers(h) # {}>>
  BY <1>3 DEF AskedBy, Tointing
<1>5. (Integers(h) # {}) = (\E s \in Slots : <<h, s>> \in Given)
  <2>1. Integers(h) # {} <=> \E g \in given : g[2] = h  BY DEF Integers
  <2>2. \A g \in given : g[3] - Base \in Slots /\ g[3] = Base + (g[3] - Base)
    BY BaseAssumption, CapacityAssumption DEF GivenIsStored, Names
  <2>3. \A s \in Slots : <<h, s>> \in Given <=> \E g \in given : g[2] = h /\ g[3] = Base + s
    BY GivenIsGiven
  <2>4. ASSUME NEW g \in given, g[2] = h  PROVE \E s \in Slots : <<h, s>> \in Given
    <3>1. <<h, g[3] - Base>> \in Given  BY <2>2, <2>3, <2>4
    <3>   QED  BY <2>2, <3>1
  <2>5. (\E s \in Slots : <<h, s>> \in Given) => \E g \in given : g[2] = h
    BY <2>3
  <2>   QED  BY <2>1, <2>4, <2>5
<1>   QED  BY <1>1, <1>2, <1>4, <1>5, Asks

LEMMA FromintAsks ==
  ASSUME NEW t \in Threads, SerialInv, Fromint(t)
  PROVE  Promise!Next
<1> USE DEF SerialInv, TableInv, TableTypeOK, SerialTypes, Fromint, Goto
<1>1. OnlyThread(t) /\ SameNames  BY DEF OnlyThread, SameNames
<1>2. AskedBy(t) = Promise!Nothing /\ AnswerTo(t)' = AnswerTo(t)
  BY DEF AskedBy, AnswerTo, Tointing, Promise!Nothing
<1>0. PICK i \in {Zero} \cup (Base - 1 .. Base + Capacity) :
             /\ arg' = [arg EXCEPT ![t] = i]
             /\ known' = [known EXCEPT ![t] = \E g \in given : g[3] = i]
  OBVIOUS
<1>3. i \in Int  BY BaseAssumption, CapacityAssumption DEF Zero
<1> DEFINE name == IF i - Base \in Slots THEN i - Base ELSE None
<1>4. AskedBy(t)' = <<"fromint", name, \E g \in given : g[3] = i>>
  BY <1>0 DEF AskedBy, Tointing
<1>5. (\E g \in given : g[3] = i) = (\E h \in Values : <<h, name>> \in Given)
  <2>1. CASE i - Base \in Slots
    <3>1. i = Base + (i - Base) /\ name = i - Base
      BY <1>3, <2>1, BaseAssumption
    <3>2. \A g \in given : g[2] \in Values  OBVIOUS
    <3>3. \A h \in Values :
            <<h, name>> \in Given <=> \E g \in given : g[2] = h /\ g[3] = i
      BY <2>1, <3>1, GivenIsGiven
    <3>   QED  BY <3>2, <3>3
  <2>2. CASE i - Base \notin Slots
    <3>1. \A g \in given : g[3] - Base \in Slots  BY DEF GivenIsStored
    <3>2. None \notin Slots  BY NoneAssumption DEF Slots
    <3>   QED  BY <2>2, <3>1, <3>2 DEF Given
  <2>   QED  BY <2>1, <2>2
<1>6. name \in Slots \cup {None}  OBVIOUS
<1> HIDE DEF name
<1>   QED  BY <1>1, <1>2, <1>4, <1>5, <1>6, Asks

\* A call that returns has its answer; what it returns is what was decided.
LEMMA Finishes ==
  ASSUME NEW t \in Threads, OnlyThread(t), cell' = cell,
         AnswerTo(t) # << >>, AnswerTo(t)' = << >>, AskedBy(t)' = Promise!Nothing,
         Given' = IF AskedBy(t)[1] = "toint" /\ AnswerTo(t) # <<None>>
                  THEN Given \cup {<<AskedBy(t)[2], AnswerTo(t)[1]>>} ELSE Given
  PROVE  Promise!Next
<1>1. /\ Asked' = [Asked EXCEPT ![t] = Promise!Nothing]
      /\ Answered' = [Answered EXCEPT ![t] = << >>]
      /\ Asked[t] = AskedBy(t) /\ Answered[t] = AnswerTo(t)
  BY OneThread
<1>2. Answered[t] # << >>  BY <1>1
<1>3. Given' = IF Asked[t][1] = "toint" /\ Answered[t] # <<None>>
               THEN Given \cup {<<Asked[t][2], Answered[t][1]>>} ELSE Given
  BY <1>1
<1>4. Promise!Finish(t)
  BY <1>1, <1>2, <1>3 DEF Promise!Finish, Asked, Answered, Given
<1>   QED  BY <1>4 DEF Promise!Next

LEMMA ReturnFinishes ==
  ASSUME NEW t \in Threads, SerialInv,
         TointReturns(t) \/ TointFails(t) \/ FromintReturns(t) \/ FromintFails(t)
  PROVE  Promise!Next
<1> USE DEF SerialInv, TableInv, TableTypeOK, SerialTypes
<1>1. Return(t) /\ cell' = cell
  BY DEF TointReturns, TointFails, FromintReturns, FromintFails
<1>2. OnlyThread(t) /\ pc'[t] = "idle"
  BY <1>1 DEF OnlyThread, Return, Leave, Goto
<1>3. AnswerTo(t)' = << >> /\ AskedBy(t)' = Promise!Nothing
  BY <1>2 DEF AnswerTo, AskedBy, Tointing, Promise!Nothing
<1>4. CASE TointReturns(t)
  <2> USE <1>4 DEF TointReturns
  <2>1. AnswerTo(t) = <<idx[t]>> /\ AskedBy(t) = <<"toint", arg[t], known[t]>>
    BY DEF AnswerTo, AskedBy, Tointing
  <2>2. idx[t] \in Slots
    BY DEF Carried, ClaimIsExclusive, OwnsIndex
  <2>3. idx[t] # None /\ Base + idx[t] - Base = idx[t]
    BY <2>2, BaseAssumption, NoneAssumption DEF Slots
  <2>4. Given' = Given \cup {<<arg[t], idx[t]>>}
    <3>1. given' = given \cup {<<t, arg[t], Base + idx[t]>>}  OBVIOUS
    <3>   QED  BY <2>2, <3>1, GivenGrows DEF Slots
  <2>5. /\ AskedBy(t)[1] = "toint" /\ AskedBy(t)[2] = arg[t]
        /\ AnswerTo(t)[1] = idx[t] /\ AnswerTo(t) # <<None>> /\ AnswerTo(t) # << >>
    BY <2>1, <2>3
  <2>   QED  BY <1>1, <1>2, <1>3, <2>4, <2>5, Finishes
<1>5. CASE TointFails(t)
  <2> USE <1>5 DEF TointFails
  <2>1. AnswerTo(t) = <<None>> /\ Given' = Given
    BY DEF AnswerTo, Given
  <2>2. AnswerTo(t) # << >>  BY <2>1
  <2>   QED  BY <1>1, <1>2, <1>3, <2>1, <2>2, Finishes
<1>6. CASE FromintReturns(t) \/ FromintFails(t)
  <2> USE <1>6 DEF FromintReturns, FromintFails
  <2>1. AnswerTo(t) # << >> /\ Given' = Given
    BY DEF AnswerTo, Given
  <2>2. AskedBy(t)[1] = "fromint"
    BY DEF AskedBy, Tointing
  <2>   QED  BY <1>1, <1>2, <1>3, <2>1, <2>2, Finishes
<1>   QED  BY <1>4, <1>5, <1>6

LEMMA InitPromises == Init => Promise!Init
<1> SUFFICES ASSUME Init PROVE Promise!Init  OBVIOUS
<1>1. \A t \in Threads : AskedBy(t) = Promise!Nothing /\ AnswerTo(t) = << >>
  BY DEF Init, TableInit, AskedBy, AnswerTo, Tointing, Promise!Nothing
<1>2. {<<g[2], g[3] - Base>> : g \in given} = {} /\ cell = [s \in Slots |-> Unset]
  BY DEF Init, TableInit
<1>   QED  BY <1>1, <1>2 DEF Promise!Init

LEMMA StepPromises ==
  ASSUME SerialInv, ClaimedIsTaken, [Next]_vars
  PROVE  [Promise!Next]_(Promise!nameVars)
<1>1. CASE UNCHANGED vars
  BY <1>1 DEF vars, tableVars, ghostVars, Promise!nameVars, AskedBy, AnswerTo
<1>2. ASSUME NEW t \in Threads, TableAction(t)
      PROVE  [Promise!Next]_(Promise!nameVars)
  <2>1. UNCHANGED <<arg, out, ghostVars>>  BY <1>2 DEF TableAction
  <2>2. CASE Claim(t)
    BY <2>1, <2>2, ClaimFails, TableWorkIsUnseen
  <2>3. CASE Publish(t) \/ ScanMatch(t) \/ LoadCell(t)
    BY <2>1, <2>3, PublishGives, ScanMatchFinds, CheckOrLoadFinds
  <2>4. CASE ResetCounter(t) \/ ReadCount(t) \/ ScanNext(t) \/ ScanEnd(t)
    BY <2>1, <2>4, TableWorkIsUnseen
  <2>   QED  BY <1>2, <2>2, <2>3, <2>4 DEF TableAction, TableStep
<1>3. ASSUME NEW t \in Threads, CheckInteger(t)
      PROVE  [Promise!Next]_(Promise!nameVars)
  BY <1>3, CheckOrLoadFinds, TableWorkIsUnseen DEF CheckInteger
<1>4. ASSUME NEW t \in Threads, Toint(t) \/ Fromint(t)
      PROVE  Promise!Next
  BY <1>4, TointAsks, FromintAsks
<1>5. ASSUME NEW t \in Threads, Append(t) \/ TointAtOnce(t) \/ FromintAtOnce(t)
      PROVE  UNCHANGED Promise!nameVars
  BY <1>5, TableWorkIsUnseen, AtOnceIsUnseen
<1>6. ASSUME NEW t \in Threads,
             TointReturns(t) \/ TointFails(t) \/ FromintReturns(t) \/ FromintFails(t)
      PROVE  Promise!Next
  BY <1>6, ReturnFinishes
<1>   QED  BY <1>1, <1>2, <1>3, <1>4, <1>5, <1>6 DEF Next

\* No slot is lost: it stays claimed by the thread that will publish it.
LEMMA TakenPreserved ==
  ASSUME SerialInv, ClaimedIsTaken, [Next]_vars
  PROVE  ClaimedIsTaken'
<1>1. CASE UNCHANGED vars
  BY <1>1, TakenElsewhere DEF vars, tableVars
<1>2. ASSUME NEW t \in Threads, TableAction(t)  PROVE ClaimedIsTaken'
  BY <1>2, TableStepTakes DEF TableAction, SerialInv
<1>3. ASSUME NEW t \in Threads,
             \/ TointAtOnce(t) \/ Toint(t) \/ Append(t) \/ TointReturns(t) \/ TointFails(t)
             \/ FromintAtOnce(t) \/ Fromint(t) \/ CheckInteger(t)
             \/ FromintReturns(t) \/ FromintFails(t)
      PROVE  ClaimedIsTaken'
  <2> USE DEF SerialInv, TableInv, TableTypeOK, Goto, Return, Leave
  <2>1. /\ cell' = cell /\ count' = count
        /\ \A u \in Threads : pc[u] = "publish" => pc'[u] = "publish" /\ idx'[u] = idx[u]
    <3>1. CASE TointAtOnce(t) \/ FromintAtOnce(t)
      BY <3>1 DEF TointAtOnce, FromintAtOnce, tableVars
    <3>2. CASE Toint(t) \/ Fromint(t)
      BY <3>2 DEF Toint, Fromint
    <3>3. CASE Append(t) \/ CheckInteger(t)
      BY <3>3 DEF Append, CheckInteger, CheckIndex
    <3>4. CASE TointReturns(t) \/ TointFails(t)
      BY <3>4 DEF TointReturns, TointFails
    <3>5. CASE FromintReturns(t) \/ FromintFails(t)
      BY <3>5 DEF FromintReturns, FromintFails
    <3>   QED  BY <1>3, <3>1, <3>2, <3>3, <3>4, <3>5
  <2>   QED  BY <2>1, TakenElsewhere
<1>   QED  BY <1>1, <1>2, <1>3 DEF Next

(***************************************************************************)
(* Handle serialization keeps its promise, for any number of threads and   *)
(* handles and any capacity: the answer of every call is decided at one    *)
(* moment of it, and a call fails only when every slot is taken            *)
(* (serialize.c:63-121).                                                   *)
(***************************************************************************)
THEOREM PromiseIsKept == Spec => KeepsPromise
<1>1. Init => ClaimedIsTaken
  BY DEF Init, TableInit, ClaimedIsTaken, Slots
<1>   QED
  BY <1>1, InitPromises, SerialInvHolds, TakenPreserved, StepPromises, PTL
  DEF Spec, KeepsPromise, Promise!Spec
=============================================================================
