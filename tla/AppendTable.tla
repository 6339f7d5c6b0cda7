----------------------------- MODULE AppendTable -----------------------------
(***************************************************************************)
(* The lock-free append table that src/mpiwrapper/keyvals.c, errorcodes.c  *)
(* and serialize.c each contain a copy of: a fixed array of atomic cells   *)
(* and an atomic counter.  A writer claims an index with one fetch-and-add *)
(* and publishes its value with one store; a reader scans the claimed      *)
(* prefix from the newest entry down.  Nothing is ever removed.            *)
(*                                                                         *)
(* Every atomic access of the C code is one action here, so the actions of *)
(* different threads interleave between any two of them.  The modules that *)
(* extend this one add the entry points that call it: they put a thread at *)
(* the label where its call begins and take it from the label where the    *)
(* table's answer is ready.  The state that is local to one call is pc     *)
(* (what the thread does next), val (the implementation's value it adds,   *)
(* looks for or has read) and idx (the index it claimed or looks at).      *)
(*                                                                         *)
(* Here and in the other modules, an operator under a comment "Mistake:"   *)
(* is a variant of the definition that follows it.  No specification uses  *)
(* it; README.md says which property notices it.                           *)
(***************************************************************************)
EXTENDS Integers, FiniteSets

CONSTANTS
  Threads,    \* application threads that call into the wrapper
  Capacity,   \* MPIWRAPPER_*_SLOTS
  Values,     \* what the implementation issues: keyvals, error codes, handles
  Unset       \* what a cell of static storage holds before it is published

ASSUME CapacityAssumption == Capacity \in Nat \ {0}
ASSUME UnsetAssumption == Unset \notin Values
ASSUME ThreadsAssumption == IsFiniteSet(Threads)

VARIABLES
  cell,    \* keyval_impl[], errorcode_impl[], serial_bits[]
  count,   \* keyval_count, errorcode_count, serial_count
  pc, val, idx

tableVars == <<cell, count, pc, val, idx>>

Slots == 0 .. Capacity - 1

TableInit ==
  /\ cell  = [s \in Slots |-> Unset]
  /\ count = 0
  /\ pc    = [t \in Threads |-> "idle"]
  /\ val   = [t \in Threads |-> Unset]
  /\ idx   = [t \in Threads |-> 0]

Goto(t, label) == pc' = [pc EXCEPT ![t] = label]

\* The call returns, and its locals go out of scope.
Leave(t) ==
  /\ Goto(t, "idle")
  /\ val' = [val EXCEPT ![t] = Unset]
  /\ idx' = [idx EXCEPT ![t] = 0]

-----------------------------------------------------------------------------
(* Appending an entry: "claim" leads to "added" or to "full". *)

\* Mistake: the last index counts as past the end.
ClaimLeavesOne(t) ==
  /\ pc[t] = "claim"
  /\ count' = count + 1
  /\ idx' = [idx EXCEPT ![t] = count]
  /\ Goto(t, IF count >= Capacity - 1 THEN "overflow" ELSE "publish")
  /\ UNCHANGED <<cell, val>>

Claim(t) ==
  /\ pc[t] = "claim"
  /\ count' = count + 1
  /\ idx' = [idx EXCEPT ![t] = count]
  /\ Goto(t, IF count >= Capacity THEN "overflow" ELSE "publish")
  /\ UNCHANGED <<cell, val>>

\* Mistake: the counter is put back below an index that has an owner ...
ResetCounterTooFar(t) ==
  /\ pc[t] = "overflow"
  /\ count' = Capacity - 1
  /\ Goto(t, "full")
  /\ UNCHANGED <<cell, val, idx>>

\* Mistake: ... or not at all.
ResetCounterForgotten(t) ==
  /\ pc[t] = "overflow"
  /\ Goto(t, "full")
  /\ UNCHANGED <<cell, count, val, idx>>

\* Mistake: a call that finds the table full tries again.
ResetCounterRetries(t) ==
  /\ pc[t] = "overflow"
  /\ count' = Capacity
  /\ Goto(t, "claim")
  /\ UNCHANGED <<cell, val, idx>>

\* The table is full: put the counter back, so that it cannot run away.
ResetCounter(t) ==
  /\ pc[t] = "overflow"
  /\ count' = Capacity
  /\ Goto(t, "full")
  /\ UNCHANGED <<cell, val, idx>>

Publish(t) ==
  /\ pc[t] = "publish"
  /\ cell' = [cell EXCEPT ![idx[t]] = val[t]]
  /\ Goto(t, "added")
  /\ UNCHANGED <<count, val, idx>>

-----------------------------------------------------------------------------
(* Looking a value up, newest entry first: "count" leads to "found" or to  *)
(* "missed".  The prefix that is scanned is the one read at the start.     *)

\* Mistake: the last claimed entry is not part of the prefix.
NewestIndexOneShort == IF count < Capacity THEN count - 2 ELSE Capacity - 2

NewestIndex == IF count < Capacity THEN count - 1 ELSE Capacity - 1

ReadCount(t) ==
  /\ pc[t] = "count"
  /\ idx' = [idx EXCEPT ![t] = NewestIndex]
  /\ Goto(t, "scan")
  /\ UNCHANGED <<cell, count, val>>

\* Mistake: the oldest entry with the value is the answer, as in a scan upwards.
ScanMatchOldest(t) ==
  /\ pc[t] = "scan"
  /\ \E s \in 0 .. idx[t] :
       /\ cell[s] = val[t] /\ \A older \in 0 .. s - 1 : cell[older] # val[t]
       /\ idx' = [idx EXCEPT ![t] = s]
  /\ Goto(t, "found")
  /\ UNCHANGED <<cell, count, val>>

\* Mistake: whatever is published at the index ends the scan.
ScanMatchAnything(t) ==
  /\ pc[t] = "scan"
  /\ idx[t] >= 0
  /\ cell[idx[t]] # Unset
  /\ Goto(t, "found")
  /\ UNCHANGED <<cell, count, val, idx>>

ScanMatch(t) ==
  /\ pc[t] = "scan"
  /\ idx[t] >= 0
  /\ cell[idx[t]] = val[t]
  /\ Goto(t, "found")
  /\ UNCHANGED <<cell, count, val, idx>>

\* Mistake: the scan passes over every other entry ...
ScanNextTwice(t) ==
  /\ pc[t] = "scan"
  /\ idx[t] >= 0
  /\ cell[idx[t]] # val[t]
  /\ idx' = [idx EXCEPT ![t] = idx[t] - 2]
  /\ UNCHANGED <<cell, count, pc, val>>

\* Mistake: ... or goes on although it has found the value.
ScanNextAlways(t) ==
  /\ pc[t] = "scan"
  /\ idx[t] >= 0
  /\ idx' = [idx EXCEPT ![t] = idx[t] - 1]
  /\ UNCHANGED <<cell, count, pc, val>>

ScanNext(t) ==
  /\ pc[t] = "scan"
  /\ idx[t] >= 0
  /\ cell[idx[t]] # val[t]
  /\ idx' = [idx EXCEPT ![t] = idx[t] - 1]
  /\ UNCHANGED <<cell, count, pc, val>>

\* Mistake: a scan that fails first waits for the call that is appending.
ScanEndWaits(t) ==
  /\ pc[t] = "scan"
  /\ idx[t] < 0
  /\ \A u \in Threads : pc[u] # "added"
  /\ Goto(t, "missed")
  /\ UNCHANGED <<cell, count, val, idx>>

ScanEnd(t) ==
  /\ pc[t] = "scan"
  /\ idx[t] < 0
  /\ Goto(t, "missed")
  /\ UNCHANGED <<cell, count, val, idx>>

-----------------------------------------------------------------------------
(* The other direction needs no search: the ABI value is the index.        *)
(* "check" leads to "nosuch" or, through "load", to "loaded".              *)

CheckIndex(t, bound) ==
  /\ pc[t] = "check"
  /\ Goto(t, IF idx[t] \in 0 .. bound - 1 THEN "load" ELSE "nosuch")
  /\ UNCHANGED <<cell, count, val, idx>>

LoadCell(t) ==
  /\ pc[t] = "load"
  /\ val' = [val EXCEPT ![t] = cell[idx[t]]]
  /\ Goto(t, "loaded")
  /\ UNCHANGED <<cell, count, idx>>

TableStep(t) ==
  \/ Claim(t) \/ ResetCounter(t) \/ Publish(t)
  \/ ReadCount(t) \/ ScanMatch(t) \/ ScanNext(t) \/ ScanEnd(t)
  \/ LoadCell(t)

-----------------------------------------------------------------------------

Labels == {"idle", "claim", "overflow", "full", "publish", "added",
           "count", "scan", "found", "missed",
           "check", "nosuch", "load", "loaded"}

TableTypeOK ==
  /\ cell  \in [Slots -> Values \cup {Unset}]
  /\ count \in Nat
  /\ pc    \in [Threads -> Labels]
  /\ val   \in [Threads -> Values \cup {Unset}]
  /\ idx   \in [Threads -> Int]

\* Threads that have incremented the counter past the end and not yet put it
\* back.
Overflowing == {t \in Threads : pc[t] = "overflow"}

(***************************************************************************)
(* What every user of the table relies on, whatever its entry points do: a *)
(* claimed index has one owner until it is published, and an unclaimed     *)
(* cell is empty.                                                          *)
(***************************************************************************)
OwnsIndex(t) == pc[t] \in {"publish", "added"}

UnclaimedIsUnset == \A s \in Slots : s >= count => cell[s] = Unset

ClaimIsExclusive ==
  /\ \A t \in Threads : OwnsIndex(t) => idx[t] \in Slots /\ idx[t] < count
  /\ \A t, u \in Threads :
       t # u /\ OwnsIndex(t) /\ OwnsIndex(u) => idx[t] # idx[u]

PublishedOnce ==
  \A t \in Threads :
    /\ pc[t] = "publish" => cell[idx[t]] = Unset /\ val[t] \in Values
    /\ pc[t] = "added"   => cell[idx[t]] = val[t] /\ val[t] \in Values

FullMeansFull ==
  \A t \in Threads : pc[t] \in {"overflow", "full"} => count >= Capacity

TableInv ==
  /\ TableTypeOK
  /\ UnclaimedIsUnset
  /\ ClaimIsExclusive
  /\ PublishedOnce
  /\ FullMeansFull

(***************************************************************************)
(* The counter never runs away from the table: it is past the end by at    *)
(* most one for each thread that is between its fetch-and-add and the      *)
(* store that puts it back, however many calls found the table full.  So   *)
(* it cannot overflow an int and come back to a valid index                *)
(* (keyvals.c:66-73, errorcodes.c:96-103, serialize.c:94-101).             *)
(***************************************************************************)
CounterStaysInReach == count <= Capacity + Cardinality(Overflowing)

(***************************************************************************)
(* How many steps a call can still take, from where it is: the index check *)
(* and the load of the value it was passed, which TARGET may refuse with a *)
(* code to be looked up, the scan, the append and the return.              *)
(***************************************************************************)
MostSteps == Capacity + 9

StepsLeft(t) ==
  CASE pc[t] = "check" -> Capacity + 9
    [] pc[t] = "load" -> Capacity + 8
    [] pc[t] \in {"loaded", "nosuch"} -> Capacity + 7
    [] pc[t] = "count" -> Capacity + 6
    [] pc[t] = "scan" -> idx[t] + 6
    [] pc[t] = "missed" -> 4
    [] pc[t] = "claim" -> 3
    [] pc[t] \in {"publish", "overflow"} -> 2
    [] pc[t] \in {"found", "added", "full"} -> 1
    [] pc[t] = "idle" -> 0
=============================================================================
