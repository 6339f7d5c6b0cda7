----------------------------- MODULE ErrorCodes ------------------------------
(***************************************************************************)
(* Dynamic error classes and codes: the registry of                        *)
(* src/mpiwrapper/errorcodes.c, its six entry points in hw_errors.c, and   *)
(* the two places everything else meets it -- every entry point that       *)
(* returns an error converts it with mpiwrapper_errorcode_toabi, and       *)
(* MPI_LASTUSEDCODE is answered from the registry (hw_attr.c).             *)
(*                                                                         *)
(* Predefined codes are mapped by a switch and never reach the table, so   *)
(* Values holds the others: the UserCodes, which the implementation issues *)
(* to MPI_Add_error_class and MPI_Add_error_code and may issue again after *)
(* a removal, and the codes it invents for an error (an MPICH code carries *)
(* the class and an index into a ring of instances).  The two sets of      *)
(* numbers are disjoint.                                                   *)
(***************************************************************************)
EXTENDS AppendTable

CONSTANTS
  UserCodes,   \* numbers the implementation issues to MPI_Add_error_*
  NoCode       \* "no code": stands beside Slots and beside Values

ASSUME UserCodesAssumption == UserCodes \subseteq Values
ASSUME NoCodeAssumption == NoCode \notin Int /\ NoCode \notin Values

VARIABLES
  live,      \* the user codes that exist in the implementation
  abi,       \* the ABI code MPI_Add_error_* returned for each live user code
  meaning,   \* the implementation's code each ABI code was handed out for
  call,      \* what each thread is in the middle of
  arg,       \* the ABI code it passed
  before     \* the ABI codes that named val when its conversion began

codeVars == <<live, abi, meaning>>
callVars == <<call, arg, before>>
vars     == <<tableVars, codeVars, callVars>>

\* An integer that no call returned; it goes down as MPI_ERR_OTHER.
Unissued == Capacity

Removing == {"remove"}
Reading  == {"class", "string"}    \* MPI_Error_class, _string, MPI_Add_error_string
Calls    == {"none", "add", "addcode", "report", "lastused"} \cup Removing \cup Reading

Init ==
  /\ TableInit
  /\ live    = {}
  /\ abi     = [n \in UserCodes |-> NoCode]
  /\ meaning = [s \in Slots |-> NoCode]
  /\ call    = [t \in Threads |-> "none"]
  /\ arg     = [t \in Threads |-> NoCode]
  /\ before  = [t \in Threads |-> {}]

Return(t) ==
  /\ Leave(t)
  /\ call'   = [call EXCEPT ![t] = "none"]
  /\ arg'    = [arg EXCEPT ![t] = NoCode]
  /\ before' = [before EXCEPT ![t] = {}]

-----------------------------------------------------------------------------
(* mpiwrapper_errorcode_toabi: the answer to a call that failed, or a code *)
(* the implementation passes to an error handler.                          *)

\* What MPI can return: a number it invents, or a user code the application
\* has used -- removed since or not.
Invented   == Values \ UserCodes
Reportable == Invented \cup {n \in UserCodes : \E s \in Slots : meaning[s] = n}

Convert(t, n) ==
  /\ val'    = [val EXCEPT ![t] = n]
  /\ before' = [before EXCEPT ![t] = {s \in Slots : meaning[s] = n}]
  /\ call'   = [call EXCEPT ![t] = "report"]
  /\ arg'    = [arg EXCEPT ![t] = NoCode]
  /\ Goto(t, "count")
  /\ UNCHANGED <<cell, count, idx, codeVars>>

Report(t) ==
  /\ pc[t] = "idle"
  /\ \E n \in Reportable : Convert(t, n)

\* Not one we have seen: intern it.
Intern(t) ==
  /\ pc[t] = "missed"
  /\ Goto(t, "claim")
  /\ UNCHANGED <<cell, count, val, idx, codeVars, callVars>>

ReportReturns(t) ==
  /\ pc[t] \in {"found", "added"}
  /\ call[t] = "report"
  /\ meaning' = [meaning EXCEPT ![idx[t]] = val[t]]
  /\ Return(t)
  /\ UNCHANGED <<cell, count, live, abi>>

\* The table is full: MPIABI_ERR_OTHER.
ReportDegrades(t) ==
  /\ pc[t] = "full"
  /\ call[t] = "report"
  /\ Return(t)
  /\ UNCHANGED <<cell, count, codeVars>>

-----------------------------------------------------------------------------
(* MPI_Add_error_class and MPI_Add_error_code. *)

\* TARGET issued a number that names no user code; errorcode_add follows.
Issue(t) ==
  /\ \E n \in UserCodes \ live :
       /\ live' = live \cup {n}
       /\ val'  = [val EXCEPT ![t] = n]
  /\ Goto(t, "claim")
  /\ UNCHANGED <<cell, count, idx, abi, meaning>>

AddClass(t) ==
  /\ pc[t] = "idle"
  /\ call' = [call EXCEPT ![t] = "add"]
  /\ Issue(t)
  /\ UNCHANGED <<arg, before>>

AddReturns(t) ==
  /\ pc[t] = "added"
  /\ call[t] \in {"add", "addcode"}
  /\ abi'     = [abi EXCEPT ![val[t]] = idx[t]]
  /\ meaning' = [meaning EXCEPT ![idx[t]] = val[t]]
  /\ Return(t)
  /\ UNCHANGED <<cell, count, live>>

\* Mistake: the result of errorcode_add is used unchecked.
AddFailsUnchecked(t) ==
  /\ pc[t] = "full"
  /\ call[t] \in {"add", "addcode"}
  /\ abi' = [abi EXCEPT ![val[t]] = idx[t]]
  /\ Return(t)
  /\ UNCHANGED <<cell, count, live, meaning>>

\* MPIABI_ERR_INTERN: the code exists and the application cannot name it.
AddFails(t) ==
  /\ pc[t] = "full"
  /\ call[t] \in {"add", "addcode"}
  /\ Return(t)
  /\ UNCHANGED <<cell, count, codeVars>>

-----------------------------------------------------------------------------
(* Calls that take an ABI code: any the application was ever handed, but   *)
(* it removes only what it added, and once.                                *)

Handed == {s \in Slots : meaning[s] # NoCode}
Added  == {abi[n] : n \in live} \ {NoCode}

Present(t, c, s) ==
  /\ pc[t] = "idle"
  /\ call' = [call EXCEPT ![t] = c]
  /\ arg'  = [arg EXCEPT ![t] = s]
  /\ idx'  = [idx EXCEPT ![t] = s]
  /\ Goto(t, "check")
  /\ UNCHANGED <<cell, count, val, codeVars, before>>

PresentCode(t) ==
  \E c \in {"addcode"} \cup Reading, s \in Handed \cup {Unissued} :
    Present(t, c, s)

PresentRemoval(t) ==
  \E c \in Removing, s \in Added :
    /\ \A u \in Threads : call[u] \in Removing => arg[u] # s
    /\ Present(t, c, s)

CheckCode(t) ==
  /\ CheckIndex(t, NewestIndex + 1)
  /\ UNCHANGED <<codeVars, callVars>>

Converted(t) == pc[t] \in {"loaded", "nosuch"}

AddCode(t) ==
  /\ Converted(t)
  /\ call[t] = "addcode"
  /\ Issue(t)
  /\ UNCHANGED callVars

Read(t) ==
  /\ Converted(t)
  /\ call[t] \in Reading
  /\ Return(t)
  /\ UNCHANGED <<cell, count, codeVars>>

\* Mistake: the removal empties the entry too.
RemoveEntry(t) ==
  /\ pc[t] = "loaded"
  /\ call[t] \in Removing
  /\ live' = live \ {val[t]}
  /\ abi'  = [abi EXCEPT ![val[t]] = NoCode]
  /\ cell' = [cell EXCEPT ![arg[t]] = Unset]
  /\ Return(t)
  /\ UNCHANGED <<count, meaning>>

\* The removal invalidates the implementation's code; the registry keeps its
\* entry.
Remove(t) ==
  /\ pc[t] = "loaded"
  /\ call[t] \in Removing
  /\ live' = live \ {val[t]}
  /\ abi'  = [abi EXCEPT ![val[t]] = NoCode]
  /\ Return(t)
  /\ UNCHANGED <<cell, count, meaning>>

\* TARGET refuses, with a predefined code ...
Refuse(t) ==
  /\ Converted(t)
  /\ Return(t)
  /\ UNCHANGED <<cell, count, codeVars>>

\* ... or with one of its own, which has to be converted in turn.
RefuseWithCode(t) ==
  /\ Converted(t)
  /\ \E n \in Invented : Convert(t, n)

-----------------------------------------------------------------------------
(* MPI_Comm_get_attr(MPI_LASTUSEDCODE).  The answer is an index; -1 stands *)
(* for MPIABI_ERR_LASTCODE, just below the base.                           *)

\* Mistake: the counter is taken for the number of entries below the last.
LastUsedOneShort == NewestIndex - 1

LastUsed == NewestIndex

GetLastUsed(t) ==
  /\ pc[t] = "idle"
  /\ idx'  = [idx EXCEPT ![t] = LastUsed]
  /\ call' = [call EXCEPT ![t] = "lastused"]
  /\ Goto(t, "found")
  /\ UNCHANGED <<cell, count, val, codeVars, arg, before>>

LastUsedReturns(t) ==
  /\ call[t] = "lastused"
  /\ Return(t)
  /\ UNCHANGED <<cell, count, codeVars>>

-----------------------------------------------------------------------------

TableAction(t) == TableStep(t) /\ UNCHANGED <<codeVars, callVars>>

Begin(t) ==
  Report(t) \/ AddClass(t) \/ PresentCode(t) \/ PresentRemoval(t) \/ GetLastUsed(t)

Step(t) ==
  \/ TableAction(t) \/ Intern(t) \/ ReportReturns(t) \/ ReportDegrades(t)
  \/ AddReturns(t) \/ AddFails(t)
  \/ CheckCode(t) \/ AddCode(t) \/ Read(t) \/ Remove(t) \/ Refuse(t) \/ RefuseWithCode(t)
  \/ LastUsedReturns(t)

Next == \E t \in Threads : Begin(t) \/ Step(t)

Spec == Init /\ [][Next]_vars

\* No thread waits for another: the operating system lets each one that is
\* inside the registry go on.
FairSpec == Spec /\ \A t \in Threads : WF_vars(TableAction(t) \/ Intern(t))

-----------------------------------------------------------------------------
(* Properties. *)

TypeOK ==
  /\ TableTypeOK
  /\ live    \subseteq UserCodes
  /\ abi     \in [UserCodes -> Slots \cup {NoCode}]
  /\ meaning \in [Slots -> Values \cup {NoCode}]
  /\ call    \in [Threads -> Calls]
  /\ arg     \in [Threads -> Slots \cup {Unissued, NoCode}]
  /\ before  \in [Threads -> SUBSET Slots]

(***************************************************************************)
(* An ABI code goes down as the implementation's code it was handed out    *)
(* for, whoever appended in between and although the code may have been    *)
(* removed and its number issued again; any other integer goes down as     *)
(* MPI_ERR_OTHER (errorcodes.c:127-137; the "round trip" of :152-157).     *)
(***************************************************************************)
CodeRoundTrips ==
  \A t \in Threads :
    /\ pc[t] = "loaded" => arg[t] \in Slots /\ val[t] = meaning[arg[t]]
    /\ pc[t] = "nosuch" => arg[t] = Unissued

(***************************************************************************)
(* An error class or code the application added comes back to it as the    *)
(* value MPI_Add_error_* returned, even when the number has belonged to an *)
(* earlier, removed one -- unless it was removed during the call           *)
(* (hw_errors.c:4-9, errorcodes.c:48-53).                                  *)
(***************************************************************************)
OwnCodeComesBack ==
  \A t \in Threads :
    /\ call[t] = "report"
    /\ pc[t] \in {"found", "added", "full"}
    /\ val[t] \in live /\ abi[val[t]] \in before[t]
    => pc[t] = "found" /\ idx[t] = abi[val[t]]

(***************************************************************************)
(* A code that had a name when the conversion began is not given another,  *)
(* and does not degrade to MPIABI_ERR_OTHER although the table has filled  *)
(* up since (errorcodes.c:139-161).                                        *)
(***************************************************************************)
NamedCodeStaysNamed ==
  \A t \in Threads :
    call[t] = "report" /\ before[t] # {} => pc[t] \in {"count", "scan", "found"}

(***************************************************************************)
(* MPI_LASTUSEDCODE is at least every code that any thread has been handed *)
(* (errorcodes.c:109-125).                                                 *)
(***************************************************************************)
LastUsedCoversAll ==
  [][\A t \in Threads : call[t] = "none" /\ call'[t] = "lastused" =>
       \A s \in Slots : meaning[s] # NoCode => s <= idx'[t]]_vars

(***************************************************************************)
(* The registry is wait-free, which is more than lock-free (NOTES.md 6.3): *)
(* each step of a call leaves that call fewer, and no step of another      *)
(* thread gives it more, so that it returns after MostSteps of its own     *)
(* (errorcodes.c:82-107, :139-161).                                        *)
(***************************************************************************)
StepsRunOut ==
  [][\A t \in Threads :
       /\ StepsLeft(t)' \in 0 .. MostSteps
       /\ pc[t] # "idle" =>
            \/ StepsLeft(t)' < StepsLeft(t)
            \/ UNCHANGED <<pc[t], val[t], idx[t], call[t], arg[t]>>]_vars

(***************************************************************************)
(* Every conversion of an error code ends, whatever the other threads do:  *)
(* the registry has no lock to wait for (NOTES.md 6.3, errorcodes.c:82).   *)
(***************************************************************************)
ConversionEnds ==
  \A t \in Threads : pc[t] = "count" ~> pc[t] \in {"found", "added", "full"}
=============================================================================
