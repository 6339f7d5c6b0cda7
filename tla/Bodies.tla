------------------------------- MODULE Bodies --------------------------------
(***************************************************************************)
(* The bodies of gen/mpiwrapper/wrappers.c: what a thread does between an  *)
(* ABI call and the implementation's call that answers it.                 *)
(*                                                                         *)
(* A body has up to three arms, of which the configuration of the build    *)
(* compiles one: native calls the function it is named after, fallback     *)
(* calls the twin of a large-count function, whose counts are narrower,    *)
(* and stub answers that the function is missing.  An arm is a row of      *)
(* BodyTable.tla, a sequence of steps, and this module runs it.  Handles   *)
(* and values that need no conversion, or one that cannot fail, do not     *)
(* appear in it; nor do statuses and integers the call answers.  Several   *)
(* checks of one kind are one step, and a stub that would answer a value   *)
(* counts as one that answers the error.                                   *)
(*                                                                         *)
(* The application calls any body with arguments that MPI allows: it       *)
(* supplies no send arrays to an in-place collective, and at a process     *)
(* other than the root none that only the root reads.                      *)
(***************************************************************************)
EXTENDS Naturals, Sequences, FiniteSets

CONSTANTS
  Table,          \* the bodies
  Withholding     \* why an application may leave out an array it is asked for

ASSUME WithholdingAssumption ==
  Withholding \subseteq {"nothing", "in place", "not root"}

VARIABLES
  pc,             \* "idle", in its "body", at the label "done", "returned"
  body, arm,      \* the body that runs, and which of its arms
  todo,           \* the steps left
  size,           \* "none" or "some": how long the call's arrays are
  withheld,
  temps,          \* the arrays staged on the heap
  block,          \* the block of arrays that must outlive the call
  passed, read,   \* the parameters that were narrowed, the arrays that were
                  \* read
  ierror,         \* what the implementation returned
  out,            \* the handles the call makes
  changed,        \* whether the handles it changes were converted
  completed,      \* whether the call completed the operation of op
  answer,
  flag,           \* handles.c: handle_error, and what set it
  op,             \* the operation that reads a kept block
  kept            \* whether the table of requests has its block

inputVars == <<body, arm, size, withheld>>
dataVars  == <<temps, block>>
noteVars  == <<passed, read>>
callVars  == <<ierror, completed>>
outVars   == <<out, changed>>
lastVars  == <<flag, op, kept>>
vars == <<pc, todo, inputVars, dataVars, noteVars, callVars, outVars, answer,
          lastVars>>

-----------------------------------------------------------------------------
(***************************************************************************)
(* The program of an arm.  A step has a kind, "do", and the parameter or   *)
(* the query it is about.                                                  *)
(***************************************************************************)
Step(kind) == [do |-> kind, of |-> "the call"]

\* The arrays of a call that has returned are on the stack or in temporaries;
\* those of an operation in flight share one block.
Staging(part) ==
  IF part.arrays = << >> THEN << >>
  ELSE IF part.block THEN <<Step("block")>>
  ELSE <<Step("null")>> \o
       [i \in 1 .. Len(part.arrays) |->
          [do |-> IF part.arrays[i].do = "statuses" THEN "stage unless ignored"
                                                    ELSE "stage",
           of |-> part.arrays[i].of]]

Filling(part) ==
  SelectSeq(part.arrays, LAMBDA s : s.do \in {"counts", "handles", "send types"})

Converts(b) == b.outs \cup b.changes \cup b.fills # {}

\* A body reads the flag after its last conversion.
\* Mistake: the bodies that only free or complete a handle do not.
TakingWhenMade(b) == IF b.outs # {} THEN <<Step("take")>> ELSE << >>
Taking(b) == IF Converts(b) THEN <<Step("take")>> ELSE << >>

\* The requests of an array are compared with the application's, so before
\* these are overwritten; a single request was copied before the call.
\* Mistake: an array's are overwritten first.
ConvertingFirst(b) ==
  CASE b.completes \in {"one", "array"} -> <<Step("convert"), Step("release")>>
    [] OTHER -> IF Converts(b) THEN <<Step("convert")>> ELSE << >>
Converting(b) ==
  CASE b.completes = "one"   -> <<Step("convert"), Step("release")>>
    [] b.completes = "array" -> <<Step("release"), Step("convert")>>
    [] OTHER -> IF Converts(b) THEN <<Step("convert")>> ELSE << >>

\* Mistake: the fallback has only the checks of the native arm.
PartOfNative(b, a) == b.native
PartOf(b, a) == IF a = "fallback" THEN b.fallback ELSE b.native

Program(b, a) ==
  CASE a = "stub" -> <<Step("unsupported")>>
    [] b.calls = "nothing" -> << >>
    [] OTHER ->
         LET part == PartOf(b, a)
         IN part.pre \o Staging(part) \o Filling(part) \o <<Step("call")>>
              \o Converting(b) \o Taking(b)
              \o (IF part.block THEN <<Step("keep")>> ELSE << >>)

ArmsOf(b) ==
  {"native"} \cup (IF b.twin THEN {"fallback"} ELSE {})
             \cup (IF b.calls = "nothing" THEN {} ELSE {"stub"})

\* The parameters an application has no values for.
SendArrays == {"sendcounts", "sdispls", "sendtypes"}
ArraysOf(part) == {part.arrays[i].of : i \in DOMAIN part.arrays}
AsksRoot(part) ==
  \E i \in DOMAIN part.pre : part.pre[i].of = "root_extent"

MayWithhold(b, a) ==
  {"nothing"} \cup (IF b.inPlace THEN {"in place"} ELSE {})
              \cup (IF AsksRoot(PartOf(b, a)) THEN {"not root"} ELSE {})

Unreadable ==
  CASE withheld = "in place" -> SendArrays
    [] withheld = "not root" -> ArraysOf(PartOf(body, arm))
    [] OTHER -> {}

(***************************************************************************)
(* What the generator guarantees of a row.  An arm asks and checks before  *)
(* it stages anything; an operation in flight has something in its block,  *)
(* and neither changes a handle nor completes another operation; and a     *)
(* twin checks everything that is narrower in its prototype.               *)
(*                                                                         *)
(* The conjunct about Filling follows from the one above it by what        *)
(* SelectSeq does; it is written out because proofs do not reason about    *)
(* SelectSeq.                                                              *)
(***************************************************************************)
Fillings == {"counts", "handles", "send types"}
StepsOf(kinds, names) == [do : kinds, of : names]

\* What the steps of an arm are about.
ParametersOf(part) == {part.pre[i].of : i \in DOMAIN part.pre}
NamesOf(part) == {"the call"} \cup ParametersOf(part) \cup ArraysOf(part)

WellFormedPart(part) ==
  /\ part.pre \in Seq(StepsOf({"narrow", "check", "extent"}, ParametersOf(part)))
  /\ \A i \in DOMAIN part.pre :
       part.pre[i].of = "root_extent" => part.pre[i].do = "extent"
  /\ part.arrays \in Seq(StepsOf(Fillings \cup {"statuses", "room"}, ArraysOf(part)))
  /\ Filling(part) \in Seq(StepsOf(Fillings, ArraysOf(part)))
  /\ part.block \in BOOLEAN
  /\ part.block => part.arrays # << >>

Checks(part, p) ==
  \/ \E i \in DOMAIN part.pre : part.pre[i] = [do |-> "narrow", of |-> p]
  \/ \E i \in DOMAIN Filling(part) : Filling(part)[i] = [do |-> "counts", of |-> p]

WellFormed(b) ==
  /\ b.calls \in {"implementation", "value", "nothing"}
  /\ b.calls = "nothing" => b.outs = {} /\ b.changes = {} /\ ~b.twin
  /\ b.completes \in {"no", "one", "array"}
  /\ b.completes # "no" => b.changes # {}
  /\ \A part \in {b.native, b.fallback} :
       /\ WellFormedPart(part)
       /\ part.block => b.changes = {}
  /\ b.twin => \A p \in b.wide : Checks(b.fallback, p)

ASSUME TableAssumption == \A b \in Table : WellFormed(b)

-----------------------------------------------------------------------------
NoBody == [name |-> "none"]

Init ==
  /\ pc = "idle" /\ body = NoBody /\ arm = "none" /\ todo = << >>
  /\ size = "none" /\ withheld = "nothing"
  /\ temps = {} /\ block = "none"
  /\ passed = {} /\ read = {}
  /\ ierror = "none" /\ completed = FALSE
  /\ out = << >> /\ changed = FALSE
  /\ answer = "none"
  /\ flag = "clear" /\ op = "none" /\ kept = FALSE

(***************************************************************************)
(* A call: the stub of mpi_abi, entrypoints.c, passes its arguments        *)
(* through the vtable unchanged.  Every arm can be the one that was        *)
(* compiled, so this stands for all configurations.                        *)
(***************************************************************************)
Enter ==
  /\ pc = "idle"
  /\ \E b \in Table : \E a \in ArmsOf(b) :
       /\ body' = b
       /\ arm' = a
       /\ todo' = Program(b, a)
       /\ out' = [o \in b.outs |-> "unset"]
       /\ size' \in IF PartOf(b, a).arrays = << >> THEN {"none"}
                                                   ELSE {"none", "some"}
       /\ withheld' \in MayWithhold(b, a) \cap Withholding
  /\ pc' = "body"
  /\ UNCHANGED <<dataVars, noteVars, callVars, changed, answer, lastVars>>

At(kind) == /\ pc = "body"
            /\ todo # << >>
            /\ Head(todo).do = kind
It   == Head(todo).of
Go   == todo' = Tail(todo) /\ UNCHANGED pc

\* Mistake: sets the handles to null that the call changes.
NullChanged == out' = [o \in body.changes |-> "null"]
Null == out' = [o \in DOMAIN out |-> "null"]

\* A return before anything is staged.
Refuse(a) ==
  /\ answer' = a
  /\ Null
  /\ pc' = "returned"
  /\ UNCHANGED todo

\* The label "done" frees what is staged; its handles have been set to null.
GotoDone(a) ==
  /\ answer' = a
  /\ pc' = "done"
  /\ UNCHANGED <<todo, out>>

FreeBlock == block' = IF block = "live" THEN "freed" ELSE "freed again"

Unsupported ==
  /\ At("unsupported")
  /\ Refuse("unsupported")
  /\ UNCHANGED <<inputVars, dataVars, noteVars, callVars, changed, lastVars>>

(***************************************************************************)
(* mpiwrapper_narrow_int and mpiwrapper_narrow_aint, of a scalar.          *)
(***************************************************************************)
Narrow ==
  /\ At("narrow")
  /\ \/ /\ passed' = passed \cup {It}
        /\ Go
        /\ UNCHANGED <<out, answer>>
     \/ /\ Refuse("value too large")
        /\ UNCHANGED passed
  /\ UNCHANGED <<inputVars, dataVars, read, callVars, changed, lastVars>>

CheckCount ==
  /\ At("check")
  /\ \/ Go /\ UNCHANGED <<out, answer>>
     \/ Refuse("bad argument")
  /\ UNCHANGED <<inputVars, dataVars, noteVars, callVars, changed, lastVars>>

\* extents.c.  Where only the root reads the arrays, every other process is
\* told that they are empty.
\* Mistake: it is told their length at the root.
ExtentOfComm == size
Extent == IF It = "root_extent" /\ withheld = "not root" THEN "none" ELSE size

AskExtent ==
  /\ At("extent")
  /\ \/ /\ size' = Extent
        /\ Go
        /\ UNCHANGED <<out, answer>>
     \/ /\ Refuse("error")
        /\ UNCHANGED size
  /\ UNCHANGED <<body, arm, withheld, dataVars, noteVars, callVars, changed,
                 lastVars>>

\* Mistake: a body that stages does not set its handles to null first.
NullAheadLate == UNCHANGED out
NullAhead == Null

SetNull ==
  /\ At("null")
  /\ NullAhead
  /\ Go
  /\ UNCHANGED <<inputVars, dataVars, noteVars, callVars, changed, answer,
                 lastVars>>

(***************************************************************************)
(* staging.c: mpiwrapper_stage.  An array that fits is on the stack, and   *)
(* so is an empty one.                                                     *)
(***************************************************************************)
Stage ==
  /\ At("stage") \/ At("stage unless ignored")
  /\ \/ Go /\ UNCHANGED <<temps, out, answer>>
     \/ /\ size = "some"
        /\ temps' = temps \cup {It}
        /\ Go
        /\ UNCHANGED <<out, answer>>
     \/ /\ size = "some"
        /\ GotoDone("intern")
        /\ UNCHANGED temps
  /\ UNCHANGED <<inputVars, block, noteVars, callVars, changed, lastVars>>

AllocBlock ==
  /\ At("block")
  /\ \/ /\ block' = "live"
        /\ Go
        /\ UNCHANGED <<out, answer>>
     \/ /\ size = "some"
        /\ Refuse("intern")
        /\ UNCHANGED block
  /\ UNCHANGED <<inputVars, temps, noteVars, callVars, changed, lastVars>>

(***************************************************************************)
(* The elements of an application's array, converted into the temporary    *)
(* one by one: counts are narrowed, handles are looked up.                 *)
(***************************************************************************)
Reads == read' = IF size = "some" THEN read \cup {It} ELSE read

\* Mistake: the block is forgotten when a count does not fit.
MisfitKeeps == UNCHANGED block
Misfit == FreeBlock

FillCounts ==
  /\ At("counts")
  /\ Reads
  /\ \/ /\ passed' = passed \cup {It}
        /\ Go
        /\ UNCHANGED <<block, out, answer>>
     \/ /\ size = "some"
        /\ IF PartOf(body, arm).block
           THEN Misfit /\ Refuse("value too large")
           ELSE GotoDone("value too large") /\ UNCHANGED block
        /\ UNCHANGED passed
  /\ UNCHANGED <<inputVars, temps, callVars, changed, lastVars>>

FillHandles ==
  /\ At("handles")
  /\ Reads
  /\ Go
  /\ UNCHANGED <<inputVars, dataVars, passed, callVars, outVars, answer,
                 lastVars>>

\* sendtypes_ignored: the types of an in-place call are not looked at.
FillSendTypes ==
  /\ At("send types")
  /\ IF withheld = "in place" THEN UNCHANGED read ELSE Reads
  /\ Go
  /\ UNCHANGED <<inputVars, dataVars, passed, callVars, outVars, answer,
                 lastVars>>

(***************************************************************************)
(* The implementation's call, external.  It may complete the operation     *)
(* that a kept block belongs to when it is given its request, and it may   *)
(* run a callback whose trampoline converts a handle and does not read the *)
(* flag.                                                                   *)
(***************************************************************************)
Call ==
  /\ At("call")
  /\ ierror' \in IF body.calls = "value" THEN {"success"} ELSE {"success", "error"}
  /\ flag' \in {flag, "callback"}
  /\ completed' \in IF body.completes # "no" /\ op = "in flight" THEN BOOLEAN
                                                                 ELSE {FALSE}
  /\ op' = IF completed' THEN "none" ELSE op
  /\ IF PartOf(body, arm).block /\ ierror' = "error"
     THEN FreeBlock /\ Refuse("error")
     ELSE Go /\ UNCHANGED <<block, out, answer>>
  /\ UNCHANGED <<inputVars, temps, noteVars, changed, kept>>

(***************************************************************************)
(* The conversions to the ABI.  One whose bits are those of a predefined   *)
(* ABI handle is rejected: it becomes null and sets the flag.  A handle    *)
(* the call makes exists only if the call succeeded; one that it changes,  *)
(* to null when it frees the object, is converted in any case.             *)
(***************************************************************************)
Made == IF ierror = "success" THEN body.outs ELSE {}

ConvertOuts ==
  /\ At("convert")
  /\ \E rejected \in SUBSET (Made \cup body.changes
                               \cup IF ierror = "success" THEN body.fills ELSE {}) :
       /\ out' = [o \in DOMAIN out |->
                    IF o \in Made \ rejected THEN "handle" ELSE "null"]
       /\ flag' = IF rejected = {} THEN flag ELSE "conversion"
  /\ changed' = (body.changes # {})
  /\ Go
  /\ UNCHANGED <<inputVars, dataVars, noteVars, callVars, answer, op, kept>>

\* mpiwrapper_staged_release, for the requests that have become null.
Release ==
  /\ At("release")
  /\ kept' = (kept /\ ~(completed /\ (body.completes = "one" \/ ~changed)))
  /\ Go
  /\ UNCHANGED <<inputVars, dataVars, noteVars, callVars, outVars, answer,
                 flag, op>>

\* mpiwrapper_take_handle_error.  A body that keeps its block returns here
\* without it; the others have nothing left to do but to free.
Take ==
  /\ At("take")
  /\ flag' = "clear"
  /\ IF flag = "clear" THEN Go /\ UNCHANGED answer
     ELSE /\ answer' = "intern"
          /\ pc' = IF PartOf(body, arm).block THEN "returned" ELSE "done"
          /\ UNCHANGED todo
  /\ UNCHANGED <<inputVars, dataVars, noteVars, callVars, outVars, op, kept>>

(***************************************************************************)
(* mpiwrapper_staged_keep, in detail in StagedRequests.tla: the block of   *)
(* an operation that has completed, or an empty one, is freed; the table   *)
(* of requests, here of one entry, takes it, or has no room.               *)
(***************************************************************************)
Keep ==
  /\ At("keep")
  /\ \/ /\ size = "none" \/ ~body.persistent
        /\ FreeBlock
        /\ answer' = "success"
        /\ UNCHANGED <<op, kept>>
     \/ /\ size = "some"
        /\ ~kept
        /\ block' = "kept"
        /\ op' = "in flight"
        /\ kept' = TRUE
        /\ answer' = "success"
     \/ /\ size = "some"
        /\ kept
        /\ block' = "leaked"
        /\ answer' \in {"intern", "success"}   \* full, or a shared request
        /\ UNCHANGED <<op, kept>>
  /\ pc' = "returned"
  /\ UNCHANGED <<todo, inputVars, temps, noteVars, callVars, outVars, flag>>

Finish ==
  /\ pc = "body"
  /\ todo = << >>
  /\ answer' = IF body.calls = "nothing" THEN "success" ELSE ierror
  /\ pc' = "done"
  /\ UNCHANGED <<todo, inputVars, dataVars, noteVars, callVars, outVars,
                 lastVars>>

\* mpiwrapper_unstage, of every array.
Unstage ==
  /\ pc = "done"
  /\ temps' = {}
  /\ pc' = "returned"
  /\ UNCHANGED <<todo, inputVars, block, noteVars, callVars, outVars, answer,
                 lastVars>>

Leave ==
  /\ pc = "returned"
  /\ pc' = "idle" /\ body' = NoBody /\ arm' = "none" /\ todo' = << >>
  /\ size' = "none" /\ withheld' = "nothing"
  /\ temps' = {} /\ block' = "none"
  /\ passed' = {} /\ read' = {}
  /\ ierror' = "none" /\ completed' = FALSE
  /\ out' = << >> /\ changed' = FALSE
  /\ answer' = "none"
  /\ UNCHANGED lastVars

BodyNext ==
  \/ Unsupported
  \/ Narrow \/ CheckCount \/ AskExtent
  \/ SetNull \/ Stage \/ AllocBlock
  \/ FillCounts \/ FillHandles \/ FillSendTypes
  \/ Call
  \/ ConvertOuts \/ Release \/ Take \/ Keep
  \/ Finish \/ Unstage \/ Leave

Next == Enter \/ BodyNext

Spec == Init /\ [][Next]_vars

-----------------------------------------------------------------------------
(***************************************************************************)
(* Types.                                                                  *)
(***************************************************************************)
Kinds == {"narrow", "check", "extent", "null", "stage", "stage unless ignored",
          "block", "counts", "handles", "send types", "call", "convert",
          "release", "take", "keep", "unsupported"}

TypeOK ==
  /\ pc \in {"idle", "body", "done", "returned"}
  /\ arm \in IF pc = "idle" THEN {"none"} ELSE ArmsOf(body)
  /\ todo \in IF pc = "idle" THEN {<< >>}
                             ELSE Seq(StepsOf(Kinds, NamesOf(PartOf(body, arm))))
  /\ size \in {"none", "some"}
  /\ withheld \in {"nothing", "in place", "not root"}
  /\ temps \subseteq (IF pc = "idle" THEN {} ELSE ArraysOf(PartOf(body, arm)))
  /\ block \in {"none", "live", "freed", "kept", "leaked", "freed again"}
  /\ ierror \in {"none", "success", "error"}
  /\ completed \in BOOLEAN /\ changed \in BOOLEAN /\ kept \in BOOLEAN
  /\ DOMAIN out = (IF pc = "idle" THEN {} ELSE body.outs)
  /\ \A o \in DOMAIN out : out[o] \in {"unset", "null", "handle"}
  /\ answer \in {"none", "success", "error", "intern", "unsupported",
                 "value too large", "bad argument"}
  /\ flag \in {"clear", "conversion", "callback"}
  /\ op \in {"none", "in flight"}

(***************************************************************************)
(* What a call made and changed agrees with what it answers, on every path *)
(* out of every body: no handle is left unwritten, a call that the         *)
(* implementation did not make or that failed makes none, one that         *)
(* succeeds makes all of them, and the handles a call changes are          *)
(* converted exactly if the implementation was called.  (NOTES.md 5.4; the *)
(* assignments of a null handle before each return of wrappers.c, and      *)
(* before the first "goto done".)                                          *)
(***************************************************************************)
OutputsMatchAnswer ==
  pc = "returned" =>
    /\ \A o \in DOMAIN out : out[o] # "unset"
    /\ ierror # "success" => \A o \in DOMAIN out : out[o] = "null"
    /\ answer = "success" => \A o \in DOMAIN out : out[o] = "handle"
    /\ body.changes # {} => (changed <=> ierror # "none")

(***************************************************************************)
(* Every array staged on the heap is freed when the call returns, and the  *)
(* block of an operation freed once or handed over.  The one exception is  *)
(* written in the code: the block is out of reach if the handle of the     *)
(* operation was rejected.  (staging.c; the label "done" and the exits     *)
(* with free(block) of wrappers.c.)                                        *)
(***************************************************************************)
TemporariesAreFreed ==
  /\ pc = "returned" =>
       /\ temps = {}
       /\ block = "live" => answer = "intern" /\ ierror = "success"
  /\ block # "freed again"

(***************************************************************************)
(* A block is in the table of requests exactly as long as the operation    *)
(* that reads it is in flight, whichever body completes the operation.     *)
(* (wrappers.c: the calls of mpiwrapper_staged_release in the bodies of    *)
(* Wait, Test, Start and Request_free and their array forms, which compare *)
(* requests with the application's array before they overwrite it.)        *)
(***************************************************************************)
BlockFollowsItsOperation ==
  pc = "idle" => (kept <=> op = "in flight")

(***************************************************************************)
(* No call leaves the flag set by its own conversions for the next one to  *)
(* blame.  (handles.c:80-83.)                                              *)
(***************************************************************************)
NoRejectionIsPassedOn == pc = "idle" => flag # "conversion"

(***************************************************************************)
(* The twin of a large-count function is called only with counts,          *)
(* displacements and sizes that were found to fit the narrower types of    *)
(* its prototype.  (wrappers.c, every "#elif" arm; NOTES.md:1522-1600.)    *)
(***************************************************************************)
OnlySmallValuesReachTheTwin ==
  (arm = "fallback" /\ At("call")) => body.wide \subseteq passed

(***************************************************************************)
(* An array that MPI lets the application leave out is not read: the       *)
(* arrays of the root at other processes (extents.c:39-56), and the send   *)
(* arrays of a call in place (NOTES.md:1373-1378).                         *)
(***************************************************************************)
IgnoredIsNotRead == read \cap Unreadable = {}
=============================================================================
