---------------------------- MODULE LibraryProofs ----------------------------
(***************************************************************************)
(* No body runs before the handshake is over, for every table of bodies    *)
(* and for every behaviour of the loader; and every path through every     *)
(* body of a table that the generator could have written settles what it   *)
(* makes, stages and reports.                                              *)
(***************************************************************************)
EXTENDS Library, SequenceTheorems, TLAPS

Refusable == {"build maps", "decoy", "probe", "store", "loaded"}
Mapped    == {"decoy", "probe", "store", "loaded"}

\* Where the constructor is says what it has found out so far.  The reverse
\* maps are there because nobody calls the getter before the constructor.
HandshakeInv ==
  /\ loading \in {"dlopen", "get vtable"} => ~initialized
  /\ initialized \in BOOLEAN
  /\ loading \in Refusable => matches /\ filled
  /\ loading \in Mapped => maps
  /\ loading = "store" => (reentered <=> captured # "none")
  /\ loading = "loaded" => mpi_abi_vt = "table" /\ captured = "none"

HandshakeFirst == pc # "idle" => loading = "loaded"

\* A step of the constructor finds out what the next one relies on
\* (bootstrap.c:239-283, getvtable.c:96-162).
LEMMA StartStep ==
  ASSUME HandshakeInv, StartNext
  PROVE  HandshakeInv'
<1> USE DEF HandshakeInv, Goto, given, Refusable, Mapped
<1>1. CASE Dlopen     BY <1>1 DEF Dlopen, Abort
<1>2. CASE GetVtable
  <2>1. loading = "get vtable" /\ ~initialized  BY <1>2 DEF GetVtable
  <2>2. CASE matches /\ ResolutionIsOutward /\ filled
    <3>1. loading' = "build maps" /\ initialized' = TRUE
      BY <1>2, <2>1, <2>2 DEF GetVtable
    <3>   QED  BY <1>2, <2>2, <3>1 DEF GetVtable
  <2>3. CASE ~(matches /\ ResolutionIsOutward /\ filled)
    BY <1>2, <2>1, <2>3 DEF GetVtable, Abort
  <2>   QED  BY <2>2, <2>3
<1>3. CASE BuildMaps  BY <1>3 DEF BuildMaps, Abort
<1>4. CASE SetDecoy   BY <1>4 DEF SetDecoy
<1>5. CASE Probe      BY <1>5 DEF Probe, ComesBack
<1>6. CASE StoreVt    BY <1>6 DEF StoreVt, Abort
<1>   QED  BY <1>1, <1>2, <1>3, <1>4, <1>5, <1>6 DEF StartNext

\* Before the constructor runs.
LEMMA HandshakeInit == LibraryInit => HandshakeInv /\ HandshakeFirst
  BY DEF LibraryInit, Init, StartInit, HandshakeInv, HandshakeFirst, Refusable,
         Mapped

\* The constructor does not run a body; a body does not touch the handshake,
\* and is entered only when the constructor has returned.
LEMMA HandshakeStep ==
  ASSUME HandshakeInv, HandshakeFirst, [LibraryNext]_allVars
  PROVE  HandshakeInv' /\ HandshakeFirst'
<1>1. CASE StartNext /\ UNCHANGED vars
  <2>1. HandshakeInv'  BY <1>1, StartStep
  <2>2. loading # "loaded"
    BY <1>1 DEF StartNext, Dlopen, GetVtable, BuildMaps, SetDecoy, Probe, StoreVt
  <2>3. pc = "idle" /\ pc' = pc  BY <1>1, <2>2 DEF HandshakeFirst, vars
  <2>   QED  BY <2>1, <2>3 DEF HandshakeFirst
<1>2. CASE loading = "loaded" /\ UNCHANGED startVars
  BY <1>2 DEF startVars, HandshakeInv, HandshakeFirst, Refusable, Mapped
<1>3. CASE UNCHANGED allVars
  BY <1>3 DEF allVars, vars, startVars, HandshakeInv, HandshakeFirst, Refusable,
              Mapped
<1>   QED  BY <1>1, <1>2, <1>3 DEF LibraryNext

(***************************************************************************)
(* Whatever the bodies are and whatever the loader captures, a body runs   *)
(* only behind a table that was accepted and probed, with its reverse maps *)
(* built (bootstrap.c:205-226 and 252-283; getvtable.c:96-162).            *)
(***************************************************************************)
THEOREM HandshakeComesFirst == LibrarySpec => []CallsFollowTheHandshake
<1>1. HandshakeInv /\ HandshakeFirst => CallsFollowTheHandshake
  BY DEF HandshakeInv, HandshakeFirst, CallsFollowTheHandshake, Refusable, Mapped
<1>   QED  BY <1>1, HandshakeInit, HandshakeStep, PTL DEF LibrarySpec

-----------------------------------------------------------------------------
(***************************************************************************)
(* The invariant of a body: what is left of its arm, and what that says of *)
(* the call's data.                                                        *)
(***************************************************************************)
Part == PartOf(body, arm)

\* What may be left of an arm once the implementation has been called.
CRT == <<Step("convert"), Step("release"), Step("take")>>
RCT == <<Step("release"), Step("convert"), Step("take")>>
CTK == <<Step("convert"), Step("take"), Step("keep")>>
CT  == <<Step("convert"), Step("take")>>
RT  == <<Step("release"), Step("take")>>
TK  == <<Step("take"), Step("keep")>>
T   == <<Step("take")>>
K   == <<Step("keep")>>

Unconverted == {CRT, RCT, CTK, CT}
Unreleased  == {CRT, RCT, RT}
Untaken     == {RT, TK, T}

After(b, a) ==
  CASE b.completes = "one"   -> CRT
    [] b.completes = "array" -> RCT
    [] OTHER -> IF Converts(b) THEN IF PartOf(b, a).block THEN CTK ELSE CT
                               ELSE IF PartOf(b, a).block THEN K   ELSE << >>

Left(b, a) ==
  CASE b.completes = "one"   -> {CRT, RT, T, << >>}
    [] b.completes = "array" -> {RCT, CT, T, << >>}
    [] OTHER -> IF Converts(b)
                THEN IF PartOf(b, a).block THEN {CTK, TK, K} ELSE {CT, T, << >>}
                ELSE {After(b, a)}

\* The steps before the call, in the order of an arm's parts.
Asking  == {"narrow", "check", "extent"}
Opening == {"null", "block"}
Staged  == {"stage", "stage unless ignored"}

Rank(kind) == CASE kind \in Asking   -> 1
                [] kind \in Opening  -> 2
                [] kind \in Staged   -> 3
                [] kind \in Fillings -> 4
                [] OTHER             -> 5

EarlySteps(part) ==
  StepsOf(Asking, ParametersOf(part))
    \cup (IF part.block THEN {Step("block")}
          ELSE IF part.arrays = << >> THEN {}
          ELSE {Step("null")} \cup StepsOf(Staged, ArraysOf(part)))
    \cup StepsOf(Fillings, ArraysOf(part))

\* The steps up to the call at c are in order, and there is one block.
Leads(s, c, part) ==
  /\ \A i \in 1 .. c - 1 : s[i] \in EarlySteps(part)
  /\ \A i, j \in 1 .. c - 1 :
       i < j => /\ Rank(s[i].do) <= Rank(s[j].do)
                /\ s[i].do # "block" \/ s[j].do # "block"

Ends(s, c, end) ==
  /\ Len(s) = c + Len(end)
  /\ \A i \in 1 .. Len(end) : s[c + i] = end[i]

BeforeCall(s, b, a) ==
  \E c \in 1 .. Len(s) :
    /\ s[c] = Step("call")
    /\ Ends(s, c, After(b, a))
    /\ Leads(s, c, PartOf(b, a))

Pending(s, kinds) == \E i \in DOMAIN s : s[i].do \in kinds
Holds(s, step) == \E i \in DOMAIN s : s[i] = step

AllNull == \A o \in DOMAIN out : out[o] = "null"
AllMade == \A o \in DOMAIN out : out[o] = "handle"

\* Nothing is staged, read or made.
Untouched ==
  /\ temps = {} /\ block = "none" /\ read = {}

NoOperationEnds ==
  /\ ~completed
  /\ kept <=> op = "in flight"

\* No call is in progress.
AtRest ==
  pc = "idle" =>
    /\ Untouched /\ NoOperationEnds
    /\ passed = {} /\ ierror = "none" /\ ~changed /\ answer = "none"
    /\ flag # "conversion"

Running ==
  pc # "idle" =>
    /\ body \in Table
    /\ withheld \in Withholding
    /\ withheld = "not root" => read = {}

\* Up to the call.
NotCalled ==
  pc = "body" /\ ierror = "none" =>
    /\ ~changed /\ NoOperationEnds /\ flag # "conversion" /\ answer = "none"
    /\ \A o \in DOMAIN out : out[o] # "handle"
    /\ \/ Untouched /\ arm = "stub" /\ todo = <<Step("unsupported")>>
       \/ Untouched /\ arm # "stub" /\ body.calls = "nothing" /\ todo = << >>
       \/ arm # "stub" /\ body.calls # "nothing" /\ BeforeCall(todo, body, arm)

Preparing == pc = "body" /\ ierror = "none" /\ arm # "stub" /\ body.calls # "nothing"

BeforeStaging == Preparing /\ Pending(todo, Asking) => Untouched

InBlock ==
  Preparing /\ Part.block =>
    /\ temps = {}
    /\ block = (IF Pending(todo, {"block"}) THEN "none" ELSE "live")

InTemporaries ==
  Preparing /\ ~Part.block =>
    /\ block = "none"
    /\ Part.arrays = << >> \/ Pending(todo, {"null"}) \/ AllNull

WideIsChecked ==
  Preparing /\ arm = "fallback" =>
    \A w \in body.wide :
      \/ w \in passed
      \/ Holds(todo, [do |-> "narrow", of |-> w])
      \/ Holds(todo, [do |-> "counts", of |-> w])

RootIsAsked ==
  Preparing /\ withheld = "not root" =>
    size = "none" \/ Holds(todo, [do |-> "extent", of |-> "root_extent"])

\* From the call on.
Called ==
  pc = "body" /\ ierror # "none" =>
    /\ arm # "stub" /\ body.calls # "nothing" /\ todo \in Left(body, arm)
    /\ answer = "none"
    /\ IF Part.block
       THEN temps = {} /\ block = "live" /\ ierror = "success"
       ELSE block = "none"
    /\ ierror # "success" => \A o \in DOMAIN out : out[o] # "handle"
    /\ IF todo \in Unconverted
       THEN ~changed /\ flag # "conversion"
       ELSE /\ changed <=> body.changes # {}
            /\ ierror # "success" => AllNull
            /\ ierror = "success" =>
                 AllMade \/ (todo \in Untaken /\ flag = "conversion"
                               /\ \A o \in DOMAIN out : out[o] # "unset")
            /\ flag = "conversion" => todo \in Untaken
    /\ completed => body.completes # "no" /\ op = "none"
    /\ kept <=> op = "in flight" \/ (completed /\ todo \in Unreleased)

\* On every path out.
Settled ==
  pc \in {"done", "returned"} =>
    /\ flag # "conversion"
    /\ kept <=> op = "in flight"
    /\ \A o \in DOMAIN out : out[o] # "unset"
    /\ ierror # "success" => AllNull
    /\ answer = "success" => AllMade
    /\ body.changes # {} => (changed <=> ierror # "none")
    /\ pc = "done" => block = "none"
    /\ pc = "returned" => temps = {}
    /\ block = "live" => answer = "intern" /\ ierror = "success"
    /\ block # "freed again"

BodyInv ==
  /\ TypeOK /\ AtRest /\ Running
  /\ NotCalled /\ BeforeStaging /\ InBlock /\ InTemporaries /\ WideIsChecked
  /\ RootIsAsked
  /\ Called /\ Settled
-----------------------------------------------------------------------------
(***************************************************************************)
(* Sequences.                                                              *)
(***************************************************************************)
Late == {"convert", "release", "take", "keep"}

\* What is left of a sequence without its first element.
LEMMA TailElements ==
  ASSUME NEW S, NEW s \in Seq(S), s # << >>
  PROVE  /\ Tail(s) \in Seq(S) /\ Head(s) \in S /\ Head(s) = s[1]
         /\ Len(s) \in Nat /\ Len(s) >= 1 /\ Len(Tail(s)) = Len(s) - 1
         /\ \A i \in 1 .. Len(s) - 1 : Tail(s)[i] = s[i + 1]
  BY HeadTailProperties, EmptySeq, LenProperties

\* The steps after the call, one after the other.
LEMMA LateTuples ==
  /\ Head(CRT) = Step("convert") /\ Tail(CRT) = RT
  /\ Head(RCT) = Step("release") /\ Tail(RCT) = CT
  /\ Head(CTK) = Step("convert") /\ Tail(CTK) = TK
  /\ Head(CT)  = Step("convert") /\ Tail(CT)  = T
  /\ Head(RT)  = Step("release") /\ Tail(RT)  = T
  /\ Head(TK)  = Step("take")    /\ Tail(TK)  = K
  /\ Head(T)   = Step("take")    /\ Tail(T)   = << >>
  /\ Head(K)   = Step("keep")    /\ Tail(K)   = << >>
  BY DEF CRT, RCT, CTK, CT, RT, TK, T, K

\* None of these is over.
LEMMA LateSeqs ==
  /\ CRT # << >> /\ RCT # << >> /\ CTK # << >> /\ CT # << >>
  /\ RT # << >> /\ TK # << >> /\ T # << >> /\ K # << >>
  BY DEF CRT, RCT, CTK, CT, RT, TK, T, K

\* Whatever is left of them is a sequence of late steps.
LEMMA LateElements ==
  ASSUME NEW s \in Unconverted \cup Unreleased \cup Untaken \cup {K, << >>}
  PROVE  /\ s \in Seq(StepsOf(Late, {"the call"}))
         /\ Len(s) \in Nat
         /\ \A i \in 1 .. Len(s) : s[i].do \in Late
<1>1. \A kind \in Late : Step(kind) \in StepsOf(Late, {"the call"})
  BY DEF StepsOf, Late, Step
<1> DEFINE S == StepsOf(Late, {"the call"})
<1> HIDE DEF S
<1>a. \A x, y, z \in S : /\ <<x, y, z>> \in Seq(S)
                         /\ <<x, y>> \in Seq(S)
                         /\ <<x>> \in Seq(S)
  OBVIOUS
<1>2. \A k1, k2, k3 \in Late :
        /\ <<Step(k1), Step(k2), Step(k3)>> \in Seq(S)
        /\ <<Step(k1), Step(k2)>> \in Seq(S)
        /\ <<Step(k1)>> \in Seq(S)
  BY <1>1, <1>a DEF S
<1>3. s \in Seq(S)
  BY <1>2, EmptySeq
     DEF CRT, RCT, CTK, CT, RT, TK, T, K, Unconverted, Unreleased, Untaken, Late
<1>4. \A x \in S : x.do \in Late  BY DEF S, StepsOf
<1>   QED  BY <1>3, <1>4, LenProperties, ElementOfSeq DEF S

\* Concatenations of short sequences.
LEMMA OneAndOne == ASSUME NEW x, NEW y PROVE <<x>> \o <<y>> = <<x, y>>
<1> DEFINE S == {x, y}  L == <<x>> \o <<y>>
<1>1. <<x>> \in Seq(S) /\ <<y>> \in Seq(S) /\ <<x, y>> \in Seq(S)  OBVIOUS
<1>2. L \in Seq(S) /\ Len(L) = 2 /\ L[1] = x /\ L[2] = y
  BY <1>1, ConcatProperties
<1>3. \A i \in 1 .. 2 : L[i] = <<x, y>>[i]  BY <1>2
<1>   QED  BY <1>1, <1>2, <1>3, SeqEqual

\* The same for two and one.
LEMMA TwoAndOne ==
  ASSUME NEW x, NEW y, NEW z PROVE <<x, y>> \o <<z>> = <<x, y, z>>
<1> DEFINE S == {x, y, z}  L == <<x, y>> \o <<z>>
<1>1. <<x, y>> \in Seq(S) /\ <<z>> \in Seq(S) /\ <<x, y, z>> \in Seq(S)
  OBVIOUS
<1>2. L \in Seq(S) /\ Len(L) = 3 /\ L[1] = x /\ L[2] = y /\ L[3] = z
  BY <1>1, ConcatProperties
<1>3. \A i \in 1 .. 3 : L[i] = <<x, y, z>>[i]  BY <1>2
<1>   QED  BY <1>1, <1>2, <1>3, SeqEqual

\* The same with nothing.
LEMMA OneAndNone == ASSUME NEW x PROVE <<x>> \o << >> = <<x>> /\ << >> \o <<x>> = <<x>>
  OBVIOUS
\* The same for two and nothing.
LEMMA TwoAndNone == ASSUME NEW x, NEW y PROVE <<x, y>> \o << >> = <<x, y>>
  OBVIOUS
\* The same for three and nothing.
LEMMA ThreeAndNone ==
  ASSUME NEW x, NEW y, NEW z PROVE <<x, y, z>> \o << >> = <<x, y, z>>
  OBVIOUS

\* What follows the call in an arm is After.
LEMMA AfterIsTheEnd ==
  ASSUME NEW b, NEW a, WellFormed(b), PartOf(b, a) \in {b.native, b.fallback}
  PROVE  /\ After(b, a) = (Converting(b) \o Taking(b))
                            \o (IF PartOf(b, a).block THEN <<Step("keep")>> ELSE << >>)
         /\ After(b, a) \in Left(b, a)
         /\ After(b, a) \in Unconverted \cup {K, << >>}
<1> USE DEF After, Left, Converting, Taking
<1>1. CASE b.completes # "no"
  <2>1. b.changes # {}  BY <1>1 DEF WellFormed
  <2>2. ~PartOf(b, a).block  BY <1>1, <2>1 DEF WellFormed
  <2>3. Converts(b)  BY <2>1 DEF Converts
  <2>4. CASE b.completes = "one"
    BY <2>2, <2>3, <2>4, TwoAndOne, ThreeAndNone DEF CRT, Unconverted
  <2>5. CASE b.completes = "array"
    BY <2>2, <2>3, <2>5, TwoAndOne, ThreeAndNone DEF RCT, Unconverted
  <2>   QED  BY <1>1, <2>4, <2>5 DEF WellFormed
<1>2. CASE b.completes = "no"
  <2>1. CASE Converts(b) /\ PartOf(b, a).block
    BY <1>2, <2>1, OneAndOne, TwoAndOne DEF CTK, Unconverted
  <2>2. CASE Converts(b) /\ ~PartOf(b, a).block
    BY <1>2, <2>2, OneAndOne, TwoAndNone DEF CT, Unconverted
  <2>3. CASE ~Converts(b) /\ PartOf(b, a).block
    <3>1. << >> \o << >> = << >>  OBVIOUS
    <3>   QED  BY <1>2, <2>3, <3>1, OneAndNone DEF K
  <2>4. CASE ~Converts(b) /\ ~PartOf(b, a).block
    <3>1. << >> \o << >> = << >>  OBVIOUS
    <3>   QED  BY <1>2, <2>4, <3>1
  <2>   QED  BY <2>1, <2>2, <2>3, <2>4
<1>   QED  BY <1>1, <1>2

-----------------------------------------------------------------------------
(***************************************************************************)
(* The first step of an arm before its call.                               *)
(***************************************************************************)
Early == Asking \cup Opening \cup Staged \cup Fillings

\* The steps an arm can have before the call are early.
LEMMA EarlyKinds ==
  ASSUME NEW part, NEW x \in EarlySteps(part)
  PROVE  x.do \in Early
<1>1. CASE x \in StepsOf(Asking, ParametersOf(part)) \cup StepsOf(Staged, ArraysOf(part))
              \cup StepsOf(Fillings, ArraysOf(part))
  BY <1>1 DEF StepsOf, Early
<1>2. CASE x = Step("block")  BY <1>2 DEF Step, Early, Opening
<1>3. CASE x = Step("null")   BY <1>3 DEF Step, Early, Opening
<1>   QED  BY <1>1, <1>2, <1>3 DEF EarlySteps

\* The fields of a step.
LEMMA StepKind == \A kind : Step(kind).do = kind /\ Step(kind).of = "the call"
  BY DEF Step

\* The order of the kinds of steps.
LEMMA Ranks ==
  /\ \A kind \in Asking : Rank(kind) = 1
  /\ \A kind \in Opening : Rank(kind) = 2
  /\ \A kind \in Staged : Rank(kind) = 3
  /\ \A kind \in Fillings : Rank(kind) = 4
  /\ \A kind \in Late \cup {"call"} : Rank(kind) = 5
  BY DEF Rank, Asking, Opening, Staged, Fillings, Late

\* Where the call is: at the head, or after a step that precedes it.
LEMMA HeadOfArm ==
  ASSUME NEW S, NEW s \in Seq(S), NEW b, NEW a, BeforeCall(s, b, a),
         After(b, a) \in Unconverted \cup {K, << >>}
  PROVE  /\ s # << >>
         /\ Head(s).do = "call" => Tail(s) = After(b, a)
         /\ Head(s).do # "call" =>
              /\ Head(s) \in EarlySteps(PartOf(b, a))
              /\ BeforeCall(Tail(s), b, a)
              /\ \A i \in DOMAIN Tail(s) :
                   /\ Rank(Head(s).do) <= Rank(Tail(s)[i].do)
                   /\ Head(s).do # "block" \/ Tail(s)[i].do # "block"
<1> DEFINE end == After(b, a)  part == PartOf(b, a)
<1> HIDE DEF end, part
<1>1. PICK c \in 1 .. Len(s) :
        s[c] = Step("call") /\ Ends(s, c, end) /\ Leads(s, c, part)
  BY DEF BeforeCall, end, part
<1>2. Len(s) \in Nat /\ Len(end) \in Nat
  BY LenProperties, LateElements DEF end
<1>e. end \in Seq(StepsOf(Late, {"the call"})) /\ \A i \in 1 .. Len(end) : end[i].do \in Late
  BY LateElements DEF end
<1>c. c \in Int /\ 1 <= c /\ c <= Len(s) /\ Len(s) = c + Len(end)
  BY <1>1, <1>2 DEF Ends
<1>3. s # << >>  BY <1>c, EmptySeq
<1>4. /\ Tail(s) \in Seq(S) /\ Head(s) = s[1] /\ Len(Tail(s)) = Len(s) - 1
      /\ \A i \in 1 .. Len(s) - 1 : Tail(s)[i] = s[i + 1]
      /\ DOMAIN Tail(s) = 1 .. Len(s) - 1
  BY <1>3, TailElements, LenProperties
<1>5. ASSUME Head(s).do = "call" PROVE Tail(s) = end
  <2>1. c = 1
    <3>1. ASSUME c # 1 PROVE FALSE
      <4>1. 1 \in 1 .. c - 1  BY <1>c, <3>1
      <4>2. s[1].do \in Early  BY <1>1, <4>1, EarlyKinds DEF Leads
      <4>   QED  BY <4>2, <1>4, <1>5 DEF Early, Asking, Opening, Staged, Fillings
    <3>   QED  BY <3>1
  <2>2. Len(Tail(s)) = Len(end)  BY <1>c, <1>2, <1>4, <2>1
  <2>3. \A i \in 1 .. Len(end) : Tail(s)[i] = end[i]
    <3>1. TAKE i \in 1 .. Len(end)
    <3>2. i \in 1 .. Len(s) - 1 /\ i + 1 = c + i  BY <1>c, <1>2, <2>1
    <3>3. s[c + i] = end[i]  BY <1>1 DEF Ends
    <3>   QED  BY <3>2, <3>3, <1>4
  <2>4. PICK U : U = S \cup StepsOf(Late, {"the call"})  OBVIOUS
  <2>5. Tail(s) \in Seq(U) /\ end \in Seq(U)
    BY <1>e, <1>4, <2>4, SeqMonotonic
  <2>   QED  BY <2>2, <2>3, <2>5, SeqEqual
<1>6. ASSUME Head(s).do # "call"
      PROVE  /\ Head(s) \in EarlySteps(part)
             /\ BeforeCall(Tail(s), b, a)
             /\ \A i \in DOMAIN Tail(s) :
                  /\ Rank(Head(s).do) <= Rank(Tail(s)[i].do)
                  /\ Head(s).do # "block" \/ Tail(s)[i].do # "block"
  <2>1. c > 1
    <3>1. ASSUME c = 1 PROVE FALSE
      <4>1. s[1].do = "call"  BY <1>1, <3>1, StepKind
      <4>   QED  BY <4>1, <1>4, <1>6
    <3>   QED  BY <1>c, <3>1
  <2>2. c - 1 \in 1 .. Len(s) - 1 /\ 1 \in 1 .. c - 1  BY <1>c, <1>2, <2>1
  <2>3. Head(s) \in EarlySteps(part)  BY <1>1, <1>4, <2>2 DEF Leads
  <2>4. Tail(s)[c - 1] = Step("call")
    <3>1. (c - 1) + 1 = c  BY <1>c
    <3>   QED  BY <1>1, <1>4, <2>2, <3>1
  <2>5. Ends(Tail(s), c - 1, end)
    <3>1. Len(Tail(s)) = (c - 1) + Len(end)  BY <1>c, <1>2, <1>4
    <3>2. ASSUME NEW i \in 1 .. Len(end) PROVE Tail(s)[(c - 1) + i] = end[i]
      <4>1. (c - 1) + i \in 1 .. Len(s) - 1 /\ ((c - 1) + i) + 1 = c + i
        BY <1>c, <1>2, <2>1
      <4>2. Tail(s)[(c - 1) + i] = s[c + i]  BY <1>4, <4>1
      <4>3. s[c + i] = end[i]  BY <1>1 DEF Ends
      <4>   QED  BY <4>2, <4>3
    <3>   QED  BY <3>1, <3>2 DEF Ends
  <2>6. Leads(Tail(s), c - 1, part)
    <3>1. \A i \in 1 .. (c - 1) - 1 :
             i + 1 \in 1 .. c - 1 /\ i \in 1 .. Len(s) - 1
      BY <1>c, <1>2
    <3>a. \A i \in 1 .. (c - 1) - 1 : Tail(s)[i] = s[i + 1]  BY <1>4, <3>1
    <3>2. \A i \in 1 .. (c - 1) - 1 : Tail(s)[i] \in EarlySteps(part)
      BY <1>1, <3>1, <3>a DEF Leads
    <3>3. ASSUME NEW i \in 1 .. (c - 1) - 1, NEW j \in 1 .. (c - 1) - 1, i < j
          PROVE  /\ Rank(Tail(s)[i].do) <= Rank(Tail(s)[j].do)
                 /\ Tail(s)[i].do # "block" \/ Tail(s)[j].do # "block"
      <4>1. i + 1 \in 1 .. c - 1 /\ j + 1 \in 1 .. c - 1 /\ i + 1 < j + 1
        BY <3>3, <1>c, <1>2
      <4>2. Tail(s)[i] = s[i + 1] /\ Tail(s)[j] = s[j + 1]  BY <3>a
      <4>   QED  BY <1>1, <4>1, <4>2 DEF Leads
    <3>   QED  BY <3>2, <3>3 DEF Leads
  <2>7. BeforeCall(Tail(s), b, a)
    <3>1. c - 1 \in 1 .. Len(Tail(s))  BY <2>2, <1>4
    <3>   QED  BY <2>4, <2>5, <2>6, <3>1 DEF BeforeCall, end, part
  <2>8. ASSUME NEW i \in DOMAIN Tail(s)
        PROVE  /\ Rank(Head(s).do) <= Rank(Tail(s)[i].do)
               /\ Head(s).do # "block" \/ Tail(s)[i].do # "block"
    <3>1. i \in 1 .. Len(s) - 1 /\ Tail(s)[i] = s[i + 1]  BY <1>4, <2>8
    <3>2. Head(s).do \in Early  BY <2>3, EarlyKinds
    <3>3. Rank(Head(s).do) \in {1, 2, 3, 4}  BY <3>2, Ranks DEF Early
    <3>4. CASE i + 1 < c
      <4>1. 1 \in 1 .. c - 1 /\ i + 1 \in 1 .. c - 1 /\ 1 < i + 1
        BY <3>1, <3>4, <1>c, <1>2, <2>1
      <4>   QED  BY <1>1, <1>4, <3>1, <4>1 DEF Leads
    <3>5. CASE i + 1 = c
      <4>1. Tail(s)[i] = Step("call")  BY <1>1, <3>1, <3>5
      <4>2. Tail(s)[i].do # "block"
        BY <4>1, StepKind
      <4>3. Rank(Tail(s)[i].do) = 5  BY <4>1, Ranks, StepKind
      <4>   QED  BY <4>2, <4>3, <3>3
    <3>6. CASE i + 1 > c
      <4>1. i + 1 - c \in 1 .. Len(end) /\ c + (i + 1 - c) = i + 1
        BY <3>1, <3>6, <1>c, <1>2
      <4>2. Tail(s)[i] = end[i + 1 - c]  BY <1>1, <3>1, <4>1 DEF Ends
      <4>3. Tail(s)[i].do \in Late  BY <1>e, <4>1, <4>2
      <4>4. Rank(Tail(s)[i].do) = 5 /\ Tail(s)[i].do # "block"
        BY <4>3, Ranks DEF Late
      <4>   QED  BY <4>4, <3>3
    <3>   QED  BY <3>1, <3>4, <3>5, <3>6, <1>c, <1>2
  <2>   QED  BY <2>3, <2>7, <2>8
<1>   QED  BY <1>3, <1>5, <1>6 DEF end, part

-----------------------------------------------------------------------------
(***************************************************************************)
(* The shape of a whole arm.                                               *)
(***************************************************************************)
\* Concatenation, as a function that the provers do not look into.
Cat(s, t) == s \o t

Starts(s, c, start) == \A i \in 1 .. c : s[i] = start[i]

\* The first part starts a concatenation, and the second ends it.
LEMMA Concatenated ==
  ASSUME NEW S, NEW s \in Seq(S), NEW t \in Seq(S)
  PROVE  /\ Cat(s, t) \in Seq(S)
         /\ Starts(Cat(s, t), Len(s), s)
         /\ Ends(Cat(s, t), Len(s), t)
<1>0. PICK m \in Nat, n \in Nat : m = Len(s) /\ n = Len(t)  BY LenProperties
<1>1. /\ s \o t \in Seq(S) /\ Len(s \o t) = m + n
      /\ \A i \in 1 .. m + n : (s \o t)[i] = IF i <= m THEN s[i] ELSE t[i - m]
  BY <1>0, ConcatProperties
<1>2. \A i \in 1 .. m : i \in 1 .. m + n /\ i <= m  OBVIOUS
<1>3. \A i \in 1 .. n : m + i \in 1 .. m + n /\ ~(m + i <= m) /\ (m + i) - m = i
  OBVIOUS
<1>   QED  BY <1>0, <1>1, <1>2, <1>3 DEF Cat, Starts, Ends

\* Concatenation is associative.
LEMMA Associative ==
  ASSUME NEW S
  PROVE  \A l, u, w \in Seq(S) : (l \o u) \o w = l \o (u \o w)
<1> TAKE l, u, w \in Seq(S)
<1> QED  BY ConcatAssociative

LEMMA Regrouped ==
  ASSUME NEW S
  PROVE  \A l, u, v, w \in Seq(S) :
           Cat(Cat(Cat(l, u), v), w) = Cat(l, Cat(Cat(u, v), w))
<1>1. \A a, b, c \in Seq(S) : (a \o b) \o c = a \o (b \o c)  BY Associative
<1>2. \A a, b \in Seq(S) : a \o b \in Seq(S)
  <2> TAKE a, b \in Seq(S)
  <2> QED  BY ConcatProperties
<1>3. \A a, b, c \in Seq(S) : Cat(Cat(a, b), c) = Cat(a, Cat(b, c))
  BY <1>1, Zenon DEF Cat
<1>4. \A a, b \in Seq(S) : Cat(a, b) \in Seq(S)  BY <1>2, Zenon DEF Cat
<1> TAKE l, u, v, w \in Seq(S)
<1>5. Cat(u, v) \in Seq(S)  BY <1>4
<1>6. Cat(Cat(l, u), v) = Cat(l, Cat(u, v))  BY <1>3
<1>7. Cat(Cat(l, Cat(u, v)), w) = Cat(l, Cat(Cat(u, v), w))  BY <1>3, <1>5
<1> QED  BY <1>6, <1>7

\* Three sequences, an element, and the rest.
Layout(s, p, q, r, x, end) ==
  LET P == Len(p)
      Q == Len(q)
      R == Len(r)
      c == P + Q + R + 1
  IN  /\ s[c] = x /\ Ends(s, c, end)
      /\ \A i \in 1 .. P : s[i] = p[i]
      /\ \A i \in 1 .. Q : s[P + i] = q[i]
      /\ \A i \in 1 .. R : s[P + Q + i] = r[i]

\* The parts of a program lie in it one after the other.
LEMMA Assembled ==
  ASSUME NEW S, NEW p \in Seq(S), NEW q \in Seq(S), NEW r \in Seq(S),
         NEW x \in S, NEW u \in Seq(S), NEW v \in Seq(S), NEW w \in Seq(S)
  PROVE  LET s == Cat(Cat(Cat(Cat(Cat(Cat(p, q), r), <<x>>), u), v), w)
         IN  s \in Seq(S) /\ Layout(s, p, q, r, x, Cat(Cat(u, v), w))
<1>0. PICK P \in Nat, Q \in Nat, R \in Nat :
        P = Len(p) /\ Q = Len(q) /\ R = Len(r)
  BY LenProperties
<1>1. PICK lead : lead = Cat(Cat(Cat(p, q), r), <<x>>)  OBVIOUS
<1>2. PICK c \in Nat : c = P + Q + R + 1  OBVIOUS
<1>3. /\ lead \in Seq(S) /\ Len(lead) = c /\ lead[c] = x
      /\ \A i \in 1 .. P : lead[i] = p[i]
      /\ \A i \in 1 .. Q : lead[P + i] = q[i]
      /\ \A i \in 1 .. R : lead[P + Q + i] = r[i]
  <2>1. /\ lead \in Seq(S) /\ Len(lead) = P + Q + R + 1
        /\ lead[P + Q + R + 1] = x
        /\ \A i \in 1 .. P : lead[i] = p[i]
        /\ \A i \in 1 .. Q : lead[P + i] = q[i]
        /\ \A i \in 1 .. R : lead[P + Q + i] = r[i]
  <3>1. PICK pq : pq = Cat(p, q)  OBVIOUS
    <3>2. /\ pq \in Seq(S) /\ Len(pq) = P + Q
          /\ \A i \in 1 .. P : pq[i] = p[i]
          /\ \A i \in 1 .. Q : pq[P + i] = q[i]
      <4>1. Cat(p, q) \in Seq(S) /\ Starts(Cat(p, q), Len(p), p) /\ Ends(Cat(p, q), Len(p), q)
        BY Concatenated
      <4>   QED  BY <1>0, <3>1, <4>1 DEF Starts, Ends
    <3>3. PICK PQ \in Nat : PQ = P + Q  OBVIOUS
    <3>4. PICK pqr : pqr = Cat(pq, r)  OBVIOUS
    <3>5. /\ pqr \in Seq(S) /\ Len(pqr) = PQ + R
          /\ \A i \in 1 .. PQ : pqr[i] = pq[i]
          /\ \A i \in 1 .. R : pqr[PQ + i] = r[i]
      <4>1. PQ = Len(pq) /\ pq \in Seq(S)  BY <3>2, <3>3
      <4>2. pqr \in Seq(S) /\ Starts(pqr, Len(pq), pq) /\ Ends(pqr, Len(pq), r)
        BY <3>4, <4>1, Concatenated
      <4>   QED  BY <1>0, <4>1, <4>2 DEF Starts, Ends
    <3>6. PICK PQR \in Nat : PQR = PQ + R  OBVIOUS
    <3>7. <<x>> \in Seq(S) /\ Len(<<x>>) = 1 /\ <<x>>[1] = x  OBVIOUS
    <3>8. lead = Cat(pqr, <<x>>)  BY <1>1, <3>1, <3>4
    <3>9. /\ lead \in Seq(S) /\ Len(lead) = PQR + 1
          /\ \A i \in 1 .. PQR : lead[i] = pqr[i]
          /\ \A i \in 1 .. 1 : lead[PQR + i] = <<x>>[i]
      <4>1. PQR = Len(pqr) /\ pqr \in Seq(S) /\ 1 \in Nat /\ 1 = Len(<<x>>)
        BY <3>5, <3>6, <3>7
      <4>2. PICK y : y = <<x>> /\ y \in Seq(S)  BY <3>7
      <4>3. PICK z : z = Cat(pqr, y)  OBVIOUS
      <4>4. /\ z \in Seq(S) /\ Len(z) = PQR + 1
            /\ \A i \in 1 .. PQR : z[i] = pqr[i]
            /\ \A i \in 1 .. 1 : z[PQR + i] = y[i]
        <5>1. z \in Seq(S) /\ Starts(z, Len(pqr), pqr) /\ Ends(z, Len(pqr), y)
          BY <4>1, <4>2, <4>3, Concatenated
        <5>   QED  BY <4>1, <4>2, <5>1 DEF Starts, Ends
      <4>   QED  BY <3>8, <4>2, <4>3, <4>4
    <3>10. lead[P + Q + R + 1] = x
      <4>1. 1 \in 1 .. 1 /\ P + Q + R + 1 = PQR + 1  BY <3>3, <3>6
      <4>2. lead[PQR + 1] = <<x>>[1]  BY <3>9, <4>1
      <4>   QED  BY <3>7, <4>1, <4>2
    <3>11. \A i \in 1 .. P : lead[i] = p[i]
      <4>1. TAKE i \in 1 .. P
      <4>2. i \in 1 .. PQR /\ i \in 1 .. PQ  BY <3>3, <3>6
      <4>   QED  BY <3>2, <3>5, <3>9, <4>2
    <3>12. \A i \in 1 .. Q : lead[P + i] = q[i]
      <4>1. TAKE i \in 1 .. Q
      <4>2. P + i \in 1 .. PQR /\ P + i \in 1 .. PQ  BY <3>3, <3>6
      <4>   QED  BY <3>2, <3>5, <3>9, <4>2
    <3>13. \A i \in 1 .. R : lead[PQ + i] = r[i]
      <4>1. TAKE i \in 1 .. R
      <4>2. PQ + i \in 1 .. PQR  BY <3>6
      <4>   QED  BY <3>5, <3>9, <4>2
    <3>14. Len(lead) = P + Q + R + 1  BY <3>3, <3>6, <3>9
    <3>   QED  BY <3>3, <3>9, <3>10, <3>11, <3>12, <3>13, <3>14
  <2>   QED  BY <1>2, <2>1
<1>4. PICK end : end = Cat(Cat(u, v), w)  OBVIOUS
<1>5. end \in Seq(S)
  <2>1. \A y, z \in Seq(S) : Cat(y, z) \in Seq(S)  BY ConcatProperties DEF Cat
  <2>   QED  BY <1>4, <2>1
<1>6. PICK s : s = Cat(Cat(Cat(lead, u), v), w)  OBVIOUS
<1>7. s = Cat(lead, end)
  <2>1. lead \in Seq(S)  BY <1>3
  <2>2. \A a, b, d, e \in Seq(S) :
          Cat(Cat(Cat(a, b), d), e) = Cat(a, Cat(Cat(b, d), e))
    BY Regrouped
  <2>   QED  BY <1>4, <1>6, <2>1, <2>2
<1>8. PICK n \in Nat : n = Len(end)  BY <1>5, LenProperties
<1>9. /\ s \in Seq(S) /\ Len(s) = c + n
      /\ \A i \in 1 .. c : s[i] = lead[i]
      /\ \A i \in 1 .. n : s[c + i] = end[i]
  <2>1. c = Len(lead) /\ lead \in Seq(S)  BY <1>3
  <2>2. PICK z : z = Cat(lead, end)  OBVIOUS
  <2>3. /\ z \in Seq(S) /\ Len(z) = c + n
        /\ \A i \in 1 .. c : z[i] = lead[i]
        /\ \A i \in 1 .. n : z[c + i] = end[i]
    <3>1. z \in Seq(S) /\ Starts(z, Len(lead), lead) /\ Ends(z, Len(lead), end)
      BY <1>5, <2>1, <2>2, Concatenated
    <3>   QED  BY <1>8, <2>1, <3>1 DEF Starts, Ends
  <2>   QED  BY <1>7, <2>2, <2>3
<1>10. Ends(s, c, end)  BY <1>8, <1>9 DEF Ends
<1>11. s[c] = x
  <2>1. c \in 1 .. c  BY <1>2
  <2>   QED  BY <1>3, <1>9, <2>1
<1>12. \A i \in 1 .. P : s[i] = p[i]
  <2>1. TAKE i \in 1 .. P
  <2>2. i \in 1 .. c  BY <1>2
  <2>   QED  BY <1>3, <1>9, <2>2
<1>13. \A i \in 1 .. Q : s[P + i] = q[i]
  <2>1. TAKE i \in 1 .. Q
  <2>2. P + i \in 1 .. c  BY <1>2
  <2>   QED  BY <1>3, <1>9, <2>2
<1>14. \A i \in 1 .. R : s[P + Q + i] = r[i]
  <2>1. TAKE i \in 1 .. R
  <2>2. P + Q + i \in 1 .. c  BY <1>2
  <2>   QED  BY <1>3, <1>9, <2>2
<1>15. s \in Seq(S)  BY <1>9
<1>   QED  BY <1>0, <1>1, <1>2, <1>4, <1>6, <1>10, <1>11, <1>12, <1>13, <1>14, <1>15 DEF Layout

\* Staging is the block alone, or null and then the arrays.
LEMMA StagingShape ==
  ASSUME NEW part, WellFormedPart(part), NEW q, q = Staging(part)
  PROVE  /\ q \in Seq(EarlySteps(part))
         /\ \A i \in 1 .. Len(q) : Rank(q[i].do) \in {2, 3}
         /\ \A i, j \in 1 .. Len(q) :
              i < j => /\ Rank(q[i].do) <= Rank(q[j].do)
                       /\ q[i].do # "block" \/ q[j].do # "block"
         /\ part.block => Len(q) = 1 /\ q[1] = Step("block")
         /\ ~part.block /\ part.arrays # << >> => Len(q) >= 1 /\ q[1] = Step("null")
<1>1. CASE part.arrays = << >>
  <2>1. q = << >> /\ ~part.block  BY <1>1 DEF Staging, WellFormedPart
  <2>   QED  BY <1>1, <2>1, EmptySeq
<1>2. CASE part.arrays # << >> /\ part.block
  <2>1. q = <<Step("block")>>  BY <1>2 DEF Staging
  <2>2. Step("block") \in EarlySteps(part)  BY <1>2 DEF EarlySteps
  <2>3. q \in Seq(EarlySteps(part)) /\ Len(q) = 1 /\ q[1] = Step("block")
    BY <2>1, <2>2
  <2>4. Rank(q[1].do) = 2  BY <2>3, StepKind, Ranks DEF Opening
  <2>   QED  BY <1>2, <2>3, <2>4
<1>3. CASE part.arrays # << >> /\ ~part.block
  <2> DEFINE stages == [i \in 1 .. Len(part.arrays) |->
                          [do |-> IF part.arrays[i].do = "statuses" THEN "stage unless ignored"
                                                                    ELSE "stage",
                           of |-> part.arrays[i].of]]
             S == EarlySteps(part)
  <2>1. q = Cat(<<Step("null")>>, stages)  BY <1>3 DEF Staging, Cat
  <2>2. PICK n \in Nat : n = Len(part.arrays) /\ DOMAIN part.arrays = 1 .. n
    BY LenProperties DEF WellFormedPart
  <2>3. ASSUME NEW i \in 1 .. n
        PROVE  stages[i] \in StepsOf(Staged, ArraysOf(part)) /\ stages[i].do \in Staged
    BY <2>2 DEF StepsOf, Staged, ArraysOf
  <2>4. StepsOf(Staged, ArraysOf(part)) \subseteq S /\ Step("null") \in S
    BY <1>3 DEF EarlySteps
  <2>5. stages \in Seq(S) /\ Len(stages) = n
    <3>1. \A i \in 1 .. n : stages[i] \in S  BY <2>2, <2>3, <2>4
    <3>2. stages \in [1 .. n -> S]
      <4>1. stages = [i \in 1 .. n |-> stages[i]]  BY <2>2
      <4>   QED  BY <3>1, <4>1
    <3> HIDE DEF stages, S
    <3>3. \A f \in [1 .. n -> S] : f \in Seq(S) /\ Len(f) = n  BY <2>2
    <3>   QED  BY <3>2, <3>3
  <2> HIDE DEF stages, S
  <2>6. <<Step("null")>> \in Seq(S) /\ Len(<<Step("null")>>) = 1
        /\ <<Step("null")>>[1] = Step("null")
    BY <2>4
  <2>7. /\ q \in Seq(S) /\ Len(q) = 1 + n
        /\ \A i \in 1 .. 1 : q[i] = <<Step("null")>>[i]
        /\ \A i \in 1 .. n : q[1 + i] = stages[i]
    <3>1. 1 \in Nat  OBVIOUS
    <3>2. PICK y : y = <<Step("null")>> /\ y \in Seq(S)  BY <2>6
    <3>3. q \in Seq(S) /\ Starts(q, Len(y), y) /\ Ends(q, Len(y), stages)
      BY <2>1, <2>5, <3>2, Concatenated
    <3>4. Len(y) = 1  BY <2>6, <3>2
    <3>   QED  BY <2>5, <3>2, <3>3, <3>4 DEF Starts, Ends
  <2>8. q[1] = Step("null") /\ Rank(q[1].do) = 2 /\ q[1].do # "block"
    <3>1. q[1] = Step("null")  BY <2>6, <2>7
    <3>   QED  BY <3>1, StepKind, Ranks DEF Opening
  <2>9. ASSUME NEW i \in 1 .. 1 + n, i # 1
        PROVE  Rank(q[i].do) = 3 /\ q[i].do # "block"
    <3>a. i - 1 \in 1 .. n /\ i = 1 + (i - 1)  BY <2>9
    <3>1. i - 1 \in 1 .. n /\ q[i] = stages[i - 1]  BY <2>7, <3>a
    <3>2. q[i].do \in Staged  BY <3>1, <2>3
    <3>   QED  BY <3>2, Ranks DEF Staged
  <2>10. \A i \in 1 .. 1 + n : Rank(q[i].do) \in {2, 3} /\ q[i].do # "block"
    BY <2>8, <2>9
  <2>11. ASSUME NEW i \in 1 .. 1 + n, NEW j \in 1 .. 1 + n, i < j
         PROVE  Rank(q[i].do) <= Rank(q[j].do)
    <3>1. j # 1  BY <2>11
    <3>2. Rank(q[j].do) = 3  BY <3>1, <2>9
    <3>   QED  BY <3>2, <2>10
  <2>12. Len(q) >= 1  BY <2>7
  <2>   QED  BY <1>3, <2>7, <2>8, <2>10, <2>11, <2>12 DEF S
<1>   QED  BY <1>1, <1>2, <1>3
\* The steps before the call are steps.
LEMMA EarlyStepsTyped ==
  ASSUME NEW part
  PROVE  EarlySteps(part) \subseteq StepsOf(Kinds, NamesOf(part))
<1>1. /\ ParametersOf(part) \subseteq NamesOf(part)
      /\ ArraysOf(part) \subseteq NamesOf(part)
      /\ "the call" \in NamesOf(part)
  BY DEF NamesOf
<1>2. "block" \in Kinds /\ "null" \in Kinds  BY DEF Kinds
<1>3. /\ Step("block") \in StepsOf(Kinds, NamesOf(part))
      /\ Step("null") \in StepsOf(Kinds, NamesOf(part))
  BY <1>1, <1>2 DEF Step, StepsOf
<1>4. Asking \subseteq Kinds /\ Staged \subseteq Kinds /\ Fillings \subseteq Kinds
  BY DEF Asking, Staged, Fillings, Kinds
<1>5. /\ StepsOf(Asking, ParametersOf(part)) \subseteq StepsOf(Kinds, NamesOf(part))
      /\ StepsOf(Staged, ArraysOf(part)) \subseteq StepsOf(Kinds, NamesOf(part))
      /\ StepsOf(Fillings, ArraysOf(part)) \subseteq StepsOf(Kinds, NamesOf(part))
  BY <1>1, <1>4 DEF StepsOf
<1>   QED  BY <1>3, <1>5 DEF EarlySteps

\* A whole program is what is left at the start, and holds all its steps.
LEMMA ProgramShape ==
  ASSUME NEW b, NEW a, WellFormed(b), a # "stub", b.calls # "nothing",
         NEW part, part = PartOf(b, a), part \in {b.native, b.fallback},
         NEW s, s = Program(b, a)
  PROVE  /\ s \in Seq(StepsOf(Kinds, NamesOf(part)))
         /\ BeforeCall(s, b, a)
         /\ \A i \in DOMAIN part.pre : Holds(s, part.pre[i])
         /\ \A i \in DOMAIN Filling(part) : Holds(s, Filling(part)[i])
         /\ part.block => Holds(s, Step("block"))
         /\ ~part.block /\ part.arrays # << >> => Holds(s, Step("null"))
<1>1. WellFormedPart(part)  BY DEF WellFormed
<1>2. PICK S : S = StepsOf(Kinds, NamesOf(part))  OBVIOUS
<1>3. PICK p : p = part.pre  OBVIOUS
<1>4. PICK q : q = Staging(part)  OBVIOUS
<1>5. PICK r : r = Filling(part)  OBVIOUS
<1>6. PICK u : u = Converting(b)  OBVIOUS
<1>7. PICK v : v = Taking(b)  OBVIOUS
<1>8. PICK w : w = IF part.block THEN <<Step("keep")>> ELSE << >>  OBVIOUS
<1>9. PICK x : x = Step("call")  OBVIOUS
<1>10. p \in Seq(StepsOf(Asking, ParametersOf(part))) /\ r \in Seq(StepsOf(Fillings, ArraysOf(part)))
  BY <1>1, <1>3, <1>5 DEF WellFormedPart, Asking
<1>11. q \in Seq(EarlySteps(part))  BY <1>1, <1>4, StagingShape
<1>12. /\ StepsOf(Asking, ParametersOf(part)) \subseteq EarlySteps(part)
       /\ StepsOf(Fillings, ArraysOf(part)) \subseteq EarlySteps(part)
       /\ EarlySteps(part) \subseteq S
  BY <1>2, EarlyStepsTyped DEF EarlySteps
<1>13. p \in Seq(S) /\ q \in Seq(S) /\ r \in Seq(S)
  <2>1. p \in Seq(S)  BY <1>10, <1>12, SeqMonotonic
  <2>2. r \in Seq(S)  BY <1>10, <1>12, SeqMonotonic
  <2>3. q \in Seq(S)  BY <1>11, <1>12, SeqMonotonic
  <2>   QED  BY <2>1, <2>2, <2>3
<1>14. \A kind \in Late \cup {"call"} : Step(kind) \in S
  <2>1. Late \cup {"call"} \subseteq Kinds  BY DEF Late, Kinds
  <2>2. "the call" \in NamesOf(part)  BY DEF NamesOf
  <2>   QED  BY <1>2, <2>1, <2>2 DEF Step, StepsOf
<1>15. x \in S /\ u \in Seq(S) /\ v \in Seq(S) /\ w \in Seq(S)
  <2>1. \A y, z \in S : <<y>> \in Seq(S) /\ <<y, z>> \in Seq(S)  OBVIOUS
  <2>2. PICK c, l, t, k : c = Step("convert") /\ l = Step("release")
                          /\ t = Step("take") /\ k = Step("keep")
    OBVIOUS
  <2>3. c \in S /\ l \in S /\ t \in S /\ k \in S /\ x \in S
    BY <1>9, <1>14, <2>2 DEF Late
  <2>4. << >> \in Seq(S)  BY EmptySeq
  <2>5. u \in {<<c, l>>, <<l, c>>, <<c>>, << >>}  BY <1>6, <2>2 DEF Converting
  <2>6. v \in {<<t>>, << >>} /\ w \in {<<k>>, << >>}  BY <1>7, <1>8, <2>2 DEF Taking
  <2>   QED  BY <2>1, <2>3, <2>4, <2>5, <2>6
<1>16. PICK P \in Nat, Q \in Nat, R \in Nat :
         P = Len(p) /\ Q = Len(q) /\ R = Len(r)
  BY <1>13, LenProperties
<1>17. s = Cat(Cat(Cat(Cat(Cat(Cat(p, q), r), <<x>>), u), v), w)
  BY <1>3, <1>4, <1>5, <1>6, <1>7, <1>8, <1>9 DEF Program, Cat
<1>18. PICK end : end = Cat(Cat(u, v), w)  OBVIOUS
<1>19. PICK c \in Nat : c = P + Q + R + 1  OBVIOUS
<1>20. /\ s \in Seq(S) /\ s[c] = x /\ Ends(s, c, end)
       /\ \A i \in 1 .. P : s[i] = p[i]
       /\ \A i \in 1 .. Q : s[P + i] = q[i]
       /\ \A i \in 1 .. R : s[P + Q + i] = r[i]
  <2>1. s \in Seq(S) /\ Layout(s, p, q, r, x, Cat(Cat(u, v), w))
    <3>1. LET z == Cat(Cat(Cat(Cat(Cat(Cat(p, q), r), <<x>>), u), v), w)
          IN  z \in Seq(S) /\ Layout(z, p, q, r, x, Cat(Cat(u, v), w))
      BY <1>13, <1>15, Assembled
    <3>   QED  BY <1>17, <3>1
  <2>   QED  BY <1>16, <1>18, <1>19, <2>1 DEF Layout
<1>21. end = After(b, a) /\ end \in Unconverted \cup {K, << >>}
  BY <1>6, <1>7, <1>8, <1>18, AfterIsTheEnd DEF Cat
<1>22. Len(end) \in Nat /\ Len(s) = c + Len(end) /\ DOMAIN s = 1 .. Len(s)
  BY <1>20, <1>21, LateElements, LenProperties DEF Ends
<1>23. /\ \A i \in 1 .. P : i \in DOMAIN s
       /\ \A i \in 1 .. Q : P + i \in DOMAIN s
       /\ \A i \in 1 .. R : P + Q + i \in DOMAIN s
  BY <1>19, <1>22
<1>24. /\ \A i \in 1 .. P : p[i] \in StepsOf(Asking, ParametersOf(part))
       /\ \A i \in 1 .. Q : q[i] \in EarlySteps(part)
       /\ \A i \in 1 .. R : r[i] \in StepsOf(Fillings, ArraysOf(part))
  BY <1>10, <1>11, <1>16, ElementOfSeq
<1>25. \A i \in 1 .. P : Rank(p[i].do) = 1 /\ p[i].do # "block"
  <2>1. TAKE i \in 1 .. P
  <2>2. p[i].do \in Asking  BY <1>24 DEF StepsOf
  <2>   QED  BY <2>2, Ranks DEF Asking
<1>26. \A i \in 1 .. R : Rank(r[i].do) = 4 /\ r[i].do # "block"
  <2>1. TAKE i \in 1 .. R
  <2>2. r[i].do \in Fillings  BY <1>24 DEF StepsOf
  <2>   QED  BY <2>2, Ranks DEF Fillings
<1>27. /\ \A i \in 1 .. Q : Rank(q[i].do) \in {2, 3}
       /\ \A i, j \in 1 .. Q :
              i < j => /\ Rank(q[i].do) <= Rank(q[j].do)
                       /\ q[i].do # "block" \/ q[j].do # "block"
  <2>1. /\ \A i \in 1 .. Len(q) : Rank(q[i].do) \in {2, 3}
        /\ \A i, j \in 1 .. Len(q) :
             i < j => /\ Rank(q[i].do) <= Rank(q[j].do)
                      /\ q[i].do # "block" \/ q[j].do # "block"
    BY <1>1, <1>4, StagingShape
  <2>   QED  BY <1>16, <2>1
<1>28. \A i \in 1 .. c - 1 : \/ i \in 1 .. P
                             \/ \E k \in 1 .. Q : i = P + k
                             \/ \E k \in 1 .. R : i = P + Q + k
  <2>1. TAKE i \in 1 .. c - 1
  <2>2. CASE i <= P  BY <2>2
  <2>3. CASE i > P /\ i <= P + Q
    <3>1. i - P \in 1 .. Q /\ i = P + (i - P)  BY <2>3
    <3>   QED  BY <3>1
  <2>4. CASE i > P + Q
    <3>1. PICK k \in Int : k = i - (P + Q)  OBVIOUS
    <3>2. k \in 1 .. R /\ i = P + Q + k  BY <2>4, <1>19, <3>1
    <3>3. \E n \in 1 .. R : i = P + Q + n  BY <3>2, Zenon
    <3>   QED  BY <3>3, Zenon
  <2>   QED  BY <2>2, <2>3, <2>4
<1>a. \A i \in 1 .. c - 1 : i \in 1 .. P => Rank(s[i].do) = 1 /\ s[i].do # "block"
  BY <1>20, <1>25
<1>b. \A i \in 1 .. c - 1 : (\E k \in 1 .. Q : i = P + k) => Rank(s[i].do) \in {2, 3}
  <2>1. TAKE i \in 1 .. c - 1
  <2>2. SUFFICES ASSUME NEW k \in 1 .. Q, i = P + k PROVE Rank(s[i].do) \in {2, 3}
    OBVIOUS
  <2>3. s[i] = q[k]  BY <1>20, <2>2
  <2>   QED  BY <1>27, <2>3
<1>c. \A i \in 1 .. c - 1 : (\E k \in 1 .. R : i = P + Q + k) =>
                             Rank(s[i].do) = 4 /\ s[i].do # "block"
  <2>1. TAKE i \in 1 .. c - 1
  <2>2. SUFFICES ASSUME NEW k \in 1 .. R, i = P + Q + k
                 PROVE  Rank(s[i].do) = 4 /\ s[i].do # "block"
    OBVIOUS
  <2>3. s[i] = r[k]  BY <1>20, <2>2
  <2>   QED  BY <1>26, <2>3
<1>29. Leads(s, c, part)
  <2>1. \A i \in 1 .. c - 1 : s[i] \in EarlySteps(part)
    <3>1. TAKE i \in 1 .. c - 1
    <3>2. CASE i \in 1 .. P
      <4>1. s[i] = p[i]  BY <1>20, <3>2
      <4>   QED  BY <1>12, <1>24, <3>2, <4>1
    <3>3. CASE \E k \in 1 .. Q : i = P + k
      <4>1. PICK k \in 1 .. Q : i = P + k  BY <3>3
      <4>2. s[i] = q[k]  BY <1>20, <4>1
      <4>   QED  BY <1>24, <4>2
    <3>4. CASE \E k \in 1 .. R : i = P + Q + k
      <4>1. PICK k \in 1 .. R : i = P + Q + k  BY <3>4
      <4>2. s[i] = r[k]  BY <1>20, <4>1
      <4>   QED  BY <1>12, <1>24, <4>2
    <3>   QED  BY <1>28, <3>2, <3>3, <3>4
  <2>2. ASSUME NEW i \in 1 .. c - 1, NEW j \in 1 .. c - 1, i < j
        PROVE  /\ Rank(s[i].do) <= Rank(s[j].do)
               /\ s[i].do # "block" \/ s[j].do # "block"
    <3>1. CASE i \in 1 .. P
      <4>1. Rank(s[i].do) = 1 /\ s[i].do # "block"  BY <1>20, <1>25, <3>1
      <4>2. Rank(s[j].do) \in {1, 2, 3, 4}
        BY <1>a, <1>b, <1>c, <1>28
      <4>   QED  BY <4>1, <4>2
    <3>2. CASE \E k \in 1 .. Q : i = P + k
      <4>1. PICK k \in 1 .. Q : i = P + k  BY <3>2
      <4>2. s[i] = q[k] /\ Rank(s[i].do) \in {2, 3}  BY <1>20, <1>27, <4>1
      <4>3. CASE \E n \in 1 .. Q : j = P + n
        <5>1. PICK n \in 1 .. Q : j = P + n  BY <4>3
        <5>2. s[j] = q[n] /\ k < n  BY <1>20, <2>2, <4>1, <5>1
        <5>   QED  BY <4>2, <5>2, <1>27
      <4>4. CASE \E n \in 1 .. R : j = P + Q + n
        <5>1. Rank(s[j].do) = 4 /\ s[j].do # "block"  BY <1>c, <4>4
        <5>   QED  BY <4>2, <5>1
      <4>5. j \notin 1 .. P  BY <2>2, <4>1
      <4>   QED  BY <4>3, <4>4, <4>5, <1>28
    <3>3. CASE \E k \in 1 .. R : i = P + Q + k
      <4>1. PICK k \in 1 .. R : i = P + Q + k  BY <3>3
      <4>2. Rank(s[i].do) = 4 /\ s[i].do # "block"  BY <1>c, <4>1
      <4>3. j \notin 1 .. P /\ \A n \in 1 .. Q : j # P + n  BY <2>2, <4>1
      <4>4. Rank(s[j].do) = 4  BY <1>c, <1>28, <4>3
      <4>   QED  BY <4>2, <4>4
    <3>   QED  BY <1>28, <3>1, <3>2, <3>3
  <2>   QED  BY <2>1, <2>2 DEF Leads
<1>30. BeforeCall(s, b, a)
  <2>1. c \in 1 .. Len(s)  BY <1>19, <1>22
  <2>   QED  BY <1>9, <1>20, <1>21, <1>29, <2>1 DEF BeforeCall
<1>31. \A i \in DOMAIN part.pre : Holds(s, part.pre[i])
  <2>1. DOMAIN p = 1 .. P  BY <1>13, <1>16, LenProperties
  <2>   QED  BY <1>3, <1>20, <1>23, <2>1 DEF Holds
<1>32. \A i \in DOMAIN Filling(part) : Holds(s, Filling(part)[i])
  <2>1. DOMAIN r = 1 .. R  BY <1>13, <1>16, LenProperties
  <2>   QED  BY <1>5, <1>20, <1>23, <2>1 DEF Holds
<1>33. \A y : Q >= 1 /\ q[1] = y => Holds(s, y)
  <2>1. ASSUME Q >= 1 PROVE P + 1 \in DOMAIN s /\ s[P + 1] = q[1]
    <3>1. 1 \in 1 .. Q  BY <2>1
    <3>   QED  BY <1>20, <1>23, <3>1
  <2>   QED  BY <2>1 DEF Holds
<1>34. /\ part.block => Q >= 1 /\ q[1] = Step("block")
       /\ ~part.block /\ part.arrays # << >> => Q >= 1 /\ q[1] = Step("null")
  <2>1. /\ part.block => Len(q) = 1 /\ q[1] = Step("block")
        /\ ~part.block /\ part.arrays # << >> => Len(q) >= 1 /\ q[1] = Step("null")
    BY <1>1, <1>4, StagingShape
  <2>   QED  BY <1>16, <2>1
<1>   QED  BY <1>2, <1>20, <1>30, <1>31, <1>32, <1>33, <1>34

-----------------------------------------------------------------------------
(***************************************************************************)
(* What the next step says of those that follow it.                        *)
(***************************************************************************)
LEMMA Dropping ==
  ASSUME NEW S, NEW s \in Seq(S), s # << >>
  PROVE  /\ \A kinds : /\ Pending(Tail(s), kinds) => Pending(s, kinds)
                       /\ Pending(s, kinds) =>
                            Head(s).do \in kinds \/ Pending(Tail(s), kinds)
                       /\ Head(s).do \in kinds => Pending(s, kinds)
         /\ \A x : Holds(s, x) => x = Head(s) \/ Holds(Tail(s), x)
<1>1. PICK n \in Nat : n = Len(s) /\ n >= 1 /\ DOMAIN s = 1 .. n /\ Head(s) = s[1]
                       /\ DOMAIN Tail(s) = 1 .. n - 1
                       /\ \A i \in 1 .. n - 1 : Tail(s)[i] = s[i + 1]
  BY TailElements, LenProperties
<1>2. \A i \in DOMAIN s : i = 1 \/ \E j \in DOMAIN Tail(s) : s[i] = Tail(s)[j]
  <2>1. TAKE i \in DOMAIN s
  <2>2. ASSUME i # 1 PROVE i - 1 \in 1 .. n - 1 /\ (i - 1) + 1 = i
    BY <1>1, <2>2
  <2>   QED  BY <1>1, <2>2
<1>3. \A j \in DOMAIN Tail(s) : \E i \in DOMAIN s : s[i] = Tail(s)[j]
  <2>1. \A j \in 1 .. n - 1 : j + 1 \in 1 .. n  BY <1>1
  <2>   QED  BY <1>1, <2>1
<1>4. 1 \in DOMAIN s  BY <1>1
<1>5. Head(s) = s[1]  BY <1>1
<1>6. \A kinds : Pending(Tail(s), kinds) => Pending(s, kinds)
  BY <1>3 DEF Pending
<1>7. \A kinds : Pending(s, kinds) => Head(s).do \in kinds \/ Pending(Tail(s), kinds)
  BY <1>2, <1>5 DEF Pending
<1>8. \A kinds : Head(s).do \in kinds => Pending(s, kinds)
  BY <1>4, <1>5 DEF Pending
<1>9. \A x : Holds(s, x) => x = Head(s) \/ Holds(Tail(s), x)
  BY <1>2, <1>5 DEF Holds
<1>   QED  BY <1>6, <1>7, <1>8, <1>9

\* A step a sequence holds is still to come.
LEMMA HeldIsPending ==
  ASSUME NEW s, NEW x, Holds(s, x), NEW kinds, x.do \in kinds
  PROVE  Pending(s, kinds)
  BY DEF Holds, Pending

\* What is known of a step before the call, by its kind.
LEMMA EarlyStep ==
  ASSUME NEW part, NEW x \in EarlySteps(part)
  PROVE  /\ x.do \in Asking => x \in StepsOf(Asking, ParametersOf(part))
         /\ x.do = "block" => part.block
         /\ x.do = "null" => ~part.block
         /\ x.do \in Staged =>
              ~part.block /\ part.arrays # << >> /\ x.of \in ArraysOf(part)
         /\ x.do \in Fillings => part.arrays # << >> /\ x \in StepsOf(Fillings, ArraysOf(part))
<1> USE DEF Asking, Staged, Fillings
<1>1. CASE x \in StepsOf(Asking, ParametersOf(part))
  BY <1>1 DEF StepsOf
<1>2. CASE part.block /\ x = Step("block")
  BY <1>2, StepKind
<1>3. CASE ~part.block /\ part.arrays # << >> /\ x = Step("null")
  BY <1>3, StepKind
<1>4. CASE ~part.block /\ part.arrays # << >> /\ x \in StepsOf(Staged, ArraysOf(part))
  BY <1>4 DEF StepsOf
<1>5. CASE x \in StepsOf(Fillings, ArraysOf(part))
  <2>1. part.arrays # << >>
    <3>1. x.of \in ArraysOf(part)  BY <1>5 DEF StepsOf
    <3>   QED  BY <3>1, EmptySeq DEF ArraysOf
  <2>   QED  BY <1>5, <2>1 DEF StepsOf
<1>   QED  BY <1>1, <1>2, <1>3, <1>4, <1>5 DEF EarlySteps

\* The next step of a sequence that has not come to its call.
LEMMA NextStep ==
  ASSUME NEW S, NEW s \in Seq(S), NEW b, NEW a, BeforeCall(s, b, a),
         After(b, a) \in Unconverted \cup {K, << >>}, NEW part, part = PartOf(b, a)
  PROVE  /\ s # << >> /\ Head(s).do \in Early \cup {"call"}
         /\ Head(s).do # "call" =>
              Head(s) \in EarlySteps(part) /\ BeforeCall(Tail(s), b, a)
         /\ Head(s).do \notin Asking => ~Pending(s, Asking)
         /\ Head(s).do \in Staged \cup Fillings \cup {"call"} =>
              ~Pending(s, {"block"}) /\ ~Pending(s, {"null"})
         /\ Head(s).do = "block" => ~Pending(Tail(s), {"block"})
         /\ Head(s).do = "call" => Tail(s) = After(b, a) /\ ~Pending(s, Early)
<1>1. /\ s # << >>
      /\ Head(s).do = "call" => Tail(s) = After(b, a)
      /\ Head(s).do # "call" =>
           /\ Head(s) \in EarlySteps(part)
           /\ BeforeCall(Tail(s), b, a)
           /\ \A i \in DOMAIN Tail(s) :
                /\ Rank(Head(s).do) <= Rank(Tail(s)[i].do)
                /\ Head(s).do # "block" \/ Tail(s)[i].do # "block"
  BY HeadOfArm
<1>2. Head(s).do \in Early \cup {"call"}  BY <1>1, EarlyKinds
<1>3. \A kinds : Pending(s, kinds) => Head(s).do \in kinds \/ Pending(Tail(s), kinds)
  BY <1>1, Dropping
<1>4. ASSUME Head(s).do = "call" PROVE ~Pending(s, Early)
  <2>1. Tail(s) \in Unconverted \cup {K, << >>}  BY <1>1, <1>4
  <2>2. \A i \in 1 .. Len(Tail(s)) : Tail(s)[i].do \in Late
    BY <2>1, LateElements
  <2>3. DOMAIN Tail(s) = 1 .. Len(Tail(s))
    BY <1>1, TailElements, LenProperties
  <2>4. Late \cap Early = {} /\ "call" \notin Early
    BY DEF Late, Early, Asking, Opening, Staged, Fillings
  <2>5. ~Pending(Tail(s), Early)  BY <2>2, <2>3, <2>4 DEF Pending
  <2>   QED  BY <1>3, <1>4, <2>4, <2>5
<1>5. ASSUME Head(s).do = "call", NEW kinds \in SUBSET Early PROVE ~Pending(s, kinds)
  BY <1>4, <1>5 DEF Pending
<1>6. ASSUME NEW kinds, Head(s).do # "call", Head(s).do \notin kinds,
             \A kind \in kinds : ~(Rank(Head(s).do) <= Rank(kind))
      PROVE  ~Pending(s, kinds)
  <2>1. ~Pending(Tail(s), kinds)  BY <1>1, <1>6 DEF Pending
  <2>   QED  BY <1>3, <1>6, <2>1
<1>7. /\ Head(s).do \in Opening => Rank(Head(s).do) = 2
      /\ Head(s).do \in Staged => Rank(Head(s).do) = 3
      /\ Head(s).do \in Fillings => Rank(Head(s).do) = 4
  BY Ranks
<1>8. /\ \A kind \in Asking : Rank(kind) = 1
      /\ \A kind \in {"block"} : Rank(kind) = 2
      /\ \A kind \in {"null"} : Rank(kind) = 2
  BY Ranks DEF Opening
<1>9. Head(s).do = "block" => ~Pending(Tail(s), {"block"})
  BY <1>1 DEF Pending
<1>10. Head(s).do \notin Asking => ~Pending(s, Asking)
  <2>1. Asking \subseteq Early  BY DEF Early
  <2>2. ASSUME Head(s).do \in Opening \cup Staged \cup Fillings PROVE ~Pending(s, Asking)
    <3>1. \A kind \in Asking : ~(Rank(Head(s).do) <= Rank(kind))
      BY <1>7, <1>8, <2>2
    <3>2. Head(s).do # "call" /\ Head(s).do \notin Asking
      BY <2>2 DEF Opening, Staged, Fillings, Asking
    <3>   QED  BY <1>6, <3>1, <3>2
  <2>   QED  BY <1>2, <1>5, <2>1, <2>2 DEF Early
<1>11. ASSUME Head(s).do \in Staged \cup Fillings
       PROVE  ~Pending(s, {"block"}) /\ ~Pending(s, {"null"})
  <2>1. /\ \A kind \in {"block"} : ~(Rank(Head(s).do) <= Rank(kind))
        /\ \A kind \in {"null"} : ~(Rank(Head(s).do) <= Rank(kind))
    BY <1>7, <1>8, <1>11
  <2>2. Head(s).do # "call" /\ Head(s).do \notin {"block"} /\ Head(s).do \notin {"null"}
    BY <1>11 DEF Staged, Fillings
  <2>   QED  BY <1>6, <2>1, <2>2
<1>12. {"block"} \subseteq Early /\ {"null"} \subseteq Early  BY DEF Early, Opening
<1>   QED  BY <1>1, <1>2, <1>4, <1>5, <1>9, <1>10, <1>11, <1>12

-----------------------------------------------------------------------------
(***************************************************************************)
(* Where a body is when it is at a step.                                   *)
(***************************************************************************)
LEMMA BodyRuns ==
  ASSUME BodyInv, pc # "idle"
  PROVE  /\ body \in Table /\ WellFormed(body) /\ WellFormedPart(Part)
         /\ Part = PartOf(body, arm) /\ Part \in {body.native, body.fallback}
         /\ Part.block => body.changes = {} /\ body.completes = "no"
         /\ After(body, arm) \in Unconverted \cup {K, << >>}
         /\ After(body, arm) \in Left(body, arm)
         /\ todo \in Seq(StepsOf(Kinds, NamesOf(Part)))
<1>1. body \in Table  BY DEF BodyInv, Running
<1>2. WellFormed(body)  BY <1>1, TableAssumption
<1>3. Part = PartOf(body, arm) /\ Part \in {body.native, body.fallback}
  BY DEF Part, PartOf
<1>4. WellFormedPart(Part) /\ (Part.block => body.changes = {} /\ body.completes = "no")
  BY <1>2, <1>3 DEF WellFormed
<1>5. /\ After(body, arm) \in Unconverted \cup {K, << >>}
      /\ After(body, arm) \in Left(body, arm)
  BY <1>2, <1>3, AfterIsTheEnd
<1>6. todo \in Seq(StepsOf(Kinds, NamesOf(Part)))
  BY <1>3 DEF BodyInv, TypeOK
<1>   QED  BY <1>1, <1>2, <1>3, <1>4, <1>5, <1>6

\* What is left after the call is one of the late sequences.
LEMMA LeftIsLate ==
  ASSUME NEW b, NEW a
  PROVE  Left(b, a) \subseteq Unconverted \cup Unreleased \cup Untaken \cup {K, << >>}
<1>1. {CRT, RT, T, RCT, CT, CTK, TK, K, << >>}
        \subseteq Unconverted \cup Unreleased \cup Untaken \cup {K, << >>}
  BY DEF Unconverted, Unreleased, Untaken
<1>   QED  BY <1>1 DEF Left, After

\* Where an early step, or the call, is taken.
LEMMA AtEarly ==
  ASSUME BodyInv, NEW kind \in Early \cup {"call"}, At(kind)
  PROVE  /\ ierror = "none" /\ Preparing /\ BeforeCall(todo, body, arm)
         /\ arm # "stub" /\ body.calls # "nothing"
         /\ pc = "body" /\ todo # << >> /\ Head(todo).do = kind
<1>1. pc = "body" /\ todo # << >> /\ Head(todo).do = kind  BY DEF At
<1>2. kind \notin Late \cup {"unsupported"}
  BY DEF Early, Late, Asking, Opening, Staged, Fillings
<1>3. ierror = "none"
  <2>1. SUFFICES ASSUME ierror # "none" PROVE FALSE  OBVIOUS
  <2>2. todo \in Left(body, arm)  BY <1>1, <2>1 DEF BodyInv, Called
  <2>3. Len(todo) \in Nat /\ \A i \in 1 .. Len(todo) : todo[i].do \in Late
    BY <2>2, LeftIsLate, LateElements
  <2>4. Len(todo) >= 1 /\ Head(todo) = todo[1]
    BY <1>1, BodyRuns, TailElements
  <2>5. 1 \in 1 .. Len(todo)  BY <2>3, <2>4
  <2>   QED  BY <1>1, <1>2, <2>3, <2>4, <2>5
<1>4. todo # <<Step("unsupported")>>
  <2>1. \A x : Head(<<x>>) = x  OBVIOUS
  <2>2. Head(<<Step("unsupported")>>) = Step("unsupported")  BY <2>1
  <2>3. Head(<<Step("unsupported")>>).do = "unsupported"  BY <2>2, StepKind
  <2>   QED  BY <1>1, <1>2, <2>3
<1>5. arm # "stub" /\ body.calls # "nothing" /\ BeforeCall(todo, body, arm)
  BY <1>1, <1>3, <1>4 DEF BodyInv, NotCalled
<1>   QED  BY <1>1, <1>3, <1>5 DEF Preparing

\* Where a late step is taken.
LEMMA AtLate ==
  ASSUME BodyInv, NEW kind \in Late, At(kind)
  PROVE  /\ ierror # "none" /\ todo \in Left(body, arm)
         /\ arm # "stub" /\ body.calls # "nothing"
         /\ pc = "body" /\ todo # << >> /\ Head(todo).do = kind
<1>1. pc = "body" /\ todo # << >> /\ Head(todo).do = kind  BY DEF At
<1>2. kind \notin Early \cup {"call", "unsupported"}
  BY DEF Early, Late, Asking, Opening, Staged, Fillings
<1>3. todo # <<Step("unsupported")>>
  <2>1. \A x : Head(<<x>>) = x  OBVIOUS
  <2>2. Head(<<Step("unsupported")>>) = Step("unsupported")  BY <2>1
  <2>3. Head(<<Step("unsupported")>>).do = "unsupported"  BY <2>2, StepKind
  <2>   QED  BY <1>1, <1>2, <2>3
<1>4. ~BeforeCall(todo, body, arm)
  <2>1. SUFFICES ASSUME BeforeCall(todo, body, arm) PROVE FALSE  OBVIOUS
  <2>2. Head(todo).do \in Early \cup {"call"}
    BY <1>1, <2>1, BodyRuns, NextStep
  <2>   QED  BY <1>1, <1>2, <2>2
<1>5. ierror # "none"  BY <1>1, <1>3, <1>4 DEF BodyInv, NotCalled
<1>   QED  BY <1>1, <1>5 DEF BodyInv, Called

-----------------------------------------------------------------------------
(***************************************************************************)
(* A step before the call that does what it is there for.                  *)
(***************************************************************************)
Advances(kind) ==
  /\ At(kind) /\ Go
  /\ UNCHANGED <<body, arm, withheld, ierror, completed, changed, answer,
                 flag, op, kept>>
  /\ size' = IF kind = "extent" THEN Extent ELSE size
  /\ passed' = IF kind \in {"narrow", "counts"} THEN passed \cup {It} ELSE passed
  /\ \/ read' = read
     \/ kind \in Fillings /\ size = "some" /\ read' = read \cup {It}
  /\ temps' = temps \/ (kind \in Staged /\ temps' = temps \cup {It})
  /\ block' = IF kind = "block" THEN "live" ELSE block
  /\ out' = IF kind = "null" THEN [o \in DOMAIN out |-> "null"] ELSE out

\* An early step that goes on keeps the types.
LEMMA AdvancingIsTyped ==
  ASSUME BodyInv, NEW kind \in Early, Advances(kind)
  PROVE  TypeOK' /\ pc' = "body" /\ todo' = Tail(todo) /\ Part' = Part
<1>1. pc = "body" /\ todo # << >> /\ Head(todo).do = kind  BY DEF Advances, At
<1>2. pc' = "body" /\ todo' = Tail(todo)  BY <1>1 DEF Advances, Go
<1>3. Part' = Part  BY DEF Advances, Part
<1>4. todo' \in Seq(StepsOf(Kinds, NamesOf(PartOf(body', arm'))))
  BY <1>1, <1>2, <1>3, BodyRuns, TailElements DEF Part
<1>5. temps' \subseteq ArraysOf(PartOf(body', arm'))
  <2>1. temps \subseteq ArraysOf(Part)  BY <1>1 DEF BodyInv, TypeOK, Part
  <2>2. ASSUME kind \in Staged PROVE It \in ArraysOf(Part)
    <3>1. kind # "call"  BY <2>2 DEF Staged
    <3>2. Head(todo) \in EarlySteps(Part)
      BY <1>1, <3>1, BodyRuns, AtEarly, NextStep DEF Advances
    <3>   QED  BY <1>1, <2>2, <3>2, EarlyStep DEF It
  <2>3. temps' \subseteq ArraysOf(Part)  BY <2>1, <2>2 DEF Advances
  <2>   QED  BY <2>3, <1>3 DEF Part
<1>6. size' \in {"none", "some"}
  BY DEF BodyInv, TypeOK, Advances, Extent
<1>7. DOMAIN out' = body'.outs /\ \A o \in DOMAIN out' : out'[o] \in {"unset", "null", "handle"}
  BY <1>1 DEF BodyInv, TypeOK, Advances
<1>8. block' \in {"none", "live", "freed", "kept", "leaked", "freed again"}
  BY DEF BodyInv, TypeOK, Advances
<1>9. arm' \in ArmsOf(body')
  BY <1>1 DEF BodyInv, TypeOK, Advances
<1>10. /\ withheld' \in {"nothing", "in place", "not root"}
       /\ ierror' \in {"none", "success", "error"}
       /\ completed' \in BOOLEAN /\ changed' \in BOOLEAN /\ kept' \in BOOLEAN
       /\ answer' \in {"none", "success", "error", "intern", "unsupported",
                     "value too large", "bad argument"}
       /\ flag' \in {"clear", "conversion", "callback"}
       /\ op' \in {"none", "in flight"}
  <2>1. /\ withheld' = withheld /\ ierror' = ierror /\ answer' = answer
        /\ completed' = completed /\ changed' = changed /\ kept' = kept
        /\ flag' = flag /\ op' = op
    BY DEF Advances
  <2>2. TypeOK  BY DEF BodyInv
  <2>3. /\ withheld' \in {"nothing", "in place", "not root"}
        /\ ierror' \in {"none", "success", "error"}
        /\ answer' \in {"none", "success", "error", "intern", "unsupported",
                       "value too large", "bad argument"}
    BY <2>1, <2>2 DEF TypeOK
  <2>4. completed' \in BOOLEAN /\ changed' \in BOOLEAN /\ kept' \in BOOLEAN
    BY <2>1, <2>2 DEF TypeOK
  <2>5. flag' \in {"clear", "conversion", "callback"} /\ op' \in {"none", "in flight"}
    BY <2>1, <2>2 DEF TypeOK
  <2>   QED  BY <2>3, <2>4, <2>5
<1>11. TypeOK'
  BY <1>2, <1>4, <1>5, <1>6, <1>7, <1>8, <1>9, <1>10 DEF TypeOK
<1>   QED  BY <1>2, <1>3, <1>11

\* An early step that goes on keeps the invariant.
LEMMA Advancing ==
  ASSUME BodyInv, NEW kind \in Early, Advances(kind)
  PROVE  BodyInv'
<1>1. /\ ierror = "none" /\ Preparing /\ BeforeCall(todo, body, arm)
      /\ arm # "stub" /\ body.calls # "nothing"
      /\ pc = "body" /\ todo # << >> /\ Head(todo).do = kind
  BY AtEarly DEF Advances
<1>2. TypeOK' /\ pc' = "body" /\ todo' = Tail(todo) /\ Part' = Part
  BY AdvancingIsTyped
<1>3. ierror' = "none" /\ body' = body /\ arm' = arm /\ withheld' = withheld
  BY <1>1 DEF Advances
<1>4. /\ body \in Table /\ Part = PartOf(body, arm)
      /\ todo \in Seq(StepsOf(Kinds, NamesOf(Part)))
      /\ After(body, arm) \in Unconverted \cup {K, << >>}
  BY <1>1, BodyRuns
<1>5. kind # "call"  BY DEF Early, Asking, Opening, Staged, Fillings
<1>6. /\ Head(todo) \in EarlySteps(Part) /\ BeforeCall(Tail(todo), body, arm)
      /\ kind \notin Asking => ~Pending(todo, Asking)
      /\ kind \in Staged \cup Fillings =>
           ~Pending(todo, {"block"}) /\ ~Pending(todo, {"null"})
      /\ kind = "block" => ~Pending(Tail(todo), {"block"})
  BY <1>1, <1>4, <1>5, NextStep
<1>7. /\ kind = "block" => Part.block
      /\ kind = "null" => ~Part.block
      /\ kind \in Staged => ~Part.block
  BY <1>1, <1>6, EarlyStep
<1>8. /\ \A kinds : /\ Pending(Tail(todo), kinds) => Pending(todo, kinds)
                    /\ Pending(todo, kinds) =>
                         kind \in kinds \/ Pending(Tail(todo), kinds)
                    /\ kind \in kinds => Pending(todo, kinds)
      /\ \A x : Holds(todo, x) => x = Head(todo) \/ Holds(Tail(todo), x)
  BY <1>1, <1>4, Dropping
<1>9. withheld = "not root" => read' = {}
  <2>1. SUFFICES ASSUME withheld = "not root", kind \in Fillings, size = "some"
                 PROVE  FALSE
    BY <1>1 DEF BodyInv, Running, Advances
  <2>2. Holds(todo, [do |-> "extent", of |-> "root_extent"])
    BY <1>1, <2>1 DEF BodyInv, RootIsAsked
  <2>3. Pending(todo, Asking)  BY <2>2, HeldIsPending DEF Asking
  <2>4. kind \notin Asking  BY <2>1 DEF Fillings, Asking
  <2>   QED  BY <1>6, <2>3, <2>4
<1>10. AtRest' /\ Called' /\ Settled'  BY <1>2, <1>3 DEF AtRest, Called, Settled
<1>11. Running'
  BY <1>2, <1>3, <1>4, <1>9, <1>1 DEF BodyInv, Running
<1>12. NotCalled'
  <2>1. /\ ~changed' /\ NoOperationEnds' /\ flag' # "conversion" /\ answer' = "none"
        /\ \A o \in DOMAIN out' : out'[o] # "handle"
    BY <1>1 DEF BodyInv, NotCalled, NoOperationEnds, Advances
  <2>2. BeforeCall(todo', body', arm')  BY <1>2, <1>3, <1>6
  <2>   QED  BY <2>1, <2>2, <1>1, <1>3 DEF NotCalled
<1>13. BeforeStaging'
  <2>1. SUFFICES ASSUME Pending(Tail(todo), Asking) PROVE Untouched'
    BY <1>2 DEF BeforeStaging
  <2>2. kind \in Asking /\ Untouched  BY <1>1, <1>6, <1>8, <2>1 DEF BodyInv, BeforeStaging
  <2>3. kind \notin Staged /\ kind \notin Fillings /\ kind # "block"
    BY <2>2 DEF Asking, Staged, Fillings
  <2>   QED  BY <2>2, <2>3 DEF Untouched, Advances
<1>14. InBlock'
  <2>1. SUFFICES ASSUME Part.block
                 PROVE  /\ temps' = {}
                        /\ block' = (IF Pending(Tail(todo), {"block"}) THEN "none" ELSE "live")
    BY <1>2 DEF InBlock
  <2>2. temps = {} /\ block = (IF Pending(todo, {"block"}) THEN "none" ELSE "live")
    BY <1>1, <2>1 DEF BodyInv, InBlock
  <2>3. temps' = {}  BY <1>7, <2>1, <2>2 DEF Advances
  <2>4. CASE kind = "block"  BY <1>6, <2>3, <2>4 DEF Advances
  <2>5. CASE kind # "block"
    <3>1. Pending(todo, {"block"}) <=> Pending(Tail(todo), {"block"})
      BY <1>8, <2>5
    <3>2. block' = block  BY <2>5 DEF Advances
    <3>   QED  BY <2>2, <2>3, <3>1, <3>2
  <2>   QED  BY <2>4, <2>5
<1>15. InTemporaries'
  <2>1. SUFFICES ASSUME ~Part.block
                 PROVE  /\ block' = "none"
                        /\ Part.arrays = << >> \/ Pending(Tail(todo), {"null"}) \/ AllNull'
    BY <1>2 DEF InTemporaries
  <2>2. block = "none" /\ (Part.arrays = << >> \/ Pending(todo, {"null"}) \/ AllNull)
    BY <1>1, <2>1 DEF BodyInv, InTemporaries
  <2>3. block' = "none"  BY <1>7, <2>1, <2>2 DEF Advances
  <2>4. CASE kind = "null"
    <3>1. out' = [o \in DOMAIN out |-> "null"]  BY <2>4 DEF Advances
    <3>   QED  BY <2>3, <3>1 DEF AllNull
  <2>5. CASE kind # "null"
    <3>1. Pending(todo, {"null"}) => Pending(Tail(todo), {"null"})
      BY <1>8, <2>5
    <3>2. out' = out  BY <2>5 DEF Advances
    <3>   QED  BY <2>2, <2>3, <3>1, <3>2 DEF AllNull
  <2>   QED  BY <2>4, <2>5
<1>16. WideIsChecked'
  <2>1. SUFFICES ASSUME arm = "fallback", NEW w \in body.wide
                 PROVE  \/ w \in passed'
                        \/ Holds(Tail(todo), [do |-> "narrow", of |-> w])
                        \/ Holds(Tail(todo), [do |-> "counts", of |-> w])
    BY <1>2, <1>3 DEF WideIsChecked
  <2>2. \/ w \in passed
        \/ Holds(todo, [do |-> "narrow", of |-> w])
        \/ Holds(todo, [do |-> "counts", of |-> w])
    BY <1>1, <2>1 DEF BodyInv, WideIsChecked
  <2>3. passed \subseteq passed' /\ (kind \in {"narrow", "counts"} => It \in passed')
    BY DEF Advances
  <2>4. ASSUME NEW k \in {"narrow", "counts"}, Head(todo) = [do |-> k, of |-> w]
        PROVE  w \in passed'
    <3>1. kind = k /\ It = w  BY <1>1, <2>4 DEF It
    <3>   QED  BY <2>3, <3>1
  <2>   QED  BY <1>8, <2>2, <2>3, <2>4
<1>17. RootIsAsked'
  <2> DEFINE x == [do |-> "extent", of |-> "root_extent"]
  <2>1. SUFFICES ASSUME withheld = "not root"
                 PROVE  size' = "none" \/ Holds(Tail(todo), x)
    BY <1>2, <1>3 DEF RootIsAsked
  <2>2. size = "none" \/ Holds(todo, x)  BY <1>1, <2>1 DEF BodyInv, RootIsAsked
  <2>3. size = "none" => size' = "none"  BY DEF Advances, Extent
  <2>4. ASSUME Head(todo) = x PROVE size' = "none"
    <3>1. kind = "extent" /\ It = "root_extent"  BY <1>1, <2>4 DEF It
    <3>   QED  BY <2>1, <3>1 DEF Advances, Extent
  <2>   QED  BY <1>8, <2>2, <2>3, <2>4
<1>   QED  BY <1>2, <1>10, <1>11, <1>12, <1>13, <1>14, <1>15, <1>16, <1>17 DEF BodyInv

-----------------------------------------------------------------------------
(***************************************************************************)
(* A step before the call that fails.                                      *)
(***************************************************************************)
LEMMA Stopping ==
  ASSUME BodyInv, pc # "idle", pc' \in {"done", "returned"},
         UNCHANGED <<body, arm, withheld>>, TypeOK', Settled',
         withheld = "not root" => read' = {}
  PROVE  BodyInv'
<1>1. AtRest' /\ NotCalled' /\ Called' /\ ~Preparing'
  BY DEF AtRest, NotCalled, Called, Preparing
<1>2. BeforeStaging' /\ InBlock' /\ InTemporaries' /\ WideIsChecked' /\ RootIsAsked'
  BY <1>1 DEF BeforeStaging, InBlock, InTemporaries, WideIsChecked, RootIsAsked
<1>3. Running'  BY DEF BodyInv, Running
<1>   QED  BY <1>1, <1>2, <1>3 DEF BodyInv

Fails(kind) ==
  /\ At(kind)
  /\ answer' \in {"value too large", "bad argument", "error", "intern"}
  /\ UNCHANGED <<body, arm, todo, size, withheld, temps, passed, ierror,
                 completed, changed, flag, op, kept>>
  /\ \/ read' = read
     \/ kind \in Fillings /\ size = "some" /\ read' = read \cup {It}
  /\ \/ /\ kind \in Asking \cup {"block"}
        /\ pc' = "returned" /\ block' = block
        /\ out' = [o \in DOMAIN out |-> "null"]
     \/ /\ kind \in Fillings /\ Part.block
        /\ pc' = "returned" /\ FreeBlock
        /\ out' = [o \in DOMAIN out |-> "null"]
     \/ /\ kind \in Staged \cup Fillings /\ ~Part.block
        /\ pc' = "done" /\ block' = block
        /\ out' = out

\* An early step that fails keeps the types.
LEMMA FailingIsTyped ==
  ASSUME BodyInv, NEW kind \in Early, Fails(kind)
  PROVE  TypeOK'
<1>1. pc = "body"  BY DEF Fails, At
<1>2. pc' \in {"done", "returned"}  BY DEF Fails
<1>3. block' \in {"none", "live", "freed", "kept", "leaked", "freed again"}
  BY DEF BodyInv, TypeOK, Fails, FreeBlock
<1>4. DOMAIN out' = body'.outs /\ \A o \in DOMAIN out' : out'[o] \in {"unset", "null", "handle"}
  BY <1>1 DEF BodyInv, TypeOK, Fails
<1>5. todo' \in Seq(StepsOf(Kinds, NamesOf(PartOf(body', arm'))))
  BY <1>1 DEF BodyInv, TypeOK, Fails
<1>6. temps' \subseteq ArraysOf(PartOf(body', arm')) /\ arm' \in ArmsOf(body')
  BY <1>1 DEF BodyInv, TypeOK, Fails
<1>7. /\ size' \in {"none", "some"}
      /\ withheld' \in {"nothing", "in place", "not root"}
      /\ ierror' \in {"none", "success", "error"}
      /\ completed' \in BOOLEAN /\ changed' \in BOOLEAN /\ kept' \in BOOLEAN
      /\ answer' \in {"none", "success", "error", "intern", "unsupported",
                    "value too large", "bad argument"}
      /\ flag' \in {"clear", "conversion", "callback"}
      /\ op' \in {"none", "in flight"}
  <2>1. /\ size' = size /\ withheld' = withheld /\ ierror' = ierror
        /\ completed' = completed /\ changed' = changed /\ kept' = kept
        /\ flag' = flag /\ op' = op
        /\ answer' \in {"value too large", "bad argument", "error", "intern"}
    BY DEF Fails
  <2>2. TypeOK  BY DEF BodyInv
  <2>3. /\ size' \in {"none", "some"}
        /\ withheld' \in {"nothing", "in place", "not root"}
        /\ ierror' \in {"none", "success", "error"}
    BY <2>1, <2>2 DEF TypeOK
  <2>4. completed' \in BOOLEAN /\ changed' \in BOOLEAN /\ kept' \in BOOLEAN
    BY <2>1, <2>2 DEF TypeOK
  <2>5. flag' \in {"clear", "conversion", "callback"} /\ op' \in {"none", "in flight"}
    BY <2>1, <2>2 DEF TypeOK
  <2>   QED  BY <2>1, <2>3, <2>4, <2>5
<1>   QED  BY <1>2, <1>3, <1>4, <1>5, <1>6, <1>7 DEF TypeOK

\* An early step that fails keeps the invariant.
LEMMA Failing ==
  ASSUME BodyInv, NEW kind \in Early, Fails(kind)
  PROVE  BodyInv'
<1>1. /\ ierror = "none" /\ Preparing /\ BeforeCall(todo, body, arm)
      /\ pc = "body" /\ todo # << >> /\ Head(todo).do = kind
  BY AtEarly DEF Fails
<1>2. /\ body \in Table /\ Part = PartOf(body, arm)
      /\ todo \in Seq(StepsOf(Kinds, NamesOf(Part)))
      /\ After(body, arm) \in Unconverted \cup {K, << >>}
  BY <1>1, BodyRuns
<1>3. kind # "call"  BY DEF Early, Asking, Opening, Staged, Fillings
<1>4. /\ Head(todo) \in EarlySteps(Part)
      /\ kind \notin Asking => ~Pending(todo, Asking)
      /\ kind \in Staged \cup Fillings =>
           ~Pending(todo, {"block"}) /\ ~Pending(todo, {"null"})
  BY <1>1, <1>2, <1>3, NextStep
<1>5. /\ kind = "block" => Part.block
      /\ kind \in Staged \cup Fillings => Part.arrays # << >>
  BY <1>1, <1>4, EarlyStep
<1>6. \A kinds : kind \in kinds => Pending(todo, kinds)
  BY <1>1, <1>2, Dropping
<1>7. withheld = "not root" => read' = {}
  <2>1. SUFFICES ASSUME withheld = "not root", kind \in Fillings, size = "some"
                 PROVE  FALSE
    BY <1>1 DEF BodyInv, Running, Fails
  <2>2. Holds(todo, [do |-> "extent", of |-> "root_extent"])
    BY <1>1, <2>1 DEF BodyInv, RootIsAsked
  <2>3. Pending(todo, Asking)  BY <2>2, HeldIsPending DEF Asking
  <2>4. kind \notin Asking  BY <2>1 DEF Fillings, Asking
  <2>   QED  BY <1>4, <2>3, <2>4
<1>8. /\ ~changed' /\ NoOperationEnds' /\ flag' # "conversion" /\ ierror' = "none"
      /\ body' = body /\ answer' # "success" /\ DOMAIN out' = DOMAIN out
  BY <1>1 DEF BodyInv, NotCalled, NoOperationEnds, Fails
<1>9. ASSUME AllNull', block' \in {"none", "freed"}, pc' = "done" => block' = "none",
             pc' = "returned" => temps' = {}
      PROVE  Settled'
  <2>1. \A o \in DOMAIN out' : out'[o] # "unset"  BY <1>9 DEF AllNull
  <2>   QED  BY <1>8, <1>9, <2>1 DEF Settled, NoOperationEnds
<1>10. ASSUME out' = [o \in DOMAIN out |-> "null"] PROVE AllNull'
  BY <1>10 DEF AllNull
<1>11. Settled'
  <2>1. CASE kind \in Asking
    <3>1. Untouched  BY <1>1, <1>6, <2>1 DEF BodyInv, BeforeStaging
    <3>2. kind \notin Staged \cup Fillings  BY <2>1 DEF Asking, Staged, Fillings
    <3>   QED  BY <1>9, <1>10, <3>1, <3>2 DEF Untouched, Fails
  <2>2. CASE kind = "block"
    <3>1. temps = {} /\ block = "none"
      BY <1>1, <1>5, <1>6, <2>2 DEF BodyInv, InBlock
    <3>2. kind \notin Staged \cup Fillings  BY <2>2 DEF Staged, Fillings
    <3>   QED  BY <1>9, <1>10, <3>1, <3>2 DEF Fails
  <2>3. CASE kind \in Staged \cup Fillings /\ Part.block
    <3>1. temps = {} /\ block = "live"
      BY <1>1, <1>4, <2>3 DEF BodyInv, InBlock
    <3>2. kind \notin Asking \cup {"block"}  BY <2>3 DEF Asking, Staged, Fillings
    <3>   QED  BY <1>9, <1>10, <2>3, <3>1, <3>2 DEF Fails, FreeBlock
  <2>4. CASE kind \in Staged \cup Fillings /\ ~Part.block
    <3>1. block = "none" /\ AllNull
      BY <1>1, <1>4, <1>5, <2>4 DEF BodyInv, InTemporaries
    <3>2. kind \notin Asking \cup {"block"}  BY <2>4 DEF Asking, Staged, Fillings
    <3>3. AllNull'  BY <2>4, <3>1, <3>2 DEF Fails, AllNull
    <3>   QED  BY <1>9, <2>4, <3>1, <3>2, <3>3 DEF Fails
  <2>5. CASE kind = "null"
    <3>1. kind \notin Asking \cup {"block"} \cup Staged \cup Fillings
      BY <2>5 DEF Asking, Staged, Fillings
    <3>   QED  BY <3>1 DEF Fails
  <2>   QED  BY <2>1, <2>2, <2>3, <2>4, <2>5 DEF Early, Opening
<1>12. TypeOK'  BY FailingIsTyped
<1>13. pc # "idle" /\ pc' \in {"done", "returned"} /\ UNCHANGED <<body, arm, withheld>>
  BY <1>1 DEF Fails
<1>   QED  BY <1>7, <1>11, <1>12, <1>13, Stopping

-----------------------------------------------------------------------------
(***************************************************************************)
(* The actions before the call.                                            *)
(***************************************************************************)
LEMMA StepsAreEarly ==
  /\ {"narrow", "check", "extent", "null", "stage", "stage unless ignored",
      "block", "counts", "handles", "send types"} \subseteq Early
  /\ {"narrow", "check", "extent"} \subseteq Asking
  /\ {"stage", "stage unless ignored"} \subseteq Staged
  /\ {"counts", "handles", "send types"} \subseteq Fillings
  BY DEF Early, Asking, Opening, Staged, Fillings

\* A scalar is narrowed, or does not fit.
LEMMA NarrowKeeps == ASSUME BodyInv, Narrow PROVE BodyInv'
<1>1. Advances("narrow") \/ Fails("narrow")
  BY StepsAreEarly DEF Narrow, Advances, Fails, Go, Refuse, Null, inputVars, dataVars,
       callVars, lastVars
<1>   QED  BY <1>1, StepsAreEarly, Advancing, Failing

\* A count is checked.
LEMMA CheckCountKeeps == ASSUME BodyInv, CheckCount PROVE BodyInv'
<1>1. Advances("check") \/ Fails("check")
  BY StepsAreEarly DEF CheckCount, Advances, Fails, Go, Refuse, Null, inputVars, dataVars,
       noteVars, callVars, lastVars
<1>   QED  BY <1>1, StepsAreEarly, Advancing, Failing

\* An extent is asked for.
LEMMA AskExtentKeeps == ASSUME BodyInv, AskExtent PROVE BodyInv'
<1>1. Advances("extent") \/ Fails("extent")
  BY StepsAreEarly DEF AskExtent, Advances, Fails, Go, Refuse, Null, dataVars, noteVars,
       callVars, lastVars
<1>   QED  BY <1>1, StepsAreEarly, Advancing, Failing

\* The temporaries start as null.
LEMMA SetNullKeeps == ASSUME BodyInv, SetNull PROVE BodyInv'
<1>1. Advances("null")
  BY DEF SetNull, Advances, Go, NullAhead, Null, inputVars, dataVars, noteVars,
       callVars, lastVars
<1>   QED  BY <1>1, StepsAreEarly, Advancing

\* A temporary array is on the stack or allocated, or memory is out.
LEMMA StageKeeps == ASSUME BodyInv, Stage PROVE BodyInv'
<1>1. PICK kind \in {"stage", "stage unless ignored"} : At(kind)  BY DEF Stage
<1>2. kind \in Staged /\ kind \in Early  BY <1>1, StepsAreEarly
<1>3. ~Part.block
  <2>1. /\ pc = "body" /\ Head(todo).do = kind /\ BeforeCall(todo, body, arm)
    BY <1>1, <1>2, AtEarly
  <2>2. kind # "call"  BY <1>2 DEF Staged
  <2>3. Head(todo) \in EarlySteps(Part)  BY <2>1, <2>2, BodyRuns, NextStep
  <2>   QED  BY <1>2, <2>1, <2>3, EarlyStep
<1>4. Advances(kind) \/ Fails(kind)
  <2>1. kind # "extent" /\ kind \notin {"narrow", "counts"} /\ kind \notin {"block", "null"}
    BY <1>1
  <2>   QED  BY <1>1, <1>2, <1>3, <2>1 DEF Stage, Advances, Fails, Go, GotoDone, inputVars,
       noteVars, callVars, lastVars
<1>   QED  BY <1>2, <1>4, Advancing, Failing

\* The block of all arrays is allocated, or memory is out.
LEMMA AllocBlockKeeps == ASSUME BodyInv, AllocBlock PROVE BodyInv'
<1>1. Advances("block") \/ Fails("block")
  BY DEF AllocBlock, Advances, Fails, Go, Refuse, Null, inputVars, noteVars,
       callVars, lastVars
<1>   QED  BY <1>1, StepsAreEarly, Advancing, Failing

\* An array of counts is filled, or one does not fit.
LEMMA FillCountsKeeps == ASSUME BodyInv, FillCounts PROVE BodyInv'
<1>1. "counts" \in Fillings /\ "counts" \in Early  BY StepsAreEarly
<1>2. read' = read \/ (size = "some" /\ read' = read \cup {It})
  BY DEF FillCounts, Reads
<1>3. Advances("counts") \/ Fails("counts")
  BY <1>1, <1>2 DEF FillCounts, Advances, Fails, Go, Refuse, Null, GotoDone, Misfit,
       Part, inputVars, callVars, lastVars
<1>   QED  BY <1>1, <1>3, Advancing, Failing

\* An array of handles is filled.
LEMMA FillHandlesKeeps == ASSUME BodyInv, FillHandles PROVE BodyInv'
<1>1. "handles" \in Fillings /\ "handles" \in Early  BY StepsAreEarly
<1>2. Advances("handles")
  BY <1>1 DEF FillHandles, Reads, Advances, Go, inputVars, dataVars, callVars,
       outVars, lastVars
<1>   QED  BY <1>1, <1>2, Advancing

\* The send types are filled, unless the call is in place.
LEMMA FillSendTypesKeeps == ASSUME BodyInv, FillSendTypes PROVE BodyInv'
<1>1. "send types" \in Fillings /\ "send types" \in Early  BY StepsAreEarly
<1>2. Advances("send types")
  BY <1>1 DEF FillSendTypes, Reads, Advances, Go, inputVars, dataVars, callVars,
       outVars, lastVars
<1>   QED  BY <1>1, <1>2, Advancing

-----------------------------------------------------------------------------
(***************************************************************************)
(* The call, and what follows it.                                          *)
(***************************************************************************)
LEMMA LateSets ==
  /\ \A s \in {RT, TK, T, K, << >>} : s \notin Unconverted
  /\ \A s \in {CTK, CT, TK, T, K, << >>} : s \notin Unreleased
  /\ \A s \in {CRT, RCT, CTK, CT, K, << >>} : s \notin Untaken
<1> DEFINE c == Step("convert")  r == Step("release")
           t == Step("take")     k == Step("keep")
<1>1. c # r /\ c # t /\ c # k /\ r # t /\ r # k /\ t # k
  <2>1. c.do = "convert" /\ r.do = "release" /\ t.do = "take" /\ k.do = "keep"
    BY StepKind
  <2> HIDE DEF c, r, t, k
  <2>   QED  BY <2>1
<1>2. /\ CRT = <<c, r, t>> /\ RCT = <<r, c, t>> /\ CTK = <<c, t, k>> /\ CT = <<c, t>>
      /\ RT = <<r, t>> /\ TK = <<t, k>> /\ T = <<t>> /\ K = <<k>>
  BY DEF CRT, RCT, CTK, CT, RT, TK, T, K
<1> HIDE DEF c, r, t, k
<1>3. /\ RT # CRT /\ RT # RCT /\ RT # CTK /\ RT # CT
      /\ TK # CRT /\ TK # RCT /\ TK # CTK /\ TK # CT
      /\ T # CRT /\ T # RCT /\ T # CTK /\ T # CT
      /\ K # CRT /\ K # RCT /\ K # CTK /\ K # CT
      /\ << >> # CRT /\ << >> # RCT /\ << >> # CTK /\ << >> # CT
  BY <1>1, <1>2
<1>4. /\ CTK # CRT /\ CTK # RCT /\ CTK # RT
      /\ CT # CRT /\ CT # RCT /\ CT # RT
      /\ TK # RT /\ T # RT /\ K # RT /\ << >> # RT
  BY <1>1, <1>2
<1>5. /\ CRT # TK /\ CRT # T /\ RCT # RT /\ RCT # TK /\ RCT # T
      /\ CTK # TK /\ CTK # T /\ CT # TK /\ CT # T
      /\ K # TK /\ K # T /\ << >> # TK /\ << >> # T /\ CRT # RT
  BY <1>1, <1>2
<1>   QED  BY <1>3, <1>4, <1>5 DEF Unconverted, Unreleased, Untaken

\* Which of the late sequences still convert, release, take.
LEMMA LateMembers ==
  /\ CRT \in Unconverted /\ RCT \in Unconverted /\ CTK \in Unconverted /\ CT \in Unconverted
  /\ CRT \in Unreleased /\ RCT \in Unreleased /\ RT \in Unreleased
  /\ RT \in Untaken /\ TK \in Untaken /\ T \in Untaken
  BY DEF Unconverted, Unreleased, Untaken

\* What is left of an arm at one of its last steps, and after it.
LEMMA LeftAt ==
  ASSUME NEW b, NEW a, NEW s, s \in Left(b, a),
         PartOf(b, a).block => b.completes = "no"
  PROVE  /\ s # << >> /\ Head(s).do = "convert" =>
              /\ \/ s = CRT /\ Tail(s) = RT
                 \/ s = CTK /\ Tail(s) = TK
                 \/ s = CT  /\ Tail(s) = T
              /\ Tail(s) \in Left(b, a)
         /\ s # << >> /\ Head(s).do = "release" =>
              /\ \/ s = RCT /\ Tail(s) = CT /\ b.completes = "array"
                 \/ s = RT  /\ Tail(s) = T  /\ b.completes = "one"
              /\ Tail(s) \in Left(b, a)
         /\ s # << >> /\ Head(s).do = "take" =>
              /\ \/ s = TK /\ Tail(s) = K
                 \/ s = T  /\ Tail(s) = << >>
              /\ Tail(s) \in Left(b, a)
         /\ s # << >> /\ Head(s).do = "keep" => s = K /\ PartOf(b, a).block
         /\ s = << >> => ~PartOf(b, a).block
<1>1. /\ Head(CRT).do = "convert" /\ Tail(CRT) = RT
      /\ Head(RCT).do = "release" /\ Tail(RCT) = CT
      /\ Head(CTK).do = "convert" /\ Tail(CTK) = TK
      /\ Head(CT).do = "convert"  /\ Tail(CT)  = T
      /\ Head(RT).do = "release"  /\ Tail(RT)  = T
      /\ Head(TK).do = "take"     /\ Tail(TK)  = K
      /\ Head(T).do = "take"      /\ Tail(T)   = << >>
      /\ Head(K).do = "keep"
  BY LateTuples, StepKind
<1>2. CASE b.completes = "one"
  <2>1. s \in {CRT, RT, T, << >>} /\ Left(b, a) = {CRT, RT, T, << >>} /\ ~PartOf(b, a).block
    BY <1>2 DEF Left
  <2>   QED  BY <1>1, <1>2, <2>1
<1>3. CASE b.completes = "array"
  <2>1. s \in {RCT, CT, T, << >>} /\ Left(b, a) = {RCT, CT, T, << >>} /\ ~PartOf(b, a).block
    BY <1>3 DEF Left
  <2>   QED  BY <1>1, <1>3, <2>1
<1>4. CASE b.completes \notin {"one", "array"} /\ Converts(b) /\ PartOf(b, a).block
  <2>1. s \in {CTK, TK, K} /\ Left(b, a) = {CTK, TK, K}  BY <1>4 DEF Left
  <2>   QED  BY <1>1, <1>4, <2>1, LateSeqs
<1>5. CASE b.completes \notin {"one", "array"} /\ Converts(b) /\ ~PartOf(b, a).block
  <2>1. s \in {CT, T, << >>} /\ Left(b, a) = {CT, T, << >>}  BY <1>5 DEF Left
  <2>   QED  BY <1>1, <1>5, <2>1
<1>6. CASE b.completes \notin {"one", "array"} /\ ~Converts(b)
  <2>1. s = IF PartOf(b, a).block THEN K ELSE << >>  BY <1>6 DEF Left, After
  <2>   QED  BY <1>1, <1>6, <2>1, LateSeqs
<1>   QED  BY <1>2, <1>3, <1>4, <1>5, <1>6

\* A step after the call that stays in the body.
LEMMA Continuing ==
  ASSUME BodyInv, pc = "body", pc' = "body", ierror' # "none",
         UNCHANGED <<body, arm, withheld, read>>, TypeOK', Called'
  PROVE  BodyInv'
<1>1. AtRest' /\ NotCalled' /\ Settled' /\ ~Preparing'
  BY DEF AtRest, NotCalled, Settled, Preparing
<1>2. BeforeStaging' /\ InBlock' /\ InTemporaries' /\ WideIsChecked' /\ RootIsAsked'
  BY <1>1 DEF BeforeStaging, InBlock, InTemporaries, WideIsChecked, RootIsAsked
<1>3. Running'  BY DEF BodyInv, Running
<1>   QED  BY <1>1, <1>2, <1>3 DEF BodyInv

\* A step after the call keeps the types.
LEMMA LateIsTyped ==
  ASSUME BodyInv, pc # "idle", pc' \in {"body", "done", "returned"},
         UNCHANGED <<body, arm, size, withheld>>, temps' \subseteq temps,
         todo' = todo \/ (todo # << >> /\ todo' = Tail(todo)),
         ierror' \in {"none", "success", "error"},
         completed' \in BOOLEAN, changed' \in BOOLEAN, kept' \in BOOLEAN,
         DOMAIN out' = DOMAIN out,
         \A o \in DOMAIN out' : out'[o] \in {"unset", "null", "handle"},
         block' \in {"none", "live", "freed", "kept", "leaked", "freed again"},
         answer' \in {"none", "success", "error", "intern", "unsupported",
                     "value too large", "bad argument"},
         flag' \in {"clear", "conversion", "callback"},
         op' \in {"none", "in flight"}
  PROVE  TypeOK'
<1>1. todo \in Seq(StepsOf(Kinds, NamesOf(Part)))  BY BodyRuns
<1>2. todo' \in Seq(StepsOf(Kinds, NamesOf(PartOf(body', arm'))))
  <2>1. todo' \in Seq(StepsOf(Kinds, NamesOf(Part)))  BY <1>1, TailElements
  <2>2. Part = PartOf(body', arm')  BY DEF Part
  <2>   QED  BY <2>1, <2>2
<1>3. /\ arm' \in ArmsOf(body') /\ size' \in {"none", "some"}
      /\ withheld' \in {"nothing", "in place", "not root"}
      /\ temps' \subseteq ArraysOf(PartOf(body', arm'))
      /\ DOMAIN out' = body'.outs
  BY DEF BodyInv, TypeOK
<1>   QED  BY <1>2, <1>3 DEF TypeOK

\* What the call finds.
LEMMA AtTheCall ==
  ASSUME BodyInv, At("call")
  PROVE  /\ pc = "body" /\ todo # << >> /\ ierror = "none"
         /\ arm # "stub" /\ body.calls # "nothing"
         /\ Part = PartOf(body, arm)
         /\ Tail(todo) = After(body, arm)
         /\ ~changed /\ NoOperationEnds /\ flag # "conversion" /\ answer = "none"
         /\ \A o \in DOMAIN out : out[o] # "handle"
         /\ Part.block => temps = {} /\ block = "live"
         /\ ~Part.block => block = "none"
         /\ arm = "fallback" => body.wide \subseteq passed
<1>1. /\ ierror = "none" /\ Preparing /\ BeforeCall(todo, body, arm)
      /\ arm # "stub" /\ body.calls # "nothing"
      /\ pc = "body" /\ todo # << >> /\ Head(todo).do = "call"
  BY AtEarly
<1>2. /\ Part = PartOf(body, arm) /\ todo \in Seq(StepsOf(Kinds, NamesOf(Part)))
      /\ After(body, arm) \in Unconverted \cup {K, << >>}
  BY <1>1, BodyRuns
<1>3. Tail(todo) = After(body, arm) /\ ~Pending(todo, {"block"}) /\ ~Pending(todo, Early)
  BY <1>1, <1>2, NextStep
<1>4. /\ ~changed /\ NoOperationEnds /\ flag # "conversion" /\ answer = "none"
      /\ \A o \in DOMAIN out : out[o] # "handle"
  BY <1>1 DEF BodyInv, NotCalled
<1>5. /\ Part.block => temps = {} /\ block = "live"
      /\ ~Part.block => block = "none"
  BY <1>1, <1>3 DEF BodyInv, InBlock, InTemporaries
<1>6. ASSUME arm = "fallback", NEW w \in body.wide PROVE w \in passed
  <2>1. ASSUME NEW k \in {"narrow", "counts"}, Holds(todo, [do |-> k, of |-> w])
        PROVE  FALSE
    <3>1. [do |-> k, of |-> w].do \in Early  BY StepsAreEarly
    <3>2. Pending(todo, Early)  BY <2>1, <3>1, HeldIsPending
    <3>   QED  BY <1>3, <3>2
  <2>   QED  BY <1>1, <1>6, <2>1 DEF BodyInv, WideIsChecked
<1>   QED  BY <1>1, <1>2, <1>3, <1>4, <1>5, <1>6

\* An arm that converts nothing after the call has no outputs.
LEMMA AfterMakes ==
  ASSUME NEW b, NEW a, WellFormed(b), After(b, a) \notin Unconverted
  PROVE  b.outs = {} /\ b.changes = {} /\ b.completes = "no"
<1>1. b.completes \notin {"one", "array"}  BY LateMembers DEF After
<1>2. ~Converts(b)  BY <1>1, LateMembers DEF After
<1>   QED  BY <1>1, <1>2 DEF Converts, WellFormed

\* The call itself, whichever function it is and whatever it answers.
LEMMA CallKeeps == ASSUME BodyInv, Call PROVE BodyInv'
<1>1. /\ pc = "body" /\ todo # << >> /\ ierror = "none"
      /\ arm # "stub" /\ body.calls # "nothing"
      /\ Part = PartOf(body, arm)
      /\ Tail(todo) = After(body, arm)
      /\ ~changed /\ NoOperationEnds /\ flag # "conversion" /\ answer = "none"
      /\ \A o \in DOMAIN out : out[o] # "handle"
      /\ Part.block => temps = {} /\ block = "live"
      /\ ~Part.block => block = "none"
  BY AtTheCall DEF Call
<1>2. /\ WellFormed(body) /\ (Part.block => body.changes = {} /\ body.completes = "no")
      /\ After(body, arm) \in Left(body, arm)
  BY <1>1, BodyRuns
<1>3. /\ UNCHANGED <<body, arm, size, withheld, temps, passed, read, changed, kept>>
      /\ ierror' \in {"success", "error"} /\ flag' \in {flag, "callback"}
      /\ completed' \in BOOLEAN
      /\ completed' => body.completes # "no" /\ op = "in flight"
      /\ op' = IF completed' THEN "none" ELSE op
  BY DEF Call, inputVars, noteVars
<1>4. flag' # "conversion"  BY <1>1, <1>3
<1>5. DOMAIN out = body.outs /\ \A o \in DOMAIN out : out[o] \in {"unset", "null"}
  BY <1>1 DEF BodyInv, TypeOK
<1>t. /\ flag' \in {"clear", "conversion", "callback"} /\ op' \in {"none", "in flight"}
      /\ changed' \in BOOLEAN /\ kept' \in BOOLEAN
  BY <1>3 DEF BodyInv, TypeOK
<1>6. CASE Part.block /\ ierror' = "error"
  <2>1. /\ block' = "freed" /\ answer' = "error" /\ pc' = "returned" /\ todo' = todo
        /\ out' = [o \in DOMAIN out |-> "null"]
    BY <1>1, <1>6 DEF Call, FreeBlock, Refuse, Null
  <2>2. TypeOK'
    <3>1. DOMAIN out' = DOMAIN out /\ \A o \in DOMAIN out' : out'[o] = "null"  BY <2>1
    <3>   QED  BY <1>1, <1>3, <1>t, <2>1, <3>1, LateIsTyped
  <2>3. ~completed'  BY <1>2, <1>3, <1>6
  <2>4. AllNull'  BY <2>1 DEF AllNull
  <2>5. kept' <=> op' = "in flight"  BY <1>1, <1>3, <2>3 DEF NoOperationEnds
  <2>6. Settled'
    <3>1. temps' = {} /\ body' = body /\ body.changes = {}  BY <1>1, <1>2, <1>3, <1>6
    <3>   QED  BY <1>4, <1>6, <2>1, <2>4, <2>5, <3>1 DEF Settled, AllNull
  <2>7. withheld = "not root" => read' = {}
    BY <1>1, <1>3 DEF BodyInv, Running
  <2>   QED  BY <1>1, <1>3, <2>1, <2>2, <2>6, <2>7, Stopping
<1>7. CASE ~(Part.block /\ ierror' = "error")
  <2>1. /\ block' = block /\ answer' = answer /\ out' = out /\ pc' = "body"
        /\ todo' = Tail(todo)
    BY <1>1, <1>7 DEF Call, Go
  <2>2. TypeOK'
    <3>1. block' \in {"none", "live"}  BY <1>1, <2>1
    <3>2. answer' = "none"  BY <1>1, <2>1
    <3>3. DOMAIN out' = DOMAIN out /\ \A o \in DOMAIN out' : out'[o] \in {"unset", "null"}
      BY <1>5, <2>1
    <3>   QED  BY <1>1, <1>3, <1>t, <2>1, <3>1, <3>2, <3>3, LateIsTyped
  <2>3. todo' = After(body, arm) /\ todo' \in Left(body', arm')
    BY <1>1, <1>2, <1>3, <2>1
  <2>4. Part' = Part  BY <1>3 DEF Part
  <2>5. IF Part'.block
        THEN temps' = {} /\ block' = "live" /\ ierror' = "success"
        ELSE block' = "none"
    BY <1>1, <1>3, <1>7, <2>1, <2>4
  <2>6. todo' \notin Unconverted => DOMAIN out = {} /\ body.changes = {} /\ ~completed'
    <3>1. SUFFICES ASSUME After(body, arm) \notin Unconverted
                   PROVE  DOMAIN out = {} /\ body.changes = {} /\ ~completed'
      BY <2>3
    <3>2. body.outs = {} /\ body.changes = {} /\ body.completes = "no"
      BY <1>2, <3>1, AfterMakes
    <3>   QED  BY <1>3, <1>5, <3>2
  <2>7. IF todo' \in Unconverted
        THEN ~changed' /\ flag' # "conversion"
        ELSE /\ changed' <=> body'.changes # {}
             /\ ierror' # "success" => AllNull'
             /\ ierror' = "success" =>
                  AllMade' \/ (todo' \in Untaken /\ flag' = "conversion"
                                /\ \A o \in DOMAIN out' : out'[o] # "unset")
             /\ flag' = "conversion" => todo' \in Untaken
    <3>1. ~changed' /\ body' = body  BY <1>1, <1>3
    <3>2. DOMAIN out = {} => AllMade' /\ AllNull'  BY <2>1 DEF AllMade, AllNull
    <3>   QED  BY <1>4, <2>6, <3>1, <3>2
  <2>8. completed' => body'.completes # "no" /\ op' = "none"  BY <1>3
  <2>9. kept' <=> op' = "in flight" \/ (completed' /\ todo' \in Unreleased)
    <3>1. CASE ~completed'
      BY <1>1, <1>3, <3>1 DEF NoOperationEnds
    <3>2. CASE completed'
      <4>1. body.completes # "no" /\ op = "in flight"  BY <1>3, <3>2
      <4>2. body.completes \in {"one", "array"}  BY <1>2, <4>1 DEF WellFormed
      <4>3. todo' \in Unreleased  BY <2>3, <4>2, LateMembers DEF After
      <4>4. kept'  BY <1>1, <1>3, <4>1 DEF NoOperationEnds
      <4>   QED  BY <3>2, <4>3, <4>4
    <3>   QED  BY <3>1, <3>2
  <2>10. \A o \in DOMAIN out' : out'[o] # "handle"  BY <1>1, <2>1
  <2>11. arm' # "stub" /\ body'.calls # "nothing" /\ answer' = "none"  BY <1>1, <1>3, <2>1
  <2>12. Called'
    BY <2>3, <2>5, <2>7, <2>8, <2>9, <2>10, <2>11 DEF Called
  <2>13. ierror' # "none"  BY <1>3
  <2>   QED  BY <1>1, <1>3, <2>1, <2>2, <2>12, <2>13, Continuing
<1>   QED  BY <1>6, <1>7

\* What holds at any step after the call.
LEMMA AtALateStep ==
  ASSUME BodyInv, NEW kind \in Late, At(kind)
  PROVE  /\ pc = "body" /\ todo # << >> /\ Head(todo).do = kind
         /\ todo \in Left(body, arm) /\ Called /\ ierror # "none"
         /\ ierror \in {"success", "error"}
         /\ WellFormed(body) /\ Part = PartOf(body, arm)
         /\ PartOf(body, arm).block => body.completes = "no"
         /\ Part.block => body.changes = {}
         /\ DOMAIN out = body.outs
         /\ \A o \in DOMAIN out : out[o] \in {"unset", "null", "handle"}
         /\ block \in {"none", "live", "freed", "kept", "leaked", "freed again"}
         /\ flag \in {"clear", "conversion", "callback"} /\ op \in {"none", "in flight"}
         /\ completed \in BOOLEAN /\ changed \in BOOLEAN /\ kept \in BOOLEAN
<1>1. /\ ierror # "none" /\ todo \in Left(body, arm)
      /\ pc = "body" /\ todo # << >> /\ Head(todo).do = kind
  BY AtLate
<1>2. /\ Part = PartOf(body, arm) /\ WellFormed(body)
      /\ Part.block => body.changes = {} /\ body.completes = "no"
  BY <1>1, BodyRuns
<1>3. Called  BY DEF BodyInv
<1>4. /\ DOMAIN out = body.outs
      /\ \A o \in DOMAIN out : out[o] \in {"unset", "null", "handle"}
      /\ ierror \in {"none", "success", "error"}
      /\ block \in {"none", "live", "freed", "kept", "leaked", "freed again"}
      /\ flag \in {"clear", "conversion", "callback"} /\ op \in {"none", "in flight"}
      /\ completed \in BOOLEAN /\ changed \in BOOLEAN /\ kept \in BOOLEAN
  BY <1>1 DEF BodyInv, TypeOK
<1>   QED  BY <1>1, <1>2, <1>3, <1>4

\* What Called says of the steps that are left.
LEMMA CalledThen ==
  ASSUME Called, pc = "body", ierror # "none"
  PROVE  /\ arm # "stub" /\ body.calls # "nothing" /\ answer = "none"
         /\ Part.block => temps = {} /\ block = "live" /\ ierror = "success"
         /\ ~Part.block => block = "none"
         /\ ierror # "success" => \A o \in DOMAIN out : out[o] # "handle"
         /\ todo \in Unconverted => ~changed /\ flag # "conversion"
         /\ todo \notin Unconverted =>
              /\ changed <=> body.changes # {}
              /\ ierror # "success" => AllNull
              /\ ierror = "success" =>
                   AllMade \/ (todo \in Untaken /\ flag = "conversion"
                                 /\ \A o \in DOMAIN out : out[o] # "unset")
              /\ flag = "conversion" => todo \in Untaken
         /\ completed => body.completes # "no" /\ op = "none"
         /\ kept <=> op = "in flight" \/ (completed /\ todo \in Unreleased)
  BY DEF Called

\* The outputs are converted, or set to null.
LEMMA ConvertOutsKeeps == ASSUME BodyInv, ConvertOuts PROVE BodyInv'
<1>1. /\ pc = "body" /\ todo # << >> /\ Head(todo).do = "convert"
      /\ todo \in Left(body, arm) /\ Called /\ ierror # "none"
      /\ ierror \in {"success", "error"}
      /\ Part = PartOf(body, arm)
      /\ PartOf(body, arm).block => body.completes = "no"
      /\ DOMAIN out = body.outs
      /\ block \in {"none", "live", "freed", "kept", "leaked", "freed again"}
      /\ flag \in {"clear", "conversion", "callback"} /\ op \in {"none", "in flight"}
      /\ completed \in BOOLEAN /\ kept \in BOOLEAN
  BY AtALateStep DEF ConvertOuts, Late
<1>2. /\ \/ todo = CRT /\ Tail(todo) = RT
         \/ todo = CTK /\ Tail(todo) = TK
         \/ todo = CT  /\ Tail(todo) = T
      /\ Tail(todo) \in Left(body, arm)
  BY <1>1, LeftAt
<1>3. /\ todo \in Unconverted /\ Tail(todo) \notin Unconverted /\ Tail(todo) \in Untaken
      /\ todo \in Unreleased <=> Tail(todo) \in Unreleased
  BY <1>2, LateSets, LateMembers
<1>4. /\ arm # "stub" /\ body.calls # "nothing" /\ answer = "none"
      /\ Part.block => temps = {} /\ block = "live" /\ ierror = "success"
      /\ ~Part.block => block = "none"
      /\ flag # "conversion"
      /\ completed => body.completes # "no" /\ op = "none"
      /\ kept <=> op = "in flight" \/ (completed /\ todo \in Unreleased)
  BY <1>1, <1>3, CalledThen
<1>5. /\ UNCHANGED <<body, arm, size, withheld, temps, block, passed, read, ierror,
                     completed, answer, op, kept>>
      /\ pc' = "body" /\ todo' = Tail(todo) /\ changed' = (body.changes # {})
  BY <1>1 DEF ConvertOuts, Go, inputVars, dataVars, noteVars, callVars
<1>6. PICK rejected :
        /\ out' = [o \in DOMAIN out |->
                     IF o \in Made \ rejected THEN "handle" ELSE "null"]
        /\ flag' = IF rejected = {} THEN flag ELSE "conversion"
  BY DEF ConvertOuts
<1>7. /\ DOMAIN out' = DOMAIN out
      /\ \A o \in DOMAIN out' : out'[o] \in {"null", "handle"}
      /\ flag' \in {"clear", "conversion", "callback"}
  BY <1>1, <1>6
<1>8. ierror' # "success" => AllNull'
  <2>1. SUFFICES ASSUME ierror # "success" PROVE AllNull'  BY <1>5
  <2>2. Made = {}  BY <2>1 DEF Made
  <2>   QED  BY <1>6, <2>2 DEF AllNull
<1>9. ierror' = "success" => AllMade' \/ flag' = "conversion"
  <2>1. SUFFICES ASSUME ierror = "success", rejected = {} PROVE AllMade'  BY <1>5, <1>6
  <2>2. Made = DOMAIN out  BY <1>1, <2>1 DEF Made
  <2>   QED  BY <1>6, <2>1, <2>2 DEF AllMade
<1>10. TypeOK'
  <2>1. changed' \in BOOLEAN  BY <1>5
  <2>   QED  BY <1>1, <1>4, <1>5, <1>7, <2>1, LateIsTyped
<1>11. Part' = Part  BY <1>5 DEF Part
<1>12. changed' <=> body'.changes # {}  BY <1>5
<1>13. kept' <=> op' = "in flight" \/ (completed' /\ todo' \in Unreleased)
  BY <1>3, <1>4, <1>5
<1>14. /\ todo' \in Left(body', arm') /\ todo' \notin Unconverted /\ todo' \in Untaken
       /\ arm' # "stub" /\ body'.calls # "nothing" /\ answer' = "none"
       /\ completed' => body'.completes # "no" /\ op' = "none"
  BY <1>2, <1>3, <1>4, <1>5
<1>15. IF Part'.block THEN temps' = {} /\ block' = "live" /\ ierror' = "success"
                      ELSE block' = "none"
  BY <1>4, <1>5, <1>11
<1>16. /\ ierror' # "success" => \A o \in DOMAIN out' : out'[o] # "handle"
       /\ \A o \in DOMAIN out' : out'[o] # "unset"
  BY <1>7, <1>8 DEF AllNull
<1>17. Called'
  BY <1>8, <1>9, <1>12, <1>13, <1>14, <1>15, <1>16 DEF Called
<1>   QED  BY <1>1, <1>5, <1>10, <1>17, Continuing

\* A block is freed whose operation has become null.
LEMMA ReleaseKeeps == ASSUME BodyInv, Release PROVE BodyInv'
<1>1. /\ pc = "body" /\ todo # << >> /\ Head(todo).do = "release"
      /\ todo \in Left(body, arm) /\ Called /\ ierror # "none"
      /\ ierror \in {"success", "error"}
      /\ Part = PartOf(body, arm)
      /\ PartOf(body, arm).block => body.completes = "no"
      /\ \A o \in DOMAIN out : out[o] \in {"unset", "null", "handle"}
      /\ block \in {"none", "live", "freed", "kept", "leaked", "freed again"}
      /\ flag \in {"clear", "conversion", "callback"} /\ op \in {"none", "in flight"}
      /\ completed \in BOOLEAN /\ changed \in BOOLEAN
  BY AtALateStep DEF Release, Late
<1>2. /\ \/ todo = RCT /\ Tail(todo) = CT /\ body.completes = "array"
         \/ todo = RT  /\ Tail(todo) = T  /\ body.completes = "one"
      /\ Tail(todo) \in Left(body, arm)
  BY <1>1, LeftAt
<1>3. /\ todo \in Unreleased /\ Tail(todo) \notin Unreleased
      /\ todo \in Unconverted <=> Tail(todo) \in Unconverted
      /\ todo \notin Unconverted => Tail(todo) \in Untaken
      /\ todo \in Unconverted \/ body.completes = "one"
  BY <1>2, LateSets, LateMembers
<1>4. /\ arm # "stub" /\ body.calls # "nothing" /\ answer = "none"
      /\ Part.block => temps = {} /\ block = "live" /\ ierror = "success"
      /\ ~Part.block => block = "none"
      /\ ierror # "success" => \A o \in DOMAIN out : out[o] # "handle"
      /\ todo \in Unconverted => ~changed /\ flag # "conversion"
      /\ todo \notin Unconverted =>
           /\ changed <=> body.changes # {}
           /\ ierror # "success" => AllNull
           /\ ierror = "success" =>
                AllMade \/ (flag = "conversion"
                              /\ \A o \in DOMAIN out : out[o] # "unset")
      /\ completed => body.completes # "no" /\ op = "none"
      /\ kept <=> op = "in flight" \/ (completed /\ todo \in Unreleased)
  BY <1>1, CalledThen
<1>5. /\ UNCHANGED <<body, arm, size, withheld, temps, block, passed, read, ierror,
                     completed, out, changed, answer, flag, op>>
      /\ pc' = "body" /\ todo' = Tail(todo)
      /\ kept' = (kept /\ ~(completed /\ (body.completes = "one" \/ ~changed)))
  BY <1>1 DEF Release, Go, inputVars, dataVars, noteVars, callVars, outVars
<1>6. kept' <=> kept /\ ~completed
  BY <1>3, <1>4, <1>5
<1>7. TypeOK'
  <2>1. kept' \in BOOLEAN  BY <1>5
  <2>   QED  BY <1>1, <1>4, <1>5, <2>1, LateIsTyped
<1>8. Part' = Part /\ (AllNull' <=> AllNull) /\ (AllMade' <=> AllMade)
  BY <1>5 DEF Part, AllNull, AllMade
<1>9. kept' <=> op' = "in flight" \/ (completed' /\ todo' \in Unreleased)
  BY <1>3, <1>4, <1>5, <1>6
<1>10. /\ todo' \in Left(body', arm')
       /\ arm' # "stub" /\ body'.calls # "nothing" /\ answer' = "none"
       /\ completed' => body'.completes # "no" /\ op' = "none"
  BY <1>2, <1>4, <1>5
<1>11. IF Part'.block THEN temps' = {} /\ block' = "live" /\ ierror' = "success"
                      ELSE block' = "none"
  BY <1>4, <1>5, <1>8
<1>12. ierror' # "success" => \A o \in DOMAIN out' : out'[o] # "handle"
  BY <1>4, <1>5
<1>13. IF todo' \in Unconverted
       THEN ~changed' /\ flag' # "conversion"
       ELSE /\ changed' <=> body'.changes # {}
            /\ ierror' # "success" => AllNull'
            /\ ierror' = "success" =>
                 AllMade' \/ (todo' \in Untaken /\ flag' = "conversion"
                               /\ \A o \in DOMAIN out' : out'[o] # "unset")
            /\ flag' = "conversion" => todo' \in Untaken
  BY <1>3, <1>4, <1>5, <1>8
<1>14. Called'
  BY <1>9, <1>10, <1>11, <1>12, <1>13 DEF Called
<1>   QED  BY <1>1, <1>5, <1>7, <1>14, Continuing

\* The flag of rejected handles is taken, and cleared.
LEMMA TakeKeeps == ASSUME BodyInv, Take PROVE BodyInv'
<1>1. /\ pc = "body" /\ todo # << >> /\ Head(todo).do = "take"
      /\ todo \in Left(body, arm) /\ Called /\ ierror # "none"
      /\ ierror \in {"success", "error"}
      /\ Part = PartOf(body, arm)
      /\ PartOf(body, arm).block => body.completes = "no"
      /\ Part.block => body.changes = {}
      /\ \A o \in DOMAIN out : out[o] \in {"unset", "null", "handle"}
      /\ block \in {"none", "live", "freed", "kept", "leaked", "freed again"}
      /\ flag \in {"clear", "conversion", "callback"} /\ op \in {"none", "in flight"}
      /\ completed \in BOOLEAN /\ changed \in BOOLEAN /\ kept \in BOOLEAN
  BY AtALateStep DEF Take, Late
<1>2. /\ \/ todo = TK /\ Tail(todo) = K
         \/ todo = T  /\ Tail(todo) = << >>
      /\ Tail(todo) \in Left(body, arm)
  BY <1>1, LeftAt
<1>3. /\ todo \notin Unconverted /\ Tail(todo) \notin Unconverted
      /\ todo \notin Unreleased /\ Tail(todo) \notin Unreleased
  BY <1>2, LateSets
<1>4. /\ arm # "stub" /\ body.calls # "nothing" /\ answer = "none"
      /\ Part.block => temps = {} /\ block = "live" /\ ierror = "success"
      /\ ~Part.block => block = "none"
      /\ ierror # "success" => \A o \in DOMAIN out : out[o] # "handle"
      /\ changed <=> body.changes # {}
      /\ ierror # "success" => AllNull
      /\ ierror = "success" =>
           AllMade \/ (flag = "conversion" /\ \A o \in DOMAIN out : out[o] # "unset")
      /\ completed => body.completes # "no" /\ op = "none"
      /\ kept <=> op = "in flight"
  BY <1>1, <1>3, CalledThen
<1>5. /\ UNCHANGED <<body, arm, size, withheld, temps, block, passed, read, ierror,
                     completed, out, changed, op, kept>>
      /\ flag' = "clear"
  BY DEF Take, inputVars, dataVars, noteVars, callVars, outVars
<1>6. Part' = Part /\ (AllNull' <=> AllNull) /\ (AllMade' <=> AllMade)
  BY <1>5 DEF Part, AllNull, AllMade
<1>7. CASE flag = "clear"
  <2>1. pc' = "body" /\ todo' = Tail(todo) /\ answer' = "none"
    BY <1>1, <1>4, <1>7 DEF Take, Go
  <2>2. TypeOK'  BY <1>1, <1>5, <2>1, LateIsTyped
  <2>3. /\ todo' \in Left(body', arm') /\ todo' \notin Unconverted /\ todo' \notin Unreleased
        /\ arm' # "stub" /\ body'.calls # "nothing" /\ answer' = "none"
        /\ completed' => body'.completes # "no" /\ op' = "none"
        /\ changed' <=> body'.changes # {}
        /\ kept' <=> op' = "in flight"
    BY <1>2, <1>3, <1>4, <1>5, <2>1
  <2>4. IF Part'.block THEN temps' = {} /\ block' = "live" /\ ierror' = "success"
                       ELSE block' = "none"
    BY <1>4, <1>5, <1>6
  <2>5. /\ ierror' # "success" => AllNull' /\ \A o \in DOMAIN out' : out'[o] # "handle"
        /\ ierror' = "success" => AllMade'
        /\ flag' # "conversion"
    BY <1>4, <1>5, <1>6, <1>7
  <2>6. Called'  BY <2>3, <2>4, <2>5 DEF Called
  <2>   QED  BY <1>1, <1>5, <2>1, <2>2, <2>6, Continuing
<1>8. CASE flag # "clear"
  <2>1. /\ pc' = IF Part.block THEN "returned" ELSE "done"
        /\ todo' = todo /\ answer' = "intern"
    BY <1>1, <1>8 DEF Take
  <2>2. pc' \in {"done", "returned"}  BY <2>1
  <2>3. TypeOK'  BY <1>1, <1>5, <2>1, <2>2, LateIsTyped
  <2>4. \A o \in DOMAIN out : out[o] # "unset"
    <3>1. CASE ierror # "success"  BY <1>4, <3>1 DEF AllNull
    <3>2. CASE ierror = "success"  BY <1>4, <3>2 DEF AllMade
    <3>   QED  BY <3>1, <3>2
  <2>5. /\ pc' = "done" => block' = "none"
        /\ pc' = "returned" => temps' = {}
        /\ block' = "live" => ierror' = "success"
        /\ block' # "freed again"
    BY <1>4, <1>5, <2>1
  <2>6. /\ flag' # "conversion" /\ (kept' <=> op' = "in flight")
        /\ \A o \in DOMAIN out' : out'[o] # "unset"
        /\ ierror' # "success" => AllNull'
        /\ body'.changes # {} => (changed' <=> ierror' # "none")
    BY <1>1, <1>4, <1>5, <1>6, <2>4
  <2>7. Settled'  BY <2>1, <2>5, <2>6 DEF Settled
  <2>8. withheld = "not root" => read' = {}
    BY <1>1, <1>5 DEF BodyInv, Running
  <2>   QED  BY <1>1, <1>5, <2>2, <2>3, <2>7, <2>8, Stopping
<1>   QED  BY <1>7, <1>8

\* The block is freed, kept for its operation, or leaked.
LEMMA KeepKeeps == ASSUME BodyInv, Keep PROVE BodyInv'
<1>1. /\ pc = "body" /\ todo # << >> /\ Head(todo).do = "keep"
      /\ todo \in Left(body, arm) /\ Called /\ ierror # "none"
      /\ ierror \in {"success", "error"}
      /\ Part = PartOf(body, arm)
      /\ PartOf(body, arm).block => body.completes = "no"
      /\ Part.block => body.changes = {}
      /\ \A o \in DOMAIN out : out[o] \in {"unset", "null", "handle"}
      /\ flag \in {"clear", "conversion", "callback"} /\ op \in {"none", "in flight"}
      /\ completed \in BOOLEAN /\ changed \in BOOLEAN /\ kept \in BOOLEAN
  BY AtALateStep DEF Keep, Late
<1>2. todo = K /\ Part.block
  <2>1. todo = K /\ PartOf(body, arm).block  BY <1>1, LeftAt
  <2>   QED  BY <1>1, <2>1
<1>3. todo \notin Unconverted /\ todo \notin Unreleased /\ todo \notin Untaken
  BY <1>2, LateSets
<1>4. /\ temps = {} /\ block = "live" /\ ierror = "success" /\ body.changes = {}
      /\ AllMade /\ flag # "conversion"
      /\ kept <=> op = "in flight"
  BY <1>1, <1>2, <1>3, CalledThen
<1>5. /\ UNCHANGED <<body, arm, todo, size, withheld, temps, passed, read, ierror,
                     completed, out, changed, flag>>
      /\ pc' = "returned"
  BY DEF Keep, inputVars, noteVars, callVars, outVars
<1>6. /\ block' \in {"freed", "kept", "leaked"} /\ answer' \in {"intern", "success"}
      /\ op' \in {"none", "in flight"} /\ kept' \in BOOLEAN
      /\ kept' <=> op' = "in flight"
  <2>1. CASE UNCHANGED <<op, kept>> /\ block' \in {"freed", "leaked"}
                /\ answer' \in {"intern", "success"}
    BY <1>1, <1>4, <2>1
  <2>2. CASE block' = "kept" /\ op' = "in flight" /\ kept' = TRUE /\ answer' = "success"
    BY <2>2
  <2>   QED  BY <1>4, <2>1, <2>2 DEF Keep, FreeBlock
<1>7. TypeOK'  BY <1>1, <1>5, <1>6, LateIsTyped
<1>8. AllMade' /\ \A o \in DOMAIN out' : out'[o] # "unset"  BY <1>4, <1>5 DEF AllMade
<1>9. Settled'  BY <1>4, <1>5, <1>6, <1>8 DEF Settled
<1>10. withheld = "not root" => read' = {}
  BY <1>1, <1>5 DEF BodyInv, Running
<1>   QED  BY <1>1, <1>5, <1>7, <1>9, <1>10, Stopping

-----------------------------------------------------------------------------
(***************************************************************************)
(* The paths out of a body.                                                *)
(***************************************************************************)
LEMMA FinishKeeps == ASSUME BodyInv, Finish PROVE BodyInv'
<1>1. pc = "body" /\ todo = << >>  BY DEF Finish
<1>2. /\ UNCHANGED <<body, arm, todo, size, withheld, temps, block, passed, read, ierror,
                     completed, out, changed, flag, op, kept>>
      /\ pc' = "done"
      /\ answer' = IF body.calls = "nothing" THEN "success" ELSE ierror
  BY DEF Finish, inputVars, dataVars, noteVars, callVars, outVars, lastVars
<1>3. /\ WellFormed(body) /\ Part = PartOf(body, arm)
      /\ Part.block => body.completes = "no"
      /\ After(body, arm) \in Unconverted \cup {K, << >>}
      /\ todo \in Seq(StepsOf(Kinds, NamesOf(Part)))
  BY <1>1, BodyRuns
<1>4. withheld = "not root" => read' = {}  BY <1>1, <1>2 DEF BodyInv, Running
<1>5. AllMade' <=> AllMade  BY <1>2 DEF AllMade
<1>6. AllNull' <=> AllNull  BY <1>2 DEF AllNull
<1>7. /\ DOMAIN out = body.outs
      /\ \A o \in DOMAIN out : out[o] \in {"unset", "null", "handle"}
      /\ block \in {"none", "live", "freed", "kept", "leaked", "freed again"}
      /\ flag \in {"clear", "conversion", "callback"} /\ op \in {"none", "in flight"}
      /\ completed \in BOOLEAN /\ changed \in BOOLEAN /\ kept \in BOOLEAN
      /\ ierror \in {"none", "success", "error"}
  BY <1>1 DEF BodyInv, TypeOK
<1>8. CASE ierror = "none"
  <2>1. todo # <<Step("unsupported")>>  BY <1>1
  <2>2. ~BeforeCall(todo, body, arm)  BY <1>1, <1>3, NextStep
  <2>3. /\ ~changed /\ NoOperationEnds /\ flag # "conversion"
        /\ Untouched /\ body.calls = "nothing"
    BY <1>1, <1>8, <2>1, <2>2 DEF BodyInv, NotCalled
  <2>4. body.outs = {} /\ body.changes = {}  BY <1>3, <2>3 DEF WellFormed
  <2>5. AllMade /\ AllNull /\ \A o \in DOMAIN out : out[o] # "unset"
    BY <1>7, <2>4 DEF AllMade, AllNull
  <2>6. Settled'
    BY <1>2, <1>5, <1>6, <2>3, <2>4, <2>5 DEF Settled, NoOperationEnds, Untouched
  <2>7. TypeOK'
    <3>1. answer' = "success"  BY <1>2, <2>3
    <3>   QED  BY <1>1, <1>2, <1>7, <3>1, LateIsTyped
  <2>   QED  BY <1>1, <1>2, <1>4, <2>6, <2>7, Stopping
<1>9. CASE ierror # "none"
  <2>1. Called /\ todo \in Left(body, arm)  BY <1>1, <1>9 DEF BodyInv, Called
  <2>2. ~Part.block  BY <1>1, <1>3, <2>1, LeftAt
  <2>3. todo \notin Unconverted /\ todo \notin Unreleased /\ todo \notin Untaken
    BY <1>1, LateSets
  <2>4. /\ body.calls # "nothing" /\ block = "none" /\ flag # "conversion"
        /\ changed <=> body.changes # {}
        /\ ierror # "success" => AllNull
        /\ ierror = "success" => AllMade
        /\ kept <=> op = "in flight"
    BY <1>1, <1>9, <2>1, <2>2, <2>3, CalledThen
  <2>5. \A o \in DOMAIN out : out[o] # "unset"
    BY <2>4 DEF AllNull, AllMade
  <2>6. answer' = ierror /\ ierror \in {"success", "error"}
    BY <1>2, <1>7, <1>9, <2>4
  <2>7. Settled'
    BY <1>2, <1>5, <1>6, <1>9, <2>4, <2>5, <2>6 DEF Settled
  <2>8. TypeOK'
    BY <1>1, <1>2, <1>7, <2>6, LateIsTyped
  <2>   QED  BY <1>1, <1>2, <1>4, <2>7, <2>8, Stopping
<1>   QED  BY <1>8, <1>9

\* The temporaries are freed.
LEMMA UnstageKeeps == ASSUME BodyInv, Unstage PROVE BodyInv'
<1>1. /\ pc = "done" /\ pc' = "returned" /\ temps' = {}
      /\ UNCHANGED <<body, arm, todo, size, withheld, block, passed, read, ierror,
                     completed, out, changed, answer, flag, op, kept>>
  BY DEF Unstage, inputVars, noteVars, callVars, outVars, lastVars
<1>2. TypeOK'
  <2>1. /\ \A o \in DOMAIN out : out[o] \in {"unset", "null", "handle"}
        /\ block \in {"none", "live", "freed", "kept", "leaked", "freed again"}
        /\ flag \in {"clear", "conversion", "callback"} /\ op \in {"none", "in flight"}
        /\ completed \in BOOLEAN /\ changed \in BOOLEAN /\ kept \in BOOLEAN
        /\ ierror \in {"none", "success", "error"}
        /\ answer \in {"none", "success", "error", "intern", "unsupported",
                      "value too large", "bad argument"}
    BY DEF BodyInv, TypeOK
  <2>2. pc # "idle" /\ pc' \in {"body", "done", "returned"} /\ temps' \subseteq temps
        /\ todo' = todo /\ UNCHANGED <<body, arm, size, withheld>>
    BY <1>1
  <2>3. /\ DOMAIN out' = DOMAIN out
        /\ \A o \in DOMAIN out' : out'[o] \in {"unset", "null", "handle"}
        /\ block' \in {"none", "live", "freed", "kept", "leaked", "freed again"}
        /\ flag' \in {"clear", "conversion", "callback"} /\ op' \in {"none", "in flight"}
        /\ completed' \in BOOLEAN /\ changed' \in BOOLEAN /\ kept' \in BOOLEAN
        /\ ierror' \in {"none", "success", "error"}
        /\ answer' \in {"none", "success", "error", "intern", "unsupported",
                       "value too large", "bad argument"}
    <3>1. out' = out /\ block' = block /\ flag' = flag /\ op' = op
      BY <1>1
    <3>2. /\ completed' = completed /\ changed' = changed /\ kept' = kept
          /\ ierror' = ierror /\ answer' = answer
      BY <1>1
    <3>3. DOMAIN out' = DOMAIN out /\ \A o \in DOMAIN out' : out'[o] = out[o]
      BY <3>1
    <3>4. /\ DOMAIN out' = DOMAIN out
          /\ \A o \in DOMAIN out' : out'[o] \in {"unset", "null", "handle"}
      BY <2>1, <3>3
    <3>5. /\ block' \in {"none", "live", "freed", "kept", "leaked", "freed again"}
          /\ flag' \in {"clear", "conversion", "callback"} /\ op' \in {"none", "in flight"}
      BY <2>1, <3>1
    <3>6. /\ completed' \in BOOLEAN /\ changed' \in BOOLEAN /\ kept' \in BOOLEAN
          /\ ierror' \in {"none", "success", "error"}
          /\ answer' \in {"none", "success", "error", "intern", "unsupported",
                         "value too large", "bad argument"}
      BY <2>1, <3>2
    <3>   QED  BY <3>4, <3>5, <3>6
  <2>   QED  BY <2>2, <2>3, LateIsTyped
<1>3. Settled  BY DEF BodyInv
<1>4. (AllNull' <=> AllNull) /\ (AllMade' <=> AllMade)  BY <1>1 DEF AllNull, AllMade
<1>5. Settled'  BY <1>1, <1>3, <1>4 DEF Settled
<1>6. withheld = "not root" => read' = {}  BY <1>1 DEF BodyInv, Running
<1>   QED  BY <1>1, <1>2, <1>5, <1>6, Stopping

\* The body returns.
LEMMA LeaveKeeps == ASSUME BodyInv, Leave PROVE BodyInv'
<1>1. flag # "conversion" /\ (kept <=> op = "in flight")
  BY DEF BodyInv, Settled, Leave
<1>2. UNCHANGED <<flag, op, kept>> /\ pc' = "idle"  BY DEF Leave, lastVars
<1>3. TypeOK'
  <2>1. DOMAIN << >> = {}  OBVIOUS
  <2>   QED  BY <1>2, <2>1 DEF BodyInv, TypeOK, Leave
<1>4. AtRest'  BY <1>1, <1>2 DEF AtRest, Untouched, NoOperationEnds, Leave
<1>5. Running' /\ NotCalled' /\ Called' /\ Settled' /\ ~Preparing'
  BY <1>2 DEF Running, NotCalled, Called, Settled, Preparing
<1>6. BeforeStaging' /\ InBlock' /\ InTemporaries' /\ WideIsChecked' /\ RootIsAsked'
  BY <1>5 DEF BeforeStaging, InBlock, InTemporaries, WideIsChecked, RootIsAsked
<1>   QED  BY <1>3, <1>4, <1>5, <1>6 DEF BodyInv

\* The wrapper reports that there is no such function.
LEMMA UnsupportedKeeps == ASSUME BodyInv, Unsupported PROVE BodyInv'
<1>1. pc = "body" /\ todo # << >> /\ Head(todo).do = "unsupported"
  BY DEF Unsupported, At
<1>2. "unsupported" \notin Late \cup Early \cup {"call"}
  BY DEF Early, Late, Asking, Opening, Staged, Fillings
<1>3. /\ todo \in Seq(StepsOf(Kinds, NamesOf(Part))) /\ Part = PartOf(body, arm)
      /\ After(body, arm) \in Unconverted \cup {K, << >>}
  BY <1>1, BodyRuns
<1>4. ierror = "none"
  <2>1. SUFFICES ASSUME ierror # "none" PROVE FALSE  OBVIOUS
  <2>2. todo \in Left(body, arm)  BY <1>1, <2>1 DEF BodyInv, Called
  <2>3. Len(todo) \in Nat /\ \A i \in 1 .. Len(todo) : todo[i].do \in Late
    BY <2>2, LeftIsLate, LateElements
  <2>4. Len(todo) >= 1 /\ Head(todo) = todo[1]
    BY <1>1, <1>3, TailElements
  <2>5. 1 \in 1 .. Len(todo)  BY <2>3, <2>4
  <2>   QED  BY <1>1, <1>2, <2>3, <2>4, <2>5
<1>5. ~BeforeCall(todo, body, arm)  BY <1>1, <1>2, <1>3, NextStep
<1>6. ~changed /\ NoOperationEnds /\ flag # "conversion" /\ Untouched
  BY <1>1, <1>4, <1>5 DEF BodyInv, NotCalled
<1>7. /\ UNCHANGED <<body, arm, todo, size, withheld, temps, block, passed, read, ierror,
                     completed, changed, flag, op, kept>>
      /\ pc' = "returned" /\ answer' = "unsupported"
      /\ out' = [o \in DOMAIN out |-> "null"]
  BY DEF Unsupported, Refuse, Null, inputVars, dataVars, noteVars, callVars, lastVars
<1>8. TypeOK'
  <2>1. DOMAIN out' = DOMAIN out /\ \A o \in DOMAIN out' : out'[o] = "null"  BY <1>7
  <2>2. /\ block \in {"none", "live", "freed", "kept", "leaked", "freed again"}
        /\ flag \in {"clear", "conversion", "callback"} /\ op \in {"none", "in flight"}
        /\ completed \in BOOLEAN /\ changed \in BOOLEAN /\ kept \in BOOLEAN
    BY DEF BodyInv, TypeOK
  <2>   QED  BY <1>1, <1>4, <1>7, <2>1, <2>2, LateIsTyped
<1>9. AllNull'  BY <1>7 DEF AllNull
<1>10. Settled'
  BY <1>4, <1>6, <1>7, <1>9 DEF Settled, AllNull, NoOperationEnds, Untouched
<1>11. withheld = "not root" => read' = {}  BY <1>1, <1>7 DEF BodyInv, Running
<1>   QED  BY <1>1, <1>7, <1>8, <1>10, <1>11, Stopping

-----------------------------------------------------------------------------
(***************************************************************************)
(* The beginning of a call.                                                *)
(***************************************************************************)
LEMMA EnterKeeps == ASSUME BodyInv, Enter PROVE BodyInv'
<1>1. PICK b \in Table : \E a \in ArmsOf(b) :
        /\ body' = b
        /\ arm' = a
        /\ todo' = Program(b, a)
        /\ out' = [o \in b.outs |-> "unset"]
        /\ size' \in IF PartOf(b, a).arrays = << >> THEN {"none"} ELSE {"none", "some"}
        /\ withheld' \in MayWithhold(b, a) \cap Withholding
  BY DEF Enter
<1>2. PICK a \in ArmsOf(b) :
        /\ body' = b
        /\ arm' = a
        /\ todo' = Program(b, a)
        /\ out' = [o \in b.outs |-> "unset"]
        /\ size' \in IF PartOf(b, a).arrays = << >> THEN {"none"} ELSE {"none", "some"}
        /\ withheld' \in MayWithhold(b, a) \cap Withholding
  BY <1>1
<1>3. /\ pc = "idle" /\ pc' = "body"
      /\ UNCHANGED <<temps, block, passed, read, ierror, completed, changed, answer,
                     flag, op, kept>>
  BY DEF Enter, dataVars, noteVars, callVars, lastVars
<1>4. /\ temps = {} /\ block = "none" /\ read = {} /\ NoOperationEnds
      /\ passed = {} /\ ierror = "none" /\ ~changed /\ answer = "none"
      /\ flag # "conversion"
  BY <1>3 DEF BodyInv, AtRest, Untouched
<1>5. WellFormed(b)  BY <1>1, TableAssumption
<1>6. PICK part : part = PartOf(b, a) /\ part \in {b.native, b.fallback}  BY DEF PartOf
<1>7. WellFormedPart(part)  BY <1>5, <1>6 DEF WellFormed
<1>8. Part' = part /\ Part' = PartOf(body', arm')  BY <1>2, <1>6 DEF Part
<1>9. ierror' = "none" /\ ~changed' /\ NoOperationEnds' /\ flag' # "conversion"
      /\ answer' = "none" /\ Untouched'
  BY <1>3, <1>4 DEF NoOperationEnds, Untouched
<1>10. \A o \in DOMAIN out' : out'[o] = "unset"  BY <1>2
<1>11. ASSUME a # "stub", b.calls # "nothing"
       PROVE  /\ todo' \in Seq(StepsOf(Kinds, NamesOf(part)))
              /\ BeforeCall(todo', b, a)
              /\ \A i \in DOMAIN part.pre : Holds(todo', part.pre[i])
              /\ \A i \in DOMAIN Filling(part) : Holds(todo', Filling(part)[i])
              /\ part.block => Holds(todo', Step("block"))
              /\ ~part.block /\ part.arrays # << >> => Holds(todo', Step("null"))
  BY <1>2, <1>5, <1>6, <1>11, ProgramShape
<1>12. a = "stub" => todo' = <<Step("unsupported")>>
  <2>1. a = "stub" => b.calls # "nothing"  BY DEF ArmsOf
  <2>2. ASSUME a = "stub", b.calls # "nothing"
        PROVE  Program(b, a) = <<Step("unsupported")>>
    BY <2>2 DEF Program
  <2>   QED  BY <1>2, <2>1, <2>2
<1>13. a # "stub" /\ b.calls = "nothing" => todo' = << >>
  <2>1. ASSUME a # "stub", b.calls = "nothing" PROVE Program(b, a) = << >>
    BY <2>1 DEF Program
  <2>   QED  BY <1>2, <2>1
<1>14. TypeOK'
  <2>1. todo' \in Seq(StepsOf(Kinds, NamesOf(part)))
    <3>1. Step("unsupported") \in StepsOf(Kinds, NamesOf(part))
      BY DEF Step, StepsOf, Kinds, NamesOf
    <3>2. \A x \in StepsOf(Kinds, NamesOf(part)) : <<x>> \in Seq(StepsOf(Kinds, NamesOf(part)))
      OBVIOUS
    <3>3. CASE a = "stub"  BY <1>12, <3>1, <3>2, <3>3
    <3>4. CASE a # "stub" /\ b.calls = "nothing"  BY <1>13, <3>4, EmptySeq
    <3>5. CASE a # "stub" /\ b.calls # "nothing"  BY <1>11, <3>5
    <3>   QED  BY <3>3, <3>4, <3>5
  <2>2. todo' \in Seq(StepsOf(Kinds, NamesOf(PartOf(body', arm'))))
    BY <1>8, <2>1
  <2>3. arm' \in ArmsOf(body') /\ DOMAIN out' = body'.outs  BY <1>2
  <2>4. size' \in {"none", "some"}  BY <1>2
  <2>5. withheld' \in {"nothing", "in place", "not root"}
    BY <1>2, WithholdingAssumption
  <2>6. temps' = {} /\ block' = "none" /\ ierror' = "none" /\ answer' = "none"
    BY <1>3, <1>4
  <2>7. completed' \in BOOLEAN /\ changed' \in BOOLEAN /\ kept' \in BOOLEAN
        /\ flag' \in {"clear", "conversion", "callback"} /\ op' \in {"none", "in flight"}
    BY <1>3 DEF BodyInv, TypeOK
  <2>   QED  BY <1>3, <1>10, <2>2, <2>3, <2>4, <2>5, <2>6, <2>7 DEF TypeOK
<1>15. AtRest' /\ Called' /\ Settled'  BY <1>3, <1>9 DEF AtRest, Called, Settled
<1>16. Running'  BY <1>1, <1>2, <1>3, <1>4 DEF Running
<1>17. NotCalled'
  <2>1. \A o \in DOMAIN out' : out'[o] # "handle"  BY <1>10
  <2>2. \/ Untouched' /\ arm' = "stub" /\ todo' = <<Step("unsupported")>>
        \/ Untouched' /\ arm' # "stub" /\ body'.calls = "nothing" /\ todo' = << >>
        \/ arm' # "stub" /\ body'.calls # "nothing" /\ BeforeCall(todo', body', arm')
    BY <1>2, <1>9, <1>11, <1>12, <1>13
  <2>   QED  BY <1>9, <2>1, <2>2 DEF NotCalled
<1>18. BeforeStaging'  BY <1>9 DEF BeforeStaging
<1>19. InBlock'
  <2>1. SUFFICES ASSUME Preparing', part.block
                 PROVE  temps' = {} /\ block' = "none" /\ Pending(todo', {"block"})
    BY <1>8 DEF InBlock
  <2>2. Holds(todo', Step("block"))  BY <1>2, <1>11, <2>1 DEF Preparing
  <2>3. Step("block").do \in {"block"}  BY StepKind
  <2>   QED  BY <1>9, <2>2, <2>3, HeldIsPending DEF Untouched
<1>20. InTemporaries'
  <2>1. SUFFICES ASSUME Preparing', ~part.block, part.arrays # << >>
                 PROVE  Pending(todo', {"null"})
    BY <1>8, <1>9 DEF InTemporaries, Untouched
  <2>2. Holds(todo', Step("null"))  BY <1>2, <1>11, <2>1 DEF Preparing
  <2>3. Step("null").do \in {"null"}  BY StepKind
  <2>   QED  BY <2>2, <2>3, HeldIsPending
<1>21. WideIsChecked'
  <2>1. SUFFICES ASSUME Preparing', a = "fallback", NEW w \in b.wide
                 PROVE  \/ Holds(todo', [do |-> "narrow", of |-> w])
                        \/ Holds(todo', [do |-> "counts", of |-> w])
    BY <1>2 DEF WideIsChecked
  <2>2. b.twin /\ part = b.fallback  BY <1>6, <2>1 DEF ArmsOf, PartOf
  <2>3. Checks(part, w)  BY <1>5, <2>1, <2>2 DEF WellFormed
  <2>4. a # "stub" /\ b.calls # "nothing"  BY <1>2, <2>1 DEF Preparing
  <2>   QED  BY <1>11, <2>3, <2>4 DEF Checks
<1>22. RootIsAsked'
  <2>1. SUFFICES ASSUME Preparing', withheld' = "not root"
                 PROVE  Holds(todo', [do |-> "extent", of |-> "root_extent"])
    BY DEF RootIsAsked
  <2>2. AsksRoot(part)  BY <1>2, <1>6, <2>1 DEF MayWithhold
  <2>3. PICK i \in DOMAIN part.pre : part.pre[i].of = "root_extent"  BY <2>2 DEF AsksRoot
  <2>4. part.pre[i] \in StepsOf({"narrow", "check", "extent"}, ParametersOf(part))
    BY <1>7, LenProperties, ElementOfSeq DEF WellFormedPart
  <2>5. part.pre[i] = [do |-> "extent", of |-> "root_extent"]
    BY <1>7, <2>3, <2>4 DEF WellFormedPart, StepsOf
  <2>6. a # "stub" /\ b.calls # "nothing"  BY <1>2, <2>1 DEF Preparing
  <2>   QED  BY <1>11, <2>5, <2>6
<1>   QED
  BY <1>14, <1>15, <1>16, <1>17, <1>18, <1>19, <1>20, <1>21, <1>22 DEF BodyInv

\* Before the first call.
LEMMA BodyStarts == ASSUME Init PROVE BodyInv
<1> USE DEF Init
<1>1. TypeOK
  <2>1. DOMAIN << >> = {}  OBVIOUS
  <2>   QED  BY <2>1 DEF TypeOK
<1>2. AtRest  BY DEF AtRest, Untouched, NoOperationEnds
<1>3. Running /\ NotCalled /\ Called /\ Settled /\ ~Preparing
  BY DEF Running, NotCalled, Called, Settled, Preparing
<1>4. BeforeStaging /\ InBlock /\ InTemporaries /\ WideIsChecked /\ RootIsAsked
  BY <1>3 DEF BeforeStaging, InBlock, InTemporaries, WideIsChecked, RootIsAsked
<1>   QED  BY <1>1, <1>2, <1>3, <1>4 DEF BodyInv

\* A step that is not the body's.
LEMMA BodyStands == ASSUME BodyInv, UNCHANGED vars PROVE BodyInv'
<1>1. UNCHANGED <<pc, todo, body, arm, size, withheld, temps, block, passed, read,
                  ierror, completed, out, changed, answer, flag, op, kept>>
  BY DEF vars, inputVars, dataVars, noteVars, callVars, outVars, lastVars
<1>2. /\ Part' = Part /\ (Untouched' <=> Untouched) /\ (AllNull' <=> AllNull)
      /\ (AllMade' <=> AllMade) /\ (NoOperationEnds' <=> NoOperationEnds)
      /\ (Preparing' <=> Preparing)
  BY <1>1 DEF Part, Untouched, AllNull, AllMade, NoOperationEnds, Preparing
<1>3. TypeOK'
  <2>1. /\ arm' \in IF pc' = "idle" THEN {"none"} ELSE ArmsOf(body')
        /\ todo' \in IF pc' = "idle" THEN {<< >>}
                                  ELSE Seq(StepsOf(Kinds, NamesOf(PartOf(body', arm'))))
        /\ temps' \subseteq (IF pc' = "idle" THEN {} ELSE ArraysOf(PartOf(body', arm')))
        /\ DOMAIN out' = (IF pc' = "idle" THEN {} ELSE body'.outs)
    BY <1>1 DEF BodyInv, TypeOK
  <2>2. /\ pc' \in {"idle", "body", "done", "returned"}
        /\ size' \in {"none", "some"}
        /\ withheld' \in {"nothing", "in place", "not root"}
        /\ block' \in {"none", "live", "freed", "kept", "leaked", "freed again"}
        /\ ierror' \in {"none", "success", "error"}
    BY <1>1 DEF BodyInv, TypeOK
  <2>3. completed' \in BOOLEAN /\ changed' \in BOOLEAN /\ kept' \in BOOLEAN
    BY <1>1, Zenon DEF BodyInv, TypeOK
  <2>4. \A o \in DOMAIN out' : out'[o] \in {"unset", "null", "handle"}
    BY <1>1 DEF BodyInv, TypeOK
  <2>5. /\ answer' \in {"none", "success", "error", "intern", "unsupported",
                       "value too large", "bad argument"}
        /\ flag' \in {"clear", "conversion", "callback"}
        /\ op' \in {"none", "in flight"}
    BY <1>1 DEF BodyInv, TypeOK
  <2>   QED  BY <2>1, <2>2, <2>3, <2>4, <2>5 DEF TypeOK
<1>4. AtRest' /\ Running' /\ NotCalled'
  BY <1>1, <1>2 DEF BodyInv, AtRest, Running, NotCalled
<1>5. BeforeStaging' /\ InBlock' /\ InTemporaries' /\ WideIsChecked' /\ RootIsAsked'
  BY <1>1, <1>2
     DEF BodyInv, BeforeStaging, InBlock, InTemporaries, WideIsChecked, RootIsAsked
<1>6. Called' /\ Settled'
  BY <1>1, <1>2 DEF BodyInv, Called, Settled
<1>   QED  BY <1>3, <1>4, <1>5, <1>6 DEF BodyInv

\* The invariant holds whatever the library was started with.
LEMMA BodyInvariant == LibrarySpec => []BodyInv
<1>1. LibraryInit => BodyInv  BY BodyStarts DEF LibraryInit
<1>2. ASSUME BodyInv, [LibraryNext]_allVars PROVE BodyInv'
  <2>1. CASE Next
    BY <1>2, <2>1, EnterKeeps, UnsupportedKeeps, NarrowKeeps, CheckCountKeeps,
       AskExtentKeeps, SetNullKeeps, StageKeeps, AllocBlockKeeps, FillCountsKeeps,
       FillHandlesKeeps, FillSendTypesKeeps, CallKeeps, ConvertOutsKeeps,
       ReleaseKeeps, TakeKeeps, KeepKeeps, FinishKeeps, UnstageKeeps, LeaveKeeps
       DEF Next, BodyNext
  <2>2. CASE UNCHANGED vars  BY <1>2, <2>2, BodyStands
  <2>   QED  BY <1>2, <2>1, <2>2 DEF LibraryNext, allVars
<1>   QED  BY <1>1, <1>2, PTL DEF LibrarySpec

-----------------------------------------------------------------------------
\* The types of a body's state, in every run of the library: what is left of an
\* arm is made of its own steps, and only its own arrays are staged.
\* (wrappers.c, every body.)
THEOREM BodiesAreTyped == LibrarySpec => []TypeOK
<1>1. BodyInv => TypeOK  BY DEF BodyInv
<1>   QED  BY <1>1, BodyInvariant, PTL

\* Every path out of every body leaves the handles it makes and changes as its
\* answer says: all made, or all null; converted exactly if the implementation
\* was called.  (wrappers.c: the assignments of null handles before each return
\* and before the first "goto done"; NOTES.md 5.4.)
THEOREM EveryPathSetsItsOutputs == LibrarySpec => []OutputsMatchAnswer
<1>1. BodyInv => OutputsMatchAnswer
  <2>1. SUFFICES ASSUME BodyInv, pc = "returned"
                 PROVE  /\ \A o \in DOMAIN out : out[o] # "unset"
                        /\ ierror # "success" => \A o \in DOMAIN out : out[o] = "null"
                        /\ answer = "success" => \A o \in DOMAIN out : out[o] = "handle"
                        /\ body.changes # {} => (changed <=> ierror # "none")
    BY DEF OutputsMatchAnswer
  <2>   QED  BY <2>1 DEF BodyInv, Settled, AllNull, AllMade
<1>   QED  BY <1>1, BodyInvariant, PTL

\* No path out of a body leaves a staged array on the heap, and a block is freed
\* at most once.  (staging.c; the label "done" of wrappers.c.)
THEOREM EveryPathFrees == LibrarySpec => []TemporariesAreFreed
<1>1. BodyInv => TemporariesAreFreed
  <2>1. SUFFICES ASSUME BodyInv PROVE TemporariesAreFreed  OBVIOUS
  <2>2. pc = "returned" => /\ temps = {}
                           /\ block = "live" => answer = "intern" /\ ierror = "success"
    BY <2>1 DEF BodyInv, Settled
  <2>3. block # "freed again"
    <3>1. CASE pc = "idle"  BY <2>1, <3>1 DEF BodyInv, AtRest, Untouched
    <3>2. CASE pc \in {"done", "returned"}  BY <2>1, <3>2 DEF BodyInv, Settled
    <3>3. CASE pc = "body" /\ ierror # "none"
      BY <2>1, <3>3 DEF BodyInv, Called
    <3>4. CASE pc = "body" /\ ierror = "none"
      <4>1. CASE Preparing  BY <2>1, <4>1 DEF BodyInv, InBlock, InTemporaries
      <4>2. CASE ~Preparing
        BY <2>1, <3>4, <4>2 DEF BodyInv, NotCalled, Preparing, Untouched
      <4>   QED  BY <4>1, <4>2
    <3>5. pc \in {"idle", "body", "done", "returned"}  BY <2>1 DEF BodyInv, TypeOK
    <3>   QED  BY <3>1, <3>2, <3>3, <3>4, <3>5
  <2>   QED  BY <2>2, <2>3 DEF TemporariesAreFreed
<1>   QED  BY <1>1, BodyInvariant, PTL

\* Between calls, the table of requests has a block exactly if an operation that
\* reads it is in flight.  (wrappers.c: mpiwrapper_staged_release in the bodies
\* that complete requests, before an array of them is overwritten.)
THEOREM BlocksOutliveTheirOperations == LibrarySpec => []BlockFollowsItsOperation
<1>1. BodyInv => BlockFollowsItsOperation
  BY DEF BodyInv, AtRest, NoOperationEnds, BlockFollowsItsOperation
<1>   QED  BY <1>1, BodyInvariant, PTL

\* No body leaves the flag of its own conversions set.  (handles.c:80-83.)
THEOREM EveryBodyTakesItsRejections == LibrarySpec => []NoRejectionIsPassedOn
<1>1. BodyInv => NoRejectionIsPassedOn
  BY DEF BodyInv, AtRest, NoRejectionIsPassedOn
<1>   QED  BY <1>1, BodyInvariant, PTL

\* A body that falls back on the twin of its function has checked every value
\* that is narrower there.  (wrappers.c, every "#elif" arm.)
THEOREM TwinsGetSmallValues == LibrarySpec => []OnlySmallValuesReachTheTwin
<1>1. BodyInv => OnlySmallValuesReachTheTwin
  BY AtTheCall DEF OnlySmallValuesReachTheTwin
<1>   QED  BY <1>1, BodyInvariant, PTL

\* Where only the root has the arrays, no other process reads them.  With calls
\* in place it is not so: the runs show which bodies read a send array then.
\* (extents.c:39-56.)
THEOREM OthersDoNotReadTheArraysOfTheRoot ==
  ASSUME "in place" \notin Withholding
  PROVE  LibrarySpec => []IgnoredIsNotRead
<1>1. BodyInv => IgnoredIsNotRead
  <2>1. SUFFICES ASSUME BodyInv PROVE read \cap Unreadable = {}
    BY DEF IgnoredIsNotRead
  <2>2. CASE pc = "idle"  BY <2>1, <2>2 DEF BodyInv, AtRest, Untouched
  <2>3. CASE pc # "idle"
    <3>1. withheld # "in place" /\ (withheld = "not root" => read = {})
      BY <2>1, <2>3 DEF BodyInv, Running
    <3>   QED  BY <3>1 DEF Unreadable
  <2>   QED  BY <2>2, <2>3
<1>   QED  BY <1>1, BodyInvariant, PTL
=============================================================================
