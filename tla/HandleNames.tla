---------------------------- MODULE HandleNames ------------------------------
(***************************************************************************)
(* What handle serialization promises, without a table and a counter:      *)
(*   - a name stands for one handle for ever;                              *)
(*   - _fromint answers from the names as they are at one moment;          *)
(*   - _toint answers with a name the handle has at one moment, gives it   *)
(*     one, or fails -- and does either of the latter only for a handle    *)
(*     that had not been answered a name when the call began;              *)
(*   - it fails only if every name is given, or is about to be given by    *)
(*     another call.                                                       *)
(* Serialize implements it (see Promise there).                            *)
(***************************************************************************)
CONSTANTS
  Threads, Values,
  Slots,     \* the names there are
  Unset,     \* a name that stands for nothing yet
  None       \* no name, and no handle

VARIABLES
  name,      \* what each name stands for
  given,     \* every <<handle, name>> that a call has answered
  asked,     \* what each thread waits for: <<direction, operand, was it given>>
  answer     \* and its answer: << >> while there is none

nameVars == <<name, given, asked, answer>>

Nothing == <<"nothing", None, FALSE>>

Init ==
  /\ name   = [s \in Slots |-> Unset]
  /\ given  = {}
  /\ asked  = [t \in Threads |-> Nothing]
  /\ answer = [t \in Threads |-> << >>]

Ask(t, question) ==
  /\ asked[t] = Nothing
  /\ asked' = [asked EXCEPT ![t] = question]
  /\ UNCHANGED <<name, given, answer>>

AskName(t) ==
  \E h \in Values : Ask(t, <<"toint", h, \E s \in Slots : <<h, s>> \in given>>)

\* The integers that are no name of a handle go by None.
AskHandle(t) ==
  \E s \in Slots \cup {None} :
    Ask(t, <<"fromint", s, \E h \in Values : <<h, s>> \in given>>)

Waits(t, direction) == asked[t][1] = direction /\ answer[t] = << >>

Say(t, result) ==
  /\ answer' = [answer EXCEPT ![t] = <<result>>]
  /\ UNCHANGED <<given, asked>>

FindName(t) ==
  /\ Waits(t, "toint")
  /\ \E s \in Slots : name[s] = asked[t][2] /\ Say(t, s)
  /\ UNCHANGED name

\* A call that may still give the handle it was asked for a name.
MayGive(t) == Waits(t, "toint") /\ ~asked[t][3]

GiveName(t) ==
  /\ MayGive(t)
  /\ \E s \in Slots :
       /\ name[s] = Unset
       /\ name' = [name EXCEPT ![s] = asked[t][2]]
       /\ Say(t, s)

\* There is another giver for every name that is left.
NoNameIsLeft(t) ==
  \E giver \in [{s \in Slots : name[s] = Unset} -> Threads \ {t}] :
    /\ \A s \in DOMAIN giver : MayGive(giver[s])
    /\ \A r, s \in DOMAIN giver : giver[r] = giver[s] => r = s

FailToName(t) ==
  /\ MayGive(t)
  /\ NoNameIsLeft(t)
  /\ Say(t, None)
  /\ UNCHANGED name

FindHandle(t) ==
  /\ Waits(t, "fromint")
  /\ LET s == asked[t][2]
     IN  Say(t, IF s \in Slots /\ name[s] # Unset THEN name[s] ELSE None)
  /\ UNCHANGED name

Finish(t) ==
  /\ answer[t] # << >>
  /\ given' = IF asked[t][1] = "toint" /\ answer[t] # <<None>>
              THEN given \cup {<<asked[t][2], answer[t][1]>>} ELSE given
  /\ asked'  = [asked EXCEPT ![t] = Nothing]
  /\ answer' = [answer EXCEPT ![t] = << >>]
  /\ UNCHANGED name

Next ==
  \E t \in Threads :
    \/ AskName(t) \/ FindName(t) \/ GiveName(t) \/ FailToName(t)
    \/ AskHandle(t) \/ FindHandle(t) \/ Finish(t)

Spec == Init /\ [][Next]_nameVars
=============================================================================
