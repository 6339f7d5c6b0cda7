------------------------------ MODULE KeyvalMap ------------------------------
(***************************************************************************)
(* What the keyval registry promises, without a table: a partial map from  *)
(* the implementation's keyval numbers to ABI keyvals in which             *)
(*   - an ABI keyval is bound once, and never again after that;            *)
(*   - a conversion asked for by a thread is answered in one step, from    *)
(*     the map as it stands then.                                          *)
(* Keyvals implements it (see Map there): its scan takes many steps, while *)
(* other threads append.                                                   *)
(***************************************************************************)
CONSTANTS Threads, Values, Slots, NoKey

VARIABLES
  bind,      \* the ABI keyval of each number, or NoKey
  issued,    \* every ABI keyval bound so far
  asked,     \* the conversion each thread waits for: <<direction, operand>>
  answer     \* and its answer, or NoKey while there is none

mapVars == <<bind, issued, asked, answer>>

Nothing == <<"nothing", NoKey>>

Init ==
  /\ bind   = [n \in Values |-> NoKey]
  /\ issued = {}
  /\ asked  = [t \in Threads |-> Nothing]
  /\ answer = [t \in Threads |-> NoKey]

Bind ==
  /\ \E n \in Values, s \in Slots \ issued :
       /\ bind[n] = NoKey
       /\ bind'   = [bind EXCEPT ![n] = s]
       /\ issued' = issued \cup {s}
  /\ UNCHANGED <<asked, answer>>

\* A thread asks, having used the answer to its previous question if any.
Ask(t, question) ==
  /\ asked[t] # Nothing => answer[t] # NoKey
  /\ asked'  = [asked EXCEPT ![t] = question]
  /\ answer' = [answer EXCEPT ![t] = NoKey]
  /\ UNCHANGED <<bind, issued>>

AskToAbi(t)   == \E n \in Values : bind[n] # NoKey /\ Ask(t, <<"toabi", n>>)
AskFromAbi(t) == \E s \in issued : Ask(t, <<"fromabi", s>>)

Answer(t) ==
  LET direction == asked[t][1]
      operand   == asked[t][2]
  IN
  /\ answer[t] = NoKey
  /\ \/ /\ direction = "toabi"
        /\ answer' = [answer EXCEPT ![t] = bind[operand]]
     \/ /\ direction = "fromabi"
        /\ \E n \in Values : /\ bind[n] = operand
                             /\ answer' = [answer EXCEPT ![t] = n]
  /\ UNCHANGED <<bind, issued, asked>>

\* The thread uses the answer; that may end the use of one number.
Finish(t) ==
  /\ answer[t] # NoKey
  /\ asked'  = [asked EXCEPT ![t] = Nothing]
  /\ answer' = [answer EXCEPT ![t] = NoKey]
  /\ \/ UNCHANGED bind
     \/ \E n \in Values : bind' = [bind EXCEPT ![n] = NoKey]
  /\ UNCHANGED issued

Next == Bind \/ \E t \in Threads : AskToAbi(t) \/ AskFromAbi(t) \/ Answer(t) \/ Finish(t)

Spec == Init /\ [][Next]_mapVars
=============================================================================
