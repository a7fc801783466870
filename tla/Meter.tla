-------------------------------- MODULE Meter --------------------------------
(* What each stage of the agent promises of the numbers that pass through it:  *)
(* something is done, amounts of it are told to the next stage, and over all   *)
(* tellings no more is told than was done.  What is told is never taken back.  *)
EXTENDS Naturals

CONSTANT Keys           \* what is counted apart

VARIABLES done,         \* key -> amount that has happened
          told          \* key -> amount that was passed on

vars == <<done, told>>

Amounts == [Keys -> Nat]

Init ==
  /\ done \in Amounts
  /\ told = [k \in Keys |-> 0]

Do ==
  /\ done' \in Amounts
  /\ \A k \in Keys : done'[k] >= done[k]
  /\ UNCHANGED told

Tell ==
  /\ told' \in Amounts
  /\ \A k \in Keys : told'[k] >= told[k] /\ told'[k] <= done[k]
  /\ UNCHANGED done

Next == Do \/ Tell

Spec == Init /\ [][Next]_vars
==============================================================================
