------------------------- MODULE StageSkipContract -------------------------
(***************************************************************************)
(* What pipeline inference with stage skip promises to the driver above    *)
(* RootLlmInference: every step asked for is answered once and in order,   *)
(* by every stage or by every stage but the target; the steps that may     *)
(* leave the target out are chosen while they are in flight, and never     *)
(* more than MaxConsecutive in a row.                                      *)
(***************************************************************************)
EXTENDS Integers

CONSTANTS Stages, Target, MaxConsecutive

VARIABLES
  mayBypass,  \* TRUE: the command line executes the skip decisions
  asked,      \* steps asked for: 0 .. asked - 1
  answered,   \* steps answered: 0 .. answered - 1
  chosen,     \* steps chosen for the bypass
  route       \* stages behind the last answer

vars == <<mayBypass, asked, answered, chosen, route>>

Init ==
  /\ mayBypass \in BOOLEAN
  /\ asked = 0
  /\ answered = 0
  /\ chosen = {}
  /\ route = {}

Ask ==
  /\ asked' = asked + 1
  /\ UNCHANGED <<mayBypass, answered, chosen, route>>

\* The newest step, unless the MaxConsecutive steps before it were all chosen.
Choose ==
  /\ answered < asked
  /\ asked - 1 \notin chosen
  /\ ~(asked - 1 - MaxConsecutive .. asked - 2 \subseteq chosen)
  /\ chosen' = chosen \cup {asked - 1}
  /\ UNCHANGED <<mayBypass, asked, answered, route>>

Answer ==
  /\ answered < asked
  /\ answered' = answered + 1
  /\ route' = IF mayBypass /\ answered \in chosen THEN Stages \ {Target} ELSE Stages
  /\ UNCHANGED <<mayBypass, asked, chosen>>

Next == Ask \/ Choose \/ Answer

Spec == Init /\ [][Next]_vars

=============================================================================
