-------------------------- MODULE ForwardContract --------------------------
(***************************************************************************)
(* What NnExecutor::forward promises to the thread that calls it: every    *)
(* thread of the pool works on every step of the pass, no thread on a step *)
(* before all have finished the step before it, and when the call returns  *)
(* normally all of it is done.  A call that throws may leave threads at    *)
(* work, which the destructor waits for.                                   *)
(***************************************************************************)
EXTENDS Integers

CONSTANTS Threads, NSteps

VARIABLES
  phase,   \* "ready", "running", "failed", "closing", "gone"
  worked   \* worked[t]: steps of the pass thread t has worked on

vars == <<phase, worked>>

Init ==
  /\ phase = "ready"
  /\ worked = [t \in Threads |-> NSteps]

Call ==
  /\ phase = "ready"
  /\ phase' = "running"
  /\ worked' = [t \in Threads |-> 0]

Work(t) ==
  /\ phase \in {"running", "failed", "closing"}
  /\ worked[t] < NSteps
  /\ \A u \in Threads : worked[u] >= worked[t]
  /\ worked' = [worked EXCEPT ![t] = @ + 1]
  /\ UNCHANGED phase

Return ==
  /\ phase = "running"
  /\ \A t \in Threads : worked[t] = NSteps
  /\ phase' = "ready"
  /\ UNCHANGED worked

Throw ==
  /\ phase = "running"
  /\ phase' = "failed"
  /\ UNCHANGED worked

Close ==
  /\ phase \in {"ready", "failed"}
  /\ phase' = "closing"
  /\ UNCHANGED worked

Closed ==
  /\ phase = "closing"
  /\ phase' = "gone"
  /\ UNCHANGED worked

Next ==
  \/ Call
  \/ \E t \in Threads : Work(t)
  \/ Return
  \/ Throw
  \/ Close
  \/ Closed

Spec == Init /\ [][Next]_vars

=============================================================================
