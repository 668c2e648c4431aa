----------------------------- MODULE Executor -----------------------------
(***************************************************************************)
(* NnExecutor: a pool of threads that runs the steps of a forward pass in  *)
(* lockstep.  forward() publishes a new epoch and sleeps until the run is  *)
(* done or not alive; the threads meet after every step at a barrier of    *)
(* two counters (doneThreadCount, currentStepIndex) they spin on, and at   *)
(* the end of the run at a third (doneRunThreadCount); between runs they   *)
(* sleep on a condition variable.                                          *)
(*                                                                         *)
(* Every atomic load, store or fetch_add another thread can come between   *)
(* is a step of its own; the body of a step, a device operation or a       *)
(* synchronisation with other nodes, is one.  After an exception of        *)
(* forward() the program destroys the executor.                            *)
(***************************************************************************)
EXTENDS Integers, FiniteSets

CONSTANTS
  Threads,   \* the threads of the pool
  NSteps,    \* nSteps: steps of a forward pass
  CanFail,   \* TRUE: a step may throw, and may outlast the stall timeout
  MaxRuns    \* bound: calls of forward()

ASSUME ExecutorAssumption ==
  /\ IsFiniteSet(Threads) /\ Threads # {}
  /\ NSteps \in Nat
  /\ CanFail \in BOOLEAN
  /\ MaxRuns \in Nat

NThreads == Cardinality(Threads)

VARIABLES
  main,         \* where the owner of the executor is
  runs,         \* calls of forward() so far
  \* NnExecutorContext
  epoch, currentStepIndex, doneThreadCount, doneRunThreadCount,
  isAlive, isShutdown, isRunDone,
  mutex,        \* TRUE: a thread that found its predicate false holds the mutex
  \* the threads
  pc, localEpoch,
  myStep,       \* the step a thread has read from currentStepIndex
  worked        \* history: steps of this run whose body the thread finished

counters == <<epoch, currentStepIndex, doneThreadCount, doneRunThreadCount>>
flags    == <<isAlive, isShutdown, isRunDone>>
owner    == <<main, runs>>
locals   == <<localEpoch, myStep, worked>>
vars == <<owner, counters, flags, mutex, pc, locals>>

-----------------------------------------------------------------------------
(* The owner: forward() and the destructor.                                *)

\* cv.notify_all: the sleepers take the mutex and look again.
Woken == [t \in Threads |-> IF pc[t] = "asleep" THEN "wait" ELSE pc[t]]

\* A slip: the pass starts where the last one ended.
BeginNoRewind ==
  /\ main = "idle" /\ runs < MaxRuns /\ ~mutex
  /\ isAlive' = TRUE /\ isRunDone' = FALSE
  /\ doneThreadCount' = 0 /\ doneRunThreadCount' = 0
  /\ epoch' = epoch + 1
  /\ runs' = runs + 1
  /\ worked' = [t \in Threads |-> 0]
  /\ main' = "notify"
  /\ UNCHANGED <<currentStepIndex, isShutdown, mutex, pc, localEpoch, myStep>>

\* forward() up to the end of its lock_guard.
Begin ==
  /\ main = "idle" /\ runs < MaxRuns /\ ~mutex
  /\ isAlive' = TRUE /\ isRunDone' = FALSE
  /\ currentStepIndex' = 0 /\ doneThreadCount' = 0 /\ doneRunThreadCount' = 0
  /\ epoch' = epoch + 1
  /\ runs' = runs + 1
  /\ worked' = [t \in Threads |-> 0]
  /\ main' = "notify"
  /\ UNCHANGED <<isShutdown, mutex, pc, localEpoch, myStep>>

NotifyRun ==
  /\ main = "notify"
  /\ pc' = Woken
  /\ main' = "waiting"
  /\ UNCHANGED <<runs, counters, flags, mutex, locals>>

\* The loop around cv.wait_for looks again every 50 ms at the latest.
Finish ==
  /\ main = "waiting" /\ ~mutex
  /\ isRunDone \/ ~isAlive
  /\ main' = IF isAlive THEN "idle" ELSE "thrown"
  /\ UNCHANGED <<runs, counters, flags, mutex, pc, locals>>

\* No step was completed for stallTimeoutMs.
StallTimeout ==
  /\ CanFail
  /\ main = "waiting" /\ ~mutex
  /\ ~isRunDone /\ isAlive
  /\ isAlive' = FALSE /\ isRunDone' = TRUE
  /\ epoch' = epoch + 1
  /\ pc' = Woken
  /\ main' = "thrown"
  /\ UNCHANGED <<runs, currentStepIndex, doneThreadCount, doneRunThreadCount, isShutdown, mutex,
                 locals>>

\* ~NnExecutor: two stores without the mutex, a notification, the joins.
DestructorShutdown ==
  /\ main \in {"idle", "thrown"}
  /\ isShutdown' = TRUE
  /\ main' = "dtorEpoch"
  /\ UNCHANGED <<runs, counters, isAlive, isRunDone, mutex, pc, locals>>

DestructorEpoch ==
  /\ main = "dtorEpoch"
  /\ epoch' = epoch + 1
  /\ main' = "dtorNotify"
  /\ UNCHANGED <<runs, currentStepIndex, doneThreadCount, doneRunThreadCount, flags, mutex, pc,
                 locals>>

DestructorNotify ==
  /\ main = "dtorNotify"
  /\ pc' = Woken
  /\ main' = "dtorJoin"
  /\ UNCHANGED <<runs, counters, flags, mutex, locals>>

DestructorJoin ==
  /\ main = "dtorJoin"
  /\ \A t \in Threads : pc[t] = "exited"
  /\ main' = "destroyed"
  /\ UNCHANGED <<runs, counters, flags, mutex, pc, locals>>

-----------------------------------------------------------------------------
(* A thread of the pool.                                                   *)

Goto(t, label) == pc' = [pc EXCEPT ![t] = label]

\* cv.wait takes the mutex and evaluates its predicate; if it is false the
\* thread releases the mutex when it is asleep.
EvaluatePredicate(t) ==
  /\ pc[t] = "wait" /\ ~mutex
  /\ IF isShutdown \/ epoch # localEpoch[t]
     THEN Goto(t, "awake") /\ UNCHANGED mutex
     ELSE Goto(t, "toSleep") /\ mutex' = TRUE
  /\ UNCHANGED <<owner, counters, flags, locals>>

Sleep(t) ==
  /\ pc[t] = "toSleep"
  /\ mutex' = FALSE
  /\ Goto(t, "asleep")
  /\ UNCHANGED <<owner, counters, flags, locals>>

\* C++ lets a wait end without a notification.
WakeSpuriously(t) ==
  /\ pc[t] = "asleep"
  /\ Goto(t, "wait")
  /\ UNCHANGED <<owner, counters, flags, mutex, locals>>

CheckShutdown(t) ==
  /\ pc[t] = "awake"
  /\ Goto(t, IF isShutdown THEN "exited" ELSE "readEpoch")
  /\ UNCHANGED <<owner, counters, flags, mutex, locals>>

ReadEpoch(t) ==
  /\ pc[t] = "readEpoch"
  /\ localEpoch' = [localEpoch EXCEPT ![t] = epoch]
  /\ Goto(t, "top")
  /\ UNCHANGED <<owner, counters, flags, mutex, myStep, worked>>

\* while (isAlive)
CheckAlive(t) ==
  /\ pc[t] = "top"
  /\ Goto(t, IF isAlive THEN "load" ELSE "leave")
  /\ UNCHANGED <<owner, counters, flags, mutex, locals>>

LoadStep(t) ==
  /\ pc[t] = "load"
  /\ myStep' = [myStep EXCEPT ![t] = currentStepIndex]
  /\ Goto(t, IF currentStepIndex = NSteps THEN "leave" ELSE "exec")
  /\ UNCHANGED <<owner, counters, flags, mutex, localEpoch, worked>>

ExecuteStep(t) ==
  /\ pc[t] = "exec"
  /\ worked' = [worked EXCEPT ![t] = @ + 1]
  /\ Goto(t, "arrive")
  /\ UNCHANGED <<owner, counters, flags, mutex, localEpoch, myStep>>

\* The catch block, with its notification.
FailStep(t) ==
  /\ CanFail
  /\ pc[t] = "exec"
  /\ isAlive' = FALSE
  /\ pc' = [Woken EXCEPT ![t] = "leave"]
  /\ UNCHANGED <<owner, counters, isShutdown, isRunDone, mutex, locals>>

\* Slips: the barrier opens one arrival early; its counter is not reset.
AllButOneArrived == doneThreadCount + 2 >= NThreads
ArriveNoReset(t) ==
  /\ pc[t] = "arrive"
  /\ doneThreadCount' = doneThreadCount + 1
  /\ Goto(t, IF doneThreadCount >= NThreads - 1 THEN "advance" ELSE "spin")
  /\ UNCHANGED <<owner, epoch, currentStepIndex, doneRunThreadCount, flags, mutex, locals>>

\* currentCount == nThreads - 1 of doneThreadCount.fetch_add
AllArrived == doneThreadCount = NThreads - 1

Arrive(t) ==
  /\ pc[t] = "arrive"
  /\ doneThreadCount' = doneThreadCount + 1
  /\ Goto(t, IF AllArrived THEN "reset" ELSE "spin")
  /\ UNCHANGED <<owner, epoch, currentStepIndex, doneRunThreadCount, flags, mutex, locals>>

\* A slip: the next step opens before the counter is reset.
ResetLate(t) ==
  \/ /\ pc[t] = "reset"
     /\ currentStepIndex' = currentStepIndex + 1
     /\ Goto(t, "resetLate")
     /\ UNCHANGED <<owner, epoch, doneThreadCount, doneRunThreadCount, flags, mutex, locals>>
  \/ /\ pc[t] = "resetLate"
     /\ doneThreadCount' = 0
     /\ Goto(t, "top")
     /\ UNCHANGED <<owner, epoch, currentStepIndex, doneRunThreadCount, flags, mutex, locals>>

\* The last to arrive resets the counter, then lets the others go on.
ResetCount(t) ==
  /\ pc[t] = "reset"
  /\ doneThreadCount' = 0
  /\ Goto(t, "advance")
  /\ UNCHANGED <<owner, epoch, currentStepIndex, doneRunThreadCount, flags, mutex, locals>>

Advance(t) ==
  /\ pc[t] = "advance"
  /\ currentStepIndex' = currentStepIndex + 1
  /\ Goto(t, "top")
  /\ UNCHANGED <<owner, epoch, doneThreadCount, doneRunThreadCount, flags, mutex, locals>>

\* A slip: a spinning thread looks for the next step only.
SpinsOnStepOnly(t) == currentStepIndex = myStep[t]

\* The condition of the yield loop.
Spins(t) ==
  /\ currentStepIndex = myStep[t]
  /\ isAlive /\ ~isShutdown
  /\ epoch = localEpoch[t]

StopSpinning(t) ==
  /\ pc[t] = "spin" /\ ~Spins(t)
  /\ Goto(t, "top")
  /\ UNCHANGED <<owner, counters, flags, mutex, locals>>

\* A slip: the first to leave ends the run.
FirstOut == doneRunThreadCount = 0

\* runCount == nThreads - 1 of doneRunThreadCount.fetch_add
LastOut == doneRunThreadCount = NThreads - 1

Leave(t) ==
  /\ pc[t] = "leave"
  /\ doneRunThreadCount' = doneRunThreadCount + 1
  /\ Goto(t, IF LastOut THEN "setDone" ELSE "wait")
  /\ UNCHANGED <<owner, epoch, currentStepIndex, doneThreadCount, flags, mutex, locals>>

SetRunDone(t) ==
  /\ pc[t] = "setDone"
  /\ isRunDone' = TRUE
  /\ pc' = [Woken EXCEPT ![t] = "wait"]
  /\ UNCHANGED <<owner, counters, isAlive, isShutdown, mutex, locals>>

-----------------------------------------------------------------------------
Init ==
  /\ main = "idle" /\ runs = 0
  /\ epoch = 0 /\ currentStepIndex = 0 /\ doneThreadCount = 0 /\ doneRunThreadCount = 0
  /\ isAlive = TRUE /\ isShutdown = FALSE /\ isRunDone = TRUE
  /\ mutex = FALSE
  /\ pc = [t \in Threads |-> "wait"]
  /\ localEpoch = [t \in Threads |-> 0]
  /\ myStep = [t \in Threads |-> 0]
  /\ worked = [t \in Threads |-> NSteps]

ThreadStep(t) ==
  \/ EvaluatePredicate(t)
  \/ Sleep(t)
  \/ CheckShutdown(t)
  \/ ReadEpoch(t)
  \/ CheckAlive(t)
  \/ LoadStep(t)
  \/ ExecuteStep(t)
  \/ FailStep(t)
  \/ Arrive(t)
  \/ ResetCount(t)
  \/ Advance(t)
  \/ StopSpinning(t)
  \/ Leave(t)
  \/ SetRunDone(t)

OwnerReturns ==
  NotifyRun \/ Finish \/ DestructorEpoch \/ DestructorNotify \/ DestructorJoin

Next ==
  \/ Begin
  \/ OwnerReturns
  \/ StallTimeout
  \/ DestructorShutdown
  \/ \E t \in Threads : ThreadStep(t) \/ WakeSpuriously(t)

Spec == Init /\ [][Next]_vars

\* The threads are scheduled and every step ends; forward() and the
\* destructor go on.  The stall timeout need not come, and wakeups without a
\* notification do not go on forever.
FairSpec ==
  /\ Spec
  /\ WF_vars(OwnerReturns)
  /\ \A t \in Threads : WF_vars(ThreadStep(t))
  /\ \A t \in Threads : <>[][~WakeSpuriously(t)]_vars

-----------------------------------------------------------------------------
OwnerStates ==
  {"idle", "notify", "waiting", "thrown", "dtorEpoch", "dtorNotify", "dtorJoin", "destroyed"}
Outside == {"wait", "toSleep", "asleep"}
ThreadStates ==
  Outside \cup {"awake", "readEpoch", "top", "load", "exec", "arrive", "reset", "advance", "spin",
                "leave", "setDone", "exited"}

\* The counters of NnExecutorContext stay within the pool and the pass: no
\* barrier counts more arrivals than there are threads.
TypeOK ==
  /\ main \in OwnerStates
  /\ runs \in 0 .. MaxRuns
  /\ epoch \in 0 .. MaxRuns + 2
  /\ currentStepIndex \in 0 .. NSteps
  /\ doneThreadCount \in 0 .. NThreads
  /\ doneRunThreadCount \in Nat
  /\ isAlive \in BOOLEAN /\ isShutdown \in BOOLEAN /\ isRunDone \in BOOLEAN
  /\ mutex \in BOOLEAN
  /\ pc \in [Threads -> ThreadStates]
  /\ localEpoch \in [Threads -> 0 .. MaxRuns + 2]
  /\ myStep \in [Threads -> 0 .. NSteps]
  /\ worked \in [Threads -> 0 .. NSteps]

\* The threads of a step share its input and output buffers: no thread is in
\* a step while another has not finished the step before it, or while another
\* is in a later one.
Lockstep ==
  \A t, u \in Threads : pc[t] = "exec" => worked[t] = myStep[t] /\ worked[u] >= myStep[t]

\* When forward() returns normally no thread has anything of the run left to
\* do, so that the next call can reset the counters under their feet.
RunIsOver ==
  main = "idle" =>
    \A t \in Threads : pc[t] \in Outside /\ worked[t] = NSteps

\* forward() returns or throws; a failing thread does not leave the others
\* waiting at the barrier.
ForwardReturns == main = "notify" ~> main \in {"idle", "thrown"}

\* The destructor's joins end, whatever state an exception left the threads
\* in.  The exception is a thread between a predicate found false and its
\* sleep: the destructor stores and notifies without the mutex, so that such
\* a thread may sleep for good.
DestructorReturns ==
  (main = "dtorEpoch" /\ \A t \in Threads : pc[t] # "toSleep") ~> main = "destroyed"

\* The pool keeps forward()'s promise to its caller.
Contract == INSTANCE ForwardContract WITH
  phase <- CASE main = "idle" -> "ready"
             [] main \in {"notify", "waiting"} -> "running"
             [] main = "thrown" -> "failed"
             [] main \in {"dtorEpoch", "dtorNotify", "dtorJoin"} -> "closing"
             [] main = "destroyed" -> "gone"
KeepsContract == Contract!Spec

=============================================================================
