--------------------------- MODULE ExecutorProofs ---------------------------
(***************************************************************************)
(* The barrier and the end of a run, for every number of threads, steps    *)
(* and runs, with and without failing steps.                               *)
(***************************************************************************)
EXTENDS Executor, FiniteSetTheorems, TLAPS

-----------------------------------------------------------------------------
(* The inductive invariant.                                                *)

InRun   == main \in {"notify", "waiting"}
Closing == main \in {"dtorEpoch", "dtorNotify", "dtorJoin", "destroyed"}

\* The threads that have finished the current step and been counted, and
\* those that have left the run.
Arrived == {t \in Threads : worked[t] = currentStepIndex + 1 /\ pc[t] # "arrive"}
Out     == {t \in Threads : localEpoch[t] = epoch /\ pc[t] \in Outside \cup {"setDone"}}

\* The mutex is held by the one thread on its way to sleep.
MutexHeld ==
  \A t \in Threads : pc[t] = "toSleep" =>
    mutex /\ \A u \in Threads \ {t} : pc[u] # "toSleep"

\* The epoch is the number of runs, and one more for a stall timeout and for
\* the destructor.
EpochCounts ==
  /\ main \in {"idle", "notify", "waiting"} => epoch = runs
  /\ main \in {"thrown", "dtorEpoch"} => epoch <= runs + 1
  /\ epoch <= runs + 2
  /\ InRun \/ ~isAlive => runs > 0

\* Once there was a run every thread has finished the steps before the current
\* one, and at most that one more.
StepsTogether ==
  runs > 0 => \A t \in Threads : worked[t] \in {currentStepIndex, currentStepIndex + 1}

\* Where a thread is in the pass says what it has done of it. The thread that
\* opens the next step is the only one, and everybody has arrived.
Place(t) ==
  /\ pc[t] \in {"exec", "arrive", "reset", "advance", "spin", "load"} => runs > 0
  /\ pc[t] = "load" => worked[t] = currentStepIndex
  /\ pc[t] \in {"exec", "arrive", "reset", "advance"} =>
       myStep[t] = currentStepIndex /\ currentStepIndex < NSteps
  /\ pc[t] = "exec" => worked[t] = currentStepIndex
  /\ pc[t] \in {"arrive", "reset", "advance"} => worked[t] = currentStepIndex + 1
  /\ pc[t] = "spin" =>
       \/ myStep[t] = currentStepIndex /\ worked[t] = currentStepIndex + 1
          /\ currentStepIndex < NSteps
       \/ myStep[t] < currentStepIndex /\ worked[t] = currentStepIndex
  /\ pc[t] \in {"reset", "advance"} =>
       /\ \A u \in Threads : worked[u] = currentStepIndex + 1 /\ pc[u] # "arrive"
       /\ \A u \in Threads \ {t} : pc[u] \notin {"reset", "advance"}

Barrier == \A t \in Threads : Place(t)

\* doneThreadCount counts the arrivals until the last thread resets it.
Counted ==
  runs > 0 =>
    /\ (\E t \in Threads : pc[t] = "advance") => doneThreadCount = 0
    /\ (\A t \in Threads : pc[t] # "advance") => doneThreadCount = Cardinality(Arrived)

\* A run in which nothing has failed: a thread has not started, is in the
\* pass, or has left it, and doneRunThreadCount counts the last ones.
Started(t) ==
  \/ pc[t] \in {"wait", "asleep", "awake", "readEpoch"} /\ localEpoch[t] # epoch
       /\ worked[t] = 0 /\ currentStepIndex = 0
  \/ /\ localEpoch[t] = epoch
     /\ pc[t] \in {"top", "load", "exec", "arrive", "reset", "advance", "spin", "leave"}
     /\ pc[t] = "top" => worked[t] = currentStepIndex
     /\ pc[t] = "leave" => worked[t] = NSteps /\ currentStepIndex = NSteps
  \/ /\ localEpoch[t] = epoch
     /\ pc[t] \in Outside \cup {"setDone"}
     /\ worked[t] = NSteps /\ currentStepIndex = NSteps

AliveRun ==
  isAlive /\ InRun =>
    /\ ~isShutdown
    /\ \A t \in Threads : Started(t)
    /\ doneRunThreadCount = Cardinality(Out)
    /\ isRunDone => \A t \in Threads : t \in Out /\ pc[t] # "setDone"
    /\ \A t \in Threads : pc[t] = "setDone" =>
         Out = Threads /\ \A u \in Threads \ {t} : pc[u] # "setDone"

\* Between runs, and when the executor is destroyed without a failure.
AliveIdle ==
  main = "idle" =>
    /\ isAlive /\ ~isShutdown
    /\ \A t \in Threads : pc[t] \in Outside /\ localEpoch[t] = epoch /\ worked[t] = NSteps

\* The destructor at work after runs that all ended normally.
AliveClosing ==
  isAlive /\ ~InRun /\ main # "idle" =>
    /\ isShutdown /\ Closing
    /\ \A t \in Threads : pc[t] \in Outside \cup {"awake", "exited"}

IInv ==
  /\ TypeOK
  /\ MutexHeld
  /\ EpochCounts
  /\ StepsTogether
  /\ Barrier
  /\ Counted
  /\ AliveRun
  /\ AliveIdle
  /\ AliveClosing

-----------------------------------------------------------------------------
(* Counting threads.                                                       *)

LEMMA Sizes ==
  /\ NThreads \in Nat \ {0}
  /\ \A S \in SUBSET Threads :
       /\ Cardinality(S) \in 0 .. NThreads
       /\ Cardinality(S) = NThreads => S = Threads
       /\ \A t \in Threads \ S : Cardinality(S \cup {t}) = Cardinality(S) + 1
<1>1. IsFiniteSet(Threads) /\ Threads # {}
  BY ExecutorAssumption
<1>2. NThreads \in Nat \ {0}
  BY <1>1, FS_CardinalityType, FS_EmptySet DEF NThreads
<1>3. ASSUME NEW S \in SUBSET Threads
      PROVE  /\ IsFiniteSet(S) /\ Cardinality(S) \in 0 .. NThreads
             /\ Cardinality(S) = NThreads => S = Threads
  BY <1>1, <1>2, <1>3, FS_Subset, FS_CardinalityType DEF NThreads
<1>4. ASSUME NEW S \in SUBSET Threads, NEW t \in Threads \ S
      PROVE  Cardinality(S \cup {t}) = Cardinality(S) + 1
  BY <1>3, <1>4, FS_AddElement
<1> QED
  BY <1>2, <1>3, <1>4

-----------------------------------------------------------------------------
(* Every step of a thread preserves the invariant.                         *)

LEMMA EvaluatePredicateKeeps ==
  ASSUME IInv, NEW t \in Threads, EvaluatePredicate(t)
  PROVE  IInv'
<1> USE ExecutorAssumption
    DEF IInv, TypeOK, OwnerStates, Outside, ThreadStates, InRun, Closing,
        owner, counters, flags, locals, Goto, Woken, EvaluatePredicate
<1>1. TypeOK'
  OBVIOUS
<1>2. MutexHeld' /\ EpochCounts'
  BY DEF MutexHeld, EpochCounts
<1>3. StepsTogether'
  BY DEF StepsTogether, Barrier, Place
<1>4. Barrier'
  BY DEF StepsTogether, Barrier, Place, AliveRun, Started
<1>5. Counted'
  <2>1. Arrived' = Arrived
    BY DEF Arrived
  <2>2. Cardinality(Arrived)' = Cardinality(Arrived)
    BY <2>1
  <2> QED
    BY <2>2 DEF Counted, Barrier, Place
<1>6. AliveRun'
  <2> SUFFICES ASSUME isAlive', InRun' PROVE AliveRun'
    BY DEF AliveRun
  <2>1. isAlive /\ InRun /\ ~isShutdown
    BY DEF AliveRun
  <2>2. \A u \in Threads : Started(u)'
    BY <2>1 DEF AliveRun, Started, EpochCounts, StepsTogether, Barrier, Place
  <2>3. Out' = Out
    BY <2>1 DEF Out, AliveRun, Started
  <2>4. Cardinality(Out)' = Cardinality(Out)
    BY <2>3
  <2> QED
    BY <2>1, <2>2, <2>3, <2>4 DEF AliveRun, Out
<1>7. AliveIdle' /\ AliveClosing'
  BY DEF AliveIdle, AliveClosing
<1> QED
  BY <1>1, <1>2, <1>3, <1>4, <1>5, <1>6, <1>7

LEMMA SleepKeeps ==
  ASSUME IInv, NEW t \in Threads, Sleep(t)
  PROVE  IInv'
<1> USE ExecutorAssumption
    DEF IInv, TypeOK, OwnerStates, Outside, ThreadStates, InRun, Closing,
        owner, counters, flags, locals, Goto, Woken, Sleep
<1>1. TypeOK'
  OBVIOUS
<1>2. MutexHeld' /\ EpochCounts'
  BY DEF MutexHeld, EpochCounts
<1>3. StepsTogether'
  BY DEF StepsTogether, Barrier, Place
<1>4. Barrier'
  BY DEF StepsTogether, Barrier, Place, AliveRun, Started
<1>5. Counted'
  <2>1. Arrived' = Arrived
    BY DEF Arrived
  <2>2. Cardinality(Arrived)' = Cardinality(Arrived)
    BY <2>1
  <2> QED
    BY <2>2 DEF Counted, Barrier, Place
<1>6. AliveRun'
  <2> SUFFICES ASSUME isAlive', InRun' PROVE AliveRun'
    BY DEF AliveRun
  <2>1. isAlive /\ InRun /\ ~isShutdown
    BY DEF AliveRun
  <2>2. \A u \in Threads : Started(u)'
    BY <2>1 DEF AliveRun, Started, EpochCounts, StepsTogether, Barrier, Place
  <2>3. Out' = Out
    BY <2>1 DEF Out, AliveRun, Started
  <2>4. Cardinality(Out)' = Cardinality(Out)
    BY <2>3
  <2> QED
    BY <2>1, <2>2, <2>3, <2>4 DEF AliveRun, Out
<1>7. AliveIdle' /\ AliveClosing'
  BY DEF AliveIdle, AliveClosing
<1> QED
  BY <1>1, <1>2, <1>3, <1>4, <1>5, <1>6, <1>7

LEMMA WakeSpuriouslyKeeps ==
  ASSUME IInv, NEW t \in Threads, WakeSpuriously(t)
  PROVE  IInv'
<1> USE ExecutorAssumption
    DEF IInv, TypeOK, OwnerStates, Outside, ThreadStates, InRun, Closing,
        owner, counters, flags, locals, Goto, Woken, WakeSpuriously
<1>1. TypeOK'
  OBVIOUS
<1>2. MutexHeld' /\ EpochCounts'
  BY DEF MutexHeld, EpochCounts
<1>3. StepsTogether'
  BY DEF StepsTogether, Barrier, Place
<1>4. Barrier'
  BY DEF StepsTogether, Barrier, Place, AliveRun, Started
<1>5. Counted'
  <2>1. Arrived' = Arrived
    BY DEF Arrived
  <2>2. Cardinality(Arrived)' = Cardinality(Arrived)
    BY <2>1
  <2> QED
    BY <2>2 DEF Counted, Barrier, Place
<1>6. AliveRun'
  <2> SUFFICES ASSUME isAlive', InRun' PROVE AliveRun'
    BY DEF AliveRun
  <2>1. isAlive /\ InRun /\ ~isShutdown
    BY DEF AliveRun
  <2>2. \A u \in Threads : Started(u)'
    BY <2>1 DEF AliveRun, Started, EpochCounts, StepsTogether, Barrier, Place
  <2>3. Out' = Out
    BY <2>1 DEF Out, AliveRun, Started
  <2>4. Cardinality(Out)' = Cardinality(Out)
    BY <2>3
  <2> QED
    BY <2>1, <2>2, <2>3, <2>4 DEF AliveRun, Out
<1>7. AliveIdle' /\ AliveClosing'
  BY DEF AliveIdle, AliveClosing
<1> QED
  BY <1>1, <1>2, <1>3, <1>4, <1>5, <1>6, <1>7

LEMMA CheckShutdownKeeps ==
  ASSUME IInv, NEW t \in Threads, CheckShutdown(t)
  PROVE  IInv'
<1> USE ExecutorAssumption
    DEF IInv, TypeOK, OwnerStates, Outside, ThreadStates, InRun, Closing,
        owner, counters, flags, locals, Goto, Woken, CheckShutdown
<1>1. TypeOK'
  OBVIOUS
<1>2. MutexHeld' /\ EpochCounts'
  BY DEF MutexHeld, EpochCounts
<1>3. StepsTogether'
  BY DEF StepsTogether, Barrier, Place
<1>4. Barrier'
  BY DEF StepsTogether, Barrier, Place, AliveRun, Started
<1>5. Counted'
  <2>1. Arrived' = Arrived
    BY DEF Arrived
  <2>2. Cardinality(Arrived)' = Cardinality(Arrived)
    BY <2>1
  <2> QED
    BY <2>2 DEF Counted, Barrier, Place
<1>6. AliveRun'
  <2> SUFFICES ASSUME isAlive', InRun' PROVE AliveRun'
    BY DEF AliveRun
  <2>1. isAlive /\ InRun /\ ~isShutdown
    BY DEF AliveRun
  <2>2. \A u \in Threads : Started(u)'
    BY <2>1 DEF AliveRun, Started, EpochCounts, StepsTogether, Barrier, Place
  <2>3. Out' = Out
    BY <2>1 DEF Out, AliveRun, Started
  <2>4. Cardinality(Out)' = Cardinality(Out)
    BY <2>3
  <2> QED
    BY <2>1, <2>2, <2>3, <2>4 DEF AliveRun, Out
<1>7. AliveIdle' /\ AliveClosing'
  BY DEF AliveIdle, AliveClosing
<1> QED
  BY <1>1, <1>2, <1>3, <1>4, <1>5, <1>6, <1>7

LEMMA ReadEpochKeeps ==
  ASSUME IInv, NEW t \in Threads, ReadEpoch(t)
  PROVE  IInv'
<1> USE ExecutorAssumption
    DEF IInv, TypeOK, OwnerStates, Outside, ThreadStates, InRun, Closing,
        owner, counters, flags, locals, Goto, Woken, ReadEpoch
<1>1. TypeOK'
  OBVIOUS
<1>2. MutexHeld' /\ EpochCounts'
  BY DEF MutexHeld, EpochCounts
<1>3. StepsTogether'
  BY DEF StepsTogether, Barrier, Place
<1>4. Barrier'
  BY DEF StepsTogether, Barrier, Place, AliveRun, Started
<1>5. Counted'
  <2>1. Arrived' = Arrived
    BY DEF Arrived
  <2>2. Cardinality(Arrived)' = Cardinality(Arrived)
    BY <2>1
  <2> QED
    BY <2>2 DEF Counted, Barrier, Place
<1>6. AliveRun'
  <2> SUFFICES ASSUME isAlive', InRun' PROVE AliveRun'
    BY DEF AliveRun
  <2>1. isAlive /\ InRun /\ ~isShutdown
    BY DEF AliveRun
  <2>2. \A u \in Threads : Started(u)'
    BY <2>1 DEF AliveRun, Started, EpochCounts, StepsTogether, Barrier, Place
  <2>3. Out' = Out
    BY <2>1 DEF Out, AliveRun, Started
  <2>4. Cardinality(Out)' = Cardinality(Out)
    BY <2>3
  <2> QED
    BY <2>1, <2>2, <2>3, <2>4 DEF AliveRun, Out
<1>7. AliveIdle' /\ AliveClosing'
  BY DEF AliveIdle, AliveClosing
<1> QED
  BY <1>1, <1>2, <1>3, <1>4, <1>5, <1>6, <1>7

LEMMA CheckAliveKeeps ==
  ASSUME IInv, NEW t \in Threads, CheckAlive(t)
  PROVE  IInv'
<1> USE ExecutorAssumption
    DEF IInv, TypeOK, OwnerStates, Outside, ThreadStates, InRun, Closing,
        owner, counters, flags, locals, Goto, Woken, CheckAlive
<1>1. TypeOK'
  OBVIOUS
<1>2. MutexHeld' /\ EpochCounts'
  BY DEF MutexHeld, EpochCounts
<1>3. StepsTogether'
  BY DEF StepsTogether, Barrier, Place
<1>4. Barrier'
  BY DEF StepsTogether, Barrier, Place, AliveRun, Started, AliveIdle, AliveClosing, EpochCounts
<1>5. Counted'
  <2>1. Arrived' = Arrived
    BY DEF Arrived
  <2>2. Cardinality(Arrived)' = Cardinality(Arrived)
    BY <2>1
  <2> QED
    BY <2>2 DEF Counted, Barrier, Place
<1>6. AliveRun'
  <2> SUFFICES ASSUME isAlive', InRun' PROVE AliveRun'
    BY DEF AliveRun
  <2>1. isAlive /\ InRun /\ ~isShutdown
    BY DEF AliveRun
  <2>2. \A u \in Threads : Started(u)'
    BY <2>1 DEF AliveRun, Started, EpochCounts, StepsTogether, Barrier, Place
  <2>3. Out' = Out
    BY <2>1 DEF Out, AliveRun, Started
  <2>4. Cardinality(Out)' = Cardinality(Out)
    BY <2>3
  <2> QED
    BY <2>1, <2>2, <2>3, <2>4 DEF AliveRun, Out
<1>7. AliveIdle' /\ AliveClosing'
  BY DEF AliveIdle, AliveClosing
<1> QED
  BY <1>1, <1>2, <1>3, <1>4, <1>5, <1>6, <1>7

LEMMA LoadStepKeeps ==
  ASSUME IInv, NEW t \in Threads, LoadStep(t)
  PROVE  IInv'
<1> USE ExecutorAssumption
    DEF IInv, TypeOK, OwnerStates, Outside, ThreadStates, InRun, Closing,
        owner, counters, flags, locals, Goto, Woken, LoadStep
<1>1. TypeOK'
  OBVIOUS
<1>2. MutexHeld' /\ EpochCounts'
  BY DEF MutexHeld, EpochCounts
<1>3. StepsTogether'
  BY DEF StepsTogether, Barrier, Place
<1>4. Barrier'
  BY DEF StepsTogether, Barrier, Place, AliveRun, Started
<1>5. Counted'
  <2>1. Arrived' = Arrived
    BY DEF Arrived
  <2>2. Cardinality(Arrived)' = Cardinality(Arrived)
    BY <2>1
  <2> QED
    BY <2>2 DEF Counted, Barrier, Place
<1>6. AliveRun'
  <2> SUFFICES ASSUME isAlive', InRun' PROVE AliveRun'
    BY DEF AliveRun
  <2>1. isAlive /\ InRun /\ ~isShutdown
    BY DEF AliveRun
  <2>2. \A u \in Threads : Started(u)'
    BY <2>1 DEF AliveRun, Started, EpochCounts, StepsTogether, Barrier, Place
  <2>3. Out' = Out
    BY <2>1 DEF Out, AliveRun, Started
  <2>4. Cardinality(Out)' = Cardinality(Out)
    BY <2>3
  <2> QED
    BY <2>1, <2>2, <2>3, <2>4 DEF AliveRun, Out
<1>7. AliveIdle' /\ AliveClosing'
  BY DEF AliveIdle, AliveClosing
<1> QED
  BY <1>1, <1>2, <1>3, <1>4, <1>5, <1>6, <1>7

LEMMA ExecuteStepKeeps ==
  ASSUME IInv, NEW t \in Threads, ExecuteStep(t)
  PROVE  IInv'
<1> USE ExecutorAssumption
    DEF IInv, TypeOK, OwnerStates, Outside, ThreadStates, InRun, Closing,
        owner, counters, flags, locals, Goto, Woken, ExecuteStep
<1>1. TypeOK'
  BY DEF Barrier, Place
<1>2. MutexHeld' /\ EpochCounts'
  BY DEF MutexHeld, EpochCounts
<1>3. StepsTogether'
  BY DEF StepsTogether, Barrier, Place
<1>4. Barrier'
  BY DEF StepsTogether, Barrier, Place, AliveRun, Started
<1>5. Counted'
  <2>1. Arrived' = Arrived
    BY DEF Arrived, StepsTogether, Barrier, Place
  <2>2. Cardinality(Arrived)' = Cardinality(Arrived)
    BY <2>1
  <2> QED
    BY <2>2 DEF Counted, Barrier, Place
<1>6. AliveRun'
  <2> SUFFICES ASSUME isAlive', InRun' PROVE AliveRun'
    BY DEF AliveRun
  <2>1. isAlive /\ InRun /\ ~isShutdown
    BY DEF AliveRun
  <2>2. \A u \in Threads : Started(u)'
    BY <2>1 DEF AliveRun, Started, EpochCounts, StepsTogether, Barrier, Place
  <2>3. Out' = Out
    BY <2>1 DEF Out, AliveRun, Started
  <2>4. Cardinality(Out)' = Cardinality(Out)
    BY <2>3
  <2> QED
    BY <2>1, <2>2, <2>3, <2>4 DEF AliveRun, Out
<1>7. AliveIdle' /\ AliveClosing'
  BY DEF AliveIdle, AliveClosing
<1> QED
  BY <1>1, <1>2, <1>3, <1>4, <1>5, <1>6, <1>7

LEMMA FailStepKeeps ==
  ASSUME IInv, NEW t \in Threads, FailStep(t)
  PROVE  IInv'
<1> USE ExecutorAssumption
    DEF IInv, TypeOK, OwnerStates, Outside, ThreadStates, InRun, Closing,
        owner, counters, flags, locals, Goto, Woken, FailStep
<1>1. TypeOK'
  OBVIOUS
<1>2. MutexHeld' /\ EpochCounts'
  BY DEF MutexHeld, EpochCounts, Barrier, Place
<1>3. StepsTogether'
  BY DEF StepsTogether, Barrier, Place
<1>4. Barrier'
  BY DEF StepsTogether, Barrier, Place, AliveRun, Started
<1>5. Counted'
  <2>1. Arrived' = Arrived
    BY DEF Arrived
  <2>2. Cardinality(Arrived)' = Cardinality(Arrived)
    BY <2>1
  <2> QED
    BY <2>2 DEF Counted, Barrier, Place
<1>6. AliveRun'
  BY DEF AliveRun
<1>7. AliveIdle' /\ AliveClosing'
  BY DEF AliveIdle, AliveClosing
<1> QED
  BY <1>1, <1>2, <1>3, <1>4, <1>5, <1>6, <1>7

LEMMA ArriveKeeps ==
  ASSUME IInv, NEW t \in Threads, Arrive(t)
  PROVE  IInv'
<1> USE ExecutorAssumption
    DEF IInv, TypeOK, OwnerStates, Outside, ThreadStates, InRun, Closing,
        owner, counters, flags, locals, Goto, Woken, Arrive
<1>1. TypeOK'
  <2>1. Arrived \in SUBSET Threads /\ t \notin Arrived
    BY DEF Arrived
  <2>2. doneThreadCount = Cardinality(Arrived)
    BY DEF Barrier, Place, Counted
  <2>3. Cardinality(Arrived) # NThreads
    BY <2>1, Sizes
  <2>4. doneThreadCount + 1 \in 0 .. NThreads
    BY <2>1, <2>2, <2>3, Sizes
  <2> QED
    BY <2>4
<1>2. MutexHeld' /\ EpochCounts'
  BY DEF MutexHeld, EpochCounts
<1>3. StepsTogether'
  BY DEF StepsTogether, Barrier, Place
<1>4. Barrier'
  <2>1. AllArrived => Arrived \cup {t} = Threads
    <3>1. Arrived \in SUBSET Threads /\ t \in Threads \ Arrived
      BY DEF Arrived
    <3>2. doneThreadCount = Cardinality(Arrived)
      BY DEF Barrier, Place, Counted
    <3>3. Cardinality(Arrived \cup {t}) = doneThreadCount + 1
      BY <3>1, <3>2, Sizes
    <3>4. AllArrived => doneThreadCount + 1 = NThreads
      BY Sizes DEF AllArrived
    <3> QED
      BY <3>1, <3>3, <3>4, Sizes
  <2>2. AllArrived => \A u \in Threads \ {t} : worked[u] = currentStepIndex + 1 /\ pc[u] # "arrive"
    BY <2>1 DEF Arrived
  <2>3. \A u \in Threads : pc[u] \notin {"reset", "advance"}
    BY DEF Barrier, Place
  <2>4. worked[t] = currentStepIndex + 1 /\ myStep[t] = currentStepIndex
    BY DEF Barrier, Place
  <2>5. Place(t)'
    BY <2>2, <2>3, <2>4 DEF Barrier, Place
  <2>6. ASSUME NEW u \in Threads \ {t} PROVE Place(u)'
    BY <2>3 DEF Barrier, Place
  <2> QED
    BY <2>5, <2>6 DEF Barrier
<1>5. Counted'
  <2>1. Arrived' = Arrived \cup {t} /\ t \notin Arrived /\ Arrived \in SUBSET Threads
    BY DEF Arrived, Barrier, Place
  <2>2. Cardinality(Arrived)' = Cardinality(Arrived) + 1
    BY <2>1, Sizes
  <2>3. \A u \in Threads : pc[u] # "advance" /\ pc'[u] # "advance"
    BY DEF Barrier, Place
  <2> QED
    BY <2>2, <2>3 DEF Counted
<1>6. AliveRun'
  <2> SUFFICES ASSUME isAlive', InRun' PROVE AliveRun'
    BY DEF AliveRun
  <2>1. isAlive /\ InRun /\ ~isShutdown
    BY DEF AliveRun
  <2>2. \A u \in Threads : Started(u)'
    BY <2>1 DEF AliveRun, Started, EpochCounts, StepsTogether, Barrier, Place
  <2>3. Out' = Out
    BY <2>1 DEF Out, AliveRun, Started
  <2>4. Cardinality(Out)' = Cardinality(Out)
    BY <2>3
  <2> QED
    BY <2>1, <2>2, <2>3, <2>4 DEF AliveRun, Out
<1>7. AliveIdle' /\ AliveClosing'
  BY DEF AliveIdle, AliveClosing
<1> QED
  BY <1>1, <1>2, <1>3, <1>4, <1>5, <1>6, <1>7

LEMMA ResetCountKeeps ==
  ASSUME IInv, NEW t \in Threads, ResetCount(t)
  PROVE  IInv'
<1> USE ExecutorAssumption
    DEF IInv, TypeOK, OwnerStates, Outside, ThreadStates, InRun, Closing,
        owner, counters, flags, locals, Goto, Woken, ResetCount
<1>1. TypeOK'
  BY Sizes
<1>2. MutexHeld' /\ EpochCounts'
  BY DEF MutexHeld, EpochCounts
<1>3. StepsTogether'
  BY DEF StepsTogether, Barrier, Place
<1>4. Barrier'
  BY DEF StepsTogether, Barrier, Place, AliveRun, Started
<1>5. Counted'
  BY DEF Counted
<1>6. AliveRun'
  <2> SUFFICES ASSUME isAlive', InRun' PROVE AliveRun'
    BY DEF AliveRun
  <2>1. isAlive /\ InRun /\ ~isShutdown
    BY DEF AliveRun
  <2>2. \A u \in Threads : Started(u)'
    BY <2>1 DEF AliveRun, Started, EpochCounts, StepsTogether, Barrier, Place
  <2>3. Out' = Out
    BY <2>1 DEF Out, AliveRun, Started
  <2>4. Cardinality(Out)' = Cardinality(Out)
    BY <2>3
  <2> QED
    BY <2>1, <2>2, <2>3, <2>4 DEF AliveRun, Out
<1>7. AliveIdle' /\ AliveClosing'
  BY DEF AliveIdle, AliveClosing
<1> QED
  BY <1>1, <1>2, <1>3, <1>4, <1>5, <1>6, <1>7

LEMMA AdvanceKeeps ==
  ASSUME IInv, NEW t \in Threads, Advance(t)
  PROVE  IInv'
<1> USE ExecutorAssumption
    DEF IInv, TypeOK, OwnerStates, Outside, ThreadStates, InRun, Closing,
        owner, counters, flags, locals, Goto, Woken, Advance
<1>1. TypeOK'
  BY DEF Barrier, Place
<1>2. MutexHeld' /\ EpochCounts'
  BY DEF MutexHeld, EpochCounts
<1>3. StepsTogether'
  BY DEF StepsTogether, Barrier, Place
<1>4. Barrier'
  BY DEF StepsTogether, Barrier, Place, AliveRun, Started
<1>5. Counted'
  <2>1. Arrived' = {}
    BY DEF Arrived, Barrier, Place
  <2>2. Cardinality(Arrived)' = 0
    BY <2>1, FS_EmptySet
  <2>3. doneThreadCount = 0 /\ \A u \in Threads : pc'[u] # "advance"
    BY DEF Counted, Barrier, Place
  <2> QED
    BY <2>2, <2>3 DEF Counted
<1>6. AliveRun'
  <2> SUFFICES ASSUME isAlive', InRun' PROVE AliveRun'
    BY DEF AliveRun
  <2>1. isAlive /\ InRun /\ ~isShutdown
    BY DEF AliveRun
  <2>2. \A u \in Threads : Started(u)'
    BY <2>1 DEF AliveRun, Started, EpochCounts, StepsTogether, Barrier, Place
  <2>3. Out' = Out
    BY <2>1 DEF Out, AliveRun, Started
  <2>4. Cardinality(Out)' = Cardinality(Out)
    BY <2>3
  <2> QED
    BY <2>1, <2>2, <2>3, <2>4 DEF AliveRun, Out
<1>7. AliveIdle' /\ AliveClosing'
  BY DEF AliveIdle, AliveClosing
<1> QED
  BY <1>1, <1>2, <1>3, <1>4, <1>5, <1>6, <1>7

LEMMA StopSpinningKeeps ==
  ASSUME IInv, NEW t \in Threads, StopSpinning(t)
  PROVE  IInv'
<1> USE ExecutorAssumption
    DEF IInv, TypeOK, OwnerStates, Outside, ThreadStates, InRun, Closing,
        owner, counters, flags, locals, Goto, Woken, StopSpinning
<1>1. TypeOK'
  OBVIOUS
<1>2. MutexHeld' /\ EpochCounts'
  BY DEF MutexHeld, EpochCounts
<1>3. StepsTogether'
  BY DEF StepsTogether, Barrier, Place
<1>4. Barrier'
  BY DEF StepsTogether, Barrier, Place, AliveRun, Started, AliveIdle, AliveClosing, EpochCounts
<1>5. Counted'
  <2>1. Arrived' = Arrived
    BY DEF Arrived
  <2>2. Cardinality(Arrived)' = Cardinality(Arrived)
    BY <2>1
  <2> QED
    BY <2>2 DEF Counted, Barrier, Place
<1>6. AliveRun'
  <2> SUFFICES ASSUME isAlive', InRun' PROVE AliveRun'
    BY DEF AliveRun
  <2>1. isAlive /\ InRun /\ ~isShutdown
    BY DEF AliveRun
  <2>2. \A u \in Threads : Started(u)'
    BY <2>1 DEF AliveRun, Started, EpochCounts, StepsTogether, Barrier, Place, Spins
  <2>3. Out' = Out
    BY <2>1 DEF Out, AliveRun, Started
  <2>4. Cardinality(Out)' = Cardinality(Out)
    BY <2>3
  <2> QED
    BY <2>1, <2>2, <2>3, <2>4 DEF AliveRun, Out
<1>7. AliveIdle' /\ AliveClosing'
  BY DEF AliveIdle, AliveClosing
<1> QED
  BY <1>1, <1>2, <1>3, <1>4, <1>5, <1>6, <1>7

LEMMA LeaveKeeps ==
  ASSUME IInv, NEW t \in Threads, Leave(t)
  PROVE  IInv'
<1> USE ExecutorAssumption
    DEF IInv, TypeOK, OwnerStates, Outside, ThreadStates, InRun, Closing,
        owner, counters, flags, locals, Goto, Woken, Leave
<1>1. TypeOK'
  OBVIOUS
<1>2. MutexHeld' /\ EpochCounts'
  BY DEF MutexHeld, EpochCounts
<1>3. StepsTogether'
  BY DEF StepsTogether, Barrier, Place
<1>4. Barrier'
  BY DEF StepsTogether, Barrier, Place, AliveRun, Started
<1>5. Counted'
  <2>1. Arrived' = Arrived
    BY DEF Arrived
  <2>2. Cardinality(Arrived)' = Cardinality(Arrived)
    BY <2>1
  <2> QED
    BY <2>2 DEF Counted, Barrier, Place
<1>6. AliveRun'
  <2> SUFFICES ASSUME isAlive', InRun' PROVE AliveRun'
    BY DEF AliveRun
  <2>1. isAlive /\ InRun /\ ~isShutdown
    BY DEF AliveRun
  <2>2. \A u \in Threads : Started(u)'
    BY <2>1 DEF AliveRun, Started
  <2>3. Out' = Out \cup {t} /\ t \notin Out /\ Out \in SUBSET Threads
    BY <2>1 DEF Out, AliveRun, Started
  <2>4. Cardinality(Out)' = Cardinality(Out) + 1
    BY <2>3, Sizes
  <2>5. LastOut => Out' = Threads
    BY <2>1, <2>3, <2>4, Sizes DEF AliveRun, LastOut
  <2>6. ~isRunDone /\ \A u \in Threads : pc[u] # "setDone"
    BY <2>1, <2>3 DEF AliveRun
  <2> QED
    BY <2>1, <2>2, <2>4, <2>5, <2>6 DEF AliveRun
<1>7. AliveIdle' /\ AliveClosing'
  BY DEF AliveIdle, AliveClosing
<1> QED
  BY <1>1, <1>2, <1>3, <1>4, <1>5, <1>6, <1>7

LEMMA SetRunDoneKeeps ==
  ASSUME IInv, NEW t \in Threads, SetRunDone(t)
  PROVE  IInv'
<1> USE ExecutorAssumption
    DEF IInv, TypeOK, OwnerStates, Outside, ThreadStates, InRun, Closing,
        owner, counters, flags, locals, Goto, Woken, SetRunDone
<1>1. TypeOK'
  OBVIOUS
<1>2. MutexHeld' /\ EpochCounts'
  BY DEF MutexHeld, EpochCounts
<1>3. StepsTogether'
  BY DEF StepsTogether, Barrier, Place
<1>4. Barrier'
  BY DEF StepsTogether, Barrier, Place, AliveRun, Started
<1>5. Counted'
  <2>1. Arrived' = Arrived
    BY DEF Arrived
  <2>2. Cardinality(Arrived)' = Cardinality(Arrived)
    BY <2>1
  <2> QED
    BY <2>2 DEF Counted, Barrier, Place
<1>6. AliveRun'
  <2> SUFFICES ASSUME isAlive', InRun' PROVE AliveRun'
    BY DEF AliveRun
  <2>1. isAlive /\ InRun /\ ~isShutdown
    BY DEF AliveRun
  <2>2. \A u \in Threads : Started(u)'
    BY <2>1 DEF AliveRun, Started, EpochCounts, StepsTogether, Barrier, Place
  <2>3. Out' = Out
    BY <2>1 DEF Out, AliveRun, Started
  <2>4. Cardinality(Out)' = Cardinality(Out)
    BY <2>3
  <2> QED
    BY <2>1, <2>2, <2>3, <2>4 DEF AliveRun, Out
<1>7. AliveIdle' /\ AliveClosing'
  BY DEF AliveIdle, AliveClosing
<1> QED
  BY <1>1, <1>2, <1>3, <1>4, <1>5, <1>6, <1>7

-----------------------------------------------------------------------------
(* Every step of the owner preserves the invariant.                        *)

LEMMA BeginKeeps ==
  ASSUME IInv, Begin
  PROVE  IInv'
<1> USE ExecutorAssumption
    DEF IInv, TypeOK, OwnerStates, Outside, ThreadStates, InRun, Closing,
        owner, counters, flags, locals, Woken, Begin
<1>1. TypeOK'
  <2>1. isAlive' \in BOOLEAN /\ isShutdown' \in BOOLEAN /\ isRunDone' \in BOOLEAN
    BY Zenon
  <2>2. mutex' \in BOOLEAN /\ main' \in OwnerStates
    BY Zenon
  <2>3. runs' \in 0 .. MaxRuns /\ epoch' \in 0 .. MaxRuns + 2
    BY DEF EpochCounts
  <2>4. currentStepIndex' \in 0 .. NSteps /\ doneThreadCount' \in 0 .. NThreads
        /\ doneRunThreadCount' \in Nat
    BY Sizes
  <2>5. pc' \in [Threads -> ThreadStates] /\ localEpoch' \in [Threads -> 0 .. MaxRuns + 2]
        /\ myStep' \in [Threads -> 0 .. NSteps] /\ worked' \in [Threads -> 0 .. NSteps]
    OBVIOUS
  <2> QED
    BY <2>1, <2>2, <2>3, <2>4, <2>5 DEF TypeOK
<1>2. MutexHeld' /\ EpochCounts'
  BY DEF MutexHeld, EpochCounts, AliveIdle
<1>3. StepsTogether'
  BY DEF StepsTogether
<1>4. Barrier'
  BY DEF Barrier, Place, AliveIdle
<1>5. Counted'
  <2>1. Arrived' = {} /\ \A u \in Threads : pc'[u] # "advance"
    BY DEF Arrived, AliveIdle
  <2>2. Cardinality(Arrived)' = 0
    BY <2>1, FS_EmptySet
  <2> QED
    BY <2>1, <2>2 DEF Counted
<1>6. AliveRun'
  <2>1. Out' = {}
    BY DEF Out, AliveIdle, EpochCounts
  <2>2. Cardinality(Out)' = 0
    BY <2>1, FS_EmptySet
  <2>3. \A u \in Threads : Started(u)'
    BY DEF Started, AliveIdle, EpochCounts, MutexHeld
  <2> QED
    BY <2>1, <2>2, <2>3 DEF AliveRun, AliveIdle
<1>7. AliveIdle' /\ AliveClosing'
  BY DEF AliveIdle, AliveClosing
<1> QED
  BY <1>1, <1>2, <1>3, <1>4, <1>5, <1>6, <1>7

LEMMA NotifyRunKeeps ==
  ASSUME IInv, NotifyRun
  PROVE  IInv'
<1> USE ExecutorAssumption
    DEF IInv, TypeOK, OwnerStates, Outside, ThreadStates, InRun, Closing,
        owner, counters, flags, locals, Woken, NotifyRun
<1>1. TypeOK'
  BY DEF EpochCounts
<1>2. MutexHeld' /\ EpochCounts'
  BY DEF MutexHeld, EpochCounts
<1>3. StepsTogether'
  BY DEF StepsTogether
<1>4. Barrier'
  BY DEF Barrier, Place
<1>5. Counted'
  <2>1. Arrived' = Arrived
    BY DEF Arrived
  <2>2. Cardinality(Arrived)' = Cardinality(Arrived)
    BY <2>1
  <2> QED
    BY <2>2 DEF Counted
<1>6. AliveRun'
  <2> SUFFICES ASSUME isAlive' PROVE AliveRun'
    BY DEF AliveRun
  <2>1. Out' = Out
    BY DEF Out
  <2>2. Cardinality(Out)' = Cardinality(Out)
    BY <2>1
  <2>3. \A u \in Threads : Started(u)'
    BY DEF AliveRun, Started
  <2> QED
    BY <2>1, <2>2, <2>3 DEF AliveRun, Out
<1>7. AliveIdle' /\ AliveClosing'
  BY DEF AliveIdle, AliveClosing
<1> QED
  BY <1>1, <1>2, <1>3, <1>4, <1>5, <1>6, <1>7

LEMMA FinishKeeps ==
  ASSUME IInv, Finish
  PROVE  IInv'
<1> USE ExecutorAssumption
    DEF IInv, TypeOK, OwnerStates, Outside, ThreadStates, InRun, Closing,
        owner, counters, flags, locals, Woken, Finish
<1>1. TypeOK'
  BY DEF EpochCounts
<1>2. MutexHeld' /\ EpochCounts'
  BY DEF MutexHeld, EpochCounts
<1>3. StepsTogether'
  BY DEF StepsTogether
<1>4. Barrier'
  BY DEF Barrier, Place
<1>5. Counted'
  <2>1. Arrived' = Arrived
    BY DEF Arrived
  <2>2. Cardinality(Arrived)' = Cardinality(Arrived)
    BY <2>1
  <2> QED
    BY <2>2 DEF Counted
<1>6. AliveRun'
  BY DEF AliveRun
<1>7. AliveIdle' /\ AliveClosing'
  BY DEF AliveIdle, AliveClosing, AliveRun, Started, Out
<1> QED
  BY <1>1, <1>2, <1>3, <1>4, <1>5, <1>6, <1>7

LEMMA StallTimeoutKeeps ==
  ASSUME IInv, StallTimeout
  PROVE  IInv'
<1> USE ExecutorAssumption
    DEF IInv, TypeOK, OwnerStates, Outside, ThreadStates, InRun, Closing,
        owner, counters, flags, locals, Woken, StallTimeout
<1>1. TypeOK'
  <2>1. isAlive' \in BOOLEAN /\ isShutdown' \in BOOLEAN /\ isRunDone' \in BOOLEAN
    BY Zenon
  <2>2. mutex' \in BOOLEAN /\ main' \in OwnerStates
    BY Zenon
  <2>3. runs' \in 0 .. MaxRuns /\ epoch' \in 0 .. MaxRuns + 2
    BY DEF EpochCounts
  <2>4. currentStepIndex' \in 0 .. NSteps /\ doneThreadCount' \in 0 .. NThreads
        /\ doneRunThreadCount' \in Nat
    BY Sizes
  <2>5. pc' \in [Threads -> ThreadStates] /\ localEpoch' \in [Threads -> 0 .. MaxRuns + 2]
        /\ myStep' \in [Threads -> 0 .. NSteps] /\ worked' \in [Threads -> 0 .. NSteps]
    OBVIOUS
  <2> QED
    BY <2>1, <2>2, <2>3, <2>4, <2>5 DEF TypeOK
<1>2. MutexHeld' /\ EpochCounts'
  BY DEF MutexHeld, EpochCounts
<1>3. StepsTogether'
  BY DEF StepsTogether
<1>4. Barrier'
  BY DEF Barrier, Place
<1>5. Counted'
  <2>1. Arrived' = Arrived
    BY DEF Arrived
  <2>2. Cardinality(Arrived)' = Cardinality(Arrived)
    BY <2>1
  <2> QED
    BY <2>2 DEF Counted
<1>6. AliveRun'
  BY DEF AliveRun
<1>7. AliveIdle' /\ AliveClosing'
  BY DEF AliveIdle, AliveClosing
<1> QED
  BY <1>1, <1>2, <1>3, <1>4, <1>5, <1>6, <1>7

LEMMA DestructorShutdownKeeps ==
  ASSUME IInv, DestructorShutdown
  PROVE  IInv'
<1> USE ExecutorAssumption
    DEF IInv, TypeOK, OwnerStates, Outside, ThreadStates, InRun, Closing,
        owner, counters, flags, locals, Woken, DestructorShutdown
<1>1. TypeOK'
  BY DEF EpochCounts
<1>2. MutexHeld' /\ EpochCounts'
  BY DEF MutexHeld, EpochCounts, AliveIdle
<1>3. StepsTogether'
  BY DEF StepsTogether
<1>4. Barrier'
  BY DEF Barrier, Place
<1>5. Counted'
  <2>1. Arrived' = Arrived
    BY DEF Arrived
  <2>2. Cardinality(Arrived)' = Cardinality(Arrived)
    BY <2>1
  <2> QED
    BY <2>2 DEF Counted
<1>6. AliveRun'
  BY DEF AliveRun
<1>7. AliveIdle' /\ AliveClosing'
  BY DEF AliveIdle, AliveClosing
<1> QED
  BY <1>1, <1>2, <1>3, <1>4, <1>5, <1>6, <1>7

LEMMA DestructorEpochKeeps ==
  ASSUME IInv, DestructorEpoch
  PROVE  IInv'
<1> USE ExecutorAssumption
    DEF IInv, TypeOK, OwnerStates, Outside, ThreadStates, InRun, Closing,
        owner, counters, flags, locals, Woken, DestructorEpoch
<1>1. TypeOK'
  BY DEF EpochCounts
<1>2. MutexHeld' /\ EpochCounts'
  BY DEF MutexHeld, EpochCounts
<1>3. StepsTogether'
  BY DEF StepsTogether
<1>4. Barrier'
  BY DEF Barrier, Place
<1>5. Counted'
  <2>1. Arrived' = Arrived
    BY DEF Arrived
  <2>2. Cardinality(Arrived)' = Cardinality(Arrived)
    BY <2>1
  <2> QED
    BY <2>2 DEF Counted
<1>6. AliveRun'
  BY DEF AliveRun
<1>7. AliveIdle' /\ AliveClosing'
  BY DEF AliveIdle, AliveClosing
<1> QED
  BY <1>1, <1>2, <1>3, <1>4, <1>5, <1>6, <1>7

LEMMA DestructorNotifyKeeps ==
  ASSUME IInv, DestructorNotify
  PROVE  IInv'
<1> USE ExecutorAssumption
    DEF IInv, TypeOK, OwnerStates, Outside, ThreadStates, InRun, Closing,
        owner, counters, flags, locals, Woken, DestructorNotify
<1>1. TypeOK'
  BY DEF EpochCounts
<1>2. MutexHeld' /\ EpochCounts'
  BY DEF MutexHeld, EpochCounts
<1>3. StepsTogether'
  BY DEF StepsTogether
<1>4. Barrier'
  BY DEF Barrier, Place
<1>5. Counted'
  <2>1. Arrived' = Arrived
    BY DEF Arrived
  <2>2. Cardinality(Arrived)' = Cardinality(Arrived)
    BY <2>1
  <2> QED
    BY <2>2 DEF Counted
<1>6. AliveRun'
  BY DEF AliveRun
<1>7. AliveIdle' /\ AliveClosing'
  BY DEF AliveIdle, AliveClosing
<1> QED
  BY <1>1, <1>2, <1>3, <1>4, <1>5, <1>6, <1>7

LEMMA DestructorJoinKeeps ==
  ASSUME IInv, DestructorJoin
  PROVE  IInv'
<1> USE ExecutorAssumption
    DEF IInv, TypeOK, OwnerStates, Outside, ThreadStates, InRun, Closing,
        owner, counters, flags, locals, Woken, DestructorJoin
<1>1. TypeOK'
  BY DEF EpochCounts
<1>2. MutexHeld' /\ EpochCounts'
  BY DEF MutexHeld, EpochCounts
<1>3. StepsTogether'
  BY DEF StepsTogether
<1>4. Barrier'
  BY DEF Barrier, Place
<1>5. Counted'
  <2>1. Arrived' = Arrived
    BY DEF Arrived
  <2>2. Cardinality(Arrived)' = Cardinality(Arrived)
    BY <2>1
  <2> QED
    BY <2>2 DEF Counted
<1>6. AliveRun'
  BY DEF AliveRun
<1>7. AliveIdle' /\ AliveClosing'
  BY DEF AliveIdle, AliveClosing
<1> QED
  BY <1>1, <1>2, <1>3, <1>4, <1>5, <1>6, <1>7

-----------------------------------------------------------------------------
(* The invariant holds, and what follows from it.                          *)

LEMMA InitInv == Init => IInv
<1> SUFFICES ASSUME Init PROVE IInv
  OBVIOUS
<1> USE ExecutorAssumption DEF Init, Outside, InRun, Closing
<1>1. TypeOK
  <2>1. isAlive \in BOOLEAN /\ isShutdown \in BOOLEAN /\ isRunDone \in BOOLEAN
        /\ mutex \in BOOLEAN
    BY Zenon
  <2>2. main \in OwnerStates /\ pc \in [Threads -> ThreadStates]
    BY DEF OwnerStates, ThreadStates
  <2>3. runs \in 0 .. MaxRuns /\ epoch \in 0 .. MaxRuns + 2 /\ currentStepIndex \in 0 .. NSteps
        /\ doneThreadCount \in 0 .. NThreads /\ doneRunThreadCount \in Nat
    BY Sizes
  <2>4. localEpoch \in [Threads -> 0 .. MaxRuns + 2]
        /\ myStep \in [Threads -> 0 .. NSteps] /\ worked \in [Threads -> 0 .. NSteps]
    OBVIOUS
  <2> QED
    BY <2>1, <2>2, <2>3, <2>4 DEF TypeOK
<1>2. MutexHeld /\ EpochCounts /\ StepsTogether
  BY DEF MutexHeld, EpochCounts, StepsTogether
<1>3. Barrier /\ Counted
  BY DEF Barrier, Place, Counted
<1>4. AliveRun /\ AliveIdle /\ AliveClosing
  BY DEF AliveRun, AliveIdle, AliveClosing
<1> QED
  BY <1>1, <1>2, <1>3, <1>4 DEF IInv

LEMMA ThreadKeeps ==
  ASSUME IInv, NEW t \in Threads, ThreadStep(t) \/ WakeSpuriously(t)
  PROVE  IInv'
<1>1. CASE EvaluatePredicate(t)
  BY <1>1, EvaluatePredicateKeeps
<1>2. CASE Sleep(t)
  BY <1>2, SleepKeeps
<1>3. CASE WakeSpuriously(t)
  BY <1>3, WakeSpuriouslyKeeps
<1>4. CASE CheckShutdown(t)
  BY <1>4, CheckShutdownKeeps
<1>5. CASE ReadEpoch(t)
  BY <1>5, ReadEpochKeeps
<1>6. CASE CheckAlive(t)
  BY <1>6, CheckAliveKeeps
<1>7. CASE LoadStep(t)
  BY <1>7, LoadStepKeeps
<1>8. CASE ExecuteStep(t)
  BY <1>8, ExecuteStepKeeps
<1>9. CASE FailStep(t)
  BY <1>9, FailStepKeeps
<1>10. CASE Arrive(t)
  BY <1>10, ArriveKeeps
<1>11. CASE ResetCount(t)
  BY <1>11, ResetCountKeeps
<1>12. CASE Advance(t)
  BY <1>12, AdvanceKeeps
<1>13. CASE StopSpinning(t)
  BY <1>13, StopSpinningKeeps
<1>14. CASE Leave(t)
  BY <1>14, LeaveKeeps
<1>15. CASE SetRunDone(t)
  BY <1>15, SetRunDoneKeeps
<1> QED
  BY <1>1, <1>2, <1>3, <1>4, <1>5, <1>6, <1>7, <1>8,
     <1>9, <1>10, <1>11, <1>12, <1>13, <1>14, <1>15 DEF ThreadStep

LEMMA StutterKeeps == IInv /\ UNCHANGED vars => IInv'
<1> SUFFICES ASSUME IInv, UNCHANGED vars PROVE IInv'
  OBVIOUS
<1> USE DEF IInv, vars, owner, counters, flags, locals
<1>1. TypeOK' /\ MutexHeld' /\ EpochCounts' /\ StepsTogether'
  <2>1. TypeOK'
    BY Zenon DEF TypeOK, NThreads
  <2> QED
    BY <2>1 DEF MutexHeld, EpochCounts, StepsTogether, InRun
<1>2. Barrier' /\ Counted'
  BY DEF Barrier, Place, Counted, Arrived
<1>3. AliveRun' /\ AliveIdle' /\ AliveClosing'
  BY DEF AliveRun, Started, Out, AliveIdle, AliveClosing, InRun, Closing
<1> QED
  BY <1>1, <1>2, <1>3

LEMMA NextKeeps == IInv /\ [Next]_vars => IInv'
<1> SUFFICES ASSUME IInv, [Next]_vars PROVE IInv'
  OBVIOUS
<1>1. CASE Begin
  BY <1>1, BeginKeeps
<1>2. CASE NotifyRun
  BY <1>2, NotifyRunKeeps
<1>3. CASE Finish
  BY <1>3, FinishKeeps
<1>4. CASE StallTimeout
  BY <1>4, StallTimeoutKeeps
<1>5. CASE DestructorShutdown
  BY <1>5, DestructorShutdownKeeps
<1>6. CASE DestructorEpoch
  BY <1>6, DestructorEpochKeeps
<1>7. CASE DestructorNotify
  BY <1>7, DestructorNotifyKeeps
<1>8. CASE DestructorJoin
  BY <1>8, DestructorJoinKeeps
<1>9. ASSUME NEW t \in Threads, ThreadStep(t) \/ WakeSpuriously(t)
      PROVE  IInv'
  BY <1>9, ThreadKeeps
<1>10. CASE UNCHANGED vars
  BY <1>10, StutterKeeps
<1> QED
  BY <1>1, <1>2, <1>3, <1>4, <1>5, <1>6, <1>7, <1>8, <1>9, <1>10 DEF Next, OwnerReturns

\* The inductive invariant of the barrier that the pool's threads go through
\* (nn-executor.cpp:166-241): counters, epoch and flags agree with where the
\* threads are in every reachable state, failures included.
THEOREM Invariance == Spec => []IInv
BY InitInv, NextKeeps, PTL DEF Spec

\* The counters of NnExecutorContext stay within the pool and the pass, for any
\* number of threads (nn-executor.cpp, executorThreadHandler).
THEOREM TypeCorrect == Spec => []TypeOK
<1>1. IInv => TypeOK
  BY DEF IInv
<1> QED
  BY <1>1, Invariance, PTL

\* No thread is in a step another one has not come to or has not finished the
\* steps before of, for any number of threads, with failing steps, stalls,
\* destructors and wakeups without a notification (the barrier of
\* doneThreadCount and currentStepIndex).
THEOREM StepsInLockstep == Spec => []Lockstep
<1>1. IInv => Lockstep
  BY DEF IInv, TypeOK, Barrier, Place, StepsTogether, Lockstep
<1> QED
  BY <1>1, Invariance, PTL

\* forward() returns normally only when every thread is out of the run and has
\* done all of its steps (doneRunThreadCount and isRunDone).
THEOREM RunsEndComplete == Spec => []RunIsOver
<1>1. IInv => RunIsOver
  BY DEF IInv, AliveIdle, RunIsOver
<1> QED
  BY <1>1, Invariance, PTL

-----------------------------------------------------------------------------
(* The pool implements ForwardContract.                                    *)

\* When the executor is gone its threads are.
Joined == main = "destroyed" => \A t \in Threads : pc[t] = "exited"

LEMMA JoinedNext == Joined /\ [Next]_vars => Joined'
<1> SUFFICES ASSUME Joined, [Next]_vars, main' = "destroyed", NEW t \in Threads
             PROVE  pc'[t] = "exited"
  BY DEF Joined
<1>1. CASE DestructorJoin
  BY <1>1 DEF DestructorJoin
<1>2. CASE main = "destroyed"
  <2>1. pc[t] = "exited" /\ \A u \in Threads : pc[u] = "exited"
    BY <1>2 DEF Joined
  <2>2. ASSUME NEW u \in Threads, ThreadStep(u) \/ WakeSpuriously(u)
        PROVE  FALSE
    BY <2>1, <2>2 DEF ThreadStep, WakeSpuriously, EvaluatePredicate, Sleep, CheckShutdown, ReadEpoch,
       CheckAlive, LoadStep, ExecuteStep, FailStep, Arrive, ResetCount, Advance, StopSpinning, Leave,
       SetRunDone
  <2>3. pc' = pc
    BY <1>1, <1>2, <2>2 DEF Next, Begin, OwnerReturns, NotifyRun, Finish, StallTimeout,
       DestructorShutdown, DestructorEpoch, DestructorNotify, DestructorJoin, vars
  <2> QED
    BY <2>1, <2>3
<1>3. main = "destroyed" \/ DestructorJoin
  <2>1. ASSUME NEW u \in Threads, ThreadStep(u) \/ WakeSpuriously(u)
        PROVE  main' = main
    BY <2>1 DEF ThreadStep, WakeSpuriously, EvaluatePredicate, Sleep, CheckShutdown, ReadEpoch,
       CheckAlive, LoadStep, ExecuteStep, FailStep, Arrive, ResetCount, Advance, StopSpinning, Leave,
       SetRunDone, owner
  <2> QED
    BY <2>1 DEF Next, Begin, OwnerReturns, NotifyRun, Finish, StallTimeout,
       DestructorShutdown, DestructorEpoch, DestructorNotify, vars, owner
<1> QED
  BY <1>1, <1>2, <1>3

\* A thread that runs the body of a step works on the next step of a run that
\* is on, and no other thread has done less.
LEMMA BodyWorks ==
  ASSUME IInv, Joined, NEW t \in Threads, ExecuteStep(t)
  PROVE  Contract!Work(t)
<1>1. pc[t] = "exec" /\ worked' = [worked EXCEPT ![t] = @ + 1] /\ main' = main
  BY DEF ExecuteStep, owner
<1>2. main \in {"notify", "waiting", "thrown", "dtorEpoch", "dtorNotify", "dtorJoin"}
  BY <1>1 DEF IInv, TypeOK, OwnerStates, AliveIdle, Joined, Outside
<1>3. worked[t] < NSteps /\ \A u \in Threads : worked[u] >= worked[t]
  <2>1. runs > 0 /\ worked[t] = currentStepIndex /\ currentStepIndex < NSteps
    BY <1>1 DEF IInv, Barrier, Place
  <2>2. currentStepIndex \in Nat /\ NSteps \in Nat
    BY ExecutorAssumption DEF IInv, TypeOK
  <2>3. \A u \in Threads : worked[u] \in {currentStepIndex, currentStepIndex + 1}
    BY <2>1 DEF IInv, StepsTogether
  <2> QED
    BY <2>1, <2>2, <2>3
<1> QED
  BY <1>1, <1>2, <1>3 DEF Contract!Work

\* The other steps of a thread are none of the contract's.
LEMMA ThreadSilent ==
  ASSUME NEW t \in Threads, ThreadStep(t) \/ WakeSpuriously(t), ~ExecuteStep(t)
  PROVE  main' = main /\ worked' = worked
BY DEF ThreadStep, WakeSpuriously, EvaluatePredicate, Sleep, CheckShutdown, ReadEpoch,
   CheckAlive, LoadStep, FailStep, Arrive, ResetCount, Advance, StopSpinning, Leave,
   SetRunDone, owner, locals

\* The pool keeps forward()'s promise for any number of threads, steps and
\* calls: every thread works on every step, none on a step before all have
\* finished the one before it, and a normal return finds all of it done.
THEOREM ContractKept == Spec => KeepsContract
<1>1. Init => Contract!Init /\ Joined
  BY DEF Init, Contract!Init, Joined
<1>2. IInv /\ IInv' /\ Joined /\ [Next]_vars => [Contract!Next]_(Contract!vars)
  <2> SUFFICES ASSUME IInv, IInv', Joined, [Next]_vars
               PROVE  [Contract!Next]_(Contract!vars)
    OBVIOUS
  <2>1. CASE Begin
    <3>1. Contract!Call
      BY <2>1 DEF Begin, Contract!Call
    <3> QED
      BY <3>1 DEF Contract!Next
  <2>2. CASE Finish
    <3>1. CASE isAlive
      <4>1. main = "waiting" /\ main' = "idle" /\ worked' = worked
        BY <2>2, <3>1 DEF Finish, locals
      <4>2. \A t \in Threads : worked[t] = NSteps
        BY <4>1 DEF IInv, AliveIdle
      <4>3. Contract!Return
        BY <4>1, <4>2 DEF Contract!Return
      <4> QED
        BY <4>3 DEF Contract!Next
    <3>2. CASE ~isAlive
      <4>1. Contract!Throw
        BY <2>2, <3>2 DEF Finish, locals, Contract!Throw
      <4> QED
        BY <4>1 DEF Contract!Next
    <3> QED
      BY <3>1, <3>2
  <2>3. CASE StallTimeout
    <3>1. Contract!Throw
      BY <2>3 DEF StallTimeout, locals, Contract!Throw
    <3> QED
      BY <3>1 DEF Contract!Next
  <2>4. CASE DestructorShutdown
    <3>1. Contract!Close
      BY <2>4 DEF DestructorShutdown, locals, Contract!Close
    <3> QED
      BY <3>1 DEF Contract!Next
  <2>5. CASE DestructorJoin
    <3>1. Contract!Closed
      BY <2>5 DEF DestructorJoin, locals, Contract!Closed
    <3> QED
      BY <3>1 DEF Contract!Next
  <2>6. CASE NotifyRun \/ DestructorEpoch \/ DestructorNotify
    BY <2>6 DEF NotifyRun, DestructorEpoch, DestructorNotify, locals, Contract!vars
  <2>7. ASSUME NEW t \in Threads, ThreadStep(t) \/ WakeSpuriously(t)
        PROVE  [Contract!Next]_(Contract!vars)
    <3>1. CASE ExecuteStep(t)
      <4>1. Contract!Work(t)
        BY <3>1, BodyWorks
      <4> QED
        BY <4>1 DEF Contract!Next
    <3>2. CASE ~ExecuteStep(t)
      <4>1. main' = main /\ worked' = worked
        BY <2>7, <3>2, ThreadSilent
      <4> QED
        BY <4>1 DEF Contract!vars
    <3> QED
      BY <3>1, <3>2
  <2>8. CASE UNCHANGED vars
    BY <2>8 DEF vars, owner, locals, Contract!vars
  <2> QED
    BY <2>1, <2>2, <2>3, <2>4, <2>5, <2>6, <2>7, <2>8 DEF Next, OwnerReturns
<1> QED
  BY <1>1, <1>2, JoinedNext, Invariance, PTL DEF Spec, KeepsContract, Contract!Spec

=============================================================================
