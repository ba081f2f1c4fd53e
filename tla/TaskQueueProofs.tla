-------------------------- MODULE TaskQueueProofs --------------------------
(***************************************************************************)
(* Theorems about TaskQueue, for any sets of tasks and executors.          *)
(***************************************************************************)
EXTENDS TaskQueue, Induction

-----------------------------------------------------------------------------
\* What the steps share.

\* NotifyOne and NotifyAll keep the control states of the executors.
LEMMA NotifyKeepsType ==
    ASSUME executor \in [Executors -> ExecutorStates]
    PROVE  /\ NotifyOne => executor' \in [Executors -> ExecutorStates]
           /\ NotifyAll => executor' \in [Executors -> ExecutorStates]
BY DEF NotifyOne, NotifyAll, ExecutorStates

\* Taking the front unit, or leaving, keeps the types.
LEMMA TakeOrExitKeepsType ==
    ASSUME TypeOK, NEW e \in Executors, TakeOrExit(e)
    PROVE  /\ executor' \in [Executors -> ExecutorStates]
           /\ taskUnit' \in [Executors -> Tasks \cup {NoTask}]
           /\ mUnprocessedTaskUnits' \in Seq(Tasks)
<1>1. CASE mUnprocessedTaskUnits # <<>>
  <2>1. Head(mUnprocessedTaskUnits) \in Tasks
    BY <1>1 DEF TypeOK
  <2>2. Tail(mUnprocessedTaskUnits) \in Seq(Tasks)
    BY <1>1 DEF TypeOK
  <2>3. QED
    BY <1>1, <2>1, <2>2 DEF TypeOK, TakeOrExit, ExecutorStates
<1>2. CASE mUnprocessedTaskUnits = <<>>
  BY <1>2 DEF TypeOK, TakeOrExit, ExecutorStates
<1>3. QED
  BY <1>1, <1>2

-----------------------------------------------------------------------------
\* An executor that runs holds a unit; so does the main thread while it
\* executes, and that unit is the front of the queue.  TypeOK is inductive
\* only with these facts: an executor pushes what it holds, the main thread
\* finishes what it executes and pops the front.
HoldersHold ==
    \A e \in Executors : executor[e] = "running" <=> taskUnit[e] # NoTask

TypeInv == TypeOK /\ HoldersHold /\ ExecutedIsFront

\* An executor that takes a unit or leaves keeps HoldersHold.
LEMMA TakeOrExitKeepsHolders ==
    ASSUME TypeOK, HoldersHold, NEW e \in Executors, TakeOrExit(e),
           executor[e] # "running"
    PROVE  HoldersHold'
<1>1. CASE mUnprocessedTaskUnits # <<>>
  <2>1. Head(mUnprocessedTaskUnits) \in Tasks
    BY <1>1 DEF TypeOK
  <2>2. Head(mUnprocessedTaskUnits) # NoTask
    BY <2>1, TaskQueueAssumption
  <2>3. QED
    BY <1>1, <2>2 DEF TypeOK, HoldersHold, TakeOrExit
<1>2. CASE mUnprocessedTaskUnits = <<>>
  BY <1>2 DEF TypeOK, HoldersHold, TakeOrExit
<1>3. QED
  BY <1>1, <1>2

\* A queue whose executors were just started satisfies TypeInv.
LEMMA InitTypeInv == Init => TypeInv
<1> SUFFICES ASSUME Init PROVE TypeInv
  OBVIOUS
<1>1. mActive \in BOOLEAN /\ mIsQueuedOnMainThread \in BOOLEAN /\ marker \in BOOLEAN
  BY DEF Init
<1>2. mainSteps \in [Tasks -> 0 .. MaxMainSteps] /\ handlers \in Nat
  BY TaskQueueAssumption DEF Init
<1>3. /\ executor \in [Executors -> ExecutorStates]
      /\ taskUnit \in [Executors -> Tasks \cup {NoTask}]
      /\ HoldersHold
  BY DEF Init, ExecutorStates, HoldersHold
<1>4. /\ main \in MainStates /\ stage \in Stages
      /\ current \in Tasks \cup {NoTask}
      /\ ExecutedIsFront
  BY DEF Init, MainStates, Stages, ExecutedIsFront
<1>5. QED
  BY <1>1, <1>2, <1>3, <1>4 DEF Init, TypeInv, TypeOK

\* Every step of the queue keeps TypeInv.
LEMMA StepTypeInv == TypeInv /\ [Next]_vars => TypeInv'
<1> SUFFICES ASSUME TypeInv, [Next]_vars
             PROVE  TypeInv'
  OBVIOUS
<1> USE TaskQueueAssumption
<1>1. ASSUME NEW t \in Tasks, EnqueueTask(t)
      PROVE  TypeInv'
  <2>1. executor' \in [Executors -> ExecutorStates]
    BY <1>1, NotifyKeepsType DEF TypeInv, TypeOK, EnqueueTask
  <2>2. \A e \in Executors : executor'[e] = "running" <=> executor[e] = "running"
    BY <1>1 DEF TypeInv, TypeOK, EnqueueTask, NotifyOne
  <2>3. mUnprocessedTaskUnits' \in Seq(Tasks)
    BY <1>1 DEF TypeInv, TypeOK, EnqueueTask
  <2>4. TypeOK'
    BY <1>1, <2>1, <2>3 DEF TypeInv, TypeOK, EnqueueTask, mainVars
  <2>5. HoldersHold' /\ ExecutedIsFront'
    BY <1>1, <2>2 DEF TypeInv, HoldersHold, ExecutedIsFront, EnqueueTask, mainVars
  <2>6. QED
    BY <2>4, <2>5 DEF TypeInv
<1>2. ASSUME NEW e \in Executors, FetchNextTask(e)
      PROVE  TypeInv'
  <2>1. ExecutedIsFront'
    BY <1>2 DEF TypeInv, ExecutedIsFront, FetchNextTask, mainVars
  <2>2. CASE MustWait
    <3>1. TypeOK'
      BY <1>2, <2>2 DEF TypeInv, TypeOK, FetchNextTask, mainVars, historyVars, ExecutorStates
    <3>2. HoldersHold'
      BY <1>2, <2>2 DEF TypeInv, TypeOK, HoldersHold, FetchNextTask
    <3>3. QED
      BY <2>1, <3>1, <3>2 DEF TypeInv
  <2>3. CASE ~MustWait
    <3>1. TakeOrExit(e)
      BY <1>2, <2>3 DEF FetchNextTask
    <3>2. HoldersHold'
      BY <1>2, <3>1, TakeOrExitKeepsHolders DEF TypeInv, FetchNextTask
    <3>3. TypeOK'
      BY <1>2, <3>1, TakeOrExitKeepsType DEF TypeInv, TypeOK, FetchNextTask, mainVars, historyVars
    <3>4. QED
      BY <2>1, <3>2, <3>3 DEF TypeInv
  <2>4. QED
    BY <2>2, <2>3
<1>3. ASSUME NEW e \in Executors, ReturnFromWait(e)
      PROVE  TypeInv'
  <2>1. HoldersHold'
    BY <1>3, TakeOrExitKeepsHolders DEF TypeInv, ReturnFromWait
  <2>2. TypeOK'
    BY <1>3, TakeOrExitKeepsType DEF TypeInv, TypeOK, ReturnFromWait, mainVars, historyVars
  <2>3. ExecutedIsFront'
    BY <1>3 DEF TypeInv, ExecutedIsFront, ReturnFromWait, mainVars
  <2>4. QED
    BY <2>1, <2>2, <2>3 DEF TypeInv
<1>4. ASSUME NEW e \in Executors, SpuriousWakeup(e)
      PROVE  TypeInv'
  <2>1. TypeOK'
    BY <1>4 DEF TypeInv, TypeOK, SpuriousWakeup, queueVars, mainVars, historyVars, ExecutorStates
  <2>2. HoldersHold' /\ ExecutedIsFront'
    BY <1>4 DEF TypeInv, TypeOK, HoldersHold, ExecutedIsFront, SpuriousWakeup, queueVars, mainVars
  <2>3. QED
    BY <2>1, <2>2 DEF TypeInv
<1>5. ASSUME NEW e \in Executors, AddProcessedTask(e)
      PROVE  TypeInv'
  <2>1. taskUnit[e] \in Tasks
    BY <1>5 DEF TypeInv, TypeOK, HoldersHold, AddProcessedTask
  <2>2. mProcessedTaskUnits' \in Seq(Tasks)
    BY <1>5, <2>1 DEF TypeInv, TypeOK, AddProcessedTask, PushedProcessed
  <2>3. handlers' \in Nat
    BY <1>5 DEF TypeInv, TypeOK, AddProcessedTask
  <2>4. TypeOK'
    BY <1>5, <2>2, <2>3 DEF TypeInv, TypeOK, AddProcessedTask, historyVars, ExecutorStates
  <2>5. HoldersHold'
    BY <1>5 DEF TypeInv, TypeOK, HoldersHold, AddProcessedTask
  <2>6. ExecutedIsFront'
    BY <1>5, <2>1 DEF TypeInv, TypeOK, ExecutedIsFront, AddProcessedTask, PushedProcessed
  <2>7. QED
    BY <2>4, <2>5, <2>6 DEF TypeInv
<1>6. ASSUME NEW e \in Executors, ListenerThrows(e)
      PROVE  TypeInv'
  <2>1. taskUnit[e] \in Tasks
    BY <1>6 DEF TypeInv, TypeOK, HoldersHold, ListenerThrows
  <2>2. TypeOK'
    BY <1>6, <2>1 DEF TypeInv, TypeOK, ListenerThrows, queueVars, mainVars, ExecutorStates
  <2>3. HoldersHold' /\ ExecutedIsFront'
    BY <1>6 DEF TypeInv, TypeOK, HoldersHold, ExecutedIsFront, ListenerThrows, queueVars, mainVars
  <2>4. QED
    BY <2>2, <2>3 DEF TypeInv
<1>7. ASSUME RunHandler PROVE TypeInv'
  <2>1. TypeOK'
    BY <1>7 DEF TypeInv, TypeOK, RunHandler, queueVars, executorVars, historyVars, MainStates
  <2>2. HoldersHold' /\ ExecutedIsFront'
    BY <1>7 DEF TypeInv, HoldersHold, ExecutedIsFront, RunHandler, executorVars
  <2>3. QED
    BY <2>1, <2>2 DEF TypeInv
<1>8. ASSUME ProcessCompletedTasks PROVE TypeInv'
  <2>1. current' \in Tasks \cup {NoTask}
    BY <1>8 DEF TypeInv, TypeOK, ProcessCompletedTasks
  <2>2. TypeOK'
    BY <1>8, <2>1 DEF TypeInv, TypeOK, ProcessCompletedTasks, queueVars, executorVars, historyVars, MainStates
  <2>3. HoldersHold' /\ ExecutedIsFront'
    BY <1>8 DEF TypeInv, HoldersHold, ExecutedIsFront, ProcessCompletedTasks, queueVars, executorVars
  <2>4. QED
    BY <2>2, <2>3 DEF TypeInv
<1>9. ASSUME TaskCompletes PROVE TypeInv'
  <2>1. mProcessedTaskUnits' \in Seq(Tasks) /\ current \in Tasks
    BY <1>9 DEF TypeInv, TypeOK, ExecutedIsFront, TaskCompletes
  <2>2. TypeOK'
    BY <1>9, <2>1 DEF TypeInv, TypeOK, TaskCompletes, executorVars, MainStates
  <2>3. HoldersHold' /\ ExecutedIsFront'
    BY <1>9 DEF TypeInv, HoldersHold, ExecutedIsFront, TaskCompletes, executorVars
  <2>4. QED
    BY <2>2, <2>3 DEF TypeInv
<1>10. ASSUME TaskWantsMore PROVE TypeInv'
  <2>1. current \in Tasks
    BY <1>10 DEF TypeInv, TypeOK, ExecutedIsFront, TaskWantsMore
  <2>2. mainSteps' \in [Tasks -> 0 .. MaxMainSteps]
    BY <1>10, <2>1 DEF TypeInv, TypeOK, TaskWantsMore
  <2>3. TypeOK'
    BY <1>10, <2>2 DEF TypeInv, TypeOK, TaskWantsMore, queueVars, executorVars, historyVars, MainStates
  <2>4. HoldersHold' /\ ExecutedIsFront'
    BY <1>10 DEF TypeInv, HoldersHold, ExecutedIsFront, TaskWantsMore, executorVars
  <2>5. QED
    BY <2>3, <2>4 DEF TypeInv
<1>11. ASSUME QueueNextHandler PROVE TypeInv'
  <2>1. mIsQueuedOnMainThread' \in BOOLEAN
    BY <1>11 DEF TypeInv, TypeOK, QueueNextHandler, PostNext
  <2>2. TypeOK'
    BY <1>11, <2>1 DEF TypeInv, TypeOK, QueueNextHandler, PostNext, executorVars, historyVars, MainStates
  <2>3. HoldersHold' /\ ExecutedIsFront'
    BY <1>11 DEF TypeInv, HoldersHold, ExecutedIsFront, QueueNextHandler, executorVars
  <2>4. QED
    BY <2>2, <2>3 DEF TypeInv
<1>12. ASSUME Deactivate PROVE TypeInv'
  <2>1. executor' \in [Executors -> ExecutorStates]
    BY <1>12, NotifyKeepsType DEF TypeInv, TypeOK, Deactivate
  <2>2. \A e \in Executors : executor'[e] = "running" <=> executor[e] = "running"
    BY <1>12 DEF TypeInv, TypeOK, Deactivate, NotifyAll
  <2>3. mActive' \in BOOLEAN /\ marker' \in BOOLEAN
    BY <1>12 DEF Deactivate, ClearMarker
  <2>4. TypeOK'
    BY <1>12, <2>1, <2>3 DEF TypeInv, TypeOK, Deactivate, historyVars, Stages
  <2>5. HoldersHold' /\ ExecutedIsFront'
    BY <1>12, <2>2 DEF TypeInv, HoldersHold, ExecutedIsFront, Deactivate
  <2>6. QED
    BY <2>4, <2>5 DEF TypeInv
<1>13. ASSUME JoinExecutors PROVE TypeInv'
  <2>1. TypeOK'
    BY <1>13 DEF TypeInv, TypeOK, JoinExecutors, queueVars, executorVars, historyVars, Stages
  <2>2. HoldersHold' /\ ExecutedIsFront'
    BY <1>13 DEF TypeInv, HoldersHold, ExecutedIsFront, JoinExecutors, queueVars, executorVars
  <2>3. QED
    BY <2>1, <2>2 DEF TypeInv
<1>14. ASSUME FlushProcessed PROVE TypeInv'
  <2>1. TypeOK'
    BY <1>14 DEF TypeInv, TypeOK, FlushProcessed, queueVars, executorVars, historyVars, Stages, MainStates
  <2>2. HoldersHold' /\ ExecutedIsFront'
    BY <1>14 DEF TypeInv, HoldersHold, ExecutedIsFront, FlushProcessed, executorVars
  <2>3. QED
    BY <2>1, <2>2 DEF TypeInv
<1>15. ASSUME UNCHANGED vars PROVE TypeInv'
  BY <1>15 DEF TypeInv, TypeOK, HoldersHold, ExecutedIsFront, vars, queueVars, executorVars, mainVars, historyVars
<1>16. QED
  BY <1>1, <1>2, <1>3, <1>4, <1>5, <1>6, <1>7, <1>8, <1>9, <1>10, <1>11,
     <1>12, <1>13, <1>14, <1>15 DEF Next, ExecutorStep, MainStep

(***************************************************************************)
(* The variables of a queue keep the types TypeOK gives them.              *)
(***************************************************************************)
THEOREM TypeCorrect == Spec => []TypeOK
<1>1. Init => TypeInv
  BY InitTypeInv
<1>2. TypeInv /\ [Next]_vars => TypeInv'
  BY StepTypeInv
<1>3. TypeInv => TypeOK
  BY DEF TypeInv
<1>4. QED
  BY <1>1, <1>2, <1>3, PTL DEF Spec

(***************************************************************************)
(* The unit the main thread executes is the front of mProcessedTaskUnits,  *)
(* whatever the executors push meanwhile: processCompletedTasks pops the   *)
(* unit it has executed.                                                   *)
(***************************************************************************)
THEOREM FrontIsExecuted == Spec => []ExecutedIsFront
<1>1. Init => TypeInv
  BY InitTypeInv
<1>2. TypeInv /\ [Next]_vars => TypeInv'
  BY StepTypeInv
<1>3. TypeInv => ExecutedIsFront
  BY DEF TypeInv
<1>4. QED
  BY <1>1, <1>2, <1>3, PTL DEF Spec

-----------------------------------------------------------------------------
(***************************************************************************)
(* The life of the queue.  The marker is set as long as the queue runs;    *)
(* the main thread is in processCompletedTasks only while the queue runs   *)
(* or is flushed; from the flush on the executors are gone; a destroyed    *)
(* queue has been flushed.  mIsQueuedOnMainThread is never set, so that    *)
(* addProcessedTask always posts a handler.                                *)
(***************************************************************************)
LifeInv ==
    /\ stage = "running" => marker
    /\ stage # "running" => ~marker
    /\ mIsQueuedOnMainThread = FALSE
    /\ main # "idle" => stage \in {"running", "flushing"}
    /\ stage \in {"flushing", "destroyed"} => AllExited
    /\ stage = "destroyed" => mProcessedTaskUnits = <<>>

SafetyInv == TypeInv /\ LifeInv /\ NoStrandedTask

\* A queue whose executors were just started satisfies SafetyInv.
LEMMA InitSafetyInv == Init => SafetyInv
<1> SUFFICES ASSUME Init PROVE SafetyInv
  OBVIOUS
<1>1. TypeInv
  BY InitTypeInv
<1>2. LifeInv
  BY DEF Init, LifeInv
<1>3. NoStrandedTask
  BY DEF Init, NoStrandedTask
<1>4. QED
  BY <1>1, <1>2, <1>3 DEF SafetyInv

\* Every step of the queue keeps SafetyInv.  Most leave the main thread, the
\* stage and the markers alone and take no executor out of "exited".
LEMMA StepSafetyInv == SafetyInv /\ [Next]_vars => SafetyInv'
<1> SUFFICES ASSUME SafetyInv, [Next]_vars
             PROVE  LifeInv' /\ NoStrandedTask'
  BY StepTypeInv DEF SafetyInv
<1> USE DEF SafetyInv
<1>1. ASSUME NEW t \in Tasks, EnqueueTask(t)
      PROVE  LifeInv' /\ NoStrandedTask'
  <2>1. AllExited => AllExited'
    BY <1>1 DEF AllExited, EnqueueTask, NotifyOne, TypeInv, TypeOK
  <2>2. LifeInv'
    BY <1>1, <2>1 DEF LifeInv, EnqueueTask, mainVars
  <2>3. NoStrandedTask'
    BY <1>1 DEF NoStrandedTask, EnqueueTask, mainVars
  <2>4. QED
    BY <2>2, <2>3
<1>2. ASSUME NEW e \in Executors, FetchNextTask(e)
      PROVE  LifeInv' /\ NoStrandedTask'
  <2>1. AllExited => AllExited'
    BY <1>2 DEF AllExited, FetchNextTask
  <2>2. LifeInv'
    BY <1>2, <2>1 DEF LifeInv, FetchNextTask, mainVars
  <2>3. NoStrandedTask'
    BY <1>2 DEF NoStrandedTask, FetchNextTask, mainVars
  <2>4. QED
    BY <2>2, <2>3
<1>3. ASSUME NEW e \in Executors, ReturnFromWait(e)
      PROVE  LifeInv' /\ NoStrandedTask'
  <2>1. AllExited => AllExited'
    BY <1>3 DEF AllExited, ReturnFromWait
  <2>2. LifeInv'
    BY <1>3, <2>1 DEF LifeInv, ReturnFromWait, mainVars
  <2>3. NoStrandedTask'
    BY <1>3 DEF NoStrandedTask, ReturnFromWait, mainVars
  <2>4. QED
    BY <2>2, <2>3
<1>4. ASSUME NEW e \in Executors, SpuriousWakeup(e)
      PROVE  LifeInv' /\ NoStrandedTask'
  <2>1. AllExited => AllExited'
    BY <1>4 DEF AllExited, SpuriousWakeup
  <2>2. LifeInv'
    BY <1>4, <2>1 DEF LifeInv, SpuriousWakeup, queueVars, mainVars
  <2>3. NoStrandedTask'
    BY <1>4 DEF NoStrandedTask, SpuriousWakeup, queueVars, mainVars
  <2>4. QED
    BY <2>2, <2>3
<1>5. ASSUME NEW e \in Executors, AddProcessedTask(e)
      PROVE  LifeInv' /\ NoStrandedTask'
  <2>1. ~AllExited
    BY <1>5 DEF AllExited, AddProcessedTask
  <2>2. LifeInv'
    BY <1>5, <2>1 DEF LifeInv, AddProcessedTask
  <2>3. handlers' > 0
    BY <1>5 DEF LifeInv, AddProcessedTask, TypeInv, TypeOK
  <2>4. NoStrandedTask'
    BY <2>3 DEF NoStrandedTask
  <2>5. QED
    BY <2>2, <2>4
<1>6. ASSUME NEW e \in Executors, ListenerThrows(e)
      PROVE  LifeInv' /\ NoStrandedTask'
  <2>1. ~AllExited
    BY <1>6 DEF AllExited, ListenerThrows
  <2>2. LifeInv'
    BY <1>6, <2>1 DEF LifeInv, ListenerThrows, queueVars, mainVars
  <2>3. NoStrandedTask'
    BY <1>6 DEF NoStrandedTask, ListenerThrows, queueVars, mainVars
  <2>4. QED
    BY <2>2, <2>3
<1>7. ASSUME RunHandler PROVE LifeInv' /\ NoStrandedTask'
  <2>1. main' # "idle" => stage = "running"
    BY <1>7 DEF LifeInv, RunHandler
  <2>2. stage = "running" => main' # "idle"
    BY <1>7 DEF LifeInv, RunHandler
  <2>3. LifeInv'
    BY <1>7, <2>1 DEF LifeInv, RunHandler, queueVars, executorVars, AllExited
  <2>4. NoStrandedTask'
    BY <1>7, <2>2 DEF NoStrandedTask, RunHandler
  <2>5. QED
    BY <2>3, <2>4
<1>8. ASSUME ProcessCompletedTasks PROVE LifeInv' /\ NoStrandedTask'
  <2>1. LifeInv'
    BY <1>8 DEF LifeInv, ProcessCompletedTasks, queueVars, executorVars, AllExited
  <2>2. NoStrandedTask'
    BY <1>8 DEF NoStrandedTask, ProcessCompletedTasks, queueVars
  <2>3. QED
    BY <2>1, <2>2
<1>9. ASSUME TaskCompletes PROVE LifeInv' /\ NoStrandedTask'
  <2>1. LifeInv'
    BY <1>9 DEF LifeInv, TaskCompletes, executorVars, AllExited
  <2>2. NoStrandedTask'
    BY <1>9 DEF NoStrandedTask, TaskCompletes
  <2>3. QED
    BY <2>1, <2>2
<1>10. ASSUME TaskWantsMore PROVE LifeInv' /\ NoStrandedTask'
  <2>1. LifeInv'
    BY <1>10 DEF LifeInv, TaskWantsMore, queueVars, executorVars, AllExited
  <2>2. NoStrandedTask'
    BY <1>10 DEF NoStrandedTask, TaskWantsMore
  <2>3. QED
    BY <2>1, <2>2
<1>11. ASSUME QueueNextHandler PROVE LifeInv' /\ NoStrandedTask'
  <2>1. LifeInv'
    BY <1>11 DEF LifeInv, QueueNextHandler, PostNext, executorVars, AllExited
  <2>2. mProcessedTaskUnits # <<>> => handlers' > 0
    BY <1>11 DEF QueueNextHandler, PostNext, TypeInv, TypeOK
  <2>3. NoStrandedTask'
    BY <1>11, <2>2 DEF NoStrandedTask, QueueNextHandler
  <2>4. QED
    BY <2>1, <2>3
<1>12. ASSUME Deactivate PROVE LifeInv' /\ NoStrandedTask'
  <2>1. LifeInv'
    BY <1>12 DEF LifeInv, Deactivate, ClearMarker
  <2>2. NoStrandedTask'
    BY <1>12 DEF NoStrandedTask, Deactivate
  <2>3. QED
    BY <2>1, <2>2
<1>13. ASSUME JoinExecutors PROVE LifeInv' /\ NoStrandedTask'
  <2>1. LifeInv'
    BY <1>13 DEF LifeInv, JoinExecutors, queueVars, executorVars, AllExited
  <2>2. NoStrandedTask'
    BY <1>13 DEF NoStrandedTask, JoinExecutors
  <2>3. QED
    BY <2>1, <2>2
<1>14. ASSUME FlushProcessed PROVE LifeInv' /\ NoStrandedTask'
  <2>1. LifeInv'
    BY <1>14 DEF LifeInv, FlushProcessed, queueVars, executorVars, AllExited
  <2>2. NoStrandedTask'
    BY <1>14 DEF NoStrandedTask, FlushProcessed
  <2>3. QED
    BY <2>1, <2>2
<1>15. ASSUME UNCHANGED vars PROVE LifeInv' /\ NoStrandedTask'
  BY <1>15 DEF LifeInv, NoStrandedTask, AllExited, vars, queueVars, executorVars, mainVars
<1>16. QED
  BY <1>1, <1>2, <1>3, <1>4, <1>5, <1>6, <1>7, <1>8, <1>9, <1>10, <1>11,
     <1>12, <1>13, <1>14, <1>15 DEF Next, ExecutorStep, MainStep

\* SafetyInv holds of every state of a queue: the theorems below follow.
LEMMA SafetyInvariant == Spec => []SafetyInv
<1>1. Init => SafetyInv
  BY InitSafetyInv
<1>2. SafetyInv /\ [Next]_vars => SafetyInv'
  BY StepSafetyInv
<1>3. QED
  BY <1>1, <1>2, PTL DEF Spec

(***************************************************************************)
(* A task that has been through the background is never stranded: the main *)
(* thread is in processCompletedTasks, or a handler is posted for it.      *)
(***************************************************************************)
THEOREM NothingStranded == Spec => []NoStrandedTask
<1>1. SafetyInv => NoStrandedTask
  BY DEF SafetyInv
<1>2. QED
  BY <1>1, SafetyInvariant, PTL

(***************************************************************************)
(* The handlers that are left in the EventService when the queue dies do   *)
(* not enter it: the active marker was cleared before.                     *)
(***************************************************************************)
THEOREM DestroyedQueueIsLeftAlone == Spec => []NoCallIntoDestroyedQueue
<1>1. SafetyInv => NoCallIntoDestroyedQueue
  BY DEF SafetyInv, LifeInv, NoCallIntoDestroyedQueue
<1>2. QED
  BY <1>1, SafetyInvariant, PTL

(***************************************************************************)
(* deactivate() leaves no processed task, no running executor and no task  *)
(* in the background behind.                                               *)
(***************************************************************************)
THEOREM DeactivateDrains == Spec => []DestroyedIsDrained
<1>1. SafetyInv => DestroyedIsDrained
  BY DEF SafetyInv, TypeInv, HoldersHold, LifeInv, AllExited, DestroyedIsDrained
<1>2. QED
  BY <1>1, SafetyInvariant, PTL

-----------------------------------------------------------------------------
(***************************************************************************)
(* One executor that is never woken unprovoked, as Ember has it.  It is    *)
(* woken for a unit that nobody else can take, or because the queue closes;*)
(* so it leaves only a queue that is empty and takes no more.              *)
(***************************************************************************)
SingleInv ==
    /\ mActive <=> stage = "running"
    /\ \A e \in Executors :
        /\ executor[e] = "woken" => mUnprocessedTaskUnits # <<>> \/ ~mActive
        /\ executor[e] = "exited" => mUnprocessedTaskUnits = <<>> /\ ~mActive

\* Every step of a queue with one executor keeps SingleInv.
LEMMA StepSingleInv ==
    ASSUME NEW only, Executors = {only}, ~SpuriousWakeups,
           TypeOK, SingleInv, [Next]_vars
    PROVE  SingleInv'
<1> USE DEF SingleInv
<1>1. ASSUME NEW t \in Tasks, EnqueueTask(t) PROVE SingleInv'
  <2>1. mUnprocessedTaskUnits' # <<>>
    BY <1>1 DEF EnqueueTask, TypeOK
  <2>2. executor[only] # "exited" /\ executor'[only] # "exited"
    BY <1>1 DEF EnqueueTask, NotifyOne, TypeOK
  <2>3. UNCHANGED <<mActive, stage>>
    BY <1>1 DEF EnqueueTask, mainVars
  <2> QED BY <2>1, <2>2, <2>3
<1>2. ASSUME NEW e \in Executors, TakeOrExit(e), UNCHANGED <<mActive, stage>>, ~MustWait
      PROVE  SingleInv'
  BY <1>2 DEF TakeOrExit, MustWait, TypeOK
<1>3. ASSUME NEW e \in Executors, FetchNextTask(e) PROVE SingleInv'
  <2>1. CASE MustWait
    BY <1>3, <2>1 DEF FetchNextTask, mainVars, TypeOK
  <2>2. CASE ~MustWait
    BY <1>2, <1>3, <2>2 DEF FetchNextTask, mainVars
  <2> QED BY <2>1, <2>2
<1>4. ASSUME NEW e \in Executors, ReturnFromWait(e) PROVE SingleInv'
  <2>1. ~MustWait
    BY <1>4 DEF ReturnFromWait, MustWait
  <2> QED BY <1>2, <1>4, <2>1 DEF ReturnFromWait, mainVars
<1>5. ASSUME NEW e \in Executors, AddProcessedTask(e) \/ ListenerThrows(e) PROVE SingleInv'
  BY <1>5 DEF AddProcessedTask, ListenerThrows, queueVars, mainVars, TypeOK
<1>6. ASSUME NEW e \in Executors, SpuriousWakeup(e) PROVE SingleInv'
  BY <1>6 DEF SpuriousWakeup
<1>7. ASSUME Deactivate PROVE SingleInv'
  BY <1>7 DEF Deactivate, NotifyAll, TypeOK
<1>8. ASSUME JoinExecutors \/ FlushProcessed PROVE SingleInv'
  BY <1>8 DEF JoinExecutors, FlushProcessed, queueVars, executorVars, TypeOK
<1>9. ASSUME UNCHANGED <<mActive, mUnprocessedTaskUnits, executor, stage>> PROVE SingleInv'
  BY <1>9
<1>10. ASSUME RunHandler \/ ProcessCompletedTasks \/ TaskCompletes \/ TaskWantsMore
                \/ QueueNextHandler
       PROVE  SingleInv'
  <2>1. UNCHANGED <<mActive, mUnprocessedTaskUnits, executor, stage>>
    BY <1>10 DEF RunHandler, ProcessCompletedTasks, TaskCompletes, TaskWantsMore,
                 QueueNextHandler, queueVars, executorVars
  <2> QED BY <1>9, <2>1
<1>11. ASSUME UNCHANGED vars PROVE SingleInv'
  BY <1>9, <1>11 DEF vars, queueVars, executorVars, mainVars
<1> QED
  BY <1>1, <1>3, <1>4, <1>5, <1>6, <1>7, <1>8, <1>10, <1>11
     DEF Next, ExecutorStep, MainStep

\* SingleInv holds of every state of such a queue.
LEMMA SingleInvHolds ==
    ASSUME NEW only, Executors = {only}, ~SpuriousWakeups
    PROVE  Spec => []SingleInv
<1>1. Init => SingleInv
  BY DEF Init, SingleInv
<1>2. TypeOK /\ SingleInv /\ [Next]_vars => SingleInv'
  BY StepSingleInv
<1> QED BY <1>1, <1>2, TypeCorrect, PTL DEF Spec

(***************************************************************************)
(* assert(mUnprocessedTaskUnits.empty()) at the end of deactivate() holds  *)
(* of a queue with one executor that is not woken unprovoked.              *)
(***************************************************************************)
THEOREM NothingLeftBehind ==
    ASSUME NEW only, Executors = {only}, ~SpuriousWakeups
    PROVE  Spec => []NothingUnprocessedAtEnd
<1>1. SafetyInv /\ SingleInv => NothingUnprocessedAtEnd
  BY DEF SafetyInv, LifeInv, AllExited, SingleInv, NothingUnprocessedAtEnd
<1> QED BY <1>1, SafetyInvariant, SingleInvHolds, PTL

(***************************************************************************)
(* "If the queue returns a null pointer, it means that the queue is being  *)
(* shut down", and such an executor leaves its loop for no other reason.   *)
(***************************************************************************)
THEOREM NullMeansShutdown ==
    ASSUME NEW only, Executors = {only}, ~SpuriousWakeups
    PROVE  Spec => []ExitOnlyAtShutdown
<1>1. SingleInv => ExitOnlyAtShutdown
  BY DEF SingleInv, ExitOnlyAtShutdown
<1> QED BY <1>1, SingleInvHolds, PTL

-----------------------------------------------------------------------------
\* The units that executors hold.
Held == {taskUnit[e] : e \in Executors} \ {NoTask}

(***************************************************************************)
(* Every accepted task is in exactly one place: in one of the queues, once,*)
(* with one executor, or at an end of its life.  Each step of the code     *)
(* moves a unit, and a unit that were in two places, or in none, would be  *)
(* executed twice or never.                                                *)
(***************************************************************************)
PlacesInv ==
    /\ IsInjective(mUnprocessedTaskUnits)
    /\ IsInjective(mProcessedTaskUnits)
    /\ \A e, f \in Executors :
        taskUnit[e] = taskUnit[f] /\ taskUnit[e] # NoTask => e = f
    /\ Range(mUnprocessedTaskUnits) \cap
        (Range(mProcessedTaskUnits) \cup Held \cup finished \cup discarded) = {}
    /\ Range(mProcessedTaskUnits) \cap (Held \cup finished \cup discarded) = {}
    /\ Held \cap (finished \cup discarded) = {}
    /\ finished \cap discarded = {}
    /\ accepted = Range(mUnprocessedTaskUnits) \cup Range(mProcessedTaskUnits)
                    \cup Held \cup finished \cup discarded

Status == [t \in Tasks |-> StatusOf(t)]

LifeStep == [Lifecycle!Next]_Status

\* A step that changes the place of one task along its life is a step of
\* TaskLifecycle.
LEMMA AdvanceStep ==
    ASSUME NEW t \in Tasks,
           <<StatusOf(t), StatusOf(t)'>> \in
               {<<"new", "queued">>, <<"queued", "background">>, <<"background", "processed">>,
                <<"background", "discarded">>, <<"processed", "finished">>},
           \A u \in Tasks \ {t} : StatusOf(u)' = StatusOf(u)
    PROVE  LifeStep
<1>1. Status' = [Status EXCEPT ![t] = StatusOf(t)']
  BY DEF Status
<1>2. Status[t] = StatusOf(t)
  BY DEF Status
<1> QED BY <1>1, <1>2 DEF LifeStep, Status, Lifecycle!Next, Lifecycle!Advance

\* A step that leaves all places alone.
LEMMA PlacesKept ==
    ASSUME PlacesInv,
           UNCHANGED <<mUnprocessedTaskUnits, mProcessedTaskUnits, taskUnit, accepted,
                       finished, discarded>>
    PROVE  PlacesInv' /\ LifeStep
<1>1. PlacesInv'
  BY DEF PlacesInv, Held, Range, IsInjective
<1>2. \A t \in Tasks : StatusOf(t)' = StatusOf(t)
  BY DEF StatusOf, Range
<1>3. Status' = Status
  BY <1>2 DEF Status
<1> QED BY <1>1, <1>3 DEF LifeStep

\* An accepted task is new no more.
LEMMA EnqueuePlaces ==
    ASSUME TypeInv, PlacesInv, NEW t \in Tasks, EnqueueTask(t)
    PROVE  PlacesInv' /\ LifeStep
<1>1. UNCHANGED <<mProcessedTaskUnits, taskUnit, finished, discarded>>
  BY DEF EnqueueTask
<1>2. t \notin accepted /\ accepted' = accepted \cup {t}
  BY DEF EnqueueTask
<1>3. /\ Range(mUnprocessedTaskUnits') = Range(mUnprocessedTaskUnits) \cup {t}
      /\ IsInjective(mUnprocessedTaskUnits')
  <2>1. t \notin Range(mUnprocessedTaskUnits)
    BY <1>2 DEF PlacesInv
  <2> QED BY <2>1, AppendRange DEF EnqueueTask, TypeInv, TypeOK, PlacesInv
<1>4. Held' = Held /\ Range(mProcessedTaskUnits)' = Range(mProcessedTaskUnits)
  BY <1>1 DEF Held, Range
<1>5. PlacesInv'
  BY <1>1, <1>2, <1>3, <1>4 DEF PlacesInv
<1>6. StatusOf(t) = "new" /\ StatusOf(t)' = "queued"
  BY <1>1, <1>2, <1>3 DEF StatusOf, PlacesInv
<1>7. \A u \in Tasks \ {t} : StatusOf(u)' = StatusOf(u)
  BY <1>1, <1>2, <1>3, <1>4 DEF StatusOf
<1> QED BY <1>5, <1>6, <1>7, AdvanceStep

\* A unit that is taken is with one executor, and no longer queued.
LEMMA TakePlaces ==
    ASSUME TypeInv, PlacesInv, NEW e \in Executors, TakeOrExit(e),
           executor[e] # "running",
           UNCHANGED <<mProcessedTaskUnits, accepted, finished, discarded>>
    PROVE  PlacesInv' /\ LifeStep
<1>1. CASE mUnprocessedTaskUnits = <<>>
  BY <1>1, PlacesKept DEF TakeOrExit
<1>2. CASE mUnprocessedTaskUnits # <<>>
  <2>0. PICK t \in Tasks : t = Head(mUnprocessedTaskUnits)
    BY <1>2 DEF TypeInv, TypeOK
  <2>1. t # NoTask
    BY TaskQueueAssumption
  <2>2. /\ Range(mUnprocessedTaskUnits) = Range(mUnprocessedTaskUnits') \cup {t}
        /\ t \notin Range(mUnprocessedTaskUnits')
        /\ IsInjective(mUnprocessedTaskUnits')
    <3>1. mUnprocessedTaskUnits' = Tail(mUnprocessedTaskUnits)
      BY <1>2 DEF TakeOrExit
    <3>2. mUnprocessedTaskUnits \in Seq(Tasks) /\ IsInjective(mUnprocessedTaskUnits)
      BY DEF TypeInv, TypeOK, PlacesInv
    <3> QED BY <1>2, <2>0, <3>1, <3>2, TailRange
  <2>3. /\ taskUnit[e] = NoTask /\ taskUnit'[e] = t
        /\ \A f \in Executors \ {e} : taskUnit'[f] = taskUnit[f]
    BY <1>2, <2>0 DEF TakeOrExit, TypeInv, TypeOK, HoldersHold
  <2>4. Range(mProcessedTaskUnits)' = Range(mProcessedTaskUnits)
    BY DEF Range
  <2>5. Held' = Held \cup {t}
    BY <2>1, <2>3 DEF Held
  <2>6. t \notin Held /\ t \in accepted /\ t \notin Range(mProcessedTaskUnits)
        /\ t \notin finished /\ t \notin discarded
    BY <2>2 DEF PlacesInv
  <2>7. \A f \in Executors : taskUnit[f] # t
    BY <2>1, <2>6 DEF Held
  <2>8. \A f, g \in Executors :
            taskUnit'[f] = taskUnit'[g] /\ taskUnit'[f] # NoTask => f = g
    BY <2>3, <2>7 DEF PlacesInv
  <2>9. PlacesInv'
    BY <2>2, <2>4, <2>5, <2>6, <2>8 DEF PlacesInv
  <2>10. StatusOf(t) = "queued" /\ StatusOf(t)' = "background"
    BY <2>2, <2>4, <2>6 DEF StatusOf
  <2>11. \A u \in Tasks \ {t} : StatusOf(u)' = StatusOf(u)
    BY <2>2, <2>4 DEF StatusOf
  <2> QED BY <2>9, <2>10, <2>11, AdvanceStep
<1> QED BY <1>1, <1>2

\* An executor that gives its unit away holds none.
LEMMA HeldWithout ==
    ASSUME TypeInv, PlacesInv, NEW e \in Executors, executor[e] = "running",
           taskUnit' = [taskUnit EXCEPT ![e] = NoTask]
    PROVE  /\ taskUnit[e] \in Tasks /\ taskUnit[e] \in Held
           /\ Held' = Held \ {taskUnit[e]}
           /\ \A f, g \in Executors :
                taskUnit'[f] = taskUnit'[g] /\ taskUnit'[f] # NoTask => f = g
<1>1. taskUnit[e] \in Tasks /\ taskUnit[e] # NoTask
  BY DEF TypeInv, TypeOK, HoldersHold
<1>2. /\ taskUnit'[e] = NoTask
      /\ \A f \in Executors \ {e} : taskUnit'[f] = taskUnit[f]
  BY DEF TypeInv, TypeOK
<1>3. \A f \in Executors \ {e} : taskUnit[f] # taskUnit[e]
  BY <1>1 DEF PlacesInv
<1>4. Held' = Held \ {taskUnit[e]}
  BY <1>1, <1>2, <1>3 DEF Held
<1>5. \A f, g \in Executors :
        taskUnit'[f] = taskUnit'[g] /\ taskUnit'[f] # NoTask => f = g
  BY <1>2 DEF PlacesInv
<1> QED BY <1>1, <1>4, <1>5 DEF Held

\* A unit that is pushed was in the background and nowhere else.
LEMMA PushPlaces ==
    ASSUME TypeInv, PlacesInv, NEW e \in Executors, AddProcessedTask(e)
    PROVE  PlacesInv' /\ LifeStep
<1>0. PICK t \in Tasks : t = taskUnit[e]
  BY DEF AddProcessedTask, TypeInv, TypeOK, HoldersHold
<1>1. UNCHANGED <<mUnprocessedTaskUnits, accepted, finished, discarded>>
  BY DEF AddProcessedTask, historyVars
<1>2. /\ t \in Held /\ Held' = Held \ {t}
      /\ \A f, g \in Executors :
            taskUnit'[f] = taskUnit'[g] /\ taskUnit'[f] # NoTask => f = g
  BY <1>0, HeldWithout DEF AddProcessedTask
<1>3. mProcessedTaskUnits' = Append(mProcessedTaskUnits, t)
  BY <1>0 DEF AddProcessedTask, PushedProcessed
<1>4. /\ t \in accepted /\ t \notin finished /\ t \notin discarded
      /\ t \notin Range(mUnprocessedTaskUnits) /\ t \notin Range(mProcessedTaskUnits)
  BY <1>2 DEF PlacesInv
<1>5. /\ Range(mProcessedTaskUnits') = Range(mProcessedTaskUnits) \cup {t}
      /\ IsInjective(mProcessedTaskUnits')
  BY <1>2, <1>3, <1>4, AppendRange DEF TypeInv, TypeOK, PlacesInv
<1>6. Range(mUnprocessedTaskUnits)' = Range(mUnprocessedTaskUnits)
  BY <1>1 DEF Range
<1>7. PlacesInv'
  BY <1>1, <1>2, <1>4, <1>5, <1>6 DEF PlacesInv
<1>8. StatusOf(t) = "background" /\ StatusOf(t)' = "processed"
  BY <1>1, <1>4, <1>5, <1>6 DEF StatusOf
<1>9. \A u \in Tasks \ {t} : StatusOf(u)' = StatusOf(u)
  BY <1>1, <1>5, <1>6 DEF StatusOf
<1> QED BY <1>7, <1>8, <1>9, AdvanceStep

\* A unit whose listener throws was in the background and nowhere else.
LEMMA DiscardPlaces ==
    ASSUME TypeInv, PlacesInv, NEW e \in Executors, ListenerThrows(e)
    PROVE  PlacesInv' /\ LifeStep
<1>0. PICK t \in Tasks : t = taskUnit[e]
  BY DEF ListenerThrows, TypeInv, TypeOK, HoldersHold
<1>1. UNCHANGED <<mUnprocessedTaskUnits, mProcessedTaskUnits, accepted, finished>>
  BY DEF ListenerThrows, queueVars
<1>2. /\ t \in Held /\ Held' = Held \ {t}
      /\ \A f, g \in Executors :
            taskUnit'[f] = taskUnit'[g] /\ taskUnit'[f] # NoTask => f = g
  BY <1>0, HeldWithout DEF ListenerThrows
<1>3. discarded' = discarded \cup {t}
  BY <1>0 DEF ListenerThrows
<1>4. /\ t \in accepted /\ t \notin finished /\ t \notin discarded
      /\ t \notin Range(mUnprocessedTaskUnits) /\ t \notin Range(mProcessedTaskUnits)
  BY <1>2 DEF PlacesInv
<1>5. /\ Range(mUnprocessedTaskUnits)' = Range(mUnprocessedTaskUnits)
      /\ Range(mProcessedTaskUnits)' = Range(mProcessedTaskUnits)
  BY <1>1 DEF Range
<1>6. PlacesInv'
  BY <1>1, <1>2, <1>3, <1>4, <1>5 DEF PlacesInv
<1>7. StatusOf(t) = "background" /\ StatusOf(t)' = "discarded"
  BY <1>1, <1>3, <1>4 DEF StatusOf
<1>8. \A u \in Tasks \ {t} : StatusOf(u)' = StatusOf(u)
  BY <1>1, <1>3, <1>5 DEF StatusOf
<1> QED BY <1>6, <1>7, <1>8, AdvanceStep

\* The unit that is popped is the one that was executed.
LEMMA CompletePlaces ==
    ASSUME TypeInv, PlacesInv, TaskCompletes
    PROVE  PlacesInv' /\ LifeStep
<1>0. PICK t \in Tasks : t = current
  BY DEF TaskCompletes, TypeInv, TypeOK, ExecutedIsFront
<1>1. UNCHANGED <<mUnprocessedTaskUnits, taskUnit, accepted, discarded>>
  BY DEF TaskCompletes, executorVars
<1>2. /\ mProcessedTaskUnits # <<>> /\ t = Head(mProcessedTaskUnits)
      /\ mProcessedTaskUnits' = Tail(mProcessedTaskUnits)
      /\ finished' = finished \cup {t}
  BY <1>0 DEF TaskCompletes, TypeInv, ExecutedIsFront
<1>3. /\ Range(mProcessedTaskUnits) = Range(mProcessedTaskUnits') \cup {t}
      /\ t \notin Range(mProcessedTaskUnits')
      /\ IsInjective(mProcessedTaskUnits')
  BY <1>2, TailRange DEF TypeInv, TypeOK, PlacesInv
<1>5. /\ t \in accepted /\ t \notin finished /\ t \notin discarded /\ t \notin Held
      /\ t \notin Range(mUnprocessedTaskUnits)
  BY <1>3 DEF PlacesInv
<1>6. Held' = Held /\ Range(mUnprocessedTaskUnits)' = Range(mUnprocessedTaskUnits)
  BY <1>1 DEF Held, Range
<1>7. PlacesInv'
  BY <1>1, <1>2, <1>3, <1>5, <1>6 DEF PlacesInv
<1>8. StatusOf(t) = "processed" /\ StatusOf(t)' = "finished"
  BY <1>1, <1>2, <1>3, <1>5 DEF StatusOf
<1>9. \A u \in Tasks \ {t} : StatusOf(u)' = StatusOf(u)
  BY <1>1, <1>2, <1>3, <1>6 DEF StatusOf
<1> QED BY <1>7, <1>8, <1>9, AdvanceStep

\* Every step of the queue keeps PlacesInv and is a step of TaskLifecycle.
LEMMA StepPlaces ==
    ASSUME TypeInv, PlacesInv, [Next]_vars
    PROVE  PlacesInv' /\ LifeStep
<1>1. ASSUME NEW e \in Executors, FetchNextTask(e) PROVE PlacesInv' /\ LifeStep
  <2>1. CASE MustWait
    BY <1>1, <2>1, PlacesKept DEF FetchNextTask, historyVars
  <2>2. CASE ~MustWait
    BY <1>1, <2>2, TakePlaces DEF FetchNextTask, historyVars
  <2> QED BY <2>1, <2>2
<1>2. ASSUME NEW e \in Executors, ReturnFromWait(e) PROVE PlacesInv' /\ LifeStep
  BY <1>2, TakePlaces DEF ReturnFromWait, historyVars
<1>3. ASSUME NEW e \in Executors, SpuriousWakeup(e) PROVE PlacesInv' /\ LifeStep
  BY <1>3, PlacesKept DEF SpuriousWakeup, queueVars, historyVars
<1>4. ASSUME RunHandler \/ ProcessCompletedTasks \/ TaskWantsMore \/ QueueNextHandler
               \/ JoinExecutors \/ FlushProcessed \/ Deactivate
      PROVE  PlacesInv' /\ LifeStep
  <2>1. UNCHANGED <<mUnprocessedTaskUnits, mProcessedTaskUnits, taskUnit, accepted,
                    finished, discarded>>
    BY <1>4 DEF RunHandler, ProcessCompletedTasks, TaskWantsMore, QueueNextHandler,
                JoinExecutors, FlushProcessed, Deactivate, queueVars, executorVars, historyVars
  <2> QED BY <2>1, PlacesKept
<1>5. ASSUME UNCHANGED vars PROVE PlacesInv' /\ LifeStep
  BY <1>5, PlacesKept DEF vars, queueVars, executorVars, historyVars
<1> QED
  BY <1>1, <1>2, <1>3, <1>4, <1>5, EnqueuePlaces, PushPlaces, DiscardPlaces, CompletePlaces
     DEF Next, ExecutorStep, MainStep

(***************************************************************************)
(* An accepted task is always in exactly one place: TaskLifecycle takes a  *)
(* task that is nowhere for one in the background, this does not.          *)
(***************************************************************************)
THEOREM EveryTaskInOnePlace == Spec => []PlacesInv
<1>1. Init => PlacesInv
  BY DEF Init, PlacesInv, Held, Range, IsInjective
<1>2. TypeInv /\ PlacesInv /\ [Next]_vars => PlacesInv'
  BY StepPlaces
<1> QED
  BY <1>1, <1>2, InitTypeInv, StepTypeInv, PTL DEF Spec

(***************************************************************************)
(* The queue implements the life of a task, for any number of tasks and    *)
(* executors and with unprovoked wakeups: no unit is dropped between the   *)
(* queues and the executors, none is executed or completed twice.          *)
(***************************************************************************)
THEOREM QueueImplementsLifecycle == Spec => ImplementsLifecycle
<1>1. Init => PlacesInv /\ Lifecycle!Init
  BY DEF Init, PlacesInv, Held, Range, IsInjective, StatusOf, Lifecycle!Init
<1>2. TypeInv /\ PlacesInv /\ [Next]_vars => PlacesInv' /\ LifeStep
  BY StepPlaces
<1> QED
  BY <1>1, <1>2, InitTypeInv, StepTypeInv, PTL
     DEF Spec, ImplementsLifecycle, Lifecycle!Spec, LifeStep, Status

=============================================================================
