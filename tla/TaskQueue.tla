----------------------------- MODULE TaskQueue -----------------------------
(***************************************************************************)
(* Ember's task queue: apps/ember/src/framework/tasks.                     *)
(*                                                                         *)
(* Tasks are enqueued on a TaskQueue, fetched by TaskExecutor threads,     *)
(* executed there, pushed on a second queue and completed by the main      *)
(* thread, which is told to do so by a handler posted on the EventService  *)
(* (libs/eris).  deactivate() joins the executors and completes what is    *)
(* left before the queue is destroyed.                                     *)
(*                                                                         *)
(* Every step below is one critical section of the code, or what runs      *)
(* between two of them.                                                    *)
(***************************************************************************)
EXTENDS Naturals, Sequences, FiniteSets, Functions

CONSTANTS
    Tasks,            \* the tasks that may be enqueued, each at most once
    Executors,        \* the executor threads
    NoTask,           \* "holds no task unit"
    MaxMainSteps,     \* bound: how often a task may ask to be called again
                      \* on the main thread (subtasks, long main parts)
    SpuriousWakeups   \* may condition_variable::wait return unprovoked?

ASSUME TaskQueueAssumption ==
    /\ NoTask \notin Tasks
    /\ MaxMainSteps \in Nat
    /\ SpuriousWakeups \in BOOLEAN

VARIABLES
    mActive,                \* TaskQueue::mActive
    mUnprocessedTaskUnits,  \* queue filled by enqueueTask
    mProcessedTaskUnits,    \* queue filled by addProcessedTask
    mIsQueuedOnMainThread,  \* TaskQueue::mIsQueuedOnMainThread
    marker,                 \* *mActiveMarker
    executor,               \* control state of each executor thread
    taskUnit,               \* the task unit each executor holds
    handlers,               \* processCompletedTasks handlers in EventService
    main,                   \* main thread inside processCompletedTasks
    current,                \* the unit the main thread is executing
    mainSteps,              \* how often a task returned false so far
    stage,                  \* life of the queue, driven by the main thread
    accepted,               \* history: tasks enqueueTask returned true for
    finished,               \* history: tasks completed on the main thread
    discarded               \* history: tasks lost to a throwing listener

queueVars == <<mActive, mUnprocessedTaskUnits, mProcessedTaskUnits,
               mIsQueuedOnMainThread, marker>>
executorVars == <<executor, taskUnit>>
mainVars == <<handlers, main, current, mainSteps, stage>>
historyVars == <<accepted, finished, discarded>>
vars == <<queueVars, executorVars, mainVars, historyVars>>

ExecutorStates == {"fetch", "waiting", "woken", "running", "exited"}
MainStates == {"idle", "check", "executing", "finish"}
Stages == {"running", "joining", "flushing", "destroyed"}

-----------------------------------------------------------------------------

\* TaskQueue::TaskQueue: the executors start in their constructor.
Init ==
    /\ mActive = TRUE
    /\ mUnprocessedTaskUnits = <<>>
    /\ mProcessedTaskUnits = <<>>
    /\ mIsQueuedOnMainThread = FALSE
    /\ marker = TRUE
    /\ executor = [e \in Executors |-> "fetch"]
    /\ taskUnit = [e \in Executors |-> NoTask]
    /\ handlers = 0
    /\ main = "idle"
    /\ current = NoTask
    /\ mainSteps = [t \in Tasks |-> 0]
    /\ stage = "running"
    /\ accepted = {}
    /\ finished = {}
    /\ discarded = {}

-----------------------------------------------------------------------------
\* Threads that enqueue.

\* Mutant of NotifyOne: enqueueTask forgets to notify.
NotifyNoOne == UNCHANGED executor

\* notify_one on mUnprocessedQueueCond: one waiter, if there is one.
NotifyOne ==
    LET Waiting == {e \in Executors : executor[e] = "waiting"}
    IN  IF Waiting = {}
        THEN UNCHANGED executor
        ELSE \E e \in Waiting : executor' = [executor EXCEPT ![e] = "woken"]

\* enqueueTask, the whole of it under mUnprocessedQueueMutex.  On a queue
\* that is not active it returns false and changes nothing.
EnqueueTask(t) ==
    /\ mActive
    /\ t \notin accepted
    /\ mUnprocessedTaskUnits' = Append(mUnprocessedTaskUnits, t)
    /\ NotifyOne
    /\ accepted' = accepted \cup {t}
    /\ UNCHANGED <<mActive, mProcessedTaskUnits, mIsQueuedOnMainThread, marker,
                   taskUnit, mainVars, finished, discarded>>

-----------------------------------------------------------------------------
\* Executor threads: TaskExecutor::run.

\* Mutant of TakeOrExit: the front unit is taken and not popped.
TakeWithoutPop(e) ==
    /\ IF mUnprocessedTaskUnits # <<>>
       THEN /\ taskUnit' = [taskUnit EXCEPT ![e] = Head(mUnprocessedTaskUnits)]
            /\ executor' = [executor EXCEPT ![e] = "running"]
       ELSE /\ executor' = [executor EXCEPT ![e] = "exited"]
            /\ UNCHANGED taskUnit
    /\ UNCHANGED mUnprocessedTaskUnits

\* Mutant of TakeOrExit: an inactive queue hands out nothing.
TakeOnlyWhileActive(e) ==
    IF mUnprocessedTaskUnits # <<>> /\ mActive
    THEN /\ taskUnit' = [taskUnit EXCEPT ![e] = Head(mUnprocessedTaskUnits)]
         /\ mUnprocessedTaskUnits' = Tail(mUnprocessedTaskUnits)
         /\ executor' = [executor EXCEPT ![e] = "running"]
    ELSE /\ executor' = [executor EXCEPT ![e] = "exited"]
         /\ UNCHANGED <<taskUnit, mUnprocessedTaskUnits>>

\* The last lines of fetchNextTask, with the mutex held: move the front unit
\* out, or return a null pointer, on which run() leaves its loop for good.
TakeOrExit(e) ==
    IF mUnprocessedTaskUnits # <<>>
    THEN /\ taskUnit' = [taskUnit EXCEPT ![e] = Head(mUnprocessedTaskUnits)]
         /\ mUnprocessedTaskUnits' = Tail(mUnprocessedTaskUnits)
         /\ executor' = [executor EXCEPT ![e] = "running"]
    ELSE /\ executor' = [executor EXCEPT ![e] = "exited"]
         /\ UNCHANGED <<taskUnit, mUnprocessedTaskUnits>>

MustWait == mUnprocessedTaskUnits = <<>> /\ mActive

\* fetchNextTask up to the wait: nothing queued and still active means wait,
\* which releases the mutex; anything else goes on to TakeOrExit.
FetchNextTask(e) ==
    /\ executor[e] = "fetch"
    /\ IF MustWait
       THEN /\ executor' = [executor EXCEPT ![e] = "waiting"]
            /\ UNCHANGED <<taskUnit, mUnprocessedTaskUnits>>
       ELSE TakeOrExit(e)
    /\ UNCHANGED <<mActive, mProcessedTaskUnits, mIsQueuedOnMainThread, marker,
                   mainVars, historyVars>>

\* fetchNextTask after the wait.  The condition is not tested again: the
\* wait is not in a loop.
ReturnFromWait(e) ==
    /\ executor[e] = "woken"
    /\ TakeOrExit(e)
    /\ UNCHANGED <<mActive, mProcessedTaskUnits, mIsQueuedOnMainThread, marker,
                   mainVars, historyVars>>

\* std::condition_variable::wait may return without a notification.
SpuriousWakeup(e) ==
    /\ SpuriousWakeups
    /\ executor[e] = "waiting"
    /\ executor' = [executor EXCEPT ![e] = "woken"]
    /\ UNCHANGED <<queueVars, taskUnit, mainVars, historyVars>>

\* Mutant of PushedProcessed: the unit was moved from before it is pushed.
PushedMovedFrom(t) == Append(mProcessedTaskUnits, NoTask)

\* Mutant of PushedProcessed: last processed, first completed.
PushedFirst(t) == <<t>> \o mProcessedTaskUnits

PushedProcessed(t) == Append(mProcessedTaskUnits, t)

\* executeInBackgroundThread has returned (an exception of the task itself is
\* caught there): addProcessedTask, under mProcessedQueueMutex.
AddProcessedTask(e) ==
    /\ executor[e] = "running"
    /\ mProcessedTaskUnits' = PushedProcessed(taskUnit[e])
    /\ handlers' = IF mIsQueuedOnMainThread THEN handlers ELSE handlers + 1
    /\ executor' = [executor EXCEPT ![e] = "fetch"]
    /\ taskUnit' = [taskUnit EXCEPT ![e] = NoTask]
    /\ UNCHANGED <<mActive, mUnprocessedTaskUnits, mIsQueuedOnMainThread,
                   marker, main, current, mainSteps, stage, historyVars>>

\* The listener throws while the error is reported to it: run() logs it and
\* the unit is destroyed without ever reaching the main thread.
ListenerThrows(e) ==
    /\ executor[e] = "running"
    /\ discarded' = discarded \cup {taskUnit[e]}
    /\ executor' = [executor EXCEPT ![e] = "fetch"]
    /\ taskUnit' = [taskUnit EXCEPT ![e] = NoTask]
    /\ UNCHANGED <<queueVars, mainVars, accepted, finished>>

-----------------------------------------------------------------------------
\* The main thread.

\* EventService::processOneHandler: a handler runs only if its marker is
\* still set.  While deactivate() runs, the main thread is not in the event
\* loop; after it the handlers that are left are still run.
RunHandler ==
    /\ stage \in {"running", "destroyed"}
    /\ main = "idle"
    /\ handlers > 0
    /\ handlers' = handlers - 1
    /\ main' = IF marker THEN "check" ELSE "idle"
    /\ UNCHANGED <<queueVars, executorVars, current, mainSteps, stage,
                   historyVars>>

\* processCompletedTasks: the test of mProcessedTaskUnits, which takes no
\* lock, and the read of its front, which does.
ProcessCompletedTasks ==
    /\ main = "check"
    /\ IF mProcessedTaskUnits = <<>>
       THEN /\ main' = "idle"
            /\ UNCHANGED current
       ELSE /\ main' = "executing"
            /\ current' = Head(mProcessedTaskUnits)
    /\ UNCHANGED <<queueVars, executorVars, handlers, mainSteps, stage,
                   historyVars>>

\* executeInMainThread returned true, or threw: the front unit is popped.
TaskCompletes ==
    /\ main = "executing"
    /\ mProcessedTaskUnits' = Tail(mProcessedTaskUnits)
    /\ finished' = finished \cup {current}
    /\ main' = "finish"
    /\ current' = NoTask
    /\ UNCHANGED <<mActive, mUnprocessedTaskUnits, mIsQueuedOnMainThread,
                   marker, executorVars, handlers, mainSteps, stage,
                   accepted, discarded>>

\* executeInMainThread returned false: a subtask ran, or the task wants to be
\* called again.  The unit stays at the front.
TaskWantsMore ==
    /\ main = "executing"
    /\ mainSteps[current] < MaxMainSteps
    /\ mainSteps' = [mainSteps EXCEPT ![current] = @ + 1]
    /\ main' = "finish"
    /\ current' = NoTask
    /\ UNCHANGED <<queueVars, executorVars, handlers, stage, historyVars>>

\* Mutant of PostNext: no handler for a unit that stayed in the queue.
PostNothing ==
    /\ mIsQueuedOnMainThread' = FALSE
    /\ UNCHANGED handlers

\* Post a handler for what is left, or note that none is queued.
PostNext ==
    IF mProcessedTaskUnits # <<>>
    THEN /\ handlers' = handlers + 1
         /\ UNCHANGED mIsQueuedOnMainThread
    ELSE /\ mIsQueuedOnMainThread' = FALSE
         /\ UNCHANGED handlers

\* The last section of processCompletedTasks.
QueueNextHandler ==
    /\ main = "finish"
    /\ main' = "idle"
    /\ PostNext
    /\ UNCHANGED <<mActive, mUnprocessedTaskUnits, mProcessedTaskUnits, marker,
                   executorVars, current, mainSteps, stage, historyVars>>

\* Mutant of ClearMarker: the handlers left in the EventService stay live.
KeepMarker == UNCHANGED marker

ClearMarker == marker' = FALSE

\* Mutant of NotifyAll: nobody is told that the queue is closing.
NotifyNobody == UNCHANGED executor

\* notify_all on mUnprocessedQueueCond.
NotifyAll ==
    executor' = [e \in Executors |->
                   IF executor[e] = "waiting" THEN "woken" ELSE executor[e]]

\* deactivate up to the join: the marker is cleared, then mActive under the
\* mutex, then everyone who waits is notified.
Deactivate ==
    /\ stage = "running"
    /\ main = "idle"
    /\ ClearMarker
    /\ mActive' = FALSE
    /\ NotifyAll
    /\ stage' = "joining"
    /\ UNCHANGED <<mUnprocessedTaskUnits, mProcessedTaskUnits,
                   mIsQueuedOnMainThread, taskUnit, handlers, main, current,
                   mainSteps, historyVars>>

\* Mutant of AllExited: deactivate joins only one of its executors.
SomeExited == \E e \in Executors : executor[e] = "exited"

AllExited == \A e \in Executors : executor[e] = "exited"

\* executor->join() for every executor.
JoinExecutors ==
    /\ stage = "joining"
    /\ AllExited
    /\ stage' = "flushing"
    /\ UNCHANGED <<queueVars, executorVars, handlers, main, current, mainSteps,
                   historyVars>>

\* The loop of deactivate that completes the processed tasks; when they are
\* gone the two assertions are evaluated and the queue is destroyed.
FlushProcessed ==
    /\ stage = "flushing"
    /\ main = "idle"
    /\ IF mProcessedTaskUnits # <<>>
       THEN /\ main' = "check"
            /\ UNCHANGED stage
       ELSE /\ stage' = "destroyed"
            /\ UNCHANGED main
    /\ UNCHANGED <<queueVars, executorVars, handlers, current, mainSteps,
                   historyVars>>

-----------------------------------------------------------------------------

ExecutorStep(e) ==
    \/ FetchNextTask(e)
    \/ ReturnFromWait(e)
    \/ AddProcessedTask(e)
    \/ ListenerThrows(e)

MainStep ==
    \/ RunHandler
    \/ ProcessCompletedTasks
    \/ TaskCompletes
    \/ TaskWantsMore
    \/ QueueNextHandler
    \/ JoinExecutors
    \/ FlushProcessed

Next ==
    \/ \E t \in Tasks : EnqueueTask(t)
    \/ \E e \in Executors : ExecutorStep(e) \/ SpuriousWakeup(e)
    \/ MainStep
    \/ Deactivate

Spec == Init /\ [][Next]_vars

(***************************************************************************)
(* The operating system schedules every thread that can run, tasks return, *)
(* and the main thread's loop keeps polling the EventService.  Nothing     *)
(* obliges anyone to enqueue a task or to shut the queue down.             *)
(***************************************************************************)
Fairness ==
    /\ \A e \in Executors : WF_vars(ExecutorStep(e))
    /\ WF_vars(MainStep)

FairSpec == Spec /\ Fairness

-----------------------------------------------------------------------------

\* The types of the variables of the queue, its threads and its history.
TypeOK ==
    /\ mActive \in BOOLEAN
    /\ mUnprocessedTaskUnits \in Seq(Tasks)
    /\ mProcessedTaskUnits \in Seq(Tasks)
    /\ mIsQueuedOnMainThread \in BOOLEAN
    /\ marker \in BOOLEAN
    /\ executor \in [Executors -> ExecutorStates]
    /\ taskUnit \in [Executors -> Tasks \cup {NoTask}]
    /\ handlers \in Nat
    /\ main \in MainStates
    /\ current \in Tasks \cup {NoTask}
    /\ mainSteps \in [Tasks -> 0 .. MaxMainSteps]
    /\ stage \in Stages
    /\ accepted \in SUBSET Tasks
    /\ finished \in SUBSET Tasks
    /\ discarded \in SUBSET Tasks

(***************************************************************************)
(* A completed background task is never stranded: as long as the queue is  *)
(* in use, a nonempty mProcessedTaskUnits means that a handler is posted   *)
(* or that the main thread is inside processCompletedTasks and will look   *)
(* at the queue again.  Executors push while the main thread is between    *)
(* its critical sections (addProcessedTask, processCompletedTasks).        *)
(***************************************************************************)
NoStrandedTask ==
    (stage = "running" /\ mProcessedTaskUnits # <<>>)
        => (handlers > 0 \/ main # "idle")

(***************************************************************************)
(* processCompletedTasks is never entered on a destroyed queue: handlers   *)
(* that were posted before deactivate() outlive the queue in the           *)
(* EventService, and only the cleared marker keeps them from using it.     *)
(***************************************************************************)
NoCallIntoDestroyedQueue == (stage = "destroyed") => (main = "idle")

(***************************************************************************)
(* The unit the main thread executes is still the front of the queue when  *)
(* it is popped, although executors push on the same queue meanwhile: the  *)
(* pointer taken under the lock and used after it stays the right one.     *)
(***************************************************************************)
ExecutedIsFront ==
    (main = "executing")
        => /\ mProcessedTaskUnits # <<>>
           /\ current = Head(mProcessedTaskUnits)

(***************************************************************************)
(* deactivate(): assert(mProcessedTaskUnits.empty()), and no executor      *)
(* thread or task in the background survives the queue.                    *)
(***************************************************************************)
DestroyedIsDrained ==
    (stage = "destroyed")
        => /\ mProcessedTaskUnits = <<>>
           /\ \A e \in Executors : executor[e] = "exited" /\ taskUnit[e] = NoTask

(***************************************************************************)
(* TaskExecutor.cpp: "If the queue returns a null pointer, it means that   *)
(* the queue is being shut down": an executor has left its loop only if    *)
(* the queue is no longer active.  This holds for one executor and no      *)
(* unprovoked wakeup; of two, one may take the task for which the other    *)
(* was woken.  No run checks it.                                           *)
(***************************************************************************)
ExitOnlyAtShutdown ==
    \A e \in Executors : executor[e] = "exited" => ~mActive

(***************************************************************************)
(* deactivate(): assert(mUnprocessedTaskUnits.empty()) once the executors  *)
(* are joined and the processed tasks completed.                           *)
(***************************************************************************)
NothingUnprocessedAtEnd ==
    (stage = "destroyed") => (mUnprocessedTaskUnits = <<>>)

(***************************************************************************)
(* deactivate() returns: every executor leaves its loop, whatever it was   *)
(* doing, and the tasks that are left are completed.                       *)
(***************************************************************************)
DeactivateReturns == (stage = "joining") ~> (stage = "destroyed")

(***************************************************************************)
(* A task for which enqueueTask returned true is eventually completed on   *)
(* the main thread, unless its listener threw.                             *)
(***************************************************************************)
AcceptedTaskCompletes ==
    \A t \in Tasks : (t \in accepted) ~> (t \in finished \cup discarded)

-----------------------------------------------------------------------------
(***************************************************************************)
(* Where a task is, computed from the state of the queue.                  *)
(***************************************************************************)
StatusOf(t) ==
    IF t \notin accepted THEN "new"
    ELSE IF t \in finished THEN "finished"
    ELSE IF t \in discarded THEN "discarded"
    ELSE IF t \in Range(mUnprocessedTaskUnits) THEN "queued"
    ELSE IF t \in Range(mProcessedTaskUnits) THEN "processed"
    ELSE "background"

Lifecycle == INSTANCE TaskLifecycle WITH status <- [t \in Tasks |-> StatusOf(t)]

\* The queue implements the life of a task: no task is lost, picked up twice,
\* or completed on the main thread before or without its background part.
ImplementsLifecycle == Lifecycle!Spec

=============================================================================
