---------------------------- MODULE SQLiteQueue ----------------------------
(***************************************************************************)
(* The command queue of DatabaseSQLite                                     *)
(* (apps/cyphesis/src/common/DatabaseSQLite.cpp): any thread schedules     *)
(* commands, one worker thread applies them to the database in order,      *)
(* threads may block until the queue is empty, and the destructor stops    *)
(* and joins the worker.                                                   *)
(*                                                                         *)
(* A command is known by its number in the order of scheduling.  A step is *)
(* one critical section of m_pendingQueriesMutex, or what runs without it. *)
(***************************************************************************)
EXTENDS Naturals, Sequences

CONSTANTS
    Threads,          \* the threads that use the database
    MaxCommands       \* bound: how many commands are ever scheduled

ASSUME SQLiteQueueAssumption == MaxCommands \in Nat

VARIABLES
    m_active,         \* DatabaseSQLite::m_active, atomic
    pendingQueries,   \* the deque of commands
    worker,           \* control state of the thread that runs poll_tasks
    command,          \* the command moved out of the front of the queue
    thread,           \* control state of each user of the database
    before,           \* commands scheduled when a thread began to block
    life,             \* life of the DatabaseSQLite object
    scheduled,        \* how many commands were scheduled so far
    applied           \* the commands run on the database, in order

vars == <<m_active, pendingQueries, worker, command, thread, before, life,
          scheduled, applied>>

WorkerStates == {"poll", "running", "ran", "committed", "waiting", "exited"}
ThreadStates == {"idle", "notify", "blocked", "woken", "early"}
Lives == {"open", "closing", "joining", "destroyed"}

\* No command is held.
None == 0

Commands == 1 .. MaxCommands

\* The worker holds m_pendingQueriesMutex between its test of m_active and
\* the wait that releases it.
MutexFree == worker # "committed"

-----------------------------------------------------------------------------

\* The constructor starts the worker.
Init ==
    /\ m_active = TRUE
    /\ pendingQueries = <<>>
    /\ worker = "poll"
    /\ command = None
    /\ thread = [t \in Threads |-> "idle"]
    /\ before = [t \in Threads |-> 0]
    /\ life = "open"
    /\ scheduled = 0
    /\ applied = <<>>

-----------------------------------------------------------------------------
\* poll_tasks

\* Mutant of NotifyQueueEmpty: the worker goes to sleep and tells no one.
NotifyNoBlocked == UNCHANGED thread

\* m_queueEmptyCondition.notify_all()
NotifyQueueEmpty ==
    thread' = [t \in Threads |->
                 IF thread[t] = "blocked" THEN "woken" ELSE thread[t]]

\* Mutant of TakeFront: the command leaves the queue before it is run.
TakeAndPop ==
    /\ command' = Head(pendingQueries)
    /\ pendingQueries' = Tail(pendingQueries)

\* Mutant of TakeFront: the front is emptied and nothing is kept to be run.
TakeMovedFrom ==
    /\ command' = None
    /\ UNCHANGED pendingQueries

\* The front is moved out; the emptied string stays in the deque.
TakeFront ==
    /\ command' = Head(pendingQueries)
    /\ UNCHANGED pendingQueries

\* The loop finds a command and releases the mutex to run it.
PollCommand ==
    /\ worker = "poll"
    /\ pendingQueries # <<>>
    /\ worker' = "running"
    /\ TakeFront
    /\ UNCHANGED <<m_active, thread, before, life, scheduled, applied>>

\* The loop finds the queue empty and m_active set: everyone who waits for an
\* empty queue is notified, with the mutex held.
PollEmpty ==
    /\ worker = "poll"
    /\ pendingQueries = <<>>
    /\ m_active
    /\ worker' = "committed"
    /\ NotifyQueueEmpty
    /\ UNCHANGED <<m_active, pendingQueries, command, before, life, scheduled,
                   applied>>

\* Mutant of ShutDown: the worker leaves with commands in the queue.
ShutDownAtOnce == ~m_active

ShutDown == pendingQueries = <<>> /\ ~m_active

\* The loop finds the queue empty and m_active cleared.
PollExit ==
    /\ worker = "poll"
    /\ ShutDown
    /\ worker' = "exited"
    /\ UNCHANGED <<m_active, pendingQueries, command, thread, before, life,
                   scheduled, applied>>

\* runCommandQuery.  An error is logged and the command is gone all the same.
RunCommandQuery ==
    /\ worker = "running"
    /\ applied' = Append(applied, command)
    /\ worker' = "ran"
    /\ UNCHANGED <<m_active, pendingQueries, command, thread, before, life,
                   scheduled>>

\* Mutant of DropFront: the wrong end of the deque is dropped.
DropBack == SubSeq(pendingQueries, 1, Len(pendingQueries) - 1)

DropFront == Tail(pendingQueries)

\* The mutex is taken again to remove the front.
PopFront ==
    /\ worker = "ran"
    /\ pendingQueries' = DropFront
    /\ command' = None
    /\ worker' = "poll"
    /\ UNCHANGED <<m_active, thread, before, life, scheduled, applied>>

\* m_workerCondition.wait releases the mutex.
Wait ==
    /\ worker = "committed"
    /\ worker' = "waiting"
    /\ UNCHANGED <<m_active, pendingQueries, command, thread, before, life,
                   scheduled, applied>>

\* A wait that returns without a notification: the worker polls again.
WorkerSpuriousWakeup ==
    /\ worker = "waiting"
    /\ worker' = "poll"
    /\ UNCHANGED <<m_active, pendingQueries, command, thread, before, life,
                   scheduled, applied>>

-----------------------------------------------------------------------------
\* The threads that use the database.

\* m_workerCondition.notify_all()
NotifyWorker == worker' = IF worker = "waiting" THEN "poll" ELSE worker

\* scheduleCommand: the push, under the mutex.
ScheduleCommand(t) ==
    /\ life = "open"
    /\ thread[t] = "idle"
    /\ MutexFree
    /\ scheduled < MaxCommands
    /\ pendingQueries' = Append(pendingQueries, scheduled + 1)
    /\ scheduled' = scheduled + 1
    /\ thread' = [thread EXCEPT ![t] = "notify"]
    /\ UNCHANGED <<m_active, worker, command, before, life, applied>>

\* Mutant of NotifyScheduled: the pushed command is not announced.
NotifyNothing(t) ==
    /\ thread[t] = "notify"
    /\ thread' = [thread EXCEPT ![t] = "idle"]
    /\ UNCHANGED <<m_active, pendingQueries, worker, command, before, life,
                   scheduled, applied>>

\* scheduleCommand: the notification, after the mutex was released.
NotifyScheduled(t) ==
    /\ thread[t] = "notify"
    /\ NotifyWorker
    /\ thread' = [thread EXCEPT ![t] = "idle"]
    /\ UNCHANGED <<m_active, pendingQueries, command, before, life, scheduled,
                   applied>>

\* blockUntilAllQueriesComplete: an empty queue returns at once, any other
\* waits, which releases the mutex.
BlockUntilAllQueriesComplete(t) ==
    /\ life = "open"
    /\ thread[t] = "idle"
    /\ MutexFree
    /\ before' = [before EXCEPT ![t] = scheduled]
    /\ thread' = [thread EXCEPT ![t] =
                    IF pendingQueries = <<>> THEN "woken" ELSE "blocked"]
    /\ UNCHANGED <<m_active, pendingQueries, worker, command, life, scheduled,
                   applied>>

\* The wait is not in a loop: a wakeup without a notification ends it too.
BlockedSpuriousWakeup(t) ==
    /\ thread[t] = "blocked"
    /\ thread' = [thread EXCEPT ![t] = "early"]
    /\ UNCHANGED <<m_active, pendingQueries, worker, command, before, life,
                   scheduled, applied>>

\* blockUntilAllQueriesComplete returns, once it has the mutex again.
BlockReturns(t) ==
    /\ thread[t] \in {"woken", "early"}
    /\ MutexFree
    /\ thread' = [thread EXCEPT ![t] = "idle"]
    /\ UNCHANGED <<m_active, pendingQueries, worker, command, before, life,
                   scheduled, applied>>

-----------------------------------------------------------------------------
\* ~DatabaseSQLite, run when no other thread uses the database any more.

\* m_active is cleared without the mutex.
ClearActive ==
    /\ life = "open"
    /\ \A t \in Threads : thread[t] = "idle"
    /\ m_active' = FALSE
    /\ life' = "closing"
    /\ UNCHANGED <<pendingQueries, worker, command, thread, before, scheduled,
                   applied>>

\* The notification, without the mutex as well.
NotifyClosing ==
    /\ life = "closing"
    /\ NotifyWorker
    /\ life' = "joining"
    /\ UNCHANGED <<m_active, pendingQueries, command, thread, before,
                   scheduled, applied>>

\* m_workerThread.join()
Join ==
    /\ life = "joining"
    /\ worker = "exited"
    /\ life' = "destroyed"
    /\ UNCHANGED <<m_active, pendingQueries, worker, command, thread, before,
                   scheduled, applied>>

-----------------------------------------------------------------------------

WorkerStep ==
    \/ PollCommand
    \/ PollEmpty
    \/ PollExit
    \/ RunCommandQuery
    \/ PopFront
    \/ Wait

DestructorStep == NotifyClosing \/ Join

Next ==
    \/ WorkerStep
    \/ WorkerSpuriousWakeup
    \/ \E t \in Threads :
        \/ ScheduleCommand(t)
        \/ NotifyScheduled(t)
        \/ BlockUntilAllQueriesComplete(t)
        \/ BlockedSpuriousWakeup(t)
        \/ BlockReturns(t)
    \/ ClearActive
    \/ DestructorStep

Spec == Init /\ [][Next]_vars

(***************************************************************************)
(* Threads that can run are scheduled, a thread that has begun a call goes *)
(* on with it, and the mutex is not denied for ever to a woken thread      *)
(* while the worker takes and releases it.  Unprovoked wakeups are not     *)
(* relied on.                                                              *)
(* Nobody is obliged to schedule, to block or to destroy the database.     *)
(***************************************************************************)
Fairness ==
    /\ WF_vars(WorkerStep)
    /\ WF_vars(DestructorStep)
    /\ \A t \in Threads : /\ WF_vars(NotifyScheduled(t))
                          /\ SF_vars(BlockReturns(t))

FairSpec == Spec /\ Fairness

-----------------------------------------------------------------------------

\* The types of the variables of the queue, its users and its history.
TypeOK ==
    /\ m_active \in BOOLEAN
    /\ pendingQueries \in Seq(Commands)
    /\ worker \in WorkerStates
    /\ command \in Commands \cup {None}
    /\ thread \in [Threads -> ThreadStates]
    /\ before \in [Threads -> 0 .. MaxCommands]
    /\ life \in Lives
    /\ scheduled \in 0 .. MaxCommands
    /\ applied \in Seq(Commands)

\* The commands in the queue that are not applied yet: the front counts
\* until runCommandQuery is done with it.
Unapplied == IF worker = "ran" THEN Tail(pendingQueries) ELSE pendingQueries

(***************************************************************************)
(* Whatever the threads do meanwhile, the commands that were applied and   *)
(* the ones that still wait are together the commands that were scheduled, *)
(* each once and in the order of scheduleCommand; and the command the      *)
(* worker runs outside of the mutex is the one at the front of the queue.  *)
(***************************************************************************)
InOrderExactlyOnce ==
    /\ applied \o Unapplied = [n \in 1 .. scheduled |-> n]
    /\ worker = "running" => /\ pendingQueries # <<>>
                             /\ command = Head(pendingQueries)

(***************************************************************************)
(* Database.h: blockUntilAllQueriesComplete "Blocks the current thread     *)
(* until all queries have completed."  A thread that returns because the   *)
(* queue was empty, or because it was notified, finds every command        *)
(* applied that was scheduled before its call, the one the worker runs     *)
(* outside of the mutex included.                                          *)
(***************************************************************************)
BlockedUntilApplied ==
    \A t \in Threads : thread[t] = "woken" => before[t] <= Len(applied)

\* ~DatabaseSQLite never finds queries pending after the join: the worker
\* exits only from an empty queue, and no one fills it afterwards.
DestroyedIsDrained ==
    (life = "destroyed") => /\ pendingQueries = <<>>
                            /\ Len(applied) = scheduled

(***************************************************************************)
(* No command is forgotten: a command that is in the queue while its       *)
(* worker sleeps is about to be announced by the thread that pushed it.    *)
(***************************************************************************)
NoForgottenCommand ==
    (worker = "waiting" /\ pendingQueries # <<>>)
        => \E t \in Threads : thread[t] = "notify"

\* Every scheduled command is eventually applied, even if the database is
\* closed right after scheduleCommand.
EveryCommandApplied ==
    \A n \in Commands : (scheduled >= n) ~> (Len(applied) >= n)

\* blockUntilAllQueriesComplete eventually returns: the worker notifies each
\* time it finds the queue empty.
BlockTerminates ==
    \A t \in Threads : (thread[t] = "blocked") ~> (thread[t] = "idle")

Queue == INSTANCE CommandQueue

(***************************************************************************)
(* Seen from its users the database applies command after command in the   *)
(* order of scheduleCommand, although the worker takes, runs and removes a *)
(* command in three steps between which it lets go of the mutex.           *)
(***************************************************************************)
ImplementsCommandQueue == Queue!Spec

(***************************************************************************)
(* MainLoop.cpp: "exit flag has been set so we close down the databases":  *)
(* the destructor of the database returns.                                 *)
(***************************************************************************)
DestructorReturns == (life = "closing") ~> (life = "destroyed")

=============================================================================
