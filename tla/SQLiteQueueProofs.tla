------------------------- MODULE SQLiteQueueProofs -------------------------
(***************************************************************************)
(* Theorems about SQLiteQueue, for any set of threads and any number of    *)
(* commands.                                                               *)
(***************************************************************************)
EXTENDS SQLiteQueue, SequenceTheorems, TLAPS

-----------------------------------------------------------------------------
(***************************************************************************)
(* The queue.  Commands are numbered in the order of scheduling, so the    *)
(* order of two sequences is the value of their elements: Numbered says it *)
(* of each element, which a step changes at one end only.                  *)
(***************************************************************************)

\* The front stays in the queue while it is run outside of the mutex.
FrontHeld ==
    /\ worker = "running" => /\ pendingQueries # <<>>
                             /\ command = Head(pendingQueries)
    /\ worker = "ran" => pendingQueries # <<>>

\* How many of the commands in the queue are applied.
AppliedFront == IF worker = "ran" THEN 1 ELSE 0

Numbered ==
    /\ \A i \in 1 .. Len(applied) : applied[i] = i
    /\ \A i \in 1 .. Len(pendingQueries) :
            pendingQueries[i] = (scheduled - Len(pendingQueries)) + i
    /\ Len(applied) = (scheduled - Len(pendingQueries)) + AppliedFront

QueueInv == TypeOK /\ FrontHeld /\ Numbered

\* A step that does not touch the queue, and does not begin or end the run
\* of a command.
Quiet ==
    /\ UNCHANGED <<pendingQueries, command, scheduled, applied>>
    /\ \/ worker' = worker
       \/ /\ worker \notin {"running", "ran"}
          /\ worker' \notin {"running", "ran"}

\* The four steps that are not quiet.
LEMMA NextIsQuiet ==
    ASSUME TypeOK, [Next]_vars
    PROVE  \/ PollCommand
           \/ RunCommandQuery
           \/ PopFront
           \/ \E t \in Threads : ScheduleCommand(t)
           \/ Quiet
BY DEF TypeOK, WorkerStates, Next, WorkerStep, DestructorStep, PollEmpty,
       PollExit, ShutDown, Wait, WorkerSpuriousWakeup, NotifyScheduled,
       NotifyWorker, BlockUntilAllQueriesComplete, BlockedSpuriousWakeup,
       BlockReturns, ClearActive, NotifyClosing, Join, Quiet, vars

\* The constructor leaves a queue that satisfies QueueInv.
LEMMA InitQueueInv == Init => QueueInv
<1>1. SUFFICES ASSUME Init PROVE QueueInv
  OBVIOUS
<1>2. <<>> \in Seq(Commands) /\ Len(<<>>) = 0
  BY EmptySeq
<1>3. TypeOK
  BY <1>1, <1>2, SQLiteQueueAssumption
  DEF Init, TypeOK, WorkerStates, ThreadStates, Lives, None
<1>4. FrontHeld
  BY <1>1 DEF Init, FrontHeld
<1>5. Numbered
  <2>1. Len(applied) = 0 /\ Len(pendingQueries) = 0
    BY <1>1, <1>2 DEF Init
  <2>2. scheduled = 0 /\ AppliedFront = 0
    BY <1>1 DEF Init, AppliedFront
  <2>3. QED
    BY <2>1, <2>2 DEF Numbered
<1>6. QED
  BY <1>3, <1>4, <1>5 DEF QueueInv

\* The types of what only the threads, the worker's control and the
\* destructor change: no step breaks them.
LEMMA StepControlTypes ==
    ASSUME TypeOK, [Next]_vars
    PROVE  /\ m_active' \in BOOLEAN
           /\ worker' \in WorkerStates
           /\ thread' \in [Threads -> ThreadStates]
           /\ before' \in [Threads -> 0 .. MaxCommands]
           /\ life' \in Lives
<1>1. m_active' \in BOOLEAN /\ life' \in Lives
  BY DEF TypeOK, Lives, Next, WorkerStep, DestructorStep, PollCommand,
         PollEmpty, PollExit, RunCommandQuery, PopFront, Wait,
         WorkerSpuriousWakeup, ScheduleCommand, NotifyScheduled,
         BlockUntilAllQueriesComplete, BlockedSpuriousWakeup, BlockReturns,
         ClearActive, NotifyClosing, Join, vars
<1>2. worker' \in WorkerStates
  BY DEF TypeOK, WorkerStates, Next, WorkerStep, DestructorStep, PollCommand,
         PollEmpty, PollExit, RunCommandQuery, PopFront, Wait,
         WorkerSpuriousWakeup, ScheduleCommand, NotifyScheduled, NotifyWorker,
         BlockUntilAllQueriesComplete, BlockedSpuriousWakeup, BlockReturns,
         ClearActive, NotifyClosing, Join, vars
<1>3. thread' \in [Threads -> ThreadStates]
  BY DEF TypeOK, ThreadStates, Next, WorkerStep, DestructorStep, PollCommand,
         PollEmpty, NotifyQueueEmpty, PollExit, RunCommandQuery, PopFront,
         Wait, WorkerSpuriousWakeup, ScheduleCommand, NotifyScheduled,
         BlockUntilAllQueriesComplete, BlockedSpuriousWakeup, BlockReturns,
         ClearActive, NotifyClosing, Join, vars
<1>4. before' \in [Threads -> 0 .. MaxCommands]
  BY DEF TypeOK, Next, WorkerStep, DestructorStep, PollCommand,
         PollEmpty, PollExit, RunCommandQuery, PopFront, Wait,
         WorkerSpuriousWakeup, ScheduleCommand, NotifyScheduled,
         BlockUntilAllQueriesComplete, BlockedSpuriousWakeup, BlockReturns,
         ClearActive, NotifyClosing, Join, vars
<1>5. QED
  BY <1>1, <1>2, <1>3, <1>4

(***************************************************************************)
(* Every step keeps QueueInv.                                              *)
(***************************************************************************)
LEMMA StepQueueInv == QueueInv /\ [Next]_vars => QueueInv'
<1> SUFFICES ASSUME QueueInv, [Next]_vars PROVE QueueInv'
  OBVIOUS
<1> USE DEF QueueInv
<1>0. /\ m_active' \in BOOLEAN
      /\ worker' \in WorkerStates
      /\ thread' \in [Threads -> ThreadStates]
      /\ before' \in [Threads -> 0 .. MaxCommands]
      /\ life' \in Lives
  BY StepControlTypes
<1>a. /\ Len(pendingQueries) \in Nat
      /\ Len(applied) \in Nat
      /\ scheduled \in Nat
  BY LenProperties, SQLiteQueueAssumption DEF TypeOK
<1>1. CASE PollCommand
  <2>1. Head(pendingQueries) \in Commands
    BY <1>1, HeadTailProperties DEF PollCommand, TypeOK
  <2>2. TypeOK'
    BY <1>0, <1>1, <2>1 DEF PollCommand, TakeFront, TypeOK
  <2>3. FrontHeld'
    BY <1>1 DEF PollCommand, TakeFront, FrontHeld
  <2>4. Numbered'
    BY <1>1 DEF PollCommand, TakeFront, Numbered, AppliedFront
  <2>5. QED
    BY <2>2, <2>3, <2>4
<1>2. CASE RunCommandQuery
  <2>1. /\ pendingQueries # <<>>
        /\ command = Head(pendingQueries)
    BY <1>2 DEF RunCommandQuery, FrontHeld
  <2>2. command \in Commands
    BY <2>1, HeadTailProperties DEF TypeOK
  <2>3. /\ applied' \in Seq(Commands)
        /\ Len(applied') = Len(applied) + 1
        /\ \A i \in 1 .. Len(applied) : applied'[i] = applied[i]
        /\ applied'[Len(applied) + 1] = command
    BY <1>2, <2>2, AppendProperties DEF RunCommandQuery, TypeOK
  <2>4. TypeOK'
    BY <1>0, <1>2, <2>3 DEF RunCommandQuery, TypeOK
  <2>5. FrontHeld'
    BY <1>2, <2>1 DEF RunCommandQuery, FrontHeld
  <2>6. command = Len(applied) + 1
    <3>1. Len(pendingQueries) >= 1
      BY <2>1, EmptySeq, <1>a DEF TypeOK
    <3>2. Len(applied) = scheduled - Len(pendingQueries)
      BY <1>a, <1>2 DEF RunCommandQuery, Numbered, AppliedFront
    <3>3. Head(pendingQueries) = pendingQueries[1]
      BY <2>1 DEF TypeOK
    <3>4. QED
      BY <1>a, <2>1, <3>1, <3>2, <3>3 DEF Numbered
  <2>7. \A i \in 1 .. Len(applied') : applied'[i] = i
    <3>1. \A i \in 1 .. Len(applied) : applied'[i] = i
      BY <2>3 DEF Numbered
    <3>2. \A i \in 1 .. Len(applied') :
            i \in 1 .. Len(applied) \/ i = Len(applied) + 1
      BY <1>a, <2>3
    <3>3. QED
      BY <2>3, <2>6, <3>1, <3>2
  <2>8. Len(applied') = (scheduled - Len(pendingQueries)) + 1
    BY <1>a, <1>2, <2>3 DEF RunCommandQuery, Numbered, AppliedFront
  <2>9. Numbered'
    BY <1>2, <2>7, <2>8 DEF RunCommandQuery, Numbered, AppliedFront
  <2>10. QED
    BY <2>4, <2>5, <2>9
<1>3. CASE PopFront
  <2>1. pendingQueries # <<>>
    BY <1>3 DEF PopFront, FrontHeld
  <2>2. /\ pendingQueries' \in Seq(Commands)
        /\ Len(pendingQueries') = Len(pendingQueries) - 1
        /\ \A i \in 1 .. Len(pendingQueries') :
                pendingQueries'[i] = pendingQueries[i + 1]
    BY <1>3, <2>1, HeadTailProperties DEF PopFront, DropFront, TypeOK
  <2>3. TypeOK'
    BY <1>0, <1>3, <2>2 DEF PopFront, TypeOK
  <2>4. FrontHeld'
    BY <1>3 DEF PopFront, FrontHeld
  <2>5. Len(pendingQueries') \in Nat
    BY <2>2, LenProperties
  <2>6. ASSUME NEW i \in 1 .. Len(pendingQueries')
        PROVE  pendingQueries'[i] = (scheduled' - Len(pendingQueries')) + i
    <3>1. scheduled' = scheduled
      BY <1>3 DEF PopFront
    <3>2. i + 1 \in 1 .. Len(pendingQueries)
      BY <1>a, <2>2, <2>5
    <3>3. pendingQueries[i + 1]
            = (scheduled - Len(pendingQueries)) + (i + 1)
      BY <3>2 DEF Numbered
    <3>4. QED
      BY <1>a, <2>2, <2>5, <3>1, <3>3
  <2>7. Len(applied') = (scheduled' - Len(pendingQueries')) + AppliedFront'
    BY <1>a, <1>3, <2>2 DEF PopFront, Numbered, AppliedFront
  <2>8. Numbered'
    BY <1>3, <2>6, <2>7 DEF PopFront, Numbered
  <2>9. QED
    BY <2>3, <2>4, <2>8
<1>4. ASSUME NEW t \in Threads, ScheduleCommand(t)
      PROVE  QueueInv'
  <2>1. scheduled + 1 \in Commands
    BY <1>4, <1>a, SQLiteQueueAssumption DEF ScheduleCommand, Commands, TypeOK
  <2>2. /\ pendingQueries' \in Seq(Commands)
        /\ Len(pendingQueries') = Len(pendingQueries) + 1
        /\ \A i \in 1 .. Len(pendingQueries) :
                pendingQueries'[i] = pendingQueries[i]
        /\ pendingQueries'[Len(pendingQueries) + 1] = scheduled + 1
    BY <1>4, <2>1, AppendProperties DEF ScheduleCommand, TypeOK
  <2>3. scheduled' = scheduled + 1 /\ scheduled' \in 0 .. MaxCommands
    BY <1>4, <2>1 DEF ScheduleCommand, Commands
  <2>4. TypeOK'
    BY <1>0, <1>4, <2>2, <2>3 DEF ScheduleCommand, TypeOK
  <2>5. pendingQueries # <<>> => /\ pendingQueries' # <<>>
                                 /\ Head(pendingQueries') = Head(pendingQueries)
    <3>1. SUFFICES ASSUME pendingQueries # <<>>
                   PROVE  /\ pendingQueries' # <<>>
                          /\ Head(pendingQueries') = Head(pendingQueries)
      OBVIOUS
    <3>2. Len(pendingQueries) >= 1
      BY <3>1, EmptySeq, <1>a DEF TypeOK
    <3>3. pendingQueries'[1] = pendingQueries[1]
      BY <1>a, <2>2, <3>2
    <3>4. pendingQueries' # <<>>
      BY <1>a, <2>2, EmptySeq
    <3>5. QED
      BY <2>2, <3>1, <3>3, <3>4 DEF TypeOK
  <2>6. FrontHeld'
    BY <1>4, <2>5 DEF ScheduleCommand, FrontHeld
  <2>7. ASSUME NEW i \in 1 .. Len(pendingQueries')
        PROVE  pendingQueries'[i] = (scheduled' - Len(pendingQueries')) + i
    <3>1. CASE i \in 1 .. Len(pendingQueries)
      <4>1. pendingQueries[i] = (scheduled - Len(pendingQueries)) + i
        BY <3>1 DEF Numbered
      <4>2. pendingQueries'[i] = pendingQueries[i]
        BY <2>2, <3>1
      <4>3. QED
        BY <1>a, <2>2, <2>3, <3>1, <4>1, <4>2
    <3>2. CASE i = Len(pendingQueries) + 1
      BY <1>a, <2>2, <2>3, <3>2
    <3>3. QED
      BY <1>a, <2>2, <3>1, <3>2
  <2>8. Len(applied') = (scheduled' - Len(pendingQueries')) + AppliedFront'
    BY <1>a, <1>4, <2>2, <2>3 DEF ScheduleCommand, Numbered, AppliedFront
  <2>9. Numbered'
    BY <1>4, <2>7, <2>8 DEF ScheduleCommand, Numbered
  <2>10. QED
    BY <2>4, <2>6, <2>9
<1>5. CASE Quiet
  <2>1. TypeOK'
    BY <1>0, <1>5 DEF Quiet, TypeOK
  <2>2. FrontHeld'
    BY <1>5 DEF Quiet, FrontHeld
  <2>3. Numbered'
    BY <1>5 DEF Quiet, Numbered, AppliedFront
  <2>4. QED
    BY <2>1, <2>2, <2>3
<1>6. QED
  BY <1>1, <1>2, <1>3, <1>4, <1>5, NextIsQuiet

\* QueueInv holds of every state of the queue.
LEMMA QueueInvariant == Spec => []QueueInv
<1>1. QED
  BY InitQueueInv, StepQueueInv, PTL DEF Spec

(***************************************************************************)
(* The variables of the queue keep the types TypeOK gives them.            *)
(***************************************************************************)
THEOREM TypeCorrect == Spec => []TypeOK
<1>1. QueueInv => TypeOK
  BY DEF QueueInv
<1>2. QED
  BY <1>1, QueueInvariant, PTL

\* The numbers of Numbered, read as sequences, are what InOrderExactlyOnce
\* says.
LEMMA NumberedIsInOrder == QueueInv => InOrderExactlyOnce
<1> SUFFICES ASSUME QueueInv PROVE InOrderExactlyOnce
  OBVIOUS
<1> USE DEF QueueInv
<1> DEFINE All == [n \in 1 .. scheduled |-> n]
<1>1. /\ Len(pendingQueries) \in Nat
      /\ Len(applied) \in Nat
      /\ scheduled \in Nat
  BY LenProperties, SQLiteQueueAssumption DEF TypeOK
<1>2. /\ Unapplied \in Seq(Commands)
      /\ Len(Unapplied) = Len(pendingQueries) - AppliedFront
      /\ \A i \in 1 .. Len(Unapplied) :
            Unapplied[i] = pendingQueries[i + AppliedFront]
  <2>1. CASE worker = "ran"
    <3>1. pendingQueries # <<>>
      BY <2>1 DEF FrontHeld
    <3>2. /\ Tail(pendingQueries) \in Seq(Commands)
          /\ Len(Tail(pendingQueries)) = Len(pendingQueries) - 1
          /\ \A i \in 1 .. Len(Tail(pendingQueries)) :
                Tail(pendingQueries)[i] = pendingQueries[i + 1]
      BY <3>1, HeadTailProperties DEF TypeOK
    <3>3. QED
      BY <2>1, <3>2 DEF Unapplied, AppliedFront
  <2>2. CASE worker # "ran"
    <3>1. Unapplied = pendingQueries /\ AppliedFront = 0
      BY <2>2 DEF Unapplied, AppliedFront
    <3>2. \A i \in 1 .. Len(pendingQueries) : i + 0 = i
      BY <1>1
    <3>3. QED
      BY <1>1, <3>1, <3>2 DEF TypeOK
  <2>3. QED
    BY <2>1, <2>2
<1>3. AppliedFront \in Nat
  BY DEF AppliedFront
<1>4. Len(Unapplied) \in Nat
  BY <1>2, LenProperties
<1>5. /\ applied \o Unapplied \in Seq(Commands)
      /\ Len(applied \o Unapplied) = Len(applied) + Len(Unapplied)
      /\ \A i \in 1 .. Len(applied) + Len(Unapplied) :
            (applied \o Unapplied)[i] = IF i <= Len(applied) THEN applied[i]
                                        ELSE Unapplied[i - Len(applied)]
  BY <1>2, ConcatProperties DEF TypeOK
<1>6. Len(applied) + Len(Unapplied) = scheduled
  BY <1>1, <1>2, <1>3 DEF Numbered
<1>7. ASSUME NEW i \in 1 .. scheduled
      PROVE  (applied \o Unapplied)[i] = i
  <2>1. CASE i <= Len(applied)
    <3>1. applied[i] = i
      BY <1>1, <2>1 DEF Numbered
    <3>2. QED
      BY <1>5, <1>6, <2>1, <3>1
  <2>2. CASE i > Len(applied)
    <3>1. i - Len(applied) \in 1 .. Len(Unapplied)
      BY <1>1, <1>4, <1>6, <2>2
    <3>2. (i - Len(applied)) + AppliedFront \in 1 .. Len(pendingQueries)
      BY <1>1, <1>2, <1>3, <1>4, <3>1
    <3>3. Unapplied[i - Len(applied)]
            = (scheduled - Len(pendingQueries))
                + ((i - Len(applied)) + AppliedFront)
      BY <1>2, <3>1, <3>2 DEF Numbered
    <3>4. (scheduled - Len(pendingQueries))
            + ((i - Len(applied)) + AppliedFront) = i
      BY <1>1, <1>3 DEF Numbered
    <3>5. ~(i <= Len(applied))
      BY <1>1, <2>2
    <3>6. QED
      BY <1>5, <1>6, <3>3, <3>4, <3>5
  <2>3. i <= Len(applied) \/ i > Len(applied)
    BY <1>1
  <2>4. QED
    BY <2>1, <2>2, <2>3
<1>8. All \in Seq(Commands) /\ Len(All) = scheduled
  BY <1>1, SQLiteQueueAssumption DEF TypeOK, Commands
<1>9. applied \o Unapplied = All
  BY <1>5, <1>6, <1>7, <1>8, SeqEqual
<1>10. worker = "running" => /\ pendingQueries # <<>>
                             /\ command = Head(pendingQueries)
  BY DEF FrontHeld
<1>11. QED
  BY <1>9, <1>10 DEF InOrderExactlyOnce

(***************************************************************************)
(* Whatever threads schedule, block or close, each command is applied at   *)
(* most once and in the order of scheduleCommand, and what is not applied  *)
(* is in the queue.                                                        *)
(***************************************************************************)
THEOREM AppliedInOrder == Spec => []InOrderExactlyOnce
<1>1. QED
  BY NumberedIsInOrder, QueueInvariant, PTL

\* The worker applies the command that is next.
LEMMA RunIsApply ==
    ASSUME QueueInv, RunCommandQuery
    PROVE  Queue!Apply
<1>1. /\ pendingQueries \in Seq(Commands)
      /\ pendingQueries # <<>>
      /\ command = Head(pendingQueries)
  BY DEF QueueInv, TypeOK, FrontHeld, RunCommandQuery
<1>2. /\ Len(pendingQueries) \in Nat
      /\ Len(pendingQueries) >= 1
      /\ command = pendingQueries[1]
  BY <1>1
<1>3. /\ scheduled \in Nat
      /\ Len(applied) = scheduled - Len(pendingQueries)
  BY <1>2, SQLiteQueueAssumption
     DEF QueueInv, TypeOK, Numbered, AppliedFront, RunCommandQuery
<1>4. command = Len(applied) + 1
  BY <1>2, <1>3 DEF QueueInv, Numbered
<1>5. Len(applied) < scheduled
  BY <1>2, <1>3
<1>6. QED
  BY <1>4, <1>5 DEF RunCommandQuery, Queue!Apply

(***************************************************************************)
(* The queue implements CommandQueue: of all steps of the worker, of the   *)
(* users and of the destructor only scheduleCommand's push and the end of  *)
(* runCommandQuery are seen, and they are its two actions.                 *)
(***************************************************************************)
THEOREM QueueImplementsCommandQueue == Spec => ImplementsCommandQueue
<1>1. Init => Queue!Init
  BY DEF Init, Queue!Init
<1>2. QueueInv /\ [Next]_vars => [Queue!Next]_(Queue!vars)
  <2> SUFFICES ASSUME QueueInv, [Next]_vars PROVE [Queue!Next]_(Queue!vars)
    OBVIOUS
  <2>1. TypeOK
    BY DEF QueueInv
  <2>2. CASE PollCommand
    BY <2>2 DEF PollCommand, Queue!vars
  <2>3. CASE RunCommandQuery
    BY <2>3, RunIsApply DEF Queue!Next
  <2>4. CASE PopFront
    BY <2>4 DEF PopFront, Queue!vars
  <2>5. CASE \E t \in Threads : ScheduleCommand(t)
    BY <2>5 DEF ScheduleCommand, Queue!Next, Queue!Schedule
  <2>6. CASE Quiet
    BY <2>6 DEF Quiet, Queue!vars
  <2>7. QED
    BY <2>1, <2>2, <2>3, <2>4, <2>5, <2>6, NextIsQuiet
<1>3. QED
  BY <1>1, <1>2, QueueInvariant, PTL DEF Spec, ImplementsCommandQueue, Queue!Spec

-----------------------------------------------------------------------------
(***************************************************************************)
(* The threads and the destructor.  A worker that has decided to wait, or  *)
(* has left, did so with an empty queue, and m_active tells whether anyone *)
(* may still fill it.                                                      *)
(***************************************************************************)

EmptyWhenCommitted == worker = "committed" => pendingQueries = <<>>

CloseInv ==
    /\ m_active <=> life = "open"
    /\ worker = "exited" => ~m_active /\ pendingQueries = <<>>
    /\ life = "destroyed" => worker = "exited"

\* No thread began to block after more commands than were scheduled.
BeforeIsPast == \A t \in Threads : before[t] <= scheduled

ThreadInv ==
    /\ QueueInv
    /\ EmptyWhenCommitted
    /\ NoForgottenCommand
    /\ CloseInv
    /\ BeforeIsPast
    /\ BlockedUntilApplied

\* A fresh queue satisfies ThreadInv.
LEMMA InitThreadInv == Init => ThreadInv
<1> SUFFICES ASSUME Init PROVE ThreadInv
  OBVIOUS
<1>1. QueueInv
  BY InitQueueInv
<1>2. EmptyWhenCommitted /\ NoForgottenCommand /\ CloseInv
  BY DEF Init, EmptyWhenCommitted, NoForgottenCommand, CloseInv
<1>3. BeforeIsPast /\ BlockedUntilApplied
  BY DEF Init, BeforeIsPast, BlockedUntilApplied
<1>4. QED
  BY <1>1, <1>2, <1>3 DEF ThreadInv

\* With an empty queue everything that was scheduled is applied.
LEMMA EmptyIsApplied ==
    ASSUME QueueInv, pendingQueries = <<>>
    PROVE  Len(applied) = scheduled
<1>1. worker # "ran"
  BY DEF QueueInv, FrontHeld
<1>2. Len(pendingQueries) = 0
  BY EmptySeq
<1>3. scheduled \in Nat
  BY SQLiteQueueAssumption DEF QueueInv, TypeOK
<1>4. QED
  BY <1>1, <1>2, <1>3 DEF QueueInv, Numbered, AppliedFront

\* Every step keeps EmptyWhenCommitted: the worker holds the mutex until it
\* waits.
LEMMA StepEmptyWhenCommitted == ThreadInv /\ [Next]_vars => EmptyWhenCommitted'
BY DEF ThreadInv, EmptyWhenCommitted, Next, WorkerStep, DestructorStep,
       PollCommand, TakeFront, PollEmpty, PollExit, RunCommandQuery, PopFront,
       Wait, WorkerSpuriousWakeup, ScheduleCommand, MutexFree,
       NotifyScheduled, NotifyWorker, BlockUntilAllQueriesComplete,
       BlockedSpuriousWakeup, BlockReturns, ClearActive, NotifyClosing, Join,
       vars

\* Every step keeps CloseInv: no command is scheduled once m_active is
\* cleared, and the worker does not leave before.
LEMMA StepCloseInv == ThreadInv /\ [Next]_vars => CloseInv'
BY DEF ThreadInv, CloseInv, Next, WorkerStep, DestructorStep,
       PollCommand, TakeFront, PollEmpty, PollExit, ShutDown,
       RunCommandQuery, PopFront, Wait, WorkerSpuriousWakeup,
       ScheduleCommand, NotifyScheduled, NotifyWorker,
       BlockUntilAllQueriesComplete, BlockedSpuriousWakeup, BlockReturns,
       ClearActive, NotifyClosing, Join, vars

\* Every step keeps NoForgottenCommand: a worker begins to wait with an
\* empty queue, and a command pushed later is announced by its thread.
LEMMA StepNoForgotten == ThreadInv /\ [Next]_vars => NoForgottenCommand'
<1> SUFFICES ASSUME ThreadInv, [Next]_vars,
                    worker' = "waiting", pendingQueries' # <<>>
             PROVE  \E t \in Threads : thread'[t] = "notify"
  BY DEF NoForgottenCommand
<1>1. thread \in [Threads -> ThreadStates]
  BY DEF ThreadInv, QueueInv, TypeOK
<1>2. CASE \E t \in Threads : ScheduleCommand(t)
  BY <1>1, <1>2 DEF ScheduleCommand
<1>3. CASE ~ \E t \in Threads : ScheduleCommand(t)
  <2>1. pendingQueries' = pendingQueries
    BY <1>3 DEF Next, WorkerStep, DestructorStep,
       PollCommand, TakeFront, PollEmpty, PollExit, RunCommandQuery, PopFront,
       Wait, WorkerSpuriousWakeup, NotifyScheduled,
       BlockUntilAllQueriesComplete, BlockedSpuriousWakeup, BlockReturns,
       ClearActive, NotifyClosing, Join, vars
  <2>2. worker = "waiting"
    BY <1>3, <2>1 DEF ThreadInv, EmptyWhenCommitted, Next, WorkerStep,
       DestructorStep, PollCommand, PollEmpty, PollExit, RunCommandQuery,
       PopFront, Wait, WorkerSpuriousWakeup, NotifyScheduled, NotifyWorker,
       BlockUntilAllQueriesComplete, BlockedSpuriousWakeup, BlockReturns,
       ClearActive, NotifyClosing, Join, vars
  <2>3. PICK t \in Threads : thread[t] = "notify"
    BY <2>1, <2>2 DEF ThreadInv, NoForgottenCommand
  <2>4. thread'[t] = "notify"
    BY <1>1, <1>3, <2>2, <2>3 DEF Next, WorkerStep, DestructorStep,
       PollCommand, PollEmpty, PollExit, RunCommandQuery, PopFront, Wait,
       WorkerSpuriousWakeup, NotifyScheduled, NotifyWorker,
       BlockUntilAllQueriesComplete, BlockedSpuriousWakeup, BlockReturns,
       ClearActive, NotifyClosing, Join, vars
  <2>5. QED
    BY <2>4
<1>4. QED
  BY <1>2, <1>3

\* The commands scheduled and applied only become more.
LEMMA StepCounts ==
    ASSUME QueueInv, [Next]_vars
    PROVE  /\ scheduled \in Nat /\ scheduled' \in Nat
           /\ Len(applied) \in Nat /\ Len(applied') \in Nat
           /\ scheduled <= scheduled'
           /\ Len(applied) <= Len(applied')
<1>1. QueueInv'
  BY StepQueueInv
<1>2. /\ scheduled \in Nat /\ scheduled' \in Nat
      /\ Len(applied) \in Nat /\ Len(applied') \in Nat
  BY <1>1, LenProperties, SQLiteQueueAssumption DEF QueueInv, TypeOK
<1>3. scheduled <= scheduled'
  BY <1>2, NextIsQuiet DEF QueueInv, PollCommand, RunCommandQuery, PopFront,
     ScheduleCommand, Quiet
<1>4. Len(applied) <= Len(applied')
  <2>1. CASE RunCommandQuery
    <3>1. command \in Commands
      BY <2>1, HeadTailProperties
      DEF QueueInv, TypeOK, FrontHeld, RunCommandQuery
    <3>2. Len(applied') = Len(applied) + 1
      BY <2>1, <3>1, AppendProperties DEF QueueInv, TypeOK, RunCommandQuery
    <3>3. QED
      BY <1>2, <3>2
  <2>2. CASE ~RunCommandQuery
    BY <1>2, <2>2, NextIsQuiet DEF QueueInv, PollCommand, PopFront,
       ScheduleCommand, Quiet
  <2>3. QED
    BY <2>1, <2>2
<1>5. QED
  BY <1>2, <1>3, <1>4

\* Every step keeps BeforeIsPast and BlockedUntilApplied: a thread finds the
\* queue empty, or the worker does and notifies it.
LEMMA StepBlocked ==
    ThreadInv /\ [Next]_vars => BeforeIsPast' /\ BlockedUntilApplied'
<1> SUFFICES ASSUME ThreadInv, [Next]_vars
             PROVE  BeforeIsPast' /\ BlockedUntilApplied'
  OBVIOUS
<1>1. /\ thread \in [Threads -> ThreadStates]
      /\ before \in [Threads -> 0 .. MaxCommands]
      /\ \A t \in Threads : before[t] \in Nat
  BY SQLiteQueueAssumption DEF ThreadInv, QueueInv, TypeOK
<1>2. /\ scheduled \in Nat /\ scheduled' \in Nat
      /\ Len(applied) \in Nat /\ Len(applied') \in Nat
      /\ scheduled <= scheduled'
      /\ Len(applied) <= Len(applied')
  BY StepCounts DEF ThreadInv
<1>3. CASE PollEmpty
  <2>1. Len(applied) = scheduled
    BY <1>3, EmptyIsApplied DEF PollEmpty, ThreadInv
  <2>2. before' = before /\ scheduled' = scheduled /\ applied' = applied
    BY <1>3 DEF PollEmpty
  <2>3. \A t \in Threads : before[t] <= Len(applied)
    BY <2>1 DEF ThreadInv, BeforeIsPast
  <2>4. QED
    BY <2>2, <2>3 DEF ThreadInv, BeforeIsPast, BlockedUntilApplied
<1>4. ASSUME NEW t \in Threads, BlockUntilAllQueriesComplete(t)
      PROVE  BeforeIsPast' /\ BlockedUntilApplied'
  <2>1. /\ scheduled' = scheduled /\ applied' = applied
        /\ before' = [before EXCEPT ![t] = scheduled]
    BY <1>4 DEF BlockUntilAllQueriesComplete
  <2>2. BeforeIsPast'
    BY <1>1, <1>2, <2>1 DEF ThreadInv, BeforeIsPast
  <2>3. ASSUME NEW u \in Threads, thread'[u] = "woken"
        PROVE  before'[u] <= Len(applied')
    <3>1. CASE u = t
      <4>1. pendingQueries = <<>>
        BY <1>1, <1>4, <2>3, <3>1 DEF BlockUntilAllQueriesComplete
      <4>2. Len(applied) = scheduled
        BY <4>1, EmptyIsApplied DEF ThreadInv
      <4>3. QED
        BY <1>1, <1>2, <2>1, <3>1, <4>2
    <3>2. CASE u # t
      <4>1. thread[u] = "woken" /\ before'[u] = before[u]
        BY <1>1, <1>4, <2>1, <2>3, <3>2 DEF BlockUntilAllQueriesComplete
      <4>2. QED
        BY <2>1, <4>1 DEF ThreadInv, BlockedUntilApplied
    <3>3. QED
      BY <3>1, <3>2
  <2>4. QED
    BY <2>2, <2>3 DEF BlockedUntilApplied
<1>5. CASE /\ ~PollEmpty
           /\ ~ \E t \in Threads : BlockUntilAllQueriesComplete(t)
  <2>1. before' = before
    BY <1>5 DEF Next, WorkerStep, DestructorStep, PollCommand, PollExit,
       RunCommandQuery, PopFront, Wait, WorkerSpuriousWakeup,
       ScheduleCommand, NotifyScheduled, BlockedSpuriousWakeup, BlockReturns,
       ClearActive, NotifyClosing, Join, vars
  <2>2. \A u \in Threads : thread'[u] = "woken" => thread[u] = "woken"
    BY <1>1, <1>5 DEF Next, WorkerStep, DestructorStep, PollCommand, PollExit,
       RunCommandQuery, PopFront, Wait, WorkerSpuriousWakeup,
       ScheduleCommand, NotifyScheduled, BlockedSpuriousWakeup, BlockReturns,
       ClearActive, NotifyClosing, Join, vars
  <2>3. BeforeIsPast'
    BY <1>1, <1>2, <2>1 DEF ThreadInv, BeforeIsPast
  <2>4. ASSUME NEW u \in Threads, thread'[u] = "woken"
        PROVE  before'[u] <= Len(applied')
    <3>1. before[u] <= Len(applied)
      BY <2>2, <2>4 DEF ThreadInv, BlockedUntilApplied
    <3>2. before[u] \in Nat
      BY <1>1
    <3>3. before[u] <= Len(applied')
      BY <1>2, <3>1, <3>2
    <3>4. QED
      BY <2>1, <3>3
  <2>5. QED
    BY <2>3, <2>4 DEF BlockedUntilApplied
<1>6. QED
  BY <1>3, <1>4, <1>5

\* ThreadInv holds of every state of the queue.
LEMMA ThreadInvariant == Spec => []ThreadInv
<1>1. ThreadInv /\ [Next]_vars => ThreadInv'
  <2>1. ThreadInv /\ [Next]_vars => QueueInv'
    BY StepQueueInv DEF ThreadInv
  <2>2. QED
    BY <2>1, StepEmptyWhenCommitted, StepNoForgotten, StepCloseInv,
       StepBlocked DEF ThreadInv
<1>2. QED
  BY <1>1, InitThreadInv, PTL DEF Spec

(***************************************************************************)
(* A command in the queue of a sleeping worker is about to be announced:   *)
(* scheduleCommand may notify after it has released the mutex.             *)
(***************************************************************************)
THEOREM NothingForgotten == Spec => []NoForgottenCommand
<1>1. ThreadInv => NoForgottenCommand
  BY DEF ThreadInv
<1>2. QED
  BY <1>1, ThreadInvariant, PTL

(***************************************************************************)
(* A thread that returns from blockUntilAllQueriesComplete, not woken by   *)
(* chance, finds the commands applied that were scheduled before its call. *)
(***************************************************************************)
THEOREM BlockingWaits == Spec => []BlockedUntilApplied
<1>1. ThreadInv => BlockedUntilApplied
  BY DEF ThreadInv
<1>2. QED
  BY <1>1, ThreadInvariant, PTL

(***************************************************************************)
(* ~DatabaseSQLite returns with every scheduled command applied, however   *)
(* many were in the queue when it cleared m_active.                        *)
(***************************************************************************)
THEOREM DestructorDrains == Spec => []DestroyedIsDrained
<1>1. ASSUME ThreadInv PROVE DestroyedIsDrained
  <2>1. SUFFICES ASSUME life = "destroyed"
                 PROVE  pendingQueries = <<>> /\ Len(applied) = scheduled
    BY DEF DestroyedIsDrained
  <2>2. pendingQueries = <<>>
    BY <1>1, <2>1 DEF ThreadInv, CloseInv
  <2>3. QED
    BY <1>1, <2>2, EmptyIsApplied DEF ThreadInv
<1>2. QED
  BY <1>1, ThreadInvariant, PTL

=============================================================================
