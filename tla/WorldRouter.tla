---------------------------- MODULE WorldRouter ----------------------------
(***************************************************************************)
(* Dispatch of operations in the Cyphesis server: WorldRouter, BaseWorld   *)
(* (apps/cyphesis/src/rules/simulation), the OperationsDispatcher          *)
(* (common/OperationsDispatcher_impl.h) they use, and the part of          *)
(* MainLoop::run that drives it.                                           *)
(*                                                                         *)
(* Operations wait in a queue ordered by the time at which they are due    *)
(* and, for equal times, by a sequence number.  processUntil dispatches    *)
(* the ones that are due.  Ticks are held back while the world, or the     *)
(* entity they are for, is suspended.                                      *)
(*                                                                         *)
(* An operation is known by its number in the order of its first message() *)
(* and never forgotten: its record says what became of it.                 *)
(***************************************************************************)
EXTENDS Naturals, Sequences, Functions

CONSTANTS
    Root,        \* the world entity, which cannot be deleted
    Others,      \* the other entities of the world
    Senders,     \* bound: the entities that send operations
    Kinds,       \* the kinds of operations that are sent
    Timings,     \* how operations are sent: [future, stamp], or NotSet
    NotSet,      \* default value of an attribute of an operation
    MaxOps,      \* bound: operations sent, those of the router apart
    MaxTime      \* bound: the last tick of the main loop's clock

ASSUME WorldRouterAssumption ==
    /\ Root \notin Others
    /\ Senders \subseteq {Root} \cup Others
    /\ Kinds \subseteq {"Tick", "Delete", "Suspend", "Resume", "Talk"}
    /\ MaxOps \in Nat
    /\ MaxTime \in Nat
    /\ NotSet \notin Nat
    /\ Timings \subseteq [future : Nat \cup {NotSet}, stamp : Nat \cup {NotSet}]

VARIABLES
    time,               \* the clock of MainLoop::run
    loop,               \* where the main loop is
    entities,           \* m_eobjects: the others are destroyed
    m_operationQueue,   \* entries [n, time_for_dispatch, sequence]
    m_sequence,         \* of the OperationsDispatcher
    m_isSuspended,      \* is the world suspended?
    m_suspendedQueue,   \* Ticks held back by the world
    suspended,          \* entities with a SuspendedProperty that is true
    m_suspendedOps,     \* Ticks held back by each entity
    ops                 \* all operations, with what became of them

vars == <<time, loop, entities, m_operationQueue, m_sequence, m_isSuspended,
          m_suspendedQueue, suspended, m_suspendedOps, ops>>

Entities == {Root} \cup Others

Init ==
    /\ time = 0
    /\ loop = "messages"
    /\ entities = Entities
    /\ m_operationQueue = {}
    /\ m_sequence = 0
    /\ m_isSuspended = FALSE
    /\ m_suspendedQueue = <<>>
    /\ suspended = {}
    /\ m_suspendedOps = [e \in Entities |-> <<>>]
    /\ ops = <<>>

-----------------------------------------------------------------------------
\* The queue.  Sending is an operator on the record of the variables it
\* changes, since the dispatch of one operation may send several.

Queue == [queue |-> m_operationQueue, sequence |-> m_sequence, ops |-> ops]

Become(w) ==
    /\ m_operationQueue' = w.queue
    /\ m_sequence' = w.sequence
    /\ ops' = w.ops

\* The operations of w with new fate for those numbered in S.
Fated(w, S, fate) ==
    [n \in DOMAIN w.ops |->
        IF n \in S THEN [w.ops[n] EXCEPT !.fate = fate] ELSE w.ops[n]]

\* addOperationToQueue, for each of the operations in s, in order.
AddOperationsToQueue(w, s) ==
    [queue |-> w.queue \cup
                 {[n |-> s[i], time_for_dispatch |-> w.ops[s[i]].stamp,
                   sequence |-> w.sequence + i] : i \in DOMAIN s},
     sequence |-> w.sequence + Len(s),
     ops |-> Fated(w, Range(s), "queued")]

\* resolveDispatchTimeForOp: a future overrides a stamp, and a stamp the
\* current time.
ResolveDispatchTimeForOp(timing) ==
    CASE timing.future # NotSet -> time + timing.future
      [] timing.future = NotSet /\ timing.stamp # NotSet -> timing.stamp
      [] OTHER -> time

Prompt(timing) == timing.future = NotSet /\ timing.stamp = NotSet

\* message, for an operation that has its "to" set.
Message(w, kind, from, to, timing, ref) ==
    LET op == [kind |-> kind, from |-> from, to |-> to, ref |-> ref,
               stamp |-> ResolveDispatchTimeForOp(timing),
               prompt |-> Prompt(timing), fate |-> "queued"]
    IN  AddOperationsToQueue([w EXCEPT !.ops = Append(@, op)],
                             <<Len(w.ops) + 1>>)

Now == [future |-> NotSet, stamp |-> NotSet]

\* Ticks that were held back are queued again; they come from their receiver
\* now, whoever sent them.
Requeue(w, s) ==
    LET FromReceiver(n) ==
            IF n \in Range(s) THEN [w.ops[n] EXCEPT !.from = w.ops[n].to]
            ELSE w.ops[n]
    IN  AddOperationsToQueue(
            [w EXCEPT !.ops = [n \in DOMAIN w.ops |-> FromReceiver(n)]], s)

\* An entity of the world sends an operation.
Send(w) ==
    /\ Len(w.ops) < MaxOps
    /\ \E kind \in Kinds, from \in entities \cap Senders,
          to \in Entities, timing \in Timings :
        /\ ResolveDispatchTimeForOp(timing) <= MaxTime
        /\ Become(Message(w, kind, from, to, timing, NotSet))

-----------------------------------------------------------------------------
\* MainLoop::run

\* dispatchOperations: what clients have sent is handled, and the entities
\* they control send operations to the world.
DispatchOperations ==
    /\ loop = "messages"
    /\ Send(Queue)
    /\ UNCHANGED <<time, loop, entities, m_isSuspended, m_suspendedQueue,
                   suspended, m_suspendedOps>>

\* processUntil is called.
StartProcessing ==
    /\ loop = "messages"
    /\ loop' = "first"
    /\ UNCHANGED <<time, entities, m_operationQueue, m_sequence, m_isSuspended,
                   m_suspendedQueue, suspended, m_suspendedOps, ops>>

\* Mutant of Before: entries of one time in any order.
BeforeByTime(a, b) ==
    a = b \/ a.time_for_dispatch <= b.time_for_dispatch

\* The order of the queue, OpQueEntry::operator>.
Before(a, b) ==
    \/ a.time_for_dispatch < b.time_for_dispatch
    \/ a.time_for_dispatch = b.time_for_dispatch /\ a.sequence <= b.sequence

\* m_operationQueue.top(), if it is due.
Due == {x \in m_operationQueue : /\ \A y \in m_operationQueue : Before(x, y)
                                 /\ x.time_for_dispatch <= time}

\* Mutant of MayStop: the limit is tested before the first operation.
MayAlwaysStop == TRUE

\* The wall clock may end the loop of processUntil after its first round.
MayStop == loop = "more" \/ Due = {}

\* processUntil returns, and the next round of the main loop begins.
EndProcessing ==
    /\ loop \in {"first", "more"}
    /\ MayStop
    /\ loop' = "messages"
    /\ time' = IF time < MaxTime THEN time + 1 ELSE time
    /\ UNCHANGED <<entities, m_operationQueue, m_sequence, m_isSuspended,
                   m_suspendedQueue, suspended, m_suspendedOps, ops>>

-----------------------------------------------------------------------------
\* One round of processUntil: the top entry x is popped and operation() is
\* called, which decides by the receiver.

Processing(x) ==
    /\ loop \in {"first", "more"}
    /\ x \in Due
    /\ loop' = "more"

\* The popped entry is gone and its operation has another fate.
Popped(x, fate) ==
    [queue |-> m_operationQueue \ {x}, sequence |-> m_sequence,
     ops |-> Fated(Queue, {x.n}, fate)]

\* The receiver is the sender, and destroyed: nothing is sent.
IgnoreOwn(x) ==
    LET op == ops[x.n]
    IN  /\ Processing(x)
        /\ op.to = op.from
        /\ op.to \notin entities
        /\ Become(Popped(x, "ignored"))
        /\ UNCHANGED <<time, entities, m_isSuspended, m_suspendedQueue,
                       suspended, m_suspendedOps>>

\* Mutant of Unseen: the operation is dropped without an answer.
UnseenNot(w, n) == w

\* Mutant of Unseen: the world answers in its own name.
UnseenFromWorld(w, n) == Message(w, "Unseen", Root, ops[n].from, Now, n)

\* The Unseen op of the router: to the sender, and from the sender too.
Unseen(w, n) == Message(w, "Unseen", ops[n].from, ops[n].from, Now, n)

\* The receiver is gone: the sender gets an Unseen op, if it still exists.
AnswerUnseen(x) ==
    LET op == ops[x.n]
    IN  /\ Processing(x)
        /\ op.to # op.from
        /\ op.to \notin entities
        /\ Become(IF op.from \in entities
                  THEN Unseen(Popped(x, "unseen"), x.n)
                  ELSE Popped(x, "ignored"))
        /\ UNCHANGED <<time, entities, m_isSuspended, m_suspendedQueue,
                       suspended, m_suspendedOps>>

\* Mutant of HeldBack: a suspended world holds back every operation.
HeldBackAll(op) == m_isSuspended

\* deliverTo: is the operation to wait until the world is resumed?
HeldBack(op) == m_isSuspended /\ op.kind = "Tick"

\* deliverTo, in a suspended world.
HoldBack(x) ==
    /\ Processing(x)
    /\ ops[x.n].to \in entities
    /\ HeldBack(ops[x.n])
    /\ m_suspendedQueue' = Append(m_suspendedQueue, x.n)
    /\ Become(Popped(x, "suspended"))
    /\ UNCHANGED <<time, entities, m_isSuspended, suspended, m_suspendedOps>>

\* deliverTo: the operation x reaches its receiver, stamped with the time.
Delivers(x) ==
    /\ Processing(x)
    /\ ops[x.n].to \in entities
    /\ ~HeldBack(ops[x.n])

Delivered(x, fate) ==
    LET w == Popped(x, fate) IN [w EXCEPT !.ops[x.n].stamp = time]

\* The result of a handler is sent: at most one operation here, from the
\* receiver or from another entity of the world.
SendResult(w) == Become(w) \/ Send(w)

\* SuspendedProperty::operation: the Tick is kept.  Scripts have seen it.
DeliverToSuspended(x) ==
    LET to == ops[x.n].to
    IN  /\ Delivers(x)
        /\ ops[x.n].kind = "Tick"
        /\ to \in suspended
        /\ m_suspendedOps' = [m_suspendedOps EXCEPT ![to] = Append(@, x.n)]
        /\ SendResult(Delivered(x, "stored"))
        /\ UNCHANGED <<time, entities, m_isSuspended, m_suspendedQueue,
                       suspended>>

\* An operation that changes nothing in the router.
DeliverOther(x) ==
    /\ Delivers(x)
    /\ ops[x.n].kind \in {"Talk", "Unseen", "Tick"}
    /\ ops[x.n].kind = "Tick" => ops[x.n].to \notin suspended
    /\ SendResult(Delivered(x, "delivered"))
    /\ UNCHANGED <<time, entities, m_isSuspended, m_suspendedQueue, suspended,
                   m_suspendedOps>>

\* LocatedEntity::DeleteOperation and delEntity, which spares the world.
DeliverDelete(x) ==
    /\ Delivers(x)
    /\ ops[x.n].kind = "Delete"
    /\ entities' = entities \ ({ops[x.n].to} \ {Root})
    /\ SendResult(Delivered(x, "delivered"))
    /\ UNCHANGED <<time, m_isSuspended, m_suspendedQueue, suspended,
                   m_suspendedOps>>

\* Set of "suspended", to true: BaseWorld::setIsSuspended for the world.
DeliverSuspend(x) ==
    LET to == ops[x.n].to
    IN  /\ Delivers(x)
        /\ ops[x.n].kind = "Suspend"
        /\ m_isSuspended' = (m_isSuspended \/ to = Root)
        /\ suspended' = suspended \cup ({to} \ {Root})
        /\ SendResult(Delivered(x, "delivered"))
        /\ UNCHANGED <<time, entities, m_suspendedQueue, m_suspendedOps>>

\* Mutant of Resumed: the world resumes without its Ticks.
ResumeNothing(to) == IF to = Root THEN <<>> ELSE m_suspendedOps[to]

\* What is sent again.  setIsSuspended calls resumeWorld only if the world
\* was suspended.
Resumed(to) ==
    IF to # Root THEN m_suspendedOps[to]
    ELSE IF m_isSuspended THEN m_suspendedQueue
    ELSE <<>>

\* Set of "suspended", to false: resumeWorld, or SuspendedProperty::apply.
DeliverResume(x) ==
    LET to == ops[x.n].to
    IN  /\ Delivers(x)
        /\ ops[x.n].kind = "Resume"
        /\ m_isSuspended' = (m_isSuspended /\ to # Root)
        /\ suspended' = suspended \ {to}
        /\ m_suspendedQueue' = IF to = Root /\ m_isSuspended THEN <<>>
                               ELSE m_suspendedQueue
        /\ m_suspendedOps' = [m_suspendedOps EXCEPT ![to] = <<>>]
        /\ SendResult(Requeue(Delivered(x, "delivered"), Resumed(to)))
        /\ UNCHANGED <<time, entities>>

-----------------------------------------------------------------------------

ProcessOp ==
    \E x \in m_operationQueue :
        \/ IgnoreOwn(x)
        \/ AnswerUnseen(x)
        \/ HoldBack(x)
        \/ DeliverToSuspended(x)
        \/ DeliverOther(x)
        \/ DeliverDelete(x)
        \/ DeliverSuspend(x)
        \/ DeliverResume(x)

LoopStep == StartProcessing \/ ProcessOp \/ EndProcessing

Next == DispatchOperations \/ LoopStep

Spec == Init /\ [][Next]_vars

\* The main loop goes on.  Nobody is obliged to send anything.
FairSpec == Spec /\ WF_vars(LoopStep)

-----------------------------------------------------------------------------

Fates == {"queued", "suspended", "stored", "delivered", "ignored", "unseen"}

Operations ==
    [kind : Kinds \cup {"Unseen"}, from : Entities, to : Entities,
     ref : Nat \cup {NotSet}, stamp : Nat, prompt : BOOLEAN, fate : Fates]

\* The types of the variables.
TypeOK ==
    /\ time \in 0 .. MaxTime
    /\ loop \in {"messages", "first", "more"}
    /\ entities \in SUBSET Entities
    /\ \A x \in m_operationQueue : /\ x.n \in DOMAIN ops
                                   /\ x.time_for_dispatch \in Nat
                                   /\ x.sequence \in 1 .. m_sequence
    /\ m_sequence \in Nat
    /\ m_isSuspended \in BOOLEAN
    /\ m_suspendedQueue \in Seq(DOMAIN ops)
    /\ suspended \in SUBSET Others
    /\ m_suspendedOps \in [Entities -> Seq(DOMAIN ops)]
    /\ ops \in Seq(Operations)

Fate(n) == IF n \in DOMAIN ops THEN ops[n].fate ELSE "none"

\* Number n occurs once in s.
OnceIn(n, s) == \E i \in DOMAIN s : \A j \in DOMAIN s : s[j] = n <=> j = i

(***************************************************************************)
(* No operation is lost or doubled, whatever is suspended, resumed and     *)
(* deleted meanwhile: an operation that was not dispatched yet is in       *)
(* exactly one queue, once, and a Tick is held back only by a world or an  *)
(* entity that is suspended now ("These are instead stored and sent again  *)
(* when the entity is resumed", SuspendedProperty.h).                      *)
(***************************************************************************)
NoOpLost ==
    \A n \in DOMAIN ops :
        /\ (Fate(n) = "queued") = (\E x \in m_operationQueue : x.n = n)
        /\ \A x, y \in m_operationQueue : (x.n = n /\ y.n = n) => x = y
        /\ (Fate(n) = "suspended") = (n \in Range(m_suspendedQueue))
        /\ Fate(n) = "suspended" => m_isSuspended /\ OnceIn(n, m_suspendedQueue)
        /\ Fate(n) = "stored" => /\ ops[n].to \in suspended
                                 /\ OnceIn(n, m_suspendedOps[ops[n].to])

(***************************************************************************)
(* Operations that are sent to be handled at once are handled in the order *)
(* in which they were sent, across senders and rounds of the main loop:    *)
(* OpQueEntry's sequence is "used to determine ordering when to ops have   *)
(* the exact same time".  Ticks are not meant, they may be held back.      *)
(***************************************************************************)
PromptInOrder ==
    \A m, n \in DOMAIN ops :
        /\ m < n
        /\ \A i \in {m, n} : ops[i].prompt /\ ops[i].kind # "Tick"
        /\ Fate(m) = "queued"
        => Fate(n) = "queued"

(***************************************************************************)
(* Every operation in the queue is dispatched eventually, although the     *)
(* wall clock may end each call of processUntil: "we will process one op   *)
(* at least" (OperationsDispatcher_impl.h).                                *)
(***************************************************************************)
EveryOpDispatched ==
    \A n \in 1 .. MaxOps : (Fate(n) = "queued") ~> (Fate(n) # "queued")

(***************************************************************************)
(* An operation to an entity that is gone is answered: its sender gets an  *)
(* Unseen op, unless it is deleted itself before that arrives.             *)
(***************************************************************************)
LostOpIsAnswered ==
    \A n \in 1 .. MaxOps :
        (Fate(n) = "unseen")
            ~> \E m \in DOMAIN ops :
                    /\ ops[m].ref = n
                    /\ Fate(m) = "delivered" \/ ops[m].to \notin entities

(***************************************************************************)
(* An operation to an entity that is gone has exactly one answer, an       *)
(* Unseen op to its sender, which is dispatched unless the sender goes     *)
(* too; and no Unseen op is answered by another, because the router sends  *)
(* it in the name of its receiver: two entities that are gone do not keep  *)
(* the router busy with each other.                                        *)
(***************************************************************************)
AnsweredOnce ==
    \A n \in DOMAIN ops :
        Fate(n) = "unseen" =>
            /\ ops[n].kind # "Unseen"
            /\ \E m \in DOMAIN ops :
                /\ \A k \in DOMAIN ops : ops[k].ref = n <=> k = m
                /\ ops[m].kind = "Unseen" /\ ops[m].to = ops[n].from
                /\ Fate(m) \in {"queued", "delivered"} \/ ops[m].to \notin entities

\* A suspended world obeys the operation that resumes it.
ResumeIsObeyed ==
    \A n \in 1 .. MaxOps :
        (Fate(n) = "queued" /\ ops[n].kind = "Resume" /\ ops[n].to = Root)
            ~> ~m_isSuspended

=============================================================================
