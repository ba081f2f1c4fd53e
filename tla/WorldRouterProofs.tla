------------------------- MODULE WorldRouterProofs -------------------------
(***************************************************************************)
(* Theorems about WorldRouter, for any entities, kinds of operations, ways *)
(* to send them and numbers of operations.                                 *)
(***************************************************************************)
EXTENDS WorldRouter, Induction

-----------------------------------------------------------------------------
\* What sending works on, and the entries of the queue.
Entries == [n : Nat, time_for_dispatch : Nat, sequence : Nat]

Queues == [queue : SUBSET Entries, sequence : Nat, ops : Seq(Operations)]

Times == [future : Nat \cup {NotSet}, stamp : Nat \cup {NotSet}]

\* A function on the numbers of the operations is a list of operations.
LEMMA ListOfOps ==
    ASSUME NEW k \in Nat, NEW f, f = [n \in 1 .. k |-> f[n]],
           \A n \in 1 .. k : f[n] \in Operations
    PROVE  f \in Seq(Operations) /\ Len(f) = k /\ DOMAIN f = 1 .. k
OBVIOUS

\* Two operations are alike, but for sender, fate and time of delivery.
Alike(a, b) == /\ a.kind = b.kind /\ a.to = b.to
               /\ a.ref = b.ref /\ a.prompt = b.prompt

\* Two operations differ in their fates at most.
SameBut(a, b) == Alike(a, b) /\ a.from = b.from /\ a.stamp = b.stamp

\* Fated changes the fate of some operations and nothing else.
LEMMA FatedFacts ==
    ASSUME NEW w \in Queues, NEW S, NEW fate \in Fates
    PROVE  /\ Fated(w, S, fate) \in Seq(Operations)
           /\ DOMAIN Fated(w, S, fate) = DOMAIN w.ops
           /\ Len(Fated(w, S, fate)) = Len(w.ops)
           /\ \A n \in DOMAIN w.ops : SameBut(Fated(w, S, fate)[n], w.ops[n])
           /\ \A n \in DOMAIN w.ops :
                Fated(w, S, fate)[n].fate = IF n \in S THEN fate ELSE w.ops[n].fate
           /\ \A n \in DOMAIN w.ops \ S : Fated(w, S, fate)[n] = w.ops[n]
<1>1. /\ w.ops \in Seq(Operations) /\ Len(w.ops) \in Nat /\ DOMAIN w.ops = 1 .. Len(w.ops)
      /\ \A n \in DOMAIN w.ops : w.ops[n] \in Operations
  BY DEF Queues
<1>2. \A op \in Operations : [op EXCEPT !.fate = fate] \in Operations
  BY DEF Operations
<1>3. \A n \in DOMAIN w.ops :
        Fated(w, S, fate)[n] =
            IF n \in S THEN [w.ops[n] EXCEPT !.fate = fate] ELSE w.ops[n]
  BY DEF Fated
<1>4. \A n \in 1 .. Len(w.ops) : Fated(w, S, fate)[n] \in Operations
  BY <1>1, <1>2, <1>3
<1>5. Fated(w, S, fate) = [n \in 1 .. Len(w.ops) |-> Fated(w, S, fate)[n]]
  BY <1>1 DEF Fated
<1>6. \A op \in Operations : LET o == [op EXCEPT !.fate = fate]
                              IN  SameBut(o, op) /\ o.fate = fate
  BY DEF Operations, SameBut, Alike
<1>7. \A n \in DOMAIN w.ops : /\ SameBut(Fated(w, S, fate)[n], w.ops[n])
                              /\ Fated(w, S, fate)[n].fate = IF n \in S THEN fate ELSE w.ops[n].fate
  <2>1. \A op \in Operations : SameBut(op, op)
    BY DEF SameBut, Alike
  <2> HIDE DEF SameBut, Alike
  <2> QED BY <1>1, <1>3, <1>6, <2>1
<1> QED BY <1>1, <1>3, <1>4, <1>5, <1>7, ListOfOps

\* The time at which an operation is due is a number.
LEMMA DispatchTime ==
    ASSUME time \in Nat, NEW timing \in Times
    PROVE  /\ ResolveDispatchTimeForOp(timing) \in Nat
           /\ Prompt(timing) \in BOOLEAN
           /\ Prompt(timing) => ResolveDispatchTimeForOp(timing) = time
BY DEF ResolveDispatchTimeForOp, Prompt, Times

\* From w to v one operation was appended and queued.
Sent(w, v, now) ==
    /\ v \in Queues
    /\ \E N \in Nat, due \in Nat :
        /\ \A n \in DOMAIN w.ops : n < N
        /\ v.queue = w.queue \cup {[n |-> N, time_for_dispatch |-> due,
                                    sequence |-> w.sequence + 1]}
        /\ v.sequence = w.sequence + 1
        /\ DOMAIN v.ops = DOMAIN w.ops \cup {N}
        /\ \A n \in DOMAIN w.ops : v.ops[n] = w.ops[n]
        /\ v.ops[N].fate = "queued"
        /\ v.ops[N].prompt => due = now

\* The operation that was appended.
Added(w, v, kind, from, to, ref) ==
    \E N \in Nat \ DOMAIN w.ops :
        /\ DOMAIN v.ops = DOMAIN w.ops \cup {N}
        /\ \A n \in DOMAIN w.ops : v.ops[n] = w.ops[n]
        /\ v.ops[N].kind = kind /\ v.ops[N].from = from /\ v.ops[N].to = to
        /\ v.ops[N].ref = ref /\ v.ops[N].fate = "queued"

\* Message sends.
LEMMA MessageSends ==
    ASSUME time \in Nat, NEW w \in Queues,
           NEW kind \in Kinds \cup {"Unseen"}, NEW from \in Entities, NEW to \in Entities,
           NEW timing \in Times, NEW ref \in Nat \cup {NotSet},
           NEW v, v = Message(w, kind, from, to, timing, ref)
    PROVE  Sent(w, v, time) /\ Added(w, v, kind, from, to, ref)
<1>0. PICK N : N = Len(w.ops) + 1
  OBVIOUS
<1> DEFINE op == [kind |-> kind, from |-> from, to |-> to, ref |-> ref,
                  stamp |-> ResolveDispatchTimeForOp(timing),
                  prompt |-> Prompt(timing), fate |-> "queued"]
           u == [w EXCEPT !.ops = Append(@, op)]
<1>1. /\ ResolveDispatchTimeForOp(timing) \in Nat
      /\ Prompt(timing) \in BOOLEAN
      /\ Prompt(timing) => ResolveDispatchTimeForOp(timing) = time
  BY DispatchTime
<1>2. op \in Operations
  BY <1>1 DEF Operations, Fates
<1>3. /\ w.ops \in Seq(Operations) /\ Len(w.ops) \in Nat /\ DOMAIN w.ops = 1 .. Len(w.ops)
      /\ w.sequence \in Nat /\ w.queue \in SUBSET Entries
  BY DEF Queues
<1>4. /\ op.kind = kind /\ op.from = from /\ op.to = to /\ op.prompt = Prompt(timing)
      /\ op.fate = "queued" /\ op.stamp = ResolveDispatchTimeForOp(timing) /\ op.ref = ref
  OBVIOUS
<1>5. v = AddOperationsToQueue(u, <<N>>)
  BY <1>0 DEF Message
<1> HIDE DEF op
<1>6. u = [queue |-> w.queue, sequence |-> w.sequence, ops |-> Append(w.ops, op)]
  <2>1. \A a : [w EXCEPT !.ops = a] = [queue |-> w.queue, sequence |-> w.sequence, ops |-> a]
    BY DEF Queues
  <2>2. u = [w EXCEPT !.ops = Append(w.ops, op)]
    OBVIOUS
  <2> QED BY <2>1, <2>2
<1>7. /\ u.ops \in Seq(Operations) /\ Len(u.ops) = N /\ DOMAIN u.ops = 1 .. N
      /\ u.ops[N] = op /\ \A n \in DOMAIN w.ops : u.ops[n] = w.ops[n]
  BY <1>0, <1>2, <1>3, <1>6
<1>8. u \in Queues /\ u.queue = w.queue /\ u.sequence = w.sequence
  BY <1>0, <1>3, <1>6, <1>7 DEF Queues
<1> HIDE DEF u
<1>9. /\ v.queue = u.queue \cup {[n |-> <<N>>[i], time_for_dispatch |-> u.ops[<<N>>[i]].stamp,
                                 sequence |-> u.sequence + i] : i \in DOMAIN <<N>>}
      /\ v.sequence = u.sequence + Len(<<N>>)
      /\ v.ops = Fated(u, Range(<<N>>), "queued")
      /\ v = [queue |-> v.queue, sequence |-> v.sequence, ops |-> v.ops]
  BY <1>5 DEF AddOperationsToQueue
<1>10. DOMAIN <<N>> = {1} /\ <<N>>[1] = N /\ Len(<<N>>) = 1 /\ Range(<<N>>) = {N}
  BY DEF Range
<1>11. v.queue = w.queue \cup {[n |-> N,
                               time_for_dispatch |-> ResolveDispatchTimeForOp(timing),
                               sequence |-> w.sequence + 1]}
  BY <1>4, <1>7, <1>8, <1>9, <1>10
<1>12. /\ v.ops \in Seq(Operations) /\ DOMAIN v.ops = DOMAIN u.ops
       /\ \A n \in DOMAIN u.ops :
            /\ SameBut(v.ops[n], u.ops[n])
            /\ v.ops[n].fate = IF n \in {N} THEN "queued" ELSE u.ops[n].fate
            /\ n \notin {N} => v.ops[n] = u.ops[n]
  <2>1. "queued" \in Fates /\ v.ops = Fated(u, {N}, "queued")
    BY <1>9, <1>10 DEF Fates
  <2> QED BY <1>8, <2>1, FatedFacts
<1>13. /\ DOMAIN v.ops = DOMAIN w.ops \cup {N}
       /\ \A n \in DOMAIN w.ops : v.ops[n] = w.ops[n]
  <2>1. DOMAIN u.ops = DOMAIN w.ops \cup {N} /\ N \notin DOMAIN w.ops
    BY <1>0, <1>3, <1>7
  <2> QED BY <1>7, <1>12, <2>1
<1>14. SameBut(v.ops[N], op) /\ v.ops[N].fate = "queued"
  <2>1. N \in DOMAIN u.ops
    BY <1>0, <1>3, <1>7
  <2> QED BY <1>7, <1>12, <2>1
<1>15. /\ N \in Nat /\ \A n \in DOMAIN w.ops : n < N
       /\ [n |-> N, time_for_dispatch |-> ResolveDispatchTimeForOp(timing),
           sequence |-> w.sequence + 1] \in Entries
  BY <1>0, <1>1, <1>3 DEF Entries
<1>16. v \in Queues /\ v.sequence = w.sequence + 1
  BY <1>3, <1>8, <1>9, <1>10, <1>11, <1>12, <1>15 DEF Queues
<1>17. v.ops[N].fate = "queued" /\ (v.ops[N].prompt => ResolveDispatchTimeForOp(timing) = time)
  BY <1>1, <1>4, <1>14 DEF SameBut, Alike
<1>18. Sent(w, v, time)
  BY <1>1, <1>11, <1>13, <1>15, <1>16, <1>17 DEF Sent
<1>19. N \in Nat \ DOMAIN w.ops
  BY <1>15
<1>20. /\ v.ops[N].kind = kind /\ v.ops[N].from = from /\ v.ops[N].to = to
       /\ v.ops[N].ref = ref
  BY <1>4, <1>14 DEF SameBut, Alike
<1> QED BY <1>13, <1>14, <1>18, <1>19, <1>20 DEF Added

\* From w to v the operations in s are queued.
Requeued(w, v, s) ==
    /\ v \in Queues
    /\ v.queue = w.queue \cup
         {[n |-> s[i], time_for_dispatch |-> w.ops[s[i]].stamp,
           sequence |-> w.sequence + i] : i \in DOMAIN s}
    /\ v.sequence = w.sequence + Len(s)
    /\ DOMAIN v.ops = DOMAIN w.ops
    /\ \A n \in DOMAIN w.ops :
        /\ Alike(v.ops[n], w.ops[n])
        /\ v.ops[n].fate = IF n \in Range(s) THEN "queued" ELSE w.ops[n].fate
        /\ n \notin Range(s) => v.ops[n].from = w.ops[n].from

\* Operations that are queued again get their turn in order.
LEMMA RequeuesAll ==
    ASSUME NEW w \in Queues, NEW s \in Seq(DOMAIN w.ops), NEW v, v = Requeue(w, s)
    PROVE  Requeued(w, v, s)
<1> DEFINE f == [n \in DOMAIN w.ops |->
                    IF n \in Range(s) THEN [w.ops[n] EXCEPT !.from = w.ops[n].to]
                    ELSE w.ops[n]]
           u == [w EXCEPT !.ops = f]
<1>1. /\ w.ops \in Seq(Operations) /\ Len(w.ops) \in Nat /\ DOMAIN w.ops = 1 .. Len(w.ops)
      /\ \A n \in DOMAIN w.ops : w.ops[n] \in Operations
      /\ w.sequence \in Nat /\ w.queue \in SUBSET Entries
  BY DEF Queues
<1>2. \A op \in Operations : [op EXCEPT !.from = op.to] \in Operations
  BY DEF Operations
<1>3. f \in Seq(Operations) /\ DOMAIN f = DOMAIN w.ops
  <2>1. \A n \in 1 .. Len(w.ops) : f[n] \in Operations
    BY <1>1, <1>2
  <2>2. f = [n \in 1 .. Len(w.ops) |-> f[n]]
    BY <1>1
  <2> HIDE DEF f
  <2> QED BY <1>1, <2>1, <2>2, ListOfOps
<1>4. \A n \in DOMAIN w.ops : /\ f[n].kind = w.ops[n].kind /\ f[n].to = w.ops[n].to
                              /\ f[n].prompt = w.ops[n].prompt /\ f[n].fate = w.ops[n].fate
                              /\ f[n].stamp = w.ops[n].stamp /\ f[n].ref = w.ops[n].ref
                              /\ n \notin Range(s) => f[n].from = w.ops[n].from
  BY <1>1 DEF Operations
<1>5. v = AddOperationsToQueue(u, s)
  BY DEF Requeue
<1> HIDE DEF f
<1>6. u = [queue |-> w.queue, sequence |-> w.sequence, ops |-> f]
  BY DEF Queues
<1>7. u \in Queues /\ u.queue = w.queue /\ u.sequence = w.sequence /\ u.ops = f
  BY <1>1, <1>3, <1>6 DEF Queues
<1> HIDE DEF u
<1>8. /\ v.queue = u.queue \cup {[n |-> s[i], time_for_dispatch |-> u.ops[s[i]].stamp,
                                 sequence |-> u.sequence + i] : i \in DOMAIN s}
      /\ v.sequence = u.sequence + Len(s)
      /\ v.ops = Fated(u, Range(s), "queued")
      /\ v = [queue |-> v.queue, sequence |-> v.sequence, ops |-> v.ops]
  BY <1>5 DEF AddOperationsToQueue
<1>9. \A i \in DOMAIN s : s[i] \in DOMAIN w.ops
  OBVIOUS
<1>10. v.queue = w.queue \cup {[n |-> s[i], time_for_dispatch |-> w.ops[s[i]].stamp,
                               sequence |-> w.sequence + i] : i \in DOMAIN s}
  BY <1>4, <1>7, <1>8, <1>9
<1>11. /\ v.ops \in Seq(Operations) /\ DOMAIN v.ops = DOMAIN w.ops
       /\ \A n \in DOMAIN w.ops :
            /\ SameBut(v.ops[n], f[n])
            /\ v.ops[n].fate = IF n \in Range(s) THEN "queued" ELSE f[n].fate
  <2>1. "queued" \in Fates
    BY DEF Fates
  <2> QED BY <1>3, <1>7, <1>8, <2>1, FatedFacts
<1>12. /\ Len(s) \in Nat /\ DOMAIN s \subseteq Nat
       /\ \A i \in DOMAIN s : s[i] \in DOMAIN w.ops /\ s[i] \in Nat /\ w.ops[s[i]].stamp \in Nat
  BY <1>1 DEF Operations
<1>13. v.queue \subseteq Entries /\ v.sequence \in Nat
  <2>1. \A i \in DOMAIN s : [n |-> s[i], time_for_dispatch |-> w.ops[s[i]].stamp,
                            sequence |-> w.sequence + i] \in Entries
    BY <1>1, <1>12 DEF Entries
  <2>2. v.queue \subseteq Entries
    BY <1>1, <1>10, <2>1
  <2>3. v.sequence \in Nat
    BY <1>1, <1>7, <1>8, <1>12
  <2> QED BY <2>2, <2>3
<1>14. v \in Queues /\ v.sequence = w.sequence + Len(s)
  BY <1>7, <1>8, <1>11, <1>13 DEF Queues
<1>15. \A n \in DOMAIN w.ops :
        /\ Alike(v.ops[n], w.ops[n])
        /\ v.ops[n].fate = IF n \in Range(s) THEN "queued" ELSE w.ops[n].fate
        /\ n \notin Range(s) => v.ops[n].from = w.ops[n].from
  BY <1>4, <1>11 DEF SameBut, Alike
<1> QED BY <1>10, <1>11, <1>14, <1>15 DEF Requeued

\* The operation x is taken out of the queue and gets another fate.
Taken(w, v, x, fate) ==
    /\ v.queue = w.queue \ {x}
    /\ v.sequence = w.sequence
    /\ v.ops \in Seq(Operations)
    /\ DOMAIN v.ops = DOMAIN w.ops
    /\ \A n \in DOMAIN w.ops : /\ Alike(v.ops[n], w.ops[n])
                               /\ v.ops[n].from = w.ops[n].from
                               /\ v.ops[n].fate = IF n = x.n THEN fate ELSE w.ops[n].fate

\* Popped and Delivered take x out of the queue.
LEMMA PoppedFacts ==
    ASSUME Queue \in Queues, time \in Nat, NEW x, x.n \in DOMAIN ops, NEW fate \in Fates
    PROVE  /\ Popped(x, fate) \in Queues /\ Taken(Queue, Popped(x, fate), x, fate)
           /\ Delivered(x, fate) \in Queues /\ Taken(Queue, Delivered(x, fate), x, fate)
<1> DEFINE f == Fated(Queue, {x.n}, fate)
           p == Popped(x, fate)
           d == Delivered(x, fate)
<1>1. /\ Queue.queue = m_operationQueue /\ Queue.sequence = m_sequence /\ Queue.ops = ops
      /\ m_operationQueue \in SUBSET Entries /\ m_sequence \in Nat /\ ops \in Seq(Operations)
  BY DEF Queue, Queues
<1>2. \A n \in DOMAIN ops : ops[n] \in Operations
  BY <1>1
<1>3. /\ f \in Seq(Operations) /\ DOMAIN f = DOMAIN ops /\ Len(f) = Len(ops)
      /\ \A n \in DOMAIN ops :
            /\ Alike(f[n], ops[n]) /\ f[n].from = ops[n].from
            /\ f[n].fate = IF n = x.n THEN fate ELSE ops[n].fate
  <2>1. PICK w \in Queues : w = Queue
    OBVIOUS
  <2>2. f = Fated(w, {x.n}, fate) /\ w.ops = ops
    BY <1>1, <2>1
  <2> HIDE DEF f
  <2> QED BY <2>2, FatedFacts DEF SameBut
<1>5. p = [queue |-> m_operationQueue \ {x}, sequence |-> m_sequence, ops |-> f]
  BY DEF Popped
<1> HIDE DEF f, p, d
<1>6. p \in Queues /\ Taken(Queue, p, x, fate)
  BY <1>1, <1>3, <1>5 DEF Taken, Queues
<1>7. d = [p EXCEPT !.ops[x.n].stamp = time]
  BY DEF d, p, Delivered
<1> DEFINE g == [f EXCEPT ![x.n] = [f[x.n] EXCEPT !.stamp = time]]
<1>8. d = [queue |-> m_operationQueue \ {x}, sequence |-> m_sequence, ops |-> g]
  BY <1>5, <1>7
<1>9. f[x.n] \in Operations /\ [f[x.n] EXCEPT !.stamp = time] \in Operations
  <2>1. \A op \in Operations : [op EXCEPT !.stamp = time] \in Operations
    BY DEF Operations
  <2> QED BY <1>3, <2>1
<1>10. /\ g \in Seq(Operations) /\ DOMAIN g = DOMAIN ops
       /\ \A n \in DOMAIN ops : g[n] = IF n = x.n THEN [f[x.n] EXCEPT !.stamp = time] ELSE f[n]
  BY <1>3, <1>9
<1>11. \A n \in DOMAIN ops : /\ Alike(g[n], f[n]) /\ g[n].from = f[n].from
                             /\ g[n].fate = f[n].fate
  BY <1>9, <1>10 DEF Operations, Alike
<1> HIDE DEF g
<1>12. d \in Queues /\ Taken(Queue, d, x, fate)
  BY <1>1, <1>3, <1>8, <1>10, <1>11 DEF Taken, Queues, Alike
<1> QED BY <1>6, <1>12 DEF p, d

-----------------------------------------------------------------------------
\* The inductive invariant, in four parts on the variables that a round of
\* processUntil changes together.

\* The queue holds each operation that is to be dispatched once.
QueueSound(w) ==
    /\ w \in Queues
    /\ \A x \in w.queue : x.n \in DOMAIN w.ops /\ w.ops[x.n].fate = "queued"
    /\ \A x, y \in w.queue : x.n = y.n => x = y
    /\ \A n \in DOMAIN w.ops : w.ops[n].fate = "queued" => \E x \in w.queue : x.n = n

\* A suspended world holds back the Ticks that are said to be, once each.
WorldSound(w, held, isSuspended) ==
    /\ held \in Seq(DOMAIN w.ops)
    /\ IsInjective(held)
    /\ \A n \in DOMAIN w.ops : w.ops[n].fate = "suspended" <=> n \in Range(held)
    /\ \A n \in Range(held) : w.ops[n].kind = "Tick"
    /\ held # <<>> => isSuspended

\* So does each suspended entity with its own.
EntitiesSound(w, held, asleep) ==
    /\ held \in [Entities -> Seq(DOMAIN w.ops)]
    /\ \A e \in Entities :
        /\ IsInjective(held[e])
        /\ held[e] # <<>> => e \in asleep
        /\ \A n \in DOMAIN w.ops :
            n \in Range(held[e]) <=> w.ops[n].fate = "stored" /\ w.ops[n].to = e
        /\ \A n \in Range(held[e]) : w.ops[n].kind = "Tick"

\* The operation numbered n is one that PromptInOrder speaks of.
InTurn(w, n) == w.ops[n].prompt /\ w.ops[n].kind # "Tick"

\* Those operations are in the queue in the order of their numbers, and none
\* is due later than now: what is sent now comes after them.
OrderSound(w, now) ==
    /\ \A x \in w.queue : x.sequence \in 1 .. w.sequence
    /\ \A x \in w.queue : InTurn(w, x.n) => x.time_for_dispatch <= now
    /\ \A x, y \in w.queue :
        InTurn(w, x.n) /\ InTurn(w, y.n) /\ x.n < y.n
            => x.time_for_dispatch <= y.time_for_dispatch /\ x.sequence < y.sequence
    /\ \A m, n \in DOMAIN w.ops :
        m < n /\ InTurn(w, m) /\ InTurn(w, n) /\ w.ops[m].fate = "queued"
            => w.ops[n].fate = "queued"

\* All four, of any values of the variables.
Sound(w, now, held, isSuspended, stored, asleep) ==
    /\ QueueSound(w)
    /\ OrderSound(w, now)
    /\ WorldSound(w, held, isSuspended)
    /\ EntitiesSound(w, stored, asleep)

\* The inductive invariant.
RouterInv ==
    /\ time \in 0 .. MaxTime
    /\ loop \in {"messages", "first", "more"}
    /\ entities \in SUBSET Entities
    /\ m_isSuspended \in BOOLEAN
    /\ suspended \in SUBSET Others
    /\ Sound(Queue, time, m_suspendedQueue, m_isSuspended, m_suspendedOps, suspended)

-----------------------------------------------------------------------------
\* What is sent.

\* Sending keeps the queue.
LEMMA SentQueue ==
    ASSUME NEW w, NEW v, NEW now \in Nat, QueueSound(w), OrderSound(w, now), Sent(w, v, now)
    PROVE  QueueSound(v) /\ OrderSound(v, now)
<1>1. PICK N \in Nat, due \in Nat :
        /\ \A n \in DOMAIN w.ops : n < N
        /\ v.queue = w.queue \cup {[n |-> N, time_for_dispatch |-> due,
                                    sequence |-> w.sequence + 1]}
        /\ v.sequence = w.sequence + 1
        /\ DOMAIN v.ops = DOMAIN w.ops \cup {N}
        /\ \A n \in DOMAIN w.ops : v.ops[n] = w.ops[n]
        /\ v.ops[N].fate = "queued"
        /\ v.ops[N].prompt => due = now
  BY DEF Sent
<1>2. PICK z : z = [n |-> N, time_for_dispatch |-> due, sequence |-> w.sequence + 1]
  OBVIOUS
<1>3. /\ z.n = N /\ z.time_for_dispatch = due /\ z.sequence = w.sequence + 1
      /\ v.queue = w.queue \cup {z}
  BY <1>1, <1>2
<1>4. /\ w.sequence \in Nat /\ w.queue \subseteq Entries /\ v \in Queues
      /\ DOMAIN w.ops \subseteq Nat /\ N \notin DOMAIN w.ops
  BY <1>1 DEF QueueSound, Queues, Sent
<1>5. \A x \in w.queue : /\ x.n \in DOMAIN w.ops /\ x.n # N /\ x.n < N
                         /\ x.n \in Nat /\ x.time_for_dispatch \in Nat /\ x.sequence \in Nat
                         /\ x.sequence \in 1 .. w.sequence
  BY <1>1, <1>4 DEF QueueSound, OrderSound, Entries
<1>6. QueueSound(v)
  BY <1>1, <1>3, <1>4, <1>5 DEF QueueSound
<1>7. \A n \in DOMAIN w.ops : InTurn(v, n) <=> InTurn(w, n)
  BY <1>1 DEF InTurn
<1>8. InTurn(v, N) => due = now
  BY <1>1 DEF InTurn
<1>9. \A x \in v.queue : x.sequence \in 1 .. v.sequence
  BY <1>1, <1>3, <1>4, <1>5
<1>10. \A x \in v.queue : InTurn(v, x.n) => x.time_for_dispatch <= now
  BY <1>3, <1>5, <1>7, <1>8 DEF OrderSound
<1>11. ASSUME NEW x \in v.queue, NEW y \in v.queue,
              InTurn(v, x.n), InTurn(v, y.n), x.n < y.n
       PROVE  x.time_for_dispatch <= y.time_for_dispatch /\ x.sequence < y.sequence
  <2>1. x \in w.queue
    BY <1>3, <1>5, <1>11
  <2>2. CASE y \in w.queue
    BY <1>5, <1>7, <1>11, <2>1, <2>2 DEF OrderSound
  <2>3. CASE y = z
    BY <1>3, <1>4, <1>5, <1>8, <1>10, <1>11, <2>1, <2>3
  <2> QED BY <1>3, <2>2, <2>3
<1>12. \A m, n \in DOMAIN v.ops :
        m < n /\ InTurn(v, m) /\ InTurn(v, n) /\ v.ops[m].fate = "queued"
            => v.ops[n].fate = "queued"
  BY <1>1, <1>4, <1>7 DEF OrderSound
<1> QED BY <1>6, <1>9, <1>10, <1>11, <1>12 DEF OrderSound

\* Sending leaves alone what is held back.
LEMMA SentHeld ==
    ASSUME NEW w, NEW v, NEW now, Sent(w, v, now),
           NEW held, NEW isSuspended, WorldSound(w, held, isSuspended),
           NEW stored, NEW asleep, EntitiesSound(w, stored, asleep)
    PROVE  WorldSound(v, held, isSuspended) /\ EntitiesSound(v, stored, asleep)
<1>1. PICK N \in Nat :
        /\ \A n \in DOMAIN w.ops : n < N
        /\ DOMAIN v.ops = DOMAIN w.ops \cup {N}
        /\ \A n \in DOMAIN w.ops : v.ops[n] = w.ops[n]
        /\ v.ops[N].fate = "queued"
  BY DEF Sent
<1>2. N \notin DOMAIN w.ops
  BY <1>1
<1>3. \A t \in Seq(DOMAIN w.ops) : t \in Seq(DOMAIN v.ops) /\ Range(t) \subseteq DOMAIN w.ops
  BY <1>1 DEF Range
<1>4. WorldSound(v, held, isSuspended)
  BY <1>1, <1>2, <1>3 DEF WorldSound
<1>5. stored \in [Entities -> Seq(DOMAIN v.ops)]
  BY <1>3 DEF EntitiesSound
<1>6. \A e \in Entities : Range(stored[e]) \subseteq DOMAIN w.ops
  BY <1>3 DEF EntitiesSound
<1> QED BY <1>1, <1>2, <1>4, <1>5, <1>6 DEF EntitiesSound

-----------------------------------------------------------------------------
\* What is taken out of the queue: its top, so nothing is before it.

LEMMA TakenQueue ==
    ASSUME NEW w, NEW v, NEW now, QueueSound(w), OrderSound(w, now),
           NEW x \in w.queue, \A y \in w.queue : Before(x, y),
           NEW fate \in Fates \ {"queued"}, v \in Queues, Taken(w, v, x, fate)
    PROVE  QueueSound(v) /\ OrderSound(v, now)
<1>1. /\ w.queue \subseteq Entries /\ w.sequence \in Nat /\ DOMAIN w.ops \subseteq Nat
      /\ \A y \in w.queue : /\ y.n \in DOMAIN w.ops /\ w.ops[y.n].fate = "queued"
                            /\ y.time_for_dispatch \in Nat /\ y.sequence \in Nat
  BY DEF QueueSound, Queues, Entries
<1>2. /\ v.queue = w.queue \ {x} /\ v.sequence = w.sequence /\ DOMAIN v.ops = DOMAIN w.ops
      /\ \A n \in DOMAIN w.ops : v.ops[n].fate = IF n = x.n THEN fate ELSE w.ops[n].fate
  BY DEF Taken
<1>3. \A y \in w.queue \ {x} : y.n # x.n
  BY DEF QueueSound
<1>4. QueueSound(v)
  BY <1>1, <1>2, <1>3 DEF QueueSound
<1>5. \A n \in DOMAIN w.ops : InTurn(v, n) <=> InTurn(w, n)
  BY DEF Taken, Alike, InTurn
<1>6. ASSUME NEW m \in DOMAIN w.ops, m < x.n, InTurn(w, m), InTurn(w, x.n),
             w.ops[m].fate = "queued"
      PROVE  FALSE
  <2>1. PICK y \in w.queue : y.n = m
    BY <1>6 DEF QueueSound
  <2>2. y.time_for_dispatch <= x.time_for_dispatch /\ y.sequence < x.sequence
    BY <1>6, <2>1 DEF OrderSound
  <2> QED BY <1>1, <2>2 DEF Before
<1>7. \A m, n \in DOMAIN v.ops :
        m < n /\ InTurn(v, m) /\ InTurn(v, n) /\ v.ops[m].fate = "queued"
            => v.ops[n].fate = "queued"
  BY <1>2, <1>5, <1>6 DEF OrderSound
<1> QED BY <1>1, <1>2, <1>4, <1>5, <1>7 DEF OrderSound

\* What is held back stays so when a queued operation is dispatched.
LEMMA TakenWorld ==
    ASSUME NEW w, NEW v, NEW held, NEW isSuspended, WorldSound(w, held, isSuspended),
           NEW x, x.n \in DOMAIN w.ops, w.ops[x.n].fate = "queued",
           NEW fate \in Fates \ {"suspended"}, Taken(w, v, x, fate)
    PROVE  WorldSound(v, held, isSuspended)
<1>1. Range(held) \subseteq DOMAIN w.ops
  BY DEF WorldSound, Range
<1> QED BY <1>1 DEF WorldSound, Taken, Alike

LEMMA TakenEntities ==
    ASSUME NEW w, NEW v, NEW held, NEW asleep, EntitiesSound(w, held, asleep),
           NEW x, x.n \in DOMAIN w.ops, w.ops[x.n].fate = "queued",
           NEW fate \in Fates \ {"stored"}, Taken(w, v, x, fate)
    PROVE  EntitiesSound(v, held, asleep)
<1>1. \A e \in Entities : Range(held[e]) \subseteq DOMAIN w.ops
  BY DEF EntitiesSound, Range
<1>2. /\ DOMAIN v.ops = DOMAIN w.ops
      /\ \A n \in DOMAIN w.ops : /\ v.ops[n].kind = w.ops[n].kind /\ v.ops[n].to = w.ops[n].to
                                 /\ v.ops[n].fate = "stored" <=> w.ops[n].fate = "stored"
  BY DEF Taken, Alike
<1>3. ASSUME NEW e \in Entities
      PROVE  /\ IsInjective(held[e])
             /\ held[e] # <<>> => e \in asleep
             /\ \A n \in DOMAIN v.ops :
                    n \in Range(held[e]) <=> v.ops[n].fate = "stored" /\ v.ops[n].to = e
             /\ \A n \in Range(held[e]) : v.ops[n].kind = "Tick"
  <2>1. /\ IsInjective(held[e])
        /\ held[e] # <<>> => e \in asleep
        /\ \A n \in DOMAIN w.ops :
            n \in Range(held[e]) <=> w.ops[n].fate = "stored" /\ w.ops[n].to = e
        /\ \A n \in Range(held[e]) : w.ops[n].kind = "Tick"
    BY DEF EntitiesSound
  <2> QED BY <1>1, <1>2, <2>1
<1> QED BY <1>2, <1>3 DEF EntitiesSound

\* A suspended world holds back one more Tick.
LEMMA HeldByWorld ==
    ASSUME NEW w, NEW v, NEW held, NEW isSuspended, WorldSound(w, held, isSuspended), isSuspended,
           NEW x, x.n \in DOMAIN w.ops, w.ops[x.n].fate = "queued", w.ops[x.n].kind = "Tick",
           Taken(w, v, x, "suspended")
    PROVE  WorldSound(v, Append(held, x.n), isSuspended)
<1>0. PICK k \in DOMAIN w.ops : k = x.n
  OBVIOUS
<1>1. /\ held \in Seq(DOMAIN w.ops) /\ k \notin Range(held) /\ IsInjective(held)
      /\ DOMAIN v.ops = DOMAIN w.ops
      /\ \A n \in DOMAIN w.ops : v.ops[n].kind = w.ops[n].kind
      /\ \A n \in DOMAIN w.ops : v.ops[n].fate = "suspended" <=> w.ops[n].fate = "suspended" \/ n = k
  BY <1>0 DEF WorldSound, Taken, Alike
<1>2. Range(held) \subseteq DOMAIN w.ops
  BY <1>1 DEF Range
<1>3. Range(Append(held, k)) = Range(held) \cup {k} /\ IsInjective(Append(held, k))
  BY <1>1, AppendRange
<1>4. PICK h : h = Append(held, k)
  OBVIOUS
<1>5. h \in Seq(DOMAIN v.ops) /\ Range(h) = Range(held) \cup {k} /\ IsInjective(h)
  BY <1>1, <1>3, <1>4
<1>6. WorldSound(v, h, isSuspended)
  BY <1>0, <1>1, <1>2, <1>5 DEF WorldSound
<1> QED BY <1>0, <1>4, <1>6

\* So does a suspended entity.
LEMMA HeldByEntity ==
    ASSUME NEW w, NEW v, NEW held, NEW asleep, EntitiesSound(w, held, asleep),
           NEW x, x.n \in DOMAIN w.ops, w.ops[x.n].fate = "queued", w.ops[x.n].kind = "Tick",
           w.ops[x.n].to \in Entities, w.ops[x.n].to \in asleep,
           Taken(w, v, x, "stored")
    PROVE  EntitiesSound(v, [held EXCEPT ![w.ops[x.n].to] = Append(@, x.n)], asleep)
<1>1. PICK to \in Entities, k \in DOMAIN w.ops : to = w.ops[x.n].to /\ k = x.n
  OBVIOUS
<1>2. PICK h : h = [held EXCEPT ![to] = Append(held[to], k)]
  OBVIOUS
<1>3. /\ held \in [Entities -> Seq(DOMAIN w.ops)] /\ DOMAIN v.ops = DOMAIN w.ops
      /\ \A e \in Entities : /\ held[e] \in Seq(DOMAIN w.ops) /\ IsInjective(held[e])
                             /\ k \notin Range(held[e])
      /\ \A n \in DOMAIN w.ops : v.ops[n].kind = w.ops[n].kind /\ v.ops[n].to = w.ops[n].to
      /\ \A n \in DOMAIN w.ops : v.ops[n].fate = "stored" <=> w.ops[n].fate = "stored" \/ n = k
  BY <1>1 DEF EntitiesSound, Taken, Alike
<1>4. \A e \in Entities : Range(held[e]) \subseteq DOMAIN w.ops
  BY <1>3 DEF Range
<1>5. Append(held[to], k) \in Seq(DOMAIN w.ops)
  BY <1>3
<1>6. /\ h \in [Entities -> Seq(DOMAIN v.ops)]
      /\ h[to] = Append(held[to], k)
      /\ \A e \in Entities \ {to} : h[e] = held[e]
  BY <1>2, <1>3, <1>5
<1>7. Range(h[to]) = Range(held[to]) \cup {k} /\ IsInjective(h[to])
  <2>1. held[to] \in Seq(DOMAIN w.ops) /\ k \notin Range(held[to]) /\ IsInjective(held[to])
    BY <1>3
  <2> QED BY <1>6, <2>1, AppendRange
<1>8. ASSUME NEW e \in Entities
      PROVE  /\ IsInjective(h[e])
             /\ h[e] # <<>> => e \in asleep
             /\ \A n \in DOMAIN v.ops :
                    n \in Range(h[e]) <=> v.ops[n].fate = "stored" /\ v.ops[n].to = e
             /\ \A n \in Range(h[e]) : v.ops[n].kind = "Tick"
  <2>1. CASE e = to
    BY <1>1, <1>3, <1>4, <1>7, <2>1 DEF EntitiesSound
  <2>2. CASE e # to
    <3>1. /\ IsInjective(held[e])
          /\ held[e] # <<>> => e \in asleep
          /\ \A n \in DOMAIN w.ops :
              n \in Range(held[e]) <=> w.ops[n].fate = "stored" /\ w.ops[n].to = e
          /\ \A n \in Range(held[e]) : w.ops[n].kind = "Tick"
      BY DEF EntitiesSound
    <3>2. h[e] = held[e] /\ Range(held[e]) \subseteq DOMAIN w.ops /\ k \notin Range(held[e])
      BY <1>3, <1>4, <1>6, <2>2
    <3> QED BY <1>1, <1>3, <2>2, <3>1, <3>2
  <2> QED BY <2>1, <2>2
<1>9. EntitiesSound(v, h, asleep)
  BY <1>6, <1>8 DEF EntitiesSound
<1> QED BY <1>1, <1>2, <1>9

-----------------------------------------------------------------------------
\* What is queued again.

\* Ticks that are queued again do not touch the order of the others.
LEMMA RequeuedQueue ==
    ASSUME NEW w, NEW v, NEW now, QueueSound(w), OrderSound(w, now),
           NEW s \in Seq(DOMAIN w.ops), IsInjective(s), Requeued(w, v, s),
           \A n \in Range(s) : w.ops[n].fate # "queued" /\ w.ops[n].kind = "Tick"
    PROVE  QueueSound(v) /\ OrderSound(v, now)
<1>1. /\ w.queue \subseteq Entries /\ w.sequence \in Nat /\ DOMAIN w.ops \subseteq Nat
      /\ \A y \in w.queue : /\ y.n \in DOMAIN w.ops /\ w.ops[y.n].fate = "queued"
                            /\ y.time_for_dispatch \in Nat /\ y.sequence \in 1 .. w.sequence
  BY DEF QueueSound, Queues, Entries, OrderSound
<1>2. /\ Len(s) \in Nat /\ DOMAIN s = 1 .. Len(s) /\ v.sequence = w.sequence + Len(s)
      /\ DOMAIN v.ops = DOMAIN w.ops /\ v \in Queues
      /\ \A n \in DOMAIN w.ops : v.ops[n].fate = IF n \in Range(s) THEN "queued" ELSE w.ops[n].fate
  BY DEF Requeued
<1>3. \A i \in DOMAIN s : /\ s[i] \in DOMAIN w.ops /\ s[i] \in Range(s)
                          /\ w.ops[s[i]].fate # "queued" /\ w.ops[s[i]].kind = "Tick"
  BY DEF Range
<1>4. \A y \in v.queue : \/ y \in w.queue
                         \/ \E i \in DOMAIN s : y = [n |-> s[i], time_for_dispatch |-> w.ops[s[i]].stamp,
                                                    sequence |-> w.sequence + i]
  BY DEF Requeued
<1>5. \A y \in v.queue : \/ y \in w.queue
                         \/ \E i \in DOMAIN s : /\ y.n = s[i] /\ y.sequence = w.sequence + i
                                                /\ y = [n |-> s[i], time_for_dispatch |-> w.ops[s[i]].stamp,
                                                        sequence |-> w.sequence + i]
  BY <1>4
<1>6. \A y \in v.queue : y.n \in DOMAIN v.ops /\ v.ops[y.n].fate = "queued"
  BY <1>1, <1>2, <1>3, <1>5
<1>7. ASSUME NEW x \in v.queue, NEW y \in v.queue, x.n = y.n PROVE x = y
  <2>1. CASE x \in w.queue /\ y \in w.queue
    BY <1>7, <2>1 DEF QueueSound
  <2>2. CASE x \in w.queue /\ y \notin w.queue
    BY <1>1, <1>3, <1>5, <1>7, <2>2
  <2>3. CASE x \notin w.queue /\ y \in w.queue
    BY <1>1, <1>3, <1>5, <1>7, <2>3
  <2>4. CASE x \notin w.queue /\ y \notin w.queue
    <3>1. PICK i \in DOMAIN s : x.n = s[i] /\ x = [n |-> s[i], time_for_dispatch |-> w.ops[s[i]].stamp,
                                                    sequence |-> w.sequence + i]
      BY <1>5, <2>4
    <3>2. PICK j \in DOMAIN s : y.n = s[j] /\ y = [n |-> s[j], time_for_dispatch |-> w.ops[s[j]].stamp,
                                                    sequence |-> w.sequence + j]
      BY <1>5, <2>4
    <3>3. i = j
      BY <1>7, <3>1, <3>2 DEF IsInjective
    <3> QED BY <3>1, <3>2, <3>3
  <2> QED BY <2>1, <2>2, <2>3, <2>4
<1>8. ASSUME NEW n \in DOMAIN v.ops, v.ops[n].fate = "queued" PROVE \E x \in v.queue : x.n = n
  <2>1. CASE n \in Range(s)
    <3>1. PICK i \in DOMAIN s : s[i] = n
      BY <2>1 DEF Range
    <3>2. PICK y : y = [n |-> s[i], time_for_dispatch |-> w.ops[s[i]].stamp,
                        sequence |-> w.sequence + i]
      OBVIOUS
    <3>3. y \in v.queue /\ y.n = n
      BY <3>1, <3>2 DEF Requeued
    <3> QED BY <3>3
  <2>2. CASE n \notin Range(s)
    BY <1>2, <1>8, <2>2 DEF QueueSound, Requeued
  <2> QED BY <2>1, <2>2
<1>9. QueueSound(v)
  BY <1>2, <1>6, <1>7, <1>8 DEF QueueSound
<1>10. \A n \in DOMAIN w.ops : InTurn(v, n) <=> InTurn(w, n)
  BY DEF Requeued, Alike, InTurn
<1>11. \A y \in v.queue : InTurn(v, y.n) => y \in w.queue /\ InTurn(w, y.n)
  BY <1>1, <1>3, <1>5, <1>10 DEF InTurn
<1>12. \A y \in v.queue : y.sequence \in 1 .. v.sequence
  BY <1>1, <1>2, <1>5
<1>13. \A n \in DOMAIN w.ops : InTurn(v, n) => InTurn(w, n) /\ v.ops[n].fate = w.ops[n].fate
  BY <1>2, <1>10 DEF InTurn
<1>14. \A m, n \in DOMAIN v.ops :
        m < n /\ InTurn(v, m) /\ InTurn(v, n) /\ v.ops[m].fate = "queued"
            => v.ops[n].fate = "queued"
  BY <1>2, <1>13 DEF OrderSound
<1> QED BY <1>9, <1>11, <1>12, <1>14 DEF OrderSound

\* All that the world held back, or an entity, is queued again; the others
\* keep what they hold back.
LEMMA RequeuedWorld ==
    ASSUME NEW w, NEW v, NEW held, NEW isSuspended, WorldSound(w, held, isSuspended),
           Requeued(w, v, held)
    PROVE  WorldSound(v, <<>>, FALSE)
<1>1. <<>> \in Seq(DOMAIN v.ops) /\ Range(<<>>) = {} /\ IsInjective(<<>>)
  BY DEF Range, IsInjective
<1> QED BY <1>1 DEF WorldSound, Requeued

LEMMA RequeuedOthers ==
    ASSUME NEW w, NEW v, NEW held, NEW isSuspended, WorldSound(w, held, isSuspended),
           NEW s, Requeued(w, v, s), \A n \in Range(s) : n \in DOMAIN w.ops /\ w.ops[n].fate = "stored"
    PROVE  WorldSound(v, held, isSuspended)
<1>1. Range(held) \subseteq DOMAIN w.ops
  BY DEF WorldSound, Range
<1> QED BY <1>1 DEF WorldSound, Requeued, Alike

LEMMA RequeuedEntities ==
    ASSUME NEW w, NEW v, NEW held, NEW asleep, EntitiesSound(w, held, asleep),
           NEW s, Requeued(w, v, s), \A n \in Range(s) : n \in DOMAIN w.ops /\ w.ops[n].fate = "suspended"
    PROVE  EntitiesSound(v, held, asleep)
<1>1. \A e \in Entities : Range(held[e]) \subseteq DOMAIN w.ops
  BY DEF EntitiesSound, Range
<1>2. /\ DOMAIN v.ops = DOMAIN w.ops
      /\ \A n \in DOMAIN w.ops :
            /\ v.ops[n].kind = w.ops[n].kind /\ v.ops[n].to = w.ops[n].to
            /\ v.ops[n].fate = "stored" <=> w.ops[n].fate = "stored"
  BY DEF Requeued, Alike
<1> QED BY <1>1, <1>2 DEF EntitiesSound

LEMMA RequeuedEntity ==
    ASSUME NEW w, NEW v, NEW held, NEW asleep, EntitiesSound(w, held, asleep),
           NEW e \in Entities, Requeued(w, v, held[e])
    PROVE  EntitiesSound(v, [held EXCEPT ![e] = <<>>], asleep \ {e})
<1>1. PICK h : h = [held EXCEPT ![e] = <<>>]
  OBVIOUS
<1>2. <<>> \in Seq(DOMAIN v.ops) /\ Range(<<>>) = {} /\ IsInjective(<<>>)
  BY DEF Range, IsInjective
<1>3. /\ held \in [Entities -> Seq(DOMAIN w.ops)] /\ DOMAIN v.ops = DOMAIN w.ops
      /\ \A d \in Entities : held[d] \in Seq(DOMAIN w.ops)
      /\ \A n \in DOMAIN w.ops : v.ops[n].kind = w.ops[n].kind /\ v.ops[n].to = w.ops[n].to
      /\ \A n \in DOMAIN w.ops :
            v.ops[n].fate = "stored" <=> w.ops[n].fate = "stored" /\ n \notin Range(held[e])
  BY DEF EntitiesSound, Requeued, Alike
<1>4. \A d \in Entities : Range(held[d]) \subseteq DOMAIN w.ops
  BY <1>3 DEF Range
<1>5. /\ h \in [Entities -> Seq(DOMAIN v.ops)] /\ h[e] = <<>>
      /\ \A d \in Entities \ {e} : h[d] = held[d]
  BY <1>1, <1>2, <1>3
<1>6. ASSUME NEW d \in Entities
      PROVE  /\ IsInjective(h[d])
             /\ h[d] # <<>> => d \in asleep \ {e}
             /\ \A n \in DOMAIN v.ops :
                    n \in Range(h[d]) <=> v.ops[n].fate = "stored" /\ v.ops[n].to = d
             /\ \A n \in Range(h[d]) : v.ops[n].kind = "Tick"
  <2>1. CASE d = e
    BY <1>2, <1>3, <1>5, <2>1 DEF EntitiesSound
  <2>2. CASE d # e
    <3>1. /\ IsInjective(held[d])
          /\ held[d] # <<>> => d \in asleep
          /\ \A n \in DOMAIN w.ops :
              n \in Range(held[d]) <=> w.ops[n].fate = "stored" /\ w.ops[n].to = d
          /\ \A n \in Range(held[d]) : w.ops[n].kind = "Tick"
          /\ \A n \in DOMAIN w.ops :
              n \in Range(held[e]) <=> w.ops[n].fate = "stored" /\ w.ops[n].to = e
      BY DEF EntitiesSound
    <3>2. h[d] = held[d] /\ Range(held[d]) \subseteq DOMAIN w.ops
      BY <1>4, <1>5, <2>2
    <3> QED BY <1>3, <2>2, <3>1, <3>2
  <2> QED BY <2>1, <2>2
<1> QED BY <1>1, <1>5, <1>6 DEF EntitiesSound

-----------------------------------------------------------------------------
\* What a step leaves behind.

LEMMA BecomeIs ==
    ASSUME NEW w \in Queues, Become(w)
    PROVE  Queue' = w
<1>1. w = [queue |-> w.queue, sequence |-> w.sequence, ops |-> w.ops]
  BY DEF Queues
<1> QED BY <1>1 DEF Become, Queue

LEMMA SendSends ==
    ASSUME time \in Nat, entities \in SUBSET Entities, NEW w \in Queues, Send(w)
    PROVE  /\ Sent(w, Queue', time)
           /\ \E kind \in Kinds, from \in Entities, to \in Entities :
                Added(w, Queue', kind, from, to, NotSet)
<1>1. PICK kind \in Kinds, from \in entities \cap Senders, to \in Entities, timing \in Timings :
        Become(Message(w, kind, from, to, timing, NotSet))
  BY DEF Send
<1>2. from \in Entities /\ timing \in Times
  BY WorldRouterAssumption DEF Times
<1>3. PICK v : v = Message(w, kind, from, to, timing, NotSet)
  OBVIOUS
<1>4. Sent(w, v, time) /\ Added(w, v, kind, from, to, NotSet)
  BY <1>2, <1>3, MessageSends
<1>5. v \in Queues /\ Become(v)
  BY <1>1, <1>3, <1>4 DEF Sent
<1> QED BY <1>2, <1>4, <1>5, BecomeIs

LEMMA SentSound ==
    ASSUME NEW w, NEW v, NEW now \in Nat, NEW held, NEW isSuspended, NEW stored, NEW asleep,
           Sound(w, now, held, isSuspended, stored, asleep), Sent(w, v, now)
    PROVE  Sound(v, now, held, isSuspended, stored, asleep)
<1>1. QueueSound(v) /\ OrderSound(v, now)
  BY SentQueue DEF Sound
<1>2. WorldSound(v, held, isSuspended) /\ EntitiesSound(v, stored, asleep)
  BY SentHeld DEF Sound
<1> QED BY <1>1, <1>2 DEF Sound

\* The results of a handler keep them.
LEMMA ResultSound ==
    ASSUME time \in Nat, entities \in SUBSET Entities,
           NEW w, NEW held, NEW isSuspended, NEW stored, NEW asleep,
           Sound(w, time, held, isSuspended, stored, asleep), SendResult(w)
    PROVE  Sound(Queue', time, held, isSuspended, stored, asleep)
<1>1. w \in Queues
  BY DEF Sound, QueueSound
<1>2. CASE Become(w)
  BY <1>1, <1>2, BecomeIs
<1>3. CASE Send(w)
  <2>1. PICK v : v = Queue'
    OBVIOUS
  <2>2. Sent(w, v, time)
    BY <1>1, <1>3, <2>1, SendSends
  <2>3. Sound(v, time, held, isSuspended, stored, asleep)
    BY <2>2, SentSound
  <2> QED BY <2>1, <2>3
<1> QED BY <1>2, <1>3 DEF SendResult

\* RouterInv of the next state, from its parts.
LEMMA RouterInvNext ==
    ASSUME time' \in 0 .. MaxTime, loop' \in {"messages", "first", "more"},
           entities' \in SUBSET Entities, m_isSuspended' \in BOOLEAN,
           suspended' \in SUBSET Others,
           Sound(Queue', time', m_suspendedQueue', m_isSuspended', m_suspendedOps', suspended')
    PROVE  RouterInv'
BY DEF RouterInv

-----------------------------------------------------------------------------
\* One round of processUntil.

LEMMA ProcessingFacts ==
    ASSUME RouterInv, NEW x, Processing(x)
    PROVE  /\ time \in Nat /\ Queue \in Queues /\ Queue.ops = ops
           /\ x \in Queue.queue /\ \A y \in Queue.queue : Before(x, y)
           /\ x.n \in DOMAIN ops /\ ops[x.n].fate = "queued" /\ ops[x.n] \in Operations
           /\ ops[x.n].to \in Entities
           /\ loop' = "more"
<1>1. /\ time \in Nat /\ Queue \in Queues /\ Queue.ops = ops /\ Queue.queue = m_operationQueue
      /\ \A y \in Queue.queue : y.n \in DOMAIN Queue.ops /\ Queue.ops[y.n].fate = "queued"
  BY WorldRouterAssumption DEF RouterInv, Sound, QueueSound, Queue
<1>2. /\ x \in Queue.queue /\ \A y \in Queue.queue : Before(x, y)
      /\ loop' = "more"
  BY <1>1 DEF Processing, Due
<1>3. ops \in Seq(Operations) /\ x.n \in DOMAIN ops
  BY <1>1, <1>2 DEF Queues
<1>4. ops[x.n] \in Operations
  BY <1>3
<1>5. ops[x.n].to \in Entities
  BY <1>4 DEF Operations
<1> QED BY <1>1, <1>2, <1>3, <1>4, <1>5

\* An operation is dispatched and not held back.
LEMMA DispatchedSound ==
    ASSUME RouterInv, NEW x, Processing(x), NEW fate \in {"delivered", "ignored", "unseen"}
    PROVE  /\ Sound(Popped(x, fate), time, m_suspendedQueue, m_isSuspended, m_suspendedOps, suspended)
           /\ Sound(Delivered(x, fate), time, m_suspendedQueue, m_isSuspended, m_suspendedOps,
                    suspended)
<1>1. fate \in Fates \ {"queued", "suspended", "stored"}
  BY DEF Fates
<1>2. PICK q : q = Queue
  OBVIOUS
<1>3. /\ q \in Queues /\ x \in q.queue /\ \A y \in q.queue : Before(x, y)
      /\ x.n \in DOMAIN ops /\ x.n \in DOMAIN q.ops /\ q.ops[x.n].fate = "queued"
      /\ Sound(q, time, m_suspendedQueue, m_isSuspended, m_suspendedOps, suspended)
      /\ time \in Nat
  BY <1>2, ProcessingFacts DEF RouterInv
<1>4. ASSUME NEW v \in Queues, Taken(q, v, x, fate)
      PROVE  Sound(v, time, m_suspendedQueue, m_isSuspended, m_suspendedOps, suspended)
  <2>1. QueueSound(v) /\ OrderSound(v, time)
    BY <1>1, <1>3, <1>4, TakenQueue DEF Sound
  <2>2. WorldSound(v, m_suspendedQueue, m_isSuspended)
    BY <1>1, <1>3, <1>4, TakenWorld DEF Sound
  <2>3. EntitiesSound(v, m_suspendedOps, suspended)
    BY <1>1, <1>3, <1>4, TakenEntities DEF Sound
  <2> QED BY <2>1, <2>2, <2>3 DEF Sound
<1>5. /\ Popped(x, fate) \in Queues /\ Taken(q, Popped(x, fate), x, fate)
      /\ Delivered(x, fate) \in Queues /\ Taken(q, Delivered(x, fate), x, fate)
  BY <1>1, <1>2, <1>3, PoppedFacts
<1> QED BY <1>4, <1>5

\* operation() for a receiver that is gone.
LEMMA GoneStep ==
    ASSUME RouterInv, NEW x, IgnoreOwn(x) \/ AnswerUnseen(x)
    PROVE  RouterInv'
<1>1. /\ Processing(x)
      /\ UNCHANGED <<time, entities, m_isSuspended, m_suspendedQueue, suspended, m_suspendedOps>>
      /\ \/ Become(Popped(x, "ignored"))
         \/ /\ ops[x.n].from \in entities
            /\ Become(Unseen(Popped(x, "unseen"), x.n))
  BY DEF IgnoreOwn, AnswerUnseen
<1>2. /\ time \in Nat /\ loop' = "more" /\ x.n \in DOMAIN ops /\ ops \in Seq(Operations)
  BY <1>1, ProcessingFacts DEF Queues
<1>3. Sound(Queue', time, m_suspendedQueue, m_isSuspended, m_suspendedOps, suspended)
  <2>1. CASE Become(Popped(x, "ignored"))
    <3>1. PICK v : v = Popped(x, "ignored")
      OBVIOUS
    <3>2. Sound(v, time, m_suspendedQueue, m_isSuspended, m_suspendedOps, suspended)
      BY <1>1, <3>1, DispatchedSound
    <3>3. v \in Queues /\ Become(v)
      BY <2>1, <3>1, <3>2 DEF Sound, QueueSound
    <3>4. Queue' = v
      BY <3>3, BecomeIs
    <3> QED BY <3>2, <3>4
  <2>2. CASE ops[x.n].from \in entities /\ Become(Unseen(Popped(x, "unseen"), x.n))
    <3>1. PICK v, u, from, n : /\ v = Popped(x, "unseen") /\ u = Unseen(v, x.n)
                               /\ from = ops[x.n].from /\ n = x.n
      OBVIOUS
    <3>2. Sound(v, time, m_suspendedQueue, m_isSuspended, m_suspendedOps, suspended)
      BY <1>1, <3>1, DispatchedSound
    <3>3. v \in Queues
      BY <3>2 DEF Sound, QueueSound
    <3>4. from \in Entities /\ n \in Nat \cup {NotSet} /\ Now \in Times
      BY <1>2, <2>2, <3>1 DEF RouterInv, Now, Times
    <3>5. u = Message(v, "Unseen", from, from, Now, n)
      BY <3>1 DEF Unseen
    <3>6. Sent(v, u, time)
      BY <1>2, <3>3, <3>4, <3>5, MessageSends
    <3>7. u \in Queues /\ Become(u)
      BY <2>2, <3>1, <3>6 DEF Sent
    <3>8. Queue' = u
      BY <3>7, BecomeIs
    <3>9. Sound(u, time, m_suspendedQueue, m_isSuspended, m_suspendedOps, suspended)
      BY <1>2, <3>2, <3>6, SentSound
    <3> QED BY <3>8, <3>9
  <2> QED BY <1>1, <2>1, <2>2
<1> QED BY <1>1, <1>2, <1>3, RouterInvNext DEF RouterInv

\* deliverTo in a suspended world.
LEMMA HoldBackStep ==
    ASSUME RouterInv, NEW x, HoldBack(x)
    PROVE  RouterInv'
<1>1. /\ Processing(x) /\ m_isSuspended /\ ops[x.n].kind = "Tick"
      /\ m_suspendedQueue' = Append(m_suspendedQueue, x.n)
      /\ Become(Popped(x, "suspended"))
      /\ UNCHANGED <<time, entities, m_isSuspended, suspended, m_suspendedOps>>
  BY DEF HoldBack, HeldBack
<1>2. PICK q, v : q = Queue /\ v = Popped(x, "suspended")
  OBVIOUS
<1>3. /\ q \in Queues /\ x \in q.queue /\ \A y \in q.queue : Before(x, y)
      /\ q.ops = ops /\ x.n \in DOMAIN ops /\ x.n \in DOMAIN q.ops /\ q.ops[x.n].fate = "queued"
      /\ Sound(q, time, m_suspendedQueue, m_isSuspended, m_suspendedOps, suspended)
      /\ time \in Nat /\ loop' = "more"
  BY <1>1, <1>2, ProcessingFacts DEF RouterInv
<1>4. "suspended" \in Fates \ {"queued", "stored"}
  BY DEF Fates
<1>5. v \in Queues /\ Taken(q, v, x, "suspended")
  BY <1>2, <1>3, <1>4, PoppedFacts
<1>6. Queue' = v
  BY <1>1, <1>2, <1>5, BecomeIs
<1>7. QueueSound(v) /\ OrderSound(v, time)
  BY <1>3, <1>4, <1>5, TakenQueue DEF Sound
<1>8. WorldSound(v, Append(m_suspendedQueue, x.n), m_isSuspended)
  BY <1>1, <1>3, <1>5, HeldByWorld DEF Sound
<1>9. EntitiesSound(v, m_suspendedOps, suspended)
  BY <1>3, <1>4, <1>5, TakenEntities DEF Sound
<1>10. Sound(Queue', time', m_suspendedQueue', m_isSuspended', m_suspendedOps', suspended')
  BY <1>1, <1>6, <1>7, <1>8, <1>9 DEF Sound
<1> QED BY <1>1, <1>3, <1>10, RouterInvNext DEF RouterInv

\* SuspendedProperty::operation.
LEMMA StoreStep ==
    ASSUME RouterInv, NEW x, DeliverToSuspended(x)
    PROVE  RouterInv'
<1>1. PICK q, v, to : q = Queue /\ v = Delivered(x, "stored") /\ to = ops[x.n].to
  OBVIOUS
<1>2. /\ Processing(x) /\ to \in suspended /\ ops[x.n].kind = "Tick"
      /\ m_suspendedOps' = [m_suspendedOps EXCEPT ![to] = Append(@, x.n)]
      /\ SendResult(v)
      /\ UNCHANGED <<time, entities, m_isSuspended, m_suspendedQueue, suspended>>
  BY <1>1 DEF DeliverToSuspended, Delivers
<1>3. /\ q \in Queues /\ x \in q.queue /\ \A y \in q.queue : Before(x, y)
      /\ q.ops = ops /\ x.n \in DOMAIN ops /\ x.n \in DOMAIN q.ops /\ q.ops[x.n].fate = "queued"
      /\ q.ops[x.n].to = to /\ to \in Entities
      /\ Sound(q, time, m_suspendedQueue, m_isSuspended, m_suspendedOps, suspended)
      /\ time \in Nat /\ loop' = "more"
  BY <1>1, <1>2, ProcessingFacts DEF RouterInv
<1>4. "stored" \in Fates \ {"queued", "suspended"}
  BY DEF Fates
<1>5. v \in Queues /\ Taken(q, v, x, "stored")
  BY <1>1, <1>3, <1>4, PoppedFacts
<1>6. QueueSound(v) /\ OrderSound(v, time)
  BY <1>3, <1>4, <1>5, TakenQueue DEF Sound
<1>7. WorldSound(v, m_suspendedQueue, m_isSuspended)
  BY <1>3, <1>4, <1>5, TakenWorld DEF Sound
<1>8. EntitiesSound(v, [m_suspendedOps EXCEPT ![to] = Append(@, x.n)], suspended)
  BY <1>2, <1>3, <1>5, HeldByEntity DEF Sound
<1>9. Sound(v, time, m_suspendedQueue, m_isSuspended, m_suspendedOps', suspended)
  BY <1>2, <1>6, <1>7, <1>8 DEF Sound
<1>10. PICK stored : stored = m_suspendedOps'
  OBVIOUS
<1>11. Sound(Queue', time, m_suspendedQueue, m_isSuspended, stored, suspended)
  BY <1>2, <1>3, <1>9, <1>10, ResultSound DEF RouterInv
<1> QED BY <1>2, <1>3, <1>10, <1>11, RouterInvNext DEF RouterInv

\* Operations that are delivered and change no more than what exists and
\* what is suspended.
LEMMA DeliverStep ==
    ASSUME RouterInv, NEW x, DeliverOther(x) \/ DeliverDelete(x) \/ DeliverSuspend(x)
    PROVE  RouterInv'
<1>1. PICK v : v = Delivered(x, "delivered")
  OBVIOUS
<1>2. /\ Processing(x) /\ SendResult(v)
      /\ UNCHANGED <<time, m_suspendedQueue, m_suspendedOps>>
      /\ entities' \subseteq entities
      /\ \/ m_isSuspended' = m_isSuspended
         \/ m_isSuspended' = (m_isSuspended \/ ops[x.n].to = Root)
      /\ \/ suspended' = suspended
         \/ suspended' = suspended \cup ({ops[x.n].to} \ {Root})
  BY <1>1 DEF DeliverOther, DeliverDelete, DeliverSuspend, Delivers
<1>3. time \in Nat /\ loop' = "more" /\ ops[x.n].to \in Entities
  BY <1>2, ProcessingFacts
<1>4. Sound(v, time, m_suspendedQueue, m_isSuspended, m_suspendedOps, suspended)
  BY <1>1, <1>2, DispatchedSound
<1>5. /\ m_isSuspended' \in BOOLEAN /\ (m_isSuspended => m_isSuspended')
      /\ suspended' \in SUBSET Others /\ suspended \subseteq suspended'
  <2>1. m_isSuspended' \in BOOLEAN /\ (m_isSuspended => m_isSuspended')
    <3>1. m_isSuspended \in BOOLEAN
      BY DEF RouterInv
    <3>2. CASE m_isSuspended' = m_isSuspended
      BY <3>1, <3>2, Zenon
    <3>3. CASE m_isSuspended' = (m_isSuspended \/ ops[x.n].to = Root)
      BY <3>1, <3>3, Zenon
    <3> QED BY <1>2, <3>2, <3>3
  <2>2. suspended' \in SUBSET Others /\ suspended \subseteq suspended'
    BY <1>2, <1>3 DEF RouterInv, Entities
  <2> QED BY <2>1, <2>2
<1>6. PICK isSuspended, asleep : isSuspended = m_isSuspended' /\ asleep = suspended'
  OBVIOUS
<1>7. WorldSound(v, m_suspendedQueue, isSuspended)
  BY <1>4, <1>5, <1>6 DEF WorldSound, Sound
<1>8. EntitiesSound(v, m_suspendedOps, asleep)
  BY <1>4, <1>5, <1>6 DEF EntitiesSound, Sound
<1>9. Sound(v, time, m_suspendedQueue, isSuspended, m_suspendedOps, asleep)
  BY <1>4, <1>7, <1>8 DEF Sound
<1>10. Sound(Queue', time, m_suspendedQueue, isSuspended, m_suspendedOps, asleep)
  BY <1>2, <1>3, <1>9, ResultSound DEF RouterInv
<1>11. time' \in 0 .. MaxTime /\ entities' \in SUBSET Entities
  BY <1>2 DEF RouterInv
<1> QED BY <1>2, <1>3, <1>5, <1>6, <1>10, <1>11, RouterInvNext

\* resumeWorld and SuspendedProperty::apply.
LEMMA ResumeStep ==
    ASSUME RouterInv, NEW x, DeliverResume(x)
    PROVE  RouterInv'
<1>1. PICK w, v, to, s : /\ w = Delivered(x, "delivered") /\ to = ops[x.n].to
                         /\ s = Resumed(to) /\ v = Requeue(w, s)
  OBVIOUS
<1>2. /\ Processing(x) /\ SendResult(v)
      /\ UNCHANGED <<time, entities>>
      /\ m_isSuspended' = (m_isSuspended /\ to # Root)
      /\ suspended' = suspended \ {to}
      /\ m_suspendedQueue' = IF to = Root /\ m_isSuspended THEN <<>> ELSE m_suspendedQueue
      /\ m_suspendedOps' = [m_suspendedOps EXCEPT ![to] = <<>>]
  BY <1>1 DEF DeliverResume, Delivers
<1>3. time \in Nat /\ loop' = "more" /\ to \in Entities
  BY <1>1, <1>2, ProcessingFacts
<1>4. Sound(w, time, m_suspendedQueue, m_isSuspended, m_suspendedOps, suspended)
  BY <1>1, <1>2, DispatchedSound
<1>5. /\ w \in Queues /\ QueueSound(w) /\ OrderSound(w, time)
      /\ WorldSound(w, m_suspendedQueue, m_isSuspended)
      /\ EntitiesSound(w, m_suspendedOps, suspended)
  BY <1>4 DEF Sound, QueueSound
<1>6. /\ m_isSuspended \in BOOLEAN /\ suspended \in SUBSET Others /\ Root \notin suspended
      /\ Root \in Entities
  BY WorldRouterAssumption DEF RouterInv, Entities
<1>7. m_suspendedOps \in [Entities -> Seq(DOMAIN w.ops)] /\ m_suspendedOps[Root] = <<>>
  BY <1>5, <1>6 DEF EntitiesSound
<1>8. PICK held, isSuspended, stored, asleep :
        /\ held = m_suspendedQueue' /\ isSuspended = m_isSuspended'
        /\ stored = m_suspendedOps' /\ asleep = suspended'
  OBVIOUS
<1>9. Sound(v, time, held, isSuspended, stored, asleep)
  <2>1. CASE to = Root /\ m_isSuspended
    <3>1. /\ s = m_suspendedQueue /\ held = <<>> /\ isSuspended = FALSE
          /\ stored = m_suspendedOps /\ asleep = suspended
      BY <1>1, <1>2, <1>6, <1>7, <1>8, <2>1 DEF Resumed
    <3>2. /\ s \in Seq(DOMAIN w.ops) /\ IsInjective(s)
          /\ \A n \in DOMAIN w.ops : w.ops[n].fate = "suspended" <=> n \in Range(s)
          /\ \A n \in Range(s) : w.ops[n].kind = "Tick"
      BY <1>5, <3>1 DEF WorldSound
    <3>3. Range(s) \subseteq DOMAIN w.ops
      BY <3>2 DEF Range
    <3>4. Requeued(w, v, s)
      BY <1>1, <1>5, <3>2, RequeuesAll
    <3>5. QueueSound(v) /\ OrderSound(v, time)
      <4>1. \A n \in Range(s) : w.ops[n].fate # "queued" /\ w.ops[n].kind = "Tick"
        BY <3>2, <3>3
      <4> QED BY <1>5, <3>2, <3>4, <4>1, RequeuedQueue
    <3>6. WorldSound(v, <<>>, FALSE)
      BY <1>5, <3>1, <3>4, RequeuedWorld
    <3>7. EntitiesSound(v, m_suspendedOps, suspended)
      <4>1. \A n \in Range(s) : n \in DOMAIN w.ops /\ w.ops[n].fate = "suspended"
        BY <3>2, <3>3
      <4> QED BY <1>5, <3>4, <4>1, RequeuedEntities
    <3> QED BY <3>1, <3>5, <3>6, <3>7 DEF Sound
  <2>2. CASE to = Root /\ ~m_isSuspended
    <3>1. /\ s = <<>> /\ held = m_suspendedQueue /\ isSuspended = m_isSuspended
          /\ stored = m_suspendedOps /\ asleep = suspended
      BY <1>1, <1>2, <1>6, <1>7, <1>8, <2>2 DEF Resumed
    <3>2. s \in Seq(DOMAIN w.ops) /\ Range(s) = {} /\ IsInjective(s)
      BY <3>1 DEF Range, IsInjective
    <3>3. Requeued(w, v, s)
      BY <1>1, <1>5, <3>2, RequeuesAll
    <3>4. QueueSound(v) /\ OrderSound(v, time)
      <4>1. \A n \in Range(s) : w.ops[n].fate # "queued" /\ w.ops[n].kind = "Tick"
        BY <3>2
      <4> QED BY <1>5, <3>2, <3>3, <4>1, RequeuedQueue
    <3>5. WorldSound(v, m_suspendedQueue, m_isSuspended)
      <4>1. \A n \in Range(s) : n \in DOMAIN w.ops /\ w.ops[n].fate = "stored"
        BY <3>2
      <4> QED BY <1>5, <3>3, <4>1, RequeuedOthers
    <3>6. EntitiesSound(v, m_suspendedOps, suspended)
      <4>1. \A n \in Range(s) : n \in DOMAIN w.ops /\ w.ops[n].fate = "suspended"
        BY <3>2
      <4> QED BY <1>5, <3>3, <4>1, RequeuedEntities
    <3> QED BY <3>1, <3>4, <3>5, <3>6 DEF Sound
  <2>3. CASE to # Root
    <3>1. /\ s = m_suspendedOps[to] /\ held = m_suspendedQueue /\ isSuspended = m_isSuspended
          /\ stored = [m_suspendedOps EXCEPT ![to] = <<>>] /\ asleep = suspended \ {to}
      BY <1>1, <1>2, <1>6, <1>8, <2>3 DEF Resumed
    <3>2. /\ s \in Seq(DOMAIN w.ops) /\ IsInjective(s)
          /\ \A n \in DOMAIN w.ops : n \in Range(s) => w.ops[n].fate = "stored"
          /\ \A n \in Range(s) : w.ops[n].kind = "Tick"
      BY <1>3, <1>5, <3>1 DEF EntitiesSound
    <3>3. Range(s) \subseteq DOMAIN w.ops
      BY <3>2 DEF Range
    <3>4. Requeued(w, v, s)
      BY <1>1, <1>5, <3>2, RequeuesAll
    <3>5. QueueSound(v) /\ OrderSound(v, time)
      <4>1. \A n \in Range(s) : w.ops[n].fate # "queued" /\ w.ops[n].kind = "Tick"
        BY <3>2, <3>3
      <4> QED BY <1>5, <3>2, <3>4, <4>1, RequeuedQueue
    <3>6. WorldSound(v, m_suspendedQueue, m_isSuspended)
      <4>1. \A n \in Range(s) : n \in DOMAIN w.ops /\ w.ops[n].fate = "stored"
        BY <3>2, <3>3
      <4> QED BY <1>5, <3>4, <4>1, RequeuedOthers
    <3>7. EntitiesSound(v, [m_suspendedOps EXCEPT ![to] = <<>>], suspended \ {to})
      BY <1>3, <1>5, <3>1, <3>4, RequeuedEntity
    <3> QED BY <3>1, <3>5, <3>6, <3>7 DEF Sound
  <2> QED BY <2>1, <2>2, <2>3
<1>10. Sound(Queue', time, held, isSuspended, stored, asleep)
  BY <1>2, <1>3, <1>9, ResultSound DEF RouterInv
<1>11. /\ time' \in 0 .. MaxTime /\ entities' \in SUBSET Entities
       /\ m_isSuspended' \in BOOLEAN /\ suspended' \in SUBSET Others
  BY <1>2, <1>6 DEF RouterInv
<1> QED BY <1>2, <1>3, <1>8, <1>10, <1>11, RouterInvNext

-----------------------------------------------------------------------------
\* The main loop.

LEMMA RouterInit == ASSUME Init PROVE RouterInv
<1>1. PICK w, f : w = Queue /\ f = m_suspendedOps
  OBVIOUS
<1>2. w = [queue |-> {}, sequence |-> 0, ops |-> <<>>] /\ f = [e \in Entities |-> <<>>]
  BY <1>1 DEF Init, Queue
<1>3. /\ w \in Queues /\ w.queue = {} /\ DOMAIN w.ops = {} /\ w.ops = <<>>
  BY <1>2 DEF Queues
<1>4. <<>> \in Seq(DOMAIN w.ops) /\ IsInjective(<<>>) /\ Range(<<>>) = {}
  BY DEF IsInjective, Range
<1>5. QueueSound(w) /\ OrderSound(w, 0)
  BY <1>3 DEF QueueSound, OrderSound
<1>6. WorldSound(w, <<>>, FALSE)
  BY <1>3, <1>4 DEF WorldSound
<1>7. f \in [Entities -> Seq(DOMAIN w.ops)] /\ \A e \in Entities : f[e] = <<>>
  BY <1>2, <1>4
<1>8. EntitiesSound(w, f, {})
  BY <1>3, <1>4, <1>7 DEF EntitiesSound
<1>9. Sound(Queue, time, m_suspendedQueue, m_isSuspended, m_suspendedOps, suspended)
  BY <1>1, <1>5, <1>6, <1>8 DEF Init, Sound
<1>10. /\ time \in 0 .. MaxTime /\ loop \in {"messages", "first", "more"}
       /\ entities \in SUBSET Entities /\ suspended \in SUBSET Others
  BY WorldRouterAssumption DEF Init
<1>11. m_isSuspended \in BOOLEAN
  BY DEF Init
<1> QED BY <1>9, <1>10, <1>11 DEF RouterInv

LEMMA RouterStep == ASSUME RouterInv, [Next]_vars PROVE RouterInv'
<1>1. PICK q : /\ q = Queue
               /\ Sound(q, time, m_suspendedQueue, m_isSuspended, m_suspendedOps, suspended)
  BY DEF RouterInv
<1>2. time \in Nat /\ MaxTime \in Nat
  BY WorldRouterAssumption DEF RouterInv
<1>3. CASE UNCHANGED vars \/ StartProcessing
  <2>1. Queue' = q
    BY <1>1, <1>3 DEF vars, StartProcessing, Queue
  <2> QED BY <1>1, <1>3, <2>1, RouterInvNext DEF vars, StartProcessing, RouterInv
<1>4. CASE DispatchOperations
  <2>1. /\ Send(q)
        /\ UNCHANGED <<time, loop, entities, m_isSuspended, m_suspendedQueue, suspended,
                       m_suspendedOps>>
    BY <1>1, <1>4 DEF DispatchOperations
  <2>2. Sound(Queue', time, m_suspendedQueue, m_isSuspended, m_suspendedOps, suspended)
    BY <1>1, <1>2, <2>1, ResultSound DEF RouterInv, SendResult
  <2> QED BY <2>1, <2>2, RouterInvNext DEF RouterInv
<1>5. CASE EndProcessing
  <2>1. /\ Queue' = q /\ loop' = "messages" /\ time' \in 0 .. MaxTime /\ time <= time'
        /\ UNCHANGED <<entities, m_isSuspended, m_suspendedQueue, suspended, m_suspendedOps>>
    BY <1>1, <1>2, <1>5 DEF EndProcessing, Queue, RouterInv
  <2>2. PICK now \in Nat : now = time' /\ time <= now
    BY <2>1
  <2>3. \A x \in q.queue : x.time_for_dispatch \in Nat
    BY <1>1 DEF Sound, QueueSound, Queues, Entries
  <2>4. OrderSound(q, now)
    BY <1>1, <1>2, <2>2, <2>3 DEF OrderSound, Sound
  <2>5. Sound(q, now, m_suspendedQueue, m_isSuspended, m_suspendedOps, suspended)
    BY <1>1, <2>4 DEF Sound
  <2> QED BY <2>1, <2>2, <2>5, RouterInvNext DEF RouterInv
<1>6. CASE ProcessOp
  <2>1. PICK x : \/ IgnoreOwn(x) \/ AnswerUnseen(x)
                 \/ HoldBack(x)
                 \/ DeliverToSuspended(x)
                 \/ DeliverOther(x) \/ DeliverDelete(x) \/ DeliverSuspend(x)
                 \/ DeliverResume(x)
    BY <1>6 DEF ProcessOp
  <2> QED BY <2>1, GoneStep, HoldBackStep, StoreStep, DeliverStep, ResumeStep
<1> QED BY <1>3, <1>4, <1>5, <1>6 DEF Next, LoopStep

\* RouterInv is an invariant.
LEMMA RouterInvariant == Spec => []RouterInv
<1>1. Init => RouterInv
  BY RouterInit
<1>2. RouterInv /\ [Next]_vars => RouterInv'
  BY RouterStep
<1> QED BY <1>1, <1>2, PTL DEF Spec

(***************************************************************************)
(* The types of the variables, whatever is sent, held back and resumed.    *)
(***************************************************************************)
THEOREM RouterTypes == Spec => []TypeOK
<1>1. RouterInv => TypeOK
  <2> SUFFICES ASSUME RouterInv PROVE TypeOK
    OBVIOUS
  <2>1. PICK q : q = Queue
    OBVIOUS
  <2>2. q.queue = m_operationQueue /\ q.sequence = m_sequence /\ q.ops = ops
    BY <2>1 DEF Queue
  <2>3. /\ q \in Queues
        /\ \A x \in q.queue : x.n \in DOMAIN q.ops /\ x.sequence \in 1 .. q.sequence
        /\ m_suspendedQueue \in Seq(DOMAIN q.ops)
        /\ m_suspendedOps \in [Entities -> Seq(DOMAIN q.ops)]
    BY <2>1 DEF RouterInv, Sound, QueueSound, OrderSound, WorldSound, EntitiesSound
  <2>4. /\ q.sequence \in Nat /\ q.ops \in Seq(Operations)
        /\ \A x \in q.queue : x.time_for_dispatch \in Nat
    BY <2>3 DEF Queues, Entries
  <2> QED BY <2>2, <2>3, <2>4 DEF RouterInv, TypeOK
<1> QED BY <1>1, RouterInvariant, PTL

\* A number that is in a list without repetitions is in it once.
LEMMA InjectiveOnce ==
    ASSUME NEW s, IsInjective(s), NEW n \in Range(s)
    PROVE  OnceIn(n, s)
<1>1. PICK i \in DOMAIN s : s[i] = n
  BY DEF Range
<1> QED BY <1>1 DEF OnceIn, IsInjective

(***************************************************************************)
(* No operation is lost or doubled, for any number of entities, operations *)
(* and suspensions: resumeWorld and SuspendedProperty::apply put back what *)
(* deliverTo and SuspendedProperty::operation took.                        *)
(***************************************************************************)
THEOREM NothingIsLost == Spec => []NoOpLost
<1>1. RouterInv => NoOpLost
  <2> SUFFICES ASSUME RouterInv, NEW n \in DOMAIN ops
               PROVE  /\ (Fate(n) = "queued") = (\E x \in m_operationQueue : x.n = n)
                      /\ \A x, y \in m_operationQueue : (x.n = n /\ y.n = n) => x = y
                      /\ (Fate(n) = "suspended") = (n \in Range(m_suspendedQueue))
                      /\ Fate(n) = "suspended" => m_isSuspended /\ OnceIn(n, m_suspendedQueue)
                      /\ Fate(n) = "stored" => /\ ops[n].to \in suspended
                                               /\ OnceIn(n, m_suspendedOps[ops[n].to])
    BY DEF NoOpLost
  <2>1. PICK q : q = Queue
    OBVIOUS
  <2>2. /\ q.queue = m_operationQueue /\ q.ops = ops /\ Fate(n) = q.ops[n].fate
        /\ n \in DOMAIN q.ops
    BY <2>1 DEF Queue, Fate
  <2>3. QueueSound(q) /\ WorldSound(q, m_suspendedQueue, m_isSuspended)
        /\ EntitiesSound(q, m_suspendedOps, suspended)
    BY <2>1 DEF RouterInv, Sound
  <2>4. (Fate(n) = "queued") <=> (\E x \in m_operationQueue : x.n = n)
    BY <2>2, <2>3 DEF QueueSound
  <2>5. \A x, y \in m_operationQueue : (x.n = n /\ y.n = n) => x = y
    BY <2>2, <2>3 DEF QueueSound
  <2>6. (Fate(n) = "suspended") <=> (n \in Range(m_suspendedQueue))
    BY <2>2, <2>3 DEF WorldSound
  <2>7. ASSUME Fate(n) = "suspended" PROVE m_isSuspended /\ OnceIn(n, m_suspendedQueue)
    <3>1. n \in Range(m_suspendedQueue) /\ IsInjective(m_suspendedQueue)
      BY <2>3, <2>6, <2>7 DEF WorldSound
    <3>2. m_suspendedQueue # <<>>
      BY <3>1 DEF Range
    <3> QED BY <2>3, <3>1, <3>2, InjectiveOnce DEF WorldSound
  <2>8. ASSUME Fate(n) = "stored"
        PROVE  ops[n].to \in suspended /\ OnceIn(n, m_suspendedOps[ops[n].to])
    <3>1. PICK to : to = ops[n].to
      OBVIOUS
    <3>2. q.ops \in Seq(Operations)
      BY <2>3 DEF QueueSound, Queues
    <3>3. to \in Entities
      <4>1. q.ops[n] \in Operations
        BY <2>2, <3>2
      <4> QED BY <2>2, <3>1, <4>1 DEF Operations
    <3>4. n \in Range(m_suspendedOps[to]) /\ IsInjective(m_suspendedOps[to])
      BY <2>2, <2>3, <2>8, <3>1, <3>3 DEF EntitiesSound
    <3>5. m_suspendedOps[to] # <<>>
      BY <3>4 DEF Range
    <3>6. to \in suspended
      BY <2>3, <3>3, <3>5 DEF EntitiesSound
    <3>7. OnceIn(n, m_suspendedOps[to])
      BY <3>4, InjectiveOnce
    <3> QED BY <3>1, <3>6, <3>7
  <2>9. (Fate(n) = "queued") = (\E x \in m_operationQueue : x.n = n)
    BY <2>4
  <2>10. (Fate(n) = "suspended") = (n \in Range(m_suspendedQueue))
    BY <2>6
  <2> QED BY <2>5, <2>7, <2>8, <2>9, <2>10
<1> QED BY <1>1, RouterInvariant, PTL

(***************************************************************************)
(* What is sent to be handled at once is handled in the order in which it  *)
(* was sent, for any number of senders and rounds of the main loop.        *)
(***************************************************************************)
THEOREM HandledInOrder == Spec => []PromptInOrder
<1>1. RouterInv => PromptInOrder
  <2> SUFFICES ASSUME RouterInv, NEW m \in DOMAIN ops, NEW n \in DOMAIN ops, m < n,
                      \A i \in {m, n} : ops[i].prompt /\ ops[i].kind # "Tick",
                      Fate(m) = "queued"
               PROVE  Fate(n) = "queued"
    BY DEF PromptInOrder
  <2>1. PICK q : q = Queue
    OBVIOUS
  <2>2. q.ops = ops /\ Fate(n) = q.ops[n].fate /\ Fate(m) = q.ops[m].fate
    BY <2>1 DEF Queue, Fate
  <2>3. OrderSound(q, time)
    BY <2>1 DEF RouterInv, Sound
  <2>4. InTurn(q, m) /\ InTurn(q, n)
    BY <2>2 DEF InTurn
  <2> QED BY <2>2, <2>3, <2>4 DEF OrderSound
<1> QED BY <1>1, RouterInvariant, PTL

-----------------------------------------------------------------------------
\* Answers to operations whose receiver is gone.

\* An Unseen op comes from its receiver.  It answers one operation, which is
\* of another kind and has no other answer, and is not lost while its
\* receiver is alive; every other operation answers nothing.
AnswersSound(w, live) ==
    /\ \A m \in DOMAIN w.ops :
        IF w.ops[m].kind = "Unseen"
        THEN /\ w.ops[m].from = w.ops[m].to
             /\ w.ops[m].fate \in {"queued", "delivered"} \/ w.ops[m].to \notin live
             /\ w.ops[m].ref \in DOMAIN w.ops
             /\ w.ops[w.ops[m].ref].fate = "unseen"
             /\ w.ops[w.ops[m].ref].kind # "Unseen"
             /\ w.ops[w.ops[m].ref].from = w.ops[m].to
        ELSE w.ops[m].ref = NotSet
    /\ \A n \in DOMAIN w.ops :
        w.ops[n].fate = "unseen" => \E m \in DOMAIN w.ops : w.ops[m].ref = n
    /\ \A m, k \in DOMAIN w.ops :
        w.ops[m].ref = w.ops[k].ref => m = k \/ w.ops[m].ref = NotSet

AnswersInv == AnswersSound(Queue, entities)

\* The numbers of operations are not NotSet, and no sender's op is an Unseen.
LEMMA NumbersAndKinds ==
    ASSUME NEW w \in Queues
    PROVE  DOMAIN w.ops \subseteq Nat /\ NotSet \notin DOMAIN w.ops /\ "Unseen" \notin Kinds
BY WorldRouterAssumption DEF Queues

\* What a sender sends answers nothing.
LEMMA AddedAnswers ==
    ASSUME NEW w \in Queues, NEW v, NEW live, AnswersSound(w, live),
           NEW kind \in Kinds, NEW from, NEW to, Added(w, v, kind, from, to, NotSet)
    PROVE  AnswersSound(v, live)
<1>1. NotSet \notin DOMAIN w.ops /\ kind # "Unseen"
  BY NumbersAndKinds
<1>2. PICK N \in Nat \ DOMAIN w.ops :
        /\ DOMAIN v.ops = DOMAIN w.ops \cup {N}
        /\ \A n \in DOMAIN w.ops : v.ops[n] = w.ops[n]
        /\ v.ops[N].kind = kind /\ v.ops[N].ref = NotSet /\ v.ops[N].fate = "queued"
  BY DEF Added
<1> QED BY <1>1, <1>2 DEF AnswersSound

\* An operation is dispatched, held back or dropped, but not answered.
LEMMA TakenAnswers ==
    ASSUME NEW w, NEW v, NEW live, AnswersSound(w, live),
           NEW x, x.n \in DOMAIN w.ops, w.ops[x.n].fate = "queued",
           NEW fate \in Fates \ {"unseen"}, Taken(w, v, x, fate),
           \/ w.ops[x.n].kind # "Unseen"
           \/ fate = "delivered"
           \/ w.ops[x.n].to \notin live
    PROVE  AnswersSound(v, live)
<1>1. /\ DOMAIN v.ops = DOMAIN w.ops
      /\ \A n \in DOMAIN w.ops :
            /\ v.ops[n].kind = w.ops[n].kind /\ v.ops[n].to = w.ops[n].to
            /\ v.ops[n].ref = w.ops[n].ref /\ v.ops[n].from = w.ops[n].from
            /\ v.ops[n].fate = IF n = x.n THEN fate ELSE w.ops[n].fate
  BY DEF Taken, Alike
<1>2. \A n \in DOMAIN w.ops : v.ops[n].fate = "unseen" <=> w.ops[n].fate = "unseen"
  BY <1>1
<1>3. \A m \in DOMAIN w.ops :
        w.ops[m].kind = "Unseen"
            => v.ops[m].fate \in {"queued", "delivered"} \/ w.ops[m].to \notin live
  BY <1>1 DEF AnswersSound
<1> QED BY <1>1, <1>2, <1>3 DEF AnswersSound

\* An operation whose receiver is gone is answered.
LEMMA TakenAnswered ==
    ASSUME NEW w \in Queues, NEW u, NEW v, NEW live, AnswersSound(w, live),
           NEW x, x.n \in DOMAIN w.ops, w.ops[x.n].fate = "queued",
           w.ops[x.n].to # w.ops[x.n].from,
           Taken(w, u, x, "unseen"),
           NEW from, from = w.ops[x.n].from, Added(u, v, "Unseen", from, from, x.n)
    PROVE  AnswersSound(v, live)
<1>1. NotSet \notin DOMAIN w.ops /\ w.ops[x.n].kind # "Unseen"
  BY NumbersAndKinds DEF AnswersSound
<1>2. /\ DOMAIN u.ops = DOMAIN w.ops
      /\ \A n \in DOMAIN w.ops :
            /\ u.ops[n].kind = w.ops[n].kind /\ u.ops[n].to = w.ops[n].to
            /\ u.ops[n].ref = w.ops[n].ref /\ u.ops[n].from = w.ops[n].from
            /\ u.ops[n].fate = IF n = x.n THEN "unseen" ELSE w.ops[n].fate
  BY DEF Taken, Alike
<1>3. PICK N \in Nat \ DOMAIN w.ops :
        /\ DOMAIN v.ops = DOMAIN w.ops \cup {N}
        /\ \A n \in DOMAIN w.ops : v.ops[n] = u.ops[n]
        /\ v.ops[N].kind = "Unseen" /\ v.ops[N].from = from /\ v.ops[N].to = from
        /\ v.ops[N].ref = x.n /\ v.ops[N].fate = "queued"
  BY <1>2 DEF Added
<1>4. \A m \in DOMAIN w.ops : w.ops[m].ref # x.n
  BY <1>1 DEF AnswersSound
<1>5. \A m \in DOMAIN v.ops :
        IF v.ops[m].kind = "Unseen"
        THEN /\ v.ops[m].from = v.ops[m].to
             /\ v.ops[m].fate \in {"queued", "delivered"} \/ v.ops[m].to \notin live
             /\ v.ops[m].ref \in DOMAIN v.ops
             /\ v.ops[v.ops[m].ref].fate = "unseen"
             /\ v.ops[v.ops[m].ref].kind # "Unseen"
             /\ v.ops[v.ops[m].ref].from = v.ops[m].to
        ELSE v.ops[m].ref = NotSet
  <2>1. \A m \in DOMAIN w.ops : w.ops[m].kind = "Unseen" => m # x.n /\ w.ops[m].ref # x.n
    BY <1>1, <1>4
  <2>2. ASSUME NEW m \in DOMAIN w.ops
        PROVE  IF v.ops[m].kind = "Unseen"
               THEN /\ v.ops[m].from = v.ops[m].to
                    /\ v.ops[m].fate \in {"queued", "delivered"} \/ v.ops[m].to \notin live
                    /\ v.ops[m].ref \in DOMAIN v.ops
                    /\ v.ops[v.ops[m].ref].fate = "unseen"
                    /\ v.ops[v.ops[m].ref].kind # "Unseen"
                    /\ v.ops[v.ops[m].ref].from = v.ops[m].to
               ELSE v.ops[m].ref = NotSet
    BY <1>2, <1>3, <2>1 DEF AnswersSound
  <2>3. /\ v.ops[x.n].fate = "unseen" /\ v.ops[x.n].kind # "Unseen"
        /\ v.ops[x.n].from = from /\ x.n \in DOMAIN v.ops
    BY <1>1, <1>2, <1>3
  <2> QED BY <1>3, <2>2, <2>3
<1>6. \A n \in DOMAIN v.ops :
        v.ops[n].fate = "unseen" => \E m \in DOMAIN v.ops : v.ops[m].ref = n
  BY <1>2, <1>3 DEF AnswersSound
<1>7. \A m, k \in DOMAIN v.ops :
        v.ops[m].ref = v.ops[k].ref => m = k \/ v.ops[m].ref = NotSet
  BY <1>2, <1>3, <1>4 DEF AnswersSound
<1> QED BY <1>5, <1>6, <1>7 DEF AnswersSound

\* Ticks that are sent again are no answers, and have none.
LEMMA RequeuedAnswers ==
    ASSUME NEW w, NEW v, NEW live, AnswersSound(w, live), NEW s, Requeued(w, v, s),
           \A n \in Range(s) : /\ n \in DOMAIN w.ops /\ w.ops[n].kind = "Tick"
                               /\ w.ops[n].fate # "unseen"
    PROVE  AnswersSound(v, live)
<1>1. /\ DOMAIN v.ops = DOMAIN w.ops
      /\ \A n \in DOMAIN w.ops :
            /\ v.ops[n].kind = w.ops[n].kind /\ v.ops[n].to = w.ops[n].to
            /\ v.ops[n].ref = w.ops[n].ref
            /\ v.ops[n].fate = "unseen" <=> w.ops[n].fate = "unseen"
            /\ \/ w.ops[n].kind = "Tick" /\ w.ops[n].fate # "unseen"
               \/ v.ops[n].fate = w.ops[n].fate /\ v.ops[n].from = w.ops[n].from
  BY DEF Requeued, Alike
<1>2. \A m \in DOMAIN w.ops : w.ops[m].kind = "Unseen" => w.ops[m].kind # "Tick"
  OBVIOUS
<1>3. \A m \in DOMAIN w.ops :
        IF v.ops[m].kind = "Unseen"
        THEN /\ v.ops[m].from = v.ops[m].to
             /\ v.ops[m].fate \in {"queued", "delivered"} \/ v.ops[m].to \notin live
             /\ v.ops[m].ref \in DOMAIN v.ops
             /\ v.ops[v.ops[m].ref].fate = "unseen"
             /\ v.ops[v.ops[m].ref].kind # "Unseen"
             /\ v.ops[v.ops[m].ref].from = v.ops[m].to
        ELSE v.ops[m].ref = NotSet
  BY <1>1, <1>2 DEF AnswersSound
<1> QED BY <1>1, <1>3 DEF AnswersSound

\* So is the result of a handler, and entities only go.
LEMMA ResultAnswers ==
    ASSUME time \in Nat, entities \in SUBSET Entities, NEW w \in Queues,
           AnswersSound(w, entities), SendResult(w), entities' \subseteq entities
    PROVE  AnswersInv'
<1>1. PICK v, live : v = Queue' /\ live = entities'
  OBVIOUS
<1>2. AnswersSound(v, entities)
  <2>1. CASE Become(w)
    BY <1>1, <2>1, BecomeIs
  <2>2. CASE Send(w)
    <3>1. PICK kind \in Kinds, from \in Entities, to \in Entities :
            Added(w, v, kind, from, to, NotSet)
      BY <1>1, <2>2, SendSends
    <3> QED BY <3>1, AddedAnswers
  <2> QED BY <2>1, <2>2 DEF SendResult
<1>3. AnswersSound(v, live)
  BY <1>1, <1>2 DEF AnswersSound
<1> QED BY <1>1, <1>3 DEF AnswersInv

\* operation() for a receiver that is gone.
LEMMA GoneAnswers ==
    ASSUME RouterInv, AnswersInv, NEW x, IgnoreOwn(x) \/ AnswerUnseen(x)
    PROVE  AnswersInv'
<1>1. PICK q, p, u, from, n :
        /\ q = Queue /\ p = Popped(x, "ignored") /\ u = Popped(x, "unseen")
        /\ from = ops[x.n].from /\ n = x.n
  OBVIOUS
<1>2. /\ Processing(x) /\ entities' = entities /\ ops[n].to \notin entities
      /\ \/ Become(p)
         \/ /\ ops[n].to # from /\ from \in entities
            /\ Become(Unseen(u, n))
  BY <1>1 DEF IgnoreOwn, AnswerUnseen
<1>3. /\ time \in Nat /\ q \in Queues /\ q.ops = ops /\ n \in DOMAIN q.ops
      /\ q.ops[n].fate = "queued" /\ AnswersSound(q, entities)
  BY <1>1, <1>2, ProcessingFacts DEF AnswersInv
<1>4. /\ "ignored" \in Fates \ {"unseen"} /\ "unseen" \in Fates
  BY DEF Fates
<1>5. /\ p \in Queues /\ Taken(q, p, x, "ignored")
      /\ u \in Queues /\ Taken(q, u, x, "unseen")
  BY <1>1, <1>3, <1>4, PoppedFacts
<1>6. CASE Become(p)
  <2>1. AnswersSound(p, entities)
    BY <1>1, <1>2, <1>3, <1>4, <1>5, TakenAnswers
  <2>2. Queue' = p
    BY <1>5, <1>6, BecomeIs
  <2> QED BY <1>2, <2>1, <2>2 DEF AnswersInv
<1>7. CASE ops[n].to # from /\ from \in entities /\ Become(Unseen(u, n))
  <2>1. PICK v : v = Message(u, "Unseen", from, from, Now, n)
    OBVIOUS
  <2>2. Become(v)
    BY <1>1, <1>7, <2>1 DEF Unseen
  <2>3. from \in Entities /\ n \in Nat \cup {NotSet} /\ Now \in Times
    <3>1. n \in Nat
      BY <1>3, NumbersAndKinds
    <3> QED BY <1>7, <3>1 DEF RouterInv, Now, Times
  <2>4. Sent(u, v, time) /\ Added(u, v, "Unseen", from, from, n)
    BY <1>3, <1>5, <2>1, <2>3, MessageSends
  <2>5. AnswersSound(v, entities)
    BY <1>1, <1>3, <1>5, <1>7, <2>4, TakenAnswered
  <2>6. Queue' = v
    BY <2>2, <2>4, BecomeIs DEF Sent
  <2> QED BY <1>2, <2>5, <2>6 DEF AnswersInv
<1> QED BY <1>2, <1>6, <1>7

\* Operations that reach a receiver, or are held back before they do.
LEMMA HeldAnswers ==
    ASSUME RouterInv, AnswersInv, NEW x, HoldBack(x)
    PROVE  AnswersInv'
<1>1. PICK q, p : q = Queue /\ p = Popped(x, "suspended")
  OBVIOUS
<1>2. /\ Processing(x) /\ entities' = entities /\ ops[x.n].kind = "Tick" /\ Become(p)
  BY <1>1 DEF HoldBack, HeldBack
<1>3. /\ time \in Nat /\ q \in Queues /\ q.ops = ops /\ x.n \in DOMAIN q.ops
      /\ q.ops[x.n].fate = "queued" /\ AnswersSound(q, entities)
  BY <1>1, <1>2, ProcessingFacts DEF AnswersInv
<1>4. "suspended" \in Fates \ {"unseen"}
  BY DEF Fates
<1>5. p \in Queues /\ Taken(q, p, x, "suspended")
  BY <1>1, <1>3, <1>4, PoppedFacts
<1>6. AnswersSound(p, entities)
  BY <1>2, <1>3, <1>4, <1>5, TakenAnswers
<1>7. Queue' = p
  BY <1>2, <1>5, BecomeIs
<1> QED BY <1>2, <1>6, <1>7 DEF AnswersInv

LEMMA DeliveredAnswers ==
    ASSUME RouterInv, AnswersInv, NEW x, Processing(x), NEW fate \in {"delivered", "stored"},
           fate = "stored" => ops[x.n].kind = "Tick"
    PROVE  Delivered(x, fate) \in Queues /\ AnswersSound(Delivered(x, fate), entities)
<1>1. PICK q, w : q = Queue /\ w = Delivered(x, fate)
  OBVIOUS
<1>2. /\ time \in Nat /\ q \in Queues /\ q.ops = ops /\ x.n \in DOMAIN q.ops
      /\ q.ops[x.n].fate = "queued" /\ AnswersSound(q, entities)
  BY <1>1, ProcessingFacts DEF AnswersInv
<1>3. fate \in Fates \ {"unseen"}
  BY DEF Fates
<1>4. w \in Queues /\ Taken(q, w, x, fate)
  BY <1>1, <1>2, <1>3, PoppedFacts
<1>5. AnswersSound(w, entities)
  BY <1>2, <1>3, <1>4, TakenAnswers
<1> QED BY <1>1, <1>4, <1>5

LEMMA DeliverAnswers ==
    ASSUME RouterInv, AnswersInv, NEW x,
           \/ DeliverToSuspended(x) \/ DeliverOther(x) \/ DeliverDelete(x) \/ DeliverSuspend(x)
    PROVE  AnswersInv'
<1>1. PICK fate \in {"delivered", "stored"} :
        /\ Processing(x) /\ SendResult(Delivered(x, fate))
        /\ fate = "stored" => ops[x.n].kind = "Tick"
        /\ entities' \subseteq entities
  BY DEF DeliverToSuspended, DeliverOther, DeliverDelete, DeliverSuspend, Delivers
<1>2. PICK w : w = Delivered(x, fate)
  OBVIOUS
<1>3. w \in Queues /\ AnswersSound(w, entities)
  BY <1>1, <1>2, DeliveredAnswers
<1>4. time \in Nat /\ entities \in SUBSET Entities
  BY <1>1, ProcessingFacts DEF RouterInv
<1> QED BY <1>1, <1>2, <1>3, <1>4, ResultAnswers

\* resumeWorld and SuspendedProperty::apply.
LEMMA ResumeAnswers ==
    ASSUME RouterInv, AnswersInv, NEW x, DeliverResume(x)
    PROVE  AnswersInv'
<1>1. PICK w, v, to, s : /\ w = Delivered(x, "delivered") /\ to = ops[x.n].to
                         /\ s = Resumed(to) /\ v = Requeue(w, s)
  OBVIOUS
<1>2. Processing(x) /\ SendResult(v) /\ entities' = entities
  BY <1>1 DEF DeliverResume, Delivers
<1>3. w \in Queues /\ AnswersSound(w, entities)
  BY <1>1, <1>2, DeliveredAnswers
<1>4. time \in Nat /\ to \in Entities /\ entities \in SUBSET Entities
  BY <1>1, <1>2, ProcessingFacts DEF RouterInv
<1>5. Sound(w, time, m_suspendedQueue, m_isSuspended, m_suspendedOps, suspended)
  BY <1>1, <1>2, DispatchedSound
<1>6. WorldSound(w, m_suspendedQueue, m_isSuspended) /\ EntitiesSound(w, m_suspendedOps, suspended)
  BY <1>5 DEF Sound
<1>7. /\ s \in Seq(DOMAIN w.ops)
      /\ \A n \in Range(s) : /\ n \in DOMAIN w.ops /\ w.ops[n].kind = "Tick"
                             /\ w.ops[n].fate # "unseen"
  <2>1. CASE s = m_suspendedQueue
    <3>1. s \in Seq(DOMAIN w.ops) /\ Range(s) \subseteq DOMAIN w.ops
      BY <1>6, <2>1 DEF WorldSound, Range
    <3> QED BY <1>6, <2>1, <3>1 DEF WorldSound
  <2>2. CASE s = m_suspendedOps[to]
    <3>1. s \in Seq(DOMAIN w.ops) /\ Range(s) \subseteq DOMAIN w.ops
      BY <1>4, <1>6, <2>2 DEF EntitiesSound, Range
    <3> QED BY <1>4, <1>6, <2>2, <3>1 DEF EntitiesSound
  <2>3. CASE s = <<>>
    BY <2>3 DEF Range
  <2> QED BY <1>1, <2>1, <2>2, <2>3 DEF Resumed
<1>8. Requeued(w, v, s)
  BY <1>1, <1>3, <1>7, RequeuesAll
<1>9. v \in Queues /\ AnswersSound(v, entities)
  BY <1>3, <1>7, <1>8, RequeuedAnswers DEF Requeued
<1> QED BY <1>2, <1>4, <1>9, ResultAnswers

LEMMA AnswersStep == ASSUME RouterInv, AnswersInv, [Next]_vars PROVE AnswersInv'
<1>1. CASE UNCHANGED vars \/ StartProcessing \/ EndProcessing
  BY <1>1 DEF vars, StartProcessing, EndProcessing, AnswersInv, Queue
<1>2. CASE DispatchOperations
  <2>1. PICK q : q = Queue
    OBVIOUS
  <2>2. Send(q) /\ entities' = entities
    BY <1>2, <2>1 DEF DispatchOperations
  <2>3. time \in Nat /\ entities \in SUBSET Entities /\ q \in Queues
    BY <2>1, WorldRouterAssumption DEF RouterInv, Sound, QueueSound
  <2> QED BY <2>1, <2>2, <2>3, ResultAnswers DEF AnswersInv, SendResult
<1>3. CASE ProcessOp
  BY <1>3, GoneAnswers, HeldAnswers, DeliverAnswers, ResumeAnswers DEF ProcessOp
<1> QED BY <1>1, <1>2, <1>3 DEF Next, LoopStep

(***************************************************************************)
(* WorldRouter::operation answers an operation whose receiver is gone by   *)
(* one Unseen op, which reaches the sender if that is not destroyed, and   *)
(* never answers an Unseen op, for any number of entities and operations.  *)
(***************************************************************************)
THEOREM LostOpsHaveOneAnswer == Spec => []AnsweredOnce
<1>1. Init => AnswersInv
  BY DEF Init, AnswersInv, AnswersSound, Queue
<1>2. RouterInv /\ AnswersInv /\ [Next]_vars => AnswersInv'
  BY AnswersStep
<1>3. RouterInv /\ AnswersInv => AnsweredOnce
  <2> SUFFICES ASSUME RouterInv, AnswersInv, NEW n \in DOMAIN ops, Fate(n) = "unseen"
               PROVE  /\ ops[n].kind # "Unseen"
                      /\ \E m \in DOMAIN ops :
                            /\ \A k \in DOMAIN ops : ops[k].ref = n <=> k = m
                            /\ ops[m].kind = "Unseen" /\ ops[m].to = ops[n].from
                            /\ \/ Fate(m) \in {"queued", "delivered"}
                               \/ ops[m].to \notin entities
    BY DEF AnsweredOnce
  <2>1. PICK q : q = Queue
    OBVIOUS
  <2>2. /\ q.ops = ops /\ q \in Queues /\ AnswersSound(q, entities)
        /\ \A m \in DOMAIN ops : Fate(m) = ops[m].fate
    BY <2>1 DEF Queue, Fate, RouterInv, Sound, QueueSound, AnswersInv
  <2>3. NotSet \notin DOMAIN ops
    BY <2>2, NumbersAndKinds
  <2>4. PICK m \in DOMAIN ops : ops[m].ref = n
    BY <2>2 DEF AnswersSound
  <2>5. ops[m].kind = "Unseen"
    BY <2>2, <2>3, <2>4 DEF AnswersSound
  <2>6. \A k \in DOMAIN ops : ops[k].ref = n <=> k = m
    BY <2>2, <2>3, <2>4 DEF AnswersSound
  <2> QED BY <2>2, <2>4, <2>5, <2>6 DEF AnswersSound
<1> QED BY <1>1, <1>2, <1>3, RouterInvariant, PTL DEF Spec

=============================================================================
