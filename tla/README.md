# TLA+ models of Worldforge

Worldforge is a family of programs and libraries for multi-player virtual
worlds: the *Cyphesis* server, the *Ember* client, the *metaserver* that lists
servers, and the libraries they share (*Atlas*, the protocol; *Eris*, its client
side; *Squall*, asset synchronisation; *Mercator*, *WFMath*, *Varconf*). This
directory holds TLA+ models of the parts of it in which several threads, tables,
programs or runs of a program have to agree, the TLC configurations that check
them, and TLAPS proofs about most of them. Paths are relative to the root of the
repository (`src/` in `PROJECT.json`).

## 1. The system and its parts

| Part | State | Operations | Interacts with |
| --- | --- | --- | --- |
| Ember task queue (`apps/ember/src/framework/tasks`) | two deques of task units, executor threads, a flag for the posted handler | `enqueueTask`, `fetchNextTask`, `addProcessedTask`, `processCompletedTasks`, `deactivate` | Eris `EventService` (handlers on the main thread) |
| SQLite command queue (`apps/cyphesis/src/common/DatabaseSQLite.cpp`) | deque of SQL commands, worker thread, `m_active` | `scheduleCommand`, `poll_tasks`, `blockUntilAllQueriesComplete`, destructor | `StorageManager`, `Persistence`, main loop |
| World persistence (`server/StorageManager.cpp`) | queues of unstored, dirty and destroyed entities, flags of entities and properties | `entityInserted`, `entityUpdated`, `tick`, `shutdown`, `restoreWorld` | signals of entities, timer on the thread pool, database |
| Operation dispatch (`rules/simulation/WorldRouter.cpp`, `BaseWorld.cpp`, `common/OperationsDispatcher*`) | queue ordered by time and sequence, suspended operations, the entities of the world | `message`, `operation`, `deliverTo`, `delEntity`, `setIsSuspended`, `processUntil` | entities, main loop |
| Main loop (`common/MainLoop.cpp`, `server/server.cpp`) | clock, exit flags, timers, pool of `io_context` threads | rounds of dispatch and processing; network and timers on the pool; soft and hard exit | all of the server |
| Entities and properties (`rules/simulation`) | containment tree, properties, flags | Set, Move, Delete, Update, suspension | dispatch, persistence |
| Accounts and connections (`server/Connection.cpp`, `Account.cpp`, `Lobby.cpp`, `ServerRouting.cpp`, `Persistence.cpp`) | routers of a connection, minds and characters of an account, accounts in memory and in the table | login, create, possess, logout, disconnect | entities, database, mind manager |
| External minds (`server/ExternalMindsManager.cpp`, `PossessionAuthenticator.cpp`) | registered AI clients, entities that wait for a mind, keys | `addConnection`, `removeConnection`, `requestPossession`, `entity_mindsChanged`, `authenticatePossession` | accounts, entities |
| Metaserver (`apps/metaserver`) and `CommMetaClient` (`server/`) | sessions of servers, handshakes, lists stored for clients | packets, expiry; heartbeat of the game server | UDP |
| Eris `Meta` (`libs/eris/src/Eris/Metaserver.cpp`) | status, list, queries under way, receive buffer | `refresh`, `cancel`, pages of the list, queries, timeouts | metaserver |
| Teleport (`server/Juncture.cpp`, `Peer.cpp`) | state of a hand-over | request, response, timeout | two servers |
| DatabasePostgres | pending queries, query in progress | schedule, poll, vacuum timer | as SQLite |
| Atlas streams, `CommAsioClient` | negotiation state, write buffers | negotiate, send, flush | all links |
| Eris connection, account, view, types | status of connection and account, waiting views and types | connect, login, logout, timeouts | Atlas, Ember |
| Squall | stores of hashed records | resolve, generate, compare | Ember |
| Physics, navigation, terrain, mathematics, rendering, GUI, Python bindings, tools, configuration | | | not modelled, section 8 |

What makes these parts hard, and what a test hardly reaches:

* *Threads.* Ember's executors and main thread, the SQLite worker, and the
  `io_context` pool, on whose threads the timer runs the storage tick while the
  main thread changes entities, and socket handlers destroy connections while the
  main thread handles their operations. Both queues use condition variables
  without a loop around the wait.
* *Order.* Deletions, insertions and updates leave the tick in three loops, not
  in the order of the changes; operations are sorted by time, and held back and
  sent again while something is suspended.
* *Failure and restart.* The server may stop or crash between any two commands;
  the world is rebuilt from what is in the tables.
* *Datagrams.* The game server, the metaserver and the clients exchange UDP
  datagrams without sequence numbers, which may be lost, doubled, late or
  overtaken, and the metaserver may be restarted with empty maps.
* *Tables that must agree.* Five objects keep who controls which entity:
  connection, account, lobby, entity and mind manager. A lost connection, a
  logout or a destroyed entity takes several calls through all of them.
* *Limits.* A tick gives up when too many queries are pending; `processUntil`
  gives up when the wall clock says so.

`PROJECT.json` lists each hazard at its line with the properties that watch it.

What correctness means, part by part: a task that was accepted is executed in
the background, then completed once on the main thread, or its failure is noted,
and shutting down ends all threads; SQL commands are applied in order and none
is lost; what is in memory reaches the database and comes back after a restart;
an operation that was sent is dispatched in order, answered if its receiver is
gone, and neither lost nor doubled by suspension; a running game server is in
the metaserver's list and one that is gone is not; a client gets the whole list;
whoever is logged in controls its minds and nobody else does; an entity without
a mind is offered to an AI client.

## 2. Modules

| Module | What it is |
| --- | --- |
| `TaskLifecycle` | abstract: the life of each task, independent of threads |
| `TaskQueue` | `TaskQueue`, `TaskExecutor`, `TaskUnit`, the handlers of Eris' `EventService` |
| `MCTaskQueue` | the same with a self-loop at the end, for TLC |
| `TaskQueueProofs` | theorems about `TaskQueue` |
| `CommandQueue` | abstract: commands are applied once each, in order |
| `SQLiteQueue` | the command queue of `DatabaseSQLite` |
| `MCSQLiteQueue` | the same with a self-loop at the end, for TLC |
| `SQLiteQueueProofs` | theorems about `SQLiteQueue` |
| `StorageManager` | persistence: the world's changes, the tick, the tables, restarts |
| `StorageManagerProofs` | theorems about `StorageManager` |
| `WorldRouter` | the operation queue, suspension, and the rounds of the main loop |
| `MCWorldRouter` | the timings of operations used by TLC |
| `WorldRouterProofs` | theorems about `WorldRouter` |
| `ServerRegister` | abstract: the metaserver's register of servers |
| `Metaserver` | registration: `CommMetaClient`, `MetaServer`, `DataObject`, UDP, the clock |
| `MetaserverProofs` | theorems about `Metaserver` |
| `MetaList` | the list of servers in pages: Eris' `Meta`, `processLISTREQ`, on `ServerRegister` |
| `MetaListProofs` | theorems about `MetaList` |
| `Sessions` | connections, accounts, lobby, minds, `ExternalMindsManager`, possession keys |
| `MCSessions` | the same with the connections as a symmetry set, for TLC |
| `SessionsProofs` | theorems about `Sessions` |
| `Induction` | lemmas for the proofs: induction over numbers and finite sets, folds, the elements of a sequence |

Each of `TaskQueue`, `SQLiteQueue`, `StorageManager`, `WorldRouter`,
`Metaserver`, `MetaList` and `Sessions` is one component or several that share
state. They meet through what they promise. The database of `StorageManager`,
and of `Sessions` for the rows of accounts, applies commands one at a time, in
order and eventually: `SQLiteQueue` implements `CommandQueue`
(`ImplementsCommandQueue`) and applies every command (`EveryCommandApplied`).
`StorageManager`'s shutdown waits for an empty queue, which is
`BlockedUntilApplied`. The register that `MetaList` reads is an instance of
`ServerRegister`, which `Metaserver` implements (`ImplementsServerRegister`):
`MetaList` need not know about handshakes and `Metaserver` not about lists.

`TypeOK` is part of a run where it is not inductive by itself and takes an
argument (`TaskQueue`, `SQLiteQueue`); in the other modules it documents the
variables, and can be added to the INVARIANTS of their configurations. For
`Metaserver`, `WorldRouter` and `Sessions` it is a theorem.

Operators marked "Mutant of ..." are altered forms of the definition that
follows them, not part of any specification. They record what a likely mistake
in the code would be; with one of them in place of the original the property
named in `PROJECT.json` fails, which shows that the property depends on that
piece of code.

### TaskQueue

A step is one critical section of the code, or what happens between two.
`EnqueueTask` is `enqueueTask` (a queue that was shut down refuses).
`FetchNextTask` takes the mutex, and takes a unit, waits, or leaves;
`ReturnFromWait` is the second half of a wait, which the code does *not* repeat
in a loop: it takes what is there or leaves. `AddProcessedTask` pushes a unit
and posts a handler unless `mIsQueuedOnMainThread` is set (which it never is);
`ListenerThrows` is the exception that `TaskUnit::executeInBackgroundThread`
lets through, after which the unit is destroyed. `RunHandler` is a handler in
the event service, which does nothing when the queue's marker is cleared.
`ProcessCompletedTasks`, `TaskCompletes` and `TaskWantsMore` are the main
thread's passage: look at the front under the lock, execute it without the lock,
and pop it or leave it for another round, then decide about another handler.
`Deactivate` and the stages after it are `deactivate()`, step by step.

`TaskLifecycle` says what a task goes through: new, queued, background,
processed, finished or discarded. `TaskQueue!ImplementsLifecycle` is the
refinement: the status of a task is computed from where its unit is.

Abstractions: what a task computes is reduced to its outcome (finished, wants
another round, its listener threw). `mainSteps` bounds the additional rounds.
The queue is tested for emptiness and its front read in one step; the code tests
before it takes the lock, but only the main thread pops.

### SQLiteQueue

A command is its number in the order of scheduling. The worker's loop is split
where the code releases the mutex: `PollCommand` moves the front out,
`RunCommandQuery` runs without the mutex, `PopFront` drops it. `PollEmpty`
notifies the blocked and keeps the mutex until `Wait`, hence the state
"committed" in which nobody else gets the mutex. `ScheduleCommand` and
`NotifyScheduled` are the two halves of `scheduleCommand`, the notification
coming after the unlock. `ClearActive`, `NotifyClosing`, `Join` are the
destructor; none of the three takes the mutex. Both waits may return unprovoked
(`WorkerSpuriousWakeup`, `BlockedSpuriousWakeup`); the thread that returns this
way from `blockUntilAllQueriesComplete` is in a state of its own, "early". An
error in a command is logged and the command is gone, so it counts as applied.
Synchronous queries and maintenance are left out.

### StorageManager

Memory: the tree of entities, one property per entity that stands for all of
them, and the flags that decide about storing. Operations of the main thread:
`AddNewEntity`, `SetOperation`, `MoveOperation`, `UpdateOperation`, `DelEntity`
(with `Empty`, what a container does to its contents, and `RemoveChild` /
`AddChild`). Each carries the signals it emits, so that `EntityUpdated` runs
within the step, as in the code. A new entity may be transient (`ephem`, the
flag `entity_ephem` that the property `transient` sets): `entityInserted` then
returns at once, the entity never gets a row and its signals are never
connected, but it may contain entities that have both.

The tick runs on a thread of the pool, so its steps come between any two
operations. It is cut where the code is between two entities (`TickDestroyed`,
`TickUnstored`, `TickDirty`), in the second loop between the commands of
`insertEntity` and the connection of the signals (`TickInserted`), and in the
third between writing an entity and removing its mark (`TickPop`). A change that
falls in one of these two windows is told to nobody; so is a change of a
restored entity that is still to be "inserted" again. `Unheard` is the list of
these cases and the history variable `missed` the entities concerned; the
properties say that nothing else goes wrong. `missed` errs on the side of
caution: an entity stays in it although a later signal may queue it, and an
Update op in a window counts although nothing else has changed.

`ApplyCommand` is the worker with `Apply` for the effect of each SQL statement
(an INSERT of an existing id changes nothing, an UPDATE without a row neither).
`Shutdown` runs the last tick, `ShutdownComplete` waits for the queries, `Crash`
stops anywhere, `Restore` reads what is reachable from the root and repeats the
calls of `restoreChildren`, with the flags as they are after `changeContainer`.

Abstractions: an operation of the main thread is one step, and so is each step
of the tick; two threads in one container or one flag word at the same instant
are undefined behaviour and not modelled, nor is a change between the reads of
one `updateEntity` or one `insertEntity`. Sequence numbers, types and positions
have no influence on what is stored when; thoughts, accounts and relation tables
are left out; so is an `addNewEntity` that fails and merely uses up an id, and a
`transient` that is set later, which sets a flag nobody reads any more.

### WorldRouter

An operation is known by its number and keeps a record of what became of it.
`Message` resolves the time of dispatch and queues; `Before` is the order of the
queue. `StartProcessing` / `EndProcessing` enclose `processUntil`; its loop
handles the top entry if it is due, and the wall clock may end it after any
round but the first. One action for each way `operation` and `deliverTo` can go:
`IgnoreOwn`, `AnswerUnseen`, `HoldBack`, `DeliverToSuspended`, `DeliverOther`,
`DeliverDelete`, `DeliverSuspend`, `DeliverResume`. A handler may send one
operation, of any kind that is sent at all.

Abstractions: a broadcast is the operations it produces; handlers return at most
one result; scripts that block an operation are left out; so are the branch that
sends to all entities, which no caller reaches, counters, and
`m_operation_queues_dirty`, which nobody reads.

### Metaserver

The game server: `metaserverKeepalive` sends a keepalive and its attributes at
every heartbeat, `metaserverReply` answers a handshake with a servershake,
`metaserverTerminate` says goodbye, `Crash` does not. The metaserver:
`processSERVERKEEPALIVE` puts a new number into the handshake queue and sends
it, `processSERVERSHAKE` makes or refreshes the session if it still knows the
number, `processTERMINATE` removes it, `processSERVERATTR` makes an entry even
where there is no session. `expiry_timer` sweeps handshakes and sessions. The
network is a set of datagrams, from which any may be delivered next; `Duplicate`
delivers one and keeps it, `Lose` drops one, and a `Tick` while datagrams are
under way delays them. Each of these, and a `MetaserverRestart`, costs one of
`MaxFaults`; overtaking is free. Times are ages in heartbeats, so that there is
no clock that grows.

Abstractions: a handshake number is one that no datagram under way carries (the
code draws 32 random bits); the number 0, which the client does not answer, is a
lost datagram; a failing name lookup of the game server is a lost keepalive.
`joined` is a history variable.

### MetaList

The client is one record, and its handlers are operators on it, since one
datagram may drive several of them (`recv` calls itself while bytes are left).
`Read` is one step of `recv`, `recvCmd` and `processCmd` on one piece of the
stream that the datagrams form in the receive buffer, and `gotData` folds it
over all pieces. When nothing is expected, the pieces stay in the buffer, as the
bytes do in the code, and a later refresh reads them first. The metaserver's
side is `processLISTREQ` with the list stored at the first request, dead items,
and bare entries, which repeat the address before them. Datagrams are a bag, and
carry the port of the socket that the refresh opened.

`Query` is `query` with `internalQuery`: a server in `refused`, whose connection
cannot even be begun, takes no slot and is passed over. `Resources` changes
`refused` at will, under `MaxFaults`. A query that is under way may end
(`QueryEnds`) at any time, or never: a connection that breaks or fails to
negotiate is only closed, and the query's own timer starts when it is connected.
So nothing is promised about the end of QUERYING.

`snapshot` and `disturbed` are history variables: the list the metaserver stored
last, and whether something happened since `refresh` that is known to spoil the
client's copy.

### Sessions

Operations are handled by the main thread, one at a time (`handling`), each in
two steps: `Take` is `dispatch` up to the tests at the head of the handler
(`Test`), and the operation's own action is the rest, with every signal and call
that it sets off. In between the threads of the pool go on.

`~Connection` runs on one of these threads, when a socket handler drops the last
reference to the connection (`CommAsioClient_impl.h`, `do_read` and `write`),
and nothing makes it wait for the main thread. It is cut into `Disconnect`
(`deregisterConnection`, after which no operation is taken from it), one
`Deregister` for each AI client (`removeConnection`), one `DisconnectNext` for
each account (`disconnectObject`, with the lobby, `setConnection(nullptr)`,
`removeMindFromEntity` and `entity_mindsChanged` for each mind, whose offers go
to AI clients that are registered at that moment), and `Disconnected`. If the
main thread is between the two steps of an operation of that connection, the
operation is *overtaken*: the code goes on with a connection that is being
destroyed, tests what it tested before, and may leave a logged-out account with
a mind, or an AI client in the registry for ever. The model carries such
operations out too; `overtaken` remembers connection and account, at most
`MaxOvertaken` of them, and the properties make no claim about these, for good.
All others must agree at every step of the destructor, and through whatever the
overtaken operation does.

A mind is the pair of an account and an entity. `offers` are Possess operations
with a valid key that a client has received and may use (`PossessWithKey`) or
use too late. An offer over a connection whose destructor has begun reaches
nobody; it is void when that connection is deregistered. `rows` are the rows of
the account table, scheduled and stored. `abandoned` is a history variable: the
entities whose offer went with its link (section 6).

Abstractions: an account is its router's id, which decides the order in
`m_connections`; passwords and type checks are the difference between `LookUp`
and `LoginOperation`; chat and queries are left out. The carrying out of an
operation is one step, and so are one `removeConnection` and one
`disconnectObject`: what could come between their parts is told apart only by an
overtaken operation, or by two threads inside one container at the same instant.
The latter is undefined behaviour (`m_connections` and the lobby have no lock,
and `ServerRouting::dispatch` iterates over connections that the pool erases)
and is not modelled. A connection has a new name until nothing refers to its old
one.

## 3. Runs

| Run | Question | Bounds | Result |
| --- | --- | --- | --- |
| `taskqueue_two` | two executors, unprovoked wakeups: is a task ever stranded, lost, completed twice, or a dead queue entered? Does `deactivate` return? | 3 tasks, 2 executors, 1 extra round | holds |
| `taskqueue_single` | the configuration Ember uses, no unprovoked wakeup: is every task completed? | 3 tasks, 1 executor | holds |
| `sqlitequeue_order` | does the queue implement `CommandQueue`; is none forgotten; do blocked threads wait long enough, and return? | 2 threads, 3 commands | holds |
| `sqlitequeue_hang` | does the destructor return? | 2 threads, 1 command | fails |
| `storage_restart` | with ticks on their own thread, transient entities, shutdowns and crashes: is every change that was signalled in the database or on its way? Is every queued entity taken off its queue although a limit cuts ticks short? Are destroyed entities dropped and dangling rows repaired? Is the world a tree, and the same after a shutdown? | 2 entities and the root, 3 changes, limit 1, 1 restart | holds |
| `storage_race` | is every change in the database or on its way, without exception? | 2 entities and the root, 3 changes, limit 1, no restart | fails |
| `worldrouter_suspend` | are Ticks neither lost nor doubled while world and entity are suspended and resumed? Is the resuming operation obeyed? | 1 entity and the root, 4 operations | holds |
| `worldrouter_delete` | order of prompt operations, dispatch of all, one answer to each operation whose receiver is gone and none to an answer | 2 entities and the root, 3 operations, all timings | holds |
| `metaserver_register` | does a registered server stay listed, a running one get listed, one that is gone disappear? Is it a `ServerRegister`? | 1 server, sessions of 3 heartbeats, 2 handshakes, 2 faults | holds |
| `metalist_pages` | does every exchange end, is every query slot used while a server is to be asked, and is an undisturbed list whole? | 2 servers, pages and queries of 1, 2 refreshes, 3 changes of the register, 1 fault | holds |
| `metalist_done` | does `AllQueriesDone` mean that the list is complete? | 2 servers, pages and queries of 1, 1 refresh, 4 changes, no fault | fails |
| `sessions_minds` | with connections that end on other threads: do the tables agree, are waiting entities offered, has an account one row? | 2 accounts (1 stored, 1 admin), 2 connections, 1 entity, 1 overtaken operation | holds |

Why the bounds are enough for the questions: three tasks let one be executed,
one be pushed and one be fetched at the same time, and two executors are the
fewest that can take each other's work. Three commands put one in the worker's
hands, one behind it and one after a sleep. Two entities below the root make
every shape that matters to storage (siblings, one in the other, a container
destroyed under its contents, a stored entity in a transient one), and three
changes are an insertion of both and a change, a move or a destruction; Update
operations are free, and after a restart there may be changes left. The limit of
one query ends a tick once two are pending, the last tick included. The proofs
cover any number of changes. Four operations suspend, tick, resume and tick
again; with deletions three are enough for a sender, a victim and an answer. The
clock has two ticks, since only "due" and "not yet" differ. For the metaserver
one server is enough, because servers share nothing but handshake numbers, which
the proof covers; the bound on faults is sharp: with two faults in sessions of
two heartbeats `StaysListed` fails. Two servers on pages of one address need two
pages, with a register that changes in between, and the second refresh meets
what the first left behind. Two connections and two accounts, one of which may
be an AI client, let it end while the other is logged in, let an account come
back on another connection while the destructor of its old one still runs, and
let both control the one entity; one operation that is overtaken leaves the
other account and connection to be checked beside it. Connections are alike, so
they are a symmetry set; the run has safety properties only, for which that is
sound.

No run is allowed to deadlock silently: the MC modules add a self-loop only at
the real end of a queue's life. The configurations of `MetaList` do without the
check, since nobody must ask for another list.

## 4. Fairness

* `TaskQueue`: each executor and the main thread go on when they can (the
  operating system schedules threads, tasks return, the main loop polls the
  event service). Nobody must enqueue or shut down.
* `SQLiteQueue`: the worker, the destructor once begun, and a thread inside a
  call go on. For a thread that is woken and needs the mutex back this is strong
  fairness: the worker may take and release the mutex for ever, and the mutex is
  assumed not to be denied to one thread for ever. Nothing relies on unprovoked
  wakeups.
* `StorageManager`: the timer starts ticks again and again (`IdleConnector`
  re-arms it in its handler), a tick that has begun goes on whatever the main
  thread does, and the worker applies commands (`SQLiteQueue!EveryCommandApplied`).
* `WorldRouter`: the main loop goes on. Nobody must send anything.
* `Metaserver`: the heartbeat of the game server and the expiry timer go on, both
  being re-armed by their handlers, and datagrams that are sent again and again
  between the same two get through again and again (strong fairness of
  delivery, per server and kind). Faults are bounded, which says that the
  network does not fail for ever.
* `MetaList`: only the client's own timer. Nothing is assumed of the network, the
  metaserver or the game servers, whose queries need not end.
* `Sessions` has safety properties only: clients owe nothing.

## 5. Proofs

TLAPS proves the following for any sets of tasks, executors, threads, servers,
accounts, connections and entities, and any number of commands, operations,
changes, faults and heartbeats of a session. The assumptions are those named in
the modules: bounds are natural numbers, values that stand for "no task", "no
parent", "no row" or "no connection" are none of the things they are told apart
from, and the accounts are a finite set of router ids. A theorem that needs more
says so in its statement.

`TaskQueueProofs`. `TypeOK` is not inductive: an executor pushes what it holds
and the main thread pops what it executed, so one must know that they hold
something. `TypeInv` adds `HoldersHold` (an executor runs exactly if it holds a
unit) and `ExecutedIsFront` (what the main thread executes is the front of the
queue). From it follow `TypeCorrect` and `FrontIsExecuted`. `SafetyInv` adds
`LifeInv`, which ties the stages of `deactivate` to the state of executors,
marker and queues, and `NoStrandedTask`: every push posts a handler, because
`mIsQueuedOnMainThread`, the flag that would save one, is tested and cleared but
never set, and a main thread that leaves a nonempty queue posts another. From it
follow `NothingStranded`, `DestroyedQueueIsLeftAlone` and `DeactivateDrains`.
`NothingLeftBehind` and `NullMeansShutdown` have two hypotheses, one executor
and no unprovoked wakeup, both needed (section 6). `SingleInv` is why: nobody
else can take the unit an executor was woken for, so a woken executor finds one,
or the queue is being shut down, and it leaves only an empty queue.
`EveryTaskInOnePlace` (`PlacesInv`) says that the queues, the hands of executors
and the two ends partition the accepted tasks, and no place holds one twice.
Then the status of a task is a function of its place, and
`QueueImplementsLifecycle` is the refinement of `TaskLifecycle`: each action
takes at most one task one step further, and leaves the status of all others.

`SQLiteQueueProofs`. `InOrderExactlyOnce` speaks of a concatenation of
sequences. `Numbered` says the same of each element and of the lengths, and is
kept by steps that change one end; `FrontHeld` says that the command being run
is still the front. Only four actions are not `Quiet`, so the proof of
`QueueInv` has five cases. `NumberedIsInOrder` goes back to sequences, which
gives `AppliedInOrder`. `ThreadInv` adds that a worker which is about to wait
saw an empty queue and nobody could fill it since (`EmptyWhenCommitted`: it has
the mutex), that a worker which left did so after `m_active` was cleared and
with an empty queue (`CloseInv`), and that no thread blocks for more than was
scheduled (`BeforeIsPast`). From it follow `NothingForgotten`, `BlockingWaits`
and `DestructorDrains`. `QueueImplementsCommandQueue` is the refinement: a step
of `ScheduleCommand` is one of `Schedule`, `RunCommandQuery` is `Apply` because
by `QueueInv` the command it runs is the oldest that is not applied, and every
other step leaves both variables of `CommandQueue` alone.

`MetaserverProofs`. `TypeCorrect` needs no more than `TypeOK`.
`MetaserverImplementsRegister` is the refinement of `ServerRegister`: each
handler is at most one step of the register, and one sweep of the expiry timer
removes a set of sessions. `RegisteredStaysListed` is `StaysListed` under the
assumption `MaxFaults < SessionExpiry`. The age of a session is set back by a
servershake, so `ListInv` has to say how a heartbeat may fail: the session of a
server that has joined is at most one tick older than there were faults, and
once the server has sent its keepalive it is not older than that, or the
keepalive, the handshake or the servershake is still under way with a number the
metaserver knows (`RoundUnderWay`). A datagram that is received takes the round
one step further; a lost, doubled or late one pays for one tick with a fault;
and with fewer faults than heartbeats in a session the age never reaches its
expiry.

`WorldRouterProofs`. `RouterInv` speaks of a queue as one operation leaves it
while it is being executed, since one operation may send, hold back and release
others: every operation is in the queue, held back by the world or by its
entity, or dealt with, and in one place only (`QueueSound`, `WorldSound`,
`EntitiesSound`); and the operations that were due when they were sent are due
now, are in the queue in the order in which they were sent, by time and by
sequence number, and none has been overtaken by a later one (`OrderSound`).
Sending, suspension, release and dispatch each keep it, whatever the rest of the
step does. It gives `RouterTypes`, `NothingIsLost` and `HandledInOrder`.
`LostOpsHaveOneAnswer` rests on `AnswersInv` besides: an Unseen op comes from
its receiver, so that it is dropped and not answered if the receiver is gone
too; it answers an operation of another kind whose sender is that receiver; and
no two answer the same. It uses of `RouterInv` that only Ticks are held back and
sent again, which changes their sender, and that what is dispatched was queued.
Together with `EveryOpDispatched` it is why `LostOpIsAnswered` holds.

`SessionsProofs`. `RowsInv` adds to `OneRowPerAccount` that an account whose row
is scheduled is in memory, so that `createAccount` does not find it missing;
this gives `OneRow`. `SessionInv` states, account by account (`SessionOf`), what
`RoutersAreSessions` states by connection, with `MindsAgree`, and that a
connection in its destructor has yet to disconnect exactly the accounts that
still have it. It also says that minds and characters are entities in the world
(`InWorld`), and that an account that is logged in is in memory and not created
again. The main thread tests an operation in one step and carries it out in
another, so `TestsHold` says what the threads of the pool leave of the test:
unless it was overtaken, the connection is not in its destructor and the account
still has it. An operation that was overtaken may do anything its code does to
its own account and connection, and nothing is claimed of these; that it spoils
no other account is part of the proof. The end of a connection and the
destruction of an entity remove several minds in one step, each with what
`entity_mindsChanged` does; lemmas about `RemoveMinds` are shared by both. From
it follow `RoutersAreOwn`, `BothEndsAgree` and, with `WaitingInv` (an entity
that waits is hooked to the manager), `RegistryHasLinks` and
`WaitersAreOffered`. `RegistryIsLive` is inductive beside `SessionInv` in the
form it is stated: a link in the registry is one that its connection has yet to
take out (`ToDeregister`), which is why an entity may be offered over a
connection whose destructor runs, and why that does not last.

`StorageManagerProofs`, what is stored. All theorems of this module hold of
every run of the server, over crashes and restarts, with the steps of a tick
anywhere between operations. `StoredMatchesMemory` is about settled entities;
the others are the work. `Kept` says of every entity that the marks are true of
the queues (`Marked`: it is on the dirty queue exactly if it is queued and
connected; an entity that is not connected is transient or still to be
inserted), that its row is what it should be, or the entity is dirty and will be
written (`RowKept`), and of its property that it is as stored if it is marked
clean, and otherwise that an Update op or the tick will write it (`PropKept`);
and that the row of a destroyed entity is gone or about to be dropped
(`Dropped`). All but `Marked` makes an exception for the entities in `missed`,
and only for them. The entity that the tick has in hands is named apart
(`coming`, `busy`): its row is scheduled or written, its mark is not removed
yet. All of it is about `Final`, the tables once the pending commands are
applied, so that the worker's steps change nothing. An operation emits several
signals, and the entity that is being moved has a wrong row until the last of
them: `Kept` has a parameter for that, and the lemmas about `EntityUpdated`,
`Signal`, `RemoveChild`, `AddChild`, `ChangeContainer` and `MoveOurselves`
follow an operation signal by signal. `Empty` folds `MoveOurselves` over what a
destroyed entity contained; `SubsetInduction` and `FoldExists` of module
`Induction` carry the invariant through the fold. `RunInv` adds the types, the
ids that are not given out yet (`Fresh`), the commands that are pending and the
tree; `Inv` what a server that is down has. `NoChangeIsLost` and `NoGhosts`
follow from `Inv`. That the exceptions of `missed` are needed is what
`storage_race` shows.

`StorageManagerProofs`, rows and restarts. `DanglingIsTransient` is about the
tables as they are between two commands, not about `Final`. A row that no
pending command will write or delete, and the lack of one that none will insert,
is the same in `db` and in `Final` (`Touches`, `UntouchedByOne`); so a dangling
row that nothing pending is about dangles in `Final` too, and there `Inv` says
that the entity or its container is on a queue, or that the container is
transient. `RestartKeeps` needs `LastTick`, which says that what the tick of
`shutdown` has emptied stays empty, since no operation is dispatched any more.
Then the tables hold the row of each entity that is `Safe`, and no row of a
destroyed one (`StoppedTables`), `restoreWorld` reaches from the root each
entity whose containers are all `Safe` (`SafeIsReachable`), and
`RestartKeepsWorld` follows. What is not `Safe` was left on the dirty queue by
the limit, is or was in a transient container, or was changed where nobody was
told: section 6.

`StorageManagerProofs`, the tree. `Tree`, a part of `RunInv`, says that the live
entities are closed under "is in", and that any non-empty set of them that is
closed under it contains the root. `Within` climbs `MaxId` steps; in a tree each
step adds a container until the root is there, and there are not more than
`MaxId` others (`WithinTree`). A new entity keeps the tree (`TreeGrows`), a move
does since the new place is not within the entity (`TreeMoves`), and a deletion
since the contents go where the container was (`TreeShrinks`). A restoration
makes a tree of any rows, `Reachable` being built from the root down
(`RestoredTree`), if the root's row is as `registerEntityTable` wrote it:
`Spared` says that no pending command changes it.

`MetaListProofs`. `SlotsAreUsed` is `QueriesUnderWay` for any number of servers,
size of page and limit of queries, any network, and any queries that fail at
once or never end. To `QueriesUnderWay` `Busy` adds the types of the client's
record and that `m_nextQuery` is not beyond the list (`Queried`). A handler may
leave it for a moment: a page brings servers before `query` is called, and
`deleteQuery` removes a query before it starts others. `Slots` and `Served` say
what `Query` does: it asks a first part of the servers that are left, until
those of them that do not fail at once fill the slots. One datagram may drive
several handlers, so the lemmas follow `Read` piece by piece (`ReadKeeps`) and
the fold of `gotData` keeps `Busy` for any stream of pieces (`FoldKeeps`):
nothing is assumed of the order, number or age of the datagrams but that they
have the form of some datagram.

`ListIsWhole` is `UndisturbedListIsWhole` for the same instances. A response
does not say which part of the list it holds, so the claim rests on the order of
the exchange: `WholeInv` says that while nothing has disturbed it, at most one
datagram of the client's socket is under way, in one copy (`Lone`), and that it
fits what the client has (`InFlight`): a request asks for what comes after the
servers the client has, a response holds the page that starts there, and the
opening datagrams belong to an empty list. What the client has is the beginning
of the stored list (`Begun`), which is sorted, and each of its servers still has
a session (`Fit`), so that a page is packed as it is stored, address by address.
It is read piece by piece; `FoldReads` follows the fold of `gotData` over its
pieces until the list is complete or the next request is sent. Packets of an
earlier socket have another port (`Always`) and are not read.

`Induction`. Induction over data is out of this prover's reach as a scheme, but
not by least counterexample: a set of numbers that contains 0 and successors
contains all (`NumberInduction`), and the same for finite sets
(`SubsetInduction`). `FoldExists` and `StepsExist` show that the recursive
functions behind `FoldSet` and behind `Within` and `Reachable` exist, without
which nothing could be said about them.

Only model-checked: the liveness properties (`DeactivateReturns`,
`AcceptedTaskCompletes`, `EveryCommandApplied`, `BlockTerminates`,
`QueuedIsStored`, `ResumeIsObeyed`, `EveryOpDispatched`, `LostOpIsAnswered`,
`RunningIsListed`, `GoneIsUnlisted`, `ExchangeEnds`), since fairness and ENABLED
are out of the prover's reach. Every invariant and every action property of the
runs that hold is also a theorem.

## 6. What disagrees with the code

Three runs are expected to find a violation; each is a statement of the
repository that its code does not keep.

* `sqlitequeue_hang`: the destructor's notification falls between the worker's
  test of `m_active` and its wait, and the join never returns.
* `storage_race`: a change between `updateEntity` and `removeFlags(entity_queued)`,
  or between the commands of `insertEntity` and the connection of the signals, is
  neither stored nor queued.
* `metalist_done`: `AllQueriesDone` is "Emitted when the entire server list has been
  refreshed" (`Eris/Metaserver.h`), but also when the queries for one page end
  before the next page has come; that page is then ignored.

Other observations have no run of their own. They can be reproduced by the
change of a configuration that is named.

* "External operations must come from a connection" (`Account.cpp`, with an assertion),
  but the connection may be destroyed on a thread of the pool while the main thread
  handles the operation (`Sessions_minds.cfg` with the invariant
  `OperationHasConnection`). An account may then keep a mind after its session has
  ended (`MindsAgree` for all accounts, without the exemption of `TornAccounts`).
* A woken executor that finds its task taken returns a null pointer, which
  `TaskExecutor` takes for the end of the queue (`TaskQueue_single.cfg` with two
  executors and the invariant `ExitOnlyAtShutdown`). With the one executor of
  Ember's terrain this does not happen. An unprovoked wakeup has the same effect
  with one executor too, and then tasks stay unprocessed.
* A thread in `blockUntilAllQueriesComplete` that wakes up unprovoked returns at
  once, with commands pending. `BlockedUntilApplied` is about the other ways to
  return.
* A restored entity is queued to be inserted again, since `changeContainer`
  clears `entity_clean`; a move before the first tick is lost with the failing
  INSERT (`StorageManager_restart.cfg` with the invariant `EveryChangeIsStored`, beside
  the races of a tick). For the same reason an entity destroyed before the first
  tick keeps its row.
* `shutdown` runs one tick, and a tick stops at the limit: what is left on
  `m_dirtyEntities` is lost (`RestartKeepsWorld` names it: `Safe`).
* What is in a transient container when the server stops is lost, even if it has a
  row: the container has none, so `restoreChildren` does not find it.
* Attributes of a server without a session make an entry that never expires and
  is packed into lists as the address before it (`MetaList`, where it counts as
  `disturbed`).
* A client whose last queries fail at once stays QUERYING with no query under way,
  since only the end of a query calls `deleteQuery`; and a query whose connection
  breaks before it is established keeps its slot for ever. Both last until `cancel`
  or `refresh`.
* `cancel` does not stop the resolver, which then connects all the same; a name
  that cannot be resolved leaves the client VALID with an empty list.
* `apps/cyphesis/docs/dox/minds.md` says "When a client is disconnected the server will
  reassign the minds". Minds it had are reassigned; an entity that was offered
  to it and not yet possessed is not offered to another registered client
  (`Sessions`: `WaitingIsOffered` without the disjunct `abandoned`). The client
  asked is not the last one registered, as the comment says, but the one whose
  router id is the greatest string.
* Logging out an account does not deregister it as an AI client, and
  `setPossessionEnabled(false)` leaves it in `m_possessionRouters`: the end of
  that connection later removes a registration made on another one. Keys of
  destroyed entities stay in `m_possessions` unless somebody tries to use them.

## 7. Plan

1. Eris `Connection` and `Account` as status machines with timeouts, against
   `Sessions`; write buffers of `CommAsioClient`.
2. Squall: resolver and generator against a reference definition over small
   trees of records.

## 8. Not modelled

Physics, navigation, terrain and WFMath compute with floating-point numbers and
geometry, which TLC does not handle. Rendering, GUI and asset loading are I/O
around third-party engines. Python bindings and the rulesets are glue and
scripts without a protocol of their own. The command-line tools and the AI
client drive the same protocols. Varconf parses configuration files,
sequentially.

`DatabasePostgres` does not compile at this commit (`runSimpleSelectQuery` is
const and calls `clearPendingQuery`, which is not; `CommPSQLSocket::cancel` is
declared and never defined) and nothing in the build enables it. The teleport
between servers is dead code: `Peer::externalOperation` only logs,
`Peer::operation` is called by tests alone, and `ServerAccount` has no
`CreateOperation`. A model of either would be a model of an intention.

Of the metaserver, filters and attributes of clients, DNS requests,
administration, the score board and the HTTP and TCP handlers are left out.

## 9. Running

    tlc -workers 2 -config TaskQueue_two.cfg MCTaskQueue
    tlapm TaskQueueProofs.tla
    tlapm SQLiteQueueProofs.tla
    tlapm MetaserverProofs.tla
    tlapm Induction.tla
    tlapm SessionsProofs.tla
    tlapm WorldRouterProofs.tla
    tlapm StorageManagerProofs.tla
    tlapm MetaListProofs.tla

`PROJECT.json` names module and configuration of each run. The longest are
`sessions_minds`, about three minutes, `storage_restart`, about two, and
`metalist_pages`, about one. `SessionsProofs` and `MetaListProofs` take about
five minutes and `StorageManagerProofs` about ten; the others are shorter.
