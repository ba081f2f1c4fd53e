--------------------------- MODULE StorageManager ---------------------------
(***************************************************************************)
(* Persistence of the world of the Cyphesis server:                        *)
(* apps/cyphesis/src/server/StorageManager.cpp, with the parts of          *)
(* LocatedEntity, WorldRouter and Database it works on.                    *)
(*                                                                         *)
(* The main thread changes the world; signals put entities on three        *)
(* queues; tick() turns the queues into SQL commands; the database worker  *)
(* (module SQLiteQueue) applies the commands in order.  After a shutdown   *)
(* or a crash the world is rebuilt from the rows.  tick() runs on a thread *)
(* of the pool, so its steps come between the operations at will.          *)
(*                                                                         *)
(* An entity has a place in the containment tree and one instance          *)
(* property, which stands for all of them: they are stored one by one and  *)
(* independently of each other.                                            *)
(***************************************************************************)
EXTENDS Naturals, Sequences, FiniteSets, FiniteSetsExt, SequencesExt

CONSTANTS
    MaxId,         \* bound: the largest entity id newId() may return
    Values,        \* the values a property may be set to
    Unset,         \* a property that was set to Element none
    Absent,        \* no such property, no such row
    Nowhere,       \* no parent
    QueryLimit,    \* tick: more pending queries than this end the tick
    MaxRestarts,   \* bound: how often the server is started again
    MaxChanges     \* bound: operations that change the world

ASSUME StorageManagerAssumption ==
    /\ MaxId \in Nat
    /\ QueryLimit \in Nat
    /\ MaxRestarts \in Nat
    /\ MaxChanges \in Nat
    /\ {Absent, Nowhere} \cap Nat = {} /\ Absent # Nowhere
    /\ Absent \notin Values \cup {Unset}

VARIABLES
    entities,      \* WorldRouter::m_eobjects
    parent,        \* LocatedEntity::m_parent
    prop,          \* value of the entity's instance property
    flags,         \* flags of the entity, of its property, of its signals
    unstored,      \* m_unstoredEntities
    dirty,         \* m_dirtyEntities
    gone,          \* m_destroyedEntities
    missed,        \* history: entities whose change nobody was told of
    tick,          \* where tick() is
    pending,       \* commands scheduled and not applied yet
    db,            \* the tables "entities" (id -> loc) and "properties"
    idGenerator,   \* of DatabaseSQLite
    server,        \* is the server running, shutting down or down?
    restarts,      \* how often it was started again
    changes        \* operations that changed the world so far

worldVars == <<entities, parent, prop, flags>>
queueVars == <<unstored, dirty, gone, missed>>
dbVars == <<pending, db>>
serverVars == <<idGenerator, server, restarts, changes>>
vars == <<worldVars, queueVars, tick, dbVars, serverVars>>

\* The world entity, consts::rootWorldIntId: it is never created or deleted.
Root == 0
Ids == 1 .. MaxId
Entities == {Root} \cup Ids

(***************************************************************************)
(* clean, posClean, queued, destroyed and updateQueued (an Update op is on *)
(* its way) are the flags of LocatedEntity.h; propClean and unsent are     *)
(* prop_flag_persistence_clean and prop_flag_unsent of the property,       *)
(* locUnsent the latter for "loc"; ephem is entity_ephem, which the type   *)
(* property "transient" sets; connected: the entity's signals call         *)
(* entityUpdated.  stored is history: its row was found or scheduled.      *)
(***************************************************************************)
Flags == {"clean", "posClean", "queued", "destroyed", "updateQueued", "ephem",
          "propClean", "unsent", "locUnsent", "connected", "stored"}

entity_clean_mask == {"clean", "posClean"}

-----------------------------------------------------------------------------
\* The database.

\* A command of Database.cpp, on the row of entity e.
Command(op, e, arg) == [op |-> op, id |-> e, arg |-> arg]

\* What a command does to the tables.  An INSERT of an id that is there fails;
\* foreign keys are not enforced by SQLite unless a connection asks for it.
Apply(d, c) ==
    CASE c.op = "insertEntity" ->
            IF d.rows[c.id] = Absent THEN [d EXCEPT !.rows[c.id] = c.arg] ELSE d
      [] c.op = "updateEntity" ->
            IF d.rows[c.id] # Absent THEN [d EXCEPT !.rows[c.id] = c.arg] ELSE d
      [] c.op = "updateEntityWithoutLoc" -> d
      [] c.op = "upsertProperties" -> [d EXCEPT !.props[c.id] = c.arg]
      [] c.op = "deleteProperty" -> [d EXCEPT !.props[c.id] = Absent]
      [] c.op = "deleteProperties" -> [d EXCEPT !.props[c.id] = Absent]
      [] c.op = "deleteEntity" -> [d EXCEPT !.rows[c.id] = Absent]
      [] c.op = "deleteThoughts" -> d

\* The tables once everything that is pending is applied.
Final == FoldLeft(Apply, db, pending)

\* Database::dropEntity
DropEntity(e) == <<Command("deleteProperties", e, Absent),
                   Command("deleteEntity", e, Absent),
                   Command("deleteThoughts", e, Absent)>>

-----------------------------------------------------------------------------
\* Signals.  A change of the world is a record w of the variables it may
\* change; one operation of the code sends several signals.

World == [parent |-> parent, flags |-> flags, dirty |-> dirty, gone |-> gone,
          missed |-> missed]

AddFlags(w, e, f) == [w EXCEPT !.flags[e] = @ \cup f]
RemoveFlags(w, e, f) == [w EXCEPT !.flags[e] = @ \ f]

\* Mutant of EntityUpdated: a destroyed entity is queued like any other.
QueueDestroyed(w, e) ==
    IF "connected" \in w.flags[e] /\ "queued" \notin w.flags[e]
    THEN AddFlags([w EXCEPT !.dirty = Append(@, e)], e, {"queued"})
    ELSE w

\* StorageManager::entityUpdated, if the signal is connected to it.
EntityUpdated(w, e) ==
    CASE "connected" \notin w.flags[e] -> w
      [] "connected" \in w.flags[e] /\ "destroyed" \in w.flags[e] ->
            [w EXCEPT !.gone = Append(@, e)]
      [] {"connected", "queued"} \subseteq w.flags[e]
            /\ "destroyed" \notin w.flags[e] -> w
      [] OTHER -> AddFlags([w EXCEPT !.dirty = Append(@, e)], e, {"queued"})

(***************************************************************************)
(* History: the signal that e has changed does not make anybody store the  *)
(* change.  Either its row is there and the signal is not connected yet:   *)
(* the INSERT to come fails, or is already scheduled; or e is still marked *)
(* as queued although tick() has just written it.                          *)
(***************************************************************************)
Unheard(w, e, signal) ==
    \/ /\ "stored" \in w.flags[e] /\ "connected" \notin w.flags[e]
       /\ \/ signal = "containered"
          \/ "destroyed" \in w.flags[e]
          \/ tick = "inserted" /\ e = Head(unstored)
    \/ /\ {"connected", "queued"} \subseteq w.flags[e]
       /\ "destroyed" \notin w.flags[e]
       /\ tick = "updated" /\ e = Head(dirty)

\* e has changed, and says so by its signal updated or containered.
Signal(w, e, signal) ==
    EntityUpdated([w EXCEPT !.missed = IF Unheard(w, e, signal)
                                       THEN @ \cup {e} ELSE @], e)

Children(w, e) == {c \in Ids : w.parent[c] = e}

\* LocatedEntity::removeChild, on the parent of e.
RemoveChild(w, e) ==
    LET w1 == [w EXCEPT !.parent[e] = Nowhere]
    IN  IF Children(w1, w.parent[e]) = {}
        THEN EntityUpdated(w1, w.parent[e])
        ELSE w1

\* LocatedEntity::addChild
AddChild(w, e, to) ==
    LET w1 == IF Children(w, to) = {} THEN EntityUpdated(w, to) ELSE w
    IN  [w1 EXCEPT !.parent[e] = to]

\* LocatedEntity::changeContainer: applyProperty(loc) makes the entity
\* unclean, and the containered signal follows.
ChangeContainer(w, e, to) ==
    LET w1 == IF w.parent[e] = Nowhere THEN w ELSE RemoveChild(w, e)
        w2 == AddChild(w1, e, to)
        w3 == RemoveFlags(AddFlags(w2, e, {"locUnsent"}), e, {"clean"})
    IN  Signal(w3, e, "containered")

\* LocatedEntity::moveOurselves to another parent: moveToNewLocation, which
\* ends in enqueueUpdateOp, then the updated signal.
MoveOurselves(w, e, to) ==
    LET w1 == AddFlags(ChangeContainer(w, e, to), e, {"updateQueued"})
    IN  Signal(RemoveFlags(w1, e, {"clean"}), e, "updated")

-----------------------------------------------------------------------------
\* The server starts with the one row that registerEntityTable writes; root
\* is connected by initWorld.

RootFlags == {"clean", "connected", "stored"}

Init ==
    /\ entities = {Root}
    /\ parent = [e \in Entities |-> Nowhere]
    /\ prop = [e \in Entities |-> Absent]
    /\ flags = [e \in Entities |-> IF e = Root THEN RootFlags ELSE {}]
    /\ unstored = <<>>
    /\ dirty = <<>>
    /\ gone = <<>>
    /\ missed = {}
    /\ tick = "idle"
    /\ pending = <<>>
    /\ db = [rows |-> [e \in Entities |-> IF e = Root THEN Nowhere ELSE Absent],
             props |-> [e \in Entities |-> Absent]]
    /\ idGenerator = 0
    /\ server = "running"
    /\ restarts = 0
    /\ changes = 0

-----------------------------------------------------------------------------
\* The main thread: operations on the world.

\* One more operation that changes the world.
Changing ==
    /\ server = "running"
    /\ changes < MaxChanges
    /\ changes' = changes + 1

\* The changes collected in w become those of the step.
Become(w) ==
    /\ parent' = w.parent
    /\ flags' = w.flags
    /\ dirty' = w.dirty
    /\ gone' = w.gone
    /\ missed' = w.missed

\* History: a property that was left behind under this id belongs to e now.
Inherits(w, e, v) ==
    IF v = Absent /\ Final.props[e] # Absent
    THEN [w EXCEPT !.missed = @ \cup {e}] ELSE w

\* WorldRouter::addNewEntity and addEntity: the new entity gets its place and
\* the inserted signal makes entityInserted queue it, unless it is transient.
AddNewEntity(to, v, ephem) ==
    LET e == idGenerator + 1
        own == (IF v = Absent THEN {} ELSE {"unsent"})
                    \cup (IF ephem THEN {"ephem"} ELSE {})
        new == ChangeContainer([World EXCEPT !.flags[e] = own], e, to)
    IN  /\ Changing
        /\ idGenerator < MaxId
        /\ to \in entities
        /\ idGenerator' = e
        /\ entities' = entities \cup {e}
        /\ prop' = [prop EXCEPT ![e] = v]
        /\ IF ephem
           THEN /\ Become(new)
                /\ UNCHANGED unstored
           ELSE /\ Become(Inherits(AddFlags(new, e, {"queued"}), e, v))
                /\ unstored' = Append(unstored, e)
        /\ UNCHANGED <<tick, dbVars, server, restarts>>

\* LocatedEntity::SetOperation: setAttr, applyProperty, enqueueUpdateOp.
SetOperation(e, v) ==
    /\ Changing
    /\ e \in entities
    /\ prop' = [prop EXCEPT ![e] = v]
    /\ flags' = [flags EXCEPT ![e] = (@ \ {"propClean", "clean"})
                                        \cup {"unsent", "updateQueued"}]
    /\ UNCHANGED <<entities, parent, queueVars, tick, dbVars, idGenerator,
                   server, restarts>>

\* updateProperties: unsent properties are to be written to the storage, and
\* so is their entity.
Unsend(w, e) ==
    LET w1 == IF "unsent" \in w.flags[e]
              THEN RemoveFlags(w, e, {"propClean"}) ELSE w
    IN  RemoveFlags(w1, e, {"unsent", "locUnsent", "clean"})

\* LocatedEntity::UpdateOperation and updateProperties, for the Update op
\* that enqueueUpdateOp sent.
UpdateOperation(e) ==
    /\ server = "running"
    /\ e \in entities
    /\ "updateQueued" \in flags[e]
    /\ LET w == IF flags[e] \cap {"unsent", "locUnsent"} # {}
                THEN Signal(Unsend(World, e), e, "updated")
                ELSE World
       IN  Become(RemoveFlags(w, e, {"updateQueued"}))
    /\ UNCHANGED <<entities, prop, unstored, tick, dbVars, serverVars>>

\* The containers around e, e included, up to the world.
Within(e) ==
    LET Up[n \in 0 .. MaxId] ==
            IF n = 0 THEN {e}
            ELSE Up[n - 1] \cup {parent[x] : x \in {y \in Up[n - 1] : parent[y] # Nowhere}}
    IN  Up[MaxId]

\* Mutant of MayMove: an entity may be moved into what it contains.
MayMoveAnywhere(e, to) == to # e /\ to # parent[e]

\* The checks of moveOurselves: another parent, and not inside of e.
MayMove(e, to) == to # parent[e] /\ e \notin Within(to)

MoveOperation(e, to) ==
    /\ Changing
    /\ e \in entities \ {Root}
    /\ to \in entities
    /\ MayMove(e, to)
    /\ Become(MoveOurselves(World, e, to))
    /\ UNCHANGED <<entities, prop, unstored, tick, dbVars, idGenerator, server,
                   restarts>>

\* Mutant of Empty: what a destroyed entity contains is left behind.
EmptyNothing(w, e) == w

\* destroy(): everything in e moves to where e is.
Empty(w, e) ==
    LET Out(c, x) == MoveOurselves(x, c, w.parent[e])
    IN  FoldSet(Out, w, Children(w, e))

\* WorldRouter::delEntity and LocatedEntity::destroy: what e contains moves
\* to where e is, e leaves its parent, and the updated signal is sent.
DelEntity(e) ==
    LET w == Empty(AddFlags(World, e, {"destroyed"}), e)
    IN  /\ Changing
        /\ e \in entities \ {Root}
        /\ Become(Signal(RemoveChild(w, e), e, "updated"))
        /\ entities' = entities \ {e}
        /\ UNCHANGED <<prop, unstored, tick, dbVars, idGenerator, server,
                       restarts>>

-----------------------------------------------------------------------------
\* StorageManager::tick: every second while the server runs, once more while
\* it shuts down.

StartTick ==
    /\ server = "running"
    /\ tick = "idle"
    /\ tick' = "destroyed"
    /\ UNCHANGED <<worldVars, queueVars, dbVars, serverVars>>

\* The first loop, over m_destroyedEntities.
TickDestroyed ==
    /\ tick = "destroyed"
    /\ IF gone = <<>>
       THEN /\ tick' = "unstored"
            /\ UNCHANGED <<gone, pending>>
       ELSE /\ pending' = pending \o DropEntity(Head(gone))
            /\ gone' = Tail(gone)
            /\ UNCHANGED tick
    /\ UNCHANGED <<worldVars, unstored, dirty, missed, db, serverVars>>

\* insertEntity: the commands.
InsertCommands(e) ==
    <<Command("insertEntity", e, parent[e])>>
        \o IF prop[e] = Absent THEN <<>>
           ELSE <<Command("upsertProperties", e, prop[e])>>

PropClean(e) == IF prop[e] = Absent THEN {} ELSE {"propClean"}

\* The second loop, over m_unstoredEntities: insertEntity unless destroyed,
\* up to the point where everything is scheduled.
TickUnstored ==
    /\ tick = "unstored"
    /\ \/ /\ unstored = <<>>
          /\ tick' = "dirty"
          /\ UNCHANGED <<unstored, flags, pending>>
       \/ /\ unstored # <<>> /\ "destroyed" \in flags[Head(unstored)]
          /\ unstored' = Tail(unstored)
          /\ UNCHANGED <<tick, flags, pending>>
       \/ /\ unstored # <<>> /\ "destroyed" \notin flags[Head(unstored)]
          /\ tick' = "inserted"
          /\ pending' = pending \o InsertCommands(Head(unstored))
          /\ flags' = [flags EXCEPT ![Head(unstored)] =
                         @ \cup {"stored"} \cup PropClean(Head(unstored))]
          /\ UNCHANGED unstored
    /\ UNCHANGED <<entities, parent, prop, dirty, gone, missed, db, serverVars>>

\* The end of insertEntity: the mark goes, the signals are connected.
TickInserted ==
    /\ tick = "inserted"
    /\ flags' = [flags EXCEPT ![Head(unstored)] =
                   (@ \ {"queued"}) \cup {"clean", "connected"}]
    /\ unstored' = Tail(unstored)
    /\ tick' = "unstored"
    /\ UNCHANGED <<entities, parent, prop, dirty, gone, missed, dbVars,
                   serverVars>>

\* updateEntity: a property that is not clean is deleted when it is none and
\* written otherwise.
UpdateCommands(e) ==
    LET row == IF parent[e] = Nowhere
               THEN Command("updateEntityWithoutLoc", e, Absent)
               ELSE Command("updateEntity", e, parent[e])
        property == IF prop[e] = Absent \/ "propClean" \in flags[e] THEN <<>>
                    ELSE IF prop[e] = Unset
                         THEN <<Command("deleteProperty", e, Absent)>>
                         ELSE <<Command("upsertProperties", e, prop[e])>>
    IN  <<row>> \o property

\* The third loop, over m_dirtyEntities, up to the end of updateEntity.  Too
\* many pending queries end the tick.
TickDirty ==
    /\ tick = "dirty"
    /\ IF dirty = <<>> \/ Len(pending) > QueryLimit
       THEN /\ tick' = "idle"
            /\ UNCHANGED <<flags, pending>>
       ELSE LET e == Head(dirty)
            IN  /\ tick' = "updated"
                /\ IF entity_clean_mask \subseteq flags[e]
                   THEN UNCHANGED <<flags, pending>>
                   ELSE /\ pending' = pending \o UpdateCommands(e)
                        /\ flags' = [flags EXCEPT ![e] =
                                       @ \cup entity_clean_mask \cup PropClean(e)]
    /\ UNCHANGED <<entities, parent, prop, queueVars, db, serverVars>>

\* Mutant of TickPop: the entity leaves the queue and stays marked.
TickPopMarked ==
    /\ tick = "updated"
    /\ dirty' = Tail(dirty)
    /\ tick' = "dirty"
    /\ UNCHANGED <<worldVars, unstored, gone, missed, dbVars, serverVars>>

\* Mutant of TickPop: the loop's body ends without pop_front.
TickPopNothing ==
    /\ tick = "updated"
    /\ flags' = [flags EXCEPT ![Head(dirty)] = @ \ {"queued"}]
    /\ tick' = "dirty"
    /\ UNCHANGED <<entities, parent, prop, queueVars, dbVars, serverVars>>

\* The end of the loop's body: the mark goes, the entity leaves the queue.
TickPop ==
    /\ tick = "updated"
    /\ flags' = [flags EXCEPT ![Head(dirty)] = @ \ {"queued"}]
    /\ dirty' = Tail(dirty)
    /\ tick' = "dirty"
    /\ UNCHANGED <<entities, parent, prop, unstored, gone, missed, dbVars,
                   serverVars>>

\* The database worker.
ApplyCommand ==
    /\ pending # <<>>
    /\ db' = Apply(db, Head(pending))
    /\ pending' = Tail(pending)
    /\ UNCHANGED <<worldVars, queueVars, tick, serverVars>>

-----------------------------------------------------------------------------
\* Shutdown, crash and restart.

\* The main loop has ended and the pool threads are joined:
\* StorageManager::shutdown begins with a last tick.
Shutdown ==
    /\ server = "running"
    /\ restarts < MaxRestarts
    /\ tick = "idle"
    /\ server' = "stopping"
    /\ tick' = "destroyed"
    /\ UNCHANGED <<worldVars, queueVars, dbVars, idGenerator, restarts,
                   changes>>

\* Mutant of QueriesComplete: shutdown does not wait for the database.
NoWait == TRUE

QueriesComplete == pending = <<>>

\* ... and ends when blockUntilAllQueriesComplete returns.
ShutdownComplete ==
    /\ server = "stopping"
    /\ tick = "idle"
    /\ QueriesComplete
    /\ server' = "stopped"
    /\ UNCHANGED <<worldVars, queueVars, tick, dbVars, idGenerator, restarts,
                   changes>>

\* The process dies, and what is pending with it.
Crash ==
    /\ server \in {"running", "stopping"}
    /\ restarts < MaxRestarts
    /\ server' = "crashed"
    /\ pending' = <<>>
    /\ tick' = "idle"
    /\ UNCHANGED <<worldVars, queueVars, db, idGenerator, restarts, changes>>

\* The rows restoreChildren finds, from the root down.
Reachable ==
    LET Down[n \in 0 .. MaxId] ==
            IF n = 0 THEN {Root}
            ELSE Down[n - 1] \cup {e \in Ids : db.rows[e] \in Down[n - 1]}
    IN  Down[MaxId]

(***************************************************************************)
(* registerEntityIdGenerator, restoreWorld and initWorld.  restoreChildren *)
(* marks each entity as clean, but addEntity makes it unclean again        *)
(* (changeContainer) before its inserted signal reaches entityInserted,    *)
(* so it is queued like a new one; its container is added before it.       *)
(***************************************************************************)
Restore ==
    /\ server \in {"stopped", "crashed"}
    /\ server' = "running"
    /\ restarts' = restarts + 1
    /\ entities' = Reachable
    /\ parent' = [e \in Entities |->
                    IF e \in Reachable THEN db.rows[e] ELSE Nowhere]
    /\ prop' = [e \in Entities |->
                  IF e \in Reachable THEN db.props[e] ELSE Absent]
    /\ flags' = [e \in Entities |->
                   IF e \notin Reachable THEN {}
                   ELSE (IF db.props[e] = Absent THEN {} ELSE {"propClean"})
                        \cup (IF e = Root THEN RootFlags
                              ELSE {"queued", "locUnsent", "stored"})]
    /\ \E order \in SetToSeqs(Reachable \ {Root}) :
        /\ \A i, j \in DOMAIN order : parent'[order[j]] = order[i] => i < j
        /\ unstored' = order
    /\ dirty' = <<>>
    /\ gone' = <<>>
    /\ missed' = {}
    /\ idGenerator' = Max({e \in Entities : db.rows[e] # Absent})
    /\ UNCHANGED <<tick, dbVars, changes>>

-----------------------------------------------------------------------------

WorldStep ==
    \/ \E to \in Entities, v \in Values \cup {Absent}, ephem \in BOOLEAN :
        AddNewEntity(to, v, ephem)
    \/ \E e \in Entities, v \in Values \cup {Unset} : SetOperation(e, v)
    \/ \E e \in Entities : UpdateOperation(e) \/ DelEntity(e)
    \/ \E e, to \in Entities : MoveOperation(e, to)

TickStep ==
    \/ StartTick
    \/ TickDestroyed
    \/ TickUnstored
    \/ TickInserted
    \/ TickDirty
    \/ TickPop

Next ==
    \/ WorldStep
    \/ TickStep
    \/ ApplyCommand
    \/ Shutdown
    \/ ShutdownComplete
    \/ Crash
    \/ Restore

Spec == Init /\ [][Next]_vars

\* The timer of the tick fires again and again, the worker applies what it
\* finds (SQLiteQueue!EveryCommandApplied).
FairSpec == Spec /\ WF_vars(TickStep) /\ WF_vars(ApplyCommand)

-----------------------------------------------------------------------------

\* The types of the variables.
TypeOK ==
    /\ entities \in SUBSET Entities
    /\ parent \in [Entities -> Entities \cup {Nowhere}]
    /\ prop \in [Entities -> Values \cup {Unset, Absent}]
    /\ flags \in [Entities -> SUBSET Flags]
    /\ unstored \in Seq(Ids)
    /\ dirty \in Seq(Entities)
    /\ gone \in Seq(Ids)
    /\ missed \in SUBSET Entities
    /\ tick \in {"idle", "destroyed", "unstored", "inserted", "dirty", "updated"}
    /\ \A i \in DOMAIN pending : pending[i].id \in Entities
    /\ db.rows \in [Entities -> Entities \cup {Nowhere, Absent}]
    /\ db.props \in [Entities -> Values \cup {Unset, Absent}]
    /\ idGenerator \in 0 .. MaxId
    /\ server \in {"running", "stopping", "stopped", "crashed"}
    /\ restarts \in 0 .. MaxRestarts
    /\ changes \in 0 .. MaxChanges

\* Tables d hold the place and the property of e.  A property set to none has
\* no row, or a row that says none.
Holds(d, e) ==
    /\ d.rows[e] = parent[e]
    /\ d.props[e] = prop[e] \/ (prop[e] = Unset /\ d.props[e] = Absent)

\* Stored, on no queue and without an Update op on its way.
Settled(e) ==
    /\ "connected" \in flags[e] /\ "updateQueued" \notin flags[e]
    /\ e \notin Range(unstored) \cup Range(dirty)

(***************************************************************************)
(* No change is lost but in the ways that Unheard names: a settled entity  *)
(* of the running world is in the database as it is in memory, or will be  *)
(* once the pending commands are applied.  This is what entity_queued and  *)
(* entity_clean are for: entityUpdated does nothing for an entity that is  *)
(* marked as queued, tick skips one that is clean.  It holds of every run  *)
(* of the server, with operations between any two steps of a tick.         *)
(***************************************************************************)
StoredMatchesMemory ==
    (server = "running") =>
        \A e \in entities \ missed : Settled(e) => Holds(Final, e)

(***************************************************************************)
(* The same without exception: what the comments on entity_queued and on   *)
(* StorageManager's queues say of them.  It does NOT hold.                 *)
(***************************************************************************)
EveryChangeIsStored ==
    (server = "running") => \A e \in entities : Settled(e) => Holds(Final, e)

(***************************************************************************)
(* No ghost: the row of an entity that was destroyed in this run of the    *)
(* server is gone once the pending commands are applied, or the id is on   *)
(* m_destroyedEntities for the next tick; unless its end was Unheard.      *)
(***************************************************************************)
DestroyedIsDropped ==
    (server # "crashed") =>
        \A e \in Ids \ missed :
            "destroyed" \in flags[e]
                => Final.rows[e] = Absent \/ e \in Range(gone)

(***************************************************************************)
(* A row whose container has no row would not be found by restoreChildren. *)
(* For an entity of the world it is such only for a while, its own row is  *)
(* about to be written again or its container's to be inserted; or for as  *)
(* long as it stays in a transient container, which never has a row.       *)
(***************************************************************************)
DanglingLocIsTransient ==
    (server # "crashed") =>
        \A e \in (entities \ missed) \ {Root} :
            (db.rows[e] # Absent /\ db.rows[db.rows[e]] = Absent)
            => \/ "ephem" \in flags[db.rows[e]]
               \/ e \in Range(dirty)
               \/ db.rows[e] \in Range(unstored)
               \/ \E c \in Range(pending) :
                    \/ c.id = e /\ c.op = "updateEntity"
                    \/ c.id = db.rows[e] /\ c.op = "insertEntity"

(***************************************************************************)
(* The containment tree stays a tree: every entity of the world is within  *)
(* the root, after moves (moveOurselves), deletions of containers and the  *)
(* restoration of rows that a crash left behind.                           *)
(***************************************************************************)
WorldIsTree ==
    (server = "running") => \A e \in entities : /\ Root \in Within(e)
                                                /\ Within(e) \subseteq entities

\* The last tick has dealt with e, and no change of it was Unheard.
Safe(e) == e \notin missed \cup Range(dirty) /\ "connected" \in flags[e]

\* An entity that is Safe, as its containers are, is back in its place and
\* with its property unless its Update op was still queued; and nothing else
\* is back that was destroyed.
SafeIsBack ==
    /\ \A e \in entities :
        (\A c \in Within(e) : Safe(c)) =>
            /\ e \in entities' /\ parent'[e] = parent[e]
            /\ \/ "updateQueued" \in flags[e]
               \/ prop'[e] = prop[e]
               \/ prop[e] = Unset /\ prop'[e] = Absent
    /\ \A e \in entities' \ missed : "destroyed" \notin flags[e]

(***************************************************************************)
(* A shutdown and restart bring back the world: all that the last tick of  *)
(* shutdown() could write before the limit, in the same places and with    *)
(* their properties, and nothing that was destroyed.  Not what is in a     *)
(* transient container, nor what the limit left on m_dirtyEntities.        *)
(***************************************************************************)
RestartKeepsWorld ==
    [][(server = "stopped" /\ server' = "running") => SafeIsBack]_vars

(***************************************************************************)
(* Every entity on one of the queues is taken off it by some tick,         *)
(* although a tick gives up as soon as too many queries are pending.       *)
(***************************************************************************)
QueuedIsStored ==
    \A e \in Entities :
        (e \in Range(unstored) \cup Range(dirty))
            ~> (e \notin Range(unstored) \cup Range(dirty)
                \/ server # "running")

=============================================================================
