------------------------------ MODULE Sessions ------------------------------
(***************************************************************************)
(* Who is logged in where and who controls which character in Cyphesis:    *)
(* Connection, Account, Lobby, ServerRouting and Persistence for the       *)
(* sessions, ExternalMindsManager, PossessionAuthenticator, MindProperty   *)
(* and MindsProperty for the minds (apps/cyphesis/src).                    *)
(*                                                                         *)
(* The same facts are kept in many places, each with pointers to objects   *)
(* that others own: a connection's routers, an account's connection and    *)
(* minds, an entity's minds, the lobby, the registry of AI clients.  One   *)
(* handler changes them through signals that re-enter each other.          *)
(*                                                                         *)
(* Operations are handled in the main thread, one at a time, each in two   *)
(* steps: it is taken from the queue of its connection and tested, and     *)
(* then does what it does.  Connections come and go in the threads of the  *)
(* pool, at any time: nothing keeps ~Connection from running while the     *)
(* main thread handles an operation of that very connection.  A step is    *)
(* atomic: two threads inside one container at once are left out.          *)
(*                                                                         *)
(* An account is known by its router id, an entity is created once.  A     *)
(* mind is a pair of an account and an entity.                             *)
(***************************************************************************)
EXTENDS Naturals, FiniteSets

CONSTANTS
    Accounts,      \* the accounts, by router id
    Admins,        \* accounts that may become AI clients
    Connections,   \* network connections
    Entities,      \* characters
    None,          \* no connection; the part of a router that is no mind
    Stored,        \* accounts that are in the database at the start
    MaxOvertaken   \* bound: sessions that end during an operation

ASSUME SessionsAssumption ==
    /\ Accounts \subseteq Nat
    /\ IsFiniteSet(Accounts)
    /\ Admins \subseteq Accounts
    /\ Stored \subseteq Accounts
    /\ MaxOvertaken \in Nat
    /\ None \notin Connections \cup Entities

VARIABLES
    open,                  \* connections that exist
    closing,               \* those in ~Connection
    deregistering,         \* Connection: AI clients that ~Connection has to deregister
    leaving,               \* Connection: accounts that it then has to disconnect
    handling,              \* the operation in the main thread, if any
    overtaken,             \* history: sessions that ended during an operation
    m_routers,             \* Connection: its routers
    m_connectableRouters,  \* Connection: its accounts
    m_possessionRouters,   \* Connection: accounts it registered as AI clients
    m_connection,          \* Account: its connection
    m_minds,               \* Account: the entities it has a mind for
    m_charactersDict,      \* Account: its characters
    lobby,                 \* Lobby::m_accounts
    m_accounts,            \* ServerRouting: accounts in memory
    rows,                  \* account rows: scheduled and stored ones
    entity,                \* life of an entity
    minds,                 \* Entity: accounts with a mind in its MindsProperty
    hooked,                \* entities whose signals reach the manager
    m_connections,         \* ExternalMindsManager: account to its link
    m_unpossessedEntities, \* ExternalMindsManager
    m_possessions,         \* PossessionAuthenticator: entities with a key
    offers,                \* Possess ops with a valid key, by link and entity
    abandoned              \* history: entities whose offer went with its link

threadVars == <<handling, overtaken>>
lifeVars == <<open, closing, deregistering, leaving>>
tableVars == <<m_routers, m_connectableRouters, m_possessionRouters>>
connectionVars == <<lifeVars, tableVars>>
accountVars == <<m_connection, m_minds, m_charactersDict, lobby, m_accounts, rows>>
entityVars == <<entity, minds, hooked>>
managerVars == <<m_connections, m_unpossessedEntities, m_possessions, offers, abandoned>>
vars == <<threadVars, connectionVars, accountVars, entityVars, managerVars>>

\* The router of account a itself, and that of its mind for e.
Router(a, e) == [account |-> a, mind |-> e]

Alive == {e \in Entities : entity[e] = "alive"}

Init ==
    /\ handling = {}
    /\ overtaken = {}
    /\ open = {}
    /\ closing = {}
    /\ deregistering = [c \in Connections |-> {}]
    /\ leaving = [c \in Connections |-> {}]
    /\ m_routers = [c \in Connections |-> {}]
    /\ m_connectableRouters = [c \in Connections |-> {}]
    /\ m_possessionRouters = [c \in Connections |-> {}]
    /\ m_connection = [a \in Accounts |-> None]
    /\ m_minds = [a \in Accounts |-> {}]
    /\ m_charactersDict = [a \in Accounts |-> {}]
    /\ lobby = {}
    /\ m_accounts = {}
    /\ rows = [a \in Accounts |-> [scheduled |-> 0,
                                   stored |-> IF a \in Stored THEN 1 ELSE 0]]
    /\ entity = [e \in Entities |-> "new"]
    /\ minds = [e \in Entities |-> {}]
    /\ hooked = {}
    /\ m_connections = [a \in Accounts |-> None]
    /\ m_unpossessedEntities = {}
    /\ m_possessions = {}
    /\ offers = {}
    /\ abandoned = {}

-----------------------------------------------------------------------------
\* ExternalMindsManager.

Registered(registry) == {a \in Accounts : registry[a] # None}

(***************************************************************************)
(* requestPossessionFromRegisteredClients for the entities of es: "Use the *)
(* last one registered", which is the one with the greatest router id.     *)
(* Entities without a key are left out.                                    *)
(***************************************************************************)
RequestPossession(registry, keys, es) ==
    LET asked == IF Registered(registry) = {} THEN {} ELSE es \cap keys
        last == CHOOSE a \in Registered(registry) :
                    \A b \in Registered(registry) : b <= a
    IN  /\ offers' = offers \cup {[link |-> registry[last], entity |-> e] : e \in asked}
        /\ abandoned' = abandoned \ asked

(***************************************************************************)
(* entity_mindsChanged for the entities whose MindsProperty was applied    *)
(* with minds to now.  Those without a mind get a key unless they have one *)
(* (addPossession) and are offered.  In the others nothing is to be done.  *)
(***************************************************************************)
MindsChanged(now, changed) ==
    LET seen == changed \cap hooked
        empty == {e \in seen : now[e] = {}}
    IN  /\ minds' = now
        /\ m_unpossessedEntities' = (m_unpossessedEntities \ seen) \cup empty
        /\ m_possessions' = m_possessions \cup empty
        /\ RequestPossession(m_connections, m_possessions \cup empty, empty)

\* Mutant of AddConnection: the entities in waiting are not looked at.
AddConnectionOnly(a, c) ==
    /\ m_connections' = [m_connections EXCEPT ![a] = c]
    /\ UNCHANGED <<offers, abandoned>>

\* addConnection for a router that is not registered: "As we now have a new
\* connection we'll see if there are any minds in waiting".
AddConnection(a, c) ==
    /\ m_connections' = [m_connections EXCEPT ![a] = c]
    /\ RequestPossession(m_connections', m_possessions, m_unpossessedEntities)

\* MindProperty::apply with a mind that is enabled: requestPossession.
RequestMind(e) ==
    /\ handling = {}
    /\ entity[e] = "alive"
    /\ hooked' = hooked \cup {e}
    /\ m_possessions' = m_possessions \cup {e}
    /\ m_unpossessedEntities' = m_unpossessedEntities \cup {e}
    /\ RequestPossession(m_connections, m_possessions',
                         IF minds[e] = {} THEN {e} ELSE {})
    /\ UNCHANGED <<threadVars, connectionVars, accountVars, entity, minds, m_connections>>

\* MindProperty::apply with a mind that is not, or remove: removeRequest.
RemoveRequest(e) ==
    /\ handling = {}
    /\ e \in m_unpossessedEntities
    /\ m_unpossessedEntities' = m_unpossessedEntities \ {e}
    /\ UNCHANGED <<threadVars, connectionVars, accountVars, entityVars, m_connections,
                   m_possessions, offers, abandoned>>

-----------------------------------------------------------------------------
\* The main thread.

\* getAccountByName: from memory or else from the database, which does not
\* have the rows that are only scheduled.
Found(a) == a \in m_accounts \/ rows[a].stored > 0

\* Operation op of account a over connection c, about entity e.
Operation(op, c, a, e) == [op |-> op, link |-> c, account |-> a, entity |-> e]

ConnectionOps == {"LOGIN", "CREATE", "LOGOUT"}

AccountOps == {"ENABLE", "DISABLE", "POSSESS_OWN", "POSSESS_KEY", "POSSESS_LATE", "LOGOUT_MIND"}

(***************************************************************************)
(* What is tested before anything is changed.  An operation of an account  *)
(* is in the queue of its router, and the account has the connection.      *)
(***************************************************************************)
Test(op, c, a, e) ==
    /\ op \in AccountOps => m_connection[a] = c /\ Router(a, None) \in m_routers[c]
    /\ op = "LOGIN" => Found(a) /\ m_connection[a] = None
    /\ op = "CREATE" => m_routers[c] = {} /\ ~Found(a)
    /\ op = "LOGOUT" => a \in m_connectableRouters[c]
    /\ op = "ENABLE" => a \in Admins /\ m_connections[a] = None
    /\ op = "DISABLE" => a \in m_possessionRouters[c]
    /\ op = "POSSESS_OWN" => e \in m_charactersDict[a] \ m_minds[a]
    /\ op \in {"POSSESS_KEY", "POSSESS_LATE"} => [link |-> c, entity |-> e] \in offers
    /\ op = "POSSESS_KEY" => entity[e] = "alive" /\ e \notin m_minds[a]
    /\ op = "POSSESS_LATE" => entity[e] = "destroyed"
    /\ op = "LOGOUT_MIND" => e \in m_minds[a]

\* dispatch takes an operation from a connection that is registered.
Take(op, c, a, e) ==
    /\ handling = {}
    /\ c \in open \ closing
    /\ Test(op, c, a, e)
    /\ handling' = {Operation(op, c, a, e)}
    /\ UNCHANGED <<overtaken, connectionVars, accountVars, entityVars, managerVars>>

\* The operation is carried out, with the connection that was found.
Handled(op, c, a, e) ==
    /\ handling = {Operation(op, c, a, e)}
    /\ handling' = {}
    /\ UNCHANGED overtaken

-----------------------------------------------------------------------------
\* Connection: login and logout.

\* A new connection.  (A name is used again when nothing refers to it.)
Connect(c) ==
    /\ c \notin open
    /\ \A a \in Accounts : c \notin {m_connection[a], m_connections[a]}
    /\ \A h \in handling : h.link # c
    /\ open' = open \cup {c}
    /\ m_routers' = [m_routers EXCEPT ![c] = {}]
    /\ m_connectableRouters' = [m_connectableRouters EXCEPT ![c] = {}]
    /\ m_possessionRouters' = [m_possessionRouters EXCEPT ![c] = {}]
    /\ UNCHANGED <<threadVars, closing, deregistering, leaving, accountVars, entityVars,
                   managerVars>>

\* addConnectableRouter and Lobby::addAccount.
Join(c, a) ==
    /\ m_connection' = [m_connection EXCEPT ![a] = c]
    /\ m_routers' = [m_routers EXCEPT ![c] = @ \cup {Router(a, None)}]
    /\ m_connectableRouters' = [m_connectableRouters EXCEPT ![c] = @ \cup {a}]
    /\ lobby' = lobby \cup {a}
    /\ UNCHANGED <<lifeVars, m_possessionRouters, m_minds, m_charactersDict,
                   entityVars, managerVars>>

\* A lookup that leads nowhere, such as that of a login with a wrong password,
\* still brings the account into memory.
LookUp(a) ==
    /\ handling = {}
    /\ Found(a)
    /\ m_accounts' = m_accounts \cup {a}
    /\ UNCHANGED <<threadVars, connectionVars, m_connection, m_minds, m_charactersDict, lobby, rows,
                   entityVars, managerVars>>

LoginOperation(c, a) ==
    /\ Handled("LOGIN", c, a, None)
    /\ m_accounts' = m_accounts \cup {a}
    /\ Join(c, a)
    /\ UNCHANGED rows

\* Mutant of AddAccount: the account is stored and not kept in memory.
StoreAccount(a) ==
    /\ rows' = [rows EXCEPT ![a].scheduled = @ + 1]
    /\ UNCHANGED m_accounts

\* ServerRouting::addAccount: store schedules the row.
AddAccount(a) ==
    /\ m_accounts' = m_accounts \cup {a}
    /\ rows' = [rows EXCEPT ![a].scheduled = @ + 1]

CreateOperation(c, a) ==
    /\ Handled("CREATE", c, a, None)
    /\ AddAccount(a)
    /\ Join(c, a)

\* The database worker stores the row.
InsertRow(a) ==
    /\ rows[a].scheduled > 0
    /\ rows' = [rows EXCEPT ![a] = [scheduled |-> @.scheduled - 1,
                                    stored |-> @.stored + 1]]
    /\ UNCHANGED <<threadVars, connectionVars, m_connection, m_minds, m_charactersDict,
                   lobby, m_accounts, entityVars, managerVars>>

-----------------------------------------------------------------------------
\* The end of minds.

Pairs(S) == {Router(a, e) : a \in S, e \in Entities}

\* Minds of the entities when those of the pairs in gone are removed.
Without(gone) == [e \in Entities |-> {a \in minds[e] : Router(a, e) \notin gone}]

\* Mutant of RemoveMinds: the entity keeps the mind.
RemoveMindsFromAccount(gone) ==
    /\ m_minds' = [a \in Accounts |-> {e \in m_minds[a] : Router(a, e) \notin gone}]
    /\ MindsChanged(minds, {r.mind : r \in gone} \cap Alive)

\* removeMindFromEntity for each mind of gone, which then leaves m_minds.
RemoveMinds(gone) ==
    /\ m_minds' = [a \in Accounts |-> {e \in m_minds[a] : Router(a, e) \notin gone}]
    /\ MindsChanged(Without(gone), {r.mind : r \in gone} \cap Alive)

\* The minds of the accounts in S.
MindsOf(S) == {r \in Pairs(S) : r.mind \in m_minds[r.account]}

\* The routers when the connection of account a loses those of gone.
Unrouted(a, gone) ==
    [d \in Connections |-> IF d = m_connection[a] THEN m_routers[d] \ gone ELSE m_routers[d]]

\* disconnectObject: the lobby, setConnection(nullptr) with the minds, and the
\* tables of the connection.
DisconnectObject(c, a) ==
    /\ lobby' = lobby \ {a}
    /\ m_connection' = [m_connection EXCEPT ![a] = None]
    /\ m_connectableRouters' = [m_connectableRouters EXCEPT ![c] = @ \ {a}]
    /\ m_routers' = [Unrouted(a, MindsOf({a})) EXCEPT ![c] = @ \ {Router(a, None)}]
    /\ RemoveMinds(MindsOf({a}))
    /\ UNCHANGED <<m_possessionRouters, m_charactersDict, m_accounts, rows, entity, hooked,
                   m_connections>>

\* Connection::LogoutOperation of one account.
Logout(c, a) ==
    /\ Handled("LOGOUT", c, a, None)
    /\ DisconnectObject(c, a)
    /\ UNCHANGED lifeVars

\* The main thread may be handling an operation of connection c.
Overtake(c) ==
    LET torn == {h \in handling : h.link = c}
    IN  /\ torn # {} => Cardinality(overtaken) < MaxOvertaken
        /\ overtaken' = overtaken \cup {[link |-> h.link, account |-> h.account] : h \in torn}

\* What was offered over connection c is void.
OffersVoid(c) ==
    /\ offers' = {o \in offers : o.link # c}
    /\ abandoned' = abandoned \cup {o.entity : o \in offers \ offers'}

\* Mutant of Disconnect: its AI clients stay registered.
DisconnectObjectsOnly(c) ==
    /\ c \in open \ closing
    /\ closing' = closing \cup {c}
    /\ leaving' = [leaving EXCEPT ![c] = m_connectableRouters[c]]
    /\ Overtake(c)
    /\ OffersVoid(c)
    /\ UNCHANGED <<handling, open, deregistering, tableVars, accountVars, entityVars,
                   m_connections, m_unpossessedEntities, m_possessions>>

(***************************************************************************)
(* ~Connection begins: deregisterConnection, after which no operation is   *)
(* taken from c, and nobody can answer an offer.  The loops to come are    *)
(* over its tables as they are now.  (The second copies its table a little *)
(* later, when only an operation that was overtaken can have changed it.)  *)
(***************************************************************************)
Disconnect(c) ==
    /\ c \in open \ closing
    /\ closing' = closing \cup {c}
    /\ deregistering' = [deregistering EXCEPT ![c] = m_possessionRouters[c]]
    /\ leaving' = [leaving EXCEPT ![c] = m_connectableRouters[c]]
    /\ Overtake(c)
    /\ OffersVoid(c)
    /\ UNCHANGED <<handling, open, tableVars, accountVars, entityVars, m_connections,
                   m_unpossessedEntities, m_possessions>>

\* "It's important that we disconnect ourselves as a possession router before
\* we disconnect our objects": removeConnection of one AI client.  What the
\* main thread has offered over c in the meantime has reached nobody.
Deregister(c, a) ==
    /\ a \in deregistering[c]
    /\ deregistering' = [deregistering EXCEPT ![c] = @ \ {a}]
    /\ m_connections' = [m_connections EXCEPT ![a] = None]
    /\ OffersVoid(c)
    /\ UNCHANGED <<threadVars, open, closing, leaving, tableVars, accountVars, entityVars,
                   m_unpossessedEntities, m_possessions>>

\* Then disconnectObject, for one account after the other.
DisconnectNext(c, a) ==
    /\ c \in closing
    /\ deregistering[c] = {}
    /\ a \in leaving[c]
    /\ leaving' = [leaving EXCEPT ![c] = @ \ {a}]
    /\ DisconnectObject(c, a)
    /\ UNCHANGED <<threadVars, open, closing, deregistering>>

\* The connection is gone.
Disconnected(c) ==
    /\ c \in closing
    /\ deregistering[c] = {}
    /\ leaving[c] = {}
    /\ open' = open \ {c}
    /\ closing' = closing \ {c}
    /\ UNCHANGED <<threadVars, deregistering, leaving, tableVars, accountVars, entityVars,
                   managerVars>>

\* Account::LogoutOperation for one mind, if it still has it.  (Without an
\* argument it makes the connection end.)
LogoutMind(c, a, e) ==
    LET gone == MindsOf({a}) \cap {Router(a, e)}
    IN  /\ Handled("LOGOUT_MIND", c, a, e)
        /\ m_routers' = Unrouted(a, gone)
        /\ RemoveMinds(gone)
        /\ UNCHANGED <<lifeVars, m_connectableRouters, m_possessionRouters, m_connection,
                       m_charactersDict, lobby, m_accounts, rows, entity, hooked,
                       m_connections>>

-----------------------------------------------------------------------------
\* Accounts and entities.

\* Connection::setPossessionEnabled, for the "possessive" attribute of an admin.
EnablePossession(c, a) ==
    /\ Handled("ENABLE", c, a, None)
    /\ m_possessionRouters' = [m_possessionRouters EXCEPT ![c] = @ \cup {a}]
    /\ AddConnection(a, c)
    /\ UNCHANGED <<lifeVars, m_routers, m_connectableRouters, accountVars, entityVars,
                   m_unpossessedEntities, m_possessions>>

\* The router stays in m_possessionRouters.
DisablePossession(c, a) ==
    /\ Handled("DISABLE", c, a, None)
    /\ m_connections' = [m_connections EXCEPT ![a] = None]
    /\ UNCHANGED <<connectionVars, accountVars, entityVars, m_unpossessedEntities,
                   m_possessions, offers, abandoned>>

\* Mutant of ConnectCharacter: the client cannot address its new mind.
ConnectWithoutRouter(c, a, e) ==
    /\ m_minds' = [m_minds EXCEPT ![a] = @ \cup {e}]
    /\ minds' = [minds EXCEPT ![e] = @ \cup {a}]
    /\ m_unpossessedEntities' = m_unpossessedEntities \ (hooked \cap {e})
    /\ UNCHANGED m_routers

\* connectCharacter where the account has no mind for e: the mind is a router
\* of the connection and one of the entity's minds, which the manager is told.
ConnectCharacter(c, a, e) ==
    /\ m_minds' = [m_minds EXCEPT ![a] = @ \cup {e}]
    /\ m_routers' = [m_routers EXCEPT ![c] = @ \cup {Router(a, e)}]
    /\ minds' = [minds EXCEPT ![e] = @ \cup {a}]
    /\ m_unpossessedEntities' = m_unpossessedEntities \ (hooked \cap {e})

\* PossessOperation of one's own character.
PossessOwn(c, a, e) ==
    /\ Handled("POSSESS_OWN", c, a, e)
    /\ ConnectCharacter(c, a, e)
    /\ UNCHANGED <<lifeVars, m_connectableRouters, m_possessionRouters, m_connection,
                   m_charactersDict, lobby, m_accounts, rows, entity, hooked,
                   m_connections, m_possessions, offers, abandoned>>

\* The key of e is removed; offers with it are void.
RemovePossession(e) ==
    /\ m_possessions' = m_possessions \ {e}
    /\ offers' = {o \in offers : o.entity # e}

\* PossessOperation with a key: authenticatePossession finds the entity.
PossessWithKey(c, a, e) ==
    /\ Handled("POSSESS_KEY", c, a, e)
    /\ ConnectCharacter(c, a, e)
    /\ RemovePossession(e)
    /\ UNCHANGED <<lifeVars, m_connectableRouters, m_possessionRouters, m_connection,
                   m_charactersDict, lobby, m_accounts, rows, entity, hooked,
                   m_connections, abandoned>>

\* ... or finds that it is gone: only then the key of a dead entity goes.
PossessTooLate(c, a, e) ==
    /\ Handled("POSSESS_LATE", c, a, e)
    /\ RemovePossession(e)
    /\ UNCHANGED <<connectionVars, accountVars, entityVars, m_connections,
                   m_unpossessedEntities, abandoned>>

\* An entity comes into the world, for an account (Account::CreateOperation
\* and later, whether or not the account is still logged in,
\* AccountProperty::apply) or for none.
CreateEntity(e, owners) ==
    /\ handling = {}
    /\ entity[e] = "new"
    /\ owners \subseteq {a \in Accounts : Found(a)}
    /\ Cardinality(owners) <= 1
    /\ entity' = [entity EXCEPT ![e] = "alive"]
    /\ m_charactersDict' = [a \in Accounts |->
                              IF a \in owners THEN m_charactersDict[a] \cup {e}
                              ELSE m_charactersDict[a]]
    /\ m_accounts' = m_accounts \cup owners
    /\ UNCHANGED <<threadVars, connectionVars, m_connection, m_minds, lobby, rows,
                   minds, hooked, managerVars>>

\* LocatedEntity::destroy: MindProperty::remove, then the handlers of the
\* accounts' minds, of their characters and of the manager.
DestroyEntity(e) ==
    /\ handling = {}
    /\ entity[e] = "alive"
    /\ entity' = [entity EXCEPT ![e] = "destroyed"]
    /\ m_minds' = [a \in Accounts |-> m_minds[a] \ {e}]
    /\ m_charactersDict' = [a \in Accounts |-> m_charactersDict[a] \ {e}]
    /\ m_routers' = [c \in Connections |-> {r \in m_routers[c] : r.mind # e}]
    /\ m_unpossessedEntities' = m_unpossessedEntities \ {e}
    /\ UNCHANGED <<threadVars, lifeVars, m_connectableRouters, m_possessionRouters,
                   m_connection, lobby, m_accounts, rows, minds, hooked, m_connections,
                   m_possessions, offers, abandoned>>

-----------------------------------------------------------------------------

\* The threads of the pool: connections and, with it, the database worker.
PoolStep ==
    \/ \E c \in Connections : Connect(c) \/ Disconnect(c) \/ Disconnected(c)
    \/ \E c \in Connections, a \in Accounts : Deregister(c, a) \/ DisconnectNext(c, a)
    \/ \E a \in Accounts : InsertRow(a)

\* The main thread takes an operation,
TakeStep ==
    \E c \in Connections, a \in Accounts :
        \/ \E op \in ConnectionOps \cup {"ENABLE", "DISABLE"} : Take(op, c, a, None)
        \/ \E op \in AccountOps \ {"ENABLE", "DISABLE"}, e \in Entities : Take(op, c, a, e)

\* carries it out
HandleStep ==
    \E c \in Connections, a \in Accounts :
        \/ LoginOperation(c, a)
        \/ CreateOperation(c, a)
        \/ Logout(c, a)
        \/ EnablePossession(c, a)
        \/ DisablePossession(c, a)
        \/ \E e \in Entities :
            \/ PossessOwn(c, a, e)
            \/ PossessWithKey(c, a, e)
            \/ PossessTooLate(c, a, e)
            \/ LogoutMind(c, a, e)

\* or lets the world go on.
WorldStep ==
    \/ \E a \in Accounts : LookUp(a)
    \/ \E e \in Entities : RequestMind(e) \/ RemoveRequest(e) \/ DestroyEntity(e)
    \/ \E e \in Entities, owners \in SUBSET Accounts : CreateEntity(e, owners)

Next == PoolStep \/ TakeStep \/ HandleStep \/ WorldStep

Spec == Init /\ [][Next]_vars

-----------------------------------------------------------------------------

Links == Connections \cup {None}

Routers == [account : Accounts, mind : Entities \cup {None}]

Operations == [op : ConnectionOps \cup AccountOps, link : Connections, account : Accounts,
               entity : Entities \cup {None}]

\* The types of the variables.
TypeOK ==
    /\ handling \subseteq Operations
    /\ overtaken \subseteq [link : Connections, account : Accounts]
    /\ open \subseteq Connections
    /\ closing \subseteq open
    /\ deregistering \in [Connections -> SUBSET Accounts]
    /\ leaving \in [Connections -> SUBSET Accounts]
    /\ m_routers \in [Connections -> SUBSET Routers]
    /\ m_connectableRouters \in [Connections -> SUBSET Accounts]
    /\ m_possessionRouters \in [Connections -> SUBSET Accounts]
    /\ m_connection \in [Accounts -> Links]
    /\ m_minds \in [Accounts -> SUBSET Entities]
    /\ m_charactersDict \in [Accounts -> SUBSET Entities]
    /\ lobby \subseteq Accounts
    /\ m_accounts \subseteq Accounts
    /\ rows \in [Accounts -> [scheduled : Nat, stored : Nat]]
    /\ entity \in [Entities -> {"new", "alive", "destroyed"}]
    /\ minds \in [Entities -> SUBSET Accounts]
    /\ hooked \subseteq Entities
    /\ m_connections \in [Accounts -> Links]
    /\ m_unpossessedEntities \subseteq Entities
    /\ m_possessions \subseteq Entities
    /\ offers \subseteq [link : Connections, entity : Entities]
    /\ abandoned \subseteq Entities

\* The accounts and connections of operations that ~Connection overtook.  The
\* code then uses a connection that is gone, and nothing is said of them.
TornAccounts == {h.account : h \in overtaken}
TornLinks == {h.link : h \in overtaken}

(***************************************************************************)
(* No operation of a client reaches what is not its own or is gone,        *)
(* although connections end in another thread: an account and its minds    *)
(* are routers of the connection it has and of no other, and that          *)
(* connection exists.  Not so for an account one of whose operations was   *)
(* overtaken by the end of its connection.                                 *)
(***************************************************************************)
RoutersAreSessions ==
    \A a \in Accounts \ TornAccounts :
        /\ m_connection[a] \in open \cup {None}
        /\ \A c \in open :
            /\ a \in m_connectableRouters[c] <=> m_connection[a] = c
            /\ {r \in m_routers[c] : r.account = a} =
                    IF m_connection[a] = c THEN {Router(a, None)} \cup MindsOf({a}) ELSE {}

(***************************************************************************)
(* The two ends of a mind agree, although either may go first and in       *)
(* another thread: the minds of an entity in the world are those of        *)
(* accounts that are logged in and have one for it, so that an operation   *)
(* sent to its minds meets no mind that was deleted.  The lobby holds the  *)
(* accounts that are logged in.  Accounts with an operation that was       *)
(* overtaken may keep a mind after the end of the session.                 *)
(***************************************************************************)
MindsAgree ==
    \A a \in Accounts \ TornAccounts :
        /\ \A e \in Alive : a \in minds[e] <=> e \in m_minds[a]
        /\ m_connection[a] = None => m_minds[a] = {}
        /\ a \in lobby <=> m_connection[a] # None

\* The AI clients that connection c will take out of the registry, or still
\* has to.
ToDeregister(c) == IF c \in closing THEN deregistering[c] ELSE m_possessionRouters[c]

(***************************************************************************)
(* The registry of AI clients and the offers hold links to connections     *)
(* that are there, each of which will take its entries out before it goes. *)
(* So the end of its minds, which makes the manager look for a client at   *)
(* that very time, never makes it ask the connection itself.  (The main    *)
(* thread may offer an entity over a connection whose destructor has       *)
(* begun and has yet to deregister it.)  Not so for a connection whose end *)
(* overtook one of its operations.                                         *)
(***************************************************************************)
RegistryIsLive ==
    /\ \A a \in Registered(m_connections) :
        m_connections[a] \notin TornLinks =>
            /\ m_connections[a] \in open
            /\ a \in ToDeregister(m_connections[a])
    /\ \A o \in offers :
        o.link \notin TornLinks => o.link \in open /\ ToDeregister(o.link) # {}

(***************************************************************************)
(* Whoever loses its last mind, is created or has waited is offered to an  *)
(* AI client if there is one: an entity that waits for a mind has a key,   *)
(* and if an AI client is registered a Possess op with that key is out,    *)
(* unless the client that had it went away before it took possession.      *)
(***************************************************************************)
WaitingIsOffered ==
    \A e \in m_unpossessedEntities :
        /\ e \in m_possessions
        /\ (minds[e] = {} /\ Registered(m_connections) # {})
            => \/ \E o \in offers : o.entity = e
               \/ e \in abandoned

(***************************************************************************)
(* An account has one row, although a login or a creation reads the table  *)
(* at once and the row of a new account is only scheduled: until it is     *)
(* stored the account is in memory.                                        *)
(***************************************************************************)
OneRowPerAccount ==
    \A a \in Accounts : rows[a].scheduled + rows[a].stored <= 1

(***************************************************************************)
(* "External operations must come from a connection" (Account.cpp), with   *)
(* the assertion that there is one.  This does NOT hold: while the main    *)
(* thread handles an operation of an account, a thread of the pool can     *)
(* destroy its connection.                                                 *)
(***************************************************************************)
OperationHasConnection ==
    \A h \in handling : h.op \in AccountOps => m_connection[h.account] # None

=============================================================================
