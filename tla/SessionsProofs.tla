--------------------------- MODULE SessionsProofs ---------------------------
(***************************************************************************)
(* Theorems about Sessions, for any sets of accounts, connections and      *)
(* entities.                                                               *)
(***************************************************************************)
EXTENDS Sessions, Induction

-----------------------------------------------------------------------------
\* The possible offers.
Offers == [link : Connections, entity : Entities]

\* The account that RequestPossession chooses.
Last(registry) ==
    CHOOSE a \in Registered(registry) : \A b \in Registered(registry) : b <= a

\* A registry with an AI client has a last one, whose link is a connection.
LEMMA LastRegistered ==
    ASSUME NEW registry \in [Accounts -> Links], Registered(registry) # {}
    PROVE  /\ Last(registry) \in Registered(registry)
           /\ registry[Last(registry)] \in Connections
<1>1. Registered(registry) \subseteq Accounts
  BY DEF Registered
<1>2. Registered(registry) \subseteq Nat /\ IsFiniteSet(Registered(registry))
  BY <1>1, SessionsAssumption, FS_Subset
<1>3. \E a \in Registered(registry) : \A b \in Registered(registry) : b <= a
  BY <1>2, FiniteHasMax
<1>4. Last(registry) \in Registered(registry)
  BY <1>3 DEF Last
<1> QED
  BY <1>4 DEF Registered, Links

\* What RequestPossession does to the offers: those that are out stay, the
\* entities of es with a key are offered if there is an AI client, to one that
\* is registered, and whoever is no longer abandoned is offered.
LEMMA RequestFacts ==
    ASSUME NEW registry \in [Accounts -> Links],
           NEW keys, NEW es \in SUBSET Entities,
           RequestPossession(registry, keys, es)
    PROVE  /\ offers \subseteq offers'
           /\ \A o \in offers' \ offers :
                /\ o \in Offers
                /\ \E a \in Registered(registry) : o.link = registry[a]
           /\ Registered(registry) # {} =>
                \A e \in es \cap keys : \E o \in offers' : o.entity = e
           /\ abandoned' \subseteq abandoned
           /\ \A e \in abandoned \ abandoned' : \E o \in offers' : o.entity = e
<1> DEFINE asked == IF Registered(registry) = {} THEN {} ELSE es \cap keys
<1>1. /\ offers' = offers \cup {[link |-> registry[Last(registry)], entity |-> e] : e \in asked}
      /\ abandoned' = abandoned \ asked
  BY DEF RequestPossession, Last
<1>2. ASSUME NEW e \in asked PROVE \E o \in offers' : o.entity = e
  <2> DEFINE o == [link |-> registry[Last(registry)], entity |-> e]
  <2>1. o \in offers' /\ o.entity = e
    BY <1>1
  <2> QED BY <2>1
<1>3. CASE Registered(registry) = {}
  BY <1>1, <1>3
<1>4. CASE Registered(registry) # {}
  <2>1. /\ Last(registry) \in Registered(registry)
        /\ registry[Last(registry)] \in Connections
    BY <1>4, LastRegistered
  <2>2. asked = es \cap keys
    BY <1>4
  <2>3. ASSUME NEW o \in offers' \ offers
        PROVE  /\ o \in Offers
               /\ o.link = registry[Last(registry)]
    <3>1. PICK e \in asked : o = [link |-> registry[Last(registry)], entity |-> e]
      BY <2>3, <1>1
    <3>2. e \in Entities
      BY <2>2
    <3> QED BY <3>1, <3>2, <2>1 DEF Offers
  <2> HIDE DEF asked
  <2> QED BY <1>1, <1>2, <2>1, <2>2, <2>3
<1> QED BY <1>3, <1>4

\* The offers and what was abandoned have their types.
OffersType == offers \subseteq Offers /\ abandoned \subseteq Entities

\* RequestPossession keeps them.
LEMMA RequestType ==
    ASSUME NEW registry \in [Accounts -> Links],
           NEW keys, NEW es \in SUBSET Entities, OffersType,
           RequestPossession(registry, keys, es)
    PROVE  OffersType'
<1>1. \A o \in offers' \ offers : o \in Offers
  BY RequestFacts
<1>2. abandoned' \subseteq abandoned
  BY RequestFacts
<1> QED BY <1>1, <1>2 DEF OffersType

\* What the minds and their manager have as types.
MindsType ==
    /\ m_minds \in [Accounts -> SUBSET Entities]
    /\ minds \in [Entities -> SUBSET Accounts]
    /\ m_unpossessedEntities \subseteq Entities
    /\ m_possessions \subseteq Entities
    /\ OffersType

\* The types hold of the parts.
LEMMA TypeParts ==
    ASSUME TypeOK
    PROVE  /\ MindsType
           /\ hooked \subseteq Entities
           /\ m_connections \in [Accounts -> Links]
BY DEF TypeOK, MindsType, OffersType, Offers

\* RemoveMinds keeps the types.
LEMMA RemoveMindsType ==
    ASSUME TypeOK, NEW gone, RemoveMinds(gone)
    PROVE  MindsType'
<1> DEFINE changed == {r.mind : r \in gone} \cap Alive
           empty == {e \in changed \cap hooked : Without(gone)[e] = {}}
<1>0. /\ MindsType
      /\ hooked \subseteq Entities
      /\ m_connections \in [Accounts -> Links]
  BY TypeParts
<1>1. Without(gone) \in [Entities -> SUBSET Accounts]
  BY <1>0 DEF Without, MindsType
<1>2. /\ minds' = Without(gone)
      /\ m_unpossessedEntities' = (m_unpossessedEntities \ (changed \cap hooked)) \cup empty
      /\ m_possessions' = m_possessions \cup empty
      /\ RequestPossession(m_connections, m_possessions \cup empty, empty)
  BY DEF RemoveMinds, MindsChanged
<1>3. empty \in SUBSET Entities
  BY <1>0
<1>4. m_minds' \in [Accounts -> SUBSET Entities]
  BY <1>0 DEF RemoveMinds, MindsType
<1> HIDE DEF empty
<1>5. OffersType'
  BY <1>0, <1>2, <1>3, RequestType DEF MindsType
<1> QED BY <1>0, <1>1, <1>2, <1>3, <1>4, <1>5 DEF MindsType

\* A router is known by its parts.
LEMMA RouterParts ==
    ASSUME NEW a \in Accounts, NEW e \in Entities \cup {None}
    PROVE  /\ Router(a, e) \in Routers
           /\ Router(a, e).account = a
           /\ Router(a, e).mind = e
           /\ \A r \in Routers : r = Router(a, e) <=> r.account = a /\ r.mind = e
BY DEF Router, Routers

\* DisconnectObject keeps the types.
LEMMA DisconnectObjectType ==
    ASSUME TypeOK, NEW c \in Connections, NEW a \in Accounts, DisconnectObject(c, a),
           UNCHANGED threadVars,
           open' \subseteq Connections /\ closing' \subseteq open',
           deregistering' \in [Connections -> SUBSET Accounts],
           leaving' \in [Connections -> SUBSET Accounts]
    PROVE  TypeOK'
<1>1. MindsType'
  BY RemoveMindsType DEF DisconnectObject
<1>2. lobby' \subseteq Accounts /\ m_connection' \in [Accounts -> Links]
  BY DEF DisconnectObject, TypeOK, Links
<1>3. m_connectableRouters' \in [Connections -> SUBSET Accounts]
  BY DEF DisconnectObject, TypeOK
<1>4. m_routers' \in [Connections -> SUBSET Routers]
  <2>1. Unrouted(a, MindsOf({a})) \in [Connections -> SUBSET Routers]
    BY DEF Unrouted, TypeOK
  <2> QED BY <2>1 DEF DisconnectObject
<1> QED
  BY <1>1, <1>2, <1>3, <1>4 DEF DisconnectObject, TypeOK, MindsType, OffersType, Offers,
                                threadVars

\* A login or a creation keeps the types of what Join changes.
LEMMA JoinType ==
    ASSUME TypeOK, NEW c \in Connections, NEW a \in Accounts, Join(c, a),
           handling' = {}, UNCHANGED overtaken,
           m_accounts' \subseteq Accounts,
           rows' \in [Accounts -> [scheduled : Nat, stored : Nat]]
    PROVE  TypeOK'
<1>1. m_connection' \in [Accounts -> Links] /\ lobby' \subseteq Accounts
  BY DEF Join, TypeOK, Links
<1>2. m_connectableRouters' \in [Connections -> SUBSET Accounts]
  BY DEF Join, TypeOK
<1>3. m_routers' \in [Connections -> SUBSET Routers]
  <2>1. Router(a, None) \in Routers
    BY DEF Router, Routers
  <2> QED BY <2>1 DEF Join, TypeOK
<1> QED
  BY <1>1, <1>2, <1>3 DEF Join, TypeOK, lifeVars, entityVars, managerVars

\* ConnectCharacter keeps the types.
LEMMA ConnectType ==
    ASSUME TypeOK, NEW c \in Connections, NEW a \in Accounts, NEW e \in Entities,
           ConnectCharacter(c, a, e)
    PROVE  /\ m_minds' \in [Accounts -> SUBSET Entities]
           /\ m_routers' \in [Connections -> SUBSET Routers]
           /\ minds' \in [Entities -> SUBSET Accounts]
           /\ m_unpossessedEntities' \subseteq Entities
<1>1. Router(a, e) \in Routers
  BY DEF Router, Routers
<1> QED BY <1>1 DEF ConnectCharacter, TypeOK

-----------------------------------------------------------------------------
\* The server before anyone connects has the types.
LEMMA InitType == Init => TypeOK
<1> SUFFICES ASSUME Init PROVE TypeOK
  OBVIOUS
<1>1. rows \in [Accounts -> [scheduled : Nat, stored : Nat]]
  BY DEF Init
<1> QED BY <1>1 DEF Init, TypeOK, Links

\* The pool keeps the types.
LEMMA PoolStepType ==
    ASSUME TypeOK, PoolStep
    PROVE  TypeOK'
<1> USE SessionsAssumption
<1>0. OffersType
  BY DEF TypeOK, OffersType, Offers
<1>1. ASSUME NEW c \in Connections, Connect(c) PROVE TypeOK'
  <2>1. /\ m_routers' \in [Connections -> SUBSET Routers]
        /\ m_connectableRouters' \in [Connections -> SUBSET Accounts]
        /\ m_possessionRouters' \in [Connections -> SUBSET Accounts]
        /\ open' \subseteq Connections /\ closing' \subseteq open'
    BY <1>1 DEF Connect, TypeOK
  <2> QED
    BY <1>1, <2>1 DEF Connect, TypeOK, threadVars, accountVars, entityVars, managerVars
<1>2. ASSUME NEW c \in Connections, Disconnect(c) PROVE TypeOK'
  <2>1. deregistering' \in [Connections -> SUBSET Accounts]
    BY <1>2 DEF Disconnect, TypeOK
  <2>2. OffersType'
    BY <1>0, <1>2 DEF Disconnect, OffersVoid, OffersType, Offers
  <2>4. overtaken' \subseteq [link : Connections, account : Accounts]
    BY <1>2 DEF Disconnect, Overtake, TypeOK, Operations
  <2>5. leaving' \in [Connections -> SUBSET Accounts] /\ closing' \subseteq open'
    BY <1>2 DEF Disconnect, TypeOK
  <2> QED
    BY <1>2, <2>1, <2>2, <2>4, <2>5 DEF Disconnect, TypeOK, OffersType, Offers, tableVars,
                                        accountVars, entityVars
<1>3. ASSUME NEW c \in Connections, NEW a \in Accounts, DisconnectNext(c, a)
      PROVE  TypeOK'
  <2>1. /\ leaving' \in [Connections -> SUBSET Accounts]
        /\ deregistering' \in [Connections -> SUBSET Accounts]
    BY <1>3 DEF DisconnectNext, TypeOK
  <2> QED BY <1>3, <2>1, DisconnectObjectType DEF DisconnectNext, TypeOK
<1>4. ASSUME NEW c \in Connections, Disconnected(c) PROVE TypeOK'
  BY <1>4 DEF Disconnected, TypeOK, threadVars, tableVars, accountVars, entityVars, managerVars
<1>5. ASSUME NEW a \in Accounts, InsertRow(a) PROVE TypeOK'
  <2>1. rows' \in [Accounts -> [scheduled : Nat, stored : Nat]]
    BY <1>5 DEF InsertRow, TypeOK
  <2> QED
    BY <1>5, <2>1 DEF InsertRow, TypeOK, threadVars, connectionVars, lifeVars, tableVars,
                      entityVars, managerVars
<1>6. ASSUME NEW c \in Connections, NEW a \in Accounts, Deregister(c, a)
      PROVE  TypeOK'
  <2>1. /\ deregistering' \in [Connections -> SUBSET Accounts]
        /\ m_connections' \in [Accounts -> Links]
    BY <1>6 DEF Deregister, TypeOK, Links
  <2>2. OffersType'
    BY <1>0, <1>6 DEF Deregister, OffersVoid, OffersType, Offers
  <2> QED
    BY <1>6, <2>1, <2>2 DEF Deregister, TypeOK, OffersType, Offers, threadVars, tableVars,
                            accountVars, entityVars
<1> QED BY <1>1, <1>2, <1>3, <1>4, <1>5, <1>6 DEF PoolStep

\* Taking an operation keeps the types.
LEMMA TakeStepType ==
    ASSUME TypeOK, TakeStep
    PROVE  TypeOK'
<1>1. ASSUME NEW op \in ConnectionOps \cup AccountOps, NEW c \in Connections,
             NEW a \in Accounts, NEW e \in Entities \cup {None}, Take(op, c, a, e)
      PROVE  TypeOK'
  <2>1. Operation(op, c, a, e) \in Operations
    BY DEF Operation, Operations
  <2>2. handling' \subseteq Operations
    BY <1>1, <2>1 DEF Take
  <2> QED
    BY <1>1, <2>2 DEF Take, TypeOK, connectionVars, lifeVars, tableVars, accountVars,
                      entityVars, managerVars
<1>2. {"ENABLE", "DISABLE"} \subseteq AccountOps
  BY DEF AccountOps
<1> QED BY <1>1, <1>2 DEF TakeStep

\* Carrying it out keeps the types.
LEMMA HandleStepType ==
    ASSUME TypeOK, HandleStep
    PROVE  TypeOK'
<1> USE SessionsAssumption
<1>0. OffersType
  BY DEF TypeOK, OffersType, Offers
<1>1. ASSUME NEW c \in Connections, NEW a \in Accounts, LoginOperation(c, a)
      PROVE  TypeOK'
  <2>1. /\ m_accounts' \subseteq Accounts
        /\ rows' \in [Accounts -> [scheduled : Nat, stored : Nat]]
    BY <1>1 DEF LoginOperation, TypeOK
  <2> QED BY <1>1, <2>1, JoinType DEF LoginOperation, Handled
<1>2. ASSUME NEW c \in Connections, NEW a \in Accounts, CreateOperation(c, a)
      PROVE  TypeOK'
  <2>1. /\ m_accounts' \subseteq Accounts
        /\ rows' \in [Accounts -> [scheduled : Nat, stored : Nat]]
    <3>1. /\ m_accounts \subseteq Accounts
          /\ rows \in [Accounts -> [scheduled : Nat, stored : Nat]]
      BY DEF TypeOK
    <3> QED BY <1>2, <3>1 DEF CreateOperation, AddAccount
  <2> QED BY <1>2, <2>1, JoinType DEF CreateOperation, Handled
<1>3. ASSUME NEW c \in Connections, NEW a \in Accounts, Logout(c, a)
      PROVE  TypeOK'
  <2>1. MindsType'
    BY <1>3, RemoveMindsType DEF Logout, DisconnectObject
  <2>2. lobby' \subseteq Accounts /\ m_connection' \in [Accounts -> Links]
    BY <1>3 DEF Logout, DisconnectObject, TypeOK, Links
  <2>3. m_connectableRouters' \in [Connections -> SUBSET Accounts]
    BY <1>3 DEF Logout, DisconnectObject, TypeOK
  <2>4. m_routers' \in [Connections -> SUBSET Routers]
    <3>1. Unrouted(a, MindsOf({a})) \in [Connections -> SUBSET Routers]
      BY DEF Unrouted, TypeOK
    <3> QED BY <1>3, <3>1 DEF Logout, DisconnectObject
  <2> QED
    BY <1>3, <2>1, <2>2, <2>3, <2>4 DEF Logout, Handled, DisconnectObject, TypeOK, MindsType,
                                        OffersType, Offers, lifeVars
<1>4. ASSUME NEW c \in Connections, NEW a \in Accounts, EnablePossession(c, a)
      PROVE  TypeOK'
  <2>1. m_connections' \in [Accounts -> Links]
    BY <1>4 DEF EnablePossession, AddConnection, TypeOK, Links
  <2>2. m_possessionRouters' \in [Connections -> SUBSET Accounts]
    BY <1>4 DEF EnablePossession, TypeOK
  <2>3. RequestPossession(m_connections', m_possessions, m_unpossessedEntities)
    BY <1>4 DEF EnablePossession, AddConnection
  <2>4. m_unpossessedEntities \in SUBSET Entities
    BY DEF TypeOK
  <2>5. OffersType'
    BY <1>0, <2>1, <2>3, <2>4, RequestType
  <2> QED
    BY <1>4, <2>1, <2>2, <2>5 DEF EnablePossession, Handled, TypeOK, lifeVars, accountVars,
                                  entityVars, OffersType, Offers
<1>5. ASSUME NEW c \in Connections, NEW a \in Accounts, DisablePossession(c, a)
      PROVE  TypeOK'
  BY <1>5 DEF DisablePossession, Handled, TypeOK, Links, connectionVars, lifeVars, tableVars,
              accountVars, entityVars
<1>6. ASSUME NEW c \in Connections, NEW a \in Accounts, NEW e \in Entities,
             PossessOwn(c, a, e)
      PROVE  TypeOK'
  <2>1. /\ m_minds' \in [Accounts -> SUBSET Entities]
        /\ m_routers' \in [Connections -> SUBSET Routers]
        /\ minds' \in [Entities -> SUBSET Accounts]
        /\ m_unpossessedEntities' \subseteq Entities
    BY <1>6, ConnectType DEF PossessOwn
  <2> QED BY <1>6, <2>1 DEF PossessOwn, Handled, TypeOK, lifeVars
<1>7. ASSUME NEW c \in Connections, NEW a \in Accounts, NEW e \in Entities,
             PossessWithKey(c, a, e)
      PROVE  TypeOK'
  <2>1. /\ m_minds' \in [Accounts -> SUBSET Entities]
        /\ m_routers' \in [Connections -> SUBSET Routers]
        /\ minds' \in [Entities -> SUBSET Accounts]
        /\ m_unpossessedEntities' \subseteq Entities
    BY <1>7, ConnectType DEF PossessWithKey
  <2>2. m_possessions' \subseteq Entities /\ offers' \subseteq Offers
    BY <1>0, <1>7 DEF PossessWithKey, RemovePossession, TypeOK, OffersType
  <2> QED BY <1>7, <2>1, <2>2 DEF PossessWithKey, Handled, TypeOK, Offers, lifeVars
<1>8. ASSUME NEW c \in Connections, NEW a \in Accounts, NEW e \in Entities,
             PossessTooLate(c, a, e)
      PROVE  TypeOK'
  <2>1. m_possessions' \subseteq Entities /\ offers' \subseteq Offers
    BY <1>0, <1>8 DEF PossessTooLate, RemovePossession, TypeOK, OffersType
  <2> QED
    BY <1>8, <2>1 DEF PossessTooLate, Handled, TypeOK, Offers, connectionVars, lifeVars,
                      tableVars, accountVars, entityVars
<1>9. ASSUME NEW c \in Connections, NEW a \in Accounts, NEW e \in Entities,
             LogoutMind(c, a, e)
      PROVE  TypeOK'
  <2>1. MindsType'
    BY <1>9, RemoveMindsType DEF LogoutMind
  <2>2. m_routers' \in [Connections -> SUBSET Routers]
    BY <1>9 DEF LogoutMind, Unrouted, TypeOK
  <2> QED
    BY <1>9, <2>1, <2>2 DEF LogoutMind, Handled, TypeOK, MindsType, OffersType, Offers, lifeVars
<1> QED
  BY <1>1, <1>2, <1>3, <1>4, <1>5, <1>6, <1>7, <1>8, <1>9 DEF HandleStep

\* The world keeps the types.
LEMMA WorldStepType ==
    ASSUME TypeOK, WorldStep
    PROVE  TypeOK'
<1> USE SessionsAssumption
<1>0. OffersType
  BY DEF TypeOK, OffersType, Offers
<1>1. ASSUME NEW a \in Accounts, LookUp(a) PROVE TypeOK'
  BY <1>1 DEF LookUp, TypeOK, threadVars, connectionVars, lifeVars, tableVars, entityVars,
              managerVars
<1>2. ASSUME NEW e \in Entities, RequestMind(e) PROVE TypeOK'
  <2> DEFINE es == IF minds[e] = {} THEN {e} ELSE {}
  <2>1. RequestPossession(m_connections, m_possessions', es)
    BY <1>2 DEF RequestMind
  <2>2. es \in SUBSET Entities /\ m_connections \in [Accounts -> Links]
    BY DEF TypeOK
  <2> HIDE DEF es
  <2>3. OffersType'
    BY <1>0, <2>1, <2>2, RequestType
  <2> QED
    BY <1>2, <2>3 DEF RequestMind, TypeOK, OffersType, Offers, threadVars, connectionVars,
                      lifeVars, tableVars, accountVars
<1>3. ASSUME NEW e \in Entities, RemoveRequest(e) PROVE TypeOK'
  BY <1>3 DEF RemoveRequest, TypeOK, threadVars, connectionVars, lifeVars, tableVars,
              accountVars, entityVars
<1>4. ASSUME NEW e \in Entities, DestroyEntity(e) PROVE TypeOK'
  <2>1. entity' \in [Entities -> {"new", "alive", "destroyed"}]
    BY <1>4 DEF DestroyEntity, TypeOK
  <2>2. m_routers' \in [Connections -> SUBSET Routers]
    BY <1>4 DEF DestroyEntity, TypeOK
  <2> QED BY <1>4, <2>1, <2>2 DEF DestroyEntity, TypeOK, threadVars, lifeVars
<1>5. ASSUME NEW e \in Entities, NEW owners \in SUBSET Accounts, CreateEntity(e, owners)
      PROVE  TypeOK'
  <2>1. entity' \in [Entities -> {"new", "alive", "destroyed"}]
    BY <1>5 DEF CreateEntity, TypeOK
  <2>2. m_charactersDict' \in [Accounts -> SUBSET Entities]
    BY <1>5 DEF CreateEntity, TypeOK
  <2> QED
    BY <1>5, <2>1, <2>2 DEF CreateEntity, TypeOK, threadVars, connectionVars, lifeVars,
                            tableVars, managerVars
<1> QED BY <1>1, <1>2, <1>3, <1>4, <1>5 DEF WorldStep

\* Every step keeps the types.
LEMMA StepType == TypeOK /\ [Next]_vars => TypeOK'
<1>1. TypeOK /\ UNCHANGED vars => TypeOK'
  BY DEF TypeOK, vars, threadVars, connectionVars, lifeVars, tableVars, accountVars,
         entityVars, managerVars
<1> QED
  BY <1>1, PoolStepType, TakeStepType, HandleStepType, WorldStepType DEF Next

\* The tables of the server keep their types: in particular every offer names
\* a connection and an entity, although requestPossessionFromRegisteredClients
\* takes the last of the registered clients whoever that is.
THEOREM TypesHold == Spec => []TypeOK
BY InitType, StepType, PTL DEF Spec

-----------------------------------------------------------------------------
\* A row that is only scheduled belongs to an account in memory: what a lookup
\* does not find in the table it finds there.
ScheduledIsKnown ==
    \A a \in Accounts : rows[a].scheduled > 0 => a \in m_accounts

\* The account that is about to be created is still not found.
CreatedIsUnknown ==
    \A h \in handling : h.op = "CREATE" => ~Found(h.account)

RowsInv == TypeOK /\ OneRowPerAccount /\ ScheduledIsKnown /\ CreatedIsUnknown

\* The steps that do not touch the rows only add to the accounts in memory.
LEMMA RowsUntouched ==
    ASSUME RowsInv, UNCHANGED rows, m_accounts \subseteq m_accounts'
    PROVE  OneRowPerAccount' /\ ScheduledIsKnown'
BY DEF RowsInv, OneRowPerAccount, ScheduledIsKnown

\* What an operation is made of.
LEMMA OperationParts ==
    ASSUME NEW op, NEW c, NEW a, NEW e
    PROVE  /\ Operation(op, c, a, e).op = op
           /\ Operation(op, c, a, e).link = c
           /\ Operation(op, c, a, e).account = a
           /\ Operation(op, c, a, e).entity = e
BY DEF Operation

\* The one operation that is carried out.
LEMMA HandledOne ==
    ASSUME NEW op, NEW c, NEW a, NEW e, Handled(op, c, a, e)
    PROVE  /\ \E h \in handling : h.op = op /\ h.link = c /\ h.account = a /\ h.entity = e
           /\ handling' = {}
           /\ UNCHANGED overtaken
BY OperationParts DEF Handled

\* Every step keeps RowsInv.
LEMMA StepRowsInv == RowsInv /\ [Next]_vars => RowsInv'
<1> SUFFICES ASSUME RowsInv, [Next]_vars PROVE RowsInv'
  OBVIOUS
<1> DEFINE Kept == OneRowPerAccount' /\ ScheduledIsKnown' /\ CreatedIsUnknown'
<1>0. TypeOK /\ TypeOK'
  BY StepType DEF RowsInv
<1>1. ASSUME NEW c \in Connections, NEW a \in Accounts, CreateOperation(c, a)
      PROVE  Kept
  <2>0. Handled("CREATE", c, a, None)
    BY <1>1 DEF CreateOperation
  <2>1. ~Found(a)
    BY <2>0, HandledOne DEF RowsInv, CreatedIsUnknown
  <2>2. rows[a].scheduled = 0 /\ rows[a].stored = 0
    BY <1>0, <2>1 DEF Found, RowsInv, ScheduledIsKnown, TypeOK
  <2>3. rows'[a].scheduled = 1 /\ rows'[a].stored = 0
    BY <1>0, <1>1, <2>2 DEF CreateOperation, AddAccount, TypeOK
  <2>4. \A b \in Accounts \ {a} : rows'[b] = rows[b]
    BY <1>0, <1>1 DEF CreateOperation, AddAccount, TypeOK
  <2>5. m_accounts' = m_accounts \cup {a}
    BY <1>1 DEF CreateOperation, AddAccount
  <2>6. handling' = {}
    BY <2>0 DEF Handled
  <2> QED
    BY <2>3, <2>4, <2>5, <2>6 DEF RowsInv, OneRowPerAccount, ScheduledIsKnown,
                                  CreatedIsUnknown
<1>2. ASSUME NEW a \in Accounts, InsertRow(a)
      PROVE  Kept
  <2>1. /\ rows[a].scheduled > 0
        /\ rows'[a].scheduled = rows[a].scheduled - 1
        /\ rows'[a].stored = rows[a].stored + 1
        /\ rows[a].scheduled \in Nat /\ rows[a].stored \in Nat
    BY <1>0, <1>2 DEF InsertRow, TypeOK
  <2>2. \A b \in Accounts \ {a} : rows'[b] = rows[b]
    BY <1>0, <1>2 DEF InsertRow, TypeOK
  <2>3. m_accounts' = m_accounts /\ handling' = handling
    BY <1>2 DEF InsertRow, threadVars
  <2>4. OneRowPerAccount' /\ ScheduledIsKnown'
    BY <2>1, <2>2, <2>3 DEF RowsInv, OneRowPerAccount, ScheduledIsKnown
  <2>5. ASSUME NEW h \in handling, h.op = "CREATE" PROVE ~Found(h.account)'
    <3>1. h.account \in Accounts /\ ~Found(h.account)
      BY <1>0, <2>5 DEF TypeOK, Operations, RowsInv, CreatedIsUnknown
    <3>2. h.account # a
      BY <2>1, <3>1 DEF Found, RowsInv, ScheduledIsKnown
    <3> QED BY <2>2, <2>3, <3>1, <3>2 DEF Found
  <2> QED BY <2>3, <2>4, <2>5 DEF CreatedIsUnknown
<1>3. ASSUME UNCHANGED <<rows, m_accounts>>, handling' \subseteq handling PROVE Kept
  BY <1>3, RowsUntouched DEF RowsInv, CreatedIsUnknown, Found
<1>4. ASSUME UNCHANGED rows, m_accounts \subseteq m_accounts', handling' = {} PROVE Kept
  BY <1>4, RowsUntouched DEF CreatedIsUnknown
<1>5. ASSUME PoolStep, ~ \E a \in Accounts : InsertRow(a) PROVE Kept
  <2>1. UNCHANGED <<rows, m_accounts, handling>>
    BY <1>5 DEF PoolStep, Connect, Disconnect, Deregister, DisconnectNext, DisconnectObject,
                Disconnected, accountVars, threadVars
  <2> QED BY <1>3, <2>1
<1>6. ASSUME NEW op, NEW c, NEW a, NEW e, Take(op, c, a, e) PROVE Kept
  <2>1. UNCHANGED <<rows, m_accounts>>
    BY <1>6 DEF Take, accountVars
  <2>2. OneRowPerAccount' /\ ScheduledIsKnown'
    BY <2>1, RowsUntouched
  <2>3. ASSUME NEW h \in handling', h.op = "CREATE" PROVE ~Found(h.account)'
    <3>1. h = Operation(op, c, a, e) /\ Test(op, c, a, e)
      BY <1>6 DEF Take
    <3>2. ~Found(h.account)
      BY <2>3, <3>1, OperationParts DEF Test
    <3> QED BY <2>1, <3>2 DEF Found
  <2> QED BY <2>2, <2>3 DEF CreatedIsUnknown
<1>7. ASSUME HandleStep, ~ \E c \in Connections, a \in Accounts : CreateOperation(c, a)
      PROVE  Kept
  <2>1. ASSUME NEW c \in Connections, NEW a \in Accounts,
               LoginOperation(c, a) \/ Logout(c, a) \/ EnablePossession(c, a)
                 \/ DisablePossession(c, a)
        PROVE  UNCHANGED rows /\ m_accounts \subseteq m_accounts' /\ handling' = {}
    BY <2>1 DEF LoginOperation, Logout, DisconnectObject, EnablePossession,
                DisablePossession, Handled, accountVars
  <2>2. ASSUME NEW c \in Connections, NEW a \in Accounts, NEW e \in Entities,
               PossessOwn(c, a, e) \/ PossessWithKey(c, a, e) \/ PossessTooLate(c, a, e)
                 \/ LogoutMind(c, a, e)
        PROVE  UNCHANGED rows /\ m_accounts \subseteq m_accounts' /\ handling' = {}
    BY <2>2 DEF PossessOwn, PossessWithKey, PossessTooLate, LogoutMind, Handled, accountVars
  <2>3. UNCHANGED rows /\ m_accounts \subseteq m_accounts' /\ handling' = {}
    BY <1>7, <2>1, <2>2 DEF HandleStep
  <2> QED BY <1>4, <2>3
<1>8. ASSUME WorldStep PROVE Kept
  <2>1. UNCHANGED rows /\ m_accounts \subseteq m_accounts' /\ handling' = {}
    BY <1>8 DEF WorldStep, LookUp, RequestMind, RemoveRequest, DestroyEntity, CreateEntity,
       accountVars, threadVars
  <2> QED BY <1>4, <2>1
<1>9. UNCHANGED vars => Kept
  BY <1>3 DEF vars, accountVars, threadVars
<1> HIDE DEF Kept
<1>10. Kept
  BY <1>1, <1>2, <1>5, <1>6, <1>7, <1>8, <1>9 DEF Next, TakeStep
<1> QED BY <1>0, <1>10 DEF RowsInv, Kept

\* No account is ever scheduled or stored twice, in whatever order lookups,
\* logins, creations and the worker of the database take their turns.
THEOREM OneRow == Spec => []OneRowPerAccount
<1>1. Init => RowsInv
  <2> SUFFICES ASSUME Init PROVE OneRowPerAccount /\ ScheduledIsKnown /\ CreatedIsUnknown
    BY InitType DEF RowsInv
  <2> QED BY DEF Init, OneRowPerAccount, ScheduledIsKnown, CreatedIsUnknown
<1>2. RowsInv => OneRowPerAccount
  BY DEF RowsInv
<1> QED BY <1>1, <1>2, StepRowsInv, PTL DEF Spec

-----------------------------------------------------------------------------
(***************************************************************************)
(* The session of account a: the tables of the connections, those of       *)
(* ~Connection, the two ends of its minds, and the lobby.                  *)
(***************************************************************************)
SessionOf(a) ==
    /\ \A c \in Connections : a \in m_connectableRouters[c] <=> m_connection[a] = c
    /\ \A c \in Connections, m \in Entities \cup {None} :
        Router(a, m) \in m_routers[c] <=> /\ m_connection[a] = c
                                          /\ m = None \/ m \in m_minds[a]
    /\ m_connection[a] # None => m_connection[a] \in open
    /\ \A c \in closing : a \in leaving[c] <=> m_connection[a] = c
    /\ \A e \in Alive : a \in minds[e] <=> e \in m_minds[a]
    /\ m_connection[a] = None => m_minds[a] = {}
    /\ a \in lobby <=> m_connection[a] # None

\* Minds and characters are entities in the world, and an entity that is yet
\* to be created has no mind.
InWorld ==
    /\ \A a \in Accounts : m_minds[a] \cup m_charactersDict[a] \subseteq Alive
    /\ \A e \in Entities : entity[e] = "new" => minds[e] = {}

\* An account that is logged in is in memory, so nobody can create it again.
LoggedInIsKnown ==
    \A a \in Accounts : m_connection[a] # None => a \in m_accounts

(***************************************************************************)
(* What still holds of an operation that was tested, unless the end of its *)
(* connection overtook it: the connection is not being destroyed, and the  *)
(* account has it, or none if it logs in.  Entities only come and go in    *)
(* the main thread.                                                        *)
(***************************************************************************)
TestHolds(h) ==
    /\ h.link \notin TornLinks => h.link \in open \ closing
    /\ h.account \notin TornAccounts =>
        /\ h.link \in open \ closing
        /\ m_connection[h.account] = IF h.op \in {"LOGIN", "CREATE"} THEN None ELSE h.link
    /\ h.op \in {"POSSESS_OWN", "POSSESS_KEY"} => h.entity \in Alive
    /\ h.op = "POSSESS_LATE" => entity[h.entity] = "destroyed"

TestsHold == \A h \in handling : TestHolds(h)

SessionInv ==
    /\ TypeOK
    /\ \A a \in Accounts \ TornAccounts : SessionOf(a)
    /\ InWorld
    /\ LoggedInIsKnown
    /\ TestsHold

\* What SessionInv says of the accounts is RoutersAreSessions and MindsAgree.
LEMMA SessionsAgree ==
    ASSUME SessionInv
    PROVE  RoutersAreSessions /\ MindsAgree
<1>1. MindsAgree
  BY DEF SessionInv, SessionOf, MindsAgree
<1>2. ASSUME NEW a \in Accounts \ TornAccounts, NEW c \in open
      PROVE  {r \in m_routers[c] : r.account = a} =
                IF m_connection[a] = c THEN {Router(a, None)} \cup MindsOf({a}) ELSE {}
  <2>0. c \in Connections /\ SessionOf(a) /\ m_routers[c] \subseteq Routers
    BY DEF SessionInv, TypeOK
  <2>1. ASSUME NEW r \in m_routers[c], r.account = a
        PROVE  /\ m_connection[a] = c
               /\ r \in {Router(a, None)} \cup MindsOf({a})
    <3>1. r \in Routers /\ r.mind \in Entities \cup {None} /\ r = Router(a, r.mind)
      BY <2>0, <2>1 DEF Routers, Router
    <3>2. m_connection[a] = c /\ (r.mind = None \/ r.mind \in m_minds[a])
      BY <2>0, <2>1, <3>1 DEF SessionOf
    <3>3. CASE r.mind = None
      BY <3>1, <3>2, <3>3
    <3>4. CASE r.mind # None
      <4>1. r \in Pairs({a})
        BY <3>1, <3>4 DEF Pairs
      <4> QED BY <2>1, <3>2, <3>4, <4>1 DEF MindsOf
    <3> QED BY <3>3, <3>4
  <2>2. ASSUME m_connection[a] = c PROVE Router(a, None) \in m_routers[c]
    BY <2>0, <2>2 DEF SessionOf
  <2>3. ASSUME m_connection[a] = c, NEW r \in MindsOf({a}) PROVE r \in m_routers[c]
    <3>1. PICK e \in Entities : r = Router(a, e)
      BY <2>3 DEF MindsOf, Pairs
    <3>2. r.mind = e /\ r.account = a
      BY <3>1 DEF Router
    <3>3. e \in m_minds[a]
      BY <2>3, <3>2 DEF MindsOf
    <3> QED BY <2>0, <2>3, <3>1, <3>3 DEF SessionOf
  <2>4. Router(a, None).account = a /\ \A r \in MindsOf({a}) : r.account = a
    BY DEF MindsOf, Pairs, Router
  <2> QED BY <2>1, <2>2, <2>3, <2>4
<1>3. RoutersAreSessions
  <2>1. ASSUME NEW a \in Accounts \ TornAccounts
        PROVE  /\ m_connection[a] \in open \cup {None}
               /\ \A c \in open : a \in m_connectableRouters[c] <=> m_connection[a] = c
    BY DEF SessionInv, TypeOK, SessionOf
  <2> QED BY <1>2, <2>1 DEF RoutersAreSessions
<1> QED BY <1>1, <1>3

\* A step that leaves the session of account a alone.
Untouched(a) ==
    /\ UNCHANGED <<open, closing>>
    /\ m_connection'[a] = m_connection[a]
    /\ m_minds'[a] = m_minds[a]
    /\ \A c \in Connections : a \in m_connectableRouters'[c] <=> a \in m_connectableRouters[c]
    /\ \A c \in Connections : a \in leaving'[c] <=> a \in leaving[c]
    /\ \A c \in Connections, m \in Entities \cup {None} :
        Router(a, m) \in m_routers'[c] <=> Router(a, m) \in m_routers[c]
    /\ Alive' = Alive
    /\ \A e \in Alive : a \in minds'[e] <=> a \in minds[e]
    /\ a \in lobby' <=> a \in lobby

\* It stays as it was.
LEMMA UntouchedKeeps ==
    ASSUME TypeOK, NEW a \in Accounts, SessionOf(a), Untouched(a)
    PROVE  SessionOf(a)'
BY DEF TypeOK, SessionOf, Untouched

\* The variables that SessionOf is about.
sessionVars == <<open, closing, leaving, m_routers, m_connectableRouters, m_connection,
                 m_minds, lobby, minds, entity>>

LEMMA SessionUnchanged ==
    ASSUME NEW a, SessionOf(a), UNCHANGED sessionVars
    PROVE  SessionOf(a)'
BY DEF SessionOf, sessionVars, Alive

\* What RemoveMinds does to the two ends of a mind.
LEMMA RemoveMindsFacts ==
    ASSUME TypeOK, NEW gone, RemoveMinds(gone)
    PROVE  /\ \A a \in Accounts :
                m_minds'[a] = {e \in m_minds[a] : Router(a, e) \notin gone}
           /\ \A e \in Entities :
                minds'[e] = {a \in minds[e] : Router(a, e) \notin gone}
BY DEF RemoveMinds, MindsChanged, Without

\* The minds of one account.
LEMMA MindsOfOne ==
    ASSUME TypeOK, NEW a \in Accounts, NEW b \in Accounts, NEW m \in Entities \cup {None}
    PROVE  Router(b, m) \in MindsOf({a}) <=> b = a /\ m \in m_minds[a] /\ m \in Entities
<1>1. Router(b, m).account = b /\ Router(b, m).mind = m
  BY RouterParts
<1>2. Router(b, m) \in Pairs({a}) <=> b = a /\ m \in Entities
  <2>1. ASSUME Router(b, m) \in Pairs({a}) PROVE b = a /\ m \in Entities
    <3>1. PICK e \in Entities : Router(b, m) = Router(a, e)
      BY <2>1 DEF Pairs
    <3>2. Router(a, e).account = a /\ Router(a, e).mind = e
      BY RouterParts
    <3> QED BY <1>1, <3>1, <3>2
  <2>2. ASSUME b = a, m \in Entities PROVE Router(b, m) \in Pairs({a})
    BY <2>2 DEF Pairs
  <2> QED BY <2>1, <2>2
<1> QED BY <1>1, <1>2 DEF MindsOf

\* Minds that are taken away leave none where there was none.
LEMMA RemoveMindsInWorld ==
    ASSUME TypeOK, InWorld, NEW gone, RemoveMinds(gone),
           UNCHANGED <<entity, m_charactersDict>>
    PROVE  InWorld'
<1>1. /\ \A a \in Accounts : m_minds'[a] \subseteq m_minds[a]
      /\ \A e \in Entities : minds'[e] \subseteq minds[e]
  BY RemoveMindsFacts
<1>2. Alive' = Alive
  BY DEF Alive
<1> QED BY <1>1, <1>2 DEF InWorld

\* DisconnectObject, seen from an account b: a is the one that loses its
\* session, all others keep theirs.
LEMMA DisconnectObjectFacts ==
    ASSUME TypeOK, NEW c \in Connections, NEW a \in Accounts, DisconnectObject(c, a),
           NEW b \in Accounts
    PROVE  /\ m_connection'[b] = IF b = a THEN None ELSE m_connection[b]
           /\ m_minds'[b] = IF b = a THEN {} ELSE m_minds[b]
           /\ \A d \in Connections :
                b \in m_connectableRouters'[d] <=>
                    b \in m_connectableRouters[d] /\ ~(d = c /\ b = a)
           /\ \A d \in Connections, m \in Entities \cup {None} :
                Router(b, m) \in m_routers'[d] <=>
                    /\ Router(b, m) \in m_routers[d]
                    /\ ~(b = a /\ d = m_connection[a] /\ m \in m_minds[a])
                    /\ ~(b = a /\ d = c /\ m = None)
           /\ \A e \in Entities : b \in minds'[e] <=> b \in minds[e] /\ ~(b = a /\ e \in m_minds[a])
           /\ b \in lobby' <=> b \in lobby /\ b # a
<1>0. m_minds \in [Accounts -> SUBSET Entities] /\ minds \in [Entities -> SUBSET Accounts]
  BY DEF TypeOK
<1>1. RemoveMinds(MindsOf({a}))
  BY DEF DisconnectObject
<1>2. m_connection'[b] = IF b = a THEN None ELSE m_connection[b]
  BY DEF DisconnectObject, TypeOK
<1>3. m_minds'[b] = IF b = a THEN {} ELSE m_minds[b]
  <2>1. m_minds'[b] = {e \in m_minds[b] : Router(b, e) \notin MindsOf({a})}
    BY <1>1, RemoveMindsFacts
  <2>2. \A e \in m_minds[b] : Router(b, e) \in MindsOf({a}) <=> b = a
    BY <1>0, MindsOfOne
  <2> QED BY <2>1, <2>2
<1>4. ASSUME NEW d \in Connections
      PROVE  b \in m_connectableRouters'[d] <=>
                b \in m_connectableRouters[d] /\ ~(d = c /\ b = a)
  BY DEF DisconnectObject, TypeOK
<1>5. ASSUME NEW d \in Connections, NEW m \in Entities \cup {None}
      PROVE  Router(b, m) \in m_routers'[d] <=>
                /\ Router(b, m) \in m_routers[d]
                /\ ~(b = a /\ d = m_connection[a] /\ m \in m_minds[a])
                /\ ~(b = a /\ d = c /\ m = None)
  <2>1. m_routers'[d] = IF d = c THEN Unrouted(a, MindsOf({a}))[d] \ {Router(a, None)}
                        ELSE Unrouted(a, MindsOf({a}))[d]
    BY DEF DisconnectObject, Unrouted
  <2>2. Unrouted(a, MindsOf({a}))[d] =
            IF d = m_connection[a] THEN m_routers[d] \ MindsOf({a}) ELSE m_routers[d]
    BY DEF Unrouted
  <2>3. Router(b, m) \in MindsOf({a}) <=> b = a /\ m \in m_minds[a]
    BY <1>0, MindsOfOne
  <2>4. Router(b, m) = Router(a, None) <=> b = a /\ m = None
    BY DEF Router
  <2> QED BY <2>1, <2>2, <2>3, <2>4
<1>6. ASSUME NEW e \in Entities
      PROVE  b \in minds'[e] <=> b \in minds[e] /\ ~(b = a /\ e \in m_minds[a])
  <2>1. minds'[e] = {x \in minds[e] : Router(x, e) \notin MindsOf({a})}
    BY <1>1, RemoveMindsFacts
  <2>2. Router(b, e) \in MindsOf({a}) <=> b = a /\ e \in m_minds[a]
    BY MindsOfOne
  <2> QED BY <2>1, <2>2
<1>7. b \in lobby' <=> b \in lobby /\ b # a
  BY DEF DisconnectObject
<1> QED BY <1>2, <1>3, <1>4, <1>5, <1>6, <1>7

\* The account that is disconnected from its connection has no session then,
\* and the others keep theirs.
LEMMA DisconnectObjectKeeps ==
    ASSUME TypeOK, NEW c \in Connections, NEW a \in Accounts, DisconnectObject(c, a),
           UNCHANGED <<open, closing>>,
           NEW b \in Accounts, SessionOf(b),
           b = a => m_connection[a] = c,
           \A d \in Connections :
                b \in leaving'[d] <=> b \in leaving[d] /\ ~(d = c /\ b = a /\ c \in closing)
    PROVE  SessionOf(b)'
<1> USE SessionsAssumption
<1>0. /\ Alive' = Alive /\ Alive \subseteq Entities
      /\ closing \subseteq Connections
  BY DEF DisconnectObject, Alive, TypeOK
<1>1. CASE b # a
  <2>1. Untouched(b)
    BY <1>0, <1>1, DisconnectObjectFacts DEF Untouched
  <2> QED BY <2>1, UntouchedKeeps
<1>2. CASE b = a
  <2>1. /\ m_connection'[a] = None
        /\ m_minds'[a] = {}
        /\ m_connection[a] = c /\ c # None
    BY <1>2, DisconnectObjectFacts
  <2>2. \A d \in Connections : ~(a \in m_connectableRouters'[d]) /\ d # None
    BY <1>2, <2>1, DisconnectObjectFacts DEF SessionOf
  <2>3. \A d \in Connections, m \in Entities \cup {None} : Router(a, m) \notin m_routers'[d]
    BY <1>2, <2>1, DisconnectObjectFacts DEF SessionOf
  <2>4. \A d \in closing : a \notin leaving'[d]
    BY <1>0, <1>2, <2>1 DEF SessionOf
  <2>5. \A e \in Alive : a \notin minds'[e]
    BY <1>0, <1>2, <2>1, DisconnectObjectFacts DEF SessionOf
  <2>6. a \notin lobby'
    BY DEF DisconnectObject
  <2> QED BY <1>0, <1>2, <2>1, <2>2, <2>3, <2>4, <2>5, <2>6 DEF SessionOf
<1> QED BY <1>1, <1>2

\* An account that logs in or is created gets one session, over a connection
\* that is not being destroyed.
LEMMA JoinKeeps ==
    ASSUME TypeOK, NEW c \in Connections, NEW a \in Accounts, Join(c, a),
           NEW b \in Accounts, SessionOf(b),
           b = a => c \in open \ closing /\ m_connection[a] = None
    PROVE  SessionOf(b)'
<1> USE SessionsAssumption
<1>1. UNCHANGED <<open, closing, leaving, m_minds, minds, entity>> /\ Alive' = Alive
  BY DEF Join, lifeVars, entityVars, Alive
<1>2. /\ m_connection'[b] = IF b = a THEN c ELSE m_connection[b]
      /\ \A d \in Connections :
            b \in m_connectableRouters'[d] <=>
                b \in m_connectableRouters[d] \/ (d = c /\ b = a)
      /\ b \in lobby' <=> b \in lobby \/ b = a
  BY DEF Join, TypeOK
<1>3. ASSUME NEW d \in Connections, NEW m \in Entities \cup {None}
      PROVE  Router(b, m) \in m_routers'[d] <=>
                Router(b, m) \in m_routers[d] \/ (d = c /\ b = a /\ m = None)
  <2>1. Router(b, m) = Router(a, None) <=> b = a /\ m = None
    BY DEF Router
  <2> QED BY <2>1 DEF Join, TypeOK
<1>4. CASE b # a
  <2>1. Untouched(b)
    BY <1>1, <1>2, <1>3, <1>4 DEF Untouched
  <2> QED BY <2>1, UntouchedKeeps
<1>5. CASE b = a
  <2>1. m_minds[a] = {} /\ c # None /\ m_connection[a] = None /\ c \in open \ closing
    BY <1>5 DEF SessionOf
  <2>2. \A d \in closing : a \notin leaving[d] /\ d # c
    BY <1>5, <2>1 DEF SessionOf, TypeOK
  <2>3. \A d \in Connections : a \in m_connectableRouters'[d] <=> m_connection'[a] = d
    BY <1>2, <1>5, <2>1 DEF SessionOf
  <2>4. \A d \in Connections, m \in Entities \cup {None} :
            Router(a, m) \in m_routers'[d] <=> m_connection'[a] = d /\ m = None
    BY <1>2, <1>3, <1>5, <2>1 DEF SessionOf
  <2>5. \A e \in Alive : a \notin minds[e]
    BY <1>5, <2>1 DEF SessionOf
  <2> QED BY <1>1, <1>2, <1>5, <2>1, <2>2, <2>3, <2>4, <2>5 DEF SessionOf
<1> QED BY <1>4, <1>5

\* A new mind is entered at both ends and in the table of its connection.
LEMMA ConnectKeeps ==
    ASSUME TypeOK, NEW c \in Connections, NEW a \in Accounts, NEW e \in Entities,
           ConnectCharacter(c, a, e),
           UNCHANGED <<lifeVars, m_connectableRouters, m_connection, lobby, entity>>,
           NEW b \in Accounts, SessionOf(b),
           b = a => m_connection[a] = c
    PROVE  SessionOf(b)'
<1> USE SessionsAssumption
<1>1. UNCHANGED <<open, closing, leaving>> /\ Alive' = Alive /\ Alive \subseteq Entities
  BY DEF lifeVars, Alive
<1>2. /\ m_minds'[b] = IF b = a THEN m_minds[b] \cup {e} ELSE m_minds[b]
      /\ \A f \in Entities : b \in minds'[f] <=> b \in minds[f] \/ (f = e /\ b = a)
  BY DEF ConnectCharacter, TypeOK
<1>3. ASSUME NEW d \in Connections, NEW m \in Entities \cup {None}
      PROVE  Router(b, m) \in m_routers'[d] <=>
                Router(b, m) \in m_routers[d] \/ (d = c /\ b = a /\ m = e)
  <2>1. Router(b, m) = Router(a, e) <=> b = a /\ m = e
    BY DEF Router
  <2> QED BY <2>1 DEF ConnectCharacter, TypeOK
<1>4. CASE b # a
  <2>1. Untouched(b)
    BY <1>1, <1>2, <1>3, <1>4 DEF Untouched
  <2> QED BY <2>1, UntouchedKeeps
<1>5. CASE b = a
  <2>1. m_connection[a] = c /\ c # None
    BY <1>5
  <2>2. \A d \in Connections, m \in Entities \cup {None} :
            Router(a, m) \in m_routers'[d] <=> m_connection[a] = d /\ (m = None \/ m \in m_minds'[a])
    BY <1>2, <1>3, <1>5, <2>1 DEF SessionOf
  <2>3. \A f \in Alive : a \in minds'[f] <=> f \in m_minds'[a]
    BY <1>1, <1>2, <1>5 DEF SessionOf
  <2> QED BY <1>1, <1>5, <2>1, <2>2, <2>3 DEF SessionOf
<1> QED BY <1>4, <1>5

\* A mind that is logged out goes at both ends and from the table of the
\* account's connection.
LEMMA LogoutMindKeeps ==
    ASSUME TypeOK, NEW c \in Connections, NEW a \in Accounts, NEW e \in Entities,
           LogoutMind(c, a, e), NEW b \in Accounts, SessionOf(b)
    PROVE  SessionOf(b)'
<1> USE SessionsAssumption
<1> DEFINE gone == MindsOf({a}) \cap {Router(a, e)}
<1>0. m_minds \in [Accounts -> SUBSET Entities] /\ minds \in [Entities -> SUBSET Accounts]
  BY DEF TypeOK
<1>1. /\ RemoveMinds(gone) /\ m_routers' = Unrouted(a, gone)
      /\ UNCHANGED <<open, closing, leaving, m_connectableRouters, m_connection, lobby>>
      /\ Alive' = Alive /\ Alive \subseteq Entities
  BY DEF LogoutMind, lifeVars, Alive
<1>2. ASSUME NEW m \in Entities \cup {None}
      PROVE  Router(b, m) \in gone <=> b = a /\ m = e /\ e \in m_minds[a]
  <2>1. Router(b, m) = Router(a, e) <=> b = a /\ m = e
    BY DEF Router
  <2>2. Router(b, m) \in MindsOf({a}) <=> b = a /\ m \in m_minds[a]
    BY <1>0, MindsOfOne
  <2> QED BY <2>1, <2>2
<1> HIDE DEF gone
<1>3. m_minds'[b] = IF b = a THEN m_minds[b] \ {e} ELSE m_minds[b]
  <2>1. m_minds'[b] = {f \in m_minds[b] : Router(b, f) \notin gone}
    BY <1>1, RemoveMindsFacts
  <2>2. \A f \in m_minds[b] : Router(b, f) \in gone <=> b = a /\ f = e
    BY <1>0, <1>2
  <2> QED BY <2>1, <2>2
<1>4. ASSUME NEW f \in Entities
      PROVE  b \in minds'[f] <=> b \in minds[f] /\ ~(b = a /\ f = e /\ e \in m_minds[a])
  <2>1. minds'[f] = {x \in minds[f] : Router(x, f) \notin gone}
    BY <1>1, RemoveMindsFacts
  <2> QED BY <1>2, <2>1
<1>5. ASSUME NEW d \in Connections, NEW m \in Entities \cup {None}
      PROVE  Router(b, m) \in m_routers'[d] <=>
                /\ Router(b, m) \in m_routers[d]
                /\ ~(d = m_connection[a] /\ b = a /\ m = e /\ e \in m_minds[a])
  <2>1. m_routers'[d] = IF d = m_connection[a] THEN m_routers[d] \ gone ELSE m_routers[d]
    BY <1>1 DEF Unrouted
  <2> QED BY <1>2, <2>1
<1>6. CASE b # a
  <2>1. Untouched(b)
    BY <1>1, <1>3, <1>4, <1>5, <1>6 DEF Untouched
  <2> QED BY <2>1, UntouchedKeeps
<1>7. CASE b = a
  <2>1. \A d \in Connections, m \in Entities \cup {None} :
            Router(a, m) \in m_routers'[d] <=> m_connection[a] = d /\ (m = None \/ m \in m_minds'[a])
    BY <1>3, <1>5, <1>7 DEF SessionOf
  <2>2. \A f \in Alive : a \in minds'[f] <=> f \in m_minds'[a]
    BY <1>1, <1>3, <1>4, <1>7 DEF SessionOf
  <2>3. m_connection[a] = None => m_minds'[a] = {}
    BY <1>3, <1>7 DEF SessionOf
  <2> QED BY <1>1, <1>7, <2>1, <2>2, <2>3 DEF SessionOf
<1> QED BY <1>6, <1>7

\* The torn sessions are never forgotten.
LEMMA TornGrows ==
    ASSUME overtaken \subseteq overtaken'
    PROVE  TornAccounts \subseteq TornAccounts' /\ TornLinks \subseteq TornLinks'
BY DEF TornAccounts, TornLinks

\* Every step of the pool keeps the sessions.
LEMMA PoolKeepsSession ==
    ASSUME SessionInv, PoolStep, NEW b \in Accounts \ TornAccounts'
    PROVE  SessionOf(b)'
<1> USE SessionsAssumption
<1>0. TypeOK
  BY DEF SessionInv
<1>1. overtaken \subseteq overtaken'
  BY DEF PoolStep, Connect, Disconnect, Overtake, Deregister, DisconnectNext, Disconnected,
         InsertRow, threadVars
<1>2. SessionOf(b) /\ b \in Accounts /\ b \notin TornAccounts
  BY <1>1, TornGrows DEF SessionInv
<1>3. ASSUME NEW c \in Connections, Connect(c) PROVE SessionOf(b)'
  <2>1. UNCHANGED <<closing, leaving, m_connection, m_minds, lobby, minds, entity>>
    BY <1>3 DEF Connect, accountVars, entityVars
  <2>2. m_connection[b] # c
    BY <1>2, <1>3 DEF Connect
  <2>3. \A d \in Connections :
            b \in m_connectableRouters'[d] <=> b \in m_connectableRouters[d] /\ d # c
    BY <1>0, <1>3 DEF Connect, TypeOK
  <2>4. \A d \in Connections, m \in Entities \cup {None} :
            Router(b, m) \in m_routers'[d] <=> Router(b, m) \in m_routers[d] /\ d # c
    BY <1>0, <1>3 DEF Connect, TypeOK
  <2>5. open \subseteq open'
    BY <1>3 DEF Connect
  <2> QED BY <1>2, <2>1, <2>2, <2>3, <2>4, <2>5 DEF SessionOf, Alive
<1>4. ASSUME NEW c \in Connections, Disconnect(c) PROVE SessionOf(b)'
  <2>1. UNCHANGED <<open, m_routers, m_connectableRouters, m_connection, m_minds, lobby,
                    minds, entity>>
    BY <1>4 DEF Disconnect, tableVars, accountVars, entityVars
  <2>2. closing' = closing \cup {c} /\ closing \subseteq Connections
    BY <1>0, <1>4 DEF Disconnect, TypeOK
  <2>3. \A d \in Connections :
            leaving'[d] = IF d = c THEN m_connectableRouters[c] ELSE leaving[d]
    BY <1>0, <1>4 DEF Disconnect, TypeOK
  <2>4. \A d \in closing' : b \in leaving'[d] <=> m_connection'[b] = d
    BY <1>2, <2>1, <2>2, <2>3 DEF SessionOf
  <2> QED BY <1>2, <2>1, <2>4 DEF SessionOf, Alive
<1>5. ASSUME NEW c \in Connections, NEW a \in Accounts, DisconnectNext(c, a)
      PROVE  SessionOf(b)'
  <2>1. b = a => m_connection[a] = c
    BY <1>2, <1>5 DEF DisconnectNext, SessionOf
  <2>2. \A d \in Connections :
            b \in leaving'[d] <=> b \in leaving[d] /\ ~(d = c /\ b = a /\ c \in closing)
    BY <1>0, <1>5 DEF DisconnectNext, TypeOK
  <2>3. DisconnectObject(c, a) /\ UNCHANGED <<open, closing>>
    BY <1>5 DEF DisconnectNext
  <2> QED BY <1>0, <1>2, <2>1, <2>2, <2>3, DisconnectObjectKeeps
<1>6. ASSUME NEW c \in Connections, Disconnected(c) PROVE SessionOf(b)'
  <2>1. m_connection[b] # c
    BY <1>2, <1>6 DEF Disconnected, SessionOf
  <2>2. UNCHANGED <<leaving, m_routers, m_connectableRouters, m_connection, m_minds, lobby,
                    minds, entity>>
    BY <1>6 DEF Disconnected, tableVars, accountVars, entityVars
  <2>3. open' = open \ {c} /\ closing' \subseteq closing
    BY <1>6 DEF Disconnected
  <2> QED BY <1>2, <2>1, <2>2, <2>3 DEF SessionOf, Alive
<1>7. ASSUME NEW a \in Accounts, InsertRow(a) PROVE SessionOf(b)'
  <2>1. UNCHANGED sessionVars
    BY <1>7 DEF InsertRow, sessionVars, connectionVars, lifeVars, tableVars, entityVars
  <2> QED BY <1>2, <2>1, SessionUnchanged
<1>8. ASSUME NEW c \in Connections, NEW a \in Accounts, Deregister(c, a)
      PROVE  SessionOf(b)'
  <2>1. UNCHANGED sessionVars
    BY <1>8 DEF Deregister, sessionVars, tableVars, accountVars, entityVars
  <2> QED BY <1>2, <2>1, SessionUnchanged
<1> QED BY <1>3, <1>4, <1>5, <1>6, <1>7, <1>8 DEF PoolStep

\* Carrying out an operation that was not overtaken keeps the sessions, and
\* one that was only touches that of its account.
LEMMA HandleKeepsSession ==
    ASSUME SessionInv, HandleStep, NEW b \in Accounts \ TornAccounts
    PROVE  SessionOf(b)'
<1> USE SessionsAssumption
<1>0. TypeOK
  BY DEF SessionInv
<1>1. SessionOf(b) /\ b \in Accounts
  BY DEF SessionInv
<1>2. ASSUME NEW op, NEW c, NEW a, NEW e, Handled(op, c, a, e), b = a
      PROVE  /\ c \in open \ closing
             /\ m_connection[a] = IF op \in {"LOGIN", "CREATE"} THEN None ELSE c
  BY <1>2, HandledOne DEF SessionInv, TestsHold, TestHolds
<1>3. ASSUME NEW c \in Connections, NEW a \in Accounts,
             LoginOperation(c, a) \/ CreateOperation(c, a)
      PROVE  SessionOf(b)'
  <2>1. b = a => c \in open \ closing /\ m_connection[a] = None
    BY <1>2, <1>3 DEF LoginOperation, CreateOperation
  <2>2. Join(c, a)
    BY <1>3 DEF LoginOperation, CreateOperation
  <2> QED BY <1>0, <1>1, <2>1, <2>2, JoinKeeps
<1>4. ASSUME NEW c \in Connections, NEW a \in Accounts, Logout(c, a)
      PROVE  SessionOf(b)'
  <2>1. b = a => m_connection[a] = c /\ c \notin closing
    BY <1>2, <1>4 DEF Logout
  <2>2. DisconnectObject(c, a) /\ UNCHANGED <<open, closing, leaving>>
    BY <1>4 DEF Logout, lifeVars
  <2>3. \A d \in Connections :
            b \in leaving'[d] <=> b \in leaving[d] /\ ~(d = c /\ b = a /\ c \in closing)
    BY <2>1, <2>2
  <2> QED BY <1>0, <1>1, <2>1, <2>2, <2>3, DisconnectObjectKeeps
<1>5. ASSUME NEW c \in Connections, NEW a \in Accounts, NEW e \in Entities,
             PossessOwn(c, a, e) \/ PossessWithKey(c, a, e)
      PROVE  SessionOf(b)'
  <2>1. b = a => m_connection[a] = c
    BY <1>2, <1>5 DEF PossessOwn, PossessWithKey
  <2>2. /\ ConnectCharacter(c, a, e)
        /\ UNCHANGED <<lifeVars, m_connectableRouters, m_connection, lobby, entity>>
    BY <1>5 DEF PossessOwn, PossessWithKey
  <2> QED BY <1>0, <1>1, <2>1, <2>2, ConnectKeeps
<1>6. ASSUME NEW c \in Connections, NEW a \in Accounts, NEW e \in Entities,
             LogoutMind(c, a, e)
      PROVE  SessionOf(b)'
  BY <1>0, <1>1, <1>6, LogoutMindKeeps
<1>7. ASSUME NEW c \in Connections, NEW a \in Accounts,
             EnablePossession(c, a) \/ DisablePossession(c, a)
      PROVE  SessionOf(b)'
  <2>1. UNCHANGED sessionVars
    BY <1>7 DEF EnablePossession, DisablePossession, sessionVars, connectionVars, lifeVars,
                tableVars, accountVars, entityVars
  <2> QED BY <1>1, <2>1, SessionUnchanged
<1>8. ASSUME NEW c \in Connections, NEW a \in Accounts, NEW e \in Entities,
             PossessTooLate(c, a, e)
      PROVE  SessionOf(b)'
  <2>1. UNCHANGED sessionVars
    BY <1>8 DEF PossessTooLate, sessionVars, connectionVars, lifeVars, tableVars, accountVars,
                entityVars
  <2> QED BY <1>1, <2>1, SessionUnchanged
<1> QED BY <1>3, <1>4, <1>5, <1>6, <1>7, <1>8 DEF HandleStep

\* The world keeps the sessions.
LEMMA WorldKeepsSession ==
    ASSUME SessionInv, WorldStep, NEW b \in Accounts \ TornAccounts
    PROVE  SessionOf(b)'
<1> USE SessionsAssumption
<1>0. TypeOK
  BY DEF SessionInv
<1>1. SessionOf(b) /\ b \in Accounts
  BY DEF SessionInv
<1>2. ASSUME NEW a \in Accounts, LookUp(a) PROVE SessionOf(b)'
  <2>1. UNCHANGED sessionVars
    BY <1>2 DEF LookUp, sessionVars, connectionVars, lifeVars, tableVars, entityVars
  <2> QED BY <1>1, <2>1, SessionUnchanged
<1>3. ASSUME NEW e \in Entities, RequestMind(e) \/ RemoveRequest(e) PROVE SessionOf(b)'
  <2>1. UNCHANGED sessionVars
    BY <1>3 DEF RequestMind, RemoveRequest, sessionVars, connectionVars, lifeVars, tableVars,
                accountVars, entityVars
  <2> QED BY <1>1, <2>1, SessionUnchanged
<1>4. ASSUME NEW e \in Entities, DestroyEntity(e) PROVE SessionOf(b)'
  <2>1. Alive' = Alive \ {e} /\ Alive \subseteq Entities
    BY <1>0, <1>4 DEF DestroyEntity, TypeOK, Alive
  <2>2. UNCHANGED <<open, closing, leaving, m_connectableRouters, m_connection, lobby, minds>>
    BY <1>4 DEF DestroyEntity, lifeVars
  <2>3. m_minds'[b] = m_minds[b] \ {e}
    BY <1>1, <1>4 DEF DestroyEntity
  <2>4. ASSUME NEW d \in Connections, NEW m \in Entities \cup {None}
        PROVE  Router(b, m) \in m_routers'[d] <=> Router(b, m) \in m_routers[d] /\ m # e
    <3>1. Router(b, m).mind = m
      BY DEF Router
    <3>2. m_routers'[d] = {r \in m_routers[d] : r.mind # e}
      BY <1>4 DEF DestroyEntity
    <3> QED BY <3>1, <3>2
  <2>5. \A d \in Connections, m \in Entities \cup {None} :
            Router(b, m) \in m_routers'[d] <=> m_connection[b] = d /\ (m = None \/ m \in m_minds'[b])
    BY <1>1, <2>3, <2>4 DEF SessionOf
  <2>6. \A f \in Alive' : b \in minds[f] <=> f \in m_minds'[b]
    BY <1>1, <2>1, <2>3 DEF SessionOf
  <2>7. m_connection[b] = None => m_minds'[b] = {}
    BY <1>1, <2>3 DEF SessionOf
  <2> QED BY <1>1, <2>2, <2>5, <2>6, <2>7 DEF SessionOf
<1>5. ASSUME NEW e \in Entities, NEW owners \in SUBSET Accounts, CreateEntity(e, owners)
      PROVE  SessionOf(b)'
  <2>1. Alive' = Alive \cup {e} /\ e \notin Alive /\ entity[e] = "new"
    BY <1>0, <1>5 DEF CreateEntity, TypeOK, Alive
  <2>2. UNCHANGED <<open, closing, leaving, m_routers, m_connectableRouters, m_connection,
                    m_minds, lobby, minds>>
    BY <1>5 DEF CreateEntity, connectionVars, lifeVars, tableVars
  <2>3. e \notin m_minds[b] /\ minds[e] = {}
    BY <1>1, <2>1 DEF SessionInv, InWorld
  <2>4. \A f \in Alive' : b \in minds'[f] <=> f \in m_minds'[b]
    BY <1>1, <2>1, <2>2, <2>3 DEF SessionOf
  <2> QED BY <1>1, <2>2, <2>4 DEF SessionOf
<1> QED BY <1>2, <1>3, <1>4, <1>5 DEF WorldStep

\* Every step keeps minds and characters in the world.
LEMMA StepInWorld == SessionInv /\ [Next]_vars => InWorld'
<1> SUFFICES ASSUME SessionInv, [Next]_vars PROVE InWorld'
  OBVIOUS
<1>0. TypeOK /\ InWorld /\ Alive \subseteq Entities
  BY DEF SessionInv, Alive
<1>1. ASSUME UNCHANGED <<m_minds, m_charactersDict, entity, minds>> PROVE InWorld'
  BY <1>0, <1>1 DEF InWorld, Alive
<1>2. ASSUME NEW c \in Connections, NEW a \in Accounts, DisconnectObject(c, a)
      PROVE  InWorld'
  BY <1>0, <1>2, RemoveMindsInWorld DEF DisconnectObject
<1>3. ASSUME PoolStep PROVE InWorld'
  <2>1. ASSUME NEW c \in Connections, Connect(c) \/ Disconnect(c) \/ Disconnected(c)
        PROVE  InWorld'
    BY <1>1, <2>1 DEF Connect, Disconnect, Disconnected, accountVars, entityVars
  <2>2. ASSUME NEW c \in Connections, NEW a \in Accounts, DisconnectNext(c, a)
        PROVE  InWorld'
    BY <1>2, <2>2 DEF DisconnectNext
  <2>3. ASSUME NEW a \in Accounts, InsertRow(a) PROVE InWorld'
    BY <1>1, <2>3 DEF InsertRow, entityVars
  <2>4. ASSUME NEW c \in Connections, NEW a \in Accounts, Deregister(c, a) PROVE InWorld'
    BY <1>1, <2>4 DEF Deregister, accountVars, entityVars
  <2> QED BY <1>3, <2>1, <2>2, <2>3, <2>4 DEF PoolStep
<1>4. ASSUME NEW op, NEW c, NEW a, NEW e, Take(op, c, a, e) PROVE InWorld'
  BY <1>1, <1>4 DEF Take, accountVars, entityVars
<1>5. ASSUME HandleStep PROVE InWorld'
  <2>1. ASSUME NEW c \in Connections, NEW a \in Accounts,
               LoginOperation(c, a) \/ CreateOperation(c, a) \/ EnablePossession(c, a)
                 \/ DisablePossession(c, a)
        PROVE  InWorld'
    BY <1>1, <2>1 DEF LoginOperation, CreateOperation, Join, EnablePossession,
                      DisablePossession, accountVars, entityVars
  <2>2. ASSUME NEW c \in Connections, NEW a \in Accounts, Logout(c, a) PROVE InWorld'
    BY <1>2, <2>2 DEF Logout
  <2>3. ASSUME NEW c \in Connections, NEW a \in Accounts, NEW e \in Entities,
               PossessOwn(c, a, e) \/ PossessWithKey(c, a, e)
        PROVE  InWorld'
    <3>1. e \in Alive
      BY <2>3, HandledOne DEF PossessOwn, PossessWithKey, SessionInv, TestsHold, TestHolds
    <3>2. ConnectCharacter(c, a, e) /\ UNCHANGED <<m_charactersDict, entity>>
      BY <2>3 DEF PossessOwn, PossessWithKey
    <3>3. \A b \in Accounts : m_minds'[b] \subseteq m_minds[b] \cup {e}
      BY <1>0, <3>2 DEF ConnectCharacter, TypeOK
    <3>4. \A f \in Entities \ {e} : minds'[f] = minds[f]
      BY <1>0, <3>2 DEF ConnectCharacter, TypeOK
    <3> QED BY <1>0, <3>1, <3>2, <3>3, <3>4 DEF InWorld, Alive
  <2>4. ASSUME NEW c \in Connections, NEW a \in Accounts, NEW e \in Entities,
               PossessTooLate(c, a, e)
        PROVE  InWorld'
    BY <1>1, <2>4 DEF PossessTooLate, accountVars, entityVars
  <2>5. ASSUME NEW c \in Connections, NEW a \in Accounts, NEW e \in Entities,
               LogoutMind(c, a, e)
        PROVE  InWorld'
    BY <1>0, <2>5, RemoveMindsInWorld DEF LogoutMind
  <2> QED BY <1>5, <2>1, <2>2, <2>3, <2>4, <2>5 DEF HandleStep
<1>6. ASSUME WorldStep PROVE InWorld'
  <2>1. ASSUME NEW a \in Accounts, LookUp(a) PROVE InWorld'
    BY <1>1, <2>1 DEF LookUp, entityVars
  <2>2. ASSUME NEW e \in Entities, RequestMind(e) \/ RemoveRequest(e) PROVE InWorld'
    BY <1>1, <2>2 DEF RequestMind, RemoveRequest, accountVars, entityVars
  <2>3. ASSUME NEW e \in Entities, DestroyEntity(e) PROVE InWorld'
    <3>1. Alive' = Alive \ {e}
      BY <1>0, <2>3 DEF DestroyEntity, TypeOK, Alive
    <3>2. \A f \in Entities : entity'[f] = "new" => entity[f] = "new"
      BY <1>0, <2>3 DEF DestroyEntity, TypeOK
    <3> QED BY <1>0, <2>3, <3>1, <3>2 DEF DestroyEntity, InWorld
  <2>4. ASSUME NEW e \in Entities, NEW owners \in SUBSET Accounts, CreateEntity(e, owners)
        PROVE  InWorld'
    <3>1. Alive' = Alive \cup {e}
      BY <1>0, <2>4 DEF CreateEntity, TypeOK, Alive
    <3>2. \A f \in Entities : entity'[f] = "new" => entity[f] = "new"
      BY <1>0, <2>4 DEF CreateEntity, TypeOK
    <3> QED BY <1>0, <2>4, <3>1, <3>2 DEF CreateEntity, InWorld
  <2> QED BY <1>6, <2>1, <2>2, <2>3, <2>4 DEF WorldStep
<1>7. UNCHANGED vars => InWorld'
  BY <1>1 DEF vars, accountVars, entityVars
<1> QED BY <1>3, <1>4, <1>5, <1>6, <1>7 DEF Next, TakeStep

\* Every step keeps those who are logged in in memory.
LEMMA StepLoggedIn == SessionInv /\ [Next]_vars => LoggedInIsKnown'
<1> SUFFICES ASSUME SessionInv, [Next]_vars PROVE LoggedInIsKnown'
  OBVIOUS
<1>0. TypeOK /\ LoggedInIsKnown
  BY DEF SessionInv
<1>1. ASSUME UNCHANGED m_connection, m_accounts \subseteq m_accounts' PROVE LoggedInIsKnown'
  BY <1>0, <1>1 DEF LoggedInIsKnown
<1>2. ASSUME NEW c \in Connections, NEW a \in Accounts, DisconnectObject(c, a)
      PROVE  LoggedInIsKnown'
  BY <1>0, <1>2 DEF DisconnectObject, LoggedInIsKnown, TypeOK
<1>3. ASSUME PoolStep PROVE LoggedInIsKnown'
  <2>1. ASSUME NEW c \in Connections, Connect(c) \/ Disconnect(c) \/ Disconnected(c)
        PROVE  LoggedInIsKnown'
    BY <1>1, <2>1 DEF Connect, Disconnect, Disconnected, accountVars
  <2>2. ASSUME NEW c \in Connections, NEW a \in Accounts, DisconnectNext(c, a)
        PROVE  LoggedInIsKnown'
    BY <1>2, <2>2 DEF DisconnectNext
  <2>3. ASSUME NEW a \in Accounts, InsertRow(a) PROVE LoggedInIsKnown'
    BY <1>1, <2>3 DEF InsertRow
  <2>4. ASSUME NEW c \in Connections, NEW a \in Accounts, Deregister(c, a) PROVE LoggedInIsKnown'
    BY <1>1, <2>4 DEF Deregister, accountVars
  <2> QED BY <1>3, <2>1, <2>2, <2>3, <2>4 DEF PoolStep
<1>4. ASSUME NEW op, NEW c, NEW a, NEW e, Take(op, c, a, e) PROVE LoggedInIsKnown'
  BY <1>1, <1>4 DEF Take, accountVars
<1>5. ASSUME HandleStep PROVE LoggedInIsKnown'
  <2>1. ASSUME NEW c \in Connections, NEW a \in Accounts,
               LoginOperation(c, a) \/ CreateOperation(c, a)
        PROVE  LoggedInIsKnown'
    <3>1. /\ m_accounts' = m_accounts \cup {a}
          /\ \A b \in Accounts \ {a} : m_connection'[b] = m_connection[b]
      BY <1>0, <2>1 DEF LoginOperation, CreateOperation, AddAccount, Join, TypeOK
    <3> QED BY <1>0, <3>1 DEF LoggedInIsKnown
  <2>2. ASSUME NEW c \in Connections, NEW a \in Accounts, Logout(c, a) PROVE LoggedInIsKnown'
    BY <1>2, <2>2 DEF Logout
  <2>3. ASSUME NEW c \in Connections, NEW a \in Accounts,
               EnablePossession(c, a) \/ DisablePossession(c, a)
        PROVE  LoggedInIsKnown'
    BY <1>1, <2>3 DEF EnablePossession, DisablePossession, accountVars
  <2>4. ASSUME NEW c \in Connections, NEW a \in Accounts, NEW e \in Entities,
               PossessOwn(c, a, e) \/ PossessWithKey(c, a, e) \/ PossessTooLate(c, a, e)
                 \/ LogoutMind(c, a, e)
        PROVE  LoggedInIsKnown'
    BY <1>1, <2>4 DEF PossessOwn, PossessWithKey, PossessTooLate, LogoutMind, accountVars
  <2> QED BY <1>5, <2>1, <2>2, <2>3, <2>4 DEF HandleStep
<1>6. ASSUME WorldStep PROVE LoggedInIsKnown'
  <2>1. UNCHANGED m_connection /\ m_accounts \subseteq m_accounts'
    BY <1>6 DEF WorldStep, LookUp, RequestMind, RemoveRequest, DestroyEntity, CreateEntity,
                accountVars
  <2> QED BY <1>1, <2>1
<1>7. UNCHANGED vars => LoggedInIsKnown'
  BY <1>1 DEF vars, accountVars
<1> QED BY <1>3, <1>4, <1>5, <1>6, <1>7 DEF Next, TakeStep

\* What was tested still holds after a step of the pool, unless that is the
\* beginning of the end of the operation's connection.
LEMMA PoolKeepsTests ==
    ASSUME SessionInv, PoolStep
    PROVE  TestsHold'
<1> USE SessionsAssumption
<1>0. TypeOK
  BY DEF SessionInv
<1>1. overtaken \subseteq overtaken' /\ UNCHANGED <<handling, entity>>
  BY DEF PoolStep, Connect, Disconnect, Overtake, Deregister, DisconnectNext,
         DisconnectObject, Disconnected, InsertRow, threadVars, entityVars
<1> SUFFICES ASSUME NEW h \in handling PROVE TestHolds(h)'
  BY <1>1 DEF TestsHold
<1>2. TestHolds(h) /\ h.account \in Accounts /\ h.link \in Connections
  BY <1>0 DEF SessionInv, TestsHold, TypeOK, Operations
<1>3. TornAccounts \subseteq TornAccounts' /\ TornLinks \subseteq TornLinks'
  BY <1>1, TornGrows
<1>4. ASSUME h.link \in open \ closing => h.link \in open' \ closing',
             m_connection'[h.account] = m_connection[h.account]
      PROVE  TestHolds(h)'
  BY <1>1, <1>2, <1>3, <1>4 DEF TestHolds, Alive
<1>5. ASSUME NEW c \in Connections, Connect(c) PROVE TestHolds(h)'
  BY <1>4, <1>5 DEF Connect, accountVars
<1>6. ASSUME NEW c \in Connections, Disconnect(c) PROVE TestHolds(h)'
  <2>1. UNCHANGED <<open, m_connection>> /\ closing' = closing \cup {c}
    BY <1>6 DEF Disconnect, accountVars
  <2>2. CASE h.link # c
    BY <1>4, <2>1, <2>2
  <2>3. CASE h.link = c
    <3>1. [link |-> h.link, account |-> h.account] \in overtaken'
      BY <1>6, <2>3 DEF Disconnect, Overtake
    <3>2. h.link \in TornLinks' /\ h.account \in TornAccounts'
      BY <3>1 DEF TornLinks, TornAccounts
    <3> QED BY <1>1, <1>2, <3>2 DEF TestHolds, Alive
  <2> QED BY <2>2, <2>3
<1>7. ASSUME NEW c \in Connections, NEW a \in Accounts, DisconnectNext(c, a)
      PROVE  TestHolds(h)'
  <2>1. UNCHANGED <<open, closing, overtaken>> /\ c \in closing /\ a \in leaving[c]
    BY <1>7 DEF DisconnectNext, threadVars
  <2>2. \A b \in Accounts : m_connection'[b] = IF b = a THEN None ELSE m_connection[b]
    BY <1>0, <1>7 DEF DisconnectNext, DisconnectObject, TypeOK
  <2>3. CASE h.account # a
    BY <1>2, <1>4, <2>1, <2>2, <2>3
  <2>4. CASE h.account = a /\ a \in TornAccounts
    BY <1>1, <1>2, <1>3, <2>1, <2>4 DEF TestHolds, Alive
  <2>5. CASE h.account = a /\ a \notin TornAccounts
    <3>1. m_connection[a] = c
      BY <2>1, <2>5 DEF SessionInv, SessionOf
    <3>2. c # None
      OBVIOUS
    <3> QED BY <1>2, <2>1, <2>5, <3>1, <3>2 DEF TestHolds
  <2> QED BY <2>3, <2>4, <2>5
<1>8. ASSUME NEW c \in Connections, Disconnected(c) PROVE TestHolds(h)'
  <2>1. UNCHANGED m_connection /\ open' = open \ {c} /\ closing' = closing \ {c} /\ c \in closing
    BY <1>8 DEF Disconnected, accountVars
  <2> QED BY <1>4, <2>1
<1>9. ASSUME NEW a \in Accounts, InsertRow(a) PROVE TestHolds(h)'
  BY <1>4, <1>9 DEF InsertRow, connectionVars, lifeVars
<1>10. ASSUME NEW c \in Connections, NEW a \in Accounts, Deregister(c, a) PROVE TestHolds(h)'
  BY <1>4, <1>10 DEF Deregister, accountVars
<1> QED BY <1>5, <1>6, <1>7, <1>8, <1>9, <1>10 DEF PoolStep

\* An operation that is taken was tested.
LEMMA TakeTests ==
    ASSUME SessionInv, NEW op \in ConnectionOps \cup AccountOps, NEW c \in Connections,
           NEW a \in Accounts, NEW e \in Entities \cup {None}, Take(op, c, a, e)
    PROVE  TestsHold'
<1> USE SessionsAssumption
<1>1. /\ UNCHANGED <<overtaken, open, closing, m_connection, entity>>
      /\ handling' = {Operation(op, c, a, e)}
      /\ c \in open \ closing
      /\ Test(op, c, a, e)
  BY DEF Take, connectionVars, lifeVars, accountVars, entityVars
<1> DEFINE h == Operation(op, c, a, e)
<1>2. h.op = op /\ h.link = c /\ h.account = a /\ h.entity = e
  BY OperationParts
<1>3. ASSUME a \notin TornAccounts
      PROVE  m_connection[a] = IF op \in {"LOGIN", "CREATE"} THEN None ELSE c
  <2>0. SessionOf(a)
    BY <1>3 DEF SessionInv
  <2>1. CASE op \in AccountOps
    BY <1>1, <2>1 DEF Test, AccountOps
  <2>2. CASE op = "LOGIN"
    BY <1>1, <2>2 DEF Test
  <2>3. CASE op = "CREATE"
    BY <1>1, <2>3 DEF Test, Found, SessionInv, LoggedInIsKnown
  <2>4. CASE op = "LOGOUT"
    BY <1>1, <2>0, <2>4 DEF Test, SessionOf
  <2> QED BY <2>1, <2>2, <2>3, <2>4 DEF ConnectionOps
<1>4. op \in {"POSSESS_OWN", "POSSESS_KEY"} => e \in Alive
  <2>1. CASE op = "POSSESS_OWN"
    BY <1>1, <2>1 DEF Test, SessionInv, InWorld
  <2>2. CASE op = "POSSESS_KEY"
    <3>1. [link |-> c, entity |-> e] \in offers /\ entity[e] = "alive"
      BY <1>1, <2>2 DEF Test
    <3>2. [link |-> c, entity |-> e].entity = e
      OBVIOUS
    <3>3. \A o \in offers : o.entity \in Entities
      BY DEF SessionInv, TypeOK
    <3> QED BY <3>1, <3>2, <3>3 DEF Alive
  <2> QED BY <2>1, <2>2
<1>5. op = "POSSESS_LATE" => entity[e] = "destroyed"
  BY <1>1 DEF Test
<1> HIDE DEF h
<1>6. TestHolds(h)
  BY <1>1, <1>2, <1>3, <1>4, <1>5 DEF TestHolds
<1>7. TestHolds(h)'
  BY <1>1, <1>6 DEF TestHolds, TornLinks, TornAccounts, Alive
<1> QED BY <1>1, <1>7 DEF TestsHold, h

\* Every step keeps SessionInv.
LEMMA StepSessionInv == SessionInv /\ [Next]_vars => SessionInv'
<1> SUFFICES ASSUME SessionInv, [Next]_vars PROVE SessionInv'
  OBVIOUS
<1>0. TypeOK' /\ InWorld' /\ LoggedInIsKnown'
  BY StepType, StepInWorld, StepLoggedIn DEF SessionInv
<1>1. CASE PoolStep
  BY <1>0, <1>1, PoolKeepsSession, PoolKeepsTests DEF SessionInv
<1>2. CASE TakeStep
  <2>1. TestsHold'
    <3>1. {"ENABLE", "DISABLE"} \subseteq AccountOps
      BY DEF AccountOps
    <3> QED BY <1>2, <3>1, TakeTests DEF TakeStep
  <2>2. UNCHANGED sessionVars /\ UNCHANGED overtaken
    BY <1>2 DEF TakeStep, Take, sessionVars, connectionVars, lifeVars, tableVars, accountVars,
                entityVars
  <2>3. TornAccounts' = TornAccounts
    BY <2>2 DEF TornAccounts
  <2>4. \A a \in Accounts \ TornAccounts : SessionOf(a)'
    BY <2>2, SessionUnchanged DEF SessionInv
  <2> QED BY <1>0, <2>1, <2>3, <2>4 DEF SessionInv
<1>3. CASE HandleStep
  <2>1. handling' = {} /\ UNCHANGED overtaken
    <3>1. ASSUME NEW op, NEW c, NEW a, NEW e, Handled(op, c, a, e)
          PROVE  handling' = {} /\ UNCHANGED overtaken
      BY <3>1 DEF Handled
    <3>2. ASSUME NEW c \in Connections, NEW a \in Accounts,
                 LoginOperation(c, a) \/ CreateOperation(c, a) \/ Logout(c, a)
                   \/ EnablePossession(c, a) \/ DisablePossession(c, a)
          PROVE  handling' = {} /\ UNCHANGED overtaken
      BY <3>1, <3>2 DEF LoginOperation, CreateOperation, Logout, EnablePossession,
                        DisablePossession
    <3>3. ASSUME NEW c \in Connections, NEW a \in Accounts, NEW e \in Entities,
                 PossessOwn(c, a, e) \/ PossessWithKey(c, a, e) \/ PossessTooLate(c, a, e)
                   \/ LogoutMind(c, a, e)
          PROVE  handling' = {} /\ UNCHANGED overtaken
      BY <3>1, <3>3 DEF PossessOwn, PossessWithKey, PossessTooLate, LogoutMind
    <3> QED BY <1>3, <3>2, <3>3 DEF HandleStep
  <2>2. TornAccounts' = TornAccounts /\ TestsHold'
    BY <2>1 DEF TornAccounts, TestsHold
  <2> QED BY <1>0, <1>3, <2>2, HandleKeepsSession DEF SessionInv
<1>4. CASE WorldStep
  <2>1. handling' = {} /\ UNCHANGED overtaken
    BY <1>4 DEF WorldStep, LookUp, RequestMind, RemoveRequest, DestroyEntity, CreateEntity,
                threadVars
  <2>2. TornAccounts' = TornAccounts /\ TestsHold'
    BY <2>1 DEF TornAccounts, TestsHold
  <2> QED BY <1>0, <1>4, <2>2, WorldKeepsSession DEF SessionInv
<1>5. CASE UNCHANGED vars
  <2>1. UNCHANGED sessionVars /\ UNCHANGED <<handling, overtaken>>
    BY <1>5 DEF vars, threadVars, sessionVars, connectionVars, lifeVars, tableVars, accountVars,
                entityVars
  <2>2. TornAccounts' = TornAccounts /\ TornLinks' = TornLinks
    BY <2>1 DEF TornAccounts, TornLinks
  <2>3. \A a \in Accounts \ TornAccounts : SessionOf(a)'
    BY <2>1, SessionUnchanged DEF SessionInv
  <2>4. TestsHold'
    BY <2>1, <2>2 DEF SessionInv, TestsHold, TestHolds, sessionVars, Alive
  <2> QED BY <1>0, <2>2, <2>3, <2>4 DEF SessionInv
<1> QED BY <1>1, <1>2, <1>3, <1>4, <1>5 DEF Next

\* SessionInv always holds.
LEMMA SessionInvHolds == Spec => []SessionInv
<1>1. Init => SessionInv
  <2> SUFFICES ASSUME Init PROVE SessionInv
    OBVIOUS
  <2> USE SessionsAssumption
  <2>1. ASSUME NEW a \in Accounts PROVE SessionOf(a)
    <3>1. Alive = {} /\ closing = {} /\ m_connection[a] = None /\ m_minds[a] = {} /\ lobby = {}
      BY DEF Init, Alive
    <3>2. \A c \in Connections : m_connectableRouters[c] = {} /\ m_routers[c] = {} /\ c # None
      BY DEF Init
    <3> QED BY <3>1, <3>2 DEF SessionOf
  <2>2. InWorld /\ LoggedInIsKnown /\ TestsHold
    BY DEF Init, InWorld, LoggedInIsKnown, TestsHold
  <2> QED BY <2>1, <2>2, InitType DEF SessionInv
<1> QED BY <1>1, StepSessionInv, PTL DEF Spec

\* An account and its minds are routers of its connection and of no other,
\* although ~Connection runs beside the operations of the main thread, unless
\* it overtook an operation of that account.
THEOREM RoutersAreOwn == Spec => []RoutersAreSessions
BY SessionInvHolds, SessionsAgree, PTL

\* A mind is known to its account and to its entity or to neither, whichever
\* of logout, ~Connection, possession and death comes first, unless the end of
\* the connection overtook an operation of that account.
THEOREM BothEndsAgree == Spec => []MindsAgree
BY SessionInvHolds, SessionsAgree, PTL

-----------------------------------------------------------------------------
\* The entities that lose their last mind when those of gone are removed.
Emptied(gone) ==
    {e \in {r.mind : r \in gone} \cap Alive \cap hooked : Without(gone)[e] = {}}

\* The manager asks for a client for them.
LEMMA EmptiedAreRequested ==
    ASSUME NEW gone, RemoveMinds(gone)
    PROVE  /\ RequestPossession(m_connections, m_possessions \cup Emptied(gone), Emptied(gone))
           /\ Emptied(gone) \in SUBSET Entities
BY DEF RemoveMinds, MindsChanged, Emptied, Alive

\* RemoveMinds makes offers to registered clients only.
LEMMA RemoveMindsLinks ==
    ASSUME m_connections \in [Accounts -> Links], NEW gone, RemoveMinds(gone)
    PROVE  \A o \in offers' \ offers :
             \E a \in Registered(m_connections) : o.link = m_connections[a]
<1>1. /\ RequestPossession(m_connections, m_possessions \cup Emptied(gone), Emptied(gone))
      /\ Emptied(gone) \in SUBSET Entities
  BY EmptiedAreRequested
<1> QED BY <1>1, RequestFacts

\* If there is a client, RemoveMinds offers whoever lost the last mind.
LEMMA RemoveMindsOffers ==
    ASSUME m_connections \in [Accounts -> Links], NEW gone, RemoveMinds(gone)
    PROVE  /\ offers \subseteq offers'
           /\ Registered(m_connections) # {} =>
                \A e \in Emptied(gone) : \E o \in offers' : o.entity = e
           /\ \A e \in abandoned \ abandoned' : \E o \in offers' : o.entity = e
<1>1. Emptied(gone) \cap (m_possessions \cup Emptied(gone)) = Emptied(gone)
  OBVIOUS
<1>2. /\ RequestPossession(m_connections, m_possessions \cup Emptied(gone), Emptied(gone))
      /\ Emptied(gone) \in SUBSET Entities
  BY EmptiedAreRequested
<1> QED BY <1>1, <1>2, RequestFacts

\* Connection c is there and has AI clients to deregister, unless its end
\* overtook an operation.
LiveLink(c) == c \notin TornLinks => c \in open /\ ToDeregister(c) # {}

\* The entry of account a in the registry, if there is one.
LiveEntry(a) ==
    m_connections[a] # None =>
        /\ LiveLink(m_connections[a])
        /\ m_connections[a] \notin TornLinks => a \in ToDeregister(m_connections[a])

\* What makes a link live.
registryVars == <<open, closing, deregistering, m_possessionRouters>>

\* RegistryIsLive, one entry and one offer at a time.
LEMMA RegistryParts ==
    RegistryIsLive <=> /\ \A a \in Accounts : LiveEntry(a)
                       /\ \A o \in offers : LiveLink(o.link)
BY DEF RegistryIsLive, Registered, LiveEntry, LiveLink

\* New offers go to entries of the registry.
LEMMA OffersAreLive ==
    ASSUME \A a \in Accounts : LiveEntry(a)',
           \A o \in offers \cap offers' : LiveLink(o.link)',
           \A o \in offers' \ offers :
               \E a \in Registered(m_connections') : o.link = m_connections'[a]
    PROVE  RegistryIsLive'
<1>1. ASSUME NEW o \in offers' PROVE LiveLink(o.link)'
  <2>1. CASE o \in offers
    BY <2>1
  <2>2. CASE o \notin offers
    <3>1. PICK a \in Registered(m_connections') : o.link = m_connections'[a]
      BY <2>2
    <3>2. a \in Accounts /\ m_connections'[a] # None
      BY DEF Registered
    <3> QED BY <3>1, <3>2 DEF LiveEntry
  <2> QED BY <2>1, <2>2
<1> QED BY <1>1, RegistryParts DEF LiveEntry, LiveLink, RegistryIsLive, Registered

\* Every step keeps RegistryIsLive.
LEMMA StepRegistry == SessionInv /\ RegistryIsLive /\ [Next]_vars => RegistryIsLive'
<1> SUFFICES ASSUME SessionInv, RegistryIsLive, [Next]_vars PROVE RegistryIsLive'
  OBVIOUS
<1> USE SessionsAssumption
<1>0. /\ TypeOK
      /\ m_connections \in [Accounts -> Links]
  BY DEF SessionInv, TypeOK
<1>1. /\ \A a \in Accounts : LiveEntry(a)
      /\ \A o \in offers : LiveLink(o.link)
  BY RegistryParts
<1>2. ASSUME UNCHANGED <<overtaken, registryVars, m_connections>>,
             \A o \in offers' \ offers :
                \E a \in Registered(m_connections) : o.link = m_connections[a]
      PROVE  RegistryIsLive'
  <2>1. TornLinks' = TornLinks
    BY <1>2 DEF TornLinks
  <2>2. \A a \in Accounts : LiveEntry(a)'
    BY <1>1, <1>2, <2>1 DEF LiveEntry, LiveLink, ToDeregister, registryVars
  <2>3. \A o \in offers : LiveLink(o.link)'
    BY <1>1, <1>2, <2>1 DEF LiveLink, ToDeregister, registryVars
  <2> QED BY <1>2, <2>2, <2>3, OffersAreLive DEF Registered
<1>3. ASSUME NEW gone, RemoveMinds(gone),
             UNCHANGED <<overtaken, registryVars, m_connections>>
      PROVE  RegistryIsLive'
  BY <1>0, <1>2, <1>3, RemoveMindsLinks
<1>4. ASSUME NEW c \in Connections, Connect(c) PROVE RegistryIsLive'
  <2>1. /\ UNCHANGED <<overtaken, closing, deregistering, m_connections, offers>>
        /\ open' = open \cup {c}
        /\ c \notin open
        /\ \A a \in Accounts : m_connections[a] # c
    BY <1>4 DEF Connect, threadVars, managerVars
  <2>2. \A d \in Connections \ {c} : ToDeregister(d)' = ToDeregister(d)
    BY <1>0, <1>4 DEF Connect, ToDeregister, TypeOK
  <2>3. TornLinks' = TornLinks
    BY <2>1 DEF TornLinks
  <2>4. \A a \in Accounts : LiveEntry(a)'
    BY <1>0, <1>1, <2>1, <2>2, <2>3 DEF LiveEntry, LiveLink, Links
  <2>5. \A o \in offers : LiveLink(o.link)'
    <3>1. \A o \in offers : o.link \in Connections
      BY <1>0 DEF TypeOK
    <3> QED BY <1>1, <2>1, <2>2, <2>3, <3>1 DEF LiveLink
  <2> QED BY <2>1, <2>4, <2>5, OffersAreLive
<1>5. ASSUME NEW c \in Connections, Disconnect(c) PROVE RegistryIsLive'
  <2>1. /\ UNCHANGED <<open, m_possessionRouters, m_connections>>
        /\ offers' \subseteq offers
        /\ overtaken \subseteq overtaken'
    BY <1>5 DEF Disconnect, OffersVoid, Overtake, tableVars
  <2>2. TornLinks \subseteq TornLinks'
    BY <2>1, TornGrows
  <2>3. \A d \in Connections : ToDeregister(d)' = ToDeregister(d)
    BY <1>0, <1>5, <2>1 DEF Disconnect, ToDeregister, TypeOK
  <2>4. \A a \in Accounts : LiveEntry(a)'
    BY <1>0, <1>1, <2>1, <2>2, <2>3 DEF LiveEntry, LiveLink, Links
  <2>5. \A o \in offers' : LiveLink(o.link)'
    <3>1. \A o \in offers : o.link \in Connections
      BY <1>0 DEF TypeOK
    <3> QED BY <1>1, <2>1, <2>2, <2>3, <3>1 DEF LiveLink
  <2> QED BY <2>1, <2>4, <2>5, OffersAreLive
<1>24. ASSUME NEW c \in Connections, NEW a \in Accounts, Deregister(c, a)
       PROVE  RegistryIsLive'
  <2>1. /\ UNCHANGED <<overtaken, open>>
        /\ offers' = {o \in offers : o.link # c}
    BY <1>24 DEF Deregister, OffersVoid, threadVars
  <2>2. TornLinks' = TornLinks
    BY <2>1 DEF TornLinks
  <2>3. \A d \in Connections :
            /\ ToDeregister(d) \ {a} \subseteq ToDeregister(d)'
            /\ d # c => ToDeregister(d)' = ToDeregister(d)
    BY <1>0, <1>24 DEF Deregister, ToDeregister, TypeOK, tableVars
  <2>4. \A b \in Accounts : m_connections'[b] = IF b = a THEN None ELSE m_connections[b]
    BY <1>0, <1>24 DEF Deregister
  <2>5. \A b \in Accounts : LiveEntry(b)'
    BY <1>0, <1>1, <2>1, <2>2, <2>3, <2>4 DEF LiveEntry, LiveLink, Links
  <2>6. \A o \in offers' : LiveLink(o.link)'
    <3>1. \A o \in offers : o.link \in Connections
      BY <1>0 DEF TypeOK
    <3> QED BY <1>1, <2>1, <2>2, <2>3, <3>1 DEF LiveLink
  <2> QED BY <2>1, <2>5, <2>6, OffersAreLive
<1>6. ASSUME NEW c \in Connections, NEW a \in Accounts, DisconnectNext(c, a)
      PROVE  RegistryIsLive'
  BY <1>3, <1>6 DEF DisconnectNext, DisconnectObject, threadVars, registryVars
<1>7. ASSUME NEW c \in Connections, Disconnected(c) PROVE RegistryIsLive'
  <2>1. /\ UNCHANGED <<overtaken, m_possessionRouters, deregistering, m_connections, offers>>
        /\ c \in closing /\ deregistering[c] = {}
        /\ open' = open \ {c} /\ closing' = closing \ {c}
    BY <1>7 DEF Disconnected, threadVars, tableVars, managerVars
  <2>2. TornLinks' = TornLinks
    BY <2>1 DEF TornLinks
  <2>3. /\ ToDeregister(c) = {}
        /\ \A d \in Connections \ {c} : ToDeregister(d)' = ToDeregister(d)
    BY <2>1 DEF ToDeregister
  <2>4. \A a \in Accounts : LiveEntry(a)'
    BY <1>0, <1>1, <2>1, <2>2, <2>3 DEF LiveEntry, LiveLink, Links
  <2>5. \A o \in offers : LiveLink(o.link)'
    <3>1. \A o \in offers : o.link \in Connections
      BY <1>0 DEF TypeOK
    <3> QED BY <1>1, <2>1, <2>2, <2>3, <3>1 DEF LiveLink
  <2> QED BY <2>1, <2>4, <2>5, OffersAreLive
<1>8. ASSUME NEW a \in Accounts, InsertRow(a) PROVE RegistryIsLive'
  BY <1>2, <1>8 DEF InsertRow, threadVars, connectionVars, lifeVars, tableVars, managerVars,
                    registryVars
<1>9. ASSUME NEW op, NEW c, NEW a, NEW e, Take(op, c, a, e) PROVE RegistryIsLive'
  BY <1>2, <1>9 DEF Take, connectionVars, lifeVars, tableVars, managerVars, registryVars
<1>10. ASSUME NEW c \in Connections, NEW a \in Accounts,
              LoginOperation(c, a) \/ CreateOperation(c, a)
       PROVE  RegistryIsLive'
  BY <1>2, <1>10 DEF LoginOperation, CreateOperation, Join, Handled, lifeVars, managerVars,
                     registryVars
<1>11. ASSUME NEW c \in Connections, NEW a \in Accounts, Logout(c, a) PROVE RegistryIsLive'
  BY <1>3, <1>11 DEF Logout, DisconnectObject, Handled, lifeVars, registryVars
<1>12. ASSUME NEW c \in Connections, NEW a \in Accounts, EnablePossession(c, a)
       PROVE  RegistryIsLive'
  <2>1. c \notin TornLinks => c \in open \ closing
    BY <1>12, HandledOne DEF EnablePossession, SessionInv, TestsHold, TestHolds
  <2>2. \A b \in Accounts : m_connections'[b] = IF b = a THEN c ELSE m_connections[b]
    BY <1>0, <1>12 DEF EnablePossession, AddConnection
  <2>3. m_connections' \in [Accounts -> Links]
    BY <1>0, <1>12 DEF EnablePossession, AddConnection, Links
  <2>4. \A d \in Connections :
            m_possessionRouters'[d] = IF d = c THEN m_possessionRouters[d] \cup {a}
                                      ELSE m_possessionRouters[d]
    BY <1>0, <1>12 DEF EnablePossession, TypeOK
  <2>5. UNCHANGED <<open, closing, deregistering, overtaken>>
    BY <1>12 DEF EnablePossession, Handled, lifeVars
  <2>6. TornLinks' = TornLinks
    BY <2>5 DEF TornLinks
  <2>12. \A d \in Connections :
            /\ ToDeregister(d) \subseteq ToDeregister(d)'
            /\ d = c /\ d \notin closing => a \in ToDeregister(d)'
    BY <2>4, <2>5 DEF ToDeregister
  <2>7. ASSUME NEW b \in Accounts PROVE LiveEntry(b)'
    <3>1. CASE b = a
      BY <2>1, <2>2, <2>5, <2>6, <2>12, <3>1 DEF LiveEntry, LiveLink
    <3>2. CASE b # a
      BY <1>0, <1>1, <2>2, <2>5, <2>6, <2>12, <3>2 DEF LiveEntry, LiveLink, Links
    <3> QED BY <3>1, <3>2
  <2>8. RequestPossession(m_connections', m_possessions, m_unpossessedEntities)
    BY <1>12 DEF EnablePossession, AddConnection
  <2>9. m_unpossessedEntities \in SUBSET Entities
    BY <1>0 DEF TypeOK
  <2>10. \A o \in offers' \ offers :
            \E b \in Registered(m_connections') : o.link = m_connections'[b]
    BY <2>3, <2>8, <2>9, RequestFacts
  <2>11. \A o \in offers : LiveLink(o.link)'
    <3>1. \A o \in offers : o.link \in Connections
      BY <1>0 DEF TypeOK
    <3> QED BY <1>1, <2>5, <2>6, <2>12, <3>1 DEF LiveLink
  <2> QED BY <2>7, <2>10, <2>11, OffersAreLive
<1>13. ASSUME NEW c \in Connections, NEW a \in Accounts, DisablePossession(c, a)
       PROVE  RegistryIsLive'
  <2>1. UNCHANGED <<overtaken, registryVars, offers>>
    BY <1>13 DEF DisablePossession, Handled, connectionVars, lifeVars, tableVars, registryVars
  <2>2. \A b \in Accounts : m_connections'[b] = IF b = a THEN None ELSE m_connections[b]
    BY <1>0, <1>13 DEF DisablePossession
  <2>3. TornLinks' = TornLinks
    BY <2>1 DEF TornLinks
  <2>4. \A b \in Accounts : LiveEntry(b)'
    BY <1>1, <2>1, <2>2, <2>3 DEF LiveEntry, LiveLink, ToDeregister, registryVars
  <2>5. \A o \in offers : LiveLink(o.link)'
    BY <1>1, <2>1, <2>3 DEF LiveLink, ToDeregister, registryVars
  <2> QED BY <2>1, <2>4, <2>5, OffersAreLive
<1>14. ASSUME NEW c \in Connections, NEW a \in Accounts, NEW e \in Entities,
              PossessOwn(c, a, e) \/ PossessWithKey(c, a, e) \/ PossessTooLate(c, a, e)
       PROVE  RegistryIsLive'
  <2>1. /\ UNCHANGED <<overtaken, registryVars, m_connections>>
        /\ offers' \subseteq offers
    BY <1>14 DEF PossessOwn, PossessWithKey, PossessTooLate, RemovePossession, Handled,
                 connectionVars, lifeVars, tableVars, registryVars
  <2> QED BY <1>2, <2>1
<1>15. ASSUME NEW c \in Connections, NEW a \in Accounts, NEW e \in Entities,
              LogoutMind(c, a, e)
       PROVE  RegistryIsLive'
  BY <1>3, <1>15 DEF LogoutMind, Handled, lifeVars, registryVars
<1>16. ASSUME NEW a \in Accounts, LookUp(a) PROVE RegistryIsLive'
  BY <1>2, <1>16 DEF LookUp, threadVars, connectionVars, lifeVars, tableVars, managerVars,
                     registryVars
<1>17. ASSUME NEW e \in Entities, RequestMind(e) PROVE RegistryIsLive'
  <2> DEFINE es == IF minds[e] = {} THEN {e} ELSE {}
  <2>1. RequestPossession(m_connections, m_possessions', es)
    BY <1>17 DEF RequestMind
  <2>2. es \in SUBSET Entities
    OBVIOUS
  <2>3. UNCHANGED <<overtaken, registryVars, m_connections>>
    BY <1>17 DEF RequestMind, threadVars, connectionVars, lifeVars, tableVars, registryVars
  <2> HIDE DEF es
  <2>4. \A o \in offers' \ offers :
            \E b \in Registered(m_connections) : o.link = m_connections[b]
    BY <1>0, <2>1, <2>2, RequestFacts
  <2> QED BY <1>2, <2>3, <2>4
<1>18. ASSUME NEW e \in Entities, RemoveRequest(e) \/ DestroyEntity(e)
       PROVE  RegistryIsLive'
  BY <1>2, <1>18 DEF RemoveRequest, DestroyEntity, threadVars, connectionVars, lifeVars,
                     tableVars, registryVars
<1>19. ASSUME NEW e \in Entities, NEW owners \in SUBSET Accounts, CreateEntity(e, owners)
       PROVE  RegistryIsLive'
  BY <1>2, <1>19 DEF CreateEntity, threadVars, connectionVars, lifeVars, tableVars, managerVars,
                     registryVars
<1>20. UNCHANGED vars => RegistryIsLive'
  BY <1>2 DEF vars, threadVars, connectionVars, lifeVars, tableVars, managerVars, registryVars
<1>21. PoolStep => RegistryIsLive'
  BY <1>4, <1>5, <1>6, <1>7, <1>8, <1>24 DEF PoolStep
<1>22. HandleStep => RegistryIsLive'
  BY <1>10, <1>11, <1>12, <1>13, <1>14, <1>15 DEF HandleStep
<1>23. WorldStep => RegistryIsLive'
  BY <1>16, <1>17, <1>18, <1>19 DEF WorldStep
<1> QED BY <1>9, <1>20, <1>21, <1>22, <1>23 DEF Next, TakeStep

\* Registry and offers hold links to connections that are there, and the registry
\* no entry that its connection will not take out before it goes, unless its end
\* overtook one of its operations.
THEOREM RegistryHasLinks == Spec => []RegistryIsLive
<1>1. Init => RegistryIsLive
  BY DEF Init, RegistryIsLive, Registered
<1> QED BY <1>1, StepRegistry, SessionInvHolds, PTL DEF Spec

-----------------------------------------------------------------------------
\* Who waits for a mind is in the world, and its signals reach the manager: so
\* the manager sees every change of its minds.
WaitersAreHooked == m_unpossessedEntities \subseteq hooked \cap Alive

WaitingInv == SessionInv /\ WaitersAreHooked /\ WaitingIsOffered

\* Taking minds away keeps the waiting offered.
LEMMA RemoveMindsWaiting ==
    ASSUME WaitingInv, NEW gone, RemoveMinds(gone),
           UNCHANGED <<entity, hooked, m_connections>>
    PROVE  WaitersAreHooked' /\ WaitingIsOffered'
<1> DEFINE seen == {r.mind : r \in gone} \cap Alive \cap hooked
           empty == Emptied(gone)
<1>1. /\ minds' = Without(gone)
      /\ m_unpossessedEntities' = (m_unpossessedEntities \ seen) \cup empty
      /\ m_possessions' = m_possessions \cup empty
  BY DEF RemoveMinds, MindsChanged, Emptied
<1>2. empty \subseteq seen
  BY DEF Emptied
<1>3. /\ offers \subseteq offers'
      /\ Registered(m_connections) # {} => \A e \in empty : \E o \in offers' : o.entity = e
      /\ \A e \in abandoned \ abandoned' : \E o \in offers' : o.entity = e
  BY RemoveMindsOffers DEF WaitingInv, SessionInv, TypeOK
<1>4. WaitersAreHooked'
  <2>1. Alive' = Alive
    BY DEF Alive
  <2> QED BY <1>1, <1>2, <2>1 DEF WaitingInv, WaitersAreHooked
<1>5. ASSUME NEW e \in m_unpossessedEntities'
      PROVE  /\ e \in m_possessions'
             /\ (minds'[e] = {} /\ Registered(m_connections) # {})
                 => \/ \E o \in offers' : o.entity = e
                    \/ e \in abandoned'
  <2>1. CASE e \in empty
    <3> HIDE DEF empty
    <3> QED BY <1>1, <1>3, <2>1
  <2>2. CASE e \notin empty
    <3>1. e \in m_unpossessedEntities /\ e \notin seen
      BY <1>1, <2>2
    <3>2. e \in hooked /\ e \in Alive /\ e \in Entities
      BY <3>1 DEF WaitingInv, WaitersAreHooked, Alive
    <3>3. minds'[e] = minds[e]
      <4>1. \A r \in gone : r.mind # e
        BY <3>1, <3>2
      <4>2. ASSUME NEW a \in minds[e] PROVE Router(a, e) \notin gone
        <5>1. Router(a, e).mind = e
          BY DEF Router
        <5> QED BY <4>1, <5>1
      <4> QED BY <1>1, <3>2, <4>2 DEF Without
    <3>4. /\ e \in m_possessions
          /\ (minds[e] = {} /\ Registered(m_connections) # {})
              => \/ \E o \in offers : o.entity = e
                 \/ e \in abandoned
      BY <3>1 DEF WaitingInv, WaitingIsOffered
    <3> QED BY <1>1, <1>3, <3>3, <3>4
  <2> QED BY <2>1, <2>2
<1> QED BY <1>4, <1>5 DEF WaitingIsOffered, Registered

\* Every step keeps the waiting offered.
LEMMA StepWaiting == WaitingInv /\ [Next]_vars => WaitersAreHooked' /\ WaitingIsOffered'
<1> SUFFICES ASSUME WaitingInv, [Next]_vars
             PROVE  WaitersAreHooked' /\ WaitingIsOffered'
  OBVIOUS
<1> DEFINE Kept == WaitersAreHooked' /\ WaitingIsOffered'
<1> USE SessionsAssumption
<1>0. /\ TypeOK
      /\ m_connections \in [Accounts -> Links]
  BY DEF WaitingInv, SessionInv, TypeOK
<1>1. ASSUME UNCHANGED <<entity, hooked, m_unpossessedEntities, m_possessions, minds,
                         m_connections, offers, abandoned>>
      PROVE  Kept
  BY <1>1 DEF WaitingInv, WaitersAreHooked, WaitingIsOffered, Alive, Registered
<1>2. ASSUME NEW c \in Connections, Connect(c) \/ Disconnected(c) PROVE Kept
  BY <1>1, <1>2 DEF Connect, Disconnected, entityVars, managerVars
<1>3. ASSUME NEW c \in Connections,
             Disconnect(c) \/ \E a \in Accounts : Deregister(c, a)
      PROVE  Kept
  <2>1. UNCHANGED <<entity, hooked, minds, m_unpossessedEntities, m_possessions>>
    BY <1>3 DEF Disconnect, Deregister, entityVars
  <2>2. Registered(m_connections') \subseteq Registered(m_connections)
    BY <1>0, <1>3 DEF Disconnect, Deregister, Registered
  <2>3. /\ abandoned \subseteq abandoned'
        /\ \A o \in offers \ offers' : o.entity \in abandoned'
    BY <1>3 DEF Disconnect, Deregister, OffersVoid
  <2> QED
    BY <2>1, <2>2, <2>3 DEF WaitingInv, WaitersAreHooked, WaitingIsOffered, Alive
<1>4. ASSUME NEW c \in Connections, NEW a \in Accounts,
             LoginOperation(c, a) \/ CreateOperation(c, a)
      PROVE  Kept
  BY <1>1, <1>4 DEF LoginOperation, CreateOperation, Join, entityVars, managerVars
<1>5. ASSUME NEW gone, RemoveMinds(gone),
             UNCHANGED <<entity, hooked, m_connections>>
      PROVE  Kept
  BY <1>5, RemoveMindsWaiting
<1>6. ASSUME NEW c \in Connections, NEW a \in Accounts,
             Logout(c, a) \/ DisconnectNext(c, a)
      PROVE  Kept
  BY <1>5, <1>6 DEF Logout, DisconnectNext, DisconnectObject
<1>7. ASSUME NEW c \in Connections, NEW a \in Accounts, NEW e \in Entities,
              LogoutMind(c, a, e)
       PROVE  Kept
  BY <1>5, <1>7 DEF LogoutMind
<1>8. ASSUME NEW a \in Accounts, LookUp(a) \/ InsertRow(a) PROVE Kept
  BY <1>1, <1>8 DEF LookUp, InsertRow, entityVars, managerVars
<1>9. ASSUME NEW c \in Connections, NEW a \in Accounts, EnablePossession(c, a) PROVE Kept
  <2>1. m_connections' \in [Accounts -> Links]
    BY <1>0, <1>9 DEF EnablePossession, AddConnection, TypeOK, Links
  <2>2. m_unpossessedEntities \in SUBSET Entities
    BY <1>0 DEF TypeOK
  <2>3. RequestPossession(m_connections', m_possessions, m_unpossessedEntities)
    BY <1>9 DEF EnablePossession, AddConnection
  <2>4. Registered(m_connections') # {} =>
          \A e \in m_unpossessedEntities \cap m_possessions : \E o \in offers' : o.entity = e
    BY <2>1, <2>2, <2>3, RequestFacts
  <2>5. UNCHANGED <<entity, hooked, minds, m_unpossessedEntities, m_possessions>>
    BY <1>9 DEF EnablePossession, entityVars
  <2> QED
    BY <2>4, <2>5 DEF WaitingInv, WaitersAreHooked, WaitingIsOffered, Alive, Registered
<1>10. ASSUME NEW c \in Connections, NEW a \in Accounts, DisablePossession(c, a) PROVE Kept
  <2>1. Registered(m_connections') \subseteq Registered(m_connections)
    BY <1>0, <1>10 DEF DisablePossession, Registered
  <2>2. UNCHANGED <<entity, hooked, minds, m_unpossessedEntities, m_possessions, offers,
                    abandoned>>
    BY <1>10 DEF DisablePossession, entityVars
  <2> QED
    BY <2>1, <2>2 DEF WaitingInv, WaitersAreHooked, WaitingIsOffered, Alive, Registered
<1>11. ASSUME NEW c \in Connections, NEW a \in Accounts, NEW e \in Entities, ConnectCharacter(c, a, e),
              UNCHANGED <<entity, hooked, m_connections, abandoned>>,
              m_possessions \ {e} \subseteq m_possessions',
              \A o \in offers : o.entity # e => o \in offers'
       PROVE  Kept
  <2>1. m_unpossessedEntities' = m_unpossessedEntities \ {e}
    BY <1>11 DEF ConnectCharacter, WaitingInv, WaitersAreHooked
  <2>2. \A f \in Entities \ {e} : minds'[f] = minds[f]
    BY <1>0, <1>11 DEF ConnectCharacter, TypeOK
  <2>3. m_unpossessedEntities' \subseteq Entities
    BY <1>0, <2>1 DEF TypeOK
  <2> QED
    BY <1>11, <2>1, <2>2, <2>3 DEF WaitingInv, WaitersAreHooked, WaitingIsOffered, Alive,
                                   Registered
<1>12. ASSUME NEW c \in Connections, NEW a \in Accounts, NEW e \in Entities,
              PossessOwn(c, a, e)
       PROVE  Kept
  BY <1>11, <1>12 DEF PossessOwn
<1>13. ASSUME NEW c \in Connections, NEW a \in Accounts, NEW e \in Entities,
              PossessWithKey(c, a, e)
       PROVE  Kept
  BY <1>11, <1>13 DEF PossessWithKey, RemovePossession
<1>14. ASSUME NEW c \in Connections, NEW a \in Accounts, NEW e \in Entities,
              PossessTooLate(c, a, e)
       PROVE  Kept
  <2>1. e \notin m_unpossessedEntities
    <3>1. entity[e] = "destroyed"
      BY <1>14, HandledOne DEF PossessTooLate, WaitingInv, SessionInv, TestsHold, TestHolds
    <3> QED BY <3>1 DEF WaitingInv, WaitersAreHooked, Alive
  <2>2. UNCHANGED <<entity, hooked, minds, m_connections, m_unpossessedEntities, abandoned>>
    BY <1>14 DEF PossessTooLate, entityVars
  <2>3. /\ m_possessions' = m_possessions \ {e}
        /\ offers' = {o \in offers : o.entity # e}
    BY <1>14 DEF PossessTooLate, RemovePossession
  <2> QED
    BY <2>1, <2>2, <2>3 DEF WaitingInv, WaitersAreHooked, WaitingIsOffered, Alive, Registered
<1>15. ASSUME NEW e \in Entities, RequestMind(e) PROVE Kept
  <2> DEFINE es == IF minds[e] = {} THEN {e} ELSE {}
  <2>1. RequestPossession(m_connections, m_possessions', es)
    BY <1>15 DEF RequestMind
  <2>2. es \in SUBSET Entities
    OBVIOUS
  <2>3. /\ offers \subseteq offers'
        /\ Registered(m_connections) # {} =>
              \A f \in es \cap m_possessions' : \E o \in offers' : o.entity = f
        /\ \A f \in abandoned \ abandoned' : \E o \in offers' : o.entity = f
    <3> HIDE DEF es
    <3> QED BY <1>0, <2>1, <2>2, RequestFacts
  <2>4. /\ UNCHANGED <<entity, minds, m_connections>>
        /\ hooked' = hooked \cup {e} /\ e \in Alive
        /\ m_possessions' = m_possessions \cup {e}
        /\ m_unpossessedEntities' = m_unpossessedEntities \cup {e}
    BY <1>15 DEF RequestMind, Alive
  <2>5. WaitersAreHooked'
    BY <2>4 DEF WaitingInv, WaitersAreHooked, Alive
  <2>6. ASSUME NEW f \in m_unpossessedEntities'
        PROVE  /\ f \in m_possessions'
               /\ (minds'[f] = {} /\ Registered(m_connections) # {})
                   => \/ \E o \in offers' : o.entity = f
                      \/ f \in abandoned'
    <3>1. CASE f = e
      BY <2>3, <2>4, <3>1
    <3>2. CASE f # e
      BY <2>3, <2>4, <3>2 DEF WaitingInv, WaitingIsOffered
    <3> QED BY <3>1, <3>2
  <2> QED BY <2>4, <2>5, <2>6 DEF WaitingIsOffered
<1>16. ASSUME NEW e \in Entities, RemoveRequest(e) PROVE Kept
  BY <1>16 DEF RemoveRequest, entityVars, WaitingInv, WaitersAreHooked, WaitingIsOffered,
               Alive, Registered
<1>17. ASSUME NEW e \in Entities, DestroyEntity(e) PROVE Kept
  <2>1. Alive' = Alive \ {e}
    BY <1>0, <1>17 DEF DestroyEntity, TypeOK, Alive
  <2> QED
    BY <1>17, <2>1 DEF DestroyEntity, WaitingInv, WaitersAreHooked, WaitingIsOffered, Registered
<1>18. ASSUME NEW e \in Entities, NEW owners \in SUBSET Accounts, CreateEntity(e, owners)
       PROVE  Kept
  <2>1. Alive' = Alive \cup {e}
    BY <1>0, <1>18 DEF CreateEntity, TypeOK, Alive
  <2> QED
    BY <1>18, <2>1 DEF CreateEntity, managerVars, WaitingInv, WaitersAreHooked,
                       WaitingIsOffered, Registered
<1>19. UNCHANGED vars => Kept
  BY <1>1 DEF vars, entityVars, managerVars
<1> HIDE DEF Kept
<1>20. PoolStep => Kept
  BY <1>2, <1>3, <1>6, <1>8 DEF PoolStep
<1>21. TakeStep => Kept
  <2>1. ASSUME NEW op, NEW c, NEW a, NEW e, Take(op, c, a, e) PROVE Kept
    BY <1>1, <2>1 DEF Take, entityVars, managerVars, Kept
  <2> QED BY <2>1 DEF TakeStep
<1>22. HandleStep => Kept
  BY <1>4, <1>6, <1>7, <1>9, <1>10, <1>12, <1>13, <1>14 DEF HandleStep
<1>23. WorldStep => Kept
  BY <1>8, <1>15, <1>16, <1>17, <1>18 DEF WorldStep
<1> QED BY <1>19, <1>20, <1>21, <1>22, <1>23 DEF Next, Kept

\* Whoever waits for a mind has a key and, while there is an AI client, a
\* Possess op that carries it, unless the client went away with the op.
THEOREM WaitersAreOffered == Spec => []WaitingIsOffered
<1>1. Init => WaitersAreHooked /\ WaitingIsOffered
  BY DEF Init, WaitersAreHooked, WaitingIsOffered
<1>2. SessionInv /\ WaitersAreHooked /\ WaitingIsOffered <=> WaitingInv
  BY DEF WaitingInv
<1> QED BY <1>1, <1>2, StepWaiting, SessionInvHolds, PTL DEF Spec

=============================================================================
