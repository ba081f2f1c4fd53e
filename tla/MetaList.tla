------------------------------ MODULE MetaList ------------------------------
(***************************************************************************)
(* How a client gets the list of game servers: Meta, the client's side     *)
(* (libs/eris/src/Eris/Metaserver.cpp), and the metaserver's answers to    *)
(* its requests (processLISTREQ of MetaServer.cpp, DataObject.cpp), on top *)
(* of the register of servers that ServerRegister describes.               *)
(*                                                                         *)
(* The list comes in pages, each asked for by the number of servers the    *)
(* client has.  The first request makes the metaserver store the list for  *)
(* the client's address.  Meta queries the servers of a page while it      *)
(* waits for the next one.                                                 *)
(*                                                                         *)
(* The address of a server is a positive number.  Each refresh opens a     *)
(* socket, whose port is the number of the refresh.  Datagrams are a bag.  *)
(***************************************************************************)
EXTENDS Naturals, Sequences, FiniteSets, Bags, SequencesExt

CONSTANTS
    Servers,        \* addresses of the game servers
    PageSize,       \* addresses that fit into one LISTRESP
    MaxQueries,     \* m_maxActiveQueries
    NoList,         \* no list stored for the client
    MaxRefreshes,   \* bound: calls of refresh
    MaxChanges,     \* bound: changes of the register
    MaxFaults       \* bound: datagrams lost or doubled, changes of refused

ASSUME MetaListAssumption ==
    /\ Servers \subseteq Nat \ {0}
    /\ IsFiniteSet(Servers)
    /\ {PageSize, MaxQueries} \subseteq Nat \ {0}
    /\ {MaxRefreshes, MaxChanges, MaxFaults} \subseteq Nat

VARIABLES
    sessions,          \* the register of the metaserver
    m_serverListreq,   \* the list it stored for the client, or NoList
    net,               \* bag of datagrams [kind, port, data]
    meta,              \* the client's Meta object
    refused,           \* servers whose query fails at once, as things stand
    snapshot,          \* history: the list stored last
    disturbed,         \* history: what this refresh met that spoils its list
    changes, faults    \* bounds

vars == <<sessions, m_serverListreq, net, meta, refused, snapshot, disturbed, changes,
          faults>>

Datagram(kind, port, data) == [kind |-> kind, port |-> port, data |-> data]

Init ==
    /\ sessions = [s \in Servers |-> "none"]
    /\ m_serverListreq = NoList
    /\ net = EmptyBag
    /\ meta = [m_status |-> "INVALID", m_gameServers |-> <<>>,
               m_lastValidList |-> <<>>, m_totalServers |-> 0,
               m_ipBuffer |-> <<>>, packed |-> 0, expects |-> "nothing",
               buffer |-> <<>>, port |-> 0, resolving |-> FALSE, open |-> FALSE,
               timer |-> FALSE, m_activeQueries |-> {}, m_nextQuery |-> 0,
               out |-> <<>>, completed |-> FALSE, done |-> FALSE]
    /\ refused = {}
    /\ snapshot = <<>>
    /\ disturbed = FALSE
    /\ changes = 0
    /\ faults = 0

-----------------------------------------------------------------------------
\* The metaserver.

Register == INSTANCE ServerRegister

Known == {s \in Servers : sessions[s] # "none"}

\* Sessions come and go.  A page with a dead or a bare item misleads Meta.
RegisterStep ==
    /\ changes < MaxChanges
    /\ Register!Next
    /\ changes' = changes + 1
    /\ disturbed' = (disturbed \/ \E s \in Known : sessions'[s] = "none")
    /\ UNCHANGED <<m_serverListreq, net, meta, refused, snapshot, faults>>

\* The addresses of S in ascending order.
Ascending(S) ==
    [i \in 1 .. Cardinality(S) |->
        CHOOSE s \in S : Cardinality({t \in S : t < s}) = i - 1]

\* Mutant of Page: a page starts with the last item of the one before.
PageOverlaps(list, index) ==
    SubSeq(list, IF index = 0 THEN 1 ELSE index,
           IF Len(list) - index > PageSize THEN index + PageSize ELSE Len(list))

\* The part of list from offset index on that fits into one response.
Page(list, index) ==
    SubSeq(list, index + 1, IF Len(list) - index > PageSize THEN index + PageSize
                                                            ELSE Len(list))

\* The addresses of a page, which is in ascending order, dead items apart.
\* An entry without "ip_int" leaves temp_int as it is: the address before it
\* is packed again.
Packed(page) ==
    LET alive == Ascending(Range(page) \cap Known)
        full(i) == {j \in 1 .. i : sessions[alive[j]] = "full"}
    IN  [i \in DOMAIN alive |->
            IF full(i) = {} THEN 0
            ELSE alive[CHOOSE j \in full(i) : \A k \in full(i) : k <= j]]

Answer(d, kind, data) ==
    net' = (net (-) SetToBag({d})) (+) SetToBag({Datagram(kind, d.port, data)})

\* The handshake of a client serves only its client session, which only
\* filters need, and Eris sets none.
processCLIENTKEEPALIVE(d) ==
    /\ d.kind = "CLIENTKEEPALIVE"
    /\ Answer(d, "HANDSHAKE", <<>>)
    /\ UNCHANGED <<sessions, m_serverListreq, meta, refused, snapshot, disturbed, changes,
                   faults>>

\* The first request stores the list that the later ones read.
processLISTREQ(d) ==
    /\ d.kind = "LISTREQ"
    /\ LET index == d.data[1]
           list == IF index = 0 THEN Ascending(Known)
                   ELSE IF m_serverListreq = NoList THEN <<>>
                   ELSE m_serverListreq
           resp == Packed(Page(list, index))
           total == IF resp = <<>> THEN 0 ELSE Cardinality(Known)
       IN  /\ Answer(d, "LISTRESP", <<total>> \o resp)
           /\ IF index = 0
              THEN /\ m_serverListreq' = list
                   /\ snapshot' = list
                   /\ disturbed' = \/ disturbed
                                   \/ d.port # meta.port
                                   \/ \E s \in Servers : sessions[s] = "bare"
              ELSE UNCHANGED <<m_serverListreq, snapshot, disturbed>>
    /\ UNCHANGED <<sessions, meta, refused, changes, faults>>

expireClientSessionCache ==
    /\ m_serverListreq # NoList
    /\ m_serverListreq' = NoList
    /\ UNCHANGED <<sessions, net, meta, refused, snapshot, disturbed, changes, faults>>

-----------------------------------------------------------------------------
\* The client.  Its handlers are operators on its record; out holds what
\* they send.

(***************************************************************************)
(* query() asks one server after the other while a slot is free.  A query  *)
(* whose connection cannot even be begun takes no slot: internalQuery      *)
(* drops it "and says no more".                                            *)
(***************************************************************************)
Query(m) ==
    LET first == m.m_nextQuery + 1
        taken(j) == Cardinality(m.m_activeQueries) + Cardinality((first .. j - 1) \ refused)
        asked == {j \in first .. Len(m.m_gameServers) : taken(j) < MaxQueries}
    IN  [m EXCEPT !.m_activeQueries = @ \cup (asked \ refused),
                  !.m_nextQuery = @ + Cardinality(asked)]

Disconnected(m) == [m EXCEPT !.open = FALSE, !.timer = FALSE]

\* "revert to the last valid list if possible".  doFailure does the same.
Cancelled(m) ==
    [Disconnected(m) EXCEPT
        !.m_activeQueries = {},
        !.m_gameServers = m.m_lastValidList,
        !.m_status = IF m.m_lastValidList # <<>> THEN "VALID" ELSE "INVALID",
        !.m_nextQuery = Len(m.m_lastValidList)]

\* Mutant of listReq: no timeout for the answer.
ListReqWithoutTimeout(m, base) ==
    [m EXCEPT !.out = Append(@, Datagram("LISTREQ", m.port, <<base>>)),
              !.expects = "command", !.timer = FALSE]

listReq(m, base) ==
    [m EXCEPT !.out = Append(@, Datagram("LISTREQ", m.port, <<base>>)),
              !.expects = "command", !.timer = TRUE]

\* All addresses of a LISTRESP are there.
PageRead(m) ==
    LET servers == m.m_gameServers \o m.m_ipBuffer
        n == [m EXCEPT !.m_gameServers = servers, !.m_ipBuffer = <<>>,
                       !.expects = "nothing"]
    IN  Query(IF Len(servers) < m.m_totalServers
              THEN listReq(n, Len(servers))
              ELSE [Disconnected(n) EXCEPT !.m_status = "QUERYING",
                                           !.completed = TRUE])

(***************************************************************************)
(* recv, recvCmd and processCmd for one piece of the stream that the       *)
(* datagrams form in m_receive_buffer: a command with its arguments, or an *)
(* address of a list.  When the last piece leaves nothing to wait for      *)
(* (m_bytesToRecv = 0) the rest stays in the buffer, for ever or until a   *)
(* later refresh reads it.                                                 *)
(***************************************************************************)
Piece(what, a, b) == [what |-> what, a |-> a, b |-> b]

Read(m, p) ==
    CASE m.expects = "nothing" -> [m EXCEPT !.buffer = Append(@, p)]
      [] m.expects = "command" /\ p.what = "address" ->
            Cancelled([m EXCEPT !.expects = "nothing"])
      [] m.expects = "command" /\ p.what # "address"
                               /\ m.m_status # "GETTING_LIST" ->
            [m EXCEPT !.expects = "nothing"]
      [] m.expects = "command" /\ p.what = "HANDSHAKE"
                               /\ m.m_status = "GETTING_LIST" ->
            listReq(m, 0)
      [] m.expects = "command" /\ p.what = "LIST_RESP"
                               /\ m.m_status = "GETTING_LIST" ->
            [m EXCEPT !.m_totalServers = IF m.m_gameServers = <<>> THEN p.a ELSE @,
                      !.packed = p.b,
                      !.m_ipBuffer = <<>>,
                      !.expects = IF p.b = 0 THEN "nothing" ELSE "addresses"]
      [] m.expects = "addresses" ->
            LET n == [m EXCEPT !.m_ipBuffer = Append(@, p.a)]
            IN  IF Len(n.m_ipBuffer) < m.packed THEN n ELSE PageRead(n)

Pieces(d) ==
    IF d.kind = "HANDSHAKE" THEN <<Piece("HANDSHAKE", 0, 0)>>
    ELSE <<Piece("LIST_RESP", d.data[1], Len(d.data) - 1)>>
            \o [i \in 1 .. Len(d.data) - 1 |-> Piece("address", d.data[i + 1], 0)]

gotData(m, d) ==
    FoldLeft(Read, [m EXCEPT !.buffer = <<>>], m.buffer \o Pieces(d))

\* The client becomes m, and what it sends gets under way; left are the
\* datagrams before that.
Becomes(m, left) ==
    /\ meta' = [m EXCEPT !.out = <<>>]
    /\ net' = left (+) ToBag(m.out)
    /\ UNCHANGED <<sessions, m_serverListreq, refused, snapshot, changes>>

\* A datagram for a socket that is closed is dropped.
Arrive(d) ==
    /\ d.kind \in {"HANDSHAKE", "LISTRESP"}
    /\ Becomes(IF meta.open /\ d.port = meta.port THEN gotData(meta, d) ELSE meta,
               net (-) SetToBag({d}))
    /\ UNCHANGED <<disturbed, faults>>

\* The user may ask again at any time, but not while the name of the
\* metaserver is being resolved.
refresh ==
    /\ meta.port < MaxRefreshes
    /\ ~meta.resolving
    /\ meta.m_activeQueries = {}
    /\ Becomes([Disconnected(meta) EXCEPT
                    !.m_lastValidList = IF meta.m_status = "VALID"
                                        THEN meta.m_gameServers ELSE @,
                    !.m_gameServers = <<>>, !.m_nextQuery = 0,
                    !.port = @ + 1, !.resolving = TRUE,
                    !.completed = FALSE, !.done = FALSE], net)
    /\ disturbed' = (meta.buffer # <<>>)
    /\ UNCHANGED faults

connect ==
    /\ meta.resolving
    /\ Becomes([meta EXCEPT
                    !.resolving = FALSE, !.open = TRUE, !.timer = TRUE,
                    !.m_status = "GETTING_LIST", !.expects = "command",
                    !.out = <<Datagram("CLIENTKEEPALIVE", meta.port, <<>>)>>], net)
    /\ UNCHANGED <<disturbed, faults>>

\* "disconnect" is all that happens when the name cannot be resolved.
ResolveFails ==
    /\ meta.resolving
    /\ Becomes([Disconnected(meta) EXCEPT !.resolving = FALSE], net)
    /\ UNCHANGED <<disturbed, faults>>

\* cancel does not stop the resolver, which then connects all the same.
cancel ==
    /\ Becomes(Cancelled(meta), net)
    /\ disturbed' = (disturbed \/ meta.resolving)
    /\ UNCHANGED faults

metaTimeout ==
    /\ meta.timer
    /\ Becomes(Cancelled(meta), net)
    /\ UNCHANGED <<disturbed, faults>>

\* Mutant of deleteQuery: the next server is not queried.
DeleteQueryOnly(m, i) ==
    LET n == [m EXCEPT !.m_activeQueries = @ \ {i}]
    IN  IF n.m_activeQueries = {} /\ n.m_nextQuery = Len(n.m_gameServers)
        THEN [n EXCEPT !.m_status = "VALID", !.done = TRUE] ELSE n

\* A query is over: objectArrived, queryFailure and queryTimeout call
\* deleteQuery and then query.
deleteQuery(m, i) ==
    LET n == [m EXCEPT !.m_activeQueries = @ \ {i}]
    IN  Query(IF n.m_activeQueries = {} /\ n.m_nextQuery = Len(n.m_gameServers)
              THEN [n EXCEPT !.m_status = "VALID", !.done = TRUE] ELSE n)

(***************************************************************************)
(* An answer, a failure or a timeout.  None of them need come: a           *)
(* connection that breaks, or fails to negotiate, is only closed, and the  *)
(* timer of a query starts when it is connected.                           *)
(***************************************************************************)
QueryEnds(i) ==
    /\ i \in meta.m_activeQueries
    /\ Becomes(deleteQuery(meta, i), net)
    /\ UNCHANGED <<disturbed, faults>>

\* The system has, or has not, what the query of a server takes.
Resources ==
    /\ faults < MaxFaults
    /\ faults' = faults + 1
    /\ \E r \in SUBSET (1 .. Cardinality(Servers)) : refused' = r
    /\ UNCHANGED <<sessions, m_serverListreq, net, meta, snapshot, disturbed, changes>>

-----------------------------------------------------------------------------
\* The network.

Lose ==
    /\ faults < MaxFaults
    /\ faults' = faults + 1
    /\ \E d \in BagToSet(net) : net' = net (-) SetToBag({d})
    /\ UNCHANGED <<sessions, m_serverListreq, meta, refused, snapshot, disturbed, changes>>

Duplicate ==
    /\ faults < MaxFaults
    /\ faults' = faults + 1
    /\ \E d \in BagToSet(net) : net' = net (+) SetToBag({d})
    /\ disturbed' = TRUE
    /\ UNCHANGED <<sessions, m_serverListreq, meta, refused, snapshot, changes>>

Next ==
    \/ RegisterStep
    \/ \E d \in BagToSet(net) : processCLIENTKEEPALIVE(d) \/ processLISTREQ(d) \/ Arrive(d)
    \/ expireClientSessionCache
    \/ refresh
    \/ connect
    \/ ResolveFails
    \/ cancel
    \/ metaTimeout
    \/ \E i \in meta.m_activeQueries : QueryEnds(i)
    \/ Resources
    \/ Lose
    \/ Duplicate

Spec == Init /\ [][Next]_vars

\* The timer of the client.  Nothing is promised about the network, the
\* game servers or the user.
FairSpec == Spec /\ WF_vars(metaTimeout)

-----------------------------------------------------------------------------

Addresses == Servers \cup {0}

\* The types of the variables.
TypeOK ==
    /\ sessions \in [Servers -> {"none", "bare", "full"}]
    /\ m_serverListreq # NoList => m_serverListreq \in Seq(Servers)
    /\ IsABag(net)
    /\ meta.m_status \in {"INVALID", "VALID", "GETTING_LIST", "QUERYING"}
    /\ meta.m_gameServers \in Seq(Addresses)
    /\ meta.m_lastValidList \in Seq(Addresses)
    /\ meta.m_ipBuffer \in Seq(Addresses)
    /\ meta.expects \in {"nothing", "command", "addresses"}
    /\ meta.m_nextQuery \in 0 .. Len(meta.m_gameServers)
    /\ meta.m_activeQueries \subseteq Nat
    /\ refused \subseteq Nat
    /\ meta.timer => meta.open

(***************************************************************************)
(* An exchange with the metaserver ends, whatever is lost, doubled or      *)
(* answered with an empty list: every way to wait for the metaserver has   *)
(* the timer running.                                                      *)
(***************************************************************************)
ExchangeEnds == meta.open ~> ~meta.open

(***************************************************************************)
(* The pages make up the list: when the client completes its list it holds *)
(* each server of the list that the metaserver stored, once, in order.     *)
(* That is so unless in the meantime a session ended, an entry has only    *)
(* attributes, a datagram was doubled, bytes were left in the buffer, an   *)
(* old request came late or a refresh was cancelled while the name was     *)
(* resolved: a response does not say which part of the list it holds.      *)
(***************************************************************************)
UndisturbedListIsWhole ==
    (meta.completed /\ meta.m_status = "QUERYING" /\ ~disturbed)
        => meta.m_gameServers = snapshot

(***************************************************************************)
(* Every query slot is used: however pages and answers come, and whatever  *)
(* fails at once, a server is left to be asked only while m_maxActive-     *)
(* Queries queries are under way, and there are never more.  The slot that *)
(* a query gives back goes to the next server.  (A client may be QUERYING  *)
(* with no query under way: when the last ones failed at once.  And a      *)
(* query that never ends keeps its slot until cancel.)                     *)
(***************************************************************************)
QueriesUnderWay ==
    /\ meta.m_activeQueries \subseteq 1 .. meta.m_nextQuery
    /\ Cardinality(meta.m_activeQueries) <= MaxQueries
    /\ meta.m_nextQuery < Len(meta.m_gameServers)
            => Cardinality(meta.m_activeQueries) = MaxQueries

(***************************************************************************)
(* AllQueriesDone is "Emitted when the entire server list has been         *)
(* refreshed" (Metaserver.h).  This does NOT hold: the signal is also      *)
(* emitted when the queries for one page end before the next page has      *)
(* come; the rest is then ignored.                                         *)
(***************************************************************************)
DoneMeansWhole == meta.done => meta.completed

=============================================================================
