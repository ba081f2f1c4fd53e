----------------------------- MODULE Metaserver -----------------------------
(***************************************************************************)
(* The metaserver's register of game servers: MetaServer and DataObject    *)
(* (apps/metaserver/src/server), and CommMetaClient, the part of the       *)
(* Cyphesis server that registers with it (apps/cyphesis/src/server).      *)
(*                                                                         *)
(* They talk over UDP.  A game server sends a keepalive and its attributes *)
(* at every heartbeat, answers the metaserver's handshake with a           *)
(* servershake, which makes or refreshes its session, and says so when it  *)
(* stops.  A datagram can be lost, doubled, delayed over a tick of the     *)
(* clock or overtaken by another, and the metaserver can be restarted;     *)
(* MaxFaults bounds all of these but the overtaking.                       *)
(*                                                                         *)
(* Times are ages: the ticks (heartbeats) since a time was written.        *)
(***************************************************************************)
EXTENDS Naturals

CONSTANTS
    Servers,           \* addresses of the game servers
    Shakes,            \* numbers of handshakes
    SessionExpiry,     \* m_sessionExpirySeconds, in ticks
    HandshakeExpiry,   \* m_handshakeExpirySeconds
    NoEntry,           \* no entry in a map of DataObject
    NoExpiry,          \* an entry of m_serverData without "expiry"
    MaxFaults          \* bound: datagrams lost, doubled or delayed

ASSUME MetaserverAssumption ==
    /\ Shakes \subseteq Nat \ {0}
    /\ SessionExpiry \in Nat
    /\ HandshakeExpiry \in Nat
    /\ MaxFaults \in Nat
    /\ NoEntry \notin Nat
    /\ NoExpiry \notin Nat
    /\ NoEntry # NoExpiry

VARIABLES
    up,                 \* is the game server running?
    pinged,             \* has it sent the keepalive of this heartbeat?
    joined,             \* history: has it registered since it was started?
    m_serverData,       \* per address: NoEntry, NoExpiry or age of "expiry"
    m_handshakeQueue,   \* per number: NoEntry or age
    net,                \* datagrams under way
    faults              \* how many were lost, doubled or delayed

registerVars == <<up, pinged, joined, m_serverData, m_handshakeQueue>>
vars == <<registerVars, net, faults>>

\* A datagram from or to a game server, with a handshake number or 0.
Datagram(kind, who, shake) == [kind |-> kind, who |-> who, shake |-> shake]

\* s has a session, made by a servershake.
Registered(s) == m_serverData[s] \notin {NoEntry, NoExpiry}

Init ==
    /\ up = [s \in Servers |-> FALSE]
    /\ pinged = [s \in Servers |-> FALSE]
    /\ joined = [s \in Servers |-> FALSE]
    /\ m_serverData = [s \in Servers |-> NoEntry]
    /\ m_handshakeQueue = [h \in Shakes |-> NoEntry]
    /\ net = {}
    /\ faults = 0

-----------------------------------------------------------------------------
\* The game server: CommMetaClient.

\* A new process has a new port: no handshake for the old one reaches it.
Start(s) ==
    /\ ~up[s]
    /\ up' = [up EXCEPT ![s] = TRUE]
    /\ pinged' = [pinged EXCEPT ![s] = FALSE]
    /\ net' = {d \in net : d.kind # "HANDSHAKE" \/ d.who # s}
    /\ UNCHANGED <<joined, m_serverData, m_handshakeQueue, faults>>

\* The attributes follow as soon as the keepalive is sent.
metaserverKeepalive(s) ==
    /\ up[s]
    /\ ~pinged[s]
    /\ pinged' = [pinged EXCEPT ![s] = TRUE]
    /\ net' = net \cup {Datagram("SERVERKEEPALIVE", s, 0),
                        Datagram("SERVERATTR", s, 0)}
    /\ UNCHANGED <<up, joined, m_serverData, m_handshakeQueue, faults>>

metaserverTerminate(s) ==
    /\ up[s]
    /\ up' = [up EXCEPT ![s] = FALSE]
    /\ joined' = [joined EXCEPT ![s] = FALSE]
    /\ net' = net \cup {Datagram("TERMINATE", s, 0)}
    /\ UNCHANGED <<pinged, m_serverData, m_handshakeQueue, faults>>

Crash(s) ==
    /\ up[s]
    /\ up' = [up EXCEPT ![s] = FALSE]
    /\ joined' = [joined EXCEPT ![s] = FALSE]
    /\ UNCHANGED <<pinged, m_serverData, m_handshakeQueue, net, faults>>

metaserverReply(d, left) ==
    /\ net' = IF up[d.who]
              THEN left \cup {Datagram("SERVERSHAKE", d.who, d.shake)}
              ELSE left
    /\ UNCHANGED registerVars

-----------------------------------------------------------------------------
\* The metaserver's handlers; left is what is still under way without d.

\* The random number is one that no datagram carries; which one, and whether
\* it is still in the queue, makes no difference.  (Zero, which is not
\* answered, is as good as a datagram that is lost.)
processSERVERKEEPALIVE(d, left) ==
    LET fresh == {h \in Shakes : \A e \in net : e.shake # h}
        h == CHOOSE n \in fresh : TRUE
    IN  /\ fresh # {}
        /\ m_handshakeQueue' = [m_handshakeQueue EXCEPT ![h] = 0]
        /\ net' = left \cup {Datagram("HANDSHAKE", d.who, h)}
        /\ UNCHANGED <<up, pinged, joined, m_serverData>>

\* Mutant of addServerSession: an existing session is not refreshed.
AddServerSessionOnce(s) == IF Registered(s) THEN m_serverData[s] ELSE 0

\* "If a new structure, this will create the expiry, if existing it will
\* just refresh the timeout": the age of "expiry" afterwards.
addServerSession(s) == 0

\* Mutant of processSERVERSHAKE: a known server is not asked again.
ShakeOnlyNewServer(d, left) ==
    /\ m_serverData' =
        IF m_handshakeQueue[d.shake] # NoEntry /\ m_serverData[d.who] = NoEntry
        THEN [m_serverData EXCEPT ![d.who] = addServerSession(d.who)]
        ELSE m_serverData
    /\ joined' = [joined EXCEPT ![d.who] =
                    @ \/ (up[d.who] /\ m_handshakeQueue[d.shake] # NoEntry)]
    /\ net' = left
    /\ UNCHANGED <<up, pinged, m_handshakeQueue>>

\* The handshake stays in the queue until it expires.
processSERVERSHAKE(d, left) ==
    /\ m_serverData' =
        IF m_handshakeQueue[d.shake] # NoEntry
        THEN [m_serverData EXCEPT ![d.who] = addServerSession(d.who)]
        ELSE m_serverData
    /\ joined' = [joined EXCEPT ![d.who] =
                    @ \/ (up[d.who] /\ m_handshakeQueue[d.shake] # NoEntry)]
    /\ net' = left
    /\ UNCHANGED <<up, pinged, m_handshakeQueue>>

\* removeServerSession.
processTERMINATE(d, left) ==
    /\ m_serverData' = [m_serverData EXCEPT ![d.who] = NoEntry]
    /\ joined' = [joined EXCEPT ![d.who] = FALSE]
    /\ net' = left
    /\ UNCHANGED <<up, pinged, m_handshakeQueue>>

\* Mutant of processSERVERATTR: the attributes replace the entry.
AttributesReplaceEntry(d, left) ==
    /\ m_serverData' = [m_serverData EXCEPT ![d.who] = NoExpiry]
    /\ net' = left
    /\ UNCHANGED <<up, pinged, joined, m_handshakeQueue>>

\* addServerAttribute makes an entry where there is none.
processSERVERATTR(d, left) ==
    /\ m_serverData' = [m_serverData EXCEPT ![d.who] =
                            IF @ = NoEntry THEN NoExpiry ELSE @]
    /\ net' = left
    /\ UNCHANGED <<up, pinged, joined, m_handshakeQueue>>

-----------------------------------------------------------------------------
\* Datagrams and time.

Receive(d, left) ==
    \/ d.kind = "SERVERKEEPALIVE" /\ processSERVERKEEPALIVE(d, left)
    \/ d.kind = "SERVERSHAKE" /\ processSERVERSHAKE(d, left)
    \/ d.kind = "TERMINATE" /\ processTERMINATE(d, left)
    \/ d.kind = "SERVERATTR" /\ processSERVERATTR(d, left)
    \/ d.kind = "HANDSHAKE" /\ metaserverReply(d, left)

Deliver(d) ==
    /\ d \in net
    /\ Receive(d, net \ {d})
    /\ UNCHANGED faults

Fault == faults < MaxFaults /\ faults' = faults + 1

Duplicate == Fault /\ \E d \in net : Receive(d, net)

Lose ==
    /\ Fault
    /\ \E d \in net : net' = net \ {d}
    /\ UNCHANGED registerVars

Older(age) == IF age \in Nat THEN age + 1 ELSE age

\* The age at which an entry goes; one without "expiry" is always new
\* (getServerExpiryIso).
Expired(age, expiry) == age \in Nat /\ age > expiry

Due ==
    \/ \E h \in Shakes : Expired(m_handshakeQueue[h], HandshakeExpiry)
    \/ \E s \in Servers : Expired(m_serverData[s], SessionExpiry)

\* A heartbeat.  The expiry timer fires many times in between.  Datagrams
\* still under way are delayed.
Tick ==
    /\ ~Due
    /\ \A s \in Servers : up[s] => pinged[s]
    /\ IF net = {} THEN UNCHANGED faults ELSE Fault
    /\ pinged' = [s \in Servers |-> FALSE]
    /\ m_serverData' = [s \in Servers |-> Older(m_serverData[s])]
    /\ m_handshakeQueue' = [h \in Shakes |-> Older(m_handshakeQueue[h])]
    /\ UNCHANGED <<up, joined, net>>

\* Mutant of expireServerSessions: sessions never end.
ExpireNoServerSession == m_serverData

expireServerSessions ==
    [s \in Servers |-> IF Expired(m_serverData[s], SessionExpiry)
                       THEN NoEntry ELSE m_serverData[s]]

expireHandshakes ==
    [h \in Shakes |-> IF Expired(m_handshakeQueue[h], HandshakeExpiry)
                      THEN NoEntry ELSE m_handshakeQueue[h]]

expiry_timer ==
    /\ Due
    /\ m_handshakeQueue' = expireHandshakes
    /\ m_serverData' = expireServerSessions
    /\ UNCHANGED <<up, pinged, joined, net, faults>>

\* The metaserver keeps its maps in memory only.
MetaserverRestart ==
    /\ Fault
    /\ m_serverData' = [s \in Servers |-> NoEntry]
    /\ m_handshakeQueue' = [h \in Shakes |-> NoEntry]
    /\ joined' = [s \in Servers |-> FALSE]
    /\ UNCHANGED <<up, pinged, net>>

Next ==
    \/ \E s \in Servers : \/ Start(s)
                          \/ metaserverKeepalive(s)
                          \/ metaserverTerminate(s)
                          \/ Crash(s)
    \/ \E d \in net : Deliver(d)
    \/ Duplicate
    \/ Lose
    \/ Tick
    \/ expiry_timer
    \/ MetaserverRestart

\* The game server's timer, the metaserver's timer and the network go on.
Fairness ==
    /\ WF_vars(Tick)
    /\ WF_vars(expiry_timer)
    /\ \A s \in Servers :
        /\ WF_vars(metaserverKeepalive(s))
        /\ \A kind \in {"SERVERKEEPALIVE", "SERVERSHAKE", "TERMINATE", "SERVERATTR",
                        "HANDSHAKE"} :
            SF_vars(\E d \in net : d.kind = kind /\ d.who = s /\ Deliver(d))

Spec == Init /\ [][Next]_vars

FairSpec == Spec /\ Fairness

-----------------------------------------------------------------------------

Kinds == {"SERVERKEEPALIVE", "SERVERSHAKE", "TERMINATE", "SERVERATTR", "HANDSHAKE"}

\* The types of the variables.
TypeOK ==
    /\ up \in [Servers -> BOOLEAN]
    /\ pinged \in [Servers -> BOOLEAN]
    /\ joined \in [Servers -> BOOLEAN]
    /\ m_serverData \in [Servers -> Nat \cup {NoEntry, NoExpiry}]
    /\ m_handshakeQueue \in [Shakes -> Nat \cup {NoEntry}]
    /\ net \in SUBSET [kind : Kinds, who : Servers, shake : Shakes \cup {0}]
    /\ faults \in 0 .. MaxFaults

(***************************************************************************)
(* A running server that has registered stays listed although datagrams    *)
(* are lost, doubled or late, as long as fewer heartbeats fail than a      *)
(* session outlives: each servershake refreshes the session, and a late    *)
(* one of an earlier heartbeat does no harm.  Only a TERMINATE can end it, *)
(* which a server that was restarted may still get from its predecessor.   *)
(***************************************************************************)
StaysListed == \A s \in Servers : joined[s] => Registered(s)

(***************************************************************************)
(* A server that keeps running gets its session in the end, also when the  *)
(* first handshake failed, the session expired or a late TERMINATE ended   *)
(* it: the heartbeat repeats the registration.                             *)
(***************************************************************************)
RunningIsListed ==
    \A s \in Servers : up[s] ~> (Registered(s) \/ ~up[s])

(***************************************************************************)
(* The register goes through the states that ServerRegister allows,        *)
(* whatever the order in which datagrams arrive: attributes that overtake  *)
(* a servershake, or come after it, never turn a session into a bare       *)
(* entry, and what expires in one sweep of the timer are whole sessions.   *)
(* MetaList takes the register from ServerRegister on the strength of it.  *)
(***************************************************************************)
Register ==
    INSTANCE ServerRegister WITH
        sessions <- [s \in Servers |-> IF m_serverData[s] = NoEntry THEN "none"
                                       ELSE IF m_serverData[s] = NoExpiry THEN "bare"
                                       ELSE "full"]
ImplementsServerRegister == Register!Spec

\* The session of a server that is gone, without a TERMINATE perhaps, ends.
GoneIsUnlisted ==
    \A s \in Servers : ~up[s] ~> (~Registered(s) \/ up[s])

=============================================================================
