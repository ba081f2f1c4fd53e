-------------------------- MODULE MetaserverProofs --------------------------
(***************************************************************************)
(* Theorems about Metaserver, for any set of game servers, any expiry      *)
(* times and any number of faults.                                         *)
(***************************************************************************)
EXTENDS Metaserver, TLAPS

\* What the network carries.
Datagrams == [kind : Kinds, who : Servers, shake : Shakes \cup {0}]

\* A datagram of a known kind has a known shape.
LEMMA DatagramType ==
    ASSUME NEW k \in Kinds, NEW s \in Servers, NEW h \in Shakes \cup {0}
    PROVE  /\ Datagram(k, s, h) \in Datagrams
           /\ Datagram(k, s, h).kind = k
           /\ Datagram(k, s, h).who = s
           /\ Datagram(k, s, h).shake = h
BY DEF Datagram, Datagrams

\* What the handlers do to the types, for the datagrams left.
LEMMA ReceiveTypes ==
    ASSUME TypeOK, NEW d \in net, NEW left \in SUBSET net, Receive(d, left)
    PROVE  /\ up' \in [Servers -> BOOLEAN]
           /\ pinged' \in [Servers -> BOOLEAN]
           /\ joined' \in [Servers -> BOOLEAN]
           /\ m_serverData' \in [Servers -> Nat \cup {NoEntry, NoExpiry}]
           /\ m_handshakeQueue' \in [Shakes -> Nat \cup {NoEntry}]
           /\ net' \in SUBSET Datagrams
<1> USE DEF TypeOK, Datagrams
<1>1. d \in Datagrams /\ d.who \in Servers /\ d.shake \in Shakes \cup {0}
  OBVIOUS
<1>2. CASE d.kind = "SERVERKEEPALIVE" /\ processSERVERKEEPALIVE(d, left)
  <2> DEFINE fresh == {h \in Shakes : \A e \in net : e.shake # h}
             h == CHOOSE n \in fresh : TRUE
  <2>1. h \in Shakes
    BY <1>2 DEF processSERVERKEEPALIVE
  <2>2. Datagram("HANDSHAKE", d.who, h) \in Datagrams
    BY <1>1, <2>1, DatagramType DEF Kinds
  <2> HIDE DEF h
  <2>3. /\ m_handshakeQueue' = [m_handshakeQueue EXCEPT ![h] = 0]
        /\ net' = left \cup {Datagram("HANDSHAKE", d.who, h)}
        /\ UNCHANGED <<up, pinged, joined, m_serverData>>
    BY <1>2 DEF processSERVERKEEPALIVE, h
  <2>4. QED
    BY <2>1, <2>2, <2>3
<1>3. CASE d.kind = "SERVERSHAKE" /\ processSERVERSHAKE(d, left)
  BY <1>1, <1>3 DEF processSERVERSHAKE, addServerSession
<1>4. CASE d.kind = "TERMINATE" /\ processTERMINATE(d, left)
  BY <1>1, <1>4 DEF processTERMINATE
<1>5. CASE d.kind = "SERVERATTR" /\ processSERVERATTR(d, left)
  BY <1>1, <1>5 DEF processSERVERATTR
<1>6. CASE d.kind = "HANDSHAKE" /\ metaserverReply(d, left)
  <2>1. Datagram("SERVERSHAKE", d.who, d.shake) \in Datagrams
    BY <1>1, DatagramType DEF Kinds
  <2>2. QED
    BY <1>6, <2>1 DEF metaserverReply, registerVars
<1>7. QED
  BY <1>2, <1>3, <1>4, <1>5, <1>6 DEF Receive

\* An age stays an age, and what has none gets none.
LEMMA OlderType ==
    ASSUME NEW age \in Nat \cup {NoEntry, NoExpiry}
    PROVE  /\ Older(age) \in Nat \cup {NoEntry, NoExpiry}
           /\ age \in Nat => Older(age) = age + 1
           /\ age \notin Nat => Older(age) = age
BY DEF Older

\* Each step keeps the types.
LEMMA StepTypeOK == TypeOK /\ [Next]_vars => TypeOK'
<1> SUFFICES ASSUME TypeOK, [Next]_vars PROVE TypeOK'
  OBVIOUS
<1> USE MetaserverAssumption
<1>1. ASSUME NEW s \in Servers, Start(s) PROVE TypeOK'
  BY <1>1 DEF TypeOK, Start
<1>2. ASSUME NEW s \in Servers, metaserverKeepalive(s) PROVE TypeOK'
  <2>1. /\ Datagram("SERVERKEEPALIVE", s, 0) \in Datagrams
        /\ Datagram("SERVERATTR", s, 0) \in Datagrams
    BY DatagramType DEF Kinds
  <2>2. QED
    BY <1>2, <2>1 DEF TypeOK, Datagrams, metaserverKeepalive
<1>3. ASSUME NEW s \in Servers, metaserverTerminate(s) PROVE TypeOK'
  <2>1. Datagram("TERMINATE", s, 0) \in Datagrams
    BY DatagramType DEF Kinds
  <2>2. QED
    BY <1>3, <2>1 DEF TypeOK, Datagrams, metaserverTerminate
<1>4. ASSUME NEW s \in Servers, Crash(s) PROVE TypeOK'
  BY <1>4 DEF TypeOK, Crash
<1>5. ASSUME NEW d \in net, Deliver(d) PROVE TypeOK'
  <2>1. Receive(d, net \ {d}) /\ faults' = faults
    BY <1>5 DEF Deliver
  <2>2. QED
    BY <2>1, ReceiveTypes DEF TypeOK, Datagrams
<1>6. CASE Duplicate
  <2>1. PICK d \in net : Receive(d, net)
    BY <1>6 DEF Duplicate
  <2>2. faults' \in 0 .. MaxFaults
    BY <1>6 DEF Duplicate, Fault, TypeOK
  <2>3. QED
    BY <2>1, <2>2, ReceiveTypes DEF TypeOK, Datagrams
<1>7. CASE Lose
  BY <1>7 DEF TypeOK, Lose, Fault, registerVars
<1>8. CASE Tick
  <2>1. m_serverData' \in [Servers -> Nat \cup {NoEntry, NoExpiry}]
    BY <1>8, OlderType DEF TypeOK, Tick
  <2>2. m_handshakeQueue' \in [Shakes -> Nat \cup {NoEntry}]
    BY <1>8 DEF TypeOK, Tick, Older
  <2>3. faults' \in 0 .. MaxFaults
    BY <1>8 DEF TypeOK, Tick, Fault
  <2>4. QED
    BY <1>8, <2>1, <2>2, <2>3 DEF TypeOK, Tick
<1>9. CASE expiry_timer
  BY <1>9 DEF TypeOK, expiry_timer, expireHandshakes, expireServerSessions
<1>10. CASE MetaserverRestart
  BY <1>10 DEF TypeOK, MetaserverRestart, Fault
<1>11. CASE UNCHANGED vars
  BY <1>11 DEF TypeOK, vars, registerVars
<1>12. QED
  BY <1>1, <1>2, <1>3, <1>4, <1>5, <1>6, <1>7, <1>8, <1>9, <1>10, <1>11 DEF Next

(***************************************************************************)
(* The variables of the metaserver, of the game servers and of the network *)
(* keep the types TypeOK gives them.                                       *)
(***************************************************************************)
THEOREM TypeCorrect == Spec => []TypeOK
<1>1. Init => TypeOK
  BY MetaserverAssumption DEF Init, TypeOK
<1>2. QED
  BY <1>1, StepTypeOK, PTL DEF Spec

-----------------------------------------------------------------------------
(***************************************************************************)
(* The register, as ServerRegister sees it.                                *)
(***************************************************************************)

\* The session of s in the terms of ServerRegister.
Abstract(s) == IF m_serverData[s] = NoEntry THEN "none"
               ELSE IF m_serverData[s] = NoExpiry THEN "bare" ELSE "full"

Sessions == [s \in Servers |-> Abstract(s)]

\* A handler's step, seen in the register.
LEMMA ReceiveRegister ==
    ASSUME TypeOK, NEW d \in net, NEW left \in SUBSET net, Receive(d, left)
    PROVE  Register!Next \/ Sessions' = Sessions
<1> DEFINE s == d.who
<1>1. s \in Servers
  BY DEF TypeOK
<1> USE MetaserverAssumption
<1>2. CASE d.kind = "SERVERKEEPALIVE" /\ processSERVERKEEPALIVE(d, left)
  BY <1>2 DEF processSERVERKEEPALIVE, Sessions, Abstract
<1>3. CASE d.kind = "SERVERSHAKE" /\ processSERVERSHAKE(d, left)
  <2>1. \/ m_serverData' = m_serverData
        \/ m_serverData' = [m_serverData EXCEPT ![s] = 0]
    BY <1>3 DEF processSERVERSHAKE, addServerSession
  <2>2. CASE m_serverData' = m_serverData
    BY <2>2 DEF Sessions, Abstract
  <2>3. CASE m_serverData' = [m_serverData EXCEPT ![s] = 0]
    <3>1. Sessions' = [Sessions EXCEPT ![s] = "full"]
      <4>1. 0 # NoEntry /\ 0 # NoExpiry
        OBVIOUS
      <4>2. \A t \in Servers : m_serverData'[t] = IF t = s THEN 0 ELSE m_serverData[t]
        BY <1>1, <2>3 DEF TypeOK
      <4>3. QED
        BY <1>1, <4>1, <4>2 DEF Sessions, Abstract
    <3>2. CASE Sessions[s] = "full"
      BY <3>1, <3>2 DEF Sessions
    <3>3. CASE Sessions[s] # "full"
      <4>1. Register!Shake(s)
        BY <3>1, <3>3 DEF Register!Shake, Sessions, Abstract
      <4>2. QED
        BY <1>1, <4>1 DEF Register!Next
    <3>4. QED
      BY <3>2, <3>3
  <2>4. QED
    BY <2>1, <2>2, <2>3
<1>4. CASE d.kind = "TERMINATE" /\ processTERMINATE(d, left)
  <2>1. Sessions' = [Sessions EXCEPT ![s] = "none"]
    BY <1>1, <1>4 DEF processTERMINATE, Sessions, Abstract, TypeOK
  <2>2. CASE Sessions[s] = "none"
    BY <2>1, <2>2 DEF Sessions
  <2>3. CASE Sessions[s] # "none"
    <3>1. Register!Terminate(s)
      BY <2>1, <2>3 DEF Register!Terminate, Sessions, Abstract
    <3>2. QED
      BY <1>1, <3>1 DEF Register!Next
  <2>4. QED
    BY <2>2, <2>3
<1>5. CASE d.kind = "SERVERATTR" /\ processSERVERATTR(d, left)
  <2>1. CASE m_serverData[s] # NoEntry
    <3>1. m_serverData' = m_serverData
      BY <1>1, <1>5, <2>1 DEF processSERVERATTR, TypeOK
    <3>2. QED
      BY <3>1 DEF Sessions, Abstract
  <2>2. CASE m_serverData[s] = NoEntry
    <3>1. /\ Sessions[s] = "none"
          /\ Sessions' = [Sessions EXCEPT ![s] = "bare"]
      BY <1>1, <1>5, <2>2 DEF processSERVERATTR, Sessions, Abstract, TypeOK
    <3>2. Register!Attribute(s)
      BY <3>1 DEF Register!Attribute, Sessions, Abstract
    <3>3. QED
      BY <1>1, <3>2 DEF Register!Next
  <2>3. QED
    BY <2>1, <2>2
<1>6. CASE d.kind = "HANDSHAKE" /\ metaserverReply(d, left)
  BY <1>6 DEF metaserverReply, registerVars, Sessions, Abstract
<1>7. QED
  BY <1>2, <1>3, <1>4, <1>5, <1>6 DEF Receive

\* A sweep of the timer ends the sessions that are too old.
LEMMA ExpireRegister ==
    ASSUME TypeOK, expiry_timer
    PROVE  Register!Next \/ Sessions' = Sessions
<1> USE MetaserverAssumption
<1> DEFINE S == {s \in Servers : Expired(m_serverData[s], SessionExpiry)}
<1>1. \A s \in S : Sessions[s] = "full"
  BY DEF Sessions, Abstract, Expired
<1>2. Sessions' = [s \in Servers |-> IF s \in S THEN "none" ELSE Sessions[s]]
  BY DEF Sessions, Abstract, expiry_timer, expireServerSessions, TypeOK
<1>3. CASE S = {}
  BY <1>2, <1>3 DEF Sessions
<1>4. CASE S # {}
  <2>1. S \in SUBSET Servers
    OBVIOUS
  <2> HIDE DEF S
  <2>2. \E T \in SUBSET Servers : Register!Expire(T)
    BY <1>1, <1>2, <1>4, <2>1 DEF Register!Expire, Sessions, Abstract
  <2>3. QED
    BY <2>2 DEF Register!Next
<1>5. QED
  BY <1>3, <1>4

(***************************************************************************)
(* The metaserver implements ServerRegister: for any number of servers and *)
(* any lost, doubled, late or overtaken datagrams its register changes as  *)
(* ServerRegister says.                                                    *)
(***************************************************************************)
THEOREM MetaserverImplementsRegister == Spec => ImplementsServerRegister
<1> USE MetaserverAssumption
<1>1. Init => Register!Init
  BY DEF Init, Register!Init
<1>2. TypeOK /\ [Next]_vars => Register!Next \/ Sessions' = Sessions
  <2> SUFFICES ASSUME TypeOK, [Next]_vars
               PROVE  Register!Next \/ Sessions' = Sessions
    OBVIOUS
  <2>1. CASE m_serverData' = m_serverData
    BY <2>1 DEF Sessions, Abstract
  <2>2. ASSUME NEW d \in net, Deliver(d) PROVE Register!Next \/ Sessions' = Sessions
    BY <2>2, ReceiveRegister DEF Deliver
  <2>3. CASE Duplicate
    BY <2>3, ReceiveRegister DEF Duplicate
  <2>4. CASE Tick
    <3>1. ASSUME NEW s \in Servers
          PROVE  /\ m_serverData[s] \in Nat \cup {NoEntry, NoExpiry}
                 /\ m_serverData'[s] = Older(m_serverData[s])
      BY <2>4 DEF Tick, TypeOK
    <3>2. ASSUME NEW s \in Servers PROVE Abstract(s)' = Abstract(s)
      <4>1. CASE m_serverData[s] \in Nat
        BY <3>1, <4>1 DEF Abstract, Older
      <4>2. CASE m_serverData[s] \notin Nat
        BY <3>1, <4>2 DEF Abstract, Older
      <4>3. QED
        BY <4>1, <4>2
    <3>3. QED
      BY <3>2 DEF Sessions
  <2>5. CASE MetaserverRestart
    <3>1. Sessions' = [s \in Servers |-> "none"]
      BY <2>5 DEF MetaserverRestart, Sessions, Abstract
    <3>2. CASE \E s \in Servers : Sessions[s] # "none"
      <4>1. Register!Restart
        BY <3>1, <3>2 DEF Register!Restart, Sessions, Abstract
      <4>2. QED
        BY <4>1 DEF Register!Next
    <3>3. CASE \A s \in Servers : Sessions[s] = "none"
      BY <3>1, <3>3 DEF Sessions
    <3>4. QED
      BY <3>2, <3>3
  <2>6. QED
    BY <2>1, <2>2, <2>3, <2>4, <2>5, ExpireRegister
       DEF Next, Start, metaserverKeepalive, metaserverTerminate, Crash, Lose,
           vars, registerVars
<1>3. TypeOK /\ [Next]_vars
        => [Register!Next]_([s \in Servers |->
                                IF m_serverData[s] = NoEntry THEN "none"
                                ELSE IF m_serverData[s] = NoExpiry THEN "bare"
                                ELSE "full"])
  BY <1>2 DEF Sessions, Abstract
<1>4. QED
  BY <1>1, <1>3, TypeCorrect, PTL DEF Spec, ImplementsServerRegister, Register!Spec

-----------------------------------------------------------------------------
(***************************************************************************)
(* A registered server stays listed.                                       *)
(*                                                                         *)
(* The age of its session grows with the clock and is set back by each     *)
(* servershake, so the invariant has to say how a heartbeat can fail: by   *)
(* the time the clock ticks its round is over, which has set the age back, *)
(* or the round is still under way, which costs a fault, or a datagram of  *)
(* the round was lost, which has cost one.  Each fault buys one tick.      *)
(***************************************************************************)

\* Handshake h is still known to the metaserver, and young.
Young(h) ==
    /\ h \in Shakes
    /\ m_handshakeQueue[h] \in Nat
    /\ m_handshakeQueue[h] <= HandshakeExpiry

\* d belongs to a round of s that will refresh its session.
Live(d, s) ==
    /\ d.who = s
    /\ \/ d.kind = "SERVERKEEPALIVE"
       \/ d.kind \in {"HANDSHAKE", "SERVERSHAKE"} /\ Young(d.shake)

RoundUnderWay(s) == \E d \in net : Live(d, s)

\* The session of s is young enough for the faults so far.
Fresh(s) ==
    /\ up[s]
    /\ m_serverData[s] \in Nat
    /\ m_serverData[s] <= faults + 1
    /\ pinged[s] => m_serverData[s] <= faults \/ RoundUnderWay(s)

JoinedIsFresh == \A s \in Servers : joined[s] => Fresh(s)

ListInv == TypeOK /\ JoinedIsFresh

\* Handshakes that are young stay so.
YoungStays == \A h \in Shakes : Young(h) => Young(h)'

\* A round goes on as long as its datagrams do.
LEMMA RoundStays ==
    ASSUME NEW s \in Servers, YoungStays, RoundUnderWay(s),
           \A e \in net : Live(e, s) => e \in net'
    PROVE  RoundUnderWay(s)'
<1>1. PICK e \in net : Live(e, s)
  BY DEF RoundUnderWay
<1>2. e \in net'
  BY <1>1
<1>3. Live(e, s)'
  <2>1. CASE e.kind = "SERVERKEEPALIVE"
    BY <1>1, <2>1 DEF Live
  <2>2. CASE e.kind \in {"HANDSHAKE", "SERVERSHAKE"} /\ Young(e.shake)
    <3>1. Young(e.shake)'
      BY <2>2 DEF Young, YoungStays
    <3>2. QED
      BY <1>1, <2>2, <3>1 DEF Live
  <2>3. QED
    BY <1>1, <2>1, <2>2 DEF Live
<1>4. QED
  BY <1>2, <1>3 DEF RoundUnderWay

\* Nothing that matters to the session of s changes.
LEMMA FreshStays ==
    ASSUME TypeOK, NEW s \in Servers, Fresh(s),
           up'[s] = up[s], m_serverData'[s] = m_serverData[s],
           pinged'[s] = pinged[s], faults' \in Nat, faults' >= faults,
           RoundUnderWay(s) => RoundUnderWay(s)'
    PROVE  Fresh(s)'
<1>1. faults \in Nat
  BY MetaserverAssumption DEF TypeOK
<1>2. QED
  BY <1>1 DEF Fresh

\* A fault allows the session of s to be one tick older.
LEMMA FaultAllows ==
    ASSUME TypeOK, NEW s \in Servers, Fresh(s), Fault,
           up'[s] = up[s], m_serverData'[s] = m_serverData[s]
    PROVE  Fresh(s)'
<1>1. faults \in Nat
  BY MetaserverAssumption DEF TypeOK
<1>2. QED
  BY <1>1 DEF Fresh, Fault

\* A datagram that is received leaves the session of every server that has
\* joined fresh: it takes the round a step further or has no part in it.
LEMMA ReceiveFresh ==
    ASSUME ListInv, NEW d \in net, NEW left \in SUBSET net, net \ {d} \subseteq left,
           Receive(d, left), faults' \in Nat, faults' >= faults,
           NEW s \in Servers, joined'[s]
    PROVE  Fresh(s)'
<1> USE MetaserverAssumption
<1>1. /\ TypeOK
      /\ joined[s] => Fresh(s)
      /\ d.who \in Servers
      /\ d.shake \in Shakes \cup {0}
      /\ faults \in Nat
  BY DEF ListInv, JoinedIsFresh, TypeOK
<1>2. CASE d.kind = "SERVERKEEPALIVE" /\ processSERVERKEEPALIVE(d, left)
  <2> DEFINE fresh == {h \in Shakes : \A e \in net : e.shake # h}
  <2>1. (CHOOSE n \in fresh : TRUE) \in Shakes
    BY <1>2 DEF processSERVERKEEPALIVE
  <2>2. PICK h \in Shakes :
            /\ m_handshakeQueue' = [m_handshakeQueue EXCEPT ![h] = 0]
            /\ net' = left \cup {Datagram("HANDSHAKE", d.who, h)}
            /\ UNCHANGED <<up, pinged, joined, m_serverData>>
    BY <1>2, <2>1 DEF processSERVERKEEPALIVE
  <2> DEFINE m == Datagram("HANDSHAKE", d.who, h)
  <2>3. Young(h)'
    BY <1>1, <2>1, <2>2 DEF Young, TypeOK
  <2>4. YoungStays
    BY <1>1, <2>1, <2>2 DEF YoungStays, Young, TypeOK
  <2>5. RoundUnderWay(s) => RoundUnderWay(s)'
    <3>1. CASE d.who = s
      <4>1. m.who = s /\ m.kind = "HANDSHAKE" /\ m.shake = h
        BY <3>1 DEF Datagram
      <4>2. Live(m, s)'
        BY <2>3, <4>1 DEF Live
      <4>3. QED
        BY <2>2, <4>2 DEF RoundUnderWay
    <3>2. CASE d.who # s
      <4>1. \A e \in net : Live(e, s) => e \in net'
        BY <2>2, <3>2 DEF Live
      <4>2. QED
        BY <2>4, <4>1, RoundStays
    <3>3. QED
      BY <3>1, <3>2
  <2>6. QED
    BY <1>1, <2>2, <2>5, FreshStays
<1>3. CASE d.kind = "SERVERSHAKE" /\ processSERVERSHAKE(d, left)
  <2>1. CASE d.who = s /\ m_handshakeQueue[d.shake] # NoEntry
    <3>1. m_serverData'[s] = 0
      BY <1>1, <1>3, <2>1 DEF processSERVERSHAKE, addServerSession, TypeOK
    <3>2. up'[s]
      BY <1>1, <1>3, <2>1 DEF processSERVERSHAKE, Fresh, TypeOK
    <3>3. m_serverData'[s] <= faults' /\ m_serverData'[s] <= faults' + 1
      <4>1. \A n \in Nat : 0 <= n /\ 0 <= n + 1
        OBVIOUS
      <4>2. QED
        BY <3>1, <4>1, Zenon
    <3>4. QED
      BY <3>1, <3>2, <3>3 DEF Fresh
  <2>2. CASE ~(d.who = s /\ m_handshakeQueue[d.shake] # NoEntry)
    <3>1. /\ joined[s]
          /\ m_serverData'[s] = m_serverData[s]
          /\ UNCHANGED <<up, pinged, m_handshakeQueue>>
          /\ net' = left
      BY <1>1, <1>3, <2>2 DEF processSERVERSHAKE, TypeOK
    <3>2. ~Live(d, s)
      BY <1>3, <2>2 DEF Live, Young
    <3>3. \A e \in net : Live(e, s) => e \in net'
      BY <3>1, <3>2
    <3>4. YoungStays
      BY <3>1 DEF YoungStays, Young
    <3>5. QED
      BY <1>1, <3>1, <3>3, <3>4, RoundStays, FreshStays
  <2>3. QED
    BY <2>1, <2>2
<1>4. CASE d.kind = "TERMINATE" /\ processTERMINATE(d, left)
  <2>1. /\ d.who # s
        /\ joined[s]
        /\ m_serverData'[s] = m_serverData[s]
        /\ UNCHANGED <<up, pinged, m_handshakeQueue>>
        /\ net' = left
    BY <1>1, <1>4 DEF processTERMINATE, TypeOK
  <2>2. \A e \in net : Live(e, s) => e \in net'
    BY <2>1 DEF Live
  <2>3. YoungStays
    BY <2>1 DEF YoungStays, Young
  <2>4. QED
    BY <1>1, <2>1, <2>2, <2>3, RoundStays, FreshStays
<1>5. CASE d.kind = "SERVERATTR" /\ processSERVERATTR(d, left)
  <2>1. /\ joined[s]
        /\ UNCHANGED <<up, pinged, m_handshakeQueue>>
        /\ net' = left
    BY <1>5 DEF processSERVERATTR
  <2>2. m_serverData[s] # NoEntry
    BY <1>1, <2>1 DEF Fresh
  <2>3. m_serverData'[s] = m_serverData[s]
    BY <1>1, <1>5, <2>2 DEF processSERVERATTR, TypeOK
  <2>4. \A e \in net : Live(e, s) => e \in net'
    BY <1>5, <2>1 DEF Live
  <2>5. YoungStays
    BY <2>1 DEF YoungStays, Young
  <2>6. QED
    BY <1>1, <2>1, <2>3, <2>4, <2>5, RoundStays, FreshStays
<1>6. CASE d.kind = "HANDSHAKE" /\ metaserverReply(d, left)
  <2> DEFINE m == Datagram("SERVERSHAKE", d.who, d.shake)
  <2>1. UNCHANGED <<up, pinged, joined, m_serverData, m_handshakeQueue>>
    BY <1>6 DEF metaserverReply, registerVars
  <2>2. left \subseteq net' /\ (up[d.who] => m \in net')
    BY <1>6 DEF metaserverReply
  <2>3. YoungStays
    BY <2>1 DEF YoungStays, Young
  <2>4. RoundUnderWay(s) => RoundUnderWay(s)'
    <3>1. CASE Live(d, s)
      <4>1. d.who = s /\ Young(d.shake)
        BY <1>6, <3>1 DEF Live
      <4>2. m \in net'
        BY <1>1, <2>1, <2>2, <4>1 DEF Fresh
      <4>3. m.who = s /\ m.kind = "SERVERSHAKE" /\ m.shake = d.shake
        BY <4>1 DEF Datagram
      <4>4. Young(d.shake)'
        BY <2>1, <4>1 DEF Young
      <4>5. Live(m, s)'
        BY <4>3, <4>4 DEF Live
      <4>6. QED
        BY <4>2, <4>5 DEF RoundUnderWay
    <3>2. CASE ~Live(d, s)
      <4>1. \A e \in net : Live(e, s) => e \in net'
        BY <2>2, <3>2
      <4>2. QED
        BY <2>3, <4>1, RoundStays
    <3>3. QED
      BY <3>1, <3>2
  <2>5. QED
    BY <1>1, <2>1, <2>4, FreshStays
<1>7. QED
  BY <1>2, <1>3, <1>4, <1>5, <1>6 DEF Receive

\* The invariant is kept, if faults are rarer than a session is long.
LEMMA StepListInv ==
    ASSUME MaxFaults < SessionExpiry
    PROVE  ListInv /\ [Next]_vars => ListInv'
<1> SUFFICES ASSUME ListInv, [Next]_vars PROVE ListInv'
  OBVIOUS
<1> USE MetaserverAssumption
<1>1. TypeOK /\ TypeOK'
  BY StepTypeOK DEF ListInv
<1>2. faults \in Nat /\ faults' \in Nat
  BY <1>1 DEF TypeOK
<1> SUFFICES ASSUME NEW s \in Servers, joined'[s] PROVE Fresh(s)'
  BY <1>1 DEF ListInv, JoinedIsFresh
<1>4. joined[s] => Fresh(s)
  BY DEF ListInv, JoinedIsFresh
<1>5. ASSUME NEW t \in Servers, Start(t) PROVE Fresh(s)'
  <2>1. joined[s] /\ up[s]
    BY <1>4, <1>5 DEF Start, Fresh
  <2>2. t # s
    BY <1>5, <2>1 DEF Start
  <2>3. /\ up'[s] = up[s]
        /\ pinged'[s] = pinged[s]
        /\ UNCHANGED <<m_serverData, m_handshakeQueue, faults>>
    BY <1>1, <1>5, <2>2 DEF Start, TypeOK
  <2>4. \A e \in net : Live(e, s) => e \in net'
    BY <1>5, <2>2 DEF Start, Live
  <2>5. YoungStays
    BY <2>3 DEF YoungStays, Young
  <2>6. faults' >= faults
    BY <1>2, <2>3
  <2>7. QED
    BY <1>1, <1>2, <1>4, <2>1, <2>3, <2>4, <2>5, <2>6, RoundStays, FreshStays
<1>6. ASSUME NEW t \in Servers, metaserverKeepalive(t) PROVE Fresh(s)'
  <2> DEFINE m == Datagram("SERVERKEEPALIVE", t, 0)
  <2>1. /\ m \in net'
        /\ net \subseteq net'
        /\ UNCHANGED <<up, joined, m_serverData, m_handshakeQueue, faults>>
    BY <1>6 DEF metaserverKeepalive
  <2>2. Fresh(s)
    BY <1>4, <2>1
  <2>3. CASE t = s
    <3>1. m.who = s /\ m.kind = "SERVERKEEPALIVE"
      BY <2>3 DEF Datagram
    <3>2. RoundUnderWay(s)'
      BY <2>1, <3>1 DEF RoundUnderWay, Live
    <3>3. QED
      BY <2>1, <2>2, <3>2 DEF Fresh
  <2>4. CASE t # s
    <3>1. pinged'[s] = pinged[s]
      BY <1>1, <1>6, <2>4 DEF metaserverKeepalive, TypeOK
    <3>2. YoungStays
      BY <2>1 DEF YoungStays, Young
    <3>3. faults' >= faults
      BY <1>2, <2>1
    <3>4. QED
      BY <1>1, <1>2, <2>1, <2>2, <3>1, <3>2, <3>3, RoundStays, FreshStays
  <2>5. QED
    BY <2>3, <2>4
<1>7. ASSUME NEW t \in Servers, metaserverTerminate(t) \/ Crash(t) PROVE Fresh(s)'
  <2>1. t # s
    BY <1>1, <1>7 DEF metaserverTerminate, Crash, TypeOK
  <2>2. /\ joined[s]
        /\ up'[s] = up[s]
        /\ net \subseteq net'
        /\ UNCHANGED <<pinged, m_serverData, m_handshakeQueue, faults>>
    BY <1>1, <1>7, <2>1 DEF metaserverTerminate, Crash, TypeOK
  <2>3. YoungStays
    BY <2>2 DEF YoungStays, Young
  <2>4. faults' >= faults
    BY <1>2, <2>2
  <2>5. QED
    BY <1>1, <1>2, <1>4, <2>2, <2>3, <2>4, RoundStays, FreshStays
<1>8. ASSUME NEW d \in net, Deliver(d) PROVE Fresh(s)'
  <2>1. Receive(d, net \ {d}) /\ faults' = faults
    BY <1>8 DEF Deliver
  <2>2. faults' >= faults
    BY <1>2, <2>1
  <2>3. QED
    BY <1>2, <2>1, <2>2, ReceiveFresh
<1>9. CASE Duplicate
  <2>1. PICK d \in net : Receive(d, net)
    BY <1>9 DEF Duplicate
  <2>2. faults' >= faults
    BY <1>2, <1>9 DEF Duplicate, Fault
  <2>3. QED
    BY <1>2, <2>1, <2>2, ReceiveFresh
<1>10. CASE Lose
  <2>1. Fault /\ UNCHANGED <<up, joined, m_serverData>>
    BY <1>10 DEF Lose, registerVars
  <2>2. QED
    BY <1>1, <1>4, <2>1, FaultAllows
<1>11. CASE Tick
  <2>1. /\ joined[s]
        /\ up' = up
        /\ pinged'[s] = FALSE
        /\ pinged[s]
    BY <1>4, <1>11 DEF Tick, Fresh
  <2>2. Fresh(s)
    BY <1>4, <2>1
  <2>3. /\ m_serverData[s] \in Nat
        /\ m_serverData'[s] = m_serverData[s] + 1
    BY <1>11, <2>2 DEF Fresh, Tick, Older
  <2>4. m_serverData'[s] <= faults' + 1
    <3>1. CASE net = {}
      <4>1. faults' = faults /\ ~RoundUnderWay(s)
        BY <1>11, <3>1 DEF Tick, RoundUnderWay
      <4>2. m_serverData[s] <= faults
        BY <2>1, <2>2, <4>1 DEF Fresh
      <4>3. QED
        BY <1>2, <2>3, <4>1, <4>2
    <3>2. CASE net # {}
      <4>1. faults' = faults + 1
        BY <1>11, <3>2 DEF Tick, Fault
      <4>2. m_serverData[s] <= faults + 1
        BY <2>2 DEF Fresh
      <4>3. QED
        BY <1>2, <2>3, <4>1, <4>2
    <3>3. QED
      BY <3>1, <3>2
  <2>5. QED
    BY <2>1, <2>2, <2>3, <2>4 DEF Fresh
<1>12. CASE expiry_timer
  <2>1. /\ UNCHANGED <<up, pinged, joined, net, faults>>
        /\ Fresh(s)
    BY <1>4, <1>12 DEF expiry_timer
  <2>2. m_serverData[s] \in Nat /\ m_serverData[s] <= faults + 1
    BY <2>1 DEF Fresh
  <2>3. m_serverData[s] <= SessionExpiry
    BY <1>1, <1>2, <2>2 DEF TypeOK
  <2>4. m_serverData'[s] = m_serverData[s]
    BY <1>1, <1>12, <2>2, <2>3
       DEF expiry_timer, expireServerSessions, Expired, TypeOK
  <2>5. YoungStays
    BY <1>1, <1>12
       DEF YoungStays, Young, expiry_timer, expireHandshakes, Expired, TypeOK
  <2>6. faults' >= faults
    BY <1>2, <2>1
  <2>7. QED
    BY <1>1, <1>2, <2>1, <2>4, <2>5, <2>6, RoundStays, FreshStays
<1>13. CASE MetaserverRestart
  BY <1>13 DEF MetaserverRestart
<1>14. CASE UNCHANGED vars
  <2>1. UNCHANGED <<up, pinged, joined, m_serverData, m_handshakeQueue, net, faults>>
    BY <1>14 DEF vars, registerVars
  <2>2. YoungStays
    BY <2>1 DEF YoungStays, Young
  <2>3. faults' >= faults
    BY <1>2, <2>1
  <2>4. QED
    BY <1>1, <1>2, <1>4, <2>1, <2>2, <2>3, RoundStays, FreshStays
<1>15. QED
  BY <1>5, <1>6, <1>7, <1>8, <1>9, <1>10, <1>11, <1>12, <1>13, <1>14 DEF Next

(***************************************************************************)
(* A running game server that has registered stays in the metaserver's     *)
(* list, whatever datagrams are lost, doubled, late or overtaken, if the   *)
(* faults are fewer than the heartbeats that a session outlives.           *)
(***************************************************************************)
THEOREM RegisteredStaysListed ==
    ASSUME MaxFaults < SessionExpiry
    PROVE  Spec => []StaysListed
<1>1. Init => ListInv
  BY MetaserverAssumption DEF Init, ListInv, TypeOK, JoinedIsFresh
<1>2. ListInv => StaysListed
  BY MetaserverAssumption
     DEF ListInv, JoinedIsFresh, Fresh, StaysListed, Registered
<1>3. QED
  BY <1>1, <1>2, StepListInv, PTL DEF Spec

=============================================================================
