--------------------------- MODULE ServerRegister ---------------------------
(***************************************************************************)
(* What the metaserver promises about its register of game servers         *)
(* (m_serverData of DataObject), without datagrams, handshakes and clocks: *)
(* an address has no entry, a bare one that only holds attributes, or a    *)
(* session.  Metaserver implements this, MetaList is built on it.          *)
(***************************************************************************)

CONSTANT Servers   \* addresses of the game servers

VARIABLE sessions   \* per address: "none", "bare" or "full"

Init == sessions = [s \in Servers |-> "none"]

\* A servershake makes a session.
Shake(s) ==
    /\ sessions[s] # "full"
    /\ sessions' = [sessions EXCEPT ![s] = "full"]

\* Attributes make an entry where there is none.
Attribute(s) ==
    /\ sessions[s] = "none"
    /\ sessions' = [sessions EXCEPT ![s] = "bare"]

Terminate(s) ==
    /\ sessions[s] # "none"
    /\ sessions' = [sessions EXCEPT ![s] = "none"]

\* Sessions expire, several at once perhaps.  A bare entry never does.
Expire(S) ==
    /\ S # {}
    /\ \A s \in S : sessions[s] = "full"
    /\ sessions' = [s \in Servers |-> IF s \in S THEN "none" ELSE sessions[s]]

\* The metaserver starts anew.
Restart ==
    /\ \E s \in Servers : sessions[s] # "none"
    /\ sessions' = [s \in Servers |-> "none"]

Next ==
    \/ \E s \in Servers : Shake(s) \/ Attribute(s) \/ Terminate(s)
    \/ \E S \in SUBSET Servers : Expire(S)
    \/ Restart

Spec == Init /\ [][Next]_sessions

=============================================================================
