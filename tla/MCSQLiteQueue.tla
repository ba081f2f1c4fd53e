--------------------------- MODULE MCSQLiteQueue ---------------------------
(***************************************************************************)
(* SQLiteQueue for TLC.  A database that nobody uses is no deadlock: the   *)
(* end of a run is a self-loop.                                            *)
(***************************************************************************)
EXTENDS SQLiteQueue

Terminated ==
    /\ life = "destroyed"
    /\ UNCHANGED vars

MCNext == Next \/ Terminated

MCSpec == Init /\ [][MCNext]_vars /\ Fairness

=============================================================================
