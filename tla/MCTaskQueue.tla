---------------------------- MODULE MCTaskQueue ----------------------------
(***************************************************************************)
(* TaskQueue for TLC.  The end of a run of the queue is made a self-loop,  *)
(* so that TLC reports every other state without a successor as a deadlock.*)
(***************************************************************************)
EXTENDS TaskQueue

\* A destroyed queue whose handlers have all been run.
Terminated ==
    /\ stage = "destroyed"
    /\ handlers = 0
    /\ UNCHANGED vars

MCNext == Next \/ Terminated

MCSpec == Init /\ [][MCNext]_vars /\ Fairness

=============================================================================
