--------------------------- MODULE TaskLifecycle ---------------------------
(***************************************************************************)
(* What Ember's task framework promises about one task, seen from outside: *)
(* a task that is accepted is picked up by one background thread, runs     *)
(* there once, is handed back, and is then completed once by the main      *)
(* thread.  The only other way out is a listener that throws, which makes  *)
(* the executor discard the task.                                          *)
(*                                                                         *)
(* ITask.h: "Executes the task in the main thread, after                   *)
(* executeTaskInBackgroundThread() has been called."                       *)
(***************************************************************************)

CONSTANT Tasks

VARIABLE status     \* status[t]: where the task is in its life

Statuses ==
    {"new", "queued", "background", "processed", "finished", "discarded"}

Init == status = [t \in Tasks |-> "new"]

\* The task moves one step along its life.
Advance(t, from, to) ==
    /\ status[t] = from
    /\ status' = [status EXCEPT ![t] = to]

Next ==
    \E t \in Tasks :
        \/ Advance(t, "new", "queued")
        \/ Advance(t, "queued", "background")
        \/ Advance(t, "background", "processed")
        \/ Advance(t, "background", "discarded")
        \/ Advance(t, "processed", "finished")

Spec == Init /\ [][Next]_status

=============================================================================
