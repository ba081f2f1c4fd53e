---------------------------- MODULE CommandQueue ----------------------------
(***************************************************************************)
(* What the database promises its users about commands, without worker,    *)
(* mutex and condition variables: scheduleCommand numbers them, and they   *)
(* are applied one at a time, each once, in that order.  SQLiteQueue       *)
(* implements this; StorageManager relies on it.                           *)
(***************************************************************************)
EXTENDS Naturals, Sequences

VARIABLES
    scheduled,   \* how many commands were scheduled
    applied      \* the commands applied, in order

vars == <<scheduled, applied>>

Init ==
    /\ scheduled = 0
    /\ applied = <<>>

Schedule ==
    /\ scheduled' = scheduled + 1
    /\ UNCHANGED applied

\* The next command is the oldest one that is not applied yet.
Apply ==
    /\ Len(applied) < scheduled
    /\ applied' = Append(applied, Len(applied) + 1)
    /\ UNCHANGED scheduled

Next == Schedule \/ Apply

Spec == Init /\ [][Next]_vars

=============================================================================
