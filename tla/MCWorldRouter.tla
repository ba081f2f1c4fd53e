--------------------------- MODULE MCWorldRouter ---------------------------
(***************************************************************************)
(* WorldRouter for TLC: ways to send an operation.                         *)
(***************************************************************************)
EXTENDS WorldRouter

At(future, stamp) == [future |-> future, stamp |-> stamp]

\* At once, and with a stamp of the sender's own or a tick later.
JustNow == {At(NotSet, NotSet)}
LateTimings == {At(NotSet, NotSet), At(1, NotSet)}
AllTimings == {At(NotSet, NotSet), At(1, NotSet), At(NotSet, 0)}

=============================================================================
