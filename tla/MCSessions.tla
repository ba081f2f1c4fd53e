----------------------------- MODULE MCSessions -----------------------------
(***************************************************************************)
(* Sessions for TLC: connections are alike.                                *)
(***************************************************************************)
EXTENDS Sessions, TLC

Alike == Permutations(Connections)

=============================================================================
