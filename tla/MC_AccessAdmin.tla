--------------------------- MODULE MC_AccessAdmin ----------------------------
(* Instances of AccessAdmin for TLC. *)
EXTENDS AccessAdmin, TLC

Threads == Permutations(Admins)
=============================================================================
