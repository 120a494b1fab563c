-------------------------- MODULE MC_PageDialogs --------------------------
(* Instance of PageDialogs for TLC: the constants are model values.         *)
EXTENDS PageDialogs
=============================================================================
