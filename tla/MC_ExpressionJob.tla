-------------------------- MODULE MC_ExpressionJob --------------------------
(* Instances of ExpressionJob for TLC. *)
EXTENDS ExpressionJob

\* A job that runs every minute and latches its faults, the same without the
\* latch, and the same without a script.
Latching == [active |-> TRUE, checkFault |-> TRUE, contactMode |-> "ALL",
             content |-> "script", dayOfWeek |-> "*", hour |-> "*", minute |-> "*"]
Plain == [Latching EXCEPT !.checkFault = FALSE, !.contactMode = "ONLY_FAULT"]
Empty == [Latching EXCEPT !.content = "blank", !.contactMode = "ONLY_SUCCESS"]
OneForm == {Latching, Plain}
ScriptOrNone == {Plain, Empty}

At(first, today) == [firstDow |-> first, dow |-> today, hour |-> "9", minute |-> "30"]
AnyMinute == {At("2", "2")}
=============================================================================
