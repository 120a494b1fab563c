---------------------------- MODULE MC_MailQueue ----------------------------
(* Instances of MailQueue for TLC. *)
EXTENDS MailQueue

\* Two days of one month and the first day of the next.
TwoDaysAndNext == [d \in 0..2 |-> IF d < 2 THEN 1 ELSE 2]
OneDay == [d \in 0..0 |-> 1]
=============================================================================
