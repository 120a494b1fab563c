----------------------------- MODULE MailOutbox -----------------------------
(***************************************************************************)
(* What the mail helper promises about a notification, without its table,  *)
(* its numbering and its workers: a mail that was accepted is taken out of *)
(* the queue only after at least one copy of it has been handed to the     *)
(* mail server, and a mail that was not accepted is never sent.            *)
(***************************************************************************)
CONSTANT Mails

VARIABLE status  \* "new", "lost", "queued", "delivered" or "settled", by mail

Init == status = [m \in Mails |-> "new"]

Become(m, from, to) == status[m] = from /\ status' = [status EXCEPT ![m] = to]

Accept(m)  == Become(m, "new", "queued")
Deliver(m) == Become(m, "queued", "delivered")
Settle(m)  == Become(m, "delivered", "settled")

\* Mails that were about to be queued are lost: one at a time when its number is
\* refused, all of them when the server dies.
DropSome == \E some \in SUBSET {m \in Mails : status[m] = "new"} :
  status' = [m \in Mails |-> IF m \in some THEN "lost" ELSE status[m]]

Next == DropSome \/ \E m \in Mails : Accept(m) \/ Deliver(m) \/ Settle(m)

Spec == Init /\ [][Next]_status
=============================================================================
