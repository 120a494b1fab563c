----------------------------- MODULE MailQueue ------------------------------
(***************************************************************************)
(* The mail helper: notifications are rows of tb_sys_mail_helper that a    *)
(* Quartz job sends in the background.                                     *)
(*                                                                         *)
(*   - A producer (ExpressionJobExecuteCallable.sendMail) reads the day's  *)
(*     highest MAIL_ID and saves its row under the next number, in two     *)
(*     transactions; whatever goes wrong is swallowed.                     *)
(*   - SendMailHelperJobImpl, every two minutes, takes up to a page of the *)
(*     month's unsent rows and starts a thread for each.  It does not wait *)
(*     for them, so the next run may start a second thread for a row.      *)
(*   - A ProcessWorker tries to send up to Rety times, then deletes its    *)
(*     row, or flags it as sent when the row is to be retained.  A send    *)
(*     that throws may have reached the mail server all the same.          *)
(***************************************************************************)
EXTENDS Naturals, FiniteSets

CONSTANTS
  Mails,          \* notifications, and the OIDs of their rows
  Retained,       \* those with RETAIN_FLAG "Y"
  Undeliverable,  \* those MailClientUtils.send refuses every time
  QuartzThreads,  \* the threads that may run the job
  Slots,          \* bound: workers a mail can have at a time
  Rety,           \* 3 in the code
  PageSize,       \* 100 in the code
  MaxSeq,         \* 999999999 in the code
  MaxDay,         \* bound: the last day
  MonthOf,        \* the month of each day
  MaxOverlaps, MaxFaults, MaxCrashes, MaxToggles  \* bounds of the counters

ASSUME ConstantsAssumption ==
  /\ Retained \subseteq Mails /\ Undeliverable \subseteq Mails /\ IsFiniteSet(Slots)
  /\ Rety \in Nat \ {0} /\ PageSize \in Nat \ {0} /\ MaxSeq \in Nat /\ MaxDay \in Nat
  /\ MonthOf \in [0..MaxDay -> Nat]
  /\ MaxOverlaps \in Nat /\ MaxFaults \in Nat /\ MaxCrashes \in Nat /\ MaxToggles \in Nat

Stage == {"new", "numbered", "clashed", "dropped", "unsent", "sent", "gone"}
Id == [day : 0..MaxDay, seq : Nat]
Idle == [pc |-> "idle", left |-> 0]
Worker == {Idle} \cup [pc : {"send", "save"}, left : 1..Rety]

VARIABLES
  today,      \* the date
  enabled,    \* the setting CNF_CONF002, "Y" or "N"
  seen,       \* enableTL: each Quartz thread's copy of it, or "unread"
  stage,      \* where each mail is; it has a row when "unsent" or "sent"
  mailId,     \* its MAIL_ID, once numbered
  worker,     \* the ProcessWorkers, by mail and slot
  delivered,  \* copies of each mail the mail server has accepted
  contended,  \* history: mails numbered while another one was being saved
  overlaps,   \* runs that started a second worker for some mail
  faults,     \* sends that threw on a copy that was taken, and failed updates
  crashes, toggles  \* how much of each bound is used

counters == <<overlaps, faults, crashes, toggles>>
vars == <<today, enabled, seen, stage, mailId, worker, delivered, contended, counters>>

HasRow(m) == stage[m] \in {"unsent", "sent"}
Month(m) == MonthOf[mailId[m].day]
Busy(m) == \E s \in Slots : worker[m][s].pc # "idle"

Init ==
  /\ today = 0
  /\ enabled \in {"Y", "N"} /\ seen = [q \in QuartzThreads |-> "unread"]
  /\ stage = [m \in Mails |-> "new"]
  /\ mailId = [m \in Mails |-> [day |-> 0, seq |-> 0]]
  /\ worker = [m \in Mails |-> [s \in Slots |-> Idle]]
  /\ delivered = [m \in Mails |-> 0]
  /\ contended = {}
  /\ overlaps = 0 /\ faults = 0 /\ crashes = 0 /\ toggles = 0
-----------------------------------------------------------------------------
(* Producers: sendMail *)

\* Mutation of Highest: the rows that were sent and retained are left out.
HighestUnsent(d, n) ==
  LET seqs == {mailId[m].seq : m \in {k \in Mails : stage[k] = "unsent" /\ mailId[k].day = d}}
  IN  n \in {0} \cup seqs /\ \A i \in seqs : i <= n

\* findForMaxMailId: n is the highest number of day d, 0 if it has none.
Highest(d, n) ==
  LET seqs == {mailId[m].seq : m \in {k \in Mails : HasRow(k) /\ mailId[k].day = d}}
  IN  n \in {0} \cup seqs /\ \A i \in seqs : i <= n

\* findForMaxMailIdComplete; it throws when the day's numbers are used up.
Number(m) ==
  /\ stage[m] = "new"
  /\ \E n \in 0..MaxSeq :
       /\ Highest(today, n)
       /\ \/ /\ n = MaxSeq
             /\ stage' = [stage EXCEPT ![m] = "dropped"]
             /\ UNCHANGED <<mailId, contended>>
          \/ /\ n < MaxSeq
             /\ stage' = [stage EXCEPT ![m] = "numbered"]
             /\ mailId' = [mailId EXCEPT ![m] = [day |-> today, seq |-> n + 1]]
             /\ LET others == {k \in Mails : stage[k] = "numbered"}
                IN  contended' = contended \cup IF others = {} THEN {} ELSE others \cup {m}
  /\ UNCHANGED <<today, enabled, seen, worker, delivered, counters>>

\* saveObject: the count of MAIL_ID in the service, or the unique key of the
\* table, refuses a number that is taken; sendMail swallows the exception.
Save(m) ==
  /\ stage[m] = "numbered"
  /\ LET taken == \E k \in Mails : HasRow(k) /\ mailId[k] = mailId[m]
     IN  stage' = [stage EXCEPT ![m] = IF taken THEN "clashed" ELSE "unsent"]
  /\ UNCHANGED <<today, enabled, seen, mailId, worker, delivered, contended, counters>>
-----------------------------------------------------------------------------
(* SendMailHelperJobImpl.executeInternal, on thread q *)

\* Mutation of Backlog: the rows of the whole month, sent or not.
BacklogSentToo == {m \in Mails : HasRow(m) /\ Month(m) = MonthOf[today]}
\* Mutation of Backlog: the date is not cut to its month.
BacklogOfToday == {m \in Mails : stage[m] = "unsent" /\ mailId[m].day = today}

Backlog == {m \in Mails : stage[m] = "unsent" /\ Month(m) = MonthOf[today]}

\* findForJobList has a limit and no order.
Pages == IF Cardinality(Backlog) <= PageSize
         THEN {Backlog} ELSE {p \in SUBSET Backlog : Cardinality(p) = PageSize}

\* getEnable reads the setting once per thread.
View(q) == IF seen[q] = "unread" THEN enabled ELSE seen[q]

\* process: a new ProcessWorker for every row of the page.
StartWorkers(page) ==
  \E slot \in [page -> Slots] :
    /\ \A m \in page : worker[m][slot[m]].pc = "idle"
    /\ worker' = [m \in Mails |-> IF m \in page
         THEN [worker[m] EXCEPT ![slot[m]] = [pc |-> "send", left |-> Rety]]
         ELSE worker[m]]
    /\ IF \E m \in page : Busy(m)
       THEN overlaps < MaxOverlaps /\ overlaps' = overlaps + 1
       ELSE UNCHANGED overlaps

Tick(q) ==
  /\ seen' = [seen EXCEPT ![q] = View(q)]
  /\ \/ View(q) = "Y" /\ \E page \in Pages : StartWorkers(page)
     \/ View(q) # "Y" /\ UNCHANGED <<worker, overlaps>>
  /\ UNCHANGED <<today, enabled, stage, mailId, delivered, contended, faults, crashes,
                 toggles>>
-----------------------------------------------------------------------------
(* ProcessWorker.run, for mail m in slot s *)

Become(m, s, w) == worker' = [worker EXCEPT ![m][s] = w]

SendOk(m, s) ==
  /\ worker[m][s].pc = "send" /\ m \notin Undeliverable
  /\ delivered' = [delivered EXCEPT ![m] = @ + 1]
  /\ Become(m, s, [worker[m][s] EXCEPT !.pc = "save"])
  /\ UNCHANGED <<today, enabled, seen, stage, mailId, contended, counters>>

\* Mutation of SendFails: the retries are not counted out.
SendFailsForever(m, s) ==
  /\ worker[m][s].pc = "send"
  /\ Become(m, s, [worker[m][s] EXCEPT !.left = @ - 1])
  /\ UNCHANGED <<today, enabled, seen, stage, mailId, delivered, contended, counters>>
\* Mutation of SendFails: success is set in the wrong place.
SendFailsUnnoticed(m, s) ==
  /\ worker[m][s].pc = "send"
  /\ Become(m, s, [worker[m][s] EXCEPT !.pc = "save"])
  /\ UNCHANGED <<today, enabled, seen, stage, mailId, delivered, contended, counters>>

\* rety--, whether or not the copy got through.
TryAgain(m, s) ==
  Become(m, s, IF worker[m][s].left = 1 THEN Idle ELSE [worker[m][s] EXCEPT !.left = @ - 1])

SendFails(m, s) ==
  /\ worker[m][s].pc = "send"
  /\ TryAgain(m, s)
  /\ UNCHANGED <<today, enabled, seen, stage, mailId, delivered, contended, counters>>

\* The mail server takes the copy and its answer does not arrive, so that send
\* throws: the loop sends the mail again.
ReplyLost(m, s) ==
  /\ worker[m][s].pc = "send" /\ m \notin Undeliverable
  /\ faults < MaxFaults /\ faults' = faults + 1
  /\ delivered' = [delivered EXCEPT ![m] = @ + 1]
  /\ TryAgain(m, s)
  /\ UNCHANGED <<today, enabled, seen, stage, mailId, contended, overlaps, crashes,
                 toggles>>

\* update or delete by OID; it throws, and nothing happens, when another worker
\* has already removed the row.
Settle(m, s) ==
  /\ worker[m][s].pc = "save"
  /\ Become(m, s, Idle)
  /\ stage' = [stage EXCEPT ![m] =
       IF @ # "unsent" THEN @ ELSE IF m \in Retained THEN "sent" ELSE "gone"]
  /\ UNCHANGED <<today, enabled, seen, mailId, delivered, contended, counters>>

\* The database call fails; the exception is swallowed and the row stays unsent.
SettleFails(m, s) ==
  /\ worker[m][s].pc = "save"
  /\ faults < MaxFaults /\ faults' = faults + 1
  /\ Become(m, s, Idle)
  /\ UNCHANGED <<today, enabled, seen, stage, mailId, delivered, contended, overlaps,
                 crashes, toggles>>

Run(m, s) ==
  SendOk(m, s) \/ SendFails(m, s) \/ ReplyLost(m, s) \/ Settle(m, s) \/ SettleFails(m, s)
-----------------------------------------------------------------------------
(* The surroundings *)

\* SystemSettingAction.update
Toggle ==
  /\ toggles < MaxToggles /\ toggles' = toggles + 1
  /\ enabled' = IF enabled = "Y" THEN "N" ELSE "Y"
  /\ UNCHANGED <<today, seen, stage, mailId, worker, delivered, contended, overlaps,
                 faults, crashes>>

NextDay ==
  /\ today < MaxDay /\ today' = today + 1
  /\ UNCHANGED <<enabled, seen, stage, mailId, worker, delivered, contended, counters>>

\* The server dies: its threads are gone, the table stays.
Crash ==
  /\ crashes < MaxCrashes /\ crashes' = crashes + 1
  /\ seen' = [q \in QuartzThreads |-> "unread"]
  /\ stage' = [m \in Mails |-> IF stage[m] = "numbered" THEN "dropped" ELSE stage[m]]
  /\ worker' = [m \in Mails |-> [s \in Slots |-> Idle]]
  /\ UNCHANGED <<today, enabled, mailId, delivered, contended, overlaps, faults, toggles>>

Next ==
  \/ \E m \in Mails : Number(m) \/ Save(m)
  \/ \E q \in QuartzThreads : Tick(q)
  \/ \E m \in Mails, s \in Slots : Run(m, s)
  \/ Toggle \/ NextDay \/ Crash

Spec == Init /\ [][Next]_vars

\* Quartz keeps running the job, the workers keep running, and the mail server
\* takes a deliverable mail that is offered to it again and again.
Fairness ==
  /\ WF_vars(\E q \in QuartzThreads : Tick(q))
  /\ \A m \in Mails, s \in Slots : WF_vars(Run(m, s))
  /\ \A m \in Mails : SF_vars(\E s \in Slots : SendOk(m, s))
FairSpec == Spec /\ Fairness
-----------------------------------------------------------------------------
\* The type invariant: stages, numbers, workers and counters keep their domains.
TypeOK ==
  /\ today \in 0..MaxDay
  /\ enabled \in {"Y", "N"} /\ seen \in [QuartzThreads -> {"Y", "N", "unread"}]
  /\ stage \in [Mails -> Stage] /\ mailId \in [Mails -> Id]
  /\ worker \in [Mails -> [Slots -> Worker]]
  /\ delivered \in [Mails -> Nat] /\ contended \subseteq Mails
  /\ overlaps \in Nat /\ faults \in Nat /\ crashes \in Nat /\ toggles \in Nat

\* A notification loses its number to another row only when two producers
\* overlapped between reading the highest number and saving.
NoneClashAlone == \A m \in Mails : stage[m] = "clashed" => m \in contended

\* More than one copy of a mail goes out only for a reason: a run of the job
\* that overtook the workers of the run before, a send whose answer was lost, a
\* failed update of the row, or a crash; and each of these accounts for one copy.
CopiesAccounted ==
  \A m \in Mails : delivered[m] <= 1 + overlaps + faults + crashes

\* Workers exist only for rows that were saved, a worker that is about to settle
\* its row has sent a copy, and a settled row has been sent.
WorkersSound ==
  \A m \in Mails :
    /\ Busy(m) \/ delivered[m] > 0 => stage[m] \in {"unsent", "sent", "gone"}
    /\ (\E s \in Slots : worker[m][s].pc = "save") => delivered[m] > 0
    /\ stage[m] \in {"sent", "gone"} => delivered[m] > 0

Status(m) ==
  CASE stage[m] \in {"new", "numbered"}    -> "new"
    [] stage[m] \in {"clashed", "dropped"} -> "lost"
    [] stage[m] = "unsent"                 -> IF delivered[m] = 0 THEN "queued" ELSE "delivered"
    [] stage[m] \in {"sent", "gone"}       -> "settled"

\* The queue implements the outbox: no row leaves the backlog, by deletion or by
\* its flag, before a copy of the mail was sent, whatever workers overlap, calls
\* fail or servers die.
Outbox == INSTANCE MailOutbox WITH status <- [m \in Mails |-> Status(m)]
ImplementsOutbox == Outbox!Spec

SwitchedOff == enabled = "N" \/ \E q \in QuartzThreads : seen[q] = "N"
Overtaken(m) == Month(m) # MonthOf[today] \/ Cardinality(Backlog) > PageSize

\* A deliverable mail in the queue is sent, unless the mail switch is or was
\* off, its month passes first or the backlog outgrows a page.
IsDelivered ==
  \A m \in Mails \ Undeliverable :
    stage[m] = "unsent" ~> delivered[m] > 0 \/ SwitchedOff \/ Overtaken(m)

\* "mail sender is disable. please modify config CNF/CNF_CONF002": once that
\* setting is on for good, mails are sent.
SwitchTakesEffect ==
  <>[](enabled = "Y") =>
    \A m \in Mails \ Undeliverable :
      stage[m] = "unsent" ~> delivered[m] > 0 \/ Overtaken(m)
=============================================================================
