-------------------------- MODULE MailQueueProofs ---------------------------
(***************************************************************************)
(* The mail queue, for any mails, bounds and calendar: type correctness,   *)
(* soundness of the workers, that the queue implements the outbox, that a  *)
(* producer alone keeps its number, and that every copy is accounted for.  *)
(***************************************************************************)
EXTENDS MailQueue, FiniteSetTheorems, TLAPS

\* The queue's values stay in their domains.
LEMMA TypeInit == Init => TypeOK
BY ConstantsAssumption DEF Init, TypeOK, Stage, Id, Worker, Idle, ConstantsAssumption

\* Producers, workers, the job and its surroundings keep the domains.
LEMMA TypeNext == TypeOK /\ [Next]_vars => TypeOK'
<1> USE ConstantsAssumption DEF TypeOK, ConstantsAssumption
<1> SUFFICES ASSUME TypeOK, [Next]_vars PROVE TypeOK' OBVIOUS
<1>1. ASSUME NEW m \in Mails, Number(m) PROVE TypeOK'
  <2>1. stage' \in [Mails -> Stage] BY <1>1 DEF Number, Stage
  <2>2. mailId' \in [Mails -> Id]
    <3>1. PICK n \in 0..MaxSeq :
            mailId' = mailId \/ mailId' = [mailId EXCEPT ![m] = [day |-> today, seq |-> n + 1]]
      BY <1>1 DEF Number
    <3>2. [day |-> today, seq |-> n + 1] \in Id BY DEF Id
    <3> QED BY <3>1, <3>2
  <2>3. contended' \subseteq Mails BY <1>1 DEF Number
  <2> QED BY <2>1, <2>2, <2>3, <1>1 DEF Number, counters
<1>2. ASSUME NEW m \in Mails, Save(m) PROVE TypeOK'
  <2>1. stage' \in [Mails -> Stage] BY <1>2 DEF Save, Stage
  <2> QED BY <2>1, <1>2 DEF Save, counters
<1>3. ASSUME NEW q \in QuartzThreads, Tick(q) PROVE TypeOK'
  <2>1. seen' \in [QuartzThreads -> {"Y", "N", "unread"}] BY <1>3 DEF Tick, View
  <2>2. worker' \in [Mails -> [Slots -> Worker]] /\ overlaps' \in Nat
    <3>1. CASE View(q) = "Y"
      <4>1. PICK page \in Pages : StartWorkers(page) BY <1>3, <3>1 DEF Tick
      <4>2. page \subseteq Mails BY DEF Pages, Backlog
      <4>3. [pc |-> "send", left |-> Rety] \in Worker BY DEF Worker
      <4> QED BY <4>1, <4>2, <4>3 DEF StartWorkers
    <3>2. CASE View(q) # "Y" BY <1>3, <3>2 DEF Tick
    <3> QED BY <3>1, <3>2
  <2> QED BY <2>1, <2>2, <1>3 DEF Tick
<1>4. ASSUME NEW m \in Mails, NEW s \in Slots, Run(m, s) PROVE TypeOK'
  <2>1. PICK w : Become(m, s, w) /\ w \in Worker
    <3>1. worker[m][s] \in Worker OBVIOUS
    <3>2. CASE SendOk(m, s)
      <4>1. worker[m][s] \in [pc : {"send", "save"}, left : 1..Rety]
        BY <3>1, <3>2 DEF SendOk, Worker, Idle
      <4>2. [worker[m][s] EXCEPT !.pc = "save"] \in Worker BY <4>1 DEF Worker
      <4> QED BY <4>2, <3>2 DEF SendOk
    <3>3. CASE SendFails(m, s) \/ ReplyLost(m, s)
      <4>1. (IF worker[m][s].left = 1 THEN Idle ELSE [worker[m][s] EXCEPT !.left = @ - 1]) \in Worker
        BY <3>1, <3>3 DEF SendFails, ReplyLost, TryAgain, Worker, Idle
      <4> QED BY <4>1, <3>3 DEF SendFails, ReplyLost, TryAgain
    <3>4. CASE Settle(m, s) \/ SettleFails(m, s) BY <3>4 DEF Settle, SettleFails, Worker
    <3> QED BY <1>4, <3>2, <3>3, <3>4 DEF Run
  <2>2. worker' \in [Mails -> [Slots -> Worker]] BY <2>1 DEF Become
  <2>3. stage' \in [Mails -> Stage]
    BY <1>4 DEF Run, SendOk, SendFails, ReplyLost, TryAgain, Settle, SettleFails, Stage
  <2>4. delivered' \in [Mails -> Nat]
    <3>1. CASE SendOk(m, s) \/ ReplyLost(m, s)
      <4>1. delivered' = [delivered EXCEPT ![m] = @ + 1]
        BY <3>1 DEF SendOk, ReplyLost, TryAgain, Become
      <4> QED BY <4>1
    <3>2. CASE SendFails(m, s) \/ Settle(m, s) \/ SettleFails(m, s)
      BY <3>2 DEF SendFails, Settle, SettleFails
    <3> QED BY <1>4, <3>1, <3>2 DEF Run
  <2>5. overlaps' \in Nat /\ faults' \in Nat /\ crashes' \in Nat /\ toggles' \in Nat
    <3>1. CASE SendOk(m, s) \/ SendFails(m, s) \/ Settle(m, s)
      BY <3>1 DEF SendOk, SendFails, Settle, counters
    <3>2. CASE ReplyLost(m, s) BY <3>2 DEF ReplyLost
    <3>3. CASE SettleFails(m, s) BY <3>3 DEF SettleFails
    <3> QED BY <1>4, <3>1, <3>2, <3>3 DEF Run
  <2>6. UNCHANGED <<today, enabled, seen, mailId, contended>>
    BY <1>4 DEF Run, SendOk, SendFails, ReplyLost, Settle, SettleFails
  <2> QED BY <2>2, <2>3, <2>4, <2>5, <2>6
<1>5. CASE Toggle BY <1>5 DEF Toggle
<1>6. CASE NextDay BY <1>6 DEF NextDay, counters
<1>7. CASE Crash
  <2>1. stage' \in [Mails -> Stage] BY <1>7 DEF Crash, Stage
  <2>2. worker' \in [Mails -> [Slots -> Worker]] BY <1>7 DEF Crash, Worker, Idle
  <2> QED BY <2>1, <2>2, <1>7 DEF Crash
<1>8. CASE UNCHANGED vars BY <1>8 DEF vars, counters
<1> QED BY <1>1, <1>2, <1>3, <1>4, <1>5, <1>6, <1>7, <1>8 DEF Next

\* Stages, numbers, workers and counters keep their domains, whatever the mails,
\* the calendar and the bounds are.
THEOREM TypeCorrect == Spec => []TypeOK
BY TypeInit, TypeNext, PTL DEF Spec
-----------------------------------------------------------------------------
\* At first there are no workers.
LEMMA WorkersInit == Init => WorkersSound
BY DEF Init, WorkersSound, Busy, Idle

\* A worker is started on a saved row and reaches its save step by sending.
LEMMA WorkersNext == TypeOK /\ WorkersSound /\ [Next]_vars => WorkersSound'
<1> USE DEF WorkersSound, Busy, TypeOK
<1> SUFFICES ASSUME TypeOK, WorkersSound, [Next]_vars PROVE WorkersSound' OBVIOUS
<1>1. ASSUME NEW m \in Mails, Number(m) PROVE WorkersSound' BY <1>1 DEF Number
<1>2. ASSUME NEW m \in Mails, Save(m) PROVE WorkersSound' BY <1>2 DEF Save
<1>3. ASSUME NEW q \in QuartzThreads, Tick(q) PROVE WorkersSound'
  <2>1. CASE View(q) = "Y"
    <3>1. PICK page \in Pages : StartWorkers(page) BY <1>3, <2>1 DEF Tick
    <3>2. \A m \in page : m \in Mails /\ stage[m] = "unsent" BY DEF Pages, Backlog
    <3>3. PICK slot \in [page -> Slots] :
            worker' = [m \in Mails |-> IF m \in page
              THEN [worker[m] EXCEPT ![slot[m]] = [pc |-> "send", left |-> Rety]]
              ELSE worker[m]]
      BY <3>1 DEF StartWorkers
    <3>4. \A m \in Mails, s \in Slots :
            \/ worker'[m][s] = worker[m][s]
            \/ m \in page /\ worker'[m][s].pc = "send"
      BY <3>3
    <3> QED BY <1>3, <3>2, <3>4 DEF Tick
  <2>2. CASE View(q) # "Y" BY <1>3, <2>2 DEF Tick
  <2> QED BY <2>1, <2>2
<1>4. ASSUME NEW m \in Mails, NEW s \in Slots, SendOk(m, s) PROVE WorkersSound'
  BY <1>4 DEF SendOk, Become
<1>5. ASSUME NEW m \in Mails, NEW s \in Slots, SendFails(m, s) PROVE WorkersSound'
  BY <1>5 DEF SendFails, TryAgain, Become, Idle
<1>5a. ASSUME NEW m \in Mails, NEW s \in Slots, ReplyLost(m, s) PROVE WorkersSound'
  BY <1>5a DEF ReplyLost, TryAgain, Become, Idle
<1>6. ASSUME NEW m \in Mails, NEW s \in Slots, Settle(m, s) PROVE WorkersSound'
  BY <1>6 DEF Settle, Become, Idle
<1>7. ASSUME NEW m \in Mails, NEW s \in Slots, SettleFails(m, s) PROVE WorkersSound'
  BY <1>7 DEF SettleFails, Become, Idle
<1>8. CASE Toggle \/ NextDay BY <1>8 DEF Toggle, NextDay
<1>9. CASE Crash BY <1>9 DEF Crash, Idle
<1>10. CASE UNCHANGED vars BY <1>10 DEF vars
<1> QED BY <1>1, <1>2, <1>3, <1>4, <1>5, <1>5a, <1>6, <1>7, <1>8, <1>9, <1>10 DEF Next, Run

\* A worker works on a saved row, a worker about to settle its row has sent a
\* copy of the mail, and a settled row has been sent.
THEOREM WorkerSoundness == Spec => []WorkersSound
BY TypeCorrect, WorkersInit, WorkersNext, PTL DEF Spec
-----------------------------------------------------------------------------
\* An empty queue is an empty outbox.
LEMMA OutboxInit == Init => Outbox!Init
BY DEF Init, Outbox!Init, Status

\* Every step of the queue is a step of the outbox or leaves it as it is.
LEMMA OutboxNext ==
  TypeOK /\ WorkersSound /\ [Next]_vars => [Outbox!Next]_([m \in Mails |-> Status(m)])
<1> DEFINE status == [m \in Mails |-> Status(m)]
<1> SUFFICES ASSUME TypeOK, WorkersSound, [Next]_vars
             PROVE Outbox!Next \/ status' = status
  OBVIOUS
<1> USE DEF TypeOK
<1>0. ASSUME stage' = stage, delivered' = delivered PROVE status' = status
  BY <1>0 DEF Status
<1>1. ASSUME NEW m \in Mails, delivered' = delivered, stage[m] \in {"new", "numbered"},
             stage' = [stage EXCEPT ![m] = "numbered"]
      PROVE status' = status
  <2>1. \A k \in Mails : Status(k)' = Status(k) BY <1>1 DEF Status
  <2> QED BY <2>1
<1>2. ASSUME NEW some \in SUBSET {k \in Mails : stage[k] \in {"new", "numbered"}},
             delivered' = delivered,
             \A k \in Mails : IF k \in some THEN stage'[k] \in {"clashed", "dropped"}
                                            ELSE stage'[k] = stage[k]
      PROVE Outbox!Next
  <2>1. ASSUME NEW k \in Mails PROVE Status(k)' = IF k \in some THEN "lost" ELSE Status(k)
    <3>1. CASE k \in some
      <4>1. stage'[k] \in {"clashed", "dropped"} BY <1>2, <3>1
      <4> QED BY <4>1, <3>1 DEF Status
    <3>2. CASE k \notin some
      <4>1. stage'[k] = stage[k] /\ delivered'[k] = delivered[k] BY <1>2, <3>2
      <4>2. Status(k)' = Status(k) BY <4>1 DEF Status
      <4> QED BY <4>2, <3>2
    <3> QED BY <3>1, <3>2
  <2>2. \A k \in some : Status(k) = "new" BY <1>2 DEF Status
  <2>3. some \in SUBSET {k \in Mails : status[k] = "new"} BY <2>2
  <2>4. status' = [k \in Mails |-> IF k \in some THEN "lost" ELSE status[k]] BY <2>1
  <2> QED BY <2>3, <2>4 DEF Outbox!Next, Outbox!DropSome
<1>3. ASSUME NEW m \in Mails, \A k \in Mails \ {m} : Status(k)' = Status(k),
             NEW from, NEW to, Status(m) = from, Status(m)' = to
      PROVE Outbox!Become(m, from, to)
  <2>1. status' = [status EXCEPT ![m] = to] BY <1>3
  <2> QED BY <1>3, <2>1 DEF Outbox!Become
<1>4. ASSUME NEW m \in Mails, Number(m) PROVE Outbox!Next \/ status' = status
  <2>1. delivered' = delivered /\ stage[m] = "new" BY <1>4 DEF Number
  <2>2. CASE stage' = [stage EXCEPT ![m] = "numbered"] BY <2>1, <2>2, <1>1
  <2>3. CASE stage' = [stage EXCEPT ![m] = "dropped"]
    <3>1. \A k \in Mails : IF k \in {m} THEN stage'[k] \in {"clashed", "dropped"}
                                         ELSE stage'[k] = stage[k]
      BY <2>3
    <3> QED BY <3>1, <2>1, <1>2
  <2> QED BY <1>4, <2>2, <2>3 DEF Number
<1>5. ASSUME NEW m \in Mails, Save(m) PROVE Outbox!Next
  <2>1. delivered' = delivered /\ stage[m] = "numbered" BY <1>5 DEF Save
  <2>2. CASE stage' = [stage EXCEPT ![m] = "clashed"]
    <3>1. \A k \in Mails : IF k \in {m} THEN stage'[k] \in {"clashed", "dropped"}
                                         ELSE stage'[k] = stage[k]
      BY <2>2
    <3> QED BY <3>1, <2>1, <1>2
  <2>3. CASE stage' = [stage EXCEPT ![m] = "unsent"]
    <3>1. \A k \in Mails \ {m} : Status(k)' = Status(k) BY <2>1, <2>3 DEF Status
    <3>2. delivered[m] = 0 BY <2>1 DEF WorkersSound
    <3>3. Status(m) = "new" /\ Status(m)' = "queued" BY <2>1, <2>3, <3>2 DEF Status
    <3> QED BY <3>1, <3>3, <1>3 DEF Outbox!Next, Outbox!Accept
  <2> QED BY <1>5, <2>2, <2>3 DEF Save
<1>6. ASSUME NEW q \in QuartzThreads, Tick(q) PROVE status' = status
  BY <1>6, <1>0 DEF Tick
<1>7. ASSUME NEW m \in Mails, NEW s \in Slots, SendOk(m, s) \/ ReplyLost(m, s)
      PROVE Outbox!Next \/ status' = status
  <2>1. stage' = stage /\ delivered' = [delivered EXCEPT ![m] = @ + 1]
    BY <1>7 DEF SendOk, ReplyLost
  <2>2. stage[m] \in {"unsent", "sent", "gone"}
    BY <1>7 DEF SendOk, ReplyLost, WorkersSound, Busy
  <2>3. \A k \in Mails \ {m} : Status(k)' = Status(k) BY <2>1 DEF Status
  <2>4. CASE stage[m] = "unsent" /\ delivered[m] = 0
    <3>1. Status(m) = "queued" /\ Status(m)' = "delivered" BY <2>1, <2>4 DEF Status
    <3> QED BY <3>1, <2>3, <1>3 DEF Outbox!Next, Outbox!Deliver
  <2>5. CASE ~(stage[m] = "unsent" /\ delivered[m] = 0)
    <3>1. Status(m)' = Status(m) BY <2>1, <2>2, <2>5 DEF Status
    <3> QED BY <3>1, <2>3
  <2> QED BY <2>4, <2>5
<1>8. ASSUME NEW m \in Mails, NEW s \in Slots, SendFails(m, s) \/ SettleFails(m, s)
      PROVE status' = status
  BY <1>8, <1>0 DEF SendFails, ReplyLost, TryAgain, SettleFails
<1>9. ASSUME NEW m \in Mails, NEW s \in Slots, Settle(m, s)
      PROVE Outbox!Next \/ status' = status
  <2>1. delivered[m] > 0 /\ delivered' = delivered BY <1>9 DEF Settle, WorkersSound
  <2>2. CASE stage[m] = "unsent"
    <3>1. PICK x \in {"sent", "gone"} : stage' = [stage EXCEPT ![m] = x]
      BY <1>9, <2>2 DEF Settle
    <3>2. \A k \in Mails \ {m} : Status(k)' = Status(k) BY <2>1, <3>1 DEF Status
    <3>3. Status(m) = "delivered" /\ Status(m)' = "settled" BY <2>1, <2>2, <3>1 DEF Status
    <3> QED BY <3>2, <3>3, <1>3 DEF Outbox!Next, Outbox!Settle
  <2>3. CASE stage[m] # "unsent"
    <3>1. stage' = stage BY <1>9, <2>3 DEF Settle
    <3> QED BY <3>1, <2>1, <1>0
  <2> QED BY <2>2, <2>3
<1>10. CASE Toggle \/ NextDay BY <1>10, <1>0 DEF Toggle, NextDay
<1>11. CASE Crash
  <2> DEFINE some == {k \in Mails : stage[k] = "numbered"}
  <2>1. \A k \in Mails : IF k \in some THEN stage'[k] \in {"clashed", "dropped"}
                                        ELSE stage'[k] = stage[k]
    BY <1>11 DEF Crash
  <2>2. some \in SUBSET {k \in Mails : stage[k] \in {"new", "numbered"}} OBVIOUS
  <2>3. delivered' = delivered BY <1>11 DEF Crash
  <2> HIDE DEF some
  <2> QED BY <2>1, <2>2, <2>3, <1>2
<1>12. CASE UNCHANGED vars BY <1>12, <1>0 DEF vars
<1> QED BY <1>4, <1>5, <1>6, <1>7, <1>8, <1>9, <1>10, <1>11, <1>12 DEF Next, Run

\* The mail queue implements the outbox: whatever workers overlap, calls fail or
\* servers die, a mail leaves the queue only after a copy of it was sent.
THEOREM QueueImplementsOutbox == Spec => ImplementsOutbox
<1>1. Init => Outbox!Init BY OutboxInit
<1>2. TypeOK /\ WorkersSound /\ [Next]_vars => [Outbox!Next]_([m \in Mails |-> Status(m)])
  BY OutboxNext
<1> QED BY <1>1, <1>2, TypeCorrect, WorkerSoundness, PTL DEF Spec, ImplementsOutbox, Outbox!Spec
-----------------------------------------------------------------------------
\* A mail numbered by a producer that met no other is the only one on its way to
\* the table, and its number is still free there.
LoneNumbers ==
  \A m \in Mails : stage[m] = "numbered" /\ m \notin contended =>
    /\ \A k \in Mails : stage[k] = "numbered" => k = m
    /\ \A k \in Mails : HasRow(k) => mailId[k] # mailId[m]

NumberInv == NoneClashAlone /\ LoneNumbers

\* Rows come from numbered mails only, so a number that is free stays free until
\* another mail has been numbered.
LEMMA NumbersNext == TypeOK /\ NumberInv /\ [Next]_vars => NumberInv'
<1> USE DEF NumberInv, NoneClashAlone, LoneNumbers, HasRow, TypeOK
<1> SUFFICES ASSUME TypeOK, NumberInv, [Next]_vars PROVE NumberInv' OBVIOUS
<1>1. ASSUME NEW m \in Mails, Number(m) PROVE NumberInv'
  <2>1. PICK n \in 0..MaxSeq :
          /\ Highest(today, n)
          /\ \/ stage' = [stage EXCEPT ![m] = "dropped"] /\ UNCHANGED <<mailId, contended>>
             \/ /\ stage' = [stage EXCEPT ![m] = "numbered"]
                /\ mailId' = [mailId EXCEPT ![m] = [day |-> today, seq |-> n + 1]]
                /\ LET others == {k \in Mails : stage[k] = "numbered"}
                   IN  contended' = contended \cup IF others = {} THEN {} ELSE others \cup {m}
    BY <1>1 DEF Number
  <2>2. stage[m] = "new" BY <1>1 DEF Number
  <2>3. \A k \in Mails : HasRow(k) => mailId[k] # [day |-> today, seq |-> n + 1]
    <3> SUFFICES ASSUME NEW k \in Mails, HasRow(k), mailId[k].day = today
                 PROVE  mailId[k].seq # n + 1
      OBVIOUS
    <3>1. mailId[k].seq <= n BY <2>1 DEF Highest
    <3>2. mailId[k].seq \in Nat /\ n \in Nat BY ConstantsAssumption DEF ConstantsAssumption, Id
    <3> QED BY <3>1, <3>2
  <2> QED BY <2>1, <2>2, <2>3
<1>2. ASSUME NEW m \in Mails, Save(m) PROVE NumberInv' BY <1>2 DEF Save
<1>3. ASSUME NEW q \in QuartzThreads, Tick(q) PROVE NumberInv' BY <1>3 DEF Tick
<1>4. ASSUME NEW m \in Mails, NEW s \in Slots, Run(m, s) PROVE NumberInv'
  <2>1. /\ UNCHANGED <<mailId, contended>>
        /\ \/ UNCHANGED stage
           \/ stage[m] = "unsent" /\ \E x \in {"sent", "gone"} : stage' = [stage EXCEPT ![m] = x]
    BY <1>4 DEF Run, SendOk, SendFails, ReplyLost, TryAgain, Settle, SettleFails
  <2> QED BY <2>1
<1>5. CASE Toggle \/ NextDay BY <1>5 DEF Toggle, NextDay
<1>6. CASE Crash BY <1>6 DEF Crash
<1>7. CASE UNCHANGED vars BY <1>7 DEF vars
<1> QED BY <1>1, <1>2, <1>3, <1>4, <1>5, <1>6, <1>7 DEF Next

\* A notification that loses its number had met another producer between the
\* reading of the highest number and its own insert.
THEOREM LoneProducers == Spec => []NoneClashAlone
<1>1. Init => NumberInv BY DEF Init, NumberInv, NoneClashAlone, LoneNumbers
<1>2. NumberInv => NoneClashAlone BY DEF NumberInv
<1> QED BY <1>1, <1>2, NumbersNext, TypeCorrect, PTL DEF Spec
-----------------------------------------------------------------------------
Sending(m) == {s \in Slots : worker[m][s].pc = "send"}
Reasons == overlaps + faults + crashes

\* Each worker that may still send is accounted for like a copy that was sent; a
\* mail that waits for its next worker leaves room for that worker's copy.
CopiesBudgeted ==
  \A m \in Mails :
    IF stage[m] = "unsent" /\ ~Busy(m)
    THEN delivered[m] <= Reasons
    ELSE delivered[m] + Cardinality(Sending(m)) <= 1 + Reasons

\* The workers that may still send are finitely many.
LEMMA SendingFinite ==
  ASSUME NEW m
  PROVE  /\ IsFiniteSet(Sending(m)) /\ Cardinality(Sending(m)) \in Nat
         /\ Sending(m) = {} => Cardinality(Sending(m)) = 0
         /\ \A s \in Sending(m) : Cardinality(Sending(m) \ {s}) = Cardinality(Sending(m)) - 1
         /\ \A s : s \notin Sending(m) =>
              Cardinality(Sending(m) \cup {s}) = Cardinality(Sending(m)) + 1
<1>1. IsFiniteSet(Sending(m))
  BY ConstantsAssumption, FS_Subset DEF ConstantsAssumption, Sending
<1> QED BY <1>1, FS_CardinalityType, FS_EmptySet, FS_AddElement, FS_RemoveElement

\* Starting workers takes a reason for a mail that is still being worked on, and
\* the room left for it for one that waits.
LEMMA CopiesTick ==
  ASSUME TypeOK, CopiesBudgeted, NEW q \in QuartzThreads, Tick(q)
  PROVE  CopiesBudgeted'
<1> USE DEF TypeOK, Reasons
<1>1. CASE View(q) = "Y"
  <2>1. PICK page \in Pages : StartWorkers(page) BY <1>1 DEF Tick
  <2>2. PICK slot \in [page -> Slots] :
          /\ \A m \in page : worker[m][slot[m]].pc = "idle"
          /\ worker' = [m \in Mails |-> IF m \in page
               THEN [worker[m] EXCEPT ![slot[m]] = [pc |-> "send", left |-> Rety]]
               ELSE worker[m]]
    BY <2>1 DEF StartWorkers
  <2>3. /\ overlaps' \in Nat /\ overlaps' >= overlaps
        /\ \A m \in page : Busy(m) => overlaps' = overlaps + 1
    BY <2>1 DEF StartWorkers
  <2>4. \A m \in page : stage[m] = "unsent" BY DEF Pages, Backlog
  <2>5. UNCHANGED <<stage, delivered, faults, crashes>> BY <1>1 DEF Tick
  <2> SUFFICES ASSUME NEW m \in Mails
               PROVE  IF stage[m] = "unsent" /\ ~Busy(m)'
                      THEN delivered[m] <= Reasons'
                      ELSE delivered[m] + Cardinality(Sending(m)') <= 1 + Reasons'
    BY <2>5 DEF CopiesBudgeted
  <2>6. CASE m \notin page
    <3>1. worker'[m] = worker[m] BY <2>2, <2>6
    <3>2. Sending(m)' = Sending(m) /\ Busy(m)' = Busy(m) BY <3>1 DEF Sending, Busy
    <3> QED BY <2>3, <2>5, <3>2, SendingFinite DEF CopiesBudgeted
  <2>7. CASE m \in page
    <3>1. worker'[m] = [worker[m] EXCEPT ![slot[m]] = [pc |-> "send", left |-> Rety]]
      BY <2>2, <2>7
    <3>2. slot[m] \in Slots /\ slot[m] \notin Sending(m) BY <2>2, <2>7 DEF Sending
    <3>3. Sending(m)' = Sending(m) \cup {slot[m]} BY <3>1, <3>2 DEF Sending
    <3>4. Busy(m)' BY <3>1, <3>2 DEF Busy
    <3>5. Cardinality(Sending(m)') = Cardinality(Sending(m)) + 1
      BY <3>2, <3>3, SendingFinite
    <3>6. ~Busy(m) => Cardinality(Sending(m)) = 0
      BY SendingFinite DEF Busy, Sending
    <3> QED BY <2>3, <2>4, <2>5, <2>7, <3>4, <3>5, <3>6, SendingFinite DEF CopiesBudgeted
  <2> QED BY <2>6, <2>7
<1>2. CASE View(q) # "Y"
  <2>1. UNCHANGED <<stage, delivered, worker, overlaps, faults, crashes>>
    BY <1>2 DEF Tick
  <2> QED BY <2>1 DEF CopiesBudgeted, Busy, Sending
<1> QED BY <1>1, <1>2

\* A worker that sends turns its share into a copy; one that gives up returns it.
LEMMA CopiesRun ==
  ASSUME TypeOK, CopiesBudgeted, WorkersSound,
         NEW m \in Mails, NEW s \in Slots, Run(m, s)
  PROVE  CopiesBudgeted'
<1> USE DEF TypeOK, Reasons
<1> SUFFICES ASSUME NEW k \in Mails
             PROVE  IF stage'[k] = "unsent" /\ ~Busy(k)'
                    THEN delivered'[k] <= Reasons'
                    ELSE delivered'[k] + Cardinality(Sending(k)') <= 1 + Reasons'
  BY DEF CopiesBudgeted
<1>1. /\ Reasons' \in Nat /\ Reasons' >= Reasons
      /\ \A j \in Mails \ {m} : worker'[j] = worker[j]
  <2>1. CASE SendOk(m, s) BY <2>1 DEF SendOk, Become, counters
  <2>2. CASE SendFails(m, s) BY <2>2 DEF SendFails, TryAgain, Become, counters
  <2>2a. CASE ReplyLost(m, s) BY <2>2a DEF ReplyLost, TryAgain, Become
  <2>3. CASE Settle(m, s) BY <2>3 DEF Settle, Become, counters
  <2>4. CASE SettleFails(m, s) BY <2>4 DEF SettleFails, Become
  <2> QED BY <2>1, <2>2, <2>2a, <2>3, <2>4 DEF Run
<1>2. CASE k # m
  <2>1. worker'[k] = worker[k] BY <1>1, <1>2
  <2>2. Sending(k)' = Sending(k) /\ Busy(k)' = Busy(k) BY <2>1 DEF Sending, Busy
  <2>3. delivered'[k] = delivered[k] /\ stage'[k] = stage[k]
    BY <1>2 DEF Run, SendOk, SendFails, ReplyLost, TryAgain, Settle, SettleFails
  <2> QED BY <1>1, <2>2, <2>3, SendingFinite DEF CopiesBudgeted
<1>3. CASE k = m
  <2> USE <1>3
  <2>1. worker[m][s].pc \in {"send", "save"}
    BY DEF Run, SendOk, SendFails, ReplyLost, TryAgain, Settle, SettleFails
  <2>2. Busy(m) BY <2>1 DEF Busy
  <2>3. delivered[m] + Cardinality(Sending(m)) <= 1 + Reasons
    BY <2>2 DEF CopiesBudgeted
  <2>4. Cardinality(Sending(m)) \in Nat /\ Reasons \in Nat BY SendingFinite
  <2>5. CASE SendOk(m, s)
    <3>1. Sending(m)' = Sending(m) \ {s} /\ s \in Sending(m) /\ Busy(m)'
      BY <2>5 DEF SendOk, Become, Sending, Busy
    <3>2. Cardinality(Sending(m)') = Cardinality(Sending(m)) - 1 BY <3>1, SendingFinite
    <3>3. delivered'[m] = delivered[m] + 1 BY <2>5 DEF SendOk
    <3> QED BY <1>1, <2>3, <2>4, <3>1, <3>2, <3>3
  <2>6. CASE SendFails(m, s) \/ ReplyLost(m, s)
    <3>0. \/ delivered'[m] = delivered[m]
          \/ delivered'[m] = delivered[m] + 1 /\ Reasons' = Reasons + 1
      <4>1. CASE SendFails(m, s) BY <4>1 DEF SendFails
      <4>2. CASE ReplyLost(m, s)
        <5>1. delivered' = [delivered EXCEPT ![m] = @ + 1] /\ faults' = faults + 1
          BY <4>2 DEF ReplyLost
        <5>2. UNCHANGED <<overlaps, crashes>> BY <4>2 DEF ReplyLost
        <5> QED BY <5>1, <5>2
      <4> QED BY <2>6, <4>1, <4>2
    <3>0a. worker' = [worker EXCEPT ![m][s] =
             IF worker[m][s].left = 1 THEN Idle ELSE [worker[m][s] EXCEPT !.left = @ - 1]]
      BY <2>6 DEF SendFails, ReplyLost, TryAgain, Become
    <3>0b. worker[m][s].pc = "send" BY <2>6 DEF SendFails, ReplyLost
    <3>1. CASE worker[m][s].left = 1
      <4>1. Sending(m)' = Sending(m) \ {s} /\ s \in Sending(m)
        BY <3>0a, <3>0b, <3>1 DEF Sending, Idle
      <4>2. Cardinality(Sending(m)') = Cardinality(Sending(m)) - 1 BY <4>1, SendingFinite
      <4>3. Cardinality(Sending(m)') \in Nat BY <4>1, SendingFinite, FS_RemoveElement, FS_CardinalityType
      <4> QED BY <1>1, <2>3, <2>4, <3>0, <4>2, <4>3
    <3>2. CASE worker[m][s].left # 1
      <4>1. Sending(m)' = Sending(m) /\ Busy(m)'
        BY <3>0a, <3>0b, <3>2 DEF Sending, Busy
      <4> QED BY <1>1, <2>3, <2>4, <3>0, <4>1
    <3> QED BY <3>1, <3>2
  <2>7. CASE Settle(m, s)
    <3>1. Sending(m)' = Sending(m) BY <2>7 DEF Settle, Become, Sending, Idle
    <3>2. delivered'[m] = delivered[m] /\ stage'[m] # "unsent" BY <2>7 DEF Settle
    <3> QED BY <1>1, <2>3, <2>4, <3>1, <3>2
  <2>8. CASE SettleFails(m, s)
    <3>1. Sending(m)' = Sending(m) BY <2>8 DEF SettleFails, Become, Sending, Idle
    <3>2. delivered'[m] = delivered[m] /\ Reasons' = Reasons + 1 BY <2>8 DEF SettleFails
    <3> QED BY <1>1, <2>3, <2>4, <3>1, <3>2
  <2> QED BY <2>5, <2>6, <2>7, <2>8 DEF Run
<1> QED BY <1>2, <1>3

\* No step sends a copy that is not accounted for.
LEMMA CopiesNext ==
  TypeOK /\ WorkersSound /\ CopiesBudgeted /\ [Next]_vars => CopiesBudgeted'
<1> USE DEF TypeOK, Reasons
<1> SUFFICES ASSUME TypeOK, WorkersSound, CopiesBudgeted, [Next]_vars PROVE CopiesBudgeted'
  OBVIOUS
<1>1. ASSUME NEW m \in Mails, Number(m) \/ Save(m) PROVE CopiesBudgeted'
  <2>1. /\ UNCHANGED <<worker, delivered, counters>>
        /\ stage[m] \in {"new", "numbered"}
        /\ \E x \in Stage : stage' = [stage EXCEPT ![m] = x]
    BY <1>1 DEF Number, Save, Stage
  <2>2. ~Busy(m) /\ delivered[m] = 0 BY <2>1 DEF WorkersSound
  <2>3. Cardinality(Sending(m)) = 0 BY <2>2, SendingFinite DEF Busy, Sending
  <2>4. \A k \in Mails : Sending(k)' = Sending(k) /\ Busy(k)' = Busy(k)
    BY <2>1 DEF Sending, Busy
  <2> QED BY <2>1, <2>2, <2>3, <2>4 DEF CopiesBudgeted, counters
<1>2. ASSUME NEW q \in QuartzThreads, Tick(q) PROVE CopiesBudgeted' BY <1>2, CopiesTick
<1>3. ASSUME NEW m \in Mails, NEW s \in Slots, Run(m, s) PROVE CopiesBudgeted'
  BY <1>3, CopiesRun
<1>4. CASE Toggle \/ NextDay \/ UNCHANGED vars
  <2>1. UNCHANGED <<stage, worker, delivered, overlaps, faults, crashes>>
    BY <1>4 DEF Toggle, NextDay, vars, counters
  <2> QED BY <2>1 DEF CopiesBudgeted, Busy, Sending
<1>5. CASE Crash
  <2>1. \A m \in Mails : Sending(m)' = {} /\ ~Busy(m)'
    BY <1>5 DEF Crash, Sending, Busy, Idle
  <2>2. Reasons' = Reasons + 1 /\ delivered' = delivered BY <1>5 DEF Crash
  <2>3. \A m \in Mails : delivered[m] <= 1 + Reasons
    BY SendingFinite DEF CopiesBudgeted
  <2>4. Reasons' \in Nat BY <1>5 DEF Crash
  <2>5. \A m \in Mails : Cardinality(Sending(m)') = 0 BY <2>1, FS_EmptySet
  <2>6. \A m \in Mails : delivered'[m] \in Nat /\ delivered'[m] <= Reasons'
    BY <2>2, <2>3
  <2> HIDE DEF Reasons
  <2> QED BY <2>1, <2>4, <2>5, <2>6 DEF CopiesBudgeted
<1> QED BY <1>1, <1>2, <1>3, <1>4, <1>5 DEF Next

\* A mail is sent a second time only by a run of the job that overtakes its worker,
\* after a send whose answer was lost, after a failed update of its row or after a
\* crash, and once for each of these.
THEOREM CopiesAreAccounted == Spec => []CopiesAccounted
<1>1. Init => CopiesBudgeted
  <2>1. Init => \A m \in Mails : Sending(m) = {} BY DEF Init, Sending, Idle
  <2> QED BY <2>1, FS_EmptySet DEF Init, CopiesBudgeted, Reasons
<1>2. TypeOK /\ CopiesBudgeted => CopiesAccounted
  BY SendingFinite DEF TypeOK, CopiesBudgeted, CopiesAccounted, Reasons
<1> QED BY <1>1, <1>2, CopiesNext, TypeCorrect, WorkerSoundness, PTL DEF Spec
-----------------------------------------------------------------------------
(* A mail that was sent leaves the queue *)

AtSave(m, s) == worker[m][s].pc = "save"
Failed == faults > 0 \/ crashes > 0

\* A mail that was sent and is still in the queue is in the hands of the worker
\* that sent it, unless something has failed.
SentIsHeld ==
  \A m \in Mails :
    delivered[m] > 0 /\ stage[m] = "unsent" => Failed \/ \E s \in Slots : AtSave(m, s)

\* A worker that has sent its mail is moved by its own step and a crash only.
LEMMA SaveMoves ==
  ASSUME TypeOK, [Next]_vars, NEW m \in Mails, NEW s \in Slots, AtSave(m, s)
  PROVE  /\ AtSave(m, s)' \/ stage'[m] # "unsent" \/ Failed'
         /\ Run(m, s) => stage'[m] # "unsent" \/ Failed'
<1> USE DEF TypeOK, AtSave, Failed
<1>1. Run(m, s) => stage'[m] # "unsent" \/ Failed'
  <2>1. CASE Settle(m, s)
    BY <2>1 DEF Settle
  <2>2. CASE SettleFails(m, s)
    BY <2>2 DEF SettleFails
  <2> QED BY <2>1, <2>2 DEF Run, SendOk, SendFails, ReplyLost
<1>2. ASSUME NEW k \in Mails, NEW r \in Slots, Run(k, r), <<k, r>> # <<m, s>>
      PROVE  AtSave(m, s)'
  <2>1. worker'[m][s] = worker[m][s]
    BY <1>2 DEF Run, SendOk, SendFails, ReplyLost, TryAgain, Settle, SettleFails, Become
  <2> QED BY <2>1
<1>3. ASSUME NEW q \in QuartzThreads, Tick(q)
      PROVE  AtSave(m, s)'
  <2>1. CASE View(q) = "Y"
    <3>1. PICK page \in Pages : StartWorkers(page)
      BY <1>3, <2>1 DEF Tick
    <3>2. PICK slot \in [page -> Slots] :
            /\ \A k \in page : worker[k][slot[k]].pc = "idle"
            /\ worker' = [k \in Mails |-> IF k \in page
                 THEN [worker[k] EXCEPT ![slot[k]] = [pc |-> "send", left |-> Rety]]
                 ELSE worker[k]]
      BY <3>1 DEF StartWorkers
    <3>3. m \in page => slot[m] # s
      BY <3>2
    <3> QED BY <3>2, <3>3
  <2>2. CASE View(q) # "Y"
    BY <1>3, <2>2 DEF Tick
  <2> QED BY <2>1, <2>2
<1>4. CASE Crash
  BY <1>4 DEF Crash
<1>5. CASE worker' = worker
  BY <1>1, <1>5
<1>6. (\E k \in Mails : Number(k) \/ Save(k)) \/ Toggle \/ NextDay \/ UNCHANGED vars
        => worker' = worker
  BY DEF Number, Save, Toggle, NextDay, vars
<1>7. CASE \E k \in Mails, r \in Slots : Run(k, r)
  <2>1. PICK k \in Mails, r \in Slots : Run(k, r)
    BY <1>7
  <2> QED BY <1>1, <1>2, <2>1
<1> QED BY <1>1, <1>3, <1>4, <1>5, <1>6, <1>7 DEF Next

\* Only a send raises the count of copies, and only a save puts a mail in the queue.
LEMMA SentHeldAlways == Spec => []SentIsHeld
<1>1. Init => SentIsHeld
  BY DEF Init, SentIsHeld
<1>2. TypeOK /\ WorkersSound /\ SentIsHeld /\ [Next]_vars => SentIsHeld'
  <2> SUFFICES ASSUME TypeOK, WorkersSound, SentIsHeld, [Next]_vars, NEW m \in Mails,
                      delivered'[m] > 0, stage'[m] = "unsent", ~Failed'
               PROVE  \E s \in Slots : AtSave(m, s)'
    BY DEF SentIsHeld, Failed, AtSave
  <2>1. CASE delivered[m] > 0 /\ stage[m] = "unsent"
    <3>1. ~Failed
      <4>1. faults' >= faults /\ crashes' >= crashes
        <5>1. ASSUME NEW k \in Mails, NEW s \in Slots, Run(k, s) 
             PROVE faults' >= faults /\ crashes' = crashes
          BY <5>1 DEF Run, SendOk, SendFails, ReplyLost, TryAgain, Settle, SettleFails, counters, TypeOK
        <5>2. ASSUME NEW q \in QuartzThreads, Tick(q) PROVE UNCHANGED <<faults, crashes>>
          BY <5>2 DEF Tick
        <5>3. ASSUME NEW k \in Mails, Number(k) \/ Save(k) PROVE UNCHANGED <<faults, crashes>>
          BY <5>3 DEF Number, Save, counters
        <5>4. CASE Toggle \/ NextDay \/ Crash \/ UNCHANGED vars
          BY <5>4 DEF Toggle, NextDay, Crash, vars, counters, TypeOK
        <5> QED BY <5>1, <5>2, <5>3, <5>4 DEF Next, TypeOK
      <4>2. faults' \in Nat /\ crashes' \in Nat
        BY TypeNext DEF TypeOK
      <4> QED BY <4>1, <4>2 DEF Failed, TypeOK
    <3>2. PICK s \in Slots : AtSave(m, s)
      BY <2>1, <3>1 DEF SentIsHeld
    <3> QED BY <3>2, SaveMoves
  <2>2. CASE ~(delivered[m] > 0)
    <3>1. PICK k \in Mails, s \in Slots : SendOk(k, s)
      <4>1. ASSUME NEW k \in Mails, NEW s \in Slots, ReplyLost(k, s) PROVE FALSE
        BY <4>1 DEF ReplyLost, Failed, TypeOK
      <4> QED BY <2>2, <4>1 DEF Next, vars, Number, Save, Tick, Run, SendFails, Settle, SettleFails,
            Toggle, NextDay, Crash, TypeOK
    <3>2. k = m
      BY <2>2, <3>1 DEF SendOk, TypeOK
    <3> QED BY <3>1, <3>2 DEF SendOk, Become, AtSave, TypeOK
  <2>3. CASE delivered[m] > 0 /\ stage[m] # "unsent"
    <3>1. stage[m] \in {"sent", "gone"}
      BY <2>3 DEF WorkersSound
    <3>2. stage'[m] # "unsent"
      BY <3>1 DEF Next, vars, Number, Save, Tick, Run, SendOk, SendFails, ReplyLost, TryAgain,
         Settle, SettleFails, Toggle, NextDay, Crash, TypeOK
    <3> QED BY <3>2
  <2> QED BY <2>1, <2>2, <2>3
<1> QED BY <1>1, <1>2, TypeCorrect, WorkerSoundness, PTL DEF Spec

\* The fairness WF_vars(Run(m, s)) with its guard written out: a worker that is
\* not idle takes steps again and again.
Runs(m, s) == []<>(worker[m][s].pc = "idle") \/ []<><<Run(m, s)>>_vars

LEMMA FairWorkerRuns ==
  ASSUME NEW m \in Mails, NEW s \in Slots
  PROVE  WF_vars(Run(m, s)) /\ [](worker[m][s].pc = "idle" \/ ENABLED <<Run(m, s)>>_vars)
           => Runs(m, s)
BY PTL DEF Runs

LEMMA WorkerSettles ==
  ASSUME NEW m \in Mails, NEW s \in Slots
  PROVE  Spec /\ Runs(m, s) => (AtSave(m, s) ~> stage[m] # "unsent" \/ Failed)
<1> DEFINE Idling == worker[m][s].pc = "idle"
           Over == stage[m] # "unsent" \/ Failed
<1>1. TypeOK /\ AtSave(m, s) /\ [Next]_vars => AtSave(m, s)' \/ Over'
  BY SaveMoves
<1>2. TypeOK /\ AtSave(m, s) /\ [Next]_vars /\ <<Run(m, s)>>_vars => Over'
  BY SaveMoves
<1>3. AtSave(m, s) => ~Idling
  BY DEF AtSave
<1> HIDE DEF Idling, Over
<1>4. Spec /\ Runs(m, s) => (AtSave(m, s) ~> Over)
  <2>1. Runs(m, s) => []<>Idling \/ []<><<Run(m, s)>>_vars
    BY DEF Runs, Idling
  <2> QED BY <1>1, <1>2, <1>3, <2>1, TypeCorrect, PTL DEF Spec
<1> QED BY <1>4 DEF Over

\* A mail that was sent leaves the queue, flagged or deleted, however many workers
\* it has; it is sent over and over only after a lost answer, a failed update or a crash.
THEOREM SentMailsLeave ==
  Spec /\ (\A m \in Mails, s \in Slots : Runs(m, s))
    => \A m \in Mails : delivered[m] > 0 ~> stage[m] # "unsent" \/ Failed
<1> SUFFICES ASSUME NEW m \in Mails
             PROVE  Spec /\ (\A k \in Mails, s \in Slots : Runs(k, s))
                      => (delivered[m] > 0 ~> stage[m] # "unsent" \/ Failed)
  OBVIOUS
<1> DEFINE Sent == delivered[m] > 0
           Over == stage[m] # "unsent" \/ Failed
           Held == \E s \in Slots : AtSave(m, s)
<1>1. SentIsHeld /\ Sent => Held \/ Over
  BY DEF SentIsHeld
<1>2. \A s \in Slots : Spec /\ Runs(m, s) => [](AtSave(m, s) => <>Over)
  <2> SUFFICES ASSUME NEW s \in Slots
               PROVE  Spec /\ Runs(m, s) => [](AtSave(m, s) => <>Over)
    OBVIOUS
  <2> QED BY WorkerSettles, PTL
<1>3. Spec /\ (\A k \in Mails, s \in Slots : Runs(k, s))
        => \A s \in Slots : [](AtSave(m, s) => <>Over)
  <2>1. (\A k \in Mails, s \in Slots : Runs(k, s)) => \A s \in Slots : Runs(m, s)
    OBVIOUS
  <2> QED BY <1>2, <2>1
<1>4. (\A s \in Slots : [](AtSave(m, s) => <>Over))
        => [](\A s \in Slots : AtSave(m, s) => <>Over)
  OBVIOUS
<1>5. (\A s \in Slots : AtSave(m, s) => <>Over) => (Held => <>Over)
  OBVIOUS
<1> HIDE DEF Sent, Over, Held
<1>6. Spec /\ (\A k \in Mails, s \in Slots : Runs(k, s)) => (Sent ~> Over)
  BY <1>1, <1>3, <1>4, <1>5, SentHeldAlways, PTL
<1> QED BY <1>6 DEF Sent, Over
=============================================================================
