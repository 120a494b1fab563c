------------------------ MODULE ExpressionJobProofs ------------------------
(***************************************************************************)
(* Proofs about ExpressionJob, for any jobs, threads, forms and bounds.    *)
(***************************************************************************)
EXTENDS ExpressionJob, TLAPS

USE DEF Threads

\* An idle thread has a value of its type.
LEMMA IdleType == Idle \in Execution /\ Idle.pc = "idle"
BY DEF Idle, Execution, Pc, FinalStatus, LogStatus

\* Launching an entry of the list or a manual request keeps the types.
LEMMA LaunchType ==
  ASSUME TypeOK, NEW t \in Threads, NEW item \in Item, Launch(t, item)
  PROVE  /\ exec' \in [Threads -> Execution]
         /\ \A u \in Threads : exec'[u].pc # "idle" => exec'[u].item \in Item
<1>1. [Idle EXCEPT !.pc = "begin", !.item = item] \in Execution
  BY DEF Idle, Execution, Pc, FinalStatus, LogStatus
<1> QED BY <1>1 DEF TypeOK, Launch, Idle

\* So does setting the results of an execution.
LEMMA OutcomeType ==
  ASSUME TypeOK, NEW t \in Threads, exec[t].pc # "idle",
         NEW run \in FinalStatus, NEW log \in LogStatus,
         NEW ok \in BOOLEAN, NEW throws \in BOOLEAN, Outcome(t, run, log, ok, throws)
  PROVE  /\ exec' \in [Threads -> Execution]
         /\ \A u \in Threads : exec'[u].pc # "idle" => exec'[u].item \in Item
BY DEF TypeOK, Outcome, Execution, Pc

\* So does ending one.
LEMMA ReturnType ==
  ASSUME TypeOK, NEW t \in Threads, NEW throws \in BOOLEAN, Return(t, throws)
  PROVE  /\ exec' \in [Threads -> Execution]
         /\ \A u \in Threads : exec'[u].pc # "idle" => exec'[u].item \in Item
         /\ pass' \subseteq Item
<1>1. exec' \in [Threads -> Execution]
  BY IdleType DEF TypeOK, Return
<1> QED BY <1>1, IdleType DEF TypeOK, Return

\* So does moving to a later step.
LEMMA AdvanceType ==
  ASSUME TypeOK, NEW t \in Threads, exec[t].pc # "idle", NEW pc \in Pc,
         exec' = [exec EXCEPT ![t].pc = pc]
  PROVE  /\ exec' \in [Threads -> Execution]
         /\ \A u \in Threads : exec'[u].pc # "idle" => exec'[u].item \in Item
BY DEF TypeOK, Execution

\* The row an execution writes: its snapshot with another status.
LEMMA WrittenRow ==
  ASSUME TypeOK, NEW t \in Threads, exec[t].pc # "idle", NEW s \in RunStatus
  PROVE  /\ Job(t) \in Jobs /\ Snap(t) \in Row
         /\ [Snap(t) EXCEPT !.runStatus = s] \in Row
BY DEF TypeOK, Job, Snap, Item, Row

\* Every step of the scheduler, the executions, the administrators and the
\* server keeps the types.
LEMMA StepType ==
  ASSUME TypeOK, [Next]_vars
  PROVE  TypeOK'
<1> USE ConstantsAssumption
<1>1. CASE Fire
  <2>1. pass' \subseteq Item
    BY <1>1 DEF Fire, TypeOK, Due, Item
  <2> QED BY <1>1, <2>1 DEF Fire, TypeOK, rowVars, adminVars
<1>2. CASE Submit
  <2>1. PICK item \in pass : Launch(Scheduler, item) /\ pass' = pass \ {item}
    BY <1>2 DEF Submit
  <2>2. item \in Item BY DEF TypeOK
  <2> QED BY <1>2, <2>1, <2>2, LaunchType DEF Submit, TypeOK, rowVars, adminVars
<1>3. ASSUME NEW t \in ManualThreads, NEW j \in Jobs, Manual(t, j)
      PROVE  TypeOK'
  <2>1. [job |-> j, snap |-> row[j]] \in Item
    BY <1>3 DEF Manual, TypeOK, Item
  <2> QED BY <1>3, <2>1, LaunchType DEF Manual, TypeOK, rowVars, adminVars
<1>4. ASSUME NEW t \in Threads, Call(t)
      PROVE  TypeOK'
  <2>1. CASE Refuse(t)
    <3>1. /\ exec' \in [Threads -> Execution]
          /\ \A u \in Threads : exec'[u].pc # "idle" => exec'[u].item \in Item
      BY <2>1, OutcomeType DEF Refuse, FinalStatus, LogStatus
    <3> QED BY <2>1, <3>1 DEF Refuse, TypeOK, rowVars, adminVars
  <2>2. CASE Mark(t)
    <3>1. /\ exec' \in [Threads -> Execution]
          /\ \A u \in Threads : exec'[u].pc # "idle" => exec'[u].item \in Item
      BY <2>2, AdvanceType DEF Mark, Pc
    <3>2. row' \in [Jobs -> Row \cup {NoRow}]
      BY <2>2, WrittenRow DEF Mark, TypeOK, RunStatus
    <3> QED BY <2>2, <3>1, <3>2 DEF Mark, TypeOK, adminVars
  <2>3. CASE MarkFails(t)
    <3>1. /\ exec' \in [Threads -> Execution]
          /\ \A u \in Threads : exec'[u].pc # "idle" => exec'[u].item \in Item
      BY <2>3, OutcomeType DEF MarkFails, FinalStatus, LogStatus
    <3> QED BY <2>3, <3>1 DEF MarkFails, DbFault, TypeOK, rowVars, adminVars
  <2>4. ASSUME NEW o \in Outcomes, Script(t, o)
        PROVE  TypeOK'
    <3>1. /\ exec' \in [Threads -> Execution]
          /\ \A u \in Threads : exec'[u].pc # "idle" => exec'[u].item \in Item
      <4>1. exec[t].pc # "idle" BY <2>4 DEF Script
      <4>2. CASE o = "ok"
        BY <2>4, <4>1, <4>2, OutcomeType DEF Script, FinalStatus, LogStatus
      <4>3. CASE o = "fault"
        BY <2>4, <4>1, <4>3, OutcomeType DEF Script, FinalStatus, LogStatus
      <4>4. CASE o = "nullfault"
        BY <2>4, <4>1, <4>4, OutcomeType DEF Script, FinalStatus, LogStatus
      <4> QED BY <4>2, <4>3, <4>4 DEF ScriptOutcome
    <3> QED BY <2>4, <3>1 DEF Script, TypeOK, rowVars, adminVars
  <2>5. CASE Finish(t)
    <3>1. /\ exec' \in [Threads -> Execution]
          /\ \A u \in Threads : exec'[u].pc # "idle" => exec'[u].item \in Item
      BY <2>5, AdvanceType DEF Finish, Pc
    <3>2. exec[t].run \in RunStatus BY DEF TypeOK, Execution, RunStatus
    <3>3. row' \in [Jobs -> Row \cup {NoRow}]
      BY <2>5, <3>2, WrittenRow DEF Finish, TypeOK
    <3>4. Job(t) \in Jobs BY <2>5, <3>2, WrittenRow DEF Finish
    <3>5. failed' \subseteq Jobs BY <2>5, <3>4 DEF Finish, TypeOK
    <3> QED BY <2>5, <3>1, <3>3, <3>5 DEF Finish, TypeOK, adminVars
  <2>6. CASE FinishFails(t)
    <3>1. Job(t) \in Jobs BY <2>6 DEF FinishFails, TypeOK, Job, Item
    <3>2. abandoned' \subseteq Jobs BY <2>6, <3>1 DEF FinishFails, TypeOK
    <3>3. dbFaults' \in Nat BY <2>6 DEF FinishFails, DbFault, TypeOK
    <3> QED BY <2>6, <3>2, <3>3, ReturnType DEF FinishFails, TypeOK, rowVars, adminVars
  <2>7. CASE Log(t)
    <3>1. /\ exec' \in [Threads -> Execution]
          /\ \A u \in Threads : exec'[u].pc # "idle" => exec'[u].item \in Item
      BY <2>7, AdvanceType DEF Log, Pc
    <3>2. logged' \in [Jobs -> LogStatus \cup {"none"}]
      BY <2>7 DEF Log, TypeOK, Execution
    <3> QED BY <2>7, <3>1, <3>2 DEF Log, TypeOK, rowVars, adminVars
  <2>8. CASE LogFails(t)
    <3>1. dbFaults' \in Nat BY <2>8 DEF LogFails, DbFault, TypeOK
    <3> QED BY <2>8, <3>1, ReturnType DEF LogFails, TypeOK, rowVars, adminVars
  <2>9. CASE Mail(t)
    <3>1. outbox' \in [Jobs -> FinalStatus \cup {"none"}]
      BY <2>9 DEF Mail, TypeOK, Execution
    <3>2. exec[t].throws \in BOOLEAN BY DEF TypeOK, Execution
    <3> QED BY <2>9, <3>1, <3>2, ReturnType DEF Mail, TypeOK, rowVars, adminVars
  <2> QED BY <1>4, <2>1, <2>2, <2>3, <2>4, <2>5, <2>6, <2>7, <2>8, <2>9 DEF Call
<1>5. ASSUME NEW j \in Jobs, DeleteJob(j)
      PROVE  TypeOK'
  BY <1>5 DEF DeleteJob, TypeOK, runVars, adminVars
<1>6. ASSUME NEW j \in Jobs, NEW form \in Forms, CreateJob(j, form)
      PROVE  TypeOK'
  <2>1. [runStatus |-> "Y", form |-> form, rev |-> 0] \in Row BY DEF Row, RunStatus, FinalStatus
  <2> QED BY <1>6, <2>1 DEF CreateJob, TypeOK, runVars, adminVars
<1>7. ASSUME NEW j \in Jobs, NEW form \in Forms, ReadForUpdate(j, form)
      PROVE  TypeOK'
  <2>1. Restored(row[j].runStatus) \in RunStatus
    BY <1>7 DEF ReadForUpdate, Restored, TypeOK, Row, RunStatus, FinalStatus
  <2> DEFINE e == [job |-> j, form |-> form, runStatus |-> Restored(row[j].runStatus)]
  <2>2. e \in Edit BY <2>1 DEF Edit
  <2>3. editing' \subseteq Edit /\ edits' \in Nat
    BY <1>7, <2>2 DEF ReadForUpdate, TypeOK
  <2> QED BY <1>7, <2>3 DEF ReadForUpdate, TypeOK, rowVars, runVars
<1>8. ASSUME NEW e \in editing, UpdateJob(e)
      PROVE  TypeOK'
  <2>1. e \in Edit BY DEF TypeOK
  <2>2. latest[e.job] + 1 \in Nat BY <2>1 DEF TypeOK, Edit
  <2>3. [runStatus |-> e.runStatus, form |-> e.form, rev |-> latest[e.job] + 1] \in Row
    BY <2>1, <2>2 DEF Edit, Row
  <2>4. row' \in [Jobs -> Row \cup {NoRow}] /\ latest' \in [Jobs -> Nat]
    BY <1>8, <2>1, <2>2, <2>3 DEF UpdateJob, TypeOK
  <2>5. quiet' \subseteq Jobs /\ abandoned' \subseteq Jobs /\ editing' \subseteq Edit
    BY <1>8, <2>1 DEF UpdateJob, TypeOK, Edit
  <2> QED BY <1>8, <2>4, <2>5 DEF UpdateJob, TypeOK, runVars
<1>9. ASSUME NEW e \in editing, UpdateJobFails(e)
      PROVE  TypeOK'
  BY <1>9 DEF UpdateJobFails, TypeOK, rowVars, runVars
<1>10. CASE Crash
  BY <1>10, IdleType DEF Crash, TypeOK, rowVars
<1>11. CASE UNCHANGED vars
  BY <1>11 DEF TypeOK, vars, rowVars, runVars, adminVars
<1> QED
  BY <1>1, <1>2, <1>3, <1>4, <1>5, <1>6, <1>7, <1>8, <1>9, <1>10, <1>11
  DEF Next, Admin

\* The tables the program starts with are well typed.
LEMMA InitType == Init => TypeOK
<1> SUFFICES ASSUME Init PROVE TypeOK OBVIOUS
<1>1. [runStatus : {"Y"}, form : Forms, rev : {0}] \subseteq Row
  <2> SUFFICES ASSUME NEW r \in [runStatus : {"Y"}, form : Forms, rev : {0}]
               PROVE  r \in Row
    OBVIOUS
  <2>1. PICK form \in Forms : r = [runStatus |-> "Y", form |-> form, rev |-> 0]
    OBVIOUS
  <2> QED BY <2>1 DEF Row, RunStatus, FinalStatus
<1>2. row \in [Jobs -> Row \cup {NoRow}]
  BY <1>1 DEF Init
<1> QED BY <1>2, IdleType DEF Init, TypeOK

\* Every state of the job tables and executions has its type.
THEOREM TypeCorrect == Spec => []TypeOK
BY InitType, StepType, PTL DEF Spec
-----------------------------------------------------------------------------
(* A row in state "R" is owned *)

\* A step of thread t that neither begins nor ends a mark keeps all owners.
LEMMA OthersKept ==
  ASSUME TypeOK, NEW t \in Threads, exec[t].pc \notin {"script", "finish"},
         NEW x, exec' = [exec EXCEPT ![t] = x], NEW j, Owned(j)
  PROVE  Owned(j)'
BY DEF TypeOK, Owned, Marking

\* Whichever step sets a row to "R" owns it, and whichever gives it up either
\* writes another status or is remembered in abandoned.
LEMMA OwnedStep ==
  ASSUME TypeOK, MarkedIsOwned, [Next]_vars
  PROVE  MarkedIsOwned'
<1> USE ConstantsAssumption
<1> SUFFICES ASSUME NEW j \in Jobs, Marked(j)', j \notin abandoned'
             PROVE  Owned(j)'
  BY DEF MarkedIsOwned
<1>a. Marked(j) /\ j \notin abandoned => Owned(j)
  BY DEF MarkedIsOwned
<1>1. CASE Fire
  BY <1>1, <1>a DEF Fire, Marked, Owned, Marking, rowVars
<1>2. CASE Submit
  <2>1. PICK item \in pass : Launch(Scheduler, item)
    BY <1>2 DEF Submit
  <2>2. Owned(j) BY <1>2, <1>a DEF Submit, Marked, rowVars
  <2> QED BY <1>2, <2>1, <2>2, OthersKept DEF Submit, Launch
<1>3. ASSUME NEW t \in ManualThreads, NEW k \in Jobs, Manual(t, k)
      PROVE  Owned(j)'
  <2>1. Owned(j) BY <1>3, <1>a DEF Manual, Marked, rowVars
  <2> QED BY <1>3, <2>1, OthersKept DEF Manual, Launch
<1>4. ASSUME NEW t \in Threads, Call(t)
      PROVE  Owned(j)'
  <2>1. CASE Refuse(t)
    BY <2>1, <1>a DEF Refuse, Outcome, TypeOK, Marked, Owned, Marking, rowVars
  <2>2. CASE Mark(t)
    <3>1. CASE Job(t) = j
      <4>1. Marking(t, j)' BY <2>2, <3>1 DEF Mark, TypeOK, Marking, Job, Execution
      <4> QED BY <4>1 DEF Owned
    <3>2. CASE Job(t) # j
      <4>1. row'[j] = row[j] BY <2>2, <3>2 DEF Mark, TypeOK
      <4>2. Owned(j) BY <2>2, <4>1, <1>a DEF Mark, Marked
      <4> QED BY <2>2, <4>2 DEF Mark, TypeOK, Owned, Marking, Execution
    <3> QED BY <3>1, <3>2
  <2>3. CASE MarkFails(t)
    BY <2>3, <1>a DEF MarkFails, Outcome, TypeOK, Marked, Owned, Marking, rowVars
  <2>4. ASSUME NEW o \in Outcomes, Script(t, o)
        PROVE  Owned(j)'
    <3>1. Owned(j) BY <2>4, <1>a DEF Script, Marked, rowVars
    <3>2. PICK run \in FinalStatus, log \in LogStatus, ok \in BOOLEAN, throws \in BOOLEAN :
            Outcome(t, run, log, ok, throws)
      BY <2>4 DEF Script, ScriptOutcome, FinalStatus, LogStatus
    <3>3. exec[t].pc = "script" BY <2>4 DEF Script
    <3>4. \A u \in Threads : Marking(u, j) => Marking(u, j)'
      BY <3>2, <3>3 DEF Outcome, TypeOK, Marking
    <3> QED BY <3>1, <3>4 DEF Owned
  <2>5. CASE Finish(t)
    <3>1. Job(t) \in Jobs /\ Snap(t) \in Row BY <2>5, WrittenRow DEF Finish, RunStatus
    <3>2. CASE Job(t) = j
      <4>1. row'[j].runStatus = exec[t].run
        BY <2>5, <3>1, <3>2 DEF Finish, TypeOK, Row
      <4>2. exec[t].run # "R" BY DEF TypeOK, Execution, FinalStatus
      <4> QED BY <4>1, <4>2 DEF Marked
    <3>3. CASE Job(t) # j
      <4>1. row'[j] = row[j] BY <2>5, <3>3 DEF Finish, TypeOK
      <4>2. Owned(j) BY <2>5, <3>3, <4>1, <1>a DEF Finish, Marked
      <4> QED BY <2>5, <3>3, <4>2 DEF Finish, TypeOK, Owned, Marking, Job
    <3> QED BY <3>2, <3>3
  <2>6. CASE FinishFails(t)
    <3>1. Job(t) # j
      BY <2>6 DEF FinishFails, Marked, rowVars
    <3>2. Owned(j) BY <2>6, <3>1, <1>a DEF FinishFails, Marked, rowVars
    <3> QED BY <2>6, <3>1, <3>2 DEF FinishFails, Return, TypeOK, Owned, Marking, Job
  <2>7. CASE Log(t)
    <3>1. Owned(j) BY <2>7, <1>a DEF Log, Marked, rowVars
    <3> QED BY <2>7, <3>1 DEF Log, TypeOK, Owned, Marking
  <2>8. CASE LogFails(t)
    <3>1. Owned(j) BY <2>8, <1>a DEF LogFails, Marked, rowVars
    <3> QED BY <2>8, <3>1, OthersKept DEF LogFails, Return
  <2>9. CASE Mail(t)
    <3>1. Owned(j) BY <2>9, <1>a DEF Mail, Marked, rowVars
    <3> QED BY <2>9, <3>1, OthersKept DEF Mail, Return
  <2> QED BY <1>4, <2>1, <2>2, <2>3, <2>4, <2>5, <2>6, <2>7, <2>8, <2>9 DEF Call
<1>5. ASSUME NEW k \in Jobs, DeleteJob(k)
      PROVE  Owned(j)'
  BY <1>5, <1>a DEF DeleteJob, TypeOK, Marked, Owned, Marking, runVars
<1>6. ASSUME NEW k \in Jobs, NEW form \in Forms, CreateJob(k, form)
      PROVE  Owned(j)'
  BY <1>6, <1>a DEF CreateJob, TypeOK, Marked, Owned, Marking, runVars
<1>7. ASSUME NEW k \in Jobs, NEW form \in Forms, ReadForUpdate(k, form)
      PROVE  Owned(j)'
  BY <1>7, <1>a DEF ReadForUpdate, Marked, Owned, Marking, rowVars, runVars
<1>8. ASSUME NEW e \in editing, UpdateJob(e)
      PROVE  Owned(j)'
  <2>1. e.job # j BY <1>8 DEF UpdateJob, TypeOK, Marked, Edit
  <2>2. row'[j] = row[j] /\ j \notin abandoned
    BY <1>8, <2>1 DEF UpdateJob, TypeOK
  <2> QED BY <1>8, <2>2, <1>a DEF UpdateJob, Marked, Owned, Marking, runVars
<1>9. ASSUME NEW e \in editing, UpdateJobFails(e)
      PROVE  Owned(j)'
  BY <1>9, <1>a DEF UpdateJobFails, Marked, Owned, Marking, rowVars, runVars
<1>10. CASE Crash
  BY <1>10, <1>a DEF Crash, Marked, rowVars
<1>11. CASE UNCHANGED vars
  BY <1>11, <1>a DEF Marked, Owned, Marking, vars, rowVars, runVars
<1> QED
  BY <1>1, <1>2, <1>3, <1>4, <1>5, <1>6, <1>7, <1>8, <1>9, <1>10, <1>11
  DEF Next, Admin

\* A job is only ever left in state "R" by a crash, a failed final write or a
\* stale administrator's write.
THEOREM MarkOwnership == Spec => []MarkedIsOwned
<1>1. Init => MarkedIsOwned BY ConstantsAssumption DEF Init, MarkedIsOwned, Marked
<1>2. TypeOK /\ MarkedIsOwned /\ [Next]_vars => MarkedIsOwned' BY OwnedStep
<1> QED BY <1>1, <1>2, TypeCorrect, PTL DEF Spec
-----------------------------------------------------------------------------
(* Quiet edits are kept *)

QuietInv == TypeOK /\ QuietEditKept /\ QuietCopies /\ UnusedRows

\* A step that adds no copy and leaves the rows alone cannot disturb them.
LEMMA QuietUnmoved ==
  ASSUME QuietInv, UNCHANGED <<rowVars, latest, quiet>>, Snapshots' \subseteq Snapshots
  PROVE  QuietEditKept' /\ QuietCopies' /\ UnusedRows'
BY DEF QuietInv, QuietEditKept, QuietCopies, UnusedRows, rowVars

\* Neither can a step whose new copies are of rows as they are now.
LEMMA QuietCopied ==
  ASSUME QuietInv, UNCHANGED <<rowVars, latest, quiet>>,
         \A i \in Snapshots' : \/ i \in Snapshots
                               \/ row[i.job] # NoRow /\ i.snap = row[i.job]
  PROVE  QuietEditKept' /\ QuietCopies' /\ UnusedRows'
BY DEF QuietInv, QuietEditKept, QuietCopies, UnusedRows, rowVars

\* An execution that stays on its item adds no copy, nor does one that ends.
LEMMA SameCopies ==
  ASSUME TypeOK, NEW t \in Threads, exec[t].pc # "idle", pass' \subseteq pass,
         exec' \in [Threads -> Execution],
         \A u \in Threads \ {t} : exec'[u] = exec[u],
         exec'[t].pc = "idle" \/ exec'[t].item = exec[t].item
  PROVE  Snapshots' \subseteq Snapshots
BY DEF Snapshots

\* Writing a copy back keeps a quiet edit, since the copy is of that edit.
LEMMA QuietWritten ==
  ASSUME QuietInv, NEW t \in Threads, exec[t].pc # "idle", NEW s \in RunStatus,
         row[Job(t)] # NoRow,
         row' = [row EXCEPT ![Job(t)] = [Snap(t) EXCEPT !.runStatus = s]],
         UNCHANGED <<unused, latest, quiet>>, Snapshots' \subseteq Snapshots
  PROVE  QuietEditKept' /\ QuietCopies' /\ UnusedRows'
<1>1. exec[t].item \in Snapshots BY DEF Snapshots
<1>2. Job(t) \in Jobs /\ Snap(t) \in Row BY WrittenRow DEF QuietInv
<1>3. Job(t) \in quiet => Snap(t).rev = latest[Job(t)]
  BY <1>1 DEF QuietInv, QuietCopies, Job, Snap
<1>4. row'[Job(t)].rev = Snap(t).rev BY <1>2 DEF QuietInv, TypeOK, Row
<1>5. \A j \in Jobs : j # Job(t) => row'[j] = row[j] BY DEF QuietInv, TypeOK
<1>6. QuietEditKept' BY <1>3, <1>4, <1>5 DEF QuietInv, TypeOK, QuietEditKept
<1>7. QuietCopies' BY DEF QuietInv, QuietCopies
<1>8. UnusedRows' BY <1>5 DEF QuietInv, TypeOK, UnusedRows
<1> QED BY <1>6, <1>7, <1>8

\* No step undoes an edit that was committed while nothing held a copy.
LEMMA QuietStep ==
  ASSUME QuietInv, [Next]_vars
  PROVE  QuietEditKept' /\ QuietCopies' /\ UnusedRows'
<1> USE ConstantsAssumption
<1>t. TypeOK /\ TypeOK' BY StepType DEF QuietInv
<1>1. CASE Fire
  <2>1. \A i \in Snapshots' : \/ i \in Snapshots
                              \/ row[i.job] # NoRow /\ i.snap = row[i.job]
    BY <1>1 DEF Fire, Snapshots, Due
  <2> QED BY <1>1, <2>1, QuietCopied DEF Fire, adminVars
<1>2. CASE Submit
  <2>1. PICK item \in pass : Launch(Scheduler, item) /\ pass' = pass \ {item}
    BY <1>2 DEF Submit
  <2>2. Snapshots' \subseteq Snapshots
    BY <1>t, <2>1 DEF Launch, Idle, TypeOK, Snapshots
  <2> QED BY <1>2, <2>2, QuietUnmoved DEF Submit, adminVars
<1>3. ASSUME NEW t \in ManualThreads, NEW j \in Jobs, Manual(t, j)
      PROVE  QuietEditKept' /\ QuietCopies' /\ UnusedRows'
  <2>1. \A i \in Snapshots' : \/ i \in Snapshots
                              \/ row[i.job] # NoRow /\ i.snap = row[i.job]
    BY <1>t, <1>3 DEF Manual, Launch, Idle, TypeOK, Snapshots
  <2> QED BY <1>3, <2>1, QuietCopied DEF Manual, adminVars
<1>4. ASSUME NEW t \in Threads, Call(t)
      PROVE  QuietEditKept' /\ QuietCopies' /\ UnusedRows'
  <2>1. exec[t].pc # "idle"
    BY <1>4 DEF Call, Refuse, Mark, MarkFails, Script, Finish, FinishFails, Log,
                LogFails, Mail
  <2>2. Snapshots' \subseteq Snapshots
    <3>1. pass' \subseteq pass
      BY <1>4 DEF Call, Refuse, Mark, MarkFails, Script, Finish, FinishFails, Log,
                  LogFails, Mail, Return
    <3>2. \A u \in Threads \ {t} : exec'[u] = exec[u]
      BY <1>t, <1>4 DEF Call, Refuse, Mark, MarkFails, Script, Finish, FinishFails,
                  Log, LogFails, Mail, Return, Outcome, ScriptOutcome, TypeOK
    <3>3. exec'[t].pc = "idle" \/ exec'[t].item = exec[t].item
      <4>1. CASE FinishFails(t) \/ LogFails(t) \/ Mail(t)
        BY <1>t, <4>1, IdleType DEF FinishFails, LogFails, Mail, Return, TypeOK
      <4>2. CASE Refuse(t) \/ MarkFails(t)
        BY <1>t, <4>2 DEF Refuse, MarkFails, Outcome, TypeOK, Execution
      <4>3. ASSUME NEW o \in Outcomes, Script(t, o)
            PROVE  exec'[t].item = exec[t].item
        <5>1. PICK run \in FinalStatus, log \in LogStatus, ok \in BOOLEAN, throws \in BOOLEAN :
                Outcome(t, run, log, ok, throws)
          BY <4>3 DEF Script, ScriptOutcome, FinalStatus, LogStatus
        <5> QED BY <1>t, <5>1 DEF Outcome, TypeOK, Execution
      <4>4. CASE Mark(t) \/ Finish(t) \/ Log(t)
        BY <1>t, <4>4 DEF Mark, Finish, Log, TypeOK, Execution
      <4> QED BY <1>4, <4>1, <4>2, <4>3, <4>4 DEF Call
    <3> QED BY <1>t, <2>1, <3>1, <3>2, <3>3, SameCopies DEF TypeOK
  <2>3. UNCHANGED <<unused, latest, quiet>>
    BY <1>4 DEF Call, Refuse, Mark, MarkFails, Script, Finish, FinishFails, Log,
                LogFails, Mail, rowVars, adminVars
  <2>4. CASE Mark(t)
    BY <2>1, <2>2, <2>3, <2>4, QuietWritten DEF Mark, RunStatus
  <2>5. CASE Finish(t)
    <3>1. exec[t].run \in RunStatus BY <1>t DEF TypeOK, Execution, RunStatus
    <3> QED BY <2>1, <2>2, <2>3, <2>5, <3>1, QuietWritten DEF Finish
  <2>6. CASE ~Mark(t) /\ ~Finish(t)
    <3>1. UNCHANGED row
      BY <1>4, <2>6 DEF Call, Refuse, MarkFails, Script, FinishFails, Log,
                  LogFails, Mail, rowVars
    <3> QED BY <2>2, <2>3, <3>1, QuietUnmoved DEF rowVars
  <2> QED BY <2>4, <2>5, <2>6
<1>5. ASSUME NEW j \in Jobs, DeleteJob(j)
      PROVE  QuietEditKept' /\ QuietCopies' /\ UnusedRows'
  BY <1>5 DEF DeleteJob, QuietInv, TypeOK, QuietEditKept, QuietCopies, UnusedRows,
              Snapshots, runVars, adminVars
<1>6. ASSUME NEW j \in Jobs, NEW form \in Forms, CreateJob(j, form)
      PROVE  QuietEditKept' /\ QuietCopies' /\ UnusedRows'
  <2>1. latest[j] = 0 BY <1>6 DEF CreateJob, QuietInv, UnusedRows
  <2>2. QuietEditKept' /\ UnusedRows'
    BY <1>6, <2>1 DEF CreateJob, QuietInv, TypeOK, QuietEditKept, UnusedRows, adminVars
  <2>3. QuietCopies'
    BY <1>6 DEF CreateJob, QuietInv, QuietCopies, Snapshots, runVars, adminVars
  <2> QED BY <2>2, <2>3
<1>7. ASSUME NEW j \in Jobs, NEW form \in Forms, ReadForUpdate(j, form)
      PROVE  QuietEditKept' /\ QuietCopies' /\ UnusedRows'
  <2>1. Snapshots' \subseteq Snapshots BY <1>7 DEF ReadForUpdate, Snapshots, runVars
  <2> QED BY <1>7, <2>1, QuietUnmoved DEF ReadForUpdate
<1>8. ASSUME NEW e \in editing, UpdateJob(e)
      PROVE  QuietEditKept' /\ QuietCopies' /\ UnusedRows'
  <2>1. e \in Edit BY <1>t DEF TypeOK
  <2>2. Snapshots' = Snapshots BY <1>8 DEF UpdateJob, Snapshots, runVars
  <2>3. QuietEditKept'
    BY <1>8, <2>1 DEF UpdateJob, QuietInv, TypeOK, QuietEditKept, Edit
  <2>4. QuietCopies'
    BY <1>8, <2>1, <2>2 DEF UpdateJob, QuietInv, TypeOK, QuietCopies, Edit
  <2>5. UnusedRows'
    BY <1>8, <2>1 DEF UpdateJob, QuietInv, TypeOK, UnusedRows, Edit
  <2> QED BY <2>3, <2>4, <2>5
<1>9. ASSUME NEW e \in editing, UpdateJobFails(e)
      PROVE  QuietEditKept' /\ QuietCopies' /\ UnusedRows'
  <2>1. Snapshots' \subseteq Snapshots BY <1>9 DEF UpdateJobFails, Snapshots, runVars
  <2> QED BY <1>9, <2>1, QuietUnmoved DEF UpdateJobFails
<1>10. CASE Crash
  <2>1. Snapshots' \subseteq Snapshots BY <1>10, IdleType DEF Crash, Snapshots
  <2> QED BY <1>10, <2>1, QuietUnmoved DEF Crash
<1>11. CASE UNCHANGED vars
  <2>1. Snapshots' \subseteq Snapshots BY <1>11 DEF vars, Snapshots, runVars
  <2> QED BY <1>11, <2>1, QuietUnmoved DEF vars, adminVars
<1> QED
  BY <1>1, <1>2, <1>3, <1>4, <1>5, <1>6, <1>7, <1>8, <1>9, <1>10, <1>11
  DEF Next, Admin

\* The quiet edits are kept, with the reasons for it.
LEMMA QuietInvariant == Spec => []QuietInv
<1>1. Init => QuietEditKept /\ QuietCopies /\ UnusedRows
  <2> SUFFICES ASSUME Init PROVE QuietEditKept /\ QuietCopies /\ UnusedRows
    OBVIOUS
  <2>1. Snapshots = {} BY IdleType DEF Init, Snapshots
  <2>2. QuietEditKept BY DEF Init, QuietEditKept
  <2>3. QuietCopies BY <2>1 DEF QuietCopies
  <2>4. UnusedRows BY DEF Init, UnusedRows
  <2> QED BY <2>2, <2>3, <2>4
<1>2. QuietInv /\ [Next]_vars => QuietEditKept' /\ QuietCopies' /\ UnusedRows'
  BY QuietStep
<1> QED BY <1>1, <1>2, TypeCorrect, PTL DEF Spec, QuietInv

\* An edit committed while nothing holds a copy of its row is never undone by an
\* execution.
THEOREM QuietEdits == Spec => []QuietEditKept
<1>1. QuietInv => QuietEditKept BY DEF QuietInv
<1> QED BY <1>1, QuietInvariant, PTL
-----------------------------------------------------------------------------
(* The fault latch *)

\* An execution whose copy is latched writes nothing but faults.
LatchedWritesFault ==
  \A t \in Threads :
    /\ exec[t].pc \in {"script", "finish"} /\ FaultLatched(Snap(t))
    => exec[t].pc = "finish" /\ exec[t].run = "F"

\* An execution that was started on a latched row keeps its fault to the end.
LEMMA LatchedStep ==
  ASSUME TypeOK, LatchedWritesFault, [Next]_vars
  PROVE  LatchedWritesFault'
<1> SUFFICES ASSUME NEW u \in Threads, exec'[u].pc \in {"script", "finish"},
                    FaultLatched(Snap(u)')
             PROVE  exec'[u].pc = "finish" /\ exec'[u].run = "F"
  BY DEF LatchedWritesFault, Snap, FaultLatched
<1>a. CASE exec'[u] = exec[u]
  BY <1>a DEF LatchedWritesFault, Snap, FaultLatched
<1>b. CASE exec'[u] # exec[u]
  <2>1. CASE \E item \in Item : Launch(u, item)
    BY <2>1 DEF Launch, TypeOK, Idle
  <2>2. CASE Call(u)
    <3>1. CASE Refuse(u)
      BY <3>1 DEF Refuse, Outcome, TypeOK, Execution
    <3>2. CASE Mark(u)
      <4>1. Snap(u)' = Snap(u) BY <3>2 DEF Mark, TypeOK, Snap, Execution
      <4> QED BY <3>2, <4>1 DEF Mark, Refuses, FaultLatched
    <3>3. CASE MarkFails(u)
      BY <3>3 DEF MarkFails, Outcome, TypeOK, Execution
    <3>4. ASSUME NEW o \in Outcomes, Script(u, o) PROVE FALSE
      <4>1. exec[u].pc = "script" BY <3>4 DEF Script
      <4>2. PICK run \in FinalStatus, log \in LogStatus, ok \in BOOLEAN, throws \in BOOLEAN :
              Outcome(u, run, log, ok, throws)
        BY <3>4, ConstantsAssumption DEF Script, ScriptOutcome, FinalStatus, LogStatus
      <4>3. Snap(u)' = Snap(u) BY <4>2 DEF Outcome, TypeOK, Snap, Execution
      <4> QED BY <4>1, <4>3 DEF LatchedWritesFault, FaultLatched
    <3>5. CASE Finish(u) \/ Log(u)
      BY <3>5 DEF Finish, Log, TypeOK, Execution
    <3>6. CASE FinishFails(u) \/ LogFails(u) \/ Mail(u)
      BY <3>6, IdleType DEF FinishFails, LogFails, Mail, Return, TypeOK
    <3> QED BY <2>2, <3>1, <3>2, <3>3, <3>4, <3>5, <3>6 DEF Call
  <2>3. CASE Crash
    BY <2>3, IdleType DEF Crash
  <2>4. (\E item \in Item : Launch(u, item)) \/ Call(u) \/ Crash
    <3>1. CASE Submit
      <4>1. PICK item \in pass : Launch(Scheduler, item) BY <3>1 DEF Submit
      <4> QED BY <1>b, <4>1 DEF Launch, TypeOK
    <3>2. ASSUME NEW t \in ManualThreads, NEW j \in Jobs, Manual(t, j)
          PROVE  \E item \in Item : Launch(u, item)
      <4>1. [job |-> j, snap |-> row[j]] \in Item BY <3>2 DEF Manual, TypeOK, Item
      <4> QED BY <1>b, <3>2, <4>1 DEF Manual, Launch, TypeOK
    <3>3. ASSUME NEW t \in Threads, Call(t), t # u PROVE FALSE
      <4>1. exec'[u] = exec[u]
        <5>1. ASSUME NEW o \in Outcomes, Script(t, o) PROVE exec'[u] = exec[u]
          BY <3>3, <5>1, ConstantsAssumption DEF Script, Outcome, TypeOK, ScriptOutcome
        <5>2. CASE Refuse(t) \/ MarkFails(t)
          BY <3>3, <5>2 DEF Refuse, MarkFails, Outcome, TypeOK
        <5>3. CASE Mark(t) \/ Finish(t) \/ Log(t)
          BY <3>3, <5>3 DEF Mark, Finish, Log, TypeOK
        <5>4. CASE FinishFails(t) \/ LogFails(t) \/ Mail(t)
          BY <3>3, <5>4 DEF FinishFails, LogFails, Mail, Return, TypeOK
        <5> QED BY <3>3, <5>1, <5>2, <5>3, <5>4 DEF Call
      <4> QED BY <1>b, <4>1
    <3>4. CASE Fire \/ Admin \/ UNCHANGED vars
      BY <1>b, <3>4 DEF Fire, Admin, DeleteJob, CreateJob, ReadForUpdate, UpdateJob,
                        UpdateJobFails, vars, runVars
    <3> QED BY <3>1, <3>2, <3>3, <3>4 DEF Next
  <2> QED BY <2>1, <2>2, <2>3, <2>4
<1> QED BY <1>a, <1>b

\* A row's latch is left only by a write from an older copy.
LEMMA LatchStep ==
  ASSUME TypeOK, UnusedRows, LatchedWritesFault, [Next]_vars,
         NEW j \in Jobs, LeavesLatch(j)
  PROVE  StaleCopy(j)
<1>1. row'[j] # row[j] BY DEF LeavesLatch, FaultLatched
<1>2. ASSUME NEW t \in Threads, Call(t) PROVE StaleCopy(j)
  <2>1. Mark(t) \/ Finish(t)
    BY <1>1, <1>2 DEF Call, Refuse, MarkFails, Script, FinishFails, Log, LogFails,
                      Mail, rowVars
  <2>2. Job(t) = j BY <1>1, <2>1 DEF Mark, Finish, TypeOK
  <2>3. CASE Mark(t)
    BY <2>2, <2>3 DEF Mark, Refuses, StaleCopy
  <2>4. CASE Finish(t)
    <3>1. Snap(t) \in Row BY <2>4 DEF Finish, TypeOK, Snap, Item
    <3>2. row'[j].runStatus = exec[t].run
      BY <2>2, <2>4, <3>1 DEF Finish, TypeOK, Row
    <3>3. ~FaultLatched(Snap(t))
      BY <2>4, <3>2 DEF LeavesLatch, LatchedWritesFault, Finish
    <3> QED BY <2>2, <2>4, <3>3 DEF Finish, StaleCopy
  <2> QED BY <2>1, <2>3, <2>4
<1>3. ASSUME NEW e \in editing, UpdateJob(e) PROVE StaleCopy(j)
  <2>1. e.job = j BY <1>1, <1>3 DEF UpdateJob, TypeOK
  <2>2. row'[j].runStatus = e.runStatus BY <1>3, <2>1 DEF UpdateJob, TypeOK
  <2> QED BY <2>1, <2>2 DEF LeavesLatch, StaleCopy
<1>4. ASSUME NEW k \in Jobs, DeleteJob(k) PROVE FALSE
  BY <1>1, <1>4 DEF DeleteJob, TypeOK, LeavesLatch
<1>5. ASSUME NEW k \in Jobs, NEW form \in Forms, CreateJob(k, form) PROVE FALSE
  <2>1. k = j BY <1>1, <1>5 DEF CreateJob, TypeOK
  <2> QED BY <1>5, <2>1 DEF CreateJob, UnusedRows, LeavesLatch
<1> QED
  BY <1>1, <1>2, <1>3, <1>4, <1>5
  DEF Next, Admin, Fire, Submit, Manual, ReadForUpdate, UpdateJobFails, Crash, vars, rowVars

\* CHECK_FAULT's latch: a row leaves its fault only through a copy that was read
\* before the fault was latched.
THEOREM FaultLatch == Spec => LatchLeftByStaleCopies
<1>1. Init => LatchedWritesFault BY IdleType DEF Init, LatchedWritesFault
<1>2. TypeOK /\ LatchedWritesFault /\ [Next]_vars => LatchedWritesFault'
  BY LatchedStep
<1>3. TypeOK /\ UnusedRows /\ LatchedWritesFault /\ [Next]_vars
      => [\A j \in Jobs : LeavesLatch(j) => StaleCopy(j)]_vars
  BY LatchStep
<1>4. QuietInv => UnusedRows BY DEF QuietInv
<1> QED
  BY <1>1, <1>2, <1>3, <1>4, TypeCorrect, QuietInvariant, PTL
  DEF Spec, LatchLeftByStaleCopies
-----------------------------------------------------------------------------
(* Progress *)

\* The fairness WF_vars(Call(t)) with its guard written out: an execution that
\* is not idle takes steps again and again.
Runs(t) == []<>(exec[t].pc = "idle") \/ []<><<Call(t)>>_vars

\* An execution in flight is moved by its own steps and by a crash only.
LEMMA OwnStep ==
  ASSUME TypeOK, [Next]_vars, NEW t \in Threads, exec[t].pc # "idle"
  PROVE  Call(t) \/ Crash \/ exec'[t] = exec[t]
<1>1. CASE Submit
  BY <1>1 DEF Submit, Launch, TypeOK
<1>2. ASSUME NEW u \in ManualThreads, NEW j \in Jobs, Manual(u, j)
      PROVE  exec'[t] = exec[t]
  BY <1>2 DEF Manual, Launch, TypeOK
<1>3. ASSUME NEW u \in Threads, u # t, Call(u)
      PROVE  exec'[t] = exec[t]
  <2>1. ASSUME NEW o \in Outcomes, Script(u, o) PROVE exec'[t] = exec[t]
    BY <1>3, <2>1, ConstantsAssumption DEF Script, Outcome, TypeOK, ScriptOutcome
  <2>2. CASE Refuse(u) \/ MarkFails(u)
    BY <1>3, <2>2 DEF Refuse, MarkFails, Outcome, TypeOK
  <2>3. CASE Mark(u) \/ Finish(u) \/ Log(u)
    BY <1>3, <2>3 DEF Mark, Finish, Log, TypeOK
  <2>4. CASE FinishFails(u) \/ LogFails(u) \/ Mail(u)
    BY <1>3, <2>4 DEF FinishFails, LogFails, Mail, Return, TypeOK
  <2> QED BY <1>3, <2>1, <2>2, <2>3, <2>4 DEF Call
<1>4. CASE Fire \/ Admin \/ UNCHANGED vars
  BY <1>4 DEF Fire, Admin, DeleteJob, CreateJob, ReadForUpdate, UpdateJob,
              UpdateJobFails, vars, runVars
<1> QED BY <1>1, <1>2, <1>3, <1>4 DEF Next

\* What its own step does to an execution that has not started its script ...
LEMMA BeginStep ==
  ASSUME TypeOK, NEW t \in Threads, exec[t].pc = "begin", Call(t)
  PROVE  exec'[t].pc \in {"script", "finish"}
<1>1. CASE Refuse(t) \/ MarkFails(t)
  BY <1>1 DEF Refuse, MarkFails, Outcome, TypeOK, Execution
<1>2. CASE Mark(t)
  BY <1>2 DEF Mark, TypeOK, Execution
<1> QED BY <1>1, <1>2 DEF Call, Script, Finish, FinishFails, Log, LogFails, Mail

\* ... to one whose script runs, which goes on to its final write ...
LEMMA ScriptStep ==
  ASSUME TypeOK, NEW t \in Threads, exec[t].pc = "script", Call(t)
  PROVE  exec'[t].pc = "finish" /\ Job(t)' = Job(t)
<1>1. PICK o \in Outcomes : Script(t, o)
  BY DEF Call, Refuse, Mark, MarkFails, Finish, FinishFails, Log, LogFails, Mail
<1>2. PICK run \in FinalStatus, log \in LogStatus, ok \in BOOLEAN, throws \in BOOLEAN :
        Outcome(t, run, log, ok, throws)
  BY <1>1, ConstantsAssumption DEF Script, ScriptOutcome, FinalStatus, LogStatus
<1> QED BY <1>2 DEF Outcome, TypeOK, Execution, Job

\* ... to one at its final write, which the row shows, unless the row is gone or
\* the write fails ...
LEMMA FinishStep ==
  ASSUME TypeOK, NEW t \in Threads, exec[t].pc = "finish", Call(t),
         NEW j \in Jobs, Job(t) = j
  PROVE  /\ ~Marked(j)' \/ j \in abandoned'
         /\ \/ exec'[t].pc = "log" /\ Job(t)' = j
            \/ exec'[t].pc = "idle" /\ (row'[j] = NoRow \/ dbFaults' > 0)
<1>0. Snap(t) \in Row BY WrittenRow DEF RunStatus
<1>1. CASE Finish(t)
  <2>1. row'[j].runStatus = exec[t].run BY <1>0, <1>1 DEF Finish, TypeOK, Row
  <2>2. exec[t].run # "R" BY DEF TypeOK, Execution, FinalStatus
  <2>3. exec'[t].pc = "log" /\ Job(t)' = j
    BY <1>1 DEF Finish, TypeOK, Execution, Job
  <2> QED BY <2>1, <2>2, <2>3 DEF Marked
<1>2. CASE FinishFails(t)
  <2>1. row' = row BY <1>2 DEF FinishFails, rowVars
  <2>2. row[j] = NoRow \/ dbFaults' > 0 BY <1>2 DEF FinishFails, DbFault, TypeOK
  <2>3. exec'[t].pc = "idle" BY <1>2, IdleType DEF FinishFails, Return, TypeOK
  <2>4. ~Marked(j) \/ j \in abandoned' BY <1>2 DEF FinishFails, Marked
  <2> QED BY <2>1, <2>2, <2>3, <2>4 DEF Marked
<1> QED BY <1>1, <1>2 DEF Call, Refuse, Mark, MarkFails, Script, Log, LogFails, Mail

\* ... and to one that has written: it logs, and is done.
LEMMA LogStep ==
  ASSUME TypeOK, NEW t \in Threads, exec[t].pc \in {"log", "mail"}, Call(t)
  PROVE  \/ exec[t].pc = "log" /\ exec'[t].pc = "mail" /\ Job(t)' = Job(t)
         \/ exec[t].pc = "log" /\ exec'[t].pc = "idle" /\ dbFaults' > 0
         \/ exec[t].pc = "mail" /\ exec'[t].pc = "idle"
<1>1. CASE Log(t)
  BY <1>1 DEF Log, TypeOK, Execution, Job
<1>2. CASE LogFails(t)
  BY <1>2, IdleType DEF LogFails, Return, DbFault, TypeOK
<1>3. CASE Mail(t)
  BY <1>3, IdleType DEF Mail, Return, TypeOK
<1> QED BY <1>1, <1>2, <1>3 DEF Call, Refuse, Mark, MarkFails, Script, Finish, FinishFails

\* A crash leaves every execution idle and remembers whose rows it abandoned.
LEMMA CrashStep ==
  ASSUME TypeOK, Crash
  PROVE  /\ crashes' > 0
         /\ \A t \in Threads : exec'[t].pc = "idle"
         /\ \A t \in Threads, j \in Jobs : Marking(t, j) => j \in abandoned'
BY IdleType DEF Crash, TypeOK, Owned

\* How far the execution of thread t is, when its job is j.
At(t, stage, j) == exec[t].pc = stage /\ Job(t) = j

\* Nothing was deleted and nothing failed: no reason to miss a log row.
Excused(j) == row[j] = NoRow \/ crashes > 0 \/ dbFaults > 0

\* Under weak fairness of an execution's steps, and as long as one that is not
\* idle can take a step, it runs: Runs says no more than the model's fairness.
LEMMA FairCallRuns ==
  ASSUME NEW t \in Threads
  PROVE  WF_vars(Call(t)) /\ [](exec[t].pc = "idle" \/ ENABLED <<Call(t)>>_vars) => Runs(t)
BY PTL DEF Runs

\* An execution that has been started comes to its end, whether its steps
\* succeed or fail and however often the server crashes.
THEOREM ExecutionsEnd ==
  Spec /\ (\A t \in Threads : Runs(t))
    => \A t \in Threads : exec[t].pc = "begin" ~> exec[t].pc = "idle"
<1> SUFFICES ASSUME NEW t \in Threads
             PROVE  Spec /\ (\A u \in Threads : Runs(u))
                      => (exec[t].pc = "begin" ~> exec[t].pc = "idle")
  OBVIOUS
<1> DEFINE Idling == exec[t].pc = "idle"
           Beginning == exec[t].pc = "begin"
           Scripting == exec[t].pc = "script"
           Finishing == exec[t].pc = "finish"
           Logging == exec[t].pc = "log"
           Mailing == exec[t].pc = "mail"
<1>1. TypeOK /\ Beginning /\ [Next]_vars
        => Beginning' \/ Scripting' \/ Finishing' \/ Idling'
  BY OwnStep, BeginStep, CrashStep
<1>2. TypeOK /\ Beginning /\ <<Call(t)>>_vars => Scripting' \/ Finishing'
  BY BeginStep
<1>3. TypeOK /\ Scripting /\ [Next]_vars => Scripting' \/ Finishing' \/ Idling'
  BY OwnStep, ScriptStep, CrashStep
<1>4. TypeOK /\ Scripting /\ <<Call(t)>>_vars => Finishing'
  BY ScriptStep
<1>f. TypeOK /\ Finishing /\ Call(t) => Logging' \/ Idling'
  <2> SUFFICES ASSUME TypeOK, Finishing, Call(t) PROVE Logging' \/ Idling'
    OBVIOUS
  <2>1. exec[t].item \in Item BY DEF TypeOK
  <2>2. Job(t) \in Jobs BY <2>1 DEF Item, Job
  <2> QED BY <2>2, FinishStep
<1>5. TypeOK /\ Finishing /\ [Next]_vars => Finishing' \/ Logging' \/ Idling'
  BY <1>f, OwnStep, CrashStep
<1>6. TypeOK /\ Finishing /\ <<Call(t)>>_vars => Logging' \/ Idling'
  BY <1>f
<1>7. TypeOK /\ Logging /\ [Next]_vars => Logging' \/ Mailing' \/ Idling'
  BY OwnStep, LogStep, CrashStep
<1>8. TypeOK /\ Logging /\ <<Call(t)>>_vars => Mailing' \/ Idling'
  BY LogStep
<1>9. TypeOK /\ Mailing /\ [Next]_vars => Mailing' \/ Idling'
  BY OwnStep, LogStep, CrashStep
<1>10. TypeOK /\ Mailing /\ <<Call(t)>>_vars => Idling'
  BY LogStep
<1>11. Beginning \/ Scripting \/ Finishing \/ Logging \/ Mailing => ~Idling
  OBVIOUS
<1>12. (\A u \in Threads : Runs(u)) => Runs(t) OBVIOUS
<1> HIDE DEF Idling, Beginning, Scripting, Finishing, Logging, Mailing
<1>13. Spec /\ Runs(t) => (Beginning ~> Idling)
  <2>1. Runs(t) => []<>Idling \/ []<><<Call(t)>>_vars BY DEF Runs, Idling
  <2> QED
    BY <1>1, <1>2, <1>3, <1>4, <1>5, <1>6, <1>7, <1>8, <1>9, <1>10, <1>11, <2>1,
       TypeCorrect, PTL DEF Spec
<1>14. Spec /\ (\A u \in Threads : Runs(u)) => (Beginning ~> Idling)
  BY <1>12, <1>13
<1> QED BY <1>14 DEF Beginning, Idling

\* Every script that was started gets its row in the job log, unless its job was
\* deleted meanwhile, the server died or a database call failed.
THEOREM ScriptsAreLogged == Spec /\ (\A t \in Threads : Runs(t)) => ScriptIsLogged
<1> SUFFICES ASSUME NEW t \in Threads, NEW j \in Jobs
             PROVE  Spec /\ (\A u \in Threads : Runs(u))
                      => (exec[t].pc = "script" /\ Job(t) = j
                            ~> \/ exec[t].pc = "mail" /\ Job(t) = j
                               \/ row[j] = NoRow \/ crashes > 0 \/ dbFaults > 0)
  BY DEF ScriptIsLogged
<1> DEFINE Idling == exec[t].pc = "idle"
           Done == At(t, "mail", j) \/ Excused(j)
<1>1. TypeOK /\ At(t, "script", j) /\ [Next]_vars
        => At(t, "script", j)' \/ At(t, "finish", j)' \/ Done'
  BY OwnStep, ScriptStep, CrashStep DEF At, Excused, Job
<1>2. TypeOK /\ At(t, "script", j) /\ <<Call(t)>>_vars => At(t, "finish", j)'
  BY ScriptStep DEF At, Job
<1>3. TypeOK /\ At(t, "finish", j) /\ Call(t) => At(t, "log", j)' \/ Done'
  BY FinishStep DEF At, Excused, Job
<1>4. TypeOK /\ At(t, "finish", j) /\ [Next]_vars
        => At(t, "finish", j)' \/ At(t, "log", j)' \/ Done'
  BY <1>3, OwnStep, CrashStep DEF At, Excused, Job
<1>5. TypeOK /\ At(t, "log", j) /\ Call(t) => Done'
  BY LogStep DEF At, Excused, Job
<1>6. TypeOK /\ At(t, "log", j) /\ [Next]_vars => At(t, "log", j)' \/ Done'
  BY <1>5, OwnStep, CrashStep DEF At, Excused, Job
<1>7. At(t, "script", j) \/ At(t, "finish", j) \/ At(t, "log", j) => ~Idling
  BY DEF At
<1>8. (\A u \in Threads : Runs(u)) => Runs(t) OBVIOUS
<1> HIDE DEF Idling, Done
<1>9. Spec /\ Runs(t) => (At(t, "script", j) ~> Done)
  <2>1. Runs(t) => []<>Idling \/ []<><<Call(t)>>_vars BY DEF Runs, Idling
  <2> QED
    BY <1>1, <1>2, <1>3, <1>4, <1>5, <1>6, <1>7, <2>1, TypeCorrect, PTL DEF Spec
<1>10. Spec /\ (\A u \in Threads : Runs(u)) => (At(t, "script", j) ~> Done)
  BY <1>8, <1>9
<1>11. /\ exec[t].pc = "script" /\ Job(t) = j => At(t, "script", j)
       /\ Done => \/ exec[t].pc = "mail" /\ Job(t) = j
                  \/ row[j] = NoRow \/ crashes > 0 \/ dbFaults > 0
  BY DEF Done, At, Excused
<1> QED BY <1>10, <1>11, PTL

\* An execution that owns a row brings it out of state "R", or the row becomes
\* one of the abandoned.
LEMMA OwnerClears ==
  ASSUME NEW t \in Threads, NEW j \in Jobs
  PROVE  Spec /\ Runs(t) => (Marking(t, j) ~> ~Marked(j) \/ j \in abandoned)
<1> DEFINE Idling == exec[t].pc = "idle"
           Cleared == ~Marked(j) \/ j \in abandoned
<1>1. TypeOK /\ At(t, "script", j) /\ [Next]_vars
        => At(t, "script", j)' \/ At(t, "finish", j)' \/ Cleared'
  BY OwnStep, ScriptStep, CrashStep DEF At, Job, Marking
<1>2. TypeOK /\ At(t, "script", j) /\ <<Call(t)>>_vars => At(t, "finish", j)'
  BY ScriptStep DEF At, Job
<1>3. TypeOK /\ At(t, "finish", j) /\ Call(t) => Cleared'
  BY FinishStep DEF At, Job
<1>4. TypeOK /\ At(t, "finish", j) /\ [Next]_vars => At(t, "finish", j)' \/ Cleared'
  BY <1>3, OwnStep, CrashStep DEF At, Job, Marking
<1>5. At(t, "script", j) \/ At(t, "finish", j) => ~Idling
  BY DEF At
<1>6. Marking(t, j) <=> At(t, "script", j) \/ At(t, "finish", j)
  BY DEF Marking, At, Job
<1> HIDE DEF Idling, Cleared
<1>7. Spec /\ Runs(t) => (Marking(t, j) ~> Cleared)
  <2>1. Runs(t) => []<>Idling \/ []<><<Call(t)>>_vars BY DEF Runs, Idling
  <2> QED
    BY <1>1, <1>2, <1>3, <1>4, <1>5, <1>6, <2>1, TypeCorrect, PTL DEF Spec
<1> QED BY <1>7 DEF Cleared

\* A row in state "R" leaves that state, unless a crash, a failed final write or
\* a stale administrator's write has left it there: it has an owner, and every
\* owner clears it.
THEOREM MarksAreCleared == Spec /\ (\A t \in Threads : Runs(t)) => MarkIsCleared
<1> SUFFICES ASSUME NEW j \in Jobs
             PROVE  Spec /\ (\A t \in Threads : Runs(t))
                      => (Marked(j) ~> ~Marked(j) \/ j \in abandoned)
  BY DEF MarkIsCleared
<1> DEFINE Cleared == ~Marked(j) \/ j \in abandoned
<1>1. \A t \in Threads : Spec /\ Runs(t) => [](Marking(t, j) => <>Cleared)
  <2> SUFFICES ASSUME NEW t \in Threads
               PROVE  Spec /\ Runs(t) => [](Marking(t, j) => <>Cleared)
    OBVIOUS
  <2> QED BY OwnerClears, PTL
<1>2. Spec /\ (\A t \in Threads : Runs(t))
        => \A t \in Threads : [](Marking(t, j) => <>Cleared)
  BY <1>1
<1>3. (\A t \in Threads : [](Marking(t, j) => <>Cleared))
        => [](\A t \in Threads : Marking(t, j) => <>Cleared)
  OBVIOUS
<1>4. (\A t \in Threads : Marking(t, j) => <>Cleared) => (Owned(j) => <>Cleared)
  BY DEF Owned
<1>5. MarkedIsOwned => (Marked(j) => Owned(j) \/ Cleared)
  BY DEF MarkedIsOwned
<1> HIDE DEF Cleared
<1>6. Spec /\ (\A t \in Threads : Runs(t)) => (Marked(j) ~> Cleared)
  BY <1>2, <1>3, <1>4, <1>5, MarkOwnership, PTL
<1> QED BY <1>6 DEF Cleared

-----------------------------------------------------------------------------
(* The fault latch of the scheduler alone *)

\* Nothing but the scheduler works on jobs, and no script ends by an exception
\* without a message.
Undisturbed == ManualThreads = {} /\ MaxEdits = 0 /\ "nullfault" \notin Outcomes

\* The list has one entry for each job, and it shows the job's row.
ListCurrent ==
  /\ \A i, k \in pass : i.job = k.job => i = k
  /\ \A i \in pass : /\ i.job \notin unused
                     /\ i.snap.runStatus # "R"
                     /\ row[i.job] \in {NoRow, i.snap}

\* The job at work is no longer in the list ...
WorkApart ==
  exec[Scheduler].pc # "idle"
    => Job(Scheduler) \notin unused /\ \A i \in pass : i.job # Job(Scheduler)

\* ... its row is as the list showed it, until it is marked ...
WorkCurrent ==
  exec[Scheduler].pc = "begin"
    => Snap(Scheduler).runStatus # "R" /\ row[Job(Scheduler)] \in {NoRow, Snap(Scheduler)}

\* ... and what is written in the end tells whether the script failed.
WorkTells ==
  exec[Scheduler].pc = "finish"
    => exec[Scheduler].run \in {"Y", "F"} /\ (exec[Scheduler].ok \/ exec[Scheduler].run = "F")

\* The row of a job whose last script failed shows it, unless the job is at work.
FailureShown ==
  \A j \in failed : j \notin unused /\ (row[j] = NoRow \/ row[j].runStatus \in {"F", "R"})

LatchInv ==
  /\ editing = {} /\ edits = 0
  /\ ListCurrent /\ WorkApart /\ WorkCurrent /\ WorkTells /\ FailureShown
  /\ CheckFaultStops

\* A step that leaves the rows, the list and the executions alone disturbs nothing.
LEMMA LatchUnmoved ==
  ASSUME LatchInv, UNCHANGED <<row, unused, pass, exec, editing, edits, failed>>
  PROVE  LatchInv'
BY DEF LatchInv, ListCurrent, WorkApart, WorkCurrent, WorkTells, FailureShown,
       CheckFaultStops, Job, Snap

\* No step of the scheduler, of an administrator who creates or deletes, or of
\* a crash makes the latch miss a fault.
LEMMA LatchInvStep ==
  ASSUME Undisturbed, TypeOK, TypeOK', UnusedRows, LatchInv, [Next]_vars
  PROVE  LatchInv'
<1> USE ConstantsAssumption
<1> DEFINE me == Scheduler
<1>t. \A t \in Threads : t = me BY DEF Undisturbed
<1>1. CASE Fire
  <2>1. ListCurrent'
    BY <1>1 DEF Fire, Due, ListCurrent, UnusedRows, rowVars, TypeOK
  <2> QED
    BY <1>1, <2>1 DEF Fire, LatchInv, WorkApart, WorkCurrent, WorkTells,
       FailureShown, CheckFaultStops, Job, Snap, rowVars, adminVars
<1>2. CASE Submit
  <2>1. PICK item \in pass : Launch(me, item) /\ pass' = pass \ {item}
    BY <1>2 DEF Submit
  <2>2. exec'[me].pc = "begin" /\ exec'[me].item = item
    BY <2>1 DEF Launch, TypeOK, Idle
  <2>3. Job(me)' = item.job /\ Snap(me)' = item.snap
    BY <2>2 DEF Job, Snap
  <2>4. UNCHANGED <<row, unused, editing, edits, failed>>
    BY <1>2 DEF Submit, rowVars, adminVars
  <2>5. ListCurrent' BY <2>1, <2>4 DEF LatchInv, ListCurrent
  <2>6. WorkApart' /\ WorkCurrent'
    BY <2>1, <2>3, <2>4 DEF LatchInv, ListCurrent, WorkApart, WorkCurrent
  <2>7. WorkTells' /\ FailureShown' /\ CheckFaultStops'
    BY <1>t, <2>2, <2>4 DEF LatchInv, WorkTells, FailureShown, CheckFaultStops
  <2> QED BY <2>4, <2>5, <2>6, <2>7 DEF LatchInv
<1>3. CASE \E t \in ManualThreads, j \in Jobs : Manual(t, j)
  BY <1>3 DEF Undisturbed
<1>4. CASE \E t \in Threads : Call(t)
  <2>0. Call(me) BY <1>4, <1>t
  <2>1. CASE Refuse(me) \/ MarkFails(me)
    <3>1. /\ exec'[me].pc = "finish" /\ exec'[me].run = "F"
          /\ exec'[me].item = exec[me].item
      BY <2>1 DEF Refuse, MarkFails, Outcome, TypeOK, Execution
    <3>2. UNCHANGED <<row, unused, pass, editing, edits, failed>> /\ exec[me].pc # "idle"
      BY <2>1 DEF Refuse, MarkFails, rowVars, adminVars
    <3> QED
      BY <1>t, <3>1, <3>2 DEF LatchInv, ListCurrent, WorkApart, WorkCurrent, WorkTells,
         FailureShown, CheckFaultStops, Job, Snap
  <2>2. CASE Mark(me)
    <3>1. exec'[me].pc = "script" /\ exec'[me].item = exec[me].item
      BY <2>2 DEF Mark, TypeOK, Execution
    <3>2. UNCHANGED <<unused, pass, editing, edits, failed>>
      BY <2>2 DEF Mark, adminVars
    <3>3. Job(me)' = Job(me) /\ Snap(me)' = Snap(me) BY <3>1 DEF Job, Snap
    <3>4. Job(me) \in Jobs /\ Snap(me) \in Row
      BY <2>2, WrittenRow DEF Mark, RunStatus
    <3>5. /\ \A j \in Jobs : j # Job(me) => row'[j] = row[j]
          /\ row'[Job(me)].runStatus = "R"
      BY <2>2, <3>4 DEF Mark, TypeOK, Row
    <3>6. ListCurrent' /\ WorkApart' /\ WorkCurrent' /\ WorkTells'
      <4>1. \A i \in pass : i.job # Job(me) /\ i.job \in Jobs
        BY <2>2 DEF Mark, LatchInv, WorkApart, TypeOK, Item
      <4> QED
        BY <2>2, <3>1, <3>2, <3>3, <3>5, <4>1
        DEF Mark, LatchInv, ListCurrent, WorkApart, WorkCurrent, WorkTells
    <3>7. FailureShown' BY <3>2, <3>5 DEF LatchInv, FailureShown, TypeOK
    <3>8. Snap(me).form.checkFault => Job(me) \notin failed
      BY <2>2 DEF Mark, Refuses, FaultLatched, LatchInv, WorkCurrent, FailureShown
    <3>9. CheckFaultStops' BY <1>t, <3>2, <3>3, <3>8 DEF CheckFaultStops
    <3> QED BY <3>2, <3>6, <3>7, <3>9 DEF LatchInv
  <2>3. ASSUME NEW o \in Outcomes, Script(me, o) PROVE LatchInv'
    <3>0. CASE o = "ok"
      <4>1. Outcome(me, "Y", "Y", TRUE, FALSE) BY <2>3, <3>0 DEF Script
      <4>2. /\ exec'[me].pc = "finish" /\ exec'[me].run = "Y" /\ exec'[me].ok
            /\ exec'[me].item = exec[me].item
        BY <4>1 DEF Outcome, TypeOK, Execution
      <4> QED
        BY <1>t, <2>3, <4>2 DEF Script, LatchInv, ListCurrent, WorkApart, WorkCurrent, WorkTells,
           FailureShown, CheckFaultStops, Job, Snap, rowVars, adminVars
    <3>1. CASE o = "fault"
      <4>1. Outcome(me, "F", "F", FALSE, FALSE) BY <2>3, <3>1 DEF Script
      <4>2. /\ exec'[me].pc = "finish" /\ exec'[me].run = "F"
            /\ exec'[me].item = exec[me].item
        BY <4>1 DEF Outcome, TypeOK, Execution
      <4> QED
        BY <1>t, <2>3, <4>2 DEF Script, LatchInv, ListCurrent, WorkApart, WorkCurrent, WorkTells,
           FailureShown, CheckFaultStops, Job, Snap, rowVars, adminVars
    <3> QED BY <3>0, <3>1 DEF Undisturbed, ScriptOutcome
  <2>4. CASE Finish(me)
    <3>1. exec'[me].pc = "log" /\ exec'[me].item = exec[me].item
      BY <2>4 DEF Finish, TypeOK, Execution
    <3>2. UNCHANGED <<unused, pass, editing, edits>>
      BY <2>4 DEF Finish, adminVars
    <3>3. Job(me)' = Job(me) BY <3>1 DEF Job
    <3>4. Job(me) \in Jobs /\ Snap(me) \in Row
      BY <2>4, WrittenRow DEF Finish, RunStatus
    <3>5. /\ \A j \in Jobs : j # Job(me) => row'[j] = row[j]
          /\ row'[Job(me)].runStatus = exec[me].run
      BY <2>4, <3>4 DEF Finish, TypeOK, Row
    <3>6. ListCurrent' /\ WorkApart' /\ WorkCurrent' /\ WorkTells'
      <4>1. \A i \in pass : i.job # Job(me) /\ i.job \in Jobs
        BY <2>4 DEF Finish, LatchInv, WorkApart, TypeOK, Item
      <4> QED
        BY <2>4, <3>1, <3>2, <3>3, <3>5, <4>1
        DEF Finish, LatchInv, ListCurrent, WorkApart, WorkCurrent, WorkTells
    <3>7. FailureShown'
      <4>1. Job(me) \in failed' => exec[me].run = "F"
        BY <2>4 DEF Finish, LatchInv, WorkTells
      <4>2. failed' \subseteq failed \cup {Job(me)} BY <2>4 DEF Finish
      <4>3. Job(me) \notin unused BY <2>4 DEF Finish, LatchInv, WorkApart
      <4> QED BY <3>2, <3>5, <4>1, <4>2, <4>3 DEF LatchInv, FailureShown, TypeOK
    <3>8. CheckFaultStops' BY <1>t, <3>1 DEF CheckFaultStops
    <3> QED BY <3>2, <3>6, <3>7, <3>8 DEF LatchInv
  <2>5. CASE Log(me)
    <3>1. exec'[me].pc = "mail" /\ exec'[me].item = exec[me].item
      BY <2>5 DEF Log, TypeOK, Execution
    <3> QED
      BY <1>t, <2>5, <3>1 DEF Log, LatchInv, ListCurrent, WorkApart, WorkCurrent, WorkTells,
         FailureShown, CheckFaultStops, Job, Snap, rowVars, adminVars
  <2>6. CASE FinishFails(me) \/ LogFails(me) \/ Mail(me)
    <3>1. exec'[me].pc = "idle"
      BY <2>6, IdleType DEF FinishFails, LogFails, Mail, Return, TypeOK
    <3>2. UNCHANGED <<row, unused, editing, edits, failed>> /\ pass' \subseteq pass
      BY <2>6 DEF FinishFails, LogFails, Mail, Return, rowVars, adminVars
    <3> QED
      BY <1>t, <3>1, <3>2 DEF LatchInv, ListCurrent, WorkApart, WorkCurrent, WorkTells,
         FailureShown, CheckFaultStops
  <2> QED BY <2>0, <2>1, <2>2, <2>3, <2>4, <2>5, <2>6 DEF Call
<1>5. ASSUME NEW j \in Jobs, DeleteJob(j)
      PROVE  LatchInv'
  <2>1. \A k \in Jobs : row'[k] \in {row[k], NoRow} BY <1>5 DEF DeleteJob, TypeOK
  <2>2. UNCHANGED <<unused, pass, exec, editing, edits, failed>>
    BY <1>5 DEF DeleteJob, runVars, adminVars
  <2>3. ListCurrent' BY <2>1, <2>2 DEF LatchInv, ListCurrent, TypeOK, Item
  <2>4. WorkCurrent'
    BY <2>1, <2>2 DEF LatchInv, WorkCurrent, TypeOK, Item, Job, Snap
  <2>5. FailureShown' BY <2>1, <2>2 DEF LatchInv, FailureShown, TypeOK
  <2> QED
    BY <2>2, <2>3, <2>4, <2>5
    DEF LatchInv, WorkApart, WorkTells, CheckFaultStops, Job, Snap
<1>6. ASSUME NEW j \in Jobs, NEW form \in Forms, CreateJob(j, form)
      PROVE  LatchInv'
  <2>1. \A k \in Jobs : k # j => row'[k] = row[k] BY <1>6 DEF CreateJob, TypeOK
  <2>2. UNCHANGED <<pass, exec, editing, edits, failed>> /\ unused' = unused \ {j}
        /\ j \in unused
    BY <1>6 DEF CreateJob, runVars, adminVars
  <2>3. ListCurrent' BY <2>1, <2>2 DEF LatchInv, ListCurrent, TypeOK, Item
  <2>4. WorkCurrent' /\ WorkApart'
    BY <2>1, <2>2 DEF LatchInv, WorkCurrent, WorkApart, TypeOK, Item, Job, Snap
  <2>5. FailureShown' BY <2>1, <2>2 DEF LatchInv, FailureShown, TypeOK
  <2> QED
    BY <2>2, <2>3, <2>4, <2>5 DEF LatchInv, WorkTells, CheckFaultStops, Job, Snap
<1>7. ASSUME NEW j \in Jobs, NEW form \in Forms, ReadForUpdate(j, form)
      PROVE  FALSE
  BY <1>7 DEF ReadForUpdate, Undisturbed, TypeOK
<1>8. ASSUME NEW e \in editing
      PROVE  FALSE
  BY <1>8 DEF LatchInv
<1>9. CASE Crash
  <2>1. \A t \in Threads : exec'[t].pc = "idle" BY <1>9, IdleType DEF Crash
  <2> QED
    BY <1>9, <2>1 DEF Crash, LatchInv, ListCurrent, WorkApart, WorkCurrent, WorkTells,
       FailureShown, CheckFaultStops, rowVars
<1>10. CASE UNCHANGED vars
  BY <1>10, LatchUnmoved DEF vars, rowVars, runVars, adminVars
<1> QED
  BY <1>1, <1>2, <1>3, <1>4, <1>5, <1>6, <1>7, <1>8, <1>9, <1>10 DEF Next, Admin

\* "Before proccess fault, cannot execute expression job!" is true of the
\* scheduler by itself, whatever crashes, fails, is created or deleted: only
\* manual executions, edits and exceptions without a message defeat the latch.
THEOREM LatchHoldsAlone == Undisturbed => (Spec => []CheckFaultStops)
<1> SUFFICES ASSUME Undisturbed PROVE Spec => []CheckFaultStops
  OBVIOUS
<1>1. Init => LatchInv
  BY IdleType DEF Init, LatchInv, ListCurrent, WorkApart, WorkCurrent, WorkTells,
     FailureShown, CheckFaultStops
<1>2. TypeOK /\ TypeOK' /\ UnusedRows /\ LatchInv /\ [Next]_vars => LatchInv'
  BY LatchInvStep
<1>3. QuietInv => UnusedRows BY DEF QuietInv
<1>4. LatchInv => CheckFaultStops BY DEF LatchInv
<1> QED BY <1>1, <1>2, <1>3, <1>4, TypeCorrect, QuietInvariant, PTL DEF Spec

\* Without a crash, a failing database call and an edit no row is ever left in
\* state "R": every marked row has its execution, deletions or not.
THEOREM NoMarkIsLost ==
  MaxCrashes = 0 /\ MaxDbFaults = 0 /\ MaxEdits = 0
    => (Spec => [](\A j \in Jobs : Marked(j) => Owned(j)))
<1> SUFFICES ASSUME MaxCrashes = 0, MaxDbFaults = 0, MaxEdits = 0
             PROVE  Spec => [](\A j \in Jobs : Marked(j) => Owned(j))
  OBVIOUS
<1> DEFINE NoneLeft == abandoned = {} /\ editing = {}
<1>1. Init => NoneLeft BY DEF Init
<1>2. TypeOK /\ NoneLeft /\ [Next]_vars => NoneLeft'
  <2> SUFFICES ASSUME TypeOK, NoneLeft, [Next]_vars PROVE NoneLeft'
    OBVIOUS
  <2>1. ASSUME NEW t \in Threads, Call(t) PROVE NoneLeft'
    <3>1. ~DbFault BY DEF DbFault, TypeOK
    <3>2. CASE FinishFails(t)
      BY <3>1, <3>2 DEF FinishFails, adminVars
    <3> QED
      BY <2>1, <3>1, <3>2 DEF Call, Refuse, Mark, MarkFails, Script, Finish, Log,
         LogFails, Mail, adminVars
  <2>2. CASE Admin
    BY <2>2 DEF Admin, DeleteJob, CreateJob, ReadForUpdate, adminVars, TypeOK
  <2>3. ~Crash BY DEF Crash, TypeOK
  <2> QED
    BY <2>1, <2>2, <2>3 DEF Next, Fire, Submit, Manual, vars, adminVars
<1>3. NoneLeft /\ MarkedIsOwned => \A j \in Jobs : Marked(j) => Owned(j)
  BY DEF MarkedIsOwned
<1> QED BY <1>1, <1>2, <1>3, TypeCorrect, MarkOwnership, PTL DEF Spec
=============================================================================
