--------------------------- MODULE ExpressionJob ---------------------------
(***************************************************************************)
(* The scheduled "expression jobs" of the admin backend.                   *)
(*                                                                         *)
(* A row of tb_sys_expr_job names a script (tb_sys_expression), a schedule *)
(* and a RUN_STATUS.  Three kinds of actor read and write these rows:      *)
(*   - the Quartz job SysExpressionJobImpl, fired every minute and never   *)
(*     concurrently with itself, takes one snapshot of all due rows and    *)
(*     executes them one after the other (executeJobs);                    *)
(*   - manual executions, each a thread of its own (executeJobForManual);  *)
(*   - administrators, who create, edit and delete rows.                   *)
(*                                                                         *)
(* Every write of a row is a write of the WHOLE row from the writer's copy *)
(* (BaseService.updateObject; no version column), and each database call   *)
(* is a transaction of its own, so an execution is a sequence of steps     *)
(* between which every other actor may act:                                *)
(*   begin  -> mark the row "R"        script -> run the expression        *)
(*   finish -> write the final status  log    -> insert the log row        *)
(*   mail   -> enqueue the notification (sendMail)                         *)
(***************************************************************************)
EXTENDS Naturals, FiniteSets

CONSTANTS
  Jobs,           \* OIDs of rows of tb_sys_expr_job
  ManualThreads,  \* threads of executeJobForManual (model values)
  Scheduler,      \* the Quartz thread running SysExpressionJobImpl
  NoRow,          \* "no such row"
  NoJob,          \* an idle thread's job
  Forms,          \* the editable columns an administrator may submit
  Instants,       \* clock readings: [firstDow, dow, hour, minute]
  Outcomes,       \* how a script can end: subset of ScriptOutcome
  MaxEdits,       \* bound: edits an administrator starts
  MaxCrashes,     \* bound: crashes of the server
  MaxDbFaults     \* bound: failing database calls inside an execution

ScriptOutcome == {"ok", "fault", "nullfault"}
Threads == ManualThreads \cup {Scheduler}

FinalStatus == {"", "Y", "F"}
RunStatus == FinalStatus \cup {"R"}
LogStatus == {"", "Y", "F", "N"}
ContactMode == {"NO", "ONLY_FAULT", "ONLY_SUCCESS", "ALL"}

\* The columns of a job row an administrator edits; content stands for the
\* expression the row refers to: its script, an empty one, or a missing row.
Form == [active : BOOLEAN, checkFault : BOOLEAN, contactMode : ContactMode,
         content : {"script", "blank", "missing"},
         dayOfWeek : STRING, hour : STRING, minute : STRING]

\* rev numbers the committed edit the editable columns come from.
Row == [runStatus : RunStatus, form : Forms, rev : Nat]

\* An entry of executeJobs' list, and the unit an execution works on.
Item == [job : Jobs, snap : Row]

Pc == {"idle", "begin", "script", "finish", "log", "mail"}

\* An execution: ok is what its script really did, throws says that call()
\* ends by an exception after its finally block.
Execution == [pc : Pc, item : Item \cup {NoJob}, run : FinalStatus, log : LogStatus,
              ok : BOOLEAN, throws : BOOLEAN]
Idle == [pc |-> "idle", item |-> NoJob, run |-> "", log |-> "", ok |-> TRUE,
         throws |-> FALSE]

Edit == [job : Jobs, runStatus : RunStatus, form : Forms]

ASSUME ConstantsAssumption ==
  /\ Scheduler \notin ManualThreads
  /\ Forms \subseteq Form
  /\ Instants \subseteq [firstDow : STRING, dow : STRING, hour : STRING, minute : STRING]
  /\ NoRow \notin Row
  /\ NoJob \notin Item
  /\ Outcomes \subseteq ScriptOutcome
  /\ MaxEdits \in Nat /\ MaxCrashes \in Nat /\ MaxDbFaults \in Nat

VARIABLES
  row,       \* tb_sys_expr_job, by OID
  unused,    \* OIDs never inserted yet
  firedAt,   \* the clock reading of the last pass
  pass,      \* executeJobs' list, what is left of it
  exec,      \* the executions in flight, by thread
  logged,    \* LOG_STATUS of each job's newest row in tb_sys_expr_job_log
  outbox,    \* RUN_STATUS each job's newest notification reports
  editing,   \* admin updates between their read and their write
  edits, crashes, dbFaults,  \* how much of each bound is used
  latest,    \* history: number of edits committed, by job
  quiet,     \* history: jobs whose last edit met no snapshot in memory
  abandoned, \* history: rows left "R" by a crash, a failed write, a stale edit
  failed     \* history: jobs whose last finished script failed

rowVars == <<row, unused>>
runVars == <<firedAt, pass, exec, logged, outbox>>
adminVars == <<editing, edits, latest, quiet>>
vars == <<rowVars, runVars, adminVars, crashes, dbFaults, abandoned, failed>>
-----------------------------------------------------------------------------
(* The schedule *)

Matches(field, value) == field \in {"*", value}

\* isRunTime: getExpressionJobs passes getDayOfWeek(year, month), which is the
\* day of week of the FIRST day of the month.
IsRunTime(form, now) ==
  /\ Matches(form.dayOfWeek, now.firstDow)
  /\ Matches(form.hour, now.hour)
  /\ Matches(form.minute, now.minute)

\* getExpressionJobs' filter over the active rows of this system.
Due(j, now) ==
  /\ row[j] # NoRow
  /\ row[j].form.active
  /\ row[j].runStatus # "R"
  /\ IsRunTime(row[j].form, now)
  /\ row[j].form.content # "missing"

Snapshots == pass \cup {exec[t].item : t \in {u \in Threads : exec[u].pc # "idle"}}
Marking(t, j) == exec[t].pc \in {"script", "finish"} /\ exec[t].item.job = j
Owned(j) == \E t \in Threads : Marking(t, j)

Init ==
  /\ unused \in SUBSET Jobs
  /\ row \in [Jobs -> [runStatus : {"Y"}, form : Forms, rev : {0}] \cup {NoRow}]
  /\ \A j \in Jobs : row[j] = NoRow <=> j \in unused
  /\ firedAt \in Instants /\ pass = {}
  /\ exec = [t \in Threads |-> Idle]
  /\ logged = [j \in Jobs |-> "none"] /\ outbox = [j \in Jobs |-> "none"]
  /\ editing = {}
  /\ edits = 0 /\ crashes = 0 /\ dbFaults = 0
  /\ latest = [j \in Jobs |-> 0]
  /\ quiet = Jobs
  /\ abandoned = {} /\ failed = {}
-----------------------------------------------------------------------------
(* Starting executions *)

\* SysExpressionJobImpl.executeInternal -> executeJobs -> getExpressionJobs.
\* Quartz does not fire the job again before the last pass has returned.
Fire ==
  /\ pass = {} /\ exec[Scheduler].pc = "idle"
  /\ firedAt' \in Instants
  /\ pass' = {[job |-> j, snap |-> row[j]] : j \in {k \in Jobs : Due(k, firedAt')}}
  /\ UNCHANGED <<rowVars, exec, logged, outbox, adminVars, crashes, dbFaults,
                 abandoned, failed>>

\* Mutation of Launch: the callable is built without its job.
LaunchWithoutJob(t, item) == exec' = [exec EXCEPT ![t] = [Idle EXCEPT !.pc = "begin"]]

Launch(t, item) ==
  exec' = [exec EXCEPT ![t] = [Idle EXCEPT !.pc = "begin", !.item = item]]

\* Mutation of Submit: the loop does not advance.
SubmitForever ==
  /\ exec[Scheduler].pc = "idle"
  /\ \E item \in pass : Launch(Scheduler, item) /\ UNCHANGED pass
  /\ UNCHANGED <<firedAt, rowVars, logged, outbox, adminVars, crashes, dbFaults,
                 abandoned, failed>>

\* submit(...).get(): one entry of the list at a time, in the list's order,
\* which the query leaves open.
Submit ==
  /\ exec[Scheduler].pc = "idle"
  /\ \E item \in pass : Launch(Scheduler, item) /\ pass' = pass \ {item}
  /\ UNCHANGED <<firedAt, rowVars, logged, outbox, adminVars, crashes, dbFaults,
                 abandoned, failed>>

\* executeJobForManual: by OID, whatever the row's status, schedule or flag.
Manual(t, j) ==
  /\ exec[t].pc = "idle"
  /\ row[j] # NoRow /\ row[j].form.content # "missing"
  /\ Launch(t, [job |-> j, snap |-> row[j]])
  /\ UNCHANGED <<firedAt, rowVars, pass, logged, outbox, adminVars, crashes, dbFaults,
                 abandoned, failed>>
-----------------------------------------------------------------------------
(* ExpressionJobExecuteCallable.call, for the execution of thread t *)

Job(t) == exec[t].item.job
Snap(t) == exec[t].item.snap
FaultLatched(r) == r.form.checkFault /\ r.runStatus = "F"

\* The results the finally block will write.
Outcome(t, run, log, ok, throws) ==
  exec' = [exec EXCEPT ![t].pc = "finish", ![t].run = run, ![t].log = log,
                       ![t].ok = ok, ![t].throws = throws]

\* call() returns or throws; executeJobs' get() turns a throw into an
\* ExecutionException, which drops the rest of the list.
Return(t, throws) ==
  /\ exec' = [exec EXCEPT ![t] = Idle]
  /\ pass' = IF throws /\ t = Scheduler THEN {} ELSE pass

DbFault == dbFaults < MaxDbFaults /\ dbFaults' = dbFaults + 1

\* Mutation of Refuses: the CHECK_FAULT test is dropped.
RefusesOnlyBlank(t) == Snap(t).form.content = "blank"

\* No content, or CHECK_FAULT set and the snapshot's status a fault.
Refuses(t) == Snap(t).form.content = "blank" \/ FaultLatched(Snap(t))

Refuse(t) ==
  /\ exec[t].pc = "begin" /\ Refuses(t)
  /\ Outcome(t, "F", "N", TRUE, FALSE)
  /\ UNCHANGED <<firedAt, rowVars, pass, logged, outbox, adminVars, crashes, dbFaults,
                 abandoned, failed>>

\* updateObject of the snapshot with RUN_STATUS "R".
Mark(t) ==
  /\ exec[t].pc = "begin" /\ ~Refuses(t) /\ row[Job(t)] # NoRow
  /\ row' = [row EXCEPT ![Job(t)] = [Snap(t) EXCEPT !.runStatus = "R"]]
  /\ exec' = [exec EXCEPT ![t].pc = "script"]
  /\ UNCHANGED <<firedAt, unused, pass, logged, outbox, adminVars, crashes, dbFaults,
                 abandoned, failed>>

\* updateObject throws: the row is gone, or the database call fails.
MarkFails(t) ==
  /\ exec[t].pc = "begin" /\ ~Refuses(t)
  /\ \/ row[Job(t)] = NoRow /\ UNCHANGED dbFaults
     \/ DbFault
  /\ Outcome(t, "F", "F", TRUE, FALSE)
  /\ UNCHANGED <<firedAt, rowVars, pass, logged, outbox, adminVars, crashes,
                 abandoned, failed>>

\* Mutation of Script: the finally block is lost, an exception that leaves the
\* catch block ends the call at once.
ScriptWithoutFinally(t, outcome) ==
  /\ exec[t].pc = "script"
  /\ CASE outcome = "ok"        -> Outcome(t, "Y", "Y", TRUE, FALSE) /\ UNCHANGED pass
       [] outcome = "fault"     -> Outcome(t, "F", "F", FALSE, FALSE) /\ UNCHANGED pass
       [] outcome = "nullfault" -> Return(t, TRUE)
  /\ UNCHANGED <<firedAt, rowVars, logged, outbox, adminVars, crashes, dbFaults,
                 abandoned, failed>>

\* The script ends.  An exception without a message makes the catch block
\* itself throw before it has set the statuses.
Script(t, outcome) ==
  /\ exec[t].pc = "script"
  /\ CASE outcome = "ok"        -> Outcome(t, "Y", "Y", TRUE, FALSE)
       [] outcome = "fault"     -> Outcome(t, "F", "F", FALSE, FALSE)
       [] outcome = "nullfault" -> Outcome(t, "", "", FALSE, TRUE)
  /\ UNCHANGED <<firedAt, rowVars, pass, logged, outbox, adminVars, crashes, dbFaults,
                 abandoned, failed>>

\* Mutation of Finish: the final status stays in memory.
FinishUnwritten(t) ==
  /\ exec[t].pc = "finish" /\ row[Job(t)] # NoRow
  /\ exec' = [exec EXCEPT ![t].pc = "log"]
  /\ UNCHANGED <<firedAt, rowVars, pass, logged, outbox, adminVars, crashes, dbFaults,
                 abandoned, failed>>

\* finally: updateObject of the snapshot with the final status.
Finish(t) ==
  /\ exec[t].pc = "finish" /\ row[Job(t)] # NoRow
  /\ row' = [row EXCEPT ![Job(t)] = [Snap(t) EXCEPT !.runStatus = exec[t].run]]
  /\ exec' = [exec EXCEPT ![t].pc = "log"]
  /\ abandoned' = abandoned \ {Job(t)}
  /\ failed' = CASE ~exec[t].ok -> failed \cup {Job(t)}
                 [] exec[t].run = "Y" -> failed \ {Job(t)}
                 [] OTHER -> failed
  /\ UNCHANGED <<firedAt, unused, pass, logged, outbox, adminVars, crashes, dbFaults>>

\* The write in the finally block throws: no log row, no notification.
FinishFails(t) ==
  /\ exec[t].pc = "finish"
  /\ \/ row[Job(t)] = NoRow /\ UNCHANGED dbFaults
     \/ DbFault
  /\ abandoned' = IF row[Job(t)] # NoRow /\ row[Job(t)].runStatus = "R"
                  THEN abandoned \cup {Job(t)} ELSE abandoned
  /\ Return(t, TRUE)
  /\ UNCHANGED <<firedAt, rowVars, logged, outbox, adminVars, crashes, failed>>

\* saveObject of the log row.
Log(t) ==
  /\ exec[t].pc = "log"
  /\ logged' = [logged EXCEPT ![Job(t)] = exec[t].log]
  /\ exec' = [exec EXCEPT ![t].pc = "mail"]
  /\ UNCHANGED <<firedAt, rowVars, pass, outbox, adminVars, crashes, dbFaults,
                 abandoned, failed>>

LogFails(t) ==
  /\ exec[t].pc = "log" /\ DbFault
  /\ Return(t, TRUE)
  /\ UNCHANGED <<firedAt, rowVars, logged, outbox, adminVars, crashes, abandoned, failed>>

Notifies(mode, run) ==
  /\ mode # "NO"
  /\ mode = "ONLY_FAULT" => run = "F"
  /\ mode = "ONLY_SUCCESS" => run = "Y"

\* sendMail swallows its own failures; then call() ends.
Mail(t) ==
  /\ exec[t].pc = "mail"
  /\ \/ UNCHANGED outbox
     \/ /\ Notifies(Snap(t).form.contactMode, exec[t].run)
        /\ outbox' = [outbox EXCEPT ![Job(t)] = exec[t].run]
  /\ Return(t, exec[t].throws)
  /\ UNCHANGED <<firedAt, rowVars, logged, adminVars, crashes, dbFaults, abandoned, failed>>

Call(t) ==
  \/ Refuse(t) \/ Mark(t) \/ MarkFails(t)
  \/ \E o \in Outcomes : Script(t, o)
  \/ Finish(t) \/ FinishFails(t) \/ Log(t) \/ LogFails(t) \/ Mail(t)
-----------------------------------------------------------------------------
(* SystemExpressionLogicServiceImpl: the administrators *)

CreateJob(j, form) ==
  /\ j \in unused /\ form.content # "missing"
  /\ row' = [row EXCEPT ![j] = [runStatus |-> "Y", form |-> form, rev |-> 0]]
  /\ unused' = unused \ {j}
  /\ UNCHANGED <<runVars, adminVars, crashes, dbFaults, abandoned, failed>>

Restored(status) == IF status = "" THEN "F" ELSE status

\* updateJob reads the stored RUN_STATUS in a transaction of its own (a blank
\* one becomes a fault) ...
ReadForUpdate(j, form) ==
  /\ edits < MaxEdits /\ row[j] # NoRow /\ form.content # "missing"
  /\ editing' = editing \cup
       {[job |-> j, form |-> form, runStatus |-> Restored(row[j].runStatus)]}
  /\ edits' = edits + 1
  /\ UNCHANGED <<rowVars, runVars, latest, quiet, crashes, dbFaults, abandoned, failed>>

\* Mutation of UpdateJob: the status is written back, the form is not.
UpdateJobStatusOnly(e) ==
  /\ row[e.job] # NoRow
  /\ latest' = [latest EXCEPT ![e.job] = @ + 1]
  /\ row' = [row EXCEPT ![e.job].runStatus = e.runStatus]
  /\ editing' = editing \ {e}
  /\ quiet' = IF \E i \in Snapshots : i.job = e.job
              THEN quiet \ {e.job} ELSE quiet \cup {e.job}
  /\ abandoned' = IF e.runStatus = "R" THEN abandoned \cup {e.job}
                                       ELSE abandoned \ {e.job}
  /\ UNCHANGED <<unused, runVars, edits, crashes, dbFaults, failed>>

\* ... and writes it back with the form.
UpdateJob(e) ==
  /\ row[e.job] # NoRow
  /\ latest' = [latest EXCEPT ![e.job] = @ + 1]
  /\ row' = [row EXCEPT ![e.job] =
       [runStatus |-> e.runStatus, form |-> e.form, rev |-> latest[e.job] + 1]]
  /\ editing' = editing \ {e}
  /\ quiet' = IF \E i \in Snapshots : i.job = e.job
              THEN quiet \ {e.job} ELSE quiet \cup {e.job}
  /\ abandoned' = IF e.runStatus = "R" THEN abandoned \cup {e.job}
                                       ELSE abandoned \ {e.job}
  /\ UNCHANGED <<unused, runVars, edits, crashes, dbFaults, failed>>

\* updateJob's write finds no row any more and throws.
UpdateJobFails(e) ==
  /\ row[e.job] = NoRow
  /\ editing' = editing \ {e}
  /\ UNCHANGED <<rowVars, runVars, edits, latest, quiet, crashes, dbFaults,
                 abandoned, failed>>

DeleteJob(j) ==
  /\ row[j] # NoRow
  /\ row' = [row EXCEPT ![j] = NoRow]
  /\ UNCHANGED <<unused, runVars, adminVars, crashes, dbFaults, abandoned, failed>>

Admin ==
  \/ \E j \in Jobs : DeleteJob(j)
  \/ \E j \in Jobs, form \in Forms : CreateJob(j, form) \/ ReadForUpdate(j, form)
  \/ \E e \in editing : UpdateJob(e) \/ UpdateJobFails(e)

\* The server dies and starts again.  Nothing calls initRunStatusFlag.
Crash ==
  /\ crashes < MaxCrashes /\ crashes' = crashes + 1
  /\ pass' = {} /\ exec' = [t \in Threads |-> Idle] /\ editing' = {}
  /\ abandoned' = abandoned \cup {j \in Jobs : Owned(j)}
  /\ UNCHANGED <<firedAt, rowVars, logged, outbox, edits, latest, quiet, dbFaults, failed>>
-----------------------------------------------------------------------------
Next ==
  \/ Fire \/ Submit
  \/ \E t \in ManualThreads, j \in Jobs : Manual(t, j)
  \/ \E t \in Threads : Call(t)
  \/ Admin \/ Crash

Spec == Init /\ [][Next]_vars

\* Quartz keeps firing, and every thread that can take a step takes one: the
\* scripts are assumed to end.
Fairness == WF_vars(Fire) /\ WF_vars(Submit) /\ \A t \in Threads : WF_vars(Call(t))
FairSpec == Spec /\ Fairness
-----------------------------------------------------------------------------
\* The type invariant: the columns and the executions keep their domains.
TypeOK ==
  /\ row \in [Jobs -> Row \cup {NoRow}]
  /\ unused \subseteq Jobs
  /\ firedAt \in Instants /\ pass \subseteq Item
  /\ exec \in [Threads -> Execution]
  /\ \A t \in Threads : exec[t].pc # "idle" => exec[t].item \in Item
  /\ logged \in [Jobs -> LogStatus \cup {"none"}]
  /\ outbox \in [Jobs -> FinalStatus \cup {"none"}]
  /\ editing \subseteq Edit
  /\ edits \in Nat /\ crashes \in Nat /\ dbFaults \in Nat
  /\ latest \in [Jobs -> Nat]
  /\ quiet \subseteq Jobs /\ abandoned \subseteq Jobs /\ failed \subseteq Jobs

Marked(j) == row[j] # NoRow /\ row[j].runStatus = "R"

\* A row in state "R" belongs to an execution that will still write it, unless
\* a crash, a failed final write or a stale administrator's write left it so.
MarkedIsOwned == \A j \in Jobs : Marked(j) => Owned(j) \/ j \in abandoned

\* An administrator's edit committed while no execution holds a copy of the row
\* is what the row keeps showing: only overlapping executions undo edits.
QuietEditKept == \A j \in quiet : row[j] # NoRow => row[j].rev = latest[j]

\* Why: the copies of such a row in memory are of its last edit, and a row not
\* inserted yet has not been edited.
QuietCopies ==
  \A j \in quiet : \A i \in Snapshots : i.job = j => i.snap.rev = latest[j]
UnusedRows == \A j \in unused : row[j] = NoRow /\ latest[j] = 0

LeavesLatch(j) ==
  /\ row[j] # NoRow /\ FaultLatched(row[j])
  /\ row'[j] # NoRow /\ row'[j].runStatus # "F"
StaleCopy(j) ==
  \/ \E t \in Threads : /\ exec[t].pc \in {"begin", "finish"} /\ Job(t) = j
                         /\ ~FaultLatched(Snap(t))
  \/ \E e \in editing : e.job = j /\ e.runStatus # "F"
\* A row leaves the fault that CHECK_FAULT latches only through an execution or
\* an administrator's write that had read the row before it was latched.
LatchLeftByStaleCopies == [][\A j \in Jobs : LeavesLatch(j) => StaleCopy(j)]_vars

\* Every pass of the scheduler comes to an end, whatever its jobs do.
PassEnds == pass # {} ~> pass = {} /\ exec[Scheduler].pc = "idle"

\* A row in state "R" leaves that state, unless a crash, a failed final write
\* or a stale administrator's write has left it there.
MarkIsCleared == \A j \in Jobs : Marked(j) ~> ~Marked(j) \/ j \in abandoned

\* Every script that was started gets its row in the job log, unless its job was
\* deleted meanwhile, the server died or a database call failed.
ScriptIsLogged ==
  \A t \in Threads, j \in Jobs :
    exec[t].pc = "script" /\ Job(t) = j
      ~> \/ exec[t].pc = "mail" /\ Job(t) = j
         \/ row[j] = NoRow \/ crashes > 0 \/ dbFaults > 0

\* "Before proccess fault, cannot execute expression job!": with CHECK_FAULT
\* set, no script starts for a job whose last script failed.
CheckFaultStops ==
  \A t \in Threads :
    exec[t].pc = "script" /\ Snap(t).form.checkFault => Job(t) \notin failed
=============================================================================
