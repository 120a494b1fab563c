# qifu2 in TLA+

TLA+ models, TLC runs and TLAPS proofs for qifu2, a Java web framework (Spring MVC, Hibernate,
Shiro, Quartz, CXF, Activiti) with an administration backend. `core-lib` holds the base classes,
`core-base` the services, jobs and helpers, `core-web` the controllers and pages of the main system.
The state lives in a MySQL schema (`doc/qifu2.sql`), in HTTP sessions and in a few static maps.

The code has hardly any locks and no version columns. Most service calls are one short transaction,
a read made in `REQUIRES_NEW` is not protected by the write that follows, and Quartz threads, request
threads and the container's session threads share the tables. That is where the models look.

## 1. Inventory

| Component | State it keeps | Operations | Hard behaviour | What makes it correct | Status |
|---|---|---|---|---|---|
| **Expression jobs**: `SystemExpressionJobUtils`, `ExpressionJobExecuteCallable`, `SysExpressionJobImpl`, `SystemExpressionLogicServiceImpl` | `tb_sys_expr_job` (RUN_STATUS, CHECK_FAULT, schedule), `tb_sys_expr_job_log` | pass of the scheduler, manual execution, mark / run / finish / log / notify, create, update, delete | whole-row writes from old snapshots, crash between two writes, exceptions inside the error path, overlap of manual and scheduled executions | a row in state R has an owner, edits are kept, a fault stays latched, passes end, scripts are logged | modelled, except the editing of expressions |
| **Mail helper**: `SysMailHelperServiceImpl`, `SendMailHelperJobImpl`, `MailClientUtils` | `tb_sys_mail_helper`, the mail switch, a per-thread copy of it | number, save, run of the job, send with retry, settle, switch on and off | read-then-insert numbering, workers nobody waits for, crash between sending and settling, month rollover | no mail is dropped unsent, copies are accounted for, queued mails are sent | modelled |
| **Login sessions**: `WebSystemHttpSessionListener`, `USessLogHelperImpl`, `LoginHandlerInterceptor`, `GreenStepBaseFormAuthenticationFilter`, `WebSystemServletContextListener` | session attributes, `sessionsMap`, `tb_sys_usess` | log in, log out, time out, refuse, server start and stop | listeners run inside other requests, several servers share the table, a session may end during its login | rows and sessions agree, a finished login can be used | modelled for the main system |
| **Upload store**: `UploadSupportUtils`, `ClearTempDataJobImpl` | `tb_sys_upload` and files | create, updateType, clean temporary data | row and file written separately, several cleaners, the cleaner races updateType | every row has its file, no file is left behind, permanent uploads are not cleaned, temporary ones are | modelled for one system |
| **Roles, permissions, menus**: `RoleLogicServiceImpl`, `ApplicationSystemLogicServiceImpl`, `SystemProgramLogicServiceImpl`, `SystemMenuLogicServiceImpl`, `MenuSupportUtils` | `tb_role*`, `tb_user_role`, `tb_sys*` tables | create, update, delete, copy, assign | a reference checked in one transaction and written in another, no foreign keys, check-then-delete and delete-then-insert between administrators | rows refer to rows that exist, a group of links is one form's, a deletion takes its links with it | modelled, except what changes no key or link |
| **Business processes**: `SystemBpmResourceAction`, `BusinessProcessManagementUtils`, `BusinessProcessManagementDeleteTools` | `tb_sys_bpmn_resource` and Activiti's tables | save, update, deploy, delete, remove by hand, start | every operation writes the row two or three times and the engine in between, whole rows from old reads, the archive's bytes are in one request's memory only for a while | the archive is never lost, row and engine agree on the deployment | modelled, except task roles |
| **Browser page**: `js/m.js`, `js/f.js`, `bootbox.js`, the patched Modal and Tab of `bootstrap.js` | tabs, iframes, dialogs, backdrops, requests on their way | open, switch and close tabs, open and close the modal, send, answer, confirm | callbacks of transitions after the dialog was hidden, one `hideAll` for all requests, pages that go before their answers come | at rest nothing is left over, a wait dialog keeps the user from sending again and goes in the end | modelled, one modal |
| **Generic service layer**: `BaseService`, `SimpleService`, DAOs | none | find, save, update, delete, paging | swallowed exceptions, count-then-insert | a failed insert is noticed | where the modelled parts call it |
| **Web services registry**: `CxfServerBean` | static server objects | start, stop, restart from rows | restart that fails half way | a server runs after a restart | not modelled, see 5 |
| **Scripts, templates, reports, FTP** | none | stateless wrappers | external interpreters and servers | | not modelled: no state of their own |
| **Controllers** | none | validation, JSON | | | not modelled, except the mail switch, logout and the process resources |

How they interact: the scheduler's executions end with a notification, a row that the mail helper sends
later; administrators change job rows through the logic service while executions hold copies; manual
executions arrive through CXF; every request passes the login interceptor, which reads the
table the session listener writes; administrators meet in the role, program and menu tables and in the rows of process resources;
uploads are what a process resource is saved from; the pages in the browser send the requests all of them begin with; jobs log in as the background user. Each modelled component touches
its own tables only, so the modules do not share variables: `ExpressionJob` records which notification a
job sends (`outbox`), and `MailQueue` takes up any number of producers.

The hazards, each at its line of code with the properties aimed at it, are in `PROJECT.json`.

## 2. Modules

| Module | Models | Reads as |
|---|---|---|
| `ExpressionJob` | the job table, the scheduler's pass, executions, administrators | one action per database step of `call()` |
| `MailOutbox` | what the mail helper promises | the abstract specification |
| `MailQueue` | `tb_sys_mail_helper`, producers, the Quartz job, workers | implements `MailOutbox` |
| `LoginSession` | sessions, `sessionsMap`, `tb_sys_usess`, servers | one action per statement of the listener that reaches the table |
| `UploadStore` | `tb_sys_upload`, the files, the cleaner | one action per file or database step |
| `AccessAdmin` | roles, permissions, systems, programs, menu entries, administrators | one action per read of a call that matters later, one for its commit |
| `ProcessStore` | what the administration of processes promises | the abstract specification |
| `BpmResource` | `tb_sys_bpmn_resource`, the engine's deployments, the requests between them | implements `ProcessStore`: one action per database transaction or engine call |
| `PageDialogs` | the main page in the browser | one action per handler: a click, an answer, a page that loads, the end of a transition |
| `MC_*` | constants for TLC, symmetry, the view of `BpmResource` | |
| `*Proofs` | theorems for every value of the constants | |

Operators named `...Without...`, `...Forever`, `...StatusOnly` and the like, with a comment "Mutation of", are
broken variants of the operator after them. They are used by nothing; `PROJECT.json` says which property
fails when one takes the place of the original.

### ExpressionJob

*State.* `row[j]` is the row of job `j`: its status, the columns a form edits (`form`), and `rev`, the number of the
edit they come from, which exists in the model only. `exec[t]` is where the execution of thread `t` is and the copy
it works on, `pass` what is left of the list `executeJobs` walks. `logged` and `outbox` hold the newest log status
and notification of a job. `editing` are administrators between the read and the write of `updateJob`.
`latest`, `quiet`, `abandoned` and `failed` are history: they are read by properties and never by a guard.

*Actions.* `Fire` is `SysExpressionJobImpl.executeInternal` up to the list (snapshot of all due rows); `Submit` the
`submit(...).get()` of the loop; `Manual` is `executeJobForManual`; `Refuse`, `Mark`, `MarkFails`, `Script`, `Finish`,
`FinishFails`, `Log`, `LogFails` and `Mail` follow `call()`, one for each database transaction or early return.
A write that throws after `Script` skips the log and the notification and, under the scheduler, drops the rest of the
list, as the `ExecutionException` does. `CreateJob`, `ReadForUpdate`/`UpdateJob` and `DeleteJob` are the logic service;
the read of `updateJob` is a transaction of its own (`REQUIRES_NEW`), hence two actions. `Crash` loses what is in memory.

*Abstractions.* A script is how it ends: well, with an exception that has a message, or with one that has none
(`ScriptOutcome`). The expression of a job is there, blank or missing. A contact that is blank is the choice of
`Mail` not to send. The order of the list is left open, as the query leaves it. A writer's copy replaces all columns,
because `BaseService.updateObject` maps all of them and no entity uses dynamic updates. A failing database call
(`DbFault`) is one that throws to its caller.

### MailQueue and MailOutbox

*State.* `stage[m]` is where a mail is; it has a row when "unsent" or "sent". `mailId[m]` is its day and
sequence. `worker[m][s]` are the `ProcessWorker` threads of a mail, with their tries left. `seen[q]` is the
`ThreadLocal` copy of the mail switch. `delivered[m]` counts copies the mail server accepted.

*Actions.* `Number` and `Save` are the two transactions of `sendMail`. `Tick` is a run of the job: read the switch
(once per thread), take a page of the month's unsent rows, start a worker for each. `SendOk`, `SendFails`, `ReplyLost` (the
mail server takes the copy and its answer is lost, so that `send` throws), `Settle` and `SettleFails` are the worker's loop;
`TryAgain` is its count of tries. `Toggle` is the system settings page, `NextDay` the calendar, `Crash` the process.

*Abstractions.* The text, the addresses and the `MAIL_ID` format are left out; a number is a day and a sequence. The
three-second sleep between tries is any delay. A worker that fails its last try ends, and the row waits for the next run.

`MailOutbox` has one variable, the status of each mail: new, lost, queued, delivered, settled. `MailQueue`
maps its stages and counters to it (`Status`) and implements it: a mail is settled only after a copy was delivered.

### LoginSession

*State.* `life`, `owner`, `attr` (SESS_ACCOUNT is set), `current` (SESS_SYSCURRENT_ID is set) for each session, `known`
(`sessionsMap`), `rows` (`tb_sys_usess`), `login[s]` (the request that logs `s` in), `purging` (ended sessions whose
`sessionDestroyed` has not reached the table), `up`. `cutOff` and `wiped` are history.

*Actions.* `Begin`, `Find`, `Invalidate`/`InvalidateFails`/`Cleaned`, `Write`, `Current` are a login through
`attributeAdded` and `setUserSession`. `End` and `Purge` are the end of a session. `Refuse` is
`LoginHandlerInterceptor` turning a request away, also one that comes while its session is still logging in. `Stop` (orderly or a crash) and `Start` are the servers.

*Abstractions.* Captcha, password and LDAP are passed before `Begin`. A browser has one session at a time and its
cookie follows the session: a request with another cookie is refused and redirected to the logout, which is `End`.
The servlet container answers `getId()` on an ended session and runs `sessionDestroyed` once; Shiro's logout ends the
servlet session. A row is named by its session, since container ids are not reused. The sessions of the
sub-systems, which take the `CURRENT_ID` from the cookie, are left out.

### UploadStore

*State.* `row[u]` is the type in the row of upload `u`, `file[u]` the types in whose directories there is a file of it, `astray` the uploads whose
file is in another year's directory than the row says. `create[u]`, `cleaner[c]` and `mover[p]` are where a creation, a pass of
`cleanTempUpload` and a call of `updateType` are. `torn` (a thread stopped between row and file) and `contested` (two
threads held the upload) are history.

*Actions.* `WriteFile`, `SaveRow`, `SaveRowFails`, `CreateInRow` are `create`. `DeleteTmpContent`, `List`, `Skip`, `DeleteFile`,
`CannotDelete`, `DeleteRow`, `EndPass`, `CleanerDies` are a pass: the list is kept in memory while the rows go on changing, and a
row is deleted by its key whatever its type is by then. `ReadRow`, `Retype`, `MoveFile`, `MoverDies` are `updateType`, whose
second half throws, and leaves the row retyped, when the file is not where the old type says. `MoveFile` is `CheckPaths` and then `FileUtils.moveFile`:
`Rename`, or, because `updateType` does not create the directory of the new type and year, `CopyFile` and `DropSource`, with two
files in between; `LengthsDiffer` is the check after the copy, which throws and leaves both.

*Abstractions.* One system; the pass handles each in turn. The existence test and the `forceDelete` are one step: what
another thread does between them has the effect of `Skip` or of `CannotDelete`. `moveFile` is commons-io's; whether it renames or
copies depends on what other uploads have done to the new directory, and is left open. A copy that is cut short counts as a file
at its path. The year of a path is read several times during `create`, hence `astray`. `updateType` is public API of
`core-base` that the main system does not call itself. `Types` are the types in use; the code has "image", "tmp" and "common", of which
the cleaner knows "tmp" only, so TLC gets by with one other.

### AccessAdmin

*State.* `rows` are the rows of all tables: a row has its table, the two names it links and the commit that inserted it, which stands
for its OID. `call[c]` is what the call of administrator `c` has in hand: the tables it has yet to list, the rows it has yet to
look up, what it will delete and insert. `clock` counts commits. `raced` (names a call relied on while another one deleted
them) and `blended` (groups of links a call found empty while another one was filling them) are history.

*Actions.* `CreateRole`, `DeleteRole`, `CopyAsNew`, `CreatePermission`, `DeletePermission`, `UpdateUserRole`, `UpdateMenuRole`, `CreateSystem`,
`DeleteSystem`, `CreateProgram`, `UpdateProgram`, `DeleteProgram` and `CreateOrUpdateMenu` begin the calls of the four logic services and take
their first read. `List` and `Root` are the `findListByParams` of the links, `LookUp` the `findObjectByOid` of each entry of a form, `Check` the
`countByParams` before a deletion with the snapshot it fixes for the `countByOid` after it. `Commit` is the commit of the logic
service's transaction, which fails when a row to delete is gone or a unique key is taken. `Abort` is every exception.

*Abstractions.* The writes of a transaction take effect together, at its commit; the reads are `REQUIRES_NEW` transactions and
see the tables of their own instant. The entries of a form are looked up in any order. Whether a program is a folder does not
change. Icons and accounts are always there, and so is the default user role, which is one of the `Protected`.
Updates of descriptions, icons and hosts, and the rendering of menus, are left out.

### BpmResource

*State.* `row[r]` is the row of resource `r`: its OID, the deployment it names and the archive in its CONTENT. `engine[d]` is deployment
`d`, `running` the deployments with unfinished processes. `pc`, `on`, `target`, `snap`, `upload` and `goal` are where a request is, the resource and
OID it was called for, the row as it last read it, the archive it brings and what a removal is for. History: `latest` (the archive uploaded
last), `stale` (calls whose row another call has written), `crossed` (resources a stale call has written), `torn` (calls stopped
half-way) and `cut` (deployments whose id an update has blanked).

*Actions.* `Save` is `save`. `ReadToUpdate`, `ClearToUpdate`, `FillToUpdate` are `update`: read, write without the bytes, write with the new or the old
bytes. `ReadToDeploy`, `FindToDeploy`, `Deploy`, `NameDeployment`, `Refill` are `deployment` of the controller and of the helper: read, read again after
the session was cleared, the engine's `deploy`, the id without the bytes, the id with them. `ReadToDelete`, `Look`, `Remove` or `RemovalRefused`, `Unname`, `Erase` are
`delete` with `deleteDeployment`; `RunTool` enters it from the command line, with or without `force`. `Start` and `Finish` are processes in
the engine. `Dies` is an exception of the next step or a crash before it.

*Abstractions.* All writes go through `BaseService.updateObject`, which copies the whole object onto the row of its OID and throws without one (`Store`). With
`OpenSessionInViewFilter` on every request, a read by OID is answered by the Hibernate session unless the code has cleared it, so the second
`findObjectByOid` of `delete` sees what `deleteDeployment` has just written, whatever other requests did. A failing
`fillContent` (the uploaded file was cleaned) is `Dies` at "fill". Engine calls are atomic; a deployment's id is
never used again, and a process is started from the newest deployment of its key. Name, description and the check of the
archive's process id are left out. In `update` the branch that removes the old deployment and deploys the upload is left out because it is never taken: it tests the
DEPLOYMENT_ID that the write before has blanked, since `sys-bpm-edit.jsp` does not send one.

*Abstraction shown.* `ProcessStore` has an archive and a version per process, and one step for each call. The mapping takes the archive from the row, or from
`latest` while a call that has emptied the row is about to fill it again, and the version from the deployment the row names, if the engine has it. So `update` takes effect
at its second write, `deployment` when the row gets the id, the removal of a deployment in the engine, before the row is written, and all other steps are invisible.

### PageDialogs

*State.* `tabs` (`_tabData`), `active` and `frame` are the pages, `leaving` those that are being replaced, and `loading` those that have loaded and are
about to send the request of their `$(document).ready` (`Querying` are the pages that have one); for each dialog `shown` and `moving` are `_isShown` and `_isTransitioning` of
its Modal object, `up` whether it is displayed and `backdrop` whether its backdrop is in the document; `boxes` are the `.bootbox` elements, in document
order. `timers` are the transitions under way with what follows them. `req`, `from`, `asker` are the requests, the page each answer will call back
and the one a confirm dialog will call back; `focus` is where the keyboard is. `hasty` is history: the requests under way whose page was on its way out when
it sent them, or was sent away while their wait dialog was coming up.

*Actions.* `Press` is a page's `xhrSend...` (wait dialog, then request), `Ask`, `Agree`, `Decline` a confirm dialog, `Answer`, `AnswerAndReload`, `AnswerAndFollow` the answer
or timeout of a request: `hideAll`, then the page's callback, which does nothing more, sets `window.location` or sends another request. `OpenModal`, `CloseModal`,
`AddTab`, `CloseTab`, `SwitchTab` are the functions of `m.js`. A reload only begins there, and with `Refresh` (a toolbar's refresh, a page's clear button): the page goes on working until
its successor arrives, which is `Unload`, any time later, and its requests under way are lost then. `Ready` is the query a page sends when it has loaded, also in a tab that is not
shown or behind a backdrop. `ShowElement`, `TransitionComplete`, `HideModal`, `HiddenBox`, `HiddenModal` are the callbacks of Bootstrap's
Modal at the end of a transition, with bootbox's and `m.js`'s handlers of the events they raise.

*Abstractions.* All transitions take the same 150 ms, so they end in the order they began and `timers` is a queue; a browser fires the
end event or, a moment later, the emulated one, and each callback is bound once. A browser may cut a fade-out short that reverses a fade-in under way; its
callback then comes earlier than the queue says, and finds the same dialog in the same state at rest. The document of a new tab and of the modal is there at once, and so is
`about:blank`; one that replaces another takes any time. Where a click lands follows the z-indexes of the
style sheet: a backdrop is above the page and below every dialog. The keyboard repeats the button that has the focus, until a
dialog that comes up takes it; nobody is quick enough to tab to another button meanwhile. One modal stands for those of all programs, of which one at a time is reached. The tab's own
fade is off (its panes have no class `fade`), so `Tab.show` is one step. `logoutEvent`, which leaves the page for good, is left out.

## 3. Runs

| Run | Question | Instance |
|---|---|---|
| `ExprJob_races` | who may leave a row in R, lose an edit, leave a latched fault | 1 job, scheduler and 1 manual thread, 2 forms, 1 edit, 1 crash |
| `ExprJob_passes` | do passes end, are rows released, scripts logged | 2 jobs, scheduler only, a script or a blank one, 1 crash, 1 failing call, fairness |
| `ExprJob_checkfault` | does CHECK_FAULT stop a job that failed | violation |
| `Mail_queue` | lost and duplicate mails, refinement, delivery | 2 mails, 3 days in 2 months, 2 workers per mail, page of 1, 1 each of overlap, failed update or lost answer, crash, switch |
| `Mail_switch` | does turning the mail switch on have an effect | violation |
| `Upload_store` | is every row with its file, every file with its row, what may the cleaner delete, and does it | 2 uploads, one of them in its row, 2 types, 2 cleaners, 2 movers, 1 failure, fairness |
| `Login_servers` | stale rows, unusable logins, lost rows | 3 sessions, 2 accounts, 2 servers with different settings, 1 stop or crash |
| `Login_exclusive` | does a login clear the account's earlier records | violation |
| `Admin_roles` | dangling links, mixed forms, half deletions of roles | 2 administrators, 2 roles, one of them protected, 1 permission, 1 account, 3 commits |
| `Admin_menus` | dangling rows of programs and menus | 2 administrators, 1 folder, 1 program, 1 system, 1 protected role, 2 commits |
| `Bpm_resource` | is the archive kept, and do row and engine agree | 1 resource that can be created twice, 2 archives, 2 requests, 3 deployments, 1 process, 1 exception or crash |
| `Page_dialogs` | what is left on the screen, what a wait dialog protects from, does it go | 2 tabs, the modal, one tab and the modal query on load, 2 requests, 1 confirm dialog, fairness |

### Properties

* `MarkedIsOwned`: a row in state R has an execution that will write it again, or it is one of those a crash, a failed
  final write or a stale edit has abandoned. The scheduler skips R rows for ever, so this names all the ways a job can be lost;
  `initRunStatusFlag`, which would repair them, has no caller.
* `QuietEditKept`: an edit committed while no execution holds a copy of the row is never undone.
  Edits during a pass *are* undone by the final write, which is why the property speaks of quiet ones.
* `LatchLeftByStaleCopies`: a row that CHECK_FAULT keeps from running leaves its fault only by a write prepared before.
* `PassEnds`, `MarkIsCleared`, `ScriptIsLogged`: liveness of passes and executions.
* `NoneClashAlone`, `CopiesAccounted`, `ImplementsOutbox`, `IsDelivered`: see the comments in `MailQueue`. `CopiesAccounted` counts one
  extra copy for each overlapping run, failed update, crash, and send that throws on a copy the server took: the loop tries
  the last again in the same worker, so up to three copies need no other worker and no crash. `IsDelivered` does
  not hold for a mail whose month ends before it is sent, or that waits behind a full page of mails that cannot
  be sent: the code looks at the current month only and takes 100 rows in no order. The property names these escapes.
* `StaleRowsExplained`, `LoginIsUsable`, `RowsLeaveForAReason`: the table and the sessions agree, and what
  accounts for the exceptions.

* `RowHasFile`, `NoOrphanFiles`, `DeleteMeetsRow`: rows and files agree, with the three ways they part named: a thread stopped
  between the two, two threads on one upload, a creation across the end of a year. A file that no row leads to is left by a create that
  failed or by a move that was stopped, between row and file or between copy and deletion, and no cleaner looks for it. `DeleteMeetsRow` is why several servers may clean at
  once: only the thread that deleted the file deletes the row.
* `KeptIsKept`, `TempIsCleaned`: what the cleaner deletes, and that it does.

* `TargetsExist`: no row refers to a role, program or system that is not there. The schema has no foreign keys, so one thing only
  breaks it, a call that found the name before another one deleted it. The property says that there is no other.
* `NoMixture`: the roles of an account, and the entries of a folder, are those of one form. Two calls that replace the same links
  collide on the rows both delete; two that found no links do not, and both forms are in the table.
* `LinksGoTogether`: a deletion removes nothing but its name and its links, and all of it or nothing. The exception is a
  name deleted and created anew meanwhile: the row of the new one has another OID, so the call reports a failure, and as it
  reports it without an exception, the new one's links are deleted.

* `ContentKept`: updates, deployments and removals all clear the CONTENT or write it back from memory; none loses or revives an archive,
  unless a call is stopped half-way or two calls write over each other (`Sound`). The second case needs no failure: two updates without a
  new file, the second of which reads the row between the two writes of the first, leave an empty row.
* `NamedIsLive`, `LiveIsNamed`: the row of a sound resource names a deployment of its own that the engine has, and
  the engine has no others, except those whose id an update has blanked. Those stay in the engine with their processes, and the page offers to deploy
  again.
* `ImplementsStore`: whatever calls are interleaved, a sound resource behaves as if each were one step: its version is always of its archive, an upload takes
  it off, and it is deleted only without one.

* `AtRestClean`, `ModalPageMatches`: whatever the order of clicks, answers and transitions, once all transitions have ended the screen shows what is
  open and nothing else. The guard that Bootstrap has against hiding a dialog that is still coming up is commented out in this copy, for
  `hideAll`; these properties say that the late callbacks do no harm. With the guard, a fast answer leaves its wait dialog up (the mutant of `WaitEnds`).
* `ActiveIsOpen`: closing tabs always leaves an open one active.
* `WaitCoversRequest`, `SettledWaitProtects`: a wait dialog goes before its request's answer only because another answer took all of them down, and while one
  is up and settled no click or key sends a request: what sends one then is the page of an answered request, for its follow-up, or a page that has just
  loaded. In the 300 ms while it comes up, the keyboard still can, and so can a click in the modal.
* `StuckOnlyIfHasty`, `WaitEnds`: a wait dialog goes, except when its page went first, and then the request was hasty: sent by a page that was being replaced
  or blanked and still worked, or followed by a close of the modal or a refresh before the wait dialog was up. Once it is up, nobody can send the page away
  any more: the menu, the tabs and the modal's close button are behind it.

### What the violations show

* `CheckFaultStops`: `e.getMessage().toString()` is called before its null test, so a script that ends with an exception
  without a message leaves RUN_STATUS blank and runs again at once, CHECK_FAULT or not.
* `SwitchTakesEffect`: each Quartz thread remembers the switch it read first, until the server is restarted.
* `EarlierRecordsCleared`: with INVALIDATE_SAME_ACCOUNT_SESSION a recorded session that is not in `sessionsMap` is a null
  pointer, which also skips the new login's record. One way to such a record needs no second server: ending an earlier session
  runs `sessionDestroyed` in the new login's thread, whose `SecurityUtils.getSubject().logout()` logs the new login out
  before its row is written. The shipped file sets the option to N; the default in the code is Y.

Two more disagreements were met while modelling and have no run of their own. `getExpressionJobs` compares DAY_OF_WEEK with the weekday of the first of the month
(`SystemExpressionJobUtils.java:279`, `SimpleUtils.getDayOfWeek(year, month)`), so a job for Mondays runs on every day of a month that begins on a Monday. And the comment "更新上傳部屬"
(`SystemBpmResourceAction.java:323`) announces a redeployment after an upload that never happens, see `BpmResource`.

### Bounds

Every counter that could grow without end is bounded by a constant (`MaxEdits`, `MaxCrashes`, `MaxDbFaults`, `MaxOverlaps`,
`MaxToggles`, `MaxStops`, `MaxDay`, `MaxSeq`, `MaxFaults`). The theorems hold for all values of them; for TLC one of each is enough to reach
the cases: one edit against two executions, one crash at any step, one extra worker. Two jobs show the effect
of one on the rest of its pass, which is the only way jobs meet. A page of one with two mails has a backlog larger than
a page, and `MaxSeq = 1` a day whose numbers are used up. Three sessions give an account two sessions on one server and
one on another. Uploads meet only in one cleaner's list, so two are enough, and two threads of each kind give every pair of calls.
In the administration two calls at a time give every pair; three commits are one more than a deletion and a creation anew take,
and the rows that exist at the start are any that fit together. With one program that is no folder, `Admin_menus` cannot mix two forms, so
`NoMixture` is checked for accounts, and for menu entries proved only.
Two requests of a process resource give every pair of calls, and three deployments allow one that is cut off, one that is removed and one that replaces it;
a resource meets only itself, so one is enough. Two requests on the page are an answer and another request it can
hit, at any stage of coming up, or a page that loads under a wait dialog; the theorems hold for any number.
Symmetry is used in `Bpm_resource`, over requests and archives, and in `Admin_*`, over administrators: these runs check
invariants, action properties and a refinement, and nothing under fairness. `Bpm_resource` compares states by a view, which leaves out
what a request will not read any more, and its constraint `AllSound` does not go on from a resource that is no
longer sound: its properties promise nothing about that resource.
`CHECK_DEADLOCK FALSE` is set where the bounded instances stop when days, edits, sessions, commits and deployments are used up; the uploads'
run never stops, because the cleaner comes back every night, and is checked for deadlock. The page stops when a wait dialog is stuck over it.

### Fairness

`ExprJob_passes`: weak fairness of `Fire` and `Submit` (Quartz fires the trigger every minute and the loop goes on) and of every
thread's execution; a script is assumed to end. `Mail_queue` and `Mail_switch`: weak fairness of the job on *some* thread
(Quartz chooses it), weak fairness of each worker, and strong fairness of a successful send, which says that the
mail server takes a deliverable mail that is offered again and again; without it nothing could be promised. `Upload_store`: weak fairness of the cleaner's
steps, since its trigger fires every night at 03:30 and the loop goes on. `Page_dialogs`: weak fairness of the ends of transitions, which the browser's timers
bring, and of the answer to each request that is on its way, which `$.ajax` gives as an answer or, after 300 s (`base.page.jqXhr.timeout`), as an error; a page that went takes its answer with it. Nothing is assumed of the documents that replace others (`Unload`, `Ready`): they may never come. Nothing is
assumed of users, administrators, producers, the calendar, crashes or failures. The runs of `LoginSession`, `AccessAdmin` and `BpmResource` have no
liveness property: nothing in the code makes a session end, and a call may always be rolled back or die. What follows the end of a session is proved (`EndedSessionsAreForgotten`).

## 4. Proofs

All theorems hold for any constants that satisfy the assumption of the module (`ConstantsAssumption`, `BpmAssumption`, `DialogsDiffer`; the abstract
specifications have none). A theorem about a special setting names it as a hypothesis: `Undisturbed`, `OneByOne`, `Exclusive = {}`, `MaxStops = 0`.

Safety needs no fairness. Seven theorems say that something happens. They assume the weak fairness of one process with its guard written out (`Runs`):
infinitely often the process is idle, or infinitely often it takes a step. The lemmas `FairCallRuns`, `FairWorkerRuns`, `FairCleanerRuns` and `FairAnswersRun` derive `Runs`
from the `WF_vars` formula of the module, given that a process that is not idle can take a step. The prover does not evaluate ENABLED, so that is a hypothesis of
the lemmas; the code's reason is that a thread between two steps waits for nobody. `LoginSession` states no fairness; `Runs` there says that
the container does not give up `sessionDestroyed` half-way. In these proofs an invariant says who is at work on the thing that waits, each step of a process keeps it or
hands it on, and the quantifier over processes is distributed over `[]`.

`ExpressionJobProofs`
* `TypeCorrect`.
* `MarkOwnership`: `MarkedIsOwned` is inductive with `TypeOK`. An execution owns its job from the mark to the final write.
* `QuietEdits`: `QuietEditKept` is not inductive, since a write from an old copy would break it. Strengthened by `QuietCopies`,
  every copy in memory of a quiet row is of the row's last edit, and `UnusedRows`, a row not inserted yet has not been edited.
* `FaultLatch`: an action property; it needs `LatchedWritesFault`, an execution whose copy is latched never gets to its script
  and carries the fault to its final write.
* `ExecutionsEnd`, `ScriptsAreLogged`, `MarksAreCleared`: the chain begin, script, finish, log, mail of one execution under `Runs`, with a crash or
  a failed call as the only ways out. `MarksAreCleared` starts from `MarkedIsOwned`: the owner is the execution that clears the mark.
* `LatchHoldsAlone` is the other side of the violation of `CheckFaultStops`: if there are no manual executions, no edits and no exceptions without a message (`Undisturbed`),
  the rule does hold, with crashes and failing calls. `LatchInv`: the pass's list shows the rows as they are, each job is in one pair of hands,
  and a script that failed shows in its row.
* `NoMarkIsLost`: without crashes, failing calls and edits every marked row has its execution. So these three are all that can leave a job in state R.

`MailQueueProofs`
* `TypeCorrect`.
* `WorkerSoundness`: workers exist for saved rows only and reach their save step by sending. The refinement needs it.
* `QueueImplementsOutbox`: `Init` implies the abstract `Init`, every step is an abstract step or a stutter.
* `LoneProducers`: by `LoneNumbers`, the number of a mail that met no other producer is free until it is saved.
* `CopiesAreAccounted`: by `CopiesBudgeted`, the copies sent and the workers that may still send are at most one more than the
  reasons so far, and a mail that waits for a worker leaves room for one.
* `SentMailsLeave`: under `Runs` of the workers a mail that was sent is flagged or deleted. By `SentIsHeld` a sent mail that is still in the queue is at the save step
  of the worker that sent it, until a crash, a failed update or a lost answer.

`LoginSessionProofs`
* `TypeCorrect`; `Inductive`: `IInv`, which adds to the two invariants what each trace of a session says about its life
  (`TracesSound`).
* `StaleRows`, `UsableLogins` from it, and the action property `RowLosses`.
* `LoginsDoNotInterfere`, `LoginsLast`: with INVALIDATE_SAME_ACCOUNT_SESSION off everywhere (`Exclusive = {}`, the shipped setting) no login or logout touches another
  session, and, while no server stops (`MaxStops = 0`: each start empties the table for all), a login that is through stays recorded and usable.
* `EndedSessionsAreForgotten`: under `Runs` of the listener's purge the row of a dead session goes, except one that was cut off. `StaleRowsExplained` says that a dead session
  with a row is still to be purged, and `EndedStep` that no later login revives it.

`UploadStoreProofs`
* `TypeCorrect`; `RowsHaveFiles`, `NoOrphans` and `DeletesMeetRows` are parts of one invariant with what a cleaner and a mover hold
  (`ApartNext`, `KnownNext`): an upload that nobody contests has at most one thread between its row and its file, and has two
  files only while a mover is between its copy and its deletion.
* `KeptUploads`: the action property `KeptIsKept`, from the same invariant.
* `LostFilesLoseTheirRows`: under `Runs` of the cleaners a row without its file goes, unless its cleaner or mover died or met another thread. By `Halves` such a row is in the hands of the cleaner that deleted the file,
  and its next step, if it lives, deletes the row, whatever the row's type has become.
* `KeptForGood`: an upload that is permanent and in no cleaner's list (`Kept`) remains so until an `updateType` writes "tmp" into its row.

`AccessAdminProofs`
* `Invariant`: `IInv`, the tables (kinds, unique keys, roots of folders) with `TargetsExist` and `NoMixture`, and what each call in
  flight has in hand: its lists and writes have the shape of its operation (`Fits`), what it relies on is there unless it
  raced (`Relied`), a deletion has every link that it will not list any more (`Covered`), the row it is for is the one it found or a younger
  one (`Dated`), a replaced group is complete if its rows are still there (`Grouped`), a folder gets its root (`Rooted`). `Meet`
  relates pairs of calls.
  Steps that change no table go through one lemma (`Moves`); the commit is split by conjunct.
* `TypeCorrect`, `TargetsStay`, `OneForm` from it, and the action property `DeletesWhole`.
* `EntriesHaveRoots`, from it.
* `OneAdministratorIsSafe`: with one administrator at a time (`OneByOne`), `raced` and `blended` stay empty (`NobodyMet`), and the two properties hold without their
  exceptions. Two calls at once are the only source of a dangling reference or of a mixture.
* `FormIsWritten`: an action property about a commit of `updateUserRole` or of the menu. The group it leaves is the one that it looked up from its form, although
  it deletes a list read several steps ago: what another call changed there since either collides with its own deletions or blends the group (`GroupCommit`).
* `ProtectedRolesStay`: `deleteRole` refuses them at its beginning (`Spares` carries that to the commit), and no other operation deletes a role.

`BpmResourceProofs`
* `TypeCorrect`; `Invariant`: `IInv`, in five parts. `IdsAgree`: an id names one deployment for ever, and one just taken is known to its call alone. `Fresh`: what a call
  that is not stale knows of its row. `Bytes`: the bytes of a sound resource are in its row, or in a call that will put them back, and no call that is not
  stale holds older ones. `Names`: the same of the deployment's name. The properties alone are not inductive, because what a call holds decides what its next write leaves.
* `ContentIsKept`, `NamesAreLive`, `LiveAreNamed`, `NamesAreCurrent` (the named deployment was made of the archive uploaded last) are its consequences.
* `CallsImplementStore`: the refinement of `ProcessStore`. By `IInv`, what is seen of a sound resource depends only on whether its row exists, on the latest
  archive and on whether the deployment it names is there (`View`). So each step is described by how these three change for the one resource it is on
  (`OneMoves`; the writes of a row by `StoreMoves`), and `AbstractStep` names the abstract action for each such change.

`PageDialogsProofs`
* `TypeCorrect`; `Invariant`: `IInv`. The properties at rest say nothing while transitions are under way, so the invariant says what is due: a dialog's flags,
  its display and its backdrop differ only if a transition in `timers` will settle it (`Screen`), and one dialog's transitions wait behind one
  another in four orders only (`Ordered`, `Follows`), which is why `_showElement` of a dialog hidden early never comes after its `_hideModal`. `Elements` ties `.bootbox` elements to backdrops,
  and a confirm dialog is the first of them. `Keyboard`: no button has the focus once a wait dialog has settled, since a confirm dialog on its way up gets there before it.
  `Senders`: a request under way has the page that will take its answer. `Haste`: if that page is going and the wait dialog is shown, the request is hasty,
  since whoever sent the page away, or pressed there, did so before the dialog was up, and an answer that sends a page away hides all dialogs.
  Handlers that hide some dialogs and show at most one go through one lemma (`HandlerScreen`), the tabs through another (`TabStep`).
* `ScreenClean`, `ModalPage`, `ActiveOpen`, `StuckIsHasty` are consequences of it, `WaitCovers` and `SettledProtects` action properties from it.
* `TransitionsCanEnd`: the handler of the transition at the head of `timers` is always possible, so transitions wait neither for each other nor for the user.
* `AnswerHidesAll`: after an answer the only bootbox dialog shown is the wait dialog of the follow-up it sent. By `Elements` every shown one is in
  the document, where `hideAll` looks (`HideAllShown`).
* `WaitIsHidden`: under `Runs` of the answers each wait dialog is told to hide, unless its request is lost with its page. It is the first half of `WaitEnds`.

Only model-checked:
* `PassEnds`, `IsDelivered`, `TempIsCleaned` and the second half of `WaitEnds`. In each a process works off a list or a queue of any length, and the number of steps it
  takes is a measure over data. The prover's temporal backend is propositional, and the library's induction theorems take an operator, which the provers cannot
  instantiate. `IsDelivered` also needs strong fairness of a successful send.
* That a process that is not idle can take a step (ENABLED), the hypothesis of the `Fair...` lemmas: the runs under fairness evaluate it on their instances.
* The violations, which are counterexamples found by TLC.

## 5. Not modelled, and why

* The connection pool: a logic call holds a connection while each of its `REQUIRES_NEW` reads asks for a second one, so as many calls as the pool has
  connections wait for each other until the pool gives up. The outcome, a call that is rolled back, is `Abort` of `AccessAdmin`; the wait itself is a
  hazard in `PROJECT.json` without a property.
* `CxfServerBean`: one administrator restarts the service bus from the rows of a table; a call that fails half-way leaves the bus as far as it got.
* The expressions a job refers to, sub-system sessions, task roles of processes, uploads' reading of segments: see the components' notes.
* Script interpreters, templates, reports, FTP and Hessian proxies, SQL generation: stateless wrappers around libraries.
* Most of the repository's JavaScript is third-party code served as it is (CodeMirror, chart.js, popper, jQuery plugins, the rest of Bootstrap). Only what this repository
  wrote or patched, and the parts of bootbox and Bootstrap that its page depends on, are modelled.

What would come next: expressions of a job as actions of `ExpressionJob`, sub-system sessions in `LoginSession`, and the connection pool as a module of its own.
