---------------------------- MODULE BpmResource ----------------------------
(* The resources of business processes: tb_sys_bpmn_resource keeps the archive
   of a process and the id of its deployment, the Activiti engine keeps what was
   deployed.  SystemBpmResourceAction and BusinessProcessManagementUtils change
   the two in several steps, each a transaction or an engine call of its own,
   while other administrators and the command line tool work on the same row.
   Every write of the row is a write of the whole row from what the call has
   read.  A call reads its row again only where it has emptied its Hibernate
   session before; the other reads are answered by the session.               *)
EXTENDS Naturals

CONSTANTS
  Resources,       \* IDs of resources, which are the keys of their processes
  Archives,        \* contents of uploaded archives
  Admins,          \* requests under way, runs of the tool among them
  None,
  MaxSaves,        \* bound: rows created, the OID of a row is its number
  MaxDeployments,  \* bound: deployments made, a deployment's id is its number
  MaxStarts,       \* bound: processes started
  MaxFaults        \* bound: calls that are stopped by an exception or a crash

Oids == 1..MaxSaves
Ids == 1..MaxDeployments
Rows == [oid : Oids, dep : Ids \cup {None}, content : Archives \cup {None}]
Deployments == [of : Resources, content : Archives]

ASSUME BpmAssumption ==
  /\ MaxSaves \in Nat /\ MaxDeployments \in Nat
  /\ MaxStarts \in Nat /\ MaxFaults \in Nat
  /\ None \notin Archives \cup Ids \cup Rows \cup Deployments \cup Resources

VARIABLES
  row,       \* tb_sys_bpmn_resource: None, or the row of a resource
  engine,    \* the deployments: None, or the process and the archive
  running,   \* deployments with unfinished processes
  pc, on,    \* where a call stands and the resource it works on
  target,    \* the OID it was called for
  snap,      \* the row as it has read it
  upload,    \* the archive an update brings, or None
  goal,      \* what a removed deployment is removed for
  saved, made, started, faults,   \* counters
  latest,    \* history: the archive uploaded last
  stale,     \* history: calls whose row another call has written since they began
  crossed,   \* history: resources that a stale call has written
  torn,      \* history: resources whose call was stopped between two steps
  cut        \* history: deployments whose id an update has blanked

calls == <<pc, on, target, snap, upload, goal>>
counters == <<saved, made, started, faults>>
vars == <<row, engine, running, calls, counters, latest, stale, crossed, torn, cut>>

Init ==
  /\ row = [r \in Resources |-> None]
  /\ engine = [d \in Ids |-> None]
  /\ running = {}
  /\ pc = [a \in Admins |-> "idle"]
  /\ on = [a \in Admins |-> None]
  /\ target = [a \in Admins |-> None]
  /\ snap = [a \in Admins |-> None]
  /\ upload = [a \in Admins |-> None]
  /\ goal = [a \in Admins |-> "none"]
  /\ saved = 0 /\ made = 0 /\ started = 0 /\ faults = 0
  /\ latest = [r \in Resources |-> None]
  /\ stale = {} /\ crossed = {} /\ torn = {} /\ cut = {}

Live(d, r) == engine[d] # None /\ engine[d].of = r
To(a, place) == pc' = [pc EXCEPT ![a] = place]
AtWork(r) == {b \in Admins : pc[b] # "idle" /\ on[b] = r}

\* A call begins on the row it finds by the OID of the page.
Begins(a, r) ==
  /\ pc[a] = "idle" /\ row[r] # None
  /\ on' = [on EXCEPT ![a] = r]
  /\ target' = [target EXCEPT ![a] = row[r].oid]
  /\ snap' = [snap EXCEPT ![a] = row[r]]
  /\ stale' = stale \ {a}

\* updateObject: the row of the snapshot's OID gets every column from the call;
\* without such a row it throws.
Found(a) == row[on[a]] # None /\ row[on[a]].oid = snap[a].oid
Store(a, dep, content) ==
  /\ row' = IF Found(a)
              THEN [row EXCEPT ![on[a]] =
                      [oid |-> snap[a].oid, dep |-> dep, content |-> content]]
              ELSE row
  /\ stale' = IF Found(a) THEN stale \cup (AtWork(on[a]) \ {a}) ELSE stale
  /\ crossed' = IF a \in stale THEN crossed \cup {on[a]} ELSE crossed
-----------------------------------------------------------------------------
(* save and update *)

Save(r, c) ==
  /\ row[r] = None /\ saved < MaxSaves
  /\ saved' = saved + 1
  /\ row' = [row EXCEPT ![r] = [oid |-> saved + 1, dep |-> None, content |-> c]]
  /\ latest' = [latest EXCEPT ![r] = c]
  /\ stale' = stale \cup AtWork(r)
  /\ UNCHANGED <<engine, running, calls, made, started, faults, crossed, torn, cut>>

ReadToUpdate(a, r, c) ==
  /\ Begins(a, r)
  /\ upload' = [upload EXCEPT ![a] = c]
  /\ To(a, "clear")
  /\ UNCHANGED <<row, engine, running, goal, counters, latest, crossed, torn, cut>>

\* The old bytes are cleared first, so that the row does not grow.
ClearToUpdate(a) ==
  /\ pc[a] = "clear"
  /\ Store(a, snap[a].dep, None)
  /\ To(a, IF Found(a) THEN "fill" ELSE "idle")
  /\ UNCHANGED <<engine, running, on, target, snap, upload, goal, counters,
                 latest, torn, cut>>

\* Mutation of Filled: the archive of before is put back, whatever was uploaded.
FilledBefore(a) == snap[a].content

\* The upload, or the bytes of before.
Filled(a) == IF upload[a] = None THEN snap[a].content ELSE upload[a]

\* The form has no deployment id, so the whole-row write blanks it.  The branch
\* that follows, which removes the old deployment and deploys the upload, tests
\* the id that this write returns and is never taken.
FillToUpdate(a) ==
  /\ pc[a] = "fill"
  /\ Store(a, None, Filled(a))
  /\ latest' = IF Found(a) /\ upload[a] # None
                 THEN [latest EXCEPT ![on[a]] = upload[a]] ELSE latest
  /\ cut' = IF Found(a) /\ row[on[a]].dep # None THEN cut \cup {row[on[a]].dep} ELSE cut
  /\ To(a, "idle")
  /\ UNCHANGED <<engine, running, on, target, snap, upload, goal, counters, torn>>
-----------------------------------------------------------------------------
(* deployment *)

ReadToDeploy(a, r) ==
  /\ Begins(a, r)
  /\ row[r].dep = None      \* else "Already deployment!"
  /\ To(a, "find")
  /\ UNCHANGED <<row, engine, running, upload, goal, counters, latest, crossed, torn, cut>>

\* Mutation of FindToDeploy: the bytes are not looked at.
FindToDeployAny(a) ==
  LET found == row[on[a]] # None IN
  /\ pc[a] = "find"
  /\ snap' = IF found THEN [snap EXCEPT ![a] = row[on[a]]] ELSE snap
  /\ To(a, IF found THEN "deploy" ELSE "idle")
  /\ UNCHANGED <<row, engine, running, on, target, upload, goal, counters,
                 latest, stale, crossed, torn, cut>>

\* findByUK, after the session was cleared: the row as it is now.  Without bytes
\* the archive cannot be opened.
FindToDeploy(a) ==
  LET found == row[on[a]] # None /\ row[on[a]].content # None IN
  /\ pc[a] = "find"
  /\ snap' = IF found THEN [snap EXCEPT ![a] = row[on[a]]] ELSE snap
  /\ To(a, IF found THEN "deploy" ELSE "idle")
  /\ UNCHANGED <<row, engine, running, on, target, upload, goal, counters,
                 latest, stale, crossed, torn, cut>>

Deploy(a) ==
  /\ pc[a] = "deploy" /\ made < MaxDeployments
  /\ made' = made + 1
  /\ engine' = [engine EXCEPT ![made + 1] = [of |-> on[a], content |-> snap[a].content]]
  /\ snap' = [snap EXCEPT ![a] =
       [oid |-> snap[a].oid, dep |-> made + 1, content |-> snap[a].content]]
  /\ To(a, "name")
  /\ UNCHANGED <<row, running, on, target, upload, goal, saved, started, faults,
                 latest, stale, crossed, torn, cut>>

\* Mutation of NameDeployment: the bytes are not put back.
NameAndLeave(a) ==
  /\ pc[a] = "name"
  /\ Store(a, snap[a].dep, None)
  /\ To(a, "idle")
  /\ UNCHANGED <<engine, running, on, target, snap, upload, goal, counters,
                 latest, torn, cut>>

\* The row gets the deployment's id and loses its bytes, which the next step
\* puts back.
NameDeployment(a) ==
  /\ pc[a] = "name"
  /\ Store(a, snap[a].dep, None)
  /\ To(a, IF Found(a) THEN "refill" ELSE "idle")
  /\ UNCHANGED <<engine, running, on, target, snap, upload, goal, counters,
                 latest, torn, cut>>

Refill(a) ==
  /\ pc[a] = "refill"
  /\ Store(a, snap[a].dep, snap[a].content)
  /\ To(a, "idle")
  /\ UNCHANGED <<engine, running, on, target, snap, upload, goal, counters,
                 latest, torn, cut>>
-----------------------------------------------------------------------------
(* deletion of a resource and, by hand, of its deployment *)

ReadToDelete(a, r) ==
  /\ Begins(a, r)
  /\ goal' = [goal EXCEPT ![a] = "delete"]
  /\ To(a, IF row[r].dep = None THEN "erase" ELSE "look")
  /\ UNCHANGED <<row, engine, running, upload, counters, latest, crossed, torn, cut>>

RunTool(a, r, force) ==
  /\ pc[a] = "idle"
  /\ on' = [on EXCEPT ![a] = r]
  /\ goal' = [goal EXCEPT ![a] = IF force THEN "force" ELSE "remove"]
  /\ stale' = stale \ {a}
  /\ To(a, "look")
  /\ UNCHANGED <<row, engine, running, target, snap, upload, counters, latest,
                 crossed, torn, cut>>

\* findByUK of deleteDeployment, which throws for a row without a deployment.
Look(a) ==
  LET found == row[on[a]] # None /\ row[on[a]].dep # None IN
  /\ pc[a] = "look"
  /\ snap' = IF found THEN [snap EXCEPT ![a] = row[on[a]]] ELSE snap
  /\ To(a, IF found THEN "remove" ELSE "idle")
  /\ UNCHANGED <<row, engine, running, on, target, upload, goal, counters,
                 latest, stale, crossed, torn, cut>>

\* The engine refuses a deployment it does not know and, unless forced, one
\* with unfinished processes.
Removable(a) ==
  /\ engine[snap[a].dep] # None
  /\ snap[a].dep \in running => goal[a] = "force"

\* Mutation of RemovalRefused: the exception is swallowed and the row written.
RemovalUnnoticed(a) ==
  /\ pc[a] = "remove" /\ ~Removable(a)
  /\ To(a, "unname")
  /\ UNCHANGED <<row, engine, running, on, target, snap, upload, goal, counters,
                 latest, stale, crossed, torn, cut>>

RemovalRefused(a) ==
  /\ pc[a] = "remove" /\ ~Removable(a)
  /\ To(a, "idle")
  /\ UNCHANGED <<row, engine, running, on, target, snap, upload, goal, counters,
                 latest, stale, crossed, torn, cut>>

Remove(a) ==
  /\ pc[a] = "remove" /\ Removable(a)
  /\ engine' = [engine EXCEPT ![snap[a].dep] = None]
  /\ running' = running \ {snap[a].dep}
  /\ To(a, "unname")
  /\ UNCHANGED <<row, on, target, snap, upload, goal, counters, latest, stale,
                 crossed, torn, cut>>

\* Mutation of Unname: nothing is written when nothing follows.
UnnameToDelete(a) ==
  /\ pc[a] = "unname"
  /\ IF goal[a] = "delete" THEN Store(a, None, snap[a].content)
                           ELSE UNCHANGED <<row, stale, crossed>>
  /\ To(a, IF goal[a] = "delete" /\ Found(a) /\ snap[a].oid = target[a] THEN "erase" ELSE "idle")
  /\ UNCHANGED <<engine, running, on, target, snap, upload, goal, counters,
                 latest, torn, cut>>

\* The deployment's id is blanked.  delete then reads its row from the session,
\* which answers with what was just written, unless that was another row.
Unname(a) ==
  /\ pc[a] = "unname"
  /\ Store(a, None, snap[a].content)
  /\ To(a, IF goal[a] = "delete" /\ Found(a) /\ snap[a].oid = target[a] THEN "erase" ELSE "idle")
  /\ UNCHANGED <<engine, running, on, target, snap, upload, goal, counters,
                 latest, torn, cut>>

\* deleteObject, by the OID.
Erase(a) ==
  LET found == row[on[a]] # None /\ row[on[a]].oid = target[a] IN
  /\ pc[a] = "erase"
  /\ row' = IF found THEN [row EXCEPT ![on[a]] = None] ELSE row
  /\ stale' = IF found THEN stale \cup (AtWork(on[a]) \ {a}) ELSE stale
  /\ crossed' = IF a \in stale THEN crossed \cup {on[a]} ELSE crossed
  /\ To(a, "idle")
  /\ UNCHANGED <<engine, running, on, target, snap, upload, goal, counters,
                 latest, torn, cut>>
-----------------------------------------------------------------------------
(* Processes, exceptions and crashes *)

\* The newest version of a process is started.
Start(d) ==
  /\ engine[d] # None /\ started < MaxStarts
  /\ \A e \in Ids : Live(e, engine[d].of) => e <= d
  /\ started' = started + 1
  /\ running' = running \cup {d}
  /\ UNCHANGED <<row, engine, calls, saved, made, faults, latest, stale, crossed, torn, cut>>

Finish(d) ==
  /\ d \in running
  /\ running' = running \ {d}
  /\ UNCHANGED <<row, engine, calls, counters, latest, stale, crossed, torn, cut>>

\* The next step throws, or the server dies.
HalfDone == {"fill", "name", "refill", "unname"}
Dies(a) ==
  /\ pc[a] # "idle" /\ faults < MaxFaults
  /\ faults' = faults + 1
  /\ torn' = IF pc[a] \in HalfDone THEN torn \cup {on[a]} ELSE torn
  /\ To(a, "idle")
  /\ UNCHANGED <<row, engine, running, on, target, snap, upload, goal, saved,
                 made, started, latest, stale, crossed, cut>>

Step(a) ==
  \/ ClearToUpdate(a) \/ FillToUpdate(a)
  \/ FindToDeploy(a) \/ Deploy(a) \/ NameDeployment(a) \/ Refill(a)
  \/ Look(a) \/ Remove(a) \/ RemovalRefused(a) \/ Unname(a) \/ Erase(a)
  \/ Dies(a)

Next ==
  \/ \E r \in Resources, c \in Archives : Save(r, c)
  \/ \E a \in Admins :
       \/ Step(a)
       \/ \E r \in Resources :
            \/ \E c \in Archives \cup {None} : ReadToUpdate(a, r, c)
            \/ ReadToDeploy(a, r)
            \/ ReadToDelete(a, r)
            \/ \E force \in BOOLEAN : RunTool(a, r, force)
  \/ \E d \in Ids : Start(d) \/ Finish(d)

Spec == Init /\ [][Next]_vars
-----------------------------------------------------------------------------
\* The type invariant; a call that is about to write holds a row.
TypeOK ==
  /\ row \in [Resources -> Rows \cup {None}]
  /\ engine \in [Ids -> Deployments \cup {None}]
  /\ running \subseteq {d \in Ids : engine[d] # None}
  /\ pc \in [Admins -> {"idle", "clear", "fill", "find", "deploy", "name",
                        "refill", "look", "remove", "unname", "erase"}]
  /\ on \in [Admins -> Resources \cup {None}]
  /\ target \in [Admins -> Oids \cup {None}]
  /\ snap \in [Admins -> Rows \cup {None}]
  /\ upload \in [Admins -> Archives \cup {None}]
  /\ goal \in [Admins -> {"none", "delete", "remove", "force"}]
  /\ saved \in 0..MaxSaves /\ made \in 0..MaxDeployments
  /\ started \in 0..MaxStarts /\ faults \in 0..MaxFaults
  /\ latest \in [Resources -> Archives \cup {None}]
  /\ stale \subseteq Admins /\ cut \subseteq Ids
  /\ crossed \subseteq Resources /\ torn \subseteq Resources
  /\ \A a \in Admins :
       /\ pc[a] # "idle" => on[a] \in Resources
       /\ pc[a] \notin {"idle", "look"} => snap[a] # None
       /\ pc[a] \in {"remove", "unname", "name", "refill"} => snap[a].dep # None
       /\ pc[a] = "deploy" => snap[a].content # None

\* A resource whose calls were not stopped half-way and did not write on
\* another's write.
Sound(r) == r \notin torn \cup crossed

\* The row of a sound resource holds the archive uploaded last, or a call that
\* has cleared it is about to put it back: updates, deployments and removals of
\* deployments, which all write the bytes back, do not lose or revive any.
ContentKept ==
  \A r \in Resources : row[r] # None /\ Sound(r) =>
    \/ row[r].content = latest[r]
    \/ \E a \in Admins : pc[a] \in {"fill", "refill"} /\ on[a] = r

\* The deployment that the row of a sound resource names is in the engine and
\* is its own, or a call is about to blank the name.
NamedIsLive ==
  \A r \in Resources : row[r] # None /\ row[r].dep # None /\ Sound(r) =>
    \/ Live(row[r].dep, r)
    \/ \E a \in Admins : pc[a] = "unname" /\ on[a] = r /\ snap[a].dep = row[r].dep

\* Every deployment of a sound resource is named by its row, or is about to be;
\* only an update leaves deployments in the engine that no row names.
LiveIsNamed ==
  \A r \in Resources, d \in Ids : Live(d, r) /\ Sound(r) /\ d \notin cut =>
    \/ row[r] # None /\ row[r].dep = d
    \/ \E a \in Admins : pc[a] = "name" /\ on[a] = r /\ snap[a].dep = d

\* The named deployment of a sound resource was made of the archive uploaded last.
NamedIsCurrent ==
  \A r \in Resources :
    row[r] # None /\ row[r].dep # None /\ Sound(r) /\ Live(row[r].dep, r)
      => engine[row[r].dep].content = latest[r]

\* The archive of a sound resource as its users see it: the bytes of its row, or
\* those that a call is about to put back.
ArchiveOf(r) ==
  IF row[r] = None \/ ~Sound(r) THEN None
  ELSE IF row[r].content # None THEN row[r].content
  ELSE IF \E a \in Admins : pc[a] \in {"fill", "refill"} /\ on[a] = r THEN latest[r]
  ELSE None

\* What its version was made of: the deployment its row names, if it is there.
VersionOf(r) ==
  IF row[r] # None /\ Sound(r) /\ row[r].dep # None /\ Live(row[r].dep, r)
    THEN engine[row[r].dep].content
    ELSE None

\* Seen so, the calls of several steps change a sound resource at one instant
\* each: updates, deployments, removals and deletions in any interleaving keep
\* the promises of ProcessStore.
Abstract == INSTANCE ProcessStore
  WITH archive <- [r \in Resources |-> ArchiveOf(r)],
       version <- [r \in Resources |-> VersionOf(r)],
       broken <- torn \cup crossed
ImplementsStore == Abstract!Spec
=============================================================================
