----------------------------- MODULE AccessAdmin -----------------------------
(***************************************************************************)
(* The administration of roles, permissions, systems, programs and menus:  *)
(* RoleLogicServiceImpl, ApplicationSystemLogicServiceImpl,                *)
(* SystemProgramLogicServiceImpl and SystemMenuLogicServiceImpl.           *)
(*                                                                         *)
(* A call of a service is one transaction, whose deletes and inserts take  *)
(* effect together when it commits.  It decides what to write by reads     *)
(* that run in transactions of their own (findObjectByOid, findByUK,       *)
(* findListByParams are REQUIRES_NEW), each at an instant of its own.  The *)
(* tables have unique keys and no foreign keys.                            *)
(***************************************************************************)
EXTENDS Naturals, FiniteSets, Sequences

CONSTANTS
  Admins,          \* threads that serve administrators
  Roles, Perms, Accounts, Programs, Systems,
  Folders,         \* the programs that are menu folders
  Super,           \* the roles admin and *, which have every permission
  Protected,       \* those and the default user role: never deleted
  MaxCommits       \* bound on the clock

ASSUME ConstantsAssumption ==
  /\ Folders \subseteq Programs
  /\ Super \subseteq Protected /\ Protected \subseteq Roles
  /\ MaxCommits \in Nat \ {0}
  \* Names of different kinds are different values.
  /\ Roles \cap (Perms \cup Accounts \cup Programs \cup Systems) = {}
  /\ Programs \cap (Perms \cup Accounts \cup Systems) = {}
  /\ Systems \cap (Perms \cup Accounts) = {}

VARIABLES
  rows,       \* the rows of all tables
  clock,      \* one more than the number of commits
  call,       \* the call each administrator's thread is serving
  raced,      \* history: names a call relied on while another one deleted them
  blended     \* history: groups a call found empty while another one filled them

vars == <<rows, clock, call, raced, blended>>

(***************************************************************************)
(* A row links the name a to the name b; "by", the commit that inserted    *)
(* it, stands for its OID.  Rows not saved yet have none.  A "master" row  *)
(* is the row of a itself, with the system b of a program, and a menu row  *)
(* with a = b is that of a folder at the root of the menu.                 *)
(***************************************************************************)
Masters == Roles \cup Programs \cup Systems
Unsaved == 0
RowOf(t, a, b) == [t |-> t, a |-> a, b |-> b, by |-> Unsaved]
Shape(t, A, B, by) == [t : {t}, a : A, b : B, by : by]
MasterRow(by) ==
  Shape("master", Programs, Systems, by)
    \cup {x \in Shape("master", Roles \cup Systems, Roles \cup Systems, by) : x.a = x.b}
MenuRow(by) ==
  Shape("menu", Folders, Programs \ Folders, by)
    \cup {x \in Shape("menu", Folders, Folders, by) : x.a = x.b}
LinkRow(by) ==
  MenuRow(by) \cup Shape("perm", Perms, Roles, by)
    \cup Shape("user", Accounts, Roles, by) \cup Shape("menuRole", Programs, Roles, by)
Row(by) == MasterRow(by) \cup LinkRow(by)

\* The unique keys of the tables, and the primary key.
SameKey(x, y) == x.t = y.t /\ x.a = y.a /\ (x.t = "master" \/ x.b = y.b)
SameRow(x, y) == SameKey(x, y) /\ x.by = y.by

IsRowOf(x, e) == x.t = "master" /\ x.a = e
Exists(x) == \E y \in rows : SameRow(x, y)
Refs(x) == IF x.t = "master" THEN {x.b} \ {x.a} ELSE {x.a, x.b} \cap Masters

(***************************************************************************)
(* A call: the operation, the name it is about, the tables it has still to *)
(* list, the rows it has still to look up, and what it will delete and     *)
(* insert when it commits.                                                 *)
(***************************************************************************)
Ops == {"save", "copy", "user", "menuRole", "menu", "delete"}
Idle == [op |-> "idle"]
Call(op, obj, todo, want, del, ins) ==
  [op |-> op, obj |-> obj, began |-> clock,
   todo |-> todo, want |-> want, del |-> del, ins |-> ins]
Save(obj, del, ins) == Call("save", obj, <<>>, {}, del, ins)
Start(op, obj, todo, want) == Call(op, obj, todo, want, {}, {})

\* A call relies on a name that it has found and is going to refer to.
ReliesOn(k, e) ==
  /\ k.op # "idle"
  /\ \/ \E x \in k.ins : e \in Refs(x)
     \/ k.op \in {"menuRole", "menu"} /\ e = k.obj
Deletes(k, e) == k.op = "delete" /\ k.obj = e
\* A call is about to replace a group of which it found no row.
FoundEmpty(k) == k.op \in {"user", "menu"} /\ k.todo = <<>> /\ k.del = {}
SameGroup(k, l) == k.op = l.op /\ k.op \in {"user", "menu"} /\ k.obj = l.obj

\* Thread c goes on with k; the history notes whom it meets.
Proceed(c, k) ==
  /\ call' = [call EXCEPT ![c] = k]
  /\ raced' = raced \cup {e \in Masters :
       \E d \in Admins \ {c} : \/ ReliesOn(k, e) /\ Deletes(call[d], e)
                               \/ ReliesOn(call[d], e) /\ Deletes(k, e)}
  /\ blended' = IF \E d \in Admins \ {c} : SameGroup(k, call[d])
                                             /\ (FoundEmpty(k) \/ FoundEmpty(call[d]))
                THEN blended \cup {<<k.op, k.obj>>} ELSE blended

Begin(c, k) == call[c] = Idle /\ Proceed(c, k) /\ UNCHANGED <<rows, clock>>

\* The database as installed: some masters, and links between them.
Init ==
  /\ \E masters \in SUBSET MasterRow({1}), links \in SUBSET LinkRow({1}) :
       /\ rows = masters \cup links
       /\ \A x, y \in masters : x.a = y.a => x = y
       /\ \A x \in rows, e \in Masters : e \in Refs(x) => \E y \in masters : y.a = e
       /\ \A x \in links : x.t = "menu" => [x EXCEPT !.b = x.a] \in links
  /\ clock = 1
  /\ call = [c \in Admins |-> Idle]
  /\ raced = {} /\ blended = {}
-----------------------------------------------------------------------------
(* How the calls begin *)

Found(names) == {x \in rows : x.t = "master" /\ x.a \in names}

\* saveObject counts the key before it inserts.
CreateRole(c) ==
  \E r \in Roles :
    /\ Found({r}) = {}
    /\ Begin(c, Save(r, {}, {RowOf("master", r, r)}))

CreateSystem(c) ==
  \E s \in Systems :
    /\ Found({s}) = {}
    /\ Begin(c, Save(s, {}, {RowOf("master", s, s)}))

\* Mutation of RoleLinks: the rows of tb_user_role are forgotten.
RoleLinksWithoutUsers == <<"perm", "menuRole">>
RoleLinks == <<"perm", "user", "menuRole">>
DeleteRole(c) ==
  \E x \in Found(Roles \ Protected) :
    Begin(c, Start("delete", x.a, RoleLinks, {x}))

DeleteProgram(c) ==
  \E x \in Found(Programs) :
    Begin(c, Start("delete", x.a, <<"menuRole">>, {x}))

DeleteSystem(c) ==
  \E x \in Found(Systems) : Begin(c, Start("delete", x.a, <<>>, {x}))

CreatePermission(c) ==
  \E x \in Found(Roles \ Super), p \in Perms :
    Begin(c, Save(p, {}, {RowOf("perm", p, x.a)}))

DeletePermission(c) ==
  \E x \in rows :
    /\ x.t = "perm"
    /\ Begin(c, Save(x.a, {x}, {}))

CreateProgram(c) ==
  \E g \in Programs, s \in Found(Systems) :
    Begin(c, Save(g, {}, {RowOf("master", g, s.a)}))

\* A row that is updated keeps its OID.
UpdateProgram(c) ==
  \E x \in Found(Programs), s \in Found(Systems) :
    Begin(c, Save(x.a, {x}, {[x EXCEPT !.b = s.a]}))

\* The form posts the OIDs of the roles, or of the children, that are wanted.
UpdateUserRole(c) ==
  \E a \in Accounts, want \in SUBSET Found(Roles) :
    Begin(c, Start("user", a, <<"user">>, want))

UpdateMenuRole(c) ==
  \E g \in Found(Programs), want \in SUBSET Found(Roles) :
    Begin(c, Start("menuRole", g.a, <<"menuRole">>, want))

CreateOrUpdateMenu(c) ==
  \E f \in Found(Folders), want \in SUBSET Found(Programs \ Folders) :
    Begin(c, Start("menu", f.a, <<"root", "menu">>, want))

CopyAsNew(c) ==
  \E x \in Found(Roles), r \in Roles :
    Begin(c, Call("copy", x.a, <<"perm", "menuRole">>, {}, {}, {RowOf("master", r, r)}))
-----------------------------------------------------------------------------
(* How they go on *)

\* Mutation of Blocks: the menu is not looked at.
BlocksButMenu(x, e) == x.b = e /\ x.t = "master" /\ x.a # e

\* What keeps a program or a system from being deleted.
Blocks(x, e) == x.b = e /\ (x.t = "menu" \/ (x.t = "master" /\ x.a # e))

\* countByParams, the first read in the call's own transaction, fixes what the
\* later countByOid sees: a row that is gone by now is not deleted, and the call
\* reports DELETE_FAIL but commits what else it deletes.
Check(c) ==
  /\ call[c].op = "delete" /\ call[c].want # {}
  /\ ~\E x \in rows : Blocks(x, call[c].obj)
  /\ Proceed(c, [call[c] EXCEPT !.want = {}, !.del = {x \in call[c].want : Exists(x)}])
  /\ UNCHANGED <<rows, clock>>

\* The folder's own menu row is inserted unless it is there.
Root(c) ==
  LET k == call[c]
      root == RowOf("menu", k.obj, k.obj) IN
  /\ k.op = "menu" /\ k.todo # <<>> /\ Head(k.todo) = "root"
  /\ Proceed(c, [k EXCEPT !.todo = Tail(k.todo),
                          !.ins = IF \E y \in rows : SameKey(root, y) THEN {} ELSE {root}])
  /\ UNCHANGED <<rows, clock>>

Linked(t, e) == {x \in rows : x.t = t /\ x.a # x.b /\ e \in {x.a, x.b}}

\* Mutation of List: the links of every name are listed.
ListAll(c) ==
  LET k == call[c]
      listed == {x \in rows : x.t = Head(k.todo) /\ x.a # x.b}
      into == (CHOOSE x \in k.ins : x.t = "master").b IN
  /\ k.op # "idle" /\ k.todo # <<>> /\ Head(k.todo) # "root"
  /\ k.op = "delete" => k.want = {}
  /\ Proceed(c, IF k.op = "copy"
       THEN [k EXCEPT !.todo = Tail(k.todo),
                      !.ins = @ \cup {RowOf(x.t, x.a, into) : x \in listed}]
       ELSE [k EXCEPT !.todo = Tail(k.todo), !.del = @ \cup listed])
  /\ UNCHANGED <<rows, clock>>

\* findListByParams: the links there are now will be deleted, or copied to the
\* new role.
List(c) ==
  LET k == call[c]
      listed == Linked(Head(k.todo), k.obj)
      into == (CHOOSE x \in k.ins : x.t = "master").b IN
  /\ k.op # "idle" /\ k.todo # <<>> /\ Head(k.todo) # "root"
  /\ k.op = "delete" => k.want = {}
  /\ Proceed(c, IF k.op = "copy"
       THEN [k EXCEPT !.todo = Tail(k.todo),
                      !.ins = @ \cup {RowOf(x.t, x.a, into) : x \in listed}]
       ELSE [k EXCEPT !.todo = Tail(k.todo), !.del = @ \cup listed])
  /\ UNCHANGED <<rows, clock>>

\* findObjectByOid of a role or child the form names; it may be gone (Abort).
LookUp(c) ==
  LET k == call[c] IN
  /\ k.op \in {"user", "menuRole", "menu"} /\ k.todo = <<>>
  /\ \E x \in {x \in k.want : Exists(x)} :
       Proceed(c, [k EXCEPT !.want = @ \ {x}, !.ins = @ \cup {RowOf(k.op, k.obj, x.a)}])
  /\ UNCHANGED <<rows, clock>>

Kept(k) == {x \in rows : ~\E d \in k.del : SameRow(d, x)}

\* Mutation of Saved: no OID is generated.
SavedWithoutOid(x) == x
\* generateOid.
Saved(x) == IF x.by = Unsaved THEN [x EXCEPT !.by = clock + 1] ELSE x
Ready(k) == k.op # "idle" /\ k.todo = <<>> /\ k.want = {}

\* Mutation of Commit: rows that are gone are deleted silently.
CommitUnchecked(c) ==
  LET k == call[c] IN
  /\ Ready(k)
  /\ \A i \in k.ins, x \in Kept(k) : ~SameKey(i, x)
  /\ rows' = Kept(k) \cup {Saved(i) : i \in k.ins}
  /\ clock' = clock + 1
  /\ Proceed(c, Idle)

\* Hibernate refuses to delete or update a row that is gone, and the database to
\* insert a second row for a unique key.
Commit(c) ==
  LET k == call[c] IN
  /\ Ready(k)
  /\ \A d \in k.del : Exists(d)
  /\ \A i \in k.ins, x \in Kept(k) : ~SameKey(i, x)
  /\ rows' = Kept(k) \cup {Saved(i) : i \in k.ins}
  /\ clock' = clock + 1
  /\ Proceed(c, Idle)

\* Every exception rolls back: a name that is not found, a name in use, a key that
\* exists, a row that is gone, a database that fails, a server that dies.
Abort(c) ==
  /\ call[c] # Idle
  /\ Proceed(c, Idle)
  /\ UNCHANGED <<rows, clock>>
-----------------------------------------------------------------------------
RoleCalls(c) ==
  \/ CreateRole(c) \/ DeleteRole(c) \/ CopyAsNew(c)
  \/ CreatePermission(c) \/ DeletePermission(c) \/ UpdateUserRole(c) \/ UpdateMenuRole(c)

ProgramCalls(c) ==
  \/ CreateSystem(c) \/ DeleteSystem(c)
  \/ CreateProgram(c) \/ UpdateProgram(c) \/ DeleteProgram(c) \/ CreateOrUpdateMenu(c)

\* The bound: nobody goes on after the last commit.
Next ==
  /\ clock < MaxCommits
  /\ \E c \in Admins :
       \/ RoleCalls(c) \/ ProgramCalls(c)
       \/ Check(c) \/ Root(c) \/ List(c) \/ LookUp(c) \/ Commit(c) \/ Abort(c)

Spec == Init /\ [][Next]_vars
-----------------------------------------------------------------------------
Names == Masters \cup Perms \cup Accounts
CallType ==
  [op : Ops, obj : Names, began : 1..clock,
   todo : Seq({"root", "perm", "user", "menuRole", "menu"}),
   want : SUBSET MasterRow(1..clock), del : SUBSET Row(1..clock),
   ins : SUBSET (Row({Unsaved}) \cup MasterRow(1..clock))]

\* The type invariant: every row links names of the kinds its table is for.
TypeOK ==
  /\ clock \in 1..MaxCommits
  /\ rows \subseteq Row(1..clock)
  /\ call \in [Admins -> CallType \cup {Idle}]
  /\ raced \subseteq Masters
  /\ blended \subseteq {"user", "menu"} \X Names

\* No permission, assignment, menu entry or program refers to a role, program or
\* system that is not there, unless some call relied on that name while another
\* call was deleting it: the schema has no foreign key that would notice.
TargetsExist ==
  \A x \in rows : \A e \in Refs(x) \ raced : Found({e}) # {}

\* The roles of an account, and the entries of a folder, are those of one form an
\* administrator sent, never a mixture of two: the second of two calls that replace
\* the same rows fails on them.  Two calls that find no rows both succeed.
NoMixture ==
  \A x, y \in rows :
    x.t = y.t /\ x.t \in {"user", "menu"} /\ x.a = y.a /\ x.a \notin {x.b, y.b}
      => x.by = y.by \/ <<x.t, x.a>> \in blended

\* delete removes nothing but the links of its role or program, and them together
\* with the row itself.  The exception is a name deleted and created anew since the
\* call began: the call reports DELETE_FAIL, and the new one's links are gone.
LinksGoTogether ==
  [][\A c \in Admins, e \in Masters : Deletes(call[c], e) /\ call'[c] # call[c] =>
       \A x \in rows \ rows' :
         /\ x.a = e \/ e \in Refs(x)
         /\ Found({e})' = {} \/ \A y \in Found({e}) : y.by > call[c].began]_vars
=============================================================================
