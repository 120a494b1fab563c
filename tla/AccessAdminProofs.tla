-------------------------- MODULE AccessAdminProofs --------------------------
(***************************************************************************)
(* Proofs about AccessAdmin, for any names, threads and number of commits. *)
(***************************************************************************)
EXTENDS AccessAdmin, TLAPS

\* The lists a call works through, and what is left of them.
Todos == {<<>>, <<"user">>, <<"menuRole">>, <<"menu">>, <<"root", "menu">>,
          <<"perm", "menuRole">>, <<"user", "menuRole">>, <<"perm", "user", "menuRole">>}

LEMMA TodoSteps ==
  /\ \A s \in Todos : s \in Seq({"root", "perm", "user", "menuRole", "menu"})
  /\ \A s \in Todos : s = <<>> \/ Tail(s) \in Todos
  /\ Head(<<"user">>) = "user" /\ Tail(<<"user">>) = <<>>
  /\ Head(<<"menuRole">>) = "menuRole" /\ Tail(<<"menuRole">>) = <<>>
  /\ Head(<<"menu">>) = "menu" /\ Tail(<<"menu">>) = <<>>
  /\ Head(<<"root", "menu">>) = "root" /\ Tail(<<"root", "menu">>) = <<"menu">>
  /\ Head(<<"perm", "menuRole">>) = "perm" /\ Tail(<<"perm", "menuRole">>) = <<"menuRole">>
  /\ Head(<<"user", "menuRole">>) = "user" /\ Tail(<<"user", "menuRole">>) = <<"menuRole">>
  /\ Head(<<"perm", "user", "menuRole">>) = "perm"
  /\ Tail(<<"perm", "user", "menuRole">>) = <<"user", "menuRole">>
<1>1. /\ Head(<<"user">>) = "user" /\ Tail(<<"user">>) = <<>>
      /\ Head(<<"menuRole">>) = "menuRole" /\ Tail(<<"menuRole">>) = <<>>
      /\ Head(<<"menu">>) = "menu" /\ Tail(<<"menu">>) = <<>>
  OBVIOUS
<1>2. /\ Head(<<"root", "menu">>) = "root" /\ Tail(<<"root", "menu">>) = <<"menu">>
      /\ Head(<<"perm", "menuRole">>) = "perm" /\ Tail(<<"perm", "menuRole">>) = <<"menuRole">>
      /\ Head(<<"user", "menuRole">>) = "user" /\ Tail(<<"user", "menuRole">>) = <<"menuRole">>
  OBVIOUS
<1>3. /\ Head(<<"perm", "user", "menuRole">>) = "perm"
      /\ Tail(<<"perm", "user", "menuRole">>) = <<"user", "menuRole">>
  OBVIOUS
<1>4. \A s \in Todos : s \in Seq({"root", "perm", "user", "menuRole", "menu"})
  <2> DEFINE T == {"root", "perm", "user", "menuRole", "menu"}
  <2>1. <<>> \in Seq(T) /\ <<"user">> \in Seq(T) /\ <<"menuRole">> \in Seq(T)
    OBVIOUS
  <2>2. <<"menu">> \in Seq(T) /\ <<"root", "menu">> \in Seq(T) /\ <<"perm", "menuRole">> \in Seq(T)
    OBVIOUS
  <2>3. <<"user", "menuRole">> \in Seq(T) /\ <<"perm", "user", "menuRole">> \in Seq(T)
    OBVIOUS
  <2> QED BY <2>1, <2>2, <2>3 DEF Todos
<1>5. \A s \in Todos : s = <<>> \/ Tail(s) \in Todos
  BY <1>1, <1>2, <1>3 DEF Todos
<1> QED BY <1>1, <1>2, <1>3, <1>4, <1>5
-----------------------------------------------------------------------------
(* The inductive invariant *)

\* What a call of each kind has in hand.
SaveShape(k) ==
  k.op = "save" =>
    /\ k.todo = <<>> /\ k.want = {}
    /\ \A i \in k.ins : i.t \in {"master", "perm"} /\ (i.by = Unsaved \/ \E d \in k.del : SameRow(d, i))
    /\ \A d \in k.del : d.t = "perm" \/ \E i \in k.ins : SameRow(d, i)
    /\ \A i, j \in k.ins : i = j

CopyShape(k) ==
  k.op = "copy" =>
    /\ k.todo \in {<<"perm", "menuRole">>, <<"menuRole">>, <<>>}
    /\ k.want = {} /\ k.del = {}
    /\ \E r \in Roles :
         /\ RowOf("master", r, r) \in k.ins
         /\ \A i \in k.ins : \/ i = RowOf("master", r, r)
                             \/ i.t \in {"perm", "menuRole"} /\ i.b = r /\ i.by = Unsaved

GroupShape(k) ==
  /\ k.op = "user" => k.obj \in Accounts /\ k.todo \in {<<"user">>, <<>>}
  /\ k.op = "menuRole" => k.obj \in Programs /\ k.todo \in {<<"menuRole">>, <<>>}
  /\ k.op = "menu" => k.obj \in Folders /\ k.todo \in {<<"root", "menu">>, <<"menu">>, <<>>}
  /\ k.op \in {"user", "menuRole", "menu"} =>
       /\ \A x \in k.want : x.t = "master"
            /\ x.a \in IF k.op = "menu" THEN Programs \ Folders ELSE Roles
       /\ \A i \in k.ins : i.t = k.op /\ i.a = k.obj /\ i.by = Unsaved
       /\ \A d \in k.del : d.t = k.op /\ d.a = k.obj /\ d.b # k.obj
       /\ k.todo # <<>> => k.del = {} /\ \A i \in k.ins : i.b = k.obj

DeleteShape(k) ==
  k.op = "delete" =>
    /\ k.ins = {} /\ k.obj \in Masters /\ (k.want # {} => k.del = {})
    /\ k.obj \in Roles => k.todo \in {RoleLinks, <<"user", "menuRole">>, <<"menuRole">>, <<>>}
                            /\ (k.want # {} => k.todo = RoleLinks)
    /\ k.obj \in Programs => k.todo \in {<<"menuRole">>, <<>>}
                               /\ (k.want # {} => k.todo = <<"menuRole">>)
    /\ k.obj \in Systems => k.todo = <<>>
    /\ \A x \in k.want : IsRowOf(x, k.obj)
    /\ \A d \in k.del : d.t # "menu" /\ (d.t = "master" => d.a = k.obj)
                          /\ (d.a = k.obj \/ k.obj \in Refs(d))

Fits(k) ==
  k \in CallType /\ SaveShape(k) /\ CopyShape(k) /\ GroupShape(k) /\ DeleteShape(k)

\* What a call relies on is there, unless it met a deletion.
Relied(k) ==
  \A e \in Masters \ raced :
    ReliesOn(k, e) => Found({e}) # {} \/ \E m \in k.ins : IsRowOf(m, e)

\* The links that a deletion has not listed are of the tables it will still list.
Waits(k, t) ==
  \/ t = "perm" /\ k.todo = RoleLinks
  \/ t = "user" /\ k.todo \in {RoleLinks, <<"user", "menuRole">>}
  \/ t = "menuRole" /\ k.todo # <<>>
Covered(k) ==
  k.op = "delete" /\ k.want = {} /\ k.obj \notin raced =>
    \A x \in rows : k.obj \in Refs(x) => x \in k.del \/ Waits(k, x.t)

\* A folder has its own menu row before it has entries.
IsRoot(y, f) == y.t = "menu" /\ y.a = f /\ y.b = f
Rooted(k) ==
  k.op = "menu" /\ k.todo # <<"root", "menu">> => \E y \in rows \cup k.ins : IsRoot(y, k.obj)

\* The row a deletion is for is the one it found, or is younger than the call.
Dated(k) ==
  k.op = "delete" =>
    \A m \in rows : IsRowOf(m, k.obj) =>
      m.by > k.began \/ \E d \in k.want \cup k.del : SameRow(d, m)

\* A call that still finds what it is going to delete has all of the group.
Grouped(k) ==
  k.op \in {"user", "menu"} /\ k.todo = <<>> /\ <<k.op, k.obj>> \notin blended /\ k.del \subseteq rows =>
    \A x \in rows : x.t = k.op /\ x.a = k.obj /\ x.b # k.obj => x \in k.del

Known(k) == Relied(k) /\ Covered(k) /\ Rooted(k) /\ Dated(k) /\ Grouped(k)
Sound(k) == k = Idle \/ (Fits(k) /\ Known(k))

Keys == \A x, y \in rows : SameKey(x, y) => x = y
Roots == \A x \in rows : x.t = "menu" => \E y \in rows : IsRoot(y, x.a)
Tables == rows \subseteq Row(1..clock) /\ clock \in 1..MaxCommits /\ raced \subseteq Masters
            /\ blended \subseteq {"user", "menu"} \X Names

\* The history knows which calls have met.
Meet ==
  \A c, d \in Admins : c # d =>
    /\ \A e \in Masters : ReliesOn(call[c], e) /\ Deletes(call[d], e) => e \in raced
    /\ SameGroup(call[c], call[d]) /\ FoundEmpty(call[c])
         => <<call[c].op, call[c].obj>> \in blended

IInv ==
  /\ Tables /\ Keys /\ Roots /\ TargetsExist /\ NoMixture /\ Meet
  /\ call \in [Admins -> CallType \cup {Idle}]
  /\ \A c \in Admins : Sound(call[c])
-----------------------------------------------------------------------------
(* Rows *)

LEMMA RowFacts ==
  ASSUME NEW B, NEW x \in Row(B)
  PROVE  /\ x = [t |-> x.t, a |-> x.a, b |-> x.b, by |-> x.by]
         /\ x.t \in {"master", "perm", "user", "menuRole", "menu"} /\ x.by \in B
         /\ x.t = "master" => x \in MasterRow(B) /\ x.a \in Masters
                                /\ (x.a \in Programs => x.b \in Systems)
                                /\ (x.a \notin Programs => x.b = x.a)
         /\ x.t = "perm" => x.a \in Perms /\ x.b \in Roles
         /\ x.t = "user" => x.a \in Accounts /\ x.b \in Roles
         /\ x.t = "menuRole" => x.a \in Programs /\ x.b \in Roles
         /\ x.t = "menu" => x.a \in Folders /\ (x.b = x.a \/ x.b \in Programs \ Folders)
BY ConstantsAssumption, SMT
   DEF Row, LinkRow, MasterRow, MenuRow, Shape, Masters

\* A row stays one when it is given another OID.
LEMMA RowAnew ==
  ASSUME NEW B, NEW C, NEW x \in Row(B), NEW n \in C
  PROVE  /\ [x EXCEPT !.by = n] \in Row(C)
         /\ [x EXCEPT !.by = n].t = x.t /\ [x EXCEPT !.by = n].a = x.a
         /\ [x EXCEPT !.by = n].b = x.b /\ [x EXCEPT !.by = n].by = n
BY SMT DEF Row, LinkRow, MasterRow, MenuRow, Shape

LEMMA RowsGrow ==
  ASSUME NEW B, NEW C, B \subseteq C
  PROVE  Row(B) \subseteq Row(C) /\ MasterRow(B) \subseteq MasterRow(C) /\ MasterRow(B) \subseteq Row(B)
BY SMT DEF Row, LinkRow, MasterRow, MenuRow, Shape

\* Rows of tables other than the masters' are equal when SameRow says so.
LEMMA SameLink ==
  ASSUME NEW B, NEW C, NEW x \in Row(B), NEW y \in Row(C), SameRow(x, y), x.t # "master"
  PROVE  x = y
BY RowFacts DEF SameRow, SameKey

-----------------------------------------------------------------------------
(* A step that changes no table *)

\* It keeps the invariant if what the call has in hand then is sound.
LEMMA Moves ==
  ASSUME IInv, NEW c \in Admins, NEW k \in CallType \cup {Idle}, Proceed(c, k), Sound(k),
         UNCHANGED <<rows, clock>>
  PROVE  IInv'
<1> USE DEF IInv
<1>1. /\ call' = [call EXCEPT ![c] = k]
      /\ call \in [Admins -> CallType \cup {Idle}]
      /\ \A d \in Admins : call'[d] = IF d = c THEN k ELSE call[d]
      /\ CallType' = CallType
  BY DEF Proceed, CallType, Row, LinkRow, MasterRow, MenuRow, Shape
<1>2. raced \subseteq raced' /\ raced' \subseteq Masters
  BY DEF Proceed, Tables
<1>3. blended \subseteq blended' /\ blended' \subseteq {"user", "menu"} \X Names
  <2>1. \A d \in Admins : SameGroup(k, call[d]) => <<k.op, k.obj>> \in {"user", "menu"} \X Names
    BY DEF SameGroup, CallType, Idle
  <2> QED BY <2>1 DEF Proceed, Tables
<1>4. \A l : Sound(l) => Sound(l)'
  <2> SUFFICES ASSUME NEW l, Fits(l), Known(l) PROVE Fits(l)' /\ Known(l)'
    BY DEF Sound, Idle
  <2>1. Fits(l)'
    BY <1>1 DEF Fits, SaveShape, CopyShape, GroupShape, DeleteShape
  <2>2. Relied(l)' /\ Covered(l)' /\ Rooted(l)' /\ Dated(l)' /\ Grouped(l)'
    BY <1>2, <1>3 DEF Known, Relied, Covered, Rooted, Dated, Grouped, Found, ReliesOn
  <2> QED BY <2>1, <2>2 DEF Known
<1>5. \A d \in Admins : Sound(call[d])'
  BY <1>1, <1>4
<1>6. Tables' /\ Keys' /\ Roots' /\ call' \in [Admins -> CallType' \cup {Idle}]
  BY <1>1, <1>2, <1>3 DEF Tables, Keys, Roots, Row, LinkRow, MasterRow, MenuRow, Shape
<1>7. TargetsExist' /\ NoMixture'
  BY <1>2, <1>3 DEF TargetsExist, NoMixture, Found
<1>8. Meet'
  <2> SUFFICES ASSUME NEW d \in Admins, NEW e \in Admins, d # e
               PROVE  /\ \A n \in Masters : ReliesOn(call'[d], n) /\ Deletes(call'[e], n) => n \in raced'
                      /\ SameGroup(call'[d], call'[e]) /\ FoundEmpty(call'[d])
                           => <<call'[d].op, call'[d].obj>> \in blended'
    BY DEF Meet, ReliesOn, Deletes, SameGroup, FoundEmpty
  <2>1. CASE d # c /\ e # c
    BY <1>1, <1>2, <1>3, <2>1 DEF Meet
  <2>2. CASE d = c
    BY <1>1, <2>2 DEF Proceed
  <2>3. CASE e = c
    <3>1. SameGroup(call[d], k) => SameGroup(k, call[d]) /\ <<k.op, k.obj>> = <<call[d].op, call[d].obj>>
      BY DEF SameGroup
    <3> QED BY <1>1, <2>3, <3>1 DEF Proceed
  <2> QED BY <2>1, <2>2, <2>3
<1> QED BY <1>1, <1>5, <1>6, <1>7, <1>8

-----------------------------------------------------------------------------
(* The calls begin *)

LEMMA CallTyped ==
  ASSUME Tables, NEW op \in Ops, NEW obj \in Names, NEW todo \in Todos,
         NEW want \in SUBSET MasterRow(1..clock), NEW del \in SUBSET Row(1..clock),
         NEW ins \in SUBSET (Row({Unsaved}) \cup MasterRow(1..clock))
  PROVE  Call(op, obj, todo, want, del, ins) \in CallType
<1>1. clock \in 1..clock
  BY DEF Tables
<1>2. todo \in Seq({"root", "perm", "user", "menuRole", "menu"})
  BY TodoSteps
<1> QED BY <1>1, <1>2 DEF Call, CallType

\* What EXCEPT makes of a call.
LEMMA Updated ==
  ASSUME NEW k \in CallType, NEW todo, NEW want, NEW del, NEW ins
  PROVE  /\ [k EXCEPT !.ins = ins] = [op |-> k.op, obj |-> k.obj, began |-> k.began,
              todo |-> k.todo, want |-> k.want, del |-> k.del, ins |-> ins]
         /\ [k EXCEPT !.del = del] = [op |-> k.op, obj |-> k.obj, began |-> k.began,
              todo |-> k.todo, want |-> k.want, del |-> del, ins |-> k.ins]
         /\ [k EXCEPT !.want = want] = [op |-> k.op, obj |-> k.obj, began |-> k.began,
              todo |-> k.todo, want |-> want, del |-> k.del, ins |-> k.ins]
         /\ [k EXCEPT !.todo = todo] = [op |-> k.op, obj |-> k.obj, began |-> k.began,
              todo |-> todo, want |-> k.want, del |-> k.del, ins |-> k.ins]
<1>1. k = [op |-> k.op, obj |-> k.obj, began |-> k.began,
           todo |-> k.todo, want |-> k.want, del |-> k.del, ins |-> k.ins]
  BY DEF CallType
<1> QED BY <1>1, SMT DEF CallType

LEMMA FoundFacts ==
  ASSUME Tables, NEW names, NEW x \in Found(names)
  PROVE  /\ x \in rows /\ x.t = "master" /\ x.a \in names /\ x \in MasterRow(1..clock)
         /\ x \in Row(1..clock) /\ x.a \in Masters /\ x.by \in 1..clock
         /\ x \in Found({x.a})
<1>1. x \in rows /\ x.t = "master" /\ x.a \in names /\ x \in Found({x.a})
  BY DEF Found
<1>2. x \in Row(1..clock)
  BY <1>1 DEF Tables
<1> QED BY <1>1, <1>2, RowFacts

\* A call that only saves or deletes one row is ready at once.
LEMMA SaveBegins ==
  ASSUME IInv, NEW c \in Admins, NEW obj \in Names, NEW del \in SUBSET Row(1..clock),
         NEW ins \in SUBSET (Row({Unsaved}) \cup MasterRow(1..clock)),
         Begin(c, Save(obj, del, ins)),
         SaveShape(Save(obj, del, ins)),
         \A i \in ins : \A e \in Refs(i) : Found({e}) # {}
  PROVE  IInv'
<1> DEFINE k == Save(obj, del, ins)
<1>1. k \in CallType
  BY CallTyped DEF IInv, Ops, Todos, Save
<1>2. Fits(k)
  BY <1>1 DEF Fits, CopyShape, GroupShape, DeleteShape, Save, Call
<1>3. Known(k)
  BY DEF Known, Relied, ReliesOn, Covered, Rooted, Dated, Grouped, Save, Call
<1> QED BY <1>1, <1>2, <1>3, Moves DEF Sound, Begin

LEMMA NewMaster ==
  ASSUME NEW e \in Roles \cup Systems
  PROVE  RowOf("master", e, e) \in Row({Unsaved}) /\ Refs(RowOf("master", e, e)) = {}
BY DEF RowOf, Row, MasterRow, Shape, Refs

LEMMA CreateRoleKeeps == ASSUME IInv, NEW c \in Admins, CreateRole(c) PROVE IInv'
<1>1. PICK r \in Roles : Begin(c, Save(r, {}, {RowOf("master", r, r)}))
  BY DEF CreateRole
<1>2. {RowOf("master", r, r)} \subseteq Row({Unsaved}) \cup MasterRow(1..clock) /\ r \in Names
  BY NewMaster DEF Names, Masters
<1>3. SaveShape(Save(r, {}, {RowOf("master", r, r)}))
  BY DEF SaveShape, Save, Call, RowOf
<1> QED BY <1>1, <1>2, <1>3, NewMaster, SaveBegins

LEMMA CreateSystemKeeps == ASSUME IInv, NEW c \in Admins, CreateSystem(c) PROVE IInv'
<1>1. PICK s \in Systems : Begin(c, Save(s, {}, {RowOf("master", s, s)}))
  BY DEF CreateSystem
<1>2. {RowOf("master", s, s)} \subseteq Row({Unsaved}) \cup MasterRow(1..clock) /\ s \in Names
  BY NewMaster DEF Names, Masters
<1>3. SaveShape(Save(s, {}, {RowOf("master", s, s)}))
  BY DEF SaveShape, Save, Call, RowOf
<1> QED BY <1>1, <1>2, <1>3, NewMaster, SaveBegins

LEMMA CreatePermissionKeeps == ASSUME IInv, NEW c \in Admins, CreatePermission(c) PROVE IInv'
<1>1. PICK x \in Found(Roles \ Super), p \in Perms :
        Begin(c, Save(p, {}, {RowOf("perm", p, x.a)}))
  BY DEF CreatePermission
<1> DEFINE i == RowOf("perm", p, x.a)
<1>2. x.a \in Roles /\ Found({x.a}) # {}
  BY DEF Found
<1>3. i \in Row({Unsaved}) /\ \A e \in Refs(i) : e = x.a
  BY <1>2, ConstantsAssumption DEF RowOf, Row, LinkRow, Shape, Refs, Masters
<1>4. p \in Names
  BY DEF Names
<1>5. SaveShape(Save(p, {}, {i}))
  BY DEF SaveShape, Save, Call, RowOf
<1> QED BY <1>1, <1>2, <1>3, <1>4, <1>5, SaveBegins

LEMMA DeletePermissionKeeps == ASSUME IInv, NEW c \in Admins, DeletePermission(c) PROVE IInv'
<1>1. PICK x \in rows : x.t = "perm" /\ Begin(c, Save(x.a, {x}, {}))
  BY DEF DeletePermission
<1>2. x \in Row(1..clock) /\ x.a \in Names
  BY <1>1, RowFacts DEF IInv, Tables, Names
<1>3. SaveShape(Save(x.a, {x}, {}))
  BY <1>1 DEF SaveShape, Save, Call
<1> QED BY <1>1, <1>2, <1>3, SaveBegins

LEMMA CreateProgramKeeps == ASSUME IInv, NEW c \in Admins, CreateProgram(c) PROVE IInv'
<1>1. PICK g \in Programs, s \in Found(Systems) :
        Begin(c, Save(g, {}, {RowOf("master", g, s.a)}))
  BY DEF CreateProgram
<1> DEFINE i == RowOf("master", g, s.a)
<1>2. s.a \in Systems /\ Found({s.a}) # {}
  BY DEF Found
<1>3. i \in Row({Unsaved}) /\ \A e \in Refs(i) : e = s.a
  BY <1>2 DEF RowOf, Row, MasterRow, Shape, Refs
<1>4. g \in Names
  BY DEF Names, Masters
<1>5. SaveShape(Save(g, {}, {i}))
  BY DEF SaveShape, Save, Call, RowOf
<1> QED BY <1>1, <1>2, <1>3, <1>4, <1>5, SaveBegins

LEMMA UpdateProgramKeeps == ASSUME IInv, NEW c \in Admins, UpdateProgram(c) PROVE IInv'
<1>0. PICK x \in Found(Programs), s \in Found(Systems) :
        Begin(c, Save(x.a, {x}, {[x EXCEPT !.b = s.a]}))
  BY DEF UpdateProgram
<1>1. PICK i : i = [x EXCEPT !.b = s.a] /\ Begin(c, Save(x.a, {x}, {i}))
  BY <1>0
<1>2. s.a \in Systems /\ Found({s.a}) # {}
  BY DEF Found
<1>3. x \in Row(1..clock) /\ x.a \in Programs /\ x.t = "master" /\ x.by \in 1..clock
      /\ x = [t |-> x.t, a |-> x.a, b |-> x.b, by |-> x.by]
  BY FoundFacts, RowFacts DEF IInv
<1>4. i = [t |-> "master", a |-> x.a, b |-> s.a, by |-> x.by]
  BY <1>1, <1>3
<1>5. i \in MasterRow(1..clock) /\ \A e \in Refs(i) : e = s.a
  BY <1>2, <1>3, <1>4 DEF MasterRow, Shape, Refs
<1>6. x.a \in Names
  BY <1>3 DEF Names, Masters
<1>7. SaveShape(Save(x.a, {x}, {i}))
  BY <1>3, <1>4 DEF SaveShape, Save, Call, SameRow, SameKey
<1>8. {x} \in SUBSET Row(1..clock) /\ {i} \in SUBSET (Row({Unsaved}) \cup MasterRow(1..clock))
  BY <1>3, <1>5
<1>9. \A j \in {i} : \A e \in Refs(j) : Found({e}) # {}
  BY <1>2, <1>5
<1> QED BY <1>1, <1>6, <1>7, <1>8, <1>9, SaveBegins

\* A call that reads first has nothing in hand, and relies on at most its own name.
LEMMA StartBegins ==
  ASSUME IInv, NEW c \in Admins, NEW op \in {"user", "menuRole", "menu", "delete"},
         NEW obj \in Names, NEW todo \in Todos, NEW want \in SUBSET MasterRow(1..clock),
         Begin(c, Start(op, obj, todo, want)),
         GroupShape(Start(op, obj, todo, want)), DeleteShape(Start(op, obj, todo, want)),
         op # "delete" => todo # <<>>,
         op = "menu" => todo = <<"root", "menu">>,
         op \in {"menuRole", "menu"} => Found({obj}) # {},
         op = "delete" => want # {} /\ want = Found({obj})
  PROVE  IInv'
<1> DEFINE k == Start(op, obj, todo, want)
<1>1. k \in CallType
  BY CallTyped DEF IInv, Ops, Start
<1>2. Fits(k)
  BY <1>1 DEF Fits, SaveShape, CopyShape, Start, Call
<1>3. Relied(k) /\ Covered(k) /\ Rooted(k) /\ Grouped(k)
  BY DEF Relied, ReliesOn, Covered, Rooted, Grouped, Start, Call
<1>4. Dated(k)
  BY DEF Dated, Found, IsRowOf, SameRow, SameKey, Start, Call
<1> QED BY <1>1, <1>2, <1>3, <1>4, Moves DEF Sound, Known, Begin

\* The key of a master finds one row.
LEMMA FoundOne ==
  ASSUME IInv, NEW names, NEW x \in Found(names)
  PROVE  Found({x.a}) = {x}
BY DEF IInv, Keys, SameKey, Found

LEMMA DeleteRoleKeeps == ASSUME IInv, NEW c \in Admins, DeleteRole(c) PROVE IInv'
<1>1. PICK x \in Found(Roles \ Protected) : Begin(c, Start("delete", x.a, RoleLinks, {x}))
  BY DEF DeleteRole
<1>2. x.a \in Roles /\ x.t = "master" /\ x \in MasterRow(1..clock) /\ Found({x.a}) = {x}
  BY FoundFacts, FoundOne DEF IInv, Found
<1>3. x.a \notin Programs \cup Systems
  BY <1>2, ConstantsAssumption
<1>4. DeleteShape(Start("delete", x.a, RoleLinks, {x}))
  BY <1>2, <1>3 DEF DeleteShape, Start, Call, IsRowOf, Masters
<1>5. GroupShape(Start("delete", x.a, RoleLinks, {x}))
  BY DEF GroupShape, Start, Call
<1>6. x.a \in Names /\ RoleLinks \in Todos
  BY <1>2 DEF Names, Masters, RoleLinks, Todos
<1> QED BY <1>1, <1>2, <1>4, <1>5, <1>6, StartBegins

LEMMA DeleteProgramKeeps == ASSUME IInv, NEW c \in Admins, DeleteProgram(c) PROVE IInv'
<1>1. PICK x \in Found(Programs) : Begin(c, Start("delete", x.a, <<"menuRole">>, {x}))
  BY DEF DeleteProgram
<1>2. x.a \in Programs /\ x.t = "master" /\ x \in MasterRow(1..clock) /\ Found({x.a}) = {x}
  BY FoundFacts, FoundOne DEF IInv, Found
<1>3. x.a \notin Roles \cup Systems
  BY <1>2, ConstantsAssumption
<1>4. DeleteShape(Start("delete", x.a, <<"menuRole">>, {x}))
  BY <1>2, <1>3 DEF DeleteShape, Start, Call, IsRowOf, Masters
<1>5. GroupShape(Start("delete", x.a, <<"menuRole">>, {x}))
  BY DEF GroupShape, Start, Call
<1>6. x.a \in Names /\ <<"menuRole">> \in Todos
  BY <1>2 DEF Names, Masters, Todos
<1> QED BY <1>1, <1>2, <1>4, <1>5, <1>6, StartBegins

LEMMA DeleteSystemKeeps == ASSUME IInv, NEW c \in Admins, DeleteSystem(c) PROVE IInv'
<1>1. PICK x \in Found(Systems) : Begin(c, Start("delete", x.a, <<>>, {x}))
  BY DEF DeleteSystem
<1>2. x.a \in Systems /\ x.t = "master" /\ x \in MasterRow(1..clock) /\ Found({x.a}) = {x}
  BY FoundFacts, FoundOne DEF IInv, Found
<1>3. x.a \notin Roles \cup Programs
  BY <1>2, ConstantsAssumption
<1>4. DeleteShape(Start("delete", x.a, <<>>, {x}))
  BY <1>2, <1>3 DEF DeleteShape, Start, Call, IsRowOf, Masters
<1>5. GroupShape(Start("delete", x.a, <<>>, {x}))
  BY DEF GroupShape, Start, Call
<1>6. x.a \in Names /\ <<>> \in Todos
  BY <1>2 DEF Names, Masters, Todos
<1> QED BY <1>1, <1>2, <1>4, <1>5, <1>6, StartBegins

\* The rows that a form names.
LEMMA FormFacts ==
  ASSUME IInv, NEW names, NEW want \in SUBSET Found(names)
  PROVE  want \subseteq MasterRow(1..clock) /\ \A x \in want : x.t = "master" /\ x.a \in names
BY FoundFacts DEF IInv

LEMMA UpdateUserRoleKeeps == ASSUME IInv, NEW c \in Admins, UpdateUserRole(c) PROVE IInv'
<1>1. PICK a \in Accounts, want \in SUBSET Found(Roles) : Begin(c, Start("user", a, <<"user">>, want))
  BY DEF UpdateUserRole
<1>2. want \subseteq MasterRow(1..clock) /\ \A x \in want : x.t = "master" /\ x.a \in Roles
  BY FormFacts
<1>3. GroupShape(Start("user", a, <<"user">>, want))
  BY <1>2 DEF GroupShape, Start, Call
<1>4. DeleteShape(Start("user", a, <<"user">>, want))
  BY DEF DeleteShape, Start, Call
<1>5. a \in Names /\ <<"user">> \in Todos /\ <<"user">> # <<>>
  BY DEF Names, Todos
<1> QED BY <1>1, <1>2, <1>3, <1>4, <1>5, StartBegins

LEMMA UpdateMenuRoleKeeps == ASSUME IInv, NEW c \in Admins, UpdateMenuRole(c) PROVE IInv'
<1>1. PICK g \in Found(Programs), want \in SUBSET Found(Roles) :
        Begin(c, Start("menuRole", g.a, <<"menuRole">>, want))
  BY DEF UpdateMenuRole
<1>2. want \subseteq MasterRow(1..clock) /\ \A x \in want : x.t = "master" /\ x.a \in Roles
  BY FormFacts
<1>3. g.a \in Programs /\ g.a \in Names /\ Found({g.a}) # {}
  BY DEF Found, Names, Masters
<1>4. GroupShape(Start("menuRole", g.a, <<"menuRole">>, want))
  BY <1>2, <1>3 DEF GroupShape, Start, Call
<1>5. DeleteShape(Start("menuRole", g.a, <<"menuRole">>, want))
  BY DEF DeleteShape, Start, Call
<1>6. <<"menuRole">> \in Todos /\ <<"menuRole">> # <<>>
  BY DEF Todos
<1> QED BY <1>1, <1>2, <1>3, <1>4, <1>5, <1>6, StartBegins

LEMMA CreateOrUpdateMenuKeeps == ASSUME IInv, NEW c \in Admins, CreateOrUpdateMenu(c) PROVE IInv'
<1>1. PICK f \in Found(Folders), want \in SUBSET Found(Programs \ Folders) :
        Begin(c, Start("menu", f.a, <<"root", "menu">>, want))
  BY DEF CreateOrUpdateMenu
<1>2. want \subseteq MasterRow(1..clock)
      /\ \A x \in want : x.t = "master" /\ x.a \in Programs \ Folders
  BY FormFacts
<1>3. f.a \in Folders /\ f.a \in Names /\ Found({f.a}) # {}
  BY ConstantsAssumption DEF Found, Names, Masters
<1>4. GroupShape(Start("menu", f.a, <<"root", "menu">>, want))
  BY <1>2, <1>3 DEF GroupShape, Start, Call
<1>5. DeleteShape(Start("menu", f.a, <<"root", "menu">>, want))
  BY DEF DeleteShape, Start, Call
<1>6. <<"root", "menu">> \in Todos /\ <<"root", "menu">> # <<>>
  BY DEF Todos
<1> QED BY <1>1, <1>2, <1>3, <1>4, <1>5, <1>6, StartBegins

LEMMA CopyAsNewKeeps == ASSUME IInv, NEW c \in Admins, CopyAsNew(c) PROVE IInv'
<1>1. PICK x \in Found(Roles), r \in Roles :
        Begin(c, Call("copy", x.a, <<"perm", "menuRole">>, {}, {}, {RowOf("master", r, r)}))
  BY DEF CopyAsNew
<1> DEFINE k == Call("copy", x.a, <<"perm", "menuRole">>, {}, {}, {RowOf("master", r, r)})
<1>2. x.a \in Names /\ <<"perm", "menuRole">> \in Todos
      /\ {RowOf("master", r, r)} \in SUBSET (Row({Unsaved}) \cup MasterRow(1..clock))
  BY NewMaster DEF Found, Names, Masters, Todos
<1>3. k \in CallType
  BY <1>2, CallTyped DEF IInv, Ops
<1>4. CopyShape(k)
  BY DEF CopyShape, Call
<1>5. Fits(k)
  BY <1>3, <1>4 DEF Fits, SaveShape, GroupShape, DeleteShape, Call
<1>6. Refs(RowOf("master", r, r)) = {}
  BY NewMaster
<1>7. Known(k)
  BY <1>6 DEF Known, Relied, ReliesOn, Covered, Rooted, Dated, Grouped, Call
<1> QED BY <1>1, <1>3, <1>5, <1>7, Moves DEF Sound, Begin
-----------------------------------------------------------------------------
(* The calls go on *)

LEMMA Serving ==
  ASSUME IInv, NEW c \in Admins, call[c].op # "idle"
  PROVE  call[c] \in CallType /\ Fits(call[c]) /\ Known(call[c])
BY DEF IInv, Sound, Idle

LEMMA AbortKeeps == ASSUME IInv, NEW c \in Admins, Abort(c) PROVE IInv'
BY Moves DEF Abort, Sound

\* A call that goes on still has the type of a call.
LEMMA Going ==
  ASSUME NEW k \in CallType, NEW todo \in Todos, NEW want \in SUBSET MasterRow(1..clock),
         NEW del \in SUBSET Row(1..clock),
         NEW ins \in SUBSET (Row({Unsaved}) \cup MasterRow(1..clock))
  PROVE  [op |-> k.op, obj |-> k.obj, began |-> k.began,
          todo |-> todo, want |-> want, del |-> del, ins |-> ins] \in CallType
BY TodoSteps DEF CallType

\* What a deletion has still to fear: the rows that refer to its name.
LEMMA Referring ==
  ASSUME IInv, NEW e \in Masters, NEW x \in rows, e \in Refs(x)
  PROVE  /\ x.t = "master" => x.b = e /\ x.a # e /\ e \in Systems
         /\ x.t \in {"perm", "user"} => e \in Roles /\ x.b = e
         /\ x.t = "menuRole" => (e \in Roles /\ x.b = e) \/ (e \in Programs /\ x.a = e)
         /\ x.t = "menu" => e \in Programs
<1>1. x \in Row(1..clock)
  BY DEF IInv, Tables
<1> QED BY <1>1, RowFacts, ConstantsAssumption DEF Refs, Masters

LEMMA CheckKeeps == ASSUME IInv, NEW c \in Admins, Check(c) PROVE IInv'
<1> DEFINE k == call[c]
           gone == {x \in k.want : Exists(x)}
           l == [op |-> k.op, obj |-> k.obj, began |-> k.began,
                 todo |-> k.todo, want |-> {}, del |-> gone, ins |-> k.ins]
<1>1. /\ k.op = "delete" /\ k.want # {} /\ \A x \in rows : ~Blocks(x, k.obj)
      /\ Proceed(c, [k EXCEPT !.want = {}, !.del = gone]) /\ UNCHANGED <<rows, clock>>
  BY DEF Check
<1>2. k \in CallType /\ Fits(k) /\ Known(k)
  BY <1>1, Serving
<1>3. gone \subseteq MasterRow(1..clock) /\ gone \in SUBSET Row(1..clock)
  BY <1>2, RowsGrow DEF CallType
<1>4. k.todo \in Todos
  BY <1>1, <1>2 DEF Fits, DeleteShape, RoleLinks, Todos, Masters
<1>5. [k EXCEPT !.want = {}, !.del = gone] = l
  <2>1. PICK m : m = [k EXCEPT !.want = {}]
    OBVIOUS
  <2>2. m = [op |-> k.op, obj |-> k.obj, began |-> k.began,
             todo |-> k.todo, want |-> {}, del |-> k.del, ins |-> k.ins]
    BY <1>2, <2>1, Updated
  <2>3. m \in CallType
    BY <1>2, <2>2 DEF CallType
  <2>4. [m EXCEPT !.del = gone] = l
    BY <2>2, <2>3, Updated
  <2> QED BY <2>1, <2>4
<1>6. l \in CallType
  BY <1>2, <1>3, <1>4, Going DEF CallType
<1>7. DeleteShape(l)
  BY <1>1, <1>2 DEF Fits, DeleteShape, IsRowOf
<1>8. Fits(l)
  BY <1>1, <1>6, <1>7 DEF Fits, SaveShape, CopyShape, GroupShape
<1>9. Covered(l)
  <2> SUFFICES ASSUME NEW x \in rows, k.obj \in Refs(x) PROVE Waits(l, x.t)
    BY DEF Covered
  <2>1. k.obj \in Masters
    BY <1>1, <1>2 DEF Fits, DeleteShape
  <2>2. x.t # "master"
    BY <1>1, <2>1, Referring DEF Blocks
  <2>3. x.t # "menu"
    <3>1. SUFFICES ASSUME x.t = "menu" PROVE FALSE
      OBVIOUS
    <3>2. x.a = k.obj \/ x.b = k.obj
      BY <3>1 DEF Refs
    <3>3. PICK y \in rows : IsRoot(y, x.a)
      BY <3>1 DEF IInv, Roots
    <3> QED BY <1>1, <3>1, <3>2, <3>3 DEF Blocks, IsRoot
  <2>4. x.t \in {"perm", "user", "menuRole"}
    BY <2>2, <2>3, RowFacts DEF IInv, Tables
  <2>5. k.obj \in Roles \/ (x.t = "menuRole" /\ k.obj \in Programs)
    BY <2>1, <2>4, Referring
  <2>6. CASE k.obj \in Roles
    <3>1. k.todo = RoleLinks /\ RoleLinks # <<>>
      BY <1>1, <1>2, <2>6 DEF Fits, DeleteShape, RoleLinks
    <3> QED BY <2>4, <3>1 DEF Waits
  <2>7. CASE x.t = "menuRole" /\ k.obj \in Programs
    <3>1. k.todo = <<"menuRole">> /\ k.todo # <<>>
      BY <1>1, <1>2, <2>7 DEF Fits, DeleteShape
    <3> QED BY <2>7, <3>1 DEF Waits
  <2> QED BY <2>5, <2>6, <2>7
<1>10. Dated(l)
  BY <1>1, <1>2 DEF Known, Dated, Fits, DeleteShape, Exists
<1>11. Known(l)
  BY <1>1, <1>2, <1>9, <1>10 DEF Known, Relied, ReliesOn, Rooted, Grouped, Fits, DeleteShape
<1> QED BY <1>1, <1>5, <1>6, <1>8, <1>11, Moves DEF Sound

LEMMA RootKeeps == ASSUME IInv, NEW c \in Admins, Root(c) PROVE IInv'
<1> DEFINE k == call[c]
           root == RowOf("menu", k.obj, k.obj)
           ins == IF \E y \in rows : SameKey(root, y) THEN {} ELSE {root}
           l == [op |-> k.op, obj |-> k.obj, began |-> k.began,
                 todo |-> Tail(k.todo), want |-> k.want, del |-> k.del, ins |-> ins]
<1>1. /\ k.op = "menu" /\ k.todo # <<>> /\ Head(k.todo) = "root"
      /\ Proceed(c, [k EXCEPT !.todo = Tail(k.todo), !.ins = ins]) /\ UNCHANGED <<rows, clock>>
  BY DEF Root
<1>2. k \in CallType /\ Fits(k) /\ Known(k)
  BY <1>1, Serving
<1>3. k.obj \in Folders /\ k.obj \in Masters /\ k.todo = <<"root", "menu">>
      /\ Tail(k.todo) = <<"menu">> /\ <<"menu">> \in Todos
  BY <1>1, <1>2, TodoSteps, ConstantsAssumption DEF Fits, GroupShape, Todos, Masters
<1>4. ins \in SUBSET (Row({Unsaved}) \cup MasterRow(1..clock))
  BY <1>3 DEF RowOf, Row, LinkRow, MenuRow, Shape
<1>5. [k EXCEPT !.todo = Tail(k.todo), !.ins = ins] = l
  <2>1. PICK m : m = [k EXCEPT !.todo = Tail(k.todo)]
    OBVIOUS
  <2>2. m = [op |-> k.op, obj |-> k.obj, began |-> k.began,
             todo |-> Tail(k.todo), want |-> k.want, del |-> k.del, ins |-> k.ins]
    BY <1>2, <2>1, Updated
  <2>3. m \in CallType
    BY <1>2, <1>3, <2>2, TodoSteps DEF CallType
  <2> HIDE DEF ins
  <2>4. [m EXCEPT !.ins = ins] = l
    BY <2>2, <2>3, Updated
  <2> QED BY <2>1, <2>4
<1>6. l \in CallType
  BY <1>2, <1>3, <1>4, Going DEF CallType
<1>7. GroupShape(l)
  BY <1>1, <1>2, <1>3 DEF Fits, GroupShape, RowOf
<1>8. Fits(l)
  BY <1>1, <1>6, <1>7 DEF Fits, SaveShape, CopyShape, DeleteShape
<1>9. Relied(l)
  <2>1. \A i \in ins : Refs(i) = {k.obj}
    BY <1>3 DEF RowOf, Refs
  <2>2. \A i \in k.ins : ~IsRowOf(i, k.obj)
    BY <1>1, <1>2 DEF Fits, GroupShape, IsRowOf
  <2>3. k.obj \notin raced => Found({k.obj}) # {}
    BY <1>1, <1>2, <1>3, <2>2 DEF Known, Relied, ReliesOn
  <2> QED BY <2>1, <2>3 DEF Relied, ReliesOn
<1>10. Rooted(l)
  <2>1. CASE \E y \in rows : SameKey(root, y)
    BY <2>1 DEF Rooted, IsRoot, SameKey, RowOf
  <2>2. CASE ins = {root}
    BY <2>2 DEF Rooted, IsRoot, RowOf
  <2> QED BY <2>1, <2>2
<1>11. Known(l)
  BY <1>1, <1>3, <1>9, <1>10 DEF Known, Covered, Dated, Grouped
<1> QED BY <1>1, <1>5, <1>6, <1>8, <1>11, Moves DEF Sound

LEMMA LookUpKeeps == ASSUME IInv, NEW c \in Admins, LookUp(c) PROVE IInv'
<1> DEFINE k == call[c]
<1>1. /\ k.op \in {"user", "menuRole", "menu"} /\ k.todo = <<>>
      /\ UNCHANGED <<rows, clock>>
  BY DEF LookUp
<1>2. PICK x \in k.want : Exists(x) /\
        Proceed(c, [k EXCEPT !.want = @ \ {x}, !.ins = @ \cup {RowOf(k.op, k.obj, x.a)}])
  BY DEF LookUp
<1> DEFINE i == RowOf(k.op, k.obj, x.a)
           want == k.want \ {x}
           ins == k.ins \cup {i}
           l == [op |-> k.op, obj |-> k.obj, began |-> k.began,
                 todo |-> k.todo, want |-> want, del |-> k.del, ins |-> ins]
<1>3. k \in CallType /\ Fits(k) /\ Known(k)
  BY <1>1, Serving
<1>4. /\ x.t = "master" /\ x.a \in IF k.op = "menu" THEN Programs \ Folders ELSE Roles
      /\ k.op = "user" => k.obj \in Accounts
      /\ k.op = "menuRole" => k.obj \in Programs
      /\ k.op = "menu" => k.obj \in Folders
  BY <1>1, <1>3 DEF Fits, GroupShape
<1>5. i \in Row({Unsaved})
  BY <1>1, <1>4 DEF RowOf, Row, LinkRow, MenuRow, Shape
<1>6. k.todo \in Todos /\ want \in SUBSET MasterRow(1..clock) /\ k.del \in SUBSET Row(1..clock)
      /\ ins \in SUBSET (Row({Unsaved}) \cup MasterRow(1..clock))
  BY <1>1, <1>3, <1>5 DEF CallType, Todos
<1>7. [k EXCEPT !.want = @ \ {x}, !.ins = @ \cup {i}] = l
  <2>1. PICK m : m = [k EXCEPT !.want = want]
    OBVIOUS
  <2> HIDE DEF want, ins
  <2>2. m = [op |-> k.op, obj |-> k.obj, began |-> k.began,
             todo |-> k.todo, want |-> want, del |-> k.del, ins |-> k.ins]
    BY <1>3, <2>1, Updated
  <2>3. m \in CallType
    BY <1>3, <1>6, <2>2 DEF CallType
  <2>4. [m EXCEPT !.ins = ins] = l /\ m.ins = k.ins
    BY <2>2, <2>3, Updated
  <2> QED BY <2>1, <2>4 DEF want, ins
<1>8. l \in CallType
  BY <1>3, <1>6, Going
<1>9. GroupShape(l)
  BY <1>1, <1>3 DEF Fits, GroupShape, RowOf
<1>10. Fits(l)
  BY <1>1, <1>8, <1>9 DEF Fits, SaveShape, CopyShape, DeleteShape
<1>11. Relied(l)
  <2> SUFFICES ASSUME NEW e \in Masters \ raced, ReliesOn(l, e)
               PROVE  Found({e}) # {} \/ \E m \in l.ins : IsRowOf(m, e)
    BY DEF Relied
  <2>1. ReliesOn(k, e) \/ e \in Refs(i)
    BY <1>1 DEF ReliesOn
  <2>2. CASE ReliesOn(k, e)
    BY <1>3, <2>2 DEF Known, Relied
  <2>3. CASE e = x.a
    BY <1>2, <1>4, <2>3 DEF Exists, Found, SameRow, SameKey
  <2>4. CASE e = k.obj /\ k.op \in {"menuRole", "menu"}
    BY <2>2, <2>4 DEF ReliesOn
  <2>5. k.op = "user" => k.obj \notin Masters
    BY <1>4, ConstantsAssumption DEF Masters
  <2>6. e \in Refs(i) => e = k.obj \/ e = x.a
    BY DEF RowOf, Refs
  <2> QED BY <1>1, <2>1, <2>2, <2>3, <2>4, <2>5, <2>6
<1>12. Rooted(l)
  BY <1>3 DEF Known, Rooted
<1>13. Known(l)
  BY <1>1, <1>3, <1>11, <1>12 DEF Known, Covered, Dated, Grouped
<1> QED BY <1>1, <1>2, <1>7, <1>8, <1>10, <1>13, Moves DEF Sound

\* The links that a list finds.
LEMMA ListFacts ==
  ASSUME IInv, NEW t \in {"perm", "user", "menuRole", "menu"}, NEW e, NEW x \in Linked(t, e)
  PROVE  /\ x \in rows /\ x \in Row(1..clock) /\ x.t = t /\ x.a # x.b /\ e \in {x.a, x.b}
         /\ t = "perm" => x.a \in Perms
         /\ t = "menuRole" => x.a \in Programs
         /\ t = "user" /\ e \in Accounts => x.a = e
         /\ t = "menuRole" /\ e \in Programs => x.a = e
         /\ t = "menu" /\ e \in Folders => x.a = e
<1>1. x \in rows /\ x.t = t /\ x.a # x.b /\ e \in {x.a, x.b}
  BY DEF Linked
<1>2. x \in Row(1..clock)
  BY <1>1 DEF IInv, Tables
<1> QED BY <1>1, <1>2, RowFacts, ConstantsAssumption

LEMMA ListOfGroupKeeps ==
  ASSUME IInv, NEW c \in Admins, List(c), call[c].op \in {"user", "menuRole", "menu"}
  PROVE  IInv'
<1> DEFINE k == call[c]
           del == k.del \cup Linked(Head(k.todo), k.obj)
           l == [op |-> k.op, obj |-> k.obj, began |-> k.began,
                 todo |-> Tail(k.todo), want |-> k.want, del |-> del, ins |-> k.ins]
<1>1. /\ k.todo # <<>> /\ Head(k.todo) # "root" /\ UNCHANGED <<rows, clock>>
      /\ Proceed(c, [k EXCEPT !.todo = Tail(k.todo), !.del = @ \cup Linked(Head(k.todo), k.obj)])
  BY DEF List
<1>2. k \in CallType /\ Fits(k) /\ Known(k)
  BY Serving
<1>3. k.todo = <<k.op>> /\ Head(k.todo) = k.op /\ Tail(k.todo) = <<>>
  BY <1>1, <1>2, TodoSteps DEF Fits, GroupShape
<1>4. del \in SUBSET Row(1..clock) /\ Tail(k.todo) \in Todos
  BY <1>2, <1>3, ListFacts DEF CallType, Todos
<1>5. [k EXCEPT !.todo = Tail(k.todo), !.del = @ \cup Linked(Head(k.todo), k.obj)] = l
  <2>1. PICK m : m = [k EXCEPT !.todo = Tail(k.todo)]
    OBVIOUS
  <2> HIDE DEF del
  <2>2. m = [op |-> k.op, obj |-> k.obj, began |-> k.began,
             todo |-> Tail(k.todo), want |-> k.want, del |-> k.del, ins |-> k.ins]
    BY <1>2, <2>1, Updated
  <2>3. m \in CallType
    BY <1>2, <1>4, <2>2, TodoSteps DEF CallType
  <2>4. [m EXCEPT !.del = del] = l /\ m.del = k.del
    BY <2>2, <2>3, Updated
  <2> QED BY <2>1, <2>4 DEF del
<1>6. l \in CallType
  <2> HIDE DEF del
  <2>1. k.want \in SUBSET MasterRow(1..clock)
        /\ k.ins \in SUBSET (Row({Unsaved}) \cup MasterRow(1..clock))
    BY <1>2 DEF CallType
  <2> QED BY <1>2, <1>4, <2>1, Going
<1>7. \A d \in Linked(k.op, k.obj) : d.t = k.op /\ d.a = k.obj /\ d.b # k.obj
  BY <1>2, ListFacts DEF Fits, GroupShape
<1>8. GroupShape(l)
  BY <1>2, <1>3, <1>7 DEF Fits, GroupShape
<1>9. Fits(l)
  BY <1>6, <1>8 DEF Fits, SaveShape, CopyShape, DeleteShape
<1>10. Grouped(l)
  BY <1>3 DEF Grouped, Linked
<1>11. Relied(l)
  BY <1>2 DEF Known, Relied, ReliesOn
<1>12. Rooted(l)
  <2>1. k.op = "menu" => k.todo # <<"root", "menu">>
    BY <1>3, TodoSteps
  <2> QED BY <1>2, <2>1 DEF Known, Rooted
<1>13. Known(l)
  BY <1>10, <1>11, <1>12 DEF Known, Covered, Dated
<1> QED BY <1>1, <1>5, <1>6, <1>9, <1>13, Moves DEF Sound

LEMMA ListOfDeleteKeeps ==
  ASSUME IInv, NEW c \in Admins, List(c), call[c].op = "delete"
  PROVE  IInv'
<1> DEFINE k == call[c]
           t == Head(k.todo)
           del == k.del \cup Linked(t, k.obj)
           l == [op |-> k.op, obj |-> k.obj, began |-> k.began,
                 todo |-> Tail(k.todo), want |-> k.want, del |-> del, ins |-> k.ins]
<1>1. /\ k.todo # <<>> /\ k.want = {} /\ UNCHANGED <<rows, clock>>
      /\ Proceed(c, [k EXCEPT !.todo = Tail(k.todo), !.del = @ \cup Linked(t, k.obj)])
  BY DEF List
<1>2. k \in CallType /\ Fits(k) /\ Known(k) /\ k.obj \in Masters
  BY Serving DEF Fits, DeleteShape
<1>3. \/ k.todo = RoleLinks /\ t = "perm" /\ Tail(k.todo) = <<"user", "menuRole">>
      \/ k.todo = <<"user", "menuRole">> /\ t = "user" /\ Tail(k.todo) = <<"menuRole">>
      \/ k.todo = <<"menuRole">> /\ t = "menuRole" /\ Tail(k.todo) = <<>>
  BY <1>1, <1>2, TodoSteps DEF Fits, DeleteShape, Masters, RoleLinks
<1>4. t \in {"perm", "user", "menuRole"} /\ Tail(k.todo) \in Todos
  BY <1>3 DEF Todos
<1>5. del \in SUBSET Row(1..clock)
  BY <1>2, <1>4, ListFacts DEF CallType
<1>6. [k EXCEPT !.todo = Tail(k.todo), !.del = @ \cup Linked(t, k.obj)] = l
  <2>1. PICK m : m = [k EXCEPT !.todo = Tail(k.todo)]
    OBVIOUS
  <2> HIDE DEF del
  <2>2. m = [op |-> k.op, obj |-> k.obj, began |-> k.began,
             todo |-> Tail(k.todo), want |-> k.want, del |-> k.del, ins |-> k.ins]
    BY <1>2, <2>1, Updated
  <2>3. m \in CallType
    BY <1>2, <1>4, <2>2, TodoSteps DEF CallType
  <2>4. [m EXCEPT !.del = del] = l /\ m.del = k.del
    BY <2>2, <2>3, Updated
  <2> QED BY <2>1, <2>4 DEF del
<1>7. l \in CallType
  <2> HIDE DEF del
  <2>1. k.want \in SUBSET MasterRow(1..clock)
        /\ k.ins \in SUBSET (Row({Unsaved}) \cup MasterRow(1..clock))
    BY <1>2 DEF CallType
  <2> QED BY <1>2, <1>4, <1>5, <2>1, Going
<1>8. DeleteShape(l)
  <2>1. \A d \in Linked(t, k.obj) : d.t = t /\ (d.a = k.obj \/ k.obj \in Refs(d))
    BY <1>2, <1>4, ListFacts DEF Refs
  <2>2. k.obj \in Programs => k.todo = <<"menuRole">>
    BY <1>1, <1>2 DEF Fits, DeleteShape
  <2>3. k.obj \notin Systems
    BY <1>1, <1>2 DEF Fits, DeleteShape
  <2>4. k.obj \in Roles => Tail(k.todo) \in {RoleLinks, <<"user", "menuRole">>, <<"menuRole">>, <<>>}
    BY <1>3
  <2>5. k.obj \in Programs => Tail(k.todo) \in {<<"menuRole">>, <<>>}
    BY <2>2, TodoSteps
  <2>6. \A d \in k.del : d.t # "menu" /\ (d.t = "master" => d.a = k.obj)
                           /\ (d.a = k.obj \/ k.obj \in Refs(d))
    BY <1>2 DEF Fits, DeleteShape
  <2>7. k.ins = {}
    BY <1>2 DEF Fits, DeleteShape
  <2> HIDE DEF t
  <2> QED BY <1>1, <1>2, <1>4, <2>1, <2>3, <2>4, <2>5, <2>6, <2>7 DEF DeleteShape
<1>9. Fits(l)
  BY <1>7, <1>8 DEF Fits, SaveShape, CopyShape, GroupShape
<1>10. Covered(l)
  <2> SUFFICES ASSUME k.obj \notin raced, NEW x \in rows, k.obj \in Refs(x)
               PROVE  x \in del \/ Waits(l, x.t)
    BY DEF Covered
  <2>1. x \in k.del \/ Waits(k, x.t)
    BY <1>1, <1>2 DEF Known, Covered
  <2>2. CASE x.t = t
    <3>1. x.a # x.b
      BY <1>2, <1>4, <2>2, RowFacts, ConstantsAssumption DEF IInv, Tables
    <3>2. x \in Linked(t, k.obj)
      BY <2>2, <3>1 DEF Linked, Refs
    <3> QED BY <3>2
  <2>3. CASE Waits(k, x.t) /\ x.t # t
    <3>1. CASE t = "perm"
      <4>1. Tail(k.todo) = <<"user", "menuRole">> /\ Tail(k.todo) # <<>>
        BY <1>3, <3>1
      <4> QED BY <2>3, <3>1, <4>1 DEF Waits
    <3>2. CASE t = "user"
      <4>1. Tail(k.todo) = <<"menuRole">> /\ Tail(k.todo) # <<>> /\ k.todo # RoleLinks
        BY <1>3, <3>2, TodoSteps DEF RoleLinks
      <4> QED BY <2>3, <3>2, <4>1 DEF Waits
    <3>3. CASE t = "menuRole"
      <4>1. k.todo # RoleLinks /\ k.todo # <<"user", "menuRole">>
        BY <1>3, <3>3, TodoSteps DEF RoleLinks
      <4> QED BY <2>3, <3>3, <4>1 DEF Waits
    <3> QED BY <1>3, <3>1, <3>2, <3>3
  <2> QED BY <2>1, <2>2, <2>3
<1>11. Dated(l)
  BY <1>2 DEF Known, Dated
<1>12. Known(l)
  BY <1>2, <1>10, <1>11 DEF Known, Relied, ReliesOn, Rooted, Grouped
<1> QED BY <1>1, <1>6, <1>7, <1>9, <1>12, Moves DEF Sound

LEMMA ListOfCopyKeeps ==
  ASSUME IInv, NEW c \in Admins, List(c), call[c].op = "copy"
  PROVE  IInv'
<1> DEFINE k == call[c]
           t == Head(k.todo)
           into == (CHOOSE x \in k.ins : x.t = "master").b
           copies == {RowOf(x.t, x.a, into) : x \in Linked(t, k.obj)}
           ins == k.ins \cup copies
           l == [op |-> k.op, obj |-> k.obj, began |-> k.began,
                 todo |-> Tail(k.todo), want |-> k.want, del |-> k.del, ins |-> ins]
<1>1. /\ k.todo # <<>> /\ UNCHANGED <<rows, clock>>
      /\ Proceed(c, [k EXCEPT !.todo = Tail(k.todo), !.ins = @ \cup copies])
  BY DEF List
<1>2. k \in CallType /\ Fits(k) /\ Known(k)
  BY Serving
<1>3. \/ t = "perm" /\ Tail(k.todo) = <<"menuRole">>
      \/ t = "menuRole" /\ Tail(k.todo) = <<>>
  BY <1>1, <1>2, TodoSteps DEF Fits, CopyShape
<1>4. PICK r \in Roles :
        /\ RowOf("master", r, r) \in k.ins
        /\ \A i \in k.ins : \/ i = RowOf("master", r, r)
                            \/ i.t \in {"perm", "menuRole"} /\ i.b = r /\ i.by = Unsaved
  BY <1>2 DEF Fits, CopyShape
<1>5. into = r
  <2>1. RowOf("master", r, r).t = "master" /\ RowOf("master", r, r).b = r
    BY DEF RowOf
  <2>2. \A x \in k.ins : x.t = "master" => x = RowOf("master", r, r)
    BY <1>4
  <2> QED BY <1>4, <2>1, <2>2
<1> HIDE DEF into
<1>6. \A i \in copies : \E x \in Linked(t, k.obj) : i = RowOf(t, x.a, r)
  BY <1>3, <1>5, ListFacts
<1>7. copies \subseteq Row({Unsaved})
  <2> SUFFICES ASSUME NEW x \in Linked(t, k.obj) PROVE RowOf(t, x.a, r) \in Row({Unsaved})
    BY <1>6
  <2> QED BY <1>3, ListFacts DEF RowOf, Row, LinkRow, Shape
<1>8. ins \in SUBSET (Row({Unsaved}) \cup MasterRow(1..clock)) /\ Tail(k.todo) \in Todos
  BY <1>2, <1>3, <1>7 DEF CallType, Todos
<1>9. [k EXCEPT !.todo = Tail(k.todo), !.ins = @ \cup copies] = l
  <2>1. PICK m : m = [k EXCEPT !.todo = Tail(k.todo)]
    OBVIOUS
  <2> HIDE DEF ins, copies
  <2>2. m = [op |-> k.op, obj |-> k.obj, began |-> k.began,
             todo |-> Tail(k.todo), want |-> k.want, del |-> k.del, ins |-> k.ins]
    BY <1>2, <2>1, Updated
  <2>3. m \in CallType
    BY <1>2, <1>8, <2>2, TodoSteps DEF CallType
  <2>4. [m EXCEPT !.ins = ins] = l /\ m.ins = k.ins
    BY <2>2, <2>3, Updated
  <2> QED BY <2>1, <2>4 DEF ins
<1>10. l \in CallType
  <2> HIDE DEF ins
  <2>1. k.want \in SUBSET MasterRow(1..clock) /\ k.del \in SUBSET Row(1..clock)
    BY <1>2 DEF CallType
  <2> QED BY <1>2, <1>8, <2>1, Going
<1>11. \A i \in copies : i.t \in {"perm", "menuRole"} /\ i.b = r /\ i.by = Unsaved
  BY <1>3, <1>6 DEF RowOf
<1>12. CopyShape(l)
  BY <1>2, <1>3, <1>4, <1>11 DEF Fits, CopyShape
<1>13. Fits(l)
  BY <1>10, <1>12 DEF Fits, SaveShape, GroupShape, DeleteShape
<1>14. Relied(l)
  <2> SUFFICES ASSUME NEW e \in Masters \ raced, NEW i \in ins, e \in Refs(i)
               PROVE  Found({e}) # {} \/ \E m \in l.ins : IsRowOf(m, e)
    BY DEF Relied, ReliesOn
  <2>1. CASE i \in k.ins
    BY <1>2, <2>1 DEF Known, Relied, ReliesOn
  <2>2. CASE i \in copies
    <3>1. PICK x \in Linked(t, k.obj) : i = RowOf(t, x.a, r)
      BY <1>6, <2>2
    <3>2. e = r \/ e = x.a
      BY <1>3, <3>1 DEF RowOf, Refs
    <3>3. CASE e = r
      BY <1>4, <3>3 DEF IsRowOf, RowOf
    <3>4. CASE e = x.a
      <4>1. x \in rows /\ x.t # "master"
        BY <1>3, ListFacts
      <4>2. e \in Refs(x)
        BY <3>4, <4>1 DEF Refs
      <4> QED BY <4>1, <4>2 DEF IInv, TargetsExist
    <3> QED BY <3>2, <3>3, <3>4
  <2> QED BY <2>1, <2>2
<1>15. Known(l)
  BY <1>14 DEF Known, Covered, Rooted, Dated, Grouped
<1> QED BY <1>1, <1>9, <1>10, <1>13, <1>15, Moves DEF Sound, List

LEMMA ListKeeps == ASSUME IInv, NEW c \in Admins, List(c) PROVE IInv'
<1>1. call[c].op # "idle" /\ call[c].todo # <<>>
  BY DEF List
<1>2. call[c].op \in Ops \ {"save"}
  BY <1>1, Serving DEF CallType, Fits, SaveShape
<1> QED BY <1>2, ListOfGroupKeeps, ListOfDeleteKeeps, ListOfCopyKeeps DEF Ops

-----------------------------------------------------------------------------
(* A call commits *)

LEMMA SavedFacts ==
  ASSUME Tables, NEW i \in Row({Unsaved}) \cup MasterRow(1..clock)
  PROVE  /\ Saved(i) \in Row(1..clock + 1)
         /\ Saved(i).t = i.t /\ Saved(i).a = i.a /\ Saved(i).b = i.b
         /\ IF i.by = Unsaved THEN Saved(i).by = clock + 1 ELSE Saved(i) = i
         /\ Refs(Saved(i)) = Refs(i)
<1>1. clock \in Nat /\ clock + 1 \in 1..clock + 1 /\ 1..clock \subseteq 1..clock + 1
  BY DEF Tables
<1>2. CASE i.by = Unsaved
  <2>1. PICK B, C, n : B = {Unsaved} \cup 1..clock /\ C = 1..clock + 1 /\ n = clock + 1
    OBVIOUS
  <2>2. /\ [i EXCEPT !.by = n] \in Row(C)
        /\ [i EXCEPT !.by = n].t = i.t /\ [i EXCEPT !.by = n].a = i.a
        /\ [i EXCEPT !.by = n].b = i.b /\ [i EXCEPT !.by = n].by = n
    <3>1. i \in Row(B) /\ n \in C
      BY <1>1, <2>1, RowsGrow
    <3> QED BY <3>1, RowAnew
  <2>3. Saved(i) = [i EXCEPT !.by = n]
    BY <1>2, <2>1 DEF Saved
  <2> QED BY <1>2, <2>1, <2>2, <2>3 DEF Refs
<1>3. CASE i.by # Unsaved
  <2>1. Saved(i) = i
    BY <1>3 DEF Saved
  <2>2. i \in MasterRow(1..clock)
    BY <1>3, RowFacts
  <2>3. i \in Row(1..clock + 1)
    BY <1>1, <2>2, RowsGrow
  <2> QED BY <1>3, <2>1, <2>3
<1> QED BY <1>2, <1>3

\* What a commit does to the rows, the clock and the calls.
LEMMA CommitFacts ==
  ASSUME IInv, NEW c \in Admins, Commit(c)
  PROVE  /\ call[c] \in CallType /\ Fits(call[c]) /\ Known(call[c])
         /\ call[c].op # "idle" /\ call[c].todo = <<>> /\ call[c].want = {}
         /\ clock \in Nat \ {0} /\ clock' = clock + 1
         /\ \A x \in rows' : \/ x \in rows /\ ~\E d \in call[c].del : SameRow(d, x)
                             \/ \E i \in call[c].ins : x = Saved(i)
         /\ \A x \in rows : x \in rows' \/ \E d \in call[c].del : SameRow(d, x)
         /\ \A i \in call[c].ins : Saved(i) \in rows' /\ i \in Row({Unsaved}) \cup MasterRow(1..clock)
         /\ \A i \in call[c].ins, x \in rows : SameKey(i, x) => \E d \in call[c].del : SameRow(d, x)
         /\ \A d \in call[c].del : d \in Row(1..clock) /\ \E y \in rows : SameRow(d, y)
         /\ call' = [call EXCEPT ![c] = Idle]
         /\ raced \subseteq raced' /\ raced' \subseteq Masters
         /\ blended \subseteq blended' /\ blended' \subseteq {"user", "menu"} \X Names
<1>1. /\ call[c].op # "idle" /\ call[c].todo = <<>> /\ call[c].want = {}
      /\ rows' = Kept(call[c]) \cup {Saved(i) : i \in call[c].ins} /\ clock' = clock + 1
      /\ \A i \in call[c].ins, x \in Kept(call[c]) : ~SameKey(i, x)
      /\ \A d \in call[c].del : Exists(d)
      /\ Proceed(c, Idle)
  BY DEF Commit, Ready
<1>2. call[c] \in CallType /\ Fits(call[c]) /\ Known(call[c])
  BY <1>1, Serving
<1>3. clock \in Nat \ {0}
  BY DEF IInv, Tables
<1>4. /\ raced \subseteq raced' /\ raced' \subseteq Masters
      /\ call' = [call EXCEPT ![c] = Idle]
  BY <1>1 DEF Proceed, IInv, Tables
<1>5. ~\E d \in Admins \ {c} : SameGroup(Idle, call[d])
  BY DEF SameGroup, Idle
<1>6. blended' = blended
  BY <1>1, <1>5 DEF Proceed
<1>7. \A d \in call[c].del : d \in Row(1..clock) /\ \E y \in rows : SameRow(d, y)
  BY <1>1, <1>2 DEF CallType, Exists
<1>8. \A i \in call[c].ins : Saved(i) \in rows' /\ i \in Row({Unsaved}) \cup MasterRow(1..clock)
  BY <1>1, <1>2 DEF CallType
<1>9. \A x \in rows' : \/ x \in rows /\ ~\E d \in call[c].del : SameRow(d, x)
                       \/ \E i \in call[c].ins : x = Saved(i)
  BY <1>1 DEF Kept
<1>10. \A x \in rows : x \in rows' \/ \E d \in call[c].del : SameRow(d, x)
  BY <1>1 DEF Kept
<1>11. \A i \in call[c].ins, x \in rows : SameKey(i, x) => \E d \in call[c].del : SameRow(d, x)
  BY <1>1 DEF Kept
<1> QED BY <1>1, <1>2, <1>3, <1>4, <1>6, <1>7, <1>8, <1>9, <1>10, <1>11 DEF IInv, Tables

\* The row of a master goes only when a call that deletes it commits.
LEMMA MastersStay ==
  ASSUME IInv, NEW c \in Admins, Commit(c), NEW e \in Masters, Found({e}) # {}, ~Deletes(call[c], e)
  PROVE  Found({e})' # {}
<1> DEFINE k == call[c]
<1>1. PICK m \in rows : m.t = "master" /\ m.a = e
  BY DEF Found
<1>2. SUFFICES ASSUME m \notin rows' PROVE Found({e})' # {}
  BY <1>1 DEF Found
<1>3. PICK d \in k.del : SameRow(d, m)
  BY <1>2, CommitFacts
<1>4. d.t = "master" /\ d.a = e /\ d.by \in 1..clock
  BY <1>1, <1>3, CommitFacts, RowFacts DEF SameRow, SameKey
<1>5. k.op = "save"
  BY <1>4, CommitFacts DEF Fits, CopyShape, GroupShape, DeleteShape, Deletes, CallType, Ops
<1>6. PICK i \in k.ins : SameRow(d, i)
  BY <1>4, <1>5, CommitFacts DEF Fits, SaveShape
<1>7. Saved(i) \in rows' /\ Saved(i).t = "master" /\ Saved(i).a = e
  BY <1>4, <1>6, CommitFacts, SavedFacts DEF SameRow, SameKey, IInv
<1> QED BY <1>7 DEF Found

\* The row of a folder at the root of the menu never goes.
LEMMA RootsStay ==
  ASSUME IInv, NEW c \in Admins, Commit(c), NEW f, NEW y \in rows, IsRoot(y, f)
  PROVE  y \in rows'
<1> DEFINE k == call[c]
<1>1. SUFFICES ASSUME NEW d \in k.del, SameRow(d, y) PROVE FALSE
  BY CommitFacts
<1>2. d.t = "menu" /\ d.a = f /\ d.b = f
  BY <1>1 DEF IsRoot, SameRow, SameKey
<1>3. CASE k.op = "save"
  BY <1>1, <1>2, <1>3, CommitFacts DEF Fits, SaveShape, SameRow, SameKey
<1>4. CASE k.op # "save"
  BY <1>1, <1>2, <1>4, CommitFacts DEF Fits, CopyShape, GroupShape, DeleteShape, CallType, Ops
<1> QED BY <1>3, <1>4

LEMMA CommitTables ==
  ASSUME IInv, NEW c \in Admins, Commit(c), clock < MaxCommits
  PROVE  Tables' /\ call' \in [Admins -> CallType \cup {Idle}]' /\ CallType \subseteq CallType'
<1>1. /\ clock \in Nat \ {0} /\ clock' = clock + 1 /\ MaxCommits \in Nat
      /\ rows \subseteq Row(1..clock)
  BY CommitFacts, ConstantsAssumption DEF IInv, Tables
<1>2. 1..clock \subseteq 1..clock' /\ clock' \in 1..MaxCommits
  BY <1>1
<1>3. \A x \in rows' : x \in Row(1..clock')
  <2> SUFFICES ASSUME NEW x \in rows' PROVE x \in Row(1..clock')
    OBVIOUS
  <2>1. CASE x \in rows
    BY <1>1, <1>2, <2>1, RowsGrow
  <2>2. CASE \E i \in call[c].ins : x = Saved(i)
    BY <1>1, <2>2, CommitFacts, SavedFacts DEF IInv
  <2> QED BY <2>1, <2>2, CommitFacts
<1>4. CallType \subseteq CallType'
  <2>1. Row(1..clock) \subseteq Row(1..clock') /\ MasterRow(1..clock) \subseteq MasterRow(1..clock')
    BY <1>2, RowsGrow
  <2> QED BY <1>2, <2>1 DEF CallType, Row, LinkRow, MasterRow, MenuRow, Shape
<1>5. Tables'
  BY <1>2, <1>3, CommitFacts DEF Tables, Row, LinkRow, MasterRow, MenuRow, Shape
<1> QED BY <1>4, <1>5, CommitFacts DEF IInv

LEMMA CommitTargets ==
  ASSUME IInv, NEW c \in Admins, Commit(c)
  PROVE  TargetsExist'
<1> DEFINE k == call[c]
<1> SUFFICES ASSUME NEW x \in rows', NEW e \in Refs(x) \ raced' PROVE Found({e})' # {}
  BY DEF TargetsExist, Refs
<1>1. e \notin raced
  BY CommitFacts
<1>2. CASE x \in rows /\ ~\E d \in k.del : SameRow(d, x)
  <2>1. Found({e}) # {}
    BY <1>1, <1>2 DEF IInv, TargetsExist
  <2>2. e \in Masters
    <3>1. x \in Row(1..clock)
      BY <1>2 DEF IInv, Tables
    <3> QED BY <3>1, RowFacts DEF Refs, Masters
  <2>3. ~Deletes(k, e)
    <3> SUFFICES ASSUME k.op = "delete", k.obj = e PROVE FALSE
      BY DEF Deletes
    <3>1. x \in k.del \/ Waits(k, x.t)
      BY <1>1, <1>2, CommitFacts DEF Known, Covered
    <3>2. ~Waits(k, x.t)
      <4>1. RoleLinks # <<>> /\ <<"user", "menuRole">> # <<>>
        BY DEF RoleLinks
      <4> QED BY <4>1, CommitFacts DEF Waits
    <3> QED BY <1>2, <3>1, <3>2 DEF SameRow, SameKey
  <2> QED BY <2>1, <2>2, <2>3, MastersStay
<1>3. CASE \E i \in k.ins : x = Saved(i)
  <2>1. PICK i \in k.ins : x = Saved(i)
    BY <1>3
  <2>2. i \in Row({Unsaved}) \cup MasterRow(1..clock) /\ e \in Refs(i)
    BY <2>1, CommitFacts, SavedFacts DEF IInv
  <2>3. e \in Masters
    BY <2>2, RowFacts, RowsGrow DEF Refs, Masters
  <2>4. ReliesOn(k, e)
    BY <2>2, CommitFacts DEF ReliesOn
  <2>5. CASE Found({e}) # {}
    <3>1. ~Deletes(k, e)
      BY <2>1, CommitFacts DEF Fits, DeleteShape, Deletes
    <3> QED BY <2>3, <2>5, <3>1, MastersStay
  <2>6. CASE \E m \in k.ins : IsRowOf(m, e)
    <3>1. PICK m \in k.ins : IsRowOf(m, e)
      BY <2>6
    <3>2. Saved(m) \in rows' /\ Saved(m).t = "master" /\ Saved(m).a = e
      BY <3>1, CommitFacts, SavedFacts DEF IsRowOf, IInv
    <3> QED BY <3>2 DEF Found
  <2> QED BY <1>1, <2>3, <2>4, <2>5, <2>6, CommitFacts DEF Known, Relied
<1> QED BY <1>2, <1>3, CommitFacts

LEMMA CommitRoots ==
  ASSUME IInv, NEW c \in Admins, Commit(c)
  PROVE  Roots'
<1> DEFINE k == call[c]
<1> SUFFICES ASSUME NEW x \in rows', x.t = "menu" PROVE \E y \in rows' : IsRoot(y, x.a)
  BY DEF Roots, IsRoot
<1>1. CASE x \in rows
  BY <1>1, RootsStay DEF IInv, Roots
<1>2. CASE \E i \in k.ins : x = Saved(i)
  <2>1. PICK i \in k.ins : x = Saved(i)
    BY <1>2
  <2>2. i.t = "menu" /\ i.a = x.a
    BY <2>1, CommitFacts, SavedFacts DEF IInv
  <2>3. k.op = "menu" /\ k.obj = x.a
    <3>1. k.op \in Ops /\ Fits(k)
      BY CommitFacts DEF CallType
    <3>2. k.op # "save" /\ k.op # "delete"
      BY <2>1, <2>2, <3>1 DEF Fits, SaveShape, DeleteShape
    <3>3. k.op # "copy"
      <4>1. \A e : RowOf("master", e, e).t = "master"
        BY DEF RowOf
      <4>2. k.op = "copy" => i.t \in {"master", "perm", "menuRole"}
        BY <2>1, <3>1, <4>1 DEF Fits, CopyShape
      <4> QED BY <2>2, <4>2
    <3> QED BY <2>1, <2>2, <3>1, <3>2, <3>3 DEF Fits, GroupShape, Ops
  <2>4. k.todo # <<"root", "menu">>
    <3>1. <<>> # <<"root", "menu">>
      OBVIOUS
    <3> QED BY <3>1, CommitFacts
  <2>5. PICK y \in rows \cup k.ins : IsRoot(y, x.a)
    BY <2>3, <2>4, CommitFacts DEF Known, Rooted
  <2>6. CASE y \in rows
    BY <2>5, <2>6, RootsStay
  <2>7. CASE y \in k.ins
    <3>1. Saved(y) \in rows' /\ Saved(y).t = y.t /\ Saved(y).a = y.a /\ Saved(y).b = y.b
      BY <2>7, CommitFacts, SavedFacts DEF IInv
    <3> QED BY <2>5, <3>1 DEF IsRoot
  <2> QED BY <2>6, <2>7
<1> QED BY <1>1, <1>2, CommitFacts

LEMMA CommitKeys ==
  ASSUME IInv, NEW c \in Admins, Commit(c)
  PROVE  Keys'
<1> DEFINE k == call[c]
<1>1. \A i, j \in k.ins : SameKey(i, j) => i = j
  <2> SUFFICES ASSUME NEW i \in k.ins, NEW j \in k.ins, SameKey(i, j) PROVE i = j
    OBVIOUS
  <2>1. i \in Row({Unsaved} \cup 1..clock) /\ j \in Row({Unsaved} \cup 1..clock)
    <3>1. /\ i \in Row({Unsaved}) \cup MasterRow(1..clock)
          /\ j \in Row({Unsaved}) \cup MasterRow(1..clock)
      BY CommitFacts
    <3> QED BY <3>1, RowsGrow
  <2>2. CASE k.op = "save"
    BY <2>2, CommitFacts DEF Fits, SaveShape
  <2>3. CASE k.op = "copy"
    <3>1. PICK r \in Roles :
            \A n \in k.ins : \/ n = RowOf("master", r, r)
                             \/ n.t \in {"perm", "menuRole"} /\ n.b = r /\ n.by = Unsaved
      BY <2>3, CommitFacts DEF Fits, CopyShape
    <3>2. CASE i.t = "master"
      BY <3>1, <3>2 DEF SameKey
    <3>3. CASE i.t # "master"
      <4>1. i.t = j.t /\ i.a = j.a /\ i.b = j.b /\ i.by = j.by
        BY <3>1, <3>3 DEF SameKey, RowOf
      <4> QED BY <2>1, <4>1, RowFacts
    <3> QED BY <3>2, <3>3
  <2>4. CASE k.op \in {"user", "menuRole", "menu"}
    <3>1. i.t = j.t /\ i.a = j.a /\ i.b = j.b /\ i.by = j.by
      BY <2>4, CommitFacts DEF Fits, GroupShape, SameKey
    <3> QED BY <2>1, <3>1, RowFacts
  <2> QED BY <2>2, <2>3, <2>4, CommitFacts DEF CallType, Ops, Fits, DeleteShape
<1>2. \A i \in k.ins : \A x : SameKey(Saved(i), x) <=> SameKey(i, x)
  BY CommitFacts, SavedFacts DEF SameKey, IInv
<1>3. SUFFICES ASSUME NEW x \in rows', NEW y \in rows', SameKey(x, y) PROVE x = y
  BY DEF Keys, SameKey
<1>4. SameKey(y, x)
  BY <1>3 DEF SameKey
<1>5. ASSUME NEW i \in k.ins, NEW z \in rows, ~\E d \in k.del : SameRow(d, z)
      PROVE  ~SameKey(Saved(i), z)
  BY <1>2, <1>5, CommitFacts
<1>6. CASE x \in rows /\ y \in rows
  BY <1>3, <1>6 DEF IInv, Keys
<1>7. CASE \E i \in k.ins, j \in k.ins : x = Saved(i) /\ y = Saved(j)
  <2>1. PICK i \in k.ins, j \in k.ins : x = Saved(i) /\ y = Saved(j)
    BY <1>7
  <2>2. SameKey(i, j)
    BY <1>2, <1>3, <2>1, CommitFacts, SavedFacts DEF SameKey, IInv
  <2> QED BY <1>1, <2>1, <2>2
<1> QED BY <1>3, <1>4, <1>5, <1>6, <1>7, CommitFacts

\* A call that commits has found all the rows it deletes.
LEMMA GroupThere ==
  ASSUME IInv, NEW c \in Admins, Commit(c), call[c].op \in {"user", "menu"}
  PROVE  call[c].del \subseteq rows
<1> SUFFICES ASSUME NEW d \in call[c].del PROVE d \in rows
  OBVIOUS
<1>1. d.t # "master" /\ d \in Row(1..clock)
  BY CommitFacts DEF Fits, GroupShape
<1>2. PICK y \in rows : SameRow(d, y)
  BY CommitFacts
<1> QED BY <1>1, <1>2, SameLink DEF IInv, Tables

\* The rows of a group that a commit inserts are of one call, and as old.
LEMMA GroupRows ==
  ASSUME IInv, NEW c \in Admins, Commit(c), NEW i \in call[c].ins, i.t \in {"user", "menu"}
  PROVE  /\ call[c].op = i.t /\ call[c].obj = i.a
         /\ Saved(i).t = i.t /\ Saved(i).a = i.a /\ Saved(i).b = i.b /\ Saved(i).by = clock + 1
<1> DEFINE k == call[c]
<1>1. k.op \in Ops /\ Fits(k)
  BY CommitFacts DEF CallType
<1>2. k.op # "save" /\ k.op # "delete"
  BY <1>1 DEF Fits, SaveShape, DeleteShape
<1>3. k.op # "copy"
  <2>1. \A e : RowOf("master", e, e).t = "master"
    BY DEF RowOf
  <2>2. k.op = "copy" => i.t \in {"master", "perm", "menuRole"}
    BY <1>1, <2>1 DEF Fits, CopyShape
  <2> QED BY <2>2
<1>4. k.op = i.t /\ k.obj = i.a /\ i.by = Unsaved
  BY <1>1, <1>2, <1>3 DEF Fits, GroupShape, Ops
<1>5. i \in Row({Unsaved}) \cup MasterRow(1..clock)
  BY CommitFacts
<1> QED BY <1>4, <1>5, SavedFacts DEF IInv

LEMMA CommitMixture ==
  ASSUME IInv, NEW c \in Admins, Commit(c)
  PROVE  NoMixture'
<1> DEFINE k == call[c]
\* A row that stays is not of the group that the call replaces.
<1>1. ASSUME NEW x \in rows, ~\E d \in k.del : SameRow(d, x), NEW i \in k.ins,
             i.t = x.t, i.a = x.a, x.t \in {"user", "menu"}, x.a # x.b
      PROVE  <<x.t, x.a>> \in blended
  <2>1. k.op = x.t /\ k.obj = x.a
    BY <1>1, GroupRows
  <2>2. x \notin k.del
    BY <1>1 DEF SameRow, SameKey
  <2>3. k.del \subseteq rows
    BY <1>1, <2>1, GroupThere
  <2> QED BY <1>1, <2>1, <2>2, <2>3, CommitFacts DEF Known, Grouped
<1>2. \A i \in k.ins : Saved(i).t = i.t /\ Saved(i).a = i.a /\ Saved(i).b = i.b
  BY CommitFacts, SavedFacts DEF IInv
<1>3. SUFFICES ASSUME NEW x \in rows', NEW y \in rows', x.t = y.t, x.t \in {"user", "menu"},
                      x.a = y.a, x.a \notin {x.b, y.b}
               PROVE  x.by = y.by \/ <<x.t, x.a>> \in blended
  BY CommitFacts DEF NoMixture
<1>4. CASE x \in rows /\ y \in rows
  BY <1>3, <1>4 DEF IInv, NoMixture
<1>5. CASE x \in rows /\ ~(\E d \in k.del : SameRow(d, x)) /\ \E j \in k.ins : y = Saved(j)
  BY <1>1, <1>2, <1>3, <1>5
<1>6. CASE y \in rows /\ ~(\E d \in k.del : SameRow(d, y)) /\ \E i \in k.ins : x = Saved(i)
  <2>1. PICK i \in k.ins : x = Saved(i)
    BY <1>6
  <2>2. i.t = y.t /\ i.a = y.a /\ y.t \in {"user", "menu"} /\ y.a # y.b
    BY <1>2, <1>3, <2>1
  <2> QED BY <1>1, <1>3, <1>6, <2>2
<1>7. CASE \E i \in k.ins, j \in k.ins : x = Saved(i) /\ y = Saved(j)
  <2>1. PICK i \in k.ins, j \in k.ins : x = Saved(i) /\ y = Saved(j)
    BY <1>7
  <2>2. i.t \in {"user", "menu"} /\ j.t \in {"user", "menu"}
    BY <1>2, <1>3, <2>1
  <2> QED BY <2>1, <2>2, GroupRows
<1> QED BY <1>4, <1>5, <1>6, <1>7, CommitFacts

\* The other calls stay sound.
LEMMA CommitOthers ==
  ASSUME IInv, NEW c \in Admins, Commit(c), clock < MaxCommits,
         NEW d \in Admins, d # c, call[d] # Idle
  PROVE  Fits(call[d])' /\ Known(call[d])'
<1> DEFINE k == call[c]
           l == call[d]
<1>1. l \in CallType /\ Fits(l) /\ Known(l) /\ call'[d] = l
  BY CommitFacts DEF IInv, Sound
<1>2. clock \in Nat \ {0} /\ clock' = clock + 1 /\ l.began \in 1..clock
  BY <1>1, CommitFacts DEF CallType
<1>3. raced \subseteq raced' /\ blended \subseteq blended'
  BY CommitFacts
<1>4. \A e \in Masters : /\ ReliesOn(l, e) /\ Deletes(k, e) => e \in raced
                         /\ ReliesOn(k, e) /\ Deletes(l, e) => e \in raced
  BY DEF IInv, Meet
<1>5. \A i \in k.ins : /\ Saved(i).t = i.t /\ Saved(i).a = i.a /\ Saved(i).b = i.b
                       /\ Refs(Saved(i)) = Refs(i)
                       /\ IF i.by = Unsaved THEN Saved(i).by = clock + 1 ELSE Saved(i) = i
  BY CommitFacts, SavedFacts DEF IInv
<1>6. Fits(l)'
  <2>1. l \in CallType'
    BY <1>1, CommitTables
  <2> QED BY <1>1, <2>1 DEF Fits, SaveShape, CopyShape, GroupShape, DeleteShape
<1>7. Relied(l)'
  <2> SUFFICES ASSUME NEW e \in Masters \ raced', ReliesOn(l, e)
               PROVE  Found({e})' # {} \/ \E m \in l.ins : IsRowOf(m, e)
    BY <1>1 DEF Relied, ReliesOn
  <2>1. Found({e}) # {} \/ \E m \in l.ins : IsRowOf(m, e)
    BY <1>1, <1>3 DEF Known, Relied
  <2>2. ~Deletes(k, e)
    BY <1>3, <1>4
  <2> QED BY <2>1, <2>2, MastersStay
<1>8. Covered(l)'
  <2> SUFFICES ASSUME l.op = "delete", l.want = {}, l.obj \notin raced',
                      NEW x \in rows', l.obj \in Refs(x)
               PROVE  x \in l.del \/ Waits(l, x.t)
    BY <1>1 DEF Covered, Refs, Waits
  <2>1. CASE x \in rows
    BY <1>1, <1>3, <2>1 DEF Known, Covered
  <2>2. CASE \E i \in k.ins : x = Saved(i)
    <3>1. PICK i \in k.ins : x = Saved(i)
      BY <2>2
    <3>2. l.obj \in Refs(i) /\ l.obj \in Masters
      BY <1>1, <1>5, <3>1 DEF Fits, DeleteShape
    <3>3. ReliesOn(k, l.obj) /\ Deletes(l, l.obj)
      BY <3>1, <3>2, CommitFacts DEF ReliesOn, Deletes
    <3> QED BY <1>3, <1>4, <3>2, <3>3
  <2> QED BY <2>1, <2>2, CommitFacts
<1>9. Rooted(l)'
  <2> SUFFICES ASSUME l.op = "menu", l.todo # <<"root", "menu">>
               PROVE  \E y \in rows' \cup l.ins : IsRoot(y, l.obj)
    BY <1>1 DEF Rooted, IsRoot
  <2>1. PICK y \in rows \cup l.ins : IsRoot(y, l.obj)
    BY <1>1 DEF Known, Rooted
  <2> QED BY <2>1, RootsStay
<1>10. Dated(l)'
  <2> SUFFICES ASSUME l.op = "delete", NEW m \in rows', IsRowOf(m, l.obj)
               PROVE  m.by > l.began \/ \E z \in l.want \cup l.del : SameRow(z, m)
    BY <1>1 DEF Dated, IsRowOf, SameRow, SameKey
  <2>1. CASE m \in rows
    BY <1>1, <2>1 DEF Known, Dated
  <2>2. CASE \E i \in k.ins : m = Saved(i)
    <3>1. PICK i \in k.ins : m = Saved(i)
      BY <2>2
    <3>2. CASE i.by = Unsaved
      BY <1>2, <1>5, <3>1, <3>2
    <3>3. CASE i.by # Unsaved
      <4>1. i.t = "master" /\ m = i
        BY <1>5, <3>1, <3>3 DEF IsRowOf
      <4>2. PICK z \in k.del : SameRow(z, i)
        <5>1. k.op # "copy" \/ i.by = Unsaved
          <6>1. \A e : RowOf("master", e, e).by = Unsaved
            BY DEF RowOf
          <6> QED BY <6>1, CommitFacts DEF Fits, CopyShape
        <5> QED BY <3>3, <5>1, CommitFacts
                DEF Fits, SaveShape, GroupShape, DeleteShape, CallType, Ops
      <4>3. PICK y \in rows : SameRow(z, y)
        BY CommitFacts
      <4>4. IsRowOf(y, l.obj) /\ y.by = m.by
        BY <4>1, <4>2, <4>3 DEF SameRow, SameKey, IsRowOf
      <4>5. y.by > l.began \/ \E w \in l.want \cup l.del : SameRow(w, y)
        BY <1>1, <4>4 DEF Known, Dated
      <4>6. \A w : SameRow(w, y) => SameRow(w, m)
        BY <4>1, <4>2, <4>3, <4>4 DEF SameRow, SameKey, IsRowOf
      <4> QED BY <4>4, <4>5, <4>6
    <3> QED BY <3>2, <3>3
  <2> QED BY <2>1, <2>2, CommitFacts
<1>11. Grouped(l)'
  <2> SUFFICES ASSUME l.op \in {"user", "menu"}, l.todo = <<>>, <<l.op, l.obj>> \notin blended',
                      l.del \subseteq rows', NEW x \in rows', x.t = l.op, x.a = l.obj, x.b # l.obj
               PROVE  x \in l.del
    BY <1>1 DEF Grouped
  <2>1. <<l.op, l.obj>> \notin blended
    BY <1>3
  <2>2. \A z \in l.del : z \in Row(1..clock) /\ z.t = l.op /\ z.a = l.obj /\ z.b # l.obj
    BY <1>1 DEF Fits, GroupShape, CallType
  <2>3. \A z \in l.del : z \in rows /\ ~\E w \in k.del : SameRow(w, z)
    <3> SUFFICES ASSUME NEW z \in l.del, NEW i \in k.ins, z = Saved(i) PROVE FALSE
      BY CommitFacts
    <3>1. Saved(i).by = clock + 1
      BY <1>5, <2>2, GroupRows
    <3>2. z.by \in 1..clock
      BY <2>2, RowFacts
    <3> QED BY <1>2, <3>1, <3>2
  <2>4. CASE x \in rows
    BY <1>1, <2>1, <2>3, <2>4 DEF Known, Grouped
  <2>5. CASE \E i \in k.ins : x = Saved(i)
    <3>1. k.op = l.op /\ k.obj = l.obj
      BY <1>5, <2>5, GroupRows
    <3>2. SameGroup(k, l) /\ SameGroup(l, k)
      BY <3>1 DEF SameGroup
    <3>3. ~FoundEmpty(k) /\ ~FoundEmpty(l)
      BY <2>1, <3>1, <3>2 DEF IInv, Meet
    <3>4. PICK z \in l.del : z \in rows
      BY <2>3, <3>3 DEF FoundEmpty
    <3>5. z \in k.del
      BY <2>1, <2>2, <3>1, <3>4, GroupThere, CommitFacts DEF Known, Grouped
    <3> QED BY <2>3, <3>5 DEF SameRow, SameKey
  <2> QED BY <2>4, <2>5, CommitFacts
<1> QED BY <1>1, <1>6, <1>7, <1>8, <1>9, <1>10, <1>11 DEF Known

LEMMA CommitKeeps ==
  ASSUME IInv, NEW c \in Admins, Commit(c), clock < MaxCommits
  PROVE  IInv'
<1>1. \A d \in Admins : call'[d] = IF d = c THEN Idle ELSE call[d]
  BY CommitFacts DEF IInv
<1>2. \A d \in Admins : Sound(call[d])'
  BY <1>1, CommitOthers DEF Sound
<1>3. Meet'
  <2> SUFFICES ASSUME NEW d \in Admins, NEW e \in Admins, d # e
               PROVE  /\ \A n \in Masters : ReliesOn(call'[d], n) /\ Deletes(call'[e], n) => n \in raced'
                      /\ SameGroup(call'[d], call'[e]) /\ FoundEmpty(call'[d])
                           => <<call'[d].op, call'[d].obj>> \in blended'
    BY DEF Meet, ReliesOn, Deletes, SameGroup, FoundEmpty
  <2>1. raced \subseteq raced' /\ blended \subseteq blended'
    BY CommitFacts
  <2>2. CASE d # c /\ e # c
    BY <1>1, <2>1, <2>2 DEF IInv, Meet
  <2>3. CASE d = c \/ e = c
    BY <1>1, <2>3 DEF ReliesOn, Deletes, SameGroup, Idle
  <2> QED BY <2>2, <2>3
<1>4. call' \in [Admins -> CallType' \cup {Idle}]
  BY CommitTables DEF Idle
<1> QED BY <1>2, <1>3, <1>4, CommitTables, CommitTargets, CommitRoots, CommitKeys, CommitMixture
        DEF IInv, Idle
-----------------------------------------------------------------------------
(* The theorems *)

LEMMA InitIInv == Init => IInv
<1> SUFFICES ASSUME Init PROVE IInv
  OBVIOUS
<1>1. PICK masters \in SUBSET MasterRow({1}), links \in SUBSET LinkRow({1}) :
        /\ rows = masters \cup links
        /\ \A x, y \in masters : x.a = y.a => x = y
        /\ \A x \in rows, e \in Masters : e \in Refs(x) => \E y \in masters : y.a = e
        /\ \A x \in links : x.t = "menu" => [x EXCEPT !.b = x.a] \in links
  BY DEF Init
<1>2. clock = 1 /\ call = [c \in Admins |-> Idle] /\ raced = {} /\ blended = {}
  BY DEF Init
<1>3. rows \subseteq Row({1}) /\ \A x \in masters : x.t = "master"
  BY <1>1 DEF Row, MasterRow, Shape
<1>4. \A x \in links : x.t # "master"
  BY <1>1 DEF LinkRow, MenuRow, Shape
<1>5. Tables
  BY <1>2, <1>3, ConstantsAssumption DEF Tables
<1>6. Keys
  <2> SUFFICES ASSUME NEW x \in rows, NEW y \in rows, SameKey(x, y) PROVE x = y
    BY DEF Keys
  <2>1. CASE x.t = "master"
    BY <1>1, <1>4, <2>1 DEF SameKey
  <2>2. CASE x.t # "master"
    <3>1. x \in Row({1}) /\ y \in Row({1})
      BY <1>3
    <3>2. x.by = y.by
      BY <3>1, RowFacts
    <3> QED BY <2>2, <3>1, <3>2, SameLink DEF SameRow
  <2> QED BY <2>1, <2>2
<1>7. Roots
  <2> SUFFICES ASSUME NEW x \in rows, x.t = "menu" PROVE \E y \in rows : IsRoot(y, x.a)
    BY DEF Roots
  <2>1. [x EXCEPT !.b = x.a] \in rows
    BY <1>1, <1>3
  <2>2. x = [t |-> x.t, a |-> x.a, b |-> x.b, by |-> x.by]
    BY <1>3, RowFacts
  <2>3. [x EXCEPT !.b = x.a] = [t |-> x.t, a |-> x.a, b |-> x.a, by |-> x.by]
    BY <2>2
  <2> QED BY <2>1, <2>3 DEF IsRoot
<1>8. TargetsExist
  <2> SUFFICES ASSUME NEW x \in rows, NEW e \in Refs(x) PROVE Found({e}) # {}
    BY DEF TargetsExist
  <2>1. e \in Masters
    BY <1>3, RowFacts DEF Refs, Masters
  <2> QED BY <1>1, <1>3, <2>1 DEF Found
<1>9. NoMixture
  <2>1. \A x \in rows : x.by = 1
    BY <1>3, RowFacts
  <2> QED BY <2>1 DEF NoMixture
<1>10. Meet
  BY <1>2 DEF Meet, ReliesOn, SameGroup, Idle
<1> QED BY <1>2, <1>5, <1>6, <1>7, <1>8, <1>9, <1>10 DEF IInv, Sound

LEMMA NextIInv == IInv /\ [Next]_vars => IInv'
<1> SUFFICES ASSUME IInv, [Next]_vars PROVE IInv'
  OBVIOUS
<1>1. CASE UNCHANGED vars
  BY <1>1 DEF vars, IInv, Tables, Keys, Roots, TargetsExist, NoMixture, Meet, Found,
     CallType, Row, LinkRow, MasterRow, MenuRow, Shape, Sound, Fits, SaveShape, CopyShape,
     GroupShape, DeleteShape, Known, Relied, Covered, Rooted, Dated, Grouped
<1>2. CASE Next
  <2>1. clock < MaxCommits
    BY <1>2 DEF Next
  <2>2. PICK c \in Admins :
          \/ RoleCalls(c) \/ ProgramCalls(c)
          \/ Check(c) \/ Root(c) \/ List(c) \/ LookUp(c) \/ Commit(c) \/ Abort(c)
    BY <1>2 DEF Next
  <2>3. CASE RoleCalls(c)
    BY <2>3, CreateRoleKeeps, DeleteRoleKeeps, CopyAsNewKeeps, CreatePermissionKeeps,
       DeletePermissionKeeps, UpdateUserRoleKeeps, UpdateMenuRoleKeeps DEF RoleCalls
  <2>4. CASE ProgramCalls(c)
    BY <2>4, CreateSystemKeeps, DeleteSystemKeeps, CreateProgramKeeps, UpdateProgramKeeps,
       DeleteProgramKeeps, CreateOrUpdateMenuKeeps DEF ProgramCalls
  <2>5. CASE Commit(c)
    BY <2>1, <2>5, CommitKeeps
  <2> QED BY <2>2, <2>3, <2>4, <2>5, CheckKeeps, RootKeeps, ListKeeps, LookUpKeeps, AbortKeeps
<1> QED BY <1>1, <1>2

\* IInv is an invariant: what every call has in hand agrees with the tables, up to
\* the names and groups on which it has met another call.
THEOREM Invariant == Spec => []IInv
BY InitIInv, NextIInv, PTL DEF Spec

\* Every row links names of the kinds its table is for, and every call is one of
\* those the services make.
THEOREM TypeCorrect == Spec => []TypeOK
<1>1. IInv => TypeOK
  BY DEF IInv, Tables, TypeOK
<1> QED BY <1>1, Invariant, PTL

\* No row refers to a role, program or system that is not there, but for names on
\* which a call relied while another one deleted them.
THEOREM TargetsStay == Spec => []TargetsExist
<1>1. IInv => TargetsExist
  BY DEF IInv
<1> QED BY <1>1, Invariant, PTL

\* The roles of an account and the entries of a folder are those of one form, but
\* for groups that two calls found empty.
THEOREM OneForm == Spec => []NoMixture
<1>1. IInv => NoMixture
  BY DEF IInv
<1> QED BY <1>1, Invariant, PTL

\* What delete does to the rows, in one step.
LEMMA DeleteStep ==
  ASSUME IInv, [Next]_vars, NEW c \in Admins, NEW e \in Masters, Deletes(call[c], e),
         call'[c] # call[c], NEW x \in rows \ rows'
  PROVE  /\ x.a = e \/ e \in Refs(x)
         /\ Found({e})' = {} \/ \A y \in Found({e}) : y.by > call[c].began
<1> DEFINE k == call[c]
<1>1. PICK d \in Admins : Commit(d)
  BY DEF Next, vars, RoleCalls, ProgramCalls, CreateRole, DeleteRole, CopyAsNew,
     CreatePermission, DeletePermission, UpdateUserRole, UpdateMenuRole, CreateSystem,
     DeleteSystem, CreateProgram, UpdateProgram, DeleteProgram, CreateOrUpdateMenu,
     Begin, Check, Root, List, LookUp, Abort
<1>2. d = c
  BY <1>1, CommitFacts DEF IInv
<1>3. Commit(c) /\ k.op = "delete" /\ k.obj = e /\ k.ins = {} /\ k.want = {}
  BY <1>1, <1>2, CommitFacts DEF Deletes, Fits, DeleteShape
<1>4. PICK z \in k.del : SameRow(z, x)
  BY <1>3, CommitFacts
<1>5. /\ z.t = "master" => z.a = e
      /\ z.a = e \/ e \in Refs(z)
  BY <1>3, CommitFacts DEF Fits, DeleteShape
<1>6. x.a = e \/ e \in Refs(x)
  BY <1>4, <1>5 DEF SameRow, SameKey, Refs
<1>7. ASSUME NEW m \in Found({e})', NEW y \in Found({e}) PROVE y.by > k.began
  <2>1. m \in rows /\ m.t = "master" /\ m.a = e /\ ~\E w \in k.del : SameRow(w, m)
    BY <1>3, CommitFacts DEF Found
  <2>2. y = m
    BY <2>1 DEF Found, IInv, Keys, SameKey
  <2> QED BY <1>3, <2>1, <2>2, CommitFacts DEF Known, Dated, IsRowOf
<1> QED BY <1>6, <1>7

\* delete removes the links of its name together with its row, and nothing else,
\* unless the name was deleted and created anew meanwhile.
THEOREM DeletesWhole == Spec => LinksGoTogether
<1>1. IInv /\ [Next]_vars =>
        [\A c \in Admins, e \in Masters : Deletes(call[c], e) /\ call'[c] # call[c] =>
           \A x \in rows \ rows' :
             /\ x.a = e \/ e \in Refs(x)
             /\ Found({e})' = {} \/ \A y \in Found({e}) : y.by > call[c].began]_vars
  BY DeleteStep
<1> QED BY <1>1, Invariant, PTL DEF Spec, LinksGoTogether
-----------------------------------------------------------------------------
(* What the services promise apart from the races *)

\* Every menu entry hangs on a folder whose own row at the root of the menu is
\* there: no service deletes that row, and none inserts entries before it.
THEOREM EntriesHaveRoots == Spec => []Roots
<1>1. IInv => Roots
  BY DEF IInv
<1> QED BY <1>1, Invariant, PTL

\* Nothing happens at the same time on a server that serves one administrator at a time.
OneByOne == \A a, b \in Admins : a = b

LEMMA NobodyMet ==
  ASSUME OneByOne
  PROVE  Spec => [](raced = {} /\ blended = {})
<1> DEFINE Alone == raced = {} /\ blended = {}
<1>1. Init => Alone
  BY DEF Init
<1>2. Alone /\ [Next]_vars => Alone'
  <2> SUFFICES ASSUME Alone, [Next]_vars PROVE Alone'
    OBVIOUS
  <2>1. ASSUME NEW c \in Admins, NEW k, Proceed(c, k) PROVE Alone'
    <3>1. Admins \ {c} = {}
      BY DEF OneByOne
    <3> QED BY <2>1, <3>1 DEF Proceed
  <2>2. CASE UNCHANGED vars
    BY <2>2 DEF vars
  <2>3. CASE Next
    <3>1. \E c \in Admins : \E k : Proceed(c, k)
      BY <2>3 DEF Next, RoleCalls, ProgramCalls, CreateRole, DeleteRole, CopyAsNew,
         CreatePermission, DeletePermission, UpdateUserRole, UpdateMenuRole, CreateSystem,
         DeleteSystem, CreateProgram, UpdateProgram, DeleteProgram, CreateOrUpdateMenu,
         Begin, Check, Root, List, LookUp, Commit, Abort
    <3> QED BY <2>1, <3>1
  <2> QED BY <2>2, <2>3
<1> QED BY <1>1, <1>2, PTL DEF Spec

\* While administrators work one at a time the services keep the references and
\* the groups without any exception, as foreign keys and locks would: the only
\* source of a dangling reference or of a mixture is two calls at once.
THEOREM OneAdministratorIsSafe ==
  ASSUME OneByOne
  PROVE  Spec => []( /\ \A x \in rows : \A e \in Refs(x) : Found({e}) # {}
                     /\ \A x, y \in rows :
                          x.t = y.t /\ x.t \in {"user", "menu"} /\ x.a = y.a
                            /\ x.a \notin {x.b, y.b} => x.by = y.by )
<1>1. IInv /\ raced = {} /\ blended = {} =>
        /\ \A x \in rows : \A e \in Refs(x) : Found({e}) # {}
        /\ \A x, y \in rows :
             (x.t = y.t /\ x.t \in {"user", "menu"} /\ x.a = y.a
                /\ x.a \notin {x.b, y.b}) => x.by = y.by
  BY DEF IInv, TargetsExist, NoMixture
<1> QED BY <1>1, NobodyMet, Invariant, PTL

\* The step that writes something is a commit, and the call that ends by it the one
\* that commits.
LEMMA WritesCommit ==
  ASSUME IInv, [Next]_vars, rows' # rows \/ clock' # clock
  PROVE  \E c \in Admins : Commit(c) /\ \A d \in Admins : call'[d] # call[d] => d = c
<1>1. PICK d \in Admins : Commit(d)
  BY DEF Next, vars, RoleCalls, ProgramCalls, CreateRole, DeleteRole, CopyAsNew,
     CreatePermission, DeletePermission, UpdateUserRole, UpdateMenuRole, CreateSystem,
     DeleteSystem, CreateProgram, UpdateProgram, DeleteProgram, CreateOrUpdateMenu,
     Begin, Check, Root, List, LookUp, Abort
<1> QED BY <1>1, CommitFacts DEF IInv

\* The names linked to e in the table t, but for the folder's own row.
GroupOf(t, e) == {x.b : x \in {y \in rows : y.t = t /\ y.a = e /\ y.b # e}}
FormOf(k) == {i.b : i \in k.ins} \ {k.obj}

LEMMA GroupCommit ==
  ASSUME IInv, NEW c \in Admins, Commit(c), NEW t \in {"user", "menu"}, NEW e,
         call[c].op = t, call[c].obj = e, <<t, e>> \notin blended
  PROVE  GroupOf(t, e)' = FormOf(call[c])
<1> DEFINE k == call[c]
           In(x) == x.t = t /\ x.a = e /\ x.b # e
<1>1. GroupOf(t, e)' = {x.b : x \in {y \in rows' : In(y)}}
  BY DEF GroupOf
<1>2. \A i \in k.ins : /\ i.t = t /\ i.a = e
                       /\ Saved(i) \in rows' /\ Saved(i).t = i.t /\ Saved(i).a = i.a /\ Saved(i).b = i.b
  <2>1. \A i \in k.ins : i.t = t /\ i.a = e
    BY CommitFacts DEF Fits, GroupShape
  <2> QED BY <2>1, CommitFacts, SavedFacts DEF IInv
<1>3. \A x \in rows : In(x) => x \in k.del
  BY GroupThere, CommitFacts DEF Known, Grouped
<1>4. \A x \in rows' : In(x) => \E i \in k.ins : x = Saved(i)
  BY <1>3, CommitFacts DEF SameRow, SameKey
<1>5. ASSUME NEW x \in rows', In(x) PROVE x.b \in FormOf(k)
  BY <1>2, <1>4, <1>5 DEF FormOf
<1>6. ASSUME NEW i \in k.ins, i.b # k.obj PROVE i.b \in {x.b : x \in {y \in rows' : In(y)}}
  BY <1>2, <1>6
<1> QED BY <1>1, <1>5, <1>6 DEF FormOf

\* A call of updateUserRole or of the menu that succeeds leaves the account with
\* exactly the roles, the folder with exactly the entries, that it looked up from
\* its form: nothing of what was there before it survives, and nothing that
\* another administrator's call wrote between its reads and its commit.  (Of a
\* group that two calls found empty the later form is merged with the other.)
THEOREM FormIsWritten ==
  Spec => [][\A c \in Admins, t \in {"user", "menu"}, e \in Names :
               clock' # clock /\ call'[c] # call[c] /\ call[c].op = t /\ call[c].obj = e
                 /\ <<t, e>> \notin blended
               => GroupOf(t, e)' = FormOf(call[c])]_vars
<1>1. ASSUME IInv, [Next]_vars, NEW c \in Admins, NEW t \in {"user", "menu"}, NEW e \in Names,
             clock' # clock, call'[c] # call[c],
             call[c].op = t, call[c].obj = e, <<t, e>> \notin blended
      PROVE  GroupOf(t, e)' = FormOf(call[c])
  BY <1>1, WritesCommit, GroupCommit
<1>2. IInv /\ [Next]_vars =>
        [\A c \in Admins, t \in {"user", "menu"}, e \in Names :
           clock' # clock /\ call'[c] # call[c] /\ call[c].op = t /\ call[c].obj = e
             /\ <<t, e>> \notin blended
           => GroupOf(t, e)' = FormOf(call[c])]_vars
  BY <1>1
<1> QED BY <1>2, Invariant, PTL DEF Spec

\* No call is about to delete a protected role.
Spares == \A c \in Admins : call[c].op = "delete" => call[c].obj \notin Protected

LEMMA SparesAlways == Spec => []Spares
<1>1. Init => Spares
  BY DEF Init, Spares, Idle
<1>2. IInv /\ Spares /\ [Next]_vars => Spares'
  <2> SUFFICES ASSUME IInv, Spares, [Next]_vars PROVE Spares'
    OBVIOUS
  <2>1. ASSUME NEW c \in Admins, NEW k, Proceed(c, k), k.op = "delete" => k.obj \notin Protected
        PROVE  Spares'
    BY <2>1 DEF Proceed, Spares, IInv
  <2>2. CASE UNCHANGED vars
    BY <2>2 DEF vars, Spares
  <2>3. ASSUME NEW c \in Admins, RoleCalls(c) \/ ProgramCalls(c) PROVE Spares'
    <3>1. ASSUME NEW x, Begin(c, Start("delete", x.a, RoleLinks, {x})), x \in Found(Roles \ Protected)
          PROVE  Spares'
      BY <2>1, <3>1 DEF Begin, Start, Call, Found
    <3>2. ASSUME NEW x, NEW s, Begin(c, Start("delete", x.a, s, {x})), x \in Found(Programs \cup Systems)
          PROVE  Spares'
      BY <2>1, <3>2, ConstantsAssumption DEF Begin, Start, Call, Found
    <3>3. ASSUME NEW o, NEW d, NEW i, Begin(c, Save(o, d, i)) PROVE Spares'
      BY <2>1, <3>3 DEF Begin, Save, Call
    <3>4. ASSUME NEW op \in {"user", "menuRole", "menu"}, NEW o, NEW s, NEW w,
                 Begin(c, Start(op, o, s, w))
          PROVE  Spares'
      BY <2>1, <3>4 DEF Begin, Start, Call
    <3>5. ASSUME NEW o, NEW s, NEW i, Begin(c, Call("copy", o, s, {}, {}, i)) PROVE Spares'
      BY <2>1, <3>5 DEF Begin, Call
    <3>6. CASE DeleteRole(c)
      BY <3>1, <3>6 DEF DeleteRole
    <3>7. CASE DeleteProgram(c) \/ DeleteSystem(c)
      <4>1. Found(Programs) \cup Found(Systems) \subseteq Found(Programs \cup Systems)
        BY DEF Found
      <4> QED BY <3>2, <3>7, <4>1 DEF DeleteProgram, DeleteSystem
    <3>8. CASE CopyAsNew(c)
      BY <3>5, <3>8 DEF CopyAsNew
    <3>9. CASE UpdateUserRole(c) \/ UpdateMenuRole(c) \/ CreateOrUpdateMenu(c)
      BY <3>4, <3>9 DEF UpdateUserRole, UpdateMenuRole, CreateOrUpdateMenu
    <3>10. CASE CreateRole(c) \/ CreateSystem(c) \/ CreatePermission(c) \/ DeletePermission(c)
                  \/ CreateProgram(c) \/ UpdateProgram(c)
      BY <3>3, <3>10 DEF CreateRole, CreateSystem, CreatePermission, DeletePermission,
         CreateProgram, UpdateProgram
    <3> QED BY <2>3, <3>6, <3>7, <3>8, <3>9, <3>10 DEF RoleCalls, ProgramCalls
  <2>4. ASSUME NEW c \in Admins, Commit(c) \/ Abort(c) PROVE Spares'
    BY <2>1, <2>4 DEF Commit, Abort, Idle
  <2>5. ASSUME NEW c \in Admins, Check(c) \/ Root(c) \/ List(c) \/ LookUp(c) PROVE Spares'
    <3>1. call[c].op # "idle"
      BY <2>5 DEF Check, Root, List, LookUp
    <3>2. call[c] \in CallType
      BY <3>1, Serving
    <3>3. \A todo, want, del, ins :
            /\ LET k == [call[c] EXCEPT !.want = want, !.del = del] IN k.op = call[c].op /\ k.obj = call[c].obj
            /\ LET k == [call[c] EXCEPT !.want = want, !.ins = ins] IN k.op = call[c].op /\ k.obj = call[c].obj
            /\ LET k == [call[c] EXCEPT !.todo = todo, !.ins = ins] IN k.op = call[c].op /\ k.obj = call[c].obj
            /\ LET k == [call[c] EXCEPT !.todo = todo, !.del = del] IN k.op = call[c].op /\ k.obj = call[c].obj
      BY <3>2 DEF CallType
    <3>4. ASSUME NEW k, Proceed(c, k), k.op = call[c].op, k.obj = call[c].obj PROVE Spares'
      BY <2>1, <3>4 DEF Spares
    <3>5. CASE Check(c)
      BY <3>3, <3>4, <3>5 DEF Check
    <3>6. CASE Root(c)
      <4> DEFINE root == RowOf("menu", call[c].obj, call[c].obj)
                 ins == IF \E y \in rows : SameKey(root, y) THEN {} ELSE {root}
      <4>1. Proceed(c, [call[c] EXCEPT !.todo = Tail(call[c].todo), !.ins = ins])
        BY <3>6 DEF Root
      <4> HIDE DEF ins
      <4> QED BY <3>3, <3>4, <4>1
    <3>7. CASE List(c)
      BY <3>3, <3>4, <3>7 DEF List
    <3>8. CASE LookUp(c)
      BY <3>3, <3>4, <3>8 DEF LookUp
    <3> QED BY <2>5, <3>5, <3>6, <3>7, <3>8
  <2> QED BY <2>2, <2>3, <2>4, <2>5 DEF Next
<1> QED BY <1>1, <1>2, Invariant, PTL DEF Spec

\* The roles admin and *, and the default user role, stay once they are there:
\* deleteRole refuses them, and no other call, nor any meeting of two calls,
\* removes a role's row.
THEOREM ProtectedRolesStay ==
  Spec => [][\A e \in Protected : Found({e}) # {} => Found({e})' # {}]_vars
<1>1. ASSUME IInv, Spares, [Next]_vars, NEW e \in Protected, Found({e}) # {}
      PROVE  Found({e})' # {}
  <2>1. CASE rows' = rows
    BY <1>1, <2>1 DEF Found
  <2>2. CASE rows' # rows
    <3>1. PICK c \in Admins : Commit(c)
      BY <1>1, <2>2, WritesCommit
    <3>2. ~Deletes(call[c], e)
      BY <1>1 DEF Spares, Deletes
    <3>3. e \in Masters
      BY ConstantsAssumption DEF Masters
    <3> QED BY <1>1, <3>1, <3>2, <3>3, MastersStay
  <2> QED BY <2>1, <2>2
<1>2. IInv /\ Spares /\ [Next]_vars =>
        [\A e \in Protected : Found({e}) # {} => Found({e})' # {}]_vars
  BY <1>1
<1> QED BY <1>2, SparesAlways, Invariant, PTL DEF Spec
=============================================================================
