-------------------------- MODULE BpmResourceProofs --------------------------
(***************************************************************************)
(* Proofs about BpmResource, for any resources, archives, requests and     *)
(* bounds.                                                                 *)
(***************************************************************************)
EXTENDS BpmResource, TLAPS

\* A deployment's id names the same deployment for ever: ids are taken in turn,
\* what a row or a call names is its resource's own or gone, and an id that a
\* call has just taken is known to that call alone.
IdsAgree ==
  /\ \A d \in Ids : engine[d] # None => d <= made
  /\ \A r \in Resources : row[r] # None /\ row[r].dep # None =>
       row[r].dep <= made /\ (engine[row[r].dep] = None \/ engine[row[r].dep].of = r)
  /\ \A a \in Admins : snap[a] # None /\ snap[a].dep # None => snap[a].dep <= made
  /\ \A a \in Admins : pc[a] \notin {"idle", "look"} /\ snap[a].dep # None =>
       engine[snap[a].dep] = None \/ engine[snap[a].dep].of = on[a]
  /\ \A a \in Admins : pc[a] = "unname" => engine[snap[a].dep] = None
  /\ \A a \in Admins : pc[a] = "name" =>
       /\ Live(snap[a].dep, on[a])
       /\ engine[snap[a].dep].content = snap[a].content
       /\ \A r \in Resources : row[r] # None => row[r].dep # snap[a].dep
       /\ \A b \in Admins \ {a} : snap[b] # None => snap[b].dep # snap[a].dep

\* What a call knows of its row while no other call has written it.
RowKnown(a, x, s) ==
  /\ pc[a] \in {"clear", "deploy", "remove", "unname"} => x = s
  /\ pc[a] \in {"find", "deploy", "name"} => x # None /\ x.dep = None
  /\ pc[a] = "name" => x.oid = s.oid /\ x.content = s.content
  /\ pc[a] \in {"fill", "refill"} =>
       x # None /\ x.oid = s.oid /\ x.dep = s.dep /\ x.content = None
  /\ pc[a] \in {"deploy", "name", "refill"} => s.content # None
  /\ pc[a] = "erase" => x = None \/ x.dep = None
Fresh ==
  \A a \in Admins \ stale : pc[a] # "idle" => RowKnown(a, row[on[a]], snap[a])

\* A call that is about to put the bytes of r back.
Filler(a, r) == pc[a] \in {"fill", "refill"} /\ on[a] = r

\* The bytes of a sound resource are the latest or on their way, in its row
\* and in the calls whose row no other call has written.
BytesKept(r) ==
  /\ row[r] # None => row[r].content \in {latest[r], None}
  /\ row[r] # None /\ row[r].content = None => \E a \in Admins : Filler(a, r)
  /\ \A a \in Admins \ stale :
       pc[a] \in {"name", "fill", "refill"} /\ on[a] = r =>
         /\ snap[a].content \in {latest[r], None}
         /\ snap[a].content = None => \E b \in Admins \ {a} : Filler(b, r)

\* The named deployment of a sound resource is its latest, or gone and about to
\* be blanked; the others were cut off or are about to be named.
NamesKept(r) ==
  /\ row[r] # None /\ row[r].dep # None =>
       IF engine[row[r].dep] # None THEN engine[row[r].dep].content = latest[r]
       ELSE \E a \in Admins : pc[a] = "unname" /\ on[a] = r /\ snap[a].dep = row[r].dep
  /\ \A d \in Ids \ cut : Live(d, r) =>
       \/ row[r] # None /\ row[r].dep = d
       \/ \E a \in Admins : pc[a] = "name" /\ on[a] = r /\ snap[a].dep = d

Bytes == \A r \in Resources : Sound(r) => BytesKept(r)
Names == \A r \in Resources : Sound(r) => NamesKept(r)

IInv == TypeOK /\ IdsAgree /\ Fresh /\ Bytes /\ Names
-----------------------------------------------------------------------------
(* Types *)

LEMMA TypeInit == Init => TypeOK
BY BpmAssumption DEF Init, TypeOK, BpmAssumption

\* A row read by a call is a row.
LEMMA BeginsType ==
  ASSUME TypeOK, NEW a \in Admins, NEW r \in Resources, Begins(a, r)
  PROVE  /\ on' \in [Admins -> Resources \cup {None}] /\ on' = [on EXCEPT ![a] = r]
         /\ target' \in [Admins -> Oids \cup {None}]
         /\ snap' \in [Admins -> Rows \cup {None}] /\ snap' = [snap EXCEPT ![a] = row[r]]
         /\ stale' \subseteq Admins /\ row[r] # None /\ row[r] \in Rows
BY DEF TypeOK, Begins, Rows

\* A whole-row write keeps the types.
LEMMA StoreType ==
  ASSUME TypeOK, NEW a \in Admins, on[a] \in Resources,
         NEW dep \in Ids \cup {None}, NEW content \in Archives \cup {None},
         Store(a, dep, content)
  PROVE  /\ row' \in [Resources -> Rows \cup {None}]
         /\ stale' \subseteq Admins /\ crossed' \subseteq Resources
<1>1. Found(a) => [oid |-> snap[a].oid, dep |-> dep, content |-> content] \in Rows
  <2> SUFFICES ASSUME Found(a) PROVE snap[a].oid \in Oids BY DEF Rows
  <2> QED BY DEF Found, TypeOK, Rows
<1> QED BY <1>1 DEF Store, TypeOK, AtWork

\* Every step keeps the types.
LEMMA TypeNext == TypeOK /\ [Next]_vars => TypeOK'
<1> SUFFICES ASSUME TypeOK, [Next]_vars PROVE TypeOK' OBVIOUS
<1> USE BpmAssumption DEF BpmAssumption, To, calls, counters
<1>1. ASSUME NEW r \in Resources, NEW c \in Archives, Save(r, c) PROVE TypeOK'
  <2>1. [oid |-> saved + 1, dep |-> None, content |-> c] \in Rows
    BY <1>1 DEF Save, Rows, Oids, TypeOK
  <2> QED BY <1>1, <2>1 DEF Save, TypeOK, AtWork
<1>2. ASSUME NEW a \in Admins, NEW r \in Resources, NEW c \in Archives \cup {None},
             ReadToUpdate(a, r, c)
      PROVE TypeOK'
  <2>1. Begins(a, r) BY <1>2 DEF ReadToUpdate
  <2> QED BY <1>2, <2>1, BeginsType DEF ReadToUpdate, TypeOK
<1>3. ASSUME NEW a \in Admins, NEW r \in Resources, ReadToDeploy(a, r) PROVE TypeOK'
  <2>1. Begins(a, r) BY <1>3 DEF ReadToDeploy
  <2> QED BY <1>3, <2>1, BeginsType DEF ReadToDeploy, TypeOK
<1>4. ASSUME NEW a \in Admins, NEW r \in Resources, ReadToDelete(a, r) PROVE TypeOK'
  <2>1. Begins(a, r) BY <1>4 DEF ReadToDelete
  <2> QED BY <1>4, <2>1, BeginsType DEF ReadToDelete, TypeOK
<1>5. ASSUME NEW a \in Admins, NEW r \in Resources, NEW force \in BOOLEAN, RunTool(a, r, force)
      PROVE TypeOK'
  BY <1>5 DEF RunTool, TypeOK
<1>6. ASSUME NEW a \in Admins, Step(a) PROVE TypeOK'
  <2>1. CASE ClearToUpdate(a)
    <3>1. on[a] \in Resources /\ snap[a] # None /\ snap[a].dep \in Ids \cup {None}
      BY <2>1 DEF ClearToUpdate, TypeOK, Rows
    <3> QED BY <2>1, <3>1, StoreType DEF ClearToUpdate, TypeOK
  <2>2. CASE FillToUpdate(a)
    <3>1. on[a] \in Resources /\ snap[a] \in Rows /\ Filled(a) \in Archives \cup {None}
      BY <2>2 DEF FillToUpdate, Filled, TypeOK, Rows
    <3>2. Found(a) => row[on[a]].dep \in Ids \cup {None}
      BY <3>1 DEF Found, TypeOK, Rows
    <3>3. cut' \subseteq Ids /\ latest' \in [Resources -> Archives \cup {None}]
      BY <2>2, <3>1, <3>2 DEF FillToUpdate, TypeOK, Found
    <3> QED BY <2>2, <3>1, <3>3, StoreType DEF FillToUpdate, TypeOK
  <2>3. CASE FindToDeploy(a) BY <2>3 DEF FindToDeploy, TypeOK, Rows
  <2>4. CASE Deploy(a)
    <3>1. /\ on[a] \in Resources /\ snap[a] \in Rows /\ snap[a].content # None
          /\ made + 1 \in Ids
      BY <2>4 DEF Deploy, TypeOK, Rows, Ids
    <3>2. [of |-> on[a], content |-> snap[a].content] \in Deployments
      BY <3>1 DEF Deployments, Rows
    <3>3. [oid |-> snap[a].oid, dep |-> made + 1, content |-> snap[a].content] \in Rows
      BY <3>1 DEF Rows
    <3> QED BY <2>4, <3>1, <3>2, <3>3 DEF Deploy, TypeOK
  <2>5. CASE NameDeployment(a)
    <3>1. on[a] \in Resources /\ snap[a] # None /\ snap[a].dep \in Ids \cup {None}
      BY <2>5 DEF NameDeployment, TypeOK, Rows
    <3> QED BY <2>5, <3>1, StoreType DEF NameDeployment, TypeOK
  <2>6. CASE Refill(a)
    <3>1. /\ on[a] \in Resources /\ snap[a].dep \in Ids \cup {None}
          /\ snap[a].content \in Archives \cup {None}
      BY <2>6 DEF Refill, TypeOK, Rows
    <3> QED BY <2>6, <3>1, StoreType DEF Refill, TypeOK
  <2>7. CASE Look(a) BY <2>7 DEF Look, TypeOK, Rows
  <2>8. CASE Remove(a) BY <2>8 DEF Remove, Removable, TypeOK
  <2>9. CASE RemovalRefused(a) BY <2>9 DEF RemovalRefused, TypeOK
  <2>10. CASE Unname(a)
    <3>1. on[a] \in Resources /\ snap[a].content \in Archives \cup {None} /\ snap[a] # None
      BY <2>10 DEF Unname, TypeOK, Rows
    <3> QED BY <2>10, <3>1, StoreType DEF Unname, TypeOK
  <2>11. CASE Erase(a) BY <2>11 DEF Erase, TypeOK, AtWork
  <2>12. CASE Dies(a) BY <2>12 DEF Dies, TypeOK, HalfDone
  <2> QED BY <1>6, <2>1, <2>2, <2>3, <2>4, <2>5, <2>6, <2>7, <2>8, <2>9, <2>10,
             <2>11, <2>12 DEF Step
<1>7. ASSUME NEW d \in Ids, Start(d) PROVE TypeOK' BY <1>7 DEF Start, TypeOK
<1>8. ASSUME NEW d \in Ids, Finish(d) PROVE TypeOK' BY <1>8 DEF Finish, TypeOK
<1>9. CASE UNCHANGED vars BY <1>9 DEF vars, TypeOK
<1> QED BY <1>1, <1>2, <1>3, <1>4, <1>5, <1>6, <1>7, <1>8, <1>9 DEF Next

\* TypeOK is an invariant: a call that is about to write holds a row, and one
\* that is about to remove or name a deployment holds its id.
THEOREM TypeCorrect == Spec => []TypeOK
BY TypeInit, TypeNext, PTL DEF Spec
-----------------------------------------------------------------------------
(* Ids and what calls know *)

\* Every step keeps the ids apart.
LEMMA IdsNext ==
  ASSUME TypeOK, IdsAgree, [Next]_vars PROVE IdsAgree'
<1> USE BpmAssumption DEF BpmAssumption, To, calls, counters,
           IdsAgree, TypeOK, Live, Store, Found, Rows, Ids
<1>1. ASSUME NEW r \in Resources, NEW c \in Archives, Save(r, c) PROVE IdsAgree'
  BY <1>1 DEF Save
<1>2. ASSUME NEW a \in Admins, NEW r \in Resources, NEW c \in Archives \cup {None},
             ReadToUpdate(a, r, c)
      PROVE IdsAgree'
  BY <1>2 DEF ReadToUpdate, Begins
<1>3. ASSUME NEW a \in Admins, NEW r \in Resources, ReadToDeploy(a, r) PROVE IdsAgree'
  BY <1>3 DEF ReadToDeploy, Begins
<1>4. ASSUME NEW a \in Admins, NEW r \in Resources, ReadToDelete(a, r) PROVE IdsAgree'
  BY <1>4 DEF ReadToDelete, Begins
<1>5. ASSUME NEW a \in Admins, NEW r \in Resources, NEW force \in BOOLEAN,
             RunTool(a, r, force)
      PROVE IdsAgree'
  BY <1>5 DEF RunTool
<1>6. ASSUME NEW a \in Admins, Step(a) PROVE IdsAgree'
  <2>1. CASE ClearToUpdate(a) BY <2>1 DEF ClearToUpdate
  <2>2. CASE FillToUpdate(a) BY <2>2 DEF FillToUpdate
  <2>3. CASE FindToDeploy(a) BY <2>3 DEF FindToDeploy
  <2>4. CASE Deploy(a)
    <3> HIDE DEF IdsAgree, TypeOK, Live, Store, Found, Rows, Ids
    <3>1. /\ made + 1 \in Ids /\ made' = made + 1 /\ on[a] \in Resources
          /\ snap[a] \in Rows /\ pc[a] = "deploy" /\ made \in Nat
      BY <2>4 DEF Deploy, TypeOK, Ids, Rows
    <3>2. /\ engine'[made + 1] = [of |-> on[a], content |-> snap[a].content]
          /\ engine'[made + 1] # None
          /\ \A d \in Ids : d # made + 1 => engine'[d] = engine[d]
      <4>1. [of |-> on[a], content |-> snap[a].content] \in Deployments
        BY <2>4, <3>1 DEF Deploy, Deployments, Rows, TypeOK
      <4> QED BY <2>4, <3>1, <4>1 DEF Deploy, TypeOK
    <3>3. /\ snap'[a] # None /\ snap'[a].dep = made + 1 /\ snap'[a].content = snap[a].content
          /\ \A b \in Admins : b # a => snap'[b] = snap[b]
      <4>1. [oid |-> snap[a].oid, dep |-> made + 1, content |-> snap[a].content] \in Rows
        BY <2>4, <3>1 DEF Deploy, Rows, TypeOK
      <4> QED BY <2>4, <4>1 DEF Deploy, TypeOK
    <3>4. /\ pc'[a] = "name" /\ \A b \in Admins : b # a => pc'[b] = pc[b]
          /\ row' = row /\ on' = on
      BY <2>4 DEF Deploy, TypeOK
    <3>5. /\ \A r \in Resources : row[r] # None /\ row[r].dep # None =>
               row[r].dep \in Ids /\ row[r].dep \in Nat /\ row[r].dep < made + 1
          /\ \A b \in Admins : snap[b] # None /\ snap[b].dep # None =>
               snap[b].dep \in Ids /\ snap[b].dep \in Nat /\ snap[b].dep < made + 1
          /\ \A d \in Ids : engine[d] # None => d \in Nat /\ d < made + 1
      BY <3>1 DEF IdsAgree, TypeOK, Rows, Ids
    <3>6. \A d \in Ids : engine'[d] # None => d <= made'
      BY <3>1, <3>2, <3>5
    <3>7. \A r \in Resources : row[r] # None /\ row[r].dep # None =>
            row[r].dep <= made' /\ (engine'[row[r].dep] = None \/ engine'[row[r].dep].of = r)
      BY <3>1, <3>2, <3>5 DEF IdsAgree
    <3>8. \A b \in Admins : snap'[b] # None /\ snap'[b].dep # None => snap'[b].dep <= made'
      BY <3>1, <3>3, <3>5
    <3>9. \A b \in Admins : pc'[b] \notin {"idle", "look"} /\ snap'[b].dep # None =>
            engine'[snap'[b].dep] = None \/ engine'[snap'[b].dep].of = on[b]
      <4> SUFFICES ASSUME NEW b \in Admins, b # a, pc[b] \notin {"idle", "look"},
                          snap[b].dep # None
                   PROVE engine'[snap[b].dep] = None \/ engine'[snap[b].dep].of = on[b]
        BY <3>2, <3>3, <3>4
      <4> QED BY <3>1, <3>2, <3>5 DEF IdsAgree, TypeOK
    <3>10. \A b \in Admins : pc'[b] = "unname" => engine'[snap'[b].dep] = None
      BY <3>1, <3>2, <3>3, <3>4, <3>5 DEF IdsAgree, TypeOK
    <3>11. ASSUME NEW b \in Admins, pc'[b] = "name"
           PROVE  /\ Live(snap[b].dep, on[b])' /\ engine'[snap'[b].dep].content = snap'[b].content
                  /\ \A r \in Resources : row[r] # None => row[r].dep # snap'[b].dep
                  /\ \A c \in Admins \ {b} : snap'[c] # None => snap'[c].dep # snap'[b].dep
      <4>1. CASE b = a
        <5>1. Live(snap[a].dep, on[a])' BY <3>2, <3>3, <3>4 DEF Live
        <5>2. \A r \in Resources : row[r] # None => row[r].dep # made + 1
          BY <3>1, <3>5
        <5>3. \A c \in Admins \ {a} : snap[c] # None => snap[c].dep # made + 1
          BY <3>1, <3>5
        <5> QED BY <4>1, <5>1, <5>2, <5>3, <3>2, <3>3
      <4>2. CASE b # a
        <5>1. /\ pc[b] = "name" /\ snap'[b] = snap[b] /\ snap[b] # None /\ snap[b].dep # None
              /\ snap[b].dep \in Ids
          BY <3>3, <3>4, <3>11, <4>2 DEF TypeOK, Rows
        <5>2. snap[b].dep # made + 1 BY <3>1, <3>5, <5>1
        <5>3. Live(snap[b].dep, on[b])' BY <3>2, <3>3, <3>4, <5>1, <5>2 DEF Live, IdsAgree
        <5>4. engine'[snap'[b].dep].content = snap'[b].content
          BY <3>2, <5>1, <5>2 DEF IdsAgree
        <5>5. \A c \in Admins \ {b} : snap'[c] # None => snap'[c].dep # snap[b].dep
          BY <3>3, <5>1, <5>2 DEF IdsAgree
        <5> QED BY <5>1, <5>3, <5>4, <5>5 DEF IdsAgree
      <4> QED BY <4>1, <4>2
    <3> QED BY <3>4, <3>6, <3>7, <3>8, <3>9, <3>10, <3>11 DEF IdsAgree
  <2>5. CASE NameDeployment(a) BY <2>5 DEF NameDeployment
  <2>6. CASE Refill(a) BY <2>6 DEF Refill
  <2>7. CASE Look(a) BY <2>7 DEF Look
  <2>8. CASE Remove(a)
    <3> HIDE DEF IdsAgree, TypeOK, Live, Store, Found, Rows, Ids
    <3>1. /\ snap[a].dep \in Ids /\ pc[a] = "remove" /\ snap[a] # None
          /\ \A d \in Ids : engine'[d] = IF d = snap[a].dep THEN None ELSE engine[d]
          /\ \A b \in Admins : pc'[b] = IF b = a THEN "unname" ELSE pc[b]
          /\ snap' = snap /\ row' = row /\ on' = on /\ made' = made
      BY <2>8 DEF Remove, TypeOK, Rows
    <3>2. ASSUME NEW b \in Admins, pc'[b] = "name"
          PROVE Live(snap[b].dep, on[b])' /\ engine'[snap[b].dep].content = snap[b].content
      <4>1. b # a /\ pc[b] = "name" /\ snap[b].dep # snap[a].dep /\ snap[b].dep \in Ids
        BY <3>1, <3>2 DEF IdsAgree, TypeOK, Rows
      <4> QED BY <3>1, <4>1 DEF IdsAgree, Live
    <3>3. \A r \in Resources : row[r] # None /\ row[r].dep # None =>
            row[r].dep <= made /\ (engine'[row[r].dep] = None \/ engine'[row[r].dep].of = r)
      BY <3>1 DEF IdsAgree, TypeOK, Rows
    <3>4. \A b \in Admins : pc'[b] \notin {"idle", "look"} /\ snap[b].dep # None =>
            engine'[snap[b].dep] = None \/ engine'[snap[b].dep].of = on[b]
      BY <3>1 DEF IdsAgree, TypeOK, Rows
    <3>5. \A b \in Admins : pc'[b] = "unname" => engine'[snap[b].dep] = None
      BY <3>1 DEF IdsAgree, TypeOK, Rows
    <3> QED BY <3>1, <3>2, <3>3, <3>4, <3>5 DEF IdsAgree
  <2>9. CASE RemovalRefused(a) BY <2>9 DEF RemovalRefused
  <2>10. CASE Unname(a) BY <2>10 DEF Unname
  <2>11. CASE Erase(a) BY <2>11 DEF Erase
  <2>12. CASE Dies(a) BY <2>12 DEF Dies
  <2> QED BY <1>6, <2>1, <2>2, <2>3, <2>4, <2>5, <2>6, <2>7, <2>8, <2>9, <2>10, <2>11, <2>12 DEF Step
<1>7. ASSUME NEW d \in Ids, Start(d) \/ Finish(d) PROVE IdsAgree'
  BY <1>7 DEF Start, Finish
<1>8. CASE UNCHANGED vars BY <1>8 DEF vars
<1> QED BY <1>1, <1>2, <1>3, <1>4, <1>5, <1>6, <1>7, <1>8 DEF Next

\* Every step tells the calls at work on a row it writes, by their staleness.
LEMMA FreshNext ==
  ASSUME TypeOK, Fresh, [Next]_vars PROVE Fresh'
<1> USE BpmAssumption DEF BpmAssumption, To, calls, counters,
           Fresh, RowKnown, TypeOK, Store, Found, AtWork, Rows
<1>1. ASSUME NEW r \in Resources, NEW c \in Archives, Save(r, c) PROVE Fresh'
  BY <1>1 DEF Save
<1>2. ASSUME NEW a \in Admins, NEW r \in Resources, NEW c \in Archives \cup {None},
             ReadToUpdate(a, r, c)
      PROVE Fresh'
  BY <1>2 DEF ReadToUpdate, Begins
<1>3. ASSUME NEW a \in Admins, NEW r \in Resources, ReadToDeploy(a, r) PROVE Fresh'
  BY <1>3 DEF ReadToDeploy, Begins
<1>4. ASSUME NEW a \in Admins, NEW r \in Resources, ReadToDelete(a, r) PROVE Fresh'
  BY <1>4 DEF ReadToDelete, Begins
<1>5. ASSUME NEW a \in Admins, NEW r \in Resources, NEW force \in BOOLEAN,
             RunTool(a, r, force)
      PROVE Fresh'
  BY <1>5 DEF RunTool
<1>6. ASSUME NEW a \in Admins, Step(a) PROVE Fresh'
  <2>1. CASE ClearToUpdate(a) BY <2>1 DEF ClearToUpdate
  <2>2. CASE FillToUpdate(a) BY <2>2 DEF FillToUpdate
  <2>3. CASE FindToDeploy(a) BY <2>3 DEF FindToDeploy
  <2>4. CASE Deploy(a) BY <2>4 DEF Deploy
  <2>5. CASE NameDeployment(a) BY <2>5 DEF NameDeployment
  <2>6. CASE Refill(a) BY <2>6 DEF Refill
  <2>7. CASE Look(a) BY <2>7 DEF Look
  <2>8. CASE Remove(a) BY <2>8 DEF Remove
  <2>9. CASE RemovalRefused(a) BY <2>9 DEF RemovalRefused
  <2>10. CASE Unname(a) BY <2>10 DEF Unname
  <2>11. CASE Erase(a) BY <2>11 DEF Erase
  <2>12. CASE Dies(a) BY <2>12 DEF Dies
  <2> QED BY <1>6, <2>1, <2>2, <2>3, <2>4, <2>5, <2>6, <2>7, <2>8, <2>9, <2>10, <2>11, <2>12 DEF Step
<1>7. ASSUME NEW d \in Ids, Start(d) \/ Finish(d) PROVE Fresh'
  BY <1>7 DEF Start, Finish
<1>8. CASE UNCHANGED vars BY <1>8 DEF vars
<1> QED BY <1>1, <1>2, <1>3, <1>4, <1>5, <1>6, <1>7, <1>8 DEF Next

\* The bytes of a resource that stays sound are kept.
LEMMA BytesNext ==
  ASSUME TypeOK, Fresh, NEW q \in Resources, Sound(q) => BytesKept(q), Sound(q)', [Next]_vars
  PROVE  BytesKept(q)'
<1> USE BpmAssumption DEF BpmAssumption, To, calls, counters,
           BytesKept, Filler, Fresh, RowKnown, Sound, TypeOK, Store, Found, AtWork, Rows
<1>1. ASSUME NEW r \in Resources, NEW c \in Archives, Save(r, c) PROVE BytesKept(q)'
  BY <1>1 DEF Save
<1>2. ASSUME NEW a \in Admins, NEW r \in Resources, NEW c \in Archives \cup {None},
             ReadToUpdate(a, r, c)
      PROVE BytesKept(q)'
  BY <1>2 DEF ReadToUpdate, Begins
<1>3. ASSUME NEW a \in Admins, NEW r \in Resources, ReadToDeploy(a, r) PROVE BytesKept(q)'
  BY <1>3 DEF ReadToDeploy, Begins
<1>4. ASSUME NEW a \in Admins, NEW r \in Resources, ReadToDelete(a, r) PROVE BytesKept(q)'
  BY <1>4 DEF ReadToDelete, Begins
<1>5. ASSUME NEW a \in Admins, NEW r \in Resources, NEW force \in BOOLEAN,
             RunTool(a, r, force)
      PROVE BytesKept(q)'
  BY <1>5 DEF RunTool
<1>6. ASSUME NEW a \in Admins, Step(a) PROVE BytesKept(q)'
  <2>1. CASE ClearToUpdate(a) BY <2>1 DEF ClearToUpdate
  <2>2. CASE FillToUpdate(a)
    BY <2>2 DEF FillToUpdate, Filled
  <2>3. CASE FindToDeploy(a) BY <2>3 DEF FindToDeploy
  <2>4. CASE Deploy(a) BY <2>4 DEF Deploy
  <2>5. CASE NameDeployment(a) BY <2>5 DEF NameDeployment
  <2>6. CASE Refill(a) BY <2>6 DEF Refill
  <2>7. CASE Look(a) BY <2>7 DEF Look
  <2>8. CASE Remove(a) BY <2>8 DEF Remove
  <2>9. CASE RemovalRefused(a) BY <2>9 DEF RemovalRefused
  <2>10. CASE Unname(a) BY <2>10 DEF Unname
  <2>11. CASE Erase(a) BY <2>11 DEF Erase
  <2>12. CASE Dies(a)
    BY <2>12 DEF Dies, HalfDone
  <2> QED BY <1>6, <2>1, <2>2, <2>3, <2>4, <2>5, <2>6, <2>7, <2>8, <2>9, <2>10, <2>11, <2>12 DEF Step
<1>7. ASSUME NEW d \in Ids, Start(d) \/ Finish(d) PROVE BytesKept(q)'
  BY <1>7 DEF Start, Finish
<1>8. CASE UNCHANGED vars BY <1>8 DEF vars
<1> QED BY <1>1, <1>2, <1>3, <1>4, <1>5, <1>6, <1>7, <1>8 DEF Next

\* The names of a resource that stays sound are kept.
LEMMA NamesNext ==
  ASSUME TypeOK, IdsAgree, Fresh, NEW q \in Resources, Sound(q) => BytesKept(q),
         Sound(q) => NamesKept(q), Sound(q)', [Next]_vars PROVE NamesKept(q)'
<1> USE BpmAssumption DEF BpmAssumption, To, calls, counters,
           NamesKept, Live, IdsAgree, Fresh, RowKnown, Sound, TypeOK, Store, Found, AtWork, Rows
<1>1. ASSUME NEW r \in Resources, NEW c \in Archives, Save(r, c) PROVE NamesKept(q)'
  BY <1>1 DEF Save
<1>2. ASSUME NEW a \in Admins, NEW r \in Resources, NEW c \in Archives \cup {None},
             ReadToUpdate(a, r, c)
      PROVE NamesKept(q)'
  BY <1>2 DEF ReadToUpdate, Begins
<1>3. ASSUME NEW a \in Admins, NEW r \in Resources, ReadToDeploy(a, r) PROVE NamesKept(q)'
  BY <1>3 DEF ReadToDeploy, Begins
<1>4. ASSUME NEW a \in Admins, NEW r \in Resources, ReadToDelete(a, r) PROVE NamesKept(q)'
  BY <1>4 DEF ReadToDelete, Begins
<1>5. ASSUME NEW a \in Admins, NEW r \in Resources, NEW force \in BOOLEAN,
             RunTool(a, r, force)
      PROVE NamesKept(q)'
  BY <1>5 DEF RunTool
<1>6. ASSUME NEW a \in Admins, Step(a) PROVE NamesKept(q)'
  <2>1. CASE ClearToUpdate(a) BY <2>1 DEF ClearToUpdate
  <2>2. CASE FillToUpdate(a) BY <2>2 DEF FillToUpdate
  <2>3. CASE FindToDeploy(a) BY <2>3 DEF FindToDeploy
  <2>4. CASE Deploy(a) BY <2>4 DEF Deploy
  <2>5. CASE NameDeployment(a)
    <3> HIDE DEF NamesKept, Live, IdsAgree, Fresh, RowKnown, Sound, TypeOK, Store, Found, AtWork, Rows
    <3>1. Sound(q) /\ (on[a] = q => a \notin stale)
      BY <2>5 DEF NameDeployment, Store, Sound, TypeOK
    <3>2. CASE on[a] = q
      <4>1. /\ pc[a] = "name" /\ snap[a] # None /\ snap[a].dep # None /\ snap[a].dep \in Ids
            /\ row[q] # None /\ row[q].dep = None /\ row[q].oid = snap[a].oid
            /\ row[q].content = snap[a].content /\ snap[a].content # None
            /\ Live(snap[a].dep, q) /\ engine[snap[a].dep].content = snap[a].content
        BY <2>5, <3>1, <3>2 DEF NameDeployment, Fresh, RowKnown, IdsAgree, TypeOK, Rows
      <4>2. /\ row'[q] # None /\ row'[q].dep = snap[a].dep /\ engine' = engine
            /\ snap' = snap /\ on' = on /\ latest' = latest /\ cut' = cut
            /\ \A b \in Admins : b # a => pc'[b] = pc[b]
        <5>1. Found(a) BY <3>2, <4>1 DEF Found
        <5>2. [oid |-> snap[a].oid, dep |-> snap[a].dep, content |-> None] \in Rows
          BY <4>1 DEF Rows, TypeOK
        <5> QED BY <2>5, <3>2, <5>1, <5>2 DEF NameDeployment, Store, TypeOK
      <4>3. engine[snap[a].dep].content = latest[q]
        BY <3>1, <4>1 DEF BytesKept
      <4>4. \A d \in Ids \ cut : Live(d, q) =>
              \/ row'[q].dep = d
              \/ \E b \in Admins : pc'[b] = "name" /\ on[b] = q /\ snap[b].dep = d
        BY <3>1, <4>1, <4>2 DEF NamesKept
      <4> QED BY <4>1, <4>2, <4>3, <4>4 DEF NamesKept, Live
    <3>3. CASE on[a] # q
      BY <2>5, <3>1, <3>3 DEF NameDeployment, NamesKept, Live, IdsAgree, Fresh, RowKnown,
         Sound, TypeOK, Store, Found, AtWork, Rows
    <3> QED BY <3>2, <3>3
  <2>6. CASE Refill(a) BY <2>6 DEF Refill
  <2>7. CASE Look(a) BY <2>7 DEF Look
  <2>8. CASE Remove(a) BY <2>8 DEF Remove
  <2>9. CASE RemovalRefused(a) BY <2>9 DEF RemovalRefused
  <2>10. CASE Unname(a) BY <2>10 DEF Unname
  <2>11. CASE Erase(a) BY <2>11 DEF Erase
  <2>12. CASE Dies(a)
    BY <2>12 DEF Dies, HalfDone
  <2> QED BY <1>6, <2>1, <2>2, <2>3, <2>4, <2>5, <2>6, <2>7, <2>8, <2>9, <2>10, <2>11, <2>12 DEF Step
<1>7. ASSUME NEW d \in Ids, Start(d) \/ Finish(d) PROVE NamesKept(q)'
  BY <1>7 DEF Start, Finish
<1>8. CASE UNCHANGED vars BY <1>8 DEF vars
<1> QED BY <1>1, <1>2, <1>3, <1>4, <1>5, <1>6, <1>7, <1>8 DEF Next

-----------------------------------------------------------------------------
(* The invariant and what it implies *)

\* A system without rows and deployments satisfies the invariant.
LEMMA InvariantInit == Init => IInv
<1> SUFFICES ASSUME Init PROVE IInv OBVIOUS
<1>1. TypeOK BY TypeInit
<1>2. IdsAgree BY BpmAssumption DEF Init, IdsAgree
<1>3. Fresh BY DEF Init, Fresh
<1>4. Bytes BY DEF Init, Bytes, BytesKept
<1>5. Names BY DEF Init, Names, NamesKept, Live
<1> QED BY <1>1, <1>2, <1>3, <1>4, <1>5 DEF IInv

\* What has stopped half-way or was written over stays so.
LEMMA SoundBefore ==
  ASSUME TypeOK, [Next]_vars, NEW q \in Resources, Sound(q)'
  PROVE  Sound(q)
<1> USE DEF Sound, Store, counters
<1>1. ASSUME NEW a \in Admins, Step(a) PROVE Sound(q)
  BY <1>1 DEF Step, ClearToUpdate, FillToUpdate, FindToDeploy, Deploy, NameDeployment,
     Refill, Look, Remove, RemovalRefused, Unname, Erase, Dies
<1>2. ASSUME NEW a \in Admins, NEW r \in Resources,
             \/ \E c \in Archives \cup {None} : ReadToUpdate(a, r, c)
             \/ ReadToDeploy(a, r) \/ ReadToDelete(a, r)
             \/ \E force \in BOOLEAN : RunTool(a, r, force)
      PROVE  Sound(q)
  BY <1>2 DEF ReadToUpdate, ReadToDeploy, ReadToDelete, RunTool
<1>3. ASSUME NEW r \in Resources, NEW c \in Archives, Save(r, c) PROVE Sound(q)
  BY <1>3 DEF Save
<1>4. ASSUME NEW d \in Ids, Start(d) \/ Finish(d) PROVE Sound(q)
  BY <1>4 DEF Start, Finish
<1>5. CASE UNCHANGED vars BY <1>5 DEF vars
<1> QED BY <1>1, <1>2, <1>3, <1>4, <1>5 DEF Next

\* Every step keeps the invariant.
LEMMA InvariantNext == IInv /\ [Next]_vars => IInv'
<1> SUFFICES ASSUME IInv, [Next]_vars PROVE IInv' OBVIOUS
<1>1. TypeOK' BY TypeNext DEF IInv
<1>2. IdsAgree' BY IdsNext DEF IInv
<1>3. Fresh' BY FreshNext DEF IInv
<1>4. ASSUME NEW q \in Resources, Sound(q)' PROVE BytesKept(q)' /\ NamesKept(q)'
  <2>1. Sound(q) BY <1>4, SoundBefore DEF IInv
  <2>2. BytesKept(q)' BY <1>4, <2>1, BytesNext DEF IInv, Bytes
  <2>3. NamesKept(q)' BY <1>4, <2>1, NamesNext DEF IInv, Bytes, Names
  <2> QED BY <2>2, <2>3
<1>5. Bytes' /\ Names' BY <1>4 DEF Bytes, Names
<1> QED BY <1>1, <1>2, <1>3, <1>5 DEF IInv

\* Rows, calls and deployments agree as IInv says in every reachable state.
THEOREM Invariant == Spec => []IInv
<1>1. Init => IInv BY InvariantInit
<1>2. IInv /\ [Next]_vars => IInv' BY InvariantNext
<1> QED BY <1>1, <1>2, PTL DEF Spec

\* No interleaving of updates, deployments and deletions loses the uploaded
\* bytes of a resource, as long as no call on it is stopped half-way or writes
\* over another's write.
THEOREM ContentIsKept == Spec => []ContentKept
<1>1. IInv => ContentKept
  BY DEF IInv, Bytes, BytesKept, ContentKept, Filler
<1> QED BY <1>1, Invariant, PTL

\* Under the same condition the deployment a row names exists and is its own.
THEOREM NamesAreLive == Spec => []NamedIsLive
<1>1. IInv => NamedIsLive
  BY DEF IInv, Names, NamesKept, IdsAgree, NamedIsLive, Live
<1> QED BY <1>1, Invariant, PTL

\* Under the same condition only an update that blanks the id leaves a
\* deployment in the engine that no row names.
THEOREM LiveAreNamed == Spec => []LiveIsNamed
<1>1. IInv => LiveIsNamed
  BY DEF IInv, Names, NamesKept, LiveIsNamed
<1> QED BY <1>1, Invariant, PTL

\* Under the same condition the named deployment runs the archive uploaded last.
THEOREM NamesAreCurrent == Spec => []NamedIsCurrent
<1>1. IInv => NamedIsCurrent
  BY DEF IInv, Names, NamesKept, NamedIsCurrent, Live
<1> QED BY <1>1, Invariant, PTL
-----------------------------------------------------------------------------
(* The calls implement the atomic store *)

\* A row exists only for an archive that was uploaded.
Uploaded == \A r \in Resources : row[r] # None => latest[r] # None

LEMMA UploadedStep ==
  ASSUME TypeOK, Uploaded, [Next]_vars PROVE Uploaded'
<1> USE BpmAssumption DEF BpmAssumption, Uploaded, TypeOK, Store, Found, calls, counters
<1>1. ASSUME NEW r \in Resources, NEW c \in Archives, Save(r, c) PROVE Uploaded'
  BY <1>1 DEF Save
<1>2. ASSUME NEW a \in Admins, NEW r \in Resources,
             \/ \E c \in Archives \cup {None} : ReadToUpdate(a, r, c)
             \/ ReadToDeploy(a, r) \/ ReadToDelete(a, r)
             \/ \E force \in BOOLEAN : RunTool(a, r, force)
      PROVE  Uploaded'
  BY <1>2 DEF ReadToUpdate, ReadToDeploy, ReadToDelete, RunTool
<1>3. ASSUME NEW a \in Admins, Step(a) PROVE Uploaded'
  BY <1>3 DEF Step, ClearToUpdate, FillToUpdate, FindToDeploy, Deploy, NameDeployment,
     Refill, Look, Remove, RemovalRefused, Unname, Erase, Dies
<1>4. ASSUME NEW d \in Ids, Start(d) \/ Finish(d) PROVE Uploaded'
  BY <1>4 DEF Start, Finish
<1>5. CASE UNCHANGED vars BY <1>5 DEF vars
<1> QED BY <1>1, <1>2, <1>3, <1>4, <1>5 DEF Next

\* The row of r names a deployment that is there.
Named(r) == row[r] # None /\ row[r].dep # None /\ engine[row[r].dep] # None

\* What users see of a sound resource depends only on whether its row exists,
\* on the archive uploaded last and on whether its deployment is there.
View ==
  \A r \in Resources : Sound(r) =>
    /\ row[r] # None => latest[r] \in Archives
    /\ ArchiveOf(r) = IF row[r] # None THEN latest[r] ELSE None
    /\ VersionOf(r) = IF Named(r) THEN latest[r] ELSE None

LEMMA ViewHolds == IInv /\ Uploaded => View
<1> SUFFICES ASSUME IInv, Uploaded, NEW r \in Resources, Sound(r)
             PROVE  /\ row[r] # None => latest[r] \in Archives
                    /\ ArchiveOf(r) = IF row[r] # None THEN latest[r] ELSE None
                    /\ VersionOf(r) = IF Named(r) THEN latest[r] ELSE None
  BY DEF View
<1>1. row[r] # None => latest[r] \in Archives BY DEF IInv, TypeOK, Uploaded
<1>2. ArchiveOf(r) = IF row[r] # None THEN latest[r] ELSE None
  BY DEF ArchiveOf, IInv, Bytes, BytesKept, Filler
<1>3. VersionOf(r) = IF Named(r) THEN latest[r] ELSE None
  BY DEF VersionOf, Named, Live, IInv, IdsAgree, Names, NamesKept
<1> QED BY <1>1, <1>2, <1>3

\* A step that leaves a resource's view alone.
Same(q) ==
  /\ row'[q] # None <=> row[q] # None
  /\ latest'[q] = latest[q]
  /\ Named(q)' <=> Named(q)
  /\ q \in torn' \cup crossed' <=> q \in torn \cup crossed

LEMMA SameView ==
  ASSUME View, View', NEW q \in Resources, Same(q)
  PROVE  ArchiveOf(q)' = ArchiveOf(q) /\ VersionOf(q)' = VersionOf(q)
<1>1. CASE Sound(q) BY <1>1 DEF View, Same, Sound
<1>2. CASE ~Sound(q)
  BY <1>2 DEF Same, Sound, ArchiveOf, VersionOf
<1> QED BY <1>1, <1>2

\* One resource changes its view at a time, in one of the abstract store's ways.
LEMMA AbstractStep ==
  ASSUME TypeOK, TypeOK', View, View', NEW r \in Resources,
         \A q \in Resources \ {r} : Same(q),
         \/ Same(r)
         \/ ~Sound(r)'
         \/ /\ Sound(r) /\ Sound(r)'
            /\ \/ row[r] = None /\ row'[r] # None /\ ~Named(r)'
               \/ /\ row[r] # None /\ row'[r] # None /\ ~Named(r)'
               \/ /\ row[r] # None /\ row'[r] # None /\ latest'[r] = latest[r] /\ ~Named(r)
               \/ row[r] # None /\ ~Named(r) /\ row'[r] = None
  PROVE  [Abstract!Next]_(Abstract!store)
<1> DEFINE A == [q \in Resources |-> ArchiveOf(q)]
           V == [q \in Resources |-> VersionOf(q)]
           B == torn \cup crossed
<1>1. \A q \in Resources \ {r} :
        /\ ArchiveOf(q)' = ArchiveOf(q) /\ VersionOf(q)' = VersionOf(q)
        /\ q \in B' <=> q \in B
  BY SameView DEF Same
<1>2. B \subseteq Resources /\ B' \subseteq Resources BY DEF TypeOK
<1>3. /\ A' = [A EXCEPT ![r] = ArchiveOf(r)']
      /\ V' = [V EXCEPT ![r] = VersionOf(r)']
  BY <1>1
<1>4. CASE Same(r)
  <2>1. ArchiveOf(r)' = ArchiveOf(r) /\ VersionOf(r)' = VersionOf(r) /\ B' = B
    BY <1>1, <1>2, <1>4, SameView DEF Same
  <2>2. A' = A /\ V' = V BY <1>1, <2>1
  <2> QED BY <2>1, <2>2 DEF Abstract!store
<1>5. CASE ~Sound(r)'
  <2>1. ArchiveOf(r)' = None /\ VersionOf(r)' = None
    BY <1>5 DEF ArchiveOf, VersionOf
  <2>2. B' = B \cup {r} BY <1>1, <1>2, <1>5 DEF Sound
  <2>3. Abstract!Break(r) BY <1>3, <2>1, <2>2 DEF Abstract!Break
  <2> QED BY <2>3 DEF Abstract!Next
<1>6. CASE Sound(r) /\ Sound(r)'
  <2>1. B' = B /\ r \notin B BY <1>1, <1>2, <1>6 DEF Sound
  <2>2. /\ row[r] # None => latest[r] \in Archives
        /\ ArchiveOf(r) = IF row[r] # None THEN latest[r] ELSE None
        /\ VersionOf(r) = IF Named(r) THEN latest[r] ELSE None
    BY <1>6 DEF View
  <2>3. /\ row'[r] # None => latest'[r] \in Archives
        /\ ArchiveOf(r)' = IF row'[r] # None THEN latest'[r] ELSE None
        /\ VersionOf(r)' = IF Named(r)' THEN latest'[r] ELSE None
    BY <1>6 DEF View
  <2>4. A[r] = ArchiveOf(r) /\ V[r] = VersionOf(r) OBVIOUS
  <2>5. None \notin Archives /\ (Named(r) => row[r] # None) BY BpmAssumption DEF Named
  <2>6. V' = V <=> VersionOf(r)' = VersionOf(r) BY <1>1, <2>4
  <2>7. A' = A <=> ArchiveOf(r)' = ArchiveOf(r) BY <1>1, <2>4
  <2> HIDE DEF A, V, B
  <2>8. CASE row[r] = None /\ row'[r] # None /\ ~Named(r)'
    <3>1. A[r] = None /\ A' = [A EXCEPT ![r] = latest'[r]] /\ V' = V /\ latest'[r] \in Archives
      BY <1>3, <2>2, <2>3, <2>4, <2>5, <2>6, <2>8
    <3>2. Abstract!Create(r, latest'[r])
      BY <2>1, <3>1 DEF Abstract!Create, A, V, B
    <3> QED BY <3>1, <3>2 DEF Abstract!Next
  <2>9. CASE row[r] # None /\ row'[r] # None /\ ~Named(r)'
    <3>1. /\ A[r] # None /\ A' = [A EXCEPT ![r] = latest'[r]]
          /\ V' = [V EXCEPT ![r] = None] /\ latest'[r] \in Archives
      BY <1>3, <2>2, <2>3, <2>4, <2>5, <2>9
    <3>2. Abstract!Upload(r, latest'[r])
      BY <2>1, <3>1 DEF Abstract!Upload, A, V, B
    <3> QED BY <3>1, <3>2 DEF Abstract!Next
  <2>10. CASE row[r] # None /\ row'[r] # None /\ latest'[r] = latest[r] /\ ~Named(r)
    <3>1. A' = A /\ A[r] # None /\ V[r] = None
      BY <2>2, <2>3, <2>4, <2>5, <2>7, <2>10
    <3>2. CASE Named(r)'
      <4>1. V' = [V EXCEPT ![r] = A[r]] BY <1>3, <2>2, <2>3, <2>4, <2>10, <3>2
      <4>2. Abstract!Deploy(r) BY <2>1, <3>1, <4>1 DEF Abstract!Deploy, A, V, B
      <4> QED BY <4>2 DEF Abstract!Next
    <3>3. CASE ~Named(r)'
      <4>1. V' = V BY <2>2, <2>3, <2>6, <2>10, <3>3
      <4> QED BY <2>1, <3>1, <4>1 DEF Abstract!store, A, V, B
    <3> QED BY <3>2, <3>3
  <2>11. CASE row[r] # None /\ ~Named(r) /\ row'[r] = None
    <3>1. /\ A[r] # None /\ V[r] = None /\ V' = V /\ A' = [A EXCEPT ![r] = None]
      BY <1>3, <2>2, <2>3, <2>4, <2>5, <2>6, <2>11 DEF Named
    <3>2. Abstract!Delete(r) BY <2>1, <3>1 DEF Abstract!Delete, A, V, B
    <3> QED BY <3>2 DEF Abstract!Next
  <2> QED BY <1>4, <1>5, <1>6, <2>8, <2>9, <2>10, <2>11
<1> QED BY <1>4, <1>5, <1>6

\* What a step may do to one resource, all others being left alone.
OneMoves(r) ==
  /\ \A q \in Resources \ {r} : Same(q)
  /\ \/ Same(r)
     \/ ~Sound(r)'
     \/ /\ Sound(r) /\ Sound(r)'
        /\ \/ row[r] = None /\ row'[r] # None /\ ~Named(r)'
           \/ /\ row[r] # None /\ row'[r] # None /\ ~Named(r)'
           \/ /\ row[r] # None /\ row'[r] # None /\ latest'[r] = latest[r] /\ ~Named(r)
           \/ row[r] # None /\ ~Named(r) /\ row'[r] = None

\* A write of a row that leaves the engine alone: it breaks the resource when it
\* is stale, and otherwise finds the row.
LEMMA StoreMoves ==
  ASSUME TypeOK, NEW a \in Admins, NEW r \in Resources, on[a] = r, snap[a] # None,
         NEW dep \in Ids \cup {None}, NEW content \in Archives \cup {None},
         Store(a, dep, content), engine' = engine, torn' = torn,
         \A q \in Resources \ {r} : latest'[q] = latest[q],
         a \notin stale /\ Sound(r)' =>
           /\ Found(a)
           /\ \/ dep = None
              \/ dep = row[r].dep /\ latest' = latest
              \/ ~Named(r) /\ latest' = latest
  PROVE  OneMoves(r)
<1>1. \A q \in Resources \ {r} : Same(q)
  <2> SUFFICES ASSUME NEW q \in Resources \ {r} PROVE Same(q) OBVIOUS
  <2>1. row'[q] = row[q] BY DEF Store, TypeOK
  <2>2. q \in torn' \cup crossed' <=> q \in torn \cup crossed BY DEF Store
  <2> QED BY <2>1, <2>2 DEF Same, Named
<1>2. CASE a \in stale BY <1>1, <1>2 DEF Store, OneMoves, Sound
<1>3. CASE a \notin stale /\ Sound(r)'
  <2>1. Sound(r) BY <1>3 DEF Sound, Store
  <2>2. Found(a) BY <1>3
  <2>3. snap[a].oid \in Oids BY DEF TypeOK, Rows
  <2>4. [oid |-> snap[a].oid, dep |-> dep, content |-> content] \in Rows
    BY <2>3 DEF Rows
  <2>5. /\ row[r] # None /\ row'[r] # None /\ row'[r].dep = dep
    BY <2>2, <2>4, BpmAssumption DEF Found, Store, TypeOK, BpmAssumption
  <2>6. CASE dep = None BY <1>1, <1>3, <2>1, <2>5, <2>6 DEF OneMoves, Named
  <2>7. CASE dep = row[r].dep /\ latest' = latest
    <3>1. Same(r) BY <1>3, <2>1, <2>5, <2>7 DEF Same, Named, Sound
    <3> QED BY <1>1, <3>1 DEF OneMoves
  <2>8. CASE ~Named(r) /\ latest' = latest
    BY <1>1, <1>3, <2>1, <2>5, <2>8 DEF OneMoves
  <2> QED BY <1>3, <2>6, <2>7, <2>8
<1>4. CASE ~Sound(r)' BY <1>1, <1>4 DEF OneMoves
<1> QED BY <1>2, <1>3, <1>4

\* A step that leaves rows, engine, archives and marks alone moves nothing.
LEMMA NothingMoves ==
  ASSUME UNCHANGED <<row, engine, latest, torn, crossed>>, NEW r \in Resources
  PROVE  Same(r)
BY DEF Same, Named

\* Every step of a call moves the resource the call is on, in one of the ways of
\* the abstract store.
LEMMA CallMoves ==
  ASSUME IInv, IInv', NEW a \in Admins, Step(a), NEW r \in Resources, on[a] = r
  PROVE  OneMoves(r)
<1> USE DEF To, calls, counters
<1>0. TypeOK /\ IdsAgree /\ Fresh BY DEF IInv
<1>1. CASE ClearToUpdate(a)
  <2>1. snap[a] # None /\ snap[a].dep \in Ids \cup {None}
    BY <1>0, <1>1 DEF ClearToUpdate, TypeOK, Rows
  <2>2. a \notin stale => row[r] = snap[a]
    BY <1>0, <1>1 DEF ClearToUpdate, Fresh, RowKnown
  <2> QED BY <1>0, <1>1, <2>1, <2>2, StoreMoves DEF ClearToUpdate, Found
<1>2. CASE FillToUpdate(a)
  <2>1. snap[a] # None /\ Filled(a) \in Archives \cup {None}
    BY <1>0, <1>2 DEF FillToUpdate, Filled, TypeOK, Rows
  <2>2. a \notin stale => Found(a)
    BY <1>0, <1>2 DEF FillToUpdate, Fresh, RowKnown, Found
  <2>3. \A q \in Resources \ {r} : latest'[q] = latest[q]
    BY <1>0, <1>2 DEF FillToUpdate, TypeOK
  <2> QED BY <1>0, <1>2, <2>1, <2>2, <2>3, StoreMoves DEF FillToUpdate
<1>3. CASE NameDeployment(a)
  <2>1. snap[a] # None /\ snap[a].dep \in Ids \cup {None}
    BY <1>0, <1>3 DEF NameDeployment, TypeOK, Rows
  <2>2. a \notin stale => Found(a) /\ ~Named(r)
    BY <1>0, <1>3 DEF NameDeployment, Fresh, RowKnown, Found, Named
  <2> QED BY <1>0, <1>3, <2>1, <2>2, StoreMoves DEF NameDeployment
<1>4. CASE Refill(a)
  <2>1. /\ snap[a] # None /\ snap[a].dep \in Ids \cup {None}
        /\ snap[a].content \in Archives \cup {None}
    BY <1>0, <1>4 DEF Refill, TypeOK, Rows
  <2>2. a \notin stale => Found(a) /\ row[r].dep = snap[a].dep
    BY <1>0, <1>4 DEF Refill, Fresh, RowKnown, Found
  <2> QED BY <1>0, <1>4, <2>1, <2>2, StoreMoves DEF Refill
<1>5. CASE Unname(a)
  <2>1. snap[a] # None /\ snap[a].content \in Archives \cup {None}
    BY <1>0, <1>5 DEF Unname, TypeOK, Rows
  <2>2. a \notin stale => Found(a)
    BY <1>0, <1>5, <2>1 DEF Unname, Fresh, RowKnown, Found
  <2> QED BY <1>0, <1>5, <2>1, <2>2, StoreMoves DEF Unname
<1>6. CASE Deploy(a)
  <2>1. made + 1 \in Ids /\ made \in Nat
    BY <1>0, <1>6, BpmAssumption DEF Deploy, TypeOK, Ids, BpmAssumption
  <2>2. \A q \in Resources : row[q] # None /\ row[q].dep # None =>
          row[q].dep \in Ids /\ row[q].dep # made + 1
    BY <1>0, <2>1 DEF IdsAgree, TypeOK, Rows, Ids
  <2>3. \A q \in Resources : Same(q)
    BY <1>0, <1>6, <2>2 DEF Deploy, Same, Named, TypeOK
  <2> QED BY <1>0, <2>3 DEF OneMoves
<1>7. CASE Remove(a)
  <2>1. /\ snap[a].dep \in Ids /\ engine' = [engine EXCEPT ![snap[a].dep] = None]
        /\ UNCHANGED <<row, latest, torn, crossed>>
    BY <1>0, <1>7 DEF Remove, TypeOK, Rows
  <2>2. engine[snap[a].dep] # None => engine[snap[a].dep].of = r
    BY <1>0, <1>7, <2>1, BpmAssumption DEF Remove, IdsAgree, BpmAssumption
  <2>3. \A q \in Resources : Named(q)' => Named(q)
    BY <1>0, <2>1 DEF Named, TypeOK, Rows
  <2>4. \A q \in Resources \ {r} : Named(q) => Named(q)'
    BY <1>0, <2>1, <2>2 DEF Named, TypeOK, Rows, IdsAgree
  <2>5. \A q \in Resources \ {r} : Same(q) BY <2>1, <2>3, <2>4 DEF Same
  <2>6. CASE Named(r)' <=> Named(r) BY <2>1, <2>5, <2>6 DEF Same, OneMoves
  <2>7. CASE ~Named(r)' /\ Named(r)
    BY <2>1, <2>5, <2>7 DEF OneMoves, Named, Sound
  <2> QED BY <2>3, <2>6, <2>7
<1>8. CASE Erase(a)
  <2>1. \A q \in Resources \ {r} : Same(q)
    BY <1>0, <1>8 DEF Erase, Same, Named, TypeOK
  <2>2. CASE row' = row
    BY <1>8, <2>1, <2>2 DEF Erase, Same, Named, OneMoves, Sound
  <2>3. CASE a \in stale
    BY <1>8, <2>1, <2>3 DEF Erase, OneMoves, Sound
  <2>4. CASE row' # row /\ a \notin stale
    <3>1. row[r] # None /\ row'[r] = None /\ crossed' = crossed /\ torn' = torn
      BY <1>0, <1>8, <2>4 DEF Erase, TypeOK
    <3>2. ~Named(r) BY <1>0, <1>8, <2>4, <3>1 DEF Erase, Fresh, RowKnown, Named
    <3> QED BY <2>1, <3>1, <3>2 DEF OneMoves, Sound
  <2> QED BY <2>2, <2>3, <2>4
<1>9. CASE Dies(a)
  BY <1>0, <1>9 DEF Dies, OneMoves, Same, Named, Sound
<1>10. CASE FindToDeploy(a) \/ Look(a) \/ RemovalRefused(a)
  BY <1>0, <1>10, NothingMoves DEF FindToDeploy, Look, RemovalRefused, OneMoves
<1> QED
  BY <1>1, <1>2, <1>3, <1>4, <1>5, <1>6, <1>7, <1>8, <1>9, <1>10 DEF Step

\* Every step is a step of the abstract store or leaves it alone.
LEMMA StoreStep ==
  ASSUME IInv, IInv', View, View', [Next]_vars
  PROVE  [Abstract!Next]_(Abstract!store)
<1> USE DEF calls, counters
<1>0. TypeOK /\ TypeOK' BY DEF IInv
<1>1. ASSUME NEW a \in Admins, Step(a) PROVE [Abstract!Next]_(Abstract!store)
  <2>1. on[a] \in Resources
    <3>1. pc[a] # "idle"
      BY <1>1 DEF Step, ClearToUpdate, FillToUpdate, FindToDeploy, Deploy, NameDeployment,
         Refill, Look, Remove, RemovalRefused, Unname, Erase, Dies
    <3> QED BY <1>0, <3>1 DEF TypeOK
  <2>2. PICK r \in Resources : on[a] = r BY <2>1
  <2>3. OneMoves(r) BY <1>1, <2>2, CallMoves
  <2> QED BY <1>0, <2>3, AbstractStep DEF OneMoves
<1>2. ASSUME NEW r \in Resources, NEW c \in Archives, Save(r, c)
      PROVE  [Abstract!Next]_(Abstract!store)
  <2>1. \A q \in Resources \ {r} : Same(q)
    BY <1>0, <1>2 DEF Save, Same, Named, TypeOK
  <2>2. row[r] = None /\ row'[r] # None /\ row'[r].dep = None
    <3>1. [oid |-> saved + 1, dep |-> None, content |-> c] \in Rows
      BY <1>0, <1>2, BpmAssumption DEF Save, Rows, Oids, TypeOK, BpmAssumption
    <3> QED BY <1>0, <1>2, <3>1, BpmAssumption DEF Save, TypeOK, BpmAssumption
  <2>3. OneMoves(r)
    BY <1>2, <2>1, <2>2 DEF Save, OneMoves, Named, Sound
  <2> QED BY <1>0, <2>3, AbstractStep DEF OneMoves
<1>3. CASE UNCHANGED <<row, engine, latest, torn, crossed>>
  <2>1. \A q \in Resources : ArchiveOf(q)' = ArchiveOf(q) /\ VersionOf(q)' = VersionOf(q)
    BY <1>3, NothingMoves, SameView
  <2> QED BY <1>3, <2>1 DEF Abstract!store
<1>4. ASSUME NEW a \in Admins, NEW r \in Resources,
             \/ \E c \in Archives \cup {None} : ReadToUpdate(a, r, c)
             \/ ReadToDeploy(a, r) \/ ReadToDelete(a, r)
             \/ \E force \in BOOLEAN : RunTool(a, r, force)
      PROVE  UNCHANGED <<row, engine, latest, torn, crossed>>
  BY <1>4 DEF ReadToUpdate, ReadToDeploy, ReadToDelete, RunTool
<1>5. ASSUME NEW d \in Ids, Start(d) \/ Finish(d)
      PROVE  UNCHANGED <<row, engine, latest, torn, crossed>>
  BY <1>5 DEF Start, Finish
<1>6. CASE UNCHANGED vars BY <1>3, <1>6 DEF vars
<1> QED BY <1>1, <1>2, <1>3, <1>4, <1>5, <1>6 DEF Next

\* Seen through their rows, the calls of several steps implement the store in
\* which every call is one step: whatever is interleaved, an upload, a
\* deployment, a removal and a deletion of a sound resource each happen at one
\* instant, or not at all.
THEOREM CallsImplementStore == Spec => ImplementsStore
<1>1. Init => Abstract!Init
  BY DEF Init, Abstract!Init, ArchiveOf, VersionOf
<1>2. Init => Uploaded BY DEF Init, Uploaded
<1>3. TypeOK /\ Uploaded /\ [Next]_vars => Uploaded' BY UploadedStep
<1>4. IInv /\ Uploaded => View BY ViewHolds
<1>5. IInv /\ IInv' /\ View /\ View' /\ [Next]_vars => [Abstract!Next]_(Abstract!store)
  BY StoreStep
<1> QED
  BY <1>1, <1>2, <1>3, <1>4, <1>5, TypeCorrect, Invariant, PTL
  DEF Spec, ImplementsStore, Abstract!Spec
=============================================================================
