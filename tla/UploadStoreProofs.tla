-------------------------- MODULE UploadStoreProofs --------------------------
(***************************************************************************)
(* Proofs about UploadStore, for any uploads, cleaners and movers.         *)
(***************************************************************************)
EXTENDS UploadStore, TLAPS

\* How far an upload's creation is, as told by its row, its files and its holders;
\* a mover that moves a file has found it.
Phases ==
  /\ \A u \in Uploads : row[u] # NoRow => create[u] = "done"
  /\ \A u \in Uploads : u \in InRow \/ create[u] = "no" => file[u] = {}
  /\ \A u \in Uploads : create[u] = "saving" =>
       u \in Filed /\ \E type \in Types : file[u] = {type}
  /\ \A u \in Uploads, c \in Cleaners : CleanedBy(c, u) => create[u] = "done"
  /\ \A u \in Uploads, p \in Movers : MovedBy(p, u) => create[u] = "done"
  /\ \A u \in Uploads, p \in Movers :
       MovedBy(p, u) /\ mover[p].pc \in {"move", "drop"} => u \notin astray

\* The cleaner that took the file is the only one that deletes the row.
Deletions ==
  /\ DeleteMeetsRow
  /\ \A c \in Cleaners : \A u \in cleaner[c].cur \ contested : "tmp" \notin file[u]
  /\ \A c \in Cleaners : \A u \in cleaner[c].todo \ contested :
       "tmp" \in file[u] => row[u] # NoRow
  /\ \A c, d \in Cleaners : \A u \in (cleaner[c].cur \cap cleaner[d].cur) \ contested : c = d

\* An upload that two threads never met at has one mover or only cleaners.
Apart ==
  \A u \in Filed \ contested :
    /\ \A p, q \in Movers : MovedBy(p, u) /\ MovedBy(q, u) => p = q
    /\ \A c \in Cleaners : CleanedBy(c, u) =>
         /\ row[u] \in {"tmp", NoRow}
         /\ \A p \in Movers : ~MovedBy(p, u)

\* An upload of which nothing special is known.
Quiet(u) == u \in Filed /\ u \notin contested \cup torn \cup astray

\* Where a mover's files are, and what it has made of the row.
Places(p) ==
  LET u == mover[p].u
      from == mover[p].from
      to == mover[p].to IN
  /\ row[u] = IF mover[p].pc = "retype" THEN from ELSE to
  /\ file[u] = IF mover[p].pc = "drop" THEN {from, to} ELSE {from}
  /\ mover[p].pc \in {"move", "drop"} => from # to

\* The row of u leads to its only file, unless somebody holds u; who does knows
\* where its files are.
KnownAt(u) ==
  /\ row[u] = NoRow => create[u] = "saving" \/ file[u] = {}
  /\ row[u] # NoRow =>
       \/ file[u] = {row[u]}
       \/ \E p \in Movers : MovedBy(p, u)
       \/ \E c \in Cleaners : u \in cleaner[c].cur
  /\ \A c \in Cleaners : u \in cleaner[c].cur => file[u] = {}
  /\ \A p \in Movers : MovedBy(p, u) => Places(p)

Known == \A u \in Filed : Quiet(u) => KnownAt(u)

Basic == TypeOK /\ Phases
IInv == Deletions /\ Apart /\ Known

\* Before the first upload.
LEMMA BasicInit == Init => Basic
<1> SUFFICES ASSUME Init PROVE TypeOK /\ Phases BY DEF Basic
<1>1. TypeOK
  BY DEF Init, TypeOK, Filed, IdleCleaner, IdleMover, Call
<1>2. Phases
  BY DEF Init, Phases, IdleCleaner, IdleMover, CleanedBy, MovedBy
<1> QED BY <1>1, <1>2

\* A mover's record can be told from the others by its stage.
LEMMA MoverTypes ==
  ASSUME TypeOK, NEW p \in Movers
  PROVE /\ mover[p].pc \in {"idle", "retype", "check", "move", "drop"}
        /\ mover[p].pc # "idle" => mover[p] \in Call
        /\ mover[p].pc = "idle" => mover[p] = IdleMover
BY DEF TypeOK, Call, IdleMover

\* What a step of updateType at the file leaves alone.
LEMMA MoveFileSteps ==
  ASSUME TypeOK, NEW p \in Movers, MoveFile(p)
  PROVE  /\ UNCHANGED <<row, astray, create, cleaner, faults, torn, contested>>
         /\ mover[p] \in Call /\ mover[p].pc \in {"check", "move", "drop"}
         /\ mover' \in [Movers -> Call \cup {IdleMover}]
         /\ \A q \in Movers \ {p} : mover'[q] = mover[q]
         /\ \/ mover'[p] = IdleMover
            \/ /\ mover'[p].u = mover[p].u /\ mover'[p].from = mover[p].from
               /\ mover'[p].to = mover[p].to
               /\ mover'[p].pc \in {"move", "drop"} /\ FromThere(p)
         /\ file' \in [Uploads -> SUBSET Types]
         /\ \A u \in Uploads \ {mover[p].u} : file'[u] = file[u]
         /\ file[mover[p].u] = {} => file' = file
<1> USE DEF TypeOK
<1>1. UNCHANGED <<row, astray, create, cleaner, faults, torn, contested>>
  BY DEF MoveFile, CheckPaths, Rename, CopyFile, LengthsDiffer, DropSource
<1>2. mover[p] \in Call /\ mover[p].pc \in {"check", "move", "drop"}
  BY MoverTypes DEF MoveFile, CheckPaths, Rename, CopyFile, LengthsDiffer, DropSource
<1>3. \/ mover' = [mover EXCEPT ![p] = IdleMover]
      \/ FromThere(p) /\ \E pc \in {"move", "drop"} : mover' = [mover EXCEPT ![p].pc = pc]
  BY DEF MoveFile, CheckPaths, Rename, CopyFile, LengthsDiffer, DropSource, Goto, Return
<1>4. \A pc \in {"move", "drop"} : [mover[p] EXCEPT !.pc = pc] \in Call
  BY <1>2 DEF Call
<1>5. /\ mover' \in [Movers -> Call \cup {IdleMover}]
      /\ \A q \in Movers \ {p} : mover'[q] = mover[q]
  BY <1>3, <1>4
<1>6. \/ mover'[p] = IdleMover
      \/ /\ mover'[p].u = mover[p].u /\ mover'[p].from = mover[p].from
         /\ mover'[p].to = mover[p].to
         /\ mover'[p].pc \in {"move", "drop"} /\ FromThere(p)
  BY <1>2, <1>3 DEF Call
<1>7. mover[p].u \in Uploads /\ mover[p].from \in Types /\ mover[p].to \in Types
  BY <1>2 DEF Call
<1>8. \E files \in SUBSET Types :
        /\ file' = [file EXCEPT ![mover[p].u] = files]
        /\ file[mover[p].u] = {} => files = {}
  <2>1. CASE CheckPaths(p) \/ LengthsDiffer(p)
    <3>1. file' = [file EXCEPT ![mover[p].u] = file[mover[p].u]]
      BY <2>1 DEF CheckPaths, LengthsDiffer
    <3> QED BY <3>1, <1>7
  <2>2. CASE Rename(p)
    <3> DEFINE files == (file[mover[p].u] \ {mover[p].from}) \cup {mover[p].to}
    <3>1. file' = [file EXCEPT ![mover[p].u] = files] BY <2>2 DEF Rename
    <3>2. files \in SUBSET Types BY <1>7
    <3>3. file[mover[p].u] # {} BY <2>2 DEF Rename, FromThere, At
    <3> QED BY <3>1, <3>2, <3>3
  <2>3. CASE CopyFile(p)
    <3>1. CASE FromThere(p)
      <4> DEFINE files == file[mover[p].u] \cup {mover[p].to}
      <4>1. file' = [file EXCEPT ![mover[p].u] = files] BY <2>3, <3>1 DEF CopyFile
      <4>2. files \in SUBSET Types BY <1>7
      <4>3. file[mover[p].u] # {} BY <3>1 DEF FromThere, At
      <4> QED BY <4>1, <4>2, <4>3
    <3>2. CASE ~FromThere(p)
      <4>1. file' = [file EXCEPT ![mover[p].u] = file[mover[p].u]] BY <2>3, <3>2 DEF CopyFile
      <4> QED BY <4>1, <1>7
    <3> QED BY <3>1, <3>2
  <2>4. CASE DropSource(p)
    <3> DEFINE files == file[mover[p].u] \ {IF FromThere(p) THEN mover[p].from ELSE mover[p].to}
    <3>1. file' = [file EXCEPT ![mover[p].u] = files] BY <2>4 DEF DropSource
    <3>2. files \in SUBSET Types BY <1>7
    <3> QED BY <3>1, <3>2
  <2> QED BY <2>1, <2>2, <2>3, <2>4 DEF MoveFile
<1>9. PICK files \in SUBSET Types :
        /\ file' = [file EXCEPT ![mover[p].u] = files]
        /\ file[mover[p].u] = {} => files = {}
  BY <1>8
<1>10. /\ file' \in [Uploads -> SUBSET Types]
       /\ \A u \in Uploads \ {mover[p].u} : file'[u] = file[u]
  BY <1>7, <1>9
<1>11. ASSUME file[mover[p].u] = {} PROVE file' = file
  BY <1>7, <1>9, <1>11
<1> QED BY <1>1, <1>2, <1>5, <1>6, <1>10, <1>11

\* Every step keeps the domains and the phases.
LEMMA BasicNext == Basic /\ [Next]_vars => Basic'
<1> USE DEF Basic, TypeOK, Phases, Filed
<1> SUFFICES ASSUME Basic, [Next]_vars PROVE Basic' OBVIOUS
<1>1. ASSUME NEW u \in Uploads, NEW type \in Types, WriteFile(u, type) PROVE Basic'
  BY <1>1, ConstantsAssumption DEF WriteFile, CleanedBy, MovedBy, ConstantsAssumption
<1>2. ASSUME NEW u \in Uploads, NEW type \in Types, CreateInRow(u, type) PROVE Basic'
  BY <1>2, ConstantsAssumption DEF CreateInRow, CleanedBy, MovedBy, NoRow, ConstantsAssumption
<1>3. ASSUME NEW u \in Uploads, SaveRow(u) PROVE Basic'
  <2>1. PICK type \in Types : row' = [row EXCEPT ![u] = type] BY <1>3 DEF SaveRow
  <2>2. /\ create' = [create EXCEPT ![u] = "done"]
        /\ UNCHANGED <<file, astray, cleaner, mover, faults, torn, contested>>
    BY <1>3 DEF SaveRow
  <2>3. TypeOK' BY <2>1, <2>2
  <2>4. Phases' BY <2>1, <2>2 DEF CleanedBy, MovedBy
  <2> QED BY <2>3, <2>4
<1>4. ASSUME NEW u \in Uploads, SaveRowFails(u) PROVE Basic'
  BY <1>4 DEF SaveRowFails, Fault, CleanedBy, MovedBy
<1>5. ASSUME NEW c \in Cleaners, DeleteTmpContent(c) PROVE Basic'
  BY <1>5 DEF DeleteTmpContent, CleanedBy, MovedBy
<1>6. ASSUME NEW c \in Cleaners, List(c) PROVE Basic'
  BY <1>6 DEF List, CleanedBy, MovedBy, NoRow
<1>7. ASSUME NEW c \in Cleaners, NEW u \in Uploads, Skip(c, u) PROVE Basic'
  BY <1>7 DEF Skip, CleanedBy, MovedBy
<1>8. ASSUME NEW c \in Cleaners, NEW u \in Uploads, DeleteFile(c, u) PROVE Basic'
  BY <1>8 DEF DeleteFile, At, CleanedBy, MovedBy
<1>9. ASSUME NEW c \in Cleaners, NEW u \in Uploads, CannotDelete(c, u) PROVE Basic'
  <2>1. /\ cleaner' \in [Cleaners -> [pc : {"idle", "list", "pick", "row"},
                                     todo : SUBSET Filed, cur : SUBSET Filed]]
        /\ \A d \in Cleaners :
             cleaner'[d].pc = cleaner[d].pc /\ cleaner'[d].cur = cleaner[d].cur
    BY <1>9 DEF CannotDelete
  <2>2. TypeOK'
    <3>1. faults' \in Nat BY <1>9 DEF CannotDelete, Fault
    <3>2. \A d \in Cleaners :
            IF cleaner'[d].pc = "row" THEN \E v \in Filed : cleaner'[d].cur = {v}
                                      ELSE cleaner'[d].cur = {}
      BY <2>1
    <3>3. UNCHANGED <<row, file, astray, create, mover, torn, contested>>
      BY <1>9 DEF CannotDelete
    <3> QED BY <2>1, <3>1, <3>2, <3>3
  <2>3. Phases' BY <1>9 DEF CannotDelete, CleanedBy, MovedBy
  <2> QED BY <2>2, <2>3
<1>10. ASSUME NEW c \in Cleaners, DeleteRow(c) PROVE Basic'
  <2>1. PICK u \in Filed : cleaner[c].cur = {u} BY <1>10 DEF DeleteRow
  <2>2. /\ cleaner' \in [Cleaners -> [pc : {"idle", "list", "pick", "row"},
                                     todo : SUBSET Filed, cur : SUBSET Filed]]
        /\ cleaner'[c].pc # "row" /\ cleaner'[c].cur = {}
        /\ cleaner'[c].todo \subseteq cleaner[c].todo
        /\ \A d \in Cleaners \ {c} : cleaner'[d] = cleaner[d]
    <3>1. \/ cleaner' = [cleaner EXCEPT ![c] = [pc |-> "idle", todo |-> {}, cur |-> {}]]
          \/ cleaner' = [cleaner EXCEPT ![c] =
               [pc |-> "pick", todo |-> cleaner[c].todo, cur |-> {}]]
      BY <1>10 DEF DeleteRow, IdleCleaner
    <3> QED BY <3>1
  <2>3. TypeOK' BY <2>1, <2>2, <1>10 DEF DeleteRow
  <2>4. Phases' BY <2>1, <2>2, <1>10 DEF DeleteRow, CleanedBy, MovedBy
  <2> QED BY <2>3, <2>4
<1>11. ASSUME NEW c \in Cleaners, EndPass(c) PROVE Basic'
  BY <1>11 DEF EndPass, CleanedBy, MovedBy, IdleCleaner
<1>12. ASSUME NEW c \in Cleaners, CleanerDies(c) PROVE Basic'
  BY <1>12 DEF CleanerDies, Fault, CleanedBy, MovedBy, IdleCleaner
<1>13. ASSUME NEW p \in Movers, NEW u \in Uploads, NEW type \in Types, ReadRow(p, u, type)
       PROVE Basic'
  BY <1>13 DEF ReadRow, CleanedBy, MovedBy, Call
<1>14. ASSUME NEW p \in Movers, Retype(p) PROVE Basic'
  BY <1>14, MoverTypes DEF Retype, CleanedBy, MovedBy, Call, IdleMover
<1>15. ASSUME NEW p \in Movers, MoveFile(p) PROVE Basic'
  <2>1. \A q \in Movers, u \in Uploads : MovedBy(q, u)' => MovedBy(q, u)
    BY <1>15, MoveFileSteps DEF MovedBy, IdleMover
  <2>2. TypeOK' BY <1>15, MoveFileSteps
  <2>3. mover[p].u \in Uploads /\ create[mover[p].u] = "done"
    BY <1>15, MoveFileSteps DEF MovedBy, Call
  <2>4. \A u \in Uploads, q \in Movers :
          MovedBy(q, u)' /\ mover'[q].pc \in {"move", "drop"} => u \notin astray
    BY <1>15, MoveFileSteps DEF MovedBy, IdleMover, FromThere, At
  <2>5. \A u \in Uploads : file[u] = {} => file'[u] = {}
    BY <1>15, MoveFileSteps
  <2>6. \A u \in Uploads : create[u] = "saving" => file'[u] = file[u]
    BY <1>15, <2>3, MoveFileSteps
  <2>7. Phases'
    BY <1>15, <2>1, <2>4, <2>5, <2>6, MoveFileSteps DEF CleanedBy
  <2> QED BY <2>2, <2>7
<1>16. ASSUME NEW p \in Movers, MoverDies(p) PROVE Basic'
  <2>1. mover[p] \in Call BY <1>16, MoverTypes DEF MoverDies
  <2>2. /\ mover' \in [Movers -> Call \cup {IdleMover}]
        /\ \A q \in Movers, u \in Uploads : MovedBy(q, u)' => MovedBy(q, u)
    BY <1>16 DEF MoverDies, MovedBy, IdleMover
  <2>3. \A q \in Movers : mover'[q].pc \in {"move", "drop"} => mover'[q] = mover[q]
    BY <1>16 DEF MoverDies, IdleMover
  <2>4. TypeOK' BY <2>1, <2>2, <1>16 DEF MoverDies, Fault, Call
  <2>5. UNCHANGED <<row, file, astray, create, cleaner>> BY <1>16 DEF MoverDies
  <2>6. Phases' BY <2>2, <2>3, <2>5 DEF CleanedBy, MovedBy
  <2> QED BY <2>4, <2>6
<1>17. CASE UNCHANGED vars BY <1>17 DEF vars, CleanedBy, MovedBy
<1> QED
  BY <1>1, <1>2, <1>3, <1>4, <1>5, <1>6, <1>7, <1>8, <1>9, <1>10, <1>11, <1>12, <1>13,
     <1>14, <1>15, <1>16, <1>17 DEF Next, CleanStep

\* Rows, files, cleaners and movers keep their domains.
THEOREM TypeCorrect == Spec => []TypeOK
<1>1. Spec => []Basic BY BasicInit, BasicNext, PTL DEF Spec
<1> QED BY <1>1, PTL DEF Basic
-----------------------------------------------------------------------------
\* No step takes a row from a cleaner, but at a contested upload.
LEMMA DeletionsNext == Basic /\ Apart /\ Deletions /\ [Next]_vars => Deletions'
<1> USE DEF Basic, TypeOK, Filed, Deletions, DeleteMeetsRow
<1> SUFFICES ASSUME Basic, Apart, Deletions, [Next]_vars PROVE Deletions' OBVIOUS
<1>1. ASSUME NEW u \in Uploads, NEW type \in Types, WriteFile(u, type) PROVE Deletions'
  BY <1>1 DEF WriteFile, Phases, CleanedBy
<1>2. ASSUME NEW u \in Uploads, NEW type \in Types, CreateInRow(u, type) PROVE Deletions'
  BY <1>2, ConstantsAssumption DEF CreateInRow, Phases, NoRow, ConstantsAssumption
<1>3. ASSUME NEW u \in Uploads, SaveRow(u) PROVE Deletions'
  BY <1>3, ConstantsAssumption DEF SaveRow, Phases, CleanedBy, NoRow, ConstantsAssumption
<1>4. ASSUME NEW u \in Uploads, SaveRowFails(u) PROVE Deletions'
  BY <1>4 DEF SaveRowFails, Fault
<1>5. ASSUME NEW c \in Cleaners, DeleteTmpContent(c) PROVE Deletions'
  <2>1. /\ \A d \in Cleaners :
             cleaner'[d].cur = cleaner[d].cur /\ cleaner'[d].todo = cleaner[d].todo
        /\ \A u \in Filed : row'[u] = row[u]
    BY <1>5 DEF DeleteTmpContent
  <2> QED BY <2>1, <1>5 DEF DeleteTmpContent
<1>6. ASSUME NEW c \in Cleaners, List(c) PROVE Deletions'
  BY <1>6 DEF List, NoRow
<1>7. ASSUME NEW c \in Cleaners, NEW u \in Uploads, Skip(c, u) PROVE Deletions'
  <2>1. \A d \in Cleaners :
          cleaner'[d].cur = cleaner[d].cur /\ cleaner'[d].todo \subseteq cleaner[d].todo
    BY <1>7 DEF Skip
  <2> QED BY <2>1, <1>7 DEF Skip
<1>8. ASSUME NEW c \in Cleaners, NEW u \in Uploads, DeleteFile(c, u) PROVE Deletions'
  <2>1. /\ cleaner'[c].cur = {u} /\ "tmp" \notin file'[u]
        /\ \A d \in Cleaners \ {c} : cleaner'[d].cur = cleaner[d].cur
        /\ \A x \in Uploads \ {u} : file'[x] = file[x]
        /\ "tmp" \in file[u] /\ u \in cleaner[c].todo
    BY <1>8 DEF DeleteFile, At
  <2>2. \A d \in Cleaners : cleaner'[d].todo \subseteq cleaner[d].todo BY <1>8 DEF DeleteFile
  <2>3. u \notin contested => row[u] # NoRow /\ \A d \in Cleaners : u \notin cleaner[d].cur
    BY <2>1
  <2>4. row' = row /\ contested' = contested BY <1>8 DEF DeleteFile
  <2> QED BY <2>1, <2>2, <2>3, <2>4
<1>9. ASSUME NEW c \in Cleaners, NEW u \in Uploads, CannotDelete(c, u) PROVE Deletions'
  <2>1. \A d \in Cleaners :
          cleaner'[d].cur = cleaner[d].cur /\ cleaner'[d].todo \subseteq cleaner[d].todo
    BY <1>9 DEF CannotDelete
  <2> QED BY <2>1, <1>9 DEF CannotDelete
<1>10. ASSUME NEW c \in Cleaners, DeleteRow(c) PROVE Deletions'
  <2>1. PICK u \in Filed : cleaner[c].cur = {u} BY <1>10 DEF DeleteRow
  <2>2. /\ cleaner'[c].cur = {} /\ cleaner'[c].todo \subseteq cleaner[c].todo
        /\ \A d \in Cleaners \ {c} : cleaner'[d] = cleaner[d]
    BY <1>10 DEF DeleteRow, IdleCleaner
  <2>3. row'[u] = NoRow /\ \A x \in Uploads \ {u} : row'[x] = row[x]
    BY <1>10, <2>1 DEF DeleteRow
  <2> QED BY <2>1, <2>2, <2>3, <1>10 DEF DeleteRow
<1>11. ASSUME NEW c \in Cleaners, EndPass(c) PROVE Deletions'
  BY <1>11 DEF EndPass, IdleCleaner
<1>12. ASSUME NEW c \in Cleaners, CleanerDies(c) PROVE Deletions'
  BY <1>12 DEF CleanerDies, IdleCleaner, Fault
<1>13. ASSUME NEW p \in Movers, NEW u \in Uploads, NEW type \in Types, ReadRow(p, u, type)
       PROVE Deletions'
  BY <1>13 DEF ReadRow
<1>14. ASSUME NEW p \in Movers, Retype(p) PROVE Deletions'
  <2>1. mover[p] \in Call BY <1>14, MoverTypes DEF Retype
  <2>2. /\ row' \in [Uploads -> Types \cup {NoRow}]
        /\ \A u \in Uploads : row'[u] = NoRow <=> row[u] = NoRow
    BY <1>14, <2>1, ConstantsAssumption DEF Retype, Call, NoRow, ConstantsAssumption
  <2> QED BY <2>2, <1>14 DEF Retype
<1>15. ASSUME NEW p \in Movers, MoveFile(p) PROVE Deletions'
  <2>1. UNCHANGED <<row, cleaner, contested>> BY <1>15, MoveFileSteps
  <2>2. MovedBy(p, mover[p].u) /\ mover[p].u \in Uploads
    BY <1>15, MoveFileSteps DEF MovedBy, Call
  <2>3. \A c \in Cleaners : CleanedBy(c, mover[p].u) => mover[p].u \in contested
    BY <2>2 DEF Apart, CleanedBy
  <2>4. \A u \in Uploads \ {mover[p].u} : file'[u] = file[u] BY <1>15, MoveFileSteps
  <2> QED BY <2>1, <2>3, <2>4 DEF CleanedBy
<1>16. ASSUME NEW p \in Movers, MoverDies(p) PROVE Deletions'
  BY <1>16 DEF MoverDies, Fault
<1>17. CASE UNCHANGED vars BY <1>17 DEF vars
<1> QED
  BY <1>1, <1>2, <1>3, <1>4, <1>5, <1>6, <1>7, <1>8, <1>9, <1>10, <1>11, <1>12, <1>13,
     <1>14, <1>15, <1>16, <1>17 DEF Next, CleanStep

\* What a step may do to the uploads it does not take hold of: nobody else begins
\* to hold one, a row changes only under its creator or holder.
Steady ==
  /\ contested' = contested
  /\ \A u \in Uploads, p \in Movers : MovedBy(p, u)' => MovedBy(p, u)
  /\ \A u \in Uploads, c \in Cleaners : CleanedBy(c, u)' => CleanedBy(c, u)
  /\ \A u \in Filed :
       \/ row'[u] \in {row[u], NoRow}
       \/ create[u] = "saving"
       \/ \E p \in Movers : MovedBy(p, u)

\* Only List and ReadRow take hold of an upload.
LEMMA SteadySteps ==
  ASSUME Basic, [Next]_vars,
         ~ \E c \in Cleaners : List(c),
         ~ \E p \in Movers, u \in Uploads, type \in Types : ReadRow(p, u, type)
  PROVE  Steady
<1> USE DEF Basic, TypeOK, Filed, Steady, MovedBy, CleanedBy
<1>1. ASSUME NEW u \in Uploads, NEW type \in Types, WriteFile(u, type) PROVE Steady
  BY <1>1 DEF WriteFile
<1>2. ASSUME NEW u \in Uploads, NEW type \in Types, CreateInRow(u, type) PROVE Steady
  BY <1>2 DEF CreateInRow
<1>3. ASSUME NEW u \in Uploads, SaveRow(u) PROVE Steady
  BY <1>3 DEF SaveRow
<1>4. ASSUME NEW u \in Uploads, SaveRowFails(u) PROVE Steady
  BY <1>4 DEF SaveRowFails
<1>5. ASSUME NEW c \in Cleaners, DeleteTmpContent(c) PROVE Steady
  BY <1>5 DEF DeleteTmpContent
<1>7. ASSUME NEW c \in Cleaners, NEW u \in Uploads, Skip(c, u) PROVE Steady
  BY <1>7 DEF Skip
<1>8. ASSUME NEW c \in Cleaners, NEW u \in Uploads, DeleteFile(c, u) PROVE Steady
  BY <1>8 DEF DeleteFile
<1>9. ASSUME NEW c \in Cleaners, NEW u \in Uploads, CannotDelete(c, u) PROVE Steady
  BY <1>9 DEF CannotDelete
<1>10. ASSUME NEW c \in Cleaners, DeleteRow(c) PROVE Steady
  BY <1>10 DEF DeleteRow, IdleCleaner
<1>11. ASSUME NEW c \in Cleaners, EndPass(c) PROVE Steady
  BY <1>11 DEF EndPass, IdleCleaner
<1>12. ASSUME NEW c \in Cleaners, CleanerDies(c) PROVE Steady
  BY <1>12 DEF CleanerDies, IdleCleaner
<1>14. ASSUME NEW p \in Movers, Retype(p) PROVE Steady
  BY <1>14 DEF Retype, IdleMover
<1>15. ASSUME NEW p \in Movers, MoveFile(p) PROVE Steady
  BY <1>15, MoveFileSteps DEF IdleMover
<1>16. ASSUME NEW p \in Movers, MoverDies(p) PROVE Steady
  BY <1>16 DEF MoverDies, IdleMover
<1>17. CASE UNCHANGED vars BY <1>17 DEF vars
<1> QED
  BY <1>1, <1>2, <1>3, <1>4, <1>5, <1>7, <1>8, <1>9, <1>10, <1>11, <1>12, <1>14, <1>15,
     <1>16, <1>17 DEF Next, CleanStep

\* Whoever meets another holder contests the upload.
LEMMA ApartNext == Basic /\ Apart /\ [Next]_vars => Apart'
<1> SUFFICES ASSUME Basic, Apart, [Next]_vars PROVE Apart' OBVIOUS
<1>1. ASSUME NEW c \in Cleaners, List(c) PROVE Apart'
  <2>1. /\ \A u \in Uploads, p \in Movers : MovedBy(p, u)' <=> MovedBy(p, u)
        /\ \A u \in Uploads, d \in Cleaners : CleanedBy(d, u)' =>
             \/ CleanedBy(d, u)
             \/ u \in Filed /\ row[u] = "tmp" /\ (u \in contested' \/ ~Moved(u))
        /\ row' = row /\ contested \subseteq contested'
    BY <1>1 DEF List, MovedBy, CleanedBy, Basic, TypeOK, Filed
  <2> QED BY <2>1 DEF Apart, Moved, Filed
<1>2. ASSUME NEW p \in Movers, NEW u \in Uploads, NEW type \in Types, ReadRow(p, u, type)
      PROVE Apart'
  <2>1. /\ mover'[p].u = u /\ \A q \in Movers \ {p} : mover'[q] = mover[q]
        /\ mover[p].pc = "idle"
    BY <1>2 DEF ReadRow, Basic, TypeOK
  <2>2. \A x \in Uploads, q \in Movers : MovedBy(q, x)' => MovedBy(q, x) \/ (q = p /\ x = u)
    BY <2>1 DEF MovedBy
  <2>3. \A x \in Uploads, d \in Cleaners : CleanedBy(d, x)' <=> CleanedBy(d, x)
    BY <1>2 DEF ReadRow, CleanedBy
  <2>4. row' = row /\ contested \subseteq contested' BY <1>2 DEF ReadRow
  <2>5. u \in contested' \/ (~Moved(u) /\ ~Cleaned(u)) BY <1>2 DEF ReadRow
  <2> QED BY <2>2, <2>3, <2>4, <2>5 DEF Apart, Moved, Cleaned, Filed
<1>3. ASSUME Steady PROVE Apart'
  <2>1. \A u \in Filed, c \in Cleaners : CleanedBy(c, u) => create[u] # "saving"
    BY DEF Basic, Phases, Filed
  <2> QED BY <1>3, <2>1 DEF Steady, Apart, Filed
<1> QED BY <1>1, <1>2, <1>3, SteadySteps

\* An undisturbed move goes through its steps and leaves one file, at the new path.
LEMMA KnownFile ==
  ASSUME Basic, IInv, NEW p \in Movers, MoveFile(p), NEW x \in Filed, Quiet(x)'
  PROVE  KnownAt(x)'
<1> DEFINE u == mover[p].u
           from == mover[p].from
           to == mover[p].to
<1>1. /\ UNCHANGED <<row, astray, create, cleaner, torn, contested>>
      /\ mover[p] \in Call /\ mover[p].pc \in {"check", "move", "drop"}
      /\ \A q \in Movers \ {p} : mover'[q] = mover[q]
      /\ \A y \in Uploads \ {u} : file'[y] = file[y]
  BY MoveFileSteps DEF Basic
<1>2. KnownAt(x) /\ x \notin contested \cup torn \cup astray /\ x \in Uploads
  BY <1>1 DEF IInv, Known, Quiet, Filed
<1>3. CASE x # u
  <2>1. file'[x] = file[x] BY <1>1, <1>2, <1>3
  <2>2. \A q \in Movers : MovedBy(q, x) <=> MovedBy(q, x)'
    <3>1. ~MovedBy(p, x) /\ ~MovedBy(p, x)'
      BY <1>1, <1>3, MoveFileSteps DEF MovedBy, IdleMover, Basic
    <3> QED BY <1>1, <3>1 DEF MovedBy
  <2>3. \A q \in Movers : MovedBy(q, x) => q # p /\ mover'[q] = mover[q] /\ mover[q].u = x
    BY <1>1, <1>3 DEF MovedBy
  <2> QED BY <1>1, <1>2, <2>1, <2>2, <2>3 DEF KnownAt, Places
<1>4. CASE x = u
  <2>1. MovedBy(p, x) BY <1>1, <1>4 DEF MovedBy
  <2>2. \A q \in Movers \ {p} : ~MovedBy(q, x)
    BY <1>2, <2>1 DEF IInv, Apart, Filed
  <2>3. \A c \in Cleaners : x \notin cleaner[c].cur
    BY <1>2, <2>1 DEF IInv, Apart, CleanedBy, Filed
  <2>4. \A q \in Movers \ {p} : ~MovedBy(q, x)'
    BY <1>1, <2>2 DEF MovedBy
  <2>5. Places(p) BY <1>2, <2>1 DEF KnownAt
  <2>6. from \in Types /\ to \in Types BY <1>1 DEF Call
  <2>7. FromThere(p) BY <1>2, <1>4, <2>5 DEF Places, FromThere, At
  <2>8. ToThere(p) <=> from = to \/ mover[p].pc = "drop"
    BY <1>2, <1>4, <2>5 DEF Places, ToThere, At
  <2>9. row[x] = to /\ to # NoRow
    BY <1>1, <1>4, <2>5, <2>6, ConstantsAssumption DEF Places, NoRow, ConstantsAssumption
  <2>10. ~Rivalled(p)
    BY <1>4, <2>2 DEF Rivalled
  <2>11. ASSUME file'[x] = {to}, mover'[p] = IdleMover PROVE KnownAt(x)'
    BY <1>1, <2>3, <2>4, <2>9, <2>11 DEF KnownAt, MovedBy, IdleMover
  <2>12. ASSUME NEW pc \in {"move", "drop"}, mover' = [mover EXCEPT ![p].pc = pc],
                file'[x] = IF pc = "drop" THEN {from, to} ELSE {from}, from # to
         PROVE  KnownAt(x)'
    <3>1. /\ mover'[p].u = x /\ mover'[p].from = from /\ mover'[p].to = to
          /\ mover'[p].pc = pc
      BY <1>1, <1>4, <2>12 DEF Basic, TypeOK, Call
    <3>2. Places(p)' BY <1>1, <2>9, <2>12, <3>1 DEF Places
    <3>3. MovedBy(p, x)' BY <3>1 DEF MovedBy
    <3> QED BY <1>1, <2>3, <2>4, <2>9, <3>2, <3>3 DEF KnownAt
  <2>13. CASE CheckPaths(p)
    <3>1. file[x] = {from} /\ file' = file BY <1>4, <2>5, <2>13 DEF Places, CheckPaths
    <3>2. CASE from = to
      <4>1. mover'[p] = IdleMover
        BY <2>7, <2>8, <2>13, <3>2 DEF CheckPaths, Return, Basic, TypeOK
      <4> QED BY <2>11, <3>1, <3>2, <4>1
    <3>3. CASE from # to
      <4>1. mover' = [mover EXCEPT ![p].pc = "move"]
        BY <2>7, <2>8, <2>13, <3>3 DEF CheckPaths, Goto
      <4> QED BY <2>12, <3>1, <3>3, <4>1
    <3> QED BY <3>2, <3>3
  <2>14. CASE Rename(p)
    <3>1. file[x] = {from} /\ from # to BY <1>4, <2>5, <2>14 DEF Places, Rename
    <3>2. file'[x] = {to} BY <1>2, <1>4, <2>14, <3>1 DEF Rename, Basic, TypeOK
    <3>3. mover'[p] = IdleMover BY <2>14 DEF Rename, Return, Basic, TypeOK
    <3> QED BY <2>11, <3>2, <3>3
  <2>15. CASE CopyFile(p)
    <3>1. file[x] = {from} /\ from # to BY <1>4, <2>5, <2>15 DEF Places, CopyFile
    <3>2. file'[x] = {from, to}
      BY <1>2, <1>4, <2>7, <2>15, <3>1 DEF CopyFile, Basic, TypeOK
    <3>3. mover' = [mover EXCEPT ![p].pc = "drop"] BY <2>7, <2>15 DEF CopyFile, Goto
    <3> QED BY <2>12, <3>1, <3>2, <3>3
  <2>16. CASE LengthsDiffer(p) BY <2>7, <2>8, <2>10, <2>16 DEF LengthsDiffer
  <2>17. CASE DropSource(p)
    <3>1. file[x] = {from, to} /\ from # to BY <1>4, <2>5, <2>17 DEF Places, DropSource
    <3>2. file'[x] = {to}
      BY <1>2, <1>4, <2>7, <2>17, <3>1 DEF DropSource, Basic, TypeOK
    <3>3. mover'[p] = IdleMover BY <2>17 DEF DropSource, Return, Basic, TypeOK
    <3> QED BY <2>11, <3>2, <3>3
  <2> QED BY <2>13, <2>14, <2>15, <2>16, <2>17 DEF MoveFile
<1> QED BY <1>3, <1>4

\* A mover that does nothing while the row and the files of its upload stay as they
\* are still knows about them.
LEMMA PlacesSame ==
  ASSUME NEW x \in Uploads, NEW q \in Movers, KnownAt(x), mover'[q] = mover[q],
         row'[x] = row[x], file'[x] = file[x], MovedBy(q, x)'
  PROVE  MovedBy(q, x) /\ Places(q)'
<1>1. MovedBy(q, x) BY DEF MovedBy
<1>2. Places(q) /\ mover[q].u = x BY <1>1 DEF KnownAt, MovedBy
<1> QED BY <1>1, <1>2 DEF Places

\* What is known of an upload stays so while its row, its files and those who hold
\* it stay as they are.
LEMMA KnownSame ==
  ASSUME NEW x \in Uploads, KnownAt(x),
         row'[x] = row[x], file'[x] = file[x], create'[x] = create[x],
         \A p \in Movers : mover'[p] = mover[p],
         \A c \in Cleaners : x \in cleaner'[c].cur <=> x \in cleaner[c].cur
  PROVE  KnownAt(x)'
<1>1. ASSUME NEW p \in Movers PROVE MovedBy(p, x)' <=> MovedBy(p, x) BY DEF MovedBy
<1>2. ASSUME NEW p \in Movers, MovedBy(p, x) PROVE Places(p)'
  <2>1. Places(p) /\ mover[p].u = x BY <1>2 DEF KnownAt, MovedBy
  <2> QED BY <2>1 DEF Places
<1> QED BY <1>1, <1>2 DEF KnownAt

\* A cleaner or a mover leaves row and file together, or on record.
LEMMA KnownNext == Basic /\ IInv /\ [Next]_vars => Known'
<1> USE DEF Basic, TypeOK, Filed, Quiet
<1> SUFFICES ASSUME Basic, IInv, [Next]_vars, NEW x \in Filed, Quiet(x)' PROVE KnownAt(x)'
  BY DEF Known
<1>0. Quiet(x) => KnownAt(x) BY DEF IInv, Known
<1>1. ASSUME NEW u \in Uploads, NEW type \in Types, WriteFile(u, type) PROVE KnownAt(x)'
  <2>1. Quiet(x) BY <1>1 DEF WriteFile
  <2>2. CASE x # u BY <1>0, <1>1, <2>1, <2>2, KnownSame DEF WriteFile
  <2>3. CASE x = u
    <3>1. row'[x] = NoRow /\ create'[x] = "saving"
      BY <1>1, <2>3 DEF WriteFile, Phases
    <3>2. /\ \A p \in Movers : ~MovedBy(p, x)'
          /\ \A c \in Cleaners : x \notin cleaner'[c].cur
      BY <1>1, <2>3 DEF WriteFile, Phases, CleanedBy, MovedBy
    <3> QED BY <3>1, <3>2 DEF KnownAt
  <2> QED BY <2>2, <2>3
<1>2. ASSUME NEW u \in Uploads, NEW type \in Types, CreateInRow(u, type) PROVE KnownAt(x)'
  BY <1>0, <1>2, KnownSame DEF CreateInRow
<1>3. ASSUME NEW u \in Uploads, SaveRow(u) PROVE KnownAt(x)'
  <2>1. CASE x # u BY <1>0, <1>3, <2>1, KnownSame DEF SaveRow
  <2>2. CASE x = u
    <3>1. file'[x] = {row'[x]} /\ row'[x] # NoRow
      <4>1. PICK type \in Types : file[x] = {type} BY <1>3, <2>2 DEF SaveRow, Phases
      <4>2. row'[x] = type /\ file'[x] = {type} BY <1>3, <2>2, <4>1 DEF SaveRow
      <4> QED BY <4>2, ConstantsAssumption DEF NoRow, ConstantsAssumption
    <3>2. /\ \A p \in Movers : ~MovedBy(p, x)'
          /\ \A c \in Cleaners : x \notin cleaner'[c].cur
      BY <1>3, <2>2 DEF SaveRow, Phases, CleanedBy, MovedBy
    <3> QED BY <3>1, <3>2 DEF KnownAt
  <2> QED BY <2>1, <2>2
<1>4. ASSUME NEW u \in Uploads, SaveRowFails(u) PROVE KnownAt(x)'
  BY <1>0, <1>4, KnownSame DEF SaveRowFails
<1>5. ASSUME NEW c \in Cleaners, DeleteTmpContent(c) PROVE KnownAt(x)'
  BY <1>0, <1>5, KnownSame DEF DeleteTmpContent
<1>6. ASSUME NEW c \in Cleaners, List(c) PROVE KnownAt(x)'
  BY <1>0, <1>6, KnownSame DEF List
<1>7. ASSUME NEW c \in Cleaners, NEW u \in Uploads, Skip(c, u) PROVE KnownAt(x)'
  BY <1>0, <1>7, KnownSame DEF Skip
<1>8. ASSUME NEW c \in Cleaners, NEW u \in Uploads, DeleteFile(c, u) PROVE KnownAt(x)'
  <2>1. KnownAt(x) BY <1>0, <1>8 DEF DeleteFile
  <2>2. CASE x # u BY <1>8, <2>1, <2>2, KnownSame DEF DeleteFile
  <2>3. CASE x = u
    <3>1. /\ "tmp" \in file[x] /\ CleanedBy(c, x) /\ x \notin contested
          /\ x \in cleaner[c].todo
      BY <1>8, <2>3 DEF DeleteFile, At, CleanedBy
    <3>2. /\ row[x] = "tmp"
          /\ \A p \in Movers : ~MovedBy(p, x)
      BY <3>1 DEF IInv, Apart, Deletions
    <3>3. file[x] = {"tmp"} /\ row[x] # NoRow BY <2>1, <3>1, <3>2 DEF KnownAt, IInv, Deletions
    <3>4. /\ file'[x] = {} /\ row'[x] = "tmp" /\ x \in cleaner'[c].cur
          /\ \A p \in Movers : ~MovedBy(p, x)'
      BY <1>8, <2>3, <3>2, <3>3 DEF DeleteFile, MovedBy
    <3>5. row'[x] # NoRow BY <1>8, <3>3 DEF DeleteFile
    <3> QED BY <3>4, <3>5 DEF KnownAt
  <2> QED BY <2>2, <2>3
<1>9. ASSUME NEW c \in Cleaners, NEW u \in Uploads, CannotDelete(c, u) PROVE KnownAt(x)'
  BY <1>0, <1>9, KnownSame DEF CannotDelete
<1>10. ASSUME NEW c \in Cleaners, DeleteRow(c) PROVE KnownAt(x)'
  <2>1. KnownAt(x) BY <1>0, <1>10 DEF DeleteRow
  <2>2. CASE x \notin cleaner[c].cur
    BY <1>10, <2>1, <2>2, KnownSame DEF DeleteRow, IdleCleaner
  <2>3. CASE x \in cleaner[c].cur
    <3>1. row'[x] = NoRow /\ file'[x] = {}
      BY <1>10, <2>1, <2>3 DEF DeleteRow, KnownAt
    <3>2. \A p \in Movers : ~MovedBy(p, x)'
      BY <1>10, <2>3 DEF DeleteRow, IInv, Apart, CleanedBy, MovedBy
    <3> QED BY <3>1, <3>2 DEF KnownAt
  <2> QED BY <2>2, <2>3
<1>11. ASSUME NEW c \in Cleaners, EndPass(c) PROVE KnownAt(x)'
  BY <1>0, <1>11, KnownSame DEF EndPass, IdleCleaner
<1>12. ASSUME NEW c \in Cleaners, CleanerDies(c) PROVE KnownAt(x)'
  BY <1>0, <1>12, KnownSame DEF CleanerDies, IdleCleaner
<1>13. ASSUME NEW p \in Movers, NEW u \in Uploads, NEW type \in Types, ReadRow(p, u, type)
       PROVE KnownAt(x)'
  <2>1. KnownAt(x) /\ ~MovedBy(p, x) BY <1>0, <1>13 DEF ReadRow, MovedBy
  <2>2. /\ mover'[p] = [pc |-> "retype", u |-> u, from |-> row[u], to |-> type]
        /\ \A q \in Movers \ {p} : mover'[q] = mover[q]
        /\ UNCHANGED <<row, file, create, cleaner>>
    BY <1>13 DEF ReadRow
  <2>3. \A q \in Movers \ {p} : MovedBy(q, x)' => MovedBy(q, x) /\ Places(q)'
    BY <2>1, <2>2, PlacesSame
  <2>4. CASE x # u
    <3>1. ~MovedBy(p, x)' BY <2>2, <2>4 DEF MovedBy
    <3>2. \A q \in Movers : MovedBy(q, x) => MovedBy(q, x)'
      BY <2>1, <2>2 DEF MovedBy
    <3> QED BY <2>1, <2>2, <2>3, <3>1, <3>2 DEF KnownAt
  <2>5. CASE x = u
    <3>1. ~Moved(x) /\ ~Cleaned(x) /\ row[x] # NoRow
      BY <1>13, <2>5 DEF ReadRow
    <3>2. file[x] = {row[x]} BY <2>1, <3>1 DEF KnownAt, Moved, Cleaned, CleanedBy
    <3>3. Places(p)' BY <2>2, <2>5, <3>2 DEF Places
    <3>4. \A q \in Movers : MovedBy(q, x)' => Places(q)' BY <2>3, <3>3
    <3> QED BY <2>1, <2>2, <3>1, <3>2, <3>4 DEF KnownAt
  <2> QED BY <2>4, <2>5
<1>14. ASSUME NEW p \in Movers, Retype(p) PROVE KnownAt(x)'
  <2>1. /\ KnownAt(x) /\ x \notin contested /\ mover[p] \in Call
    BY <1>0, <1>14, MoverTypes DEF Retype
  <2>2. /\ \A q \in Movers \ {p} : mover'[q] = mover[q]
        /\ UNCHANGED <<file, create, cleaner>>
        /\ \A y \in Uploads \ {mover[p].u} : row'[y] = row[y]
        /\ mover[p].pc = "retype" /\ mover[p].u \in Uploads
    BY <1>14, <2>1 DEF Retype, Call
  <2>3. CASE x # mover[p].u
    <3>1. ~MovedBy(p, x) /\ ~MovedBy(p, x)'
      BY <1>14, <2>1, <2>3 DEF Retype, MovedBy, IdleMover, Call
    <3>2. \A q \in Movers : (MovedBy(q, x)' <=> MovedBy(q, x)) /\ (MovedBy(q, x) => q # p)
      BY <2>2, <3>1 DEF MovedBy
    <3>3. \A q \in Movers : MovedBy(q, x)' => Places(q)'
      BY <2>1, <2>2, <2>3, <3>2, PlacesSame
    <3> QED BY <2>1, <2>2, <2>3, <3>2, <3>3 DEF KnownAt
  <2>4. CASE x = mover[p].u
    <3>1. MovedBy(p, x) BY <2>2, <2>4 DEF MovedBy
    <3>2. Places(p) BY <2>1, <3>1 DEF KnownAt
    <3>3. row[x] \in Types /\ file[x] = {row[x]} /\ mover[p].from = row[x]
      BY <2>1, <2>2, <2>4, <3>2 DEF Places, Call
    <3>4. row[x] # NoRow /\ mover[p].to \in Types /\ mover[p].to # NoRow
      BY <2>1, <3>3, ConstantsAssumption DEF Call, NoRow, ConstantsAssumption
    <3>5. /\ mover'[p] = [mover[p] EXCEPT !.pc = "check"]
          /\ row'[x] = mover[p].to
      BY <1>14, <2>4, <3>4 DEF Retype
    <3>6. /\ mover'[p].pc = "check" /\ mover'[p].u = x
          /\ mover'[p].from = mover[p].from /\ mover'[p].to = mover[p].to
      BY <2>1, <2>4, <3>5 DEF Call
    <3>7. Places(p)' /\ MovedBy(p, x)' BY <2>2, <3>3, <3>5, <3>6 DEF Places, MovedBy
    <3>8. \A q \in Movers \ {p} : ~MovedBy(q, x)'
      BY <2>1, <2>2, <3>1 DEF IInv, Apart, MovedBy
    <3>9. \A c \in Cleaners : x \notin cleaner'[c].cur
      BY <2>1, <2>2, <3>1 DEF IInv, Apart, CleanedBy
    <3> QED BY <3>4, <3>5, <3>7, <3>8, <3>9 DEF KnownAt
  <2> QED BY <2>3, <2>4
<1>15. ASSUME NEW p \in Movers, MoveFile(p) PROVE KnownAt(x)'
  BY <1>15, KnownFile
<1>16. ASSUME NEW p \in Movers, MoverDies(p) PROVE KnownAt(x)'
  <2>1. KnownAt(x) /\ x \notin contested BY <1>0, <1>16 DEF MoverDies
  <2>2. /\ mover'[p] = IdleMover /\ \A q \in Movers \ {p} : mover'[q] = mover[q]
        /\ UNCHANGED <<row, file, create, cleaner>>
    BY <1>16 DEF MoverDies
  <2>3. \A q \in Movers : MovedBy(q, x)' => MovedBy(q, x) /\ Places(q)'
    <3>1. ~MovedBy(p, x)' BY <2>2 DEF MovedBy, IdleMover
    <3> QED BY <2>1, <2>2, <3>1, PlacesSame
  <2>4. CASE MovedBy(p, x)
    <3>1. mover[p].pc = "retype" BY <1>16, <2>4 DEF MoverDies, MovedBy
    <3>2. file[x] = {row[x]} BY <2>1, <2>4, <3>1 DEF KnownAt, Places, MovedBy
    <3>3. \A c \in Cleaners : x \notin cleaner[c].cur
      BY <2>1, <2>4 DEF IInv, Apart, CleanedBy
    <3> QED BY <2>1, <2>2, <2>3, <3>2, <3>3 DEF KnownAt
  <2>5. CASE ~MovedBy(p, x)
    <3>1. \A q \in Movers : MovedBy(q, x) => MovedBy(q, x)'
      BY <2>2, <2>5 DEF MovedBy
    <3> QED BY <2>1, <2>2, <2>3, <3>1 DEF KnownAt
  <2> QED BY <2>4, <2>5
<1>17. CASE UNCHANGED vars BY <1>0, <1>17, KnownSame DEF vars
<1> HIDE DEF Basic, TypeOK, Filed, Quiet
<1> QED
  BY <1>1, <1>2, <1>3, <1>4, <1>5, <1>6, <1>7, <1>8, <1>9, <1>10, <1>11, <1>12, <1>13,
     <1>14, <1>15, <1>16, <1>17 DEF Next, CleanStep

\* No uploads, nothing to be said.
LEMMA IInvInit == Init => IInv
<1> SUFFICES ASSUME Init PROVE IInv OBVIOUS
<1>1. Deletions BY DEF Init, Deletions, DeleteMeetsRow, IdleCleaner, Filed
<1>2. Apart BY DEF Init, Apart, MovedBy, CleanedBy, IdleCleaner, IdleMover, Filed
<1>3. Known BY DEF Init, Known, KnownAt, MovedBy, IdleMover, Filed
<1> QED BY <1>1, <1>2, <1>3 DEF IInv

\* The invariant that carries the theorems below.
LEMMA Invariant == Spec => [](Basic /\ IInv)
<1>1. Init => Basic /\ IInv BY BasicInit, IInvInit
<1>2. Basic /\ IInv /\ [Next]_vars => (Basic /\ IInv)'
  BY BasicNext, DeletionsNext, ApartNext, KnownNext DEF IInv
<1> QED BY <1>1, <1>2, PTL DEF Spec

\* A mover of an undisturbed upload that is not past its retyping has one file,
\* the row's.
LEMMA Unmoved ==
  ASSUME Basic, IInv, NEW u \in Filed, Quiet(u), ~Moving(u), row[u] # NoRow
  PROVE  file[u] = {row[u]} \/ \E c \in Cleaners : u \in cleaner[c].cur /\ file[u] = {}
<1>1. KnownAt(u) BY DEF IInv, Known
<1>2. ASSUME NEW p \in Movers, MovedBy(p, u) PROVE file[u] = {row[u]}
  <2>1. mover[p].pc = "retype" /\ mover[p].u = u BY <1>2 DEF Moving, MovedBy
  <2> QED BY <1>1, <1>2, <2>1 DEF KnownAt, Places
<1> QED BY <1>1, <1>2 DEF KnownAt

\* getRealFile finds the file of every row nobody is at work on, except after a
\* fault, after two threads met at the upload, or over the end of a year.
THEOREM RowsHaveFiles == Spec => []RowHasFile
<1>1. Basic /\ IInv => RowHasFile
  <2> SUFFICES ASSUME Basic, IInv, NEW u \in Filed, row[u] # NoRow,
                      u \notin torn \cup contested \cup astray, ~Moving(u)
               PROVE  At(u, row[u]) \/ \E c \in Cleaners : u \in cleaner[c].cur
    BY DEF RowHasFile
  <2> QED BY Unmoved DEF Quiet, At
<1> QED BY <1>1, Invariant, PTL

\* A file no row leads to is on its way, or was left by a fault, by two threads
\* that met at the upload, or by the end of a year.
THEOREM NoOrphans == Spec => []NoOrphanFiles
<1>1. Basic /\ IInv => NoOrphanFiles
  <2> SUFFICES ASSUME Basic, IInv, NEW u \in Filed, NEW type \in file[u] \ {row[u]},
                      create[u] # "saving", u \notin torn \cup contested \cup astray,
                      ~Moving(u)
               PROVE  FALSE
    BY DEF NoOrphanFiles
  <2>1. Quiet(u) /\ KnownAt(u) BY DEF Quiet, IInv, Known
  <2>2. row[u] # NoRow BY <2>1 DEF KnownAt
  <2> QED BY <2>1, <2>2, Unmoved
<1> QED BY <1>1, Invariant, PTL

\* Any number of cleaners may run: none deletes a row that is already gone.
THEOREM DeletesMeetRows == Spec => []DeleteMeetsRow
<1>1. IInv => DeleteMeetsRow BY DEF IInv, Deletions
<1> QED BY <1>1, Invariant, PTL

\* A step that removes a permanent row is the cleaner's, at a contested upload.
LEMMA KeptStep ==
  ASSUME Basic, IInv, [Next]_vars, NEW u \in Uploads,
         row[u] \notin {"tmp", NoRow}, row'[u] = NoRow
  PROVE  u \in contested \ InRow
<1> USE DEF Basic, TypeOK
<1>1. ASSUME NEW c \in Cleaners, DeleteRow(c) PROVE u \in contested \ InRow
  <2>1. u \in cleaner[c].cur BY <1>1 DEF DeleteRow
  <2>2. u \in Filed /\ CleanedBy(c, u) BY <2>1 DEF CleanedBy
  <2> QED BY <2>2 DEF IInv, Apart, Filed
<1>2. ASSUME NEW v \in Uploads, SaveRow(v) PROVE FALSE
  BY <1>2, ConstantsAssumption DEF SaveRow, Phases, NoRow, ConstantsAssumption
<1>3. ASSUME NEW v \in Uploads, NEW type \in Types, WriteFile(v, type) \/ CreateInRow(v, type)
      PROVE FALSE
  BY <1>3, ConstantsAssumption DEF WriteFile, CreateInRow, NoRow, ConstantsAssumption
<1>4. ASSUME NEW p \in Movers, Retype(p) PROVE FALSE
  <2>1. mover[p] \in Call BY <1>4, MoverTypes DEF Retype
  <2> QED BY <2>1, <1>4, ConstantsAssumption DEF Retype, Call, NoRow, ConstantsAssumption
<1>5. CASE UNCHANGED row BY <1>5
<1>6. ASSUME NEW c \in Cleaners, DeleteTmpContent(c) PROVE FALSE
  BY <1>6 DEF DeleteTmpContent
<1>7. ASSUME NEW p \in Movers, MoveFile(p) PROVE FALSE
  BY <1>7, MoveFileSteps
<1> QED
  BY <1>1, <1>2, <1>3, <1>4, <1>5, <1>6, <1>7 DEF Next, CleanStep, vars, SaveRowFails, List,
     Skip, DeleteFile, CannotDelete, EndPass, CleanerDies, ReadRow, MoverDies

\* The cleaner never deletes a permanent upload that holds its bytes, and one
\* with a file only if it was made permanent behind the cleaner's back.
THEOREM KeptUploads == Spec => KeptIsKept
<1>1. Basic /\ IInv /\ [Next]_vars =>
        [\A u \in Uploads :
           row[u] \notin {"tmp", NoRow} /\ row'[u] = NoRow => u \in contested \ InRow]_vars
  <2> SUFFICES ASSUME Basic, IInv, [Next]_vars, NEW u \in Uploads,
                      row[u] \notin {"tmp", NoRow}, row'[u] = NoRow
               PROVE  u \in contested \ InRow
    OBVIOUS
  <2> QED BY KeptStep
<1> QED BY <1>1, Invariant, PTL DEF Spec, KeptIsKept
-----------------------------------------------------------------------------
(* Deletions come to their end *)

\* The row of a lost file is in the hands of the cleaner that took the file, or of
\* one that died with it, unless a mover came between.
Halves ==
  \A u \in Filed : row[u] # NoRow /\ file[u] = {} =>
    u \in torn \cup contested \/ \E c \in Cleaners : u \in cleaner[c].cur

\* What a step of anyone does to a deletion between its file and its row.
LEMMA DeletionMoves ==
  ASSUME Basic, [Next]_vars, NEW c \in Cleaners, NEW u \in cleaner[c].cur
  PROVE  /\ u \in cleaner'[c].cur \/ row'[u] = NoRow \/ u \in torn'
         /\ CleanStep(c) => row'[u] = NoRow
<1> USE DEF Basic, TypeOK
<1>1. cleaner[c].pc = "row" /\ u \in Uploads
  BY DEF Filed
<1>2. CleanStep(c) => row'[u] = NoRow
  BY <1>1 DEF CleanStep, DeleteTmpContent, List, DeleteRow, EndPass, Skip, DeleteFile
<1>3. ASSUME NEW d \in Cleaners,
             CleanStep(d) \/ CleanerDies(d) \/ \E v \in Uploads : CannotDelete(d, v)
      PROVE  u \in cleaner'[c].cur \/ row'[u] = NoRow \/ u \in torn'
  <2>1. CASE d = c
    <3>1. ~\E v \in Uploads : CannotDelete(d, v)
      BY <1>1, <2>1 DEF CannotDelete
    <3> QED BY <1>2, <1>3, <2>1, <3>1 DEF CleanerDies
  <2>2. CASE d # c
    <3>1. cleaner'[c] = cleaner[c]
      BY <1>3, <2>2 DEF CleanStep, DeleteTmpContent, List, DeleteRow, EndPass, Skip, DeleteFile,
         CleanerDies, CannotDelete
    <3> QED BY <3>1
  <2> QED BY <2>1, <2>2
<1>4. CASE cleaner' = cleaner
  BY <1>2, <1>4
<1>5. ASSUME NEW p \in Movers, MoveFile(p) PROVE cleaner' = cleaner
  BY <1>5, MoveFileSteps
<1> QED
  BY <1>2, <1>3, <1>4, <1>5 DEF Next, vars, WriteFile, CreateInRow, SaveRow, SaveRowFails,
     ReadRow, Retype, MoverDies

\* A row that has lost its file has it no more, and rows come after their files.
LEMMA HalvesAlways == Spec => []Halves
<1>1. Init => Halves
  BY DEF Init, Halves, Filed
<1>2. Basic /\ IInv /\ Halves /\ [Next]_vars => Halves'
  <2> SUFFICES ASSUME Basic, IInv, Halves, [Next]_vars, NEW u \in Filed,
                      row'[u] # NoRow, file'[u] = {}
               PROVE  u \in torn' \cup contested' \/ \E c \in Cleaners : u \in cleaner'[c].cur
    BY DEF Halves, Filed
  <2> USE DEF Basic, TypeOK, Filed
  <2>0. ASSUME NEW p \in Movers, MoveFile(p) PROVE UNCHANGED <<row, torn, contested, cleaner>>
    BY <2>0, MoveFileSteps
  <2>1. torn \subseteq torn' /\ contested \subseteq contested'
    BY <2>0 DEF Next, vars, CleanStep, WriteFile, CreateInRow, SaveRow, SaveRowFails,
       DeleteTmpContent, List, DeleteRow, EndPass, Skip, DeleteFile, CleanerDies, CannotDelete,
       ReadRow, Retype, MoverDies
  <2>2. CASE row[u] # NoRow /\ file[u] = {}
    <3>1. u \in torn \cup contested \/ \E c \in Cleaners : u \in cleaner[c].cur
      BY <2>2 DEF Halves
    <3> QED BY <2>1, <3>1, DeletionMoves
  <2>3. CASE file[u] # {}
    <3>1. ASSUME NEW c \in Cleaners, NEW v \in Uploads, DeleteFile(c, v)
          PROVE  u \in cleaner'[c].cur
      BY <2>3, <3>1 DEF DeleteFile
    <3>2. ASSUME NEW p \in Movers, MoveFile(p), u \notin torn \cup contested PROVE FALSE
      <4>1. u = mover[p].u
        BY <2>3, <3>2, MoveFileSteps
      <4>2. CASE u \in astray
        <5>1. ~FromThere(p) /\ mover[p].pc \notin {"move", "drop"}
          BY <3>2, <4>1, <4>2, MoveFileSteps DEF FromThere, At, Phases, MovedBy
        <5>2. file' = file
          BY <3>2, <5>1 DEF MoveFile, CheckPaths, Rename, CopyFile, LengthsDiffer, DropSource
        <5> QED BY <2>3, <5>2
      <4>3. CASE u \notin astray
        <5>1. Quiet(u)' BY <2>0, <3>2, <4>3, MoveFileSteps DEF Quiet
        <5>2. KnownAt(u)' BY <3>2, <5>1, KnownFile
        <5>3. \E c \in Cleaners : u \in cleaner[c].cur
          <6>2. \A q \in Movers : ~MovedBy(q, u)'
            BY <5>2 DEF KnownAt, Places, MovedBy
          <6> QED BY <2>0, <3>2, <5>2, <6>2 DEF KnownAt
        <5>4. MovedBy(p, u) BY <3>2, <4>1, MoveFileSteps DEF MovedBy
        <5> QED BY <3>2, <5>3, <5>4 DEF IInv, Apart, CleanedBy
      <4> QED BY <4>2, <4>3
    <3>3. ASSUME NEW v \in Uploads, NEW type \in Types, WriteFile(v, type) PROVE FALSE
      BY <2>3, <3>3 DEF WriteFile
    <3> QED
      BY <2>1, <2>3, <3>1, <3>2, <3>3 DEF Next, vars, CleanStep, CreateInRow, SaveRow,
         SaveRowFails, DeleteTmpContent, List, DeleteRow, EndPass, Skip, CleanerDies,
         CannotDelete, ReadRow, Retype, MoverDies
  <2>4. CASE row[u] = NoRow /\ file[u] = {}
    <3>1. ASSUME NEW v \in Uploads, SaveRow(v) PROVE FALSE
      BY <2>4, <3>1 DEF SaveRow, Phases
    <3>2. ASSUME NEW v \in Uploads, NEW type \in Types, CreateInRow(v, type) PROVE FALSE
      BY <2>4, <3>2 DEF CreateInRow
    <3>3. ASSUME NEW p \in Movers, Retype(p) PROVE FALSE
      BY <2>4, <3>3 DEF Retype
    <3> QED
      BY <2>0, <2>4, <3>1, <3>2, <3>3 DEF Next, vars, CleanStep, WriteFile, SaveRowFails,
         DeleteTmpContent, List, DeleteRow, EndPass, Skip, DeleteFile, CleanerDies, CannotDelete,
         ReadRow, MoverDies
  <2> QED BY <2>2, <2>3, <2>4
<1>3. Spec => [](Basic /\ IInv)
  BY Invariant, PTL
<1> QED BY <1>1, <1>2, <1>3, PTL DEF Spec

\* The fairness WF_vars(CleanStep(c)) of a step that is always possible.
Runs(c) == []<><<CleanStep(c)>>_vars

LEMMA FairCleanerRuns ==
  ASSUME NEW c \in Cleaners
  PROVE  WF_vars(CleanStep(c)) /\ []ENABLED <<CleanStep(c)>>_vars => Runs(c)
BY PTL DEF Runs

\* The cleaner that has deleted a file deletes the row next, or dies on the way.
LEMMA DeletionEnds ==
  ASSUME NEW c \in Cleaners, NEW u \in Filed
  PROVE  Spec /\ Runs(c) => (u \in cleaner[c].cur ~> row[u] = NoRow \/ u \in torn)
<1> DEFINE Holding == u \in cleaner[c].cur
           Over == row[u] = NoRow \/ u \in torn
<1>1. Basic /\ Holding /\ [Next]_vars => Holding' \/ Over'
  BY DeletionMoves
<1>2. Basic /\ Holding /\ [Next]_vars /\ <<CleanStep(c)>>_vars => Over'
  BY DeletionMoves
<1>3. Spec => []Basic
  BY Invariant, PTL
<1> HIDE DEF Holding, Over
<1>4. Spec /\ Runs(c) => (Holding ~> Over)
  BY <1>1, <1>2, <1>3, PTL DEF Spec, Runs
<1> QED BY <1>4 DEF Holding, Over

\* A file is never deleted without its row for good: a row whose file is gone goes,
\* too, unless the cleaner died between the two or updateType and another thread
\* met at the upload; whatever other cleaners do to it meanwhile.
THEOREM LostFilesLoseTheirRows ==
  Spec /\ (\A c \in Cleaners : Runs(c))
    => \A u \in Filed : row[u] # NoRow /\ file[u] = {} ~> row[u] = NoRow \/ u \in torn \cup contested
<1> SUFFICES ASSUME NEW u \in Filed
             PROVE  Spec /\ (\A c \in Cleaners : Runs(c))
                      => (row[u] # NoRow /\ file[u] = {} ~> row[u] = NoRow \/ u \in torn \cup contested)
  OBVIOUS
<1> DEFINE Lost == row[u] # NoRow /\ file[u] = {}
           Over == row[u] = NoRow \/ u \in torn \cup contested
           Held == \E c \in Cleaners : u \in cleaner[c].cur
<1>1. Halves /\ Lost => Held \/ Over
  BY DEF Halves
<1>2. \A c \in Cleaners : Spec /\ Runs(c) => [](u \in cleaner[c].cur => <>Over)
  <2> SUFFICES ASSUME NEW c \in Cleaners
               PROVE  Spec /\ Runs(c) => [](u \in cleaner[c].cur => <>Over)
    OBVIOUS
  <2>1. Spec /\ Runs(c) => (u \in cleaner[c].cur ~> row[u] = NoRow \/ u \in torn)
    BY DeletionEnds, PTL
  <2>2. row[u] = NoRow \/ u \in torn => Over
    OBVIOUS
  <2> HIDE DEF Over
  <2> QED BY <2>1, <2>2, PTL
<1>3. Spec /\ (\A c \in Cleaners : Runs(c))
        => \A c \in Cleaners : [](u \in cleaner[c].cur => <>Over)
  BY <1>2
<1>4. (\A c \in Cleaners : [](u \in cleaner[c].cur => <>Over))
        => [](\A c \in Cleaners : u \in cleaner[c].cur => <>Over)
  OBVIOUS
<1>5. (\A c \in Cleaners : u \in cleaner[c].cur => <>Over) => (Held => <>Over)
  OBVIOUS
<1> HIDE DEF Lost, Over, Held
<1>6. Spec /\ (\A c \in Cleaners : Runs(c)) => (Lost ~> Over)
  BY <1>1, <1>3, <1>4, <1>5, HalvesAlways, PTL
<1> QED BY <1>6 DEF Lost, Over
-----------------------------------------------------------------------------
(* What endangers a permanent upload *)

\* Upload u is permanent, and in nobody's list of temporary ones.
Kept(u) == row[u] \notin {"tmp", NoRow} /\ ~Cleaned(u)

LEMMA KeptMoves ==
  ASSUME Basic, [Next]_vars, NEW u \in Uploads, Kept(u)
  PROVE  \/ Kept(u)'
         \/ \E p \in Movers : /\ mover[p].pc = "retype" /\ mover[p].u = u /\ mover[p].to = "tmp"
                              /\ row'[u] = "tmp" /\ mover'[p] # mover[p]
<1> USE DEF Basic, TypeOK, Kept
<1>1. ASSUME NEW p \in Movers, Retype(p)
      PROVE  \/ Kept(u)'
             \/ /\ mover[p].pc = "retype" /\ mover[p].u = u /\ mover[p].to = "tmp"
                /\ row'[u] = "tmp" /\ mover'[p] # mover[p]
  <2>1. mover[p] \in Call BY <1>1, MoverTypes DEF Retype
  <2>2. cleaner' = cleaner /\ mover'[p].pc # "retype" /\ mover[p].pc = "retype"
    BY <1>1, <2>1 DEF Retype, IdleMover, Call
  <2>3. row'[u] = row[u] \/ (row'[u] = mover[p].to /\ mover[p].u = u)
    BY <1>1, <2>1 DEF Retype, Call
  <2>4. mover[p].to \in Types /\ mover[p].to # NoRow
    BY <2>1, ConstantsAssumption DEF Call, NoRow
  <2> QED BY <2>2, <2>3, <2>4 DEF Cleaned, CleanedBy
<1>2. ASSUME row'[u] = row[u], \A c \in Cleaners : CleanedBy(c, u)' => CleanedBy(c, u)
      PROVE  Kept(u)'
  BY <1>2 DEF Cleaned
<1>3. ASSUME NEW v \in Uploads, SaveRow(v) PROVE Kept(u)'
  BY <1>3, <1>2 DEF SaveRow, Phases, CleanedBy
<1>4. ASSUME NEW v \in Uploads, NEW type \in Types, CreateInRow(v, type) PROVE Kept(u)'
  BY <1>4, <1>2 DEF CreateInRow, Phases, CleanedBy
<1>5. ASSUME NEW c \in Cleaners, DeleteTmpContent(c) PROVE Kept(u)'
  BY <1>5, <1>2 DEF DeleteTmpContent, CleanedBy
<1>6. ASSUME NEW c \in Cleaners, List(c) PROVE Kept(u)'
  BY <1>6, <1>2 DEF List, CleanedBy
<1>7. ASSUME NEW c \in Cleaners, DeleteRow(c) PROVE Kept(u)'
  <2>1. u \notin cleaner[c].cur
    BY DEF Cleaned, CleanedBy
  <2> QED BY <1>2, <1>7, <2>1 DEF DeleteRow, CleanedBy, IdleCleaner
<1>8. ASSUME NEW c \in Cleaners, EndPass(c) \/ CleanerDies(c) PROVE Kept(u)'
  BY <1>2, <1>8 DEF EndPass, CleanerDies, CleanedBy, IdleCleaner
<1>9. ASSUME NEW c \in Cleaners, NEW v \in Uploads, Skip(c, v) \/ DeleteFile(c, v) \/ CannotDelete(c, v)
      PROVE  Kept(u)'
  BY <1>2, <1>9 DEF Skip, DeleteFile, CannotDelete, CleanedBy
<1>10. CASE row' = row /\ cleaner' = cleaner
  BY <1>2, <1>10 DEF CleanedBy
<1>11. ASSUME NEW p \in Movers, MoveFile(p) PROVE Kept(u)'
  BY <1>10, <1>11, MoveFileSteps
<1> QED
  BY <1>1, <1>3, <1>4, <1>5, <1>6, <1>7, <1>8, <1>9, <1>10, <1>11 DEF Next, vars, CleanStep,
     WriteFile, SaveRowFails, ReadRow, MoverDies

\* A permanent upload that no cleaner had listed before it became permanent stays:
\* no cleaner lists it or deletes it, however many run, until somebody makes it
\* temporary again.
THEOREM KeptForGood ==
  Spec => [][\A u \in Uploads : Kept(u) =>
               \/ Kept(u)'
               \/ \E p \in Movers : /\ mover[p].pc = "retype" /\ mover[p].u = u
                                    /\ mover[p].to = "tmp"
                                    /\ row'[u] = "tmp" /\ mover'[p] # mover[p]]_vars
<1>1. Basic /\ [Next]_vars =>
        [\A u \in Uploads : Kept(u) =>
           \/ Kept(u)'
           \/ \E p \in Movers : /\ mover[p].pc = "retype" /\ mover[p].u = u
                                /\ mover[p].to = "tmp"
                                /\ row'[u] = "tmp" /\ mover'[p] # mover[p]]_vars
  BY KeptMoves
<1>2. Spec => []Basic
  BY Invariant, PTL
<1> QED BY <1>1, <1>2, PTL DEF Spec
=============================================================================
