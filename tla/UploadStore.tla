----------------------------- MODULE UploadStore -----------------------------
(***************************************************************************)
(* The upload store of UploadSupportUtils.  An upload is a row of          *)
(* tb_sys_upload; its bytes are in the row (IS_FILE = "N") or in a file    *)
(* whose directory is made of the row's type and year.  Row and file are   *)
(* written, retyped and removed by separate steps:                         *)
(*   create           writes the file, then the row                        *)
(*   updateType       reads the row, retypes it, then moves the file: by a *)
(*                    rename, or, since it does not create the directory   *)
(*                    of the new type and year, by a copy and a delete     *)
(*   cleanTempUpload  deletes the temporary rows that hold their bytes,    *)
(*                    lists the temporary files' rows, and for each one    *)
(*                    deletes the file, then the row, by its key alone     *)
(* The cleaner runs at 03:30 and at the start and stop of every server.    *)
(***************************************************************************)
EXTENDS Naturals, FiniteSets

CONSTANTS
  Types,           \* UploadTypes.TYPES, of which "tmp" is cleaned
  Uploads,         \* uploads, each named by its OID and its generated file name
  InRow,           \* those created with isFile = false
  Cleaners,        \* threads that may run cleanTempUpload
  Movers,          \* threads that may call updateType
  MaxFaults        \* bound: threads that die or calls that fail

ASSUME ConstantsAssumption ==
  /\ InRow \subseteq Uploads /\ MaxFaults \in Nat
  /\ "tmp" \in Types /\ Types \subseteq {"image", "tmp", "common"}

NoRow == "no row"
Filed == Uploads \ InRow

VARIABLES
  row,        \* the type in the row of tb_sys_upload, or NoRow
  file,       \* the types in whose directories there is a file of it
  astray,     \* uploads whose file is not in the year's directory the row names
  create,     \* "no", "saving" (the file is written, the row is not), "done"
  cleaner,    \* the pass of each cleaner: listed uploads, and the one without a file
  mover,      \* the call of each mover: the upload, its type as read, the new type
  faults,     \* how much of MaxFaults is used
  torn,       \* history: uploads left by a thread between row and file
  contested   \* history: uploads a mover held together with another thread

vars == <<row, file, astray, create, cleaner, mover, faults, torn, contested>>

IdleCleaner == [pc |-> "idle", todo |-> {}, cur |-> {}]
Call == [pc : {"retype", "check", "move", "drop"}, u : Uploads, from : Types, to : Types]
IdleMover == [pc |-> "idle"]

\* getUploadFileDir + FILE_NAME: where everyone looks for the file of u.
At(u, type) == type \in file[u] /\ u \notin astray
MovedBy(p, u) == mover[p].pc # "idle" /\ mover[p].u = u
CleanedBy(c, u) == u \in cleaner[c].todo \cup cleaner[c].cur
Moved(u) == \E p \in Movers : MovedBy(p, u)
Cleaned(u) == \E c \in Cleaners : CleanedBy(c, u)

Init ==
  /\ row = [u \in Uploads |-> NoRow] /\ file = [u \in Uploads |-> {}]
  /\ astray = {} /\ torn = {} /\ contested = {}
  /\ create = [u \in Uploads |-> "no"]
  /\ cleaner = [c \in Cleaners |-> IdleCleaner]
  /\ mover = [p \in Movers |-> IdleMover]
  /\ faults = 0

Fault == faults < MaxFaults /\ faults' = faults + 1
-----------------------------------------------------------------------------
(* create *)

\* The row's year is read before the directory's: the file goes astray when the
\* year ends in between.
WriteFile(u, type) ==
  /\ u \in Filed /\ create[u] = "no"
  /\ create' = [create EXCEPT ![u] = "saving"]
  /\ file' = [file EXCEPT ![u] = {type}]
  /\ astray' = astray \/ astray' = astray \cup {u}
  /\ UNCHANGED <<row, cleaner, mover, faults, torn, contested>>

SaveRow(u) ==
  /\ create[u] = "saving"
  /\ create' = [create EXCEPT ![u] = "done"]
  /\ \E type \in file[u] : row' = [row EXCEPT ![u] = type]
  /\ UNCHANGED <<file, astray, cleaner, mover, faults, torn, contested>>

\* saveObject throws, or the server dies: nobody removes the file.
SaveRowFails(u) ==
  /\ create[u] = "saving" /\ Fault
  /\ create' = [create EXCEPT ![u] = "done"]
  /\ torn' = torn \cup {u}
  /\ UNCHANGED <<row, file, astray, cleaner, mover, contested>>

CreateInRow(u, type) ==
  /\ u \in InRow /\ create[u] = "no"
  /\ create' = [create EXCEPT ![u] = "done"]
  /\ row' = [row EXCEPT ![u] = type]
  /\ UNCHANGED <<file, astray, cleaner, mover, faults, torn, contested>>
-----------------------------------------------------------------------------
(* cleanTempUpload *)

\* Mutation of DeleteTmpContent: without the condition on the type.
DeleteContent(c) ==
  /\ cleaner[c].pc = "idle"
  /\ row' = [u \in Uploads |-> IF u \in InRow THEN NoRow ELSE row[u]]
  /\ cleaner' = [cleaner EXCEPT ![c].pc = "list"]
  /\ UNCHANGED <<file, astray, create, mover, faults, torn, contested>>

\* One statement deletes the temporary rows that hold their own bytes.
DeleteTmpContent(c) ==
  /\ cleaner[c].pc = "idle"
  /\ row' = [u \in Uploads |-> IF u \in InRow /\ row[u] = "tmp" THEN NoRow ELSE row[u]]
  /\ cleaner' = [cleaner EXCEPT ![c].pc = "list"]
  /\ UNCHANGED <<file, astray, create, mover, faults, torn, contested>>

\* Mutation of List: the uploads that are not files.
ListContent(c) ==
  /\ cleaner[c].pc = "list"
  /\ cleaner' = [cleaner EXCEPT ![c] =
       [pc |-> "pick", todo |-> {u \in InRow : row[u] = "tmp"}, cur |-> {}]]
  /\ UNCHANGED <<row, file, astray, create, mover, faults, torn, contested>>

\* findListByParams: the rows as they are now are kept for the whole pass.
List(c) ==
  LET listed == {u \in Filed : row[u] = "tmp"} IN
  /\ cleaner[c].pc = "list"
  /\ cleaner' = [cleaner EXCEPT ![c] = [pc |-> "pick", todo |-> listed, cur |-> {}]]
  /\ contested' = contested \cup {u \in listed : Moved(u)}
  /\ UNCHANGED <<row, file, astray, create, mover, faults, torn>>

\* Mutation of Skip: the row of a missing file is deleted, too.
SkipToRow(c, u) ==
  /\ cleaner[c].pc = "pick" /\ u \in cleaner[c].todo /\ ~At(u, "tmp")
  /\ cleaner' = [cleaner EXCEPT ![c] = [pc |-> "row", todo |-> @.todo \ {u}, cur |-> {u}]]
  /\ UNCHANGED <<row, file, astray, create, mover, faults, torn, contested>>

\* No file where the listed row says it is, or another thread takes it away
\* before forceDelete: on to the next one, and the row stays.
Skip(c, u) ==
  /\ cleaner[c].pc = "pick" /\ u \in cleaner[c].todo /\ ~At(u, "tmp")
  /\ cleaner' = [cleaner EXCEPT ![c].todo = @ \ {u}]
  /\ UNCHANGED <<row, file, astray, create, mover, faults, torn, contested>>

DeleteFile(c, u) ==
  /\ cleaner[c].pc = "pick" /\ u \in cleaner[c].todo /\ At(u, "tmp")
  /\ file' = [file EXCEPT ![u] = @ \ {"tmp"}]
  /\ cleaner' = [cleaner EXCEPT ![c] = [pc |-> "row", todo |-> @.todo \ {u}, cur |-> {u}]]
  /\ UNCHANGED <<row, astray, create, mover, faults, torn, contested>>

\* forceDelete throws and the file is still there; the next pass tries again.
CannotDelete(c, u) ==
  /\ cleaner[c].pc = "pick" /\ u \in cleaner[c].todo /\ At(u, "tmp") /\ Fault
  /\ cleaner' = [cleaner EXCEPT ![c].todo = @ \ {u}]
  /\ UNCHANGED <<row, file, astray, create, mover, torn, contested>>

\* Mutation of DeleteRow: only the file is deleted.
DeleteNoRow(c) ==
  /\ cleaner[c].pc = "row"
  /\ cleaner' = [cleaner EXCEPT ![c] = [pc |-> "pick", todo |-> @.todo, cur |-> {}]]
  /\ UNCHANGED <<row, file, astray, create, mover, faults, torn, contested>>

\* delete(entity), whatever the row's type is by now.  Hibernate refuses to
\* delete a row that is gone, and the exception ends the pass.
DeleteRow(c) ==
  LET gone == \E u \in cleaner[c].cur : row[u] = NoRow IN
  /\ cleaner[c].pc = "row"
  /\ row' = [u \in Uploads |-> IF u \in cleaner[c].cur THEN NoRow ELSE row[u]]
  /\ cleaner' = [cleaner EXCEPT ![c] =
       IF gone THEN IdleCleaner ELSE [pc |-> "pick", todo |-> @.todo, cur |-> {}]]
  /\ UNCHANGED <<file, astray, create, mover, faults, torn, contested>>

EndPass(c) ==
  /\ cleaner[c].pc = "pick" /\ cleaner[c].todo = {}
  /\ cleaner' = [cleaner EXCEPT ![c] = IdleCleaner]
  /\ UNCHANGED <<row, file, astray, create, mover, faults, torn, contested>>

\* A database call of the pass throws, or the server dies.
CleanerDies(c) ==
  /\ cleaner[c].pc # "idle" /\ Fault
  /\ torn' = torn \cup cleaner[c].cur
  /\ cleaner' = [cleaner EXCEPT ![c] = IdleCleaner]
  /\ UNCHANGED <<row, file, astray, create, mover, contested>>
-----------------------------------------------------------------------------
(* updateType *)

\* Mutation of ReadRow: a missing row is not refused.
ReadAnyRow(p, u, type) ==
  /\ mover[p].pc = "idle"
  /\ mover' = [mover EXCEPT ![p] = [pc |-> "retype", u |-> u, from |-> row[u], to |-> type]]
  /\ UNCHANGED <<row, file, astray, create, cleaner, faults, torn, contested>>

\* findForNoByteContent; the row's type is remembered for the file's old path.
ReadRow(p, u, type) ==
  /\ mover[p].pc = "idle" /\ row[u] # NoRow
  /\ mover' = [mover EXCEPT ![p] = [pc |-> "retype", u |-> u, from |-> row[u], to |-> type]]
  /\ contested' = IF Moved(u) \/ Cleaned(u) THEN contested \cup {u} ELSE contested
  /\ UNCHANGED <<row, file, astray, create, cleaner, faults, torn>>

\* updateTypeOnly, which throws if the row is gone.
Retype(p) ==
  LET u == mover[p].u
      found == row[u] # NoRow IN
  /\ mover[p].pc = "retype"
  /\ row' = IF found THEN [row EXCEPT ![u] = mover[p].to] ELSE row
  /\ mover' = [mover EXCEPT ![p] =
       IF found /\ u \in Filed THEN [@ EXCEPT !.pc = "check"] ELSE IdleMover]
  /\ UNCHANGED <<file, astray, create, cleaner, faults, torn, contested>>

FromThere(p) == At(mover[p].u, mover[p].from)
ToThere(p) == At(mover[p].u, mover[p].to)
Goto(p, pc) == mover' = [mover EXCEPT ![p].pc = pc]
Return(p) == mover' = [mover EXCEPT ![p] = IdleMover]

\* The call throws, and leaves the row retyped, when the new path is taken or the
\* old one is empty.
CheckPaths(p) ==
  /\ mover[p].pc = "check"
  /\ IF FromThere(p) /\ ~ToThere(p) THEN Goto(p, "move") ELSE Return(p)
  /\ UNCHANGED <<row, file, astray, create, cleaner, faults, torn, contested>>

\* Mutation of Rename: the file stays at its old path, too.
RenameKeepsSource(p) ==
  /\ mover[p].pc = "move" /\ FromThere(p)
  /\ file' = [file EXCEPT ![mover[p].u] = @ \cup {mover[p].to}]
  /\ Return(p)
  /\ UNCHANGED <<row, astray, create, cleaner, faults, torn, contested>>

\* FileUtils.moveFile: renameTo ...
Rename(p) ==
  /\ mover[p].pc = "move" /\ FromThere(p)
  /\ file' = [file EXCEPT ![mover[p].u] = (@ \ {mover[p].from}) \cup {mover[p].to}]
  /\ Return(p)
  /\ UNCHANGED <<row, astray, create, cleaner, faults, torn, contested>>

\* ... which fails for the first file of a type and year, whose directory nobody
\* has created; copyFile creates it, and throws if the file has just gone.
CopyFile(p) ==
  /\ mover[p].pc = "move"
  /\ IF FromThere(p)
     THEN /\ file' = [file EXCEPT ![mover[p].u] = @ \cup {mover[p].to}]
          /\ Goto(p, "drop")
     ELSE Return(p) /\ UNCHANGED file
  /\ UNCHANGED <<row, astray, create, cleaner, faults, torn, contested>>

\* Another call may be writing the same copy.
Rivalled(p) ==
  \E q \in Movers \ {p} :
    /\ MovedBy(q, mover[p].u) /\ mover[q].pc \in {"move", "drop"}
    /\ mover[q].to = mover[p].to

\* The copy has another length than the file when either is gone or the copy is
\* being written again: the call throws and leaves both as they are.
LengthsDiffer(p) ==
  /\ mover[p].pc = "drop" /\ (~FromThere(p) \/ ~ToThere(p) \/ Rivalled(p))
  /\ Return(p)
  /\ UNCHANGED <<row, file, astray, create, cleaner, faults, torn, contested>>

\* The old file is deleted; when it is gone, the copy is removed instead.
DropSource(p) ==
  /\ mover[p].pc = "drop"
  /\ file' = [file EXCEPT ![mover[p].u] =
       @ \ {IF FromThere(p) THEN mover[p].from ELSE mover[p].to}]
  /\ Return(p)
  /\ UNCHANGED <<row, astray, create, cleaner, faults, torn, contested>>

MoveFile(p) ==
  CheckPaths(p) \/ Rename(p) \/ CopyFile(p) \/ LengthsDiffer(p) \/ DropSource(p)

\* A step of the call throws, or the server dies.
MoverDies(p) ==
  /\ mover[p].pc # "idle" /\ Fault
  /\ torn' = IF mover[p].pc = "retype" THEN torn ELSE torn \cup {mover[p].u}
  /\ mover' = [mover EXCEPT ![p] = IdleMover]
  /\ UNCHANGED <<row, file, astray, create, cleaner, contested>>
-----------------------------------------------------------------------------
CleanStep(c) ==
  \/ DeleteTmpContent(c) \/ List(c) \/ DeleteRow(c) \/ EndPass(c)
  \/ \E u \in Uploads : Skip(c, u) \/ DeleteFile(c, u)

Next ==
  \/ \E u \in Uploads :
       \/ \E type \in Types : WriteFile(u, type) \/ CreateInRow(u, type)
       \/ SaveRow(u) \/ SaveRowFails(u)
  \/ \E c \in Cleaners :
       \/ CleanStep(c) \/ CleanerDies(c)
       \/ \E u \in Uploads : CannotDelete(c, u)
  \/ \E p \in Movers :
       \/ \E u \in Uploads, type \in Types : ReadRow(p, u, type)
       \/ Retype(p) \/ MoveFile(p) \/ MoverDies(p)

Spec == Init /\ [][Next]_vars

\* The trigger of the nightly job fires every day, and its threads run on.
Fairness == \A c \in Cleaners : WF_vars(CleanStep(c))
FairSpec == Spec /\ Fairness
-----------------------------------------------------------------------------
\* The type invariant; a cleaner that is about to delete a row has one upload.
TypeOK ==
  /\ row \in [Uploads -> Types \cup {NoRow}]
  /\ file \in [Uploads -> SUBSET Types]
  /\ create \in [Uploads -> {"no", "saving", "done"}]
  /\ cleaner \in [Cleaners -> [pc : {"idle", "list", "pick", "row"},
                               todo : SUBSET Filed, cur : SUBSET Filed]]
  /\ \A c \in Cleaners : IF cleaner[c].pc = "row" THEN \E u \in Filed : cleaner[c].cur = {u}
                                                  ELSE cleaner[c].cur = {}
  /\ mover \in [Movers -> Call \cup {IdleMover}]
  /\ astray \subseteq Filed /\ torn \subseteq Uploads /\ contested \subseteq Uploads
  /\ faults \in Nat

\* A mover has retyped the row and is at the file.
Moving(u) == \E p \in Movers : MovedBy(p, u) /\ mover[p].pc # "retype"

\* getRealFile: the row of a file upload leads to its file, except while a mover
\* or a cleaner is between the two, after one of them was stopped there, after
\* two of them met, and for an upload created across the end of a year.
RowHasFile ==
  \A u \in Filed : row[u] # NoRow =>
    \/ At(u, row[u])
    \/ Moving(u)
    \/ \E c \in Cleaners : u \in cleaner[c].cur
    \/ u \in torn \cup contested \cup astray

\* A file that no row leads to is being created or moved, or was left by a create
\* or a move that died, by two threads that met, or at the end of a year; no
\* thread by itself leaves one, and no number of cleaners.
NoOrphanFiles ==
  \A u \in Filed : \A type \in file[u] \ {row[u]} :
    create[u] = "saving" \/ Moving(u) \/ u \in torn \cup contested \cup astray

\* The delete by key meets its row, however many cleaners run at once: the
\* exception that would end the pass for all systems cannot occur, except for an
\* upload whose file a mover put back while a cleaner held it.
DeleteMeetsRow ==
  \A c \in Cleaners : \A u \in cleaner[c].cur \ contested : row[u] # NoRow

\* The cleaner deletes a permanent upload only if it made the upload permanent
\* between its listing and its deletion, and never one that holds its bytes.
KeptIsKept ==
  [][\A u \in Uploads :
       row[u] \notin {"tmp", NoRow} /\ row'[u] = NoRow => u \in contested \ InRow]_vars

\* The cleaner gets rid of every temporary upload that does not become permanent,
\* except those whose file it cannot find: their rows stay for ever.
TempIsCleaned ==
  \A u \in Uploads :
    row[u] = "tmp" ~> row[u] # "tmp" \/ u \in torn \cup contested \cup astray
=============================================================================
