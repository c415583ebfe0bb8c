---------------------------- MODULE FileLibrary ----------------------------
(***************************************************************************)
(* One user's file library on the server: the rows of table files, the     *)
(* files on disk under the user's directory, the semantic index, and the   *)
(* transfer-assistant messages that refer to rows.  Handlers of files.py,  *)
(* sync.py, transfer.py, v1/* and the agent tools are one action each.     *)
(*                                                                         *)
(* Rows are found by id or by path; the disk and the index know only the   *)
(* path.  Moving a file to the trash leaves it on disk at its path, so     *)
(* several rows (one active, others trashed) may stand over one file.      *)
(*                                                                         *)
(* Every handler is atomic here, and the vector store answers every call.  *)
(* A request refused before it changes anything is not a step.             *)
(***************************************************************************)
EXTENDS Naturals, Sequences, FiniteSets, Functions

CONSTANTS
  Id,           \* row ids (uuids): bounds how many rows are ever created
  Dir,          \* directories of the library
  Root,         \* the top directory, "" in original_dir
  NoDir,        \* original_dir never recorded (SQL NULL)
  Name,         \* file names
  Recovered,    \* Recovered[n]: the names "n (恢复)", "n (恢复 2)"... in order
  Content,      \* file contents, identified with their sha256
  Size,         \* Size[c]: the size of content c
  Guarded,      \* contents the content guard blocks
  Quota,        \* quota_mb, 0 is unlimited
  Retention,    \* days a file stays in the trash before automatic purge
  LockLimit,    \* DEFAULT_TRASH_LOCK_LIMIT
  MaxMessages,  \* bound: transfer messages per row
  NoFile,       \* nothing on disk at a path
  NoHash        \* a sync upload without base_hash

ASSUME ConstantsOK ==
  /\ Root \in Dir /\ NoDir \notin Dir
  /\ IsFiniteSet(Id)
  /\ Name # {} /\ Content # {} /\ Guarded \subseteq Content
  /\ Recovered \in [Name -> Seq(Name)]
  /\ Size \in [Content -> Nat]
  /\ Quota \in Nat /\ Retention \in Nat \ {0} /\ LockLimit \in Nat /\ MaxMessages \in Nat
  /\ NoFile \notin Content /\ NoHash \notin Content

VARIABLES
  phase,     \* phase[r]: "unborn", "active", "trash" (deleted_at set) or "gone"
  row,       \* row[r]: the columns of row r
  disk,      \* disk[p]: the content stored at path p, or NoFile
  index,     \* the paths that have a document in the vector store
  messages   \* messages[r]: how many transfer messages refer to row r

vars == <<phase, row, disk, index, messages>>

Path == Dir \X Name

\* orig is original_dir, age the days since deleted_at, locked is locked_at set.
Row == [path : Path, hash : Content, age : 0..Retention,
        orig : Dir \cup {NoDir}, locked : BOOLEAN]

NewRow(p, c) ==
  [path |-> p, hash |-> c, age |-> 0, orig |-> NoDir, locked |-> FALSE]

\* The value of row[r] while no row has id r.
NoRow == NewRow(CHOOSE p \in Path : TRUE, CHOOSE c \in Content : TRUE)

Phase == {"unborn", "active", "trash", "gone"}

\* The state variables have their types.
TypeOK ==
  /\ phase \in [Id -> Phase]
  /\ row \in [Id -> Row]
  /\ disk \in [Path -> Content \cup {NoFile}]
  /\ index \subseteq Path
  /\ messages \in [Id -> Nat]

Init ==
  /\ phase = [r \in Id |-> "unborn"]
  /\ row = [r \in Id |-> NoRow]
  /\ disk = [p \in Path |-> NoFile]
  /\ index = {}
  /\ messages = [r \in Id |-> 0]

-----------------------------------------------------------------------------
(* Queries *)

Unborn == {r \in Id : phase[r] = "unborn"}
Active == {r \in Id : phase[r] = "active"}
Trashed == {r \in Id : phase[r] = "trash"}
ActiveAt(p) == {r \in Active : row[r].path = p}
RowsAt(p) == {r \in Active \cup Trashed : row[r].path = p}

\* The bytes of row r, each a pair of the row and a position.
Bytes(r) == {r} \X (1..Size[row[r].hash])

\* Bytes used: the trash does not count.
Used == Cardinality(UNION {Bytes(r) : r \in Active})

Exceeds(bytes) == Quota > 0 /\ Used + bytes > Quota

Duplicates(c, p, self) ==
  {r \in Active \ self : row[r].hash = c /\ row[r].path # p}

-----------------------------------------------------------------------------
(* Ingest: services/ingest.py *)

\* MUTANTS of Rejected: the exact quota check, the duplicate check is missing.
RejectedWithoutQuota(p, c, self, quota, skip) ==
  \/ Duplicates(c, p, self) # {}
  \/ c \in Guarded /\ ~skip

RejectedWithoutDuplicates(p, c, self, quota, skip) ==
  \/ quota /\ Exceeds(Size[c])
  \/ c \in Guarded /\ ~skip

\* Checks made once the new content is already written over path p.
Rejected(p, c, self, quota, skip) ==
  \/ quota /\ Exceeds(Size[c])
  \/ Duplicates(c, p, self) # {}
  \/ c \in Guarded /\ ~skip

\* _rollback(): the path is deleted, whatever stood there before the upload.
Rollback(p) ==
  /\ disk' = [disk EXCEPT ![p] = NoFile]
  /\ UNCHANGED <<phase, row, index, messages>>

\* MUTANT of Slot: the upsert never looks for an active row.
SlotWithoutUpsert(p) == Unborn
\* Upsert by path: an active row if there is one, otherwise a new row.
Slot(p) == IF ActiveAt(p) # {} THEN ActiveAt(p) ELSE Unborn

Store(r, p, c) ==
  /\ r \in Slot(p)
  /\ phase' = [phase EXCEPT ![r] = "active"]
  /\ row' = IF phase[r] = "active" THEN [row EXCEPT ![r].hash = c]
            ELSE [row EXCEPT ![r] = NewRow(p, c)]
  /\ disk' = [disk EXCEPT ![p] = c]
  /\ index' = index \cup {p}

\* POST /files/upload, POST /v1/uploads: the size is unknown beforehand, so the
\* check before writing only refuses a user already over quota.
Upload(p, c, skip) ==
  /\ ~Exceeds(0)
  /\ IF Rejected(p, c, {}, TRUE, skip) THEN Rollback(p)
     ELSE \E r \in Id : Store(r, p, c) /\ UNCHANGED messages

\* POST /transfer/file: the same, and a message in the timeline.
SendFile(p, c) ==
  /\ ~Exceeds(0)
  /\ IF Rejected(p, c, {}, TRUE, FALSE) THEN Rollback(p)
     ELSE \E r \in Id :
            /\ Store(r, p, c)
            /\ messages[r] < MaxMessages
            /\ messages' = [messages EXCEPT ![r] = @ + 1]

\* POST /files/note, POST /v1/notes without an active file_id: the size is known.
CreateNote(p, c) ==
  /\ ~Exceeds(Size[c])
  /\ IF Rejected(p, c, {}, TRUE, FALSE) THEN Rollback(p)
     ELSE \E r \in Id : Store(r, p, c) /\ UNCHANGED messages

\* MUTANT of EditNote: the file at the old path is left behind.
EditNoteWithoutCleanup(r, p, c) ==
  /\ r \in Active
  /\ ~Exceeds(Size[c])
  /\ IF Rejected(p, c, {r}, TRUE, FALSE) THEN Rollback(p)
     ELSE /\ row' = [row EXCEPT ![r].path = p, ![r].hash = c]
          /\ disk' = [disk EXCEPT ![p] = c]
          /\ index' = (index \ {row[r].path}) \cup {p}
          /\ UNCHANGED <<phase, messages>>

\* The same with the file_id of an active row: the row moves to path p.
EditNote(r, p, c) ==
  /\ r \in Active
  /\ ~Exceeds(Size[c])
  /\ IF Rejected(p, c, {r}, TRUE, FALSE) THEN Rollback(p)
     ELSE /\ row' = [row EXCEPT ![r].path = p, ![r].hash = c]
          /\ disk' = [disk EXCEPT ![row[r].path] = NoFile, ![p] = c]
          /\ index' = (index \ {row[r].path}) \cup {p}
          /\ UNCHANGED <<phase, messages>>

\* POST /sync/upload: no quota, and base_hash must match the row found at the
\* path (trashed or not; which one is left to the database when there are two).
SyncUpload(p, c, base) ==
  /\ \/ base = NoHash
     \/ RowsAt(p) = {}
     \/ \E r \in RowsAt(p) : row[r].hash = base
  /\ IF Rejected(p, c, {}, FALSE, FALSE) THEN Rollback(p)
     ELSE \E r \in Id : Store(r, p, c) /\ UNCHANGED messages

-----------------------------------------------------------------------------
(* Renaming and deleting *)

\* PUT /files/rename: read the old file, write the new one, delete the old one.
\* A missing old file is an error before anything is written.
Rename(r, n) ==
  LET old == row[r].path
      new == <<old[1], n>>
  IN /\ r \in Active
     /\ new = old \/ ActiveAt(new) = {}
     /\ disk[old] # NoFile
     /\ disk' = [disk EXCEPT ![new] = disk[old], ![old] = NoFile]
     /\ row' = [row EXCEPT ![r].path = new]
     /\ index' = (index \ {old}) \cup {new}
     /\ UNCHANGED <<phase, messages>>

\* DELETE /files and the agent's delete_file: into the trash, the disk untouched.
SoftDelete(r) ==
  /\ r \in Active
  /\ phase' = [phase EXCEPT ![r] = "trash"]
  /\ row' = [row EXCEPT ![r].age = 0, ![r].orig = row[r].path[1]]
  /\ index' = index \ {row[r].path}
  /\ UNCHANGED <<disk, messages>>

\* Rows S leave the table, the files at their paths the disk and the index.
PurgeRows(S) ==
  LET gone == {row[r].path : r \in S}
  IN /\ phase' = [r \in Id |-> IF r \in S THEN "gone" ELSE phase[r]]
     /\ row' = [r \in Id |-> IF r \in S THEN NoRow ELSE row[r]]
     /\ disk' = [p \in Path |-> IF p \in gone THEN NoFile ELSE disk[p]]
     /\ index' = index \ gone
     /\ UNCHANGED messages

\* The agent's delete_file with purge: an active row, for good.
AgentPurge(r) == r \in Active /\ PurgeRows({r})

\* POST /sync/delete: whatever row the path finds first, trashed ones included.
SyncDelete(p) ==
  \/ \E r \in RowsAt(p) : PurgeRows({r})
  \/ /\ RowsAt(p) = {}
     /\ disk' = [disk EXCEPT ![p] = NoFile]
     /\ index' = index \ {p}
     /\ UNCHANGED <<phase, row, messages>>

\* MUTANT of TransferDelete: the row a message points at is not looked up.
TransferDeleteUnchecked(r) ==
  /\ messages[r] > 0
  /\ messages' = [messages EXCEPT ![r] = @ - 1]
  /\ phase' = [phase EXCEPT ![r] = "trash"]
  /\ row' = [row EXCEPT ![r].age = 0]
  /\ index' = index \ {row[r].path}
  /\ UNCHANGED disk

\* DELETE /transfer/{id}: the file of the message goes to the trash, again if it
\* is there already, and original_dir keeps what an earlier deletion recorded.
TransferDelete(r) ==
  /\ messages[r] > 0
  /\ messages' = [messages EXCEPT ![r] = @ - 1]
  /\ IF r \in Active \cup Trashed
     THEN /\ phase' = [phase EXCEPT ![r] = "trash"]
          /\ row' = [row EXCEPT ![r].age = 0]
          /\ index' = index \ {row[r].path}
     ELSE UNCHANGED <<phase, row, index>>
  /\ UNCHANGED disk

-----------------------------------------------------------------------------
(* The trash *)

\* MUTANT of HomePath: original_dir is used without asking whether it is set.
HomePathAlwaysDir(r) == <<row[r].orig, row[r].path[2]>>

\* Where a restored row belongs: original_dir/name, or its own path when
\* original_dir is NULL or the top directory.
HomePath(r) ==
  IF row[r].orig \in {NoDir, Root} THEN row[r].path
  ELSE <<row[r].orig, row[r].path[2]>>

Candidate(p, i) == <<p[1], Recovered[p[2]][i]>>

\* Candidate i is the first recovery name that no active row holds.
FirstFree(p, i) ==
  /\ i \in DOMAIN Recovered[p[2]]
  /\ ActiveAt(Candidate(p, i)) = {}
  /\ \A j \in 1..(i - 1) : ActiveAt(Candidate(p, j)) # {}

Restorable(r) ==
  /\ r \in Trashed
  /\ ~Exceeds(Size[row[r].hash])
  /\ \/ ActiveAt(HomePath(r)) = {}
     \/ \E i \in DOMAIN Recovered[row[r].path[2]] : FirstFree(HomePath(r), i)

\* Home if no active row is there, otherwise the first free recovery name.
RestoreTarget(r) ==
  LET home == HomePath(r)
  IN IF ActiveAt(home) = {} THEN home
     ELSE Candidate(home, CHOOSE i \in DOMAIN Recovered[home[2]] : FirstFree(home, i))

\* Rows of S that can be restored are, each judged against the table as it was
\* before the request (SessionLocal has autoflush off and there is one commit).
\* The file on disk does not move, locked_at and original_dir stay set.
RestoreRows(S) ==
  LET ok == {r \in S : Restorable(r)}
  IN /\ ok # {}
     /\ phase' = [r \in Id |-> IF r \in ok THEN "active" ELSE phase[r]]
     /\ row' = [r \in Id |->
                  IF r \in ok THEN [row[r] EXCEPT !.path = RestoreTarget(r), !.age = 0]
                  ELSE row[r]]
     /\ index' = index \cup {RestoreTarget(r) : r \in ok}
     /\ UNCHANGED <<disk, messages>>

\* POST /files/trash/restore, POST /v1/trash/{id}/restore, the agent's restore_file.
Restore(r) == RestoreRows({r})

\* POST /files/trash/restore-batch.
RestoreBatch(S) == RestoreRows(S)

\* DELETE /files/trash, DELETE /v1/trash/{id}: one row, locked or not.
PurgeOne(r) == r \in Trashed /\ PurgeRows({r})

\* services/trash.py purge_expired: at startup, from the worker, an admin, a user.
PurgeExpired ==
  LET expired == {r \in Trashed : row[r].age = Retention /\ ~row[r].locked}
  IN expired # {} /\ PurgeRows(expired)

\* POST /files/trash/purge-batch: locked rows are skipped.
PurgeBatch(S) ==
  LET chosen == {r \in S \cap Trashed : ~row[r].locked}
  IN chosen # {} /\ PurgeRows(chosen)

\* MUTANT of TrashEmpty: locked rows are not skipped.
TrashEmptyAll == Trashed # {} /\ PurgeRows(Trashed)

\* POST /files/trash/empty, DELETE /files/trash/all.
TrashEmpty == PurgeBatch(Trashed)

\* POST /files/trash/lock: the limit counts the locked rows of the trash.
Lock(r) ==
  /\ r \in Trashed /\ ~row[r].locked
  /\ Cardinality({q \in Trashed : row[q].locked}) < LockLimit
  /\ row' = [row EXCEPT ![r].locked = TRUE]
  /\ UNCHANGED <<phase, disk, index, messages>>

Unlock(r) ==
  /\ r \in Trashed /\ row[r].locked
  /\ row' = [row EXCEPT ![r].locked = FALSE]
  /\ UNCHANGED <<phase, disk, index, messages>>

-----------------------------------------------------------------------------
(* Scanning, time *)

Orphan(p) == disk[p] # NoFile /\ RowsAt(p) = {}

\* Each row of new is created for the file at[r], with the hash of that file.
Adopt(new, at) ==
  /\ phase' = [r \in Id |-> IF r \in new THEN "active" ELSE phase[r]]
  /\ row' = [r \in Id |-> IF r \in new THEN NewRow(at[r], disk[at[r]]) ELSE row[r]]

\* POST /files/index-all (core/indexer.py index_all): every file on disk is put
\* in the index, and a file no row stands for gets a row of its own.
IndexAll ==
  /\ \E new \in SUBSET Unborn :
       \E at \in Bijection(new, {p \in Path : Orphan(p)}) : Adopt(new, at)
  /\ index' = index \cup {p \in Path : disk[p] # NoFile}
  /\ UNCHANGED <<disk, messages>>

DayPasses ==
  /\ row' = [r \in Id |-> IF r \in Trashed /\ row[r].age < Retention
                          THEN [row[r] EXCEPT !.age = @ + 1] ELSE row[r]]
  /\ UNCHANGED <<phase, disk, index, messages>>

-----------------------------------------------------------------------------

AtPath(p) ==
  \/ \E c \in Content, skip \in BOOLEAN : Upload(p, c, skip)
  \/ \E c \in Content : SendFile(p, c)
  \/ \E c \in Content : CreateNote(p, c)
  \/ \E c \in Content, base \in Content \cup {NoHash} : SyncUpload(p, c, base)
  \/ \E r \in Id, c \in Content : EditNote(r, p, c)
  \/ SyncDelete(p)

OnRow(r) ==
  \/ \E n \in Name : Rename(r, n)
  \/ SoftDelete(r)
  \/ AgentPurge(r)
  \/ TransferDelete(r)
  \/ Restore(r)
  \/ PurgeOne(r)
  \/ Lock(r)
  \/ Unlock(r)

Sweep ==
  \/ \E S \in SUBSET Id : RestoreBatch(S)
  \/ \E S \in SUBSET Id : PurgeBatch(S)
  \/ PurgeExpired
  \/ TrashEmpty
  \/ IndexAll
  \/ DayPasses

Next ==
  \/ \E p \in Path : AtPath(p)
  \/ \E r \in Id : OnRow(r)
  \/ Sweep

Spec == Init /\ [][Next]_vars

-----------------------------------------------------------------------------
(* Properties *)

MovedHome(p) ==
  \E r \in Trashed : /\ row[r].path = p /\ HomePath(r) # p
                     /\ phase'[r] = "active"

\* No handler leaks disk space: a file on disk loses the last row that stands for
\* it only when a restore takes that row to another directory, which happens
\* because transfer-delete kept the original_dir of an earlier deletion.
OrphansOnlyByRestore ==
  [][\A p \in Path : Orphan(p)' => Orphan(p) \/ MovedHome(p)]_vars

UniquePaths == \A q, r \in Active : row[q].path = row[r].path => q = r

\* Of all the handlers only two can leave two active rows over one file: editing
\* a note onto a path another active row holds, and one batch restore.
CollisionsOnlyByEditOrBatch ==
  [][UniquePaths =>
       \/ UniquePaths'
       \/ \E r \in Active, p \in Path, c \in Content :
            ActiveAt(p) \ {r} # {} /\ EditNote(r, p, c)
       \/ \E S \in SUBSET Trashed : Cardinality(S) > 1 /\ RestoreBatch(S)]_vars

NoDuplicates ==
  \A q, r \in Active : row[q].hash = row[r].hash => row[q].path = row[r].path

\* The duplicate check of every ingest route holds the library to one active file
\* per content, until a restore or a disk scan (neither checks) brings back one.
DuplicatesOnlyByRestoreOrScan ==
  [][UniquePaths /\ NoDuplicates =>
       \/ NoDuplicates'
       \/ \E S \in SUBSET Trashed : RestoreRows(S)
       \/ IndexAll]_vars

OverQuota == Quota > 0 /\ Used > Quota

\* A step that takes the user further over quota is a sync upload (which never
\* checks), a disk scan or a restore of several files at once.
QuotaPassedOnlyByThese ==
  [][OverQuota' /\ Used' > Used =>
       \/ \E p \in Path, c \in Content, base \in Content \cup {NoHash} :
            SyncUpload(p, c, base)
       \/ IndexAll
       \/ \E S \in SUBSET Trashed : Cardinality(S) > 1 /\ RestoreBatch(S)]_vars

\* The file at p is taken away, or overwritten, through row q, whose file it is
\* as well: q is purged, renamed or edited, or a request finds q by the path.
TakenThrough(q, p) ==
  \/ phase'[q] = "gone"
  \/ \E n \in Name : Rename(q, n)
  \/ \E new \in Path, c \in Content : EditNote(q, new, c)
  \/ q \in Active /\ AtPath(p)

\* A locked row leaves the trash, or loses its lock, only by a request for that
\* very row, a batch restore that has it, or a device's delete of its path.  Its
\* file goes only with the row, with what is written to its path, or through
\* another row of the same path: no sweep takes the file of a locked row that
\* has its path to itself (trash.py:46, files.py:1380, 1423).
LockProtects ==
  [][\A r \in Trashed : row[r].locked =>
       LET p == row[r].path
       IN /\ \/ phase'[r] = "trash" /\ row'[r].locked
             \/ Unlock(r) \/ PurgeOne(r) \/ SyncDelete(p)
             \/ \E S \in SUBSET Id : r \in S /\ RestoreBatch(S)
          /\ \/ disk[p] = NoFile \/ disk'[p] = disk[p]
             \/ PurgeOne(r) \/ AtPath(p)
             \/ \E q \in Active : Rename(q, p[2]) /\ row'[q].path = p
             \/ \E q \in RowsAt(p) \ {r} : TakenThrough(q, p)]_vars

\* A row whose file has the content the row says keeps it so.  An active row
\* loses it only to an upload to its own path that is refused after it was
\* written, to a note that is moved onto its path when it is edited, and to a
\* rename to its own name; a row in the trash to whatever takes its path, and to
\* a restore, which moves the row but not the file.  Either loses it through
\* another row of the same path, as when an older version is purged from the
\* trash (trash.py:25, files.py:1426).
ContentLostOnlyAtItsPath ==
  [][\A r \in Active \cup Trashed :
       LET p == row[r].path
       IN disk[p] = row[r].hash /\ phase'[r] \in {"active", "trash"} =>
            \/ disk'[row'[r].path] = row'[r].hash
            \/ r \in Active /\ AtPath(p) /\ disk'[p] = NoFile /\ UNCHANGED <<phase, row>>
            \/ r \in Active /\ \E q \in Active \ {r}, c \in Content : EditNote(q, p, c)
            \/ r \in Active /\ Rename(r, p[2])
            \/ r \in Trashed /\ AtPath(p)
            \/ r \in Trashed /\ \E q \in Active : Rename(q, p[2]) /\ row'[q].path = p
            \/ r \in Trashed /\ phase'[r] = "active" /\ row'[r].path # p
            \/ \E q \in RowsAt(p) \ {r} : TakenThrough(q, p)]_vars

Lifecycle == INSTANCE FileLifecycle WITH
  age <- [r \in Id |-> row[r].age],
  locked <- [r \in Id |-> row[r].locked]

\* Each row goes through the life FileLifecycle describes.
LifecycleSpec == Lifecycle!Spec
=============================================================================
