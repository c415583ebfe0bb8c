------------------------- MODULE FileLibraryProofs -------------------------
(***************************************************************************)
(* What holds of FileLibrary for any number of rows, directories, names,   *)
(* contents and any quota, retention and limits: the types, what becomes   *)
(* of files and locks, that it implements FileLifecycle, and, from the few *)
(* kinds of step its handlers make, what brings two rows over one file,    *)
(* two files of one content, the loss of a content and an excess of the    *)
(* quota.                                                                  *)
(***************************************************************************)
EXTENDS FileLibrary, FiniteSetTheorems, TLAPS

-----------------------------------------------------------------------------
(* Paths, rows and recovery names *)

\* A path is a directory and a name.
LEMMA PathParts ==
  /\ \A p \in Path : p[1] \in Dir /\ p[2] \in Name /\ p = <<p[1], p[2]>>
  /\ \A d \in Dir, n \in Name : <<d, n>> \in Path
BY DEF Path

\* The placeholder of a row that does not exist is a row.
LEMMA NewRowType ==
  \A p \in Path, c \in Content : NewRow(p, c) \in Row
BY ConstantsOK DEF NewRow, Row

\* NoRow is a row.
LEMMA NoRowType == NoRow \in Row
<1>1. PICK n \in Name, c \in Content : TRUE
  BY ConstantsOK
<1>2. <<Root, n>> \in Path
  BY PathParts, ConstantsOK
<1> QED BY <1>1, <1>2, NewRowType DEF NoRow

\* The columns of a row.
LEMMA RowParts ==
  ASSUME TypeOK, NEW r \in Id
  PROVE  /\ row[r] \in Row /\ row[r].path \in Path /\ row[r].hash \in Content
         /\ row[r].age \in 0..Retention /\ row[r].orig \in Dir \cup {NoDir}
         /\ row[r].locked \in BOOLEAN
BY DEF TypeOK, Row

\* Assigning to columns of a row leaves a row.
LEMMA RowUpdates ==
  ASSUME NEW x \in Row
  PROVE  /\ \A p \in Path : [x EXCEPT !.path = p] \in Row
         /\ \A p \in Path : [x EXCEPT !.path = p, !.age = 0] \in Row
         /\ \A p \in Path, c \in Content : [x EXCEPT !.path = p, !.hash = c] \in Row
         /\ \A d \in Dir : [x EXCEPT !.age = 0, !.orig = d] \in Row
         /\ [x EXCEPT !.age = 0] \in Row
         /\ \A b \in BOOLEAN : [x EXCEPT !.locked = b] \in Row
         /\ x.age < Retention => [x EXCEPT !.age = @ + 1] \in Row
<1>1. \A y \in Row, p \in Path : [y EXCEPT !.path = p] \in Row
  BY DEF Row
<1>2. \A y \in Row, c \in Content : [y EXCEPT !.hash = c] \in Row
  BY DEF Row
<1>3. \A y \in Row, a \in 0..Retention : [y EXCEPT !.age = a] \in Row
  BY DEF Row
<1>4. \A y \in Row, d \in Dir : [y EXCEPT !.orig = d] \in Row
  BY DEF Row
<1>5. \A y \in Row, b \in BOOLEAN : [y EXCEPT !.locked = b] \in Row
  BY DEF Row
<1>6. 0 \in 0..Retention /\ (x.age < Retention => x.age + 1 \in 0..Retention)
  BY ConstantsOK DEF Row
<1> QED BY <1>1, <1>2, <1>3, <1>4, <1>5, <1>6

\* original_dir and a name make a path.
LEMMA HomeType ==
  ASSUME TypeOK, NEW r \in Id
  PROVE  /\ HomePath(r) \in Path
         /\ HomePath(r)[2] = row[r].path[2]
BY RowParts, PathParts, ConstantsOK DEF HomePath

\* A recovery name of a path is a path.
LEMMA CandidateType ==
  ASSUME NEW p \in Path, NEW i \in DOMAIN Recovered[p[2]]
  PROVE  Candidate(p, i) \in Path
<1>1. p[1] \in Dir /\ p[2] \in Name
  BY PathParts
<1>2. Recovered[p[2]] \in Seq(Name)
  BY <1>1, ConstantsOK
<1>3. Recovered[p[2]][i] \in Name
  BY <1>2
<1> QED BY <1>1, <1>3, PathParts DEF Candidate

\* A restored row goes to a path, and to one no active row holds.
LEMMA TargetFree ==
  ASSUME TypeOK, NEW r \in Id, Restorable(r)
  PROVE  /\ RestoreTarget(r) \in Path
         /\ ActiveAt(RestoreTarget(r)) = {}
<1> DEFINE home == HomePath(r)
           free == CHOOSE i \in DOMAIN Recovered[home[2]] : FirstFree(home, i)
<1>1. home \in Path /\ home[2] = row[r].path[2]
  BY HomeType
<1>2. CASE ActiveAt(home) = {}
  BY <1>1, <1>2 DEF RestoreTarget
<1>3. CASE ActiveAt(home) # {}
  <2>1. \E i \in DOMAIN Recovered[home[2]] : FirstFree(home, i)
    BY <1>1, <1>3 DEF Restorable
  <2>2. free \in DOMAIN Recovered[home[2]] /\ FirstFree(home, free)
    BY <2>1
  <2>3. RestoreTarget(r) = Candidate(home, free)
    BY <1>3 DEF RestoreTarget
  <2> HIDE DEF home, free
  <2>4. Candidate(home, free) \in Path
    BY <1>1, <2>2, CandidateType
  <2>5. ActiveAt(Candidate(home, free)) = {}
    BY <2>2 DEF FirstFree
  <2> QED BY <2>3, <2>4, <2>5
<1> QED BY <1>2, <1>3

-----------------------------------------------------------------------------
(* Types *)

\* The library starts empty.
LEMMA InitType == Init => TypeOK
BY NoRowType, ConstantsOK DEF Init, TypeOK, Phase

\* What a successful ingest does to the table, the disk and the index.
LEMMA StoreType ==
  ASSUME TypeOK, NEW r \in Id, NEW p \in Path, NEW c \in Content, Store(r, p, c)
  PROVE  /\ phase' \in [Id -> Phase] /\ row' \in [Id -> Row]
         /\ disk' \in [Path -> Content \cup {NoFile}] /\ index' \subseteq Path
<1>1. phase' \in [Id -> Phase]
  BY DEF Store, TypeOK, Phase
<1>2. row' \in [Id -> Row]
  <2>1. NewRow(p, c) \in Row
    BY NewRowType
  <2>2. [row[r] EXCEPT !.hash = c] \in Row
    BY RowParts DEF Row
  <2> QED BY <2>1, <2>2 DEF Store, TypeOK
<1>3. disk' \in [Path -> Content \cup {NoFile}] /\ index' \subseteq Path
  BY DEF Store, TypeOK
<1> QED BY <1>1, <1>2, <1>3

\* A refused upload.
LEMMA RollbackType ==
  ASSUME TypeOK, NEW p \in Path, Rollback(p)
  PROVE  TypeOK'
BY DEF Rollback, TypeOK

\* A purge forgets rows, files and index entries.
LEMMA PurgeType ==
  ASSUME TypeOK, NEW S, PurgeRows(S)
  PROVE  TypeOK'
BY NoRowType DEF PurgeRows, TypeOK, Phase

\* A restore moves rows to paths.
LEMMA RestoreType ==
  ASSUME TypeOK, NEW S \in SUBSET Id, RestoreRows(S)
  PROVE  TypeOK'
<1> DEFINE ok == {r \in S : Restorable(r)}
<1>1. \A r \in ok : RestoreTarget(r) \in Path
  BY TargetFree
<1>2. \A r \in ok : [row[r] EXCEPT !.path = RestoreTarget(r), !.age = 0] \in Row
  BY <1>1, RowParts, RowUpdates
<1>3. /\ phase' = [r \in Id |-> IF r \in ok THEN "active" ELSE phase[r]]
      /\ row' = [r \in Id |->
                   IF r \in ok THEN [row[r] EXCEPT !.path = RestoreTarget(r), !.age = 0]
                   ELSE row[r]]
      /\ index' = index \cup {RestoreTarget(r) : r \in ok}
      /\ disk' = disk /\ messages' = messages
  BY DEF RestoreRows
<1> HIDE DEF ok
<1>4. phase' \in [Id -> Phase]
  BY <1>3 DEF TypeOK, Phase
<1>5. row' \in [Id -> Row]
  <2>1. \A r \in Id : (IF r \in ok THEN [row[r] EXCEPT !.path = RestoreTarget(r), !.age = 0]
                       ELSE row[r]) \in Row
    BY <1>2, RowParts
  <2> QED BY <1>3, <2>1
<1>6. index' \subseteq Path
  BY <1>1, <1>3 DEF TypeOK
<1> QED BY <1>3, <1>4, <1>5, <1>6 DEF TypeOK

\* A disk scan gives each file no row stands for a new row of its own.
LEMMA Adoption ==
  ASSUME TypeOK, IndexAll
  PROVE  \E new \in SUBSET Unborn : \E at \in [new -> Path] :
           /\ Adopt(new, at)
           /\ \A r \in new : disk[at[r]] \in Content /\ RowsAt(at[r]) = {}
           /\ \A q, r \in new : at[q] = at[r] => q = r
           /\ \A p \in Path : Orphan(p) => \E r \in new : at[r] = p
<1>1. PICK new \in SUBSET Unborn :
        \E at \in Bijection(new, {p \in Path : Orphan(p)}) : Adopt(new, at)
  BY DEF IndexAll
<1>2. PICK at \in Bijection(new, {p \in Path : Orphan(p)}) : Adopt(new, at)
  BY <1>1
<1>3. /\ at \in [new -> {p \in Path : Orphan(p)}]
      /\ \A q, r \in new : at[q] = at[r] => q = r
      /\ \A p \in {p \in Path : Orphan(p)} : \E r \in new : at[r] = p
  BY DEF Bijection, Injection, Surjection, IsInjective
<1>4. at \in [new -> Path] /\ \A r \in new : Orphan(at[r])
  BY <1>3
<1>5. \A r \in new : disk[at[r]] \in Content /\ RowsAt(at[r]) = {}
  BY <1>4 DEF Orphan, TypeOK
<1> QED BY <1>2, <1>3, <1>4, <1>5

\* Every action keeps the types: one step per action, grouped as in Next.
LEMMA AtPathType ==
  ASSUME TypeOK, NEW p \in Path, AtPath(p)
  PROVE  TypeOK'
<1>1. ASSUME NEW r \in Id, NEW c \in Content, Store(r, p, c), UNCHANGED messages
      PROVE  TypeOK'
  BY <1>1, StoreType DEF TypeOK
<1>2. ASSUME NEW c \in Content, NEW skip \in BOOLEAN, Upload(p, c, skip)
      PROVE  TypeOK'
  BY <1>1, <1>2, RollbackType DEF Upload
<1>3. ASSUME NEW c \in Content, SendFile(p, c)
      PROVE  TypeOK'
  <2>1. CASE Rejected(p, c, {}, TRUE, FALSE)
    BY <1>3, <2>1, RollbackType DEF SendFile
  <2>2. CASE ~Rejected(p, c, {}, TRUE, FALSE)
    <3>1. PICK r \in Id : Store(r, p, c) /\ messages' = [messages EXCEPT ![r] = @ + 1]
      BY <1>3, <2>2 DEF SendFile
    <3>2. messages' \in [Id -> Nat]
      BY <3>1 DEF TypeOK
    <3> QED BY <3>1, <3>2, StoreType DEF TypeOK
  <2> QED BY <2>1, <2>2
<1>4. ASSUME NEW c \in Content, CreateNote(p, c)
      PROVE  TypeOK'
  BY <1>1, <1>4, RollbackType DEF CreateNote
<1>5. ASSUME NEW c \in Content, NEW base \in Content \cup {NoHash}, SyncUpload(p, c, base)
      PROVE  TypeOK'
  BY <1>1, <1>5, RollbackType DEF SyncUpload
<1>6. ASSUME NEW r \in Id, NEW c \in Content, EditNote(r, p, c)
      PROVE  TypeOK'
  <2>1. CASE Rejected(p, c, {r}, TRUE, FALSE)
    BY <1>6, <2>1, RollbackType DEF EditNote
  <2>2. CASE ~Rejected(p, c, {r}, TRUE, FALSE)
    <3>1. /\ row' = [row EXCEPT ![r].path = p, ![r].hash = c]
          /\ disk' = [disk EXCEPT ![row[r].path] = NoFile, ![p] = c]
          /\ index' = (index \ {row[r].path}) \cup {p}
          /\ UNCHANGED <<phase, messages>>
      BY <1>6, <2>2 DEF EditNote
    <3>2. [row[r] EXCEPT !.path = p, !.hash = c] \in Row
      BY RowParts, RowUpdates
    <3>3. row' = [row EXCEPT ![r] = [row[r] EXCEPT !.path = p, !.hash = c]]
      BY <3>1 DEF TypeOK
    <3>4. row' \in [Id -> Row]
      BY <3>2, <3>3 DEF TypeOK
    <3> QED BY <3>1, <3>4 DEF TypeOK
  <2> QED BY <2>1, <2>2
<1>7. ASSUME SyncDelete(p) PROVE TypeOK'
  BY <1>7, PurgeType DEF SyncDelete, TypeOK
<1> QED BY <1>2, <1>3, <1>4, <1>5, <1>6, <1>7 DEF AtPath

\* The handlers that are given a row.
LEMMA OnRowType ==
  ASSUME TypeOK, NEW r \in Id, OnRow(r)
  PROVE  TypeOK'
<1>1. ASSUME NEW n \in Name, Rename(r, n) PROVE TypeOK'
  <2> DEFINE old == row[r].path
             new == <<old[1], n>>
  <2>1. new \in Path /\ old \in Path
    BY RowParts, PathParts
  <2>2. /\ disk[old] # NoFile
        /\ disk' = [disk EXCEPT ![new] = disk[old], ![old] = NoFile]
        /\ row' = [row EXCEPT ![r].path = new]
        /\ index' = (index \ {old}) \cup {new}
        /\ UNCHANGED <<phase, messages>>
    BY <1>1 DEF Rename
  <2>3. row' \in [Id -> Row]
    BY <2>1, <2>2, RowParts, RowUpdates DEF TypeOK
  <2> HIDE DEF old, new
  <2> QED BY <2>1, <2>2, <2>3 DEF TypeOK
<1>2. ASSUME SoftDelete(r) PROVE TypeOK'
  <2>1. row[r].path[1] \in Dir
    BY RowParts, PathParts
  <2>2. row' = [row EXCEPT ![r] = [row[r] EXCEPT !.age = 0, !.orig = row[r].path[1]]]
    BY <1>2 DEF SoftDelete, TypeOK
  <2>3. row' \in [Id -> Row]
    BY <2>1, <2>2, RowParts, RowUpdates DEF TypeOK
  <2> QED BY <1>2, <2>3 DEF SoftDelete, TypeOK, Phase
<1>3. ASSUME AgentPurge(r) PROVE TypeOK'
  BY <1>3, PurgeType DEF AgentPurge
<1>4. ASSUME TransferDelete(r) PROVE TypeOK'
  <2>1. row' \in [Id -> Row] /\ phase' \in [Id -> Phase] /\ index' \subseteq Path
    BY <1>4, RowParts, RowUpdates DEF TransferDelete, TypeOK, Phase
  <2>2. messages' \in [Id -> Nat] /\ disk' = disk
    BY <1>4 DEF TransferDelete, TypeOK
  <2> QED BY <2>1, <2>2 DEF TypeOK
<1>5. ASSUME Restore(r) PROVE TypeOK'
  BY <1>5, RestoreType DEF Restore
<1>6. ASSUME PurgeOne(r) PROVE TypeOK'
  BY <1>6, PurgeType DEF PurgeOne
<1>7. ASSUME Lock(r) PROVE TypeOK'
  BY <1>7, RowParts, RowUpdates DEF Lock, TypeOK
<1>8. ASSUME Unlock(r) PROVE TypeOK'
  BY <1>8, RowParts, RowUpdates DEF Unlock, TypeOK
<1> QED BY <1>1, <1>2, <1>3, <1>4, <1>5, <1>6, <1>7, <1>8 DEF OnRow

\* The handlers that take many rows, scans and time.
LEMMA SweepType ==
  ASSUME TypeOK, Sweep
  PROVE  TypeOK'
<1>1. ASSUME NEW S \in SUBSET Id, RestoreBatch(S) PROVE TypeOK'
  BY <1>1, RestoreType DEF RestoreBatch
<1>2. ASSUME NEW S \in SUBSET Id, PurgeBatch(S) PROVE TypeOK'
  BY <1>2, PurgeType DEF PurgeBatch
<1>3. ASSUME PurgeExpired PROVE TypeOK'
  BY <1>3, PurgeType DEF PurgeExpired
<1>4. ASSUME TrashEmpty PROVE TypeOK'
  BY <1>4, PurgeType DEF TrashEmpty, PurgeBatch
<1>5. ASSUME IndexAll PROVE TypeOK'
  <2>1. PICK new \in SUBSET Unborn : \E at \in [new -> Path] :
          Adopt(new, at) /\ \A r \in new : disk[at[r]] \in Content
    BY <1>5, Adoption
  <2>2. PICK at \in [new -> Path] :
          Adopt(new, at) /\ \A r \in new : disk[at[r]] \in Content
    BY <2>1
  <2>3. row' \in [Id -> Row]
    BY <2>2, NewRowType DEF Adopt, TypeOK
  <2>4. phase' \in [Id -> Phase]
    BY <2>2 DEF Adopt, TypeOK, Phase
  <2> QED BY <1>5, <2>3, <2>4 DEF IndexAll, TypeOK
<1>6. ASSUME DayPasses PROVE TypeOK'
  <2>1. \A r \in Id : (IF r \in Trashed /\ row[r].age < Retention
                       THEN [row[r] EXCEPT !.age = @ + 1] ELSE row[r]) \in Row
    BY RowParts, RowUpdates
  <2> QED BY <1>6, <2>1 DEF DayPasses, TypeOK
<1> QED BY <1>1, <1>2, <1>3, <1>4, <1>5, <1>6 DEF Sweep

\* Every step keeps the types.
LEMMA NextType == TypeOK /\ [Next]_vars => TypeOK'
<1> SUFFICES ASSUME TypeOK, [Next]_vars PROVE TypeOK'
  OBVIOUS
<1>1. ASSUME NEW p \in Path, AtPath(p) PROVE TypeOK'
  BY <1>1, AtPathType
<1>2. ASSUME NEW r \in Id, OnRow(r) PROVE TypeOK'
  BY <1>2, OnRowType
<1>3. ASSUME Sweep PROVE TypeOK'
  BY <1>3, SweepType
<1>4. ASSUME UNCHANGED vars PROVE TypeOK'
  BY <1>4 DEF vars, TypeOK
<1> QED BY <1>1, <1>2, <1>3, <1>4 DEF Next

\* The library never leaves its types: in particular a restore always finds a
\* path, and every row a disk scan adopts has a content.
THEOREM TypeCorrect == Spec => []TypeOK
BY InitType, NextType, PTL DEF Spec

-----------------------------------------------------------------------------
(* Orphans *)

\* A file on disk that no row of the library or of the trash stands for, now and
\* after a step.
LEMMA OrphanMeans ==
  /\ \A p : Orphan(p) <=> /\ disk[p] # NoFile
                          /\ \A r \in Id : phase[r] \in {"active", "trash"} => row[r].path # p
  /\ \A p : Orphan(p)' <=> /\ disk'[p] # NoFile
                           /\ \A r \in Id : phase'[r] \in {"active", "trash"} => row'[r].path # p
BY DEF Orphan, RowsAt, Active, Trashed

\* Rows that stay where they are keep their files from becoming orphans.
LEMMA RowsStay ==
  ASSUME NEW p \in Path, Orphan(p)', ~Orphan(p),
         disk'[p] # NoFile => disk[p] # NoFile
  PROVE  \E r \in Id : /\ phase[r] \in {"active", "trash"} /\ row[r].path = p
                       /\ phase'[r] \in {"active", "trash"} => row'[r].path # p
BY OrphanMeans

\* A successful ingest owns the file it writes.
LEMMA StoreOrphan ==
  ASSUME TypeOK, NEW r \in Id, NEW p \in Path, NEW c \in Content, Store(r, p, c),
         NEW q \in Path, Orphan(q)'
  PROVE  Orphan(q)
<1>1. phase'[r] = "active" /\ row'[r].path = p
  BY DEF Store, Slot, ActiveAt, Active, Unborn, NewRow, TypeOK
<1>2. q # p
  BY <1>1, OrphanMeans
<1>3. disk'[q] = disk[q]
  BY <1>2 DEF Store, TypeOK
<1>4. \A s \in Id : phase[s] \in {"active", "trash"} /\ row[s].path = q =>
                   phase'[s] = phase[s] /\ row'[s].path = q
  BY <1>2 DEF Store, Slot, ActiveAt, Active, Unborn, TypeOK
<1> QED BY <1>3, <1>4, OrphanMeans

\* A purge deletes the files of the rows it takes.
LEMMA PurgeOrphan ==
  ASSUME TypeOK, NEW S, PurgeRows(S), NEW q \in Path, Orphan(q)'
  PROVE  Orphan(q)
<1>1. disk'[q] # NoFile => disk[q] # NoFile /\ \A r \in S : row[r].path # q
  BY DEF PurgeRows
<1>2. \A r \in Id \ S : phase'[r] = phase[r] /\ row'[r] = row[r]
  BY DEF PurgeRows
<1> QED BY <1>1, <1>2, OrphanMeans

\* A restore leaves an orphan only where a row goes home to another directory: a
\* row whose home is its own path stays, or an active row is there already.
LEMMA RestoreOrphan ==
  ASSUME TypeOK, NEW S \in SUBSET Id, RestoreRows(S), NEW q \in Path, Orphan(q)'
  PROVE  Orphan(q) \/ MovedHome(q)
<1> DEFINE ok == {r \in S : Restorable(r)}
<1>1. /\ \A r \in ok : /\ r \in Trashed /\ phase'[r] = "active"
                       /\ row'[r].path = RestoreTarget(r)
      /\ \A r \in Id \ ok : phase'[r] = phase[r] /\ row'[r] = row[r]
      /\ disk' = disk
  BY DEF RestoreRows, Restorable, TypeOK, Row
<1>2. \A r \in Active : r \in Id \ ok
  BY DEF Active, Trashed, Restorable
<1> HIDE DEF ok
<1>3. SUFFICES ASSUME ~Orphan(q), ~MovedHome(q) PROVE FALSE
  OBVIOUS
<1>4. PICK r \in Id : /\ phase[r] \in {"active", "trash"} /\ row[r].path = q
                      /\ phase'[r] \in {"active", "trash"} => row'[r].path # q
  BY <1>1, <1>3, RowsStay
<1>5. r \in ok
  BY <1>1, <1>4
<1>6. r \in Trashed /\ phase'[r] = "active" /\ RestoreTarget(r) # q
  BY <1>1, <1>4, <1>5
<1>7. HomePath(r) = q
  BY <1>3, <1>4, <1>6 DEF MovedHome
<1>8. ActiveAt(q) # {}
  BY <1>6, <1>7 DEF RestoreTarget
<1>9. \E s \in Id : phase'[s] = "active" /\ row'[s].path = q
  BY <1>1, <1>2, <1>8 DEF ActiveAt, Active
<1> QED BY <1>9, OrphanMeans

\* A step that only removes files, or that leaves every row of the library or of
\* the trash in one of the two and at its path, makes no orphan.
LEMMA NoMoveNoOrphan ==
  ASSUME NEW q \in Path, Orphan(q)',
         disk'[q] # NoFile => disk[q] # NoFile,
         \A r \in Id : phase[r] \in {"active", "trash"} =>
           phase'[r] \in {"active", "trash"} /\ row'[r].path = row[r].path
  PROVE  Orphan(q)
BY OrphanMeans

\* A refused upload deletes the file it wrote.
LEMMA RollbackOrphan ==
  ASSUME TypeOK, NEW p \in Path, Rollback(p), NEW q \in Path, Orphan(q)'
  PROVE  Orphan(q)
BY NoMoveNoOrphan DEF Rollback, TypeOK

\* The same of a step that moves one row r away from a path it clears.
LEMMA MoveNoOrphan ==
  ASSUME NEW q \in Path, Orphan(q)', NEW r \in Id,
         phase[r] = "active", phase' = phase,
         row'[r].path # q /\ disk'[q] # NoFile => disk[q] # NoFile /\ row[r].path # q,
         \A s \in Id \ {r} : row'[s] = row[s]
  PROVE  Orphan(q)
<1>1. /\ disk'[q] # NoFile
      /\ \A s \in Id : phase'[s] \in {"active", "trash"} => row'[s].path # q
  BY OrphanMeans
<1>2. row'[r].path # q
  BY <1>1
<1>3. disk[q] # NoFile /\ row[r].path # q
  BY <1>1, <1>2
<1>4. \A s \in Id : phase[s] \in {"active", "trash"} => row[s].path # q
  BY <1>1, <1>3
<1> QED BY <1>3, <1>4, OrphanMeans

\* The handlers that are given a path.
LEMMA AtPathOrphan ==
  ASSUME TypeOK, NEW p \in Path, AtPath(p), NEW q \in Path, Orphan(q)'
  PROVE  Orphan(q)
<1>1. ASSUME NEW c \in Content, NEW skip \in BOOLEAN, Upload(p, c, skip)
      PROVE  Orphan(q)
  BY <1>1, StoreOrphan, RollbackOrphan DEF Upload
<1>2. ASSUME NEW c \in Content, SendFile(p, c) PROVE Orphan(q)
  BY <1>2, StoreOrphan, RollbackOrphan DEF SendFile
<1>3. ASSUME NEW c \in Content, CreateNote(p, c) PROVE Orphan(q)
  BY <1>3, StoreOrphan, RollbackOrphan DEF CreateNote
<1>4. ASSUME NEW c \in Content, NEW base \in Content \cup {NoHash}, SyncUpload(p, c, base)
      PROVE  Orphan(q)
  BY <1>4, StoreOrphan, RollbackOrphan DEF SyncUpload
<1>5. ASSUME NEW r \in Id, NEW c \in Content, EditNote(r, p, c) PROVE Orphan(q)
  <2>1. CASE Rejected(p, c, {r}, TRUE, FALSE)
    BY <1>5, <2>1, RollbackOrphan DEF EditNote
  <2>2. CASE ~Rejected(p, c, {r}, TRUE, FALSE)
    <3>1. /\ phase[r] = "active" /\ phase' = phase
          /\ row' = [row EXCEPT ![r].path = p, ![r].hash = c]
          /\ disk' = [disk EXCEPT ![row[r].path] = NoFile, ![p] = c]
      BY <1>5, <2>2 DEF EditNote, Active
    <3>2. row'[r].path = p
      BY <3>1, RowParts DEF TypeOK, Row
    <3>3. q # p /\ disk'[q] # NoFile => disk[q] # NoFile /\ row[r].path # q
      BY <3>1, RowParts DEF TypeOK
    <3>4. \A s \in Id \ {r} : row'[s] = row[s]
      BY <3>1 DEF TypeOK
    <3> QED BY <3>1, <3>2, <3>3, <3>4, MoveNoOrphan
  <2> QED BY <2>1, <2>2
<1>6. ASSUME SyncDelete(p) PROVE Orphan(q)
  <2>1. CASE \E r \in RowsAt(p) : PurgeRows({r})
    BY <2>1, PurgeOrphan
  <2>2. CASE ~ \E r \in RowsAt(p) : PurgeRows({r})
    BY <1>6, <2>2, NoMoveNoOrphan DEF SyncDelete, TypeOK
  <2> QED BY <2>1, <2>2
<1> QED BY <1>1, <1>2, <1>3, <1>4, <1>5, <1>6 DEF AtPath

\* The handlers that are given a row.
LEMMA OnRowOrphan ==
  ASSUME TypeOK, NEW r \in Id, OnRow(r), NEW q \in Path, Orphan(q)'
  PROVE  Orphan(q) \/ MovedHome(q)
<1>1. ASSUME NEW n \in Name, Rename(r, n) PROVE Orphan(q)
  <2> DEFINE old == row[r].path
             new == <<old[1], n>>
  <2>1. new \in Path /\ old \in Path
    BY RowParts, PathParts
  <2>2. /\ phase[r] = "active" /\ phase' = phase
        /\ disk' = [disk EXCEPT ![new] = disk[old], ![old] = NoFile]
        /\ row' = [row EXCEPT ![r].path = new]
    BY <1>1 DEF Rename, Active
  <2>3. row'[r].path = new /\ \A s \in Id \ {r} : row'[s] = row[s]
    BY <2>1, <2>2, RowParts DEF TypeOK, Row
  <2> HIDE DEF old, new
  <2>4. q # new /\ disk'[q] # NoFile => disk[q] # NoFile /\ old # q
    BY <2>1, <2>2 DEF TypeOK
  <2> QED BY <2>2, <2>3, <2>4, MoveNoOrphan DEF old
<1>2. ASSUME SoftDelete(r) PROVE Orphan(q)
  <2>1. \A s \in Id : row'[s].path = row[s].path
    BY <1>2, RowParts DEF SoftDelete, TypeOK, Row
  <2> QED BY <1>2, <2>1, NoMoveNoOrphan DEF SoftDelete, TypeOK
<1>3. ASSUME AgentPurge(r) PROVE Orphan(q)
  BY <1>3, PurgeOrphan DEF AgentPurge
<1>4. ASSUME TransferDelete(r) PROVE Orphan(q)
  <2>1. \A s \in Id : row'[s].path = row[s].path
    BY <1>4, RowParts DEF TransferDelete, TypeOK, Row
  <2>2. \A s \in Id : phase[s] \in {"active", "trash"} => phase'[s] \in {"active", "trash"}
    BY <1>4 DEF TransferDelete, TypeOK
  <2> QED BY <1>4, <2>1, <2>2, NoMoveNoOrphan DEF TransferDelete
<1>5. ASSUME Restore(r) PROVE Orphan(q) \/ MovedHome(q)
  BY <1>5, RestoreOrphan DEF Restore
<1>6. ASSUME PurgeOne(r) PROVE Orphan(q)
  BY <1>6, PurgeOrphan DEF PurgeOne
<1>7. ASSUME Lock(r) \/ Unlock(r) PROVE Orphan(q)
  <2>1. \A x \in Row, b \in BOOLEAN : [x EXCEPT !.locked = b].path = x.path
    BY DEF Row
  <2>2. \E b \in BOOLEAN : row' = [row EXCEPT ![r] = [row[r] EXCEPT !.locked = b]]
    BY <1>7 DEF Lock, Unlock, TypeOK
  <2>3. \A s \in Id : row'[s].path = row[s].path
    BY <2>1, <2>2, RowParts DEF TypeOK
  <2> QED BY <1>7, <2>3, NoMoveNoOrphan DEF Lock, Unlock
<1> QED BY <1>1, <1>2, <1>3, <1>4, <1>5, <1>6, <1>7 DEF OnRow

\* The handlers that take many rows, scans and time.
LEMMA SweepOrphan ==
  ASSUME TypeOK, Sweep, NEW q \in Path, Orphan(q)'
  PROVE  Orphan(q) \/ MovedHome(q)
<1>1. ASSUME NEW S \in SUBSET Id, RestoreBatch(S) PROVE Orphan(q) \/ MovedHome(q)
  BY <1>1, RestoreOrphan DEF RestoreBatch
<1>2. ASSUME NEW S \in SUBSET Id, PurgeBatch(S) PROVE Orphan(q)
  BY <1>2, PurgeOrphan DEF PurgeBatch
<1>3. ASSUME PurgeExpired PROVE Orphan(q)
  BY <1>3, PurgeOrphan DEF PurgeExpired
<1>4. ASSUME TrashEmpty PROVE Orphan(q)
  BY <1>4, PurgeOrphan DEF TrashEmpty, PurgeBatch
<1>5. ASSUME IndexAll PROVE Orphan(q)
  <2>1. PICK new \in SUBSET Unborn : \E at \in [new -> Path] : Adopt(new, at)
    BY <1>5, Adoption
  <2>2. \A s \in Id : phase[s] \in {"active", "trash"} =>
                      phase'[s] = phase[s] /\ row'[s] = row[s]
    BY <2>1 DEF Adopt, Unborn
  <2> QED BY <1>5, <2>2, NoMoveNoOrphan DEF IndexAll
<1>6. ASSUME DayPasses PROVE Orphan(q)
  <2>1. \A s \in Id : row'[s].path = row[s].path
    <3>1. \A x \in Row : [x EXCEPT !.age = @ + 1].path = x.path
      BY DEF Row
    <3> QED BY <1>6, <3>1, RowParts DEF DayPasses
  <2> QED BY <1>6, <2>1, NoMoveNoOrphan DEF DayPasses
<1> QED BY <1>1, <1>2, <1>3, <1>4, <1>5, <1>6 DEF Sweep

\* Whatever the number of rows and paths, a step leaves a file on disk without a
\* row only by restoring a row to another directory than the one it lies in.
THEOREM OnlyRestoreOrphans == Spec => OrphansOnlyByRestore
<1>1. TypeOK /\ [Next]_vars =>
        [\A p \in Path : Orphan(p)' => Orphan(p) \/ MovedHome(p)]_vars
  <2> SUFFICES ASSUME TypeOK, Next, NEW p \in Path, Orphan(p)'
               PROVE  Orphan(p) \/ MovedHome(p)
    BY DEF vars
  <2> QED BY AtPathOrphan, OnRowOrphan, SweepOrphan DEF Next
<1> QED BY <1>1, TypeCorrect, PTL DEF Spec, OrphansOnlyByRestore


-----------------------------------------------------------------------------
(* Locks *)

\* What LockProtects allows a step to do to a locked row of the trash.
LockKept(r) ==
  \/ phase'[r] = "trash" /\ row'[r].locked
  \/ Unlock(r) \/ PurgeOne(r) \/ SyncDelete(row[r].path)
  \/ \E S \in SUBSET Id : r \in S /\ RestoreBatch(S)

\* A row that keeps its phase and its columns keeps its lock.
LEMMA UnchangedKept ==
  ASSUME NEW r \in Trashed, row[r].locked, phase'[r] = phase[r], row'[r] = row[r]
  PROVE  LockKept(r)
BY DEF LockKept, Trashed

\* Ingest looks for active rows and new ones.
LEMMA StoreKept ==
  ASSUME TypeOK, NEW r \in Trashed, row[r].locked,
         NEW q \in Id, NEW p \in Path, NEW c \in Content, Store(q, p, c)
  PROVE  LockKept(r)
<1>1. q # r
  BY DEF Store, Slot, ActiveAt, Active, Unborn, Trashed
<1> QED BY <1>1, UnchangedKept DEF Store, TypeOK, Trashed

\* A sweep that takes rows S without a lock does not take r.
LEMMA SweepKept ==
  ASSUME TypeOK, NEW r \in Trashed, row[r].locked, NEW S, r \notin S, PurgeRows(S)
  PROVE  LockKept(r)
BY UnchangedKept DEF PurgeRows, Trashed

\* A restore of several rows takes r back or leaves it.
LEMMA RestoreKept ==
  ASSUME TypeOK, NEW r \in Trashed, row[r].locked, NEW S \in SUBSET Id, RestoreRows(S)
  PROVE  LockKept(r)
<1> DEFINE ok == {q \in S : Restorable(q)}
<1>1. CASE r \in ok
  BY <1>1 DEF LockKept, RestoreBatch
<1>2. CASE r \notin ok
  <2>1. phase'[r] = phase[r] /\ row'[r] = row[r]
    BY <1>2 DEF RestoreRows, Trashed
  <2> QED BY <2>1, UnchangedKept
<1> QED BY <1>1, <1>2

\* The handlers that are given a path.
LEMMA AtPathKept ==
  ASSUME TypeOK, NEW r \in Trashed, row[r].locked, NEW p \in Path, AtPath(p)
  PROVE  LockKept(r)
<1>1. Rollback(p) => LockKept(r)
  BY UnchangedKept DEF Rollback
<1>2. ASSUME NEW c \in Content, NEW skip \in BOOLEAN, Upload(p, c, skip)
      PROVE  LockKept(r)
  BY <1>1, <1>2, StoreKept DEF Upload
<1>3. ASSUME NEW c \in Content, SendFile(p, c) PROVE LockKept(r)
  BY <1>1, <1>3, StoreKept DEF SendFile
<1>4. ASSUME NEW c \in Content, CreateNote(p, c) PROVE LockKept(r)
  BY <1>1, <1>4, StoreKept DEF CreateNote
<1>5. ASSUME NEW c \in Content, NEW base \in Content \cup {NoHash}, SyncUpload(p, c, base)
      PROVE  LockKept(r)
  BY <1>1, <1>5, StoreKept DEF SyncUpload
<1>6. ASSUME NEW q \in Id, NEW c \in Content, EditNote(q, p, c) PROVE LockKept(r)
  <2>1. CASE Rejected(p, c, {q}, TRUE, FALSE)
    BY <1>1, <1>6, <2>1 DEF EditNote
  <2>2. CASE ~Rejected(p, c, {q}, TRUE, FALSE)
    <3>1. q # r /\ phase' = phase /\ row' = [row EXCEPT ![q].path = p, ![q].hash = c]
      BY <1>6, <2>2 DEF EditNote, Active, Trashed
    <3>2. row'[r] = row[r]
      BY <3>1 DEF TypeOK, Trashed
    <3> QED BY <3>1, <3>2, UnchangedKept
  <2> QED BY <2>1, <2>2
<1>7. ASSUME SyncDelete(p) PROVE LockKept(r)
  <2>1. CASE p = row[r].path
    BY <1>7, <2>1 DEF LockKept
  <2>2. ASSUME p # row[r].path, NEW q \in RowsAt(p), PurgeRows({q}) PROVE LockKept(r)
    BY <2>2, SweepKept DEF RowsAt
  <2>3. CASE UNCHANGED <<phase, row>>
    BY <2>3, UnchangedKept
  <2> QED BY <1>7, <2>1, <2>2, <2>3 DEF SyncDelete
<1> QED BY <1>2, <1>3, <1>4, <1>5, <1>6, <1>7 DEF AtPath

\* The handlers that are given a row.
LEMMA OnRowKept ==
  ASSUME TypeOK, NEW r \in Trashed, row[r].locked, NEW q \in Id, OnRow(q)
  PROVE  LockKept(r)
<1>1. ASSUME NEW n \in Name, Rename(q, n) PROVE LockKept(r)
  <2>1. q # r /\ phase' = phase /\ row' = [row EXCEPT ![q].path = <<row[q].path[1], n>>]
    BY <1>1 DEF Rename, Active, Trashed
  <2>2. row'[r] = row[r]
    BY <2>1 DEF TypeOK, Trashed
  <2> QED BY <2>1, <2>2, UnchangedKept
<1>2. ASSUME SoftDelete(q) PROVE LockKept(r)
  <2>1. q # r /\ phase'[r] = phase[r]
    BY <1>2 DEF SoftDelete, Active, Trashed, TypeOK
  <2>2. row'[r] = row[r]
    BY <1>2, <2>1 DEF SoftDelete, TypeOK, Trashed
  <2> QED BY <2>1, <2>2, UnchangedKept
<1>3. ASSUME AgentPurge(q) PROVE LockKept(r)
  BY <1>3, SweepKept DEF AgentPurge, Active, Trashed
<1>4. ASSUME TransferDelete(q) PROVE LockKept(r)
  <2>1. CASE q = r
    <3>1. phase'[r] = "trash" /\ row' = [row EXCEPT ![r].age = 0]
      BY <1>4, <2>1 DEF TransferDelete, TypeOK, Trashed
    <3>2. row'[r].locked = row[r].locked
      BY <3>1, RowParts DEF TypeOK, Row, Trashed
    <3> QED BY <3>1, <3>2 DEF LockKept
  <2>2. CASE q # r
    <3>1. phase'[r] = phase[r] /\ row'[r] = row[r]
      BY <1>4, <2>2 DEF TransferDelete, TypeOK, Trashed
    <3> QED BY <3>1, UnchangedKept
  <2> QED BY <2>1, <2>2
<1>5. ASSUME Restore(q) PROVE LockKept(r)
  BY <1>5, RestoreKept DEF Restore
<1>6. ASSUME PurgeOne(q) PROVE LockKept(r)
  BY <1>6, SweepKept DEF PurgeOne, LockKept
<1>7. ASSUME Lock(q) PROVE LockKept(r)
  <2>1. q # r /\ phase' = phase /\ row' = [row EXCEPT ![q].locked = TRUE]
    BY <1>7 DEF Lock
  <2>2. row'[r] = row[r]
    BY <2>1 DEF TypeOK, Trashed
  <2> QED BY <2>1, <2>2, UnchangedKept
<1>8. ASSUME Unlock(q) PROVE LockKept(r)
  <2>1. CASE q = r
    BY <1>8, <2>1 DEF LockKept
  <2>2. CASE q # r
    <3>1. phase' = phase /\ row'[r] = row[r]
      BY <1>8, <2>2 DEF Unlock, TypeOK, Trashed
    <3> QED BY <3>1, UnchangedKept
  <2> QED BY <2>1, <2>2
<1> QED BY <1>1, <1>2, <1>3, <1>4, <1>5, <1>6, <1>7, <1>8 DEF OnRow

\* The handlers that take many rows at once, and time.
LEMMA SweepsKept ==
  ASSUME TypeOK, NEW r \in Trashed, row[r].locked, Sweep
  PROVE  LockKept(r)
<1>1. ASSUME NEW S \in SUBSET Id, RestoreBatch(S) PROVE LockKept(r)
  BY <1>1, RestoreKept DEF RestoreBatch
<1>2. ASSUME NEW S \in SUBSET Id, PurgeBatch(S) PROVE LockKept(r)
  BY <1>2, SweepKept DEF PurgeBatch
<1>3. ASSUME PurgeExpired PROVE LockKept(r)
  BY <1>3, SweepKept DEF PurgeExpired
<1>4. ASSUME TrashEmpty PROVE LockKept(r)
  BY <1>4, SweepKept DEF TrashEmpty, PurgeBatch
<1>5. ASSUME IndexAll PROVE LockKept(r)
  <2>1. PICK new \in SUBSET Unborn : \E at \in [new -> Path] : Adopt(new, at)
    BY <1>5, Adoption
  <2>2. r \in Id /\ r \notin new
    BY DEF Unborn, Trashed
  <2> QED BY <2>1, <2>2, UnchangedKept DEF Adopt
<1>6. ASSUME DayPasses PROVE LockKept(r)
  <2>1. phase'[r] = "trash" /\ row'[r] = IF row[r].age < Retention
                                         THEN [row[r] EXCEPT !.age = @ + 1] ELSE row[r]
    BY <1>6 DEF DayPasses, Trashed
  <2>2. row'[r].locked = row[r].locked
    BY <2>1, RowParts DEF Row, Trashed
  <2> QED BY <2>1, <2>2 DEF LockKept
<1> QED BY <1>1, <1>2, <1>3, <1>4, <1>5, <1>6 DEF Sweep

-----------------------------------------------------------------------------
(* Refinement: what a step does to the rows *)

\* What Move of FileLifecycle says, about the columns of the rows.
MoveRows(S, ph) ==
  /\ phase' = [r \in Id |-> IF r \in S THEN ph ELSE phase[r]]
  /\ \A r \in Id :
       /\ row'[r].age = IF r \in S THEN 0 ELSE row[r].age
       /\ row'[r].locked = IF r \in S /\ ph = "gone" THEN FALSE ELSE row[r].locked

\* Nothing FileLifecycle speaks of changes.
KeepRows ==
  phase' = phase /\ \A r \in Id : row'[r].age = row[r].age /\ row'[r].locked = row[r].locked

\* A row is born without a lock: no request reaches it before.
BornUnlocked == \A r \in Unborn : ~row[r].locked

\* MoveRows says of phases and locks what a move of the lifecycle does.
LEMMA MoveIsMove ==
  ASSUME NEW S, NEW ph, MoveRows(S, ph)
  PROVE  Lifecycle!Move(S, ph)
BY DEF MoveRows, Lifecycle!Move

\* Rows that keep phase and lock make the lifecycle stutter.
LEMMA KeepIsStutter == KeepRows => UNCHANGED Lifecycle!vars
BY DEF KeepRows, Lifecycle!vars

\* The abstract actions of the moves.
LEMMA MoveSteps ==
  /\ \A S \in SUBSET Unborn : MoveRows(S, "active") => Lifecycle!Next
  /\ \A r \in Active \cup Trashed : MoveRows({r}, "trash") => Lifecycle!Next
  /\ \A S \in SUBSET Trashed : MoveRows(S, "active") => Lifecycle!Next
  /\ \A r \in Active \cup Trashed : MoveRows({r}, "gone") => Lifecycle!Next
  /\ \A S \in SUBSET {r \in Trashed : ~row[r].locked} : MoveRows(S, "gone") => Lifecycle!Next
<1>1. Lifecycle!In("unborn") = Unborn /\ Lifecycle!In("active") = Active
      /\ Lifecycle!In("trash") = Trashed
  BY DEF Lifecycle!In, Unborn, Active, Trashed
<1>2. ASSUME NEW S \in SUBSET Unborn, MoveRows(S, "active") PROVE Lifecycle!Next
  BY <1>1, <1>2, MoveIsMove DEF Lifecycle!Next, Lifecycle!Create
<1>3. ASSUME NEW r \in Active \cup Trashed, MoveRows({r}, "trash") PROVE Lifecycle!Next
  BY <1>1, <1>3, MoveIsMove DEF Lifecycle!Next, Lifecycle!Delete
<1>4. ASSUME NEW S \in SUBSET Trashed, MoveRows(S, "active") PROVE Lifecycle!Next
  BY <1>1, <1>4, MoveIsMove DEF Lifecycle!Next, Lifecycle!Restore
<1>5. ASSUME NEW r \in Active \cup Trashed, MoveRows({r}, "gone") PROVE Lifecycle!Next
  BY <1>1, <1>5, MoveIsMove DEF Lifecycle!Next, Lifecycle!RemoveOne
<1>6. ASSUME NEW S \in SUBSET {r \in Trashed : ~row[r].locked}, MoveRows(S, "gone")
      PROVE  Lifecycle!Next
  <2>1. S \in SUBSET {r \in Lifecycle!In("trash") : ~[q \in Id |-> row[q].locked][r]}
    BY <1>1, <1>6 DEF Trashed
  <2> QED BY <2>1, <1>6, MoveIsMove DEF Lifecycle!Next, Lifecycle!Sweep
<1> QED BY <1>2, <1>3, <1>4, <1>5, <1>6

-----------------------------------------------------------------------------
(* Refinement: handler by handler *)

\* A successful ingest creates a row or replaces the content of one.
LEMMA StoreMoves ==
  ASSUME TypeOK, BornUnlocked, NEW r \in Id, NEW p \in Path, NEW c \in Content,
         Store(r, p, c)
  PROVE  Lifecycle!Next \/ KeepRows
<1>1. r \in Active \/ r \in Unborn
  BY DEF Store, Slot, ActiveAt
<1>2. CASE r \in Active
  <2>1. phase' = phase
    BY <1>2 DEF Store, Active, TypeOK
  <2>2. row' = [row EXCEPT ![r].hash = c]
    BY <1>2 DEF Store, Active
  <2>3. \A q \in Id : row'[q].age = row[q].age /\ row'[q].locked = row[q].locked
    BY <2>2, RowParts DEF TypeOK, Row
  <2> QED BY <2>1, <2>3 DEF KeepRows
<1>3. CASE r \in Unborn
  <2>1. phase' = [q \in Id |-> IF q \in {r} THEN "active" ELSE phase[q]]
    BY DEF Store, TypeOK
  <2>2. row' = [row EXCEPT ![r] = NewRow(p, c)] /\ row[r].locked = FALSE
    BY <1>3, RowParts DEF Store, Unborn, BornUnlocked
  <2>3. MoveRows({r}, "active")
    BY <2>1, <2>2 DEF MoveRows, TypeOK, NewRow
  <2> QED BY <1>3, <2>3, MoveSteps
<1> QED BY <1>1, <1>2, <1>3

\* A purge takes the rows for good, their locks with them.
LEMMA PurgeMoves ==
  ASSUME TypeOK, NEW S \in SUBSET Id, PurgeRows(S)
  PROVE  MoveRows(S, "gone")
BY DEF PurgeRows, MoveRows, NoRow, NewRow

\* A restore takes rows back from the trash.
LEMMA RestoreMoves ==
  ASSUME TypeOK, NEW S \in SUBSET Id, RestoreRows(S)
  PROVE  Lifecycle!Next
<1> DEFINE ok == {r \in S : Restorable(r)}
<1>1. ok \in SUBSET Trashed
  BY DEF Restorable, Trashed
<1>2. /\ phase' = [r \in Id |-> IF r \in ok THEN "active" ELSE phase[r]]
      /\ row' = [r \in Id |->
                   IF r \in ok THEN [row[r] EXCEPT !.path = RestoreTarget(r), !.age = 0]
                   ELSE row[r]]
  BY DEF RestoreRows
<1>3. \A r \in Id : row[r] \in Row
  BY RowParts
<1> HIDE DEF ok
<1>4. MoveRows(ok, "active")
  BY <1>2, <1>3 DEF MoveRows, Row
<1> QED BY <1>1, <1>4, MoveSteps

\* A scan creates rows for the files nobody owns.
LEMMA ScanMoves ==
  ASSUME TypeOK, BornUnlocked, IndexAll
  PROVE  Lifecycle!Next
<1>1. PICK new \in SUBSET Unborn : \E at \in [new -> Path] : Adopt(new, at)
  BY Adoption
<1>2. PICK at \in [new -> Path] : Adopt(new, at)
  BY <1>1
<1>3. \A r \in new : row[r].locked = FALSE
  BY RowParts DEF BornUnlocked, Unborn
<1>4. MoveRows(new, "active")
  BY <1>2, <1>3 DEF Adopt, MoveRows, NewRow
<1> QED BY <1>4, MoveSteps

\* The handlers that are given a path.
LEMMA AtPathMoves ==
  ASSUME TypeOK, BornUnlocked, NEW p \in Path, AtPath(p)
  PROVE  Lifecycle!Next \/ KeepRows
<1>1. ASSUME Rollback(p) PROVE KeepRows
  BY <1>1 DEF Rollback, KeepRows
<1>2. ASSUME NEW c \in Content, NEW skip \in BOOLEAN, Upload(p, c, skip)
      PROVE  Lifecycle!Next \/ KeepRows
  BY <1>1, <1>2, StoreMoves DEF Upload
<1>3. ASSUME NEW c \in Content, SendFile(p, c)
      PROVE  Lifecycle!Next \/ KeepRows
  BY <1>1, <1>3, StoreMoves DEF SendFile
<1>4. ASSUME NEW c \in Content, CreateNote(p, c)
      PROVE  Lifecycle!Next \/ KeepRows
  BY <1>1, <1>4, StoreMoves DEF CreateNote
<1>5. ASSUME NEW c \in Content, NEW base \in Content \cup {NoHash}, SyncUpload(p, c, base)
      PROVE  Lifecycle!Next \/ KeepRows
  BY <1>1, <1>5, StoreMoves DEF SyncUpload
<1>6. ASSUME NEW r \in Id, NEW c \in Content, EditNote(r, p, c)
      PROVE  Lifecycle!Next \/ KeepRows
  <2>1. CASE Rejected(p, c, {r}, TRUE, FALSE)
    BY <1>1, <1>6, <2>1 DEF EditNote
  <2>2. CASE ~Rejected(p, c, {r}, TRUE, FALSE)
    <3>1. phase' = phase /\ row' = [row EXCEPT ![r].path = p, ![r].hash = c]
      BY <1>6, <2>2 DEF EditNote
    <3>2. \A q \in Id : row'[q].age = row[q].age /\ row'[q].locked = row[q].locked
      BY <3>1, RowParts DEF TypeOK, Row
    <3> QED BY <3>1, <3>2 DEF KeepRows
  <2> QED BY <2>1, <2>2
<1>7. ASSUME SyncDelete(p) PROVE Lifecycle!Next \/ KeepRows
  <2>1. ASSUME NEW r \in RowsAt(p), PurgeRows({r}) PROVE Lifecycle!Next
    <3>1. r \in Id /\ r \in Active \cup Trashed
      BY DEF RowsAt, Active, Trashed
    <3> QED BY <2>1, <3>1, PurgeMoves, MoveSteps
  <2> QED BY <1>7, <2>1 DEF SyncDelete, KeepRows
<1> QED BY <1>2, <1>3, <1>4, <1>5, <1>6, <1>7 DEF AtPath

\* The handlers that are given a row.
LEMMA OnRowMoves ==
  ASSUME TypeOK, BornUnlocked, NEW r \in Id, OnRow(r)
  PROVE  Lifecycle!Next \/ KeepRows
<1>1. ASSUME NEW n \in Name, Rename(r, n) PROVE KeepRows
  <2>1. phase' = phase /\ row' = [row EXCEPT ![r].path = <<row[r].path[1], n>>]
    BY <1>1 DEF Rename
  <2> QED BY <2>1, RowParts DEF KeepRows, TypeOK, Row
<1>2. ASSUME r \in Active \cup Trashed, phase' = [phase EXCEPT ![r] = "trash"],
             row'[r].age = 0, row'[r].locked = row[r].locked,
             \A q \in Id \ {r} : row'[q] = row[q]
      PROVE  Lifecycle!Next
  <2>1. MoveRows({r}, "trash")
    BY <1>2 DEF MoveRows, TypeOK
  <2> QED BY <1>2, <2>1, MoveSteps
<1>3. ASSUME SoftDelete(r) PROVE Lifecycle!Next
  <2>1. row' = [row EXCEPT ![r] = [row[r] EXCEPT !.age = 0, !.orig = row[r].path[1]]]
    BY <1>3 DEF SoftDelete, TypeOK
  <2>2. row'[r].age = 0 /\ row'[r].locked = row[r].locked /\ \A q \in Id \ {r} : row'[q] = row[q]
    BY <2>1, RowParts DEF TypeOK, Row
  <2> QED BY <1>2, <1>3, <2>2 DEF SoftDelete
<1>4. ASSUME AgentPurge(r) PROVE Lifecycle!Next
  BY <1>4, PurgeMoves, MoveSteps DEF AgentPurge
<1>5. ASSUME TransferDelete(r) PROVE Lifecycle!Next \/ KeepRows
  <2>1. CASE r \in Active \cup Trashed
    <3>1. phase' = [phase EXCEPT ![r] = "trash"] /\ row' = [row EXCEPT ![r].age = 0]
      BY <1>5, <2>1 DEF TransferDelete
    <3>2. row'[r].age = 0 /\ row'[r].locked = row[r].locked /\ \A q \in Id \ {r} : row'[q] = row[q]
      BY <3>1, RowParts DEF TypeOK, Row
    <3> QED BY <1>2, <2>1, <3>1, <3>2
  <2>2. CASE r \notin Active \cup Trashed
    BY <1>5, <2>2 DEF TransferDelete, KeepRows
  <2> QED BY <2>1, <2>2
<1>6. ASSUME Restore(r) PROVE Lifecycle!Next
  BY <1>6, RestoreMoves DEF Restore
<1>7. ASSUME PurgeOne(r) PROVE Lifecycle!Next
  BY <1>7, PurgeMoves, MoveSteps DEF PurgeOne
<1>8. ASSUME NEW b \in BOOLEAN, r \in Trashed, row[r].locked = ~b,
             row' = [row EXCEPT ![r].locked = b], phase' = phase
      PROVE  Lifecycle!Next
  <2>1. \A q \in Id : row'[q].age = row[q].age
                      /\ row'[q].locked = IF q = r THEN ~row[r].locked ELSE row[q].locked
    BY <1>8, RowParts DEF TypeOK, Row
  <2>2. [q \in Id |-> row'[q].locked] =
          [[q \in Id |-> row[q].locked] EXCEPT ![r] = ~row[r].locked]
    BY <2>1
  <2>3. r \in Lifecycle!In("trash")
    BY <1>8 DEF Lifecycle!In, Trashed
  <2>4. Lifecycle!SetLock
    BY <1>8, <2>1, <2>2, <2>3 DEF Lifecycle!SetLock
  <2> QED BY <2>4 DEF Lifecycle!Next
<1>9. ASSUME Lock(r) PROVE Lifecycle!Next
  BY <1>8, <1>9, RowParts DEF Lock
<1>10. ASSUME Unlock(r) PROVE Lifecycle!Next
  BY <1>8, <1>10, RowParts DEF Unlock
<1> QED BY <1>1, <1>3, <1>4, <1>5, <1>6, <1>7, <1>9, <1>10 DEF OnRow

\* The handlers that take many rows at once, and time.
LEMMA SweepMoves ==
  ASSUME TypeOK, BornUnlocked, Sweep
  PROVE  Lifecycle!Next \/ KeepRows
<1>1. ASSUME NEW S \in SUBSET Id, RestoreBatch(S) PROVE Lifecycle!Next
  BY <1>1, RestoreMoves DEF RestoreBatch
<1>2. ASSUME NEW S \in SUBSET {r \in Trashed : ~row[r].locked}, PurgeRows(S)
      PROVE  Lifecycle!Next
  BY <1>2, PurgeMoves, MoveSteps DEF Trashed
<1>3. ASSUME NEW S \in SUBSET Id, PurgeBatch(S) PROVE Lifecycle!Next
  BY <1>2, <1>3 DEF PurgeBatch
<1>4. ASSUME PurgeExpired PROVE Lifecycle!Next
  BY <1>2, <1>4 DEF PurgeExpired
<1>5. ASSUME TrashEmpty PROVE Lifecycle!Next
  BY <1>2, <1>5 DEF TrashEmpty, PurgeBatch
<1>6. ASSUME IndexAll PROVE Lifecycle!Next
  BY <1>6, ScanMoves
<1>7. ASSUME DayPasses PROVE Lifecycle!Next
  <2>1. Lifecycle!In("trash") = Trashed
    BY DEF Lifecycle!In, Trashed
  <2>2. \A r \in Id : row'[r] = IF r \in Trashed /\ row[r].age < Retention
                                THEN [row[r] EXCEPT !.age = @ + 1] ELSE row[r]
    BY <1>7 DEF DayPasses
  <2>3. \A r \in Id : /\ row'[r].age = IF r \in Trashed /\ row[r].age < Retention
                                       THEN row[r].age + 1 ELSE row[r].age
                      /\ row'[r].locked = row[r].locked
    BY <2>2, RowParts DEF Row
  <2>4. Lifecycle!DayPasses
    BY <1>7, <2>1, <2>3 DEF Lifecycle!DayPasses, DayPasses
  <2> QED BY <2>4 DEF Lifecycle!Next
<1> QED BY <1>1, <1>3, <1>4, <1>5, <1>6, <1>7 DEF Sweep

\* Every step of the library is an abstract step or none.
LEMMA StepSimulation ==
  ASSUME TypeOK, BornUnlocked, [Next]_vars
  PROVE  [Lifecycle!Next]_(Lifecycle!vars)
<1>1. ASSUME NEW p \in Path, AtPath(p) PROVE Lifecycle!Next \/ KeepRows
  BY <1>1, AtPathMoves
<1>2. ASSUME NEW r \in Id, OnRow(r) PROVE Lifecycle!Next \/ KeepRows
  BY <1>2, OnRowMoves
<1>3. ASSUME Sweep PROVE Lifecycle!Next \/ KeepRows
  BY <1>3, SweepMoves
<1>4. ASSUME UNCHANGED vars PROVE KeepRows
  BY <1>4 DEF vars, KeepRows
<1> QED BY <1>1, <1>2, <1>3, <1>4, KeepIsStutter DEF Next

\* The library starts where the lifecycle starts.
LEMMA InitSimulation == Init => Lifecycle!Init /\ BornUnlocked
BY DEF Init, Lifecycle!Init, BornUnlocked, Unborn, NoRow, NewRow

\* No abstract step makes a row unborn or locks one that is.
LEMMA StayUnlocked ==
  ASSUME TypeOK, BornUnlocked, [Lifecycle!Next]_(Lifecycle!vars)
  PROVE  BornUnlocked'
<1> DEFINE locked == [r \in Id |-> row[r].locked]
<1>1. ASSUME NEW S, NEW ph \in {"active", "trash", "gone"}, Lifecycle!Move(S, ph)
      PROVE  BornUnlocked'
  <2>1. \A r \in Id : phase'[r] = "unborn" => phase[r] = "unborn" /\ r \notin S
    BY <1>1 DEF Lifecycle!Move
  <2>2. locked' = [r \in Id |-> IF r \in S /\ ph = "gone" THEN FALSE ELSE locked[r]]
    BY <1>1 DEF Lifecycle!Move
  <2>3. \A r \in Id : row'[r].locked = locked'[r] /\ row[r].locked = locked[r]
    OBVIOUS
  <2> HIDE DEF locked
  <2> QED BY <2>1, <2>2, <2>3 DEF BornUnlocked, Unborn
<1>2. CASE Lifecycle!SetLock
  <2>1. PICK r \in Lifecycle!In("trash") : locked' = [locked EXCEPT ![r] = ~@]
    BY <1>2 DEF Lifecycle!SetLock
  <2>2. phase' = phase /\ phase[r] = "trash" /\ r \in Id
    BY <1>2, <2>1 DEF Lifecycle!SetLock, Lifecycle!In
  <2>3. \A q \in Id \ {r} : locked'[q] = locked[q]
    BY <2>1
  <2>4. \A q \in Id : row'[q].locked = locked'[q] /\ row[q].locked = locked[q]
    OBVIOUS
  <2> HIDE DEF locked
  <2> QED BY <2>2, <2>3, <2>4 DEF BornUnlocked, Unborn
<1>3. CASE UNCHANGED <<phase, locked>>
  <2>1. \A q \in Id : row'[q].locked = locked'[q] /\ row[q].locked = locked[q]
    OBVIOUS
  <2> HIDE DEF locked
  <2> QED BY <1>3, <2>1 DEF BornUnlocked, Unborn
<1>4. CASE Lifecycle!DayPasses
  BY <1>3, <1>4 DEF Lifecycle!DayPasses
<1>5. CASE UNCHANGED Lifecycle!vars
  BY <1>3, <1>5 DEF Lifecycle!vars
<1> QED BY <1>1, <1>2, <1>4, <1>5 DEF Lifecycle!Next, Lifecycle!Create, Lifecycle!Delete,
          Lifecycle!Restore, Lifecycle!RemoveOne, Lifecycle!Sweep

\* The library implements FileLifecycle: each row of files is created once, moves
\* between library and trash, and never returns once gone; what sweeps it takes
\* only from the unlocked part of the trash.
THEOREM Refinement == Spec => LifecycleSpec
<1>1. TypeOK /\ BornUnlocked /\ [Next]_vars => [Lifecycle!Next]_(Lifecycle!vars)
  BY StepSimulation
<1>2. TypeOK /\ BornUnlocked /\ [Next]_vars => BornUnlocked'
  BY StepSimulation, StayUnlocked
<1>3. Spec => []TypeOK
  BY TypeCorrect
<1>4. Spec => []BornUnlocked
  BY InitSimulation, <1>2, <1>3, PTL DEF Spec
<1> QED BY InitSimulation, <1>1, <1>3, <1>4, PTL DEF Spec, LifecycleSpec, Lifecycle!Spec

-----------------------------------------------------------------------------
(* Kinds of step: what the handlers do to phases, paths, contents and disk *)

\* An upload that passed the checks, with the quota unless a device sent it.
Stores(r, p, c) ==
  /\ AtPath(p) /\ Store(r, p, c) /\ Duplicates(c, p, {}) = {}
  /\ ~Exceeds(Size[c]) \/ \E base \in Content \cup {NoHash} : SyncUpload(p, c, base)

\* An edited note that passed the checks.
Edits(r, p, c) == EditNote(r, p, c) /\ ~Rejected(p, c, {r}, TRUE, FALSE)

KeepsFiles == \A s \in Id : row'[s].path = row[s].path /\ row'[s].hash = row[s].hash

\* A row goes to the trash, where it may have been already.
Trashes(r) == phase' = [phase EXCEPT ![r] = "trash"] /\ disk' = disk /\ KeepsFiles

\* A file no row stands for is deleted.
Forgets(p) ==
  RowsAt(p) = {} /\ disk' = [disk EXCEPT ![p] = NoFile] /\ UNCHANGED <<phase, row>>

Kinds ==
  \/ \E p \in Path : AtPath(p) /\ Rollback(p)
  \/ \E r \in Id, p \in Path, c \in Content : Stores(r, p, c)
  \/ \E r \in Id, p \in Path, c \in Content : Edits(r, p, c)
  \/ \E r \in Id, n \in Name : Rename(r, n)
  \/ \E r \in Active \cup Trashed : Trashes(r)
  \/ \E S \in SUBSET (Active \cup Trashed) : PurgeRows(S)
  \/ \E p \in Path : Forgets(p)
  \/ \E S \in SUBSET Id : RestoreRows(S)
  \/ IndexAll
  \/ UNCHANGED <<phase, disk>> /\ KeepsFiles

\* The handlers that are given a path.
LEMMA AtPathKinds ==
  ASSUME TypeOK, NEW p \in Path, AtPath(p)
  PROVE  Kinds
<1>1. ASSUME NEW r \in Id, NEW c \in Content, NEW skip \in BOOLEAN, Store(r, p, c),
             ~Rejected(p, c, {}, TRUE, skip)
      PROVE  Kinds
  <2>1. Stores(r, p, c)
    BY <1>1 DEF Stores, Rejected
  <2> QED BY <2>1 DEF Kinds
<1>2. Rollback(p) => Kinds
  BY DEF Kinds
<1>3. ASSUME NEW c \in Content, NEW skip \in BOOLEAN, Upload(p, c, skip) PROVE Kinds
  BY <1>1, <1>2, <1>3 DEF Upload
<1>4. ASSUME NEW c \in Content, SendFile(p, c) PROVE Kinds
  BY <1>1, <1>2, <1>4 DEF SendFile
<1>5. ASSUME NEW c \in Content, CreateNote(p, c) PROVE Kinds
  BY <1>1, <1>2, <1>5 DEF CreateNote
<1>6. ASSUME NEW c \in Content, NEW base \in Content \cup {NoHash}, SyncUpload(p, c, base)
      PROVE  Kinds
  <2>1. CASE Rejected(p, c, {}, FALSE, FALSE)
    BY <1>2, <1>6, <2>1 DEF SyncUpload
  <2>2. CASE ~Rejected(p, c, {}, FALSE, FALSE)
    <3>1. PICK r \in Id : Store(r, p, c)
      BY <1>6, <2>2 DEF SyncUpload
    <3>2. Stores(r, p, c)
      BY <1>6, <2>2, <3>1 DEF Stores, Rejected
    <3> QED BY <3>2 DEF Kinds
  <2> QED BY <2>1, <2>2
<1>7. ASSUME NEW r \in Id, NEW c \in Content, EditNote(r, p, c) PROVE Kinds
  <2>1. CASE Rejected(p, c, {r}, TRUE, FALSE)
    BY <1>2, <1>7, <2>1 DEF EditNote
  <2>2. CASE ~Rejected(p, c, {r}, TRUE, FALSE)
    BY <1>7, <2>2 DEF Kinds, Edits
  <2> QED BY <2>1, <2>2
<1>8. ASSUME SyncDelete(p) PROVE Kinds
  <2>1. ASSUME NEW r \in RowsAt(p), PurgeRows({r}) PROVE Kinds
    <3>1. {r} \in SUBSET (Active \cup Trashed)
      BY DEF RowsAt
    <3> QED BY <2>1, <3>1 DEF Kinds
  <2>2. Forgets(p) => Kinds
    BY DEF Kinds
  <2> QED BY <1>8, <2>1, <2>2 DEF SyncDelete, Forgets
<1> QED BY <1>3, <1>4, <1>5, <1>6, <1>7, <1>8 DEF AtPath

\* The handlers that are given a row.
LEMMA OnRowKinds ==
  ASSUME TypeOK, NEW r \in Id, OnRow(r)
  PROVE  Kinds
<1>1. ASSUME UNCHANGED <<phase, disk>>, KeepsFiles PROVE Kinds
  BY <1>1 DEF Kinds
<1>2. ASSUME r \in Active \cup Trashed, Trashes(r) PROVE Kinds
  BY <1>2 DEF Kinds
<1>3. ASSUME r \in Active \cup Trashed, PurgeRows({r}) PROVE Kinds
  BY <1>3 DEF Kinds
<1>4. ASSUME NEW n \in Name, Rename(r, n) PROVE Kinds
  BY <1>4 DEF Kinds
<1>5. ASSUME SoftDelete(r) PROVE Kinds
  <2>1. KeepsFiles
    BY <1>5, RowParts DEF SoftDelete, KeepsFiles, TypeOK, Row
  <2> QED BY <1>2, <1>5, <2>1 DEF SoftDelete, Trashes
<1>6. ASSUME AgentPurge(r) PROVE Kinds
  BY <1>3, <1>6 DEF AgentPurge
<1>7. ASSUME TransferDelete(r) PROVE Kinds
  <2>1. KeepsFiles
    BY <1>7, RowParts DEF TransferDelete, KeepsFiles, TypeOK, Row
  <2> QED BY <1>1, <1>2, <1>7, <2>1 DEF TransferDelete, Trashes
<1>8. ASSUME Restore(r) PROVE Kinds
  <2>1. {r} \in SUBSET Id
    OBVIOUS
  <2> QED BY <1>8, <2>1 DEF Restore, Kinds
<1>9. ASSUME PurgeOne(r) PROVE Kinds
  BY <1>3, <1>9 DEF PurgeOne
<1>10. ASSUME Lock(r) \/ Unlock(r) PROVE Kinds
  <2>1. PICK b \in BOOLEAN : row' = [row EXCEPT ![r].locked = b]
    BY <1>10 DEF Lock, Unlock
  <2>2. KeepsFiles
    BY <2>1, RowParts DEF KeepsFiles, TypeOK, Row
  <2> QED BY <1>1, <1>10, <2>2 DEF Lock, Unlock
<1> QED BY <1>4, <1>5, <1>6, <1>7, <1>8, <1>9, <1>10 DEF OnRow

\* Every step of the library is of one of the kinds.
LEMMA StepKinds ==
  ASSUME TypeOK, [Next]_vars
  PROVE  Kinds
<1>1. ASSUME NEW S \in SUBSET Trashed, PurgeRows(S) PROVE Kinds
  <2>1. S \in SUBSET (Active \cup Trashed)
    OBVIOUS
  <2> QED BY <1>1, <2>1 DEF Kinds
<1>2. ASSUME Sweep PROVE Kinds
  <2>1. ASSUME NEW S \in SUBSET Id, RestoreBatch(S) PROVE Kinds
    BY <2>1 DEF RestoreBatch, Kinds
  <2>2. ASSUME NEW S \in SUBSET Id, PurgeBatch(S) PROVE Kinds
    BY <1>1, <2>2 DEF PurgeBatch
  <2>3. ASSUME PurgeExpired PROVE Kinds
    BY <1>1, <2>3 DEF PurgeExpired
  <2>4. ASSUME TrashEmpty PROVE Kinds
    BY <1>1, <2>4 DEF TrashEmpty, PurgeBatch
  <2>5. ASSUME IndexAll PROVE Kinds
    BY <2>5 DEF Kinds
  <2>6. ASSUME DayPasses PROVE Kinds
    <3>1. \A x \in Row : [x EXCEPT !.age = @ + 1].path = x.path
                         /\ [x EXCEPT !.age = @ + 1].hash = x.hash
      BY DEF Row
    <3>2. KeepsFiles
      BY <2>6, <3>1, RowParts DEF DayPasses, KeepsFiles
    <3> QED BY <2>6, <3>2 DEF DayPasses, Kinds
  <2> QED BY <1>2, <2>1, <2>2, <2>3, <2>4, <2>5, <2>6 DEF Sweep
<1>3. ASSUME UNCHANGED vars PROVE Kinds
  BY <1>3 DEF vars, Kinds, KeepsFiles
<1> QED BY <1>2, <1>3, AtPathKinds, OnRowKinds DEF Next

\* What an upload that passed the checks does.
LEMMA StoreParts ==
  ASSUME TypeOK, NEW r \in Id, NEW p \in Path, NEW c \in Content, Store(r, p, c)
  PROVE  /\ r \in ActiveAt(p) \/ (r \in Unborn /\ ActiveAt(p) = {})
         /\ phase'[r] = "active" /\ row'[r].path = p /\ row'[r].hash = c
         /\ \A s \in Id \ {r} : phase'[s] = phase[s] /\ row'[s] = row[s]
         /\ disk' = [disk EXCEPT ![p] = c]
<1>1. r \in ActiveAt(p) \/ (r \in Unborn /\ ActiveAt(p) = {})
  BY DEF Store, Slot
<1>2. row'[r].path = p /\ row'[r].hash = c
  <2>1. CASE r \in ActiveAt(p)
    <3>1. row' = [row EXCEPT ![r].hash = c] /\ row[r].path = p
      BY <2>1 DEF Store, ActiveAt, Active
    <3> QED BY <3>1, RowParts DEF TypeOK, Row
  <2>2. CASE r \in Unborn
    <3>1. row' = [row EXCEPT ![r] = NewRow(p, c)]
      BY <2>2 DEF Store, Unborn
    <3> QED BY <3>1 DEF TypeOK, NewRow
  <2> QED BY <1>1, <2>1, <2>2
<1>3. phase'[r] = "active" /\ \A s \in Id \ {r} : phase'[s] = phase[s] /\ row'[s] = row[s]
  BY DEF Store, TypeOK
<1> QED BY <1>1, <1>2, <1>3 DEF Store

\* What an edit that passed the checks does.
LEMMA EditParts ==
  ASSUME TypeOK, NEW r \in Id, NEW p \in Path, NEW c \in Content, Edits(r, p, c)
  PROVE  /\ phase[r] = "active" /\ phase' = phase
         /\ row'[r].path = p /\ row'[r].hash = c
         /\ \A s \in Id \ {r} : row'[s] = row[s]
         /\ disk' = [disk EXCEPT ![row[r].path] = NoFile, ![p] = c]
<1>1. /\ phase[r] = "active" /\ phase' = phase
      /\ row' = [row EXCEPT ![r].path = p, ![r].hash = c]
      /\ disk' = [disk EXCEPT ![row[r].path] = NoFile, ![p] = c]
  BY DEF Edits, EditNote, Active
<1>2. row'[r].path = p /\ row'[r].hash = c
  BY <1>1, RowParts DEF TypeOK, Row
<1>3. \A s \in Id \ {r} : row'[s] = row[s]
  BY <1>1 DEF TypeOK
<1> QED BY <1>1, <1>2, <1>3

\* What a rename does.
LEMMA RenameParts ==
  ASSUME TypeOK, NEW r \in Id, NEW n \in Name, Rename(r, n)
  PROVE  \E new \in Path :
           /\ new = <<row[r].path[1], n>>
           /\ new = row[r].path \/ ActiveAt(new) = {}
           /\ phase[r] = "active" /\ phase' = phase
           /\ row'[r].path = new /\ row'[r].hash = row[r].hash
           /\ \A s \in Id \ {r} : row'[s] = row[s]
           /\ disk' = [disk EXCEPT ![new] = disk[row[r].path], ![row[r].path] = NoFile]
<1> DEFINE new == <<row[r].path[1], n>>
<1>1. new \in Path
  BY RowParts, PathParts
<1>2. /\ new = row[r].path \/ ActiveAt(new) = {}
      /\ phase[r] = "active" /\ phase' = phase
      /\ row' = [row EXCEPT ![r].path = new]
      /\ disk' = [disk EXCEPT ![new] = disk[row[r].path], ![row[r].path] = NoFile]
  BY DEF Rename, Active
<1> HIDE DEF new
<1>3. row'[r].path = new /\ row'[r].hash = row[r].hash
  BY <1>1, <1>2, RowParts DEF TypeOK, Row
<1>4. \A s \in Id \ {r} : row'[s] = row[s]
  BY <1>2 DEF TypeOK
<1> QED BY <1>1, <1>2, <1>3, <1>4 DEF new

\* What a restore does to the rows it takes back, ok.
LEMMA RestoreParts ==
  ASSUME TypeOK, NEW S \in SUBSET Id, RestoreRows(S)
  PROVE  \E ok \in SUBSET Trashed :
           /\ ok # {} /\ RestoreRows(ok)
           /\ \A r \in ok : /\ Restorable(r) /\ phase'[r] = "active"
                            /\ row'[r].path = RestoreTarget(r)
                            /\ row'[r].hash = row[r].hash
           /\ \A r \in Id \ ok : phase'[r] = phase[r] /\ row'[r] = row[r]
           /\ disk' = disk
<1> DEFINE ok == {r \in S : Restorable(r)}
<1>1. ok \in SUBSET Trashed /\ ok = {r \in ok : Restorable(r)}
  BY DEF Restorable
<1>2. /\ ok # {}
      /\ phase' = [r \in Id |-> IF r \in ok THEN "active" ELSE phase[r]]
      /\ row' = [r \in Id |->
                   IF r \in ok THEN [row[r] EXCEPT !.path = RestoreTarget(r), !.age = 0]
                   ELSE row[r]]
      /\ index' = index \cup {RestoreTarget(r) : r \in ok}
      /\ UNCHANGED <<disk, messages>>
  BY DEF RestoreRows
<1>3. \A r \in ok : Restorable(r)
  OBVIOUS
<1> HIDE DEF ok
<1>4. RestoreRows(ok)
  BY <1>1, <1>2 DEF RestoreRows
<1>5. ok \subseteq Id
  BY <1>1 DEF Trashed
<1>6. ASSUME NEW r \in ok
      PROVE  row'[r].path = RestoreTarget(r) /\ row'[r].hash = row[r].hash
  <2>1. r \in Id /\ row[r] \in Row
    BY <1>5, RowParts
  <2>2. row'[r] = [row[r] EXCEPT !.path = RestoreTarget(r), !.age = 0]
    BY <1>2, <1>6, <2>1
  <2> QED BY <2>1, <2>2 DEF Row
<1> QED BY <1>1, <1>2, <1>3, <1>4, <1>5, <1>6

\* One row, or several.
LEMMA OneOrMore ==
  ASSUME NEW ok \in SUBSET Trashed, ok # {}
  PROVE  Cardinality(ok) > 1 \/ \E r \in ok : ok = {r}
<1>1. ok \subseteq Id
  BY DEF Trashed
<1>2. IsFiniteSet(ok) /\ Cardinality(ok) \in Nat
  BY <1>1, ConstantsOK, FS_Subset, FS_CardinalityType
<1>3. Cardinality(ok) # 0
  BY <1>2, FS_EmptySet
<1>4. CASE Cardinality(ok) = 1
  BY <1>2, <1>4, FS_Singleton
<1> QED BY <1>2, <1>3, <1>4

-----------------------------------------------------------------------------
(* Two active rows over one file *)

\* Rows that were active before, where they were, stay apart.
LEMMA StayApart ==
  ASSUME UniquePaths,
         \A s \in Active' : s \in Active /\ row'[s].path = row[s].path
  PROVE  UniquePaths'
BY DEF UniquePaths

\* One row that comes to a path no other active row holds.
LEMMA OneComes ==
  ASSUME UniquePaths, NEW r \in Id, ActiveAt(row'[r].path) \ {r} = {},
         \A s \in Active' \ {r} : s \in Active /\ row'[s].path = row[s].path
  PROVE  UniquePaths'
<1> SUFFICES ASSUME NEW q \in Active', NEW s \in Active', row'[q].path = row'[s].path,
                    q # s
             PROVE  FALSE
  BY DEF UniquePaths
<1>1. CASE q # r /\ s # r
  BY <1>1 DEF UniquePaths
<1>2. CASE q = r \/ s = r
  BY <1>2 DEF ActiveAt
<1> QED BY <1>1, <1>2

LEMMA CollisionStep ==
  ASSUME TypeOK, Kinds, UniquePaths
  PROVE  \/ UniquePaths'
         \/ \E r \in Active, p \in Path, c \in Content :
              ActiveAt(p) \ {r} # {} /\ EditNote(r, p, c)
         \/ \E S \in SUBSET Trashed : Cardinality(S) > 1 /\ RestoreBatch(S)
<1> DEFINE Goal ==
      \/ UniquePaths'
      \/ \E r \in Active, p \in Path, c \in Content :
           ActiveAt(p) \ {r} # {} /\ EditNote(r, p, c)
      \/ \E S \in SUBSET Trashed : Cardinality(S) > 1 /\ RestoreBatch(S)
<1>1. ASSUME NEW p \in Path, Rollback(p) PROVE Goal
  BY <1>1, StayApart DEF Rollback, Active
<1>2. ASSUME NEW r \in Id, NEW p \in Path, NEW c \in Content, Stores(r, p, c) PROVE Goal
  <2>1. /\ r \in ActiveAt(p) \/ ActiveAt(p) = {}
        /\ \A s \in Id \ {r} : phase'[s] = phase[s] /\ row'[s] = row[s]
        /\ row'[r].path = p
    BY <1>2, StoreParts DEF Stores
  <2>2. ActiveAt(p) \ {r} = {}
    BY <2>1 DEF UniquePaths, ActiveAt
  <2>3. \A s \in Active' \ {r} : s \in Active /\ row'[s].path = row[s].path
    BY <2>1 DEF Active
  <2> QED BY <2>1, <2>2, <2>3, OneComes
<1>3. ASSUME NEW r \in Id, NEW p \in Path, NEW c \in Content, Edits(r, p, c) PROVE Goal
  <2>1. /\ phase[r] = "active" /\ phase' = phase /\ row'[r].path = p
        /\ \A s \in Id \ {r} : row'[s] = row[s]
    BY <1>3, EditParts
  <2>2. CASE ActiveAt(p) \ {r} = {}
    <3>1. \A s \in Active' \ {r} : s \in Active /\ row'[s].path = row[s].path
      BY <2>1 DEF Active
    <3> QED BY <2>1, <2>2, <3>1, OneComes
  <2>3. CASE ActiveAt(p) \ {r} # {}
    BY <1>3, <2>1, <2>3 DEF Edits, Active
  <2> QED BY <2>2, <2>3
<1>4. ASSUME NEW r \in Id, NEW n \in Name, Rename(r, n) PROVE Goal
  <2>1. PICK new \in Path :
          /\ new = row[r].path \/ ActiveAt(new) = {}
          /\ phase[r] = "active" /\ phase' = phase /\ row'[r].path = new
          /\ \A s \in Id \ {r} : row'[s] = row[s]
    BY <1>4, RenameParts
  <2>2. ActiveAt(new) \ {r} = {}
    BY <2>1 DEF UniquePaths, ActiveAt, Active
  <2>3. \A s \in Active' \ {r} : s \in Active /\ row'[s].path = row[s].path
    BY <2>1 DEF Active
  <2> QED BY <2>1, <2>2, <2>3, OneComes
<1>5. ASSUME NEW r \in Active \cup Trashed, Trashes(r) PROVE Goal
  BY <1>5, StayApart DEF Trashes, KeepsFiles, Active, TypeOK
<1>6. ASSUME NEW S \in SUBSET (Active \cup Trashed), PurgeRows(S) PROVE Goal
  BY <1>6, StayApart DEF PurgeRows, Active
<1>7. ASSUME NEW p \in Path, Forgets(p) PROVE Goal
  BY <1>7, StayApart DEF Forgets, Active
<1>8. ASSUME NEW S \in SUBSET Id, RestoreRows(S) PROVE Goal
  <2>1. PICK ok \in SUBSET Trashed :
          /\ ok # {} /\ RestoreRows(ok)
          /\ \A r \in ok : Restorable(r) /\ row'[r].path = RestoreTarget(r)
          /\ \A r \in Id \ ok : phase'[r] = phase[r] /\ row'[r] = row[r]
    BY <1>8, RestoreParts
  <2>2. CASE Cardinality(ok) > 1
    BY <2>1, <2>2 DEF RestoreBatch
  <2>3. ASSUME NEW r \in ok, ok = {r} PROVE Goal
    <3>1. r \in Id
      BY DEF Trashed
    <3>2. ActiveAt(row'[r].path) = {}
      BY <2>1, <3>1, TargetFree
    <3>3. \A s \in Active' \ {r} : s \in Active /\ row'[s].path = row[s].path
      BY <2>1, <2>3 DEF Active
    <3> QED BY <3>1, <3>2, <3>3, OneComes
  <2> QED BY <2>1, <2>2, <2>3, OneOrMore
<1>9. ASSUME IndexAll PROVE Goal
  <2>1. PICK new \in SUBSET Unborn : \E at \in [new -> Path] :
          /\ Adopt(new, at)
          /\ \A r \in new : RowsAt(at[r]) = {}
          /\ \A q, r \in new : at[q] = at[r] => q = r
    BY <1>9, Adoption
  <2>2. PICK at \in [new -> Path] :
          /\ Adopt(new, at)
          /\ \A r \in new : RowsAt(at[r]) = {}
          /\ \A q, r \in new : at[q] = at[r] => q = r
    BY <2>1
  <2>3. /\ \A r \in new : r \in Id /\ row'[r].path = at[r]
        /\ \A r \in Active' \ new : r \in Active /\ row'[r] = row[r]
    BY <2>2 DEF Adopt, NewRow, Unborn, Active
  <2>4. \A r \in new, s \in Active : row[s].path # at[r]
    BY <2>2 DEF RowsAt
  <2>5. UniquePaths'
    <3> SUFFICES ASSUME NEW q \in Active', NEW s \in Active', row'[q].path = row'[s].path
                 PROVE  q = s
      BY DEF UniquePaths
    <3>1. CASE q \in new /\ s \in new
      BY <2>2, <2>3, <3>1
    <3>2. CASE q \notin new /\ s \notin new
      BY <2>3, <3>2 DEF UniquePaths
    <3>3. CASE (q \in new) # (s \in new)
      BY <2>3, <2>4, <3>3
    <3> QED BY <3>1, <3>2, <3>3
  <2> QED BY <2>5
<1>10. ASSUME UNCHANGED phase, KeepsFiles PROVE Goal
  BY <1>10, StayApart DEF KeepsFiles, Active
<1> QED BY <1>1, <1>2, <1>3, <1>4, <1>5, <1>6, <1>7, <1>8, <1>9, <1>10 DEF Kinds

\* For any library, two active rows come over one file only by an edit that moves a
\* note onto a taken path, or by a restore of several files at once: uploads look
\* for the row first, and a restore of one file takes a free name.
THEOREM CollisionsOnly == Spec => CollisionsOnlyByEditOrBatch
<1>1. TypeOK /\ [Next]_vars =>
        [UniquePaths =>
           \/ UniquePaths'
           \/ \E r \in Active, p \in Path, c \in Content :
                ActiveAt(p) \ {r} # {} /\ EditNote(r, p, c)
           \/ \E S \in SUBSET Trashed : Cardinality(S) > 1 /\ RestoreBatch(S)]_vars
  BY StepKinds, CollisionStep
<1> QED BY <1>1, TypeCorrect, PTL DEF Spec, CollisionsOnlyByEditOrBatch

-----------------------------------------------------------------------------
(* Two active files of one content *)

\* Rows that were active before, with the content they had, where they were.
LEMMA StayDistinct ==
  ASSUME NoDuplicates,
         \A s \in Active' : /\ s \in Active /\ row'[s].path = row[s].path
                            /\ row'[s].hash = row[s].hash
  PROVE  NoDuplicates'
BY DEF NoDuplicates

\* One row that comes with a content no other active row has elsewhere.
LEMMA OneContentComes ==
  ASSUME NoDuplicates, NEW r \in Id,
         \A s \in Active \ {r} : row[s].hash = row'[r].hash => row[s].path = row'[r].path,
         \A s \in Active' \ {r} : s \in Active /\ row'[s] = row[s]
  PROVE  NoDuplicates'
<1> SUFFICES ASSUME NEW q \in Active', NEW s \in Active', row'[q].hash = row'[s].hash
             PROVE  row'[q].path = row'[s].path
  BY DEF NoDuplicates
<1>1. CASE q # r /\ s # r
  BY <1>1 DEF NoDuplicates
<1>2. CASE q = r /\ s # r
  BY <1>2
<1>3. CASE q # r /\ s = r
  BY <1>3
<1> QED BY <1>1, <1>2, <1>3

LEMMA DuplicateStep ==
  ASSUME TypeOK, Kinds, UniquePaths, NoDuplicates
  PROVE  \/ NoDuplicates'
         \/ \E S \in SUBSET Trashed : RestoreRows(S)
         \/ IndexAll
<1> DEFINE Goal ==
      NoDuplicates' \/ (\E S \in SUBSET Trashed : RestoreRows(S)) \/ IndexAll
<1>1. ASSUME NEW p \in Path, Rollback(p) PROVE Goal
  BY <1>1, StayDistinct DEF Rollback, Active
<1>2. ASSUME NEW r \in Id, NEW p \in Path, NEW c \in Content, Stores(r, p, c) PROVE Goal
  <2>1. /\ row'[r].path = p /\ row'[r].hash = c
        /\ \A s \in Id \ {r} : phase'[s] = phase[s] /\ row'[s] = row[s]
    BY <1>2, StoreParts DEF Stores
  <2>2. \A s \in Active : row[s].hash = c => row[s].path = p
    BY <1>2 DEF Stores, Duplicates
  <2>3. \A s \in Active' \ {r} : s \in Active /\ row'[s] = row[s]
    BY <2>1 DEF Active
  <2> QED BY <2>1, <2>2, <2>3, OneContentComes
<1>3. ASSUME NEW r \in Id, NEW p \in Path, NEW c \in Content, Edits(r, p, c) PROVE Goal
  <2>1. /\ phase' = phase /\ row'[r].path = p /\ row'[r].hash = c
        /\ \A s \in Id \ {r} : row'[s] = row[s]
    BY <1>3, EditParts
  <2>2. \A s \in Active \ {r} : row[s].hash = c => row[s].path = p
    BY <1>3 DEF Edits, Rejected, Duplicates
  <2>3. \A s \in Active' \ {r} : s \in Active /\ row'[s] = row[s]
    BY <2>1 DEF Active
  <2> QED BY <2>1, <2>2, <2>3, OneContentComes
<1>4. ASSUME NEW r \in Id, NEW n \in Name, Rename(r, n) PROVE Goal
  <2>1. /\ phase[r] = "active" /\ phase' = phase /\ row'[r].hash = row[r].hash
        /\ \A s \in Id \ {r} : row'[s] = row[s]
    BY <1>4, RenameParts
  <2>2. \A s \in Active \ {r} : row[s].hash # row'[r].hash
    BY <2>1 DEF UniquePaths, NoDuplicates, Active
  <2>3. \A s \in Active' \ {r} : s \in Active /\ row'[s] = row[s]
    BY <2>1 DEF Active
  <2> QED BY <2>2, <2>3, OneContentComes
<1>5. ASSUME NEW r \in Active \cup Trashed, Trashes(r) PROVE Goal
  BY <1>5, StayDistinct DEF Trashes, KeepsFiles, Active, TypeOK
<1>6. ASSUME NEW S \in SUBSET (Active \cup Trashed), PurgeRows(S) PROVE Goal
  BY <1>6, StayDistinct DEF PurgeRows, Active
<1>7. ASSUME NEW p \in Path, Forgets(p) PROVE Goal
  BY <1>7, StayDistinct DEF Forgets, Active
<1>8. ASSUME NEW S \in SUBSET Id, RestoreRows(S) PROVE Goal
  BY <1>8, RestoreParts
<1>9. ASSUME UNCHANGED phase, KeepsFiles PROVE Goal
  BY <1>9, StayDistinct DEF KeepsFiles, Active
<1> QED BY <1>1, <1>2, <1>3, <1>4, <1>5, <1>6, <1>7, <1>8, <1>9 DEF Kinds

\* While no two active rows share a path or a content, only a restore or a scan of
\* the disk brings a second file of a content the library has.
THEOREM DuplicatesOnly == Spec => DuplicatesOnlyByRestoreOrScan
<1>1. TypeOK /\ [Next]_vars =>
        [UniquePaths /\ NoDuplicates =>
           \/ NoDuplicates'
           \/ \E S \in SUBSET Trashed : RestoreRows(S)
           \/ IndexAll]_vars
  BY StepKinds, DuplicateStep
<1> QED BY <1>1, TypeCorrect, PTL DEF Spec, DuplicatesOnlyByRestoreOrScan

-----------------------------------------------------------------------------
(* Contents *)

\* What ContentLostOnlyAtItsPath allows a step to do to a row that has a file.
ContentKept(r) ==
  LET p == row[r].path
  IN \/ disk'[row'[r].path] = row'[r].hash
     \/ r \in Active /\ AtPath(p) /\ disk'[p] = NoFile /\ UNCHANGED <<phase, row>>
     \/ r \in Active /\ \E q \in Active \ {r}, c \in Content : EditNote(q, p, c)
     \/ r \in Active /\ Rename(r, p[2])
     \/ r \in Trashed /\ AtPath(p)
     \/ r \in Trashed /\ \E q \in Active : Rename(q, p[2]) /\ row'[q].path = p
     \/ r \in Trashed /\ phase'[r] = "active" /\ row'[r].path # p
     \/ \E q \in RowsAt(p) \ {r} : TakenThrough(q, p)

\* Neither the row nor what lies at its path changes.
LEMMA Untouched ==
  ASSUME NEW r, disk[row[r].path] = row[r].hash,
         row'[r].path = row[r].path, row'[r].hash = row[r].hash,
         disk'[row[r].path] = disk[row[r].path]
  PROVE  ContentKept(r)
BY DEF ContentKept

\* A step that purges, renames or edits another row at the path of r.
LEMMA Shared ==
  ASSUME NEW r, NEW q \in Active \cup Trashed, q # r, row[q].path = row[r].path,
         TakenThrough(q, row[r].path)
  PROVE  ContentKept(r)
BY DEF ContentKept, RowsAt

LEMMA ContentStep ==
  ASSUME TypeOK, Kinds, NEW r \in Active \cup Trashed, disk[row[r].path] = row[r].hash,
         phase'[r] \in {"active", "trash"}
  PROVE  ContentKept(r)
<1> DEFINE here == row[r].path
<1>0. /\ r \in Id /\ here \in Path /\ row[r].hash \in Content /\ disk[here] = row[r].hash
      /\ disk \in [Path -> Content \cup {NoFile}] /\ NoFile \notin Content
  BY RowParts, ConstantsOK DEF Active, Trashed, TypeOK
<1>1. ASSUME NEW p \in Path, AtPath(p), Rollback(p) PROVE ContentKept(r)
  <2>1. disk' = [disk EXCEPT ![p] = NoFile] /\ UNCHANGED <<phase, row>>
    BY <1>1 DEF Rollback
  <2>2. CASE p = here
    <3>1. disk'[here] = NoFile
      BY <1>0, <2>1, <2>2
    <3> QED BY <1>1, <2>1, <2>2, <3>1 DEF ContentKept
  <2>3. CASE p # here
    BY <1>0, <2>1, <2>3, Untouched
  <2> QED BY <2>2, <2>3
<1>2. ASSUME NEW q \in Id, NEW p \in Path, NEW c \in Content, Stores(q, p, c)
      PROVE  ContentKept(r)
  <2>1. /\ q \in ActiveAt(p) \/ q \in Unborn
        /\ row'[q].path = p /\ row'[q].hash = c
        /\ \A s \in Id \ {q} : row'[s] = row[s]
        /\ disk' = [disk EXCEPT ![p] = c] /\ AtPath(p)
    BY <1>2, StoreParts DEF Stores
  <2>2. CASE q = r
    <3>1. disk'[p] = c
      BY <1>0, <2>1
    <3> QED BY <2>1, <2>2, <3>1 DEF ContentKept
  <2>3. CASE q # r /\ p # here
    BY <1>0, <2>1, <2>3, Untouched
  <2>4. CASE q # r /\ p = here
    <3>1. CASE r \in Active
      <4>1. q \in ActiveAt(p)
        BY <1>2, <2>4, <3>1 DEF Stores, Store, Slot, ActiveAt
      <4>2. TakenThrough(q, here)
        BY <2>1, <2>4, <4>1 DEF TakenThrough, ActiveAt
      <4> QED BY <2>4, <4>1, <4>2, Shared DEF ActiveAt
    <3>2. CASE r \notin Active
      BY <2>1, <2>4, <3>2 DEF ContentKept
    <3> QED BY <3>1, <3>2
  <2> QED BY <2>2, <2>3, <2>4
<1>3. ASSUME NEW q \in Id, NEW p \in Path, NEW c \in Content, Edits(q, p, c)
      PROVE  ContentKept(r)
  <2>1. /\ q \in Active /\ EditNote(q, p, c) /\ AtPath(p)
        /\ row'[q].path = p /\ row'[q].hash = c
        /\ \A s \in Id \ {q} : row'[s] = row[s]
        /\ disk' = [disk EXCEPT ![row[q].path] = NoFile, ![p] = c]
    <3>1. EditNote(q, p, c)
      BY <1>3 DEF Edits
    <3>2. q \in Active
      BY <3>1 DEF EditNote
    <3>3. AtPath(p)
      BY <3>1 DEF AtPath
    <3> QED BY <1>3, <3>1, <3>2, <3>3, EditParts
  <2>2. CASE q = r
    <3>1. disk'[p] = c
      BY <1>0, <2>1
    <3> QED BY <2>1, <2>2, <3>1 DEF ContentKept
  <2>3. CASE q # r /\ p # here
    <3>1. CASE row[q].path = here
      <4>1. TakenThrough(q, here)
        BY <2>1 DEF TakenThrough
      <4> QED BY <2>1, <2>3, <3>1, <4>1, Shared
    <3>2. CASE row[q].path # here
      <4>1. disk'[here] = disk[here]
        BY <1>0, <2>1, <2>3, <3>2
      <4> QED BY <1>0, <2>1, <2>3, <4>1, Untouched
    <3> QED BY <3>1, <3>2
  <2>4. CASE q # r /\ p = here
    BY <2>1, <2>4 DEF ContentKept
  <2> QED BY <2>2, <2>3, <2>4
<1>4. ASSUME NEW q \in Id, NEW n \in Name, Rename(q, n) PROVE ContentKept(r)
  <2>1. PICK new \in Path :
          /\ new = <<row[q].path[1], n>>
          /\ new = row[q].path \/ ActiveAt(new) = {}
          /\ phase[q] = "active" /\ row'[q].path = new /\ row'[q].hash = row[q].hash
          /\ \A s \in Id \ {q} : row'[s] = row[s]
          /\ disk' = [disk EXCEPT ![new] = disk[row[q].path], ![row[q].path] = NoFile]
    BY <1>4, RenameParts
  <2>2. q \in Active /\ new[2] = n
    BY <2>1 DEF Active
  <2>3. CASE q = r /\ new = here
    BY <1>4, <2>2, <2>3 DEF ContentKept
  <2>4. CASE q = r /\ new # here
    <3>1. disk'[new] = disk[here]
      BY <1>0, <2>1, <2>4
    <3> QED BY <1>0, <2>1, <2>4, <3>1 DEF ContentKept
  <2>5. CASE q # r /\ row[q].path = here
    <3>1. TakenThrough(q, here)
      BY <1>4 DEF TakenThrough
    <3> QED BY <2>2, <2>5, <3>1, Shared
  <2>6. CASE q # r /\ row[q].path # here /\ new # here
    <3>1. disk'[here] = disk[here]
      BY <1>0, <2>1, <2>6
    <3> QED BY <1>0, <2>1, <2>6, <3>1, Untouched
  <2>7. CASE q # r /\ row[q].path # here /\ new = here
    <3>1. r \in Trashed
      BY <2>1, <2>7 DEF ActiveAt
    <3> QED BY <1>4, <2>1, <2>2, <2>7, <3>1 DEF ContentKept
  <2> QED BY <2>3, <2>4, <2>5, <2>6, <2>7
<1>5. ASSUME disk' = disk, row'[r].path = here, row'[r].hash = row[r].hash
      PROVE  ContentKept(r)
  BY <1>5, Untouched
<1>6. ASSUME NEW S \in SUBSET (Active \cup Trashed), PurgeRows(S) PROVE ContentKept(r)
  <2>1. r \notin S
    BY <1>0, <1>6 DEF PurgeRows
  <2>2. ASSUME NEW s \in S, row[s].path = here PROVE ContentKept(r)
    <3>1. phase'[s] = "gone"
      BY <1>6 DEF PurgeRows, Active, Trashed
    <3> QED BY <2>1, <2>2, <3>1, Shared DEF TakenThrough
  <2>3. CASE here \notin {row[s].path : s \in S}
    <3>1. row'[r] = row[r] /\ disk'[here] = disk[here]
      BY <1>0, <1>6, <2>1, <2>3 DEF PurgeRows
    <3> QED BY <3>1, Untouched
  <2> QED BY <2>2, <2>3
<1>7. ASSUME NEW p \in Path, Forgets(p) PROVE ContentKept(r)
  <2>1. p # here
    BY <1>7 DEF Forgets, RowsAt
  <2>2. row' = row /\ disk'[here] = disk[here]
    BY <1>0, <1>7, <2>1 DEF Forgets
  <2> QED BY <2>2, Untouched
<1>8. ASSUME NEW S \in SUBSET Id, RestoreRows(S) PROVE ContentKept(r)
  <2>1. PICK ok \in SUBSET Trashed :
          /\ \A s \in ok : phase'[s] = "active" /\ row'[s].hash = row[s].hash
          /\ \A s \in Id \ ok : row'[s] = row[s]
          /\ disk' = disk
    BY <1>8, RestoreParts
  <2>2. CASE r \in ok /\ row'[r].path # here
    BY <2>1, <2>2 DEF ContentKept
  <2>3. CASE r \notin ok \/ row'[r].path = here
    BY <1>0, <1>5, <2>1, <2>3
  <2> QED BY <2>2, <2>3
<1>9. ASSUME IndexAll PROVE ContentKept(r)
  <2>1. PICK new \in SUBSET Unborn : \E at \in [new -> Path] : Adopt(new, at)
    BY <1>9, Adoption
  <2>2. r \notin new
    BY DEF Unborn, Active, Trashed
  <2>3. row'[r] = row[r] /\ disk' = disk
    BY <1>0, <1>9, <2>1, <2>2 DEF Adopt, IndexAll
  <2> QED BY <1>5, <2>3
<1>10. ASSUME disk' = disk, KeepsFiles PROVE ContentKept(r)
  BY <1>0, <1>5, <1>10 DEF KeepsFiles
<1>11. ASSUME NEW q \in Active \cup Trashed, Trashes(q) PROVE ContentKept(r)
  BY <1>10, <1>11 DEF Trashes
<1> QED BY <1>1, <1>2, <1>3, <1>4, <1>6, <1>7, <1>8, <1>9, <1>10, <1>11 DEF Kinds

\* A file that is what its row says stays so in any library, however many rows
\* share its path, but for a refused upload to its path, a note moved onto it, a
\* rename to its own name, what may befall the trash, and what is done to another
\* row of the path.
THEOREM ContentsKept == Spec => ContentLostOnlyAtItsPath
<1>1. TypeOK /\ [Next]_vars =>
        [\A r \in Active \cup Trashed :
           LET p == row[r].path
           IN disk[p] = row[r].hash /\ phase'[r] \in {"active", "trash"} =>
                ContentKept(r)]_vars
  BY StepKinds, ContentStep
<1> QED BY <1>1, TypeCorrect, PTL DEF Spec, ContentLostOnlyAtItsPath, ContentKept

\* What LockProtects allows a step to do to the file of a locked row.
FileKept(r) ==
  LET p == row[r].path
  IN \/ disk[p] = NoFile \/ disk'[p] = disk[p]
     \/ PurgeOne(r) \/ AtPath(p)
     \/ \E q \in Active : Rename(q, p[2]) /\ row'[q].path = p
     \/ \E q \in RowsAt(p) \ {r} : TakenThrough(q, p)

\* What happens to the file of a row of the trash happens at its path or through
\* another row, but for what LockKept allows to happen to the row itself.
LEMMA FileStep ==
  ASSUME TypeOK, Kinds, NEW r \in Trashed, LockKept(r)
  PROVE  FileKept(r)
<1> DEFINE here == row[r].path
<1>0. r \in Id /\ here \in Path /\ r \in RowsAt(here) /\ phase[r] = "trash"
      /\ disk \in [Path -> Content \cup {NoFile}]
  BY RowParts DEF Trashed, TypeOK, RowsAt
<1>1. ASSUME disk'[here] = disk[here] PROVE FileKept(r)
  BY <1>1 DEF FileKept
<1>2. ASSUME NEW q \in Active \cup Trashed, q # r, row[q].path = here, TakenThrough(q, here)
      PROVE  FileKept(r)
  BY <1>2 DEF FileKept, RowsAt
<1>3. ASSUME NEW p \in Path, AtPath(p), NEW x, disk' = [disk EXCEPT ![p] = x]
      PROVE  FileKept(r)
  BY <1>0, <1>1, <1>3 DEF FileKept
<1>4. ASSUME NEW p \in Path, AtPath(p), Rollback(p) PROVE FileKept(r)
  BY <1>3, <1>4 DEF Rollback
<1>5. ASSUME NEW q \in Id, NEW p \in Path, NEW c \in Content, Stores(q, p, c)
      PROVE  FileKept(r)
  BY <1>3, <1>5 DEF Stores, Store
<1>6. ASSUME NEW q \in Id, NEW p \in Path, NEW c \in Content, Edits(q, p, c)
      PROVE  FileKept(r)
  <2>1. /\ q \in Active /\ q # r /\ EditNote(q, p, c) /\ AtPath(p)
        /\ disk' = [disk EXCEPT ![row[q].path] = NoFile, ![p] = c]
    BY <1>0, <1>6, EditParts DEF Edits, AtPath, Active
  <2>2. CASE p = here
    BY <2>1, <2>2 DEF FileKept
  <2>3. CASE row[q].path = here
    <3>1. TakenThrough(q, here)
      BY <2>1 DEF TakenThrough
    <3> QED BY <1>2, <2>1, <2>3, <3>1
  <2>4. CASE p # here /\ row[q].path # here
    BY <1>0, <1>1, <2>1, <2>4
  <2> QED BY <2>2, <2>3, <2>4
<1>7. ASSUME NEW q \in Id, NEW n \in Name, Rename(q, n) PROVE FileKept(r)
  <2>1. PICK new \in Path :
          /\ new = <<row[q].path[1], n>> /\ row'[q].path = new /\ phase[q] = "active"
          /\ disk' = [disk EXCEPT ![new] = disk[row[q].path], ![row[q].path] = NoFile]
    BY <1>7, RenameParts
  <2>2. q \in Active /\ q # r /\ new[2] = n
    BY <1>0, <2>1 DEF Active
  <2>3. CASE new = here
    BY <1>7, <2>1, <2>2, <2>3 DEF FileKept
  <2>4. CASE row[q].path = here
    <3>1. TakenThrough(q, here)
      BY <1>7 DEF TakenThrough
    <3> QED BY <1>2, <2>2, <2>4, <3>1
  <2>5. CASE new # here /\ row[q].path # here
    BY <1>0, <1>1, <2>1, <2>5
  <2> QED BY <2>3, <2>4, <2>5
<1>8. ASSUME NEW S \in SUBSET (Active \cup Trashed), PurgeRows(S) PROVE FileKept(r)
  <2>1. CASE r \in S
    <3>1. phase'[r] = "gone"
      BY <1>0, <1>8, <2>1 DEF PurgeRows
    <3>2. PurgeOne(r) \/ SyncDelete(here)
      BY <1>0, <3>1 DEF LockKept, Unlock, RestoreBatch, RestoreRows
    <3> QED BY <3>2 DEF FileKept, AtPath
  <2>2. ASSUME r \notin S, NEW s \in S, row[s].path = here PROVE FileKept(r)
    <3>1. phase'[s] = "gone"
      BY <1>8 DEF PurgeRows, Active, Trashed
    <3> QED BY <1>2, <2>2, <3>1 DEF TakenThrough
  <2>3. CASE here \notin {row[s].path : s \in S}
    BY <1>0, <1>1, <1>8, <2>3 DEF PurgeRows
  <2> QED BY <2>1, <2>2, <2>3
<1>9. ASSUME NEW p \in Path, Forgets(p) PROVE FileKept(r)
  BY <1>0, <1>1, <1>9 DEF Forgets
<1>10. ASSUME disk' = disk PROVE FileKept(r)
  BY <1>1, <1>10
<1>11. (\E S \in SUBSET Id : RestoreRows(S)) => disk' = disk
  BY DEF RestoreRows
<1>12. (IndexAll \/ \E q \in Active \cup Trashed : Trashes(q)) => disk' = disk
  BY DEF IndexAll, Trashes
<1> QED BY <1>4, <1>5, <1>6, <1>7, <1>8, <1>9, <1>10, <1>11, <1>12 DEF Kinds

\* A lock protects a row of the trash from every sweep, whatever its age, the limit
\* and the other rows are: only a request for the row itself, a restore that has
\* it, or a device's delete of its path takes it away or unlocks it.  Its file is
\* safe from sweeps as long as no other row has the same path.
THEOREM LocksHold == Spec => LockProtects
<1>1. TypeOK /\ Next => \A r \in Trashed : row[r].locked => LockKept(r)
  BY AtPathKept, OnRowKept, SweepsKept DEF Next
<1>2. TypeOK /\ Next => \A r \in Trashed : row[r].locked => LockKept(r) /\ FileKept(r)
  BY <1>1, StepKinds, FileStep
<1>3. ASSUME NEW r \in Trashed, LockKept(r), FileKept(r)
      PROVE  LET p == row[r].path
             IN /\ \/ phase'[r] = "trash" /\ row'[r].locked
                   \/ Unlock(r) \/ PurgeOne(r) \/ SyncDelete(p)
                   \/ \E S \in SUBSET Id : r \in S /\ RestoreBatch(S)
                /\ \/ disk[p] = NoFile \/ disk'[p] = disk[p]
                   \/ PurgeOne(r) \/ AtPath(p)
                   \/ \E q \in Active : Rename(q, p[2]) /\ row'[q].path = p
                   \/ \E q \in RowsAt(p) \ {r} : TakenThrough(q, p)
  BY <1>3 DEF LockKept, FileKept
<1>4. TypeOK /\ [Next]_vars =>
        [\A r \in Trashed : row[r].locked =>
           LET p == row[r].path
           IN /\ \/ phase'[r] = "trash" /\ row'[r].locked
                 \/ Unlock(r) \/ PurgeOne(r) \/ SyncDelete(p)
                 \/ \E S \in SUBSET Id : r \in S /\ RestoreBatch(S)
              /\ \/ disk[p] = NoFile \/ disk'[p] = disk[p]
                 \/ PurgeOne(r) \/ AtPath(p)
                 \/ \E q \in Active : Rename(q, p[2]) /\ row'[q].path = p
                 \/ \E q \in RowsAt(p) \ {r} : TakenThrough(q, p)]_vars
  BY <1>2, <1>3
<1> QED BY <1>4, TypeCorrect, PTL DEF Spec, LockProtects

-----------------------------------------------------------------------------
(* The quota *)

\* The bytes of finitely many rows are finitely many.
LEMMA BytesFinite ==
  ASSUME NEW S \in SUBSET Id, NEW size \in [S -> Nat]
  PROVE  LET all == UNION {{r} \X (1..size[r]) : r \in S}
         IN  IsFiniteSet(all) /\ Cardinality(all) \in Nat
<1> DEFINE bytes == [r \in S |-> {r} \X (1..size[r])]
           each == {bytes[r] : r \in S}
<1>1. IsFiniteSet(S)
  BY ConstantsOK, FS_Subset
<1>2. IsFiniteSet(each)
  <2>1. bytes \in Surjection(S, each)
    BY DEF Surjection
  <2> QED BY <1>1, <2>1, FS_Surjection
<1>3. \A r \in S : IsFiniteSet(bytes[r])
  <2> TAKE r \in S
  <2>1. size[r] \in Int
    OBVIOUS
  <2>2. IsFiniteSet({r})
    BY FS_Singleton
  <2>3. IsFiniteSet(1..size[r])
    BY <2>1, FS_Interval
  <2>4. IsFiniteSet({r} \X (1..size[r]))
    BY <2>2, <2>3, FS_Product
  <2> QED BY <2>4
<1>4. IsFiniteSet(UNION each)
  <2>1. \A T \in each : IsFiniteSet(T)
    BY <1>3
  <2> QED BY <1>2, <2>1, FS_UNION
<1>5. UNION each = UNION {{r} \X (1..size[r]) : r \in S}
  OBVIOUS
<1> QED BY <1>4, <1>5, FS_CardinalityType

\* The bytes used, before a step and after it.
LEMMA UsedType ==
  ASSUME TypeOK, TypeOK'
  PROVE  /\ Used \in Nat /\ IsFiniteSet(UNION {Bytes(r) : r \in Active})
         /\ Used' \in Nat /\ IsFiniteSet((UNION {Bytes(r) : r \in Active})')
<1> DEFINE before == [r \in Active |-> Size[row[r].hash]]
           after == [r \in Active' |-> Size[row'[r].hash]]
<1>1. before \in [Active -> Nat] /\ after \in [Active' -> Nat]
  BY ConstantsOK DEF TypeOK, Row, Active
<1>2. Active \in SUBSET Id /\ Active' \in SUBSET Id
  BY DEF Active
<1>3. /\ UNION {Bytes(r) : r \in Active} = UNION {{r} \X (1..before[r]) : r \in Active}
      /\ (UNION {Bytes(r) : r \in Active})' = UNION {{r} \X (1..after[r]) : r \in Active'}
  BY DEF Bytes
<1> HIDE DEF before, after
<1> QED BY <1>1, <1>2, <1>3, BytesFinite DEF Used

\* Rows that leave the library, or stay with the content they had, use no more.
LEMMA UsedFalls ==
  ASSUME TypeOK, TypeOK',
         \A s \in Active' : s \in Active /\ row'[s].hash = row[s].hash
  PROVE  ~(Used' > Used)
<1>1. (UNION {Bytes(r) : r \in Active})' \in SUBSET (UNION {Bytes(r) : r \in Active})
  BY DEF Bytes
<1> QED BY <1>1, UsedType, FS_Subset DEF Used

\* One row that comes, or changes its content, adds no more than its size.
LEMMA UsedGrows ==
  ASSUME TypeOK, TypeOK', NEW r \in Id,
         \A s \in Active' \ {r} : s \in Active /\ row'[s].hash = row[s].hash
  PROVE  Used' <= Used + Size[row'[r].hash]
<1> DEFINE before == UNION {Bytes(s) : s \in Active}
           more == {r} \X (1..Size[row'[r].hash])
<1>1. IsFiniteSet(before) /\ Cardinality(before) = Used /\ Used \in Nat /\ Used' \in Nat
  BY UsedType DEF Used
<1>2. Size[row'[r].hash] \in Nat
  BY ConstantsOK DEF TypeOK, Row
<1>3. IsFiniteSet(more) /\ Cardinality(more) = Size[row'[r].hash]
  <2> DEFINE n == Size[row'[r].hash]
  <2>1. n \in Nat
    BY <1>2
  <2> HIDE DEF n
  <2>2. IsFiniteSet({r}) /\ Cardinality({r}) = 1
    BY FS_Singleton
  <2>3. IsFiniteSet(1..n) /\ Cardinality(1..n) = n
    BY <2>1, FS_Interval
  <2>4. IsFiniteSet({r} \X (1..n)) /\ Cardinality({r} \X (1..n)) = 1 * n
    BY <2>2, <2>3, FS_Product
  <2> QED BY <2>1, <2>4 DEF n
<1>4. (UNION {Bytes(s) : s \in Active})' \in SUBSET (before \cup more)
  BY DEF Bytes
<1> HIDE DEF before, more
<1>5. /\ IsFiniteSet(before \cup more) /\ Cardinality(before \cap more) \in Nat
      /\ Cardinality(before \cup more) =
           Cardinality(before) + Cardinality(more) - Cardinality(before \cap more)
  <2>1. before \cap more \in SUBSET before
    OBVIOUS
  <2>2. Cardinality(before \cap more) \in Nat
    BY <1>1, <2>1, FS_Subset, FS_CardinalityType
  <2> QED BY <1>1, <1>3, <2>2, FS_Union
<1>6. Used' <= Cardinality(before \cup more)
  BY <1>4, <1>5, FS_Subset DEF Used
<1> QED BY <1>1, <1>2, <1>3, <1>5, <1>6

LEMMA QuotaStep ==
  ASSUME TypeOK, TypeOK', Kinds, OverQuota', Used' > Used
  PROVE  \/ \E p \in Path, c \in Content, base \in Content \cup {NoHash} :
              SyncUpload(p, c, base)
         \/ IndexAll
         \/ \E S \in SUBSET Trashed : Cardinality(S) > 1 /\ RestoreBatch(S)
<1> DEFINE Goal ==
      \/ \E p \in Path, c \in Content, base \in Content \cup {NoHash} :
           SyncUpload(p, c, base)
      \/ IndexAll
      \/ \E S \in SUBSET Trashed : Cardinality(S) > 1 /\ RestoreBatch(S)
<1>1. ASSUME \A s \in Active' : s \in Active /\ row'[s].hash = row[s].hash PROVE FALSE
  BY <1>1, UsedFalls
<1>2. ASSUME NEW r \in Id, ~Exceeds(Size[row'[r].hash]),
             \A s \in Active' \ {r} : s \in Active /\ row'[s].hash = row[s].hash
      PROVE  FALSE
  <2>1. Used' <= Used + Size[row'[r].hash]
    BY <1>2, UsedGrows
  <2>2. Used \in Nat /\ Used' \in Nat /\ Size[row'[r].hash] \in Nat /\ Quota \in Nat
    BY UsedType, ConstantsOK DEF TypeOK, Row
  <2>3. Quota > 0 /\ Used' > Quota
    BY DEF OverQuota
  <2>4. Used + Size[row'[r].hash] <= Quota
    BY <1>2, <2>2, <2>3 DEF Exceeds
  <2> QED BY <2>1, <2>2, <2>3, <2>4
<1>3. ASSUME NEW p \in Path, Rollback(p) PROVE FALSE
  BY <1>1, <1>3 DEF Rollback, Active
<1>4. ASSUME NEW r \in Id, NEW p \in Path, NEW c \in Content, Stores(r, p, c) PROVE Goal
  <2>1. row'[r].hash = c /\ \A s \in Id \ {r} : phase'[s] = phase[s] /\ row'[s] = row[s]
    BY <1>4, StoreParts DEF Stores
  <2>2. \A s \in Active' \ {r} : s \in Active /\ row'[s].hash = row[s].hash
    BY <2>1 DEF Active
  <2>3. CASE ~Exceeds(Size[c])
    BY <1>2, <2>1, <2>2, <2>3
  <2>4. CASE Exceeds(Size[c])
    BY <1>4, <2>4 DEF Stores
  <2> QED BY <2>3, <2>4
<1>5. ASSUME NEW r \in Id, NEW p \in Path, NEW c \in Content, Edits(r, p, c) PROVE FALSE
  <2>1. phase' = phase /\ row'[r].hash = c /\ \A s \in Id \ {r} : row'[s] = row[s]
    BY <1>5, EditParts
  <2>2. \A s \in Active' \ {r} : s \in Active /\ row'[s].hash = row[s].hash
    BY <2>1 DEF Active
  <2>3. ~Exceeds(Size[c])
    BY <1>5 DEF Edits, EditNote
  <2> QED BY <1>2, <2>1, <2>2, <2>3
<1>6. ASSUME NEW r \in Id, NEW n \in Name, Rename(r, n) PROVE FALSE
  <2>1. /\ phase' = phase /\ row'[r].hash = row[r].hash
        /\ \A s \in Id \ {r} : row'[s] = row[s]
    BY <1>6, RenameParts
  <2> QED BY <1>1, <2>1 DEF Active
<1>7. ASSUME NEW r \in Active \cup Trashed, Trashes(r) PROVE FALSE
  BY <1>1, <1>7 DEF Trashes, KeepsFiles, Active, TypeOK
<1>8. ASSUME NEW S \in SUBSET (Active \cup Trashed), PurgeRows(S) PROVE FALSE
  BY <1>1, <1>8 DEF PurgeRows, Active
<1>9. ASSUME NEW p \in Path, Forgets(p) PROVE FALSE
  BY <1>1, <1>9 DEF Forgets, Active
<1>10. ASSUME NEW S \in SUBSET Id, RestoreRows(S) PROVE Goal
  <2>1. PICK ok \in SUBSET Trashed :
          /\ ok # {} /\ RestoreRows(ok)
          /\ \A r \in ok : Restorable(r) /\ row'[r].hash = row[r].hash
          /\ \A r \in Id \ ok : phase'[r] = phase[r] /\ row'[r] = row[r]
    BY <1>10, RestoreParts
  <2>2. CASE Cardinality(ok) > 1
    BY <2>1, <2>2 DEF RestoreBatch
  <2>3. ASSUME NEW r \in ok, ok = {r} PROVE FALSE
    <3>1. r \in Id
      BY DEF Trashed
    <3>2. ~Exceeds(Size[row'[r].hash])
      BY <2>1 DEF Restorable
    <3>3. \A s \in Active' \ {r} : s \in Active /\ row'[s].hash = row[s].hash
      BY <2>1, <2>3 DEF Active
    <3> QED BY <1>2, <3>1, <3>2, <3>3
  <2> QED BY <2>1, <2>2, <2>3, OneOrMore
<1>11. ASSUME UNCHANGED phase, KeepsFiles PROVE FALSE
  BY <1>1, <1>11 DEF KeepsFiles, Active
<1> QED BY <1>3, <1>4, <1>5, <1>6, <1>7, <1>8, <1>9, <1>10, <1>11 DEF Kinds

\* Whatever the sizes and the quota, a user gets further over it only by a device's
\* upload, a scan of the disk, or a restore of several files at once, each of which
\* is judged by what was used before the request.
THEOREM QuotaPassedOnly == Spec => QuotaPassedOnlyByThese
<1>1. TypeOK /\ TypeOK' /\ [Next]_vars =>
        [OverQuota' /\ Used' > Used =>
           \/ \E p \in Path, c \in Content, base \in Content \cup {NoHash} :
                SyncUpload(p, c, base)
           \/ IndexAll
           \/ \E S \in SUBSET Trashed : Cardinality(S) > 1 /\ RestoreBatch(S)]_vars
  BY StepKinds, QuotaStep
<1> QED BY <1>1, TypeCorrect, PTL DEF Spec, QuotaPassedOnlyByThese
=============================================================================
