----------------------------- MODULE FileGroups -----------------------------
(***************************************************************************)
(* The groups of one user's files (api/files.py, api/admin.py): a group is *)
(* a row of file_groups, a file is in the group its column group_id names. *)
(* The database enforces neither the uniqueness of names nor the foreign   *)
(* key (SQLite, PRAGMA foreign_keys is never set), so both rest on checks  *)
(* that a request makes before it writes: `begin' is the request up to its *)
(* checks, `end' its commit.  Storing an upload lies between the two; it   *)
(* may take long.                                                          *)
(*                                                                         *)
(* Identities are never reused: a group once deleted and a file row once   *)
(* purged do not come back.  A refused request is no action.               *)
(***************************************************************************)
EXTENDS Naturals, FiniteSets

CONSTANTS
  Group,    \* identities of groups
  Name,     \* names of groups
  Long,     \* the names longer than 50 characters
  Blank,    \* the empty name
  File,     \* identities of file rows
  Req,      \* requests that can be in flight at once
  Unborn,   \* the "name" of a group not yet created
  Deleted,  \* the "name" of a group that was deleted
  NoGroup   \* NULL in the column group_id

ASSUME GroupConstantsOK ==
  /\ IsFiniteSet(Group) /\ IsFiniteSet(Req)
  /\ Long \subseteq Name
  /\ {Blank, Unborn, Deleted} \cap Name = {} /\ Blank \notin {Unborn, Deleted}
  /\ Unborn # Deleted /\ NoGroup \notin Group

VARIABLES
  group,   \* group[g]: the name of g, or Unborn or Deleted
  status,  \* status[f]: "absent" before the row exists, "active", "trashed", "purged"
  member,  \* member[f]: column group_id
  req      \* req[r]: what request r is about to write

vars == <<group, status, member, req>>

Existing == {g \in Group : group[g] \notin {Unborn, Deleted}}
Named(n) == {g \in Group : group[g] = n}
Row(f) == status[f] \in {"active", "trashed"}

\* Whatever one of the requests holds; `loaded' is the group_id that it read.
Idle == [op |-> "idle"]
Move(f, g) == [op |-> "move", file |-> f, group |-> g, loaded |-> member[f]]
Save(f, g) == [op |-> "save", file |-> f, group |-> g]
Create(n) == [op |-> "create", name |-> n]
Rename(g, n) == [op |-> "rename", group |-> g, name |-> n]

\* The requests that are about to give the name n.
Naming(n) == {r \in Req : req[r].op \in {"create", "rename"} /\ req[r].name = n}

-----------------------------------------------------------------------------
Init ==
  /\ group = [g \in Group |-> Unborn]
  /\ status = [f \in File |-> "absent"]
  /\ member = [f \in File |-> NoGroup]
  /\ req = [r \in Req |-> Idle]

Begin(r, q) ==
  /\ req[r] = Idle
  /\ req' = [req EXCEPT ![r] = q]
  /\ UNCHANGED <<group, status, member>>

Finish(r) == req' = [req EXCEPT ![r] = Idle]

\* move_to_group: the file is active and the group exists.
BeginMove(r, f, g) ==
  /\ status[f] = "active"
  /\ g \in Existing \cup {NoGroup}
  /\ Begin(r, Move(f, g))

\* The commit writes group_id if it differs from what was loaded, whatever it
\* is by then, and fails if the row has been purged.
EndMove(r) ==
  /\ req[r].op = "move"
  /\ member' = IF Row(req[r].file) /\ req[r].group # req[r].loaded
               THEN [member EXCEPT ![req[r].file] = req[r].group] ELSE member
  /\ Finish(r)
  /\ UNCHANGED <<group, status>>

\* ingest_file (uploads, notes, sync): a group that is named must exist.
BeginSave(r, f, g) ==
  /\ status[f] \in {"absent", "active"}
  /\ g \in Existing \cup {NoGroup}
  /\ Begin(r, Save(f, g))

\* The stored file gets its row, or its active row gets the group of this
\* request: none, when the request names none.  If the row went to the trash
\* in between, the file gets another row, which is not followed here.
EndSave(r) ==
  /\ req[r].op = "save"
  /\ IF status[req[r].file] \in {"absent", "active"}
     THEN /\ status' = [status EXCEPT ![req[r].file] = "active"]
          /\ member' = [member EXCEPT ![req[r].file] = req[r].group]
     ELSE UNCHANGED <<status, member>>
  /\ Finish(r)
  /\ UNCHANGED group

\* Mutant: another group's name is accepted.
FreeAlways(n) == n # Blank

\* the checks that create_group and rename_group share
Free(n) == n # Blank /\ Named(n) = {}

\* create_group: the length of the name is checked here only.
BeginCreate(r, n) == Free(n) /\ n \notin Long /\ Begin(r, Create(n))

EndCreate(r) ==
  /\ req[r].op = "create"
  /\ \E g \in Group : group[g] = Unborn /\ group' = [group EXCEPT ![g] = req[r].name]
  /\ Finish(r)
  /\ UNCHANGED <<status, member>>

BeginRename(r, g, n) == g \in Existing /\ Free(n) /\ Begin(r, Rename(g, n))

\* The commit fails if the group has been deleted.
EndRename(r) ==
  /\ req[r].op = "rename"
  /\ group' = IF req[r].group \in Existing
              THEN [group EXCEPT ![req[r].group] = req[r].name] ELSE group
  /\ Finish(r)
  /\ UNCHANGED <<status, member>>

\* Mutant: only the files one can see leave the group.
DetachedActive(g) ==
  [f \in File |-> IF member[f] = g /\ status[f] = "active" THEN NoGroup ELSE member[f]]

\* every file of the group, in the trash or not, leaves it
Detached(g) == [f \in File |-> IF member[f] = g THEN NoGroup ELSE member[f]]

\* delete_group and the administrator's delete: one transaction
DeleteGroup(g) ==
  /\ g \in Existing
  /\ member' = Detached(g)
  /\ group' = [group EXCEPT ![g] = Deleted]
  /\ UNCHANGED <<status, req>>

\* The library moves files into and out of the trash and purges them: none of
\* this touches group_id.
TrashFile(f) ==
  /\ \/ status[f] = "active" /\ status' = [status EXCEPT ![f] = "trashed"]
     \/ status[f] = "trashed" /\ \E s \in {"active", "purged"} : status' = [status EXCEPT ![f] = s]
  /\ UNCHANGED <<group, member, req>>

\* The process stops: requests vanish before their commit.
Restart ==
  /\ req' = [r \in Req |-> Idle]
  /\ UNCHANGED <<group, status, member>>

Next ==
  \/ \E r \in Req :
       \/ \E f \in File, g \in Group \cup {NoGroup} : BeginMove(r, f, g) \/ BeginSave(r, f, g)
       \/ \E n \in Name \cup {Blank} : BeginCreate(r, n) \/ \E g \in Group : BeginRename(r, g, n)
       \/ EndMove(r) \/ EndSave(r) \/ EndCreate(r) \/ EndRename(r)
  \/ \E g \in Group : DeleteGroup(g)
  \/ \E f \in File : TrashFile(f)
  \/ Restart

Spec == Init /\ [][Next]_vars

-----------------------------------------------------------------------------
\* list_files: the group a file is shown with, none if it does not exist
Shown(f) == IF member[f] \in Existing THEN group[member[f]] ELSE Unborn

\* the rows that are in a group and shown with none; no list by group has them
Lost == {f \in File : Row(f) /\ member[f] # NoGroup /\ Shown(f) = Unborn}

\* What a request may hold.
Request ==
  {Idle} \cup [op : {"move"}, file : File, group : Group \cup {NoGroup},
               loaded : Group \cup {NoGroup}]
         \cup [op : {"save"}, file : File, group : Group \cup {NoGroup}]
         \cup [op : {"create"}, name : Name]
         \cup [op : {"rename"}, group : Group, name : Name]

\* Types.
TypeOK ==
  /\ group \in [Group -> Name \cup {Unborn, Deleted}]
  /\ status \in [File -> {"absent", "active", "trashed", "purged"}]
  /\ member \in [File -> Group \cup {NoGroup}]
  /\ req \in [Req -> Request]

\* A file is never left in a group that does not exist, except by a move or an
\* upload whose group was deleted after it had been checked: deleting a group
\* takes every file out of it, also those in the trash, which would otherwise
\* come back into a group that no list shows.
LostOnlyByOverlap ==
  [][\A f \in File :
       f \in Lost' \ Lost =>
         \E r \in Req : /\ EndMove(r) \/ EndSave(r)
                        /\ req[r].file = f /\ group[req[r].group] = Deleted]_vars

\* Names are unique but for requests in flight at once: as long as a name is in
\* use, the groups that bear it and the requests about to give it are no more
\* than the requests that can run in parallel.
NamesBounded ==
  \A n \in Name :
    Named(n) # {} => Cardinality(Named(n)) + Cardinality(Naming(n)) <= Cardinality(Req)

\* The invariants of groups: the types, and unique names but for overlaps.
GroupInv == TypeOK /\ NamesBounded
=============================================================================
