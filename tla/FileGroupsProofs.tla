-------------------------- MODULE FileGroupsProofs --------------------------
(***************************************************************************)
(* What holds of FileGroups for any number of groups, names, files and     *)
(* requests in flight: how often a name can be in use, and how a file is   *)
(* left in a group that does not exist.                                    *)
(***************************************************************************)
EXTENDS FileGroups, FiniteSetTheorems, TLAPS

-----------------------------------------------------------------------------
(* Requests *)

\* What a request holds, by its operation.
LEMMA RequestParts ==
  ASSUME NEW q \in Request
  PROVE  /\ q.op \in {"move", "save"} => q.file \in File /\ q.group \in Group \cup {NoGroup}
         /\ q.op \in {"create", "rename"} => q.name \in Name
         /\ q.op = "rename" => q.group \in Group
         /\ q.op \in {"idle", "move", "save", "create", "rename"}
BY DEF Request, Idle

\* What requests begin with.
LEMMA RequestTypes ==
  ASSUME TypeOK
  PROVE  /\ \A f \in File, g \in Group \cup {NoGroup} :
              Move(f, g) \in Request /\ Save(f, g) \in Request
         /\ \A n \in Name : Create(n) \in Request
         /\ \A g \in Group, n \in Name : Rename(g, n) \in Request
         /\ Idle \in Request
BY DEF TypeOK, Request, Move, Save, Create, Rename

\* A name that passes the checks is a name no group bears.
LEMMA FreeNames ==
  ASSUME NEW n \in Name \cup {Blank}, Free(n)
  PROVE  n \in Name /\ Named(n) = {}
BY DEF Free

-----------------------------------------------------------------------------
(* Types *)

LEMMA InitType == Init => TypeOK
BY DEF Init, TypeOK, Request

LEMMA TypeStep ==
  ASSUME TypeOK, [Next]_vars
  PROVE  TypeOK'
<1>1. ASSUME NEW r \in Req, NEW q \in Request, Begin(r, q) PROVE TypeOK'
  BY <1>1 DEF Begin, TypeOK
<1>2. ASSUME NEW r \in Req, Finish(r) PROVE req' \in [Req -> Request]
  BY <1>2, RequestTypes DEF Finish, TypeOK
<1>3. ASSUME NEW r \in Req, NEW f \in File, NEW g \in Group \cup {NoGroup},
             BeginMove(r, f, g) \/ BeginSave(r, f, g)
      PROVE  TypeOK'
  BY <1>1, <1>3, RequestTypes DEF BeginMove, BeginSave
<1>4. ASSUME NEW r \in Req, NEW n \in Name \cup {Blank},
             BeginCreate(r, n) \/ \E g \in Group : BeginRename(r, g, n)
      PROVE  TypeOK'
  BY <1>1, <1>4, FreeNames, RequestTypes DEF BeginCreate, BeginRename
<1>5. ASSUME NEW r \in Req, EndMove(r) PROVE TypeOK'
  <2>1. req[r].group \in Group \cup {NoGroup}
    BY <1>5, RequestParts DEF EndMove, TypeOK
  <2> QED BY <1>2, <1>5, <2>1 DEF EndMove, TypeOK
<1>6. ASSUME NEW r \in Req, EndSave(r) PROVE TypeOK'
  <2>1. req[r].group \in Group \cup {NoGroup}
    BY <1>6, RequestParts DEF EndSave, TypeOK
  <2> QED BY <1>2, <1>6, <2>1 DEF EndSave, TypeOK
<1>7. ASSUME NEW r \in Req, EndCreate(r) \/ EndRename(r) PROVE TypeOK'
  <2>1. req[r].name \in Name
    BY <1>7, RequestParts DEF EndCreate, EndRename, TypeOK
  <2> QED BY <1>2, <1>7, <2>1 DEF EndCreate, EndRename, TypeOK
<1>8. ASSUME NEW g \in Group, DeleteGroup(g) PROVE TypeOK'
  BY <1>8 DEF DeleteGroup, Detached, TypeOK
<1>9. ASSUME NEW f \in File, TrashFile(f) PROVE TypeOK'
  BY <1>9 DEF TrashFile, TypeOK
<1>10. CASE Restart
  BY <1>10, RequestTypes DEF Restart, TypeOK
<1>11. CASE UNCHANGED vars
  BY <1>11 DEF vars, TypeOK
<1> QED BY <1>3, <1>4, <1>5, <1>6, <1>7, <1>8, <1>9, <1>10, <1>11 DEF Next

-----------------------------------------------------------------------------
(* Names *)

\* The groups that bear a name and the requests that are about to give it are
\* finitely many.
LEMMA Countable ==
  ASSUME NEW n
  PROVE  /\ IsFiniteSet(Named(n)) /\ Cardinality(Named(n)) \in Nat
         /\ IsFiniteSet(Naming(n)) /\ Cardinality(Naming(n)) \in Nat
         /\ Cardinality(Naming(n)) <= Cardinality(Req) /\ Cardinality(Req) \in Nat
         /\ Named(n) = {} <=> Cardinality(Named(n)) = 0
<1>1. Named(n) \subseteq Group /\ Naming(n) \subseteq Req
  BY DEF Named, Naming
<1>2. IsFiniteSet(Named(n)) /\ IsFiniteSet(Naming(n))
  BY <1>1, GroupConstantsOK, FS_Subset
<1>3. Cardinality(Naming(n)) <= Cardinality(Req)
  BY <1>1, GroupConstantsOK, FS_Subset
<1> QED BY <1>2, <1>3, GroupConstantsOK, FS_CardinalityType, FS_EmptySet

\* The bound of one name.
Bound(n) ==
  Named(n) # {} => Cardinality(Named(n)) + Cardinality(Naming(n)) <= Cardinality(Req)

\* Groups and requests for a name become no more.
LEMMA NoneMore ==
  ASSUME NEW n, Bound(n), Named(n)' \subseteq Named(n), Naming(n)' \subseteq Naming(n)
  PROVE  Bound(n)'
<1>1. /\ Cardinality(Named(n)') \in Nat /\ Cardinality(Named(n)') <= Cardinality(Named(n))
      /\ Cardinality(Naming(n)') \in Nat
      /\ Cardinality(Naming(n)') <= Cardinality(Naming(n))
  BY Countable, FS_Subset, FS_CardinalityType
<1>2. Named(n)' # {} => Named(n) # {}
  OBVIOUS
<1> QED BY <1>1, <1>2, Countable DEF Bound

\* A request gives the name it held to one group.
LEMMA OneGiven ==
  ASSUME NEW n, Bound(n), NEW r \in Naming(n), NEW g,
         Named(n)' \subseteq Named(n) \cup {g}, Naming(n)' = Naming(n) \ {r}
  PROVE  Bound(n)'
<1>1. /\ Cardinality(Naming(n)') = Cardinality(Naming(n)) - 1
      /\ Cardinality(Naming(n)') \in Nat
  BY Countable, FS_RemoveElement, FS_CardinalityType
<1>2. /\ Cardinality(Named(n)') \in Nat
      /\ Cardinality(Named(n)') <= Cardinality(Named(n)) + 1
  <2>1. /\ IsFiniteSet(Named(n) \cup {g})
        /\ Cardinality(Named(n) \cup {g}) <= Cardinality(Named(n)) + 1
    <3>1. IsFiniteSet(Named(n)) /\ Cardinality(Named(n)) \in Nat
      BY Countable
    <3>2. /\ IsFiniteSet(Named(n) \cup {g})
          /\ Cardinality(Named(n) \cup {g}) =
               IF g \in Named(n) THEN Cardinality(Named(n)) ELSE Cardinality(Named(n)) + 1
      BY <3>1, FS_AddElement
    <3> QED BY <3>1, <3>2
  <2>2. IsFiniteSet(Named(n)') /\ Cardinality(Named(n)') <= Cardinality(Named(n) \cup {g})
    BY <2>1, FS_Subset
  <2>3. Cardinality(Named(n)') \in Nat /\ Cardinality(Named(n) \cup {g}) \in Nat
    BY <2>1, <2>2, FS_CardinalityType
  <2>4. Cardinality(Named(n)) \in Nat
    BY Countable
  <2> QED BY <2>1, <2>2, <2>3, <2>4
<1>3. /\ Cardinality(Named(n)) \in Nat /\ Cardinality(Naming(n)) \in Nat
      /\ Cardinality(Naming(n)) <= Cardinality(Req) /\ Cardinality(Req) \in Nat
      /\ Cardinality(Named(n)) = 0
           \/ Cardinality(Named(n)) + Cardinality(Naming(n)) <= Cardinality(Req)
  BY Countable DEF Bound
<1>4. Cardinality(Named(n)') + Cardinality(Naming(n)') <= Cardinality(Req)
  BY <1>1, <1>2, <1>3
<1> QED BY <1>4 DEF Bound

LEMMA BoundStep ==
  ASSUME TypeOK, [Next]_vars, NEW n \in Name, Bound(n)
  PROVE  Bound(n)'
<1>1. ASSUME NEW r \in Req, NEW q, Begin(r, q),
             q.op \in {"create", "rename"} => q.name # n
      PROVE  Bound(n)'
  <2>1. Named(n)' = Named(n) /\ Naming(n)' \subseteq Naming(n)
    BY <1>1 DEF Begin, Named, Naming, TypeOK
  <2> QED BY <2>1, NoneMore
<1>2. ASSUME NEW r \in Req, NEW q \in {Create(n)} \cup {Rename(g, n) : g \in Group},
             Begin(r, q), Free(n)
      PROVE  Bound(n)'
  <2>1. Named(n)' = Named(n)
    BY <1>2 DEF Begin, Named
  <2> QED BY <1>2, <2>1, FreeNames DEF Bound
<1>3. ASSUME NEW r \in Req, NEW f \in File, NEW g \in Group \cup {NoGroup},
             BeginMove(r, f, g) \/ BeginSave(r, f, g)
      PROVE  Bound(n)'
  BY <1>1, <1>3 DEF BeginMove, BeginSave, Move, Save
<1>4. ASSUME NEW r \in Req, NEW m \in Name \cup {Blank}, BeginCreate(r, m) PROVE Bound(n)'
  BY <1>1, <1>2, <1>4 DEF BeginCreate, Create
<1>5. ASSUME NEW r \in Req, NEW m \in Name \cup {Blank}, NEW g \in Group, BeginRename(r, g, m)
      PROVE  Bound(n)'
  BY <1>1, <1>2, <1>5 DEF BeginRename, Rename
<1>6. ASSUME NEW r \in Req, Finish(r)
      PROVE  Naming(n)' = Naming(n) \ {r}
  BY <1>6 DEF Finish, Naming, Idle, TypeOK
<1>7. ASSUME NEW r \in Req, EndMove(r) \/ EndSave(r) PROVE Bound(n)'
  BY <1>6, <1>7, NoneMore DEF EndMove, EndSave, Named
<1>8. ASSUME NEW r \in Req, NEW g \in Group, req[r].op \in {"create", "rename"}, Finish(r),
             group' = [group EXCEPT ![g] = req[r].name]
      PROVE  Bound(n)'
  <2>1. CASE req[r].name = n
    <3>1. r \in Naming(n) /\ Named(n)' \subseteq Named(n) \cup {g}
      BY <1>8, <2>1 DEF Naming, Named, TypeOK
    <3> QED BY <1>6, <1>8, <3>1, OneGiven
  <2>2. CASE req[r].name # n
    <3>1. Named(n)' \subseteq Named(n)
      BY <1>8, <2>2 DEF Named, TypeOK
    <3> QED BY <1>6, <1>8, <3>1, NoneMore
  <2> QED BY <2>1, <2>2
<1>9. ASSUME NEW r \in Req, EndCreate(r) PROVE Bound(n)'
  BY <1>8, <1>9 DEF EndCreate
<1>10. ASSUME NEW r \in Req, EndRename(r) PROVE Bound(n)'
  <2>1. CASE req[r].group \in Existing
    BY <1>8, <1>10, <2>1 DEF EndRename, Existing
  <2>2. CASE req[r].group \notin Existing
    BY <1>6, <1>10, <2>2, NoneMore DEF EndRename, Named
  <2> QED BY <2>1, <2>2
<1>11. ASSUME NEW g \in Group, DeleteGroup(g) PROVE Bound(n)'
  <2>1. Named(n)' \subseteq Named(n) /\ Naming(n)' = Naming(n)
    BY <1>11, GroupConstantsOK DEF DeleteGroup, Named, Naming, TypeOK
  <2> QED BY <2>1, NoneMore
<1>12. ASSUME NEW f \in File, TrashFile(f) PROVE Bound(n)'
  BY <1>12, NoneMore DEF TrashFile, Named, Naming
<1>13. CASE Restart
  BY <1>13, NoneMore DEF Restart, Named, Naming, Idle
<1>14. CASE UNCHANGED vars
  BY <1>14, NoneMore DEF vars, Named, Naming
<1> QED BY <1>3, <1>4, <1>5, <1>7, <1>9, <1>10, <1>11, <1>12, <1>13, <1>14 DEF Next

\* With any number of requests in flight, a name in use is borne by no more groups
\* than requests can run at once, those about to give it included; and the rows,
\* groups and requests are well typed.
THEOREM NamesStayBounded == Spec => []GroupInv
<1>1. Init => GroupInv
  <2> SUFFICES ASSUME Init PROVE GroupInv
    OBVIOUS
  <2>1. \A n \in Name : Named(n) = {}
    BY GroupConstantsOK DEF Init, Named
  <2> QED BY <2>1, InitType DEF GroupInv, NamesBounded
<1>2. GroupInv /\ [Next]_vars => GroupInv'
  <2> SUFFICES ASSUME GroupInv, [Next]_vars PROVE GroupInv'
    OBVIOUS
  <2>1. TypeOK'
    BY TypeStep DEF GroupInv
  <2>2. \A n \in Name : Bound(n)'
    BY BoundStep DEF GroupInv, NamesBounded, Bound
  <2> QED BY <2>1, <2>2 DEF GroupInv, NamesBounded, Bound
<1> QED BY <1>1, <1>2, PTL DEF Spec

-----------------------------------------------------------------------------
(* Files left in a group that does not exist *)

\* A group that a file is in, or that a request is about to put a file in, was
\* created at some time.
Born(g) == g \in Group => group[g] # Unborn

Known ==
  /\ \A f \in File : Born(member[f])
  /\ \A r \in Req : req[r].op \in {"move", "save"} => Born(req[r].group)

\* The same after a step.
BornThen(g) == g \in Group => group'[g] # Unborn

\* No group is ever unborn again.
LEMMA BornStays ==
  ASSUME TypeOK, [Next]_vars, NEW g, Born(g)
  PROVE  BornThen(g)
<1>1. ASSUME NEW h \in Group, NEW x, x # Unborn, group' = [group EXCEPT ![h] = x]
      PROVE  BornThen(g)
  BY <1>1 DEF Born, BornThen, TypeOK
<1>2. ASSUME group' = group PROVE BornThen(g)
  BY <1>2 DEF Born, BornThen
<1>3. ASSUME NEW r \in Req, EndCreate(r) \/ EndRename(r) PROVE BornThen(g)
  <2>1. req[r].name # Unborn
    BY <1>3, RequestParts, GroupConstantsOK DEF EndCreate, EndRename, TypeOK
  <2>2. (\E h \in Group : group' = [group EXCEPT ![h] = req[r].name]) \/ group' = group
    BY <1>3 DEF EndCreate, EndRename, Existing
  <2> QED BY <1>1, <1>2, <2>1, <2>2
<1>4. ASSUME NEW h \in Group, DeleteGroup(h) PROVE BornThen(g)
  BY <1>1, <1>4, GroupConstantsOK DEF DeleteGroup
<1>5. CASE UNCHANGED group
  BY <1>2, <1>5
<1> QED BY <1>3, <1>4, <1>5 DEF Next, vars, Begin, BeginMove, BeginSave, BeginCreate,
        BeginRename, EndMove, EndSave, TrashFile, Restart

LEMMA KnownStep ==
  ASSUME TypeOK, Known, [Next]_vars
  PROVE  Known'
<1>1. \A g : Born(g) => BornThen(g)
  BY BornStays
<1>2. \A g \in Existing \cup {NoGroup} : Born(g)
  BY GroupConstantsOK DEF Existing, Born
<1>3. ASSUME member' = member, NEW r \in Req, NEW q, req' = [req EXCEPT ![r] = q],
             q.op \in {"move", "save"} => q.group \in Existing \cup {NoGroup}
      PROVE  Known'
  <2>1. \A f \in File : BornThen(member'[f])
    BY <1>1, <1>3 DEF Known
  <2>2. ASSUME NEW s \in Req, req'[s].op \in {"move", "save"}
        PROVE  BornThen(req'[s].group)
    <3>1. CASE s = r
      <4>1. req'[s] = q
        BY <1>3, <3>1 DEF TypeOK
      <4> QED BY <1>1, <1>2, <1>3, <2>2, <4>1
    <3>2. CASE s # r
      <4>1. req'[s] = req[s]
        BY <1>3, <3>2 DEF TypeOK
      <4> QED BY <1>1, <2>2, <4>1 DEF Known
    <3> QED BY <3>1, <3>2
  <2> QED BY <2>1, <2>2 DEF Known, Born, BornThen
<1>4. ASSUME NEW r \in Req, Finish(r),
             \A f \in File : member'[f] \in {member[f], NoGroup} \/ member'[f] = req[r].group,
             req[r].op \in {"move", "save"} \/ member' = member
      PROVE  Known'
  <2>1. ASSUME NEW f \in File PROVE BornThen(member'[f])
    BY <1>1, <1>2, <1>4 DEF Known
  <2>2. \A s \in Req : req'[s] = req[s] \/ req'[s].op = "idle"
    BY <1>4 DEF Finish, Idle, TypeOK
  <2>3. ASSUME NEW s \in Req, req'[s].op \in {"move", "save"} PROVE BornThen(req'[s].group)
    BY <1>1, <2>2, <2>3 DEF Known
  <2> QED BY <2>1, <2>3 DEF Known, Born, BornThen
<1>5. ASSUME NEW r \in Req, NEW f \in File, NEW g \in Group \cup {NoGroup},
             BeginMove(r, f, g) \/ BeginSave(r, f, g)
      PROVE  Known'
  BY <1>3, <1>5 DEF BeginMove, BeginSave, Begin, Move, Save
<1>6. ASSUME NEW r \in Req, NEW n \in Name \cup {Blank},
             BeginCreate(r, n) \/ \E g \in Group : BeginRename(r, g, n)
      PROVE  Known'
  BY <1>3, <1>6 DEF BeginCreate, BeginRename, Begin, Create, Rename
<1>7. ASSUME NEW r \in Req, EndMove(r) PROVE Known'
  <2>1. \A f \in File : member'[f] = member[f] \/ member'[f] = req[r].group
    BY <1>7 DEF EndMove, TypeOK
  <2> QED BY <1>4, <1>7, <2>1 DEF EndMove
<1>8. ASSUME NEW r \in Req, EndSave(r) PROVE Known'
  <2>1. \A f \in File : member'[f] = member[f] \/ member'[f] = req[r].group
    BY <1>8 DEF EndSave, TypeOK
  <2> QED BY <1>4, <1>8, <2>1 DEF EndSave
<1>9. ASSUME NEW r \in Req, EndCreate(r) \/ EndRename(r) PROVE Known'
  BY <1>4, <1>9 DEF EndCreate, EndRename
<1>10. ASSUME req' = req, \A f \in File : member'[f] \in {member[f], NoGroup} PROVE Known'
  BY <1>1, <1>2, <1>10 DEF Known, Born, BornThen
<1>11. ASSUME NEW g \in Group, DeleteGroup(g) PROVE Known'
  BY <1>10, <1>11 DEF DeleteGroup, Detached
<1>12. ASSUME NEW f \in File, TrashFile(f) PROVE Known'
  BY <1>10, <1>12 DEF TrashFile
<1>13. CASE Restart
  BY <1>1, <1>13 DEF Restart, Idle, Known, Born, BornThen
<1>14. CASE UNCHANGED vars
  BY <1>10, <1>14 DEF vars
<1> QED BY <1>5, <1>6, <1>7, <1>8, <1>9, <1>11, <1>12, <1>13, <1>14 DEF Next

\* A row is lost if its group does not exist.
LEMMA LostMeans ==
  ASSUME TypeOK, NEW f \in File
  PROVE  f \in Lost <=> Row(f) /\ member[f] \in Group /\ member[f] \notin Existing
BY GroupConstantsOK DEF Lost, Shown, Existing, TypeOK

\* The same, after a step.
LEMMA LostMeansThen ==
  ASSUME TypeOK', NEW f \in File
  PROVE  f \in Lost' <=> /\ status'[f] \in {"active", "trashed"}
                         /\ member'[f] \in Group /\ member'[f] \notin Existing'
BY GroupConstantsOK DEF Lost, Shown, Existing, TypeOK, Row

LEMMA LostStep ==
  ASSUME TypeOK, TypeOK', Known, Next, NEW f \in Lost' \ Lost
  PROVE  \E r \in Req : /\ EndMove(r) \/ EndSave(r)
                        /\ req[r].file = f /\ group[req[r].group] = Deleted
<1> DEFINE Goal == \E r \in Req : /\ EndMove(r) \/ EndSave(r)
                                  /\ req[r].file = f /\ group[req[r].group] = Deleted
<1>1. /\ f \in File /\ status'[f] \in {"active", "trashed"}
      /\ member'[f] \in Group /\ member'[f] \notin Existing'
  <2>1. f \in File
    BY DEF Lost
  <2> QED BY <2>1, LostMeansThen
<1>3. ASSUME status[f] \in {"active", "trashed"}, member'[f] = member[f],
             Existing \subseteq Existing'
      PROVE  FALSE
  BY <1>1, <1>3, LostMeans DEF Row
<1>4. ASSUME NEW r \in Req, req[r].op \in {"move", "save"}, group' = group,
             member'[f] = req[r].group
      PROVE  group[req[r].group] = Deleted
  BY <1>1, <1>4 DEF Known, Born, Existing
<1>5. ASSUME NEW r \in Req, EndMove(r) PROVE Goal
  <2>1. group' = group /\ Existing' = Existing /\ status' = status
    BY <1>5 DEF EndMove, Existing
  <2>2. member'[f] # member[f]
    BY <1>1, <1>3, <2>1
  <2>3. req[r].file = f /\ member'[f] = req[r].group
    BY <1>1, <1>5, <2>2 DEF EndMove, TypeOK
  <2> QED BY <1>4, <1>5, <2>1, <2>3 DEF EndMove
<1>6. ASSUME NEW r \in Req, EndSave(r) PROVE Goal
  <2>1. group' = group /\ Existing' = Existing
    BY <1>6 DEF EndSave, Existing
  <2>2. status'[f] # status[f] \/ member'[f] # member[f]
    BY <1>1, <1>3, <2>1
  <2>3. req[r].file = f /\ member'[f] = req[r].group
    BY <1>1, <1>6, <2>2 DEF EndSave, TypeOK
  <2> QED BY <1>4, <1>6, <2>1, <2>3 DEF EndSave
<1>7. ASSUME NEW r \in Req, NEW q, Begin(r, q) PROVE FALSE
  BY <1>1, <1>3, <1>7 DEF Begin, Existing
<1>8. ASSUME NEW r \in Req, EndCreate(r) \/ EndRename(r) PROVE FALSE
  <2>1. req[r].name \in Name
    BY <1>8, RequestParts DEF EndCreate, EndRename, TypeOK
  <2>2. (\E h \in Group : group' = [group EXCEPT ![h] = req[r].name]) \/ group' = group
    BY <1>8 DEF EndCreate, EndRename, Existing
  <2>3. Existing \subseteq Existing'
    BY <2>1, <2>2, GroupConstantsOK DEF Existing, TypeOK
  <2> QED BY <1>1, <1>3, <1>8, <2>3 DEF EndCreate, EndRename
<1>9. ASSUME NEW g \in Group, DeleteGroup(g) PROVE FALSE
  <2>1. member'[f] = member[f] /\ member[f] # g /\ status' = status
    BY <1>1, <1>9, GroupConstantsOK DEF DeleteGroup, Detached
  <2>2. Existing \ {g} \subseteq Existing'
    BY <1>9 DEF DeleteGroup, Existing, TypeOK
  <2> QED BY <1>1, <2>1, <2>2, LostMeans DEF Row
<1>10. ASSUME NEW h \in File, TrashFile(h) PROVE FALSE
  <2>1. status[f] \in {"active", "trashed"} /\ member' = member /\ Existing' = Existing
    BY <1>1, <1>10 DEF TrashFile, Existing, TypeOK
  <2> QED BY <1>3, <2>1
<1>11. CASE Restart
  BY <1>1, <1>3, <1>11 DEF Restart, Existing
<1> QED BY <1>5, <1>6, <1>7, <1>8, <1>9, <1>10, <1>11
        DEF Next, BeginMove, BeginSave, BeginCreate, BeginRename

\* However moves, uploads, deletions and the trash interleave, a file is left in a
\* group that does not exist only by the commit of a move or an upload whose group
\* was deleted after the check.
THEOREM LostOnly == Spec => LostOnlyByOverlap
<1>1. TypeOK /\ TypeOK' /\ Known /\ [Next]_vars =>
        [\A f \in File :
           f \in Lost' \ Lost =>
             \E r \in Req : /\ EndMove(r) \/ EndSave(r)
                            /\ req[r].file = f /\ group[req[r].group] = Deleted]_vars
  BY LostStep
<1>2. Init => TypeOK /\ Known
  <2>1. Init => Known
    BY GroupConstantsOK DEF Init, Known, Born, Idle
  <2> QED BY <2>1, InitType
<1>3. TypeOK /\ Known /\ [Next]_vars => TypeOK' /\ Known'
  BY TypeStep, KnownStep
<1> QED BY <1>1, <1>2, <1>3, PTL DEF Spec, LostOnlyByOverlap
=============================================================================
