------------------------ MODULE DownloadGrantsProofs ------------------------
(***************************************************************************)
(* What holds of DownloadGrants for any number of paths and requests, any  *)
(* lengths of a window and any clock.                                      *)
(***************************************************************************)
EXTENDS DownloadGrants, FiniteSetTheorems, TLAPS

\* While a single grant is in force no download has been served on it: the
\* download that is served takes the grant away.
Unspent == single # NoPath => served = 0

\* The inductive invariant.
IInv == GrantInv /\ Unspent

-----------------------------------------------------------------------------
(* The downloads on a single grant *)

\* There are finitely many, no more than requests.
LEMMA OnSingleFinite ==
  /\ IsFiniteSet(OnSingle) /\ Cardinality(OnSingle) \in Nat
  /\ Cardinality(OnSingle) <= Cardinality(Req) /\ Cardinality(Req) \in Nat
<1>1. OnSingle \subseteq Req /\ IsFiniteSet(Req)
  BY GrantConstantsOK DEF OnSingle
<1> QED BY <1>1, FS_Subset, FS_CardinalityType

\* An idle request is none of them.
LEMMA IdleNotOnSingle ==
  ASSUME NEW r \in Req, req[r] = Idle
  PROVE  r \notin OnSingle
BY DEF OnSingle, Idle

\* A request that is done leaves them.
LEMMA DoneLeaves ==
  ASSUME TypeOK, NEW r \in Req, req' = [req EXCEPT ![r] = Idle]
  PROVE  /\ OnSingle' = OnSingle \ {r}
         /\ Cardinality(OnSingle') \in Nat
         /\ Cardinality(OnSingle') =
              IF r \in OnSingle THEN Cardinality(OnSingle) - 1 ELSE Cardinality(OnSingle)
<1>1. OnSingle' = OnSingle \ {r}
  BY DEF OnSingle, Idle, TypeOK
<1>2. IsFiniteSet(OnSingle \ {r})
        /\ Cardinality(OnSingle \ {r}) =
              IF r \in OnSingle THEN Cardinality(OnSingle) - 1 ELSE Cardinality(OnSingle)
  BY OnSingleFinite, FS_RemoveElement
<1>3. Cardinality(OnSingle \ {r}) \in Nat
  BY <1>2, FS_CardinalityType
<1> QED BY <1>1, <1>2, <1>3

\* A request that begins joins them only with a download on a single grant.
LEMMA BeginJoins ==
  ASSUME TypeOK, NEW r \in Req, NEW q, Begin(r, q),
         q.op # "download" \/ q.window
  PROVE  OnSingle' = OnSingle
<1>1. req' = [req EXCEPT ![r] = q] /\ r \notin OnSingle
  BY IdleNotOnSingle DEF Begin
<1> QED BY <1>1 DEF OnSingle, TypeOK

-----------------------------------------------------------------------------
(* Types *)

\* What a request has read is well typed.
LEMMA RequestType ==
  ASSUME TypeOK, NEW op \in {"download", "window", "single", "revoke"},
         NEW p \in Path \cup {NoPath}, NEW m \in Minutes \cup {0}, NEW w \in BOOLEAN
  PROVE  LET all == [op : {"idle", "download", "window", "single", "revoke"},
                     path : Path \cup {NoPath}, minutes : Minutes \cup {0},
                     window : BOOLEAN, single : Path \cup {NoPath}]
         IN  /\ Request(op, p, m) \in all /\ Idle \in all
             /\ [Request(op, p, m) EXCEPT !.window = w] \in all
BY DEF TypeOK, Request, Idle

\* The fields of a request are well typed.
LEMMA RequestParts ==
  ASSUME TypeOK, NEW r \in Req
  PROVE  /\ req[r].path \in Path \cup {NoPath} /\ req[r].single \in Path \cup {NoPath}
         /\ req[r].minutes \in Minutes \cup {0} /\ req[r].window \in BOOLEAN
BY DEF TypeOK

\* The lengths of a window are integers.
LEMMA MinutesAreNumbers == \A m \in Minutes \cup {0} : m \in Int
BY GrantConstantsOK

\* The initial state is well typed, and nothing has been served.
LEMMA InitHolds == Init => IInv
<1> SUFFICES ASSUME Init PROVE IInv
  OBVIOUS
<1>1. TypeOK
  BY GrantConstantsOK DEF Init, TypeOK, Time, Never, Idle
<1> QED BY <1>1 DEF Init, IInv, GrantInv, SingleServesOverlapOnly, Unspent

\* A request that is done leaves the requests well typed.
LEMMA DoneType ==
  ASSUME TypeOK, NEW r \in Req, req' = [req EXCEPT ![r] = Idle]
  PROVE  req' \in [Req -> [op : {"idle", "download", "window", "single", "revoke"},
                           path : Path \cup {NoPath}, minutes : Minutes \cup {0},
                           window : BOOLEAN, single : Path \cup {NoPath}]]
BY DEF TypeOK, Idle

-----------------------------------------------------------------------------
(* Steps *)

\* A request begins: only the requests change, and a download on a single grant
\* begins only while the grant is in force, so nothing has been served on it.
LEMMA BeginKeeps ==
  ASSUME IInv, NEW r \in Req,
         NEW op \in {"download", "window", "single", "revoke"},
         NEW p \in Path \cup {NoPath}, NEW m \in Minutes \cup {0}, NEW w \in BOOLEAN,
         NEW q \in {Request(op, p, m), [Request(op, p, m) EXCEPT !.window = w]},
         Begin(r, q), op = "download" => w \/ single # NoPath,
         op = "download" => q.window = w
  PROVE  IInv'
<1>1. UNCHANGED <<now, live, until, single, file, served>>
  BY DEF Begin
<1>2. TypeOK'
  <2>1. q \in [op : {"idle", "download", "window", "single", "revoke"},
                path : Path \cup {NoPath}, minutes : Minutes \cup {0},
                window : BOOLEAN, single : Path \cup {NoPath}]
    <3>1. TypeOK
      BY DEF IInv, GrantInv
    <3>2. CASE q = Request(op, p, m)
      BY <3>1, <3>2, RequestType
    <3>3. CASE q = [Request(op, p, m) EXCEPT !.window = w]
      BY <3>1, <3>3, RequestType
    <3> QED BY <3>2, <3>3
  <2> QED BY <1>1, <2>1 DEF IInv, GrantInv, TypeOK, Begin
<1>3. q.op = op
  BY DEF Request
<1>4. SingleServesOverlapOnly'
  <2>1. CASE op = "download" /\ ~w
    BY <1>1, <2>1 DEF IInv, GrantInv, Unspent, SingleServesOverlapOnly, TypeOK
  <2>2. CASE op # "download" \/ w
    <3>1. OnSingle' = OnSingle
      BY <1>3, <2>2, BeginJoins DEF IInv, GrantInv
    <3> QED BY <1>1, <3>1 DEF IInv, GrantInv, SingleServesOverlapOnly
  <2> QED BY <2>1, <2>2
<1> QED BY <1>1, <1>2, <1>4 DEF IInv, GrantInv, Unspent

\* A request ends without serving a download: it may clear the grant, and
\* if it writes one, the count of the downloads served starts again.
LEMMA EndKeeps ==
  ASSUME IInv, NEW r \in Req, req' = [req EXCEPT ![r] = Idle],
         TypeOK', served' \in {0, served},
         served' = 0 \/ single' \in {NoPath, single}
  PROVE  IInv'
<1>1. SingleServesOverlapOnly'
  <2>1. /\ Cardinality(OnSingle') \in Nat /\ Cardinality(OnSingle) \in Nat
        /\ Cardinality(OnSingle') <= Cardinality(OnSingle) /\ Cardinality(Req) \in Nat
    <3>1. TypeOK
      BY DEF IInv, GrantInv
    <3>2. Cardinality(OnSingle) \in Nat /\ Cardinality(Req) \in Nat
      BY OnSingleFinite
    <3>3. /\ Cardinality(OnSingle') \in Nat
          /\ Cardinality(OnSingle') =
               IF r \in OnSingle THEN Cardinality(OnSingle) - 1 ELSE Cardinality(OnSingle)
      BY <3>1, DoneLeaves
    <3> QED BY <3>2, <3>3
  <2>2. served \in Nat /\ (served > 0 => served + Cardinality(OnSingle) <= Cardinality(Req))
    BY DEF IInv, GrantInv, SingleServesOverlapOnly, TypeOK
  <2>3. served' > 0 => served' + Cardinality(OnSingle') <= Cardinality(Req)
    BY <2>1, <2>2
  <2> QED BY <2>3 DEF SingleServesOverlapOnly
<1>2. Unspent'
  BY DEF IInv, Unspent
<1> QED BY <1>1, <1>2 DEF IInv, GrantInv

\* A step that touches neither the requests nor the grant.
LEMMA OthersKeep ==
  ASSUME IInv, TypeOK', UNCHANGED <<req, single, served>>
  PROVE  IInv'
<1>1. OnSingle' = OnSingle
  BY DEF OnSingle
<1> QED BY <1>1 DEF IInv, GrantInv, SingleServesOverlapOnly, Unspent

\* A download on a single grant takes the grant away and is counted; it was one
\* of those admitted, so the bound holds.
LEMMA DownloadKeeps ==
  ASSUME IInv, NEW r \in Req, EndDownload(r)
  PROVE  IInv'
<1>1. TypeOK'
  <2>1. single' \in Path \cup {NoPath} /\ served' \in Nat
    BY DEF IInv, GrantInv, TypeOK, EndDownload, Spent
  <2>2. req' = [req EXCEPT ![r] = Idle] /\ UNCHANGED <<now, live, until, file>>
    BY DEF EndDownload
  <2> QED BY <2>1, <2>2, DoneType DEF IInv, GrantInv, TypeOK
<1>2. CASE r \in OnSingle
  <2>1. served' = served + 1 /\ single' = NoPath
    BY <1>2 DEF EndDownload, Spent
  <2>2. Cardinality(OnSingle') = Cardinality(OnSingle) - 1
    BY <1>2, DoneLeaves DEF EndDownload, IInv, GrantInv
  <2>3. served + Cardinality(OnSingle) <= Cardinality(Req)
    <3>1. CASE served > 0
      BY <3>1 DEF IInv, GrantInv, SingleServesOverlapOnly
    <3>2. CASE served = 0
      BY <3>2, OnSingleFinite
    <3> QED BY <3>1, <3>2 DEF IInv, GrantInv, TypeOK
  <2>4. SingleServesOverlapOnly'
    BY <2>1, <2>2, <2>3, OnSingleFinite
    DEF SingleServesOverlapOnly, IInv, GrantInv, TypeOK
  <2> QED BY <1>1, <2>1, <2>4 DEF IInv, GrantInv, Unspent
<1>3. CASE r \notin OnSingle
  <2>1. served' = served /\ single' = single
    BY <1>3 DEF EndDownload, Spent
  <2> QED BY <1>1, <2>1, EndKeeps DEF EndDownload
<1> QED BY <1>2, <1>3

\* Each action preserves the inductive invariant.
LEMMA NextHolds == IInv /\ [Next]_vars => IInv'
<1> SUFFICES ASSUME IInv, [Next]_vars PROVE IInv'
  OBVIOUS
<1> USE DEF IInv, GrantInv
<1>1. ASSUME NEW r \in Req, NEW p \in Path, BeginDownload(r, p) PROVE IInv'
  <2>1. WindowOpen(until) \in BOOLEAN
    BY DEF WindowOpen, TypeOK, Time
  <2>2. WindowOpen(until) \/ single # NoPath
    BY <1>1, GrantConstantsOK DEF BeginDownload, SingleFor
  <2>3. PICK w \in BOOLEAN : w = WindowOpen(until)
    BY <2>1
  <2>4. Begin(r, [Request("download", p, 0) EXCEPT !.window = w])
    BY <1>1, <2>3 DEF BeginDownload
  <2>5. [Request("download", p, 0) EXCEPT !.window = w].window = w
    BY DEF Request
  <2> HIDE DEF IInv, GrantInv
  <2> QED BY <2>2, <2>3, <2>4, <2>5, BeginKeeps
<1>2. ASSUME NEW r \in Req, NEW p \in Path, BeginSingle(r, p) PROVE IInv'
  BY <1>2, BeginKeeps DEF BeginSingle
<1>3. ASSUME NEW r \in Req, NEW m \in Minutes, BeginWindow(r, m) PROVE IInv'
  BY <1>3, BeginKeeps DEF BeginWindow
<1>4. ASSUME NEW r \in Req, BeginRevoke(r) PROVE IInv'
  BY <1>4, BeginKeeps DEF BeginRevoke
<1>5. ASSUME NEW r \in Req, NEW x \in BOOLEAN, EndWindow(r, x) PROVE IInv'
  <2>1. TypeOK'
    <3>1. req[r].minutes \in Int
      BY RequestParts, MinutesAreNumbers
    <3>2. now + req[r].minutes \in Int
      BY <3>1 DEF TypeOK, Time
    <3> QED BY <1>5, <3>2, DoneType DEF TypeOK, EndWindow
  <2> QED BY <1>5, <2>1, EndKeeps DEF EndWindow
<1>6. ASSUME NEW r \in Req, NEW x \in BOOLEAN, EndSingle(r, x) PROVE IInv'
  <2>1. single' \in Path \cup {NoPath} /\ served' \in Nat
    BY <1>6, RequestParts DEF TypeOK, EndSingle
  <2>2. req' = [req EXCEPT ![r] = Idle] /\ UNCHANGED <<now, live, until, file>>
    BY <1>6 DEF EndSingle
  <2>3. TypeOK'
    BY <2>1, <2>2, DoneType DEF TypeOK
  <2> QED BY <1>6, <2>3, EndKeeps DEF EndSingle
<1>7. ASSUME NEW r \in Req, EndDownload(r) PROVE IInv'
  BY <1>7, DownloadKeeps
<1>8. ASSUME NEW r \in Req, EndDownloadGone(r) PROVE IInv'
  <2>1. TypeOK'
    BY <1>8, DoneType DEF TypeOK, EndDownloadGone
  <2> QED BY <1>8, <2>1, EndKeeps DEF EndDownloadGone
<1>9. ASSUME NEW r \in Req, EndRevoke(r) PROVE IInv'
  <2>1. until' \in Int /\ single' \in Path \cup {NoPath}
    BY <1>9 DEF TypeOK, EndRevoke, Never
  <2>2. req' = [req EXCEPT ![r] = Idle] /\ UNCHANGED <<now, live, file, served>>
    BY <1>9 DEF EndRevoke
  <2>3. TypeOK'
    BY <2>1, <2>2, DoneType DEF TypeOK
  <2> QED BY <1>9, <2>3, EndKeeps DEF EndRevoke
<1>10. ASSUME NEW r \in Req, Refuse(r) PROVE IInv'
  <2>1. TypeOK'
    BY <1>10, DoneType DEF TypeOK, Refuse
  <2> QED BY <1>10, <2>1, EndKeeps DEF Refuse
<1>11. CASE EndSession
  BY <1>11, OthersKeep DEF EndSession, TypeOK
<1>12. ASSUME NEW p \in Path, MoveFile(p) PROVE IInv'
  <2>1. file' \in [Path -> {"active", "trashed", "absent"}]
    BY <1>12 DEF MoveFile, TypeOK
  <2> QED BY <1>12, <2>1, OthersKeep DEF MoveFile, TypeOK
<1>13. CASE Tick
  <2>1. now' \in Time
    BY <1>13, GrantConstantsOK DEF Tick, TypeOK, Time
  <2> QED BY <1>13, <2>1, OthersKeep DEF Tick, TypeOK
<1>14. CASE UNCHANGED vars
  BY <1>14, OthersKeep DEF vars, TypeOK
<1> QED BY <1>1, <1>2, <1>3, <1>4, <1>5, <1>6, <1>7, <1>8, <1>9, <1>10, <1>11,
           <1>12, <1>13, <1>14 DEF Next

\* For any number of requests in flight, one single grant serves one download,
\* or else only downloads that were admitted before the first had finished; and
\* the grants, the requests and the clock are well typed.
THEOREM OneGrantOneDownload == Spec => []GrantInv
<1>1. IInv => GrantInv
  BY DEF IInv
<1> QED BY <1>1, InitHolds, NextHolds, PTL DEF Spec
=============================================================================
