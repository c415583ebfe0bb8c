--------------------------- MODULE DownloadGrants ---------------------------
(***************************************************************************)
(* Temporary download permission (api/files.py): a browser session may     *)
(* download nothing until its user proves the password again, and then     *)
(* either everything for some minutes or one path once.  Both permissions  *)
(* are columns of the session's row, and every request works on the copy   *)
(* of the row that its dependency get_current_session loaded: `begin' is   *)
(* that load with the checks made on it, `end' the commit.                 *)
(*                                                                         *)
(* What an UPDATE writes is the ORM's choice: the columns whose value      *)
(* differs from the loaded one, or every column assigned when a commit in  *)
(* between has expired the copy.  The step-up check commits only if the    *)
(* limiter has a row for the user (login_limiter_reset), so both happen;   *)
(* the limiter itself is RateLimiter, here only its verdict counts, and a  *)
(* refused request changes nothing and is no action.                       *)
(***************************************************************************)
EXTENDS Integers, FiniteSets

CONSTANTS
  Path,       \* paths of one user's files
  Req,        \* requests of the session that can be in flight at once
  Minutes,    \* lengths of a window that a request may ask for
  NoPath,     \* the empty string in single_download_path
  MaxTime     \* bound: the last instant

ASSUME GrantConstantsOK ==
  /\ IsFiniteSet(Req) /\ NoPath \notin Path
  /\ Minutes \subseteq Nat \ {0} /\ MaxTime \in Nat

VARIABLES
  now,    \* the clock
  live,   \* the session is not revoked
  until,  \* column download_granted_until
  single, \* column single_download_path
  file,   \* file[p]: "active", "trashed" (still on disk) or "absent"
  req,    \* req[r]: the request r and what it has read
  served  \* history: downloads on single grants since the last one was written

vars == <<now, live, until, single, file, req, served>>

Time == 0 .. MaxTime
Never == -1   \* NULL in a column of type datetime

\* What a request has read: whether a window was set, and the single grant; and
\* the path or the length it asks for.
Request(op, path, minutes) ==
  [op |-> op, path |-> path, minutes |-> minutes,
   window |-> until # Never, single |-> single]

Idle == [op |-> "idle", path |-> NoPath, minutes |-> 0,
         window |-> FALSE, single |-> NoPath]

\* _download_granted
WindowOpen(u) == u > now

\* the single grant covers the file
SingleFor(p) == single = p

\* The downloads that were admitted by a single grant.
OnSingle == {r \in Req : req[r].op = "download" /\ ~req[r].window}

-----------------------------------------------------------------------------
Init ==
  /\ now = 0 /\ live = TRUE
  /\ until = Never /\ single = NoPath
  /\ file \in [Path -> {"active", "trashed"}]
  /\ req = [r \in Req |-> Idle]
  /\ served = 0

Begin(r, q) ==
  /\ req[r] = Idle /\ live
  /\ req' = [req EXCEPT ![r] = q]
  /\ UNCHANGED <<now, live, until, single, file, served>>

\* download_file up to the permission: a window that has ended counts for
\* nothing, an open one goes before the single grant.
BeginDownload(r, p) ==
  /\ file[p] = "active"
  /\ WindowOpen(until) \/ SingleFor(p)
  /\ Begin(r, [Request("download", p, 0) EXCEPT
                 !.window = WindowOpen(until)])

\* Mutant: the single grant is left in place.
SpentNever(r) == single

\* A download on a single grant clears the column, whatever it holds by now.
Spent(r) == IF r \in OnSingle THEN NoPath ELSE single

\* The rest of download_file: the file is read (a file in the trash still
\* is), the single grant is cleared and the answer sent.
EndDownload(r) ==
  /\ req[r].op = "download"
  /\ file[req[r].path] # "absent"
  /\ single' = Spent(r)
  /\ served' = IF r \in OnSingle THEN served + 1 ELSE served
  /\ req' = [req EXCEPT ![r] = Idle]
  /\ UNCHANGED <<now, live, until, file>>

\* The file has been purged meanwhile: 404, and nothing is cleared.
EndDownloadGone(r) ==
  /\ req[r].op = "download"
  /\ file[req[r].path] = "absent"
  /\ req' = [req EXCEPT ![r] = Idle]
  /\ UNCHANGED <<now, live, until, single, file, served>>

BeginWindow(r, m) == Begin(r, Request("window", NoPath, m))

\* grant_download after the password proved right; `expired' tells whether the
\* step-up check committed.
EndWindow(r, expired) ==
  /\ req[r].op = "window"
  /\ until' = now + req[r].minutes
  /\ single' = IF expired \/ req[r].single # NoPath THEN NoPath ELSE single
  /\ req' = [req EXCEPT ![r] = Idle]
  /\ UNCHANGED <<now, live, file, served>>

BeginSingle(r, p) == Begin(r, Request("single", p, 0))

\* whether the ORM writes the column single_download_path
Writes(r, expired) == expired \/ req[r].single # req[r].path

\* grant_single_download after the password proved right: a row of any status
\* will do.  Nothing is written when the copy already holds the path.
EndSingle(r, expired) ==
  /\ req[r].op = "single"
  /\ file[req[r].path] # "absent"
  /\ IF Writes(r, expired)
     THEN single' = req[r].path /\ served' = 0
     ELSE UNCHANGED <<single, served>>
  /\ req' = [req EXCEPT ![r] = Idle]
  /\ UNCHANGED <<now, live, until, file>>

BeginRevoke(r) == Begin(r, Request("revoke", NoPath, 0))

\* revoke_download clears the columns that were set in its copy.
EndRevoke(r) ==
  /\ req[r].op = "revoke"
  /\ until' = IF req[r].window THEN Never ELSE until
  /\ single' = IF req[r].single # NoPath THEN NoPath ELSE single
  /\ req' = [req EXCEPT ![r] = Idle]
  /\ UNCHANGED <<now, live, file, served>>

\* The password is wrong, the limiter refuses, or the file does not exist.
Refuse(r) ==
  /\ req[r].op \in {"window", "single"}
  /\ req' = [req EXCEPT ![r] = Idle]
  /\ UNCHANGED <<now, live, until, single, file, served>>

\* The session ends: logout, revocation, a new password.
EndSession ==
  /\ live /\ live' = FALSE
  /\ UNCHANGED <<now, until, single, file, req, served>>

\* The library moves a file into the trash, out of it or purges it, and
\* uploads create it again.
MoveFile(p) ==
  /\ \/ file[p] # "trashed" /\ file' = [file EXCEPT ![p] = IF @ = "active" THEN "trashed"
                                                          ELSE "active"]
     \/ file[p] = "trashed" /\ \E s \in {"active", "absent"} : file' = [file EXCEPT ![p] = s]
  /\ UNCHANGED <<now, live, until, single, req, served>>

Tick ==
  /\ now < MaxTime
  /\ now' = now + 1
  /\ UNCHANGED <<live, until, single, file, req, served>>

Next ==
  \/ \E r \in Req :
       \/ \E p \in Path : BeginDownload(r, p) \/ BeginSingle(r, p)
       \/ \E m \in Minutes : BeginWindow(r, m)
       \/ \E expired \in BOOLEAN : EndWindow(r, expired) \/ EndSingle(r, expired)
       \/ BeginRevoke(r)
       \/ EndDownload(r) \/ EndDownloadGone(r) \/ EndRevoke(r) \/ Refuse(r)
  \/ EndSession
  \/ \E p \in Path : MoveFile(p)
  \/ Tick

Spec == Init /\ [][Next]_vars

-----------------------------------------------------------------------------
\* Types.
TypeOK ==
  /\ now \in Time /\ live \in BOOLEAN
  /\ until \in Int /\ single \in Path \cup {NoPath}
  /\ file \in [Path -> {"active", "trashed", "absent"}]
  /\ req \in [Req -> [op : {"idle", "download", "window", "single", "revoke"},
                      path : Path \cup {NoPath}, minutes : Minutes \cup {0},
                      window : BOOLEAN, single : Path \cup {NoPath}]]
  /\ served \in Nat

\* One grant, one download: a single grant can serve a second download only
\* if that one was admitted before the first had finished, so no more than the
\* session had requests in flight.
SingleServesOverlapOnly ==
  served > 0 => served + Cardinality(OnSingle) <= Cardinality(Req)

\* The invariants of a grant: the types, and one grant, one download.
GrantInv == TypeOK /\ SingleServesOverlapOnly
=============================================================================
