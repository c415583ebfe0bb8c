----------------------------- MODULE DaemonSync -----------------------------
(***************************************************************************)
(* The home daemon (daemon/watcher.py, sync.py, state.py) and the part of  *)
(* the server it talks to (api/sync.py).  Two tasks share one event loop:  *)
(* the consumer handles file-system events one file at a time, the poller  *)
(* runs full syncs.  Each has at most one request in flight; the user, the *)
(* web client and the other task act while it waits.                       *)
(*                                                                         *)
(* Only the order of modification times is kept.  rm says how the recorded *)
(* remote_mtime compares with the server's file: "never" (NULL), "stale"   *)
(* (the file was written since) or "current"; touched says that the local  *)
(* mtime is past the recorded one.  A file is hashed and sent at one       *)
(* moment, with the server's answer; what happens before the daemon takes  *)
(* the answer in is interleaved.  Events of one file waiting in the queue  *)
(* count as the last of them.                                              *)
(*                                                                         *)
(* download_file writes f.sxd-tmp and renames it.  That path is excluded   *)
(* nowhere: creating and growing it raises upload events, removing or      *)
(* renaming it a delete, and a crash leaves it for the next scan.  It is   *)
(* one more member of File, whose Edit and Remove stand for what the       *)
(* daemon itself does to it.                                               *)
(***************************************************************************)
EXTENDS Naturals, FiniteSets

CONSTANTS
  File,          \* relative paths
  Content,       \* file contents, identified with their sha256
  Size,          \* Size[c]: the size of content c
  Guarded,       \* contents the server's guard blocks
  TwoWay,        \* SYNC_MODE is two_way
  ForceSync,     \* FORCE_SYNC
  AbortPercent,  \* DELETE_ABORT_THRESHOLD, in percent
  MaxAttempts,   \* max_attempts of op_failed
  Budget,        \* bounds: how many "edit"s under WATCH_DIR, "web" changes,
                 \* "fault"s of the network and "crash"es there can be
  Absent         \* no file, no hash

ASSUME SyncConstantsOK ==
  /\ IsFiniteSet(File) /\ Content # {} /\ Absent \notin Content
  /\ Size \in [Content -> Nat] /\ Guarded \subseteq Content
  /\ TwoWay \in BOOLEAN /\ ForceSync \in BOOLEAN
  /\ AbortPercent \in 0..100 /\ MaxAttempts \in Nat \ {0}
  /\ Budget \in [{"edit", "web", "fault", "crash"} -> Nat]

VARIABLES
  local,     \* local[f]: the content of f under WATCH_DIR
  copy,      \* copy[f]: the content of f.conflict
  row,       \* row[f]: the row of f in table files of the state store
  ops,       \* ops[k, f]: attempts of the pending operation k on f
  queued,    \* queued[f]: the event of f in the asyncio queue
  pending,   \* pending[f]: the event of f in the consumer's dict
  watching,  \* the observer is running (the first full sync is over)
  call,      \* call[t]: the request task t waits for
  round,     \* the full sync under way
  server,    \* server[f]: disk, the hash of the active row, those of trashed rows
  seen,      \* history: the files some manifest has listed
  left       \* what is left of Budget

disks == <<local, copy>>
store == <<row, ops>>
events == <<queued, pending>>
vars == <<local, copy, row, ops, queued, pending, watching, call, round,
          server, seen, left>>

Maybe == Content \cup {Absent}
OpKind == {"upload", "download", "delete"}
Event == {"none", "upload", "delete"}
Task == {"consumer", "poller"}
NotQueued == MaxAttempts + 1

\* A row; NoRow where the code has {} for a file without one.
Row == [known : BOOLEAN, hash : Maybe, rm : {"never", "stale", "current"},
        tomb : BOOLEAN, touched : BOOLEAN]
NoRow == [known |-> FALSE, hash |-> Absent, rm |-> "never", tomb |-> FALSE, touched |-> FALSE]

\* An entry of a manifest; time relates its "modified" to the server's file now.
Entry == [listed : BOOLEAN, size : Nat, time : {"stale", "current"}]
Unlisted == [listed |-> FALSE, size |-> 0, time |-> "stale"]

Reply == {"ok", "conflict", "refused", "failed", "raised"}
Call == [kind : OpKind \cup {"none"}, file : File \cup {Absent}, got : Maybe, reply : Reply]
NoCall == [kind |-> "none", file |-> Absent, got |-> Absent, reply |-> "ok"]

\* pc is the pass of full_sync, todo the files it has still to look at, due the
\* operations to retry; snap, scan and remote are state, local and remote there.
Idle == [pc |-> "idle", snap |-> [f \in File |-> NoRow], scan |-> [f \in File |-> Absent],
         remote |-> [f \in File |-> Unlisted], todo |-> {}, due |-> {}]

\* The state variables have their types.
TypeOK ==
  /\ local \in [File -> Maybe] /\ copy \in [File -> Maybe]
  /\ row \in [File -> Row]
  /\ ops \in [OpKind \X File -> (0..(MaxAttempts - 1)) \cup {NotQueued}]
  /\ queued \in [File -> Event] /\ pending \in [File -> Event]
  /\ watching \in BOOLEAN
  /\ call \in [Task -> Call]
  /\ round.pc \in {"idle", "manifest", "up", "down", "retry"}
  /\ round.snap \in [File -> Row] /\ round.scan \in [File -> Maybe]
  /\ round.remote \in [File -> Entry]
  /\ round.todo \subseteq File /\ round.due \subseteq OpKind \X File
  /\ server \in [File -> [disk : Maybe, live : Maybe, trash : SUBSET Content]]
  /\ seen \subseteq File
  /\ left \in [DOMAIN Budget -> Nat]

Init ==
  /\ local \in [File -> Maybe] /\ copy = [f \in File |-> Absent]
  /\ row = [f \in File |-> NoRow]
  /\ ops = [o \in OpKind \X File |-> NotQueued]
  /\ queued = [f \in File |-> "none"] /\ pending = [f \in File |-> "none"]
  /\ watching = FALSE
  /\ call = [t \in Task |-> NoCall]
  /\ round = Idle
  /\ server = [f \in File |-> [disk |-> Absent, live |-> Absent, trash |-> {}]]
  /\ seen = {} /\ left = Budget

Spend(what) == left[what] > 0 /\ left' = [left EXCEPT ![what] = @ - 1]

-----------------------------------------------------------------------------
(* Requests *)

\* The server's file f has a new mtime: what was recorded of it is out of date.
Written(f) ==
  LET Aged(rm) == IF rm = "current" THEN "stale" ELSE rm
  IN /\ row' = [row EXCEPT ![f].rm = Aged(@)]
     /\ round' = IF round.pc = "manifest" THEN [round EXCEPT !.snap[f].rm = Aged(@)]
                 ELSE [round EXCEPT !.remote[f].time = "stale"]

Await(t, kind, f, c, reply) ==
  /\ call[t] = NoCall
  /\ call' = [call EXCEPT ![t] = [kind |-> kind, file |-> f, got |-> c, reply |-> reply]]

\* The server has answered, and the answer arrives or is lost (raised).
Answered(t, kind, f, c, reply) ==
  \/ Await(t, kind, f, c, reply) /\ UNCHANGED left
  \/ Await(t, kind, f, c, "raised") /\ Spend("fault")

\* The request fails before the server has done anything.
Unanswered(t, kind, f) ==
  /\ \E reply \in {"failed", "raised"} : Await(t, kind, f, Absent, reply)
  /\ Spend("fault")
  /\ UNCHANGED <<server, row, round>>

\* upload_file up to its await, and POST /sync/upload.
SendUpload(t, f) ==
  LET c == local[f]
      base == row[f].hash
      hashes == ({server[f].live} \cup server[f].trash) \ {Absent}
      duplicate == \E g \in File \ {f} : server[g].live = c
  IN \/ /\ base # Absent /\ hashes \ {base} # {}
        /\ Answered(t, "upload", f, c, "conflict")
        /\ UNCHANGED <<server, row, round>>
     \/ /\ base = Absent \/ hashes = {} \/ base \in hashes
        /\ IF duplicate \/ c \in Guarded
           THEN /\ Answered(t, "upload", f, c, IF duplicate THEN "ok" ELSE "refused")
                /\ server' = [server EXCEPT ![f].disk = Absent]
                /\ UNCHANGED <<row, round>>
           ELSE /\ Answered(t, "upload", f, c, "ok")
                /\ server' = [server EXCEPT ![f].disk = c, ![f].live = c]
                /\ Written(f)
     \/ Unanswered(t, "upload", f)

\* download_file up to its await, and GET /sync/download.
SendDownload(t, f) ==
  \/ /\ Answered(t, "download", f, server[f].disk,
                 IF server[f].disk = Absent THEN "failed" ELSE "ok")
     /\ UNCHANGED <<server, row, round>>
  \/ Unanswered(t, "download", f)

\* POST /sync/delete takes the first row at the path, be it in the trash.
Purged(s) ==
  {[s EXCEPT !.disk = Absent, !.trash = @ \ {h}] : h \in s.trash}
    \cup (IF s.live # Absent \/ s.trash = {}
          THEN {[s EXCEPT !.disk = Absent, !.live = Absent]} ELSE {})

SendDelete(t, f) ==
  \/ /\ Answered(t, "delete", f, Absent, "ok")
     /\ \E s \in Purged(server[f]) : server' = [server EXCEPT ![f] = s]
     /\ UNCHANGED <<row, round>>
  \/ Unanswered(t, "delete", f)

-----------------------------------------------------------------------------
(* What a task does with an answer *)

\* MUTANT of Synced: the hash is not kept.
SyncedWithoutHash(f, c) ==
  [known |-> TRUE, hash |-> Absent, rm |-> row[f].rm, tomb |-> FALSE, touched |-> FALSE]

\* upsert()
Synced(f, c) ==
  [known |-> TRUE, hash |-> c, rm |-> row[f].rm, tomb |-> FALSE, touched |-> FALSE]

\* set_tombstone()
Tombstone(f) ==
  IF row[f].known THEN [row[f] EXCEPT !.tomb = TRUE]
  ELSE [NoRow EXCEPT !.known = TRUE, !.tomb = TRUE, !.touched = TRUE]

\* MUTANT of Noted: set whether or not the file is in the manifest.
NotedAlways(r, f) ==
  IF r.known THEN [r EXCEPT !.rm = round.remote[f].time] ELSE r

\* set_remote_mtime() with the entry of the manifest, if the file is in it.
Noted(r, f) ==
  IF r.known /\ round.remote[f].listed THEN [r EXCEPT !.rm = round.remote[f].time] ELSE r

\* enqueue_op()
Enqueue(kind, f) ==
  ops' = [ops EXCEPT ![<<kind, f>>] = IF @ = NotQueued THEN 0 ELSE @]

\* The observer, once started, sees every change of a file under WATCH_DIR.
Notify(f, event) == queued' = IF watching THEN [queued EXCEPT ![f] = event] ELSE queued

Taken(t) == call' = [call EXCEPT ![t] = NoCall]

\* upload_file, on an answer a: 200 is recorded with the mtime the file has now,
\* 409 saves a copy; a file deleted meanwhile makes stat() raise.
UploadRaises(a) == a.reply = "raised" \/ (a.reply = "ok" /\ local[a.file] = Absent)
UploadFalse(a) == a.reply = "failed"

Uploaded(a) == IF a.reply = "ok" THEN Synced(a.file, a.got) ELSE row[a.file]

Kept(a) ==
  copy' = IF a.reply = "conflict" /\ local[a.file] # Absent
          THEN [copy EXCEPT ![a.file] = local[a.file]] ELSE copy

\* download_file, on an answer: the file is replaced and recorded.
Replace(a) ==
  /\ local' = [local EXCEPT ![a.file] = a.got]
  /\ Notify(a.file, "upload")

-----------------------------------------------------------------------------
(* The consumer: _consumer, sync_single_file *)

\* The event leaves the queue for the dict that debounces.
Fetch(f) ==
  /\ call["consumer"] = NoCall /\ queued[f] # "none"
  /\ pending' = [pending EXCEPT ![f] = queued[f]]
  /\ queued' = [queued EXCEPT ![f] = "none"]
  /\ UNCHANGED <<disks, store, watching, call, round, server, seen, left>>

Due(f, event) ==
  /\ call["consumer"] = NoCall /\ pending[f] = event
  /\ pending' = [pending EXCEPT ![f] = "none"]

SyncUpload(f) ==
  /\ Due(f, "upload")
  /\ IF local[f] = Absent THEN UNCHANGED <<row, call, round, server, left>>
     ELSE SendUpload("consumer", f)
  /\ UNCHANGED <<disks, ops, queued, watching, seen>>

\* The tombstone is written before the request is made.
SyncDelete(f) ==
  /\ Due(f, "delete")
  /\ row' = [row EXCEPT ![f] = Tombstone(f)]
  /\ \/ /\ Answered("consumer", "delete", f, Absent, "ok")
        /\ \E s \in Purged(server[f]) : server' = [server EXCEPT ![f] = s]
     \/ /\ \E reply \in {"failed", "raised"} : Await("consumer", "delete", f, Absent, reply)
        /\ Spend("fault") /\ UNCHANGED server
  /\ UNCHANGED <<disks, ops, queued, watching, round, seen>>

ConsumerAnswer ==
  LET a == call["consumer"]
  IN /\ a # NoCall /\ Taken("consumer")
     /\ \/ a.kind = "upload" /\ UploadRaises(a) /\ UNCHANGED <<copy, store>>
        \/ /\ a.kind = "upload" /\ ~UploadRaises(a)
           /\ row' = [row EXCEPT ![a.file] = Uploaded(a)] /\ Kept(a)
           /\ IF UploadFalse(a) THEN Enqueue("upload", a.file) ELSE UNCHANGED ops
        \/ /\ a.kind = "delete" /\ a.reply = "ok"
           /\ row' = [row EXCEPT ![a.file] = NoRow] /\ UNCHANGED <<copy, ops>>
        \/ /\ a.kind = "delete" /\ a.reply = "failed"
           /\ Enqueue("delete", a.file) /\ UNCHANGED <<copy, row>>
        \/ a.kind = "delete" /\ a.reply = "raised" /\ UNCHANGED <<copy, store>>
     /\ UNCHANGED <<local, events, watching, round, server, seen, left>>

-----------------------------------------------------------------------------
(* The poller: _poll_loop, full_sync *)

\* The round is over: the first one lets the observer start.
RoundEnds == round' = Idle /\ watching' = TRUE

StartRound ==
  /\ round.pc = "idle"
  /\ round' = [Idle EXCEPT !.pc = "manifest", !.snap = row, !.scan = local]
  /\ UNCHANGED <<disks, store, events, watching, call, server, seen, left>>

Manifest ==
  [f \in File |->
     IF server[f].disk # Absent /\ server[f].live # Absent
     THEN [listed |-> TRUE, size |-> Size[server[f].disk], time |-> "current"]
     ELSE Unlisted]

Tracked == {f \in File : round.snap[f].rm # "never" /\ ~round.snap[f].tomb}

\* MUTANT of Breaker: only the empty manifest trips it.
BreakerOnEmpty(remote) ==
  ~ForceSync /\ Tracked # {} /\ \A f \in File : ~remote[f].listed

\* The manifest has lost too many of the tracked files.
Breaker(remote) ==
  LET missing == {f \in Tracked : ~remote[f].listed}
  IN /\ ~ForceSync /\ Tracked # {}
     /\ \/ \A f \in File : ~remote[f].listed
        \/ 100 * Cardinality(missing) > AbortPercent * Cardinality(Tracked)

GetManifest ==
  /\ round.pc = "manifest"
  /\ \/ RoundEnds /\ Spend("fault") /\ UNCHANGED seen
     \/ Breaker(Manifest) /\ RoundEnds /\ UNCHANGED <<seen, left>>
     \/ /\ ~Breaker(Manifest)
        /\ round' = [round EXCEPT !.pc = "up", !.remote = Manifest,
                                  !.todo = {f \in File : round.scan[f] # Absent}]
        /\ seen' = seen \cup {f \in File : Manifest[f].listed}
        /\ UNCHANGED <<watching, left>>
  /\ UNCHANGED <<disks, store, events, call, server>>

\* The pass goes on to its next file.
FileDone(f) == round' = [round EXCEPT !.todo = @ \ {f}]

NeedUpload(f) ==
  LET prev == round.snap[f]
      remote == round.remote[f]
  IN \/ ~remote.listed
     \/ prev.known /\ prev.touched
     \/ ~prev.known /\ Size[round.scan[f]] # remote.size

Up(f) ==
  /\ round.pc = "up" /\ f \in round.todo /\ call["poller"] = NoCall
  /\ \/ /\ round.snap[f].tomb
        /\ FileDone(f) /\ UNCHANGED <<store, call, server, left>>
     \/ /\ ~round.snap[f].tomb /\ ~NeedUpload(f)
        /\ row' = [row EXCEPT ![f] = Noted(@, f)]
        /\ FileDone(f) /\ UNCHANGED <<ops, call, server, left>>
     \/ /\ ~round.snap[f].tomb /\ NeedUpload(f)
        /\ IF local[f] = Absent
           THEN /\ Enqueue("upload", f)
                /\ FileDone(f) /\ UNCHANGED <<row, call, server, left>>
           ELSE SendUpload("poller", f) /\ UNCHANGED ops
  /\ UNCHANGED <<disks, events, watching, seen>>

UpAnswer ==
  LET a == call["poller"]
  IN /\ round.pc = "up" /\ a # NoCall /\ Taken("poller")
     /\ \/ UploadRaises(a) /\ RoundEnds /\ UNCHANGED <<copy, store>>
        \/ /\ ~UploadRaises(a) /\ FileDone(a.file) /\ Kept(a)
           /\ IF UploadFalse(a)
              THEN Enqueue("upload", a.file) /\ UNCHANGED row
              ELSE row' = [row EXCEPT ![a.file] = Noted(Uploaded(a), a.file)] /\ UNCHANGED ops
           /\ UNCHANGED watching
     /\ UNCHANGED <<local, events, server, seen, left>>

StartDown ==
  /\ TwoWay /\ round.pc = "up" /\ round.todo = {}
  /\ round' = [round EXCEPT !.pc = "down", !.todo = {f \in File : round.remote[f].listed}]
  /\ UNCHANGED <<disks, store, events, watching, call, server, seen, left>>

\* MUTANT of Down: tombstones are not looked at.
DownDespiteTombstone(f) ==
  LET wanted == round.scan[f] = Absent \/ round.snap[f].rm = "stale"
  IN /\ round.pc = "down" /\ f \in round.todo /\ call["poller"] = NoCall
     /\ \/ wanted /\ SendDownload("poller", f)
        \/ /\ ~wanted
           /\ row' = [row EXCEPT ![f] = Noted(@, f)]
           /\ FileDone(f) /\ UNCHANGED <<call, server, left>>
     /\ UNCHANGED <<disks, ops, events, watching, seen>>

Down(f) ==
  LET prev == round.snap[f]
      wanted == round.scan[f] = Absent \/ prev.rm = "stale"
  IN /\ round.pc = "down" /\ f \in round.todo /\ call["poller"] = NoCall
     /\ \/ prev.tomb /\ SendDelete("poller", f)
        \/ ~prev.tomb /\ wanted /\ SendDownload("poller", f)
        \/ /\ ~prev.tomb /\ ~wanted
           /\ row' = [row EXCEPT ![f] = Noted(@, f)]
           /\ FileDone(f) /\ UNCHANGED <<call, server, left>>
     /\ UNCHANGED <<disks, ops, events, watching, seen>>

DownAnswer ==
  LET a == call["poller"]
      f == a.file
  IN /\ round.pc = "down" /\ a # NoCall /\ Taken("poller")
     /\ \/ /\ a.kind = "download" /\ a.reply = "ok"
           /\ Replace(a) /\ row' = [row EXCEPT ![f] = Noted(Synced(f, a.got), f)]
           /\ FileDone(f) /\ UNCHANGED <<ops, watching>>
        \/ /\ a.kind = "delete" /\ a.reply = "ok"
           /\ row' = [row EXCEPT ![f] = NoRow]
           /\ FileDone(f) /\ UNCHANGED <<local, ops, queued, watching>>
        \/ /\ a.reply = "failed" \/ (a.kind = "download" /\ a.reply = "raised")
           /\ Enqueue(a.kind, f)
           /\ FileDone(f) /\ UNCHANGED <<local, row, queued, watching>>
        \/ /\ a.kind = "delete" /\ a.reply = "raised"
           /\ RoundEnds /\ UNCHANGED <<local, store, queued>>
     /\ UNCHANGED <<copy, pending, server, seen, left>>

\* Tracked files the manifest no longer has are deleted here, if they were here.
Unlinked == {f \in Tracked : TwoWay /\ ~round.remote[f].listed /\ round.scan[f] # Absent}

\* MUTANT of Reconciled: the condition is the other way round.
ReconciledListed == {f \in File : round.snap[f].tomb /\ round.remote[f].listed}

\* Tombstones of files the manifest no longer has are done with.
Reconciled == {f \in File : round.snap[f].tomb /\ ~round.remote[f].listed}

\* The passes are over.
Propagates == round.pc = (IF TwoWay THEN "down" ELSE "up") /\ round.todo = {}

\* One stretch without an await: the deletions, the tombstones, due_ops().  An
\* operation not tried yet is due; the others are too once the daemon has been up
\* for a POLL_INTERVAL, which is longer than any backoff.
Propagate ==
  /\ Propagates
  /\ local' = [f \in File |-> IF f \in Unlinked THEN Absent ELSE local[f]]
  /\ row' = [f \in File |-> IF f \in Unlinked \cup Reconciled THEN NoRow ELSE row[f]]
  /\ queued' = [f \in File |-> IF watching /\ f \in Unlinked /\ local[f] # Absent
                               THEN "delete" ELSE queued[f]]
  /\ LET waiting == {o \in OpKind \X File : ops[o] # NotQueued}
     IN \E due \in SUBSET waiting :
          /\ \A o \in waiting \ due : ops[o] > 0 /\ ~watching
          /\ round' = [round EXCEPT !.pc = "retry", !.due = due]
  /\ UNCHANGED <<copy, ops, pending, watching, call, server, seen, left>>

\* op_done()
OpDone(o) == ops' = [ops EXCEPT ![o] = NotQueued]

\* MUTANTS of OpFailed: given up one attempt late; the attempt is not counted.
OpFailedLate(o) ==
  ops' = [ops EXCEPT ![o] = IF @ + 1 > MaxAttempts THEN NotQueued ELSE @ + 1]
OpFailedUncounted(o) == UNCHANGED ops

\* op_failed(): given up after the last attempt.
OpFailed(o) ==
  ops' = [ops EXCEPT ![o] = IF @ + 1 >= MaxAttempts THEN NotQueued ELSE @ + 1]

Tried(o) == round' = [round EXCEPT !.due = @ \ {o}]

Retry(o) ==
  LET f == o[2]
  IN /\ round.pc = "retry" /\ o \in round.due /\ call["poller"] = NoCall
     /\ \/ /\ o[1] = "upload" /\ local[f] = Absent
           /\ OpFailed(o) /\ Tried(o) /\ UNCHANGED <<row, call, server, left>>
        \/ o[1] = "upload" /\ local[f] # Absent /\ SendUpload("poller", f) /\ UNCHANGED ops
        \/ o[1] = "download" /\ SendDownload("poller", f) /\ UNCHANGED ops
        \/ o[1] = "delete" /\ SendDelete("poller", f) /\ UNCHANGED ops
     /\ UNCHANGED <<disks, events, watching, seen>>

RetryAnswer ==
  LET a == call["poller"]
      f == a.file
      o == <<a.kind, f>>
  IN /\ round.pc = "retry" /\ a # NoCall /\ Taken("poller") /\ Tried(o)
     /\ \/ /\ a.kind = "upload" /\ ~UploadRaises(a) /\ ~UploadFalse(a)
           /\ row' = [row EXCEPT ![f] = Uploaded(a)] /\ Kept(a)
           /\ OpDone(o) /\ UNCHANGED <<local, queued>>
        \/ /\ a.kind = "download" /\ a.reply = "ok"
           /\ Replace(a) /\ row' = [row EXCEPT ![f] = Synced(f, a.got)]
           /\ OpDone(o) /\ UNCHANGED copy
        \/ /\ a.kind = "delete" /\ a.reply = "ok"
           /\ row' = [row EXCEPT ![f] = NoRow]
           /\ OpDone(o) /\ UNCHANGED <<disks, queued>>
        \/ /\ a.reply \in {"failed", "raised"} \/ (a.kind = "upload" /\ UploadRaises(a))
           /\ OpFailed(o) /\ UNCHANGED <<disks, row, queued>>
     /\ UNCHANGED <<pending, watching, server, seen, left>>

EndRound ==
  /\ round.pc = "retry" /\ round.due = {} /\ RoundEnds
  /\ UNCHANGED <<disks, store, events, call, server, seen, left>>

-----------------------------------------------------------------------------
(* The user, the web client, crashes *)

\* The user writes the file: content c, a new mtime.
Edit(f, c) ==
  /\ local[f] # c /\ Spend("edit")
  /\ local' = [local EXCEPT ![f] = c]
  /\ row' = [row EXCEPT ![f].touched = row[f].known]
  /\ Notify(f, "upload")
  /\ UNCHANGED <<copy, ops, pending, watching, call, round, server, seen>>

Remove(f) ==
  /\ local[f] # Absent /\ Spend("edit")
  /\ local' = [local EXCEPT ![f] = Absent]
  /\ Notify(f, "delete")
  /\ UNCHANGED <<copy, store, pending, watching, call, round, server, seen>>

\* An upload, and a deletion, by another client of the server (FileLibrary).
WebWrite(f, c) ==
  /\ server[f].live # c /\ (\A g \in File : server[g].live # c) /\ Spend("web")
  /\ server' = [server EXCEPT ![f].disk = c, ![f].live = c]
  /\ Written(f)
  /\ UNCHANGED <<disks, ops, events, watching, call, seen>>

WebTrash(f) ==
  /\ server[f].live # Absent /\ Spend("web")
  /\ server' = [server EXCEPT ![f].live = Absent, ![f].trash = @ \cup {server[f].live}]
  /\ UNCHANGED <<disks, store, events, watching, call, round, seen>>

\* The daemon dies and is started again: only the state store and the files remain.
Dies ==
  /\ Spend("crash")
  /\ call' = [t \in Task |-> NoCall] /\ round' = Idle /\ watching' = FALSE
  /\ queued' = [f \in File |-> "none"] /\ pending' = [f \in File |-> "none"]
  /\ UNCHANGED <<server, seen>>

\* It dies while it waits, or between two stretches of code.
Crash == Dies /\ UNCHANGED <<disks, store>>

\* It dies while it takes an answer in: after os.replace and before upsert, when the
\* file is past its row; or after the row was written and before the operation is
\* done or the remote_mtime noted.
CrashInAnswer ==
  LET a == call["poller"]
      f == a.file
  IN /\ a # NoCall /\ Dies /\ UNCHANGED ops
     /\ \/ /\ a.kind = "upload" /\ ~UploadRaises(a) /\ ~UploadFalse(a)
           /\ row' = [row EXCEPT ![f] = Uploaded(a)]
           /\ Kept(a) /\ UNCHANGED local
        \/ /\ a.kind = "download" /\ a.reply = "ok"
           /\ local' = [local EXCEPT ![f] = a.got] /\ UNCHANGED copy
           /\ \/ row' = [row EXCEPT ![f].touched = row[f].known]
              \/ row' = [row EXCEPT ![f] = Synced(f, a.got)]
        \/ /\ a.kind = "delete" /\ a.reply = "ok"
           /\ row' = [row EXCEPT ![f] = NoRow] /\ UNCHANGED disks

\* It dies while it propagates: some files are deleted, the last perhaps before its
\* row; the tombstones come after all of them.
CrashInPropagate ==
  /\ Propagates /\ Dies
  /\ \E gone \in SUBSET Unlinked, cleared \in SUBSET (Unlinked \cup Reconciled) :
       /\ cleared \cap Unlinked \subseteq gone /\ Cardinality(gone \ cleared) <= 1
       /\ cleared \cap Reconciled # {} => Unlinked \subseteq cleared
       /\ local' = [f \in File |-> IF f \in gone THEN Absent ELSE local[f]]
       /\ row' = [f \in File |-> IF f \in cleared THEN NoRow ELSE row[f]]
  /\ UNCHANGED <<copy, ops>>

-----------------------------------------------------------------------------
Consumer ==
  \/ \E f \in File : Fetch(f) \/ SyncUpload(f) \/ SyncDelete(f)
  \/ ConsumerAnswer

Poller ==
  \/ StartRound \/ GetManifest
  \/ \E f \in File : Up(f) \/ Down(f)
  \/ UpAnswer \/ StartDown \/ DownAnswer \/ Propagate
  \/ \E o \in OpKind \X File : Retry(o)
  \/ RetryAnswer \/ EndRound

Daemon == Consumer \/ Poller

Others ==
  \/ \E f \in File, c \in Content : Edit(f, c) \/ WebWrite(f, c)
  \/ \E f \in File : Remove(f) \/ WebTrash(f)
  \/ Crash \/ CrashInAnswer \/ CrashInPropagate

Next == Daemon \/ Others

\* The event loop runs each task that can go on, and every request ends.
Fairness == WF_vars(Poller) /\ WF_vars(Consumer)

Spec == Init /\ [][Next]_vars /\ Fairness
-----------------------------------------------------------------------------
(* Properties *)

\* Conflict detection stays armed: however rounds, events and failures mix, a file
\* with a row and no tombstone has the hash it was last exchanged with.
TrackedHasHash == \A f \in File : row[f].known /\ ~row[f].tomb => row[f].hash # Absent

Unlinks(f) == local[f] # Absent /\ local'[f] = Absent /\ ~Remove(f)

\* Deletions propagate only to files the server has had: one that no manifest ever
\* listed is never deleted here, whatever became of its upload.
NeverListedNeverDeleted == [][\A f \in File : Unlinks(f) => f \in seen]_vars

\* The breaker bounds what one round deletes by what was tracked when it began,
\* although the other task changes the rows while the round waits.
BreakerHolds ==
  [][~ForceSync => 100 * Cardinality({f \in File : Unlinks(f)})
                     <= AbortPercent * Cardinality(Tracked)]_vars

\* "Never downloaded again": a file deleted here comes back only by the user, from
\* the retry queue, or in a round that began before the tombstone was written.
TombstonesRespected ==
  [][\A f \in File : row[f].tomb /\ local[f] = Absent /\ local'[f] # Absent =>
       \/ Edit(f, local'[f])
       \/ round.pc = "retry"
       \/ ~round.snap[f].tomb]_vars

\* A deletion made here is settled in the end: the server is told, however often
\* that fails, or it no longer has the file (or the file has been written again).
DeletionsSettle == \A f \in File : row[f].tomb ~> ~row[f].tomb

\* No operation stays in the retry queue for ever.
RetriesEnd == \A o \in OpKind \X File : ops[o] # NotQueued ~> ops[o] = NotQueued
=============================================================================
