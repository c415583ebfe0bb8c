-------------------------- MODULE DaemonSyncProofs --------------------------
(***************************************************************************)
(* What holds of DaemonSync for any files, contents, guard, thresholds and *)
(* any number of edits, web changes, faults and crashes.  The invariant    *)
(* has three parts: rows and rounds only remember what uploads, downloads  *)
(* and manifests said (SyncInv); the poller's request belongs to the pass  *)
(* it is in (InFlight); a round goes on only with a manifest the breaker   *)
(* has let pass, about the files it still tracks (Passed).                 *)
(***************************************************************************)
EXTENDS DaemonSync, FiniteSetTheorems, TLAPS

-----------------------------------------------------------------------------
(* The inductive invariant *)

Round == [pc : {"idle", "manifest", "up", "down", "retry"},
          snap : [File -> Row], scan : [File -> Maybe], remote : [File -> Entry],
          todo : SUBSET File, due : SUBSET (OpKind \X File)]

Server == [disk : Maybe, live : Maybe, trash : SUBSET Content]

\* A row of f: conflict detection is armed, and a remote_mtime was noted only if
\* a manifest has listed f (S is the files some manifest has listed).
GoodRow(f, r, S) ==
  /\ r \in Row
  /\ r.known /\ ~r.tomb => r.hash # Absent
  /\ r.rm # "never" => f \in S

\* A round remembers only what the rows and a manifest said.
GoodRound(x, S) ==
  /\ x \in Round
  /\ \A f \in File : x.snap[f].rm # "never" \/ x.remote[f].listed => f \in S

\* A successful upload or download has a content to record.
GoodCall(a) ==
  \/ a = NoCall
  \/ /\ a \in Call /\ a.kind \in OpKind /\ a.file \in File
     /\ a.kind # "delete" /\ a.reply = "ok" => a.got \in Content

GoodRows == row \in [File -> Row] /\ \A f \in File : GoodRow(f, row[f], seen)
GoodCalls == call \in [Task -> Call] /\ \A t \in Task : GoodCall(call[t])

SyncInv ==
  /\ local \in [File -> Maybe]
  /\ GoodRows
  /\ GoodCalls
  /\ GoodRound(round, seen)
  /\ server \in [File -> Server]
  /\ seen \subseteq File

-----------------------------------------------------------------------------
(* Rows, calls and rounds *)

\* The placeholders of the code are rows, calls and rounds.
LEMMA Placeholders ==
  /\ NoRow \in Row /\ \A f \in File, S \in SUBSET File : GoodRow(f, NoRow, S)
  /\ NoCall \in Call /\ GoodCall(NoCall)
  /\ Unlisted \in Entry
  /\ \A S \in SUBSET File : GoodRound(Idle, S)
<1>1. NoRow \in Row /\ NoCall \in Call /\ Unlisted \in Entry
  BY DEF NoRow, Row, Maybe, NoCall, Call, Reply, Unlisted, Entry
<1>2. \A f \in File, S \in SUBSET File : GoodRow(f, NoRow, S)
  BY <1>1 DEF GoodRow, NoRow
<1>3. Idle \in Round
  BY <1>1 DEF Idle, Round, Maybe
<1>4. \A S \in SUBSET File : GoodRound(Idle, S)
  BY <1>3 DEF GoodRound, Idle, NoRow, Unlisted
<1> QED BY <1>1, <1>2, <1>4 DEF GoodCall

\* What upsert, set_tombstone and set_remote_mtime make of a good row.
LEMMA RowSteps ==
  ASSUME SyncInv, NEW f \in File
  PROVE  /\ \A c \in Content : GoodRow(f, Synced(f, c), seen)
         /\ GoodRow(f, Tombstone(f), seen)
         /\ \A r : GoodRow(f, r, seen) => GoodRow(f, Noted(r, f), seen)
<1>1. GoodRow(f, row[f], seen)
  BY DEF SyncInv, GoodRows
<1>2. \A c \in Content : GoodRow(f, Synced(f, c), seen)
  BY <1>1, SyncConstantsOK DEF GoodRow, Synced, Row, Maybe
<1>3. GoodRow(f, Tombstone(f), seen)
  BY <1>1 DEF GoodRow, Tombstone, NoRow, Row, Maybe
<1>4. ASSUME NEW r, GoodRow(f, r, seen) PROVE GoodRow(f, Noted(r, f), seen)
  <2>1. round.remote[f] \in Entry /\ (round.remote[f].listed => f \in seen)
    BY DEF SyncInv, GoodRound, Round
  <2> QED BY <1>4, <2>1 DEF GoodRow, Noted, Row, Entry
<1> QED BY <1>2, <1>3, <1>4

\* Storing a good row.
LEMMA StoreRow ==
  ASSUME GoodRows, NEW f \in File, NEW r, GoodRow(f, r, seen),
         row' = [row EXCEPT ![f] = r], seen' = seen
  PROVE  GoodRows'
BY DEF GoodRows, GoodRow

\* Starting a request.
LEMMA AwaitGood ==
  ASSUME GoodCalls, NEW t \in Task, NEW kind \in OpKind, NEW f \in File, NEW c \in Maybe,
         NEW reply \in Reply, kind # "delete" /\ reply = "ok" => c \in Content,
         Await(t, kind, f, c, reply)
  PROVE  GoodCalls'
<1> DEFINE a == [kind |-> kind, file |-> f, got |-> c, reply |-> reply]
<1>1. a \in Call /\ GoodCall(a)
  BY DEF Call, GoodCall
<1>2. call' = [call EXCEPT ![t] = a]
  BY DEF Await
<1> HIDE DEF a
<1> QED BY <1>1, <1>2 DEF GoodCalls

\* A task takes its answer in.
LEMMA TakenGood ==
  ASSUME GoodCalls, NEW t \in Task, Taken(t)
  PROVE  GoodCalls'
BY Placeholders DEF GoodCalls, Taken

\* A file written on the server makes what is recorded of it out of date.
LEMMA WrittenGood ==
  ASSUME SyncInv, NEW f \in File, Written(f), seen' = seen
  PROVE  GoodRows' /\ GoodRound(round, seen)' /\ round'.pc = round.pc
<1> DEFINE Aged(rm) == IF rm = "current" THEN "stale" ELSE rm
<1>1. GoodRows'
  <2>1. GoodRow(f, row[f], seen)
    BY DEF SyncInv, GoodRows
  <2>2. GoodRow(f, [row[f] EXCEPT !.rm = Aged(@)], seen)
    BY <2>1 DEF GoodRow, Row
  <2>3. row' = [row EXCEPT ![f] = [row[f] EXCEPT !.rm = Aged(@)]]
    BY DEF Written, SyncInv, GoodRows
  <2> QED BY <2>2, <2>3, StoreRow DEF SyncInv
<1>2. round \in Round
  BY DEF SyncInv, GoodRound
<1>3. CASE round.pc = "manifest"
  <2>1. round' = [round EXCEPT !.snap = [round.snap EXCEPT ![f].rm = Aged(@)]]
    BY <1>2, <1>3 DEF Written, Round
  <2>2. [round.snap EXCEPT ![f].rm = Aged(@)] \in [File -> Row]
    BY <1>2 DEF Round, Row
  <2>3. round' \in Round /\ round'.pc = round.pc /\ round'.remote = round.remote
        /\ round'.snap = [round.snap EXCEPT ![f].rm = Aged(@)]
    BY <1>2, <2>1, <2>2 DEF Round
  <2>4. \A g \in File : round'.snap[g].rm # "never" => round.snap[g].rm # "never"
    BY <1>2, <2>3 DEF Round, Row
  <2> QED BY <1>1, <2>3, <2>4 DEF SyncInv, GoodRound
<1>4. CASE round.pc # "manifest"
  <2>1. round' = [round EXCEPT !.remote = [round.remote EXCEPT ![f].time = "stale"]]
    BY <1>2, <1>4 DEF Written, Round
  <2>2. [round.remote EXCEPT ![f].time = "stale"] \in [File -> Entry]
    BY <1>2 DEF Round, Entry
  <2>3. round' \in Round /\ round'.pc = round.pc /\ round'.snap = round.snap
        /\ round'.remote = [round.remote EXCEPT ![f].time = "stale"]
    BY <1>2, <2>1, <2>2 DEF Round
  <2>4. \A g \in File : round'.remote[g].listed = round.remote[g].listed
    BY <1>2, <2>3 DEF Round, Entry
  <2> QED BY <1>1, <2>3, <2>4 DEF SyncInv, GoodRound
<1> QED BY <1>1, <1>3, <1>4

-----------------------------------------------------------------------------
(* Requests *)

\* What a request does to the part of the state the invariant speaks of.
RequestGood ==
  GoodCalls' /\ GoodRows' /\ GoodRound(round, seen)' /\ server' \in [File -> Server]

\* A request that writes nothing leaves rows and round good.
LEMMA UntouchedByRequest ==
  ASSUME SyncInv, UNCHANGED <<row, round, seen>>
  PROVE  GoodRows' /\ GoodRound(round, seen)'
BY DEF SyncInv, GoodRows, GoodRound

\* A request the server has answered.
LEMMA AnsweredGood ==
  ASSUME SyncInv, NEW t \in Task, NEW kind \in OpKind, NEW f \in File, NEW c \in Maybe,
         NEW reply \in Reply, kind # "delete" /\ reply = "ok" => c \in Content,
         Answered(t, kind, f, c, reply)
  PROVE  GoodCalls'
BY AwaitGood DEF Answered, SyncInv, Reply

\* A request that fails before the server has done anything.
LEMMA UnansweredGood ==
  ASSUME SyncInv, seen' = seen, NEW t \in Task, NEW kind \in OpKind, NEW f \in File,
         Unanswered(t, kind, f)
  PROVE  RequestGood
<1>1. PICK reply \in {"failed", "raised"} : Await(t, kind, f, Absent, reply)
  BY DEF Unanswered
<1>2. GoodCalls'
  BY <1>1, AwaitGood DEF SyncInv, Reply, Maybe
<1> QED BY <1>2, UntouchedByRequest DEF Unanswered, RequestGood, SyncInv

\* upload_file up to its await, with the server's answer.
LEMMA SendUploadGood ==
  ASSUME SyncInv, seen' = seen, NEW t \in Task, NEW f \in File, local[f] # Absent,
         SendUpload(t, f)
  PROVE  RequestGood
<1> DEFINE c == local[f]
           base == row[f].hash
           hashes == ({server[f].live} \cup server[f].trash) \ {Absent}
           duplicate == \E g \in File \ {f} : server[g].live = c
<1>1. c \in Content /\ c \in Maybe /\ "upload" \in OpKind
  BY DEF SyncInv, Maybe, OpKind
<1>2. CASE /\ base # Absent /\ hashes \ {base} # {}
           /\ Answered(t, "upload", f, c, "conflict")
           /\ UNCHANGED <<server, row, round>>
  <2>1. GoodCalls'
    BY <1>1, <1>2, AnsweredGood DEF Reply
  <2> QED BY <1>2, <2>1, UntouchedByRequest DEF RequestGood, SyncInv
<1>3. CASE /\ duplicate \/ c \in Guarded
           /\ Answered(t, "upload", f, c, IF duplicate THEN "ok" ELSE "refused")
           /\ server' = [server EXCEPT ![f].disk = Absent]
           /\ UNCHANGED <<row, round>>
  <2>1. GoodCalls'
    BY <1>1, <1>3, AnsweredGood DEF Reply
  <2>2. server' \in [File -> Server]
    BY <1>3 DEF SyncInv, Server, Maybe
  <2> QED BY <1>3, <2>1, <2>2, UntouchedByRequest DEF RequestGood
<1>4. CASE /\ Answered(t, "upload", f, c, "ok")
           /\ server' = [server EXCEPT ![f].disk = c, ![f].live = c]
           /\ Written(f)
  <2>1. GoodCalls'
    BY <1>1, <1>4, AnsweredGood DEF Reply
  <2>2. server' \in [File -> Server]
    BY <1>1, <1>4 DEF SyncInv, Server
  <2> QED BY <1>4, <2>1, <2>2, WrittenGood DEF RequestGood
<1>5. CASE Unanswered(t, "upload", f)
  BY <1>1, <1>5, UnansweredGood
<1> QED BY <1>2, <1>3, <1>4, <1>5 DEF SendUpload

\* download_file up to its await, with the server's answer.
LEMMA SendDownloadGood ==
  ASSUME SyncInv, seen' = seen, NEW t \in Task, NEW f \in File, SendDownload(t, f)
  PROVE  RequestGood
<1>1. server[f].disk \in Maybe /\ "download" \in OpKind
  BY DEF SyncInv, Server, OpKind
<1>2. CASE /\ Answered(t, "download", f, server[f].disk,
                       IF server[f].disk = Absent THEN "failed" ELSE "ok")
           /\ UNCHANGED <<server, row, round>>
  <2>1. GoodCalls'
    BY <1>1, <1>2, AnsweredGood DEF Reply, Maybe
  <2> QED BY <1>2, <2>1, UntouchedByRequest DEF RequestGood, SyncInv
<1>3. CASE Unanswered(t, "download", f)
  BY <1>1, <1>3, UnansweredGood
<1> QED BY <1>2, <1>3 DEF SendDownload

\* A purge of the server leaves a file of the server.
LEMMA PurgedType ==
  ASSUME NEW s \in Server, NEW p \in Purged(s)
  PROVE  p \in Server
<1>1. CASE \E h \in s.trash : p = [s EXCEPT !.disk = Absent, !.trash = @ \ {h}]
  <2>1. PICK h \in s.trash : p = [s EXCEPT !.disk = Absent, !.trash = @ \ {h}]
    BY <1>1
  <2>2. p = [disk |-> Absent, live |-> s.live, trash |-> s.trash \ {h}]
    BY <2>1 DEF Server
  <2> QED BY <2>2 DEF Server, Maybe
<1>2. CASE p = [s EXCEPT !.disk = Absent, !.live = Absent]
  <2>1. p = [disk |-> Absent, live |-> Absent, trash |-> s.trash]
    BY <1>2 DEF Server
  <2> QED BY <2>1 DEF Server, Maybe
<1> QED BY <1>1, <1>2 DEF Purged

\* POST /sync/delete.
LEMMA SendDeleteGood ==
  ASSUME SyncInv, seen' = seen, NEW t \in Task, NEW f \in File, SendDelete(t, f)
  PROVE  RequestGood
<1>1. "delete" \in OpKind /\ Absent \in Maybe
  BY DEF OpKind, Maybe
<1>2. CASE /\ Answered(t, "delete", f, Absent, "ok")
           /\ \E s \in Purged(server[f]) : server' = [server EXCEPT ![f] = s]
           /\ UNCHANGED <<row, round>>
  <2>1. GoodCalls'
    BY <1>1, <1>2, AnsweredGood DEF Reply
  <2>2. server' \in [File -> Server]
    BY <1>2, PurgedType DEF SyncInv
  <2> QED BY <1>2, <2>1, <2>2, UntouchedByRequest DEF RequestGood
<1>3. CASE Unanswered(t, "delete", f)
  BY <1>1, <1>3, UnansweredGood
<1> QED BY <1>2, <1>3 DEF SendDelete

-----------------------------------------------------------------------------
(* The steps of the consumer keep the invariant *)

\* Steps that touch nothing the invariant speaks of.
LEMMA StutterGood ==
  ASSUME SyncInv, UNCHANGED <<local, row, call, round, server, seen>>
  PROVE  SyncInv'
BY DEF SyncInv, GoodRows, GoodCalls, GoodRound

\* A request is all that happens.
LEMMA RequestOnly ==
  ASSUME SyncInv, RequestGood, UNCHANGED <<local, seen>>
  PROVE  SyncInv'
BY DEF SyncInv, RequestGood

\* What upload_file records when the answer comes is a good row.
LEMMA UploadedGood ==
  ASSUME SyncInv, NEW t \in Task, call[t] # NoCall, call[t].kind = "upload"
  PROVE  /\ call[t].file \in File
         /\ GoodRow(call[t].file, Uploaded(call[t]), seen)
<1>1. GoodCall(call[t]) /\ call[t].file \in File
  BY DEF SyncInv, GoodCalls, GoodCall
<1>2. CASE call[t].reply = "ok"
  BY <1>1, <1>2, RowSteps DEF Uploaded, GoodCall
<1>3. CASE call[t].reply # "ok"
  BY <1>1, <1>3 DEF Uploaded, SyncInv, GoodRows
<1> QED BY <1>1, <1>2, <1>3

\* The event queue, sync_single_file, and its answers.
LEMMA ConsumerGood ==
  ASSUME SyncInv, Consumer
  PROVE  SyncInv'
<1>1. ASSUME NEW f \in File, Fetch(f) PROVE SyncInv'
  BY <1>1, StutterGood DEF Fetch, disks, store
<1>2. ASSUME NEW f \in File, SyncUpload(f) PROVE SyncInv'
  <2>1. UNCHANGED <<local, seen>>
    BY <1>2 DEF SyncUpload, disks
  <2>2. CASE local[f] = Absent
    BY <1>2, <2>1, <2>2, StutterGood DEF SyncUpload
  <2>3. CASE local[f] # Absent
    <3>1. SendUpload("consumer", f)
      BY <1>2, <2>3 DEF SyncUpload
    <3>2. RequestGood
      BY <2>1, <2>3, <3>1, SendUploadGood DEF Task
    <3> QED BY <2>1, <3>2, RequestOnly
  <2> QED BY <2>2, <2>3
<1>3. ASSUME NEW f \in File, SyncDelete(f) PROVE SyncInv'
  <2>1. UNCHANGED <<local, round, seen>> /\ row' = [row EXCEPT ![f] = Tombstone(f)]
    BY <1>3 DEF SyncDelete, disks
  <2>2. GoodRows'
    BY <2>1, RowSteps, StoreRow DEF SyncInv
  <2>3. GoodRound(round, seen)'
    BY <2>1 DEF SyncInv, GoodRound
  <2>4. CASE /\ Answered("consumer", "delete", f, Absent, "ok")
             /\ \E s \in Purged(server[f]) : server' = [server EXCEPT ![f] = s]
    <3>1. GoodCalls'
      BY <2>4, AnsweredGood DEF Task, OpKind, Maybe, Reply
    <3>2. server' \in [File -> Server]
      BY <2>4, PurgedType DEF SyncInv
    <3> QED BY <2>1, <2>2, <2>3, <3>1, <3>2 DEF SyncInv
  <2>5. CASE /\ \E reply \in {"failed", "raised"} :
                  Await("consumer", "delete", f, Absent, reply)
             /\ UNCHANGED server
    <3>1. GoodCalls'
      BY <2>5, AwaitGood DEF Task, OpKind, Maybe, Reply, SyncInv
    <3> QED BY <2>1, <2>2, <2>3, <2>5, <3>1 DEF SyncInv
  <2> QED BY <1>3, <2>4, <2>5 DEF SyncDelete
<1>4. ASSUME ConsumerAnswer PROVE SyncInv'
  <2> DEFINE a == call["consumer"]
  <2>1. a # NoCall /\ UNCHANGED <<local, round, server, seen>>
    BY <1>4 DEF ConsumerAnswer
  <2>2. GoodCalls'
    BY <1>4, TakenGood DEF ConsumerAnswer, SyncInv, Task
  <2>3. a.file \in File
    BY <2>1 DEF SyncInv, GoodCalls, GoodCall, Task
  <2>4. GoodRows'
    <3>1. CASE UNCHANGED row
      BY <2>1, <3>1 DEF SyncInv, GoodRows
    <3>2. CASE a.kind = "upload" /\ row' = [row EXCEPT ![a.file] = Uploaded(a)]
      BY <2>1, <3>2, UploadedGood, StoreRow DEF SyncInv, Task
    <3>3. CASE row' = [row EXCEPT ![a.file] = NoRow]
      BY <2>1, <2>3, <3>3, Placeholders, StoreRow DEF SyncInv
    <3> QED BY <1>4, <3>1, <3>2, <3>3 DEF ConsumerAnswer, store
  <2>5. GoodRound(round, seen)'
    BY <2>1 DEF SyncInv, GoodRound
  <2> QED BY <2>1, <2>2, <2>4, <2>5 DEF SyncInv
<1> QED BY <1>1, <1>2, <1>3, <1>4 DEF Consumer

-----------------------------------------------------------------------------
(* The steps of the poller keep the invariant *)

\* A round goes on to its next file or operation.
LEMMA RoundSteps ==
  ASSUME SyncInv, seen' = seen
  PROVE  /\ \A f : FileDone(f) => GoodRound(round, seen)'
         /\ \A o : Tried(o) => GoodRound(round, seen)'
         /\ RoundEnds => GoodRound(round, seen)'
<1>1. round \in Round
  BY DEF SyncInv, GoodRound
<1>2. ASSUME NEW f, FileDone(f) PROVE GoodRound(round, seen)'
  <2>1. /\ round' \in Round
        /\ round'.snap = round.snap /\ round'.remote = round.remote
    BY <1>1, <1>2 DEF FileDone, Round
  <2> QED BY <2>1 DEF SyncInv, GoodRound
<1>3. ASSUME NEW o, Tried(o) PROVE GoodRound(round, seen)'
  <2>1. /\ round' \in Round
        /\ round'.snap = round.snap /\ round'.remote = round.remote
    BY <1>1, <1>3 DEF Tried, Round
  <2> QED BY <2>1 DEF SyncInv, GoodRound
<1>4. RoundEnds => GoodRound(round, seen)'
  BY Placeholders DEF RoundEnds, SyncInv
<1> QED BY <1>2, <1>3, <1>4

\* A round moves on and a good row is stored: no request, no other change.
LEMMA RowOnly ==
  ASSUME SyncInv, NEW f \in File, NEW r, GoodRow(f, r, seen),
         row' = [row EXCEPT ![f] = r], GoodRound(round, seen)',
         UNCHANGED <<local, call, server, seen>>
  PROVE  SyncInv'
<1>1. GoodRows'
  BY StoreRow DEF SyncInv
<1>2. GoodCalls'
  BY DEF SyncInv, GoodCalls
<1> QED BY <1>1, <1>2 DEF SyncInv

\* full_sync reads the rows and scans WATCH_DIR.
LEMMA StartRoundGood ==
  ASSUME SyncInv, StartRound
  PROVE  SyncInv'
<1>1. UNCHANGED <<local, row, call, server, seen>>
  BY DEF StartRound, disks, store
<1>2. round' = [Idle EXCEPT !.pc = "manifest", !.snap = row, !.scan = local]
  BY DEF StartRound
<1>3. round' = [pc |-> "manifest", snap |-> row, scan |-> local,
                remote |-> [f \in File |-> Unlisted], todo |-> {}, due |-> {}]
  BY <1>2 DEF Idle
<1>4. round' \in Round
  BY <1>3, Placeholders DEF SyncInv, GoodRows, Round
<1>5. GoodRound(round, seen)'
  BY <1>1, <1>3, <1>4 DEF SyncInv, GoodRows, GoodRow, GoodRound, Unlisted
<1> QED BY <1>1, <1>5 DEF SyncInv, GoodRows, GoodCalls

\* A manifest has an entry for each file.
LEMMA ManifestType ==
  ASSUME SyncInv
  PROVE  Manifest \in [File -> Entry]
<1>1. ASSUME NEW f \in File, server[f].disk # Absent
      PROVE  [listed |-> TRUE, size |-> Size[server[f].disk], time |-> "current"] \in Entry
  <2>1. server[f].disk \in Content
    BY <1>1 DEF SyncInv, Server, Maybe
  <2>2. Size[server[f].disk] \in Nat
    BY <2>1, SyncConstantsOK
  <2> QED BY <2>2 DEF Entry
<1> QED BY <1>1, Placeholders DEF Manifest

\* The manifest arrives, and the files it lists have been seen.
LEMMA GetManifestGood ==
  ASSUME SyncInv, GetManifest
  PROVE  SyncInv'
<1>1. UNCHANGED <<local, row, call, server>>
  BY DEF GetManifest, disks, store
<1>2. CASE RoundEnds /\ seen' = seen
  BY <1>1, <1>2, RoundSteps DEF SyncInv, GoodRows, GoodCalls
<1>3. CASE /\ round' = [round EXCEPT !.pc = "up", !.remote = Manifest,
                                     !.todo = {f \in File : round.scan[f] # Absent}]
           /\ seen' = seen \cup {f \in File : Manifest[f].listed}
  <2> DEFINE todo == {f \in File : round.scan[f] # Absent}
  <2>1. round \in Round
    BY DEF SyncInv, GoodRound
  <2>2. round' = [pc |-> "up", snap |-> round.snap, scan |-> round.scan,
                  remote |-> Manifest, todo |-> todo, due |-> round.due]
    BY <1>3, <2>1 DEF Round
  <2>3. round' \in Round
    BY <2>1, <2>2, ManifestType DEF Round
  <2>4. GoodRound(round, seen)'
    BY <1>3, <2>2, <2>3 DEF SyncInv, GoodRound
  <2>5. GoodRows'
    BY <1>1, <1>3 DEF SyncInv, GoodRows, GoodRow
  <2>6. seen' \subseteq File
    BY <1>3 DEF SyncInv
  <2> QED BY <1>1, <2>4, <2>5, <2>6 DEF SyncInv, GoodCalls
<1> QED BY <1>2, <1>3 DEF GetManifest

\* The next file of the upload pass.
LEMMA UpGood ==
  ASSUME SyncInv, NEW f \in File, Up(f)
  PROVE  SyncInv'
<1>1. UNCHANGED <<local, seen>>
  BY DEF Up, disks
<1>2. CASE FileDone(f) /\ UNCHANGED <<row, call, server>>
  BY <1>1, <1>2, RoundSteps DEF SyncInv, GoodRows, GoodCalls
<1>3. CASE /\ row' = [row EXCEPT ![f] = Noted(@, f)] /\ FileDone(f)
           /\ UNCHANGED <<call, server>>
  <2>1. GoodRow(f, Noted(row[f], f), seen)
    BY RowSteps DEF SyncInv, GoodRows
  <2>2. row' = [row EXCEPT ![f] = Noted(row[f], f)]
    BY <1>3
  <2> QED BY <1>1, <1>3, <2>1, <2>2, RoundSteps, RowOnly
<1>4. CASE local[f] # Absent /\ SendUpload("poller", f)
  BY <1>1, <1>4, SendUploadGood, RequestOnly DEF Task
<1> QED BY <1>2, <1>3, <1>4 DEF Up, store

\* The upload pass is over, the download pass begins.
LEMMA StartDownGood ==
  ASSUME SyncInv, StartDown
  PROVE  SyncInv'
<1>1. UNCHANGED <<local, row, call, server, seen>>
  BY DEF StartDown, disks, store
<1>2. round \in Round
  BY DEF SyncInv, GoodRound
<1>3. /\ round' \in Round
      /\ round'.snap = round.snap /\ round'.remote = round.remote
  BY <1>2 DEF StartDown, Round
<1> QED BY <1>1, <1>3 DEF SyncInv, GoodRound, GoodRows, GoodCalls

\* The next file of the download pass.
LEMMA DownGood ==
  ASSUME SyncInv, NEW f \in File, Down(f)
  PROVE  SyncInv'
<1>1. UNCHANGED <<local, seen>>
  BY DEF Down, disks
<1>2. CASE /\ row' = [row EXCEPT ![f] = Noted(@, f)] /\ FileDone(f)
           /\ UNCHANGED <<call, server>>
  <2>1. GoodRow(f, Noted(row[f], f), seen)
    BY RowSteps DEF SyncInv, GoodRows
  <2>2. row' = [row EXCEPT ![f] = Noted(row[f], f)]
    BY <1>2
  <2> QED BY <1>1, <1>2, <2>1, <2>2, RoundSteps, RowOnly
<1>3. CASE SendDownload("poller", f) \/ SendDelete("poller", f)
  BY <1>1, <1>3, SendDownloadGood, SendDeleteGood, RequestOnly DEF Task
<1> QED BY <1>2, <1>3 DEF Down

\* An answer in the download pass.
LEMMA DownAnswerGood ==
  ASSUME SyncInv, DownAnswer
  PROVE  SyncInv'
<1> DEFINE a == call["poller"]
           f == a.file
<1>1. a # NoCall /\ Taken("poller") /\ UNCHANGED <<server, seen>>
  BY DEF DownAnswer
<1>2. GoodCalls' /\ f \in File /\ GoodCall(a)
  BY <1>1, TakenGood DEF SyncInv, GoodCalls, GoodCall, Task
<1>3. CASE /\ a.kind = "download" /\ a.reply = "ok" /\ Replace(a)
           /\ row' = [row EXCEPT ![f] = Noted(Synced(f, a.got), f)] /\ FileDone(f)
  <2>1. a.got \in Content
    BY <1>1, <1>2, <1>3 DEF GoodCall
  <2>2. local' \in [File -> Maybe]
    BY <1>3, <2>1 DEF Replace, SyncInv, Maybe
  <2>3. GoodRow(f, Noted(Synced(f, a.got), f), seen)
    BY <1>2, <2>1, RowSteps
  <2>4. GoodRows'
    BY <1>1, <1>2, <1>3, <2>3, StoreRow DEF SyncInv
  <2> QED BY <1>1, <1>2, <1>3, <2>2, <2>4, RoundSteps DEF SyncInv
<1>4. CASE row' = [row EXCEPT ![f] = NoRow] /\ FileDone(f) /\ UNCHANGED local
  <2>1. GoodRows'
    BY <1>1, <1>2, <1>4, Placeholders, StoreRow DEF SyncInv
  <2> QED BY <1>1, <1>2, <1>4, <2>1, RoundSteps DEF SyncInv
<1>5. CASE (FileDone(f) \/ RoundEnds) /\ UNCHANGED <<local, row>>
  BY <1>1, <1>2, <1>5, RoundSteps DEF SyncInv, GoodRows
<1> QED BY <1>3, <1>4, <1>5 DEF DownAnswer, store

\* An answer in the upload pass, to an upload.
LEMMA UpAnswerGood ==
  ASSUME SyncInv, UpAnswer, call["poller"].kind = "upload"
  PROVE  SyncInv'
<1> DEFINE a == call["poller"]
           f == a.file
<1>1. a # NoCall /\ Taken("poller") /\ UNCHANGED <<local, server, seen>>
  BY DEF UpAnswer
<1>2. GoodCalls' /\ f \in File
  BY <1>1, TakenGood DEF SyncInv, GoodCalls, GoodCall, Task
<1>3. CASE (FileDone(f) \/ RoundEnds) /\ UNCHANGED row
  BY <1>1, <1>2, <1>3, RoundSteps DEF SyncInv, GoodRows
<1>4. CASE row' = [row EXCEPT ![f] = Noted(Uploaded(a), f)] /\ FileDone(f)
  <2>1. GoodRow(f, Uploaded(a), seen)
    BY <1>1, UploadedGood DEF Task
  <2>2. GoodRow(f, Noted(Uploaded(a), f), seen)
    BY <1>2, <2>1, RowSteps
  <2>3. GoodRows'
    BY <1>1, <1>2, <1>4, <2>2, StoreRow DEF SyncInv
  <2> QED BY <1>1, <1>2, <1>4, <2>3, RoundSteps DEF SyncInv
<1> QED BY <1>3, <1>4 DEF UpAnswer, store

\* Deletions are propagated and tombstones reconciled.
LEMMA PropagateGood ==
  ASSUME SyncInv, Propagate
  PROVE  SyncInv'
<1>1. UNCHANGED <<call, server, seen>>
  BY DEF Propagate
<1>2. local' \in [File -> Maybe]
  BY DEF Propagate, SyncInv, Maybe
<1>3. GoodRows'
  <2>1. row' = [f \in File |-> IF f \in Unlinked \cup Reconciled THEN NoRow ELSE row[f]]
    BY DEF Propagate
  <2>2. \A f \in File : GoodRow(f, row'[f], seen)
    BY <2>1, Placeholders DEF SyncInv, GoodRows
  <2> QED BY <1>1, <2>1, <2>2 DEF GoodRows, GoodRow
<1>4. GoodRound(round, seen)'
  <2>1. PICK due \in SUBSET (OpKind \X File) :
              round' = [round EXCEPT !.pc = "retry", !.due = due]
    BY DEF Propagate
  <2>2. round \in Round
    BY DEF SyncInv, GoodRound
  <2>3. /\ round' \in Round
        /\ round'.snap = round.snap /\ round'.remote = round.remote
    BY <2>1, <2>2 DEF Round
  <2> QED BY <1>1, <2>3 DEF SyncInv, GoodRound
<1> QED BY <1>1, <1>2, <1>3, <1>4 DEF SyncInv, GoodCalls

\* The next operation of the retry queue.
LEMMA RetryGood ==
  ASSUME SyncInv, NEW o \in OpKind \X File, Retry(o)
  PROVE  SyncInv'
<1> DEFINE f == o[2]
<1>1. f \in File /\ UNCHANGED <<local, seen>>
  BY DEF Retry, disks
<1>2. CASE Tried(o) /\ UNCHANGED <<row, call, server>>
  BY <1>1, <1>2, RoundSteps DEF SyncInv, GoodRows, GoodCalls
<1>3. CASE local[f] # Absent /\ SendUpload("poller", f)
  BY <1>1, <1>3, SendUploadGood, RequestOnly DEF Task
<1>4. CASE SendDownload("poller", f) \/ SendDelete("poller", f)
  BY <1>1, <1>4, SendDownloadGood, SendDeleteGood, RequestOnly DEF Task
<1> QED BY <1>2, <1>3, <1>4 DEF Retry

\* An answer to an operation of the retry queue.
LEMMA RetryAnswerGood ==
  ASSUME SyncInv, RetryAnswer
  PROVE  SyncInv'
<1> DEFINE a == call["poller"]
           f == a.file
<1>1. /\ a # NoCall /\ Taken("poller") /\ Tried(<<a.kind, f>>)
      /\ UNCHANGED <<server, seen>>
  BY DEF RetryAnswer
<1>2. GoodCalls' /\ f \in File /\ GoodCall(a)
  BY <1>1, TakenGood DEF SyncInv, GoodCalls, GoodCall, Task
<1>3. GoodRound(round, seen)'
  BY <1>1, RoundSteps
<1>4. CASE a.kind = "upload" /\ row' = [row EXCEPT ![f] = Uploaded(a)] /\ UNCHANGED local
  <2>1. GoodRow(f, Uploaded(a), seen)
    BY <1>1, <1>4, UploadedGood DEF Task
  <2>2. GoodRows'
    BY <1>1, <1>2, <1>4, <2>1, StoreRow DEF SyncInv
  <2> QED BY <1>1, <1>2, <1>3, <1>4, <2>2 DEF SyncInv
<1>5. CASE /\ a.kind = "download" /\ a.reply = "ok" /\ Replace(a)
           /\ row' = [row EXCEPT ![f] = Synced(f, a.got)]
  <2>1. a.got \in Content
    BY <1>1, <1>2, <1>5 DEF GoodCall
  <2>2. local' \in [File -> Maybe]
    BY <1>5, <2>1 DEF Replace, SyncInv, Maybe
  <2>3. GoodRows'
    BY <1>1, <1>2, <1>5, <2>1, RowSteps, StoreRow DEF SyncInv
  <2> QED BY <1>1, <1>2, <1>3, <2>2, <2>3 DEF SyncInv
<1>6. CASE row' = [row EXCEPT ![f] = NoRow] /\ UNCHANGED local
  <2>1. GoodRows'
    BY <1>1, <1>2, <1>6, Placeholders, StoreRow DEF SyncInv
  <2> QED BY <1>1, <1>2, <1>3, <1>6, <2>1 DEF SyncInv
<1>7. CASE UNCHANGED <<local, row>>
  BY <1>1, <1>2, <1>3, <1>7 DEF SyncInv, GoodRows
<1> QED BY <1>4, <1>5, <1>6, <1>7 DEF RetryAnswer, disks

\* The round is over.
LEMMA EndRoundGood ==
  ASSUME SyncInv, EndRound
  PROVE  SyncInv'
BY RoundSteps DEF EndRound, disks, store, SyncInv, GoodRows, GoodCalls

-----------------------------------------------------------------------------
(* The steps of the others keep the invariant *)

\* A daemon that dies leaves good files and rows to the next one.
LEMMA DiesGood ==
  ASSUME SyncInv, Dies, local' \in [File -> Maybe], GoodRows'
  PROVE  SyncInv'
BY Placeholders DEF Dies, SyncInv, GoodCalls

\* What it wrote before it died while it took an answer in.
LEMMA CrashInAnswerGood ==
  ASSUME SyncInv, CrashInAnswer
  PROVE  SyncInv'
<1> DEFINE a == call["poller"]
           f == a.file
<1>1. a # NoCall /\ Dies /\ UNCHANGED seen
  BY DEF CrashInAnswer, Dies
<1>2. f \in File /\ GoodCall(a)
  BY <1>1 DEF SyncInv, GoodCalls, GoodCall, Task
<1>3. CASE /\ a.kind = "upload" /\ row' = [row EXCEPT ![f] = Uploaded(a)]
           /\ UNCHANGED local
  <2>1. GoodRow(f, Uploaded(a), seen)
    BY <1>1, <1>3, UploadedGood DEF Task
  <2>2. GoodRows'
    BY <1>1, <1>2, <1>3, <2>1, StoreRow DEF SyncInv
  <2> QED BY <1>1, <1>3, <2>2, DiesGood DEF SyncInv
<1>4. CASE /\ a.kind = "download" /\ a.reply = "ok"
           /\ local' = [local EXCEPT ![f] = a.got]
           /\ \/ row' = [row EXCEPT ![f].touched = row[f].known]
              \/ row' = [row EXCEPT ![f] = Synced(f, a.got)]
  <2>1. a.got \in Content
    BY <1>1, <1>2, <1>4 DEF GoodCall
  <2>2. local' \in [File -> Maybe]
    BY <1>4, <2>1 DEF SyncInv, Maybe
  <2>3. CASE row' = [row EXCEPT ![f].touched = row[f].known]
    <3>1. GoodRow(f, [row[f] EXCEPT !.touched = row[f].known], seen)
      BY <1>2 DEF SyncInv, GoodRows, GoodRow, Row
    <3>2. row' = [row EXCEPT ![f] = [row[f] EXCEPT !.touched = row[f].known]]
      BY <2>3
    <3>3. GoodRows'
      BY <1>1, <1>2, <3>1, <3>2, StoreRow DEF SyncInv
    <3> QED BY <1>1, <2>2, <3>3, DiesGood
  <2>4. CASE row' = [row EXCEPT ![f] = Synced(f, a.got)]
    <3>1. GoodRows'
      BY <1>1, <1>2, <2>1, <2>4, RowSteps, StoreRow DEF SyncInv
    <3> QED BY <1>1, <2>2, <3>1, DiesGood
  <2> QED BY <1>4, <2>3, <2>4
<1>5. CASE row' = [row EXCEPT ![f] = NoRow] /\ UNCHANGED local
  <2>1. GoodRows'
    BY <1>1, <1>2, <1>5, Placeholders, StoreRow DEF SyncInv
  <2> QED BY <1>1, <1>5, <2>1, DiesGood DEF SyncInv
<1> QED BY <1>3, <1>4, <1>5 DEF CrashInAnswer, disks

\* What it wrote before it died while it propagated deletions.
LEMMA CrashInPropagateGood ==
  ASSUME SyncInv, CrashInPropagate
  PROVE  SyncInv'
<1>1. Dies /\ UNCHANGED seen
  BY DEF CrashInPropagate, Dies
<1>2. PICK gone \in SUBSET Unlinked, cleared \in SUBSET (Unlinked \cup Reconciled) :
        /\ local' = [f \in File |-> IF f \in gone THEN Absent ELSE local[f]]
        /\ row' = [f \in File |-> IF f \in cleared THEN NoRow ELSE row[f]]
  BY DEF CrashInPropagate
<1>3. local' \in [File -> Maybe]
  BY <1>2 DEF SyncInv, Maybe
<1>4. \A f \in File : GoodRow(f, row'[f], seen)
  BY <1>2, Placeholders DEF SyncInv, GoodRows
<1>5. GoodRows'
  BY <1>1, <1>2, <1>4 DEF GoodRows, GoodRow
<1> QED BY <1>1, <1>3, <1>5, DiesGood

\* The user, the web client and crashes.
LEMMA OthersGood ==
  ASSUME SyncInv, Others
  PROVE  SyncInv'
<1>1. ASSUME NEW f \in File, NEW c \in Content, Edit(f, c) PROVE SyncInv'
  <2>1. UNCHANGED <<call, round, server, seen>> /\ local' = [local EXCEPT ![f] = c]
    BY <1>1 DEF Edit
  <2>2. GoodRow(f, [row[f] EXCEPT !.touched = row[f].known], seen)
    BY DEF SyncInv, GoodRows, GoodRow, Row
  <2>3. row' = [row EXCEPT ![f] = [row[f] EXCEPT !.touched = row[f].known]]
    BY <1>1 DEF Edit
  <2>4. GoodRows'
    BY <2>1, <2>2, <2>3, StoreRow DEF SyncInv
  <2> QED BY <2>1, <2>4 DEF SyncInv, GoodCalls, GoodRound, Maybe
<1>2. ASSUME NEW f \in File, NEW c \in Content, WebWrite(f, c) PROVE SyncInv'
  <2>1. /\ UNCHANGED <<local, call, seen>>
        /\ server' = [server EXCEPT ![f].disk = c, ![f].live = c]
    BY <1>2 DEF WebWrite, disks
  <2>2. GoodRows' /\ GoodRound(round, seen)'
    BY <1>2, <2>1, WrittenGood DEF WebWrite
  <2> QED BY <2>1, <2>2 DEF SyncInv, GoodCalls, Server, Maybe
<1>3. ASSUME NEW f \in File, Remove(f) PROVE SyncInv'
  BY <1>3 DEF Remove, store, SyncInv, GoodRows, GoodCalls, GoodRound, Maybe
<1>4. ASSUME NEW f \in File, WebTrash(f) PROVE SyncInv'
  <2>1. UNCHANGED <<local, row, call, round, seen>>
    BY <1>4 DEF WebTrash, disks, store
  <2>2. server[f].live \in Content
    BY <1>4 DEF WebTrash, SyncInv, Server, Maybe
  <2>3. server' \in [File -> Server]
    BY <1>4, <2>2 DEF WebTrash, SyncInv, Server, Maybe
  <2> QED BY <2>1, <2>3 DEF SyncInv, GoodRows, GoodCalls, GoodRound
<1>5. ASSUME Crash PROVE SyncInv'
  <2>1. Dies /\ UNCHANGED <<local, row, seen>>
    BY <1>5 DEF Crash, Dies, disks, store
  <2>2. GoodRows'
    BY <2>1 DEF SyncInv, GoodRows
  <2> QED BY <2>1, <2>2, DiesGood DEF SyncInv
<1>6. CASE CrashInAnswer
  BY <1>6, CrashInAnswerGood
<1>7. CASE CrashInPropagate
  BY <1>7, CrashInPropagateGood
<1> QED BY <1>1, <1>2, <1>3, <1>4, <1>5, <1>6, <1>7 DEF Others

-----------------------------------------------------------------------------
(* The poller's request belongs to the pass it is in *)

InFlight ==
  LET a == call["poller"]
  IN \/ a = NoCall
     \/ round.pc = "up" /\ a.kind = "upload" /\ a.file \in round.todo
     \/ /\ round.pc = "down" /\ a.file \in round.todo
        /\ a.kind = "download" => ~round.snap[a.file].tomb
     \/ round.pc = "retry" /\ <<a.kind, a.file>> \in round.due

\* What a request, and another task, leave of a round: its pass, what is left to
\* do, the tombstones it saw, and once it has the manifest all that it saw.
SameRound ==
  /\ round'.pc = round.pc /\ round'.todo = round.todo /\ round'.due = round.due
  /\ \A f \in File : round'.snap[f].tomb = round.snap[f].tomb
  /\ round.pc # "manifest" => round'.snap = round.snap
  /\ \A f \in File : round'.remote[f].listed = round.remote[f].listed

\* A new modification time leaves the round the same.
LEMMA WrittenSame ==
  ASSUME SyncInv, NEW f \in File, Written(f)
  PROVE  SameRound
<1> DEFINE Aged(rm) == IF rm = "current" THEN "stale" ELSE rm
<1>1. round \in Round
  BY DEF SyncInv, GoodRound
<1>2. CASE round.pc = "manifest"
  <2>1. round' = [round EXCEPT !.snap = [round.snap EXCEPT ![f].rm = Aged(@)]]
    BY <1>1, <1>2 DEF Written, Round
  <2>2. /\ round'.pc = round.pc /\ round'.todo = round.todo /\ round'.due = round.due
        /\ round'.remote = round.remote
        /\ round'.snap = [round.snap EXCEPT ![f].rm = Aged(@)]
    BY <1>1, <2>1 DEF Round
  <2>3. \A g \in File : round'.snap[g].tomb = round.snap[g].tomb
    BY <1>1, <2>2 DEF Round, Row
  <2> QED BY <1>2, <2>2, <2>3 DEF SameRound
<1>3. CASE round.pc # "manifest"
  <2>1. round' = [round EXCEPT !.remote = [round.remote EXCEPT ![f].time = "stale"]]
    BY <1>1, <1>3 DEF Written, Round
  <2>2. /\ round'.pc = round.pc /\ round'.todo = round.todo /\ round'.due = round.due
        /\ round'.snap = round.snap
        /\ round'.remote = [round.remote EXCEPT ![f].time = "stale"]
    BY <1>1, <2>1 DEF Round
  <2>3. \A g \in File : round'.remote[g].listed = round.remote[g].listed
    BY <1>1, <2>2 DEF Round, Entry
  <2> QED BY <2>2, <2>3 DEF SameRound
<1> QED BY <1>2, <1>3

\* Task t waits for a request of this kind about f.
Waits(t, kind, f) ==
  \E a : call' = [call EXCEPT ![t] = a] /\ a.kind = kind /\ a.file = f

\* Await starts such a request.
LEMMA AwaitWaits ==
  ASSUME NEW t, NEW kind, NEW f, NEW c, NEW reply, Await(t, kind, f, c, reply)
  PROVE  Waits(t, kind, f)
<1> DEFINE a == [kind |-> kind, file |-> f, got |-> c, reply |-> reply]
<1>1. call' = [call EXCEPT ![t] = a]
  BY DEF Await
<1>2. a.kind = kind /\ a.file = f
  OBVIOUS
<1> HIDE DEF a
<1> QED BY <1>1, <1>2 DEF Waits

\* Each of the three requests.
LEMMA RequestSame ==
  ASSUME SyncInv, NEW t \in Task, NEW f \in File
  PROVE  /\ SendUpload(t, f) => SameRound /\ Waits(t, "upload", f)
         /\ SendDownload(t, f) => SameRound /\ Waits(t, "download", f)
         /\ SendDelete(t, f) => SameRound /\ Waits(t, "delete", f)
<1>1. UNCHANGED round => SameRound
  BY DEF SameRound
<1>2. ASSUME NEW kind, NEW c, NEW reply, Await(t, kind, f, c, reply)
      PROVE  Waits(t, kind, f)
  BY <1>2, AwaitWaits
<1>3. ASSUME NEW kind, NEW c, NEW reply, Answered(t, kind, f, c, reply)
      PROVE  Waits(t, kind, f)
  BY <1>2, <1>3 DEF Answered
<1>4. ASSUME NEW kind, Unanswered(t, kind, f)
      PROVE  SameRound /\ Waits(t, kind, f)
  BY <1>1, <1>2, <1>4 DEF Unanswered
<1>5. SendUpload(t, f) => SameRound /\ Waits(t, "upload", f)
  BY <1>1, <1>3, <1>4, WrittenSame DEF SendUpload
<1>6. SendDownload(t, f) => SameRound /\ Waits(t, "download", f)
  BY <1>1, <1>3, <1>4 DEF SendDownload
<1>7. SendDelete(t, f) => SameRound /\ Waits(t, "delete", f)
  BY <1>1, <1>3, <1>4 DEF SendDelete
<1> QED BY <1>5, <1>6, <1>7

\* The consumer, the user and the web client leave the poller's round as it is.
LEMMA OthersSame ==
  ASSUME SyncInv, Consumer \/ (Others /\ ~Dies)
  PROVE  SameRound /\ call'["poller"] = call["poller"]
<1>1. UNCHANGED <<round, call>> => SameRound /\ call'["poller"] = call["poller"]
  BY DEF SameRound
<1>2. "consumer" \in Task /\ call \in [Task -> Call]
  BY DEF Task, SyncInv, GoodCalls
<1>3. ASSUME NEW kind, NEW f, Waits("consumer", kind, f)
      PROVE  call'["poller"] = call["poller"]
  BY <1>2, <1>3 DEF Waits, Task
<1>4. ASSUME NEW f \in File, SyncUpload(f)
      PROVE  SameRound /\ call'["poller"] = call["poller"]
  BY <1>1, <1>2, <1>3, <1>4, RequestSame DEF SyncUpload
<1>5. ASSUME NEW f \in File, SyncDelete(f)
      PROVE  SameRound /\ call'["poller"] = call["poller"]
  <2>1. PICK reply : Await("consumer", "delete", f, Absent, reply)
    BY <1>5 DEF SyncDelete, Answered
  <2>2. Waits("consumer", "delete", f)
    BY <2>1, AwaitWaits
  <2>3. UNCHANGED round
    BY <1>5 DEF SyncDelete
  <2> QED BY <1>3, <2>2, <2>3 DEF SameRound
<1>6. ASSUME ConsumerAnswer
      PROVE  SameRound /\ call'["poller"] = call["poller"]
  BY <1>2, <1>6 DEF ConsumerAnswer, Taken, SameRound, Task
<1>7. Consumer => SameRound /\ call'["poller"] = call["poller"]
  BY <1>1, <1>4, <1>5, <1>6 DEF Consumer, Fetch
<1>8. ASSUME NEW f \in File, NEW c \in Content, WebWrite(f, c)
      PROVE  SameRound /\ call'["poller"] = call["poller"]
  BY <1>8, WrittenSame DEF WebWrite
<1>9. Others /\ ~Dies => SameRound /\ call'["poller"] = call["poller"]
  BY <1>1, <1>8 DEF Others, Edit, Remove, WebTrash, Crash, CrashInAnswer, CrashInPropagate
<1> QED BY <1>7, <1>9

\* What others do leaves the request in its pass.
LEMMA InFlightFrame ==
  ASSUME SyncInv, InFlight, SameRound, call'["poller"] = call["poller"]
  PROVE  InFlight'
<1>1. call["poller"] # NoCall => call["poller"].file \in File
  BY DEF SyncInv, GoodCalls, GoodCall, Task
<1> QED BY <1>1 DEF InFlight, SameRound

\* No request is in flight between rounds, before the manifest, nor when a pass has
\* nothing left to do.
LEMMA NothingInFlight ==
  ASSUME InFlight,
         \/ round.pc \in {"idle", "manifest"}
         \/ round.pc \in {"up", "down"} /\ round.todo = {}
         \/ round.pc = "retry" /\ round.due = {}
  PROVE  call["poller"] = NoCall
BY DEF InFlight

\* The poller's own steps keep its request in its pass.
LEMMA PollerInFlight ==
  ASSUME SyncInv, InFlight, Poller
  PROVE  InFlight'
<1>1. call'["poller"] = NoCall => InFlight'
  BY DEF InFlight
<1>2. call \in [Task -> Call] /\ "poller" \in Task
  BY DEF SyncInv, GoodCalls, Task
<1>3. Taken("poller") => InFlight'
  BY <1>1, <1>2 DEF Taken
<1>4. UNCHANGED call /\ call["poller"] = NoCall => InFlight'
  BY <1>1
<1>5. CASE StartRound \/ GetManifest \/ StartDown \/ Propagate \/ EndRound
  BY <1>4, <1>5, NothingInFlight
     DEF StartRound, GetManifest, StartDown, Propagate, Propagates, EndRound
<1>6. CASE UpAnswer \/ DownAnswer \/ RetryAnswer
  BY <1>3, <1>6 DEF UpAnswer, DownAnswer, RetryAnswer
<1>7. ASSUME NEW f \in File, Up(f) PROVE InFlight'
  <2>1. CASE UNCHANGED call
    BY <1>4, <1>7, <2>1 DEF Up
  <2>2. CASE SendUpload("poller", f)
    <3>1. SameRound /\ Waits("poller", "upload", f)
      BY <1>2, <2>2, RequestSame
    <3>2. call'["poller"].kind = "upload" /\ call'["poller"].file = f
      BY <1>2, <3>1 DEF Waits
    <3> QED BY <1>7, <3>1, <3>2 DEF Up, InFlight, SameRound
  <2> QED BY <1>7, <2>1, <2>2 DEF Up
<1>8. ASSUME NEW f \in File, Down(f) PROVE InFlight'
  <2>1. CASE UNCHANGED call
    BY <1>4, <1>8, <2>1 DEF Down
  <2>2. CASE SendDelete("poller", f)
    <3>1. SameRound /\ Waits("poller", "delete", f)
      BY <1>2, <2>2, RequestSame
    <3>2. call'["poller"].kind = "delete" /\ call'["poller"].file = f
      BY <1>2, <3>1 DEF Waits
    <3> QED BY <1>8, <3>1, <3>2 DEF Down, InFlight, SameRound
  <2>3. CASE ~round.snap[f].tomb /\ SendDownload("poller", f)
    <3>1. SameRound /\ Waits("poller", "download", f)
      BY <1>2, <2>3, RequestSame
    <3>2. call'["poller"].kind = "download" /\ call'["poller"].file = f
      BY <1>2, <3>1 DEF Waits
    <3> QED BY <1>8, <2>3, <3>1, <3>2 DEF Down, InFlight, SameRound
  <2> QED BY <1>8, <2>1, <2>2, <2>3 DEF Down
<1>9. ASSUME NEW o \in OpKind \X File, Retry(o) PROVE InFlight'
  <2>1. CASE UNCHANGED call
    BY <1>4, <1>9, <2>1 DEF Retry
  <2>2. CASE ~UNCHANGED call
    <3>1. SameRound /\ Waits("poller", o[1], o[2])
      BY <1>2, <1>9, <2>2, RequestSame DEF Retry
    <3>2. call'["poller"].kind = o[1] /\ call'["poller"].file = o[2]
      BY <1>2, <3>1 DEF Waits
    <3>3. <<call'["poller"].kind, call'["poller"].file>> = o
      BY <3>2
    <3> QED BY <1>9, <3>1, <3>3 DEF Retry, InFlight, SameRound
  <2> QED BY <2>1, <2>2
<1> QED BY <1>5, <1>6, <1>7, <1>8, <1>9 DEF Poller

-----------------------------------------------------------------------------
(* A round goes on only with a manifest the breaker has let pass *)

Missing == {f \in Tracked : ~round.remote[f].listed}

Passed ==
  ~ForceSync /\ round.pc \in {"up", "down"} /\ Tracked # {} =>
    100 * Cardinality(Missing) <= AbortPercent * Cardinality(Tracked)

\* What the round saw is what it will see.
SightKept ==
  round'.pc \in {"up", "down"} =>
    /\ round.pc \in {"up", "down"} /\ round'.snap = round.snap
    /\ \A f \in File : round'.remote[f].listed = round.remote[f].listed

\* A round that still sees the same has still passed.
LEMMA PassedFrame ==
  ASSUME Passed, SightKept
  PROVE  Passed'
<1>1. CASE round'.pc \notin {"up", "down"}
  BY <1>1 DEF Passed
<1>2. CASE round'.pc \in {"up", "down"}
  <2>1. Tracked' = Tracked
    BY <1>2 DEF SightKept, Tracked
  <2>2. Missing' = Missing
    BY <1>2, <2>1 DEF SightKept, Missing, Tracked
  <2> QED BY <1>2, <2>1, <2>2 DEF Passed, SightKept
<1> QED BY <1>1, <1>2

\* The breaker was asked about the very files the round may then delete.
LEMMA GetManifestPassed ==
  ASSUME SyncInv, GetManifest
  PROVE  Passed'
<1>1. CASE RoundEnds
  BY <1>1 DEF RoundEnds, Idle, Passed
<1>2. CASE /\ ~Breaker(Manifest)
           /\ round' = [round EXCEPT !.pc = "up", !.remote = Manifest,
                                     !.todo = {f \in File : round.scan[f] # Absent}]
  <2>1. round \in Round
    BY DEF SyncInv, GoodRound
  <2>2. round'.snap = round.snap /\ round'.remote = Manifest
    BY <1>2, <2>1 DEF Round
  <2>3. Tracked' = Tracked /\ Missing' = {f \in Tracked : ~Manifest[f].listed}
    BY <2>2 DEF Tracked, Missing
  <2>4. /\ Cardinality(Tracked) \in Nat
        /\ Cardinality({f \in Tracked : ~Manifest[f].listed}) \in Nat
    <3>1. Tracked \in SUBSET File /\ {f \in Tracked : ~Manifest[f].listed} \in SUBSET File
      BY DEF Tracked
    <3>2. IsFiniteSet(Tracked) /\ IsFiniteSet({f \in Tracked : ~Manifest[f].listed})
      BY <3>1, SyncConstantsOK, FS_Subset
    <3> QED BY <3>2, FS_CardinalityType
  <2>5. ~ForceSync /\ Tracked # {} =>
          ~(100 * Cardinality({f \in Tracked : ~Manifest[f].listed})
              > AbortPercent * Cardinality(Tracked))
    BY <1>2 DEF Breaker
  <2>6. AbortPercent \in Nat
    BY SyncConstantsOK
  <2> DEFINE m == Cardinality({f \in Tracked : ~Manifest[f].listed})
             n == AbortPercent * Cardinality(Tracked)
  <2>7. m \in Nat /\ n \in Int
    BY <2>4, <2>6
  <2>8. ~ForceSync /\ Tracked # {} => ~(100 * m > n)
    BY <2>5
  <2>9. ~ForceSync /\ Tracked # {} => 100 * m <= n
    <3> HIDE DEF m, n
    <3> QED BY <2>7, <2>8
  <2> QED BY <2>3, <2>9 DEF Passed
<1> QED BY <1>1, <1>2 DEF GetManifest

\* The poller's own steps.
LEMMA PollerPassed ==
  ASSUME SyncInv, Passed, Poller
  PROVE  Passed'
<1>1. round \in Round
  BY DEF SyncInv, GoodRound
<1>2. SameRound => SightKept
  BY DEF SameRound, SightKept
<1>3. ASSUME NEW f, FileDone(f) PROVE SightKept
  BY <1>1, <1>3 DEF FileDone, SightKept, Round
<1>4. ASSUME NEW o, Tried(o) PROVE SightKept
  BY <1>1, <1>4 DEF Tried, SightKept, Round
<1>5. RoundEnds => SightKept
  BY DEF RoundEnds, Idle, SightKept
<1>6. CASE StartRound
  BY <1>6, PassedFrame DEF StartRound, Idle, SightKept
<1>7. CASE GetManifest
  BY <1>7, GetManifestPassed
<1>8. CASE \E f \in File : Up(f) \/ Down(f)
  BY <1>2, <1>3, <1>8, RequestSame, PassedFrame DEF Up, Down, Task
<1>9. CASE UpAnswer \/ DownAnswer
  BY <1>3, <1>5, <1>9, PassedFrame DEF UpAnswer, DownAnswer
<1>10. CASE StartDown
  BY <1>1, <1>10, PassedFrame DEF StartDown, SightKept, Round
<1>11. CASE Propagate
  BY <1>1, <1>11, PassedFrame DEF Propagate, SightKept, Round
<1>12. CASE (\E o \in OpKind \X File : Retry(o)) \/ RetryAnswer
  BY <1>2, <1>4, <1>12, RequestSame, PassedFrame DEF Retry, RetryAnswer, Task
<1>13. CASE EndRound
  BY <1>5, <1>13, PassedFrame DEF EndRound
<1> QED BY <1>6, <1>7, <1>8, <1>9, <1>10, <1>11, <1>12, <1>13 DEF Poller

-----------------------------------------------------------------------------
(* The invariant *)

DaemonInv == SyncInv /\ InFlight /\ Passed

\* The daemon starts with an empty store.
LEMMA InitGood == Init => DaemonInv
<1> SUFFICES ASSUME Init PROVE DaemonInv
  OBVIOUS
<1>1. GoodRows /\ GoodCalls /\ GoodRound(round, seen)
  BY Placeholders DEF Init, GoodRows, GoodCalls
<1>2. server \in [File -> Server]
  BY DEF Init, Server, Maybe
<1>3. SyncInv
  BY <1>1, <1>2 DEF Init, SyncInv
<1>4. InFlight /\ Passed
  BY DEF Init, InFlight, Passed, Idle, Task
<1> QED BY <1>3, <1>4 DEF DaemonInv

\* The steps of full_sync keep the rows, calls and rounds good.
LEMMA PollerGood ==
  ASSUME SyncInv, InFlight, Poller
  PROVE  SyncInv'
<1>1. ASSUME UpAnswer PROVE SyncInv'
  <2>1. call["poller"].kind = "upload"
    BY <1>1 DEF UpAnswer, InFlight
  <2> QED BY <1>1, <2>1, UpAnswerGood
<1> QED BY <1>1, StartRoundGood, GetManifestGood, UpGood, DownGood, StartDownGood,
           DownAnswerGood, PropagateGood, RetryGood, RetryAnswerGood, EndRoundGood
   DEF Poller

\* Every step keeps the invariant.
LEMMA NextGood == DaemonInv /\ [Next]_vars => DaemonInv'
<1> SUFFICES ASSUME DaemonInv, [Next]_vars PROVE DaemonInv'
  OBVIOUS
<1>1. SyncInv /\ InFlight /\ Passed
  BY DEF DaemonInv
<1>2. SameRound => SightKept
  BY DEF SameRound, SightKept
<1>3. CASE Consumer \/ (Others /\ ~Dies)
  <2>1. SyncInv'
    BY <1>1, <1>3, ConsumerGood, OthersGood
  <2>2. SameRound /\ call'["poller"] = call["poller"]
    BY <1>1, <1>3, OthersSame
  <2>3. InFlight'
    BY <1>1, <2>2, InFlightFrame
  <2>4. Passed'
    BY <1>1, <1>2, <2>2, PassedFrame
  <2> QED BY <2>1, <2>3, <2>4 DEF DaemonInv
<1>4. CASE Poller
  BY <1>1, <1>4, PollerGood, PollerInFlight, PollerPassed DEF DaemonInv
<1>5. CASE Others /\ Dies
  <2>1. SyncInv'
    BY <1>1, <1>5, OthersGood
  <2>2. InFlight' /\ Passed'
    BY <1>5 DEF Dies, InFlight, Passed, Idle, Task
  <2> QED BY <2>1, <2>2 DEF DaemonInv
<1>6. CASE UNCHANGED vars
  <2>1. SyncInv'
    BY <1>1, <1>6, StutterGood DEF vars
  <2>2. InFlight' /\ Passed'
    BY <1>1, <1>6 DEF vars, InFlight, Passed, Tracked, Missing
  <2> QED BY <2>1, <2>2 DEF DaemonInv
<1> QED BY <1>3, <1>4, <1>5, <1>6 DEF Next, Daemon

\* The invariant holds of every state.
LEMMA Invariance == Spec => []DaemonInv
BY InitGood, NextGood, PTL DEF Spec

\* Conflict detection stays armed: whatever mix of rounds, events, failures and
\* crashes, a file with a row and no tombstone has the hash it was last exchanged
\* with, which upload_file sends as base_hash.
THEOREM ConflictsArmed == Spec => []TrackedHasHash
<1>1. DaemonInv => TrackedHasHash
  BY DEF DaemonInv, SyncInv, GoodRows, GoodRow, TrackedHasHash
<1> QED BY <1>1, Invariance, PTL

-----------------------------------------------------------------------------
(* What changes a local file *)

\* The ways a file under WATCH_DIR changes.
LEMMA WhatChangesAFile ==
  ASSUME DaemonInv, [Next]_vars, NEW f \in File, local'[f] # local[f]
  PROVE  \/ Remove(f) /\ local'[f] = Absent
         \/ local'[f] \in Content /\ Edit(f, local'[f])
         \/ Propagate /\ f \in Unlinked /\ local'[f] = Absent
         \/ /\ local'[f] \in Content
            /\ DownAnswer /\ call["poller"].kind = "download" /\ call["poller"].file = f
         \/ local'[f] \in Content /\ RetryAnswer
         \/ CrashInPropagate /\ f \in Unlinked /\ local'[f] = Absent
         \/ /\ local'[f] \in Content
            /\ CrashInAnswer /\ call["poller"].kind = "download" /\ call["poller"].file = f
<1>1. local \in [File -> Maybe]
  BY DEF DaemonInv, SyncInv
<1>2. CASE UNCHANGED vars
  BY <1>2 DEF vars
<1>3. CASE Consumer
  BY <1>3 DEF Consumer, Fetch, SyncUpload, SyncDelete, ConsumerAnswer, disks
<1>4. CASE Others
  <2>1. ASSUME NEW g \in File, NEW c \in Content, Edit(g, c)
        PROVE  local'[f] \in Content /\ Edit(f, local'[f])
    <3>1. g = f /\ local'[f] = c
      BY <1>1, <2>1 DEF Edit
    <3> QED BY <2>1, <3>1
  <2>2. ASSUME NEW g \in File, Remove(g) PROVE Remove(f) /\ local'[f] = Absent
    <3>1. g = f /\ local'[f] = Absent
      BY <1>1, <2>2 DEF Remove
    <3> QED BY <2>2, <3>1
  <2>3. CASE CrashInPropagate
    BY <2>3 DEF CrashInPropagate
  <2>4. CASE CrashInAnswer
    <3>1. call["poller"].kind = "download" /\ call["poller"].reply = "ok"
          /\ call["poller"] # NoCall
          /\ local' = [local EXCEPT ![call["poller"].file] = call["poller"].got]
      BY <2>4 DEF CrashInAnswer, disks
    <3>2. call["poller"].got \in Content
      BY <3>1 DEF DaemonInv, SyncInv, GoodCalls, GoodCall, Task
    <3>3. call["poller"].file = f /\ local'[f] \in Content
      BY <1>1, <3>1, <3>2
    <3> QED BY <2>4, <3>1, <3>3
  <2> QED BY <1>4, <2>1, <2>2, <2>3, <2>4 DEF Others, WebWrite, WebTrash, Crash, disks
<1>5. ASSUME NEW a, a = call["poller"], a # NoCall, a.kind = "download", a.reply = "ok",
             Replace(a)
      PROVE  a.file = f /\ local'[f] \in Content
  <2>1. a.got \in Content
    BY <1>5 DEF DaemonInv, SyncInv, GoodCalls, GoodCall, Task
  <2> QED BY <1>1, <1>5, <2>1 DEF Replace
<1>6. CASE DownAnswer
  BY <1>5, <1>6 DEF DownAnswer
<1>7. CASE RetryAnswer
  BY <1>5, <1>7 DEF RetryAnswer, disks
<1>8. CASE Propagate
  BY <1>8 DEF Propagate
<1>9. CASE Poller
  BY <1>6, <1>7, <1>8, <1>9
     DEF Poller, StartRound, GetManifest, Up, UpAnswer, StartDown, Down, Retry, EndRound,
         disks
<1> QED BY <1>2, <1>3, <1>4, <1>9 DEF Next, Daemon

\* Deletions are all made in one stretch of a round, of files it missed, which a
\* crash may cut short.
LEMMA OnlyPropagateUnlinks ==
  ASSUME DaemonInv, [Next]_vars, NEW f \in File, Unlinks(f)
  PROVE  (Propagate \/ CrashInPropagate) /\ f \in Unlinked
BY WhatChangesAFile, SyncConstantsOK DEF Unlinks

\* A device never deletes a file no manifest has listed: a deletion reaches only
\* what the server has had, whatever became of uploads, retries and crashes.
THEOREM ListedBeforeDeleted == Spec => NeverListedNeverDeleted
<1>1. DaemonInv /\ [Next]_vars => [\A f \in File : Unlinks(f) => f \in seen]_vars
  <2> SUFFICES ASSUME DaemonInv, [Next]_vars, NEW f \in File, Unlinks(f) PROVE f \in seen
    OBVIOUS
  <2>1. f \in Tracked
    BY OnlyPropagateUnlinks DEF Unlinked
  <2> QED BY <2>1 DEF Tracked, DaemonInv, SyncInv, GoodRound
<1> QED BY <1>1, Invariance, PTL DEF Spec, NeverListedNeverDeleted

\* What one round deletes is bounded by the threshold and by what was tracked when
\* it began, for any number of files and whatever happens while the round waits.
THEOREM BreakerBounds == Spec => BreakerHolds
<1> DEFINE Gone == {f \in File : Unlinks(f)}
           Bounded == ~ForceSync =>
                        100 * Cardinality(Gone) <= AbortPercent * Cardinality(Tracked)
<1>1. ASSUME DaemonInv, [Next]_vars, ~ForceSync
      PROVE  100 * Cardinality(Gone) <= AbortPercent * Cardinality(Tracked)
  <2>1. Tracked \in SUBSET File /\ Missing \in SUBSET File /\ Gone \in SUBSET File
    BY DEF Tracked, Missing
  <2>2. IsFiniteSet(Tracked) /\ IsFiniteSet(Missing) /\ IsFiniteSet(Gone)
    BY <2>1, SyncConstantsOK, FS_Subset
  <2> DEFINE g == Cardinality(Gone)
             m == Cardinality(Missing)
             t == Cardinality(Tracked)
             n == AbortPercent * t
  <2>3. g \in Nat /\ m \in Nat /\ t \in Nat
    BY <2>2, FS_CardinalityType
  <2>4. AbortPercent \in Nat
    BY SyncConstantsOK
  <2>5. n \in Nat
    <3> HIDE DEF t
    <3> QED BY <2>3, <2>4
  <2>6. CASE Gone = {}
    <3>1. g = 0
      BY <2>6, FS_EmptySet
    <3> HIDE DEF n, g
    <3>2. 100 * g <= n
      BY <2>5, <3>1
    <3> QED BY <3>2 DEF n, g
  <2>7. CASE Gone # {}
    <3>1. (Propagate \/ CrashInPropagate) /\ Gone \subseteq Unlinked
      BY <1>1, <2>7, OnlyPropagateUnlinks
    <3>2. Gone \in SUBSET Missing
      BY <3>1 DEF Unlinked, Missing
    <3>3. g <= m
      BY <2>2, <3>2, FS_Subset
    <3>4. Tracked # {} /\ round.pc \in {"up", "down"}
      BY <2>7, <3>1, <3>2 DEF Missing, Propagate, CrashInPropagate, Propagates
    <3>5. 100 * m <= n
      BY <1>1, <3>4 DEF DaemonInv, Passed
    <3> HIDE DEF n, m, g
    <3>6. 100 * g <= n
      BY <2>3, <2>5, <3>3, <3>5 DEF n, m, g
    <3> QED BY <3>6 DEF n, g
  <2> QED BY <2>6, <2>7
<1>2. DaemonInv /\ [Next]_vars => [Bounded]_vars
  BY <1>1
<1> QED BY <1>2, Invariance, PTL DEF Spec, BreakerHolds

\* A file deleted here comes back only by the user's hand, by an operation that was
\* already in the retry queue, or in a round that began before the deletion.
THEOREM TombstonesHold == Spec => TombstonesRespected
<1>1. DaemonInv /\ [Next]_vars =>
        [\A f \in File : row[f].tomb /\ local[f] = Absent /\ local'[f] # Absent =>
           \/ Edit(f, local'[f])
           \/ round.pc = "retry"
           \/ ~round.snap[f].tomb]_vars
  <2> SUFFICES ASSUME DaemonInv, [Next]_vars, NEW f \in File, row[f].tomb,
                      local[f] = Absent, local'[f] # Absent
               PROVE  Edit(f, local'[f]) \/ round.pc = "retry" \/ ~round.snap[f].tomb
    OBVIOUS
  <2>1. CASE Edit(f, local'[f])
    BY <2>1
  <2>2. CASE DownAnswer /\ call["poller"].kind = "download" /\ call["poller"].file = f
    BY <2>2 DEF DownAnswer, DaemonInv, InFlight
  <2>3. CASE RetryAnswer
    BY <2>3 DEF RetryAnswer
  <2>4. CASE CrashInAnswer /\ call["poller"].kind = "download" /\ call["poller"].file = f
    BY <2>4 DEF CrashInAnswer, DaemonInv, InFlight
  <2> QED BY <2>1, <2>2, <2>3, <2>4, WhatChangesAFile, SyncConstantsOK
<1> QED BY <1>1, Invariance, PTL DEF Spec, TombstonesRespected

-----------------------------------------------------------------------------
(* Types *)

OpsType == ops \in [OpKind \X File -> (0..(MaxAttempts - 1)) \cup {NotQueued}]
EventsType == queued \in [File -> Event] /\ pending \in [File -> Event]
LeftType == left \in [DOMAIN Budget -> Nat]

\* Attempts are counted up to MaxAttempts and never past it.
LEMMA OpsSteps ==
  ASSUME OpsType, NEW o \in OpKind \X File
  PROVE  /\ Enqueue(o[1], o[2]) => OpsType'
         /\ OpDone(o) => OpsType'
         /\ OpFailed(o) => OpsType'
<1>1. MaxAttempts \in Nat \ {0} /\ NotQueued = MaxAttempts + 1
  BY SyncConstantsOK DEF NotQueued
<1>2. <<o[1], o[2]>> = o
  OBVIOUS
<1>3. Enqueue(o[1], o[2]) => OpsType'
  BY <1>1, <1>2 DEF OpsType, Enqueue
<1>4. OpDone(o) => OpsType'
  BY <1>1 DEF OpsType, OpDone
<1>5. OpFailed(o) => OpsType'
  BY <1>1 DEF OpsType, OpFailed
<1> QED BY <1>3, <1>4, <1>5

\* The budget is only ever spent.
LEMMA Spending ==
  ASSUME LeftType
  PROVE  /\ \A w \in {"edit", "web", "fault", "crash"} : Spend(w) => LeftType'
         /\ UNCHANGED left => LeftType'
         /\ \A t, kind, f, c, reply : Answered(t, kind, f, c, reply) => LeftType'
         /\ \A t, kind, f : Unanswered(t, kind, f) => LeftType'
         /\ \A t, f :
              SendUpload(t, f) \/ SendDownload(t, f) \/ SendDelete(t, f) => LeftType'
<1>1. \A w \in {"edit", "web", "fault", "crash"} : Spend(w) => LeftType'
  BY SyncConstantsOK DEF LeftType, Spend
<1>2. UNCHANGED left => LeftType'
  BY DEF LeftType
<1>3. \A t, kind, f, c, reply : Answered(t, kind, f, c, reply) => LeftType'
  BY <1>1, <1>2 DEF Answered
<1>4. \A t, kind, f : Unanswered(t, kind, f) => LeftType'
  BY <1>1 DEF Unanswered
<1>5. \A t, f : SendUpload(t, f) \/ SendDownload(t, f) \/ SendDelete(t, f) => LeftType'
  BY <1>3, <1>4 DEF SendUpload, SendDownload, SendDelete
<1> QED BY <1>1, <1>2, <1>3, <1>4, <1>5

\* Every step keeps the budget a budget.
LEMMA LeftGood ==
  ASSUME LeftType, Next
  PROVE  LeftType'
<1>1. CASE Consumer
  BY <1>1, Spending DEF Consumer, Fetch, SyncUpload, SyncDelete, ConsumerAnswer
<1>2. CASE StartRound \/ GetManifest \/ StartDown \/ Propagate \/ EndRound
  BY <1>2, Spending DEF StartRound, GetManifest, StartDown, Propagate, EndRound
<1>3. CASE UpAnswer \/ DownAnswer \/ RetryAnswer
  BY <1>3, Spending DEF UpAnswer, DownAnswer, RetryAnswer
<1>4. CASE \E f \in File : Up(f) \/ Down(f)
  BY <1>4, Spending DEF Up, Down
<1>5. CASE \E o \in OpKind \X File : Retry(o)
  BY <1>5, Spending DEF Retry
<1>6. CASE Others
  BY <1>6, Spending DEF Others, Edit, WebWrite, Remove, WebTrash, Crash, CrashInAnswer,
         CrashInPropagate, Dies
<1> QED BY <1>1, <1>2, <1>3, <1>4, <1>5, <1>6 DEF Next, Daemon, Poller

\* Every step keeps the retry queue within max_attempts.
LEMMA OpsGood ==
  ASSUME SyncInv, OpsType, Next
  PROVE  OpsType'
<1>1. UNCHANGED ops => OpsType'
  BY DEF OpsType
<1>2. ASSUME NEW t \in Task, call[t] # NoCall
      PROVE  /\ call[t].file \in File
             /\ <<call[t].kind, call[t].file>> \in OpKind \X File
             /\ Enqueue(call[t].kind, call[t].file) => OpsType'
  <2>1. call[t].kind \in OpKind /\ call[t].file \in File
    BY <1>2 DEF SyncInv, GoodCalls, GoodCall
  <2> QED BY <2>1, OpsSteps
<1>3. ASSUME NEW f \in File, Enqueue("upload", f) PROVE OpsType'
  <2>1. <<"upload", f>> \in OpKind \X File
    BY DEF OpKind
  <2> QED BY <1>3, <2>1, OpsSteps
<1>4. CASE Consumer
  BY <1>1, <1>2, <1>4 DEF Consumer, Fetch, SyncUpload, SyncDelete, ConsumerAnswer, store,
         Task
<1>5. CASE StartRound \/ GetManifest \/ StartDown \/ Propagate \/ EndRound
  BY <1>1, <1>5 DEF StartRound, GetManifest, StartDown, Propagate, EndRound, store
<1>6. CASE UpAnswer \/ DownAnswer
  BY <1>1, <1>2, <1>3, <1>6 DEF UpAnswer, DownAnswer, store, Task
<1>7. CASE RetryAnswer
  BY <1>2, <1>7, OpsSteps DEF RetryAnswer, Task
<1>8. CASE \E f \in File : Up(f) \/ Down(f)
  BY <1>1, <1>3, <1>8 DEF Up, Down, store
<1>9. CASE \E o \in OpKind \X File : Retry(o)
  BY <1>1, <1>9, OpsSteps DEF Retry
<1>10. CASE Others
  BY <1>1, <1>10 DEF Others, Edit, WebWrite, Remove, WebTrash, Crash, CrashInAnswer,
         CrashInPropagate, store
<1> QED BY <1>4, <1>5, <1>6, <1>7, <1>8, <1>9, <1>10 DEF Next, Daemon, Poller

\* Every step keeps events of the kinds the code has.
LEMMA EventsGood ==
  ASSUME SyncInv, EventsType, Next
  PROVE  EventsType'
<1>1. UNCHANGED <<queued, pending>> => EventsType'
  BY DEF EventsType
<1>2. ASSUME NEW f \in File, NEW e \in Event, Notify(f, e) \/ UNCHANGED queued,
             UNCHANGED pending
      PROVE  EventsType'
  BY <1>2 DEF EventsType, Notify
<1>3. "upload" \in Event /\ "delete" \in Event /\ "none" \in Event
  BY DEF Event
<1>4. call["poller"] # NoCall => call["poller"].file \in File
  BY DEF SyncInv, GoodCalls, GoodCall, Task
<1>5. CASE Consumer
  BY <1>1, <1>3, <1>5
     DEF Consumer, Fetch, SyncUpload, SyncDelete, Due, ConsumerAnswer, events, EventsType
<1>6. CASE StartRound \/ GetManifest \/ StartDown \/ EndRound \/ UpAnswer
  BY <1>1, <1>6 DEF StartRound, GetManifest, StartDown, EndRound, UpAnswer, events
<1>7. CASE Propagate
  BY <1>3, <1>7 DEF Propagate, EventsType
<1>8. CASE DownAnswer \/ RetryAnswer
  BY <1>1, <1>2, <1>3, <1>4, <1>8 DEF DownAnswer, RetryAnswer, Replace
<1>9. CASE \/ \E f \in File : Up(f) \/ Down(f)
           \/ \E o \in OpKind \X File : Retry(o)
  BY <1>1, <1>9 DEF Up, Down, Retry, events
<1>10. CASE Others
  <2>1. CASE \E f \in File : Remove(f) \/ \E c \in Content : Edit(f, c)
    BY <1>2, <1>3, <2>1 DEF Edit, Remove
  <2>2. CASE \E f \in File : WebTrash(f) \/ \E c \in Content : WebWrite(f, c)
    BY <1>1, <2>2 DEF WebWrite, WebTrash, events
  <2>3. ASSUME Dies PROVE EventsType'
    BY <1>3, <2>3 DEF Dies, EventsType
  <2>4. CASE Crash \/ CrashInAnswer \/ CrashInPropagate
    BY <2>3, <2>4 DEF Crash, CrashInAnswer, CrashInPropagate
  <2> QED BY <1>10, <2>1, <2>2, <2>4 DEF Others
<1> QED BY <1>5, <1>6, <1>7, <1>8, <1>9, <1>10 DEF Next, Daemon, Poller

\* Every step keeps the copies and the observer's flag.
LEMMA RestGood ==
  ASSUME SyncInv, copy \in [File -> Maybe], watching \in BOOLEAN, Next
  PROVE  copy' \in [File -> Maybe] /\ watching' \in BOOLEAN
<1>1. \A a : Kept(a) => copy' \in [File -> Maybe]
  BY DEF Kept, SyncInv
<1>2. UNCHANGED copy => copy' \in [File -> Maybe]
  OBVIOUS
<1>3. RoundEnds => watching' \in BOOLEAN
  BY DEF RoundEnds
<1>4. CASE Consumer
  BY <1>1, <1>4 DEF Consumer, Fetch, SyncUpload, SyncDelete, ConsumerAnswer, disks
<1>5. CASE StartRound \/ GetManifest \/ StartDown \/ Propagate \/ EndRound
  BY <1>3, <1>5 DEF StartRound, GetManifest, StartDown, Propagate, EndRound, disks
<1>6. CASE UpAnswer \/ DownAnswer \/ RetryAnswer
  BY <1>1, <1>3, <1>6 DEF UpAnswer, DownAnswer, RetryAnswer, disks
<1>7. CASE \/ \E f \in File : Up(f) \/ Down(f)
           \/ \E o \in OpKind \X File : Retry(o)
  BY <1>7 DEF Up, Down, Retry, disks
<1>8. CASE Others
  BY <1>1, <1>8 DEF Others, Edit, WebWrite, Remove, WebTrash, Crash, CrashInAnswer,
         CrashInPropagate, Dies, disks
<1> QED BY <1>4, <1>5, <1>6, <1>7, <1>8 DEF Next, Daemon, Poller

\* The variables keep their types; attempts of a queued operation stay below
\* max_attempts.
THEOREM TypeCorrect == Spec => []TypeOK
<1> DEFINE Rest == copy \in [File -> Maybe] /\ watching \in BOOLEAN
           Inv == DaemonInv /\ OpsType /\ EventsType /\ LeftType /\ Rest
<1>1. Init => Inv
  BY InitGood, SyncConstantsOK
     DEF Init, OpsType, EventsType, LeftType, Maybe, Event, NotQueued
<1>2. Inv /\ [Next]_vars => Inv'
  <2>1. ASSUME Inv, Next PROVE Inv'
    BY <2>1, NextGood, OpsGood, EventsGood, LeftGood, RestGood DEF DaemonInv
  <2>2. ASSUME Inv, UNCHANGED vars PROVE Inv'
    BY <2>2, NextGood DEF vars, OpsType, EventsType, LeftType
  <2> QED BY <2>1, <2>2
<1>3. Inv => TypeOK
  BY DEF DaemonInv, SyncInv, GoodRows, GoodCalls, GoodRound, Round, Server,
         OpsType, EventsType, LeftType, TypeOK
<1> QED BY <1>1, <1>2, <1>3, PTL DEF Spec
=============================================================================
