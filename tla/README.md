# Suixingdang: a TLA+ verification project

Suixingdang is a personal document library. A FastAPI server (`server/`) keeps files
per user, their database rows and a semantic index, and offers upload, notes, a trash, a
transfer assistant, a sync API and an AI agent with tools. A worker process runs jobs from
a table. A daemon at home (`daemon/`) keeps a directory in step with the server. This
directory holds TLA+ models of the parts where order, repetition and failure decide
whether a user's file survives, the TLC runs that check them, and TLAPS proofs.

All line numbers in this project are those of the repository it stands beside.
`PROJECT.json` has the machine-readable lists: components, runs, the map from definitions
to code lines, findings, hazards, theorems and mutants (for each checked property, a small
bug in a mapped definition that makes it fail).

## 1. Inventory

| Component (code) | State it keeps | Operations that change it | What is hard |
|---|---|---|---|
| **File library** (`services/ingest.py`, `api/files.py`, `services/trash.py`, `services/file_restore.py`, `api/v1/*`) | table `files`: path, hash, `deleted_at`, `original_dir`, `locked_at` | upload, note, rename, soft delete, restore (one, batch), purge (one, batch, expired, all), lock, scan | rows found by id or path, disk by path only; a trashed file stays at its path; checks made after the write; batch against a stale table |
| **Storage and index** (`core/storage.py`, `core/indexer.py`) | files on disk, documents by path | write, delete, add, remove, `index_all` | no transaction spans database, disk and index |
| **Transfer assistant** (`api/transfer.py`) | messages that refer to rows | `send_file`, `delete_message` | second way into and around the trash |
| **Sync API** (`api/sync.py`) | none of its own | upload with `base_hash`, download, manifest, delete | first row at a path, trashed or not |
| **Agent's file tools** (`agent/tools.py`) | none of its own | delete, purge, restore | third way to the same rows |
| **Task queue, worker** (`task_queue.py`, `worker.py`) | table `jobs`; process flag `_running` | enqueue, claim, complete, fail; signals, death, restart | three transactions per job; death in between; retries bounded |
| **Daemon: state store** (`daemon/state.py`) | `files` rows with hash, mtimes, tombstones; `pending_ops` | upsert, tombstone, note mtime, enqueue, done, failed | attempts and backoff survive restarts |
| **Daemon: sync engine, watcher** (`daemon/sync.py`, `daemon/watcher.py`) | event queue, debounce dict, the round's snapshots | full sync (manifest, up, down, propagate, retry), single-file sync, polling | two tasks on one loop; every `await` lets user, web and the other task act; lost answers; crashes |
| **Login, sessions** (`api/auth.py`, user and token operations of `api/admin.py`, `core/security.py`) | session and device rows, refresh hashes, password versions; cookies | register, login, refresh, logout, revoke (one, others, all), change, reset | idle timeout against refresh; one row per device; a login overtaken by a reset; lost answers |
| **Download permission** (`api/files.py:99-101, 577-710`) | two columns of the session's row: a window's end, one path | grant a window, grant one file, revoke, download | every request works on a copy of the row; a grant is cleared by whoever ends last |
| **File groups** (`api/files.py:793-886`, `services/ingest.py`, `api/admin.py`) | table `file_groups`, column `group_id` | create, rename, delete, move, store an upload into | unique names and the foreign key are checked before the write, not by the database |
| **Rate limiters** (`core/rate_limit.py`) | failure counts and locks (table `login_attempts`) | check, record, reset, acquire | windows and locks at their boundaries; check and record apart, a password hash in between |
| Settings (`core/settings_store.py`) | table and a 30 s cache per process | get, set | stale values in the other process |
| **Agent runtime** (`agent_platform/runtime/`, `api/v1/chat.py`, `api/chat.py`, `agent/brain.py`) | one run's context, batch, log and confirmations; the chat history | rounds, tool batches, suspend, resume, save, clear | a destructive call in the middle of a batch; streams that fail or are left; three endpoints over one loop |
| **Masker** (`runtime/masking.py`, `core/mask.py`) | a run's mappings, held-back tail; table `mask_mappings` | mask, flush, unmask | mappings saved at one moment of a run, tokens sent at others |
| **Models and their users** (`api/admin.py:576-729`, `core/llm_service.py`, `ai_enhance`) | table `llm_providers`, two columns of a user, a note's summary | create, update, delete, assign, summarise | one default over two commits; a model checked, then deleted; an answer 30 s old |
| Guard, RAG, skills, admin API, startup, migrations, web client | see `PROJECT.json` | | pure decisions, external calls or wiring |

Interactions. Handlers of the server share rows, disk and index. The worker, the start-up
code and the admin API call the same `purge_expired`. The daemon and the server talk by
four HTTP requests; the server has no memory of the daemon, so all the daemon knows of the
server is its state store and the latest manifest. Inside the daemon a consumer task and a
polling task share the state store, the disk and one event loop.

What makes each part correct:
- library: no file without a row, no row without its file, one active row per path, one
  active file per content, quota respected, the trash keeps what it was given, locks hold for
  the row and for the file;
- queue: each job handled by one worker, a bounded number of times, and ended at last;
- limiters: guesses and bursts bounded although requests run in parallel; a lock opened, a
  failure forgotten, only when it should be;
- agent: nothing destroyed without approval, every call answered, what was done on record,
  tokens that can be revealed;
- grants, groups, models: one grant one download, unique names, no file in a group that is
  gone, one default model, assignments honoured, although requests overlap;
- sessions: the limit holds, whatever ends a session ends all of it and nothing else, tokens
  just given work, an idle session is over;
- daemon: nothing deleted that the server did not delete, a short manifest never taken for a
  mass deletion, deletions never undone by a download, conflicts detected, every change and
  every failure settled in the end.

Some of these the code has, some only with exceptions, some not: section 4 says which.

## 2. Modules

| Module | Content |
|---|---|
| `FileLibrary` | one user's library: rows, disk, index, messages; 19 handlers, and time |
| `FileLifecycle` | abstract: the life of one row, whatever its path and content |
| `FileLibraryProofs` | types, orphans, locks; `FileLibrary` implements `FileLifecycle`; collisions, duplicates, contents, quota |
| `TaskQueue`, `TaskQueueProofs` | jobs table and worker processes; one holder, bounded starts |
| `DaemonSync`, `DaemonSyncProofs` | the daemon and its requests; conflict detection, deletions, breaker, tombstones |
| `Sessions`, `SessionsProofs` | one account's sessions, device tokens and cookies; what ends a session, the limit |
| `AgentLoop`, `AgentLoopProofs` | conversations of one user over files, history and masked values; approvals, answers, records |
| `RateLimiter`, `RateLimiterProofs` | one row of failures and one of chat requests; guesses, locks, bursts |
| `DownloadGrants`, `DownloadGrantsProofs` | the download permission of one session; one grant, one download |
| `FileGroups`, `FileGroupsProofs` | one user's groups and the files in them; names and memberships |
| `AiProviders` | the models, one user's assignment, one note's summary |
| `MC*` | small instances of each for TLC |

### FileLibrary

`phase[r]` is whether row `r` exists and whether `deleted_at` is set; `row[r]` holds path,
hash, days in the trash, `original_dir` and the lock; `disk` and `index` are keyed by path
as in the code; `messages[r]` counts the transfer messages about `r`. Contents are
identified with their hash. A handler is one action: `Upload` is write, checks, `_rollback`
or upsert and index; `RestoreRows` judges every row of a batch against the table as it was
before the request, since the session has autoflush off and commits once. Where the code
takes the first of several rows at a path without an order, the choice is left open.

Abstractions: handlers are atomic; the vector store answers; sizes and the guard's verdict
are constants; tags, groups and titles are left out; days pass one at a time.

### FileLifecycle

A row is created, goes to the trash and back, and once gone never returns; a purge of rows
nobody named takes only unlocked rows of the trash. `FileLibrary` is mapped to it by
`phase <- phase` and the columns `age` and `locked` of each row.

### TaskQueue

`status`, `attempts` and `wait` (time left to `run_after`) are the columns; `pc`, `job` and
`running` are each worker's place in `run()`. `Claim`, the handler, and `Complete` or `Fail`
are separate steps, as they are separate transactions. A job is enqueued to run at once or after
one of the delays in `Delay` (`run_after`). `ran`, `lost`, `crashes` and `stops`
are history and bounds.

### DaemonSync

`local` and `copy` are WATCH_DIR and its `.conflict` files; `row` and `ops` the two tables of
the state store; `queued` and `pending` the event queue and the debounce dict; `call[t]` the
request task `t` awaits; `round` the pass of `full_sync` under way with the three snapshots
it took (`snap`, `scan`, `remote`). A step ends at an `await` and nowhere else: the request
and what the server does is one step, taking the answer in another, so edits, web changes,
the other task and crashes come in between. An answer may be lost after the server acted,
and a request may fail before. `Propagate` (deletions, tombstones, the choice of due
operations) is one step, since the code there has no `await`. The process may die inside such a
step all the same: `CrashInAnswer` between `os.replace`, the row, the operation and the
`remote_mtime`, `CrashInPropagate` in the middle of the deletions. (A step of the
consumer writes once, so a crash inside it falls before or after that; one between a tombstone and
its request is a request that fails and a crash.)

Abstractions: modification times are kept only as how they compare (`rm`, `time`,
`touched`); the server is a file with one active content and the hashes of its trash; an
event of a file replaces the earlier one still queued; the web client's operations are a
write and a deletion; folders and ignore rules are left out. The temporary file of a download
(`f.sxd-tmp`) is excluded nowhere in the code: it raises events, is uploaded by a scan that meets
it, and is left behind by a crash. It is one more member of `File`, whose `Edit` and `Remove` stand
for what the daemon does to it.

### Sessions

`rows` is the table `access_tokens` of one account, `access` and `refresh` the cookies of each
browser, `logging` the logins between the password check and the issuing of tokens, and
`version` the column `password_version`. `Issue` is `_issue_session_tokens` whole: clean-up,
reuse of the row of the same user agent, otherwise a new row and the limit. Answers that set
cookies may be lost. Login and registration are two steps, since `db.commit()` and `_log` come
in between; the version a login signs under is that of any moment since the check, because
the user's row is read before the first statement that takes the write lock. The other
handlers are one step: two overlapping changes of the password that take the same new version
are not in the model.

Abstractions: the rate limiter (`RateLimiter`), download grants (`DownloadGrants`), labels,
addresses and the expiry and last use of device tokens are left out; who holds a device token may
do what a signed-in user may (`ByToken`). The account begins by registering. One unit of time is longer than the
60 s between two updates of `last_used_at`, so an accepted request always updates it.
`IdleTimeout` is the least number of units longer than the timeout.

### AgentLoop

For each conversation `stage`, `rounds`, `calls`, `open` and `confirmed` are the place and the
local variables of `run_agent`: `calls` what is left of the batch of tool calls, `open` the
calls in the context no tool message answers yet. `log` is `tool_call_log` as far as tools
changed a file, `recorded` the same in the chat history. `found`, `fresh`, `told`, `shown` and
`stored` follow a value the masker recognises: in a tool's result, in the run's `MaskSession`,
in a saved reply, on the screen as a token, in `mask_mappings`. A tool call is one step, since
tools are synchronous in the event loop; between calls other conversations, uploads and the
user act. The model is external: any batch of `Batch`, any reply, or a failure.

`StateSent` says whether the client of the v1 endpoint receives the state of a suspended run.
`api/v1/chat.py` removes it, so the code as it stands is `StateSent = FALSE`, and there no run is
ever resumed. What happens after a resumption is real code, used by whoever keeps the state of
`run_agent` (as the tests do), so `agent_loop` sets `TRUE` to reach it and `confirm_resumes`
sets `FALSE`. The theorems hold for both.

Abstractions: replies are the secrets in them; the choice of a skill, prompts, traces and the
digest of earlier results are left out; of the tools those that change files are modelled, the
others are `read`. Recognising a secret in text works on characters and is left out. So is where
the stream cuts it: of the secrets of a text, any subset (`W` of `Answer` and `Reply`) is released
whole and so masked by the stream, the rest goes out in pieces.

### RateLimiter

`tries` is a row of `login_attempts` used for passwords, `quota` one used for chat requests.
Every function of `core/rate_limit.py` runs under a lock and is a step; a request is several: a
password check passes `login_limiter_check`, compares hashes outside the lock, then records or
resets; `rate_limit_acquire` reads the clock (`at`) before it has the lock. An absent row and an
empty one are one value. The lock is per process, and the server's image starts one process.

### DownloadGrants

`until` and `single` are the two columns of the session's row, `req` the requests under way with
what each read of them. `begin` is the load of the session by its dependency with the checks on
it, `end` the commit. An UPDATE writes the columns that differ from the copy, or, when the
step-up check has committed in between (`expired`), all that were assigned.

### FileGroups

`group[g]` is the name of a group, `member[f]` the column `group_id`. `begin` is a request up to
its checks, `end` its commit. Storing an upload lies between the two. A restart forgets requests.
Deleting a group is one transaction, the user's and the administrator's alike.

### AiProviders

`row[p]` is a model with its flags; `assigned` and `allowed` are columns of one user; `text` and
`summary` are versions of one note and of what its summary describes. Deleting the default is
two steps, as it is two commits; loading and writing the successor, which follow each other at
once, are one. Names, keys and `sort_order` are left out, so the successor is any enabled model,
and keys are taken to decrypt.

## 3. Runs

TLC times are for two workers on a small machine.

| Run | Instance | States | Shows |
|---|---|---|---|
| `library` | 2 rows, 2 directories, a name and its recovery name, 2 contents of sizes 1 and 2 (one guarded), quota 2, lock limit 1, 1 message | 384 393, 192 s | locks, refinement of `FileLifecycle`, and which handlers, and no others, leave a file without a row, break unique paths, unique contents or the quota, or take a content away |
| `task_queue` | 2 workers, 3 jobs (limit 2, limit 0 read as 3, unknown kind), due at once or after 2, 1 death, 1 SIGTERM | 90 136, 8 s | `RunsBounded`, `HeldOrLost`, `JobsEnd` |
| `daemon_sync` | 2 files, 2 contents (one guarded), 1 edit, 1 web change, 1 fault, 1 crash | 2.29 M, 47 s | what a round may delete and download; conflict detection armed |
| `daemon_settles` | 1 file, 2 edits, 1 fault, 1 crash | 547 k, 98 s | `DeletionsSettle`, `RetriesEnd` |
| `sessions` | 2 browsers of one user agent and a third, 1 session allowed, 3 tokens, 1 device token, 1 login in flight, 1 new password, 4 units of time | 2.76 M, 157 s | `SessionsWithinLimit`, `GhostsOnlyByLogin`, `CallerStaysIn`, `RenewalEndsForAReason` |
| `agent_loop` | 2 conversations (v1, synchronous), 2 files, 1 secret, batches of 3 calls and of 2 purges, 2 rounds | 3.30 M, 117 s | `CallsAnswered`, `PurgeOnlyGranted`, `ReportLostOnlyByFailure`, `TokensLostOnlyAtTheEnd` |
| `rate_limiter` | 2 requests, limits 2 (passwords) and 3 (chat), windows 2, locks 2 and 4, 7 instants | 5.51 M, 67 s | `FailuresBounded`, `BurstBounded`, `LockOpenedOnlyByEarlierCheck`, `FailuresForgottenOnlyInTime` |
| `download_grants` | 3 requests, 2 paths, windows of 1 and 2, 3 instants | 2.50 M, 55 s | `GrantInv` |
| `file_groups` | 3 groups, 2 names (one too long), 2 files, 2 requests | 287 884, 13 s | `GroupInv`, `LostOnlyByOverlap` |
| `ai_providers` | 3 models, 2 requests, 2 versions of the note | 1.58 M, 41 s | `OneDefault`, `AssignmentHonoured`, `SummaryGoesBackOnlyByOverlap` |

Two more runs each check a statement of the documentation that the code does not keep (section 4):
`confirm_resumes` and `replies_revealable`.

Why the bounds are enough. Two rows meet every pairwise relation of the library (same path,
same content, one active and one trashed, one locked and one not), and every exception that
`ContentLostOnlyAtItsPath` and `LockProtects` list happens there but one: a note edited onto the path
of another active file, for which quota 2 leaves no room, happens with quota 4. The theorem has no
such bound. Contents of sizes 1 and 2 under quota 2 put a user below, at and,
by sync uploads and restores, above it; retention of one day separates fresh rows from expired
ones. One directory besides the top is what `original_dir` needs to matter. For the queue, two workers race for a job, and the
limits 2 and 3 exercise retry and giving up; one death and one SIGTERM can fall anywhere.
For the daemon, two files let a threshold of 50% be met from both sides and make duplicates
possible; each budget lets one interference fall at any step, and their combinations with
each other are explored. `daemon_settles` sets FORCE_SYNC: with one file the breaker would
stop every round in which it is missing, and a stopped round is not what that run asks
about. Symmetry is used on row ids, files and like browsers in safety runs only. For sessions, a limit of
one makes the second user agent overflow it; three tokens are a login, a login that reuses its
row and one that cleans up after them, which is what the renewal of expiry needs; idle timeout
and reuse window are shorter than the tokens' life, and the clock goes one unit past the first
refresh token. Both tokens last equally long there, since no statement of that run is about a
renewal after the access token's end. Time starts with the first token: nothing
before it depends on the time. For the agent, two conversations race for the files, the history
and the table of mappings; one batch reads, fails to parse and deletes, the other holds two
purges, of which the second is lost when the first is suspended; two rounds are one that ends in
a batch and one more. Two requests of the limiter are the least that can pass a check together,
and seven instants hold a window, a lock and a second window. The lock of chat requests
is twice the window in that run, so that the longest stretch `BurstBounded` speaks of is a whole
window; in the code both are 60 s, and the stretch is a window less the longest wait for the lock. A chat limit of three is the least
at which three windows let through more than twice the limit and two requests. Three requests of a session let a
download overlap a grant that overlaps another download. Three groups are two of one name and
one deleted, three models two defaults and a third to be promoted.

`MaxMessages` bounds messages per row, `Budget` the interferences of the daemon's model,
`MaxCrashes` and `MaxStops` those of the workers, and `Id` and `Job` the rows and jobs ever
created. `MaxIds`, `MaxDevices`, `MaxLogins`, `MaxTime` and `MaxVersion` bound tokens issued, device
tokens kept, logins in flight, time and new passwords; `MaxOpen` bounds the calls of a context
without an answer, `MaxWait` a chat request's wait for the lock, `MaxText` how often the note is
saved, `Req` the requests in flight at once, `Group`, `File` and `Provider` the rows ever created. Attempts are bounded by the code itself. `MaxAttempts` is 2 instead of the daemon's
default, which changes only how often the same step is repeated.

Deadlock is checked in every run of the library, the queue and the daemon: time, restarts and
polling are always possible there, as in the programs. It is in the runs of the newer modules too, but for `confirm_resumes`,
whose run ends where the client is stuck.
It is not for sessions: a deleted account may leave nothing to do.

### Fairness

Only the queue and the daemon have liveness properties. The other modules answer requests: no
request is owed to anybody, and they state no fairness.

- Workers: `WF(Work(w))`. `run()` polls for ever, a handler returns or raises, and compose
  restarts a worker (`restart: unless-stopped`). `CompleteRaises`, `Stop` and `Crash` have
  no fairness. Time passes: `WF(Tick)`.
- Daemon: `WF(Poller)` and `WF(Consumer)`. Both are asyncio tasks of one loop that never
  blocks for ever: every request has a timeout, the poller wakes after POLL_INTERVAL, the
  consumer looks every second. The user, the web client, faults and crashes have none, and
  end when their budgets do: liveness is about what follows.

## 4. What is checked and what is found

Holds, as far as the runs reach, and proved where section 5 says so:
- **`OrphansOnlyByRestore`**: no handler leaves a file on disk with no row, but for one:
  a restore of a row whose `original_dir` is stale, because `delete_message` trashes a row
  without refreshing it.
- **`LockProtects`**: a locked row leaves the trash only by a request for it, a batch restore that
  has it, or a device's delete of its path: five sweeps written separately all respect locks. Its
  file is safe from them only while no other row has the same path (below).
- **`LifecycleSpec`**: each row follows its lifecycle, and no row returns once gone.
- **`CollisionsOnlyByEditOrBatch`**, **`DuplicatesOnlyByRestoreOrScan`**,
  **`QuotaPassedOnlyByThese`**: the exact lists of handlers that can break three uniqueness
  and size rules. Each list is a statement about all other handlers.
- **`RunsBounded`**, **`HeldOrLost`**, **`JobsEnd`**: a job is handled by one worker at a
  time, at most `max_attempts` times (or 3 when that is 0), and ends unless its worker
  died with it; such a job stays `running` for ever, which is why `lost` is in the statements.
- **`TrackedHasHash`**, **`NeverListedNeverDeleted`**, **`BreakerHolds`**,
  **`TombstonesRespected`**, **`DeletionsSettle`**, **`RetriesEnd`** of the daemon.
- **`SessionsWithinLimit`**: at no time more live sessions than the limit.
- **`GhostsOnlyByLogin`**: every new password version ends all sessions of the old ones. The one
  way to a session that the token list shows as valid and no token opens is a login overtaken
  by the change. (The same overlap the other way lets the old password sign in once under the
  new version: the check is one transaction, the tokens another.)
- **`CallerStaysIn`**: neither the clean-up nor the limit nor a change of password hits the
  session it comes with.
- **`RenewalEndsForAReason`**: no clean-up removes a row before its refresh token ends.

- **`ContentLostOnlyAtItsPath`**: an active file keeps its content but for a refused upload to
  its own path, a note that is moved onto that path when it is edited, and a rename to its own
  name; a file in the trash but for whatever takes its path, and for a restore that moves the row
  and not the file. Either loses it when another row of the same path is purged, renamed or edited;
  the statement has no condition on how many rows a path has.
- **`CallsAnswered`**: the model is never shown a call of its own without an answer, unless the
  run was resumed. **`PurgeOnlyGranted`**: nothing goes for good that the user did not approve.
  **`ReportLostOnlyByFailure`**: what tools changed is lost from the record only when a model
  request fails or a streaming client goes away; no reply, suspension or last round loses it.
  **`TokensLostOnlyAtTheEnd`**: a token is shown in vain only by the step that ends a run, for a
  value it found or masked or for one of its reply that the stream let out in pieces.
- **`FailuresBounded`**, **`BurstBounded`**: parallel requests get at most as many guesses beyond the
  limit as were under way, chat requests twice the limit in any window's length, plus those waiting,
  unless a lock that was set late ends within it.
  **`LockOpenedOnlyByEarlierCheck`**, **`FailuresForgottenOnlyInTime`**: no clean-up or check gives
  anybody new guesses.
- **`GrantInv`**: a single grant serves more than one download only to requests that overlapped.
- **`GroupInv`**, **`LostOnlyByOverlap`**, **`OneDefault`**, **`AssignmentHonoured`**,
  **`SummaryGoesBackOnlyByOverlap`**: names, memberships, the default, assignments and summaries
  go wrong only in the overlaps the statements list, each of which is in the model.

Does not hold: **`SuspensionResumable`** (run `confirm_resumes`). The documentation of
`api/v1/chat.py` (lines 11-13) says that the done event of a suspended run carries
`pending_state` and that the client posts it to `/confirm`. Line 75 removes it before the event is
sent. The web client then posts no state and is answered 422, so no destructive call can be
confirmed.

Does not hold: **`RepliesRevealable`** (run `replies_revealable`). `core/mask.py` (lines 5-6 and
11-12) says that the client can have every embedded token revealed. The stream releases all but its
last 48 characters at each delta (`runtime/masking.py:24-25`), so with short deltas a secret goes out
in pieces no pattern recognises. `mask_full` recognises it in the whole reply (`runtime/loop.py:134`),
after `finish()` has stored the mappings (`masking.py:31`): the token in the done event and in the
saved reply answers 404 until the history is viewed, which masks the reply anew.

Further disagreements between the code and its documents, seen while modelling. The models
contain them; none has a run of its own.
- A new upload to the path of a file in the trash overwrites what the trash keeps
  (`services/ingest.py:99`, against `api/files.py:773`).
- A file and an older one in the trash, or two in the trash, may share a path. Purging one, by request
  or by any sweep, unlinks the bytes of the other, a live file or a locked one
  (`services/trash.py:25`, `api/files.py:1426`), although `trash.py:43` says that locked files are
  unaffected by the clean-up.
- What the stream sends in pieces it sends unmasked, against `masking.py:3-5` and `core/mask.py:4`;
  the done event then replaces it.
- A note that is edited and given the path of another active file overwrites that file; its row
  stays and describes a content that is gone (`services/ingest.py:99, 144`).
- With the lock of chat requests as long as the window (`core/rate_limit.py:81-83`), three windows
  can meet in one window's length when the request that locks the second had waited for the lock.
- A refused upload deletes the file that stood at the path before it (`services/ingest.py:107`).
- When an upload is answered as a duplicate, or refused by the guard, the file leaves the
  manifest and the daemon deletes the user's copy (`daemon/sync.py:286`).
- The comparison that detects a conflict may be with a trashed row (`services/ingest.py:85`, against
  `README.md:134`).
- A web update between the first upload and the next round is never downloaded
  (`daemon/sync.py:276`, against `README.md:130`).
- An edit made while an upload of the same file waits for its answer counts as synced: the row takes
  the mtime the file has after the `await` (`daemon/sync.py:126-131`), and the next download
  overwrites the edit.
- When a file was changed on both sides and its upload fails or the guard refuses it, the same round
  downloads over the local edit (`daemon/sync.py:245-281`).
- A crash in the middle of a download leaves its temporary file, which the next scan uploads
  (`daemon/sync.py:161`, `daemon/config.py:22-25`). A crash between an `unlink` and the removal of its
  row leaves a row that counts as missing in the breaker's ratio in later rounds
  (`daemon/sync.py:293-294`).
- `/auth/refresh` renews a session however long it was idle (`api/auth.py:707`, against
  `config.py:67`).
- A rename to the name a file already has writes the file and then deletes it (`api/files.py:311`).
- In one-way mode, which by `README.md:129` keeps the server's files, the watcher's delete event
  still deletes there (`daemon/sync.py:349`).
- `config.py:64` and `models.py:245` describe a device's fingerprint as address and user agent; the
  code takes the user agent alone.
- The tool log is masked after the mappings are saved (`runtime/loop.py:130-137`), so tokens in it
  answer 404 until the same value is masked elsewhere.
- The calls of a batch behind a suspended one are dropped, and after a resumption the context holds
  calls without an answer (`runtime/loop.py:201-221`).
- An approval is of a tool and its arguments, not of a content: a file uploaded to the path in
  between is purged under it.
- A group's name may not be longer than 50 characters when it is created, and may be when it is
  renamed (`api/files.py:816, 832`); renaming a group to its own name is a conflict.
- An upload to an existing path that names no group takes the file out of its group
  (`services/ingest.py:142-187`); the counts of `list_groups` include the trash.
- A saved note keeps the summary of its earlier text. A disabled model stays assigned to its users,
  who silently get the default.

## 5. What is proved

The proofs are of the specifications for every value of the constants that satisfies
`ConstantsOK`, `QueueConstantsOK`, `SyncConstantsOK`, `SessionConstantsOK`, `AgentConstantsOK`,
`LimiterConstantsOK`, `CleanupIsLate`, `GrantConstantsOK` or `GroupConstantsOK` (finitely many rows, files or requests, contents
apart from the placeholders, types of the limits). `CleanupIsLate` says that twice the window of
passwords (30 minutes) is no shorter than the window of chat requests (one minute) and the longest
wait for the lock. TLC evaluates those assumptions in every run. Fairness is not used.

| Theorem | States | Argument |
|---|---|---|
| `FileLibraryProofs!TypeCorrect` | `[]TypeOK` | `TypeOK` is inductive; the work is that a restore goes to a path (`TargetFree`) and a scan gives files to distinct new rows (`Adoption`) |
| `FileLibraryProofs!OnlyRestoreOrphans` | `OrphansOnlyByRestore` | a step makes an orphan of `p` only if a row leaves `p` while the file stays; handler by handler, the row leaves with the file, stays at the path in the trash, or moves home |
| `FileLibraryProofs!LocksHold` | `LockProtects` | each purge takes rows it named or rows filtered by the lock; the rest leave locked rows as they were (`LockKept`), and a file goes only with the path or through a row of it (`FileKept`) |
| `FileLibraryProofs!Refinement` | `Spec => LifecycleSpec` | each handler moves a set of rows between phases (`MoveRows`) or moves none (`KeepRows`); needs that a row not yet born is not locked (`BornUnlocked`), an invariant of its own |
| `FileLibraryProofs!CollisionsOnly` | `CollisionsOnlyByEditOrBatch` | `Kinds`, below: a store takes the active row at the path if there is one, a rename and a restore of one row look first, a scan takes paths without rows |
| `FileLibraryProofs!DuplicatesOnly` | `DuplicatesOnlyByRestoreOrScan` | `Kinds`: what stores or edits a content asked `Duplicates`, and the other kinds bring no content |
| `FileLibraryProofs!ContentsKept` | `ContentLostOnlyAtItsPath` | `Kinds`: each kind of change leaves the file at the row's path as it was, moves it with the row, names the path, or goes through another row of it (`ContentKept`) |
| `FileLibraryProofs!QuotaPassedOnly` | `QuotaPassedOnlyByThese` | `Kinds`, with `Used` as the number of bytes of the active rows, so that a replaced row is a set of bytes taken away and one added |
| `TaskQueueProofs!TypeCorrect` | `[]TypeOK` | `QueueInv` and `DelaysTyped`, and that attempts stay within the limit; that `2^n` is a number is the size of a set of subsets |
| `TaskQueueProofs!OneHolder` | `[]HeldOrLost` | `QueueInv`, below |
| `TaskQueueProofs!StartsBounded` | `[]RunsBounded` | `QueueInv`, below |
| `DaemonSyncProofs!TypeCorrect` | `[]TypeOK` | with `SyncInv`: an answer in the upload pass is an upload's, and a successful one has a content |
| `DaemonSyncProofs!ConflictsArmed` | `[]TrackedHasHash` | `SyncInv`: a row without tombstone has a hash, since `upsert` stores the content of an answer |
| `DaemonSyncProofs!ListedBeforeDeleted` | `NeverListedNeverDeleted` | `SyncInv`: `remote_mtime` is set only for files some manifest listed; only `Propagate`, or a crash in the middle of it, deletes, and only rows with it |
| `DaemonSyncProofs!BreakerBounds` | `BreakerHolds` | `Passed`, with cardinalities of finite sets |
| `DaemonSyncProofs!TombstonesHold` | `TombstonesRespected` | `InFlight`: a download of the down pass is for a file whose snapshot had no tombstone |
| `SessionsProofs!TypeCorrect` | `[]TypeOK` | `TypeOK` is inductive |
| `SessionsProofs!GhostsAreOvertakenLogins` | `GhostsOnlyByLogin` | every step but an issue only drops, revokes or touches rows (`Weakened`), an issue gives one row the version it signs under (`IssueVersion`), and a new version comes with the revocation of all |
| `SessionsProofs!RenewalsEndForAReason` | `RenewalEndsForAReason` | `SessionInv`, below |
| `SessionsProofs!LimitKept` | `[]SessionsWithinLimit` | `Within`: only an issue brings a row to life (`LiveStep`): it reuses one that is live already, or revokes what is over the limit once the new one is added |
| `SessionsProofs!CallersStayIn` | `CallerStaysIn` | the row of an answer is new or just extended, neither expired nor part of the overflow, and bears the version the answer was signed under (`IssueServes`); `LoginsLater` keeps logins out before the registration |
| `AgentLoopProofs!ContextsComplete` | `[]CallsAnswered` | `IInv`, below |
| `AgentLoopProofs!PurgesWereGranted` | `PurgeOnlyGranted` | `Approved`: what a run holds as confirmed the user has approved; only `Write` takes a file away, and a purge only if confirmed |
| `AgentLoopProofs!ReportsKept` | `ReportLostOnlyByFailure` | `AtRest`: a run that is not under way has an empty log, so a new one loses nothing; `Saved` moves the log of one run into the history, the others keep theirs (`LogsGrow`) |
| `AgentLoopProofs!TokensLostAtTheEnd` | `TokensLostOnlyAtTheEnd` | `MasksAtRest`, below; the table only grows, so a token is lost when it is shown |
| `RateLimiterProofs!GuessesBounded` | `[]FailuresBounded` | `IInv`, below |
| `RateLimiterProofs!LocksHold` | `LockOpenedOnlyByEarlierCheck` | `TriesOK`: a running lock began (`until` less the lock time) no earlier than every check under way, so only a request that had checked before it can reset it |
| `RateLimiterProofs!FailuresKept` | `FailuresForgottenOnlyInTime` | case by case; the clean-up waits two windows, and a row it takes is older than one |
| `RateLimiterProofs!BurstsBounded` | `[]BurstBounded` | `BInv`, below |
| `DownloadGrantsProofs!OneGrantOneDownload` | `[]GrantInv` | `Unspent`, below |
| `FileGroupsProofs!NamesStayBounded` | `[]GroupInv` | inductive, name by name (`Bound`): a request that gives a name was counted as one about to, and a check passes only while no group bears the name |
| `FileGroupsProofs!LostOnly` | `LostOnlyByOverlap` | `Known`, below; a deletion takes every file out of its group |

`AgentLoopProofs` and `RateLimiterProofs` also prove the types of their modules (`TypeCorrect`);
`GrantInv` and `GroupInv` contain those of theirs.

Why the invariants are strengthened.
- `HeldOrLost` is not inductive: it does not say that a worker in the middle of its loop
  holds a job and no other does (`HeldRight`), nor that lost jobs stay `running` and every
  other running job has a holder (`RunningRight`). `RunsBounded` needs that starts never
  exceed the attempts counted, plus one for a handler under way (`CountsRight`). `QueueInv`
  is these and the types.
- The daemon's properties are about a round that lasts many steps. `InFlight` says that the
  poller's request belongs to the pass the round is in and to a file or operation still on
  its list, so no answer is ever taken in by a later pass. `Passed` says that in the passes
  up and down the files missing from the manifest are still within the threshold of the
  files tracked, although rows and server have changed: what the round compares are its
  own snapshots, which nobody touches once the manifest is there (`SightKept`, `PassedFrame`).
  `SyncInv` gives the types and where hashes and mtimes come from.
- `RenewalEndsForAReason` speaks of one step, but that the clean-up spares a row whose refresh
  token is good needs the past: `Owned` says that the row a browser's token matches has that
  browser's user agent and expires no earlier than the token, which holds because a reused row
  is extended. `Given` and `Shape` say that tokens and ids are never given twice.
- `CallsAnswered` needs that a run which is suspended or over has no batch and no confirmation
  (`AtRest`), and that a batch's calls are all among the open ones (`BatchOpen`).
- `FailuresBounded` bounds failures and requests under way together. It is inductive only with
  `TriesOK`: an open row counts below the limit, so a check never passes on a row already full, and
  a lock ends at most a lock time from now.
- `BurstBounded` is about the past: requests may be let through out of the order in which they read
  the clock. `BInv` follows, for each instant t, the stretch that begins at t while it lasts.
  `Through(t)` counts the requests let through since t and those that read the clock earlier and
  still wait. Until one that read it later gets through, there are at most as many as there are
  requests (`NoneYet`); then the window that counted it reaches t (`OneWindow`), so that the next
  begins after t (`TwoWindows`) and a third not before the stretch is over: windows opened one after
  the other lie a window apart, a lock set in the stretch outlasts it (`LockOutlasts`), and the
  clean-up takes no row whose window somebody waiting can still fall in (`CleanupIsLate`).
- The library's statements about all handlers but a few rest on `Kinds`: whatever a handler does,
  it makes one of ten kinds of change to phases, paths, contents and disk (`StepKinds`).
- `TokensLostOnlyAtTheEnd` needs `MasksAtRest`: a run that is not at work has found and masked
  nothing, so a new one begins with none of the tokens of the last.
- `LostOnlyByOverlap` needs `Known`: a group that a file is in, or that a request is about to put a
  file in, was created at some time, so if it is not there it was deleted.
- A download on a grant is counted when it ends, so `GrantInv` needs `Unspent`: while the grant
  stands, no download on it has ended.

Where a proof failed for a good reason, the statement was wrong and its instance too small to show
it; it was corrected, and a larger instance finds the old form violated.
- `BurstBounded` spoke of every stretch of a window's length. A lock that counts from the clock of a
  request that waited may end within it, and a third window begins. Under a limit of 2, three
  windows are no more than twice the limit and two requests. The stretch is now shorter than the lock
  less the longest wait.

Only model-checked:
- liveness (`JobsEnd`, `DeletionsSettle`, `RetriesEnd`), out of reach of the prover;
- the three properties of `AiProviders`, whose proofs are planned.

## 6. Not modelled

The reasons are per component in `PROJECT.json`. In short: guard, chunking, ranking and the
recognition of secrets in text are pure functions of characters or external services, and the
models take their verdicts as constants or choices; the settings cache serves values that are
constants here; of the admin API, settings, statistics and lists change nothing the modules keep;
startup, migrations and the web client keep no state of their own; tags, pins, titles, previews,
search and preferences are single-row reads and writes without a rule over several rows.

Hazards known and not covered by a property are listed with their reason under "hazards":
interleaved uploads to one path, the settings cache, and three whose property the code does not
have (section 4).

## 7. Plan

Written so far, in this order: `FileLibrary` with `FileLifecycle`, `TaskQueue`, `DaemonSync`, their
proof modules, `Sessions` with its proofs, `AgentLoop`, `RateLimiter` and `DownloadGrants` with
theirs, `FileGroups` with its proofs, `AiProviders`.

1. Proofs: the properties of `AiProviders`.
2. `IngestSteps`: ingest split into write, checks, commit and index for two concurrent
   requests, with `FileLibrary` as the atomic specification it does not always implement.
3. `SyncServer`: an abstract server implemented by `FileLibrary` and used by `DaemonSync`, so
   that the two compose.
4. `SettingsCache`: a cache per process under retention and limits.
5. Daemon: two or more edits per file with web changes, when every edit reaches the server;
   echo events.
