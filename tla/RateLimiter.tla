---------------------------- MODULE RateLimiter ----------------------------
(***************************************************************************)
(* The two limiters of core/rate_limit.py over the table login_attempts,   *)
(* each seen through one of its rows: `tries' is the row of a password     *)
(* check (login, reset, step-up: the keys differ, the code is the same),   *)
(* `quota' the row of a user's chat requests.  Every function of the file  *)
(* runs under one process-wide lock and is a step; what is not one step is *)
(* a request: a password check reads the limiter, compares hashes outside  *)
(* the lock and only then records the outcome, and rate_limit_acquire      *)
(* reads the clock before it waits for the lock.                           *)
(*                                                                         *)
(* A row that is absent and a row whose columns are all empty are treated  *)
(* alike by every function, and are one value here (Fresh).  A refused     *)
(* request changes nothing and is no action.                               *)
(***************************************************************************)
EXTENDS Integers, FiniteSets

CONSTANTS
  Req,          \* requests that can be in flight at once
  MaxFailures,  \* LOGIN_LIMIT_MAX_FAILURES
  Window,       \* LOGIN_LIMIT_WINDOW
  LockTime,     \* LOGIN_LIMIT_LOCK_SECONDS
  ChatMax,      \* CHAT_RATE_LIMIT_MAX
  ChatWindow,   \* CHAT_RATE_LIMIT_WINDOW
  ChatLock,     \* CHAT_RATE_LIMIT_LOCK_SECONDS
  MaxWait,      \* how long a chat request waits for the lock at most
  MaxTime       \* bound: the last instant

ASSUME LimiterConstantsOK ==
  /\ IsFiniteSet(Req)
  /\ MaxFailures \in Nat \ {0} /\ Window \in Nat /\ LockTime \in Nat \ {0}
  /\ ChatMax \in Nat \ {0} /\ ChatWindow \in Nat /\ ChatLock \in Nat \ {0}
  /\ MaxWait \in Nat /\ MaxTime \in Nat

\* 2 * 15 minutes against one minute: the clean-up, whose age limit is made for
\* the password rows, takes no chat row whose window a waiting request could
\* still fall in.
ASSUME CleanupIsLate == ChatWindow + MaxWait <= 2 * Window

VARIABLES
  now,      \* the clock
  tries,    \* the row of the password checks
  quota,    \* the row of the chat requests
  req,      \* req[r]: what request r is doing
  admitted  \* history: admitted[t] chat requests were let through before instant t

vars == <<now, tries, quota, req, admitted>>

Time == 0 .. MaxTime
Never == -1   \* NULL in a column of type datetime

Fresh == [fails |-> 0, since |-> Never, until |-> Never]

\* A password request remembers when it read the limiter, a chat request what
\* the clock said before it asked for the lock.
Idle == [kind |-> "idle", at |-> Never]
Checking(t) == [kind |-> "password", at |-> t]
Asking(t) == [kind |-> "chat", at |-> t]

Checked == {r \in Req : req[r].kind = "password"}

-----------------------------------------------------------------------------
(* The rows.                                                               *)

Locked(row, t) == row.until > t

\* login_limiter_check, on a row that is not locked
Unlocked(row) == IF row.until # Never THEN Fresh ELSE row

\* Mutant: the comparison with the limit is off by one.
RecordedOneMore(row, t) ==
  LET over  == row.since # Never /\ t - row.since > Window
      fails == (IF over THEN 0 ELSE row.fails) + 1
  IN  [fails |-> fails,
       since |-> IF over \/ row.since = Never THEN t ELSE row.since,
       until |-> IF fails > MaxFailures THEN t + LockTime ELSE row.until]

\* Mutant: the counting period is closed one instant early.
RecordedEarly(row, t) ==
  LET over  == row.since # Never /\ t - row.since >= Window
      fails == (IF over THEN 0 ELSE row.fails) + 1
  IN  [fails |-> fails,
       since |-> IF over \/ row.since = Never THEN t ELSE row.since,
       until |-> IF fails >= MaxFailures THEN t + LockTime ELSE row.until]

\* Mutant: a new counting period also clears the lock.
RecordedReleasing(row, t) ==
  LET over  == row.since # Never /\ t - row.since > Window
      fails == (IF over THEN 0 ELSE row.fails) + 1
  IN  [fails |-> fails,
       since |-> IF over \/ row.since = Never THEN t ELSE row.since,
       until |-> IF fails >= MaxFailures THEN t + LockTime
                 ELSE IF over THEN Never ELSE row.until]

\* login_limiter_record, up to its first commit
Recorded(row, t) ==
  LET over  == row.since # Never /\ t - row.since > Window
      fails == (IF over THEN 0 ELSE row.fails) + 1
  IN  [fails |-> fails,
       since |-> IF over \/ row.since = Never THEN t ELSE row.since,
       until |-> IF fails >= MaxFailures THEN t + LockTime ELSE row.until]

\* the clean-up that every login_limiter_record makes of the whole table
Swept(row, t) ==
  IF row.until = Never /\ (row.since = Never \/ row.since < t - 2 * Window)
  THEN Fresh ELSE row

\* Mutant: a request over the limit is refused but locks nothing.
AcquiredWithoutLock(row, t) ==
  LET old == IF row.until # Never THEN Fresh ELSE row
      in  == old.since # Never /\ t - old.since <= ChatWindow
      n   == IF in THEN old.fails + 1 ELSE 1
  IN  [fails |-> n, since |-> IF in THEN old.since ELSE t, until |-> Never]

\* rate_limit_acquire at the time t, on a row that is not locked: an expired
\* lock opens a new window, the request is counted, and the first one over the
\* limit locks the row.
Acquired(row, t) ==
  LET old == IF row.until # Never THEN Fresh ELSE row
      in  == old.since # Never /\ t - old.since <= ChatWindow
      n   == IF in THEN old.fails + 1 ELSE 1
  IN  [fails |-> n, since |-> IF in THEN old.since ELSE t,
       until |-> IF n > ChatMax THEN t + ChatLock ELSE Never]

-----------------------------------------------------------------------------
Init ==
  /\ now = 0
  /\ tries = Fresh /\ quota = Fresh
  /\ req = [r \in Req |-> Idle]
  /\ admitted = [t \in 0 .. MaxTime + 1 |-> 0]

\* A request with a password passes the check.
Check(r) ==
  /\ req[r] = Idle /\ ~Locked(tries, now)
  /\ tries' = Unlocked(tries)
  /\ req' = [req EXCEPT ![r] = Checking(now)]
  /\ UNCHANGED <<now, quota, admitted>>

\* The password is wrong: the failure is recorded, and old rows are deleted.
WrongPassword(r) ==
  /\ r \in Checked
  /\ tries' = Swept(Recorded(tries, now), now)
  /\ quota' = Swept(quota, now)
  /\ req' = [req EXCEPT ![r] = Idle]
  /\ UNCHANGED <<now, admitted>>

\* The password is right: login_limiter_reset.
RightPassword(r) ==
  /\ r \in Checked
  /\ tries' = Fresh
  /\ req' = [req EXCEPT ![r] = Idle]
  /\ UNCHANGED <<now, quota, admitted>>

\* The request ends without a verdict: the password is empty, or the
\* administrator's new password is not acceptable.
NoVerdict(r) ==
  /\ r \in Checked
  /\ req' = [req EXCEPT ![r] = Idle]
  /\ UNCHANGED <<now, tries, quota, admitted>>

\* Somebody else's wrong password deletes old rows of every key.
OthersFail ==
  /\ tries' = Swept(tries, now)
  /\ quota' = Swept(quota, now)
  /\ UNCHANGED <<now, req, admitted>>

\* A chat request reads the clock and waits for the lock.
Ask(r) ==
  /\ req[r] = Idle
  /\ req' = [req EXCEPT ![r] = Asking(now)]
  /\ UNCHANGED <<now, tries, quota, admitted>>

\* The chat request has the lock.  It is answered 429 while the row is locked,
\* and when it is itself the one over the limit.
Acquire(r) ==
  /\ req[r].kind = "chat"
  /\ quota' = IF Locked(quota, req[r].at) THEN quota ELSE Acquired(quota, req[r].at)
  /\ admitted' = IF quota'.until # Never THEN admitted
                 ELSE [t \in DOMAIN admitted |->
                         IF t > now THEN admitted[t] + 1 ELSE admitted[t]]
  /\ req' = [req EXCEPT ![r] = Idle]
  /\ UNCHANGED <<now, tries>>

Tick ==
  /\ now < MaxTime
  /\ \A r \in Req : req[r].kind = "chat" => now - req[r].at < MaxWait
  /\ now' = now + 1
  /\ UNCHANGED <<tries, quota, req, admitted>>

Next ==
  \/ \E r \in Req : \/ Check(r) \/ WrongPassword(r) \/ RightPassword(r)
                    \/ NoVerdict(r) \/ Ask(r) \/ Acquire(r)
  \/ OthersFail
  \/ Tick

Spec == Init /\ [][Next]_vars

-----------------------------------------------------------------------------
RowType(limit, lock) ==
  [fails : 0 .. limit, since : Time \cup {Never}, until : Never .. MaxTime + lock]

\* Types.  A chat row never counts beyond the request that locked it.
TypeOK ==
  /\ now \in Time
  /\ tries \in RowType(MaxFailures - 1 + Cardinality(Req), LockTime)
  /\ quota \in RowType(ChatMax + 1, ChatLock)
  /\ req \in [Req -> [kind : {"idle", "password", "chat"}, at : 0 .. now \cup {Never}]]
  /\ admitted \in [0 .. MaxTime + 1 -> Nat]

\* Parallel guesses: the check and the record are two critical sections, so
\* more than MaxFailures wrong passwords may be counted before the lock stops
\* them, but never more than one for each request that was already under way,
\* however checks, records, expiries, successes and clean-ups interleave.
FailuresBounded ==
  tries.fails + Cardinality(Checked) <= MaxFailures - 1 + Cardinality(Req)

\* A lock that runs is only ever prolonged, except by a right password in a
\* request that had passed the check before the lock was set (or prolonged):
\* neither another check, nor a window that ends, nor the clean-up opens it.
LockOpenedOnlyByEarlierCheck ==
  [][Locked(tries, now) =>
       \/ tries'.until >= tries.until
       \/ \E r \in Checked : /\ RightPassword(r)
                             /\ req[r].at <= tries.until - LockTime]_vars

\* A failure is forgotten only after a right password, after its lock ended,
\* or when the counting period it belongs to is over: the clean-up, which
\* deletes rows by age alone, never gives anybody new guesses.
FailuresForgottenOnlyInTime ==
  [][tries'.fails < tries.fails =>
       \/ \E r \in Checked : RightPassword(r)
       \/ tries.until # Never /\ tries.until <= now
       \/ tries.since # Never /\ now - tries.since > Window]_vars

\* No stretch of a window's length lets through more than twice the limit (two
\* windows that touch) and the requests that had read the clock before it.  The
\* lock that ends the second window counts from the clock of the request that
\* sets it, which may have waited: a stretch longer than the lock less that wait
\* can reach a third window.
BurstBounded ==
  \A t, u \in Time :
    t <= u /\ u - t <= ChatWindow /\ u - t < ChatLock - MaxWait
      => admitted[u + 1] - admitted[t] <= 2 * ChatMax + Cardinality(Req)
=============================================================================
