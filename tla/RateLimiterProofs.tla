------------------------- MODULE RateLimiterProofs -------------------------
(***************************************************************************)
(* Type correctness, the bound on parallel guesses, what may open a lock   *)
(* or forget a failure, and how many chat requests a stretch of time can   *)
(* let through, for every number of requests and all limits.               *)
(***************************************************************************)
EXTENDS RateLimiter, FiniteSetTheorems, TLAPS

Limit == MaxFailures - 1 + Cardinality(Req)
TryRow == [fails : Nat, since : Time \cup {Never}, until : Never .. MaxTime + LockTime]
ChatRow == [fails : 0 .. ChatMax + 1, since : Time \cup {Never}, until : Never .. MaxTime + ChatLock]

\* What holds of the row of the password checks: it counts below the limit
\* while it is open and nothing before its first failure, and its lock, which
\* ends at most a full lock time from now, began after every check under way.
TriesOK ==
  /\ tries \in TryRow
  /\ tries.until = Never => tries.fails < MaxFailures
  /\ tries.since = Never => tries.fails = 0
  /\ tries.until <= now + LockTime
  /\ tries.until # Never => \A r \in Checked : req[r].at <= tries.until - LockTime

\* The same of the chat row: an open one counts no more than the limit.
QuotaOK == quota \in ChatRow /\ (quota.until = Never => quota.fails <= ChatMax)

RestOK ==
  /\ now \in Time
  /\ req \in [Req -> [kind : {"idle", "password", "chat"}, at : 0 .. now \cup {Never}]]
  /\ \A r \in Req : req[r].kind # "idle" => req[r].at \in 0 .. now
  /\ admitted \in [0 .. MaxTime + 1 -> Nat]

IInv == TriesOK /\ QuotaOK /\ RestOK /\ FailuresBounded

-----------------------------------------------------------------------------
(* How a step changes the number of requests that have passed the check.   *)

LEMMA CheckedFinite ==
  /\ IsFiniteSet(Checked) /\ Cardinality(Checked) \in Nat
  /\ Cardinality(Req) \in Nat /\ Cardinality(Checked) <= Cardinality(Req)
<1>1. Checked \subseteq Req /\ IsFiniteSet(Req)
  BY LimiterConstantsOK DEF Checked
<1>2. IsFiniteSet(Checked)
  BY <1>1, FS_Subset
<1>3. QED
  BY <1>1, <1>2, FS_CardinalityType, FS_Subset

LEMMA OneMoreChecked ==
  ASSUME NEW r \in Req, NEW t, DOMAIN req = Req, req[r] = Idle,
         req' = [req EXCEPT ![r] = Checking(t)]
  PROVE  /\ Checked' = Checked \cup {r}
         /\ Cardinality(Checked)' = Cardinality(Checked) + 1
<1>1. r \notin Checked
  BY DEF Checked, Idle
<1>2. Checked' = Checked \cup {r}
  BY DEF Checked, Checking
<1>3. QED
  BY <1>1, <1>2, CheckedFinite, FS_AddElement

LEMMA OneLessChecked ==
  ASSUME NEW r \in Checked, DOMAIN req = Req, req' = [req EXCEPT ![r] = Idle]
  PROVE  /\ Checked' = Checked \ {r}
         /\ Cardinality(Checked)' = Cardinality(Checked) - 1
<1>1. Checked' = Checked \ {r}
  BY DEF Checked, Idle
<1>2. QED
  BY <1>1, CheckedFinite, FS_RemoveElement

LEMMA SameChecked ==
  ASSUME NEW r \in Req, DOMAIN req = Req, NEW v, v.kind # "password",
         req[r].kind # "password", req' = [req EXCEPT ![r] = v]
  PROVE  Checked' = Checked
BY DEF Checked

-----------------------------------------------------------------------------
(* The operators on rows.                                                  *)

LEMMA RecordedType ==
  ASSUME NEW row \in TryRow, NEW t \in Time
  PROVE  /\ Recorded(row, t) \in TryRow
         /\ Recorded(row, t).since # Never
         /\ Recorded(row, t).fails <= row.fails + 1
         /\ Recorded(row, t).fails >= MaxFailures => Recorded(row, t).until = t + LockTime
         /\ Recorded(row, t).fails < MaxFailures => Recorded(row, t).until = row.until
         /\ t - Recorded(row, t).since <= Window
         /\ \/ Recorded(row, t).fails = row.fails + 1
            \/ row.since # Never /\ t - row.since > Window
<1> DEFINE over  == row.since # Never /\ t - row.since > Window
           fails == (IF over THEN 0 ELSE row.fails) + 1
           since == IF over \/ row.since = Never THEN t ELSE row.since
           until == IF fails >= MaxFailures THEN t + LockTime ELSE row.until
<1>1. row.fails \in Nat /\ row.since \in Time \cup {Never} /\ row.until \in Never .. MaxTime + LockTime
  BY DEF TryRow
<1>2. Recorded(row, t) = [fails |-> fails, since |-> since, until |-> until]
  BY DEF Recorded
<1>3. fails \in Nat /\ fails <= row.fails + 1
  BY <1>1
<1>4. since \in Time /\ t - since <= Window
  BY <1>1, LimiterConstantsOK DEF Time, Never
<1>5. until \in Never .. MaxTime + LockTime
  BY <1>1, LimiterConstantsOK DEF Time, Never
<1>6. Recorded(row, t) \in TryRow
  BY <1>2, <1>3, <1>4, <1>5 DEF TryRow
<1>7. since # Never
  BY <1>4 DEF Time, Never
<1>8. fails = row.fails + 1 \/ over
  OBVIOUS
<1>9. /\ fails >= MaxFailures => until = t + LockTime
      /\ fails < MaxFailures => until = row.until
  BY <1>3, LimiterConstantsOK
<1>10. QED
  BY <1>2, <1>3, <1>4, <1>6, <1>7, <1>8, <1>9

\* What was recorded now is not old enough for the clean-up.
LEMMA RecordedNotSwept ==
  ASSUME NEW row \in TryRow, NEW t \in Time
  PROVE  Swept(Recorded(row, t), t) = Recorded(row, t)
<1>1. /\ Recorded(row, t).since \in Time /\ Recorded(row, t).since # Never
      /\ t - Recorded(row, t).since <= Window
  BY RecordedType DEF TryRow
<1>2. ~(Recorded(row, t).since < t - 2 * Window)
  BY <1>1, LimiterConstantsOK DEF Time
<1>3. QED
  BY <1>1, <1>2 DEF Swept

LEMMA SweptIs ==
  ASSUME NEW row, NEW t
  PROVE  \/ Swept(row, t) = row
         \/ Swept(row, t) = Fresh /\ row.until = Never
            /\ (row.since = Never \/ row.since < t - 2 * Window)
BY DEF Swept

LEMMA FreshOK ==
  /\ Fresh \in TryRow /\ Fresh \in ChatRow
  /\ Fresh.fails = 0 /\ Fresh.since = Never /\ Fresh.until = Never
BY LimiterConstantsOK DEF Fresh, TryRow, ChatRow, Never, Time

LEMMA AcquiredType ==
  ASSUME NEW row \in ChatRow, NEW t \in Time,
         row.until = Never => row.fails <= ChatMax
  PROVE  /\ Acquired(row, t) \in ChatRow
         /\ Acquired(row, t).until = Never => Acquired(row, t).fails <= ChatMax
<1> DEFINE old == IF row.until # Never THEN Fresh ELSE row
           in  == old.since # Never /\ t - old.since <= ChatWindow
           n   == IF in THEN old.fails + 1 ELSE 1
           since == IF in THEN old.since ELSE t
           until == IF n > ChatMax THEN t + ChatLock ELSE Never
<1>1. Acquired(row, t) = [fails |-> n, since |-> since, until |-> until]
  BY DEF Acquired
<1>2. old \in ChatRow /\ old.fails <= ChatMax
  BY FreshOK, LimiterConstantsOK
<1>3. n \in 0 .. ChatMax + 1
  BY <1>2, LimiterConstantsOK DEF ChatRow
<1>4. since \in Time
  BY <1>2 DEF ChatRow
<1>5. until \in Never .. MaxTime + ChatLock /\ (until = Never => n <= ChatMax)
  BY <1>3, LimiterConstantsOK DEF Time, Never
<1>6. QED
  BY <1>1, <1>3, <1>4, <1>5 DEF ChatRow

-----------------------------------------------------------------------------
LEMMA InitIInv == Init => IInv
<1> SUFFICES ASSUME Init PROVE IInv
  OBVIOUS
<1> USE DEF Init
<1>1. Checked = {}
  BY DEF Checked, Idle
<1>2. Cardinality(Checked) = 0 /\ Cardinality(Req) \in Nat
  BY <1>1, CheckedFinite, FS_EmptySet
<1>3. TriesOK
  BY <1>1, FreshOK, LimiterConstantsOK DEF TriesOK, Never
<1>4. QuotaOK
  BY FreshOK, LimiterConstantsOK DEF QuotaOK
<1>5. now \in Time
  BY LimiterConstantsOK DEF Time
<1>6. RestOK
  BY <1>5 DEF RestOK, Idle
<1>7. FailuresBounded
  BY <1>2, FreshOK, LimiterConstantsOK DEF FailuresBounded
<1>8. QED
  BY <1>3, <1>4, <1>6, <1>7 DEF IInv

\* The rows of the other keys' failures: what a clean-up leaves is as good.
LEMMA SweptTries ==
  ASSUME TriesOK, NEW t PROVE
    /\ Swept(tries, t) \in TryRow /\ Swept(tries, t).fails <= tries.fails
    /\ Swept(tries, t).until = tries.until
    /\ Swept(tries, t).until = Never => Swept(tries, t).fails < MaxFailures
    /\ Swept(tries, t).since = Never => Swept(tries, t).fails = 0
<1>1. CASE Swept(tries, t) = tries
  BY <1>1 DEF TriesOK, TryRow
<1>2. CASE Swept(tries, t) = Fresh /\ tries.until = Never
  BY <1>2, FreshOK, LimiterConstantsOK DEF TriesOK, TryRow
<1>3. QED
  BY <1>1, <1>2, SweptIs

LEMMA SweptQuota ==
  ASSUME QuotaOK, NEW t
  PROVE  /\ Swept(quota, t) \in ChatRow
         /\ Swept(quota, t).until = Never => Swept(quota, t).fails <= ChatMax
<1>1. CASE Swept(quota, t) = quota
  BY <1>1 DEF QuotaOK
<1>2. CASE Swept(quota, t) = Fresh
  BY <1>2, FreshOK, LimiterConstantsOK
<1>3. QED
  BY <1>1, <1>2, SweptIs

LEMMA StepIInv == IInv /\ [Next]_vars => IInv'
<1> SUFFICES ASSUME IInv, [Next]_vars PROVE IInv'
  OBVIOUS
<1> USE DEF IInv
<1> DEFINE c == Cardinality(Checked)
           n == Cardinality(Req)
<1>0. /\ c \in Nat /\ n \in Nat /\ c <= n /\ tries.fails \in Nat /\ now \in Nat
      /\ tries.until \in Int /\ LockTime \in Nat \ {0} /\ MaxFailures \in Nat \ {0}
      /\ tries.fails + c <= MaxFailures - 1 + n
      /\ DOMAIN req = Req
  BY CheckedFinite, LimiterConstantsOK
  DEF TriesOK, TryRow, RestOK, Time, FailuresBounded, Never
<1>1. ASSUME NEW r \in Req, Check(r) PROVE IInv'
  <2> USE <1>1 DEF Check
  <2>1. Checked' = Checked \cup {r} /\ Cardinality(Checked)' = c + 1
    BY <1>0, OneMoreChecked
  <2>2. r \notin Checked
    BY DEF Checked, Idle
  <2>3. c + 1 <= n
    <3>1. Checked' \subseteq Req
      BY DEF Checked
    <3>2. Cardinality(Checked') <= n
      BY <3>1, LimiterConstantsOK, FS_Subset
    <3> QED BY <3>2, <2>1
  <2>4. /\ tries' \in TryRow /\ tries'.until = Never /\ tries'.fails < MaxFailures
        /\ tries'.since = Never => tries'.fails = 0
    BY FreshOK, LimiterConstantsOK DEF Unlocked, TriesOK
  <2>5. TriesOK'
    BY <2>4, <1>0 DEF TriesOK, Never
  <2>6. FailuresBounded'
    <3>1. tries'.fails \in Nat
      BY <2>4 DEF TryRow
    <3> QED BY <3>1, <2>1, <2>3, <2>4, <1>0 DEF FailuresBounded
  <2>7. QuotaOK' /\ RestOK'
    BY <1>0 DEF QuotaOK, RestOK, Checking, Time
  <2> QED BY <2>5, <2>6, <2>7
<1>2. ASSUME NEW r \in Req, WrongPassword(r) PROVE IInv'
  <2> USE <1>2 DEF WrongPassword
  <2>1. Checked' = Checked \ {r} /\ Cardinality(Checked)' = c - 1
    BY <1>0, OneLessChecked
  <2>2. tries' = Recorded(tries, now) /\ now \in Time /\ tries \in TryRow
    BY RecordedNotSwept DEF TriesOK, RestOK
  <2>3. /\ tries' \in TryRow /\ tries'.since # Never /\ tries'.fails <= tries.fails + 1
        /\ tries'.fails >= MaxFailures => tries'.until = now + LockTime
        /\ tries'.fails < MaxFailures => tries'.until = tries.until
    BY <2>2, RecordedType
  <2>4. /\ tries'.fails \in Nat /\ tries'.until \in Int
        /\ tries'.until = Never => tries'.fails < MaxFailures
    BY <2>3, <1>0 DEF TryRow, Never
  <2>5. tries'.until <= now + LockTime
    BY <2>3, <2>4, <1>0 DEF TriesOK
  <2>6. ASSUME NEW q \in Checked', tries'.until # Never
        PROVE  req'[q].at <= tries'.until - LockTime
    <3>1. q \in Checked /\ req'[q] = req[q] /\ req[q].at \in 0 .. now
      BY <2>1, <1>0 DEF RestOK, Checked
    <3>2. CASE tries'.fails >= MaxFailures
      BY <3>1, <3>2, <2>3, <1>0
    <3>3. CASE tries'.fails < MaxFailures
      BY <3>1, <3>3, <2>3, <2>6, <1>0 DEF TriesOK
    <3> QED BY <3>2, <3>3, <2>4, <1>0
  <2>7. TriesOK'
    BY <2>3, <2>4, <2>5, <2>6 DEF TriesOK
  <2>8. FailuresBounded'
    BY <2>1, <2>3, <2>4, <1>0 DEF FailuresBounded
  <2>9. QuotaOK'
    BY SweptQuota DEF QuotaOK
  <2>10. RestOK'
    BY <1>0 DEF RestOK, Idle
  <2> QED BY <2>7, <2>8, <2>9, <2>10
<1>3. ASSUME NEW r \in Req, RightPassword(r) PROVE IInv'
  <2> USE <1>3 DEF RightPassword
  <2>1. Checked' = Checked \ {r} /\ Cardinality(Checked)' = c - 1
    BY <1>0, OneLessChecked
  <2>2. TriesOK'
    BY <1>0, FreshOK DEF TriesOK, Never
  <2>3. FailuresBounded'
    BY <2>1, <1>0, FreshOK DEF FailuresBounded
  <2>4. QuotaOK' /\ RestOK'
    BY <1>0 DEF QuotaOK, RestOK, Idle
  <2> QED BY <2>2, <2>3, <2>4
<1>4. ASSUME NEW r \in Req, NoVerdict(r) PROVE IInv'
  <2> USE <1>4 DEF NoVerdict
  <2>1. Checked' = Checked \ {r} /\ Cardinality(Checked)' = c - 1
    BY <1>0, OneLessChecked
  <2>2. \A q \in Checked' : q \in Checked /\ req'[q] = req[q]
    BY <2>1, <1>0 DEF Checked
  <2>3. TriesOK'
    BY <2>2 DEF TriesOK
  <2>4. FailuresBounded'
    BY <2>1, <1>0 DEF FailuresBounded
  <2>5. QuotaOK' /\ RestOK'
    BY <1>0 DEF QuotaOK, RestOK, Idle
  <2> QED BY <2>3, <2>4, <2>5
<1>5. ASSUME OthersFail PROVE IInv'
  <2> USE <1>5 DEF OthersFail
  <2>1. Checked' = Checked /\ Cardinality(Checked)' = c
    BY DEF Checked
  <2>2. TriesOK'
    BY <2>1, SweptTries DEF TriesOK
  <2>3. FailuresBounded'
    <3>1. tries'.fails \in Nat /\ tries'.fails <= tries.fails
      BY SweptTries DEF TryRow
    <3> QED BY <3>1, <2>1, <1>0 DEF FailuresBounded
  <2>4. QuotaOK' /\ RestOK'
    BY SweptQuota DEF QuotaOK, RestOK
  <2> QED BY <2>2, <2>3, <2>4
<1>6. ASSUME NEW r \in Req, Ask(r) PROVE IInv'
  <2> USE <1>6 DEF Ask
  <2>1. Checked' = Checked
    <3>1. Asking(now).kind # "password" /\ req[r].kind # "password"
      BY DEF Idle, Asking
    <3> QED BY <3>1, <1>0, SameChecked
  <2>2. \A q \in Checked' : req'[q] = req[q]
    BY <1>0 DEF Checked, Asking
  <2>3. TriesOK' /\ FailuresBounded'
    BY <2>1, <2>2 DEF TriesOK, FailuresBounded
  <2>4. QuotaOK'
    BY DEF QuotaOK
  <2>5. now \in 0 .. now /\ Asking(now) \in [kind : {"idle", "password", "chat"},
                                             at : 0 .. now \cup {Never}]
    BY <1>0 DEF Asking
  <2>6. RestOK'
    BY <2>5, <1>0 DEF RestOK, Asking
  <2> QED BY <2>3, <2>4, <2>6
<1>7. ASSUME NEW r \in Req, Acquire(r) PROVE IInv'
  <2> USE <1>7 DEF Acquire
  <2>1. Checked' = Checked
    <3>1. Idle.kind # "password" /\ req[r].kind # "password"
      BY DEF Idle
    <3> QED BY <3>1, <1>0, SameChecked
  <2>2. \A q \in Checked' : req'[q] = req[q]
    BY <1>0 DEF Checked, Idle
  <2>3. TriesOK' /\ FailuresBounded'
    BY <2>1, <2>2 DEF TriesOK, FailuresBounded
  <2>4. req[r].at \in Time
    <3>1. req[r].at \in 0 .. now /\ now \in 0 .. MaxTime
      BY DEF RestOK, Time
    <3> QED BY <3>1, LimiterConstantsOK DEF Time
  <2>5. QuotaOK'
    BY <2>4, AcquiredType DEF QuotaOK
  <2>6. admitted' \in [0 .. MaxTime + 1 -> Nat]
    BY DEF RestOK
  <2>7. RestOK'
    BY <2>6, <1>0 DEF RestOK, Idle
  <2> QED BY <2>3, <2>5, <2>7
<1>8. ASSUME Tick PROVE IInv'
  <2> USE <1>8 DEF Tick
  <2>1. now' \in Time /\ now' = now + 1
    BY <1>0, LimiterConstantsOK DEF Time
  <2>2. Checked' = Checked
    BY DEF Checked
  <2>3. TriesOK' /\ FailuresBounded'
    BY <2>1, <2>2, <1>0 DEF TriesOK, FailuresBounded
  <2>4. QuotaOK' /\ RestOK'
    BY <2>1, <1>0 DEF QuotaOK, RestOK
  <2> QED BY <2>3, <2>4
<1>9. CASE UNCHANGED vars
  BY <1>9 DEF vars, TriesOK, QuotaOK, RestOK, FailuresBounded, Checked
<1>10. QED
  BY <1>1, <1>2, <1>3, <1>4, <1>5, <1>6, <1>7, <1>8, <1>9 DEF Next

LEMMA IInvType == IInv => TypeOK
<1> SUFFICES ASSUME IInv PROVE TypeOK
  OBVIOUS
<1> USE DEF IInv
<1>1. Cardinality(Checked) \in Nat /\ Cardinality(Req) \in Nat
  BY CheckedFinite
<1>2. tries.fails \in 0 .. MaxFailures - 1 + Cardinality(Req)
  BY <1>1, LimiterConstantsOK DEF FailuresBounded, TriesOK, TryRow
<1>3. tries \in RowType(MaxFailures - 1 + Cardinality(Req), LockTime)
  BY <1>2 DEF TriesOK, TryRow, RowType
<1>4. quota \in RowType(ChatMax + 1, ChatLock)
  BY DEF QuotaOK, ChatRow, RowType
<1>5. QED
  BY <1>3, <1>4 DEF TypeOK, RestOK

LEMMA Invariance == Spec => []IInv
BY InitIInv, StepIInv, PTL DEF Spec

\* Types hold in every reachable state; a chat row never counts further than
\* the request that locked it.
THEOREM TypeCorrect == Spec => []TypeOK
BY Invariance, IInvType, PTL

\* However checks, records, expiries and clean-ups interleave, the failures
\* counted exceed the limit by less than the number of parallel requests.
THEOREM GuessesBounded == Spec => []FailuresBounded
<1>1. IInv => FailuresBounded
  BY DEF IInv
<1>2. QED
  BY <1>1, Invariance, PTL

-----------------------------------------------------------------------------
(* What a step may do to a lock, and to the failures counted.              *)

LEMMA StepLock ==
  ASSUME IInv, [Next]_vars, Locked(tries, now)
  PROVE  \/ tries'.until >= tries.until
         \/ \E r \in Checked : RightPassword(r) /\ req[r].at <= tries.until - LockTime
<1> USE DEF IInv
<1>0. /\ tries.until \in Int /\ now \in Nat /\ tries.until > now /\ tries.until # Never
      /\ now \in Time /\ tries \in TryRow /\ LockTime \in Nat
  BY LimiterConstantsOK DEF TriesOK, TryRow, RestOK, Time, Never, Locked
<1>1. ASSUME NEW r \in Req, WrongPassword(r) PROVE tries'.until >= tries.until
  <2>1. tries' = Recorded(tries, now)
    BY <1>0, <1>1, RecordedNotSwept DEF WrongPassword
  <2>2. /\ tries'.fails >= MaxFailures => tries'.until = now + LockTime
        /\ tries'.fails < MaxFailures => tries'.until = tries.until
        /\ tries'.fails \in Nat
    BY <1>0, <2>1, RecordedType DEF TryRow
  <2> QED BY <2>2, <1>0, LimiterConstantsOK DEF TriesOK
<1>2. ASSUME NEW r \in Req, RightPassword(r)
      PROVE  \E q \in Checked : RightPassword(q) /\ req[q].at <= tries.until - LockTime
  BY <1>0, <1>2 DEF TriesOK, RightPassword
<1>3. ASSUME OthersFail PROVE tries'.until >= tries.until
  BY <1>0, <1>3, SweptTries DEF OthersFail
<1>4. ASSUME NEW r \in Req, Check(r) PROVE FALSE
  BY <1>4 DEF Check
<1>5. ASSUME \/ \E r \in Req : NoVerdict(r) \/ Ask(r) \/ Acquire(r)
             \/ Tick \/ UNCHANGED vars
      PROVE  tries' = tries
  BY <1>5 DEF NoVerdict, Ask, Acquire, Tick, vars
<1>6. QED
  BY <1>0, <1>1, <1>2, <1>3, <1>4, <1>5 DEF Next

\* A running lock is only prolonged, except by a right password in a request
\* that had passed the check before the lock was set.
THEOREM LocksHold == Spec => LockOpenedOnlyByEarlierCheck
<1>1. IInv /\ [Next]_vars =>
        [Locked(tries, now) =>
           \/ tries'.until >= tries.until
           \/ \E r \in Checked : /\ RightPassword(r)
                                 /\ req[r].at <= tries.until - LockTime]_vars
  BY StepLock
<1>2. QED
  BY <1>1, Invariance, PTL DEF Spec, LockOpenedOnlyByEarlierCheck

LEMMA StepForget ==
  ASSUME IInv, [Next]_vars, tries'.fails < tries.fails
  PROVE  \/ \E r \in Checked : RightPassword(r)
         \/ tries.until # Never /\ tries.until <= now
         \/ tries.since # Never /\ now - tries.since > Window
<1> USE DEF IInv
<1>0. /\ tries.fails \in Nat /\ now \in Nat /\ now \in Time /\ tries \in TryRow
      /\ tries.until \in Int /\ tries.since \in Int /\ Window \in Nat
      /\ tries.since = Never => tries.fails = 0
  BY LimiterConstantsOK DEF TriesOK, TryRow, RestOK, Time, Never
<1>1. ASSUME NEW r \in Req, Check(r) PROVE tries.until # Never /\ tries.until <= now
  BY <1>0, <1>1 DEF Check, Unlocked, Locked
<1>2. ASSUME NEW r \in Req, WrongPassword(r)
      PROVE  tries.since # Never /\ now - tries.since > Window
  <2>1. tries' = Recorded(tries, now)
    BY <1>0, <1>2, RecordedNotSwept DEF WrongPassword
  <2> QED BY <2>1, <1>0, RecordedType
<1>3. ASSUME NEW r \in Req, RightPassword(r) PROVE \E q \in Checked : RightPassword(q)
  BY <1>3 DEF RightPassword
<1>4. ASSUME OthersFail PROVE tries.since # Never /\ now - tries.since > Window
  <2>1. tries' # tries
    BY <1>0
  <2>2. tries'= Fresh /\ (tries.since = Never \/ tries.since < now - 2 * Window)
    BY <1>4, <2>1, SweptIs DEF OthersFail
  <2>3. tries.since # Never
    BY <1>0, <2>2, FreshOK
  <2> QED BY <2>2, <2>3, <1>0
<1>5. ASSUME \/ \E r \in Req : NoVerdict(r) \/ Ask(r) \/ Acquire(r)
             \/ Tick \/ UNCHANGED vars
      PROVE  tries' = tries
  BY <1>5 DEF NoVerdict, Ask, Acquire, Tick, vars
<1>6. QED
  BY <1>0, <1>1, <1>2, <1>3, <1>4, <1>5 DEF Next

\* A failure is forgotten only after a right password, after its lock, or when
\* its counting period is over; deleting old rows gives nobody new guesses.
THEOREM FailuresKept == Spec => FailuresForgottenOnlyInTime
<1>1. IInv /\ [Next]_vars =>
        [tries'.fails < tries.fails =>
           \/ \E r \in Checked : RightPassword(r)
           \/ tries.until # Never /\ tries.until <= now
           \/ tries.since # Never /\ now - tries.since > Window]_vars
  BY StepForget
<1>2. QED
  BY <1>1, Invariance, PTL DEF Spec, FailuresForgottenOnlyInTime

-----------------------------------------------------------------------------
(* The chat requests let through in a stretch of time.                     *)
(*                                                                         *)
(* A stretch that begins at t and has not ended is followed while it lasts *)
(* (Lasting).  So long as only requests that had read the clock before t   *)
(* have got through, there are at most as many as there are requests       *)
(* (NoneYet).  The first one that read it later was counted in a window    *)
(* that reaches t (OneWindow), so that a window opened after it begins     *)
(* after t (TwoWindows), and neither that window nor a lock set meanwhile  *)
(* ends within the stretch.                                                *)

\* Chat requests that read the clock before t and still wait.
Late(t) == {r \in Req : req[r].kind = "chat" /\ req[r].at < t}

\* Requests let through since the instant t, or still able to be late for it.
Through(t) == admitted[now + 1] - admitted[t] + Cardinality(Late(t))

\* Requests let through in the window the row counts.
Counted == IF quota.fails <= ChatMax THEN quota.fails ELSE ChatMax

Lasting(t) == t <= now /\ now - t <= ChatWindow /\ now - t < ChatLock - MaxWait

\* A running lock outlasts the stretch.
LockOutlasts(t) == quota.until # Never => quota.until >= t + ChatLock - MaxWait

NoneYet(t) == Through(t) <= Cardinality(Req)

OneWindow(t) ==
  /\ Through(t) <= Cardinality(Req) + Counted
  /\ LockOutlasts(t)
  /\ quota.until = Never => quota.since # Never /\ quota.since + ChatWindow >= t

TwoWindows(t) ==
  /\ Through(t) <= Cardinality(Req) + ChatMax + Counted
  /\ LockOutlasts(t)
  /\ quota.until = Never => IF quota.since = Never THEN t + MaxWait <= now ELSE quota.since >= t

WaitsBounded == \A r \in Req : req[r].kind = "chat" => now - req[r].at <= MaxWait

\* Nobody was let through in an instant to come, and a row that has no window
\* counts nothing.
HistoryOK ==
  /\ \A t \in 0 .. MaxTime + 1 : t > now => admitted[t] = admitted[now + 1]
  /\ quota.since = Never => quota.fails = 0

StretchOK == \A t \in Time : Lasting(t) => NoneYet(t) \/ OneWindow(t) \/ TwoWindows(t)

\* A stretch the bound speaks of, from t to u.
Short(t, u) == t <= u /\ u - t <= ChatWindow /\ u - t < ChatLock - MaxWait

\* The bound, for the stretches that have ended.
PastOK ==
  \A t, u \in Time :
    u < now /\ Short(t, u) => admitted[u + 1] - admitted[t] <= 2 * ChatMax + Cardinality(Req)

BInv == WaitsBounded /\ HistoryOK /\ StretchOK /\ PastOK

LEMMA LateFinite ==
  ASSUME NEW t
  PROVE  /\ IsFiniteSet(Late(t)) /\ Cardinality(Late(t)) \in Nat
         /\ Cardinality(Req) \in Nat /\ Cardinality(Late(t)) <= Cardinality(Req)
<1>1. Late(t) \subseteq Req /\ IsFiniteSet(Req)
  BY LimiterConstantsOK DEF Late
<1>2. IsFiniteSet(Late(t))
  BY <1>1, FS_Subset
<1>3. QED
  BY <1>1, <1>2, FS_CardinalityType, FS_Subset

\* What a chat request does to the row: it is counted in the open window, and
\* locks it when it is one too many, or it opens a window of its own.
LEMMA AcquiredIs ==
  ASSUME NEW row \in ChatRow, NEW t \in Time
  PROVE  \/ /\ row.until = Never /\ row.since # Never /\ t - row.since <= ChatWindow
            /\ Acquired(row, t).since = row.since
            /\ Acquired(row, t).fails = row.fails + 1
            /\ Acquired(row, t).until = IF row.fails + 1 > ChatMax THEN t + ChatLock ELSE Never
         \/ /\ row.until = Never => row.since = Never \/ t - row.since > ChatWindow
            /\ Acquired(row, t).since = t
            /\ Acquired(row, t).fails = 1
            /\ Acquired(row, t).until = Never
<1>1. CASE row.until # Never
  BY <1>1, LimiterConstantsOK DEF Acquired, Fresh, Never
<1>2. CASE row.until = Never /\ (row.since = Never \/ ~(t - row.since <= ChatWindow))
  <2>1. row.since \in Int /\ t \in Int /\ ChatWindow \in Int
    BY LimiterConstantsOK DEF ChatRow, Time, Never
  <2>2. Acquired(row, t) = [fails |-> 1, since |-> t, until |-> IF 1 > ChatMax THEN t + ChatLock ELSE Never]
    BY <1>2 DEF Acquired
  <2>3. QED
    BY <1>2, <2>1, <2>2, LimiterConstantsOK
<1>3. CASE row.until = Never /\ row.since # Never /\ t - row.since <= ChatWindow
  BY <1>3 DEF Acquired
<1>4. QED
  BY <1>1, <1>2, <1>3

\* The kinds and widths of the numbers below.
LEMMA Numbers ==
  ASSUME IInv
  PROVE  /\ now \in Nat /\ now \in 0 .. MaxTime
         /\ quota.fails \in Nat /\ quota.fails <= ChatMax + 1
         /\ quota.since \in Int /\ quota.until \in Int
         /\ quota.until = Never => quota.fails <= ChatMax
         /\ quota.since # Never => quota.since \in Nat
         /\ \A t \in 0 .. MaxTime + 1 : admitted[t] \in Nat
         /\ ChatMax \in Nat \ {0} /\ ChatWindow \in Nat /\ ChatLock \in Nat \ {0}
         /\ MaxWait \in Nat /\ MaxTime \in Nat /\ Window \in Nat
         /\ \A t \in Time : t \in Nat /\ t <= MaxTime /\ Through(t) \in Int
         /\ Counted \in Nat /\ Counted <= ChatMax /\ Cardinality(Req) \in Nat
<1> USE LimiterConstantsOK DEF IInv
<1>1. now \in 0 .. MaxTime
  BY DEF RestOK, Time
<1>2. /\ quota.fails \in 0 .. ChatMax + 1 /\ quota.since \in Time \cup {Never}
      /\ quota.until \in Never .. MaxTime + ChatLock
  BY DEF QuotaOK, ChatRow
<1>3. \A t \in 0 .. MaxTime + 1 : admitted[t] \in Nat
  BY DEF RestOK
<1>4. ASSUME NEW t \in Time PROVE Through(t) \in Int
  <2>1. Cardinality(Late(t)) \in Nat
    BY LateFinite
  <2>2. admitted[now + 1] \in Nat /\ admitted[t] \in Nat
    BY <1>1, <1>3 DEF Time
  <2>3. QED
    BY <2>1, <2>2 DEF Through
<1>5. Cardinality(Req) \in Nat
  BY CheckedFinite
<1>6. quota.until = Never => quota.fails <= ChatMax
  BY DEF QuotaOK
<1>7. Counted \in Nat /\ Counted <= ChatMax
  BY <1>2 DEF Counted
<1>8. QED
  BY <1>1, <1>2, <1>3, <1>4, <1>5, <1>6, <1>7 DEF Time, Never

\* A chat request that gets the lock is one less that can be late, and at most
\* one more let through.
LEMMA AcquireThrough ==
  ASSUME IInv, NEW r \in Req, Acquire(r), NEW t \in Time, t <= now
  PROVE  Through(t)' = Through(t) + (IF quota'.until = Never THEN 1 ELSE 0)
                                  - (IF req[r].at < t THEN 1 ELSE 0)
<1> DEFINE l == Cardinality(Late(t))
<1>1. DOMAIN req = Req /\ req[r].kind = "chat" /\ req' = [req EXCEPT ![r] = Idle] /\ now' = now
  BY DEF IInv, RestOK, Acquire
<1>2. Cardinality(Late(t)') = IF req[r].at < t THEN l - 1 ELSE l
  <2>1. CASE req[r].at < t
    <3>1. Late(t)' = Late(t) \ {r} /\ r \in Late(t)
      BY <1>1, <2>1 DEF Late, Idle
    <3>2. QED
      BY <2>1, <3>1, LateFinite, FS_RemoveElement
  <2>2. CASE ~(req[r].at < t)
    <3>1. Late(t)' = Late(t)
      BY <1>1, <2>2 DEF Late, Idle
    <3>2. QED
      BY <2>2, <3>1
  <2>3. QED
    BY <2>1, <2>2
<1>3. now + 1 \in 0 .. MaxTime + 1 /\ t \in 0 .. MaxTime + 1 /\ now \in Nat /\ t \in Nat
  BY Numbers
<1>4. /\ admitted'[now + 1] = admitted[now + 1] + (IF quota'.until = Never THEN 1 ELSE 0)
      /\ admitted'[t] = admitted[t]
  <2>1. DOMAIN admitted = 0 .. MaxTime + 1 /\ \A u \in 0 .. MaxTime + 1 : admitted[u] \in Nat
    BY DEF IInv, RestOK
  <2>2. CASE quota'.until = Never
    BY <1>3, <2>1, <2>2 DEF Acquire
  <2>3. CASE quota'.until # Never
    BY <1>3, <2>1, <2>3 DEF Acquire
  <2>4. QED
    BY <2>2, <2>3
<1>5. admitted[now + 1] \in Nat /\ admitted[t] \in Nat /\ l \in Nat
  BY <1>3, Numbers, LateFinite
<1>6. Through(t)' = admitted'[now + 1] - admitted'[t] + Cardinality(Late(t)')
  BY <1>1 DEF Through
<1>7. QED
  BY <1>2, <1>4, <1>5, <1>6 DEF Through

LEMMA AcquireStretch ==
  ASSUME IInv, BInv, NEW r \in Req, Acquire(r), NEW t \in Time, Lasting(t)
  PROVE  NoneYet(t)' \/ OneWindow(t)' \/ TwoWindows(t)'
<1> DEFINE a == req[r].at
           g == Through(t)
           n == Cardinality(Req)
<1>1. a \in Time /\ a \in Nat /\ a <= now /\ now - a <= MaxWait
  <2>1. a \in 0 .. now /\ now \in 0 .. MaxTime
    BY DEF IInv, RestOK, Time, Acquire
  <2>2. now - a <= MaxWait
    BY DEF BInv, WaitsBounded, Acquire
  <2>3. QED
    BY <2>1, <2>2, Numbers DEF Time
<1>2. /\ t \in Nat /\ t <= now /\ now - t <= ChatWindow /\ now - t < ChatLock - MaxWait
      /\ now' = now
  BY Numbers DEF Lasting, Acquire
<1>3. g' = g + (IF quota'.until = Never THEN 1 ELSE 0) - (IF a < t THEN 1 ELSE 0)
  BY <1>2, AcquireThrough
<1>4. NoneYet(t) \/ OneWindow(t) \/ TwoWindows(t)
  BY DEF BInv, StretchOK
<1>5. /\ g \in Int /\ n \in Nat /\ Counted \in Nat /\ Counted <= ChatMax
      /\ quota.fails \in Nat /\ quota.since \in Int /\ quota.until \in Int
      /\ quota.until = Never => Counted = quota.fails /\ quota.fails <= ChatMax
      /\ ChatMax \in Nat \ {0} /\ ChatWindow \in Nat /\ ChatLock \in Nat /\ MaxWait \in Nat
      /\ now \in Nat
  BY Numbers DEF Counted
<1> HIDE DEF g, a, n
<1>6. CASE Locked(quota, a)
  <2>1. quota' = quota
    BY <1>6 DEF Acquire, a
  <2>2. quota.until # Never
    BY <1>1, <1>5, <1>6 DEF Locked, Never
  <2>3. g' <= g /\ n' = n /\ Counted' = Counted /\ ChatMax' = ChatMax
    BY <1>3, <1>5, <2>1, <2>2 DEF Counted, n
  <2>4. NoneYet(t) => NoneYet(t)'
    BY <2>3, <1>3, <1>5, <2>1, <2>2 DEF NoneYet, g, n
  <2>5. OneWindow(t) => OneWindow(t)'
    BY <2>3, <1>3, <1>5, <2>1, <2>2 DEF OneWindow, LockOutlasts, g, n
  <2>6. TwoWindows(t) => TwoWindows(t)'
    BY <2>3, <1>3, <1>5, <2>1, <2>2 DEF TwoWindows, LockOutlasts, g, n
  <2>7. QED
    BY <1>4, <2>4, <2>5, <2>6
<1>7. ASSUME ~Locked(quota, a) PROVE NoneYet(t)' \/ OneWindow(t)' \/ TwoWindows(t)'
  <2>1. quota' = Acquired(quota, a) /\ quota \in ChatRow /\ quota.until <= a
    BY <1>1, <1>5, <1>7 DEF Acquire, IInv, QuotaOK, Locked, a
  <2>2. CASE /\ quota.until = Never /\ quota.since # Never /\ a - quota.since <= ChatWindow
             /\ quota'.since = quota.since
             /\ quota'.fails = quota.fails + 1
             /\ quota'.until = IF quota.fails + 1 > ChatMax THEN a + ChatLock ELSE Never
    <3>1. CASE quota.fails + 1 <= ChatMax
      <4>1. /\ quota'.until = Never /\ quota'.since # Never /\ Counted' = Counted + 1
            /\ g' = g + 1 - (IF a < t THEN 1 ELSE 0)
        BY <2>2, <3>1, <1>3, <1>5 DEF Counted
      <4>2. NoneYet(t) => NoneYet(t)' \/ OneWindow(t)'
        <5>1. CASE a < t
          BY <5>1, <4>1, <1>5 DEF NoneYet, g, n
        <5>2. CASE a >= t
          BY <5>2, <4>1, <2>2, <1>1, <1>2, <1>5 DEF NoneYet, OneWindow, LockOutlasts, g, n
        <5>3. QED
          BY <5>1, <5>2, <1>1, <1>2
      <4>3. OneWindow(t) => OneWindow(t)'
        BY <4>1, <2>2, <1>5 DEF OneWindow, LockOutlasts, g, n
      <4>4. TwoWindows(t) => TwoWindows(t)'
        BY <4>1, <2>2, <1>5 DEF TwoWindows, LockOutlasts, g, n
      <4>5. QED
        BY <1>4, <4>2, <4>3, <4>4
    <3>2. CASE quota.fails + 1 > ChatMax
      <4>1. /\ quota'.until = a + ChatLock /\ quota'.until # Never /\ Counted' = Counted
            /\ g' <= g
        BY <2>2, <3>2, <1>1, <1>3, <1>5 DEF Counted, Never
      <4>2. quota'.until >= t + ChatLock - MaxWait
        BY <4>1, <1>1, <1>2, <1>5
      <4>3. NoneYet(t) => NoneYet(t)'
        BY <4>1, <1>3, <1>5 DEF NoneYet, g, n
      <4>4. OneWindow(t) => OneWindow(t)'
        BY <4>1, <4>2, <1>3, <1>5 DEF OneWindow, LockOutlasts, g, n
      <4>5. TwoWindows(t) => TwoWindows(t)'
        BY <4>1, <4>2, <1>3, <1>5 DEF TwoWindows, LockOutlasts, g, n
      <4>6. QED
        BY <1>4, <4>3, <4>4, <4>5
    <3>3. QED
      BY <3>1, <3>2, <1>5
  <2>3. CASE /\ quota.until = Never => quota.since = Never \/ a - quota.since > ChatWindow
             /\ quota'.since = a /\ quota'.fails = 1 /\ quota'.until = Never
    <3>1. /\ Counted' = 1 /\ g' = g + 1 - (IF a < t THEN 1 ELSE 0) /\ a # Never
      BY <2>3, <1>1, <1>3, <1>5 DEF Counted, Never
    <3>2. CASE NoneYet(t)
      <4>1. CASE a < t
        BY <4>1, <3>1, <3>2, <1>5 DEF NoneYet, g, n
      <4>2. CASE a >= t
        BY <4>2, <3>1, <3>2, <2>3, <1>1, <1>2, <1>5 DEF NoneYet, OneWindow, LockOutlasts, g, n
      <4>3. QED
        BY <4>1, <4>2, <1>1, <1>2
    <3>3. CASE OneWindow(t)
      <4>1. quota.until = Never
        BY <3>3, <2>1, <1>1, <1>2, <1>5 DEF OneWindow, LockOutlasts
      <4>2. a > t
        BY <4>1, <3>3, <2>3, <1>1, <1>2, <1>5 DEF OneWindow
      <4>3. TwoWindows(t)'
        BY <4>2, <3>1, <3>3, <2>3, <1>1, <1>2, <1>5 DEF OneWindow, TwoWindows, LockOutlasts, g, n
      <4>4. QED
        BY <4>3
    <3>4. CASE TwoWindows(t)
      <4>1. quota.until = Never
        BY <3>4, <2>1, <1>1, <1>2, <1>5 DEF TwoWindows, LockOutlasts
      <4>2. quota.since = Never
        BY <4>1, <3>4, <2>3, <1>1, <1>2, <1>5 DEF TwoWindows
      <4>3. Counted = 0 /\ a >= t
        BY <4>1, <4>2, <3>4, <1>1, <1>2, <1>5 DEF TwoWindows, BInv, HistoryOK
      <4>4. TwoWindows(t)'
        BY <4>3, <3>1, <3>4, <2>3, <1>1, <1>2, <1>5 DEF TwoWindows, LockOutlasts, g, n
      <4>5. QED
        BY <4>4
    <3>5. QED
      BY <1>4, <3>2, <3>3, <3>4
  <2>4. QED
    BY <2>1, <2>2, <2>3, <1>1, AcquiredIs
<1>8. QED
  BY <1>6, <1>7

\* What every other step does to the row, the history and who is waiting.
LEMMA OthersKeep ==
  ASSUME IInv, [Next]_vars, ~ \E r \in Req : Acquire(r), ~Tick
  PROVE  /\ now' = now /\ admitted' = admitted
         /\ quota' = quota \/ quota' = Swept(quota, now)
         /\ \A r \in Req : req'[r].kind = "chat" =>
              req'[r].at = now \/ (req[r].kind = "chat" /\ req'[r] = req[r])
         /\ \A r \in Req : req[r].kind = "chat" => req'[r] = req[r]
<1>0. DOMAIN req = Req
  BY DEF IInv, RestOK
<1>1. ASSUME NEW q \in Req, Check(q) \/ WrongPassword(q) \/ RightPassword(q) \/ NoVerdict(q) \/ Ask(q)
      PROVE  /\ req[q].kind # "chat"
             /\ \E v : /\ req' = [req EXCEPT ![q] = v]
                       /\ v.kind = "chat" => v.at = now
  BY <1>1 DEF Check, WrongPassword, RightPassword, NoVerdict, Ask, Checked, Checking, Asking, Idle
<1>2. ASSUME NEW q \in Req, Check(q) \/ WrongPassword(q) \/ RightPassword(q) \/ NoVerdict(q) \/ Ask(q)
      PROVE  now' = now /\ admitted' = admitted /\ (quota' = quota \/ quota' = Swept(quota, now))
  BY <1>2 DEF Check, WrongPassword, RightPassword, NoVerdict, Ask
<1>3. ASSUME OthersFail \/ UNCHANGED vars
      PROVE  /\ now' = now /\ admitted' = admitted /\ req' = req
             /\ quota' = quota \/ quota' = Swept(quota, now)
  BY <1>3 DEF OthersFail, vars
<1>4. QED
  BY <1>0, <1>1, <1>2, <1>3 DEF Next

\* A clean-up takes no row of a window that a stretch in progress may reach.
LEMMA OtherStretch ==
  ASSUME IInv, BInv, [Next]_vars, ~ \E r \in Req : Acquire(r), ~Tick,
         NEW t \in Time, Lasting(t)
  PROVE  NoneYet(t)' \/ OneWindow(t)' \/ TwoWindows(t)'
<1> DEFINE g == Through(t)
           n == Cardinality(Req)
<1>1. Late(t)' = Late(t) /\ now' = now /\ admitted' = admitted
  <2>1. now \in Nat /\ t \in Nat /\ t <= now
    BY Numbers DEF Lasting
  <2>2. QED
    BY <2>1, OthersKeep DEF Late
<1>2. g' = g
  BY <1>1 DEF Through
<1>3. NoneYet(t) \/ OneWindow(t) \/ TwoWindows(t)
  BY DEF BInv, StretchOK
<1>4. /\ g \in Int /\ n \in Nat /\ Counted \in Nat /\ Counted <= ChatMax
      /\ quota.fails \in Nat /\ quota.since \in Int /\ quota.until \in Int
      /\ ChatMax \in Nat \ {0} /\ ChatWindow \in Nat /\ Window \in Nat /\ MaxWait \in Nat
      /\ now \in Nat /\ t \in Nat /\ t <= now /\ now - t <= ChatWindow
      /\ ChatWindow + MaxWait <= 2 * Window
  BY Numbers, CleanupIsLate DEF Lasting
<1> HIDE DEF g, n
<1>5. CASE quota' = quota
  <2>1. Counted' = Counted /\ n' = n
    BY <1>5 DEF Counted, n
  <2>2. QED
    BY <2>1, <1>1, <1>2, <1>3, <1>5 DEF NoneYet, OneWindow, TwoWindows, LockOutlasts, g
<1>6. CASE quota' = Fresh /\ quota.until = Never /\ (quota.since = Never \/ quota.since < now - 2 * Window)
  <2>1. quota'.until = Never /\ quota'.since = Never /\ quota'.fails = 0 /\ Counted' = 0
    BY <1>4, <1>6, FreshOK DEF Counted
  <2>2. NoneYet(t) => NoneYet(t)'
    BY <1>2 DEF NoneYet, g
  <2>3. OneWindow(t) => TwoWindows(t)'
    <3>1. ASSUME OneWindow(t) PROVE t + MaxWait <= now
      BY <3>1, <1>4, <1>6 DEF OneWindow
    <3>2. QED
      BY <3>1, <2>1, <1>1, <1>2, <1>4 DEF OneWindow, TwoWindows, LockOutlasts, g, n
  <2>4. TwoWindows(t) => TwoWindows(t)'
    <3>1. ASSUME TwoWindows(t) PROVE quota.since = Never /\ Counted = 0 /\ t + MaxWait <= now
      <4>1. quota.since = Never
        BY <3>1, <1>4, <1>6 DEF TwoWindows
      <4>2. QED
        BY <4>1, <3>1, <1>4, <1>6 DEF TwoWindows, BInv, HistoryOK, Counted
    <3>2. QED
      BY <3>1, <2>1, <1>1, <1>2, <1>4 DEF TwoWindows, LockOutlasts, g, n
  <2>5. QED
    BY <1>3, <2>2, <2>3, <2>4
<1>7. QED
  BY <1>5, <1>6, OthersKeep, SweptIs

\* A tick begins a stretch, for which nobody has got through; the others last
\* no longer than they did.
LEMMA TickStretch ==
  ASSUME IInv, BInv, Tick, NEW t \in Time, Lasting(t)'
  PROVE  NoneYet(t)' \/ OneWindow(t)' \/ TwoWindows(t)'
<1> DEFINE g == Through(t)
           n == Cardinality(Req)
<1>1. /\ now' = now + 1 /\ now < MaxTime
      /\ quota' = quota /\ admitted' = admitted /\ req' = req
  BY DEF Tick
<1>2. /\ now \in Nat /\ t \in Nat /\ MaxTime \in Nat /\ g \in Int /\ n \in Nat
      /\ ChatWindow \in Nat /\ ChatLock \in Nat /\ MaxWait \in Nat
      /\ t <= now + 1 /\ now + 1 - t <= ChatWindow /\ now + 1 - t < ChatLock - MaxWait
  BY <1>1, Numbers DEF Lasting
<1>3. admitted[now + 2] = admitted[now + 1]
  BY <1>1, <1>2 DEF BInv, HistoryOK
<1>4. Late(t)' = Late(t)
  BY <1>1 DEF Late
<1>5. CASE t <= now
  <2>1. Lasting(t)
    BY <1>2, <1>5 DEF Lasting
  <2>2. g' = g /\ Counted' = Counted
    BY <1>1, <1>2, <1>3, <1>4 DEF Through, Counted
  <2>3. NoneYet(t) \/ OneWindow(t) \/ TwoWindows(t)
    BY <2>1 DEF BInv, StretchOK
  <2> HIDE DEF g
  <2>4. QED
    BY <2>2, <2>3, <1>1, <1>2 DEF NoneYet, OneWindow, TwoWindows, LockOutlasts, g
<1>6. CASE t = now + 1
  <2>1. admitted'[now' + 1] - admitted'[t] = 0
    BY <1>1, <1>2, <1>3, <1>6, Numbers
  <2>2. Through(t)' = Cardinality(Late(t))
    BY <2>1, <1>4, LateFinite DEF Through
  <2>3. QED
    BY <2>2, LateFinite DEF NoneYet
<1>7. QED
  BY <1>2, <1>5, <1>6

\* What has got through since t, up to now.
LEMMA BoundNow ==
  ASSUME IInv, BInv, NEW t \in Time, Lasting(t)
  PROVE  admitted[now + 1] - admitted[t] <= 2 * ChatMax + Cardinality(Req)
<1>1. Through(t) <= 2 * ChatMax + Cardinality(Req)
  <2>1. NoneYet(t) \/ OneWindow(t) \/ TwoWindows(t)
    BY DEF BInv, StretchOK
  <2>2. QED
    BY <2>1, Numbers DEF NoneYet, OneWindow, TwoWindows
<1>2. Cardinality(Late(t)) \in Nat
  BY LateFinite
<1>3. admitted[now + 1] \in Nat /\ admitted[t] \in Nat
  <2>1. now + 1 \in 0 .. MaxTime + 1 /\ t \in 0 .. MaxTime + 1
    BY Numbers DEF Time
  <2>2. QED
    BY <2>1, Numbers
<1>4. QED
  BY <1>1, <1>2, <1>3, Numbers DEF Through

LEMMA StepBInv == IInv /\ BInv /\ [Next]_vars => BInv'
<1> SUFFICES ASSUME IInv, BInv, [Next]_vars PROVE BInv'
  OBVIOUS
<1>0. /\ now \in Nat /\ MaxTime \in Nat /\ MaxWait \in Nat /\ now <= MaxTime
      /\ DOMAIN req = Req
      /\ \A r \in Req : req[r].kind = "chat" => req[r].at \in Nat /\ now - req[r].at <= MaxWait
      /\ \A t \in Time : t \in Nat
  BY Numbers DEF IInv, RestOK, BInv, WaitsBounded
<1>1. ASSUME NEW r \in Req, Acquire(r) PROVE BInv'
  <2>1. now' = now /\ req' = [req EXCEPT ![r] = Idle]
    BY <1>1 DEF Acquire
  <2>2. WaitsBounded'
    BY <2>1, <1>0 DEF WaitsBounded, Idle
  <2>3. req[r].at \in Time /\ req[r].at # Never
    BY <1>0, <1>1 DEF IInv, RestOK, Acquire, Time, Never
  <2>4. /\ DOMAIN admitted = 0 .. MaxTime + 1
        /\ \A t \in 0 .. MaxTime + 1 : t <= now => admitted'[t] = admitted[t]
        /\ \A t \in 0 .. MaxTime + 1 : t > now => admitted'[t] = admitted'[now + 1]
    <3>1. DOMAIN admitted = 0 .. MaxTime + 1 /\ now + 1 \in 0 .. MaxTime + 1
      BY <1>0 DEF IInv, RestOK
    <3>2. \A t \in 0 .. MaxTime + 1 : t > now => admitted[t] = admitted[now + 1]
      BY DEF BInv, HistoryOK
    <3>3. QED
      BY <3>1, <3>2, <1>0, <1>1 DEF Acquire
  <2>5. quota'.since = Never => quota'.fails = 0
    <3>1. CASE quota' = quota
      BY <3>1 DEF BInv, HistoryOK
    <3>2. CASE quota' = Acquired(quota, req[r].at)
      BY <3>2, <2>3, AcquiredIs DEF IInv, QuotaOK
    <3>3. QED
      BY <3>1, <3>2, <1>1 DEF Acquire
  <2>6. HistoryOK'
    BY <2>1, <2>4, <2>5 DEF HistoryOK
  <2>7. StretchOK'
    BY <1>1, <2>1, AcquireStretch DEF StretchOK, Lasting
  <2>8. PastOK'
    BY <2>1, <2>4, <1>0 DEF PastOK, BInv, Short, Time
  <2>9. QED
    BY <2>2, <2>6, <2>7, <2>8 DEF BInv
<1>2. ASSUME Tick PROVE BInv'
  <2>1. /\ now' = now + 1 /\ now < MaxTime /\ quota' = quota /\ admitted' = admitted /\ req' = req
        /\ \A r \in Req : req[r].kind = "chat" => now - req[r].at < MaxWait
    BY <1>2 DEF Tick
  <2>2. WaitsBounded'
    BY <2>1, <1>0 DEF WaitsBounded
  <2>3. HistoryOK'
    BY <2>1, <1>0 DEF HistoryOK, BInv
  <2>4. StretchOK'
    BY <1>2, TickStretch DEF StretchOK
  <2>5. PastOK'
    <3>1. ASSUME NEW t \in Time, NEW u \in Time, u < now', Short(t, u)
          PROVE  admitted[u + 1] - admitted[t] <= 2 * ChatMax + Cardinality(Req)
      <4>1. CASE u < now
        BY <3>1, <4>1 DEF PastOK, BInv
      <4>2. CASE u = now
        BY <3>1, <4>2, BoundNow DEF Short, Lasting
      <4>3. QED
        BY <3>1, <4>1, <4>2, <2>1, <1>0
    <3>2. QED
      BY <3>1, <2>1 DEF PastOK, Short
  <2>6. QED
    BY <2>2, <2>3, <2>4, <2>5 DEF BInv
<1>3. ASSUME ~ \E r \in Req : Acquire(r), ~Tick PROVE BInv'
  <2>1. now' = now /\ admitted' = admitted
    BY <1>3, OthersKeep
  <2>2. WaitsBounded'
    BY <1>0, <1>3, <2>1, OthersKeep DEF WaitsBounded
  <2>3. HistoryOK'
    <3>1. quota'.since = Never => quota'.fails = 0
      BY <1>3, OthersKeep, SweptIs, FreshOK DEF BInv, HistoryOK
    <3>2. QED
      BY <2>1, <3>1 DEF HistoryOK, BInv
  <2>4. StretchOK'
    BY <1>3, <2>1, OtherStretch DEF StretchOK, Lasting
  <2>5. PastOK'
    BY <2>1 DEF PastOK, Short, BInv
  <2>6. QED
    BY <2>2, <2>3, <2>4, <2>5 DEF BInv
<1>4. QED
  BY <1>1, <1>2, <1>3

LEMMA InitBInv == Init => BInv
<1> SUFFICES ASSUME Init PROVE BInv
  OBVIOUS
<1>0. IInv
  BY InitIInv
<1>1. now = 0 /\ quota = Fresh /\ req = [r \in Req |-> Idle] /\ admitted = [t \in 0 .. MaxTime + 1 |-> 0]
  BY DEF Init
<1>2. WaitsBounded
  BY <1>1 DEF WaitsBounded, Idle
<1>3. HistoryOK
  BY <1>0, <1>1, Numbers, FreshOK DEF HistoryOK
<1>4. StretchOK
  <2>1. ASSUME NEW t \in Time, Lasting(t) PROVE NoneYet(t)
    <3>1. Late(t) = {}
      BY <1>1 DEF Late, Idle
    <3>2. Through(t) = 0
      BY <3>1, <1>0, <1>1, Numbers, FS_EmptySet DEF Through, Time
    <3>3. QED
      BY <3>2, <1>0, Numbers DEF NoneYet
  <2>2. QED
    BY <2>1 DEF StretchOK
<1>5. PastOK
  BY <1>0, <1>1, Numbers DEF PastOK
<1>6. QED
  BY <1>2, <1>3, <1>4, <1>5 DEF BInv

LEMMA BInvBurst == IInv /\ BInv => BurstBounded
<1> SUFFICES ASSUME IInv, BInv, NEW t \in Time, NEW u \in Time, Short(t, u)
             PROVE  admitted[u + 1] - admitted[t] <= 2 * ChatMax + Cardinality(Req)
  BY DEF BurstBounded, Short
<1>1. t \in Nat /\ u \in Nat /\ now \in Nat /\ t <= u /\ t <= MaxTime /\ u <= MaxTime
  BY Numbers DEF Short
<1>2. CASE u < now
  BY <1>2 DEF BInv, PastOK
<1>3. CASE u >= now /\ t <= now
  <2>1. Lasting(t)
    BY <1>1, <1>3, Numbers DEF Short, Lasting
  <2>2. admitted[u + 1] = admitted[now + 1]
    BY <1>1, <1>3, Numbers DEF BInv, HistoryOK
  <2>3. QED
    BY <2>1, <2>2, BoundNow
<1>4. CASE t > now
  <2>1. admitted[u + 1] = admitted[now + 1] /\ admitted[t] = admitted[now + 1]
    BY <1>1, <1>4, Numbers DEF BInv, HistoryOK
  <2>2. admitted[now + 1] \in Nat
    BY <1>1, <1>4, Numbers
  <2>3. QED
    BY <2>1, <2>2, Numbers
<1>5. QED
  BY <1>1, <1>2, <1>3, <1>4

\* However chat requests overtake each other between the clock and the lock, a
\* stretch no longer than a window, and shorter than the lock less the longest
\* wait for it, lets through at most twice the limit and one more for each request
\* that can be in flight.  With the lock as long as the window, as in the code, the
\* stretch is shorter than the window by that wait.
THEOREM BurstsBounded == Spec => []BurstBounded
<1>1. Spec => []BInv
  BY InitBInv, StepBInv, Invariance, PTL DEF Spec
<1>2. QED
  BY <1>1, Invariance, BInvBurst, PTL
=============================================================================
