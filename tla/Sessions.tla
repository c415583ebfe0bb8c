------------------------------ MODULE Sessions ------------------------------
(***************************************************************************)
(* The browser sessions and device tokens of one account (api/auth.py, and *)
(* the token and user operations of api/admin.py).  A session is a row of  *)
(* access_tokens.  A browser holds two signed cookies: the access token    *)
(* names the row and ends early, the refresh token is matched with the row *)
(* by its hash and lasts as long as the row.  Both carry the password      *)
(* version they were signed under.  Browsers with the same user agent look *)
(* like one device to a login, which gives them one row.                   *)
(*                                                                         *)
(* A handler is one step, except login and registration: the password is   *)
(* checked or the account made in one transaction, the tokens issued in    *)
(* another, and the user's row is read for them in between. Issuing starts *)
(* with a DELETE and so holds SQLite's write lock to its commit. A wrong   *)
(* password or a request that the rate limiter refuses changes nothing     *)
(* kept here. The answer to a request that sets cookies may be lost. A     *)
(* unit of time is longer than the 60 s between two updates of             *)
(* last_used_at. Of a device token the model keeps that it exists and      *)
(* whether it is revoked; that it was used and when it expires is left     *)
(* out.  Who holds one is a user of the account too (get_current_user): he *)
(* may add and revoke tokens, as in AdminCreateToken and AdminRevoke, and  *)
(* with the password as in RevokeAllTokens and ChangePassword.             *)
(***************************************************************************)
EXTENDS Naturals, FiniteSets

CONSTANTS
  Browser,      \* browsers (cookie jars) signing in to the account
  UserAgent,    \* UserAgent[b]: what _device_fingerprint sees of b
  MaxSessions,  \* max_concurrent_sessions, 0 for no limit
  IdleTimeout,  \* the least time longer than session_idle_timeout_minutes,
                \* 0 for no timeout
  AccessTTL,    \* ACCESS_TOKEN_EXPIRE_MINUTES
  RefreshTTL,   \* REFRESH_TOKEN_EXPIRE_DAYS
  ReuseWindow,  \* SESSION_REUSE_HOURS
  KeepRevoked,  \* the 90 days a revoked device token is kept
  NoAgent,      \* the fingerprint of a row that is not a session
  MaxIds,       \* bound: tokens issued
  MaxDevices,   \* bound: device tokens kept at a time
  MaxLogins,    \* bound: logins in flight
  MaxTime,      \* bound: the clock
  MaxVersion    \* bound: password changes

ASSUME SessionConstantsOK ==
  /\ {MaxSessions, IdleTimeout, AccessTTL, RefreshTTL, ReuseWindow} \subseteq Nat
  /\ {KeepRevoked, MaxIds, MaxDevices, MaxLogins, MaxTime, MaxVersion} \subseteq Nat
  /\ AccessTTL > 0 /\ RefreshTTL > 0
  /\ \A b \in Browser : UserAgent[b] # NoAgent

VARIABLES
  now,      \* the clock
  account,  \* "unregistered", then the column status, "deleted" in the end
  version,  \* password_version
  rows,     \* rows[i]: the row of access_tokens with id i
  next,     \* the next id: of a row, or of the token a row is given
  logging,  \* logins past the password check, with the version of that time
  access,   \* access[b]: the access cookie of b
  refresh   \* refresh[b]: the refresh cookie of b

vars == <<now, account, version, rows, next, logging, access, refresh>>
cookies == <<access, refresh>>

Id == 1..MaxIds
Agent == {UserAgent[b] : b \in Browser}

\* token is what token_hash is the hash of, version what that token carries.
Row == [kind : {"none", "session", "device"}, agent : Agent \cup {NoAgent},
        token : Nat, version : Nat, expires : Nat, revoked : BOOLEAN,
        used : Nat, created : Nat]
NoRow == [kind |-> "none", agent |-> NoAgent, token |-> 0, version |-> 0,
          expires |-> 0, revoked |-> FALSE, used |-> 0, created |-> 0]

Access == [sid : Nat, version : Nat, exp : Nat]
NoAccess == [sid |-> 0, version |-> 0, exp |-> 0]
Refresh == [id : Nat, version : Nat, exp : Nat]
NoRefresh == [id |-> 0, version |-> 0, exp |-> 0]

Login == [browser : Browser, version : Nat]

\* The state variables have their types.
TypeOK ==
  /\ now \in Nat /\ version \in Nat /\ next \in Nat \ {0}
  /\ account \in {"unregistered", "active", "disabled", "deleted"}
  /\ rows \in [Id -> Row]
  /\ logging \subseteq Login
  /\ access \in [Browser -> Access]
  /\ refresh \in [Browser -> Refresh]

Init ==
  /\ now = 0 /\ version = 0 /\ next = 1
  /\ account = "unregistered"
  /\ rows = [i \in Id |-> NoRow]
  /\ logging = {}
  /\ access = [b \in Browser |-> NoAccess]
  /\ refresh = [b \in Browser |-> NoRefresh]

-----------------------------------------------------------------------------
(* Who is signed in *)

Exists == account \in {"active", "disabled"}
LiveIn(rs, i) == rs[i].kind = "session" /\ ~rs[i].revoked
Live(i) == LiveIn(rows, i)

\* The checks of _resolve_access_jwt before the idle timeout.
Accepted(b) ==
  /\ Exists
  /\ access[b].sid \in Id
  /\ now < access[b].exp
  /\ access[b].version = version
  /\ Live(access[b].sid)

Idle(i) == IdleTimeout > 0 /\ now >= rows[i].used + IdleTimeout
SignedIn(b) == Accepted(b) /\ ~Idle(access[b].sid)

\* get_current_user lets a handler run for b.
Authenticated(b) == SignedIn(b) /\ account = "active"

\* get_current_user takes a device token too, where there is no access cookie.
ByToken(b) ==
  /\ account = "active" /\ access[b] = NoAccess
  /\ \E i \in Id : rows[i].kind = "device" /\ ~rows[i].revoked

\* The row that the refresh cookie of b is matched with.
Matches(i, b) == rows[i].kind = "session" /\ rows[i].token = refresh[b].id

Renewable(b) ==
  /\ Exists
  /\ now < refresh[b].exp
  /\ refresh[b].version = version
  /\ \E i \in Id : Matches(i, b) /\ ~rows[i].revoked

Touched(rs, i) == [rs EXCEPT ![i].used = now]
Revoked(rs, S) == [i \in Id |-> IF i \in S THEN [rs[i] EXCEPT !.revoked = TRUE] ELSE rs[i]]
\* MUTANT of SessionRows: a reset leaves the rows of sessions alone.
NoSessionRows(rs) == {}

SessionRows(rs) == {i \in Id : rs[i].kind = "session"}

-----------------------------------------------------------------------------
(* _issue_session_tokens *)

\* Rows of dead sessions go, and device tokens revoked long ago.
Cleaned(rs) ==
  LET dead(r) ==
        \/ r.kind = "session" /\ (r.revoked \/ r.expires < now)
        \/ r.kind = "device" /\ r.revoked /\ r.created + KeepRevoked < now
  IN [i \in Id |-> IF dead(rs[i]) THEN NoRow ELSE rs[i]]

Reusable(rs, b) ==
  {i \in Id : /\ LiveIn(rs, i)
              /\ rs[i].agent = UserAgent[b]
              /\ now <= rs[i].created + ReuseWindow}

\* MUTANT of Rotated: the row keeps the expiry of its first token.
RotatedNotRenewed(rs, i, v) ==
  [rs EXCEPT ![i] = [@ EXCEPT !.token = next, !.version = v, !.used = now]]

\* The row i is given a new refresh token.
Rotated(rs, i, v) ==
  [rs EXCEPT ![i] = [@ EXCEPT !.token = next, !.version = v, !.used = now,
                              !.expires = now + RefreshTTL]]

Added(rs, b, v) ==
  [rs EXCEPT ![next] =
     [kind |-> "session", agent |-> UserAgent[b], token |-> next, version |-> v,
      expires |-> now + RefreshTTL, revoked |-> FALSE, used |-> now, created |-> now]]

\* MUTANTS of Overflow: one session too many is kept; the most recently used go.
OverflowOneMore(rs) ==
  LET active == {i \in Id : LiveIn(rs, i)}
  IN {S \in SUBSET active :
        /\ next \notin S
        /\ Cardinality(active \ S) <= MaxSessions + 1
        /\ Cardinality(active \ S) > MaxSessions \/ S = {}}

OverflowNewestFirst(rs) ==
  LET active == {i \in Id : LiveIn(rs, i)}
  IN {S \in SUBSET active :
        IF MaxSessions = 0 \/ Cardinality(active) <= MaxSessions THEN S = {}
        ELSE /\ Cardinality(active \ S) = MaxSessions
             /\ next \in S}

\* The sessions _enforce_session_limit may revoke once row next is there: those
\* beyond the first MaxSessions by last_used_at, where the new row comes first.
Overflow(rs) ==
  LET active == {i \in Id : LiveIn(rs, i)}
  IN {S \in SUBSET active :
        IF MaxSessions = 0 \/ Cardinality(active) <= MaxSessions THEN S = {}
        ELSE /\ Cardinality(active \ S) = MaxSessions
             /\ next \notin S
             /\ \A i \in S, j \in active \ S : rs[i].used <= rs[j].used}

\* Both cookies reach the browser, or the answer is lost.
Answered(b, sid, v) ==
  \/ /\ access' = [access EXCEPT ![b] =
                     [sid |-> sid, version |-> v, exp |-> now + AccessTTL]]
     /\ refresh' = [refresh EXCEPT ![b] =
                      [id |-> next, version |-> v, exp |-> now + RefreshTTL]]
  \/ UNCHANGED cookies

\* A session for b: the newest reusable row, else a new one.
Issue(rs, b, v) ==
  /\ next <= MaxIds
  /\ next' = next + 1
  /\ LET kept == Cleaned(rs)
         same == Reusable(kept, b)
         new == Added(kept, b, v)
     IN \/ \E i \in same :
             /\ \A j \in same : kept[j].created <= kept[i].created
             /\ rows' = Rotated(kept, i, v)
             /\ Answered(b, i, v)
        \/ /\ same = {}
           /\ \E S \in Overflow(new) : rows' = Revoked(new, S)
           /\ Answered(b, next, v)

-----------------------------------------------------------------------------
(* Signing in, renewing, signing out *)

LoginOf(b) == [browser |-> b, version |-> version]

\* The account is there before its first session is.
Register(b) ==
  /\ account = "unregistered"
  /\ account' = "active"
  /\ logging' = {LoginOf(b)}
  /\ UNCHANGED <<now, version, rows, next, cookies>>

\* The password is right and the account enabled.
LoginCheck(b) ==
  /\ account = "active"
  /\ Cardinality(logging) < MaxLogins
  /\ logging' = logging \cup {LoginOf(b)}
  /\ UNCHANGED <<now, account, version, rows, next, cookies>>

\* Neither is looked at again.  The version is that of the moment, at any time
\* since the check, when the user's row was last read.
LoginIssue(l) ==
  /\ l \in logging
  /\ logging' = logging \ {l}
  /\ \E v \in l.version..version : Issue(rows, l.browser, v)
  /\ UNCHANGED <<now, account, version>>

\* POST /refresh: the refresh cookie stays as it is, and nobody asks how long
\* the session was idle or when its row expires.
Renew(b) ==
  /\ account = "active" /\ Renewable(b)
  /\ \E i \in Id :
       /\ Matches(i, b) /\ ~rows[i].revoked
       /\ rows' = Touched(rows, i)
       /\ \/ access' = [access EXCEPT ![b] =
                          [sid |-> i, version |-> version, exp |-> now + AccessTTL]]
          \/ UNCHANGED access
  /\ UNCHANGED <<now, account, version, next, logging, refresh>>

\* Any request that only reads, or is refused because the account is disabled.
Request(b) ==
  /\ SignedIn(b)
  /\ rows' = Touched(rows, access[b].sid)
  /\ UNCHANGED <<now, account, version, next, logging, cookies>>

\* A request after the idle timeout ends the session.
TimedOut(b) ==
  /\ Accepted(b) /\ Idle(access[b].sid)
  /\ rows' = Revoked(rows, {access[b].sid})
  /\ UNCHANGED <<now, account, version, next, logging, cookies>>

\* POST /logout: the row of the refresh cookie, or else that of an access cookie
\* that has not expired, whatever its version.
LogoutRow(b) ==
  LET own == {i \in Id : Matches(i, b) /\ ~rows[i].revoked}
  IN IF own # {} THEN own
     ELSE {i \in Id : i = access[b].sid /\ now < access[b].exp /\ Live(i)}

Logout(b) ==
  /\ rows' = Revoked(rows, LogoutRow(b))
  /\ \/ /\ access' = [access EXCEPT ![b] = NoAccess]
        /\ refresh' = [refresh EXCEPT ![b] = NoRefresh]
     \/ UNCHANGED cookies
  /\ UNCHANGED <<now, account, version, next, logging>>

-----------------------------------------------------------------------------
(* Operations of a signed-in user *)

\* MUTANT of DeviceAdded: the row is added without a kind.
DeviceAddedWithoutKind(rs) ==
  [rs EXCEPT ![next] =
     [kind |-> "", agent |-> NoAgent, token |-> next, version |-> 0,
      expires |-> 0, revoked |-> FALSE, used |-> 0, created |-> now]]

\* The row of a device token, as create_device_token and create_user_token add it.
DeviceAdded(rs) ==
  [rs EXCEPT ![next] =
     [kind |-> "device", agent |-> NoAgent, token |-> next, version |-> 0,
      expires |-> 0, revoked |-> FALSE, used |-> 0, created |-> now]]

DeviceAllowed ==
  next <= MaxIds /\ Cardinality({i \in Id : rows[i].kind = "device"}) < MaxDevices

CreateDeviceToken(b) ==
  /\ Authenticated(b) /\ DeviceAllowed
  /\ rows' = DeviceAdded(Touched(rows, access[b].sid))
  /\ next' = next + 1
  /\ UNCHANGED <<now, account, version, logging, cookies>>

\* DELETE /tokens/{id}
RevokeToken(b, i) ==
  /\ Authenticated(b)
  /\ rows[i].kind # "none"
  /\ rows' = Revoked(Touched(rows, access[b].sid), {i})
  /\ UNCHANGED <<now, account, version, next, logging, cookies>>

RevokeOtherTokens(b) ==
  /\ Authenticated(b)
  /\ rows' = Revoked(Touched(rows, access[b].sid),
                     {i \in Id \ {access[b].sid} : rows[i].kind # "none"})
  /\ UNCHANGED <<now, account, version, next, logging, cookies>>

\* The password was given again.
RevokeAllTokens(b) ==
  /\ version < MaxVersion
  /\ version' = version + 1
  /\ LET all == {i \in Id : rows[i].kind # "none"}
     IN \/ Authenticated(b) /\ rows' = Revoked(Touched(rows, access[b].sid), all)
        \/ ByToken(b) /\ rows' = Revoked(rows, all)
  /\ UNCHANGED <<now, account, next, logging, cookies>>

\* The caller goes on under the new version; one with a device token is given a
\* session.
ChangePassword(b) ==
  /\ Authenticated(b) \/ ByToken(b)
  /\ version < MaxVersion
  /\ version' = version + 1
  /\ Issue(Revoked(rows, SessionRows(rows)), b, version')
  /\ UNCHANGED <<now, account, logging>>

-----------------------------------------------------------------------------
(* Operations without a session of the account *)

\* forgot-password/reset with the right answer: also for a disabled account.
ResetPassword ==
  /\ Exists /\ version < MaxVersion
  /\ version' = version + 1
  /\ rows' = Revoked(rows, SessionRows(rows))
  /\ UNCHANGED <<now, account, next, logging, cookies>>

\* PUT /admin/users/{id}: a status, a new password, or both.
AdminUpdate(status, newPassword) ==
  /\ Exists
  /\ account' = status
  /\ IF newPassword
     THEN /\ version < MaxVersion
          /\ version' = version + 1
          /\ rows' = Revoked(rows, SessionRows(rows))
     ELSE UNCHANGED <<version, rows>>
  /\ UNCHANGED <<now, next, logging, cookies>>

\* A login in flight fails, its user being gone, unless it has read the user's row
\* already: then its session is a row of nobody (foreign keys are not enforced).
AdminDelete ==
  /\ Exists
  /\ account' = "deleted"
  /\ rows' = [i \in Id |-> NoRow]
  /\ logging' \in SUBSET logging
  /\ UNCHANGED <<now, version, next, cookies>>

AdminCreateToken ==
  /\ Exists /\ DeviceAllowed
  /\ rows' = DeviceAdded(rows)
  /\ next' = next + 1
  /\ UNCHANGED <<now, account, version, logging, cookies>>

\* One token, or all of them: without a new version.
AdminRevoke(S) ==
  /\ Exists
  /\ rows' = Revoked(rows, S)
  /\ UNCHANGED <<now, account, version, next, logging, cookies>>

\* The clock matters from the first token to the end of the account.
Tick ==
  /\ now < MaxTime /\ Exists /\ next > 1
  /\ now' = now + 1
  /\ UNCHANGED <<account, version, rows, next, logging, cookies>>

Stored == {i \in Id : rows[i].kind # "none"}

Next ==
  \/ \E b \in Browser :
       \/ Register(b) \/ LoginCheck(b) \/ Renew(b)
       \/ Request(b) \/ TimedOut(b) \/ Logout(b)
       \/ RevokeOtherTokens(b) \/ RevokeAllTokens(b) \/ ChangePassword(b)
       \/ CreateDeviceToken(b)
       \/ \E i \in Id : RevokeToken(b, i)
  \/ \E l \in logging : LoginIssue(l)
  \/ ResetPassword
  \/ \E s \in {"active", "disabled"}, p \in BOOLEAN : AdminUpdate(s, p)
  \/ AdminDelete \/ AdminCreateToken
  \/ \E S \in {{i} : i \in Stored} \cup {Stored} : AdminRevoke(S)
  \/ Tick

Spec == Init /\ [][Next]_vars

-----------------------------------------------------------------------------
(* Properties *)

\* Never more live sessions than the limit, whatever order logins, time and
\* revocations come in (_enforce_session_limit runs only when a row is added).
SessionsWithinLimit ==
  MaxSessions > 0 => Cardinality({i \in Id : Live(i)}) <= MaxSessions

\* The token list shows no session as valid that the password version has ended,
\* but for one kind: a login whose check came before a change of the version may
\* sign under the old one.  The next change ends that session as well
\* (_bump_password_version, revoke_all_tokens, login).
GhostsOnlyByLogin ==
  [][\A i \in Id :
       LiveIn(rows', i) /\ rows'[i].version # version'
         => \/ \E l \in logging \ logging' : l.version # version
            \/ Live(i) /\ rows[i].version # version /\ version' = version]_vars

\* Tokens that reach a browser work: neither the clean-up nor the limit nor the
\* new version that come with a login or a change of password hit the session
\* just given (_issue_session_tokens).  Excepted is a login overtaken by a change
\* of the password or by the deletion of the account.
CallerStaysIn ==
  [][\A b \in Browser :
       refresh'[b] \notin {refresh[b], NoRefresh}
         => \/ SignedIn(b)' /\ Renewable(b)'
            \/ refresh'[b].version # version' \/ account' = "deleted"]_vars

\* A browser that could renew its session can go on doing so until the token
\* ends, the password changes, the account is deleted, somebody ends its row, or
\* a browser with the same user agent signs in: no clean-up by another login
\* removes a row before its token ends (_issue_session_tokens, refresh_token).
RenewalEndsForAReason ==
  [][\A b \in Browser :
       Renewable(b) /\ ~Renewable(b)' =>
         \/ refresh'[b] # refresh[b]
         \/ now' # now \/ version' # version \/ account' = "deleted"
         \/ \E i \in Id : Matches(i, b) /\ rows'[i].revoked
         \/ \E l \in logging \ logging' : UserAgent[l.browser] = UserAgent[b]]_vars
=============================================================================
