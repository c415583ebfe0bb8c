--------------------------- MODULE SessionsProofs ---------------------------
(***************************************************************************)
(* Type correctness; that a live session of an older password version is   *)
(* the work of a login the change overtook; since a row outlives its       *)
(* refresh token, that renewal ends only for the reasons the model names;  *)
(* that the limit of sessions is kept; and that nobody is thrown out by    *)
(* the answer that signs him in.                                           *)
(***************************************************************************)
EXTENDS Sessions, FiniteSetTheorems, TLAPS

Account == {"unregistered", "active", "disabled", "deleted"}

LEMMA RowTypes ==
  /\ NoRow \in Row
  /\ \A r \in Row, t, v, u, e \in Nat :
       /\ [r EXCEPT !.revoked = TRUE] \in Row
       /\ [r EXCEPT !.used = u] \in Row
       /\ [r EXCEPT !.token = t, !.version = v, !.used = u, !.expires = e] \in Row
BY DEF NoRow, Row

LEMMA TouchedType ==
  ASSUME NEW rs \in [Id -> Row], NEW i \in Id, now \in Nat
  PROVE  Touched(rs, i) \in [Id -> Row]
BY RowTypes DEF Touched, Row

LEMMA RevokedType ==
  ASSUME NEW rs \in [Id -> Row], NEW S
  PROVE  Revoked(rs, S) \in [Id -> Row]
BY RowTypes DEF Revoked

LEMMA CleanedType ==
  ASSUME NEW rs \in [Id -> Row]
  PROVE  Cleaned(rs) \in [Id -> Row]
BY RowTypes DEF Cleaned

LEMMA AddedType ==
  ASSUME NEW rs \in [Id -> Row], NEW b \in Browser, NEW v \in Nat,
         now \in Nat, next \in Nat \ {0}, next <= MaxIds
  PROVE  Added(rs, b, v) \in [Id -> Row]
<1>1. next \in Id
  BY SessionConstantsOK DEF Id
<1>2. [kind |-> "session", agent |-> UserAgent[b], token |-> next, version |-> v,
       expires |-> now + RefreshTTL, revoked |-> FALSE, used |-> now, created |-> now]
      \in Row
  BY SessionConstantsOK DEF Row, Agent
<1>3. QED
  BY <1>1, <1>2 DEF Added

LEMMA RotatedType ==
  ASSUME NEW rs \in [Id -> Row], NEW i \in Id, NEW v \in Nat, now \in Nat, next \in Nat
  PROVE  Rotated(rs, i, v) \in [Id -> Row]
<1>1. now + RefreshTTL \in Nat
  BY SessionConstantsOK
<1>2. [rs[i] EXCEPT !.token = next, !.version = v, !.used = now,
                    !.expires = now + RefreshTTL] \in Row
  BY <1>1, RowTypes
<1>3. QED
  BY <1>2 DEF Rotated

LEMMA DeviceAddedType ==
  ASSUME NEW rs \in [Id -> Row], now \in Nat, next \in Nat \ {0}, next <= MaxIds
  PROVE  DeviceAdded(rs) \in [Id -> Row]
<1>1. next \in Id
  BY SessionConstantsOK DEF Id
<1>2. [kind |-> "device", agent |-> NoAgent, token |-> next, version |-> 0,
       expires |-> 0, revoked |-> FALSE, used |-> 0, created |-> now] \in Row
  BY DEF Row
<1>3. QED
  BY <1>1, <1>2 DEF DeviceAdded

\* Whatever reaches the browser has the type of a cookie.
LEMMA AnsweredType ==
  ASSUME NEW b \in Browser, NEW sid \in Nat, NEW v \in Nat,
         access \in [Browser -> Access], refresh \in [Browser -> Refresh],
         now \in Nat, next \in Nat, Answered(b, sid, v)
  PROVE  access' \in [Browser -> Access] /\ refresh' \in [Browser -> Refresh]
<1>1. now + AccessTTL \in Nat /\ now + RefreshTTL \in Nat
  BY SessionConstantsOK
<1>2. [sid |-> sid, version |-> v, exp |-> now + AccessTTL] \in Access
      /\ [id |-> next, version |-> v, exp |-> now + RefreshTTL] \in Refresh
  BY <1>1 DEF Access, Refresh
<1>3. QED
  BY <1>2 DEF Answered, cookies

LEMMA IssueType ==
  ASSUME TypeOK, NEW rs \in [Id -> Row], NEW b \in Browser, NEW v \in Nat,
         Issue(rs, b, v)
  PROVE  /\ rows' \in [Id -> Row] /\ next' \in Nat \ {0}
         /\ access' \in [Browser -> Access] /\ refresh' \in [Browser -> Refresh]
<1> DEFINE kept == Cleaned(rs)
           same == Reusable(kept, b)
           new == Added(kept, b, v)
<1>1. kept \in [Id -> Row]
  BY CleanedType
<1>2. next' \in Nat \ {0} /\ next <= MaxIds
  BY DEF TypeOK, Issue
<1>3. \A i \in Id : i \in Nat
  BY DEF Id
<1>4. CASE \E i \in same : rows' = Rotated(kept, i, v) /\ Answered(b, i, v)
  <2>1. PICK i \in same : rows' = Rotated(kept, i, v) /\ Answered(b, i, v)
    BY <1>4
  <2>2. i \in Id
    BY <2>1 DEF Reusable
  <2>3. rows' \in [Id -> Row]
    BY <1>1, <2>1, <2>2, RotatedType DEF TypeOK
  <2>4. access' \in [Browser -> Access] /\ refresh' \in [Browser -> Refresh]
    BY <1>3, <2>1, <2>2, AnsweredType DEF TypeOK
  <2>5. QED
    BY <1>2, <2>3, <2>4
<1>5. CASE /\ \E S \in Overflow(new) : rows' = Revoked(new, S)
           /\ Answered(b, next, v)
  <2>1. new \in [Id -> Row]
    BY <1>1, <1>2, AddedType DEF TypeOK
  <2>2. rows' \in [Id -> Row]
    BY <1>5, <2>1, RevokedType
  <2>3. access' \in [Browser -> Access] /\ refresh' \in [Browser -> Refresh]
    BY <1>5, AnsweredType DEF TypeOK
  <2>4. QED
    BY <1>2, <2>2, <2>3
<1>6. QED
  BY <1>4, <1>5 DEF Issue

LEMMA LoginType ==
  ASSUME NEW b \in Browser, version \in Nat
  PROVE  LoginOf(b) \in Login
BY DEF LoginOf, Login

\* The versions a login may sign under.
LEMMA LoginVersion ==
  ASSUME TypeOK, NEW l \in logging
  PROVE  l.browser \in Browser /\ l.version \in Nat /\ l.version..version \subseteq Nat
BY DEF TypeOK, Login

-----------------------------------------------------------------------------
(* Every step keeps the types *)

LEMMA TypeStep ==
  ASSUME TypeOK, [Next]_vars
  PROVE  TypeOK'
<1> USE DEF TypeOK
<1>1. CASE UNCHANGED vars
  BY <1>1 DEF vars
<1>2. ASSUME NEW b \in Browser, Register(b)
      PROVE  TypeOK'
  BY <1>2, LoginType DEF Register, cookies
<1>3. ASSUME NEW b \in Browser, LoginCheck(b)
      PROVE  TypeOK'
  BY <1>3, LoginType DEF LoginCheck, cookies
<1>4. ASSUME NEW l \in logging, LoginIssue(l)
      PROVE  TypeOK'
  <2>1. PICK v \in l.version..version : Issue(rows, l.browser, v)
    BY <1>4 DEF LoginIssue
  <2>2. l.browser \in Browser /\ v \in Nat
    BY <1>4, LoginVersion
  <2>3. QED
    BY <1>4, <2>1, <2>2, IssueType DEF LoginIssue
<1>5. ASSUME NEW b \in Browser, Renew(b)
      PROVE  TypeOK'
  <2>1. PICK i \in Id :
          /\ rows' = Touched(rows, i)
          /\ \/ access' = [access EXCEPT ![b] =
                             [sid |-> i, version |-> version, exp |-> now + AccessTTL]]
             \/ UNCHANGED access
    BY <1>5 DEF Renew
  <2>2. [sid |-> i, version |-> version, exp |-> now + AccessTTL] \in Access
    BY SessionConstantsOK DEF Access, Id
  <2>3. rows' \in [Id -> Row]
    BY <2>1, TouchedType
  <2>4. access' \in [Browser -> Access]
    BY <2>1, <2>2
  <2>5. QED
    BY <1>5, <2>3, <2>4 DEF Renew
<1>6. ASSUME NEW b \in Browser, Request(b)
      PROVE  TypeOK'
  BY <1>6, TouchedType DEF Request, SignedIn, Accepted, cookies
<1>7. ASSUME NEW b \in Browser, TimedOut(b)
      PROVE  TypeOK'
  BY <1>7, RevokedType DEF TimedOut, cookies
<1>8. ASSUME NEW b \in Browser, Logout(b)
      PROVE  TypeOK'
  <2>1. NoAccess \in Access /\ NoRefresh \in Refresh
    BY DEF NoAccess, NoRefresh, Access, Refresh
  <2>2. access' \in [Browser -> Access] /\ refresh' \in [Browser -> Refresh]
    BY <1>8, <2>1 DEF Logout, cookies
  <2>3. rows' \in [Id -> Row]
    BY <1>8, RevokedType DEF Logout
  <2>4. QED
    BY <1>8, <2>2, <2>3 DEF Logout
<1>9. ASSUME NEW b \in Browser, Authenticated(b)
      PROVE  Touched(rows, access[b].sid) \in [Id -> Row]
  BY <1>9, TouchedType DEF Authenticated, SignedIn, Accepted
<1>10. ASSUME NEW b \in Browser, RevokeOtherTokens(b) \/ RevokeAllTokens(b)
       PROVE  TypeOK'
  BY <1>9, <1>10, RevokedType DEF RevokeOtherTokens, RevokeAllTokens, cookies
<1>11. ASSUME NEW b \in Browser, ChangePassword(b)
       PROVE  TypeOK'
  <2>1. Revoked(rows, SessionRows(rows)) \in [Id -> Row]
    BY RevokedType
  <2>2. version' \in Nat /\ Issue(Revoked(rows, SessionRows(rows)), b, version')
    BY <1>11 DEF ChangePassword
  <2>3. QED
    BY <1>11, <2>1, <2>2, IssueType DEF ChangePassword
<1>12. ASSUME NEW b \in Browser, CreateDeviceToken(b)
       PROVE  TypeOK'
  BY <1>9, <1>12, DeviceAddedType DEF CreateDeviceToken, DeviceAllowed, cookies
<1>13. ASSUME NEW b \in Browser, NEW i \in Id, RevokeToken(b, i)
       PROVE  TypeOK'
  BY <1>9, <1>13, RevokedType DEF RevokeToken, cookies
<1>14. CASE ResetPassword
  BY <1>14, RevokedType DEF ResetPassword, cookies
<1>15. ASSUME NEW s \in {"active", "disabled"}, NEW p \in BOOLEAN, AdminUpdate(s, p)
       PROVE  TypeOK'
  <2>1. version' \in Nat /\ rows' \in [Id -> Row]
    BY <1>15, RevokedType DEF AdminUpdate
  <2>2. QED
    BY <1>15, <2>1 DEF AdminUpdate, cookies
<1>16. CASE AdminDelete
  BY <1>16, RowTypes DEF AdminDelete, cookies
<1>17. CASE AdminCreateToken
  BY <1>17, DeviceAddedType DEF AdminCreateToken, DeviceAllowed, cookies
<1>18. ASSUME NEW S, AdminRevoke(S)
       PROVE  TypeOK'
  BY <1>18, RevokedType DEF AdminRevoke, cookies
<1>19. CASE Tick
  BY <1>19 DEF Tick, cookies
<1>20. QED
  BY <1>1, <1>2, <1>3, <1>4, <1>5, <1>6, <1>7, <1>8, <1>10, <1>11, <1>12, <1>13,
     <1>14, <1>15, <1>16, <1>17, <1>18, <1>19 DEF Next

\* The variables always have their types, for any browsers, limits and timeouts.
THEOREM TypeCorrect == Spec => []TypeOK
<1>1. NoAccess \in Access /\ NoRefresh \in Refresh
  BY DEF Access, Refresh, NoAccess, NoRefresh
<1>2. Init => TypeOK
  <2>1. NoRow \in Row
    BY RowTypes
  <2>2. ASSUME Init
        PROVE  rows \in [Id -> Row]
    BY <2>1, <2>2 DEF Init
  <2>3. ASSUME Init
        PROVE  access \in [Browser -> Access] /\ refresh \in [Browser -> Refresh]
    BY <1>1, <2>3 DEF Init
  <2>4. QED
    BY <2>2, <2>3 DEF Init, TypeOK
<1>3. TypeOK /\ [Next]_vars => TypeOK'
  BY TypeStep
<1>4. QED
  BY <1>2, <1>3, PTL DEF Spec

-----------------------------------------------------------------------------
(* The inductive invariant, as facts about a table rs, the next id n and   *)
(* the refresh cookies rf.                                                 *)

\* Ids from n on are unused, and a session has a token given out before.
Shape(rs, n) ==
  \A i \in Id : /\ i >= n => rs[i].kind = "none"
                /\ rs[i].kind = "session" => rs[i].token > 0 /\ rs[i].token < n

Given(rf, n) == \A b \in Browser : rf[b].id < n

\* A row belongs to the user agent of the browser that holds its token, and
\* lasts as long as the token.
Owned(rs, rf) ==
  \A i \in Id, b \in Browser :
    rs[i].kind = "session" /\ rs[i].token = rf[b].id
      => rs[i].agent = UserAgent[b] /\ rf[b].exp <= rs[i].expires

SessionInv ==
  /\ Shape(rows, next)
  /\ Given(refresh, next)
  /\ Owned(rows, refresh)

\* rt has the rows of rs, some dropped, revoked or touched.
Weakened(rt, rs) ==
  \A i \in Id :
    \/ rt[i] = NoRow
    \/ /\ rt[i].kind = rs[i].kind /\ rt[i].agent = rs[i].agent
       /\ rt[i].token = rs[i].token /\ rt[i].version = rs[i].version
       /\ rt[i].expires = rs[i].expires
       /\ rs[i].revoked => rt[i].revoked

LEMMA WeakenedKeeps ==
  ASSUME NEW rs, NEW rt, Weakened(rt, rs), NEW n, NEW rf
  PROVE  /\ Shape(rs, n) => Shape(rt, n)
         /\ Owned(rs, rf) => Owned(rt, rf)
<1>1. \A i \in Id : rt[i] = NoRow => rt[i].kind = "none"
  BY DEF NoRow
<1>2. Shape(rs, n) => Shape(rt, n)
  BY <1>1 DEF Weakened, Shape
<1>3. Owned(rs, rf) => Owned(rt, rf)
  BY <1>1 DEF Weakened, Owned
<1>4. QED
  BY <1>2, <1>3

LEMMA Weakening ==
  ASSUME NEW rs \in [Id -> Row]
  PROVE  /\ Weakened(rs, rs)
         /\ \A i \in Id : Weakened(Touched(rs, i), rs)
         /\ \A S : Weakened(Revoked(rs, S), rs)
         /\ Weakened(Cleaned(rs), rs)
         /\ \A i \in Id : \A S : Weakened(Revoked(Touched(rs, i), S), rs)
<1>1. \A i \in Id : Weakened(Touched(rs, i), rs)
  BY DEF Weakened, Touched, Row
<1>2. \A S : Weakened(Revoked(rs, S), rs)
  BY DEF Weakened, Revoked, Row
<1>3. Weakened(Cleaned(rs), rs)
  BY DEF Weakened, Cleaned
<1>4. \A i \in Id : \A S : Weakened(Revoked(Touched(rs, i), S), rs)
  BY DEF Weakened, Revoked, Touched, Row
<1>5. QED
  BY <1>1, <1>2, <1>3, <1>4 DEF Weakened

LEMMA IssueKeeps ==
  ASSUME TypeOK, NEW rs \in [Id -> Row], NEW b \in Browser, NEW v \in Nat,
         Shape(rs, next), Given(refresh, next), Owned(rs, refresh),
         Issue(rs, b, v)
  PROVE  /\ Shape(rows', next')
         /\ Given(refresh', next') /\ Owned(rows', refresh')
<1> DEFINE kept == Cleaned(rs)
           same == Reusable(kept, b)
           new == Added(kept, b, v)
           token == [id |-> next, version |-> v, exp |-> now + RefreshTTL]
<1>1. kept \in [Id -> Row]
  BY CleanedType
<1>2. Shape(kept, next) /\ Owned(kept, refresh)
  BY Weakening, WeakenedKeeps
<1>3. next \in Nat /\ next > 0 /\ next' = next + 1 /\ next \in Id
  BY SessionConstantsOK DEF TypeOK, Issue, Id
<1>4. now + RefreshTTL \in Nat
  BY SessionConstantsOK DEF TypeOK
<1>5. \A c \in Browser : refresh[c].id \in Nat /\ refresh[c].id < next
  BY DEF TypeOK, Refresh, Given
<1>6. ASSUME NEW sid, Answered(b, sid, v)
      PROVE  /\ \A c \in Browser : refresh'[c] = refresh[c] \/ (c = b /\ refresh'[c] = token)
             /\ Given(refresh', next')
  <2>1. \A c \in Browser : refresh'[c] = refresh[c] \/ (c = b /\ refresh'[c] = token)
    BY <1>6 DEF Answered, cookies, TypeOK
  <2>2. token.id = next
    OBVIOUS
  <2>3. Given(refresh', next')
    BY <1>3, <1>5, <2>1, <2>2 DEF Given
  <2>4. QED
    BY <2>1, <2>3
<1>7. CASE \E i \in same : rows' = Rotated(kept, i, v) /\ Answered(b, i, v)
  <2>1. PICK i \in same : rows' = Rotated(kept, i, v) /\ Answered(b, i, v)
    BY <1>7
  <2>2. i \in Id /\ kept[i].kind = "session" /\ kept[i].agent = UserAgent[b]
    BY <2>1 DEF Reusable, LiveIn
  <2>3. \A j \in Id : j # i => rows'[j] = kept[j]
    BY <1>1, <2>1, <2>2 DEF Rotated
  <2>4. /\ rows'[i].kind = "session" /\ rows'[i].agent = UserAgent[b]
        /\ rows'[i].token = next /\ rows'[i].version = v
        /\ rows'[i].expires = now + RefreshTTL
    BY <1>1, <2>1, <2>2 DEF Rotated, Row
  <2>5. i < next
    BY <1>2, <1>3, <2>2 DEF Shape, Id
  <2>6. Shape(rows', next')
    <3>1. \A j \in Id : j \in Nat /\ kept[j].token \in Nat
      BY <1>1 DEF Id, Row
    <3>2. \A j \in Id : j >= next + 1 => j >= next /\ j # i
      BY <1>3, <2>2, <2>5, <3>1
    <3>3. \A j \in Id : j >= next + 1 => rows'[j].kind = "none"
      BY <1>2, <2>3, <3>2 DEF Shape
    <3>4. \A j \in Id : rows'[j].kind = "session"
                          => rows'[j].token > 0 /\ rows'[j].token < next + 1
      BY <1>2, <1>3, <2>3, <2>4, <3>1 DEF Shape
    <3>5. QED
      BY <1>3, <3>3, <3>4 DEF Shape
  <2>7. Owned(rows', refresh')
    BY <1>1, <1>2, <1>3, <1>4, <1>5, <1>6, <2>1, <2>3, <2>4 DEF Owned, Shape, Row
  <2>8. QED
    BY <1>6, <2>1, <2>6, <2>7
<1>8. CASE (\E S \in Overflow(new) : rows' = Revoked(new, S)) /\ Answered(b, next, v)
  <2>1. new \in [Id -> Row]
    BY <1>1, <1>3, AddedType DEF TypeOK, Issue
  <2>2. \A j \in Id : j # next => new[j] = kept[j]
    BY <1>1, <1>3 DEF Added
  <2>3. /\ new[next].kind = "session" /\ new[next].agent = UserAgent[b]
        /\ new[next].token = next /\ new[next].version = v
        /\ new[next].expires = now + RefreshTTL
    BY <1>1, <1>3 DEF Added
  <2>4. Shape(new, next')
    <3>1. \A j \in Id : j \in Nat /\ kept[j].token \in Nat
      BY <1>1 DEF Id, Row
    <3>2. \A j \in Id : j >= next + 1 => j >= next /\ j # next
      BY <1>3, <3>1
    <3>3. \A j \in Id : j >= next + 1 => new[j].kind = "none"
      BY <1>2, <2>2, <3>2 DEF Shape
    <3>4. \A j \in Id : new[j].kind = "session"
                          => new[j].token > 0 /\ new[j].token < next + 1
      BY <1>2, <1>3, <2>2, <2>3, <3>1 DEF Shape
    <3>5. QED
      BY <1>3, <3>3, <3>4 DEF Shape
  <2>5. Owned(new, refresh')
    <3>1. ASSUME NEW c \in Browser, new[next].token = refresh'[c].id
          PROVE  /\ new[next].agent = UserAgent[c]
                 /\ refresh'[c].exp <= new[next].expires
      BY <1>3, <1>4, <1>5, <1>6, <1>8, <2>3, <3>1
    <3>2. ASSUME NEW j \in Id, j # next, NEW c \in Browser,
                 new[j].kind = "session", new[j].token = refresh'[c].id
          PROVE  new[j].agent = UserAgent[c] /\ refresh'[c].exp <= new[j].expires
      <4>1. new[j] = kept[j] /\ kept[j].token < next
        BY <1>2, <2>2, <3>2 DEF Shape
      <4>2. refresh'[c] = refresh[c]
        BY <1>1, <1>3, <1>6, <1>8, <3>2, <4>1 DEF Row
      <4>3. QED
        BY <1>2, <3>2, <4>1, <4>2 DEF Owned
    <3>3. QED
      BY <3>1, <3>2 DEF Owned
  <2>6. Weakened(rows', new)
    BY <1>8, <2>1, Weakening
  <2>7. QED
    BY <1>6, <1>8, <2>4, <2>5, <2>6, WeakenedKeeps
<1>9. QED
  BY <1>7, <1>8 DEF Issue

LEMMA DeviceAddedKeeps ==
  ASSUME NEW rs \in [Id -> Row], TypeOK, next <= MaxIds,
         Shape(rs, next), Given(refresh, next), Owned(rs, refresh)
  PROVE  /\ Shape(DeviceAdded(rs), next + 1)
         /\ Given(refresh, next + 1) /\ Owned(DeviceAdded(rs), refresh)
<1> DEFINE new == DeviceAdded(rs)
<1>1. next \in Nat /\ next \in Id
  BY SessionConstantsOK DEF TypeOK, Id
<1>2. \A j \in Id : j # next => new[j] = rs[j]
  BY <1>1 DEF DeviceAdded
<1>3. new[next].kind = "device"
  BY <1>1 DEF DeviceAdded
<1>4. Shape(new, next + 1)
  BY <1>1, <1>2, <1>3 DEF Shape, Id, Row
<1>5. Owned(new, refresh)
  BY <1>2, <1>3 DEF Owned
<1>6. Given(refresh, next + 1)
  BY <1>1 DEF Given, TypeOK, Refresh
<1>7. QED
  BY <1>4, <1>5, <1>6

\* Rows that are only weakened keep the invariant as long as ids and cookies stay.
LEMMA WeakenedStep ==
  ASSUME TypeOK, SessionInv, Weakened(rows', rows), UNCHANGED <<next, refresh>>
  PROVE  SessionInv'
BY WeakenedKeeps DEF SessionInv

LEMMA SessionStep ==
  ASSUME TypeOK, SessionInv, [Next]_vars
  PROVE  SessionInv'
<1>1. rows \in [Id -> Row] /\ version \in Nat
  BY DEF TypeOK
<1>2. \A b \in Browser : SignedIn(b) => access[b].sid \in Id
  BY DEF SignedIn, Accepted
<1>3. CASE UNCHANGED vars
  BY <1>3 DEF vars, SessionInv
<1>4. ASSUME NEW l \in logging, LoginIssue(l)
      PROVE  SessionInv'
  <2>1. PICK v \in l.version..version : Issue(rows, l.browser, v)
    BY <1>4 DEF LoginIssue
  <2>2. l.browser \in Browser /\ v \in Nat
    BY LoginVersion
  <2>3. QED
    BY <1>1, <2>1, <2>2, IssueKeeps DEF SessionInv
<1>5. ASSUME NEW b \in Browser, Register(b) \/ LoginCheck(b)
      PROVE  SessionInv'
  BY <1>5 DEF Register, LoginCheck, cookies, SessionInv
<1>6. ASSUME NEW b \in Browser, Renew(b)
      PROVE  SessionInv'
  BY <1>1, <1>6, Weakening, WeakenedStep DEF Renew
<1>7. ASSUME NEW b \in Browser, Request(b)
      PROVE  SessionInv'
  BY <1>1, <1>2, <1>7, Weakening, WeakenedStep DEF Request, cookies
<1>8. ASSUME NEW b \in Browser, TimedOut(b)
      PROVE  SessionInv'
  BY <1>1, <1>8, Weakening, WeakenedStep DEF TimedOut, cookies
<1>9. ASSUME NEW b \in Browser, Logout(b)
      PROVE  SessionInv'
  <2>1. Weakened(rows', rows) /\ next' = next
    BY <1>1, <1>9, Weakening DEF Logout
  <2>2. \A c \in Browser : refresh'[c] = refresh[c] \/ refresh'[c] = NoRefresh
    BY <1>9 DEF Logout, cookies, TypeOK
  <2>3. NoRefresh.id = 0
    BY DEF NoRefresh
  <2>4. Shape(rows', next) /\ Owned(rows', refresh)
    BY <2>1, WeakenedKeeps DEF SessionInv
  <2>5. next \in Nat \ {0}
    BY DEF TypeOK
  <2>6. Given(refresh', next)
    BY <2>2, <2>3, <2>5 DEF Given, SessionInv
  <2>7. \A i \in Id : rows'[i].kind = "session" => rows'[i].token # 0
    BY <2>4 DEF Shape
  <2>8. Owned(rows', refresh')
    BY <2>2, <2>3, <2>4, <2>7 DEF Owned
  <2>9. QED
    BY <2>1, <2>4, <2>6, <2>8 DEF SessionInv
<1>10. ASSUME NEW b \in Browser, RevokeOtherTokens(b) \/ RevokeAllTokens(b)
       PROVE  SessionInv'
  BY <1>1, <1>2, <1>10, Weakening, WeakenedStep
     DEF RevokeOtherTokens, RevokeAllTokens, Authenticated, cookies
<1>11. ASSUME NEW b \in Browser, ChangePassword(b)
       PROVE  SessionInv'
  <2> DEFINE rs == Revoked(rows, SessionRows(rows))
  <2>1. Issue(rs, b, version') /\ version' \in Nat
    BY <1>1, <1>11 DEF ChangePassword
  <2>2. rs \in [Id -> Row]
    BY <1>1, RevokedType
  <2>3. Weakened(rs, rows)
    BY <1>1, Weakening
  <2>4. Shape(rs, next) /\ Owned(rs, refresh) /\ Given(refresh, next)
    BY <2>3, WeakenedKeeps DEF SessionInv
  <2>5. QED
    BY <2>1, <2>2, <2>4, IssueKeeps DEF SessionInv
<1>12. ASSUME NEW rs \in [Id -> Row], Weakened(rs, rows), next <= MaxIds,
              rows' = DeviceAdded(rs), next' = next + 1, UNCHANGED refresh
       PROVE  SessionInv'
  <2>1. Shape(rs, next) /\ Owned(rs, refresh)
        /\ Given(refresh, next)
    BY <1>12, WeakenedKeeps DEF SessionInv
  <2>2. QED
    BY <1>1, <1>12, <2>1, DeviceAddedKeeps DEF SessionInv
<1>13. ASSUME NEW b \in Browser, CreateDeviceToken(b)
       PROVE  SessionInv'
  <2>1. access[b].sid \in Id
    BY <1>2, <1>13 DEF CreateDeviceToken, Authenticated
  <2>2. Touched(rows, access[b].sid) \in [Id -> Row]
    BY <1>1, <2>1, TouchedType DEF TypeOK
  <2>3. QED
    BY <1>1, <1>12, <1>13, <2>1, <2>2, Weakening
       DEF CreateDeviceToken, DeviceAllowed, cookies
<1>14. ASSUME NEW b \in Browser, NEW i \in Id, RevokeToken(b, i)
       PROVE  SessionInv'
  BY <1>1, <1>2, <1>14, Weakening, WeakenedStep DEF RevokeToken, Authenticated, cookies
<1>15. CASE ResetPassword
  BY <1>1, <1>15, Weakening, WeakenedStep DEF ResetPassword, cookies
<1>16. ASSUME NEW s, NEW p \in BOOLEAN, AdminUpdate(s, p)
       PROVE  SessionInv'
  <2>1. CASE p
    BY <1>1, <1>16, <2>1, Weakening, WeakenedStep DEF AdminUpdate, cookies
  <2>2. CASE ~p
    BY <1>16, <2>2 DEF AdminUpdate, cookies, SessionInv
  <2>3. QED
    BY <2>1, <2>2
<1>17. CASE AdminDelete
  <2>1. Weakened(rows', rows)
    BY <1>17 DEF AdminDelete, Weakened
  <2>2. QED
    BY <1>17, <2>1, WeakenedStep DEF AdminDelete, cookies
<1>18. CASE AdminCreateToken
  BY <1>1, <1>12, <1>18, Weakening DEF AdminCreateToken, DeviceAllowed, cookies
<1>19. ASSUME NEW S, AdminRevoke(S)
       PROVE  SessionInv'
  BY <1>1, <1>19, Weakening, WeakenedStep DEF AdminRevoke, cookies
<1>20. CASE Tick
  BY <1>20 DEF Tick, cookies, SessionInv
<1>21. QED
  BY <1>3, <1>4, <1>5, <1>6, <1>7, <1>8, <1>9, <1>10, <1>11, <1>13, <1>14,
     <1>15, <1>16, <1>17, <1>18, <1>19, <1>20 DEF Next

LEMMA SessionInvariant == Spec => [](TypeOK /\ SessionInv)
<1>1. Init => SessionInv
  <2>1. ASSUME Init
        PROVE  /\ \A i \in Id : rows[i].kind = "none"
               /\ \A b \in Browser : refresh[b].id = 0
               /\ next = 1
    BY <2>1 DEF Init, NoRow, NoRefresh
  <2>2. ASSUME Init
        PROVE  SessionInv
    BY <2>1, <2>2 DEF SessionInv, Shape, Given, Owned
  <2>3. QED
    BY <2>2
<1>2. TypeOK /\ SessionInv /\ [Next]_vars => SessionInv'
  BY SessionStep
<1>3. QED
  BY <1>1, <1>2, TypeCorrect, PTL DEF Spec

-----------------------------------------------------------------------------
(* Versions *)

\* Row i of rt is live only if it was in rs, with the same version.
SameVersion(rt, rs, i) == LiveIn(rt, i) => LiveIn(rs, i) /\ rt[i].version = rs[i].version

LEMMA WeakenedVersion ==
  ASSUME NEW rs, NEW rt, Weakened(rt, rs)
  PROVE  \A i \in Id : SameVersion(rt, rs, i)
<1>1. \A i \in Id : rt[i] = NoRow => ~LiveIn(rt, i)
  BY DEF NoRow, LiveIn
<1>2. QED
  BY <1>1 DEF Weakened, SameVersion, LiveIn

LEMMA DeviceVersion ==
  ASSUME NEW rs \in [Id -> Row], NEW i \in Id
  PROVE  SameVersion(DeviceAdded(rs), rs, i)
<1>1. CASE i = next
  BY <1>1 DEF DeviceAdded, SameVersion, LiveIn
<1>2. CASE i # next
  BY <1>2 DEF DeviceAdded, SameVersion, LiveIn
<1>3. QED
  BY <1>1, <1>2

\* The session that is given has the version of its tokens, the rest keep theirs.
LEMMA IssueVersion ==
  ASSUME TypeOK, NEW rs \in [Id -> Row], NEW b \in Browser, NEW v \in Nat,
         Issue(rs, b, v), NEW i \in Id, LiveIn(rows', i)
  PROVE  rows'[i].version = v \/ SameVersion(rows', rs, i)
<1> DEFINE kept == Cleaned(rs)
           new == Added(kept, b, v)
<1>1. kept \in [Id -> Row] /\ SameVersion(kept, rs, i)
  BY CleanedType, Weakening, WeakenedVersion
<1>2. ASSUME NEW j \in Reusable(kept, b), rows' = Rotated(kept, j, v)
      PROVE  rows'[i].version = v \/ SameVersion(rows', rs, i)
  <2>1. CASE i = j
    BY <1>1, <1>2, <2>1 DEF Rotated, Row
  <2>2. CASE i # j
    BY <1>1, <1>2, <2>2 DEF Rotated, SameVersion, LiveIn
  <2>3. QED
    BY <2>1, <2>2
<1>3. ASSUME NEW S, rows' = Revoked(new, S)
      PROVE  rows'[i].version = v \/ SameVersion(rows', rs, i)
  <2>1. new \in [Id -> Row]
    BY <1>1, AddedType DEF TypeOK, Issue
  <2>2. SameVersion(rows', new, i)
    BY <1>3, <2>1, Weakening, WeakenedVersion
  <2>3. new[i].version = v \/ new[i] = kept[i]
    BY <1>1 DEF Added
  <2>4. QED
    BY <1>1, <2>2, <2>3 DEF SameVersion, LiveIn
<1>4. QED
  BY <1>2, <1>3 DEF Issue

\* No session is live after the rows of all sessions are revoked.
LEMMA AllRevoked ==
  ASSUME NEW rs \in [Id -> Row], NEW i \in Id
  PROVE  ~LiveIn(Revoked(rs, SessionRows(rs)), i)
BY DEF LiveIn, Revoked, SessionRows, Row

\* A login that checked the password under another version signs in.
Overtaken == \E l \in logging \ logging' : l.version # version

LEMMA GhostStep ==
  ASSUME TypeOK, Next, NEW i \in Id, LiveIn(rows', i), rows'[i].version # version'
  PROVE  \/ Overtaken
         \/ Live(i) /\ rows[i].version # version /\ version' = version
<1> DEFINE Kept == SameVersion(rows', rows, i) /\ version' = version
<1>1. rows \in [Id -> Row] /\ version \in Nat
  BY DEF TypeOK
<1>2. \A b \in Browser : SignedIn(b) => access[b].sid \in Id
  BY DEF SignedIn, Accepted
<1>3. Kept => Live(i) /\ rows[i].version # version /\ version' = version
  BY DEF SameVersion, Live
<1>4. ASSUME NEW l \in logging, LoginIssue(l)
      PROVE  Overtaken \/ Kept
  <2>1. PICK v \in l.version..version : Issue(rows, l.browser, v)
    BY <1>4 DEF LoginIssue
  <2>2. l.browser \in Browser /\ v \in Nat /\ l.version \in Nat
    BY LoginVersion
  <2>3. version' = version /\ l \in logging \ logging'
    BY <1>4 DEF LoginIssue
  <2>4. rows'[i].version = v \/ SameVersion(rows', rows, i)
    BY <1>1, <2>1, <2>2, IssueVersion
  <2>5. v # version => l.version # version
    BY <1>1, <2>1, <2>2
  <2>6. QED
    BY <2>3, <2>4, <2>5 DEF Overtaken
<1>5. ASSUME NEW b \in Browser, \/ Register(b) \/ LoginCheck(b) \/ Renew(b) \/ Request(b)
                                \/ TimedOut(b) \/ Logout(b) \/ RevokeOtherTokens(b)
      PROVE  Kept
  <2>1. Weakened(rows', rows)
    BY <1>1, <1>2, <1>5, Weakening
       DEF Register, LoginCheck, Renew, Request, TimedOut, Logout, RevokeOtherTokens,
           Authenticated
  <2>2. version' = version
    BY <1>5 DEF Register, LoginCheck, Renew, Request, TimedOut, Logout, RevokeOtherTokens
  <2>3. QED
    BY <2>1, <2>2, WeakenedVersion
<1>6. ASSUME NEW b \in Browser, RevokeAllTokens(b)
      PROVE  FALSE
  <2> DEFINE touched == Touched(rows, access[b].sid)
             all == {j \in Id : rows[j].kind # "none"}
  <2>1. CASE Authenticated(b) /\ rows' = Revoked(touched, all)
    <3>1. access[b].sid \in Id
      BY <1>2, <2>1 DEF Authenticated
    <3>2. touched \in [Id -> Row] /\ touched[i].kind = rows[i].kind
      BY <1>1, <3>1, TouchedType DEF Touched, TypeOK
    <3>3. ~LiveIn(rows', i)
      BY <2>1, <3>2 DEF LiveIn, Revoked, Row
    <3>4. QED
      BY <3>3
  <2>2. CASE rows' = Revoked(rows, all)
    <3>1. ~LiveIn(rows', i)
      BY <1>1, <2>2 DEF LiveIn, Revoked, Row
    <3>2. QED
      BY <3>1
  <2>3. QED
    BY <1>6, <2>1, <2>2 DEF RevokeAllTokens
<1>7. ASSUME NEW b \in Browser, ChangePassword(b)
      PROVE  FALSE
  <2> DEFINE rs == Revoked(rows, SessionRows(rows))
  <2>1. Issue(rs, b, version') /\ version' \in Nat
    BY <1>1, <1>7 DEF ChangePassword
  <2>2. rs \in [Id -> Row] /\ ~LiveIn(rs, i)
    BY <1>1, RevokedType, AllRevoked
  <2>3. QED
    BY <2>1, <2>2, IssueVersion DEF SameVersion
<1>8. ASSUME NEW b \in Browser, CreateDeviceToken(b)
      PROVE  Kept
  <2> DEFINE touched == Touched(rows, access[b].sid)
  <2>1. access[b].sid \in Id
    BY <1>2, <1>8 DEF CreateDeviceToken, Authenticated
  <2>2. touched \in [Id -> Row] /\ SameVersion(touched, rows, i)
    BY <1>1, <2>1, TouchedType, Weakening, WeakenedVersion DEF TypeOK
  <2>3. SameVersion(DeviceAdded(touched), touched, i)
    BY <2>2, DeviceVersion
  <2>4. rows' = DeviceAdded(touched) /\ version' = version
    BY <1>8 DEF CreateDeviceToken
  <2>5. QED
    BY <2>2, <2>3, <2>4 DEF SameVersion
<1>9. ASSUME NEW b \in Browser, NEW j \in Id, RevokeToken(b, j)
      PROVE  Kept
  <2>1. Weakened(rows', rows) /\ version' = version
    BY <1>1, <1>2, <1>9, Weakening DEF RevokeToken, Authenticated
  <2>2. QED
    BY <2>1, WeakenedVersion
<1>10. CASE ResetPassword
  BY <1>1, <1>10, AllRevoked DEF ResetPassword
<1>11. ASSUME NEW s, NEW p \in BOOLEAN, AdminUpdate(s, p)
       PROVE  Kept
  <2>1. p => rows' = Revoked(rows, SessionRows(rows))
    BY <1>11 DEF AdminUpdate
  <2>2. ~p
    BY <1>1, <2>1, AllRevoked
  <2>3. QED
    BY <1>11, <2>2 DEF AdminUpdate, SameVersion, LiveIn
<1>12. CASE AdminDelete
  BY <1>12 DEF AdminDelete, LiveIn, NoRow
<1>13. CASE AdminCreateToken
  BY <1>1, <1>3, <1>13, DeviceVersion DEF AdminCreateToken
<1>14. ASSUME NEW S, AdminRevoke(S)
       PROVE  Kept
  BY <1>1, <1>14, Weakening, WeakenedVersion DEF AdminRevoke
<1>15. CASE Tick
  BY <1>3, <1>15 DEF Tick, SameVersion
<1>16. QED
  BY <1>3, <1>4, <1>5, <1>6, <1>7, <1>8, <1>9, <1>10, <1>11, <1>12, <1>13, <1>14,
     <1>15 DEF Next

\* A session that is live under an old password version was signed in by a login
\* that the change overtook, and the next change ends it.
THEOREM GhostsAreOvertakenLogins == Spec => GhostsOnlyByLogin
<1> DEFINE Ghost(i) ==
             LiveIn(rows', i) /\ rows'[i].version # version'
               => \/ \E l \in logging \ logging' : l.version # version
                  \/ Live(i) /\ rows[i].version # version /\ version' = version
<1>1. ASSUME TypeOK, [Next]_vars
      PROVE  [\A i \in Id : Ghost(i)]_vars
  <2>1. CASE UNCHANGED vars
    BY <2>1
  <2>2. CASE Next
    BY <1>1, <2>2, GhostStep DEF Overtaken
  <2>3. QED
    BY <1>1, <2>1, <2>2
<1>2. QED
  BY <1>1, TypeCorrect, PTL DEF Spec, GhostsOnlyByLogin

-----------------------------------------------------------------------------
(* Renewal *)

\* Row i of rt is still the session that row i of rs is, live or not.
SameSession(rt, rs, i) == rt[i].kind = rs[i].kind /\ rt[i].token = rs[i].token

LEMMA SessionStays ==
  ASSUME NEW rs \in [Id -> Row], NEW i \in Id
  PROVE  /\ \A j \in Id : SameSession(Touched(rs, j), rs, i)
         /\ \A S : SameSession(Revoked(rs, S), rs, i)
         /\ \A j \in Id : \A S : SameSession(Revoked(Touched(rs, j), S), rs, i)
         /\ i # next => SameSession(DeviceAdded(rs), rs, i)
<1>1. \A j \in Id : SameSession(Touched(rs, j), rs, i)
  BY DEF SameSession, Touched, Row
<1>2. \A S : SameSession(Revoked(rs, S), rs, i)
  BY DEF SameSession, Revoked, Row
<1>3. \A j \in Id : \A S : SameSession(Revoked(Touched(rs, j), S), rs, i)
  BY DEF SameSession, Revoked, Touched, Row
<1>4. i # next => SameSession(DeviceAdded(rs), rs, i)
  BY DEF SameSession, DeviceAdded
<1>5. QED
  BY <1>1, <1>2, <1>3, <1>4

\* A login of another user agent leaves a session that is not expired in place.
LEMMA LoginLeavesOthers ==
  ASSUME TypeOK, SessionInv, NEW c \in Browser, NEW v \in Nat, Issue(rows, c, v),
         NEW i \in Id, Live(i), rows[i].agent # UserAgent[c], now <= rows[i].expires
  PROVE  SameSession(rows', rows, i)
<1> DEFINE kept == Cleaned(rows)
           same == Reusable(kept, c)
           new == Added(kept, c, v)
<1>1. rows \in [Id -> Row] /\ kept \in [Id -> Row]
  BY CleanedType DEF TypeOK
<1>2. rows[i].expires \in Nat /\ now \in Nat
  BY <1>1 DEF TypeOK, Row
<1>3. kept[i] = rows[i]
  BY <1>2 DEF Cleaned, Live, LiveIn
<1>4. i # next
  <2>1. i \in Nat /\ next \in Nat
    BY DEF Id, TypeOK
  <2>2. rows[i].kind = "session"
    BY DEF Live, LiveIn
  <2>3. QED
    BY <2>1, <2>2 DEF SessionInv, Shape
<1>5. ASSUME NEW j \in same, rows' = Rotated(kept, j, v)
      PROVE  SameSession(rows', rows, i)
  <2>1. kept[j].agent = UserAgent[c]
    BY DEF Reusable
  <2>2. j # i
    BY <1>3, <2>1
  <2>3. QED
    BY <1>1, <1>3, <1>5, <2>2 DEF Rotated, SameSession
<1>6. ASSUME NEW S, rows' = Revoked(new, S)
      PROVE  SameSession(rows', rows, i)
  <2>1. new \in [Id -> Row]
    BY <1>1, AddedType DEF TypeOK, Issue
  <2>2. new[i] = rows[i]
    BY <1>1, <1>3, <1>4 DEF Added
  <2>3. SameSession(Revoked(new, S), new, i)
    BY <2>1, SessionStays
  <2>4. QED
    BY <1>6, <2>2, <2>3 DEF SameSession
<1>7. QED
  BY <1>5, <1>6 DEF Issue

LEMMA RenewalStep ==
  ASSUME TypeOK, SessionInv, Next, NEW b \in Browser, Renewable(b), ~Renewable(b)',
         UNCHANGED <<now, version>>, account' # "deleted", refresh'[b] = refresh[b],
         \A l \in logging \ logging' : UserAgent[l.browser] # UserAgent[b]
  PROVE  \E i \in Id : Matches(i, b) /\ rows'[i].revoked
<1>1. PICK i \in Id : Matches(i, b) /\ ~rows[i].revoked
  BY DEF Renewable
<1>2. rows \in [Id -> Row] /\ refresh \in [Browser -> Refresh] /\ version \in Nat
      /\ now \in Nat
  BY DEF TypeOK
<1>3. rows[i].agent = UserAgent[b] /\ refresh[b].exp <= rows[i].expires
  BY <1>1 DEF SessionInv, Owned, Matches
<1>4. now <= rows[i].expires
  BY <1>2, <1>3 DEF Renewable, Row, Refresh
<1>5. i # next
  <2>1. i \in Nat /\ next \in Nat
    BY DEF Id, TypeOK
  <2>2. rows[i].kind = "session"
    BY <1>1 DEF Matches
  <2>3. QED
    BY <2>1, <2>2 DEF SessionInv, Shape
<1>6. \A c \in Browser : SignedIn(c) => access[c].sid \in Id
  BY DEF SignedIn, Accepted
<1>7. version' # version + 1 /\ account # "unregistered" /\ account # "deleted"
  BY <1>2 DEF Renewable, Exists
<1>8. \A S : SameSession(Revoked(rows, S), rows, i)
      /\ \A j \in Id : SameSession(Revoked(Touched(rows, j), S), rows, i)
  BY <1>2, SessionStays
<1>9. \A j \in Id : SameSession(Touched(rows, j), rows, i)
  BY <1>2, SessionStays
<1>10. \A rs \in [Id -> Row] : SameSession(rs, rows, i)
                               => SameSession(DeviceAdded(rs), rows, i)
  BY <1>5, SessionStays DEF SameSession
<1>11. Exists'
  BY <1>7 DEF Next, Exists, Renewable, Register, LoginCheck, LoginIssue, Renew, Request,
     TimedOut, Logout, RevokeOtherTokens, RevokeAllTokens, ChangePassword,
     CreateDeviceToken, RevokeToken, ResetPassword, AdminUpdate, AdminDelete,
     AdminCreateToken, AdminRevoke, Tick
<1>12. SUFFICES SameSession(rows', rows, i)
  <2>1. ASSUME SameSession(rows', rows, i), ~rows'[i].revoked
        PROVE  FALSE
    <3>1. rows'[i].kind = "session" /\ rows'[i].token = refresh'[b].id
      BY <1>1, <2>1 DEF SameSession, Matches
    <3>2. now' < refresh'[b].exp /\ refresh'[b].version = version'
      BY DEF Renewable
    <3>3. Renewable(b)'
      BY <1>11, <2>1, <3>1, <3>2 DEF Renewable, Matches
    <3>4. QED
      BY <3>3
  <2>2. QED
    BY <1>1, <2>1
<1>13. ASSUME NEW l \in logging, LoginIssue(l)
       PROVE  SameSession(rows', rows, i)
  <2>1. /\ l.browser \in Browser /\ UserAgent[l.browser] # UserAgent[b]
        /\ \E v \in Nat : Issue(rows, l.browser, v)
    BY <1>13, LoginVersion DEF LoginIssue
  <2>2. Live(i)
    BY <1>1 DEF Live, LiveIn, Matches
  <2>3. QED
    BY <1>3, <1>4, <2>1, <2>2, LoginLeavesOthers
<1>14. ASSUME NEW c \in Browser, Renew(c)
       PROVE  SameSession(rows', rows, i)
  BY <1>9, <1>14 DEF Renew
<1>15. ASSUME NEW c \in Browser, \/ LoginCheck(c) \/ Request(c) \/ TimedOut(c) \/ Logout(c)
                                 \/ RevokeOtherTokens(c) \/ RevokeAllTokens(c)
       PROVE  SameSession(rows', rows, i)
  BY <1>6, <1>8, <1>9, <1>15
     DEF LoginCheck, Request, TimedOut, Logout, RevokeOtherTokens, RevokeAllTokens,
         Authenticated, SameSession
<1>16. ASSUME NEW c \in Browser, CreateDeviceToken(c)
       PROVE  SameSession(rows', rows, i)
  <2>1. access[c].sid \in Id /\ rows' = DeviceAdded(Touched(rows, access[c].sid))
    BY <1>6, <1>16 DEF CreateDeviceToken, Authenticated
  <2>2. Touched(rows, access[c].sid) \in [Id -> Row]
    BY <1>2, <2>1, TouchedType
  <2>3. QED
    BY <1>9, <1>10, <2>1, <2>2
<1>17. ASSUME NEW c \in Browser, NEW j \in Id, RevokeToken(c, j)
       PROVE  SameSession(rows', rows, i)
  BY <1>6, <1>8, <1>17 DEF RevokeToken, Authenticated
<1>18. ASSUME NEW s, NEW p \in BOOLEAN, AdminUpdate(s, p)
       PROVE  SameSession(rows', rows, i)
  BY <1>8, <1>18 DEF AdminUpdate, SameSession
<1>19. CASE AdminCreateToken
  BY <1>2, <1>10, <1>19 DEF AdminCreateToken, SameSession
<1>20. ASSUME NEW S, AdminRevoke(S)
       PROVE  SameSession(rows', rows, i)
  BY <1>8, <1>20 DEF AdminRevoke
<1>21. ASSUME NEW c \in Browser
       PROVE  ~Register(c) /\ ~ChangePassword(c)
  BY <1>7 DEF Register, ChangePassword
<1>22. ~ResetPassword /\ ~AdminDelete /\ ~Tick
  BY <1>2, <1>7 DEF ResetPassword, AdminDelete, Tick
<1>23. QED
  BY <1>13, <1>14, <1>15, <1>16, <1>17, <1>18, <1>19, <1>20, <1>21, <1>22 DEF Next

\* A browser loses the power to renew its session only by the end of its token, a
\* new password, the deletion of the account, the revocation of its row, or a login
\* of a browser with its user agent; never by the clean-up of another login.
THEOREM RenewalsEndForAReason == Spec => RenewalEndsForAReason
<1> DEFINE Reason(b) ==
             Renewable(b) /\ ~Renewable(b)' =>
               \/ refresh'[b] # refresh[b]
               \/ now' # now \/ version' # version \/ account' = "deleted"
               \/ \E i \in Id : Matches(i, b) /\ rows'[i].revoked
               \/ \E l \in logging \ logging' : UserAgent[l.browser] = UserAgent[b]
<1>1. ASSUME TypeOK, SessionInv, [Next]_vars
      PROVE  [\A b \in Browser : Reason(b)]_vars
  <2>1. CASE UNCHANGED vars
    BY <2>1
  <2>2. CASE Next
    <3>1. ASSUME NEW b \in Browser
          PROVE  Reason(b)
      BY <1>1, <2>2, <3>1, RenewalStep
    <3>2. QED
      BY <3>1
  <2>3. QED
    BY <1>1, <2>1, <2>2
<1>2. QED
  BY <1>1, SessionInvariant, PTL DEF Spec, RenewalEndsForAReason

-----------------------------------------------------------------------------
(* The limit *)

LiveRows(rs) == {i \in Id : LiveIn(rs, i)}
Within(rs) == MaxSessions > 0 => Cardinality(LiveRows(rs)) <= MaxSessions

\* No row is live in rt that was not in rs.
NoneRevived(rt, rs) == \A i \in Id : LiveIn(rt, i) => LiveIn(rs, i)

LEMMA IdFinite == IsFiniteSet(Id)
BY SessionConstantsOK, FS_Interval DEF Id

LEMMA FewerWithin ==
  ASSUME NEW rs, NEW rt, NoneRevived(rt, rs), Within(rs)
  PROVE  Within(rt)
<1>1. LiveRows(rt) \subseteq LiveRows(rs) /\ LiveRows(rs) \subseteq Id
  BY DEF LiveRows, NoneRevived
<1>2. IsFiniteSet(LiveRows(rs))
  BY <1>1, IdFinite, FS_Subset
<1>3. /\ Cardinality(LiveRows(rt)) <= Cardinality(LiveRows(rs))
      /\ Cardinality(LiveRows(rt)) \in Nat /\ Cardinality(LiveRows(rs)) \in Nat
  BY <1>1, <1>2, FS_Subset, FS_CardinalityType
<1>4. MaxSessions \in Nat
  BY SessionConstantsOK
<1>5. QED
  BY <1>3, <1>4 DEF Within

LEMMA WeakenedRevivesNone ==
  ASSUME NEW rs, NEW rt, Weakened(rt, rs)
  PROVE  NoneRevived(rt, rs)
BY WeakenedVersion DEF NoneRevived, SameVersion

LEMMA DeviceRevivesNone ==
  ASSUME NEW rs \in [Id -> Row]
  PROVE  NoneRevived(DeviceAdded(rs), rs)
BY DeviceVersion DEF NoneRevived, SameVersion

\* A session more is made up for by as many revocations as bring the account
\* back to its limit; a reused row is no session more.
LEMMA IssueWithin ==
  ASSUME TypeOK, NEW rs \in [Id -> Row], NEW b \in Browser, NEW v \in Nat,
         Issue(rs, b, v), Within(rs)
  PROVE  Within(rows')
<1> DEFINE kept == Cleaned(rs)
           new == Added(kept, b, v)
<1>1. kept \in [Id -> Row] /\ NoneRevived(kept, rs) /\ Within(kept)
  BY CleanedType, Weakening, WeakenedRevivesNone, FewerWithin
<1>2. ASSUME NEW j \in Reusable(kept, b), rows' = Rotated(kept, j, v)
      PROVE  Within(rows')
  <2>1. LiveIn(kept, j)
    BY DEF Reusable
  <2>2. NoneRevived(rows', kept)
    BY <1>1, <1>2, <2>1 DEF NoneRevived, Rotated, LiveIn
  <2>3. QED
    BY <1>1, <2>2, FewerWithin
<1>3. ASSUME NEW S \in Overflow(new), rows' = Revoked(new, S)
      PROVE  Within(rows')
  <2>1. new \in [Id -> Row]
    BY <1>1, AddedType DEF TypeOK, Issue
  <2>2. LiveRows(rows') = LiveRows(new) \ S
    BY <1>3, <2>1 DEF LiveRows, LiveIn, Revoked, Row
  <2>3. CASE MaxSessions = 0
    BY <2>3 DEF Within
  <2>4. CASE MaxSessions # 0 /\ Cardinality(LiveRows(new)) <= MaxSessions
    <3>1. S = {}
      BY <2>4 DEF Overflow, LiveRows
    <3>2. LiveRows(rows') = LiveRows(new)
      BY <2>2, <3>1
    <3>3. QED
      BY <2>4, <3>2 DEF Within
  <2>5. CASE MaxSessions # 0 /\ ~(Cardinality(LiveRows(new)) <= MaxSessions)
    <3>1. Cardinality(LiveRows(new) \ S) = MaxSessions
      BY <2>5 DEF Overflow, LiveRows
    <3>2. QED
      BY <2>2, <3>1, SessionConstantsOK DEF Within
  <2>6. QED
    BY <2>3, <2>4, <2>5
<1>4. QED
  BY <1>2, <1>3 DEF Issue

\* Only the issue of a session brings one to life.
LEMMA LiveStep ==
  ASSUME TypeOK, [Next]_vars
  PROVE  \/ NoneRevived(rows', rows)
         \/ \E rs \in [Id -> Row], b \in Browser, v \in Nat :
              Issue(rs, b, v) /\ NoneRevived(rs, rows)
<1>1. rows \in [Id -> Row] /\ version \in Nat
  BY DEF TypeOK
<1>2. \A b \in Browser : SignedIn(b) => access[b].sid \in Id
  BY DEF SignedIn, Accepted
<1>3. \A S : NoneRevived(Revoked(rows, S), rows)
  BY <1>1, Weakening, WeakenedRevivesNone
<1>4. ASSUME NEW l \in logging, LoginIssue(l)
      PROVE  \E b \in Browser, v \in Nat : Issue(rows, b, v)
  BY <1>4, LoginVersion DEF LoginIssue
<1>5. ASSUME NEW b \in Browser, \/ Register(b) \/ LoginCheck(b) \/ Renew(b) \/ Request(b)
                                \/ TimedOut(b) \/ Logout(b)
                                \/ RevokeOtherTokens(b) \/ RevokeAllTokens(b)
      PROVE  NoneRevived(rows', rows)
  <2>1. Weakened(rows', rows)
    BY <1>1, <1>2, <1>5, Weakening
       DEF Register, LoginCheck, Renew, Request, TimedOut, Logout, RevokeOtherTokens,
           RevokeAllTokens, Authenticated
  <2>2. QED
    BY <2>1, WeakenedRevivesNone
<1>6. ASSUME NEW b \in Browser, ChangePassword(b)
      PROVE  \E rs \in [Id -> Row], v \in Nat : Issue(rs, b, v) /\ NoneRevived(rs, rows)
  <2>1. version' \in Nat /\ Issue(Revoked(rows, SessionRows(rows)), b, version')
    BY <1>1, <1>6 DEF ChangePassword
  <2>2. Revoked(rows, SessionRows(rows)) \in [Id -> Row]
    BY <1>1, RevokedType
  <2>3. QED
    BY <1>3, <2>1, <2>2
<1>7. ASSUME NEW b \in Browser, CreateDeviceToken(b)
      PROVE  NoneRevived(rows', rows)
  <2> DEFINE touched == Touched(rows, access[b].sid)
  <2>1. access[b].sid \in Id /\ rows' = DeviceAdded(touched)
    BY <1>2, <1>7 DEF CreateDeviceToken, Authenticated
  <2>2. touched \in [Id -> Row] /\ NoneRevived(touched, rows)
    BY <1>1, <2>1, TouchedType, Weakening, WeakenedRevivesNone DEF TypeOK
  <2>3. NoneRevived(DeviceAdded(touched), touched)
    BY <2>2, DeviceRevivesNone
  <2>4. QED
    BY <2>1, <2>2, <2>3 DEF NoneRevived
<1>8. ASSUME NEW b \in Browser, NEW j \in Id, RevokeToken(b, j)
      PROVE  NoneRevived(rows', rows)
  <2>1. Weakened(rows', rows)
    BY <1>1, <1>2, <1>8, Weakening DEF RevokeToken, Authenticated
  <2>2. QED
    BY <2>1, WeakenedRevivesNone
<1>9. CASE ResetPassword
  BY <1>3, <1>9 DEF ResetPassword
<1>10. ASSUME NEW s, NEW p \in BOOLEAN, AdminUpdate(s, p)
       PROVE  NoneRevived(rows', rows)
  <2>1. rows' = rows \/ rows' = Revoked(rows, SessionRows(rows))
    BY <1>10 DEF AdminUpdate
  <2>2. QED
    BY <1>3, <2>1 DEF NoneRevived
<1>11. CASE AdminDelete
  BY <1>11 DEF AdminDelete, NoneRevived, LiveIn, NoRow
<1>12. CASE AdminCreateToken
  BY <1>1, <1>12, DeviceRevivesNone DEF AdminCreateToken
<1>13. ASSUME NEW S, AdminRevoke(S)
       PROVE  NoneRevived(rows', rows)
  BY <1>3, <1>13 DEF AdminRevoke
<1>14. CASE Tick \/ UNCHANGED vars
  BY <1>14 DEF Tick, vars, NoneRevived
<1>15. NoneRevived(rows, rows)
  BY DEF NoneRevived
<1>16. QED
  BY <1>1, <1>4, <1>5, <1>6, <1>7, <1>8, <1>9, <1>10, <1>11, <1>12, <1>13, <1>14, <1>15
     DEF Next

\* At no time does the account have more live sessions than the limit, whatever
\* the order of logins, changes of password and revocations.
THEOREM LimitKept == Spec => []SessionsWithinLimit
<1>1. Init => Within(rows)
  <2>1. ASSUME Init
        PROVE  LiveRows(rows) = {}
    BY <2>1 DEF Init, LiveRows, LiveIn, NoRow
  <2>2. QED
    BY <2>1, FS_EmptySet, SessionConstantsOK DEF Within
<1>2. TypeOK /\ Within(rows) /\ [Next]_vars => Within(rows)'
  <2> SUFFICES ASSUME TypeOK, Within(rows), [Next]_vars
               PROVE  Within(rows')
    OBVIOUS
  <2>1. CASE NoneRevived(rows', rows)
    BY <2>1, FewerWithin
  <2>2. ASSUME NEW rs \in [Id -> Row], NEW b \in Browser, NEW v \in Nat,
               Issue(rs, b, v), NoneRevived(rs, rows)
        PROVE  Within(rows')
    <3>1. Within(rs)
      BY <2>2, FewerWithin
    <3>2. QED
      BY <2>2, <3>1, IssueWithin
  <2>3. QED
    BY <2>1, <2>2, LiveStep
<1>3. Within(rows) => SessionsWithinLimit
  BY DEF Within, LiveRows, Live, SessionsWithinLimit
<1>4. QED
  BY <1>1, <1>2, <1>3, TypeCorrect, PTL DEF Spec

-----------------------------------------------------------------------------
(* The caller *)

\* No login is in flight before the account is registered.
LoginsLater == account = "unregistered" => logging = {}

LEMMA LoginsStep == LoginsLater /\ [Next]_vars => LoginsLater'
<1> SUFFICES ASSUME LoginsLater, [Next]_vars
             PROVE  LoginsLater'
  OBVIOUS
<1> USE DEF LoginsLater
<1>1. CASE UNCHANGED <<account, logging>>
  BY <1>1
<1>2. ASSUME NEW b \in Browser, Register(b) \/ LoginCheck(b)
      PROVE  LoginsLater'
  BY <1>2 DEF Register, LoginCheck
<1>3. ASSUME NEW l \in logging, LoginIssue(l)
      PROVE  LoginsLater'
  BY <1>3 DEF LoginIssue
<1>4. ASSUME NEW s \in {"active", "disabled"}, NEW p, AdminUpdate(s, p)
      PROVE  LoginsLater'
  BY <1>4 DEF AdminUpdate
<1>5. CASE AdminDelete
  BY <1>5 DEF AdminDelete
<1>6. QED
  BY <1>1, <1>2, <1>3, <1>4, <1>5
     DEF Next, vars, Renew, Request, TimedOut, Logout, RevokeOtherTokens,
         RevokeAllTokens, ChangePassword, CreateDeviceToken, RevokeToken,
         ResetPassword, AdminCreateToken, AdminRevoke, Tick

\* The row whose tokens are given is live, just used, and bears both tokens.
LEMMA IssuedRow ==
  ASSUME TypeOK, NEW rs \in [Id -> Row], NEW c \in Browser, NEW v \in Nat,
         Issue(rs, c, v)
  PROVE  \E i \in Id :
           /\ rows'[i].kind = "session" /\ ~rows'[i].revoked
           /\ rows'[i].token = next /\ rows'[i].used = now
           /\ Answered(c, i, v)
<1> DEFINE kept == Cleaned(rs)
           same == Reusable(kept, c)
           new == Added(kept, c, v)
<1>1. kept \in [Id -> Row]
  BY CleanedType
<1>2. ASSUME NEW i \in same, rows' = Rotated(kept, i, v), Answered(c, i, v)
      PROVE  /\ i \in Id
             /\ rows'[i].kind = "session" /\ ~rows'[i].revoked
             /\ rows'[i].token = next /\ rows'[i].used = now
  <2>1. i \in Id /\ kept[i].kind = "session" /\ ~kept[i].revoked
    BY DEF Reusable, LiveIn
  <2>2. QED
    BY <1>1, <1>2, <2>1 DEF Rotated, Row
<1>3. ASSUME NEW S \in Overflow(new), rows' = Revoked(new, S), Answered(c, next, v)
      PROVE  /\ next \in Id
             /\ rows'[next].kind = "session" /\ ~rows'[next].revoked
             /\ rows'[next].token = next /\ rows'[next].used = now
  <2>1. next \in Id
    BY SessionConstantsOK DEF TypeOK, Issue, Id
  <2>2. next \notin S
    BY DEF Overflow
  <2>3. /\ new[next].kind = "session" /\ new[next].revoked = FALSE
        /\ new[next].token = next /\ new[next].used = now
    BY <1>1, <2>1 DEF Added
  <2>4. rows'[next] = new[next]
    BY <1>3, <2>1, <2>2 DEF Revoked
  <2>5. QED
    BY <2>1, <2>3, <2>4
<1>4. QED
  BY <1>2, <1>3 DEF Issue

LEMMA IssueServes ==
  ASSUME TypeOK, NEW rs \in [Id -> Row], NEW c \in Browser, NEW v \in Nat,
         Issue(rs, c, v), now' = now, version' = v, account' \in {"active", "disabled"},
         NEW b \in Browser, refresh'[b] # refresh[b]
  PROVE  SignedIn(b)' /\ Renewable(b)'
<1>1. PICK i \in Id :
        /\ rows'[i].kind = "session" /\ ~rows'[i].revoked
        /\ rows'[i].token = next /\ rows'[i].used = now
        /\ Answered(c, i, v)
  BY IssuedRow
<1>2. now \in Nat /\ AccessTTL \in Nat \ {0} /\ RefreshTTL \in Nat \ {0} /\ IdleTimeout \in Nat
  BY SessionConstantsOK DEF TypeOK
<1>3. /\ access'[b] = [sid |-> i, version |-> v, exp |-> now + AccessTTL]
      /\ refresh'[b] = [id |-> next, version |-> v, exp |-> now + RefreshTTL]
  BY <1>1 DEF Answered, cookies, TypeOK
<1>4. now' < access'[b].exp /\ now' < refresh'[b].exp
  BY <1>2, <1>3
<1>5. Renewable(b)'
  BY <1>1, <1>3, <1>4 DEF Renewable, Exists, Matches
<1>6. Accepted(b)'
  BY <1>1, <1>3, <1>4 DEF Accepted, Exists, Live, LiveIn
<1>7. ~Idle(access[b].sid)'
  BY <1>1, <1>2, <1>3 DEF Idle
<1>8. QED
  BY <1>5, <1>6, <1>7 DEF SignedIn

\* Refresh cookies change only when tokens are issued and at a logout.
LEMMA CallerStep ==
  ASSUME TypeOK, LoginsLater, Next, NEW b \in Browser,
         refresh'[b] \notin {refresh[b], NoRefresh}
  PROVE  \/ SignedIn(b)' /\ Renewable(b)'
         \/ refresh'[b].version # version' \/ account' = "deleted"
<1>1. rows \in [Id -> Row] /\ version \in Nat /\ refresh \in [Browser -> Refresh]
  BY DEF TypeOK
<1>2. ASSUME NEW l \in logging, LoginIssue(l)
      PROVE  \/ SignedIn(b)' /\ Renewable(b)'
             \/ refresh'[b].version # version' \/ account' = "deleted"
  <2>1. PICK v \in l.version..version : Issue(rows, l.browser, v)
    BY <1>2 DEF LoginIssue
  <2>2. l.browser \in Browser /\ v \in Nat
    BY LoginVersion
  <2>3. /\ now' = now /\ version' = version /\ account' = account
        /\ account # "unregistered"
    BY <1>2 DEF LoginIssue, LoginsLater
  <2>4. account' \in {"active", "disabled", "deleted"}
    BY <2>3 DEF TypeOK
  <2>5. CASE v = version /\ account' # "deleted"
    BY <1>1, <2>1, <2>2, <2>3, <2>4, <2>5, IssueServes
  <2>6. CASE v # version
    <3>1. PICK i \in Id : Answered(l.browser, i, v)
      BY <1>1, <2>1, <2>2, IssuedRow
    <3>2. refresh'[b].version = v
      BY <1>1, <3>1 DEF Answered, cookies
    <3>3. QED
      BY <2>3, <2>6, <3>2
  <2>7. QED
    BY <2>5, <2>6
<1>3. ASSUME NEW c \in Browser, ChangePassword(c)
      PROVE  SignedIn(b)' /\ Renewable(b)'
  <2> DEFINE rs == Revoked(rows, SessionRows(rows))
  <2>1. /\ Issue(rs, c, version') /\ version' \in Nat /\ now' = now
        /\ account' = "active"
    BY <1>1, <1>3 DEF ChangePassword, Authenticated, ByToken
  <2>2. rs \in [Id -> Row]
    BY <1>1, RevokedType
  <2>3. QED
    BY <2>1, <2>2, IssueServes
<1>4. ASSUME NEW c \in Browser, Logout(c)
      PROVE  FALSE
  BY <1>1, <1>4 DEF Logout, cookies
<1>5. ASSUME UNCHANGED refresh
      PROVE  FALSE
  BY <1>5
<1>6. QED
  BY <1>2, <1>3, <1>4, <1>5
     DEF Next, cookies, Register, LoginCheck, Renew, Request, TimedOut,
         RevokeOtherTokens, RevokeAllTokens, CreateDeviceToken, RevokeToken,
         ResetPassword, AdminUpdate, AdminDelete, AdminCreateToken, AdminRevoke, Tick

\* Tokens that reach a browser work at once: neither the clean-up, nor the limit,
\* nor the revocation that comes with a new password hits the session just given.
THEOREM CallersStayIn == Spec => CallerStaysIn
<1> DEFINE Stays(b) ==
             refresh'[b] \notin {refresh[b], NoRefresh}
               => \/ SignedIn(b)' /\ Renewable(b)'
                  \/ refresh'[b].version # version' \/ account' = "deleted"
<1>1. Init => LoginsLater
  BY DEF Init, LoginsLater
<1>2. ASSUME TypeOK, LoginsLater, [Next]_vars
      PROVE  [\A b \in Browser : Stays(b)]_vars
  <2>1. CASE UNCHANGED vars
    BY <2>1
  <2>2. CASE Next
    <3>1. ASSUME NEW b \in Browser
          PROVE  Stays(b)
      BY <1>2, <2>2, <3>1, CallerStep
    <3>2. QED
      BY <3>1
  <2>3. QED
    BY <1>2, <2>1, <2>2
<1>3. QED
  BY <1>1, <1>2, LoginsStep, TypeCorrect, PTL DEF Spec, CallerStaysIn
=============================================================================
