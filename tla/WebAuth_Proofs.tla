---------------------------- MODULE WebAuth_Proofs ----------------------------
(***************************************************************************)
(* Sessions and password changes, for any number of browsers, requests,    *)
(* users, addresses and roles, and for any lifetime.                       *)
(***************************************************************************)
EXTENDS WebAuth, TLAPS

\* Stamps are of the past, and there are none without the column.
StampsPast == \A u \in UserIds :
    /\ account[u].password_changed_at <= now
    /\ ~ HasStamp => account[u].password_changed_at = 0

\* The login read the account as it was after some number of changes, and its
\* stamp is of that time: it can only differ if the password changed since.
InEpoch(c) ==
    /\ c.epoch <= account[c.user_id].changes
    /\ c.epoch = account[c.user_id].changes =>
          c.password_changed_at = account[c.user_id].password_changed_at

\* A session that was issued: the login is no earlier than the stamp it read.
IssuedSound(c) == c \in Claims => InEpoch(c) /\ c.password_changed_at <= c.login_at

\* What a login has read before its session is issued.
ReadSound(c) == c \in Claims /\ InEpoch(c) /\ c.password_changed_at <= now

\* Why a request failed or passed, as it still holds.
VerdictSound(q) ==
    /\ q.step # "finish" => q.fail = "none"
    /\ q.fail = "expired" => q.loaded \in Claims /\ Expired(q.loaded)
    /\ q.fail = "passwordChanged" =>
          /\ q.loaded \in Claims /\ PasswordChanged(q.loaded)
          /\ q.loaded.epoch < account[q.loaded.user_id].changes
    /\ q.step = "handle" /\ q.role = RoleAdmin /\ IPHashSet /\ q.loaded.login_ip # NoIP =>
          q.loaded.login_ip = q.ip

RequestSound(q) ==
    /\ IF q.step = "issue" THEN ReadSound(q.loaded) ELSE IssuedSound(q.loaded)
    /\ IssuedSound(q.saved)
    /\ VerdictSound(q)

IInv ==
    /\ TypeOK
    /\ StampsPast
    /\ \A b \in Browsers : IssuedSound(jar[b])
    /\ \A r \in Requests : RequestSound(req[r])

(***************************************************************************)
(* Lemmas: the values that occur.                                          *)
(***************************************************************************)
\* The markers of an empty and of an untouched session are no sessions.
LEMMA Markers ==
    /\ \A c \in Claims : c # Empty /\ c # Untouched
    /\ Empty # Untouched
<1>1. \A c \in Claims : DOMAIN c = {"user_id", "login_at", "login_ip", "password_changed_at", "epoch"}
  BY DEF Claims
<1>2. DOMAIN Empty = {"empty"} /\ DOMAIN Untouched = {"untouched"}
  BY DEF Empty, Untouched
<1> QED BY <1>1, <1>2

\* An idle request is a sound one.
LEMMA IdleSound == Idle \in Request /\ RequestSound(Idle)
<1>1. (CHOOSE b \in Browsers : TRUE) \in Browsers
  BY WebAuthAssumption
<1>2. Soft \in Gates /\ RoleUser \in Roles
  BY WebAuthAssumption DEF Soft
<1>3. Idle \in Request
  BY <1>1, <1>2 DEF Idle, Request, Steps, Kinds, Fails, Sessions
<1>4. Empty \notin Claims /\ Untouched \notin Claims
  BY Markers
<1>5. RequestSound(Idle)
  BY <1>4 DEF RequestSound, VerdictSound, IssuedSound, Idle
<1> QED BY <1>3, <1>5

\* A step of one request that leaves the rest of the state alone.
LEMMA RequestStep ==
    ASSUME IInv, NEW r \in Requests, NEW q \in Request, RequestSound(q),
           req' = [req EXCEPT ![r] = q], UNCHANGED <<now, account, jar>>
    PROVE  IInv'
<1>1. TypeOK'
  BY DEF IInv, TypeOK
<1>2. StampsPast'
  BY DEF IInv, StampsPast
<1>3. \A b \in Browsers : IssuedSound(jar[b])'
  BY DEF IInv, IssuedSound, InEpoch
<1>4. ASSUME NEW s \in Requests PROVE RequestSound(req[s])'
  <2>1. RequestSound(req'[s])
    BY DEF IInv, TypeOK
  <2> QED
    BY <2>1 DEF RequestSound, IssuedSound, ReadSound, InEpoch, VerdictSound, Expired,
                PasswordChanged, Stamp
<1> QED BY <1>1, <1>2, <1>3, <1>4 DEF IInv

LEMMA InitInvariant == Init => IInv
<1> SUFFICES ASSUME Init PROVE IInv
  OBVIOUS
<1>1. TypeOK
  BY IdleSound, WebAuthAssumption DEF Init, TypeOK, Account, Sessions
<1>2. StampsPast
  BY WebAuthAssumption DEF Init, StampsPast
<1>3. \A b \in Browsers : IssuedSound(jar[b])
  BY Markers DEF Init, IssuedSound
<1>4. \A r \in Requests : RequestSound(req[r])
  BY IdleSound DEF Init
<1> QED BY <1>1, <1>2, <1>3, <1>4 DEF IInv

(***************************************************************************)
(* One lemma per action.                                                   *)
(***************************************************************************)
\* The account is read, and the session is not issued yet (session.go:112-128).
LEMMA LoginBeginStep ==
    ASSUME IInv, NEW r \in Requests, NEW b \in Browsers, NEW ip \in IPs, NEW u \in UserIds,
           LoginBegin(r, b, ip, u)
    PROVE  IInv'
<1> DEFINE c == [user_id |-> u, login_at |-> 0, login_ip |-> NoIP,
                 password_changed_at |-> account[u].password_changed_at,
                 epoch |-> account[u].changes]
           q == [Idle EXCEPT !.kind = "login", !.browser = b, !.ip = ip, !.loaded = c,
                             !.step = "issue"]
<1>1. account[u] \in Account
  BY DEF IInv, TypeOK
<1>2. c \in Claims
  BY <1>1 DEF Claims, Account
<1>3. ReadSound(c)
  BY <1>1, <1>2 DEF ReadSound, InEpoch, IInv, StampsPast, Account
<1>4. q \in Request
  BY <1>2, IdleSound DEF Request, Steps, Kinds, Sessions
<1>5. RequestSound(q)
  BY <1>3, IdleSound DEF RequestSound, VerdictSound, Idle
<1>6. req' = [req EXCEPT ![r] = q] /\ UNCHANGED <<now, account, jar>>
  BY DEF LoginBegin, Go
<1> HIDE DEF c, q
<1> QED BY <1>4, <1>5, <1>6, RequestStep

\* Issue stamps the login with a later second than the account's.
LEMMA IssueStep ==
    ASSUME IInv, NEW r \in Requests, Issue(r)
    PROVE  IInv'
<1>1. PICK ip \in {req[r].ip, NoIP} :
         req' = [req EXCEPT ![r] = [req[r] EXCEPT !.ip = NoIP, !.loaded = Empty,
                   !.saved = [req[r].loaded EXCEPT !.login_at = now, !.login_ip = ip],
                   !.step = "finish"]]
  BY DEF Issue, Go
<1> DEFINE c == [req[r].loaded EXCEPT !.login_at = now, !.login_ip = ip]
           q == [req[r] EXCEPT !.ip = NoIP, !.loaded = Empty, !.saved = c, !.step = "finish"]
<1>2. req[r] \in Request /\ RequestSound(req[r]) /\ req[r].step = "issue" /\ now \in Nat
  BY WebAuthAssumption DEF IInv, TypeOK, Issue
<1>3. req[r].loaded \in Claims /\ ReadSound(req[r].loaded)
  BY <1>2 DEF RequestSound, ReadSound
<1>4. c \in Claims
  BY <1>2, <1>3 DEF Claims, Request
<1>5. IssuedSound(c)
  BY <1>2, <1>3, <1>4 DEF IssuedSound, ReadSound, InEpoch, Claims
<1>6. q \in Request
  BY <1>2, <1>4 DEF Request, Steps, Sessions
<1>7. RequestSound(q)
  BY <1>2, <1>5, Markers DEF RequestSound, VerdictSound, IssuedSound, Request
<1>8. req' = [req EXCEPT ![r] = q] /\ UNCHANGED <<now, account, jar>>
  BY <1>1 DEF Issue
<1> HIDE DEF c, q
<1> QED BY <1>6, <1>7, <1>8, RequestStep

LEMMA LogoutStep ==
    ASSUME IInv, NEW r \in Requests, NEW b \in Browsers, Logout(r, b)
    PROVE  IInv'
<1> DEFINE q == [Idle EXCEPT !.kind = "logout", !.browser = b, !.saved = Empty, !.step = "finish"]
<1>1. q \in Request
  BY IdleSound DEF Request, Steps, Kinds, Sessions
<1>2. RequestSound(q)
  BY IdleSound, Markers DEF RequestSound, VerdictSound, IssuedSound, Idle
<1>3. req' = [req EXCEPT ![r] = q] /\ UNCHANGED <<now, account, jar>>
  BY DEF Logout, Go
<1> HIDE DEF q
<1> QED BY <1>1, <1>2, <1>3, RequestStep

LEMMA PageBeginStep ==
    ASSUME IInv, NEW r \in Requests, NEW b \in Browsers, NEW ip \in IPs, NEW gate \in Gates,
           PageBegin(r, b, ip, gate)
    PROVE  IInv'
<1> DEFINE q == [Idle EXCEPT !.kind = "page", !.browser = b, !.ip = ip, !.gate = gate,
                             !.loaded = jar[b], !.step = "resolve"]
<1>1. jar[b] \in Sessions /\ IssuedSound(jar[b])
  BY DEF IInv, TypeOK
<1>2. q \in Request
  BY <1>1, IdleSound DEF Request, Steps, Kinds
<1>3. RequestSound(q)
  BY <1>1, IdleSound DEF RequestSound, VerdictSound, Idle
<1>4. req' = [req EXCEPT ![r] = q] /\ UNCHANGED <<now, account, jar>>
  BY DEF PageBegin, Go
<1> HIDE DEF q
<1> QED BY <1>2, <1>3, <1>4, RequestStep

\* What a verdict says of the session (webauth.go:93-124).
LEMMA Verdict ==
    ASSUME NEW c \in Sessions, NEW ip
    PROVE  /\ resolve(c, ip) \in Fails \ {"role"}
           /\ resolve(c, ip) = "none" <=>
                 /\ c # Empty /\ ~ Expired(c) /\ ~ Disabled(c.user_id)
                 /\ ~ PasswordChanged(c) /\ ~ IPChanged(c, ip)
           /\ resolve(c, ip) # "noSession" => c \in Claims
           /\ resolve(c, ip) = "expired" => Expired(c)
           /\ resolve(c, ip) = "passwordChanged" => PasswordChanged(c)
BY DEF resolve, Sessions, Fails

\* A session with an older stamp was begun before the last change.
LEMMA OlderStampOlderEpoch ==
    ASSUME IInv, NEW c \in Claims, InEpoch(c), PasswordChanged(c)
    PROVE  c.epoch < account[c.user_id].changes
<1>1. c.user_id \in UserIds /\ c.epoch \in Nat /\ c.password_changed_at \in Nat
  BY DEF Claims
<1>2. account[c.user_id].changes \in Nat /\ account[c.user_id].password_changed_at \in Nat
  BY <1>1 DEF IInv, TypeOK, Account
<1>3. c.password_changed_at # account[c.user_id].password_changed_at
  BY <1>1, <1>2 DEF PasswordChanged, Stamp
<1> QED BY <1>1, <1>2, <1>3 DEF InEpoch

\* The request goes on as the user its session names, or fails for the
\* reason that resolve gives.
LEMMA ResolveStep ==
    ASSUME IInv, NEW r \in Requests, Resolve(r)
    PROVE  IInv'
<1> DEFINE q == req[r]
           fail == resolve(q.loaded, q.ip)
           cleared == IF fail \in {"none", "noSession"} THEN q.saved ELSE Empty
           role == account[q.loaded.user_id].role
<1>1. q \in Request /\ RequestSound(q) /\ q.step = "resolve" /\ q.loaded \in Sessions
      /\ UNCHANGED <<now, account, jar>>
  BY DEF IInv, TypeOK, Resolve, Request
<1>2. IssuedSound(q.loaded) /\ IssuedSound(q.saved) /\ q.fail = "none"
  BY <1>1 DEF RequestSound, VerdictSound
<1>3. Soft \in Gates /\ RoleUser \in Roles
  BY WebAuthAssumption DEF Soft
<1>4. CASE fail # "none"
  <2> DEFINE p == [q EXCEPT !.fail = fail, !.saved = cleared, !.gate = Soft, !.step = "finish"]
  <2>1. req' = [req EXCEPT ![r] = p]
    BY <1>4 DEF Resolve, Go
  <2>2. fail \in Fails /\ cleared \in Sessions \cup {Untouched}
    BY <1>1, Verdict DEF Request, Sessions
  <2>3. p \in Request
    BY <1>1, <1>3, <2>2 DEF Request, Steps
  <2>4. IssuedSound(cleared)
    BY <1>2, Markers DEF IssuedSound
  <2>5. fail = "passwordChanged" => q.loaded.epoch < account[q.loaded.user_id].changes
    BY <1>1, <1>2, Verdict, OlderStampOlderEpoch DEF IssuedSound
  <2>6. VerdictSound(p)
    <3>1. p.step = "finish" /\ p.fail = fail /\ p.loaded = q.loaded
      BY <1>1 DEF Request
    <3> HIDE DEF p, fail
    <3>2. /\ fail = "expired" => q.loaded \in Claims /\ Expired(q.loaded)
          /\ fail = "passwordChanged" => q.loaded \in Claims /\ PasswordChanged(q.loaded)
      BY <1>1, Verdict DEF fail
    <3> QED BY <2>5, <3>1, <3>2 DEF VerdictSound
  <2>7. RequestSound(p)
    <3>1. p.step = "finish" /\ p.loaded = q.loaded /\ p.saved = cleared
      BY <1>1 DEF Request
    <3> HIDE DEF p, cleared
    <3> QED BY <1>2, <2>4, <2>6, <3>1 DEF RequestSound
  <2> HIDE DEF p
  <2> QED BY <1>1, <2>1, <2>3, <2>7, RequestStep
<1>5. CASE fail = "none" /\ Passes(role, q.gate)
  <2> DEFINE p == [q EXCEPT !.role = role, !.gate = Soft, !.step = "handle"]
  <2>1. req' = [req EXCEPT ![r] = p]
    BY <1>5 DEF Resolve, Go
  <2>2. q.loaded \in Claims /\ ~ IPChanged(q.loaded, q.ip)
    BY <1>1, <1>5, Verdict
  <2>3. role \in Roles
    BY <2>2 DEF Claims, IInv, TypeOK, Account
  <2>4. p \in Request
    BY <1>1, <1>3, <2>3 DEF Request, Steps
  <2>5. p.step = "handle" /\ p.loaded = q.loaded /\ p.saved = q.saved /\ p.fail = "none"
        /\ p.role = role /\ p.ip = q.ip
    BY <1>1, <1>2 DEF Request
  <2> HIDE DEF p
  <2>6. VerdictSound(p)
    BY <2>2, <2>5 DEF VerdictSound, IPChanged
  <2>7. RequestSound(p)
    BY <1>2, <2>5, <2>6 DEF RequestSound
  <2> QED BY <1>1, <2>1, <2>4, <2>7, RequestStep
<1>6. CASE fail = "none" /\ ~ Passes(role, q.gate)
  <2> DEFINE p == [q EXCEPT !.fail = "role", !.gate = Soft, !.step = "finish"]
  <2>1. req' = [req EXCEPT ![r] = p]
    BY <1>6 DEF Resolve, Go
  <2>2. p \in Request
    BY <1>1, <1>3 DEF Request, Steps, Fails
  <2>3. p.step = "finish" /\ p.loaded = q.loaded /\ p.saved = q.saved /\ p.fail = "role"
    BY <1>1 DEF Request
  <2> HIDE DEF p
  <2>4. RequestSound(p)
    BY <1>2, <2>3 DEF RequestSound, VerdictSound
  <2> QED BY <1>1, <2>1, <2>2, <2>4, RequestStep
<1> QED BY <1>4, <1>5, <1>6

LEMMA HandleStep ==
    ASSUME IInv, NEW r \in Requests, Handle(r)
    PROVE  IInv'
<1> DEFINE q == [req[r] EXCEPT !.step = "finish"]
<1>1. req[r] \in Request /\ RequestSound(req[r]) /\ req[r].step = "handle"
  BY DEF IInv, TypeOK, Handle
<1>2. q \in Request
  BY <1>1 DEF Request, Steps
<1>3. RequestSound(q)
  BY <1>1 DEF RequestSound, VerdictSound, Request
<1>4. req' = [req EXCEPT ![r] = q] /\ UNCHANGED <<now, account, jar>>
  BY DEF Handle, Go
<1> HIDE DEF q
<1> QED BY <1>2, <1>3, <1>4, RequestStep

\* What the request saved replaces the browser's session, or is lost.
LEMMA FinishStep ==
    ASSUME IInv, NEW r \in Requests, Finish(r)
    PROVE  IInv'
<1>1. UNCHANGED <<now, account>> /\ req' = [req EXCEPT ![r] = Idle]
  BY DEF Finish
<1>2. req[r] \in Request /\ RequestSound(req[r])
  BY DEF IInv, TypeOK
<1>3. \/ UNCHANGED jar
      \/ req[r].saved # Untouched /\ jar' = [jar EXCEPT ![req[r].browser] = req[r].saved]
  BY DEF Finish
<1>4. CASE UNCHANGED jar
  BY <1>1, <1>4, IdleSound, RequestStep
<1>5. CASE req[r].saved # Untouched /\ jar' = [jar EXCEPT ![req[r].browser] = req[r].saved]
  <2>1. req[r].saved \in Sessions /\ IssuedSound(req[r].saved)
    BY <1>2, <1>5 DEF Request, RequestSound
  <2>2. TypeOK'
    BY <1>1, <1>5, <2>1, IdleSound DEF IInv, TypeOK
  <2>3. StampsPast'
    BY <1>1 DEF IInv, StampsPast
  <2>4. ASSUME NEW b \in Browsers PROVE IssuedSound(jar[b])'
    <3>1. IssuedSound(jar'[b])
      BY <1>5, <2>1 DEF IInv, TypeOK
    <3> QED BY <1>1, <3>1 DEF IssuedSound, InEpoch
  <2>5. ASSUME NEW s \in Requests PROVE RequestSound(req[s])'
    <3>1. RequestSound(req'[s])
      BY <1>1, IdleSound DEF IInv, TypeOK
    <3> QED
      BY <1>1, <3>1 DEF RequestSound, IssuedSound, ReadSound, InEpoch, VerdictSound, Expired,
                        PasswordChanged, Stamp
  <2> QED BY <2>2, <2>3, <2>4, <2>5 DEF IInv
<1> QED BY <1>3, <1>4, <1>5

\* A password changes: the sessions of before are of an older epoch, those that
\* are rejected stay so.
LEMMA ChangePasswordStep ==
    ASSUME IInv, NEW u \in UserIds, ChangePassword(u)
    PROVE  IInv'
<1> DEFINE stamp == IF HasStamp THEN now ELSE 0
<1>1. now \in Nat /\ account \in [UserIds -> Account] /\ UNCHANGED <<now, jar, req>>
  BY WebAuthAssumption DEF IInv, TypeOK, ChangePassword
<1>2. account' = [account EXCEPT ![u] = [account[u] EXCEPT !.changes = @ + 1,
                                                           !.password_changed_at = stamp]]
  BY <1>1 DEF ChangePassword
<1>3. \A v \in UserIds : account[v] \in Account /\ account'[v] \in Account
  <2>1. stamp \in Nat /\ \A v \in UserIds : account[v] \in Account
    BY <1>1
  <2>2. account[u].changes + 1 \in Nat
    BY <2>1 DEF Account
  <2> HIDE DEF stamp
  <2>3. [account[u] EXCEPT !.changes = @ + 1, !.password_changed_at = stamp] \in Account
    BY <2>1, <2>2 DEF Account
  <2> QED BY <1>1, <1>2, <2>1, <2>3
<1>4. /\ account'[u].changes = account[u].changes + 1
      /\ account'[u].password_changed_at = stamp
      /\ \A v \in UserIds : v # u => account'[v] = account[v]
  BY <1>1, <1>2 DEF Account
<1>5. TypeOK'
  BY <1>1, <1>2, <1>3 DEF IInv, TypeOK
<1>6. StampsPast'
  BY <1>1, <1>4 DEF IInv, StampsPast
<1>7. ASSUME NEW c \in Claims, InEpoch(c) PROVE InEpoch(c)'
  BY <1>3, <1>4, <1>7 DEF InEpoch, Claims, Account
<1>8. ASSUME NEW c, IssuedSound(c) PROVE IssuedSound(c)'
  BY <1>7, <1>8 DEF IssuedSound
<1>9. \A v \in UserIds : account[v].password_changed_at <= account'[v].password_changed_at
  BY <1>1, <1>3, <1>4 DEF IInv, StampsPast, Account
<1>10. ASSUME NEW c \in Claims, PasswordChanged(c) PROVE PasswordChanged(c)'
  BY <1>3, <1>9, <1>10 DEF PasswordChanged, Stamp, Claims, Account
<1>11. ASSUME NEW q, RequestSound(q) PROVE RequestSound(q)'
  <2>1. ReadSound(q.loaded) => ReadSound(q.loaded)'
    BY <1>1, <1>7 DEF ReadSound
  <2>2. VerdictSound(q)'
    <3>1. q.fail = "passwordChanged" => (q.loaded.epoch < account[q.loaded.user_id].changes)'
      BY <1>3, <1>4, <1>11 DEF RequestSound, VerdictSound, Claims, Account
    <3>2. q.fail = "passwordChanged" => q.loaded \in Claims /\ PasswordChanged(q.loaded)'
      BY <1>10, <1>11 DEF RequestSound, VerdictSound
    <3>3. q.fail = "expired" => q.loaded \in Claims /\ Expired(q.loaded)'
      BY <1>1, <1>11 DEF RequestSound, VerdictSound, Expired
    <3> QED BY <1>11, <3>1, <3>2, <3>3 DEF RequestSound, VerdictSound
  <2> QED BY <1>8, <1>11, <2>1, <2>2 DEF RequestSound
<1>12. \A b \in Browsers : IssuedSound(jar[b])'
  BY <1>1, <1>8 DEF IInv
<1>13. \A s \in Requests : RequestSound(req[s])'
  BY <1>1, <1>11 DEF IInv
<1> QED BY <1>5, <1>6, <1>12, <1>13 DEF IInv

\* A role changes: nothing that was found out depends on it but the role a
\* request runs with.
LEMMA SetRoleStep ==
    ASSUME IInv, NEW u \in UserIds, NEW role \in Roles, SetRole(u, role)
    PROVE  IInv'
<1>1. account \in [UserIds -> Account] /\ UNCHANGED <<now, jar, req>>
  BY DEF IInv, TypeOK, SetRole
<1>2. account' = [account EXCEPT ![u] = [account[u] EXCEPT !.role = role]]
  BY <1>1 DEF SetRole
<1>3. \A v \in UserIds :
         /\ account'[v] \in Account
         /\ account'[v].changes = account[v].changes
         /\ account'[v].password_changed_at = account[v].password_changed_at
  BY <1>1, <1>2 DEF Account
<1>4. TypeOK'
  BY <1>1, <1>2, <1>3 DEF IInv, TypeOK
<1>5. StampsPast'
  BY <1>1, <1>3 DEF IInv, StampsPast
<1>6. ASSUME NEW c \in Claims
      PROVE  /\ InEpoch(c)' <=> InEpoch(c)
             /\ PasswordChanged(c)' <=> PasswordChanged(c)
             /\ Expired(c)' <=> Expired(c)
  BY <1>1, <1>3 DEF InEpoch, PasswordChanged, Stamp, Expired, Claims
<1>7. ASSUME NEW c, IssuedSound(c) PROVE IssuedSound(c)'
  BY <1>6, <1>7 DEF IssuedSound
<1>8. ASSUME NEW q, RequestSound(q) PROVE RequestSound(q)'
  <2>1. ReadSound(q.loaded) => ReadSound(q.loaded)'
    BY <1>1, <1>6 DEF ReadSound
  <2>2. q.fail = "passwordChanged" => (q.loaded.epoch < account[q.loaded.user_id].changes)'
    BY <1>3, <1>8 DEF RequestSound, VerdictSound, Claims
  <2>3. VerdictSound(q)'
    BY <1>6, <1>8, <2>2 DEF RequestSound, VerdictSound
  <2> QED BY <1>7, <1>8, <2>1, <2>3 DEF RequestSound
<1>9. \A b \in Browsers : IssuedSound(jar[b])'
  BY <1>1, <1>7 DEF IInv
<1>10. \A s \in Requests : RequestSound(req[s])'
  BY <1>1, <1>8 DEF IInv
<1> QED BY <1>4, <1>5, <1>9, <1>10 DEF IInv

\* Time passes: what was expired stays expired.
LEMMA TickStep ==
    ASSUME IInv, Tick
    PROVE  IInv'
<1>1. now \in Nat /\ now' = now + 1 /\ now < MaxTime /\ UNCHANGED <<account, jar, req>>
  BY WebAuthAssumption DEF IInv, TypeOK, Tick
<1>2. TypeOK'
  BY <1>1, WebAuthAssumption DEF IInv, TypeOK
<1>3. StampsPast'
  BY <1>1 DEF IInv, TypeOK, StampsPast, Account
<1>4. ASSUME NEW c \in Claims
      PROVE  /\ InEpoch(c)' <=> InEpoch(c)
             /\ PasswordChanged(c)' <=> PasswordChanged(c)
             /\ Expired(c) => Expired(c)'
             /\ ReadSound(c) => ReadSound(c)'
  <2>1. c.login_at \in Nat /\ c.password_changed_at \in Nat
    BY DEF Claims
  <2> QED
    BY <1>1, <2>1, WebAuthAssumption DEF InEpoch, PasswordChanged, Stamp, Expired, ReadSound
<1>5. ASSUME NEW c, IssuedSound(c) PROVE IssuedSound(c)'
  BY <1>4, <1>5 DEF IssuedSound
<1>6. ASSUME NEW q, RequestSound(q) PROVE RequestSound(q)'
  <2>1. ReadSound(q.loaded) => ReadSound(q.loaded)'
    BY <1>4 DEF ReadSound
  <2>2. VerdictSound(q)'
    BY <1>1, <1>4, <1>6 DEF RequestSound, VerdictSound
  <2> QED BY <1>5, <1>6, <2>1, <2>2 DEF RequestSound
<1>7. \A b \in Browsers : IssuedSound(jar[b])'
  BY <1>1, <1>5 DEF IInv
<1>8. \A s \in Requests : RequestSound(req[s])'
  BY <1>1, <1>6 DEF IInv
<1> QED BY <1>2, <1>3, <1>7, <1>8 DEF IInv

LEMMA NextInvariant == IInv /\ [Next]_vars => IInv'
<1> SUFFICES ASSUME IInv, [Next]_vars PROVE IInv'
  OBVIOUS
<1>1. CASE UNCHANGED vars
  BY <1>1 DEF vars, IInv, TypeOK, StampsPast, IssuedSound, RequestSound, ReadSound, InEpoch,
              VerdictSound, Expired, PasswordChanged, Stamp
<1>2. CASE Next
  BY <1>2, LoginBeginStep, IssueStep, LogoutStep, PageBeginStep, ResolveStep, HandleStep,
     FinishStep, ChangePasswordStep, SetRoleStep, TickStep DEF Next, Step
<1> QED BY <1>1, <1>2

(***************************************************************************)
(* Theorems.                                                               *)
(***************************************************************************)
\* The invariant holds in every state.
THEOREM Invariance == Spec => []IInv
BY InitInvariant, NextInvariant, PTL DEF Spec

\* The state keeps its type.
THEOREM TypeCorrect == Spec => []TypeOK
<1>1. IInv => TypeOK
  BY DEF IInv
<1> QED BY <1>1, Invariance, PTL

\* Nobody is sent to ?reason=password_changed unless the password changed after
\* the login read the account (webauth.go:110-115).
THEOREM InvalidationIsTrue == Spec => []NoFalseInvalidation
<1>1. IInv => NoFalseInvalidation
  BY DEF IInv, RequestSound, VerdictSound, NoFalseInvalidation
<1> QED BY <1>1, Invariance, PTL

\* An admin login that recorded its address serves that address only
\* (webauth.go:116-122).
THEOREM AdminsArePinned == Spec => []AdminStaysPut
<1>1. IInv => AdminStaysPut
  <2> SUFFICES ASSUME IInv, IPHashSet, NEW r \in Requests, NEW s \in Requests,
                      req[r].step = "handle", req[r].role = RoleAdmin,
                      req[s].step = "handle", req[s].role = RoleAdmin,
                      req[r].loaded = req[s].loaded, req[r].loaded.login_ip # NoIP
               PROVE  req[r].ip = req[s].ip
    BY DEF AdminStaysPut
  <2>1. req[r].loaded.login_ip = req[r].ip /\ req[s].loaded.login_ip = req[s].ip
    BY DEF IInv, RequestSound, VerdictSound
  <2> QED BY <2>1
<1> QED BY <1>1, Invariance, PTL

\* A request is admitted by Resolve alone.
LEMMA OnlyResolveAdmits ==
    ASSUME IInv, [Next]_vars, NEW r \in Requests, Admitted(r)
    PROVE  Resolve(r)
<1>1. req[r].step = "resolve" /\ req'[r].step = "handle" /\ req \in [Requests -> Request]
  BY DEF Admitted, IInv, TypeOK
<1>2. Idle.step = "idle"
  BY DEF Idle
<1>3. ~ UNCHANGED vars
  BY <1>1 DEF vars
<1>4. ~ (\E u \in UserIds : ChangePassword(u))
      /\ ~ (\E u \in UserIds, role \in Roles : SetRole(u, role)) /\ ~ Tick
  BY <1>1 DEF ChangePassword, SetRole, Tick
<1>5. PICK s \in Requests : Step(s)
  BY <1>3, <1>4 DEF Next
<1>6. s = r
  BY <1>1, <1>5 DEF Step, LoginBegin, Issue, Logout, PageBegin, Resolve, Handle, Finish, Go
<1> QED
  BY <1>1, <1>2, <1>5, <1>6 DEF Step, LoginBegin, Issue, Logout, PageBegin, Handle, Finish

\* A request is admitted with a session that was issued in no second before the one
\* of the account's last password change, whatever came between the login's
\* reading of the account and Issue (session.go:112-128, webauth.go:110-115).
THEOREM OldSessionsRejected == Spec => OldSessionsDead
<1>1. ASSUME IInv, [Next]_vars, NEW r \in Requests, Admitted(r)
      PROVE  req[r].loaded.login_at >= account[req[r].loaded.user_id].password_changed_at
  <2> DEFINE c == req[r].loaded
  <2>1. Resolve(r)
    BY <1>1, OnlyResolveAdmits
  <2>2. req[r] \in Request /\ RequestSound(req[r]) /\ req[r].step = "resolve"
    BY <1>1, <2>1 DEF IInv, TypeOK, Resolve
  <2>3. c \in Sessions /\ resolve(c, req[r].ip) = "none"
    BY <1>1, <2>1, <2>2 DEF Resolve, Go, Admitted, IInv, TypeOK, Request
  <2>4. c \in Claims /\ ~ PasswordChanged(c)
    BY <2>3, Verdict
  <2>5. c.password_changed_at <= c.login_at
    BY <2>2, <2>4 DEF RequestSound, IssuedSound
  <2>6. /\ c.login_at \in Nat /\ c.password_changed_at \in Nat
        /\ account[c.user_id].password_changed_at \in Nat /\ c.user_id \in UserIds
    BY <1>1, <2>4 DEF Claims, IInv, TypeOK, Account
  <2>7. account[c.user_id].password_changed_at = 0
        \/ c.password_changed_at >= account[c.user_id].password_changed_at
    BY <1>1, <2>4, <2>6 DEF PasswordChanged, Stamp, IInv, StampsPast
  <2> QED BY <2>5, <2>6, <2>7
<1>2. IInv /\ [Next]_vars =>
        [\A r \in Requests : Admitted(r) =>
            LET claims == req[r].loaded
            IN  claims.login_at >= account[claims.user_id].password_changed_at]_vars
  BY <1>1
<1> QED BY <1>2, Invariance, PTL DEF Spec, OldSessionsDead

\* What was dropped as expired or older than the password is rejected still when the
\* response arrives (webauth.go:100-115, 129-140).
THEOREM ClearingIsFinal == Spec => ClearedForGood
<1>1. ASSUME IInv, NEW r \in Requests, req[r].fail \in {"expired", "passwordChanged"}
      PROVE  resolve(req[r].loaded, req[r].ip) # "none"
  <2>1. req[r].loaded \in Claims /\ (Expired(req[r].loaded) \/ PasswordChanged(req[r].loaded))
    BY <1>1 DEF IInv, RequestSound, VerdictSound
  <2> QED BY <2>1, Verdict DEF Sessions
<1>2. IInv /\ [Next]_vars =>
        [\A r \in Requests :
            /\ req[r].step = "finish" /\ req'[r].step = "idle"
            /\ req[r].fail \in {"expired", "passwordChanged"}
            /\ jar[req[r].browser] = req[r].loaded /\ jar'[req[r].browser] = Empty
            => resolve(req[r].loaded, req[r].ip) # "none"]_vars
  BY <1>1
<1> QED BY <1>2, Invariance, PTL DEF Spec, ClearedForGood
=============================================================================
