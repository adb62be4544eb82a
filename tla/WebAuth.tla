------------------------------- MODULE WebAuth -------------------------------
(***************************************************************************)
(* webauth/webauth.go over session/session.go: logins stamp a session,     *)
(* every request that needs a user resolves it again.                      *)
(*                                                                         *)
(* gin-contrib/sessions is external: a request works on its own copy of    *)
(* the session map, and Save replaces the whole map.  jar[b] is the map    *)
(* browser b stands for.  With the cookie store a request reads it when it *)
(* leaves the browser and replaces it when its response arrives; with the  *)
(* Redis store it reads it at the first Get and replaces it at Save, under *)
(* the id the cookie carries.  Either way there is a read, and some time   *)
(* later a write: Begin and Finish.                                        *)
(*                                                                         *)
(* The host supplies the Resolver: an account is its role and its          *)
(* password_changed_at (0 when there is no such column).                   *)
(***************************************************************************)
EXTENDS Integers

CONSTANTS
    Browsers, Requests, UserIds,
    IPs, NoIP,        \* hashed client addresses; "" skips the pinning
    Roles,            \* core.Role values
    RoleUser, RoleAdmin,
    Gates,            \* what the host's routes ask for
    MaxAge,           \* Config.MaxAgeD in seconds
    IPHashSet,        \* the host sets Auth.IPHash
    HasStamp,         \* the host has a password_changed_at column
    StartTime, MaxTime,  \* the clock's range (a bound)
    MaxChanges        \* bound on the password changes

ASSUME WebAuthAssumption ==
    /\ Browsers # {} /\ NoIP \notin IPs
    /\ Roles \subseteq Int /\ RoleUser \in Roles /\ RoleAdmin \in Roles
    /\ Gates \subseteq [how : {"soft", "atLeast", "exactly"}, role : Roles]
    /\ [how |-> "soft", role |-> RoleUser] \in Gates
    /\ MaxAge \in Nat
    /\ IPHashSet \in BOOLEAN /\ HasStamp \in BOOLEAN
    /\ StartTime \in Nat \ {0} /\ MaxTime \in Nat /\ StartTime <= MaxTime
    /\ MaxChanges \in Nat

VARIABLES
    now,       \* unix seconds
    account,   \* what the Resolver would read of each user
    jar,       \* the session map of each browser
    req        \* progress of each request

vars == <<now, account, jar, req>>

(***************************************************************************)
(* changes is bookkeeping: how often the password was changed; a session's *)
(* epoch is that number when its login read the account.                   *)
(***************************************************************************)
Account == [role : Roles, password_changed_at : Nat, changes : Nat]

Claims == [user_id : UserIds, login_at : Nat, login_ip : IPs \cup {NoIP},
           password_changed_at : Nat, epoch : Nat]

\* No user_id in the map: session.Read is not ok.
Empty == [empty |-> TRUE]
Sessions == Claims \cup {Empty}

\* A request that did not Save.
Untouched == [untouched |-> TRUE]

(***************************************************************************)
(* A request: who sends it, what it is for, the map it loaded, the map it  *)
(* will leave behind when it saved one, and the user it runs as.           *)
(***************************************************************************)
Steps == {"idle", "resolve", "issue", "handle", "finish"}
Kinds == {"none", "page", "login", "logout"}
Fails == {"none", "noSession", "expired", "noUser", "passwordChanged", "ipChanged", "role"}

\* A page asks for at least (Require) or exactly (RequireExact) some role, or
\* for nothing (Soft).
Soft == [how |-> "soft", role |-> RoleUser]
Passes(role, gate) ==
    CASE gate.how = "soft" -> TRUE
      [] gate.how = "atLeast" -> role >= gate.role
      [] gate.how = "exactly" -> role = gate.role

Request == [step : Steps, kind : Kinds, browser : Browsers, ip : IPs \cup {NoIP}, gate : Gates,
            loaded : Sessions, saved : Sessions \cup {Untouched},
            role : Roles, fail : Fails]

TypeOK ==
    /\ now \in StartTime..MaxTime
    /\ account \in [UserIds -> Account]
    /\ jar \in [Browsers -> Sessions]
    /\ req \in [Requests -> Request]

Idle == [step |-> "idle", kind |-> "none", browser |-> CHOOSE b \in Browsers : TRUE,
         ip |-> NoIP, gate |-> Soft, loaded |-> Empty,
         saved |-> Untouched, role |-> RoleUser, fail |-> "none"]

Init ==
    /\ now = StartTime
    /\ account = [u \in UserIds |-> [role |-> RoleUser, password_changed_at |-> 0, changes |-> 0]]
    /\ jar = [b \in Browsers |-> Empty]
    /\ req = [r \in Requests |-> Idle]

Go(r, q, step) == req' = [req EXCEPT ![r] = [q EXCEPT !.step = step]]

(***************************************************************************)
(* A login: the host authenticates the user, then session.Issue replaces   *)
(* the map by fresh claims.                                                *)
(***************************************************************************)
LoginBegin(r, b, ip, u) ==
    /\ req[r].step = "idle"
    /\ Go(r, [Idle EXCEPT !.kind = "login", !.browser = b, !.ip = ip,
                          !.loaded = [user_id |-> u, login_at |-> 0, login_ip |-> NoIP,
                                      password_changed_at |-> account[u].password_changed_at,
                                      epoch |-> account[u].changes]], "issue")
    /\ UNCHANGED <<now, account, jar>>

Issue(r) ==
    LET q == req[r] IN
    /\ q.step = "issue"
    /\ \E ip \in {q.ip, NoIP} :
         Go(r, [q EXCEPT !.ip = NoIP, !.loaded = Empty,
                         !.saved = [q.loaded EXCEPT !.login_at = now, !.login_ip = ip]], "finish")
    /\ UNCHANGED <<now, account, jar>>

\* session.Clear on logout.
Logout(r, b) ==
    /\ req[r].step = "idle"
    /\ Go(r, [Idle EXCEPT !.kind = "logout", !.browser = b, !.saved = Empty], "finish")
    /\ UNCHANGED <<now, account, jar>>

(***************************************************************************)
(* A page behind one of the middlewares.                                   *)
(***************************************************************************)
PageBegin(r, b, ip, gate) ==
    /\ req[r].step = "idle"
    /\ Go(r, [Idle EXCEPT !.kind = "page", !.browser = b, !.ip = ip, !.gate = gate,
                          !.loaded = jar[b]], "resolve")
    /\ UNCHANGED <<now, account, jar>>

\* (A fault: the comparison with the lifetime is the wrong way round.)
ExpiredYoung(claims) == claims.login_at = 0 \/ now - claims.login_at < MaxAge

Expired(claims) == claims.login_at = 0 \/ now - claims.login_at > MaxAge

\* The Resolver answers ok for accounts that are not disabled or banned.
Disabled(u) == account[u].role < RoleUser

\* The stamp a resolver reports: 0, hence no check, without the column.
Stamp(u) == IF HasStamp THEN account[u].password_changed_at ELSE 0

\* Faults: sessions without a stamp are let through; the stamp of the very
\* login counts as older.
PasswordChangedIfStamped(claims) ==
    claims.password_changed_at # 0 /\ claims.password_changed_at < Stamp(claims.user_id)
PasswordChangedOrSame(claims) ==
    Stamp(claims.user_id) # 0 /\ claims.password_changed_at <= Stamp(claims.user_id)

PasswordChanged(claims) ==
    LET stamp == Stamp(claims.user_id)
    IN  stamp # 0 /\ claims.password_changed_at < stamp

\* (A fault: the pinning applies above RoleAdmin.)
IPChangedAboveAdmin(claims, ip) ==
    /\ IPHashSet /\ account[claims.user_id].role > RoleAdmin
    /\ claims.login_ip # NoIP /\ claims.login_ip # ip

IPChanged(claims, ip) ==
    /\ IPHashSet /\ account[claims.user_id].role = RoleAdmin
    /\ claims.login_ip # NoIP /\ claims.login_ip # ip

\* Auth.resolve: why the session is rejected, if it is.
resolve(claims, ip) ==
    IF claims = Empty THEN "noSession"
    ELSE IF Expired(claims) THEN "expired"
    ELSE IF Disabled(claims.user_id) THEN "noUser"
    ELSE IF PasswordChanged(claims) THEN "passwordChanged"
    ELSE IF IPChanged(claims, ip) THEN "ipChanged"
    ELSE "none"

\* A session that fails is cleared; Soft goes on without a user, the other
\* middlewares abort, as they do when the role does not fit.
Resolve(r) ==
    LET q == req[r]
        fail == resolve(q.loaded, q.ip)
        cleared == IF fail \in {"none", "noSession"} THEN q.saved ELSE Empty
        role == account[q.loaded.user_id].role
    IN  /\ q.step = "resolve"
        /\ IF fail # "none"
           THEN Go(r, [q EXCEPT !.fail = fail, !.saved = cleared, !.gate = Soft], "finish")
           ELSE IF Passes(role, q.gate)
           THEN Go(r, [q EXCEPT !.role = role, !.gate = Soft], "handle")
           ELSE Go(r, [q EXCEPT !.fail = "role", !.gate = Soft], "finish")
        /\ UNCHANGED <<now, account, jar>>

\* The handler runs as the resolved user.
Handle(r) ==
    /\ req[r].step = "handle"
    /\ Go(r, req[r], "finish")
    /\ UNCHANGED <<now, account, jar>>

\* What the request saved, if anything, becomes the browser's session map;
\* or the response is lost.
Finish(r) ==
    LET q == req[r] IN
    /\ q.step = "finish"
    /\ \/ q.saved # Untouched /\ jar' = [jar EXCEPT ![q.browser] = q.saved]
       \/ UNCHANGED jar
    /\ req' = [req EXCEPT ![r] = Idle]
    /\ UNCHANGED <<now, account>>

(***************************************************************************)
(* The host: password changes stamp the current second, roles change.      *)
(***************************************************************************)
ChangePassword(u) ==
    /\ account[u].changes < MaxChanges
    /\ account' = [account EXCEPT ![u].changes = @ + 1,
                                  ![u].password_changed_at = IF HasStamp THEN now ELSE 0]
    /\ UNCHANGED <<now, jar, req>>

\* (A fault: the form's position in the list of roles, not its value.)
SetRoleByIndex(u, role) ==
    /\ account' = [account EXCEPT ![u].role = role + 1]
    /\ UNCHANGED <<now, jar, req>>

SetRole(u, role) ==
    /\ account' = [account EXCEPT ![u].role = role]
    /\ UNCHANGED <<now, jar, req>>

Tick == now < MaxTime /\ now' = now + 1 /\ UNCHANGED <<account, jar, req>>

Step(r) ==
    \/ \E b \in Browsers, ip \in IPs, u \in UserIds : LoginBegin(r, b, ip, u)
    \/ Issue(r)
    \/ \E b \in Browsers : Logout(r, b)
    \/ \E b \in Browsers, ip \in IPs, gate \in Gates : PageBegin(r, b, ip, gate)
    \/ Resolve(r)
    \/ Handle(r)
    \/ Finish(r)

Next ==
    \/ \E r \in Requests : Step(r)
    \/ \E u \in UserIds : ChangePassword(u)
    \/ \E u \in UserIds, role \in Roles : SetRole(u, role)
    \/ Tick

Spec == Init /\ [][Next]_vars

(***************************************************************************)
(* Properties.                                                             *)
(***************************************************************************)

\* session.go's contract for password_changed_at, "sessions older than the DB
\* stamp are dead": when a request is admitted, its session was not stamped in
\* a second before the account's last password change, whatever changed
\* between the login's reading of the user and the Issue.
Admitted(r) == req[r].step = "resolve" /\ req'[r].step = "handle"

OldSessionsDead ==
    [][\A r \in Requests : Admitted(r) =>
          LET claims == req[r].loaded
          IN  claims.login_at >= account[claims.user_id].password_changed_at]_vars

\* Nobody is sent to ?reason=password_changed unless the password really
\* changed after the login read the account.
NoFalseInvalidation ==
    \A r \in Requests : req[r].fail = "passwordChanged" =>
        LET claims == req[r].loaded
        IN  claims.epoch < account[claims.user_id].changes

\* Admin IP pinning: one login of an admin that recorded its address is never
\* served to two addresses at once, however the role came about.
AdminStaysPut ==
    IPHashSet => \A r, s \in Requests :
        /\ req[r].step = "handle" /\ req[r].role = RoleAdmin
        /\ req[s].step = "handle" /\ req[s].role = RoleAdmin
        /\ req[r].loaded = req[s].loaded /\ req[r].loaded.login_ip # NoIP
        => req[r].ip = req[s].ip

\* A response that drops the session its request loaded, because it was
\* expired or older than the password, drops one that is rejected still: the
\* verdict cannot have turned since the request was resolved.
ClearedForGood ==
    [][\A r \in Requests :
          /\ req[r].step = "finish" /\ req'[r].step = "idle"
          /\ req[r].fail \in {"expired", "passwordChanged"}
          /\ jar[req[r].browser] = req[r].loaded /\ jar'[req[r].browser] = Empty
          => resolve(req[r].loaded, req[r].ip) # "none"]_vars

\* "if the DB stamp advanced, every older cookie is dead": a session admitted
\* after a password change was begun after it.  The stamp is in seconds.
EpochEndsSessions ==
    [][\A r \in Requests : Admitted(r) =>
          LET claims == req[r].loaded
          IN  claims.epoch = account[claims.user_id].changes]_vars
=============================================================================
