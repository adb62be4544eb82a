------------------------------- MODULE AuthFlow -------------------------------
(***************************************************************************)
(* authflow/authflow.go over the users table, with the admin operations of *)
(* adminusers/adminusers.go that write the same rows.  Concurrent          *)
(* requests interleave between their database statements: one action is    *)
(* one statement with the local code around it.                            *)
(*                                                                         *)
(* A pepper rotation is a deployment with a new Hasher; requests that the  *)
(* outgoing process is still serving finish with the old one.              *)
(***************************************************************************)
EXTENDS Users, Integers

CONSTANTS
    Requests,        \* requests that can be in flight at once
    Usernames,       \* what people type as a username when registering
    Emails,          \* ... and as an email
    NoPassword,      \* absent plaintext
    Deployments,     \* the Hashers of successive deployments
    MinPasswordLen,  \* Flow.MinPasswordLen as the host sets it
    DefaultRole      \* Flow.DefaultRole

ASSUME AuthFlowAssumption ==
    /\ Usernames \subseteq Texts /\ Emails \subseteq Texts
    /\ NoPassword \notin Passwords
    /\ Deployments \in Seq(Hasher) /\ Deployments # <<>>
    /\ MinPasswordLen \in Int
    /\ DefaultRole \in Roles

VARIABLES
    flow,        \* progress of each request
    deployed     \* the deployment that serves new requests

vars == <<users, history, flow, deployed>>

minLen == IF MinPasswordLen <= 0 THEN 8 ELSE MinPasswordLen

\* adminusers.resetPassword has its own limit.
AdminMinLen == 8

(***************************************************************************)
(* A request record: the operation, the next statement, the deployment     *)
(* that serves it, and its locals.  seen is bookkeeping for a property:    *)
(* how many rows the table had when Register looked for the name.          *)
(***************************************************************************)
Operations == {"none", "register", "authenticate", "change"}
Statements == {"idle", "create", "byEmail", "rehash", "write", "done"}
Results == {"none", "ok", "emptyUsername", "weakPassword", "usernameTaken",
            "badCredentials", "notFound", "hashError", "dbError"}

Request == [op : Operations, pc : Statements, gen : 1..Len(Deployments), id : Nat,
            name : Texts, email : Texts, pw : Passwords \cup {NoPassword},
            res : Results, seen : Nat]

Idle == [op |-> "none", pc |-> "idle", gen |-> 1, id |-> 0, name |-> NoText,
         email |-> NoText, pw |-> NoPassword, res |-> "none", seen |-> 0]

TypeOK ==
    /\ UsersTypeOK
    /\ flow \in [Requests -> Request]
    /\ deployed \in 1..Len(Deployments)

Init ==
    /\ NoUsers
    /\ flow = [r \in Requests |-> Idle]
    /\ deployed = 1

HasherOf(q) == Deployments[q.gen]

\* The request q goes on to another statement, or is answered.
Continue(r, q, pc) == flow' = [flow EXCEPT ![r] = [q EXCEPT !.pc = pc]]
Answer(r, q, res) == flow' = [flow EXCEPT ![r] = [q EXCEPT !.pc = "done", !.res = res]]

Call(op, name, email, pw) ==
    [Idle EXCEPT !.op = op, !.gen = deployed, !.name = name, !.email = email, !.pw = pw]

(***************************************************************************)
(* Register: validation and ByUsername, then the INSERT.                   *)
(***************************************************************************)
RegisterOutcome(q) ==
    IF q.name = NoText THEN "emptyUsername"
    ELSE IF PwLen[q.pw] < minLen THEN "weakPassword"
    ELSE IF ByUsername(q.name) # {} THEN "usernameTaken"
    ELSE IF ~ CanHash(HasherOf(q), q.pw) THEN "hashError"
    ELSE "ok"

RegisterCheck(r, name, email, pw) ==
    /\ flow[r].pc = "idle"
    /\ LET q == [Call("register", name, email, pw) EXCEPT !.seen = Len(users)]
           res == RegisterOutcome(q)
       IN  IF res = "ok" THEN Continue(r, q, "create") ELSE Answer(r, q, res)
    /\ UNCHANGED <<users, history, deployed>>

\* The plain driver error of a UNIQUE violation is returned as it is.
RegisterCreate(r) ==
    LET q == flow[r] IN
    /\ q.pc = "create"
    /\ IF UsernameFree(q.name)
       THEN /\ Create(q.name, q.email, Hash(HasherOf(q), q.pw), DefaultRole)
            /\ Answer(r, [q EXCEPT !.id = Len(users) + 1], "ok")
       ELSE /\ Answer(r, q, "dbError")
            /\ UNCHANGED <<users, history>>
    /\ UNCHANGED deployed

(***************************************************************************)
(* Authenticate: ByUsername, ByEmail when there is no such username, then  *)
(* the rewrite of the hash of a row that matched the previous pepper.      *)
(***************************************************************************)
\* Decide on the row read, and if it is to be rewritten keep its id.
Judge(r, q, id) ==
    LET h == HasherOf(q)
        hash == users[id].hash
        mine == [q EXCEPT !.id = id]
    IN  IF ~ Verify(h, hash, q.pw) THEN Answer(r, q, "badCredentials")
        ELSE IF NeedsRehash(h, hash, q.pw) /\ CanHash(h, q.pw) THEN Continue(r, mine, "rehash")
        ELSE Answer(r, mine, "ok")

AuthenticateByName(r, identifier, pw) ==
    LET q == Call("authenticate", identifier, NoText, pw) IN
    /\ flow[r].pc = "idle"
    /\ \/ \E id \in ByUsername(identifier) : Judge(r, q, id)
       \/ ByUsername(identifier) = {} /\ Continue(r, q, "byEmail")
    /\ UNCHANGED <<users, history, deployed>>

AuthenticateByEmail(r) ==
    LET q == flow[r] IN
    /\ q.pc = "byEmail"
    /\ \/ \E id \in ByEmail(q.name) : Judge(r, q, id)
       \/ ByEmail(q.name) = {} /\ Answer(r, q, "badCredentials")
    /\ UNCHANGED <<users, history, deployed>>

\* The plaintext of the login becomes the row's hash again, whatever the row
\* holds by now.
Rehash(r) ==
    LET q == flow[r] IN
    /\ q.pc = "rehash"
    /\ UpdatePasswordHash(q.id, Hash(HasherOf(q), q.pw))
    /\ Answer(r, q, "ok")
    /\ UNCHANGED <<history, deployed>>

(***************************************************************************)
(* ChangePassword: ByID and the checks on the row read, then the UPDATE.   *)
(***************************************************************************)
ChangeOutcome(q, id, current) ==
    IF id \notin Ids THEN "notFound"
    ELSE IF ~ Verify(HasherOf(q), users[id].hash, current) THEN "badCredentials"
    ELSE IF PwLen[q.pw] < minLen THEN "weakPassword"
    ELSE IF ~ CanHash(HasherOf(q), q.pw) THEN "hashError"
    ELSE "ok"

ChangeCheck(r, id, current, next) ==
    LET q == [Call("change", NoText, NoText, next) EXCEPT !.id = id]
        res == ChangeOutcome(q, id, current)
    IN  /\ flow[r].pc = "idle"
        /\ IF res = "ok" THEN Continue(r, q, "write") ELSE Answer(r, q, res)
        /\ UNCHANGED <<users, history, deployed>>

ChangeWrite(r) ==
    LET q == flow[r] IN
    /\ q.pc = "write"
    /\ ChoosePassword(q.id, Hash(HasherOf(q), q.pw))
    /\ Answer(r, q, "ok")
    /\ UNCHANGED deployed

\* A statement fails (database error, cancelled context).  Authenticate
\* ignores that of the rehash.
Fail(r) ==
    LET q == flow[r] IN
    /\ \/ q.pc \in {"create", "byEmail", "write"} /\ Answer(r, q, "dbError")
       \/ q.pc = "rehash" /\ Answer(r, q, "ok")
    /\ UNCHANGED <<users, history, deployed>>

\* The handler has used the answer; or its process died before it could.
Return(r) ==
    /\ flow[r].pc # "idle"
    /\ flow' = [flow EXCEPT ![r] = Idle]
    /\ UNCHANGED <<users, history, deployed>>

(***************************************************************************)
(* adminusers: both handlers validate locally and run one statement.       *)
(***************************************************************************)
AdminSetRole(id, role) ==
    /\ id > 0
    /\ SetRole(id, role)
    /\ UNCHANGED <<history, flow, deployed>>

AdminResetPassword(id, pw) ==
    LET h == Deployments[deployed] IN
    /\ id > 0
    /\ PwLen[pw] >= AdminMinLen
    /\ CanHash(h, pw)
    /\ ChoosePassword(id, Hash(h, pw))
    /\ UNCHANGED <<flow, deployed>>

\* A process with the next Hasher takes over.
Deploy ==
    /\ deployed < Len(Deployments)
    /\ deployed' = deployed + 1
    /\ UNCHANGED <<users, history, flow>>

\* Ids that reach the handlers: those of rows, and one that has no row.
IdsUsed == 1..(Len(users) + 1)

\* What people send: everything there is, unless an instance says less.
Inputs == [usernames |-> Usernames, emails |-> Emails, identifiers |-> Texts,
           passwords |-> Passwords]

Step(r, in) ==
    \/ \E name \in in.usernames, email \in in.emails, pw \in in.passwords :
           RegisterCheck(r, name, email, pw)
    \/ RegisterCreate(r)
    \/ \E identifier \in in.identifiers, pw \in in.passwords : AuthenticateByName(r, identifier, pw)
    \/ AuthenticateByEmail(r)
    \/ Rehash(r)
    \/ \E id \in IdsUsed, current, next \in in.passwords : ChangeCheck(r, id, current, next)
    \/ ChangeWrite(r)
    \/ Fail(r)
    \/ Return(r)

Serve(in) ==
    \/ \E r \in Requests : Step(r, in)
    \/ \E id \in IdsUsed, role \in Roles : AdminSetRole(id, role)
    \/ \E id \in IdsUsed, pw \in in.passwords : AdminResetPassword(id, pw)

Next == Serve(Inputs) \/ Deploy

Spec == Init /\ [][Next]_vars

(***************************************************************************)
(* Properties.                                                             *)
(***************************************************************************)

\* The shortest password any path lets through: the host's limit for the
\* account pages, eight for the admin form.
Floor == IF minLen < AdminMinLen THEN minLen ELSE AdminMinLen

\* No path stores a password shorter than that, and bcrypt never truncated
\* one: registration, change, admin reset and the rehash of a login
\* (authflow.go:51,108; adminusers.go:116).
NoWeakPassword ==
    \A id \in Ids : /\ PwLen[users[id].hash.pw] >= Floor
                    /\ \/ users[id].hash.pepper # NoPepper
                       \/ PwLen[users[id].hash.pw] <= BcryptMax

\* Whatever the interleaving, the stored hash is that of a password once
\* chosen for this very account, and a login or change that was accepted
\* presented such a password (authflow.go:87,91-95).
KnownPassword ==
    /\ \A id \in Ids : users[id].hash.pw \in history[id].ever
    /\ \A r \in Requests :
         flow[r].op = "authenticate" /\ flow[r].pc \in {"rehash", "done"}
            /\ flow[r].res \in {"none", "ok"}
         => flow[r].id \in Ids /\ flow[r].pw \in history[flow[r].id].ever

\* While processes with the old and the new pepper serve side by side, those
\* with the new one refuse only where no account is found or the one that was read has
\* another password, whether the login names the account or its email
\* (password.go:62-71; authflow.go:78-89).
RotationKeepsLogins ==
    [][\A r \in Requests :
         /\ flow'[r].op = "authenticate" /\ flow'[r].gen = Len(Deployments)
         /\ flow[r].pc \in {"idle", "byEmail"} /\ flow'[r].res = "badCredentials"
         => LET read == IF flow[r].pc = "idle" THEN ByUsername(flow'[r].name)
                        ELSE ByEmail(flow'[r].name)
            IN  read = {} \/ \E id \in read : users[id].hash.pw # flow'[r].pw]_vars

\* The stored hash is that of the password chosen last: once a change or a
\* reset is committed, the old password no longer logs in
\* (authflow_test.go:138).  It needs that no pepper rotation is under way.
LastChosenStands == \A id \in Ids : users[id].hash.pw = history[id].last

\* So far there was one pepper.
Unrotated == \A m, n \in 1..deployed : Deployments[m].Pepper = Deployments[n].Pepper

\* Until the first deployment with another pepper, however requests, failures and
\* deployments that raise the cost overlap.
LastChosenUnlessRotated == Unrotated => LastChosenStands

\* Two accounts whose names differ only in case come from registrations
\* that overlapped: one that looked after the other's row was there is
\* refused (authflow.go:54).
LateRegistrationRefused ==
    [][\A r \in Requests :
         Len(users') > Len(users) /\ flow[r].pc = "create" /\ flow'[r].pc = "done"
            /\ flow'[r].res = "ok"
         => \A id \in 1..flow[r].seen : Lower[users[id].username] # Lower[flow[r].name]]_vars

\* A username names one account: Register refuses one that is taken
\* (authflow_test.go:103).
OneAccountPerName ==
    \A i, j \in Ids : Lower[users[i].username] = Lower[users[j].username] => i = j

\* A login under a Hasher with another cost rewrites the hash ("needsRehash
\* lets a host raise the cost without a migration", SECURITY.md:32).
LoginMigratesCost ==
    [][\A r \in Requests :
         flow'[r].op = "authenticate" /\ flow[r].pc \in {"idle", "byEmail"}
            /\ flow'[r].pc = "done" /\ flow'[r].res = "ok"
         => users[flow'[r].id].hash.cost = cost(HasherOf(flow'[r]))]_vars
=============================================================================
