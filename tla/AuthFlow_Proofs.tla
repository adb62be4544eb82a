---------------------------- MODULE AuthFlow_Proofs ----------------------------
(***************************************************************************)
(* Passwords and logins, for any users, requests, inputs, deployments and  *)
(* minimum length.                                                         *)
(***************************************************************************)
EXTENDS AuthFlow, Users_Proofs

\* A hash in the table: made by some deployment, of a password that was once chosen
\* for its row, and not of a truncated one.
HashesSound ==
    \A id \in Ids :
        LET hash == users[id].hash IN
        /\ hash.pw \in history[id].ever
        /\ hash.pepper # NoPepper \/ PwLen[hash.pw] <= BcryptMax
        /\ \E n \in 1..deployed : hash.pepper = Deployments[n].Pepper

\* Nobody ever chose a password below the floor.
ChoicesStrong == \A id \in Ids : \A pw \in history[id].ever : PwLen[pw] >= Floor

\* What a request found out before the statement that is ahead of it.
RequestSound(q) ==
    /\ q.gen <= deployed
    /\ q.pc # "done" => q.res = "none"
    /\ q.pc = "create" =>
          /\ q.op = "register" /\ q.pw \in Passwords
          /\ PwLen[q.pw] >= minLen /\ CanHash(HasherOf(q), q.pw)
          /\ \A id \in 1..q.seen : id \in Ids /\ Lower[users[id].username] # Lower[q.name]
    /\ q.pc = "write" =>
          /\ q.op = "change" /\ q.pw \in Passwords
          /\ PwLen[q.pw] >= minLen /\ CanHash(HasherOf(q), q.pw)
    /\ q.pc = "byEmail" => q.op = "authenticate" /\ q.pw \in Passwords
    /\ q.pc = "rehash" => q.op = "authenticate" /\ CanHash(HasherOf(q), q.pw)
    /\ q.op = "authenticate" /\ q.pc \in {"rehash", "done"} /\ q.res \in {"none", "ok"} =>
          q.id \in Ids /\ q.pw \in history[q.id].ever

IInv ==
    /\ TypeOK
    /\ HashesSound
    /\ ChoicesStrong
    /\ \A r \in Requests : RequestSound(flow[r])

(***************************************************************************)
(* Lemmas: the values that occur.                                          *)
(***************************************************************************)
LEMMA IdleType == Idle \in Request
<1>1. 1 \in 1..Len(Deployments) /\ NoText \in Texts
  BY AuthFlowAssumption, UsersAssumption, EmptySeq
<1> QED BY <1>1 DEF Idle, Request, Operations, Statements, Results

LEMMA IdleSound ==
    ASSUME deployed \in 1..Len(Deployments)
    PROVE  RequestSound(Idle)
BY DEF Idle, RequestSound

LEMMA DeployedType ==
    ASSUME TypeOK
    PROVE  /\ deployed \in Nat /\ deployed \in 1..deployed /\ deployed \in DOMAIN Deployments
           /\ 1..deployed \subseteq DOMAIN Deployments
BY AuthFlowAssumption, LenProperties DEF TypeOK

\* A new request.
LEMMA CallType ==
    ASSUME TypeOK, NEW op \in Operations, NEW name \in Texts, NEW email \in Texts,
           NEW pw \in Passwords
    PROVE  LET q == Call(op, name, email, pw) IN
           /\ q \in Request
           /\ q.op = op /\ q.pc = "idle" /\ q.gen = deployed /\ q.name = name
           /\ q.email = email /\ q.pw = pw /\ q.res = "none"
<1>1. Idle \in Request /\ deployed \in 1..Len(Deployments)
  BY IdleType DEF TypeOK
<1>2. Idle.pc = "idle" /\ Idle.res = "none"
  BY DEF Idle
<1> QED BY <1>1, <1>2 DEF Call, Request

LEMMA HasherType ==
    ASSUME NEW q \in Request
    PROVE  /\ q.gen \in DOMAIN Deployments
           /\ HasherOf(q) \in Hasher /\ HasherOf(q) = Deployments[q.gen]
<1>1. q.gen \in 1..Len(Deployments) /\ DOMAIN Deployments = 1..Len(Deployments)
  BY AuthFlowAssumption, LenProperties DEF Request
<1> QED BY <1>1, AuthFlowAssumption, ElementOfSeq DEF HasherOf

\* What Hash makes of a password it can hash (password.go:49-52).
LEMMA HashType ==
    ASSUME NEW h \in Hasher, NEW pw \in Passwords
    PROVE  /\ Hash(h, pw) \in HashValue
           /\ Hash(h, pw).pw = pw /\ Hash(h, pw).pepper = h.Pepper
           /\ CanHash(h, pw) => Hash(h, pw).pepper # NoPepper \/ PwLen[pw] <= BcryptMax
<1>1. cost(h) \in Costs
  BY PasswordAssumption DEF Hasher, cost
<1> QED BY <1>1 DEF Hash, HashValue, Hasher, CanHash

\* The limits of all forms are at least the floor.
LEMMA FloorType ==
    /\ minLen \in Int /\ Floor \in Int /\ Floor <= minLen /\ Floor <= AdminMinLen
    /\ \A pw \in Passwords : PwLen[pw] \in Nat
BY AuthFlowAssumption, PasswordAssumption DEF minLen, Floor, AdminMinLen

LEMMA RowType ==
    ASSUME UsersTypeOK
    PROVE  \A id \in Ids : /\ users[id] \in UserRow /\ id \in Nat /\ id \in DOMAIN history
                           /\ users[id].hash \in HashValue
                           /\ history[id] \in Chosen /\ history[id].ever \subseteq Passwords
<1>1. DOMAIN users = 1..Len(users) /\ DOMAIN history = 1..Len(users) /\ Len(users) \in Nat
  BY LenProperties DEF UsersTypeOK
<1>2. \A id \in Ids : users[id] \in UserRow /\ id \in Nat /\ history[id] \in Chosen
  BY <1>1, ElementOfSeq DEF UsersTypeOK, Ids
<1> QED BY <1>1, <1>2 DEF UserRow, Chosen, Ids

(***************************************************************************)
(* Steps of one request that leave the table alone.                        *)
(***************************************************************************)
LEMMA QuietStep ==
    ASSUME IInv, NEW r \in Requests, NEW q \in Request, RequestSound(q),
           flow' = [flow EXCEPT ![r] = q], UNCHANGED <<users, history, deployed>>
    PROVE  IInv'
<1>1. TypeOK'
  BY DEF IInv, TypeOK, UsersTypeOK
<1>2. HashesSound' /\ ChoicesStrong'
  BY DEF IInv, HashesSound, ChoicesStrong, Ids
<1>3. ASSUME NEW p, RequestSound(p) PROVE RequestSound(p)'
  BY <1>3 DEF RequestSound, Ids, HasherOf
<1>4. \A s \in Requests : RequestSound(flow'[s])
  BY DEF IInv, TypeOK
<1>5. \A s \in Requests : RequestSound(flow[s])'
  BY <1>3, <1>4
<1> QED BY <1>1, <1>2, <1>5 DEF IInv

\* Answering with a failure, or with anything but to a login.
LEMMA AnswerStep ==
    ASSUME IInv, NEW r \in Requests, NEW q \in Request, NEW res \in Results \ {"none"},
           q.gen <= deployed,
           q.op = "authenticate" /\ res = "ok" => q.id \in Ids /\ q.pw \in history[q.id].ever,
           Answer(r, q, res), UNCHANGED <<users, history, deployed>>
    PROVE  IInv'
<1> DEFINE p == [q EXCEPT !.pc = "done", !.res = res]
<1>1. p \in Request
  BY DEF Request, Statements
<1>2. RequestSound(p)
  BY DEF RequestSound, Request
<1>3. flow' = [flow EXCEPT ![r] = p]
  BY DEF Answer
<1> HIDE DEF p
<1> QED BY <1>1, <1>2, <1>3, QuietStep

(***************************************************************************)
(* Steps that change the table: a request's findings stay true while no    *)
(* name changes and no choice is forgotten.                                *)
(***************************************************************************)
LEMMA FindingsKept ==
    ASSUME NEW q, RequestSound(q), Ids \subseteq Ids', UNCHANGED deployed,
           \A id \in Ids : /\ users'[id].username = users[id].username
                           /\ history[id].ever \subseteq history'[id].ever
    PROVE  RequestSound(q)'
BY DEF RequestSound, HasherOf

LEMMA TableStep ==
    ASSUME IInv, NEW r \in Requests, NEW q \in Request, RequestSound(q)',
           flow' = [flow EXCEPT ![r] = q] \/ UNCHANGED flow, UNCHANGED deployed,
           UsersTypeOK', HashesSound', ChoicesStrong', Ids \subseteq Ids',
           \A id \in Ids : /\ users'[id].username = users[id].username
                           /\ history[id].ever \subseteq history'[id].ever
    PROVE  IInv'
<1>1. TypeOK'
  BY DEF IInv, TypeOK
<1>2. ASSUME NEW s \in Requests PROVE RequestSound(flow[s])'
  <2>1. flow'[s] = flow[s] \/ flow'[s] = q
    BY DEF IInv, TypeOK
  <2>2. RequestSound(flow[s])
    BY DEF IInv
  <2>3. ASSUME NEW p, RequestSound(p) PROVE RequestSound(p)'
    BY <2>3, FindingsKept
  <2> QED BY <2>1, <2>2, <2>3
<1> QED BY <1>1, <1>2 DEF IInv

LEMMA AdminStep ==
    ASSUME IInv, UNCHANGED <<flow, deployed>>,
           UsersTypeOK', HashesSound', ChoicesStrong', Ids \subseteq Ids',
           \A id \in Ids : /\ users'[id].username = users[id].username
                           /\ history[id].ever \subseteq history'[id].ever
    PROVE  IInv'
<1>1. TypeOK'
  BY DEF IInv, TypeOK
<1>2. ASSUME NEW p, RequestSound(p) PROVE RequestSound(p)'
  BY <1>2, FindingsKept
<1> QED BY <1>1, <1>2 DEF IInv

LEMMA InitInvariant == Init => IInv
<1> SUFFICES ASSUME Init PROVE IInv
  OBVIOUS
<1>1. UsersTypeOK /\ Ids = {}
  BY EmptySeq DEF Init, NoUsers, UsersTypeOK, Ids
<1>2. 1 \in 1..Len(Deployments)
  BY AuthFlowAssumption, EmptySeq
<1>3. TypeOK
  BY <1>1, <1>2, IdleType DEF Init, TypeOK
<1>4. HashesSound /\ ChoicesStrong
  BY <1>1 DEF HashesSound, ChoicesStrong
<1>5. \A r \in Requests : RequestSound(flow[r])
  BY <1>2, IdleSound DEF Init
<1> QED BY <1>3, <1>4, <1>5 DEF IInv

(***************************************************************************)
(* One lemma per action.                                                   *)
(***************************************************************************)
LEMMA RegisterCheckStep ==
    ASSUME IInv, NEW r \in Requests, NEW name \in Texts, NEW email \in Texts,
           NEW pw \in Passwords, RegisterCheck(r, name, email, pw)
    PROVE  IInv'
<1> DEFINE q == [Call("register", name, email, pw) EXCEPT !.seen = Len(users)]
           p == [q EXCEPT !.pc = "create"]
           res == RegisterOutcome(q)
<1>1. Call("register", name, email, pw) \in Request /\ Len(users) \in Nat
  BY CallType, LenProperties DEF IInv, TypeOK, UsersTypeOK, Operations
<1>2. /\ q \in Request /\ q.op = "register" /\ q.name = name /\ q.pw = pw /\ q.res = "none"
      /\ q.seen = Len(users) /\ q.gen <= deployed
  BY <1>1, CallType, DeployedType DEF IInv, Request, Operations
<1>3. CASE res = "ok"
  <2>1. /\ q.pw \in Passwords /\ PwLen[q.pw] >= minLen
        /\ ByUsername(q.name) = {} /\ CanHash(HasherOf(q), q.pw)
    BY <1>2, <1>3, FloorType DEF RegisterOutcome
  <2>2. p \in Request /\ HasherOf(p) = HasherOf(q)
    BY <1>2 DEF Request, Statements, HasherOf
  <2>3. \A id \in 1..p.seen : id \in Ids /\ Lower[users[id].username] # Lower[p.name]
    BY <1>2, <2>1, LenProperties DEF Request, ByUsername, Ids, IInv, TypeOK, UsersTypeOK
  <2>4. RequestSound(p)
    BY <1>2, <2>1, <2>2, <2>3 DEF RequestSound, Request
  <2>5. flow' = [flow EXCEPT ![r] = p] /\ UNCHANGED <<users, history, deployed>>
    BY <1>3 DEF RegisterCheck, Continue
  <2> HIDE DEF p
  <2> QED BY <2>2, <2>4, <2>5, QuietStep
<1>4. CASE res # "ok"
  <2>1. res \in Results \ {"none"}
    BY <1>4 DEF RegisterOutcome, Results
  <2>2. Answer(r, q, res) /\ UNCHANGED <<users, history, deployed>>
    BY <1>4 DEF RegisterCheck
  <2> HIDE DEF q, res
  <2> QED BY <1>2, <1>4, <2>1, <2>2, AnswerStep
<1> QED BY <1>3, <1>4

LEMMA RegisterCreateStep ==
    ASSUME IInv, NEW r \in Requests, RegisterCreate(r)
    PROVE  IInv'
<1> DEFINE q == flow[r]
<1>1. q \in Request /\ RequestSound(q) /\ q.pc = "create" /\ q.gen <= deployed
  BY DEF IInv, TypeOK, RegisterCreate, RequestSound
<1>2. UNCHANGED deployed
  BY DEF RegisterCreate
<1>3. CASE UsernameFree(q.name)
  <2> DEFINE id == Len(users) + 1
             h == HasherOf(q)
             hash == Hash(h, q.pw)
  <2>1. /\ q.pw \in Passwords /\ PwLen[q.pw] >= minLen /\ CanHash(h, q.pw)
        /\ q.op = "register" /\ q.name \in Texts /\ q.email \in Texts
        /\ q.gen \in 1..deployed
    BY <1>1 DEF RequestSound, Request
  <2>2. h \in Hasher /\ h = Deployments[q.gen]
    BY <1>1, HasherType
  <2>3. /\ hash \in HashValue /\ hash.pw = q.pw /\ hash.pepper = Deployments[q.gen].Pepper
        /\ hash.pepper # NoPepper \/ PwLen[q.pw] <= BcryptMax
    BY <2>1, <2>2, HashType
  <2>4. Create(q.name, q.email, hash, DefaultRole)
    BY <1>3 DEF RegisterCreate
  <2> HIDE DEF h, hash
  <2>5. /\ UsersTypeOK' /\ Ids' = Ids \cup {id} /\ id \notin Ids /\ id \in Nat
        /\ users'[id].hash = hash
        /\ history'[id].ever = {hash.pw}
        /\ \A i \in Ids : users'[i] = users[i] /\ history'[i] = history[i]
    <3>1. UsersTypeOK /\ DefaultRole \in Roles
      BY AuthFlowAssumption DEF IInv, TypeOK
    <3>2. /\ UsersTypeOK' /\ Ids' = Ids \cup {id} /\ id \notin Ids /\ id \in Nat
          /\ users'[id] = [username |-> q.name, email |-> q.email, hash |-> hash,
                           role |-> DefaultRole, email_verified |-> FALSE]
          /\ history'[id] = [last |-> hash.pw, ever |-> {hash.pw}]
          /\ \A i \in Ids : users'[i] = users[i] /\ history'[i] = history[i]
      BY <2>1, <2>3, <2>4, <3>1, CreateRows
    <3> QED BY <3>2
  <2>6. PwLen[hash.pw] >= Floor
    BY <2>1, <2>3, FloorType
  <2>7. HashesSound'
    BY <1>2, <2>1, <2>3, <2>5 DEF IInv, HashesSound
  <2>8. ChoicesStrong'
    BY <2>5, <2>6 DEF IInv, ChoicesStrong
  <2>9. PICK p \in Request : /\ p = [q EXCEPT !.id = id, !.pc = "done", !.res = "ok"]
                             /\ p.op = "register" /\ p.pc = "done" /\ p.gen <= deployed
    <3>1. [q EXCEPT !.id = id, !.pc = "done", !.res = "ok"] \in Request
      BY <1>1, <2>5 DEF Request, Statements, Results
    <3> QED BY <1>1, <2>1, <3>1 DEF Request
  <2>10. flow' = [flow EXCEPT ![r] = p] /\ UNCHANGED deployed
    BY <1>3, <2>9 DEF RegisterCreate, Answer
  <2>11. RequestSound(p)'
    BY <2>9, <2>10 DEF RequestSound
  <2> QED BY <2>5, <2>7, <2>8, <2>9, <2>10, <2>11, TableStep
<1>4. CASE ~ UsernameFree(q.name)
  <2>1. Answer(r, q, "dbError") /\ UNCHANGED <<users, history, deployed>>
    BY <1>4 DEF RegisterCreate
  <2> HIDE DEF q
  <2> QED BY <1>1, <2>1, AnswerStep DEF Results
<1> QED BY <1>3, <1>4

\* The verdict on a row of the table: whoever passes presented a password once chosen for it.
LEMMA JudgeStep ==
    ASSUME IInv, NEW r \in Requests, NEW q \in Request, NEW id \in Ids,
           q.op = "authenticate", q.res = "none", q.gen <= deployed,
           Judge(r, q, id), UNCHANGED <<users, history, deployed>>
    PROVE  IInv'
<1> DEFINE h == HasherOf(q)
           hash == users[id].hash
           mine == [q EXCEPT !.id = id]
           p == [mine EXCEPT !.pc = "rehash"]
<1>1. id \in Nat
  BY RowType DEF IInv, TypeOK
<1>2. /\ mine \in Request /\ mine.id = id /\ mine.pw = q.pw /\ mine.op = "authenticate"
      /\ mine.res = "none" /\ mine.gen <= deployed
  BY <1>1 DEF Request
<1>3. CASE ~ Verify(h, hash, q.pw)
  <2>1. Answer(r, q, "badCredentials")
    BY <1>3 DEF Judge
  <2> QED BY <2>1, AnswerStep DEF Results
<1>4. Verify(h, hash, q.pw) => q.pw \in history[id].ever
  BY DEF Verify, Check, NeedsRehash, Matches, IInv, HashesSound
<1>5. CASE Verify(h, hash, q.pw) /\ NeedsRehash(h, hash, q.pw) /\ CanHash(h, q.pw)
  <2>1. p \in Request /\ HasherOf(p) = h /\ p.pw = q.pw /\ p.id = id
    BY <1>2 DEF Request, Statements, HasherOf
  <2>2. RequestSound(p)
    BY <1>2, <1>4, <1>5, <2>1 DEF RequestSound, Request
  <2>3. flow' = [flow EXCEPT ![r] = p]
    BY <1>5 DEF Judge, Continue
  <2> HIDE DEF p
  <2> QED BY <2>1, <2>2, <2>3, QuietStep
<1>6. CASE Verify(h, hash, q.pw) /\ ~ (NeedsRehash(h, hash, q.pw) /\ CanHash(h, q.pw))
  <2>1. Answer(r, mine, "ok")
    BY <1>6 DEF Judge
  <2> HIDE DEF mine
  <2> QED BY <1>2, <1>4, <1>6, <2>1, AnswerStep DEF Results
<1> QED BY <1>3, <1>5, <1>6

LEMMA AuthenticateByNameStep ==
    ASSUME IInv, NEW r \in Requests, NEW identifier \in Texts, NEW pw \in Passwords,
           AuthenticateByName(r, identifier, pw)
    PROVE  IInv'
<1> DEFINE q == Call("authenticate", identifier, NoText, pw)
           p == [q EXCEPT !.pc = "byEmail"]
<1>1. q \in Request /\ q.op = "authenticate" /\ q.res = "none" /\ q.pw = pw /\ q.gen <= deployed
  BY CallType, UsersAssumption, DeployedType DEF IInv, Operations
<1>2. ASSUME NEW id \in ByUsername(identifier), Judge(r, q, id) PROVE IInv'
  <2>1. id \in Ids
    BY DEF ByUsername
  <2>2. UNCHANGED <<users, history, deployed>>
    BY DEF AuthenticateByName
  <2> HIDE DEF q
  <2> QED BY <1>1, <1>2, <2>1, <2>2, JudgeStep
<1>3. CASE Continue(r, q, "byEmail")
  <2> HIDE DEF q
  <2>1. p \in Request /\ RequestSound(p)
    BY <1>1 DEF Request, Statements, RequestSound
  <2>2. flow' = [flow EXCEPT ![r] = p] /\ UNCHANGED <<users, history, deployed>>
    BY <1>3 DEF Continue, AuthenticateByName
  <2> HIDE DEF p
  <2> QED BY <2>1, <2>2, QuietStep
<1> QED BY <1>2, <1>3 DEF AuthenticateByName

LEMMA AuthenticateByEmailStep ==
    ASSUME IInv, NEW r \in Requests, AuthenticateByEmail(r)
    PROVE  IInv'
<1> DEFINE q == flow[r]
<1>1. q \in Request /\ q.op = "authenticate" /\ q.res = "none" /\ q.gen <= deployed
  BY DEF IInv, TypeOK, AuthenticateByEmail, RequestSound
<1>2. ASSUME NEW id \in ByEmail(q.name), Judge(r, q, id) PROVE IInv'
  <2>1. id \in Ids
    BY DEF ByEmail
  <2>2. UNCHANGED <<users, history, deployed>>
    BY DEF AuthenticateByEmail
  <2> HIDE DEF q
  <2> QED BY <1>1, <1>2, <2>1, <2>2, JudgeStep
<1>3. CASE Answer(r, q, "badCredentials")
  <2>1. UNCHANGED <<users, history, deployed>>
    BY DEF AuthenticateByEmail
  <2> HIDE DEF q
  <2> QED BY <1>1, <1>3, <2>1, AnswerStep DEF Results
<1> QED BY <1>2, <1>3 DEF AuthenticateByEmail

\* The plaintext of the login is put back: it was chosen for the row some time.
LEMMA RehashStep ==
    ASSUME IInv, NEW r \in Requests, Rehash(r)
    PROVE  IInv'
<1> DEFINE q == flow[r]
           h == HasherOf(q)
           hash == Hash(h, q.pw)
<1>1. /\ q \in Request /\ q.op = "authenticate" /\ CanHash(h, q.pw)
      /\ q.id \in Ids /\ q.pw \in history[q.id].ever /\ q.gen \in 1..deployed
  BY DEF IInv, TypeOK, Rehash, RequestSound, Request
<1>2. q.pw \in Passwords
  BY <1>1, RowType DEF IInv, TypeOK
<1>3. h \in Hasher /\ h = Deployments[q.gen]
  BY <1>1, HasherType
<1>4. /\ hash \in HashValue /\ hash.pw = q.pw /\ hash.pepper = Deployments[q.gen].Pepper
      /\ hash.pepper # NoPepper \/ PwLen[hash.pw] <= BcryptMax
  BY <1>1, <1>2, <1>3, HashType
<1>5. UpdatePasswordHash(q.id, hash) /\ UNCHANGED <<history, deployed>>
  BY DEF Rehash
<1>6. PICK p : p = [q EXCEPT !.pc = "done", !.res = "ok"]
  OBVIOUS
<1> HIDE DEF h, hash
<1>7. /\ users' \in Seq(UserRow) /\ Len(users') = Len(users) /\ Ids' = Ids
      /\ \A i \in Ids : users'[i] = IF i = q.id THEN [users[i] EXCEPT !.hash = hash]
                                                ELSE users[i]
  BY <1>4, <1>5, UpdateHashRows DEF IInv, TypeOK
<1>8. \A i \in Ids : /\ users'[i].hash = IF i = q.id THEN hash ELSE users[i].hash
                     /\ users'[i].username = users[i].username
  BY <1>7, RowType DEF IInv, TypeOK, UserRow
<1>9. UsersTypeOK'
  BY <1>5, <1>7 DEF IInv, TypeOK, UsersTypeOK
<1>10. HashesSound'
  BY <1>1, <1>4, <1>5, <1>7, <1>8 DEF IInv, HashesSound
<1>11. ChoicesStrong'
  BY <1>5, <1>7 DEF IInv, ChoicesStrong
<1>12. /\ p \in Request /\ p.op = "authenticate" /\ p.pc = "done" /\ p.id = q.id
       /\ p.pw = q.pw /\ p.gen = q.gen
  BY <1>1, <1>6 DEF Request, Statements, Results
<1>13. p.id \in Ids' /\ p.pw \in history'[p.id].ever
  BY <1>1, <1>5, <1>7, <1>12
<1>14. RequestSound(p)'
  BY <1>1, <1>5, <1>12, <1>13 DEF RequestSound
<1>15. flow' = [flow EXCEPT ![r] = p]
  BY <1>6 DEF Rehash, Answer
<1>16. \A i \in Ids : /\ users'[i].username = users[i].username
                      /\ history[i].ever \subseteq history'[i].ever
  BY <1>5, <1>8
<1> QED
  BY <1>5, <1>7, <1>9, <1>10, <1>11, <1>12, <1>14, <1>15, <1>16, TableStep

LEMMA ChangeCheckStep ==
    ASSUME IInv, NEW r \in Requests, NEW id \in IdsUsed, NEW current \in Passwords,
           NEW next \in Passwords, ChangeCheck(r, id, current, next)
    PROVE  IInv'
<1> DEFINE c == Call("change", NoText, NoText, next)
           q == [c EXCEPT !.id = id]
           p == [q EXCEPT !.pc = "write"]
           res == ChangeOutcome(q, id, current)
<1>1. id \in Nat
  BY LenProperties DEF IInv, TypeOK, UsersTypeOK, IdsUsed
<1>2. c \in Request /\ c.op = "change" /\ c.pw = next /\ c.res = "none" /\ c.gen <= deployed
  BY CallType, UsersAssumption, DeployedType DEF IInv, Operations
<1> HIDE DEF c
<1>3. q \in Request /\ q.op = "change" /\ q.pw = next /\ q.res = "none" /\ q.gen <= deployed
  BY <1>1, <1>2 DEF Request
<1>4. CASE res = "ok"
  <2>1. PwLen[q.pw] >= minLen /\ CanHash(HasherOf(q), q.pw)
    BY <1>3, <1>4, FloorType DEF ChangeOutcome
  <2>2. p \in Request /\ HasherOf(p) = HasherOf(q)
    BY <1>3 DEF Request, Statements, HasherOf
  <2>3. RequestSound(p)
    BY <1>3, <2>1, <2>2 DEF RequestSound, Request
  <2>4. flow' = [flow EXCEPT ![r] = p] /\ UNCHANGED <<users, history, deployed>>
    BY <1>4 DEF ChangeCheck, Continue, c
  <2> HIDE DEF p
  <2> QED BY <2>2, <2>3, <2>4, QuietStep
<1>5. CASE res # "ok"
  <2>1. res \in Results \ {"none"}
    BY <1>5 DEF ChangeOutcome, Results
  <2>2. Answer(r, q, res) /\ UNCHANGED <<users, history, deployed>>
    BY <1>5 DEF ChangeCheck, c
  <2> HIDE DEF q, res
  <2> QED BY <1>3, <1>5, <2>1, <2>2, AnswerStep
<1> QED BY <1>4, <1>5

\* A deliberate choice of a password that is long enough and can be hashed.
LEMMA ChooseStep ==
    ASSUME IInv, UNCHANGED deployed, NEW n \in 1..deployed, NEW pw \in Passwords, NEW id,
           PwLen[pw] >= Floor, CanHash(Deployments[n], pw),
           ChoosePassword(id, Hash(Deployments[n], pw))
    PROVE  /\ UsersTypeOK' /\ HashesSound' /\ ChoicesStrong' /\ Ids' = Ids
           /\ \A i \in Ids : /\ users'[i].username = users[i].username
                             /\ history[i].ever \subseteq history'[i].ever
<1> DEFINE hash == Hash(Deployments[n], pw)
<1>1. Deployments[n] \in Hasher
  BY AuthFlowAssumption, ElementOfSeq, LenProperties, DeployedType DEF IInv
<1>2. /\ hash \in HashValue /\ hash.pw = pw /\ hash.pepper = Deployments[n].Pepper
      /\ hash.pepper # NoPepper \/ PwLen[hash.pw] <= BcryptMax
  BY <1>1, HashType
<1> HIDE DEF hash
<1>3. /\ UsersTypeOK' /\ Ids' = Ids
      /\ \A i \in Ids : users'[i] = IF i = id THEN [users[i] EXCEPT !.hash = hash]
                                              ELSE users[i]
      /\ \A i \in Ids : history'[i] =
            IF i = id THEN [last |-> hash.pw, ever |-> history[i].ever \cup {hash.pw}]
                      ELSE history[i]
  BY <1>2, ChoosePasswordRows DEF IInv, TypeOK, hash
<1>4. \A i \in Ids : /\ users'[i].hash = IF i = id THEN hash ELSE users[i].hash
                     /\ users'[i].username = users[i].username
  <2>1. \A i \in Ids : users[i] \in UserRow
    BY RowType DEF IInv, TypeOK
  <2> QED BY <1>3, <2>1 DEF UserRow
<1>5. \A i \in Ids : history'[i].ever =
                        IF i = id THEN history[i].ever \cup {pw} ELSE history[i].ever
  <2> SUFFICES ASSUME NEW i \in Ids
               PROVE  history'[i].ever =
                        IF i = id THEN history[i].ever \cup {pw} ELSE history[i].ever
    OBVIOUS
  <2>1. CASE i = id
    <3>1. history'[i] = [last |-> hash.pw, ever |-> history[i].ever \cup {hash.pw}]
      BY <1>3, <2>1
    <3> QED BY <1>2, <2>1, <3>1
  <2>2. CASE i # id
    <3>1. history'[i] = history[i]
      BY <1>3, <2>2
    <3> QED BY <2>2, <3>1
  <2> QED BY <2>1, <2>2
<1>6. Ids' = Ids /\ UsersTypeOK'
  BY <1>3
<1>7. HashesSound'
  BY <1>2, <1>4, <1>5, <1>6 DEF IInv, HashesSound
<1>8. ChoicesStrong'
  BY <1>5, <1>6 DEF IInv, ChoicesStrong
<1> QED BY <1>4, <1>5, <1>6, <1>7, <1>8

LEMMA ChangeWriteStep ==
    ASSUME IInv, NEW r \in Requests, ChangeWrite(r)
    PROVE  IInv'
<1> DEFINE q == flow[r]
<1>1. /\ q \in Request /\ q.op = "change" /\ q.pw \in Passwords
      /\ PwLen[q.pw] >= minLen /\ CanHash(HasherOf(q), q.pw) /\ q.gen \in 1..deployed
  BY DEF IInv, TypeOK, ChangeWrite, RequestSound, Request
<1>2. HasherOf(q) = Deployments[q.gen]
  BY <1>1, HasherType
<1>3. PICK p \in Request : /\ p = [q EXCEPT !.pc = "done", !.res = "ok"]
                           /\ p.pc = "done" /\ p.op = "change" /\ p.gen = q.gen
  <2>1. [q EXCEPT !.pc = "done", !.res = "ok"] \in Request
    BY <1>1 DEF Request, Statements, Results
  <2> QED BY <1>1, <2>1 DEF Request
<1>4. /\ ChoosePassword(q.id, Hash(HasherOf(q), q.pw))
      /\ flow' = [flow EXCEPT ![r] = p] /\ UNCHANGED deployed
  BY <1>3 DEF ChangeWrite, Answer
<1>5. PwLen[q.pw] >= Floor
  BY <1>1, FloorType
<1> HIDE DEF q
<1>6. /\ UsersTypeOK' /\ HashesSound' /\ ChoicesStrong' /\ Ids' = Ids
      /\ \A i \in Ids : /\ users'[i].username = users[i].username
                        /\ history[i].ever \subseteq history'[i].ever
  BY <1>1, <1>2, <1>4, <1>5, ChooseStep
<1>7. RequestSound(p)'
  BY <1>1, <1>3, <1>4 DEF RequestSound
<1> QED BY <1>3, <1>4, <1>6, <1>7, TableStep

LEMMA FailStep ==
    ASSUME IInv, NEW r \in Requests, Fail(r)
    PROVE  IInv'
<1> DEFINE q == flow[r]
<1>1. q \in Request /\ q.gen <= deployed /\ UNCHANGED <<users, history, deployed>>
  BY DEF IInv, TypeOK, Fail, RequestSound
<1>2. CASE q.pc \in {"create", "byEmail", "write"} /\ Answer(r, q, "dbError")
  <2> HIDE DEF q
  <2> QED BY <1>1, <1>2, AnswerStep DEF Results
<1>3. CASE q.pc = "rehash" /\ Answer(r, q, "ok")
  <2>1. q.id \in Ids /\ q.pw \in history[q.id].ever
    BY <1>3 DEF IInv, RequestSound
  <2> HIDE DEF q
  <2> QED BY <1>1, <1>3, <2>1, AnswerStep DEF Results
<1> QED BY <1>2, <1>3 DEF Fail

LEMMA AdminSetRoleStep ==
    ASSUME IInv, NEW id, NEW role \in Roles, AdminSetRole(id, role)
    PROVE  IInv'
<1>1. /\ UsersTypeOK' /\ Ids' = Ids
      /\ \A i \in Ids : users'[i] = IF i = id THEN [users[i] EXCEPT !.role = role]
                                              ELSE users[i]
  BY SetRoleRows DEF AdminSetRole, IInv, TypeOK
<1>2. \A i \in Ids : users'[i].hash = users[i].hash /\ users'[i].username = users[i].username
  BY <1>1, RowType DEF IInv, TypeOK, UserRow
<1>3. UNCHANGED <<history, flow, deployed>>
  BY DEF AdminSetRole
<1>4. UsersTypeOK' /\ HashesSound' /\ ChoicesStrong'
  BY <1>1, <1>2, <1>3 DEF IInv, HashesSound, ChoicesStrong
<1> QED BY <1>1, <1>2, <1>3, <1>4, AdminStep

LEMMA AdminResetPasswordStep ==
    ASSUME IInv, NEW id, NEW pw \in Passwords, AdminResetPassword(id, pw)
    PROVE  IInv'
<1>1. deployed \in 1..deployed
  BY DeployedType DEF IInv
<1>2. PwLen[pw] >= Floor
  BY FloorType DEF AdminResetPassword, AdminMinLen
<1>3. /\ UsersTypeOK' /\ HashesSound' /\ ChoicesStrong' /\ Ids' = Ids
      /\ \A i \in Ids : /\ users'[i].username = users[i].username
                        /\ history[i].ever \subseteq history'[i].ever
  BY <1>1, <1>2, ChooseStep DEF AdminResetPassword
<1> QED BY <1>3, AdminStep DEF AdminResetPassword

LEMMA DeployStep ==
    ASSUME IInv, Deploy
    PROVE  IInv'
<1>1. Len(Deployments) \in Nat /\ deployed \in Nat
  BY AuthFlowAssumption, LenProperties DEF IInv, TypeOK
<1>2. TypeOK' /\ HashesSound' /\ ChoicesStrong'
  BY <1>1 DEF IInv, TypeOK, UsersTypeOK, HashesSound, ChoicesStrong, Ids, Deploy
<1>3. ASSUME NEW p \in Request, RequestSound(p) PROVE RequestSound(p)'
  <2>1. p.gen \in Nat /\ deployed' = deployed + 1
    BY DEF Request, Deploy
  <2> QED BY <1>1, <1>3, <2>1 DEF RequestSound, Ids, HasherOf, Deploy
<1> QED BY <1>2, <1>3 DEF IInv, TypeOK, Deploy

LEMMA NextInvariant == IInv /\ [Next]_vars => IInv'
<1> SUFFICES ASSUME IInv, [Next]_vars PROVE IInv'
  OBVIOUS
<1>1. CASE UNCHANGED vars
  <2>1. TypeOK' /\ HashesSound' /\ ChoicesStrong'
    BY <1>1 DEF IInv, TypeOK, UsersTypeOK, HashesSound, ChoicesStrong, Ids, vars
  <2>2. ASSUME NEW p, RequestSound(p) PROVE RequestSound(p)'
    BY <1>1, <2>2 DEF RequestSound, Ids, HasherOf, vars
  <2> QED BY <1>1, <2>1, <2>2 DEF IInv, vars
<1>2. ASSUME NEW r \in Requests, Step(r, Inputs) PROVE IInv'
  <2>1. /\ Inputs.usernames \subseteq Texts /\ Inputs.emails \subseteq Texts
        /\ Inputs.identifiers = Texts /\ Inputs.passwords = Passwords
    BY AuthFlowAssumption DEF Inputs
  <2>2. ASSUME NEW name \in Texts, NEW email \in Texts, NEW pw \in Passwords,
               RegisterCheck(r, name, email, pw)
        PROVE  IInv'
    BY <2>2, RegisterCheckStep
  <2>3. ASSUME NEW identifier \in Texts, NEW pw \in Passwords,
               AuthenticateByName(r, identifier, pw)
        PROVE  IInv'
    BY <2>3, AuthenticateByNameStep
  <2>4. ASSUME NEW id \in IdsUsed, NEW current \in Passwords, NEW next \in Passwords,
               ChangeCheck(r, id, current, next)
        PROVE  IInv'
    BY <2>4, ChangeCheckStep
  <2>5. CASE Return(r)
    <3>1. flow' = [flow EXCEPT ![r] = Idle] /\ UNCHANGED <<users, history, deployed>>
      BY <2>5 DEF Return
    <3> QED BY <3>1, IdleType, IdleSound, QuietStep DEF IInv, TypeOK
  <2> QED
    BY <1>2, <2>1, <2>2, <2>3, <2>4, <2>5, RegisterCreateStep, AuthenticateByEmailStep,
       RehashStep, ChangeWriteStep, FailStep DEF Step
<1>3. ASSUME NEW id \in IdsUsed, NEW role \in Roles, AdminSetRole(id, role) PROVE IInv'
  BY <1>3, AdminSetRoleStep
<1>4. ASSUME NEW id \in IdsUsed, NEW pw \in Passwords, AdminResetPassword(id, pw) PROVE IInv'
  BY <1>4, AdminResetPasswordStep
<1>5. CASE Deploy
  BY <1>5, DeployStep
<1>6. Inputs.passwords = Passwords
  BY DEF Inputs
<1> QED BY <1>1, <1>2, <1>3, <1>4, <1>5, <1>6 DEF Next, Serve

(***************************************************************************)
(* The results.                                                            *)
(***************************************************************************)
\* The invariant holds in every reachable state.
THEOREM Invariance == Spec => []IInv
BY InitInvariant, NextInvariant, PTL DEF Spec

\* Every variable keeps its type, among them the results a request can be answered with.
THEOREM TypeCorrect == Spec => []TypeOK
<1>1. IInv => TypeOK
  BY DEF IInv
<1> QED BY <1>1, Invariance, PTL

\* No password below the floor is ever stored, and no hash is one of a truncated
\* password (authflow.go:51,108; adminusers.go:116; password.go:49-52).
THEOREM PasswordsAreStrong == Spec => []NoWeakPassword
<1>1. IInv => NoWeakPassword
  BY DEF IInv, HashesSound, ChoicesStrong, NoWeakPassword
<1> QED BY <1>1, Invariance, PTL

\* Every hash is that of a password chosen for its row, and so is what every accepted login
\* presented (authflow.go:87,91-95).
THEOREM PasswordsAreKnown == Spec => []KnownPassword
<1>1. IInv => KnownPassword
  BY DEF IInv, HashesSound, RequestSound, KnownPassword
<1> QED BY <1>1, Invariance, PTL

\* An INSERT that succeeds has found no row of that name among those that were there when
\* its request looked (authflow.go:54).
THEOREM LateIsRefused == Spec => LateRegistrationRefused
<1>1. IInv /\ [Next]_vars =>
         [\A r \in Requests :
            Len(users') > Len(users) /\ flow[r].pc = "create" /\ flow'[r].pc = "done"
               /\ flow'[r].res = "ok"
            => \A id \in 1..flow[r].seen :
                  Lower[users[id].username] # Lower[flow[r].name]]_vars
  <2>1. IInv => \A r \in Requests : flow[r].pc = "create" =>
          \A id \in 1..flow[r].seen : Lower[users[id].username] # Lower[flow[r].name]
    BY DEF IInv, RequestSound
  <2> QED BY <2>1
<1> QED BY <1>1, Invariance, PTL DEF Spec, LateRegistrationRefused

(***************************************************************************)
(* A rotation.                                                             *)
(***************************************************************************)
\* The Hasher that is served in the end knows the pepper of every earlier one: it is its
\* own, or the previous one it still accepts (password.go:62-71).
PeppersKnown ==
    LET last == Deployments[Len(Deployments)] IN
    \A n \in DOMAIN Deployments :
        \/ Deployments[n].Pepper = last.Pepper
        \/ Deployments[n].Pepper = last.PrevPepper /\ last.PrevPepper # NoPepper

\* Whom the verdict on a row refuses has presented another password than the row's.
LEMMA RefusedPassword ==
    ASSUME PeppersKnown, IInv, NEW r \in Requests, NEW q \in Request, q.res = "none",
           NEW id \in Ids, Judge(r, q, id),
           flow'[r].gen = Len(Deployments), flow'[r].res = "badCredentials"
    PROVE  users[id].hash.pw # flow'[r].pw
<1> DEFINE h == HasherOf(q)
           hash == users[id].hash
           mine == [q EXCEPT !.id = id]
<1>1. ~ Verify(h, hash, q.pw)
  <2>1. CASE flow' = [flow EXCEPT ![r] = [mine EXCEPT !.pc = "rehash"]]
    <3>1. flow'[r].res = "none"
      BY <2>1 DEF IInv, TypeOK, Request
    <3> QED BY <3>1
  <2>2. CASE flow' = [flow EXCEPT ![r] = [mine EXCEPT !.pc = "done", !.res = "ok"]]
    <3>1. flow'[r].res = "ok"
      BY <2>2 DEF IInv, TypeOK, Request
    <3> QED BY <3>1
  <2> QED BY <2>1, <2>2 DEF Judge, Continue, Answer
<1>2. flow' = [flow EXCEPT ![r] = [q EXCEPT !.pc = "done", !.res = "badCredentials"]]
  BY <1>1 DEF Judge, Answer
<1>3. flow'[r].gen = q.gen /\ flow'[r].pw = q.pw
  BY <1>2 DEF IInv, TypeOK, Request
<1>4. h = Deployments[Len(Deployments)]
  BY <1>3 DEF HasherOf
<1>5. hash.pepper = h.Pepper \/ (hash.pepper = h.PrevPepper /\ h.PrevPepper # NoPepper)
  BY <1>4, DeployedType DEF PeppersKnown, IInv, HashesSound
<1>6. hash.pw # q.pw
  BY <1>1, <1>5 DEF Verify, Check, NeedsRehash, Matches
<1> QED BY <1>3, <1>6

\* Only a login's two reads refuse it.
LEMMA WhoRefuses ==
    ASSUME IInv, Next, NEW r \in Requests, flow'[r].op = "authenticate",
           flow[r].pc \in {"idle", "byEmail"}, flow'[r].res = "badCredentials"
    PROVE  \/ /\ flow[r].pc = "idle"
              /\ \E identifier \in Texts, pw \in Passwords : AuthenticateByName(r, identifier, pw)
           \/ flow[r].pc = "byEmail" /\ AuthenticateByEmail(r)
<1>1. flow[r] \in Request /\ flow[r].res = "none" /\ flow \in [Requests -> Request]
  BY DEF IInv, TypeOK, RequestSound
<1>2. flow'[r] # flow[r]
  BY <1>1
<1>3. Step(r, Inputs)
  <2>1. ASSUME NEW s \in Requests, Step(s, Inputs), s # r PROVE flow'[r] = flow[r]
    BY <1>1, <2>1 DEF Step, RegisterCheck, RegisterCreate, AuthenticateByName,
       AuthenticateByEmail, Rehash, ChangeCheck, ChangeWrite, Fail, Return, Judge, Answer,
       Continue
  <2> QED BY <1>2, <2>1 DEF Next, Serve, AdminSetRole, AdminResetPassword, Deploy
<1>4. ASSUME NEW name \in Texts, NEW email \in Texts, NEW pw \in Passwords,
             RegisterCheck(r, name, email, pw)
      PROVE  FALSE
  <2> DEFINE c == Call("register", name, email, pw)
             q == [c EXCEPT !.seen = Len(users)]
  <2>1. c \in Request /\ c.op = "register"
    BY CallType DEF IInv, Operations
  <2> HIDE DEF c
  <2>2. flow'[r].op = "register"
    BY <1>1, <1>4, <2>1 DEF RegisterCheck, Continue, Answer, Request, c
  <2> QED BY <2>2
<1>5. ASSUME NEW id, NEW current, NEW next \in Passwords, ChangeCheck(r, id, current, next)
      PROVE  FALSE
  <2> DEFINE c == Call("change", NoText, NoText, next)
  <2>1. c \in Request /\ c.op = "change"
    BY CallType, UsersAssumption DEF IInv, Operations
  <2> HIDE DEF c
  <2>2. flow'[r].op = "change"
    BY <1>1, <1>5, <2>1 DEF ChangeCheck, Continue, Answer, Request, c
  <2> QED BY <2>2
<1>6. ~ RegisterCreate(r) /\ ~ Rehash(r) /\ ~ ChangeWrite(r)
  BY DEF RegisterCreate, Rehash, ChangeWrite
<1>7. CASE Fail(r)
  <2>1. flow'[r].res \in {"dbError", "ok"}
    BY <1>1, <1>7 DEF Fail, Answer, Request
  <2> QED BY <2>1
<1>8. CASE Return(r)
  <2>1. flow'[r].res = "none"
    BY <1>1, <1>8 DEF Return, Idle
  <2> QED BY <2>1
<1>9. /\ Inputs.usernames \subseteq Texts /\ Inputs.emails \subseteq Texts
      /\ Inputs.identifiers = Texts /\ Inputs.passwords = Passwords
  BY AuthFlowAssumption DEF Inputs
<1>10. ASSUME NEW identifier, NEW pw, AuthenticateByName(r, identifier, pw)
       PROVE  flow[r].pc = "idle"
  BY <1>10 DEF AuthenticateByName
<1> QED
  BY <1>3, <1>4, <1>5, <1>6, <1>7, <1>8, <1>9, <1>10 DEF Step, AuthenticateByEmail

LEMMA RotationStep ==
    ASSUME PeppersKnown, IInv, Next, NEW r \in Requests, flow'[r].op = "authenticate",
           flow'[r].gen = Len(Deployments), flow[r].pc \in {"idle", "byEmail"},
           flow'[r].res = "badCredentials"
    PROVE  LET read == IF flow[r].pc = "idle" THEN ByUsername(flow'[r].name)
                       ELSE ByEmail(flow'[r].name)
           IN  read = {} \/ \E id \in read : users[id].hash.pw # flow'[r].pw
<1>1. flow \in [Requests -> Request] /\ flow[r].res = "none"
  BY DEF IInv, TypeOK, RequestSound
<1>2. ASSUME NEW q \in Request, NEW id, Judge(r, q, id) PROVE flow'[r].name = q.name
  BY <1>1, <1>2 DEF Judge, Answer, Continue, Request
<1>3. ASSUME NEW identifier \in Texts, NEW pw \in Passwords,
             AuthenticateByName(r, identifier, pw)
      PROVE  \E id \in ByUsername(flow'[r].name) : users[id].hash.pw # flow'[r].pw
  <2> DEFINE q == Call("authenticate", identifier, NoText, pw)
  <2>1. q \in Request /\ q.name = identifier /\ q.res = "none"
    BY CallType, UsersAssumption DEF IInv, Operations
  <2>2. CASE Continue(r, q, "byEmail")
    <3> HIDE DEF q
    <3>1. flow'[r].res = "none"
      BY <1>1, <2>1, <2>2 DEF Continue, Request
    <3> QED BY <3>1
  <2>3. ASSUME NEW id \in ByUsername(identifier), Judge(r, q, id)
        PROVE  flow'[r].name = identifier /\ users[id].hash.pw # flow'[r].pw
    <3> HIDE DEF q
    <3>1. id \in Ids
      BY DEF ByUsername
    <3> QED BY <1>2, <2>1, <2>3, <3>1, RefusedPassword
  <2> QED BY <1>3, <2>2, <2>3 DEF AuthenticateByName
<1>4. ASSUME AuthenticateByEmail(r)
      PROVE  \/ ByEmail(flow'[r].name) = {}
             \/ \E id \in ByEmail(flow'[r].name) : users[id].hash.pw # flow'[r].pw
  <2> DEFINE q == flow[r]
  <2>1. q \in Request
    BY <1>1
  <2>2. CASE ByEmail(q.name) = {} /\ Answer(r, q, "badCredentials")
    <3>1. flow'[r].name = q.name
      BY <1>1, <2>2 DEF Answer, Request
    <3> QED BY <2>2, <3>1
  <2>3. ASSUME NEW id \in ByEmail(q.name), Judge(r, q, id)
        PROVE  flow'[r].name = q.name /\ users[id].hash.pw # flow'[r].pw
    <3>1. id \in Ids
      BY DEF ByEmail
    <3> QED BY <1>1, <1>2, <2>1, <2>3, <3>1, RefusedPassword
  <2> QED BY <1>4, <2>2, <2>3 DEF AuthenticateByEmail
<1> QED BY <1>3, <1>4, WhoRefuses

\* During a rotation a process with the new pepper refuses nobody over a hash made with
\* the old one (password.go:62-71; authflow.go:78-89).
THEOREM RotationIsSilent == PeppersKnown /\ Spec => RotationKeepsLogins
<1> SUFFICES ASSUME PeppersKnown PROVE Spec => RotationKeepsLogins
  OBVIOUS
<1>1. IInv /\ [Next]_vars =>
        [\A r \in Requests :
           /\ flow'[r].op = "authenticate" /\ flow'[r].gen = Len(Deployments)
           /\ flow[r].pc \in {"idle", "byEmail"} /\ flow'[r].res = "badCredentials"
           => LET read == IF flow[r].pc = "idle" THEN ByUsername(flow'[r].name)
                          ELSE ByEmail(flow'[r].name)
              IN  read = {} \/ \E id \in read : users[id].hash.pw # flow'[r].pw]_vars
  <2> SUFFICES ASSUME IInv, Next, NEW r \in Requests, flow'[r].op = "authenticate",
                      flow'[r].gen = Len(Deployments), flow[r].pc \in {"idle", "byEmail"},
                      flow'[r].res = "badCredentials"
               PROVE  LET read == IF flow[r].pc = "idle" THEN ByUsername(flow'[r].name)
                                  ELSE ByEmail(flow'[r].name)
                      IN  read = {} \/ \E id \in read : users[id].hash.pw # flow'[r].pw
    OBVIOUS
  <2> QED BY RotationStep
<1> QED BY <1>1, Invariance, PTL DEF Spec, RotationKeepsLogins

(***************************************************************************)
(* Before the first rotation: the password chosen last.                    *)
(***************************************************************************)
\* No login is about to write back the plaintext it came with.
NobodyRehashes == \A r \in Requests : flow[r].pc # "rehash"

Standing == LastChosenStands /\ NobodyRehashes

\* Steps that leave the table alone and lead no request to the rehash.
LEMMA StandingContinue ==
    ASSUME IInv, Standing, NEW r \in Requests, NEW q \in Request, NEW pc \in Statements,
           pc # "rehash", Continue(r, q, pc), UNCHANGED <<users, history>>
    PROVE  Standing'
<1>1. \A s \in Requests : flow'[s].pc \in {flow[s].pc, pc}
  BY DEF IInv, TypeOK, Request, Continue
<1> QED BY <1>1 DEF Standing, NobodyRehashes, LastChosenStands, Ids

LEMMA StandingAnswer ==
    ASSUME IInv, Standing, NEW r \in Requests, NEW q \in Request, NEW res,
           Answer(r, q, res), UNCHANGED <<users, history>>
    PROVE  Standing'
<1>1. \A s \in Requests : flow'[s].pc \in {flow[s].pc, "done"}
  BY DEF IInv, TypeOK, Request, Answer
<1> QED BY <1>1 DEF Standing, NobodyRehashes, LastChosenStands, Ids

\* Every hash in the table has the pepper of every process.
LEMMA NothingToRehash ==
    ASSUME Unrotated, IInv, NEW q \in Request, q.gen <= deployed, NEW id \in Ids
    PROVE  ~ NeedsRehash(HasherOf(q), users[id].hash, q.pw)
<1>1. q.gen \in 1..deployed /\ HasherOf(q) = Deployments[q.gen]
  BY HasherType DEF Request
<1>2. users[id].hash.pepper = HasherOf(q).Pepper
  BY <1>1 DEF IInv, HashesSound, Unrotated
<1> QED BY <1>2 DEF NeedsRehash, Check, Matches

LEMMA StandingJudge ==
    ASSUME Unrotated, IInv, Standing, NEW r \in Requests, NEW q \in Request, NEW id \in Ids,
           q.gen <= deployed,
           Judge(r, q, id), UNCHANGED <<users, history>>
    PROVE  Standing'
<1> DEFINE mine == [q EXCEPT !.id = id]
<1>1. ~ NeedsRehash(HasherOf(q), users[id].hash, q.pw)
  BY NothingToRehash
<1>2. mine \in Request
  BY RowType DEF Request, IInv, TypeOK
<1>3. Answer(r, q, "badCredentials") \/ Answer(r, mine, "ok")
  BY <1>1 DEF Judge
<1> HIDE DEF mine
<1> QED BY <1>2, <1>3, StandingAnswer

LEMMA StandingChoice ==
    ASSUME IInv, Standing, NEW id, NEW h \in HashValue, ChoosePassword(id, h),
           NobodyRehashes'
    PROVE  Standing'
<1>1. /\ Ids' = Ids
      /\ \A i \in Ids : users'[i] = IF i = id THEN [users[i] EXCEPT !.hash = h]
                                              ELSE users[i]
      /\ \A i \in Ids : history'[i] =
            IF i = id THEN [last |-> h.pw, ever |-> history[i].ever \cup {h.pw}]
                      ELSE history[i]
  BY ChoosePasswordRows DEF IInv, TypeOK
<1>2. \A i \in Ids : users'[i].hash = IF i = id THEN h ELSE users[i].hash
  <2>1. \A i \in Ids : users[i] \in UserRow
    BY RowType DEF IInv, TypeOK
  <2> QED BY <1>1, <2>1 DEF UserRow
<1>3. \A i \in Ids : history'[i].last = IF i = id THEN h.pw ELSE history[i].last
  <2>1. \A i \in Ids \ {id} : history'[i] = history[i]
    BY <1>1
  <2>2. id \in Ids => history'[id] = [last |-> h.pw, ever |-> history[id].ever \cup {h.pw}]
    BY <1>1
  <2>3. id \in Ids => history'[id].last = h.pw
    BY <2>2
  <2> QED BY <2>1, <2>3
<1> QED BY <1>1, <1>2, <1>3 DEF Standing, LastChosenStands

LEMMA StandingStep ==
    ASSUME Unrotated, IInv, Standing, NEW r \in Requests, Step(r, Inputs)
    PROVE  Standing'
<1> USE DEF Statements
<1>1. /\ Inputs.usernames \subseteq Texts /\ Inputs.emails \subseteq Texts
      /\ Inputs.identifiers = Texts /\ Inputs.passwords = Passwords
  BY AuthFlowAssumption DEF Inputs
<1>2. /\ flow[r] \in Request /\ flow \in [Requests -> Request]
      /\ RequestSound(flow[r]) /\ flow[r].gen <= deployed
  BY DEF IInv, TypeOK, RequestSound
<1>3. ASSUME NEW name \in Texts, NEW email \in Texts, NEW pw \in Passwords,
             RegisterCheck(r, name, email, pw)
      PROVE  Standing'
  <2> DEFINE c == Call("register", name, email, pw)
             q == [c EXCEPT !.seen = Len(users)]
  <2>1. c \in Request /\ Len(users) \in Nat
    BY CallType, LenProperties DEF IInv, TypeOK, UsersTypeOK, Operations
  <2>2. Continue(r, q, "create") \/ Answer(r, q, RegisterOutcome(q))
    BY <1>3 DEF RegisterCheck
  <2>3. UNCHANGED <<users, history>>
    BY <1>3 DEF RegisterCheck
  <2> HIDE DEF c
  <2>4. q \in Request
    BY <2>1 DEF Request
  <2> HIDE DEF q
  <2> QED BY <2>2, <2>3, <2>4, StandingContinue, StandingAnswer
<1>4. CASE RegisterCreate(r)
  <2> DEFINE q == flow[r]
  <2>1. CASE UsernameFree(q.name)
    <3>1. q.pw \in Passwords /\ q.name \in Texts /\ q.email \in Texts
      BY <1>2, <1>4 DEF RegisterCreate, RequestSound, Request
    <3>2. Hash(HasherOf(q), q.pw) \in HashValue
      BY <1>2, <3>1, HasherType, HashType
    <3> DEFINE id == Len(users) + 1
               hash == Hash(HasherOf(q), q.pw)
    <3>3. Create(q.name, q.email, hash, DefaultRole)
      BY <1>4, <2>1 DEF RegisterCreate
    <3>4. id \in Nat /\ flow' = [flow EXCEPT ![r] = [q EXCEPT !.id = id, !.pc = "done", !.res = "ok"]]
      BY <1>4, <2>1, LenProperties DEF RegisterCreate, Answer, IInv, TypeOK, UsersTypeOK
    <3>5. NobodyRehashes'
      BY <1>2, <3>4 DEF Standing, NobodyRehashes, Request
    <3> HIDE DEF hash
    <3>6. UsersTypeOK /\ DefaultRole \in Roles /\ hash \in HashValue
      BY <3>2, AuthFlowAssumption DEF IInv, TypeOK, hash
    <3>7. /\ Ids' = Ids \cup {id}
          /\ users'[id] = [username |-> q.name, email |-> q.email, hash |-> hash,
                           role |-> DefaultRole, email_verified |-> FALSE]
          /\ history'[id] = [last |-> hash.pw, ever |-> {hash.pw}]
          /\ \A i \in Ids : users'[i] = users[i] /\ history'[i] = history[i]
      BY <3>1, <3>3, <3>6, CreateRows
    <3>8. users'[id].hash.pw = history'[id].last
      BY <3>7
    <3> QED BY <3>5, <3>7, <3>8 DEF Standing, LastChosenStands
  <2>2. CASE ~ UsernameFree(q.name)
    <3>1. Answer(r, q, "dbError") /\ UNCHANGED <<users, history>>
      BY <1>4, <2>2 DEF RegisterCreate
    <3> QED BY <1>2, <3>1, StandingAnswer
  <2> QED BY <2>1, <2>2
<1>5. ASSUME NEW identifier \in Texts, NEW pw \in Passwords,
             AuthenticateByName(r, identifier, pw)
      PROVE  Standing'
  <2> DEFINE q == Call("authenticate", identifier, NoText, pw)
  <2>1. q \in Request /\ q.gen <= deployed /\ UNCHANGED <<users, history>>
    BY <1>5, CallType, UsersAssumption, DeployedType DEF IInv, Operations, AuthenticateByName
  <2>2. Continue(r, q, "byEmail") \/ \E id \in Ids : Judge(r, q, id)
    BY <1>5 DEF AuthenticateByName, ByUsername
  <2> HIDE DEF q
  <2> QED BY <2>1, <2>2, StandingContinue, StandingJudge
<1>6. CASE AuthenticateByEmail(r)
  <2> DEFINE q == flow[r]
  <2>1. Answer(r, q, "badCredentials") \/ \E id \in Ids : Judge(r, q, id)
    BY <1>6 DEF AuthenticateByEmail, ByEmail
  <2>2. UNCHANGED <<users, history>>
    BY <1>6 DEF AuthenticateByEmail
  <2> HIDE DEF q
  <2> QED BY <1>2, <2>1, <2>2, StandingAnswer, StandingJudge DEF q
<1>7. ~ Rehash(r)
  BY DEF Standing, NobodyRehashes, Rehash
<1>8. ASSUME NEW id \in IdsUsed, NEW current, NEW next \in Passwords,
             ChangeCheck(r, id, current, next)
      PROVE  Standing'
  <2> DEFINE c == Call("change", NoText, NoText, next)
             q == [c EXCEPT !.id = id]
  <2>1. c \in Request /\ id \in Nat
    BY CallType, UsersAssumption, LenProperties
       DEF IInv, TypeOK, UsersTypeOK, Operations, IdsUsed
  <2>2. Continue(r, q, "write") \/ Answer(r, q, ChangeOutcome(q, id, current))
    BY <1>8 DEF ChangeCheck
  <2>3. UNCHANGED <<users, history>>
    BY <1>8 DEF ChangeCheck
  <2> HIDE DEF c
  <2>4. q \in Request
    BY <2>1 DEF Request
  <2> HIDE DEF q
  <2> QED BY <2>2, <2>3, <2>4, StandingContinue, StandingAnswer
<1>9. CASE ChangeWrite(r)
  <2> DEFINE q == flow[r]
  <2>1. q.pw \in Passwords
    BY <1>2, <1>9 DEF ChangeWrite, RequestSound
  <2>2. Hash(HasherOf(q), q.pw) \in HashValue
    BY <1>2, <2>1, HasherType, HashType
  <2>3. flow' = [flow EXCEPT ![r] = [q EXCEPT !.pc = "done", !.res = "ok"]]
    BY <1>9 DEF ChangeWrite, Answer
  <2>4. NobodyRehashes'
    BY <1>2, <2>3 DEF Standing, NobodyRehashes, Request
  <2> QED BY <1>9, <2>2, <2>4, StandingChoice DEF ChangeWrite
<1>10. CASE Fail(r)
  <2>1. \E res : Answer(r, flow[r], res) /\ UNCHANGED <<users, history>>
    BY <1>10 DEF Fail
  <2> QED BY <1>2, <2>1, StandingAnswer
<1>11. CASE Return(r)
  <2>1. \A s \in Requests : flow'[s].pc \in {flow[s].pc, "idle"}
    BY <1>2, <1>11 DEF Return, Idle
  <2> QED BY <1>11, <2>1 DEF Return, Standing, NobodyRehashes, LastChosenStands, Ids
<1> QED
  BY <1>1, <1>3, <1>4, <1>5, <1>6, <1>7, <1>8, <1>9, <1>10, <1>11 DEF Step

\* Until a deployment changes the pepper, the stored hash is that of the password chosen last:
\* an old password no longer logs in (authflow_test.go:138).  During a rotation it may, as
\* the rehash writes back the plaintext of the login.
THEOREM LastChoiceStands == Spec => []LastChosenUnlessRotated
<1>1. Init => Standing
  BY DEF Init, NoUsers, Standing, LastChosenStands, NobodyRehashes, Ids, Idle
<1>2. IInv /\ (Unrotated => Standing) /\ [Next]_vars => (Unrotated => Standing)'
  <2> SUFFICES ASSUME IInv, Unrotated => Standing, [Next]_vars, Unrotated'
               PROVE  Standing'
    OBVIOUS
  <2>1. Unrotated
    <3>1. deployed' = deployed \/ deployed' = deployed + 1
      BY DEF Next, Serve, vars, Step, RegisterCheck, RegisterCreate, AuthenticateByName,
         AuthenticateByEmail, Rehash, ChangeCheck, ChangeWrite, Fail, Return, AdminSetRole,
         AdminResetPassword, Deploy
    <3>2. 1..deployed \subseteq 1..deployed'
      BY <3>1, DeployedType DEF IInv
    <3> QED BY <3>2 DEF Unrotated
  <2>2. Standing
    BY <2>1
  <2>3. CASE UNCHANGED vars
    BY <2>3, <2>2 DEF vars, Standing, LastChosenStands, NobodyRehashes, Ids
  <2>4. ASSUME NEW r \in Requests, Step(r, Inputs) PROVE Standing'
    BY <2>4, <2>1, <2>2, StandingStep
  <2>5. ASSUME NEW id, NEW role \in Roles, AdminSetRole(id, role) PROVE Standing'
    <3>1. /\ Ids' = Ids
          /\ \A i \in Ids : users'[i] = IF i = id THEN [users[i] EXCEPT !.role = role]
                                                  ELSE users[i]
      BY <2>5, SetRoleRows DEF AdminSetRole, IInv, TypeOK
    <3>2. \A i \in Ids : users'[i].hash = users[i].hash
      BY <3>1, RowType DEF IInv, TypeOK, UserRow
    <3> QED
      BY <2>5, <2>2, <3>1, <3>2 DEF AdminSetRole, Standing, LastChosenStands, NobodyRehashes
  <2>6. ASSUME NEW id, NEW pw \in Passwords, AdminResetPassword(id, pw) PROVE Standing'
    <3>1. Deployments[deployed] \in Hasher
      BY AuthFlowAssumption, ElementOfSeq, LenProperties DEF IInv, TypeOK
    <3>2. Hash(Deployments[deployed], pw) \in HashValue
      BY <3>1, HashType
    <3>3. NobodyRehashes'
      BY <2>6, <2>2 DEF AdminResetPassword, Standing, NobodyRehashes
    <3> QED BY <2>6, <2>2, <3>2, <3>3, StandingChoice DEF AdminResetPassword
  <2>7. CASE Deploy
    BY <2>7, <2>2 DEF Deploy, Standing, LastChosenStands, NobodyRehashes, Ids
  <2>8. Inputs.passwords = Passwords
    BY DEF Inputs
  <2> QED BY <2>3, <2>4, <2>5, <2>6, <2>7, <2>8 DEF Next, Serve
<1>3. (Unrotated => Standing) => LastChosenUnlessRotated
  BY DEF Standing, LastChosenUnlessRotated
<1> QED BY <1>1, <1>2, <1>3, Invariance, PTL DEF Spec
=============================================================================
