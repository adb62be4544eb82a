--------------------------------- MODULE SignIn ---------------------------------
(***************************************************************************)
(* captcha/ before a host's login handler and loginlog/ behind it: the     *)
(* token is verified by the challenge service, the host judges the         *)
(* password, and the attempt is recorded.                                  *)
(*                                                                         *)
(* The service (external) accepts a token it has given out, once; its      *)
(* answer may be lost or unreadable.                                       *)
(***************************************************************************)
EXTENDS Naturals, SequencesExt

CONSTANTS
    Attempts,       \* login requests in flight
    ByName,         \* typed username -> account, as IDByName finds it
    ByMail,         \* typed email -> account
    Unknown,        \* something that is neither
    NoUser,        \* UserID 0
    MaxTokens, MaxLog       \* bounds on challenges solved and attempts recorded

\* Users are numbered from 1.
ASSUME SignInAssumption ==
    /\ IsFiniteSet(Attempts)
    /\ \A t \in DOMAIN ByName : ByName[t] # NoUser
    /\ \A t \in DOMAIN ByMail : ByMail[t] # NoUser
    /\ MaxTokens \in Nat /\ MaxLog \in Nat

VARIABLES
    enabled,    \* whether a secret is configured
    given,      \* how many challenges were solved: tokens 1 .. given
    spent,      \* tokens the service has accepted
    attempt,    \* the progress of each request
    loginLog,   \* login_logs
    passed      \* bookkeeping: tokens of the requests that passed the gate

signVars == <<enabled, given, spent, attempt, loginLog, passed>>

Typed == DOMAIN ByName \cup DOMAIN ByMail \cup {Unknown}
Accounts == {ByName[t] : t \in DOMAIN ByName} \cup {ByMail[t] : t \in DOMAIN ByMail}
NoToken == 0
Spaces == MaxTokens + 1     \* blank, but not empty
Forged == MaxTokens + 2
NoAttempt == [pc |-> "idle", typed |-> Unknown, token |-> NoToken, user |-> NoUser]

SignInTypeOK ==
    /\ enabled \in BOOLEAN /\ given \in 0 .. MaxTokens /\ spent \subseteq 1 .. given
    /\ attempt \in [Attempts -> [pc : {"idle", "gate", "host", "in", "out"}, typed : Typed,
                                 token : 0 .. Forged, user : Accounts \cup {NoUser}]]
    /\ loginLog \in Seq([user : Accounts \cup {NoUser}, typed : Typed, success : BOOLEAN,
                         by : Accounts \cup {NoUser}])

SignInInit ==
    /\ enabled \in BOOLEAN
    /\ given = 0 /\ spent = {} /\ loginLog = <<>> /\ passed = <<>>
    /\ attempt = [a \in Attempts |-> NoAttempt]

Solve ==
    /\ given < MaxTokens
    /\ given' = given + 1
    /\ UNCHANGED <<enabled, spent, attempt, loginLog, passed>>

\* The form field, or else the header.
Token(form, header) == IF form = NoToken THEN header ELSE form

Post(a, typed, form, header) ==
    /\ attempt[a].pc = "idle" /\ Len(loginLog) < MaxLog
    /\ attempt' = [attempt EXCEPT ![a] = [pc |-> "gate", typed |-> typed,
                                          token |-> Token(form, header), user |-> NoUser]]
    /\ UNCHANGED <<enabled, given, spent, loginLog, passed>>

Admit(a) ==
    /\ attempt' = [attempt EXCEPT ![a].pc = "host"]
    /\ passed' = IF enabled THEN Append(passed, attempt[a].token) ELSE passed

Turned(a) == attempt' = [attempt EXCEPT ![a] = NoAttempt] /\ UNCHANGED passed

\* A request without a token is turned away, one without a gate is not looked at.
Unasked(a) ==
    /\ attempt[a].pc = "gate"
    /\ \/ ~ enabled /\ Admit(a)
       \/ enabled /\ attempt[a].token \in {NoToken, Spaces} /\ Turned(a)
    /\ UNCHANGED <<enabled, given, spent, loginLog>>

\* (A fault: what cannot be verified is let through.)
AdmitAnyway(a) == Admit(a)

\* A transport or decoding failure rejects.
Unverified(a) == Turned(a)

\* siteverify: the service judges the token, and its answer arrives or not.
SiteVerify(a) ==
    LET t == attempt[a].token
        good == t \in 1 .. given /\ t \notin spent
    IN  /\ attempt[a].pc = "gate" /\ enabled /\ t \notin {NoToken, Spaces}
        /\ \/ /\ spent' = IF good THEN spent \cup {t} ELSE spent
              /\ IF good THEN Admit(a) ELSE Turned(a)
           \/ spent' \in {spent, IF good THEN spent \cup {t} ELSE spent} /\ Unverified(a)
        /\ UNCHANGED <<enabled, given, loginLog>>

FoundBy(typed) == IF typed \in DOMAIN ByName THEN ByName[typed] ELSE ByMail[typed]

\* The host's login handler finds the account by name or email, or refuses.
Judged(a) ==
    /\ attempt[a].pc = "host"
    /\ \/ attempt' = [attempt EXCEPT ![a].pc = "out"]
       \/ /\ attempt[a].typed # Unknown
          /\ attempt' = [attempt EXCEPT ![a].pc = "in",
                            ![a].user = FoundBy(attempt[a].typed)]
    /\ UNCHANGED <<enabled, given, spent, loginLog, passed>>

\* What resolve answers; an error counts as not found.
IDByName(typed) ==
    {NoUser} \cup (IF typed \in DOMAIN ByName THEN {ByName[typed]} ELSE {})

\* (A fault: the name that was typed decides, whoever got in.)
AttributedByName(user, found) == found
Attributed(user, found) == IF user = NoUser THEN found ELSE user

\* Attempt: resolve a failed one, insert the row; an error is only logged.
Record(a) ==
    LET q == attempt[a] IN
    /\ q.pc \in {"in", "out"}
    /\ \/ \E found \in IDByName(q.typed) :
             loginLog' = Append(loginLog, [user |-> Attributed(q.user, found), typed |-> q.typed,
                                           success |-> q.pc = "in", by |-> q.user])
       \/ UNCHANGED loginLog
    /\ attempt' = [attempt EXCEPT ![a] = NoAttempt]
    /\ UNCHANGED <<enabled, given, spent, passed>>

SignInNext ==
    \/ Solve
    \/ \E a \in Attempts :
          \/ \E typed \in Typed, form, header \in (0 .. given) \cup {Spaces, Forged} :
                Post(a, typed, form, header)
          \/ Unasked(a) \/ SiteVerify(a) \/ Judged(a) \/ Record(a)

SignInSpec == SignInInit /\ [][SignInNext]_signVars

(***************************************************************************)
(* Properties.                                                             *)
(***************************************************************************)
\* Once configured, the gate fails closed (captcha.go:6-10): every request behind it
\* has used up a solved challenge of its own, whatever answers are lost, and no
\* attempt is recorded without.
OneChallengeEach ==
    enabled =>
        /\ IsInjective(passed) /\ ToSet(passed) \subseteq spent
        /\ Len(loginLog) <= Len(passed)

\* The page of sign-ins (loginlog.go:53-60) tells a user the truth: the entries of an
\* account are its own logins, by name or by email, and failures on its name.
HistoryIsOwn ==
    \A i \in DOMAIN loginLog :
        LET e == loginLog[i] IN
        IF e.success THEN e.user = e.by
        ELSE e.user # NoUser => e.typed \in DOMAIN ByName /\ e.user = ByName[e.typed]
=============================================================================
