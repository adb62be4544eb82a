------------------------------ MODULE AuthToken ------------------------------
(***************************************************************************)
(* authtoken/: single-use tokens for password reset and email              *)
(* verification.  A token's plaintext and its SHA-256 hash are modelled by *)
(* the position of its row in auth_tokens: the secret is random, and only  *)
(* the mailed link carries it.  Expiries are stamped with the clock of the *)
(* process and compared with the clock of the database, which is now.      *)
(*                                                                         *)
(* One action is one statement (or one mail) with the local code around    *)
(* it; requests interleave, fail and die between them.                     *)
(***************************************************************************)
EXTENDS Users, Integers

CONSTANTS
    Requests,      \* requests that can be in flight at once
    InitialUsers,  \* the accounts there are
    FlowHasher,    \* Flow.Hasher
    ResetTTL, VerifyTTL, MinPwLen,   \* Flow's settings; 0 is unset
    AppAhead,      \* how far the process clock is ahead of the database's
    Instants,      \* the minutes at which something can happen (a bound)
    MaxTokens,     \* bound on the tokens issued
    NoPassword

ASSUME AuthTokenAssumption ==
    /\ InitialUsers \in Seq(UserRow)
    /\ FlowHasher \in Hasher
    /\ ResetTTL \in Int /\ VerifyTTL \in Int /\ MinPwLen \in Int /\ AppAhead \in Int
    /\ Instants \subseteq Nat /\ 0 \in Instants
    /\ MaxTokens \in Nat
    /\ NoPassword \notin Passwords

VARIABLES
    tokens,     \* the auth_tokens rows
    mailed,     \* the tokens whose link reached the mailbox
    flow,       \* progress of each request
    now         \* the database clock, in minutes

tokenVars == <<tokens, mailed, flow, now>>
vars == <<users, history, tokens, mailed, flow, now>>

Hour == 60
resetTTL == IF ResetTTL > 0 THEN ResetTTL ELSE Hour
verifyTTL == IF VerifyTTL > 0 THEN VerifyTTL ELSE 24 * Hour
minLen == IF MinPwLen > 0 THEN MinPwLen ELSE 8

PasswordReset == "password_reset"
EmailVerify == "email_verify"
Purposes == {PasswordReset, EmailVerify}
\* (A fault: verification links live as long as reset links.)
ResetTTLForAll(purpose) == resetTTL
TTL(purpose) == IF purpose = PasswordReset THEN resetTTL ELSE verifyTTL

\* issued is bookkeeping for a property; the row has no use of created_at.
TokenRow == [user : Nat, purpose : Purposes, expires : Int, used : BOOLEAN, issued : Nat]

Statements == {"idle", "issue", "mail", "write", "verify", "done"}
Results == {"none", "ok", "weakPassword", "invalidToken", "hashError", "dbError", "mailError"}

Request == [pc : Statements, purpose : Purposes, id : Nat, tok : Nat,
            pw : Passwords \cup {NoPassword}, res : Results]

Idle == [pc |-> "idle", purpose |-> PasswordReset, id |-> 0, tok |-> 0,
         pw |-> NoPassword, res |-> "none"]

TypeOK ==
    /\ UsersTypeOK
    /\ tokens \in Seq(TokenRow)
    /\ mailed \subseteq DOMAIN tokens
    /\ flow \in [Requests -> Request]
    /\ now \in Instants

Init ==
    /\ users = InitialUsers
    /\ history = [id \in DOMAIN InitialUsers |->
                    [last |-> InitialUsers[id].hash.pw, ever |-> {InitialUsers[id].hash.pw}]]
    /\ tokens = <<>> /\ mailed = {}
    /\ flow = [r \in Requests |-> Idle]
    /\ now = 0

Continue(r, q, pc) == flow' = [flow EXCEPT ![r] = [q EXCEPT !.pc = pc]]
Answer(r, q, res) == flow' = [flow EXCEPT ![r] = [q EXCEPT !.pc = "done", !.res = res]]

(***************************************************************************)
(* Issuing: RequestReset looks the account up by email and is silent when  *)
(* there is none; SendVerify is given the account.  Both then store the    *)
(* token and mail its link.                                                *)
(***************************************************************************)
RequestReset(r, email) ==
    /\ flow[r].pc = "idle"
    /\ \/ ByEmail(email) = {} /\ Answer(r, Idle, "ok")
       \/ \E id \in ByEmail(email) : Continue(r, [Idle EXCEPT !.id = id], "issue")
    /\ UNCHANGED <<users, history, tokens, mailed, now>>

SendVerify(r, id, email) ==
    LET q == [Idle EXCEPT !.purpose = EmailVerify, !.id = id] IN
    /\ flow[r].pc = "idle"
    /\ IF email = NoText THEN Answer(r, q, "ok") ELSE Continue(r, q, "issue")
    /\ UNCHANGED <<users, history, tokens, mailed, now>>

issue(r) ==
    LET q == flow[r] IN
    /\ q.pc = "issue"
    /\ Len(tokens) < MaxTokens
    /\ tokens' = Append(tokens, [user |-> q.id, purpose |-> q.purpose, used |-> FALSE,
                                 expires |-> now + AppAhead + TTL(q.purpose), issued |-> now])
    /\ Continue(r, [q EXCEPT !.tok = Len(tokens) + 1], "mail")
    /\ UNCHANGED <<users, history, mailed, now>>

Mail(r) ==
    LET q == flow[r] IN
    /\ q.pc = "mail"
    /\ \/ mailed' = mailed \cup {q.tok} /\ Answer(r, q, "ok")
       \/ mailed' = mailed /\ Answer(r, q, "mailError")
    /\ UNCHANGED <<users, history, tokens, now>>

(***************************************************************************)
(* Redeeming: one UPDATE ... RETURNING picks the token and marks it used;  *)
(* what it is good for is a second statement.                              *)
(***************************************************************************)
\* Faults: one conjunct of the UPDATE's WHERE is missing; the row is deleted
\* where it should be marked.
RedeemableTwice(tok, purpose) ==
    tok \in DOMAIN tokens /\ tokens[tok].purpose = purpose /\ tokens[tok].expires > now
RedeemableForAnything(tok, purpose) ==
    tok \in DOMAIN tokens /\ ~ tokens[tok].used /\ tokens[tok].expires > now
RedeemableForever(tok, purpose) ==
    tok \in DOMAIN tokens /\ tokens[tok].purpose = purpose /\ ~ tokens[tok].used
DeleteToken(tok) ==
    tokens' = [i \in 1..(Len(tokens) - 1) |-> IF i < tok THEN tokens[i] ELSE tokens[i + 1]]

Redeemable(tok, purpose) ==
    /\ tok \in DOMAIN tokens
    /\ tokens[tok].purpose = purpose
    /\ ~ tokens[tok].used
    /\ tokens[tok].expires > now

Consume(tok) == tokens' = [tokens EXCEPT ![tok].used = TRUE]

\* The length is checked before the token is consumed, bcrypt's own limit
\* only after.
PerformReset(r, tok, pw) ==
    LET q == [Idle EXCEPT !.tok = tok, !.pw = pw] IN
    /\ flow[r].pc = "idle"
    /\ IF PwLen[pw] < minLen
       THEN Answer(r, q, "weakPassword") /\ UNCHANGED tokens
       ELSE IF ~ Redeemable(tok, PasswordReset)
       THEN Answer(r, q, "invalidToken") /\ UNCHANGED tokens
       ELSE /\ Consume(tok)
            /\ IF CanHash(FlowHasher, pw)
               THEN Continue(r, [q EXCEPT !.id = tokens[tok].user], "write")
               ELSE Answer(r, q, "hashError")
    /\ UNCHANGED <<users, history, mailed, now>>

ResetWrite(r) ==
    LET q == flow[r] IN
    /\ q.pc = "write"
    /\ ChoosePassword(q.id, Hash(FlowHasher, q.pw))
    /\ Answer(r, q, "ok")
    /\ UNCHANGED <<tokens, mailed, now>>

ConfirmVerify(r, tok) ==
    LET q == [Idle EXCEPT !.purpose = EmailVerify, !.tok = tok] IN
    /\ flow[r].pc = "idle"
    /\ IF Redeemable(tok, EmailVerify)
       THEN Consume(tok) /\ Continue(r, [q EXCEPT !.id = tokens[tok].user], "verify")
       ELSE Answer(r, q, "invalidToken") /\ UNCHANGED tokens
    /\ UNCHANGED <<users, history, mailed, now>>

VerifyWrite(r) ==
    LET q == flow[r] IN
    /\ q.pc = "verify"
    /\ SetEmailVerified(q.id, TRUE)
    /\ Answer(r, q, "ok")
    /\ UNCHANGED <<history, tokens, mailed, now>>

\* A statement fails (database error, cancelled context) without effect.
Fail(r) ==
    /\ flow[r].pc \in {"issue", "write", "verify"}
    /\ Answer(r, flow[r], "dbError")
    /\ UNCHANGED <<users, history, tokens, mailed, now>>

\* The handler has used the answer; or its process died before it could.
Return(r) ==
    /\ flow[r].pc # "idle"
    /\ flow' = [flow EXCEPT ![r] = Idle]
    /\ UNCHANGED <<users, history, tokens, mailed, now>>

Tick ==
    /\ \E t \in Instants : t > now /\ now' = t
    /\ UNCHANGED <<users, history, tokens, mailed, flow>>

\* A link is followed by whoever got the mail; 0 is a token never issued.
Presented == mailed \cup {0}

Step(r) ==
    \/ \E email \in Texts : RequestReset(r, email)
    \/ \E id \in Ids, email \in Texts : SendVerify(r, id, email)
    \/ issue(r)
    \/ Mail(r)
    \/ \E tok \in Presented, pw \in Passwords : PerformReset(r, tok, pw)
    \/ ResetWrite(r)
    \/ \E tok \in Presented : ConfirmVerify(r, tok)
    \/ VerifyWrite(r)
    \/ Fail(r)
    \/ Return(r)

Next == (\E r \in Requests : Step(r)) \/ Tick

Spec == Init /\ [][Next]_vars

(***************************************************************************)
(* What the module promises: each token is a grant that is spent at most   *)
(* once, for its own purpose, on its own account.  A grant is "spent"      *)
(* while a request that consumed the token has its second statement ahead. *)
(***************************************************************************)
Holds(r, tok) == flow[r].pc \in {"write", "verify"} /\ flow[r].tok = tok

GrantState(tok) ==
    IF ~ tokens[tok].used THEN "live"
    ELSE IF \E r \in Requests : Holds(r, tok) THEN "spent" ELSE "closed"

grants == [tok \in DOMAIN tokens |->
             [user |-> tokens[tok].user, purpose |-> tokens[tok].purpose,
              state |-> GrantState(tok)]]

\* What a token can change of each account.
AccountsIn(rows) ==
    [id \in DOMAIN rows |-> [hash |-> rows[id].hash, verified |-> rows[id].email_verified]]

accounts == AccountsIn(users)

Abstract == INSTANCE Grants WITH
    Hashes <- HashValue,
    Owners <- DOMAIN InitialUsers,
    InitialAccounts <- AccountsIn(InitialUsers)

\* The flows implement single-use grants (SECURITY.md:39-50).
SingleUseGrants == Abstract!Spec

(***************************************************************************)
(* Properties.                                                             *)
(***************************************************************************)

\* Two simultaneous redemptions of one token cannot both succeed
\* (pgstore.go:42-49): no two requests are about to act on the same token,
\* and what they act on is the token's account, for the token's purpose.
OneHolder ==
    /\ \A r, s \in Requests, tok \in DOMAIN tokens : Holds(r, tok) /\ Holds(s, tok) => r = s
    /\ \A r \in Requests : flow[r].pc \in {"write", "verify"} =>
         /\ flow[r].tok \in DOMAIN tokens
         /\ tokens[flow[r].tok].used
         /\ tokens[flow[r].tok].user = flow[r].id
         /\ tokens[flow[r].tok].purpose =
              IF flow[r].pc = "write" THEN PasswordReset ELSE EmailVerify

\* A token of the account was redeemed for the purpose.
Redeemed(id, purpose) ==
    \E tok \in DOMAIN tokens : /\ tokens[tok].user = id /\ tokens[tok].used
                              /\ tokens[tok].purpose = purpose

\* An email counts as verified, and a password differs from the one the
\* account started with, only if a token of that account and that purpose
\* was redeemed (authtoken.go:136-177).
EffectNeedsRedemption ==
    \A id \in Ids :
      /\ users[id].email_verified # InitialUsers[id].email_verified
         => Redeemed(id, EmailVerify)
      /\ users[id].hash # InitialUsers[id].hash => Redeemed(id, PasswordReset)

\* A new password that is refused leaves the link usable: "weak password
\* rejected before consuming the token" (authtoken_test.go:127).
RefusalKeepsLink ==
    [][\A r \in Requests :
         flow[r].pc = "idle" /\ flow'[r].res \in {"weakPassword", "hashError"}
         => tokens' = tokens]_vars

\* What the mails say: "valid for one hour", "valid for 24 hours"
\* (authtoken.go:131,163).
MailedValidity(purpose) == IF purpose = PasswordReset THEN Hour ELSE 24 * Hour

\* A link that was never used is not refused within the time its mail
\* promises, unless it is used for the wrong thing.
LinkLivesAsMailed ==
    [][\A r \in Requests :
         LET tok == flow'[r].tok IN
         /\ flow[r].pc = "idle" /\ flow'[r].res = "invalidToken"
         /\ tok \in DOMAIN tokens /\ ~ tokens[tok].used
         /\ tokens[tok].purpose = flow'[r].purpose
         => now >= tokens[tok].issued + MailedValidity(tokens[tok].purpose)]_vars

\* A link is not honoured after its lifetime, give or take the difference
\* of the two clocks (authtoken.go:65, pgstore.go:48).
NoLateRedemption ==
    [][\A tok \in DOMAIN tokens :
         tokens'[tok].used # tokens[tok].used
         => now < tokens[tok].issued + TTL(tokens[tok].purpose) + AppAhead]_vars
=============================================================================
