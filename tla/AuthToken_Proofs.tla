-------------------------- MODULE AuthToken_Proofs --------------------------
(***************************************************************************)
(* Proofs about AuthToken: type correctness, single redemption, that the   *)
(* flows implement the single-use grants of module Grants, and how long a  *)
(* link lives.                                                             *)
(***************************************************************************)
EXTENDS AuthToken, Users_Proofs

\* What holds besides the checked invariants and makes them inductive: the
\* accounts are the initial ones, a token is only ever issued for one, and
\* requests carry what their next statement needs.
AccountsKept ==
    /\ Ids = DOMAIN InitialUsers
    /\ \A r \in Requests : flow[r].pc = "issue" => flow[r].id \in DOMAIN InitialUsers
    /\ \A r \in Requests : flow[r].pc = "mail" => flow[r].tok \in DOMAIN tokens
    /\ \A r \in Requests : flow[r].pc = "write" =>
          flow[r].pw \in Passwords /\ CanHash(FlowHasher, flow[r].pw)

IInv == TypeOK /\ AccountsKept /\ OneHolder /\ EffectNeedsRedemption

USE AuthTokenAssumption

\* Answering or continuing a request changes that request only, and keeps
\* the type.
LEMMA AnswerFlow ==
    ASSUME TypeOK, NEW r \in Requests, NEW q \in Request, NEW res \in Results, Answer(r, q, res)
    PROVE  /\ flow' \in [Requests -> Request]
           /\ flow'[r].pc = "done"
           /\ \A s \in Requests \ {r} : flow'[s] = flow[s]
<1>1. [q EXCEPT !.pc = "done", !.res = res] \in Request
  BY DEF Request, Statements
<1>2. [q EXCEPT !.pc = "done", !.res = res].pc = "done"
  BY DEF Request
<1> QED BY <1>1, <1>2 DEF TypeOK, Answer

LEMMA ContinueFlow ==
    ASSUME TypeOK, NEW r \in Requests, NEW q \in Request, NEW pc \in Statements,
           Continue(r, q, pc)
    PROVE  /\ flow' \in [Requests -> Request]
           /\ flow'[r].pc = pc /\ flow'[r].id = q.id /\ flow'[r].tok = q.tok
           /\ flow'[r].pw = q.pw
           /\ \A s \in Requests \ {r} : flow'[s] = flow[s]
<1>1. [q EXCEPT !.pc = pc] \in Request
  BY DEF Request
<1>2. flow'[r] = [q EXCEPT !.pc = pc]
  BY DEF TypeOK, Continue
<1> QED BY <1>1, <1>2 DEF TypeOK, Continue, Request

LEMMA IdleType == Idle \in Request
BY DEF Idle, Request, Statements, Results, Purposes, PasswordReset, EmailVerify

\* Consume marks one row used (authtoken/pgstore.go:44-54).
LEMMA ConsumeRows ==
    ASSUME TypeOK, NEW tok \in DOMAIN tokens, Consume(tok)
    PROVE  /\ tokens' \in Seq(TokenRow) /\ DOMAIN tokens' = DOMAIN tokens
           /\ \A t \in DOMAIN tokens :
                tokens'[t] = IF t = tok THEN [tokens[t] EXCEPT !.used = TRUE] ELSE tokens[t]
<1>1. tokens[tok] \in TokenRow
  BY DEF TypeOK
<1>2. [tokens[tok] EXCEPT !.used = TRUE] \in TokenRow
  BY <1>1 DEF TokenRow
<1>3. tokens' = [tokens EXCEPT ![tok] = [tokens[tok] EXCEPT !.used = TRUE]]
  BY DEF Consume
<1>4. DOMAIN tokens' = DOMAIN tokens
  BY <1>3
<1>5. \A t \in DOMAIN tokens :
         tokens'[t] = IF t = tok THEN [tokens[t] EXCEPT !.used = TRUE] ELSE tokens[t]
  BY <1>3
<1>6. tokens' \in [DOMAIN tokens -> TokenRow]
  BY <1>2, <1>4, <1>5, <1>3 DEF TypeOK
<1> QED BY <1>4, <1>5, <1>6, MapRows DEF TypeOK

\* Storing a token adds one row.
LEMMA AppendRow ==
    ASSUME TypeOK, NEW row \in TokenRow, tokens' = Append(tokens, row)
    PROVE  /\ tokens' \in Seq(TokenRow)
           /\ DOMAIN tokens' = DOMAIN tokens \cup {Len(tokens) + 1}
           /\ tokens'[Len(tokens) + 1] = row
           /\ Len(tokens) + 1 \notin DOMAIN tokens
           /\ \A t \in DOMAIN tokens : tokens'[t] = tokens[t]
<1>1. DOMAIN tokens = 1..Len(tokens) /\ Len(tokens) \in Nat
  BY LenProperties DEF TypeOK
<1>2. tokens' \in Seq(TokenRow) /\ Len(tokens') = Len(tokens) + 1
  BY DEF TypeOK
<1>3. DOMAIN tokens' = 1..(Len(tokens) + 1)
  BY <1>2
<1> QED BY <1>1, <1>2, <1>3 DEF TypeOK

LEMMA RowType == ASSUME TypeOK PROVE \A t \in DOMAIN tokens : tokens[t] \in TokenRow
BY ElementOfSeq, LenProperties DEF TypeOK

LEMMA InitInv == Init => IInv
<1> SUFFICES ASSUME Init PROVE IInv
  OBVIOUS
<1>1. history \in [DOMAIN InitialUsers -> Chosen]
  <2>1. \A id \in DOMAIN InitialUsers : InitialUsers[id] \in UserRow
    OBVIOUS
  <2>2. \A id \in DOMAIN InitialUsers : InitialUsers[id].hash.pw \in Passwords
    BY <2>1 DEF UserRow, HashValue
  <2> QED BY <2>2 DEF Init, Chosen
<1>2. UsersTypeOK
  BY <1>1, MapRows DEF Init, UsersTypeOK
<1>3. TypeOK
  BY <1>2, IdleType DEF Init, TypeOK
<1>4. AccountsKept
  BY DEF Init, AccountsKept, Ids, Idle
<1>5. OneHolder
  BY DEF Init, OneHolder, Holds, Idle
<1>6. EffectNeedsRedemption
  BY DEF Init, EffectNeedsRedemption, Ids
<1> QED BY <1>3, <1>4, <1>5, <1>6 DEF IInv

(***************************************************************************)
(* Steps that leave the tables alone and after which the request holds no  *)
(* token preserve the invariant.                                           *)
(***************************************************************************)
LEMMA QuietStep ==
    ASSUME IInv, NEW r \in Requests,
           flow' \in [Requests -> Request],
           \A s \in Requests \ {r} : flow'[s] = flow[s],
           flow'[r].pc \notin {"write", "verify"},
           flow'[r].pc = "issue" => flow'[r].id \in DOMAIN InitialUsers,
           flow'[r].pc = "mail" => flow'[r].tok \in DOMAIN tokens,
           UNCHANGED <<users, history, tokens, now>>,
           mailed' \subseteq DOMAIN tokens
    PROVE  IInv'
<1>1. TypeOK'
  BY DEF IInv, TypeOK, UsersTypeOK
<1>2. AccountsKept'
  BY DEF IInv, AccountsKept, Ids
<1>3. \A s \in Requests : flow'[s].pc \in {"write", "verify"} => flow'[s] = flow[s]
  OBVIOUS
<1>4. OneHolder'
  BY <1>3 DEF IInv, OneHolder, Holds
<1>5. EffectNeedsRedemption'
  BY DEF IInv, EffectNeedsRedemption, Redeemed, Ids
<1> QED BY <1>1, <1>2, <1>4, <1>5 DEF IInv

\* An answer, in particular.
LEMMA AnswerInv ==
    ASSUME IInv, NEW r \in Requests, NEW q \in Request, NEW res \in Results,
           Answer(r, q, res), UNCHANGED <<users, history, tokens, now>>,
           mailed' \subseteq DOMAIN tokens
    PROVE  IInv'
<1>1. TypeOK
  BY DEF IInv
<1>2. flow'[r].pc = "done" /\ flow' \in [Requests -> Request]
      /\ \A s \in Requests \ {r} : flow'[s] = flow[s]
  BY <1>1, AnswerFlow
<1> QED BY <1>2, QuietStep

LEMMA ResultNames ==
    {"ok", "weakPassword", "invalidToken", "hashError", "dbError", "mailError"} \subseteq Results
BY DEF Results

LEMMA RequestResetInv ==
    ASSUME IInv, NEW r \in Requests, NEW email \in Texts, RequestReset(r, email)
    PROVE  IInv'
<1>1. TypeOK /\ mailed \subseteq DOMAIN tokens
  BY DEF IInv, TypeOK
<1>2. UNCHANGED <<users, history, tokens, now>> /\ mailed' = mailed
  BY DEF RequestReset
<1>3. CASE Answer(r, Idle, "ok")
  BY <1>1, <1>2, <1>3, IdleType, ResultNames, AnswerInv
<1>4. ASSUME NEW id \in ByEmail(email), Continue(r, [Idle EXCEPT !.id = id], "issue")
      PROVE  IInv'
  <2>1. id \in DOMAIN InitialUsers /\ id \in Nat
    BY DEF ByEmail, IInv, AccountsKept
  <2>2. [Idle EXCEPT !.id = id] \in Request /\ [Idle EXCEPT !.id = id].id = id
    BY <2>1, IdleType DEF Request, Idle
  <2>3. "issue" \in Statements
    BY DEF Statements
  <2>4. flow'[r].pc = "issue" /\ flow'[r].id = id /\ flow' \in [Requests -> Request]
        /\ \A s \in Requests \ {r} : flow'[s] = flow[s]
    BY <1>1, <1>4, <2>2, <2>3, ContinueFlow
  <2> QED BY <1>1, <1>2, <2>1, <2>4, QuietStep
<1> QED BY <1>3, <1>4 DEF RequestReset

LEMMA SendVerifyInv ==
    ASSUME IInv, NEW r \in Requests, NEW id \in Ids, NEW email \in Texts,
           SendVerify(r, id, email)
    PROVE  IInv'
<1> DEFINE q == [Idle EXCEPT !.purpose = EmailVerify, !.id = id]
<1>1. TypeOK /\ mailed \subseteq DOMAIN tokens
  BY DEF IInv, TypeOK
<1>2. id \in DOMAIN InitialUsers /\ id \in Nat
  BY DEF IInv, AccountsKept
<1>3. q \in Request /\ q.id = id
  BY <1>2, IdleType DEF Request, Purposes, Idle
<1>4. UNCHANGED <<users, history, tokens, now>> /\ mailed' = mailed
  BY DEF SendVerify
<1> HIDE DEF q
<1>5. CASE Answer(r, q, "ok")
  BY <1>1, <1>3, <1>4, <1>5, ResultNames, AnswerInv
<1>6. CASE Continue(r, q, "issue")
  <2>1. "issue" \in Statements
    BY DEF Statements
  <2>2. flow'[r].pc = "issue" /\ flow'[r].id = id /\ flow' \in [Requests -> Request]
        /\ \A s \in Requests \ {r} : flow'[s] = flow[s]
    BY <1>1, <1>3, <1>6, <2>1, ContinueFlow
  <2> QED BY <1>1, <1>2, <1>4, <2>2, QuietStep
<1> QED BY <1>5, <1>6 DEF SendVerify, q

LEMMA MailInv ==
    ASSUME IInv, NEW r \in Requests, Mail(r)
    PROVE  IInv'
<1>1. TypeOK /\ mailed \subseteq DOMAIN tokens /\ flow[r] \in Request
  BY DEF IInv, TypeOK
<1>2. mailed' \subseteq DOMAIN tokens
  BY <1>1 DEF Mail, IInv, AccountsKept
<1>3. PICK res \in Results : Answer(r, flow[r], res)
  BY ResultNames DEF Mail
<1> QED BY <1>1, <1>2, <1>3, AnswerInv DEF Mail

LEMMA FailInv ==
    ASSUME IInv, NEW r \in Requests, Fail(r)
    PROVE  IInv'
<1>1. mailed \subseteq DOMAIN tokens /\ flow[r] \in Request
  BY DEF IInv, TypeOK
<1> QED BY <1>1, ResultNames, AnswerInv DEF Fail

LEMMA ReturnInv ==
    ASSUME IInv, NEW r \in Requests, Return(r)
    PROVE  IInv'
<1>1. TypeOK /\ mailed \subseteq DOMAIN tokens
  BY DEF IInv, TypeOK
<1>2. flow' \in [Requests -> Request] /\ flow'[r].pc = "idle"
      /\ \A s \in Requests \ {r} : flow'[s] = flow[s]
  BY <1>1, IdleType DEF Return, TypeOK, Idle
<1>3. UNCHANGED <<users, history, tokens, now>> /\ mailed' = mailed
  BY DEF Return
<1> QED BY <1>1, <1>2, <1>3, QuietStep

(***************************************************************************)
(* Issuing adds a token nobody holds.                                      *)
(***************************************************************************)
LEMMA IssueInv ==
    ASSUME IInv, NEW r \in Requests, issue(r)
    PROVE  IInv'
<1> DEFINE tok == Len(tokens) + 1
           row == [user |-> flow[r].id, purpose |-> flow[r].purpose, used |-> FALSE,
                   expires |-> now + AppAhead + TTL(flow[r].purpose), issued |-> now]
<1>1. TypeOK /\ flow[r] \in Request /\ now \in Nat
  BY DEF IInv, TypeOK
<1>2. TTL(flow[r].purpose) \in Int
  BY DEF TTL, resetTTL, verifyTTL, Hour
<1>3. row \in TokenRow
  BY <1>1, <1>2 DEF TokenRow, Request
<1>4. tokens' = Append(tokens, row)
  BY DEF issue
<1> HIDE DEF row
<1>5. /\ tokens' \in Seq(TokenRow)
      /\ DOMAIN tokens' = DOMAIN tokens \cup {tok}
      /\ tok \notin DOMAIN tokens
      /\ \A t \in DOMAIN tokens : tokens'[t] = tokens[t]
  BY <1>1, <1>3, <1>4, AppendRow
<1>6. [flow[r] EXCEPT !.tok = tok] \in Request /\ [flow[r] EXCEPT !.tok = tok].tok = tok
  <2>1. tok \in Nat
    BY <1>1, LenProperties DEF TypeOK
  <2> QED BY <1>1, <2>1 DEF Request
<1>7. "mail" \in Statements
  BY DEF Statements
<1>8. /\ flow' \in [Requests -> Request] /\ flow'[r].pc = "mail" /\ flow'[r].tok = tok
      /\ \A s \in Requests \ {r} : flow'[s] = flow[s]
  BY <1>1, <1>6, <1>7, ContinueFlow DEF issue
<1> HIDE DEF tok
<1>9. UNCHANGED <<users, history, mailed, now>>
  BY DEF issue
<1>10. TypeOK'
  BY <1>1, <1>5, <1>8, <1>9 DEF TypeOK, UsersTypeOK
<1>11. AccountsKept'
  BY <1>5, <1>8, <1>9 DEF IInv, AccountsKept, Ids
<1>12. \A s \in Requests : flow'[s].pc \in {"write", "verify"} => s # r /\ flow'[s] = flow[s]
  BY <1>8
<1>13. OneHolder'
  <2>1. \A s \in Requests : flow[s].pc \in {"write", "verify"} => flow[s].tok \in DOMAIN tokens
    BY DEF IInv, OneHolder
  <2>2. \A s, u \in Requests, t \in DOMAIN tokens' :
           Holds(s, t)' /\ Holds(u, t)' => s = u
    BY <1>5, <1>12, <2>1 DEF Holds, IInv, OneHolder
  <2> QED BY <1>5, <1>12, <2>2 DEF IInv, OneHolder
<1>14. EffectNeedsRedemption'
  <2>1. \A id, p : Redeemed(id, p) => Redeemed(id, p)'
    BY <1>5 DEF Redeemed
  <2>2. Ids' = Ids /\ users' = users
    BY <1>9 DEF Ids
  <2> QED BY <2>1, <2>2 DEF IInv, EffectNeedsRedemption
<1> QED BY <1>10, <1>11, <1>13, <1>14 DEF IInv

(***************************************************************************)
(* Consuming: a token that was unused becomes used, and the request that   *)
(* consumed it either holds it or is answered.                             *)
(***************************************************************************)
LEMMA ConsumeInv ==
    ASSUME IInv, NEW r \in Requests, NEW tok, NEW purpose,
           Redeemable(tok, purpose), Consume(tok),
           flow' \in [Requests -> Request],
           \A s \in Requests \ {r} : flow'[s] = flow[s],
           \/ flow'[r].pc = "done"
           \/ /\ flow'[r].pc = "write" /\ purpose = PasswordReset
              /\ flow'[r].pw \in Passwords /\ CanHash(FlowHasher, flow'[r].pw)
              /\ flow'[r].tok = tok /\ flow'[r].id = tokens[tok].user
           \/ /\ flow'[r].pc = "verify" /\ purpose = EmailVerify
              /\ flow'[r].tok = tok /\ flow'[r].id = tokens[tok].user,
           UNCHANGED <<users, history, mailed, now>>
    PROVE  IInv'
<1>1. TypeOK /\ tok \in DOMAIN tokens /\ ~ tokens[tok].used /\ tokens[tok].purpose = purpose
  BY DEF IInv, Redeemable
<1>2. /\ tokens' \in Seq(TokenRow) /\ DOMAIN tokens' = DOMAIN tokens
      /\ \A t \in DOMAIN tokens :
           tokens'[t] = IF t = tok THEN [tokens[t] EXCEPT !.used = TRUE] ELSE tokens[t]
  BY <1>1, ConsumeRows
<1>3. \A t \in DOMAIN tokens : /\ tokens'[t].user = tokens[t].user
                               /\ tokens'[t].purpose = tokens[t].purpose
                               /\ tokens[t].used \/ t = tok => tokens'[t].used
  <2>1. \A t \in DOMAIN tokens : tokens[t] \in TokenRow
    BY <1>1 DEF TypeOK
  <2> QED BY <1>2, <2>1 DEF TokenRow
<1>4. TypeOK'
  BY <1>1, <1>2 DEF TypeOK, UsersTypeOK
<1>5. AccountsKept'
  BY <1>2 DEF IInv, AccountsKept, Ids
<1>6. OneHolder'
  <2>1. \A s \in Requests : ~ Holds(s, tok)
    BY <1>1 DEF IInv, OneHolder, Holds
  <2>2. \A s \in Requests, t \in DOMAIN tokens :
           Holds(s, t)' => (s = r /\ t = tok) \/ (s # r /\ t # tok /\ Holds(s, t))
    BY <2>1 DEF Holds
  <2>3. \A s, u \in Requests, t \in DOMAIN tokens' :
           Holds(s, t)' /\ Holds(u, t)' => s = u
    BY <1>2, <2>2 DEF IInv, OneHolder
  <2>4. \A s \in Requests : flow'[s].pc \in {"write", "verify"} =>
         /\ flow'[s].tok \in DOMAIN tokens'
         /\ tokens'[flow'[s].tok].used
         /\ tokens'[flow'[s].tok].user = flow'[s].id
         /\ tokens'[flow'[s].tok].purpose =
              IF flow'[s].pc = "write" THEN PasswordReset ELSE EmailVerify
    <3> SUFFICES ASSUME NEW s \in Requests, flow'[s].pc \in {"write", "verify"}
                 PROVE  /\ flow'[s].tok \in DOMAIN tokens
                        /\ tokens'[flow'[s].tok].used
                        /\ tokens'[flow'[s].tok].user = flow'[s].id
                        /\ tokens'[flow'[s].tok].purpose =
                             IF flow'[s].pc = "write" THEN PasswordReset ELSE EmailVerify
      BY <1>2
    <3>1. CASE s = r
      BY <1>1, <1>3, <3>1
    <3>2. CASE s # r
      <4>1. flow'[s] = flow[s]
        BY <3>2
      <4>2. /\ flow[s].tok \in DOMAIN tokens /\ tokens[flow[s].tok].used
            /\ tokens[flow[s].tok].user = flow[s].id
            /\ tokens[flow[s].tok].purpose =
                 IF flow[s].pc = "write" THEN PasswordReset ELSE EmailVerify
        BY <4>1 DEF IInv, OneHolder
      <4> QED BY <1>3, <4>1, <4>2
    <3> QED BY <3>1, <3>2
  <2> QED BY <2>3, <2>4 DEF OneHolder
<1>7. EffectNeedsRedemption'
  <2>1. \A id, p : Redeemed(id, p) => Redeemed(id, p)'
    BY <1>2, <1>3 DEF Redeemed
  <2>2. Ids' = Ids /\ users' = users
    BY DEF Ids
  <2> QED BY <2>1, <2>2 DEF IInv, EffectNeedsRedemption
<1> QED BY <1>4, <1>5, <1>6, <1>7 DEF IInv

LEMMA PerformResetInv ==
    ASSUME IInv, NEW r \in Requests, NEW tok \in Presented, NEW pw \in Passwords,
           PerformReset(r, tok, pw)
    PROVE  IInv'
<1> DEFINE q == [Idle EXCEPT !.tok = tok, !.pw = pw]
           held == [q EXCEPT !.id = tokens[tok].user]
<1>1. TypeOK /\ mailed \subseteq DOMAIN tokens
  BY DEF IInv, TypeOK
<1>2. tok \in Nat
  BY <1>1, LenProperties DEF Presented, TypeOK
<1>3. q \in Request /\ q.tok = tok /\ q.pw = pw
  BY <1>2, IdleType DEF Request, Idle
<1>4. UNCHANGED <<users, history, mailed, now>>
  BY DEF PerformReset
<1> HIDE DEF q
<1>5. CASE /\ UNCHANGED tokens
           /\ Answer(r, q, "weakPassword") \/ Answer(r, q, "invalidToken")
  BY <1>1, <1>3, <1>4, <1>5, ResultNames, AnswerInv
<1>6. CASE Redeemable(tok, PasswordReset) /\ Consume(tok) /\ Answer(r, q, "hashError")
  <2>1. flow'[r].pc = "done" /\ flow' \in [Requests -> Request]
        /\ \A s \in Requests \ {r} : flow'[s] = flow[s]
    BY <1>1, <1>3, <1>6, ResultNames, AnswerFlow
  <2> QED BY <1>4, <1>6, <2>1, ConsumeInv
<1>7. CASE Redeemable(tok, PasswordReset) /\ Consume(tok) /\ CanHash(FlowHasher, pw)
           /\ Continue(r, held, "write")
  <2>1. tokens[tok].user \in Nat
    BY <1>1, <1>7, RowType DEF Redeemable, TokenRow
  <2>2. held \in Request /\ held.id = tokens[tok].user /\ held.tok = tok /\ held.pw = pw
    BY <1>3, <2>1 DEF Request
  <2>3. "write" \in Statements
    BY DEF Statements
  <2> HIDE DEF held
  <2>4. /\ flow'[r].pc = "write" /\ flow'[r].id = tokens[tok].user
        /\ flow'[r].tok = tok /\ flow'[r].pw = pw /\ flow' \in [Requests -> Request]
        /\ \A s \in Requests \ {r} : flow'[s] = flow[s]
    BY <1>1, <1>7, <2>2, <2>3, ContinueFlow
  <2> QED BY <1>4, <1>7, <2>4, ConsumeInv
<1> QED BY <1>5, <1>6, <1>7 DEF PerformReset, q

LEMMA ConfirmVerifyInv ==
    ASSUME IInv, NEW r \in Requests, NEW tok \in Presented, ConfirmVerify(r, tok)
    PROVE  IInv'
<1> DEFINE q == [Idle EXCEPT !.purpose = EmailVerify, !.tok = tok]
           held == [q EXCEPT !.id = tokens[tok].user]
<1>1. TypeOK /\ mailed \subseteq DOMAIN tokens
  BY DEF IInv, TypeOK
<1>2. tok \in Nat
  BY <1>1, LenProperties DEF Presented, TypeOK
<1>3. q \in Request /\ q.tok = tok
  BY <1>2, IdleType DEF Request, Idle, Purposes
<1>4. UNCHANGED <<users, history, mailed, now>>
  BY DEF ConfirmVerify
<1> HIDE DEF q
<1>5. CASE UNCHANGED tokens /\ Answer(r, q, "invalidToken")
  BY <1>1, <1>3, <1>4, <1>5, ResultNames, AnswerInv
<1>6. CASE Redeemable(tok, EmailVerify) /\ Consume(tok) /\ Continue(r, held, "verify")
  <2>1. tokens[tok].user \in Nat
    BY <1>1, <1>6, RowType DEF Redeemable, TokenRow
  <2>2. held \in Request /\ held.id = tokens[tok].user /\ held.tok = tok
    BY <1>3, <2>1 DEF Request
  <2>3. "verify" \in Statements
    BY DEF Statements
  <2> HIDE DEF held
  <2>4. /\ flow'[r].pc = "verify" /\ flow'[r].id = tokens[tok].user
        /\ flow'[r].tok = tok /\ flow' \in [Requests -> Request]
        /\ \A s \in Requests \ {r} : flow'[s] = flow[s]
    BY <1>1, <1>6, <2>2, <2>3, ContinueFlow
  <2> QED BY <1>4, <1>6, <2>4, ConsumeInv
<1> QED BY <1>5, <1>6 DEF ConfirmVerify, q

(***************************************************************************)
(* Acting on the token held: the request lets go of it, and its account    *)
(* changes in what the token's purpose names.                              *)
(***************************************************************************)
LEMMA WriteInv ==
    ASSUME IInv, NEW r \in Requests, Answer(r, flow[r], "ok"),
           UsersTypeOK', Ids' = Ids, UNCHANGED <<tokens, mailed, now>>,
           \A id \in Ids : /\ users'[id].hash # users[id].hash => Redeemed(id, PasswordReset)
                           /\ users'[id].email_verified # users[id].email_verified
                                => Redeemed(id, EmailVerify)
    PROVE  IInv'
<1>1. TypeOK /\ flow[r] \in Request
  BY DEF IInv, TypeOK
<1>2. /\ flow' \in [Requests -> Request] /\ flow'[r].pc = "done"
      /\ \A s \in Requests \ {r} : flow'[s] = flow[s]
  BY <1>1, ResultNames, AnswerFlow
<1>3. TypeOK'
  BY <1>1, <1>2 DEF TypeOK
<1>4. AccountsKept'
  BY <1>2 DEF IInv, AccountsKept
<1>5. \A s \in Requests : flow'[s].pc \in {"write", "verify"} => flow'[s] = flow[s]
  BY <1>2
<1>6. OneHolder'
  BY <1>5 DEF IInv, OneHolder, Holds
<1>7. EffectNeedsRedemption'
  <2>1. \A id, p : Redeemed(id, p) => Redeemed(id, p)'
    BY DEF Redeemed
  <2> QED BY <2>1 DEF IInv, EffectNeedsRedemption
<1> QED BY <1>3, <1>4, <1>6, <1>7 DEF IInv

LEMMA ResetWriteInv ==
    ASSUME IInv, NEW r \in Requests, ResetWrite(r)
    PROVE  IInv'
<1> DEFINE h == Hash(FlowHasher, flow[r].pw)
<1>1. flow[r].pc = "write" /\ flow[r].pw \in Passwords
  BY DEF ResetWrite, IInv, AccountsKept
<1>2. h \in HashValue
  BY <1>1, PasswordAssumption DEF Hash, HashValue, Hasher, cost
<1>3. UsersTypeOK /\ ChoosePassword(flow[r].id, h)
  BY DEF ResetWrite, IInv, TypeOK
<1> HIDE DEF h
<1>4. /\ UsersTypeOK' /\ Ids' = Ids
      /\ \A i \in Ids : users'[i] = IF i = flow[r].id THEN [users[i] EXCEPT !.hash = h]
                                                      ELSE users[i]
  BY <1>2, <1>3, ChoosePasswordRows
<1>5. Redeemed(flow[r].id, PasswordReset)
  BY <1>1 DEF IInv, OneHolder, Redeemed
<1>6. \A i \in Ids : users[i] \in UserRow
  BY <1>3 DEF UsersTypeOK, Ids
<1>7. \A id \in Ids : /\ users'[id].hash # users[id].hash => Redeemed(id, PasswordReset)
                      /\ users'[id].email_verified = users[id].email_verified
  BY <1>4, <1>5, <1>6 DEF UserRow
<1> QED BY <1>4, <1>7, WriteInv DEF ResetWrite

LEMMA VerifyWriteInv ==
    ASSUME IInv, NEW r \in Requests, VerifyWrite(r)
    PROVE  IInv'
<1>1. flow[r].pc = "verify"
  BY DEF VerifyWrite
<1>2. UsersTypeOK /\ SetEmailVerified(flow[r].id, TRUE) /\ UNCHANGED history
  BY DEF VerifyWrite, IInv, TypeOK
<1>3. /\ UsersTypeOK' /\ Ids' = Ids
      /\ \A i \in Ids : users'[i] = IF i = flow[r].id
                                      THEN [users[i] EXCEPT !.email_verified = TRUE]
                                      ELSE users[i]
  BY <1>2, SetEmailVerifiedRows
<1>4. Redeemed(flow[r].id, EmailVerify)
  BY <1>1 DEF IInv, OneHolder, Redeemed
<1>5. \A i \in Ids : users[i] \in UserRow
  BY <1>2 DEF UsersTypeOK, Ids
<1>6. \A id \in Ids : /\ users'[id].hash = users[id].hash
                      /\ id # flow[r].id => users'[id].email_verified = users[id].email_verified
  BY <1>3, <1>5 DEF UserRow
<1> QED BY <1>3, <1>4, <1>6, WriteInv DEF VerifyWrite

LEMMA TickInv ==
    ASSUME IInv, Tick
    PROVE  IInv'
<1>1. now' \in Instants /\ UNCHANGED <<users, history, tokens, mailed, flow>>
  BY DEF Tick
<1>2. TypeOK' /\ AccountsKept'
  BY <1>1 DEF IInv, TypeOK, UsersTypeOK, AccountsKept, Ids
<1>3. OneHolder'
  BY <1>1 DEF IInv, OneHolder, Holds
<1>4. EffectNeedsRedemption'
  BY <1>1 DEF IInv, EffectNeedsRedemption, Redeemed, Ids
<1> QED BY <1>2, <1>3, <1>4 DEF IInv

LEMMA NextInv == IInv /\ [Next]_vars => IInv'
<1> SUFFICES ASSUME IInv, [Next]_vars PROVE IInv'
  OBVIOUS
<1>1. ASSUME NEW r \in Requests, Step(r) PROVE IInv'
  BY <1>1, RequestResetInv, SendVerifyInv, IssueInv, MailInv, PerformResetInv, ResetWriteInv,
     ConfirmVerifyInv, VerifyWriteInv, FailInv, ReturnInv DEF Step
<1>2. CASE Tick
  BY <1>2, TickInv
<1>3. CASE UNCHANGED vars
  BY <1>3 DEF vars, IInv, TypeOK, UsersTypeOK, AccountsKept, OneHolder, Holds,
              EffectNeedsRedemption, Redeemed, Ids
<1> QED BY <1>1, <1>2, <1>3 DEF Next

\* The invariant holds in every reachable state.
THEOREM Invariance == Spec => []IInv
<1> QED BY InitInv, NextInv, PTL DEF Spec

\* Every variable keeps its type.
THEOREM TypeCorrect == Spec => []TypeOK
<1>1. IInv => TypeOK
  BY DEF IInv
<1> QED BY <1>1, Invariance, PTL

\* However requests interleave, fail and die, at most one of them acts on a
\* token, on the token's own account and for its own purpose
\* (authtoken/pgstore.go:42-54).
THEOREM SingleRedemption == Spec => []OneHolder
<1>1. IInv => OneHolder
  BY DEF IInv
<1> QED BY <1>1, Invariance, PTL

\* A password or a verified flag changes only by a redeemed token of that
\* account and purpose (authtoken.go:136-177).
THEOREM EffectsAreEarned == Spec => []EffectNeedsRedemption
<1>1. IInv => EffectNeedsRedemption
  BY DEF IInv
<1> QED BY <1>1, Invariance, PTL

(***************************************************************************)
(* Refinement: what a step does to the grants, depending on what it does   *)
(* to tokens and requests.                                                 *)
(***************************************************************************)
GrantRow == [user : Nat, purpose : Purposes, state : {"live", "spent", "closed"}]

\* The request moves r makes and nothing else.
OnlyMoves(r) == \A s \in Requests \ {r} : flow'[s] = flow[s]

Holding(pc) == pc \in {"write", "verify"}

LEMMA GrantsSame ==
    ASSUME NEW r \in Requests, OnlyMoves(r), tokens' = tokens,
           ~ Holding(flow[r].pc), ~ Holding(flow'[r].pc)
    PROVE  grants' = grants
<1>1. \A tok : \A s \in Requests : Holds(s, tok)' <=> Holds(s, tok)
  BY DEF Holds, OnlyMoves, Holding
<1>2. \A tok \in DOMAIN tokens : GrantState(tok)' = GrantState(tok)
  BY <1>1 DEF GrantState
<1> QED BY <1>2 DEF grants

LEMMA GrantsReleased ==
    ASSUME IInv, NEW r \in Requests, OnlyMoves(r), tokens' = tokens,
           Holding(flow[r].pc), ~ Holding(flow'[r].pc)
    PROVE  /\ flow[r].tok \in DOMAIN grants
           /\ grants[flow[r].tok].state = "spent"
           /\ grants' = [grants EXCEPT ![flow[r].tok].state = "closed"]
<1>1. PICK tok \in DOMAIN tokens : tok = flow[r].tok /\ tokens[tok].used
  BY DEF IInv, OneHolder, Holding
<1>2. Holds(r, tok)
  BY <1>1 DEF Holds, Holding
<1>3. \A s \in Requests : ~ Holds(s, tok)'
  BY <1>1, <1>2 DEF IInv, OneHolder, Holds, OnlyMoves, Holding
<1>4. \A t \in DOMAIN tokens \ {tok}, s \in Requests : Holds(s, t)' <=> Holds(s, t)
  BY <1>1 DEF Holds, OnlyMoves, Holding
<1>5. GrantState(tok) = "spent" /\ GrantState(tok)' = "closed"
  BY <1>1, <1>2, <1>3 DEF GrantState
<1>6. \A t \in DOMAIN tokens \ {tok} : GrantState(t)' = GrantState(t)
  BY <1>4 DEF GrantState
<1> QED BY <1>1, <1>5, <1>6 DEF grants

LEMMA GrantsAdded ==
    ASSUME IInv, NEW r \in Requests, OnlyMoves(r), NEW row \in TokenRow,
           tokens' = Append(tokens, row), ~ row.used,
           ~ Holding(flow[r].pc), ~ Holding(flow'[r].pc)
    PROVE  grants' = Append(grants, [user |-> row.user, purpose |-> row.purpose,
                                     state |-> "live"])
<1> PICK n : n = Len(tokens) + 1
  OBVIOUS
<1> DEFINE g == [user |-> row.user, purpose |-> row.purpose, state |-> "live"]
<1>1. TypeOK
  BY DEF IInv
<1>2. /\ DOMAIN tokens' = DOMAIN tokens \cup {n} /\ n \notin DOMAIN tokens
      /\ tokens'[n] = row /\ \A t \in DOMAIN tokens : tokens'[t] = tokens[t]
  BY <1>1, AppendRow
<1>3. \A tok : \A s \in Requests : Holds(s, tok)' <=> Holds(s, tok)
  BY DEF Holds, OnlyMoves, Holding
<1>4. \A t \in DOMAIN tokens : GrantState(t)' = GrantState(t)
  BY <1>2, <1>3 DEF GrantState
<1>5. GrantState(n)' = "live"
  BY <1>2 DEF GrantState
<1>6. \A t \in DOMAIN tokens : grants[t] \in GrantRow
  BY <1>1, RowType DEF grants, GrantRow, GrantState, TokenRow
<1>7. grants \in Seq(GrantRow) /\ Len(grants) = Len(tokens) /\ DOMAIN grants = DOMAIN tokens
  <2>1. grants \in [DOMAIN tokens -> GrantRow]
    BY <1>6 DEF grants
  <2> QED BY <1>1, <2>1, MapRows DEF TypeOK
<1>8. g \in GrantRow
  BY DEF GrantRow, TokenRow
<1> HIDE DEF g
<1>9. /\ DOMAIN Append(grants, g) = DOMAIN tokens \cup {n}
      /\ Append(grants, g)[n] = g
      /\ \A t \in DOMAIN tokens : Append(grants, g)[t] = grants[t]
  <2>1. DOMAIN tokens = 1..Len(tokens) /\ Len(tokens) \in Nat
    BY <1>1, LenProperties DEF TypeOK
  <2>2. Append(grants, g) \in Seq(GrantRow) /\ Len(Append(grants, g)) = Len(grants) + 1
    BY <1>7, <1>8
  <2>3. DOMAIN Append(grants, g) = 1..n
    BY <1>7, <2>2, LenProperties
  <2> QED BY <1>7, <1>8, <2>1, <2>3
<1>10. DOMAIN grants' = DOMAIN tokens \cup {n}
  BY <1>2 DEF grants
<1>11. \A t \in DOMAIN tokens : grants'[t] = grants[t]
  BY <1>2, <1>4 DEF grants
<1>12. grants'[n] = g
  BY <1>2, <1>5 DEF grants, g
<1>13. grants' = [t \in DOMAIN tokens \cup {n} |-> Append(grants, g)[t]]
  BY <1>9, <1>10, <1>11, <1>12 DEF grants
<1>14. Append(grants, g) = [t \in DOMAIN tokens \cup {n} |-> Append(grants, g)[t]]
  <2>1. Append(grants, g) \in Seq(GrantRow)
    BY <1>7, <1>8, AppendProperties
  <2>2. Append(grants, g) \in [DOMAIN tokens \cup {n} -> GrantRow]
    BY <1>9, <2>1, LenProperties
  <2> QED BY <2>2
<1> QED BY <1>13, <1>14 DEF g

LEMMA GrantsConsumed ==
    ASSUME IInv, NEW r \in Requests, OnlyMoves(r), NEW tok, NEW purpose,
           Redeemable(tok, purpose), Consume(tok), ~ Holding(flow[r].pc),
           Holding(flow'[r].pc) => flow'[r].tok = tok
    PROVE  /\ tok \in DOMAIN grants
           /\ grants[tok].state = "live"
           /\ grants' = [grants EXCEPT ![tok].state =
                            IF Holding(flow'[r].pc) THEN "spent" ELSE "closed"]
<1>1. TypeOK /\ tok \in DOMAIN tokens /\ ~ tokens[tok].used
  BY DEF IInv, Redeemable
<1>2. /\ DOMAIN tokens' = DOMAIN tokens
      /\ \A t \in DOMAIN tokens :
           tokens'[t] = IF t = tok THEN [tokens[t] EXCEPT !.used = TRUE] ELSE tokens[t]
  BY <1>1, ConsumeRows
<1>3. \A t \in DOMAIN tokens : /\ tokens'[t].user = tokens[t].user
                               /\ tokens'[t].purpose = tokens[t].purpose
      /\ tokens'[tok].used
  BY <1>1, <1>2, RowType DEF TokenRow
<1>4. \A s \in Requests : ~ Holds(s, tok)
  BY <1>1 DEF IInv, OneHolder, Holds
<1>5. (\E s \in Requests : Holds(s, tok)') <=> Holding(flow'[r].pc)
  BY <1>4 DEF Holds, OnlyMoves, Holding
<1>6. \A t \in DOMAIN tokens \ {tok}, s \in Requests : Holds(s, t)' <=> Holds(s, t)
  BY DEF Holds, OnlyMoves, Holding
<1>7. GrantState(tok) = "live"
      /\ GrantState(tok)' = IF Holding(flow'[r].pc) THEN "spent" ELSE "closed"
  BY <1>1, <1>3, <1>5 DEF GrantState
<1>8. \A t \in DOMAIN tokens \ {tok} : GrantState(t)' = GrantState(t)
  BY <1>2, <1>6 DEF GrantState
<1> QED BY <1>1, <1>2, <1>3, <1>7, <1>8 DEF grants

\* The accounts as the abstract specification sees them do not change with
\* the rows.
LEMMA AccountsSame == UNCHANGED users => UNCHANGED accounts
BY DEF accounts, AccountsIn

\* The frame of a request that is answered or goes on.
LEMMA AnswerFrame ==
    ASSUME IInv, NEW r \in Requests, NEW q \in Request, NEW res \in Results, Answer(r, q, res)
    PROVE  OnlyMoves(r) /\ flow'[r].pc = "done" /\ ~ Holding(flow'[r].pc)
BY AnswerFlow DEF IInv, OnlyMoves, Holding

LEMMA ContinueFrame ==
    ASSUME IInv, NEW r \in Requests, NEW q \in Request, NEW pc \in Statements,
           Continue(r, q, pc)
    PROVE  OnlyMoves(r) /\ flow'[r].pc = pc /\ flow'[r].tok = q.tok
BY ContinueFlow DEF IInv, OnlyMoves

LEMMA StatementNames == {"issue", "mail", "write", "verify"} \subseteq Statements
BY DEF Statements

\* A presented token is a number, and once its account is known the
\* request's record is still one.
LEMMA PresentedType ==
    ASSUME IInv, NEW tok \in Presented
    PROVE  /\ tok \in Nat
           /\ \A q \in Request : tok \in DOMAIN tokens /\ q.tok = tok =>
                /\ [q EXCEPT !.id = tokens[tok].user] \in Request
                /\ [q EXCEPT !.id = tokens[tok].user].tok = tok
<1>1. TypeOK /\ tok \in Nat
  BY LenProperties DEF Presented, IInv, TypeOK
<1>2. tok \in DOMAIN tokens => tokens[tok].user \in Nat
  BY <1>1, RowType DEF TokenRow
<1> QED BY <1>1, <1>2 DEF Request

AbstractStep == [Abstract!Next]_(Abstract!grantVars)

\* Steps that touch no table: nothing happens to the grants, or the request
\* lets go of a token without acting on it.
LEMMA RefineQuiet ==
    ASSUME IInv, NEW r \in Requests, OnlyMoves(r), UNCHANGED <<tokens, users>>,
           ~ Holding(flow'[r].pc)
    PROVE  AbstractStep
<1>1. UNCHANGED accounts
  BY AccountsSame
<1>2. CASE ~ Holding(flow[r].pc)
  <2>1. UNCHANGED grants
    BY <1>2, GrantsSame
  <2> QED BY <1>1, <2>1 DEF AbstractStep, Abstract!grantVars
<1>3. CASE Holding(flow[r].pc)
  <2>1. PICK g \in DOMAIN grants : /\ grants[g].state = "spent"
                                  /\ grants' = [grants EXCEPT ![g].state = "closed"]
    BY <1>3, GrantsReleased
  <2>2. Abstract!Abandon(g)
    BY <1>1, <2>1 DEF Abstract!Abandon, Abstract!Move
  <2> QED BY <2>1, <2>2 DEF AbstractStep, Abstract!Next
<1> QED BY <1>2, <1>3

LEMMA RefineIssue ==
    ASSUME IInv, NEW r \in Requests, issue(r)
    PROVE  AbstractStep
<1> DEFINE row == [user |-> flow[r].id, purpose |-> flow[r].purpose, used |-> FALSE,
                   expires |-> now + AppAhead + TTL(flow[r].purpose), issued |-> now]
<1>1. TypeOK /\ flow[r] \in Request /\ now \in Nat /\ flow[r].pc = "issue"
  BY DEF IInv, TypeOK, issue
<1>2. TTL(flow[r].purpose) \in Int
  BY DEF TTL, resetTTL, verifyTTL, Hour
<1>3. row \in TokenRow /\ ~ row.used /\ row.user = flow[r].id /\ row.purpose = flow[r].purpose
  BY <1>1, <1>2 DEF TokenRow, Request
<1>4. tokens' = Append(tokens, row)
  BY DEF issue
<1> HIDE DEF row
<1>5. OnlyMoves(r) /\ flow'[r].pc = "mail"
  <2>1. [flow[r] EXCEPT !.tok = Len(tokens) + 1] \in Request
    <3>1. Len(tokens) + 1 \in Nat
      BY <1>1, LenProperties DEF TypeOK
    <3> QED BY <1>1, <3>1 DEF Request
  <2> QED BY <2>1, StatementNames, ContinueFrame DEF issue
<1>6. grants' = Append(grants, [user |-> row.user, purpose |-> row.purpose, state |-> "live"])
  BY <1>1, <1>3, <1>4, <1>5, GrantsAdded DEF Holding
<1>7. UNCHANGED accounts
  BY AccountsSame DEF issue
<1>8. row.user \in DOMAIN InitialUsers /\ row.purpose \in Abstract!Purpose
  BY <1>1, <1>3 DEF IInv, AccountsKept, Request, Purposes, PasswordReset, EmailVerify,
                    Abstract!Purpose
<1>9. Abstract!Grant
  BY <1>6, <1>7, <1>8 DEF Abstract!Grant
<1> QED BY <1>9 DEF AbstractStep, Abstract!Next

LEMMA RefineConsume ==
    ASSUME IInv, NEW r \in Requests, OnlyMoves(r), NEW tok, NEW purpose,
           Redeemable(tok, purpose), Consume(tok), flow[r].pc = "idle",
           Holding(flow'[r].pc) => flow'[r].tok = tok, UNCHANGED users
    PROVE  AbstractStep
<1>1. ~ Holding(flow[r].pc)
  BY DEF Holding
<1>2. /\ tok \in DOMAIN grants /\ grants[tok].state = "live"
      /\ grants' = [grants EXCEPT ![tok].state =
                       IF Holding(flow'[r].pc) THEN "spent" ELSE "closed"]
  BY <1>1, GrantsConsumed
<1>3. UNCHANGED accounts
  BY AccountsSame
<1>4. Abstract!Spend(tok) \/ Abstract!Abandon(tok)
  BY <1>2, <1>3 DEF Abstract!Spend, Abstract!Abandon, Abstract!Move
<1> QED BY <1>2, <1>4 DEF AbstractStep, Abstract!Next

LEMMA RefinePerformReset ==
    ASSUME IInv, NEW r \in Requests, NEW tok \in Presented, NEW pw \in Passwords,
           PerformReset(r, tok, pw)
    PROVE  AbstractStep
<1> DEFINE q == [Idle EXCEPT !.tok = tok, !.pw = pw]
           held == [q EXCEPT !.id = tokens[tok].user]
<1>1. flow[r].pc = "idle" /\ UNCHANGED users
  BY DEF PerformReset
<1>2. /\ q \in Request /\ q.tok = tok
      /\ tok \in DOMAIN tokens => held \in Request /\ held.tok = tok
  <2>1. q \in Request /\ q.tok = tok
    BY PresentedType, IdleType DEF Request, Idle
  <2> HIDE DEF q
  <2> QED BY <2>1, PresentedType
<1> HIDE DEF q
<1>3. ASSUME NEW res \in Results, UNCHANGED tokens, Answer(r, q, res) PROVE AbstractStep
  BY <1>1, <1>2, <1>3, AnswerFrame, RefineQuiet
<1>4. CASE Redeemable(tok, PasswordReset) /\ Consume(tok) /\ Answer(r, q, "hashError")
  BY <1>1, <1>2, <1>4, ResultNames, AnswerFrame, RefineConsume
<1>5. CASE Redeemable(tok, PasswordReset) /\ Consume(tok) /\ Continue(r, held, "write")
  <2>1. held \in Request /\ held.tok = tok
    BY <1>2, <1>5 DEF Redeemable
  <2> HIDE DEF held
  <2> QED BY <1>1, <1>5, <2>1, StatementNames, ContinueFrame, RefineConsume
<1> QED BY <1>3, <1>4, <1>5, ResultNames DEF PerformReset, q

LEMMA RefineConfirmVerify ==
    ASSUME IInv, NEW r \in Requests, NEW tok \in Presented, ConfirmVerify(r, tok)
    PROVE  AbstractStep
<1> DEFINE q == [Idle EXCEPT !.purpose = EmailVerify, !.tok = tok]
           held == [q EXCEPT !.id = tokens[tok].user]
<1>1. flow[r].pc = "idle" /\ UNCHANGED users
  BY DEF ConfirmVerify
<1>2. /\ q \in Request /\ q.tok = tok
      /\ tok \in DOMAIN tokens => held \in Request /\ held.tok = tok
  <2>1. q \in Request /\ q.tok = tok
    BY PresentedType, IdleType DEF Request, Idle, Purposes
  <2> HIDE DEF q
  <2> QED BY <2>1, PresentedType
<1> HIDE DEF q
<1>3. CASE UNCHANGED tokens /\ Answer(r, q, "invalidToken")
  BY <1>1, <1>2, <1>3, ResultNames, AnswerFrame, RefineQuiet
<1>4. CASE Redeemable(tok, EmailVerify) /\ Consume(tok) /\ Continue(r, held, "verify")
  <2>1. held \in Request /\ held.tok = tok
    BY <1>2, <1>4 DEF Redeemable
  <2> HIDE DEF held
  <2> QED BY <1>1, <1>4, <2>1, StatementNames, ContinueFrame, RefineConsume
<1> QED BY <1>3, <1>4 DEF ConfirmVerify, q

\* The second statement: the grant takes effect and is closed.
LEMMA RefineWrite ==
    ASSUME IInv, NEW r \in Requests, Holding(flow[r].pc), Answer(r, flow[r], "ok"),
           UNCHANGED tokens,
           flow[r].pc = "write" => Abstract!SetHash(flow[r].id),
           flow[r].pc = "verify" => Abstract!SetVerified(flow[r].id)
    PROVE  AbstractStep
<1>1. flow[r] \in Request
  BY DEF IInv, TypeOK
<1>2. OnlyMoves(r) /\ ~ Holding(flow'[r].pc)
  BY <1>1, ResultNames, AnswerFrame
<1>3. PICK g \in DOMAIN grants : /\ g = flow[r].tok /\ grants[g].state = "spent"
                                /\ grants' = [grants EXCEPT ![g].state = "closed"]
  BY <1>2, GrantsReleased
<1>4. /\ grants[g].user = flow[r].id
      /\ grants[g].purpose = IF flow[r].pc = "write" THEN PasswordReset ELSE EmailVerify
  BY <1>3 DEF IInv, OneHolder, Holding, grants
<1>5. IF grants[g].purpose = "password_reset" THEN Abstract!SetHash(grants[g].user)
                                              ELSE Abstract!SetVerified(grants[g].user)
  BY <1>4 DEF Holding, PasswordReset, EmailVerify
<1>6. Abstract!TakeEffect(g)
  BY <1>3, <1>5 DEF Abstract!TakeEffect, Abstract!Move
<1> QED BY <1>3, <1>6 DEF AbstractStep, Abstract!Next

LEMMA RefineResetWrite ==
    ASSUME IInv, NEW r \in Requests, ResetWrite(r)
    PROVE  AbstractStep
<1> DEFINE h == Hash(FlowHasher, flow[r].pw)
<1>1. flow[r].pc = "write" /\ flow[r].pw \in Passwords
  BY DEF ResetWrite, IInv, AccountsKept
<1>2. h \in HashValue
  BY <1>1, PasswordAssumption DEF Hash, HashValue, Hasher, cost
<1>3. UsersTypeOK /\ ChoosePassword(flow[r].id, h)
  BY DEF ResetWrite, IInv, TypeOK
<1> HIDE DEF h
<1>4. /\ Ids' = Ids
      /\ \A i \in Ids : users'[i] = IF i = flow[r].id THEN [users[i] EXCEPT !.hash = h]
                                                      ELSE users[i]
  BY <1>2, <1>3, ChoosePasswordRows
<1>5. \A i \in Ids : users[i] \in UserRow
  BY <1>3 DEF UsersTypeOK, Ids
<1>6. \A i \in Ids : accounts'[i] = IF i = flow[r].id THEN [accounts[i] EXCEPT !.hash = h]
                                                      ELSE accounts[i]
  BY <1>4, <1>5 DEF accounts, AccountsIn, UserRow, Ids
<1>7. accounts' = [i \in DOMAIN accounts |->
                     IF i = flow[r].id THEN [accounts[i] EXCEPT !.hash = h] ELSE accounts[i]]
  BY <1>4, <1>6 DEF accounts, AccountsIn, Ids
<1>8. Abstract!SetHash(flow[r].id)
  BY <1>2, <1>7 DEF Abstract!SetHash
<1> QED BY <1>1, <1>8, RefineWrite DEF ResetWrite, Holding

LEMMA RefineVerifyWrite ==
    ASSUME IInv, NEW r \in Requests, VerifyWrite(r)
    PROVE  AbstractStep
<1>1. flow[r].pc = "verify"
  BY DEF VerifyWrite
<1>2. UsersTypeOK /\ SetEmailVerified(flow[r].id, TRUE) /\ UNCHANGED history
  BY DEF VerifyWrite, IInv, TypeOK
<1>3. /\ Ids' = Ids
      /\ \A i \in Ids : users'[i] = IF i = flow[r].id
                                      THEN [users[i] EXCEPT !.email_verified = TRUE]
                                      ELSE users[i]
  BY <1>2, SetEmailVerifiedRows
<1>4. \A i \in Ids : users[i] \in UserRow
  BY <1>2 DEF UsersTypeOK, Ids
<1>5. \A i \in Ids : accounts'[i] = IF i = flow[r].id THEN [accounts[i] EXCEPT !.verified = TRUE]
                                                      ELSE accounts[i]
  BY <1>3, <1>4 DEF accounts, AccountsIn, UserRow, Ids
<1>6. accounts' = [i \in DOMAIN accounts |->
                     IF i = flow[r].id THEN [accounts[i] EXCEPT !.verified = TRUE]
                                       ELSE accounts[i]]
  BY <1>3, <1>5 DEF accounts, AccountsIn, Ids
<1>7. Abstract!SetVerified(flow[r].id)
  BY <1>6 DEF Abstract!SetVerified
<1> QED BY <1>1, <1>7, RefineWrite DEF VerifyWrite, Holding

LEMMA RefineNext == IInv /\ [Next]_vars => AbstractStep
<1> SUFFICES ASSUME IInv, [Next]_vars PROVE AbstractStep
  OBVIOUS
<1>1. ASSUME NEW r \in Requests, Step(r) PROVE AbstractStep
  <2>1. ASSUME NEW email \in Texts, RequestReset(r, email) PROVE AbstractStep
    <3>1. UNCHANGED <<tokens, users>>
      BY <2>1 DEF RequestReset
    <3>2. CASE Answer(r, Idle, "ok")
      BY <3>1, <3>2, IdleType, ResultNames, AnswerFrame, RefineQuiet
    <3>3. ASSUME NEW id \in ByEmail(email), Continue(r, [Idle EXCEPT !.id = id], "issue")
          PROVE  AbstractStep
      <4>1. [Idle EXCEPT !.id = id] \in Request
        <5>1. id \in Nat
          BY DEF ByEmail, IInv, AccountsKept
        <5> QED BY <5>1, IdleType DEF Request
      <4>2. OnlyMoves(r) /\ ~ Holding(flow'[r].pc)
        BY <3>3, <4>1, StatementNames, ContinueFrame DEF Holding
      <4> QED BY <3>1, <4>2, RefineQuiet
    <3> QED BY <2>1, <3>2, <3>3 DEF RequestReset
  <2>2. ASSUME NEW id \in Ids, NEW email \in Texts, SendVerify(r, id, email)
        PROVE  AbstractStep
    <3> DEFINE q == [Idle EXCEPT !.purpose = EmailVerify, !.id = id]
    <3>1. UNCHANGED <<tokens, users>>
      BY <2>2 DEF SendVerify
    <3>2. q \in Request
      <4>1. id \in Nat
        BY DEF IInv, AccountsKept
      <4> QED BY <4>1, IdleType DEF Request, Purposes
    <3> HIDE DEF q
    <3>3. CASE Answer(r, q, "ok")
      BY <3>1, <3>2, <3>3, ResultNames, AnswerFrame, RefineQuiet
    <3>4. CASE Continue(r, q, "issue")
      <4>1. OnlyMoves(r) /\ ~ Holding(flow'[r].pc)
        BY <3>2, <3>4, StatementNames, ContinueFrame DEF Holding
      <4> QED BY <3>1, <4>1, RefineQuiet
    <3> QED BY <2>2, <3>3, <3>4 DEF SendVerify, q
  <2>3. CASE Mail(r) \/ Fail(r)
    <3>1. UNCHANGED <<tokens, users>> /\ \E res \in Results : Answer(r, flow[r], res)
      BY <2>3, ResultNames DEF Mail, Fail
    <3>2. flow[r] \in Request
      BY DEF IInv, TypeOK
    <3> QED BY <3>1, <3>2, AnswerFrame, RefineQuiet
  <2>4. CASE Return(r)
    <3>1. UNCHANGED <<tokens, users>> /\ OnlyMoves(r) /\ ~ Holding(flow'[r].pc)
      BY <2>4 DEF Return, OnlyMoves, Holding, Idle, IInv, TypeOK
    <3> QED BY <3>1, RefineQuiet
  <2> QED BY <1>1, <2>1, <2>2, <2>3, <2>4, RefineIssue, RefinePerformReset, RefineResetWrite,
             RefineConfirmVerify, RefineVerifyWrite DEF Step
<1>2. CASE Tick \/ UNCHANGED vars
  <2>1. UNCHANGED <<users, tokens, flow>>
    BY <1>2 DEF Tick, vars
  <2>2. UNCHANGED <<grants, accounts>>
    BY <2>1 DEF grants, GrantState, Holds, accounts, AccountsIn
  <2> QED BY <2>2 DEF AbstractStep, Abstract!grantVars
<1> QED BY <1>1, <1>2 DEF Next

LEMMA RefineInit == Init => Abstract!Init
BY DEF Init, Abstract!Init, grants, accounts

\* The token flows implement the single-use grants: every step issues,
\* spends, closes or uses one grant, or leaves the grants and what they are
\* good for as they are.
THEOREM Refinement == Spec => SingleUseGrants
<1>1. IInv /\ [Next]_vars => [Abstract!Next]_(Abstract!grantVars)
  BY RefineNext DEF AbstractStep
<1> QED BY <1>1, RefineInit, Invariance, PTL DEF Spec, SingleUseGrants, Abstract!Spec

(***************************************************************************)
(* Links and time: what a refusal leaves behind, and how long a link       *)
(* lives.                                                                  *)
(***************************************************************************)
\* An idle request has no answer, and a token expires a lifetime after the process clock
\* stamped it (authtoken.go:65).
LinksInv ==
    /\ \A r \in Requests : flow[r].pc = "idle" => flow[r].res = "none"
    /\ \A tok \in DOMAIN tokens :
          tokens[tok].expires = tokens[tok].issued + AppAhead + TTL(tokens[tok].purpose)

\* An answer carries its result and what the request was about.
LEMMA AnswerSays ==
    ASSUME TypeOK, NEW r \in Requests, NEW q \in Request, NEW res \in Results, Answer(r, q, res)
    PROVE  /\ flow'[r].pc = "done" /\ flow'[r].res = res
           /\ flow'[r].tok = q.tok /\ flow'[r].purpose = q.purpose
           /\ \A s \in Requests \ {r} : flow'[s] = flow[s]
<1>1. flow'[r] = [q EXCEPT !.pc = "done", !.res = res]
  BY DEF TypeOK, Answer
<1> QED BY <1>1, AnswerFlow DEF Request

\* A request that goes on has no answer it did not have.
LEMMA ContinueSays ==
    ASSUME TypeOK, NEW r \in Requests, NEW q \in Request, NEW pc \in Statements,
           Continue(r, q, pc)
    PROVE  /\ flow'[r].pc = pc /\ flow'[r].res = q.res
           /\ \A s \in Requests \ {r} : flow'[s] = flow[s]
<1>1. flow'[r] = [q EXCEPT !.pc = pc]
  BY DEF TypeOK, Continue
<1> QED BY <1>1, ContinueFlow DEF Request

\* What a step of a request does to the tokens, and which answers it gives to one that
\* comes in.
LinkStep(r) ==
    /\ \A s \in Requests \ {r} : flow'[s] = flow[s]
    /\ flow'[r].pc = "idle" => flow'[r].res = "none"
    /\ UNCHANGED now
    /\ \/ UNCHANGED tokens
       \/ \E row \in TokenRow :
             /\ row.expires = row.issued + AppAhead + TTL(row.purpose) /\ ~ row.used
             /\ tokens' = Append(tokens, row)
       \/ \E tok \in DOMAIN tokens :
             Redeemable(tok, tokens[tok].purpose) /\ Consume(tok)
    /\ flow[r].pc = "idle" =>
          /\ flow'[r].res = "weakPassword" => UNCHANGED tokens
          /\ flow'[r].res = "hashError" => \E pw \in Passwords : ~ CanHash(FlowHasher, pw)
          /\ flow'[r].res = "invalidToken" => ~ Redeemable(flow'[r].tok, flow'[r].purpose)

\* Statements that leave the tokens alone and give no such answer.
LEMMA PlainStep ==
    ASSUME TypeOK, NEW r \in Requests, NEW q \in Request, UNCHANGED <<tokens, now>>,
           \/ \E res \in Results \ {"weakPassword", "hashError", "invalidToken"} : Answer(r, q, res)
           \/ q.res = "none" /\ \E pc \in Statements : Continue(r, q, pc)
    PROVE  LinkStep(r)
BY AnswerSays, ContinueSays DEF LinkStep

LEMMA IssueLink ==
    ASSUME IInv, NEW r \in Requests, issue(r)
    PROVE  LinkStep(r)
<1> DEFINE row == [user |-> flow[r].id, purpose |-> flow[r].purpose, used |-> FALSE,
                   expires |-> now + AppAhead + TTL(flow[r].purpose), issued |-> now]
<1>1. TypeOK /\ flow[r] \in Request /\ now \in Nat /\ flow[r].pc = "issue"
  BY DEF IInv, TypeOK, issue
<1>2. row \in TokenRow /\ ~ row.used /\ row.expires = row.issued + AppAhead + TTL(row.purpose)
  BY <1>1 DEF TokenRow, TTL, resetTTL, verifyTTL, Hour, Request
<1>3. tokens' = Append(tokens, row) /\ UNCHANGED now
  BY DEF issue
<1>4. PICK q \in Request : Continue(r, q, "mail")
  <2>1. Len(tokens) + 1 \in Nat
    BY <1>1, LenProperties DEF TypeOK
  <2>2. [flow[r] EXCEPT !.tok = Len(tokens) + 1] \in Request
    BY <1>1, <2>1 DEF Request
  <2> QED BY <2>2 DEF issue
<1>5. "mail" \in Statements /\ "mail" # "idle"
  BY DEF Statements
<1> HIDE DEF row
<1> QED BY <1>1, <1>2, <1>3, <1>4, <1>5, ContinueSays DEF LinkStep

LEMMA PerformResetLink ==
    ASSUME IInv, NEW r \in Requests, NEW tok \in Presented, NEW pw \in Passwords,
           PerformReset(r, tok, pw)
    PROVE  LinkStep(r)
<1> DEFINE q == [Idle EXCEPT !.tok = tok, !.pw = pw]
           held == [q EXCEPT !.id = tokens[tok].user]
<1>1. TypeOK /\ tok \in Nat
  BY PresentedType DEF IInv
<1>2. q \in Request /\ q.tok = tok /\ q.purpose = PasswordReset /\ q.res = "none"
  BY <1>1, IdleType DEF Request, Idle
<1>3. UNCHANGED now
  BY DEF PerformReset
<1> HIDE DEF q
<1>4. CASE UNCHANGED tokens /\ Answer(r, q, "weakPassword")
  BY <1>1, <1>2, <1>3, <1>4, ResultNames, AnswerSays DEF LinkStep
<1>5. CASE UNCHANGED tokens /\ Answer(r, q, "invalidToken") /\ ~ Redeemable(tok, PasswordReset)
  BY <1>1, <1>2, <1>3, <1>5, ResultNames, AnswerSays DEF LinkStep
<1>6. CASE /\ Redeemable(tok, PasswordReset) /\ Consume(tok)
           /\ Answer(r, q, "hashError") /\ ~ CanHash(FlowHasher, pw)
  <2>1. /\ flow'[r].pc = "done" /\ flow'[r].res = "hashError"
        /\ \A s \in Requests \ {r} : flow'[s] = flow[s]
    BY <1>1, <1>2, <1>6, ResultNames, AnswerSays
  <2>2. tok \in DOMAIN tokens /\ Redeemable(tok, tokens[tok].purpose)
    BY <1>6 DEF Redeemable
  <2> QED BY <1>3, <1>6, <2>1, <2>2 DEF LinkStep
<1>7. CASE Redeemable(tok, PasswordReset) /\ Consume(tok) /\ Continue(r, held, "write")
  <2>1. tok \in DOMAIN tokens /\ Redeemable(tok, tokens[tok].purpose)
    BY <1>7 DEF Redeemable
  <2>2. tokens[tok].user \in Nat
    BY <1>1, <2>1, RowType DEF TokenRow
  <2>3. held \in Request /\ held.res = "none" /\ "write" \in Statements
    BY <1>2, <2>2 DEF Request, Statements
  <2> HIDE DEF held
  <2>4. /\ flow'[r].pc = "write" /\ flow'[r].res = "none"
        /\ \A s \in Requests \ {r} : flow'[s] = flow[s]
    BY <1>1, <1>7, <2>3, ContinueSays
  <2> QED BY <1>3, <1>7, <2>1, <2>4 DEF LinkStep
<1> QED BY <1>4, <1>5, <1>6, <1>7 DEF PerformReset, q

LEMMA ConfirmVerifyLink ==
    ASSUME IInv, NEW r \in Requests, NEW tok \in Presented, ConfirmVerify(r, tok)
    PROVE  LinkStep(r)
<1> DEFINE q == [Idle EXCEPT !.purpose = EmailVerify, !.tok = tok]
           held == [q EXCEPT !.id = tokens[tok].user]
<1>1. TypeOK /\ tok \in Nat
  BY PresentedType DEF IInv
<1>2. q \in Request /\ q.tok = tok /\ q.purpose = EmailVerify /\ q.res = "none"
  BY <1>1, IdleType DEF Request, Idle, Purposes
<1>3. UNCHANGED now
  BY DEF ConfirmVerify
<1> HIDE DEF q
<1>4. CASE UNCHANGED tokens /\ Answer(r, q, "invalidToken") /\ ~ Redeemable(tok, EmailVerify)
  BY <1>1, <1>2, <1>3, <1>4, ResultNames, AnswerSays DEF LinkStep
<1>5. CASE Redeemable(tok, EmailVerify) /\ Consume(tok) /\ Continue(r, held, "verify")
  <2>1. tok \in DOMAIN tokens /\ Redeemable(tok, tokens[tok].purpose)
    BY <1>5 DEF Redeemable
  <2>2. tokens[tok].user \in Nat
    BY <1>1, <2>1, RowType DEF TokenRow
  <2>3. held \in Request /\ held.res = "none" /\ "verify" \in Statements
    BY <1>2, <2>2 DEF Request, Statements
  <2> HIDE DEF held
  <2>4. /\ flow'[r].pc = "verify" /\ flow'[r].res = "none"
        /\ \A s \in Requests \ {r} : flow'[s] = flow[s]
    BY <1>1, <1>5, <2>3, ContinueSays
  <2> QED BY <1>3, <1>5, <2>1, <2>4 DEF LinkStep
<1> QED BY <1>4, <1>5 DEF ConfirmVerify, q

\* Every step of a request is one of these.
LEMMA StepLinks ==
    ASSUME IInv, NEW r \in Requests, Step(r)
    PROVE  LinkStep(r)
<1>1. TypeOK /\ flow[r] \in Request
  BY DEF IInv, TypeOK
<1>2. "ok" \in Results /\ "mailError" \in Results /\ "dbError" \in Results /\ "issue" \in Statements
  BY DEF Results, Statements
<1>3. ASSUME NEW email \in Texts, RequestReset(r, email) PROVE LinkStep(r)
  <2>1. UNCHANGED <<tokens, now>>
    BY <1>3 DEF RequestReset
  <2>2. CASE Answer(r, Idle, "ok")
    BY <1>1, <1>2, <2>1, <2>2, IdleType, PlainStep
  <2>3. ASSUME NEW id \in ByEmail(email), Continue(r, [Idle EXCEPT !.id = id], "issue")
        PROVE  LinkStep(r)
    <3>1. id \in Nat
      BY <1>1, LenProperties DEF ByEmail, Ids, TypeOK, UsersTypeOK
    <3>2. [Idle EXCEPT !.id = id] \in Request /\ [Idle EXCEPT !.id = id].res = "none"
      BY <3>1, IdleType DEF Request, Idle
    <3> QED BY <1>1, <1>2, <2>1, <2>3, <3>2, PlainStep
  <2> QED BY <1>3, <2>2, <2>3 DEF RequestReset
<1>4. ASSUME NEW id \in Ids, NEW email \in Texts, SendVerify(r, id, email) PROVE LinkStep(r)
  <2>1. id \in Nat
    BY <1>1, LenProperties DEF Ids, TypeOK, UsersTypeOK
  <2> DEFINE q == [Idle EXCEPT !.purpose = EmailVerify, !.id = id]
  <2>2. q \in Request /\ q.res = "none"
    BY <2>1, IdleType DEF Request, Idle, Purposes
  <2>3. UNCHANGED <<tokens, now>> /\ (Answer(r, q, "ok") \/ Continue(r, q, "issue"))
    BY <1>4 DEF SendVerify
  <2> HIDE DEF q
  <2> QED BY <1>1, <1>2, <2>2, <2>3, PlainStep
<1>5. CASE Mail(r)
  <2>1. UNCHANGED <<tokens, now>> /\ (Answer(r, flow[r], "ok") \/ Answer(r, flow[r], "mailError"))
    BY <1>5 DEF Mail
  <2> QED BY <1>1, <1>2, <2>1, PlainStep
<1>6. CASE ResetWrite(r) \/ VerifyWrite(r)
  <2>1. UNCHANGED <<tokens, now>> /\ Answer(r, flow[r], "ok")
    BY <1>6 DEF ResetWrite, VerifyWrite
  <2> QED BY <1>1, <1>2, <2>1, PlainStep
<1>7. CASE Fail(r)
  <2>1. UNCHANGED <<tokens, now>> /\ Answer(r, flow[r], "dbError")
    BY <1>7 DEF Fail
  <2> QED BY <1>1, <1>2, <2>1, PlainStep
<1>8. CASE Return(r)
  <2>1. UNCHANGED <<tokens, now>> /\ flow' = [flow EXCEPT ![r] = Idle] /\ flow[r].pc # "idle"
    BY <1>8 DEF Return
  <2>2. flow'[r] = Idle /\ \A s \in Requests \ {r} : flow'[s] = flow[s]
    BY <2>1 DEF IInv, TypeOK
  <2> QED BY <2>1, <2>2 DEF LinkStep, Idle
<1> QED BY <1>3, <1>4, <1>5, <1>6, <1>7, <1>8, IssueLink, PerformResetLink, ConfirmVerifyLink DEF Step

LEMMA LinksNext == IInv /\ LinksInv /\ [Next]_vars => LinksInv'
<1> SUFFICES ASSUME IInv, LinksInv, [Next]_vars PROVE LinksInv'
  OBVIOUS
<1>1. TypeOK /\ \A tok \in DOMAIN tokens : tokens[tok] \in TokenRow
  BY RowType DEF IInv
<1>2. ASSUME NEW r \in Requests, LinkStep(r) PROVE LinksInv'
  <2>1. \A s \in Requests : flow'[s].pc = "idle" => flow'[s].res = "none"
    BY <1>2 DEF LinkStep, LinksInv
  <2>2. \A tok \in DOMAIN tokens' :
           tokens'[tok].expires = tokens'[tok].issued + AppAhead + TTL(tokens'[tok].purpose)
    <3>1. CASE UNCHANGED tokens
      BY <3>1 DEF LinksInv
    <3>2. ASSUME NEW row \in TokenRow, tokens' = Append(tokens, row),
                 row.expires = row.issued + AppAhead + TTL(row.purpose)
          PROVE  \A tok \in DOMAIN tokens' :
                    tokens'[tok].expires = tokens'[tok].issued + AppAhead + TTL(tokens'[tok].purpose)
      BY <1>1, <3>2, AppendRow DEF LinksInv
    <3>3. ASSUME NEW t \in DOMAIN tokens, Consume(t)
          PROVE  \A tok \in DOMAIN tokens' :
                    tokens'[tok].expires = tokens'[tok].issued + AppAhead + TTL(tokens'[tok].purpose)
      <4> SUFFICES ASSUME NEW tok \in DOMAIN tokens'
                   PROVE  tokens'[tok].expires = tokens'[tok].issued + AppAhead + TTL(tokens'[tok].purpose)
        OBVIOUS
      <4>1. /\ tok \in DOMAIN tokens /\ tokens'[tok].expires = tokens[tok].expires
            /\ tokens'[tok].issued = tokens[tok].issued /\ tokens'[tok].purpose = tokens[tok].purpose
        BY <1>1, <3>3, ConsumeRows DEF TokenRow
      <4> QED BY <4>1 DEF LinksInv
    <3> QED BY <1>2, <3>1, <3>2, <3>3 DEF LinkStep
  <2> QED BY <2>1, <2>2 DEF LinksInv
<1>3. CASE Tick \/ UNCHANGED vars
  BY <1>3 DEF Tick, vars, LinksInv
<1> QED BY <1>2, <1>3, StepLinks DEF Next

LEMMA LinksInvariance == Spec => []LinksInv
<1>1. Init => LinksInv
  BY DEF Init, LinksInv, Idle
<1> QED BY <1>1, LinksNext, Invariance, PTL DEF Spec

\* A link is honoured only within its lifetime, give or take the difference of the clocks
\* (authtoken.go:65, pgstore.go:48).
THEOREM LateLinksAreDead == Spec => NoLateRedemption
<1>1. ASSUME IInv, LinksInv, NEW r \in Requests, Step(r), NEW tok \in DOMAIN tokens,
             tokens'[tok].used # tokens[tok].used
      PROVE  now < tokens[tok].issued + TTL(tokens[tok].purpose) + AppAhead
  <2>1. LinkStep(r) /\ TypeOK
    BY <1>1, StepLinks DEF IInv
  <2>2. ASSUME NEW row \in TokenRow, tokens' = Append(tokens, row) PROVE FALSE
    BY <1>1, <2>1, <2>2, AppendRow
  <2>3. PICK t \in DOMAIN tokens : Redeemable(t, tokens[t].purpose) /\ Consume(t)
    BY <1>1, <2>1, <2>2 DEF LinkStep
  <2>4. tok = t
    BY <1>1, <2>1, <2>3, ConsumeRows
  <2>5. tokens[tok] \in TokenRow /\ now \in Nat
    BY <2>1, RowType DEF TypeOK
  <2>6. now < tokens[tok].expires
    BY <2>3, <2>4, <2>5 DEF Redeemable, TokenRow
  <2>7. tokens[tok].expires = tokens[tok].issued + AppAhead + TTL(tokens[tok].purpose)
    BY <1>1 DEF LinksInv
  <2> QED BY <2>5, <2>6, <2>7 DEF TokenRow, TTL, resetTTL, verifyTTL, Hour
<1>2. IInv /\ LinksInv /\ [Next]_vars =>
        [\A tok \in DOMAIN tokens :
           tokens'[tok].used # tokens[tok].used
           => now < tokens[tok].issued + TTL(tokens[tok].purpose) + AppAhead]_vars
  BY <1>1 DEF Next, Tick
<1> QED BY <1>2, Invariance, LinksInvariance, PTL DEF Spec, NoLateRedemption

\* Lifetimes are no shorter than the mails say, on a clock that is not so far behind: so
\* with the defaults and a process clock that is ahead.
LifetimesAsMailed == \A purpose \in Purposes : AppAhead + TTL(purpose) >= MailedValidity(purpose)

\* A link that was never used is good for its purpose as long as its mail says
\* (authtoken.go:131, 163).
THEOREM LinksLiveAsMailed == LifetimesAsMailed /\ Spec => LinkLivesAsMailed
<1> SUFFICES ASSUME LifetimesAsMailed PROVE Spec => LinkLivesAsMailed
  OBVIOUS
<1>1. ASSUME IInv, LinksInv, Next, NEW r \in Requests, NEW tok, tok = flow'[r].tok,
             flow[r].pc = "idle", flow'[r].res = "invalidToken",
             tok \in DOMAIN tokens, ~ tokens[tok].used, tokens[tok].purpose = flow'[r].purpose
      PROVE  now >= tokens[tok].issued + MailedValidity(tokens[tok].purpose)
  <2>1. flow[r].res = "none"
    BY <1>1 DEF LinksInv
  <2>2. flow'[r] # flow[r]
    BY <1>1, <2>1
  <2>3. LinkStep(r)
    BY <1>1, <2>2, StepLinks DEF Next, Tick, LinkStep
  <2>4. ~ Redeemable(tok, tokens[tok].purpose)
    BY <1>1, <2>3 DEF LinkStep
  <2>5. tokens[tok] \in TokenRow /\ now \in Nat
    BY <1>1, RowType DEF IInv, TypeOK
  <2>6. now >= tokens[tok].expires
    BY <1>1, <2>4, <2>5 DEF Redeemable, TokenRow
  <2>7. tokens[tok].expires = tokens[tok].issued + AppAhead + TTL(tokens[tok].purpose)
    BY <1>1 DEF LinksInv
  <2>8. AppAhead + TTL(tokens[tok].purpose) >= MailedValidity(tokens[tok].purpose)
    BY <2>5 DEF LifetimesAsMailed, TokenRow
  <2>9. TTL(tokens[tok].purpose) \in Int /\ MailedValidity(tokens[tok].purpose) \in Int
    BY DEF TTL, resetTTL, verifyTTL, Hour, MailedValidity
  <2> QED BY <2>5, <2>6, <2>7, <2>8, <2>9 DEF TokenRow
<1>2. IInv /\ LinksInv /\ [Next]_vars =>
        [\A r \in Requests :
           LET tok == flow'[r].tok IN
           /\ flow[r].pc = "idle" /\ flow'[r].res = "invalidToken"
           /\ tok \in DOMAIN tokens /\ ~ tokens[tok].used
           /\ tokens[tok].purpose = flow'[r].purpose
           => now >= tokens[tok].issued + MailedValidity(tokens[tok].purpose)]_vars
  BY <1>1
<1> QED BY <1>2, Invariance, LinksInvariance, PTL DEF Spec, LinkLivesAsMailed

\* bcrypt takes every password: with a pepper it does (password.go:36-52).
EveryPasswordHashes == \A pw \in Passwords : CanHash(FlowHasher, pw)

\* A new password that is refused leaves every link as it was (authtoken_test.go:127); where
\* bcrypt may refuse one after the length was found good, it does not.
THEOREM RefusalsKeepLinks == EveryPasswordHashes /\ Spec => RefusalKeepsLink
<1> SUFFICES ASSUME EveryPasswordHashes PROVE Spec => RefusalKeepsLink
  OBVIOUS
<1>1. ASSUME IInv, LinksInv, Next, NEW r \in Requests, flow[r].pc = "idle",
             flow'[r].res \in {"weakPassword", "hashError"}
      PROVE  tokens' = tokens
  <2>1. flow[r].res = "none"
    BY <1>1 DEF LinksInv
  <2>2. flow'[r] # flow[r]
    BY <1>1, <2>1
  <2>3. LinkStep(r)
    BY <1>1, <2>2, StepLinks DEF Next, Tick, LinkStep
  <2> QED BY <1>1, <2>3 DEF LinkStep, EveryPasswordHashes
<1>2. IInv /\ LinksInv /\ [Next]_vars =>
        [\A r \in Requests :
           flow[r].pc = "idle" /\ flow'[r].res \in {"weakPassword", "hashError"}
           => tokens' = tokens]_vars
  BY <1>1
<1> QED BY <1>2, Invariance, LinksInvariance, PTL DEF Spec, RefusalKeepsLink
=============================================================================
