---------------------------- MODULE Users_Proofs ----------------------------
(***************************************************************************)
(* Lemmas about the operations of the users table: each keeps the table a  *)
(* table and says what becomes of every row.                               *)
(***************************************************************************)
EXTENDS Users, SequenceTheorems, TLAPS

\* Rebuilding a sequence row by row keeps its length.
LEMMA MapRows ==
    ASSUME NEW T, NEW s \in Seq(T), NEW S, NEW f \in [DOMAIN s -> S]
    PROVE  f \in Seq(S) /\ Len(f) = Len(s) /\ DOMAIN f = DOMAIN s
<1>1. DOMAIN s = 1..Len(s) /\ Len(s) \in Nat
  BY LenProperties
<1>2. f \in [1..Len(s) -> S]
  BY <1>1
<1>3. f \in Seq(S)
  BY <1>1, <1>2
<1> QED BY <1>1, <1>2, <1>3

\* UpdatePasswordHash (users/pgstore.go:106).
LEMMA UpdateHashRows ==
    ASSUME UsersTypeOK, NEW id, NEW h \in HashValue, UpdatePasswordHash(id, h)
    PROVE  /\ users' \in Seq(UserRow) /\ Len(users') = Len(users) /\ Ids' = Ids
           /\ \A i \in Ids : users'[i] = IF i = id THEN [users[i] EXCEPT !.hash = h]
                                                   ELSE users[i]
<1>1. users' = [i \in Ids |-> IF i = id THEN [users[i] EXCEPT !.hash = h] ELSE users[i]]
  BY DEF UpdatePasswordHash
<1>2. \A i \in Ids : users[i] \in UserRow
  BY DEF UsersTypeOK, Ids
<1>3. \A i \in Ids : [users[i] EXCEPT !.hash = h] \in UserRow
  BY <1>2 DEF UserRow
<1>4. users' \in [Ids -> UserRow]
  BY <1>1, <1>2, <1>3
<1>5. users' \in Seq(UserRow) /\ Len(users') = Len(users) /\ Ids' = Ids
  BY <1>4, MapRows DEF UsersTypeOK, Ids
<1> QED BY <1>1, <1>5

\* UpdatePasswordHash of a deliberately chosen password.
LEMMA ChoosePasswordRows ==
    ASSUME UsersTypeOK, NEW id, NEW h \in HashValue, ChoosePassword(id, h)
    PROVE  /\ UsersTypeOK' /\ Ids' = Ids
           /\ \A i \in Ids : users'[i] = IF i = id THEN [users[i] EXCEPT !.hash = h]
                                                   ELSE users[i]
           /\ \A i \in Ids : history'[i] =
                 IF i = id THEN [last |-> h.pw, ever |-> history[i].ever \cup {h.pw}]
                           ELSE history[i]
<1>1. /\ users' \in Seq(UserRow) /\ Len(users') = Len(users) /\ Ids' = Ids
      /\ \A i \in Ids : users'[i] = IF i = id THEN [users[i] EXCEPT !.hash = h] ELSE users[i]
  BY UpdateHashRows DEF ChoosePassword
<1>2. h.pw \in Passwords
  BY DEF HashValue
<1>3. DOMAIN history = Ids
  BY LenProperties DEF UsersTypeOK, Ids
<1>4. \A i \in DOMAIN history : history[i] \in Chosen
  BY DEF UsersTypeOK
<1>5. \A i \in DOMAIN history :
         [last |-> h.pw, ever |-> history[i].ever \cup {h.pw}] \in Chosen
  BY <1>2, <1>4 DEF Chosen
<1>6. history' \in [DOMAIN history -> Chosen]
  BY <1>4, <1>5 DEF ChoosePassword, Choose
<1>7. history' \in Seq(Chosen) /\ Len(history') = Len(history)
  BY <1>6, MapRows DEF UsersTypeOK
<1> QED BY <1>1, <1>3, <1>7 DEF UsersTypeOK, ChoosePassword, Choose

\* Create (users/pgstore.go:77): one row more, with the password as its first choice.
LEMMA CreateRows ==
    ASSUME UsersTypeOK, NEW name \in Texts, NEW email \in Texts, NEW h \in HashValue,
           NEW role \in Roles, Create(name, email, h, role)
    PROVE  LET id == Len(users) + 1 IN
           /\ UsersTypeOK' /\ Ids' = Ids \cup {id} /\ id \notin Ids /\ id \in Nat
           /\ Len(users') = id
           /\ users'[id] = [username |-> name, email |-> email, hash |-> h, role |-> role,
                            email_verified |-> FALSE]
           /\ history'[id] = [last |-> h.pw, ever |-> {h.pw}]
           /\ \A i \in Ids : users'[i] = users[i] /\ history'[i] = history[i]
<1> DEFINE row == [username |-> name, email |-> email, hash |-> h, role |-> role,
                   email_verified |-> FALSE]
           choice == [last |-> h.pw, ever |-> {h.pw}]
<1>1. users' = Append(users, row) /\ history' = Append(history, choice)
  BY DEF Create
<1>2. row \in UserRow /\ choice \in Chosen
  BY DEF UserRow, Chosen, HashValue
<1>3. DOMAIN users = 1..Len(users) /\ DOMAIN history = 1..Len(users) /\ Len(users) \in Nat
  BY LenProperties DEF UsersTypeOK
<1> HIDE DEF row, choice
<1>4. /\ users' \in Seq(UserRow) /\ Len(users') = Len(users) + 1
      /\ users'[Len(users) + 1] = row /\ \A i \in 1..Len(users) : users'[i] = users[i]
  BY <1>1, <1>2, AppendProperties DEF UsersTypeOK
<1>5. /\ history' \in Seq(Chosen) /\ Len(history') = Len(users) + 1
      /\ history'[Len(users) + 1] = choice /\ \A i \in 1..Len(users) : history'[i] = history[i]
  BY <1>1, <1>2, AppendProperties DEF UsersTypeOK
<1>6. UsersTypeOK' /\ Ids' = 1..(Len(users) + 1) /\ Ids = 1..Len(users)
  BY <1>3, <1>4, <1>5, LenProperties DEF UsersTypeOK, Ids
<1> QED BY <1>3, <1>4, <1>5, <1>6 DEF row, choice

\* SetRole (users/pgstore.go:111).
LEMMA SetRoleRows ==
    ASSUME UsersTypeOK, NEW id, NEW role \in Roles, SetRole(id, role), UNCHANGED history
    PROVE  /\ UsersTypeOK' /\ Ids' = Ids
           /\ \A i \in Ids : users'[i] = IF i = id THEN [users[i] EXCEPT !.role = role]
                                                   ELSE users[i]
<1>1. users' = [i \in Ids |-> IF i = id THEN [users[i] EXCEPT !.role = role] ELSE users[i]]
  BY DEF SetRole
<1>2. \A i \in Ids : users[i] \in UserRow
  BY DEF UsersTypeOK, Ids
<1>3. \A i \in Ids : [users[i] EXCEPT !.role = role] \in UserRow
  BY <1>2 DEF UserRow
<1>4. users' \in [Ids -> UserRow]
  BY <1>1, <1>2, <1>3
<1>5. users' \in Seq(UserRow) /\ Len(users') = Len(users) /\ Ids' = Ids
  BY <1>4, MapRows DEF UsersTypeOK, Ids
<1> QED BY <1>1, <1>5 DEF UsersTypeOK

\* SetEmailVerified (users/pgstore.go:116).
LEMMA SetEmailVerifiedRows ==
    ASSUME UsersTypeOK, NEW id, NEW b \in BOOLEAN, SetEmailVerified(id, b),
           UNCHANGED history
    PROVE  /\ UsersTypeOK' /\ Ids' = Ids
           /\ \A i \in Ids : users'[i] = IF i = id THEN [users[i] EXCEPT !.email_verified = b]
                                                   ELSE users[i]
<1>1. users' = [i \in Ids |-> IF i = id THEN [users[i] EXCEPT !.email_verified = b]
                                        ELSE users[i]]
  BY DEF SetEmailVerified
<1>2. \A i \in Ids : users[i] \in UserRow
  BY DEF UsersTypeOK, Ids
<1>3. \A i \in Ids : [users[i] EXCEPT !.email_verified = b] \in UserRow
  BY <1>2 DEF UserRow
<1>4. users' \in [Ids -> UserRow]
  BY <1>1, <1>2, <1>3
<1>5. users' \in Seq(UserRow) /\ Len(users') = Len(users) /\ Ids' = Ids
  BY <1>4, MapRows DEF UsersTypeOK, Ids
<1> QED BY <1>1, <1>5 DEF UsersTypeOK
=============================================================================
