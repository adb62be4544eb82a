-------------------------------- MODULE Users --------------------------------
(***************************************************************************)
(* users/: the users table behind users.Store (the Postgres reference      *)
(* store).  Rows are a sequence: the position is the BIGSERIAL id, and     *)
(* nothing in the Store interface deletes a row.                           *)
(*                                                                         *)
(* history is no part of the program: for each row, the passwords that     *)
(* were deliberately chosen for it (at registration, by a change, by a     *)
(* reset, by an admin) and the last of them.                               *)
(***************************************************************************)
EXTENDS Password, Sequences, FiniteSets

CONSTANTS
    Texts,       \* usernames, emails and login identifiers, trimmed
    NoText,      \* the empty string
    Lower,       \* SQL lower()
    Roles        \* core.Role values

ASSUME UsersAssumption ==
    /\ NoText \in Texts
    /\ Lower \in [Texts -> Texts]
    /\ Lower[NoText] = NoText

VARIABLES users, history

tableVars == <<users, history>>

UserRow == [username : Texts, email : Texts, hash : HashValue,
            role : Roles, email_verified : BOOLEAN]

Chosen == [last : Passwords, ever : SUBSET Passwords]

UsersTypeOK ==
    /\ users \in Seq(UserRow)
    /\ history \in Seq(Chosen)
    /\ Len(history) = Len(users)

Ids == DOMAIN users

(***************************************************************************)
(* Lookups: the ids of the rows a query can return.  QueryRow takes one of *)
(* them, and the SELECTs have no ORDER BY.                                 *)
(***************************************************************************)
\* (A fault: the names are compared as they are spelled.)
ByExactUsername(name) == {id \in Ids : users[id].username = name}

ByUsername(name) == {id \in Ids : Lower[users[id].username] = Lower[name]}

ByEmail(email) == {id \in Ids : /\ users[id].email # NoText
                                /\ Lower[users[id].email] = Lower[email]}

\* UNIQUE(username) compares the text as it is, not its lower().
UsernameFree(name) == \A id \in Ids : users[id].username # name

\* INSERT of a row for a freshly chosen password.
Create(name, email, hash, role) ==
    /\ users' = Append(users, [username |-> name, email |-> email, hash |-> hash,
                               role |-> role, email_verified |-> FALSE])
    /\ history' = Append(history, [last |-> hash.pw, ever |-> {hash.pw}])

\* Faults: an upsert in place of the UPDATE, and an UPDATE without its WHERE.
UpsertPasswordHash(id, hash) ==
    users' = [i \in Ids \cup {id} |->
                IF i \in Ids THEN [users[i] EXCEPT !.hash = IF i = id THEN hash ELSE @]
                ELSE [username |-> NoText, email |-> NoText, hash |-> hash,
                      role |-> CHOOSE role \in Roles : TRUE, email_verified |-> FALSE]]
UpdateEveryHash(id, hash) == users' = [i \in Ids |-> [users[i] EXCEPT !.hash = hash]]

\* UPDATEs by id: an id without a row updates nothing and is no error.
UpdatePasswordHash(id, hash) ==
    users' = [i \in Ids |-> IF i = id THEN [users[i] EXCEPT !.hash = hash] ELSE users[i]]

SetRole(id, role) ==
    users' = [i \in Ids |-> IF i = id THEN [users[i] EXCEPT !.role = role] ELSE users[i]]

SetEmailVerified(id, verified) ==
    users' = [i \in Ids |-> IF i = id THEN [users[i] EXCEPT !.email_verified = verified]
                                      ELSE users[i]]

\* The bookkeeping of a deliberate choice of password.
Choose(id, pw) ==
    history' = [i \in DOMAIN history |->
                  IF i = id THEN [last |-> pw, ever |-> history[i].ever \cup {pw}]
                            ELSE history[i]]

ChoosePassword(id, hash) == UpdatePasswordHash(id, hash) /\ Choose(id, hash.pw)

NoUsers == users = <<>> /\ history = <<>>
=============================================================================
