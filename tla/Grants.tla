------------------------------- MODULE Grants -------------------------------
(***************************************************************************)
(* What authtoken/ promises, without a store, requests or clocks: a grant  *)
(* is made for one account and one purpose.  It is spent at most once, and *)
(* then it either takes effect, on that account and in what its purpose    *)
(* names, or comes to nothing.                                             *)
(***************************************************************************)
EXTENDS Sequences

CONSTANTS
    Hashes,            \* what an account's password hash can be
    Owners,            \* the accounts grants are made for
    InitialAccounts    \* the accounts as they are before any grant

VARIABLES grants, accounts

grantVars == <<grants, accounts>>

Purpose == {"password_reset", "email_verify"}

Init == grants = <<>> /\ accounts = InitialAccounts

Grant ==
    /\ \E user \in Owners, purpose \in Purpose :
         grants' = Append(grants, [user |-> user, purpose |-> purpose, state |-> "live"])
    /\ UNCHANGED accounts

Move(g, from, to) ==
    /\ grants[g].state = from
    /\ grants' = [grants EXCEPT ![g].state = to]

Spend(g) == Move(g, "live", "spent") /\ UNCHANGED accounts

\* A grant that cannot be put to use is gone too.
Abandon(g) == (Move(g, "live", "closed") \/ Move(g, "spent", "closed")) /\ UNCHANGED accounts

SetHash(id) ==
    \E h \in Hashes : accounts' = [i \in DOMAIN accounts |->
        IF i = id THEN [accounts[i] EXCEPT !.hash = h] ELSE accounts[i]]

SetVerified(id) ==
    accounts' = [i \in DOMAIN accounts |->
        IF i = id THEN [accounts[i] EXCEPT !.verified = TRUE] ELSE accounts[i]]

TakeEffect(g) ==
    /\ Move(g, "spent", "closed")
    /\ IF grants[g].purpose = "password_reset" THEN SetHash(grants[g].user)
                                               ELSE SetVerified(grants[g].user)

Next ==
    \/ Grant
    \/ \E g \in DOMAIN grants : Spend(g) \/ Abandon(g) \/ TakeEffect(g)

Spec == Init /\ [][Next]_grantVars
=============================================================================
