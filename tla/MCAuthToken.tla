----------------------------- MODULE MCAuthToken -----------------------------
(***************************************************************************)
(* Small instances of AuthToken.                                           *)
(***************************************************************************)
EXTENDS AuthToken, TLC

CONSTANTS r1, r2

\* Two requests in flight; they are interchangeable.
MCRequests == {r1, r2}
MCSymmetry == Permutations(MCRequests)

\* Two accounts, one of them without an email.
MCUser(name, email, pepper) ==
    [username |-> name, email |-> email, hash |-> [pepper |-> pepper, pw |-> "old1", cost |-> 10],
     role |-> 0, email_verified |-> FALSE]
MCPeppered == [Pepper |-> "a", PrevPepper |-> "none", Cost |-> 0]
MCUsers == <<MCUser("ann", "ann@x", "a"), MCUser("bob", "", "a")>>

\* Bare bcrypt.
MCBare == [Pepper |-> "none", PrevPepper |-> "none", Cost |-> 0]
MCBareUsers == <<MCUser("ann", "ann@x", "none")>>

MCLower == [t \in Texts |-> t]

\* "short" is below every minimum, "long" beyond what bcrypt takes.
MCPwLen == [pw \in Passwords |->
              CASE pw = "short" -> 4 [] pw = "long" -> 80 [] OTHER -> 10]
=============================================================================
