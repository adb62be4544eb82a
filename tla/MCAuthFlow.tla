------------------------------ MODULE MCAuthFlow ------------------------------
(***************************************************************************)
(* Small instances of AuthFlow.                                            *)
(***************************************************************************)
EXTENDS AuthFlow, TLC

CONSTANTS r1, r2

\* Two requests in flight; they are interchangeable.
MCRequests == {r1, r2}
MCSymmetry == Permutations(MCRequests)

\* "Bob" and "bob" are the same name to lower().
MCLower == [t \in Texts |-> IF t = "Bob" THEN "bob" ELSE t]

\* "short" is below every minimum, "long" beyond what bcrypt takes.
MCPwLen == [pw \in Passwords |->
              CASE pw = "short" -> 4 [] pw = "long" -> 80 [] OTHER -> 10]

\* One deployment with bare bcrypt; a rotation from pepper a to pepper b; a
\* raise of the cost.
MCHasher(pepper, prev, cst) == [Pepper |-> pepper, PrevPepper |-> prev, Cost |-> cst]
MCBare == <<MCHasher("none", "none", 0)>>
MCRotation == <<MCHasher("a", "none", 0), MCHasher("b", "a", 0)>>
MCRaise == <<MCHasher("a", "none", 0), MCHasher("a", "none", 12)>>
=============================================================================
