------------------------------ MODULE Password ------------------------------
(***************************************************************************)
(* password/password.go: bcrypt over an optional HMAC pepper.              *)
(*                                                                         *)
(* A hash is modelled by the pepper it was made under, the plaintext and   *)
(* the bcrypt cost; the first two decide whether a plaintext matches it.   *)
(* An empty pepper is NoPepper (bare bcrypt); bcrypt refuses to hash more  *)
(* than 72 bytes, and the base64 of an HMAC is shorter, so only bare       *)
(* bcrypt can fail on a long plaintext.                                    *)
(***************************************************************************)
EXTENDS Naturals

CONSTANTS
    Passwords,   \* the plaintexts that occur
    PwLen,       \* PwLen[pw]: length of a plaintext in bytes
    Peppers,     \* the pepper values, NoPepper included
    NoPepper,    \* the empty pepper
    Costs        \* the bcrypt costs hosts use

DefaultCost == 10

ASSUME PasswordAssumption ==
    /\ PwLen \in [Passwords -> Nat]
    /\ NoPepper \in Peppers
    /\ Costs \subseteq Nat /\ DefaultCost \in Costs

BcryptMax == 72

Hasher == [Pepper : Peppers, PrevPepper : Peppers, Cost : Costs \cup {0}]

\* A Cost of 0 is unset.
cost(h) == IF h.Cost = 0 THEN DefaultCost ELSE h.Cost

HashValue == [pepper : Peppers, pw : Passwords, cost : Costs]

\* The hash was made of this plaintext under this pepper.
Matches(hash, pw, pepper) == hash.pepper = pepper /\ hash.pw = pw

\* Faults: bcrypt that truncates silently; the plaintext's own length counting
\* under a pepper as well.
CanHashAnything(h, pw) == TRUE
CanHashRaw(h, pw) == PwLen[pw] <= BcryptMax

\* bcrypt.GenerateFromPassword returns an error on more than 72 bytes.
CanHash(h, pw) == h.Pepper # NoPepper \/ PwLen[pw] <= BcryptMax

Hash(h, pw) == [pepper |-> h.Pepper, pw |-> pw, cost |-> cost(h)]

Check(h, hash, pw) == Matches(hash, pw, h.Pepper)

\* Faults: the fallback is forgotten; or taken without comparing; or every
\* login rewrites the hash.
NeverRehash(h, hash, pw) == FALSE
RehashUnchecked(h, hash, pw) == ~ Check(h, hash, pw) /\ h.PrevPepper # NoPepper
RehashEveryTime(h, hash, pw) == \E pepper \in {h.Pepper, h.PrevPepper} : Matches(hash, pw, pepper)

\* Verify matched under the previous pepper only: rewrite the hash.
NeedsRehash(h, hash, pw) ==
    /\ ~ Check(h, hash, pw)
    /\ h.PrevPepper # NoPepper
    /\ Matches(hash, pw, h.PrevPepper)

Verify(h, hash, pw) == Check(h, hash, pw) \/ NeedsRehash(h, hash, pw)
=============================================================================
