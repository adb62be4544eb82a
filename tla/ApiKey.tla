-------------------------------- MODULE ApiKey --------------------------------
(***************************************************************************)
(* apikey/: one key per user, made on the first visit of the key page and  *)
(* replaced by "regenerate".  Ensure is two statements.  The read tier     *)
(* resolves keys on the primary or on a replica that lags behind.          *)
(*                                                                         *)
(* A key is the number of its generation: 256 random bits do not repeat.   *)
(***************************************************************************)
EXTENDS Naturals

CONSTANTS
    KeyUsers, KeyRequests,
    MaxKeys         \* bounds the keys generated

ASSUME KeyAssumption == KeyUsers # {} /\ MaxKeys \in Nat

VARIABLES
    rows,       \* api_keys: user -> [key, rotated]
    replica,    \* rows as the read replica has them
    nextKey,    \* the next key Generate returns
    page,       \* the progress of each request to the page
    retired     \* bookkeeping: keys that were replaced

keyVars == <<rows, replica, nextKey, page, retired>>

KeyRow == [key : Nat, rotated : BOOLEAN]
NoPage == [pc |-> "idle", user |-> CHOOSE u \in KeyUsers : TRUE, key |-> 0, old |-> {}]

IsTable(t) == DOMAIN t \subseteq KeyUsers /\ \A u \in DOMAIN t : t[u] \in KeyRow

KeyTypeOK ==
    /\ IsTable(rows) /\ IsTable(replica)
    /\ nextKey \in Nat
    /\ retired \in SUBSET Nat
    /\ page \in [KeyRequests -> [pc : {"idle", "read", "shown", "rotated"}, user : KeyUsers,
                                 key : Nat, old : SUBSET Nat]]

KeyInit ==
    /\ rows = [u \in {} |-> 0] /\ replica = rows
    /\ nextKey = 1
    /\ page = [q \in KeyRequests |-> NoPage]
    /\ retired = {}

Generate ==
    /\ nextKey <= MaxKeys
    /\ nextKey' = nextKey + 1

\* The users a key resolves to: SELECT user_id ... WHERE api_key = $1.
Resolve(t, key) == {u \in DOMAIN t : t[u].key = key}

\* ON CONFLICT (user_id) DO UPDATE.
Upsert(u) ==
    /\ rows' = [v \in DOMAIN rows \cup {u} |->
                   IF v = u THEN [key |-> nextKey, rotated |-> u \in DOMAIN rows] ELSE rows[v]]
    /\ retired' = retired \cup (IF u \in DOMAIN rows THEN {rows[u].key} ELSE {})

\* ON CONFLICT (user_id) DO NOTHING.
InsertIfNone(u) ==
    /\ rows' = [v \in DOMAIN rows \cup {u} |->
                   IF v \in DOMAIN rows THEN rows[v] ELSE [key |-> nextKey, rotated |-> FALSE]]
    /\ UNCHANGED retired

\* render: Ensure generates a key and inserts it if the user has none.
EnsureInsert(q, u) ==
    /\ page[q].pc = "idle"
    /\ Generate
    /\ InsertIfNone(u)
    /\ page' = [page EXCEPT ![q] = [pc |-> "read", user |-> u, key |-> nextKey, old |-> retired]]
    /\ UNCHANGED replica

\* (A fault: the key that was generated is taken for the key that is stored.)
OwnKey(q) == page[q].key

\* get: the row that ended up there.
StoredKey(q) == rows[page[q].user].key

EnsureRead(q) ==
    /\ page[q].pc = "read"
    /\ page' = [page EXCEPT ![q] = [@ EXCEPT !.pc = "shown", !.key = StoredKey(q)]]
    /\ UNCHANGED <<rows, replica, nextKey, retired>>

\* regenerate: Rotate; the redirect asks for the page again.
Rotate(q, u) ==
    /\ page[q].pc = "idle"
    /\ Generate
    /\ Upsert(u)
    /\ page' = [page EXCEPT ![q] = [NoPage EXCEPT !.pc = "rotated", !.user = u]]
    /\ UNCHANGED replica

\* The request ends, answered or with the error of its next statement.
ClosePage(q) ==
    /\ page[q].pc # "idle"
    /\ page' = [page EXCEPT ![q] = NoPage]
    /\ UNCHANGED <<rows, replica, nextKey, retired>>

\* The replica catches up.
Replicate ==
    /\ replica' = rows
    /\ UNCHANGED <<rows, nextKey, page, retired>>

KeyNext ==
    \/ Replicate
    \/ \E q \in KeyRequests :
          \/ \E u \in KeyUsers : EnsureInsert(q, u) \/ Rotate(q, u)
          \/ EnsureRead(q) \/ ClosePage(q)

KeySpec == KeyInit /\ [][KeyNext]_keyVars

(***************************************************************************)
(* Properties.                                                             *)
(***************************************************************************)
\* A page shows a key of its user that works, or one that was replaced after the
\* page was asked for: never one that lost the race of two first visits
\* (pgstore.go:49-51), nor one that was dead when the visit began.
ShownKeyWorks ==
    \A q \in KeyRequests : page[q].pc = "shown" =>
        \/ Resolve(rows, page[q].key) = {page[q].user}
        \/ page[q].key \in retired \ page[q].old

\* A key that resolves, on the primary or on the replica, goes on to until its
\* user rotates it: looking at the page, however often and by whomever, cuts no
\* connected app off.
OnlyRotationRetires ==
    [][/\ \A u \in DOMAIN rows :
             \/ Resolve(rows', rows[u].key) = {u}
             \/ \E q \in KeyRequests :
                   page[q].pc = "idle" /\ page'[q].pc = "rotated" /\ page'[q].user = u
       /\ \A u \in DOMAIN replica :
             Resolve(replica', replica[u].key) = {u} \/ replica[u].key \in retired]_keyVars
=============================================================================
