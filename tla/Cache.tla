--------------------------------- MODULE Cache ---------------------------------
(***************************************************************************)
(* cache/: Get and Set of the in-memory and of the Redis cache.  A cache   *)
(* is a function from the keys it holds to [val, exp]; exp = 0 stands for  *)
(* an entry without expiry.                                                *)
(***************************************************************************)
EXTENDS Clock

CacheSet(m, key, val, ttl) ==
    [k \in DOMAIN m \cup {key} |->
        IF k = key THEN [val |-> val, exp |-> IF ttl > 0 THEN clock + ttl ELSE 0] ELSE m[k]]

\* Get finds the entry: it is gone when the clock is after its expiry.
Hit(m, key) == key \in DOMAIN m /\ (m[key].exp = 0 \/ clock <= m[key].exp)
=============================================================================
