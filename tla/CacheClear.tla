------------------------------- MODULE CacheClear -------------------------------
(***************************************************************************)
(* cache/: the coarse invalidation for which DeletePrefix is there.  A     *)
(* worker takes in new data and clears a namespace; meanwhile readers that *)
(* missed fill it from what they read.  In memory the clearing is one      *)
(* step, on Redis it scans and deletes in batches.                         *)
(***************************************************************************)
EXTENDS Cache, FiniteSets

CONSTANTS
    Namespace,      \* keys under the prefix
    OtherKeys,
    Readers,
    BlobTTL,
    BatchSize,      \* 256 in redis.go
    MaxVersion, MaxWrites, CacheHorizon     \* bounds

ASSUME CacheAssumption ==
    /\ Namespace \cap OtherKeys = {}
    /\ BlobTTL \in Nat /\ BatchSize \in Nat \ {0}
    /\ MaxVersion \in Nat /\ MaxWrites \in Nat /\ CacheHorizon \in Nat

VARIABLES
    medium,     \* "memory" or "redis"
    blobs,      \* the cache; a value is [version, seq]
    source,     \* the version of the data behind the cache
    fetch,      \* readers that missed and have read the data
    clear,      \* the DeletePrefix call
    writes      \* bookkeeping: Sets so far

cacheVars == <<clock, medium, blobs, source, fetch, clear, writes>>

BlobKeys == Namespace \cup OtherKeys
NoFetch == [pc |-> "idle"]
NoClear == [pc |-> "idle", version |-> 0, since |-> 0, due |-> {}, seen |-> {}, batch |-> {}]

CacheTypeOK ==
    /\ clock \in Nat /\ source \in Nat /\ writes \in Nat
    /\ medium \in {"memory", "redis"}
    /\ DOMAIN blobs \subseteq BlobKeys
    /\ \A k \in DOMAIN blobs : blobs[k].exp \in Nat /\ blobs[k].val \in [version : Nat, seq : Nat]
    /\ fetch \in [Readers -> {NoFetch} \cup [pc : {"got"}, key : BlobKeys, version : Nat]]
    /\ clear \in [pc : {"idle", "call", "scan", "done"}, version : Nat, since : Nat,
                  due : SUBSET BlobKeys, seen : SUBSET BlobKeys, batch : SUBSET BlobKeys]
    /\ Cardinality(clear.batch) <= BatchSize

CacheInit ==
    /\ clock = 0 /\ source = 1 /\ writes = 0
    /\ medium \in {"memory", "redis"}
    /\ blobs = <<>>
    /\ fetch = [r \in Readers |-> NoFetch]
    /\ clear = NoClear

Without(m, keys) == [k \in DOMAIN m \ keys |-> m[k]]

(***************************************************************************)
(* Readers: Get, on a miss the data, then Set; Delete by whoever knows.    *)
(***************************************************************************)
\* A miss drops an expired entry; the reader goes to the data.
Miss(r, k) ==
    /\ fetch[r] = NoFetch
    /\ ~ Hit(blobs, k)
    /\ blobs' = Without(blobs, {k})
    /\ fetch' = [fetch EXCEPT ![r] = [pc |-> "got", key |-> k, version |-> source]]
    /\ UNCHANGED <<clock, medium, source, clear, writes>>

Refill(r) ==
    /\ fetch[r] # NoFetch
    /\ writes < MaxWrites
    /\ writes' = writes + 1
    /\ blobs' = CacheSet(blobs, fetch[r].key, [version |-> fetch[r].version, seq |-> writes + 1], BlobTTL)
    /\ fetch' = [fetch EXCEPT ![r] = NoFetch]
    /\ UNCHANGED <<clock, medium, source, clear>>

\* The reader gives up, or Set fails.
Drop(r) ==
    /\ fetch[r] # NoFetch
    /\ fetch' = [fetch EXCEPT ![r] = NoFetch]
    /\ UNCHANGED <<clock, medium, blobs, source, clear, writes>>

DeleteKey(k) ==
    /\ k \in DOMAIN blobs
    /\ blobs' = Without(blobs, {k})
    /\ UNCHANGED <<clock, medium, source, fetch, clear, writes>>

(***************************************************************************)
(* DeletePrefix.                                                           *)
(***************************************************************************)
\* (A fault: the pattern is no prefix.)
AnyKey(keys) == keys

\* strings.HasPrefix, and the pattern prefix + "*".
Matching(keys) == keys \cap Namespace

\* The worker has taken in new data and calls DeletePrefix.
Ingest ==
    /\ clear.pc \in {"idle", "done"}
    /\ source < MaxVersion
    /\ source' = source + 1
    /\ clear' = [NoClear EXCEPT !.pc = "call", !.version = source + 1, !.since = writes]
    /\ UNCHANGED <<clock, medium, blobs, fetch, writes>>

ClearInMemory ==
    /\ medium = "memory" /\ clear.pc = "call"
    /\ blobs' = Without(blobs, Matching(DOMAIN blobs))
    /\ clear' = [clear EXCEPT !.pc = "done"]
    /\ UNCHANGED <<clock, medium, source, fetch, writes>>

\* SCAN promises to return what is there from its start to its end.
ScanStart ==
    /\ medium = "redis" /\ clear.pc = "call"
    /\ clear' = [clear EXCEPT !.pc = "scan", !.due = Matching({k \in DOMAIN blobs : Hit(blobs, k)})]
    /\ UNCHANGED <<clock, medium, blobs, source, fetch, writes>>

StillDue == {k \in clear.due \ clear.seen : Hit(blobs, k)}

ScanNext(k) ==
    /\ clear.pc = "scan" /\ Cardinality(clear.batch) < BatchSize
    /\ k \in Matching(DOMAIN blobs) /\ Hit(blobs, k)
    /\ k \notin clear.seen
    /\ clear' = [clear EXCEPT !.seen = @ \cup {k}, !.batch = @ \cup {k}]
    /\ UNCHANGED <<clock, medium, blobs, source, fetch, writes>>

Flushed == Without(blobs, clear.batch)

\* A full batch is deleted,
FlushFull ==
    /\ clear.pc = "scan" /\ Cardinality(clear.batch) = BatchSize
    /\ blobs' = Flushed
    /\ clear' = [clear EXCEPT !.batch = {}, !.due = @ \ clear.batch]
    /\ UNCHANGED <<clock, medium, source, fetch, writes>>

\* (A fault: the last batch is forgotten.)
RestKept == blobs

\* and the rest when the scan is through.
RestFlushed == Flushed

ScanEnd ==
    /\ clear.pc = "scan" /\ Cardinality(clear.batch) < BatchSize
    /\ StillDue = {}
    /\ blobs' = RestFlushed
    /\ clear' = [clear EXCEPT !.pc = "done", !.due = {}, !.seen = {}, !.batch = {}]
    /\ UNCHANGED <<clock, medium, source, fetch, writes>>

\* SCAN or DEL fails: what was deleted stays deleted.
ClearError ==
    /\ medium = "redis" /\ clear.pc \in {"call", "scan"}
    /\ clear' = NoClear
    /\ UNCHANGED <<clock, medium, blobs, source, fetch, writes>>

CacheTick ==
    /\ Advance(CacheHorizon)
    /\ UNCHANGED <<medium, blobs, source, fetch, clear, writes>>

CacheNext ==
    \/ CacheTick
    \/ \E r \in Readers : (\E k \in BlobKeys : Miss(r, k)) \/ Refill(r) \/ Drop(r)
    \/ \E k \in BlobKeys : DeleteKey(k) \/ ScanNext(k)
    \/ Ingest \/ ClearInMemory \/ ScanStart \/ FlushFull \/ ScanEnd \/ ClearError

CacheSpec == CacheInit /\ [][CacheNext]_cacheVars

(***************************************************************************)
(* Properties.                                                             *)
(***************************************************************************)
\* Once DeletePrefix has returned without an error, old data in the namespace can
\* only have been put there since the call by a reader that had read it before:
\* a scan in batches leaves nothing behind that was there all along.
ClearedIsGone ==
    clear.pc = "done" => \A k \in Namespace :
        Hit(blobs, k) /\ blobs[k].val.version < clear.version => blobs[k].val.seq > clear.since

\* What is outside the namespace goes only by its time or its name.
OthersKept ==
    [][\A k \in OtherKeys : Hit(blobs, k) =>
          \/ k \in DOMAIN blobs' /\ blobs'[k].val.seq >= blobs[k].val.seq
          \/ UNCHANGED clear /\ Without(blobs, {k}) = blobs']_cacheVars
=============================================================================
