---------------------------- MODULE Services_Proofs ----------------------------
(***************************************************************************)
(* The small services, for any requests, callers, rules, processes, keys,  *)
(* users, declarations and bounds: rate limits, heartbeats, the inbox, the *)
(* sign-in behind its gate, API keys and the SQL linter; the sitemap and   *)
(* the clearing of a cache are in Cache_Proofs.                            *)
(***************************************************************************)
EXTENDS MCServices, Cache_Proofs, SequenceTheorems, FiniteSetTheorems,
        WellFoundedInduction, TLAPS

(***************************************************************************)
(* RateLimit: what an entry says of the requests behind it.                *)
(***************************************************************************)
Lag == IF backend = "memory" THEN MaxLag ELSE 0

\* Passes p with an entry of n in the window up to exp: the last n at most are in the window,
\* the last l as well; what was let through before came before the window was
\* opened, and what was let through in windows before that is a window old.
EntryFits(p, n, exp, w, l, t, lag) ==
    \A i \in DOMAIN p :
        /\ i <= Len(p) - n \/ i <= Len(p) - l => p[i] + w <= exp + lag
        /\ i <= Len(p) - n - l \/ i <= Len(p) - 2 * l => p[i] + w < t + lag

\* Passes p without an entry: the last l at most are less than a window old.
NoEntryFits(p, w, l, t, lag) ==
    \A i \in DOMAIN p : i <= Len(p) - l => p[i] + w < t + lag

BurstFits(p, w, l, lag) ==
    \A i, j \in DOMAIN p : j = i + 2 * l => p[j] + lag > p[i] + w

PassesFit(b) ==
    LET p == passes[b]
        w == Window[b[2]]
        l == AllowedBy(b)
    IN  /\ p # <<>> => l >= 1
        /\ \A i \in DOMAIN p : p[i] <= clock
        /\ b \in DOMAIN counters => EntryFits(p, counters[b].n, counters[b].exp, w, l, clock, Lag)
        /\ b \notin DOMAIN counters => NoEntryFits(p, w, l, clock, Lag)
        /\ BurstFits(p, w, l, Lag)

\* The last n hits h are in the window up to exp.
HitsFit(h, n, exp, w) ==
    n <= Len(h) /\ \A i \in DOMAIN h : i > Len(h) - n => h[i] + w >= exp

RateInv ==
    /\ RateTypeOK
    /\ \A q \in RateRequests : call[q] # NoCall /\ call[q].pc = "lock" =>
          backend = "memory" /\ call[q].stamp <= clock /\ clock <= call[q].stamp + MaxLag
    /\ \A b \in DOMAIN counters :
          /\ HitsFit(hits[b], counters[b].n, counters[b].exp, Window[b[2]])
          /\ counters[b].exp <= clock + Window[b[2]]
    /\ \A b \in Buckets : PassesFit(b)

\* A rule's window is not empty, and its limit is a number.
LEMMA BucketTypes ==
    ASSUME NEW b \in Buckets
    PROVE  Window[b[2]] \in Nat \ {0} /\ AllowedBy(b) \in Nat
BY RateAssumption DEF Buckets, AllowedBy

\* The longest wait for the lock is a number.
LEMMA LagType == Lag \in Nat
BY RateAssumption DEF Lag

(***************************************************************************)
(* Facts about one bucket.                                                 *)
(***************************************************************************)
\* What an entry says stays true as time passes.
LEMMA TimeFits ==
    ASSUME NEW p \in Seq(Nat), NEW n \in Nat, NEW exp \in Nat, NEW w \in Nat, NEW l \in Nat,
           NEW t \in Nat, NEW u \in Nat, t <= u, NEW lag \in Nat
    PROVE  /\ EntryFits(p, n, exp, w, l, t, lag) => EntryFits(p, n, exp, w, l, u, lag)
           /\ NoEntryFits(p, w, l, t, lag) => NoEntryFits(p, w, l, u, lag)
BY ElementOfSeq, LenProperties DEF EntryFits, NoEntryFits

\* An entry that has expired may as well be gone.
LEMMA ExpiredFits ==
    ASSUME NEW p \in Seq(Nat), NEW n \in Nat, NEW exp \in Nat, NEW w \in Nat, NEW l \in Nat,
           NEW t \in Nat, NEW lag \in Nat,
           exp < t, EntryFits(p, n, exp, w, l, t, lag)
    PROVE  NoEntryFits(p, w, l, t, lag)
BY ElementOfSeq, LenProperties DEF EntryFits, NoEntryFits

\* A request is counted in the open window and not let through.
LEMMA CountedFits ==
    ASSUME NEW p \in Seq(Nat), NEW n \in Nat, NEW exp \in Nat, NEW w \in Nat, NEW l \in Nat,
           NEW t \in Nat, NEW lag \in Nat, EntryFits(p, n, exp, w, l, t, lag)
    PROVE  EntryFits(p, n + 1, exp, w, l, t, lag)
BY ElementOfSeq, LenProperties DEF EntryFits

\* It opens a window, at its time s, and is not let through.
LEMMA OpenedFits ==
    ASSUME NEW p \in Seq(Nat), NEW s \in Nat, NEW w \in Nat, NEW l \in Nat,
           NEW t \in Nat, NEW lag \in Nat, NoEntryFits(p, w, l, t, lag),
           \A i \in DOMAIN p : p[i] <= t, t <= s + lag, p # <<>> => l >= 1
    PROVE  EntryFits(p, 1, s + w, w, l, t, lag)
<1>1. Len(p) \in Nat /\ DOMAIN p = 1..Len(p) /\ \A i \in DOMAIN p : p[i] \in Nat
  BY ElementOfSeq, LenProperties
<1> SUFFICES ASSUME NEW i \in DOMAIN p
             PROVE  /\ p[i] + w <= s + w + lag
                    /\ i <= Len(p) - 1 - l \/ i <= Len(p) - 2 * l => p[i] + w < t + lag
  BY DEF EntryFits
<1>2. l >= 1
  BY <1>1
<1> QED BY <1>1, <1>2 DEF NoEntryFits

\* One more pass.
LEMMA AppendedPass ==
    ASSUME NEW p \in Seq(Nat), NEW t \in Nat
    PROVE  /\ Append(p, t) \in Seq(Nat) /\ Len(Append(p, t)) = Len(p) + 1 /\ Len(p) \in Nat
           /\ DOMAIN p = 1..Len(p) /\ DOMAIN Append(p, t) = 1..(Len(p) + 1)
           /\ Append(p, t) # <<>> /\ Append(p, t)[Len(p) + 1] = t
           /\ \A i \in 1..Len(p) : Append(p, t)[i] = p[i] /\ p[i] \in Nat
<1>1. Append(p, t) \in Seq(Nat) /\ Len(Append(p, t)) = Len(p) + 1 /\ Len(p) \in Nat
  BY AppendProperties, LenProperties
<1>2. DOMAIN p = 1..Len(p) /\ DOMAIN Append(p, t) = 1..(Len(p) + 1)
  BY <1>1, LenProperties
<1> QED BY <1>1, <1>2, AppendProperties, ElementOfSeq

\* A request that is counted in the open window and let through.
LEMMA PassedFits ==
    ASSUME NEW p \in Seq(Nat), NEW n \in Nat, NEW exp \in Nat, NEW w \in Nat, NEW l \in Nat,
           NEW t \in Nat, NEW lag \in Nat,
           EntryFits(p, n, exp, w, l, t, lag), BurstFits(p, w, l, lag), n + 1 <= l
    PROVE  /\ EntryFits(Append(p, t), n + 1, exp, w, l, t, lag)
           /\ BurstFits(Append(p, t), w, l, lag)
<1> DEFINE a == Append(p, t)
           k == Len(p)
<1>1. /\ a \in Seq(Nat) /\ Len(a) = k + 1 /\ k \in Nat /\ DOMAIN p = 1..k /\ DOMAIN a = 1..(k + 1)
      /\ a[k + 1] = t /\ \A i \in 1..k : a[i] = p[i] /\ p[i] \in Nat
  BY AppendedPass
<1> HIDE DEF a, k
<1>2. EntryFits(a, n + 1, exp, w, l, t, lag)
  <2> SUFFICES ASSUME NEW i \in 1..(k + 1)
               PROVE  /\ i <= (k + 1) - (n + 1) \/ i <= (k + 1) - l => a[i] + w <= exp + lag
                      /\ i <= (k + 1) - (n + 1) - l \/ i <= (k + 1) - 2 * l => a[i] + w < t + lag
    BY <1>1 DEF EntryFits
  <2>1. CASE i = k + 1
    BY <1>1, <2>1
  <2>2. CASE i # k + 1
    <3>1. i \in DOMAIN p /\ a[i] = p[i] /\ p[i] \in Nat
      BY <1>1, <2>2
    <3>2. /\ i <= k - n \/ i <= k - l => p[i] + w <= exp + lag
          /\ i <= k - n - l \/ i <= k - 2 * l => p[i] + w < t + lag
      BY <3>1 DEF EntryFits, k
    <3>3. /\ i <= (k + 1) - (n + 1) <=> i <= k - n
          /\ i <= (k + 1) - (n + 1) - l <=> i <= k - n - l
          /\ i <= (k + 1) - l => i <= k - n
          /\ i <= (k + 1) - 2 * l => i <= k - n - l
      BY <1>1
    <3> QED BY <3>1, <3>2, <3>3
  <2> QED BY <2>1, <2>2
<1>3. BurstFits(a, w, l, lag)
  <2> SUFFICES ASSUME NEW i \in 1..(k + 1), NEW j \in 1..(k + 1), j = i + 2 * l
               PROVE  a[j] + lag > a[i] + w
    BY <1>1 DEF BurstFits
  <2>1. CASE j = k + 1
    <3>1. i \in DOMAIN p /\ i <= k - n - l
      BY <1>1, <2>1
    <3>2. p[i] + w < t + lag
      BY <3>1 DEF EntryFits, k
    <3> QED BY <1>1, <2>1, <3>1, <3>2
  <2>2. CASE j # k + 1
    <3>1. i \in DOMAIN p /\ j \in DOMAIN p /\ a[i] = p[i] /\ a[j] = p[j]
      BY <1>1, <2>2
    <3> QED BY <3>1 DEF BurstFits
  <2> QED BY <2>1, <2>2
<1> QED BY <1>2, <1>3 DEF a

\* It opens a window and is let through.
LEMMA FirstPassFits ==
    ASSUME NEW p \in Seq(Nat), NEW s \in Nat, NEW w \in Nat, NEW l \in Nat,
           NEW t \in Nat, NEW lag \in Nat, NoEntryFits(p, w, l, t, lag), BurstFits(p, w, l, lag),
           \A i \in DOMAIN p : p[i] <= t, t <= s + lag, 1 <= l
    PROVE  /\ EntryFits(Append(p, t), 1, s + w, w, l, t, lag)
           /\ BurstFits(Append(p, t), w, l, lag)
<1> DEFINE a == Append(p, t)
           k == Len(p)
<1>1. /\ a \in Seq(Nat) /\ Len(a) = k + 1 /\ k \in Nat /\ DOMAIN p = 1..k /\ DOMAIN a = 1..(k + 1)
      /\ a[k + 1] = t /\ \A i \in 1..k : a[i] = p[i] /\ p[i] \in Nat
  BY AppendedPass
<1> HIDE DEF a, k
<1>2. \A i \in 1..k : p[i] <= t /\ (i <= k - l => p[i] + w < t + lag)
  BY <1>1 DEF NoEntryFits, k
<1>3. EntryFits(a, 1, s + w, w, l, t, lag)
  <2> SUFFICES ASSUME NEW i \in 1..(k + 1)
               PROVE  /\ a[i] + w <= s + w + lag
                      /\ i <= (k + 1) - 1 - l \/ i <= (k + 1) - 2 * l => a[i] + w < t + lag
    BY <1>1 DEF EntryFits
  <2>1. CASE i = k + 1
    BY <1>1, <2>1
  <2>2. CASE i # k + 1
    BY <1>1, <1>2, <2>2
  <2> QED BY <2>1, <2>2
<1>4. BurstFits(a, w, l, lag)
  <2> SUFFICES ASSUME NEW i \in 1..(k + 1), NEW j \in 1..(k + 1), j = i + 2 * l
               PROVE  a[j] + lag > a[i] + w
    BY <1>1 DEF BurstFits
  <2>1. CASE j = k + 1
    <3>1. i \in 1..k /\ i <= k - l
      BY <1>1, <2>1
    <3> QED BY <1>1, <1>2, <2>1, <3>1
  <2>2. CASE j # k + 1
    <3>1. i \in DOMAIN p /\ j \in DOMAIN p /\ a[i] = p[i] /\ a[j] = p[j]
      BY <1>1, <2>2
    <3> QED BY <3>1 DEF BurstFits
  <2> QED BY <2>1, <2>2
<1> QED BY <1>3, <1>4 DEF a

\* A hit that the entry counts, or that is the first of a new entry.
LEMMA HitFits ==
    ASSUME NEW h \in Seq(Nat), NEW n \in Nat, NEW exp \in Nat, NEW w \in Nat, NEW t \in Nat
    PROVE  /\ HitsFit(h, n, exp, w) /\ exp <= t + w => HitsFit(Append(h, t), n + 1, exp, w)
           /\ exp <= t + w => HitsFit(Append(h, t), 1, exp, w)
<1> DEFINE a == Append(h, t)
           k == Len(h)
<1>1. /\ a \in Seq(Nat) /\ Len(a) = k + 1 /\ k \in Nat /\ DOMAIN h = 1..k /\ DOMAIN a = 1..(k + 1)
      /\ a[k + 1] = t /\ \A i \in 1..k : a[i] = h[i] /\ h[i] \in Nat
  BY AppendedPass
<1> HIDE DEF a, k
<1>2. ASSUME HitsFit(h, n, exp, w), exp <= t + w PROVE HitsFit(a, n + 1, exp, w)
  <2>1. n <= k /\ \A i \in 1..k : i > k - n => h[i] + w >= exp
    BY <1>1, <1>2 DEF HitsFit, k
  <2>2. ASSUME NEW i \in 1..(k + 1), i > (k + 1) - (n + 1) PROVE a[i] + w >= exp
    <3>1. CASE i = k + 1
      BY <1>1, <1>2, <3>1
    <3>2. CASE i # k + 1
      BY <1>1, <2>1, <2>2, <3>2
    <3> QED BY <3>1, <3>2
  <2> QED BY <1>1, <2>1, <2>2 DEF HitsFit
<1>3. ASSUME exp <= t + w PROVE HitsFit(a, 1, exp, w)
  BY <1>1, <1>3 DEF HitsFit
<1> QED BY <1>2, <1>3 DEF a

(***************************************************************************)
(* RateLimit: the steps.                                                   *)
(***************************************************************************)
Calls == [pc : {"rule", "lock", "limited"}, caller : Callers,
          rule : 1 .. Len(RateRules) + 1, stamp : Nat]

\* A request that is about to be counted has a bucket and a time that lags the clock a little.
LEMMA ReadyRequest ==
    ASSUME RateInv, NEW q \in RateRequests, Ready(q)
    PROVE  /\ call[q] \in Calls /\ Bucket(q) \in Buckets
           /\ Stamp(q) \in Nat /\ Stamp(q) <= clock /\ clock <= Stamp(q) + Lag
<1>1. call[q] \in Calls /\ call[q].rule \in 1..Len(RateRules) + 1 /\ ~ (call[q].rule > Len(RateRules))
  BY DEF Ready, RateInv, RateTypeOK, Calls, LoopOver
<1>2. RateRules[call[q].rule] \in ToSet(RateRules)
  <2>1. Len(RateRules) \in Nat /\ DOMAIN RateRules = 1..Len(RateRules)
    BY RateAssumption, LenProperties
  <2>2. call[q].rule \in DOMAIN RateRules
    BY <1>1, <2>1
  <2> QED BY <2>2 DEF ToSet
<1>3. Bucket(q) \in Buckets
  BY <1>1, <1>2 DEF Bucket, Buckets, Calls
<1>4. clock \in Nat
  BY DEF RateInv, RateTypeOK
<1>5. CASE backend = "memory"
  <2>1. call[q].pc = "lock" /\ call[q] # NoCall
    BY <1>5 DEF Ready
  <2> QED BY <1>1, <1>3, <1>5, <2>1 DEF Stamp, Lag, RateInv, Calls
<1>6. CASE backend # "memory"
  BY <1>1, <1>3, <1>4, <1>6 DEF Stamp, Lag
<1> QED BY <1>5, <1>6

\* Entries that are swept out have expired.
LEMMA SweptEntries ==
    ASSUME NEW m, NEW t
    PROVE  /\ DOMAIN Swept(m, t) \subseteq DOMAIN m
           /\ \A b \in DOMAIN Swept(m, t) : Swept(m, t)[b] = m[b]
           /\ \A b \in DOMAIN m : m[b].exp >= t => b \in DOMAIN Swept(m, t)
BY DEF Swept

\* What counting a request does to the entries: expired ones of other buckets may go, its
\* own is incremented or opens a window.
LEMMA StoredEntries ==
    ASSUME RateInv, NEW q \in RateRequests, Ready(q), Store(q)
    PROVE  LET b == Bucket(q)
               t == Stamp(q)
           IN  /\ DOMAIN counters' \subseteq DOMAIN counters \cup {b}
               /\ \A a \in DOMAIN counters' : a # b => counters'[a] = counters[a]
               /\ \A a \in DOMAIN counters : a # b /\ a \notin DOMAIN counters' => counters[a].exp < t
               /\ b \in DOMAIN counters'
               /\ \/ /\ b \in DOMAIN counters /\ counters[b].exp >= t
                     /\ counters'[b] = [n |-> counters[b].n + 1, exp |-> counters[b].exp]
                  \/ /\ b \in DOMAIN counters => counters[b].exp < t
                     /\ counters'[b] = [n |-> 1, exp |-> t + Window[b[2]]]
               /\ hits' = [hits EXCEPT ![b] = Append(hits[b], clock)]
<1> DEFINE b == Bucket(q)
           t == Stamp(q)
           m == IF backend = "memory" THEN Swept(counters, t) ELSE counters
<1>1. \A a \in DOMAIN counters : counters[a] \in [n : Nat \ {0}, exp : Nat]
  BY DEF RateInv, RateTypeOK
<1>2. /\ DOMAIN m \subseteq DOMAIN counters
      /\ \A a \in DOMAIN m : m[a] = counters[a]
      /\ \A a \in DOMAIN counters : counters[a].exp >= t => a \in DOMAIN m
  BY SweptEntries
<1>3. t \in Nat
  BY ReadyRequest
<1>4. /\ counters' = [a \in DOMAIN m \cup {b} |-> IF a = b THEN Counted(m, b, t) ELSE m[a]]
      /\ hits' = [hits EXCEPT ![b] = Append(hits[b], clock)]
  BY DEF Store
<1> HIDE DEF b, t, m
<1>5. \/ /\ b \in DOMAIN counters /\ counters[b].exp >= t
         /\ Counted(m, b, t) = [n |-> counters[b].n + 1, exp |-> counters[b].exp]
      \/ /\ b \in DOMAIN counters => counters[b].exp < t
         /\ Counted(m, b, t) = [n |-> 1, exp |-> t + Window[b[2]]]
  <2>1. CASE b \in DOMAIN m /\ m[b].exp >= t
    <3>1. Counted(m, b, t) = [counters[b] EXCEPT !.n = counters[b].n + 1]
      BY <1>2, <2>1 DEF Counted
    <3> QED BY <1>1, <1>2, <2>1, <3>1
  <2>2. CASE ~ (b \in DOMAIN m /\ m[b].exp >= t)
    BY <1>1, <1>2, <1>3, <2>2 DEF Counted
  <2> QED BY <2>1, <2>2
<1>6. /\ DOMAIN counters' = DOMAIN m \cup {b} /\ counters'[b] = Counted(m, b, t)
      /\ \A a \in DOMAIN m : a # b => counters'[a] = m[a]
  BY <1>4
<1>7. /\ DOMAIN counters' \subseteq DOMAIN counters \cup {b}
      /\ \A a \in DOMAIN counters' : a # b => counters'[a] = counters[a]
      /\ b \in DOMAIN counters'
  BY <1>2, <1>6
<1>8. \A a \in DOMAIN counters : a # b /\ a \notin DOMAIN counters' => counters[a].exp < t
  BY <1>1, <1>2, <1>3, <1>6
<1> QED BY <1>4, <1>5, <1>6, <1>7, <1>8 DEF b, t

\* The new entry, its hits and the buckets of others.
LEMMA StoreStep ==
    ASSUME RateInv, NEW q \in RateRequests, Ready(q), Store(q), UNCHANGED <<clock, backend>>
    PROVE  /\ hits' \in [Buckets -> Seq(Nat)]
           /\ \A b \in DOMAIN counters' :
                 /\ b \in Buckets /\ counters'[b] \in [n : Nat \ {0}, exp : Nat]
                 /\ HitsFit(hits'[b], counters'[b].n, counters'[b].exp, Window[b[2]])
                 /\ counters'[b].exp <= clock + Window[b[2]]
           /\ \A b \in Buckets : b # Bucket(q) /\ passes'[b] = passes[b] => PassesFit(b)'
<1> DEFINE b == Bucket(q)
           t == Stamp(q)
<1>1. /\ b \in Buckets /\ Window[b[2]] \in Nat \ {0} /\ t \in Nat /\ t <= clock /\ clock \in Nat
      /\ Lag \in Nat /\ Lag' = Lag /\ hits[b] \in Seq(Nat) /\ hits \in [Buckets -> Seq(Nat)]
  BY ReadyRequest, BucketTypes, LagType DEF RateInv, RateTypeOK, Lag
<1>2. /\ DOMAIN counters' \subseteq DOMAIN counters \cup {b}
      /\ \A a \in DOMAIN counters' : a # b => counters'[a] = counters[a]
      /\ \A a \in DOMAIN counters : a # b /\ a \notin DOMAIN counters' => counters[a].exp < t
      /\ b \in DOMAIN counters'
      /\ \/ /\ b \in DOMAIN counters /\ counters[b].exp >= t
            /\ counters'[b] = [n |-> counters[b].n + 1, exp |-> counters[b].exp]
         \/ /\ b \in DOMAIN counters => counters[b].exp < t
            /\ counters'[b] = [n |-> 1, exp |-> t + Window[b[2]]]
      /\ hits' = [hits EXCEPT ![b] = Append(hits[b], clock)]
  BY StoredEntries
<1> HIDE DEF b, t
<1>3. hits' \in [Buckets -> Seq(Nat)] /\ hits'[b] = Append(hits[b], clock)
      /\ \A a \in Buckets : a # b => hits'[a] = hits[a]
  <2>1. Append(hits[b], clock) \in Seq(Nat)
    BY <1>1, AppendProperties
  <2> QED BY <1>1, <1>2, <2>1
<1>4. \A a \in DOMAIN counters :
         /\ a \in Buckets /\ counters[a] \in [n : Nat \ {0}, exp : Nat]
         /\ HitsFit(hits[a], counters[a].n, counters[a].exp, Window[a[2]])
         /\ counters[a].exp <= clock + Window[a[2]]
  BY DEF RateInv, RateTypeOK
<1>5. /\ counters'[b] \in [n : Nat \ {0}, exp : Nat]
      /\ HitsFit(hits'[b], counters'[b].n, counters'[b].exp, Window[b[2]])
      /\ counters'[b].exp <= clock + Window[b[2]]
  <2>1. CASE /\ b \in DOMAIN counters /\ counters[b].exp >= t
             /\ counters'[b] = [n |-> counters[b].n + 1, exp |-> counters[b].exp]
    <3>1. /\ counters[b].n \in Nat \ {0} /\ counters[b].exp \in Nat
          /\ HitsFit(hits[b], counters[b].n, counters[b].exp, Window[b[2]])
          /\ counters[b].exp <= clock + Window[b[2]]
      BY <1>4, <2>1
    <3>2. HitsFit(Append(hits[b], clock), counters[b].n + 1, counters[b].exp, Window[b[2]])
      BY <1>1, <3>1, HitFits
    <3> QED BY <1>1, <1>3, <2>1, <3>1, <3>2
  <2>2. CASE counters'[b] = [n |-> 1, exp |-> t + Window[b[2]]]
    <3> DEFINE e == t + Window[b[2]]
    <3>1. e \in Nat /\ e <= clock + Window[b[2]]
      BY <1>1
    <3> HIDE DEF e
    <3>2. HitsFit(Append(hits[b], clock), 1, e, Window[b[2]])
      BY <1>1, <3>1, HitFits
    <3> QED BY <1>3, <2>2, <3>1, <3>2 DEF e
  <2> QED BY <1>2, <2>1, <2>2
<1>6. ASSUME NEW a \in DOMAIN counters'
      PROVE  /\ a \in Buckets /\ counters'[a] \in [n : Nat \ {0}, exp : Nat]
             /\ HitsFit(hits'[a], counters'[a].n, counters'[a].exp, Window[a[2]])
             /\ counters'[a].exp <= clock + Window[a[2]]
  <2>1. CASE a = b
    BY <1>1, <1>5, <2>1
  <2>2. CASE a # b
    <3>1. a \in DOMAIN counters /\ counters'[a] = counters[a]
      BY <1>2, <2>2
    <3> QED BY <1>3, <1>4, <2>2, <3>1
  <2> QED BY <2>1, <2>2
<1>7. ASSUME NEW a \in Buckets, a # b, passes'[a] = passes[a] PROVE PassesFit(a)'
  <2> DEFINE p == passes[a]
             w == Window[a[2]]
             l == AllowedBy(a)
  <2>1. /\ p \in Seq(Nat) /\ w \in Nat /\ l \in Nat
    BY BucketTypes DEF RateInv, RateTypeOK
  <2>2. /\ p # <<>> => l >= 1
        /\ \A i \in DOMAIN p : p[i] <= clock
        /\ a \in DOMAIN counters => EntryFits(p, counters[a].n, counters[a].exp, w, l, clock, Lag)
        /\ a \notin DOMAIN counters => NoEntryFits(p, w, l, clock, Lag)
        /\ BurstFits(p, w, l, Lag)
    BY DEF RateInv, PassesFit
  <2> HIDE DEF p, w, l
  <2>3. /\ a \in DOMAIN counters' => EntryFits(p, counters'[a].n, counters'[a].exp, w, l, clock, Lag)
        /\ a \notin DOMAIN counters' => NoEntryFits(p, w, l, clock, Lag)
    <3>1. CASE a \in DOMAIN counters'
      BY <1>2, <1>7, <2>2, <3>1
    <3>2. CASE a \notin DOMAIN counters' /\ a \notin DOMAIN counters
      BY <2>2, <3>2
    <3>3. CASE a \notin DOMAIN counters' /\ a \in DOMAIN counters
      <4>1. counters[a].n \in Nat /\ counters[a].exp \in Nat /\ counters[a].exp < clock
        <5>1. counters[a] \in [n : Nat \ {0}, exp : Nat]
          BY <1>4, <3>3
        <5>2. counters[a].exp < t
          BY <1>2, <1>7, <3>3
        <5> QED BY <1>1, <5>1, <5>2
      <4> QED BY <1>1, <2>1, <2>2, <3>3, <4>1, ExpiredFits
    <3> QED BY <3>1, <3>2, <3>3
  <2> QED BY <1>1, <1>7, <2>2, <2>3 DEF PassesFit, p, w, l
<1> QED BY <1>3, <1>6, <1>7 DEF b

\* The request's own bucket, when the request is let through and when it is not.
LEMMA OwnBucket ==
    ASSUME RateInv, NEW q \in RateRequests, Ready(q), Store(q), UNCHANGED <<clock, backend>>,
           NEW b, b = Bucket(q),
           \/ passes'[b] = passes[b]
           \/ passes'[b] = Append(passes[b], clock) /\ counters'[b].n <= AllowedBy(b)
    PROVE  PassesFit(b)'
<1> DEFINE t == Stamp(q)
           p == passes[b]
           w == Window[b[2]]
           l == AllowedBy(b)
<1>1. /\ b \in Buckets /\ w \in Nat /\ l \in Nat /\ t \in Nat /\ t <= clock /\ clock <= t + Lag
      /\ clock \in Nat /\ Lag \in Nat /\ Lag' = Lag /\ p \in Seq(Nat)
  BY ReadyRequest, BucketTypes, LagType DEF RateInv, RateTypeOK, Lag
<1>2. /\ p # <<>> => l >= 1
      /\ \A i \in DOMAIN p : p[i] <= clock
      /\ b \in DOMAIN counters => EntryFits(p, counters[b].n, counters[b].exp, w, l, clock, Lag)
      /\ b \notin DOMAIN counters => NoEntryFits(p, w, l, clock, Lag)
      /\ BurstFits(p, w, l, Lag)
  BY <1>1 DEF RateInv, PassesFit
<1>3. /\ b \in DOMAIN counters'
      /\ \/ /\ b \in DOMAIN counters /\ counters[b].exp >= t
            /\ counters'[b] = [n |-> counters[b].n + 1, exp |-> counters[b].exp]
         \/ /\ b \in DOMAIN counters => counters[b].exp < t
            /\ counters'[b] = [n |-> 1, exp |-> t + w]
  BY StoredEntries
<1>4. \A a \in DOMAIN counters : counters[a].n \in Nat /\ counters[a].exp \in Nat
  BY DEF RateInv, RateTypeOK
<1>5. SUFFICES /\ passes'[b] # <<>> => l >= 1
               /\ \A i \in DOMAIN passes'[b] : passes'[b][i] <= clock
               /\ EntryFits(passes'[b], counters'[b].n, counters'[b].exp, w, l, clock, Lag)
               /\ BurstFits(passes'[b], w, l, Lag)
  BY <1>1, <1>3 DEF PassesFit
<1>6. /\ \A i \in DOMAIN Append(p, clock) : Append(p, clock)[i] <= clock
  <2>1. /\ DOMAIN p = 1..Len(p) /\ DOMAIN Append(p, clock) = 1..(Len(p) + 1) /\ Len(p) \in Nat
        /\ Append(p, clock)[Len(p) + 1] = clock
        /\ \A i \in 1..Len(p) : Append(p, clock)[i] = p[i]
    BY <1>1, AppendedPass
  <2> SUFFICES ASSUME NEW i \in 1..(Len(p) + 1) PROVE Append(p, clock)[i] <= clock
    BY <2>1
  <2>2. CASE i = Len(p) + 1
    BY <1>1, <2>1, <2>2
  <2>3. CASE i # Len(p) + 1
    BY <1>2, <2>1, <2>3
  <2> QED BY <2>2, <2>3
<1> HIDE DEF t, p, w, l
<1>7. CASE /\ b \in DOMAIN counters /\ counters[b].exp >= t
           /\ counters'[b] = [n |-> counters[b].n + 1, exp |-> counters[b].exp]
  <2> DEFINE n == counters[b].n
             exp == counters[b].exp
  <2>1. n \in Nat /\ exp \in Nat /\ EntryFits(p, n, exp, w, l, clock, Lag)
        /\ counters'[b].n = n + 1 /\ counters'[b].exp = exp
    BY <1>2, <1>4, <1>7
  <2> HIDE DEF n, exp
  <2>2. CASE passes'[b] = p
    <3>1. EntryFits(p, n + 1, exp, w, l, clock, Lag)
      BY <1>1, <2>1, CountedFits
    <3> QED BY <1>2, <2>1, <2>2, <3>1
  <2>3. CASE passes'[b] = Append(p, clock) /\ n + 1 <= l
    <3>1. /\ EntryFits(Append(p, clock), n + 1, exp, w, l, clock, Lag)
          /\ BurstFits(Append(p, clock), w, l, Lag)
      BY <1>1, <1>2, <2>1, <2>3, PassedFits
    <3> QED BY <1>1, <1>6, <2>1, <2>3, <3>1
  <2> QED BY <2>1, <2>2, <2>3 DEF p, l
<1>8. CASE /\ b \in DOMAIN counters => counters[b].exp < t
           /\ counters'[b] = [n |-> 1, exp |-> t + w]
  <2>1. NoEntryFits(p, w, l, clock, Lag)
    <3>1. CASE b \in DOMAIN counters
      <4>1. counters[b].n \in Nat /\ counters[b].exp \in Nat /\ counters[b].exp < clock
        BY <1>1, <1>4, <1>8, <3>1
      <4> QED BY <1>1, <1>2, <3>1, <4>1, ExpiredFits
    <3>2. CASE b \notin DOMAIN counters
      BY <1>2, <3>2
    <3> QED BY <3>1, <3>2
  <2>2. CASE passes'[b] = p
    <3>1. EntryFits(p, 1, t + w, w, l, clock, Lag)
      BY <1>1, <1>2, <2>1, OpenedFits
    <3> QED BY <1>2, <1>8, <2>2, <3>1
  <2>3. CASE passes'[b] = Append(p, clock) /\ 1 <= l
    <3>1. /\ EntryFits(Append(p, clock), 1, t + w, w, l, clock, Lag)
          /\ BurstFits(Append(p, clock), w, l, Lag)
      BY <1>1, <1>2, <2>1, <2>3, FirstPassFits
    <3> QED BY <1>1, <1>6, <1>8, <2>3, <3>1
  <2> QED BY <1>8, <2>2, <2>3 DEF p, l
<1> QED BY <1>3, <1>7, <1>8

\* The request goes on to another rule, or ends.
LEMMA NextCall ==
    ASSUME RateInv, NEW q \in RateRequests, call[q] \in Calls, OnToNextRule(q)
    PROVE  \E new \in Calls : new.pc = "rule" /\ call' = [call EXCEPT ![q] = new]
<1>1. PICK j \in NextRule(call[q].caller, call[q].rule) :
        call' = [call EXCEPT ![q] = [call[q] EXCEPT !.pc = "rule", !.stamp = 0, !.rule = j]]
  BY DEF OnToNextRule
<1>2. j \in 1..Len(RateRules) + 1
  BY RateAssumption, LenProperties DEF NextRule, Calls
<1>3. PICK new \in Calls : new = [call[q] EXCEPT !.pc = "rule", !.stamp = 0, !.rule = j]
  BY <1>2 DEF Calls
<1>4. new.pc = "rule"
  BY <1>3 DEF Calls
<1> QED BY <1>1, <1>3, <1>4

\* A request under way is a record of the loop.
LEMMA CallTypes ==
    ASSUME RateInv
    PROVE  /\ call \in [RateRequests -> {NoCall} \cup Calls]
           /\ \A q \in RateRequests : call[q] # NoCall => call[q] \in Calls
BY DEF RateInv, RateTypeOK, Calls

\* Steps of a request that leave its buckets alone.
LEMMA OnlyTheCall ==
    ASSUME RateInv, UNCHANGED <<clock, backend, counters, hits, passes>>,
           NEW q \in RateRequests, NEW new \in {NoCall} \cup Calls, call' = [call EXCEPT ![q] = new],
           new # NoCall /\ new.pc = "lock" => backend = "memory" /\ new.stamp = clock
    PROVE  RateInv'
<1>1. RateTypeOK'
  BY CallTypes DEF RateInv, RateTypeOK, Calls
<1>2. \A r \in RateRequests : call'[r] # NoCall /\ call'[r].pc = "lock" =>
          backend' = "memory" /\ call'[r].stamp <= clock' /\ clock' <= call'[r].stamp + MaxLag
  BY RateAssumption DEF RateInv, RateTypeOK
<1>3. \A b \in Buckets : PassesFit(b)'
  BY DEF RateInv, PassesFit, AllowedBy, Lag
<1> QED BY <1>1, <1>2, <1>3 DEF RateInv

\* A request is counted, and maybe let through.
LEMMA CountingStep ==
    ASSUME RateInv, NEW q \in RateRequests, Ready(q), Store(q), UNCHANGED <<clock, backend>>,
           NEW new \in Calls, new.pc # "lock", call' = [call EXCEPT ![q] = new],
           \/ passes' = passes
           \/ /\ passes' = [passes EXCEPT ![Bucket(q)] = Append(passes[Bucket(q)], clock)]
              /\ counters'[Bucket(q)].n <= AllowedBy(Bucket(q))
    PROVE  RateInv'
<1>1. PICK b \in Buckets : b = Bucket(q)
  BY ReadyRequest
<1>2. /\ passes' \in [Buckets -> Seq(Nat)]
      /\ \A a \in Buckets : a # b => passes'[a] = passes[a]
      /\ \/ passes'[b] = passes[b]
         \/ passes'[b] = Append(passes[b], clock) /\ counters'[b].n <= AllowedBy(b)
  <2>1. passes \in [Buckets -> Seq(Nat)] /\ clock \in Nat /\ passes[b] \in Seq(Nat)
    BY DEF RateInv, RateTypeOK
  <2>2. Append(passes[b], clock) \in Seq(Nat)
    BY <2>1, AppendProperties
  <2> QED BY <1>1, <2>1, <2>2
<1>3. PassesFit(b)'
  BY <1>1, <1>2, OwnBucket
<1>4. \A a \in Buckets : PassesFit(a)'
  BY <1>1, <1>2, <1>3, StoreStep
<1>5. \A a \in DOMAIN counters' :
         /\ a \in Buckets /\ counters'[a] \in [n : Nat \ {0}, exp : Nat]
         /\ HitsFit(hits'[a], counters'[a].n, counters'[a].exp, Window[a[2]])
         /\ counters'[a].exp <= clock' + Window[a[2]]
  BY StoreStep
<1>6. RateTypeOK'
  BY <1>2, <1>5, StoreStep, CallTypes DEF RateInv, RateTypeOK, Calls
<1>7. \A r \in RateRequests : call'[r] # NoCall /\ call'[r].pc = "lock" =>
          backend' = "memory" /\ call'[r].stamp <= clock' /\ clock' <= call'[r].stamp + MaxLag
  BY DEF RateInv, RateTypeOK
<1> QED BY <1>4, <1>5, <1>6, <1>7 DEF RateInv

\* At the start there are no entries and no passes.
LEMMA RateInitInvariant == RateInit => RateInv
<1> SUFFICES ASSUME RateInit PROVE RateInv
  OBVIOUS
<1>1. /\ clock = 0 /\ DOMAIN counters = {} /\ backend \in {"memory", "redis"}
      /\ call = [q \in RateRequests |-> NoCall]
      /\ hits = [b \in Buckets |-> <<>>] /\ passes = [b \in Buckets |-> <<>>]
  BY DEF RateInit
<1>2. RateTypeOK
  BY <1>1, EmptySeq DEF RateTypeOK
<1>3. ASSUME NEW b \in Buckets PROVE PassesFit(b)
  <2>1. passes[b] = <<>> /\ DOMAIN <<>> = {}
    BY <1>1
  <2> QED BY <1>1, <2>1 DEF PassesFit, NoEntryFits, BurstFits
<1> QED BY <1>1, <1>2, <1>3 DEF RateInv

\* Every step of the middleware keeps the entries true.
LEMMA RateNextInvariant == RateInv /\ [RateNext]_rateVars => RateInv'
<1> SUFFICES ASSUME RateInv, [RateNext]_rateVars PROVE RateInv'
  OBVIOUS
<1>1. CASE UNCHANGED rateVars
  BY <1>1 DEF rateVars, RateInv, RateTypeOK, PassesFit, AllowedBy, Lag
<1>2. CASE RateTick
  <2>1. /\ clock' = clock + 1 /\ UNCHANGED <<backend, counters, call, hits, passes>> /\ clock \in Nat
        /\ \A q \in RateRequests :
              call[q] # NoCall /\ call[q].pc = "lock" => clock < call[q].stamp + MaxLag
    BY <1>2 DEF RateTick, Advance, RateInv, RateTypeOK
  <2>2. RateTypeOK'
    BY <2>1 DEF RateInv, RateTypeOK
  <2>3. \A q \in RateRequests : call'[q] # NoCall /\ call'[q].pc = "lock" =>
            backend' = "memory" /\ call'[q].stamp <= clock' /\ clock' <= call'[q].stamp + MaxLag
    <3> SUFFICES ASSUME NEW q \in RateRequests, call[q] # NoCall, call[q].pc = "lock"
                 PROVE  backend = "memory" /\ call[q].stamp <= clock + 1 /\ clock + 1 <= call[q].stamp + MaxLag
      BY <2>1
    <3>1. call[q].stamp \in Nat /\ backend = "memory" /\ call[q].stamp <= clock
      BY CallTypes DEF Calls, RateInv
    <3> QED BY <2>1, <3>1, RateAssumption
  <2>4. ASSUME NEW b \in Buckets PROVE PassesFit(b)'
    <3> DEFINE p == passes[b]
               w == Window[b[2]]
               l == AllowedBy(b)
    <3>1. /\ p \in Seq(Nat) /\ w \in Nat /\ l \in Nat /\ Lag \in Nat /\ Lag' = Lag
      BY <2>1, BucketTypes, LagType DEF RateInv, RateTypeOK, Lag
    <3>2. /\ p # <<>> => l >= 1
          /\ \A i \in DOMAIN p : p[i] <= clock
          /\ b \in DOMAIN counters => EntryFits(p, counters[b].n, counters[b].exp, w, l, clock, Lag)
          /\ b \notin DOMAIN counters => NoEntryFits(p, w, l, clock, Lag)
          /\ BurstFits(p, w, l, Lag)
      BY DEF RateInv, PassesFit
    <3> HIDE DEF p, w, l
    <3>3. clock + 1 \in Nat /\ clock <= clock + 1
      BY <2>1
    <3>4. \A i \in DOMAIN p : p[i] <= clock + 1
      <4>1. \A i \in DOMAIN p : p[i] \in Nat
        BY <3>1, ElementOfSeq, LenProperties
      <4> QED BY <2>1, <3>2, <4>1
    <3>5. b \in DOMAIN counters => EntryFits(p, counters[b].n, counters[b].exp, w, l, clock + 1, Lag)
      <4> SUFFICES ASSUME b \in DOMAIN counters
                   PROVE  EntryFits(p, counters[b].n, counters[b].exp, w, l, clock + 1, Lag)
        OBVIOUS
      <4>1. counters[b].n \in Nat /\ counters[b].exp \in Nat
        BY DEF RateInv, RateTypeOK
      <4> QED BY <2>1, <3>1, <3>2, <3>3, <4>1, TimeFits
    <3>6. b \notin DOMAIN counters => NoEntryFits(p, w, l, clock + 1, Lag)
      BY <2>1, <3>1, <3>2, <3>3, TimeFits
    <3> QED BY <2>1, <3>1, <3>2, <3>4, <3>5, <3>6 DEF PassesFit, p, w, l, AllowedBy
  <2>5. \A b \in DOMAIN counters : counters[b].exp <= clock + 1 + Window[b[2]]
    <3> SUFFICES ASSUME NEW b \in DOMAIN counters PROVE counters[b].exp <= clock + 1 + Window[b[2]]
      OBVIOUS
    <3>1. b \in Buckets /\ counters[b].exp \in Nat /\ counters[b].exp <= clock + Window[b[2]]
      BY DEF RateInv, RateTypeOK
    <3>2. Window[b[2]] \in Nat
      BY <3>1, BucketTypes
    <3> QED BY <2>1, <3>1, <3>2
  <2> QED BY <2>1, <2>2, <2>3, <2>4, <2>5 DEF RateInv
<1>3. ASSUME NEW q \in RateRequests, NEW c \in Callers, Arrive(q, c) PROVE RateInv'
  <2>1. PICK j \in NextRule(c, 0) :
          call' = [call EXCEPT ![q] = [pc |-> "rule", caller |-> c, rule |-> j, stamp |-> 0]]
    BY <1>3 DEF Arrive
  <2>2. j \in 1..Len(RateRules) + 1
    BY DEF NextRule
  <2>3. PICK new \in Calls : new = [pc |-> "rule", caller |-> c, rule |-> j, stamp |-> 0]
    BY <2>2 DEF Calls
  <2>4. new.pc = "rule"
    BY <2>3
  <2> QED BY <1>3, <2>1, <2>3, <2>4, OnlyTheCall DEF Arrive
<1>4. ASSUME NEW q \in RateRequests, TakeTime(q) PROVE RateInv'
  <2>1. call[q] \in Calls /\ clock \in Nat
    BY <1>4, CallTypes DEF TakeTime, RateInv, RateTypeOK
  <2>2. PICK new \in Calls : new = [call[q] EXCEPT !.pc = "lock", !.stamp = clock]
    BY <2>1 DEF Calls
  <2>3. new.stamp = clock /\ call' = [call EXCEPT ![q] = new]
    BY <1>4, <2>1, <2>2 DEF TakeTime, Calls
  <2> QED BY <1>4, <2>3, OnlyTheCall DEF TakeTime
<1>5. ASSUME NEW q \in RateRequests, Pass(q) PROVE RateInv'
  <2>1. PICK new \in Calls : new.pc = "rule" /\ call' = [call EXCEPT ![q] = new]
    BY <1>5, ReadyRequest, NextCall DEF Pass
  <2> QED BY <1>5, <2>1, CountingStep DEF Pass
<1>6. ASSUME NEW q \in RateRequests, Reject(q) PROVE RateInv'
  <2>1. call[q] \in Calls
    BY <1>6, ReadyRequest DEF Reject
  <2>2. PICK new \in Calls : new = [call[q] EXCEPT !.pc = "limited", !.stamp = 0]
    BY <2>1 DEF Calls
  <2>3. new.pc = "limited" /\ call' = [call EXCEPT ![q] = new]
    BY <1>6, <2>1, <2>2 DEF Reject, Calls
  <2> QED BY <1>6, <2>3, CountingStep DEF Reject
<1>7. ASSUME NEW q \in RateRequests, CounterError(q) PROVE RateInv'
  <2>1. PICK new \in Calls : new.pc = "rule" /\ call' = [call EXCEPT ![q] = new]
    BY <1>7, ReadyRequest, NextCall DEF CounterError
  <2>2. CASE Store(q)
    BY <1>7, <2>1, <2>2, CountingStep DEF CounterError
  <2>3. CASE UNCHANGED <<counters, hits>>
    BY <1>7, <2>1, <2>3, OnlyTheCall DEF CounterError
  <2> QED BY <1>7, <2>2, <2>3 DEF CounterError
<1>8. ASSUME NEW q \in RateRequests, Answer(q) PROVE RateInv'
  BY <1>8, OnlyTheCall DEF Answer
<1> QED BY <1>1, <1>2, <1>3, <1>4, <1>5, <1>6, <1>7, <1>8 DEF RateNext

\* So they are true in every state.
LEMMA RateInvariance == RateSpec => []RateInv
BY RateInitInvariant, RateNextInvariant, PTL DEF RateSpec

\* Fixed windows (ratelimit/memory.go, redis.go) bound their burst: in a stretch as long as
\* the window, less the wait for the lock, no rule lets more than twice its limit pass.
THEOREM BurstsAreBounded == RateSpec => []BurstBounded
<1>1. RateInv => BurstBounded
  BY DEF RateInv, PassesFit, BurstFits, BurstBounded, Lag
<1> QED BY <1>1, RateInvariance, PTL

\* The hits of an entry that has not expired at t are at most a window before t.
LEMMA RecentHits ==
    ASSUME NEW h \in Seq(Nat), NEW n \in Nat, NEW exp \in Nat, NEW w \in Nat, NEW t \in Nat,
           HitsFit(h, n, exp, w), exp >= t
    PROVE  /\ Cardinality({i \in DOMAIN h : h[i] + w >= t}) \in Nat
           /\ Cardinality({i \in DOMAIN h : h[i] + w >= t}) >= n
<1>1. /\ Len(h) \in Nat /\ DOMAIN h = 1..Len(h) /\ n <= Len(h)
      /\ \A i \in 1..Len(h) : h[i] \in Nat
      /\ \A i \in 1..Len(h) : i > Len(h) - n => h[i] + w >= exp
  BY LenProperties, ElementOfSeq DEF HitsFit
<1>2. PICK m \in Nat : m = Len(h)
  BY <1>1
<1>3. PICK recent \in SUBSET (1..m) : recent = {i \in DOMAIN h : h[i] + w >= t}
  BY <1>1, <1>2
<1>4. PICK last \in SUBSET (1..m) : last = (m - n + 1)..m
  BY <1>1, <1>2
<1>5. last \subseteq recent
  <2> SUFFICES ASSUME NEW i \in last PROVE i \in recent
    OBVIOUS
  <2>1. i \in 1..m /\ i > m - n
    BY <1>1, <1>2, <1>4
  <2>2. h[i] \in Nat /\ h[i] + w >= exp
    BY <1>1, <1>2, <2>1
  <2> QED BY <1>1, <1>2, <1>3, <2>1, <2>2
<1>6. m \in Int /\ m - n + 1 \in Int /\ 1 \in Int
  OBVIOUS
<1>7. IsFiniteSet(1..m) /\ Cardinality(last) = n
  <2>1. Cardinality(last) = IF m - n + 1 > m THEN 0 ELSE m - (m - n + 1) + 1
    BY <1>4, <1>6, FS_Interval
  <2> QED BY <1>6, <2>1, FS_Interval
<1>8. IsFiniteSet(recent)
  BY <1>7, FS_Subset
<1>9. Cardinality(last) <= Cardinality(recent) /\ Cardinality(recent) \in Nat
  BY <1>5, <1>8, FS_Subset, FS_CardinalityType
<1> QED BY <1>3, <1>7, <1>9

\* A request that is rejected is one of more than the limit that were counted lately.
LEMMA RejectingStep ==
    ASSUME RateInv, NEW q \in RateRequests, Reject(q)
    PROVE  LET b == Bucket(q)
               recent == {i \in DOMAIN hits'[b] : hits'[b][i] + Window[b[2]] >= Stamp(q)}
           IN  Cardinality(recent) > AllowedBy(b)
<1>1. /\ Ready(q) /\ Store(q) /\ UNCHANGED <<clock, backend>>
      /\ counters'[Bucket(q)].n > AllowedBy(Bucket(q))
  BY DEF Reject
<1>2. PICK b \in Buckets : b = Bucket(q)
  BY <1>1, ReadyRequest
<1>3. PICK t \in Nat : t = Stamp(q)
  BY <1>1, ReadyRequest
<1>4. Window[b[2]] \in Nat /\ AllowedBy(b) \in Nat
  BY BucketTypes
<1>5. /\ b \in DOMAIN counters'
      /\ \/ b \in DOMAIN counters /\ counters[b].exp >= t
            /\ counters'[b] = [n |-> counters[b].n + 1, exp |-> counters[b].exp]
         \/ counters'[b] = [n |-> 1, exp |-> t + Window[b[2]]]
  BY <1>1, <1>2, <1>3, StoredEntries
<1>6. /\ hits' \in [Buckets -> Seq(Nat)]
      /\ counters'[b] \in [n : Nat \ {0}, exp : Nat]
      /\ HitsFit(hits'[b], counters'[b].n, counters'[b].exp, Window[b[2]])
  BY <1>1, <1>5, StoreStep
<1>7. hits'[b] \in Seq(Nat) /\ counters'[b].n \in Nat /\ counters'[b].exp \in Nat
  BY <1>6
<1>8. counters'[b].exp >= t
  BY <1>4, <1>5, <1>7
<1>9. PICK h \in Seq(Nat), n \in Nat, exp \in Nat, w \in Nat :
         h = hits'[b] /\ n = counters'[b].n /\ exp = counters'[b].exp /\ w = Window[b[2]]
  BY <1>4, <1>7
<1>10. HitsFit(h, n, exp, w) /\ exp >= t
  BY <1>6, <1>8, <1>9
<1>11. /\ Cardinality({i \in DOMAIN h : h[i] + w >= t}) \in Nat
       /\ Cardinality({i \in DOMAIN h : h[i] + w >= t}) >= n
  BY <1>10, RecentHits
<1>12. n > AllowedBy(b)
  BY <1>1, <1>2, <1>9
<1>13. Cardinality({i \in DOMAIN h : h[i] + w >= t}) > AllowedBy(b)
  BY <1>4, <1>11, <1>12
<1> QED BY <1>2, <1>3, <1>9, <1>13

\* The middleware answers 429 only to a caller of which the rule has counted more than its
\* limit since one window before it asked.
THEOREM RejectionIsEarned == RateSpec => NoEarlyReject
<1>1. ASSUME RateInv, RateNext, NEW q \in RateRequests, call[q] # NoCall, call[q].pc # "limited",
             call'[q] # NoCall, call'[q].pc = "limited"
      PROVE  Reject(q)
  <2>1. /\ call \in [RateRequests -> {NoCall} \cup Calls]
        /\ \A r \in RateRequests : call[r] # NoCall => call[r] \in Calls
    BY <1>1, CallTypes
  <2>2. ASSUME NEW r \in RateRequests, NEW new, call' = [call EXCEPT ![r] = new],
               new = NoCall \/ new.pc \in {"rule", "lock"}
        PROVE  FALSE
    BY <1>1, <2>1, <2>2
  <2>3. ASSUME NEW r \in RateRequests, NEW c \in Callers, Arrive(r, c) PROVE FALSE
    <3>1. PICK j \in NextRule(c, 0) :
            call' = [call EXCEPT ![r] = [pc |-> "rule", caller |-> c, rule |-> j, stamp |-> 0]]
      BY <2>3 DEF Arrive
    <3>2. [pc |-> "rule", caller |-> c, rule |-> j, stamp |-> 0].pc = "rule"
      OBVIOUS
    <3> QED BY <2>2, <3>1, <3>2
  <2>4. ASSUME NEW r \in RateRequests, TakeTime(r) PROVE FALSE
    <3>1. call[r] \in Calls /\ call' = [call EXCEPT ![r] = [call[r] EXCEPT !.pc = "lock", !.stamp = clock]]
      BY <2>1, <2>4 DEF TakeTime
    <3>2. [call[r] EXCEPT !.pc = "lock", !.stamp = clock].pc = "lock"
      BY <3>1 DEF Calls
    <3> QED BY <2>2, <3>1, <3>2
  <2>5. ASSUME NEW r \in RateRequests, Pass(r) \/ CounterError(r) PROVE FALSE
    <3>1. call[r] \in Calls /\ OnToNextRule(r)
      BY <1>1, <2>5, ReadyRequest DEF Pass, CounterError
    <3>2. PICK new \in Calls : new.pc = "rule" /\ call' = [call EXCEPT ![r] = new]
      BY <1>1, <3>1, NextCall
    <3> QED BY <2>2, <3>2
  <2>6. ASSUME NEW r \in RateRequests, Answer(r) PROVE FALSE
    BY <2>2, <2>6 DEF Answer
  <2>7. ASSUME RateTick PROVE FALSE
    BY <1>1, <2>7 DEF RateTick
  <2>8. PICK r \in RateRequests : Reject(r)
    BY <1>1, <2>3, <2>4, <2>5, <2>6, <2>7 DEF RateNext
  <2>9. r = q
    BY <1>1, <2>1, <2>8 DEF Reject
  <2> QED BY <2>8, <2>9
<1>2. RateInv /\ [RateNext]_rateVars =>
        [\A q \in RateRequests :
          call[q] # NoCall /\ call[q].pc # "limited"
             /\ call'[q] # NoCall /\ call'[q].pc = "limited" =>
                LET b == Bucket(q)
                    recent == {i \in DOMAIN hits'[b] : hits'[b][i] + Window[b[2]] >= Stamp(q)}
                IN  Cardinality(recent) > AllowedBy(b)]_rateVars
  BY <1>1, RejectingStep
<1> QED BY <1>2, RateInvariance, PTL DEF RateSpec, NoEarlyReject

(***************************************************************************)
(* Heartbeat: beats under way, the page and pruning.                       *)
(***************************************************************************)
Healthy(i) == proc[i].up /\ proc[i].healthy

\* Statements under way are as young as the clock allows, one for each life of a process, and
\* a process that waits was due.
WireSound ==
    /\ \A b \in wire : b.sent <= clock /\ clock <= b.sent + MaxDelay
    /\ \A b, c \in wire : b.id = c.id /\ b.started = c.started => b = c
    /\ \A i \in Instances : \A b \in Waiting(i) : proc[i].due <= clock

\* The row of a healthy process is there.  Its next beat is due within an interval of the
\* last, and the one it waits for was sent within that time.
RowsFresh ==
    \A i \in Instances : Healthy(i) =>
        /\ i \in DOMAIN beats
        /\ IF Waiting(i) = {} THEN /\ proc[i].due <= beats[i].last + BeatInterval
                                   /\ clock <= beats[i].last + BeatInterval
           ELSE \A b \in Waiting(i) : b.sent <= beats[i].last + BeatInterval

\* Nothing of a dead process was sent after its death or lands later than its statements can.
DeadSilent ==
    \A i \in Instances : ~ proc[i].up =>
        /\ ~ proc[i].healthy
        /\ i \in DOMAIN beats => beats[i].last <= proc[i].died + MaxDelay
        /\ \A b \in wire : b.id = i => b.sent <= proc[i].died

BeatInv ==
    /\ HeartbeatTypeOK
    /\ \A i \in DOMAIN beats : beats[i].last <= clock
    /\ WireSound /\ RowsFresh /\ DeadSilent

\* The last multiple of the interval that has passed.
LEMMA Quotient ==
    ASSUME NEW x \in Nat, NEW b \in Nat \ {0}
    PROVE  x \div b \in Nat /\ b * (x \div b) \in Nat /\ b * (x \div b) <= x
OBVIOUS

\* The row of a healthy process is younger than the window.
LEMMA FreshEnough ==
    ASSUME BeatInv, NEW i \in Instances, Healthy(i)
    PROVE  /\ i \in DOMAIN beats /\ beats[i].last \in Nat
           /\ clock <= beats[i].last + BeatInterval + MaxDelay
<1>1. i \in DOMAIN beats /\ beats[i].last \in Nat /\ clock \in Nat
  BY DEF BeatInv, RowsFresh, HeartbeatTypeOK
<1>2. CASE Waiting(i) = {}
  BY <1>1, <1>2, HeartbeatAssumption DEF BeatInv, RowsFresh
<1>3. CASE Waiting(i) # {}
  <2>1. PICK b \in Waiting(i) : TRUE
    BY <1>3
  <2>2. b \in wire /\ b.sent \in Nat /\ clock <= b.sent + MaxDelay
    BY <2>1 DEF Waiting, BeatInv, WireSound, HeartbeatTypeOK
  <2>3. b.sent <= beats[i].last + BeatInterval
    BY <1>3, <2>1 DEF BeatInv, RowsFresh
  <2> QED BY <1>1, <2>2, <2>3, HeartbeatAssumption
<1> QED BY <1>1, <1>2, <1>3

\* Active(onlineWindow, skew) has the healthy and, a window after they fell silent, none of
\* the dead.
LEMMA PageIsRight == BeatInv => ShownIffAlive
<1> SUFFICES ASSUME BeatInv, NEW i \in Instances, NEW skew \in Skews
             PROVE  /\ Healthy(i) => i \in Active(onlineWindow, skew)
                    /\ ~ proc[i].up /\ clock >= proc[i].died + MaxDelay + onlineWindow + MaxSkew =>
                          i \notin Active(onlineWindow, skew)
  BY DEF ShownIffAlive, Healthy
<1>1. skew \in Int /\ - MaxSkew <= skew /\ skew <= MaxSkew
  BY HeartbeatAssumption DEF Skews
<1>2. clock \in Nat /\ proc[i].died \in Nat
  BY DEF BeatInv, HeartbeatTypeOK
<1>3. ASSUME Healthy(i) PROVE i \in Active(onlineWindow, skew)
  <2>1. /\ i \in DOMAIN beats /\ beats[i].last \in Nat
        /\ clock <= beats[i].last + BeatInterval + MaxDelay
    BY <1>3, FreshEnough
  <2>2. beats[i].last > clock + skew - onlineWindow
    BY <1>1, <1>2, <2>1, HeartbeatAssumption
  <2> QED BY <2>1, <2>2 DEF Active
<1>4. ASSUME ~ proc[i].up, clock >= proc[i].died + MaxDelay + onlineWindow + MaxSkew,
             i \in Active(onlineWindow, skew)
      PROVE  FALSE
  <2>1. i \in DOMAIN beats /\ beats[i].last > clock + skew - onlineWindow
    BY <1>4 DEF Active
  <2>2. beats[i].last \in Nat /\ beats[i].last <= proc[i].died + MaxDelay
    BY <1>4, <2>1 DEF BeatInv, DeadSilent, HeartbeatTypeOK
  <2> QED BY <1>1, <1>2, <1>4, <2>1, <2>2, HeartbeatAssumption
<1> QED BY <1>3, <1>4

\* At the start no process runs and nothing is under way.
LEMMA BeatInitInvariant == HeartbeatInit => BeatInv
BY HeartbeatAssumption
   DEF HeartbeatInit, BeatInv, HeartbeatTypeOK, WireSound, RowsFresh, DeadSilent, Healthy, Waiting

\* A statement ends: its process, if it still waits, goes on to its next beat.
LEMMA ReturnedStep ==
    ASSUME BeatInv, NEW b \in wire, NEW ok \in BOOLEAN,
           wire' = wire \ {b}, Returned(b, ok), UNCHANGED clock
    PROVE  /\ proc' \in [Instances -> [up : BOOLEAN, started : Nat, due : Nat, ticking : BOOLEAN,
                            died : Nat, healthy : BOOLEAN]]
           /\ \A c \in wire' : c \in [id : Instances, started : Nat, sent : Nat]
           /\ WireSound'
           /\ \A i \in Instances :
                 /\ proc'[i].up = proc[i].up /\ proc'[i].died = proc[i].died
                 /\ IF b \in Waiting(i)
                    THEN /\ proc'[i].healthy = ok /\ proc'[i].due <= clock + BeatInterval
                         /\ Waiting(i)' = {} /\ b.id = i
                    ELSE proc'[i] = proc[i] /\ Waiting(i)' = Waiting(i)
<1> DEFINE j == b.id
           due == NextBeat(j)
           P == [up : BOOLEAN, started : Nat, due : Nat, ticking : BOOLEAN,
                            died : Nat, healthy : BOOLEAN]
<1>1. j \in Instances /\ proc[j] \in P /\ clock \in Nat /\ proc \in [Instances -> P]
  BY DEF BeatInv, HeartbeatTypeOK
<1>2. \A i \in Instances : \A c \in Waiting(i) : c \in wire /\ c.id = i /\ c.started = proc[i].started /\ proc[i].up
  BY DEF Waiting
<1>3. ASSUME b \in Waiting(j)
      PROVE  /\ due \in Nat /\ due <= clock + BeatInterval
  <2>1. proc[j].due \in Nat /\ proc[j].due <= clock
    BY <1>1, <1>3 DEF BeatInv, WireSound
  <2> DEFINE late == clock - proc[j].due
             missed == late \div BeatInterval
  <2>2. late \in Nat
    BY <1>1, <2>1
  <2> HIDE DEF late
  <2>3. missed \in Nat /\ BeatInterval * missed \in Nat /\ BeatInterval * missed <= late
    BY <2>2, HeartbeatAssumption, Quotient
  <2>4. CASE proc[j].ticking
    <3>1. due = proc[j].due + BeatInterval * (IF missed > 1 THEN missed ELSE 1)
      BY <2>4 DEF NextBeat, late
    <3>2. CASE missed > 1
      BY <1>1, <2>1, <2>3, <3>1, <3>2, HeartbeatAssumption DEF late
    <3>3. CASE ~ (missed > 1)
      <4>1. due = proc[j].due + BeatInterval
        BY <2>1, <3>1, <3>3, HeartbeatAssumption
      <4> QED BY <1>1, <2>1, <4>1, HeartbeatAssumption
    <3> QED BY <3>2, <3>3
  <2>5. CASE ~ proc[j].ticking
    BY <1>1, <2>5, HeartbeatAssumption DEF NextBeat
  <2> QED BY <2>4, <2>5
<1> HIDE DEF due
<1>4. CASE b \in Waiting(j)
  <2> DEFINE new == [proc[j] EXCEPT !.due = due, !.ticking = TRUE, !.healthy = ok]
  <2>1. proc' = [proc EXCEPT ![j] = new]
    BY <1>4 DEF Returned, due
  <2>2. /\ new \in P /\ new.up = proc[j].up /\ new.died = proc[j].died /\ new.started = proc[j].started
        /\ new.healthy = ok /\ new.due = due
    BY <1>1, <1>3, <1>4
  <2> HIDE DEF new
  <2>3. /\ proc' \in [Instances -> P] /\ proc'[j] = new
        /\ \A i \in Instances : i # j => proc'[i] = proc[i]
    BY <1>1, <2>1, <2>2
  <2>4. \A i \in Instances : proc'[i].up = proc[i].up /\ proc'[i].started = proc[i].started
                             /\ proc'[i].died = proc[i].died
    BY <2>2, <2>3
  <2>5. \A i \in Instances : Waiting(i)' = Waiting(i) \ {b}
    BY <2>4 DEF Waiting
  <2>6. Waiting(j)' = {}
    BY <1>1, <1>2, <1>4, <2>5 DEF BeatInv, WireSound
  <2>7. \A i \in Instances : i # j => b \notin Waiting(i) /\ Waiting(i)' = Waiting(i)
    BY <1>2, <2>5
  <2>8. WireSound'
    BY <2>3, <2>5, <2>6 DEF BeatInv, WireSound
  <2>9. \A i \in Instances :
                 IF b \in Waiting(i)
                    THEN /\ proc'[i].healthy = ok /\ proc'[i].due <= clock + BeatInterval
                         /\ Waiting(i)' = {} /\ b.id = i
                    ELSE proc'[i] = proc[i] /\ Waiting(i)' = Waiting(i)
    BY <1>3, <1>4, <2>2, <2>3, <2>6, <2>7
  <2> QED BY <2>3, <2>4, <2>8, <2>9 DEF BeatInv, HeartbeatTypeOK
<1>5. CASE b \notin Waiting(j)
  <2>1. proc' = proc
    BY <1>5 DEF Returned
  <2>2. \A i \in Instances : b \notin Waiting(i) /\ Waiting(i)' = Waiting(i)
    BY <1>2, <1>5, <2>1 DEF Waiting
  <2>3. WireSound'
    BY <2>1, <2>2 DEF BeatInv, WireSound
  <2> QED BY <1>1, <2>1, <2>2, <2>3 DEF BeatInv, HeartbeatTypeOK
<1> QED BY <1>4, <1>5

\* A statement arrives: the row is as young as it.
LEMMA LandStep ==
    ASSUME BeatInv, NEW b \in wire, Land(b)
    PROVE  BeatInv'
<1>1. /\ beats' = Beat(b) /\ wire' = wire \ {b} /\ Returned(b, TRUE) /\ UNCHANGED clock
  BY DEF Land
<1>2. b \in [id : Instances, started : Nat, sent : Nat] /\ clock \in Nat
  BY DEF BeatInv, HeartbeatTypeOK
<1>3. /\ DOMAIN beats' = DOMAIN beats \cup {b.id}
      /\ beats'[b.id] = [started |-> b.started, last |-> clock]
      /\ \A i \in DOMAIN beats : i # b.id => beats'[i] = beats[i]
  BY <1>1 DEF Beat
<1>4. \A i \in DOMAIN beats :
         i \in DOMAIN beats' /\ beats[i].last \in Nat /\ beats'[i].last \in Nat /\ beats[i].last <= beats'[i].last
  <2> SUFFICES ASSUME NEW i \in DOMAIN beats
               PROVE  i \in DOMAIN beats' /\ beats[i].last \in Nat /\ beats'[i].last \in Nat /\ beats[i].last <= beats'[i].last
    OBVIOUS
  <2>1. beats[i].last \in Nat /\ beats[i].last <= clock
    BY DEF BeatInv, HeartbeatTypeOK
  <2>2. CASE i = b.id
    BY <1>2, <1>3, <2>1, <2>2
  <2>3. CASE i # b.id
    BY <1>3, <2>1, <2>3
  <2> QED BY <2>2, <2>3
<1>5. HeartbeatTypeOK'
  <2>1. \A i \in DOMAIN beats' : i \in Instances /\ beats'[i] \in [started : Nat, last : Nat]
    <3> SUFFICES ASSUME NEW i \in DOMAIN beats'
                 PROVE  i \in Instances /\ beats'[i] \in [started : Nat, last : Nat]
      OBVIOUS
    <3>1. CASE i = b.id
      BY <1>2, <1>3, <3>1
    <3>2. CASE i # b.id
      BY <1>3, <3>2 DEF BeatInv, HeartbeatTypeOK
    <3> QED BY <3>1, <3>2
  <2> QED BY <1>1, <1>2, <2>1, ReturnedStep DEF HeartbeatTypeOK
<1>6. \A i \in DOMAIN beats' : beats'[i].last <= clock'
  BY <1>1, <1>2, <1>3 DEF BeatInv
<1>7. WireSound'
  BY <1>1, ReturnedStep
<1>8. RowsFresh'
  <2> SUFFICES ASSUME NEW i \in Instances, Healthy(i)'
               PROVE  /\ i \in DOMAIN beats'
                      /\ IF Waiting(i)' = {}
                         THEN /\ proc'[i].due <= beats'[i].last + BeatInterval
                              /\ clock' <= beats'[i].last + BeatInterval
                         ELSE \A c \in Waiting(i)' : c.sent <= beats'[i].last + BeatInterval
    BY DEF RowsFresh
  <2>1. CASE b \in Waiting(i)
    <3>1. proc'[i].due <= clock + BeatInterval /\ Waiting(i)' = {} /\ b.id = i
      BY <1>1, <2>1, ReturnedStep
    <3> QED BY <1>1, <1>2, <1>3, <3>1, HeartbeatAssumption
  <2>2. CASE b \notin Waiting(i)
    <3>1. proc'[i] = proc[i] /\ Waiting(i)' = Waiting(i)
      BY <1>1, <2>2, ReturnedStep
    <3>2. Healthy(i) /\ proc[i].due \in Nat
      BY <3>1 DEF Healthy, BeatInv, HeartbeatTypeOK
    <3>3. \A c \in Waiting(i) : c.sent \in Nat
      BY DEF Waiting, BeatInv, HeartbeatTypeOK
    <3>4. i \in DOMAIN beats
      BY <3>2 DEF BeatInv, RowsFresh
    <3>5. CASE Waiting(i) = {}
      <4>1. proc[i].due <= beats[i].last + BeatInterval /\ clock <= beats[i].last + BeatInterval
        BY <3>2, <3>5 DEF BeatInv, RowsFresh
      <4> QED BY <1>1, <1>2, <1>4, <3>1, <3>2, <3>4, <3>5, <4>1, HeartbeatAssumption
    <3>6. CASE Waiting(i) # {}
      <4>1. \A c \in Waiting(i) : c.sent <= beats[i].last + BeatInterval
        BY <3>2, <3>6 DEF BeatInv, RowsFresh
      <4> QED BY <1>4, <3>1, <3>3, <3>4, <3>6, <4>1, HeartbeatAssumption
    <3> QED BY <3>5, <3>6
  <2> QED BY <2>1, <2>2
<1>9. DeadSilent'
  <2> SUFFICES ASSUME NEW i \in Instances, ~ proc'[i].up
               PROVE  /\ ~ proc'[i].healthy
                      /\ i \in DOMAIN beats' => beats'[i].last <= proc'[i].died + MaxDelay
                      /\ \A c \in wire' : c.id = i => c.sent <= proc'[i].died
    BY DEF DeadSilent
  <2>1. proc'[i].died = proc[i].died /\ ~ proc[i].up
    BY <1>1, ReturnedStep
  <2>2. b \notin Waiting(i)
    BY <2>1 DEF Waiting
  <2>3. proc'[i] = proc[i]
    BY <1>1, <2>2, ReturnedStep
  <2>4. ~ proc'[i].healthy /\ \A c \in wire' : c.id = i => c.sent <= proc'[i].died
    BY <1>1, <2>1, <2>3 DEF BeatInv, DeadSilent
  <2>5. CASE i = b.id
    <3>1. b.sent <= proc[i].died /\ clock <= b.sent + MaxDelay /\ proc[i].died \in Nat /\ b.sent \in Nat
      BY <1>2, <2>1, <2>5 DEF BeatInv, DeadSilent, WireSound, HeartbeatTypeOK
    <3> QED BY <1>2, <1>3, <2>1, <2>4, <2>5, <3>1, HeartbeatAssumption
  <2>6. CASE i # b.id
    BY <1>3, <2>1, <2>4, <2>6 DEF BeatInv, DeadSilent
  <2> QED BY <2>5, <2>6
<1> QED BY <1>5, <1>6, <1>7, <1>8, <1>9 DEF BeatInv

\* A statement fails.
LEMMA LoseStep ==
    ASSUME BeatInv, NEW b \in wire, Lose(b)
    PROVE  BeatInv'
<1>1. wire' = wire \ {b} /\ Returned(b, FALSE) /\ UNCHANGED <<clock, beats>>
  BY DEF Lose
<1>2. HeartbeatTypeOK'
  BY <1>1, ReturnedStep DEF BeatInv, HeartbeatTypeOK
<1>3. ASSUME NEW i \in Instances, Healthy(i)'
      PROVE  proc'[i] = proc[i] /\ Waiting(i)' = Waiting(i) /\ Healthy(i)
  BY <1>1, <1>3, ReturnedStep DEF Healthy
<1>4. RowsFresh'
  BY <1>1, <1>3 DEF BeatInv, RowsFresh
<1>5. ASSUME NEW i \in Instances, ~ proc'[i].up PROVE proc'[i] = proc[i]
  BY <1>1, <1>5, ReturnedStep DEF Waiting
<1>6. DeadSilent'
  BY <1>1, <1>5 DEF BeatInv, DeadSilent
<1> QED BY <1>1, <1>2, <1>4, <1>6, ReturnedStep DEF BeatInv

\* Every step of the processes, the wire and the page keeps it.
LEMMA BeatNextInvariant == BeatInv /\ [HeartbeatNext]_beatVars => BeatInv'
<1> SUFFICES ASSUME BeatInv, [HeartbeatNext]_beatVars PROVE BeatInv'
  OBVIOUS
<1> DEFINE P == [up : BOOLEAN, started : Nat, due : Nat, ticking : BOOLEAN,
                 died : Nat, healthy : BOOLEAN]
<1>0. clock \in Nat /\ proc \in [Instances -> P]
  BY DEF BeatInv, HeartbeatTypeOK
<1>1. CASE UNCHANGED beatVars
  BY <1>1 DEF beatVars, BeatInv, HeartbeatTypeOK, WireSound, RowsFresh, DeadSilent, Healthy, Waiting
<1>2. CASE HeartbeatTick
  <2>1. /\ \A b \in wire : clock < b.sent + MaxDelay
        /\ \A i \in Instances : proc[i].up => proc[i].due > clock \/ Waiting(i) # {}
        /\ clock' = clock + 1 /\ UNCHANGED <<beats, proc, wire>>
    BY <1>2 DEF HeartbeatTick, Advance
  <2>2. \A i \in Instances : Waiting(i)' = Waiting(i) /\ (Healthy(i)' <=> Healthy(i))
    BY <2>1 DEF Waiting, Healthy
  <2>3. HeartbeatTypeOK' /\ \A i \in DOMAIN beats' : beats'[i].last <= clock'
    BY <2>1 DEF BeatInv, HeartbeatTypeOK
  <2>4. WireSound'
    BY <1>0, <2>1, <2>2, HeartbeatAssumption DEF BeatInv, WireSound, HeartbeatTypeOK
  <2>5. RowsFresh'
    <3> SUFFICES ASSUME NEW i \in Instances, Healthy(i)
                 PROVE  /\ i \in DOMAIN beats
                        /\ IF Waiting(i) = {}
                           THEN /\ proc[i].due <= beats[i].last + BeatInterval
                                /\ clock + 1 <= beats[i].last + BeatInterval
                           ELSE \A c \in Waiting(i) : c.sent <= beats[i].last + BeatInterval
      BY <2>1, <2>2 DEF RowsFresh
    <3>1. i \in DOMAIN beats /\ beats[i].last \in Nat /\ proc[i].due \in Nat /\ proc[i].up
      BY <1>0 DEF BeatInv, RowsFresh, HeartbeatTypeOK, Healthy
    <3>2. CASE Waiting(i) = {}
      <4>1. proc[i].due > clock /\ proc[i].due <= beats[i].last + BeatInterval
        BY <2>1, <3>1, <3>2 DEF BeatInv, RowsFresh
      <4> QED BY <1>0, <3>1, <3>2, <4>1, HeartbeatAssumption
    <3>3. CASE Waiting(i) # {}
      BY <3>1, <3>3 DEF BeatInv, RowsFresh
    <3> QED BY <3>2, <3>3
  <2>6. DeadSilent'
    BY <2>1 DEF BeatInv, DeadSilent
  <2> QED BY <2>3, <2>4, <2>5, <2>6 DEF BeatInv
<1>3. ASSUME NEW i \in Instances, Start(i) PROVE BeatInv'
  <2> DEFINE new == [up |-> TRUE, started |-> clock, due |-> clock, ticking |-> FALSE,
                     died |-> 0, healthy |-> FALSE]
  <2>1. ~ proc[i].up /\ proc' = [proc EXCEPT ![i] = new] /\ UNCHANGED <<clock, beats, wire>>
    BY <1>3 DEF Start
  <2>2. new \in P /\ new.up /\ new.due = clock /\ ~ new.healthy
    BY <1>0
  <2> HIDE DEF new
  <2>3. proc'[i] = new /\ \A j \in Instances : j # i => proc'[j] = proc[j]
    BY <1>0, <2>1
  <2>4. \A j \in Instances : j # i => Waiting(j)' = Waiting(j) /\ (Healthy(j)' <=> Healthy(j))
    BY <2>1, <2>3 DEF Waiting, Healthy
  <2>5. ~ Healthy(i)'
    BY <2>2, <2>3 DEF Healthy
  <2>6. HeartbeatTypeOK'
    BY <1>0, <2>1, <2>2 DEF BeatInv, HeartbeatTypeOK
  <2>7. WireSound'
    BY <1>0, <2>1, <2>2, <2>3, <2>4 DEF BeatInv, WireSound
  <2>8. RowsFresh'
    BY <2>1, <2>3, <2>4, <2>5 DEF BeatInv, RowsFresh
  <2>9. DeadSilent'
    BY <2>1, <2>2, <2>3 DEF BeatInv, DeadSilent
  <2> QED BY <2>1, <2>6, <2>7, <2>8, <2>9 DEF BeatInv
<1>4. ASSUME NEW i \in Instances, Send(i) PROVE BeatInv'
  <2>1. PICK b \in [id : Instances, started : Nat, sent : Nat] :
           b = [id |-> i, started |-> proc[i].started, sent |-> clock]
    BY <1>0
  <2>2. /\ proc[i].up /\ proc[i].due <= clock /\ Waiting(i) = {}
        /\ wire' = wire \cup {b} /\ UNCHANGED <<clock, beats, proc>>
        /\ b.id = i /\ b.started = proc[i].started /\ b.sent = clock
    BY <1>4, <2>1 DEF Send
  <2>3. /\ Waiting(i)' = {b}
        /\ \A j \in Instances : j # i => Waiting(j)' = Waiting(j)
    BY <2>2 DEF Waiting
  <2>4. HeartbeatTypeOK'
    BY <2>2 DEF BeatInv, HeartbeatTypeOK
  <2>5. WireSound'
    <3>1. \A c \in wire : c.id = i /\ c.started = proc[i].started => FALSE
      BY <2>2 DEF Waiting
    <3>2. \A c \in wire' : c.sent <= clock' /\ clock' <= c.sent + MaxDelay
      BY <1>0, <2>2, HeartbeatAssumption DEF BeatInv, WireSound
    <3>3. \A c, d \in wire' : c.id = d.id /\ c.started = d.started => c = d
      BY <2>2, <3>1 DEF BeatInv, WireSound
    <3>4. \A j \in Instances : \A c \in Waiting(j)' : proc'[j].due <= clock'
      BY <2>2, <2>3 DEF BeatInv, WireSound
    <3> QED BY <3>2, <3>3, <3>4 DEF WireSound
  <2>6. RowsFresh'
    <3>1. ASSUME Healthy(i) PROVE i \in DOMAIN beats /\ b.sent <= beats[i].last + BeatInterval
      BY <2>2, <3>1 DEF BeatInv, RowsFresh
    <3>2. \A j \in Instances : Healthy(j)' <=> Healthy(j)
      BY <2>2 DEF Healthy
    <3> QED BY <2>2, <2>3, <3>1, <3>2 DEF BeatInv, RowsFresh
  <2>7. DeadSilent'
    BY <2>2 DEF BeatInv, DeadSilent
  <2> QED BY <2>2, <2>4, <2>5, <2>6, <2>7 DEF BeatInv
<1>5. ASSUME NEW i \in Instances, Die(i) PROVE BeatInv'
  <2> DEFINE new == [proc[i] EXCEPT !.up = FALSE, !.healthy = FALSE, !.died = clock]
  <2>1. proc[i].up /\ proc' = [proc EXCEPT ![i] = new] /\ UNCHANGED <<clock, beats, wire>>
    BY <1>5 DEF Die
  <2>2. new \in P /\ ~ new.up /\ ~ new.healthy /\ new.died = clock
    BY <1>0
  <2> HIDE DEF new
  <2>3. proc'[i] = new /\ \A j \in Instances : j # i => proc'[j] = proc[j]
    BY <1>0, <2>1
  <2>4. \A j \in Instances : j # i => Waiting(j)' = Waiting(j) /\ (Healthy(j)' <=> Healthy(j))
    BY <2>1, <2>3 DEF Waiting, Healthy
  <2>5. Waiting(i)' = {} /\ ~ Healthy(i)'
    BY <2>2, <2>3 DEF Waiting, Healthy
  <2>6. HeartbeatTypeOK'
    BY <1>0, <2>1, <2>2 DEF BeatInv, HeartbeatTypeOK
  <2>7. WireSound'
    BY <2>1, <2>3, <2>4, <2>5 DEF BeatInv, WireSound
  <2>8. RowsFresh'
    BY <2>1, <2>3, <2>4, <2>5 DEF BeatInv, RowsFresh
  <2>9. DeadSilent'
    <3>1. i \in DOMAIN beats => beats[i].last \in Nat /\ beats[i].last <= clock + MaxDelay
      BY <1>0, HeartbeatAssumption DEF BeatInv, HeartbeatTypeOK
    <3>2. \A b \in wire : b.sent <= clock
      BY DEF BeatInv, WireSound
    <3> QED BY <2>1, <2>2, <2>3, <3>1, <3>2 DEF BeatInv, DeadSilent
  <2> QED BY <2>1, <2>6, <2>7, <2>8, <2>9 DEF BeatInv
<1>6. ASSUME NEW skew \in Skews, Prune(skew) PROVE BeatInv'
  <2>1. /\ beats' = [i \in {j \in DOMAIN beats : beats[j].last >= clock + skew - PruneAge} |-> beats[i]]
        /\ UNCHANGED <<clock, proc, wire>>
    BY <1>6 DEF Prune
  <2>2. /\ DOMAIN beats' = {j \in DOMAIN beats : beats[j].last >= clock + skew - PruneAge}
        /\ \A i \in DOMAIN beats' : beats'[i] = beats[i]
    BY <2>1
  <2>3. skew \in Int /\ skew <= MaxSkew
    BY HeartbeatAssumption DEF Skews
  <2>4. \A i \in Instances : Waiting(i)' = Waiting(i) /\ (Healthy(i)' <=> Healthy(i))
    BY <2>1 DEF Waiting, Healthy
  <2>5. ASSUME NEW i \in Instances, Healthy(i) PROVE i \in DOMAIN beats'
    <3>1. /\ i \in DOMAIN beats /\ beats[i].last \in Nat
          /\ clock <= beats[i].last + BeatInterval + MaxDelay
      BY <2>5, FreshEnough
    <3>2. beats[i].last >= clock + skew - PruneAge
      BY <1>0, <2>3, <3>1, HeartbeatAssumption
    <3> QED BY <2>2, <3>1, <3>2
  <2>6. HeartbeatTypeOK' /\ \A i \in DOMAIN beats' : beats'[i].last <= clock'
    BY <2>1, <2>2 DEF BeatInv, HeartbeatTypeOK
  <2>7. WireSound'
    BY <2>1, <2>4 DEF BeatInv, WireSound
  <2>8. RowsFresh'
    BY <2>1, <2>2, <2>4, <2>5 DEF BeatInv, RowsFresh
  <2>9. DeadSilent'
    BY <2>1, <2>2 DEF BeatInv, DeadSilent
  <2> QED BY <2>6, <2>7, <2>8, <2>9 DEF BeatInv
<1> QED
  BY <1>1, <1>2, <1>3, <1>4, <1>5, <1>6, LandStep, LoseStep DEF HeartbeatNext

\* The page of instances (heartbeat/views.go) shows every process whose last beat arrived,
\* and none that died longer ago than the window and the longest delay.
THEOREM PageShowsTheLiving == HeartbeatSpec => []ShownIffAlive
BY PageIsRight, BeatInitInvariant, BeatNextInvariant, PTL DEF HeartbeatSpec

(***************************************************************************)
(* Inbox: pages and the button "mark all read".                            *)
(***************************************************************************)
\* Rows are numbered without a gap, and a row that was stored when the open page was
\* rendered has been shown, or a full page of newer ones was before it.
InboxInv ==
    /\ InboxTypeOK
    /\ \E k \in Nat : DOMAIN notes = 1..k
    /\ \A u \in InboxUsers : inbox[u].open =>
          \A n \in inbox[u].stored :
              n \in shown[u] \/ Cardinality({m \in inbox[u].stored : m > n}) >= PageSize

\* At the start there are no rows and no pages.
LEMMA InboxInitInvariant == InboxInit => InboxInv
<1> SUFFICES ASSUME InboxInit PROVE InboxInv
  OBVIOUS
<1>1. DOMAIN notes = 1..0
  BY DEF InboxInit
<1> QED BY <1>1 DEF InboxInit, InboxInv, InboxTypeOK, NoInboxPage

\* Every delivery, insert, page and button keeps it.
LEMMA InboxNextInvariant == InboxInv /\ [InboxNext]_inboxVars => InboxInv'
<1> SUFFICES ASSUME InboxInv, [InboxNext]_inboxVars PROVE InboxInv'
  OBVIOUS
<1>0. PICK k \in Nat : DOMAIN notes = 1..k
  BY DEF InboxInv
<1>1. CASE UNCHANGED inboxVars
  BY <1>1 DEF inboxVars, InboxInv, InboxTypeOK
<1>2. ASSUME NEW u \in InboxUsers, Render(u) PROVE InboxInv'
  <2>1. /\ shown' = [shown EXCEPT ![u] = shown[u] \cup List(u, PageSize)]
        /\ inbox' = [inbox EXCEPT ![u] = [open |-> TRUE, stored |-> Stored(u)]]
        /\ notes' = notes
    BY <1>2 DEF Render
  <2>2. Stored(u) \subseteq DOMAIN notes /\ List(u, PageSize) \subseteq DOMAIN notes
    BY DEF Stored, List
  <2>3. InboxTypeOK'
    BY <2>1, <2>2 DEF InboxInv, InboxTypeOK
  <2>4. ASSUME NEW n \in Stored(u)
        PROVE  n \in List(u, PageSize) \/ Cardinality({m \in Stored(u) : m > n}) >= PageSize
    <3>1. IsFiniteSet({m \in Stored(u) : m > n})
      BY <1>0, <2>2, FS_Interval, FS_Subset
    <3>2. Cardinality({m \in Stored(u) : m > n}) \in Nat
      BY <3>1, FS_CardinalityType
    <3> QED BY <3>2, InboxAssumption DEF List
  <2>5. ASSUME NEW v \in InboxUsers, inbox'[v].open, NEW n \in inbox'[v].stored
        PROVE  n \in shown'[v] \/ Cardinality({m \in inbox'[v].stored : m > n}) >= PageSize
    <3>1. CASE v = u
      BY <2>1, <2>4, <2>5, <3>1 DEF InboxInv, InboxTypeOK
    <3>2. CASE v # u
      BY <2>1, <2>5, <3>2 DEF InboxInv, InboxTypeOK
    <3> QED BY <3>1, <3>2
  <2> QED BY <1>0, <2>1, <2>3, <2>5 DEF InboxInv
<1>3. ASSUME NEW u \in InboxUsers, ReadAll(u) PROVE InboxInv'
  <2>1. inbox' = [inbox EXCEPT ![u] = NoInboxPage] /\ UNCHANGED shown
    BY <1>3 DEF ReadAll
  <2>2. /\ DOMAIN notes' = DOMAIN notes
        /\ \A n \in DOMAIN notes' :
              notes'[n] \in [user : InboxUsers, at : {"insert", "stored", "failed"}, read : BOOLEAN]
    <3>1. CASE UNCHANGED notes
      BY <3>1 DEF InboxInv, InboxTypeOK
    <3>2. CASE notes' = [n \in DOMAIN notes |-> [notes[n] EXCEPT !.read = notes[n].read \/ n \in Marked(u)]]
      BY <3>2 DEF InboxInv, InboxTypeOK
    <3> QED BY <1>3, <3>1, <3>2 DEF ReadAll
  <2>3. InboxTypeOK'
    BY <2>1, <2>2 DEF InboxInv, InboxTypeOK, NoInboxPage
  <2>4. \A v \in InboxUsers : inbox'[v].open => v # u /\ inbox'[v] = inbox[v]
    BY <2>1 DEF InboxInv, InboxTypeOK, NoInboxPage
  <2> QED BY <1>0, <2>1, <2>2, <2>3, <2>4 DEF InboxInv
<1>4. ASSUME NEW u \in InboxUsers, NEW actor \in InboxUsers \cup {System}, Deliver(u, actor)
      PROVE  InboxInv'
  <2>1. Cardinality(DOMAIN notes) = k
    BY <1>0, FS_Interval
  <2>2. /\ notes' = [m \in 1 .. k + 1 |-> IF m < k + 1 THEN notes[m]
                                        ELSE [user |-> u, at |-> "insert", read |-> FALSE]]
        /\ UNCHANGED <<shown, inbox>>
    BY <1>4, <2>1 DEF Deliver
  <2>3. DOMAIN notes' = 1..(k + 1) /\ DOMAIN notes \subseteq DOMAIN notes'
    BY <1>0, <2>2
  <2>4. ASSUME NEW n \in DOMAIN notes'
        PROVE  notes'[n] \in [user : InboxUsers, at : {"insert", "stored", "failed"}, read : BOOLEAN]
    <3>1. CASE n = k + 1
      BY <2>2, <2>3, <3>1
    <3>2. CASE n # k + 1
      <4>1. n \in DOMAIN notes /\ notes'[n] = notes[n]
        BY <1>0, <2>2, <2>3, <3>2
      <4> QED BY <4>1 DEF InboxInv, InboxTypeOK
    <3> QED BY <3>1, <3>2
  <2>5. InboxTypeOK'
    BY <2>2, <2>3, <2>4 DEF InboxInv, InboxTypeOK
  <2>6. k + 1 \in Nat /\ DOMAIN notes' = 1..(k + 1)
    BY <2>3
  <2>7. \E j \in Nat : DOMAIN notes' = 1..j
    BY <2>6
  <2>8. \A v \in InboxUsers : inbox'[v].open =>
           \A n \in inbox'[v].stored :
               n \in shown'[v] \/ Cardinality({m \in inbox'[v].stored : m > n}) >= PageSize
    BY <2>2 DEF InboxInv
  <2> QED BY <2>5, <2>7, <2>8 DEF InboxInv
<1>5. ASSUME NEW n \in DOMAIN notes, Insert(n) PROVE InboxInv'
  <2>1. PICK at \in {"stored", "failed"} : notes' = [notes EXCEPT ![n].at = at]
    BY <1>5 DEF Insert
  <2>2. UNCHANGED <<shown, inbox>> /\ DOMAIN notes' = DOMAIN notes
    BY <1>5, <2>1 DEF Insert
  <2>3. ASSUME NEW m \in DOMAIN notes
        PROVE  notes'[m] \in [user : InboxUsers, at : {"insert", "stored", "failed"}, read : BOOLEAN]
    <3>1. CASE m = n
      BY <2>1, <3>1 DEF InboxInv, InboxTypeOK
    <3>2. CASE m # n
      BY <2>1, <3>2 DEF InboxInv, InboxTypeOK
    <3> QED BY <3>1, <3>2
  <2>4. InboxTypeOK'
    BY <2>2, <2>3 DEF InboxInv, InboxTypeOK
  <2> QED BY <2>2, <2>4 DEF InboxInv
<1> QED BY <1>1, <1>2, <1>3, <1>4, <1>5 DEF InboxNext

\* So it holds in every state.
LEMMA InboxInvariance == InboxSpec => []InboxInv
BY InboxInitInvariant, InboxNextInvariant, PTL DEF InboxSpec

\* What becomes read was on a page, or behind a full one, or came late.
LEMMA MarkingStep ==
    ASSUME InboxInv, InboxNext, NEW n \in DOMAIN notes, ~ notes[n].read, notes'[n].read
    PROVE  LET p == inbox[notes[n].user]
           IN  /\ p.open
               /\ n \in p.stored =>
                     \/ n \in shown[notes[n].user]
                     \/ Cardinality({m \in p.stored : m > n}) >= PageSize
<1>1. ASSUME NEW u \in InboxUsers, Render(u) PROVE FALSE
  BY <1>1 DEF Render
<1>2. ASSUME NEW u \in InboxUsers, NEW actor, Deliver(u, actor) PROVE FALSE
  <2>1. PICK k \in Nat : DOMAIN notes = 1..k
    BY DEF InboxInv
  <2>2. Cardinality(DOMAIN notes) = k
    BY <2>1, FS_Interval
  <2>3. notes'[n] = notes[n]
    BY <1>2, <2>1, <2>2 DEF Deliver
  <2> QED BY <2>3
<1>3. ASSUME NEW m \in DOMAIN notes, Insert(m) PROVE FALSE
  <2>1. PICK at \in {"stored", "failed"} : notes' = [notes EXCEPT ![m].at = at]
    BY <1>3 DEF Insert
  <2>2. notes[n] \in [user : InboxUsers, at : {"insert", "stored", "failed"}, read : BOOLEAN]
    BY DEF InboxInv, InboxTypeOK
  <2>3. notes'[n].read = notes[n].read
    <3>1. CASE m = n
      BY <2>1, <2>2, <3>1
    <3>2. CASE m # n
      BY <2>1, <3>2
    <3> QED BY <3>1, <3>2
  <2> QED BY <2>3
<1>4. PICK u \in InboxUsers : ReadAll(u)
  BY <1>1, <1>2, <1>3 DEF InboxNext
<1>5. notes' = [m \in DOMAIN notes |-> [notes[m] EXCEPT !.read = notes[m].read \/ m \in Marked(u)]]
  BY <1>4 DEF ReadAll
<1>6. notes[n] \in [user : InboxUsers, at : {"insert", "stored", "failed"}, read : BOOLEAN]
  BY DEF InboxInv, InboxTypeOK
<1>7. notes'[n].read = (notes[n].read \/ n \in Marked(u))
  BY <1>5, <1>6
<1>8. notes[n].user = u /\ inbox[u].open
  BY <1>4, <1>7 DEF ReadAll, Marked, Unread, Stored
<1> QED BY <1>8 DEF InboxInv

\* "Mark all read" (notify.go) marks only what is on the page of the user who asked, behind
\* a full page of newer rows, or newer than the page.
THEOREM MarkingIsHonest == InboxSpec => UnseenOnlyIfLate
<1>1. InboxInv /\ [InboxNext]_inboxVars =>
        [\A n \in DOMAIN notes :
          LET p == inbox[notes[n].user]
          IN  ~ notes[n].read /\ notes'[n].read =>
                 /\ p.open
                 /\ n \in p.stored =>
                       \/ n \in shown[notes[n].user]
                       \/ Cardinality({m \in p.stored : m > n}) >= PageSize]_inboxVars
  BY MarkingStep
<1> QED BY <1>1, InboxInvariance, PTL DEF InboxSpec, UnseenOnlyIfLate

(***************************************************************************)
(* SignIn: the gate, the login and its record.                             *)
(***************************************************************************)
Behind == {a \in Attempts : attempt[a].pc \in {"host", "in", "out"}}

\* An entry as the page of its account shows it.
TrueEntry(e) ==
    IF e.success THEN e.user = e.by
    ELSE e.user # NoUser => e.typed \in DOMAIN ByName /\ e.user = ByName[e.typed]

\* What was let through is recorded or still behind the gate; whoever is in is known.
SignInInv ==
    /\ SignInTypeOK
    /\ passed \in Seq(Nat)
    /\ enabled => /\ IsInjective(passed) /\ ToSet(passed) \subseteq spent
                  /\ Len(loginLog) + Cardinality(Behind) <= Len(passed)
    /\ \A a \in Attempts : attempt[a].user = NoUser <=> attempt[a].pc # "in"
    /\ HistoryIsOwn

\* A request that stays on its side of the gate, goes through it, or is done.
LEMMA BehindStep ==
    ASSUME SignInInv, NEW a \in Attempts, NEW new, attempt' = [attempt EXCEPT ![a] = new]
    PROVE  /\ Cardinality(Behind) \in Nat
           /\ attempt[a].pc \in {"host", "in", "out"} /\ new.pc \notin {"host", "in", "out"} =>
                 Cardinality(Behind)' = Cardinality(Behind) - 1
           /\ attempt[a].pc \notin {"host", "in", "out"} /\ new.pc \in {"host", "in", "out"} =>
                 Cardinality(Behind)' = Cardinality(Behind) + 1
           /\ (attempt[a].pc \in {"host", "in", "out"} <=> new.pc \in {"host", "in", "out"}) =>
                 Cardinality(Behind)' = Cardinality(Behind)
<1>1. IsFiniteSet(Behind) /\ Cardinality(Behind) \in Nat
  BY SignInAssumption, FS_Subset, FS_CardinalityType DEF Behind
<1>2. \A b \in Attempts : attempt'[b] = IF b = a THEN new ELSE attempt[b]
  BY DEF SignInInv, SignInTypeOK
<1>3. CASE a \in Behind /\ new.pc \notin {"host", "in", "out"}
  <2>1. Behind' = Behind \ {a}
    BY <1>2, <1>3 DEF Behind
  <2>2. Cardinality(Behind \ {a}) = Cardinality(Behind) - 1
    BY <1>1, <1>3, FS_RemoveElement
  <2> QED BY <1>1, <1>3, <2>1, <2>2 DEF Behind
<1>4. CASE a \notin Behind /\ new.pc \in {"host", "in", "out"}
  <2>1. Behind' = Behind \cup {a}
    BY <1>2, <1>4 DEF Behind
  <2>2. Cardinality(Behind \cup {a}) = Cardinality(Behind) + 1
    BY <1>1, <1>4, FS_AddElement
  <2> QED BY <1>1, <1>4, <2>1, <2>2 DEF Behind
<1>5. CASE a \in Behind <=> new.pc \in {"host", "in", "out"}
  <2>1. Behind' = Behind
    BY <1>2, <1>5 DEF Behind
  <2> QED BY <1>1, <1>5, <2>1 DEF Behind
<1> QED BY <1>3, <1>4, <1>5

\* A fresh token is passed once more.
LEMMA PassedOnce ==
    ASSUME passed \in Seq(Nat), IsInjective(passed), NEW t \in Nat, t \notin ToSet(passed)
    PROVE  /\ Append(passed, t) \in Seq(Nat) /\ Len(Append(passed, t)) = Len(passed) + 1
           /\ IsInjective(Append(passed, t)) /\ ToSet(Append(passed, t)) = ToSet(passed) \cup {t}
<1> DEFINE s == Append(passed, t)
           n == Len(passed)
<1>1. /\ n \in Nat /\ DOMAIN passed = 1..n
      /\ s \in Seq(Nat) /\ Len(s) = n + 1 /\ DOMAIN s = 1..(n + 1)
      /\ \A i \in 1..n : s[i] = passed[i]
      /\ s[n + 1] = t
  BY LenProperties, AppendProperties
<1> HIDE DEF s, n
<1>2. \A i \in 1..n : s[i] \in ToSet(passed)
  BY <1>1 DEF ToSet
<1>3. IsInjective(s)
  <2> SUFFICES ASSUME NEW i \in 1..(n + 1), NEW j \in 1..(n + 1), s[i] = s[j] PROVE i = j
    BY <1>1 DEF IsInjective
  <2>1. CASE i \in 1..n /\ j \in 1..n
    BY <1>1, <2>1 DEF IsInjective
  <2>2. CASE i = n + 1 \/ j = n + 1
    BY <1>1, <1>2, <2>2
  <2> QED BY <1>1, <2>1, <2>2
<1>4. ToSet(s) = ToSet(passed) \cup {t}
  <2>1. ToSet(s) \subseteq ToSet(passed) \cup {t}
    BY <1>1, <1>2 DEF ToSet
  <2>2. t \in ToSet(s)
    <3>1. n + 1 \in DOMAIN s
      BY <1>1
    <3> QED BY <1>1, <3>1 DEF ToSet
  <2>3. \A x \in ToSet(passed) : x \in ToSet(s)
    <3> SUFFICES ASSUME NEW i \in 1..n PROVE passed[i] \in ToSet(s)
      BY <1>1 DEF ToSet
    <3>1. i \in DOMAIN s /\ s[i] = passed[i]
      BY <1>1
    <3> QED BY <3>1 DEF ToSet
  <2> QED BY <2>1, <2>2, <2>3
<1> QED BY <1>1, <1>3, <1>4 DEF s, n

\* At the start nobody is behind the gate.
LEMMA SignInInitInvariant == SignInInit => SignInInv
<1> SUFFICES ASSUME SignInInit PROVE SignInInv
  OBVIOUS
<1>1. Behind = {}
  BY DEF SignInInit, NoAttempt, Behind
<1>2. Cardinality(Behind) = 0 /\ Len(<<>>) = 0
  BY <1>1, FS_EmptySet
<1>3. /\ IsInjective(<<>>) /\ ToSet(<<>>) = {} /\ DOMAIN <<>> = {}
  BY DEF IsInjective, ToSet
<1>4. SignInTypeOK
  BY SignInAssumption DEF SignInInit, SignInTypeOK, NoAttempt, NoToken, Forged, Typed
<1>5. passed = <<>> /\ loginLog = <<>> /\ attempt = [a \in Attempts |-> NoAttempt]
  BY DEF SignInInit
<1>6. \A a \in Attempts : attempt[a].user = NoUser /\ attempt[a].pc = "idle"
  BY <1>5 DEF NoAttempt
<1>7. HistoryIsOwn
  BY <1>3, <1>5 DEF HistoryIsOwn
<1> QED BY <1>2, <1>3, <1>4, <1>5, <1>6, <1>7 DEF SignInInv

\* Steps that touch neither the log nor what was passed, and keep the request in front of
\* the gate or behind it.
LEMMA SameSide ==
    ASSUME SignInInv, UNCHANGED <<enabled, given, loginLog, passed>>,
           spent \subseteq spent', spent' \subseteq 1..given,
           NEW a \in Attempts,
           NEW new \in [pc : {"idle", "gate", "host", "in", "out"}, typed : Typed,
                        token : 0 .. Forged, user : Accounts \cup {NoUser}],
           attempt' = [attempt EXCEPT ![a] = new],
           attempt[a].pc \in {"host", "in", "out"} <=> new.pc \in {"host", "in", "out"},
           new.user = NoUser <=> new.pc # "in"
    PROVE  SignInInv'
<1>1. Cardinality(Behind)' = Cardinality(Behind)
  BY BehindStep
<1>2. SignInTypeOK'
  BY DEF SignInInv, SignInTypeOK
<1>3. \A b \in Attempts : attempt'[b].user = NoUser <=> attempt'[b].pc # "in"
  BY DEF SignInInv, SignInTypeOK
<1>4. HistoryIsOwn'
  BY DEF SignInInv, HistoryIsOwn
<1> QED BY <1>1, <1>2, <1>3, <1>4 DEF SignInInv

\* A form is posted.
LEMMA PostStep ==
    ASSUME SignInInv, NEW a \in Attempts, NEW typed \in Typed,
           NEW form \in (0 .. given) \cup {Spaces, Forged},
           NEW header \in (0 .. given) \cup {Spaces, Forged}, Post(a, typed, form, header)
    PROVE  SignInInv'
<1>1. Token(form, header) \in 0..Forged
  BY SignInAssumption DEF Token, Forged, Spaces, SignInInv, SignInTypeOK
<1>2. /\ attempt' = [attempt EXCEPT ![a] = [pc |-> "gate", typed |-> typed,
                                          token |-> Token(form, header), user |-> NoUser]]
      /\ attempt[a].pc = "idle" /\ UNCHANGED <<enabled, given, spent, loginLog, passed>>
  BY DEF Post
<1>3. spent \subseteq 1..given
  BY DEF SignInInv, SignInTypeOK
<1> QED BY <1>1, <1>2, <1>3, SameSide

\* The gate turns the request away.
LEMMA TurnedStep ==
    ASSUME SignInInv, NEW a \in Attempts, attempt[a].pc = "gate", Turned(a),
           spent \subseteq spent', spent' \subseteq 1..given, UNCHANGED <<enabled, given, loginLog>>
    PROVE  SignInInv'
<1>1. /\ NoAttempt \in [pc : {"idle", "gate", "host", "in", "out"}, typed : Typed,
                        token : 0 .. Forged, user : Accounts \cup {NoUser}]
      /\ NoAttempt.pc = "idle" /\ NoAttempt.user = NoUser
  BY SignInAssumption DEF NoAttempt, NoToken, Forged, Typed
<1>2. attempt' = [attempt EXCEPT ![a] = NoAttempt] /\ UNCHANGED passed
  BY DEF Turned
<1> HIDE DEF NoAttempt
<1> QED BY <1>1, <1>2, SameSide

\* A request passes the gate with a token that was not spent, or there is no gate.
LEMMA AdmitStep ==
    ASSUME SignInInv, NEW a \in Attempts, attempt[a].pc = "gate", Admit(a),
           UNCHANGED <<enabled, given, loginLog>>,
           \/ enabled /\ attempt[a].token \in (1..given) \ spent /\ spent' = spent \cup {attempt[a].token}
           \/ ~ enabled /\ spent' = spent
    PROVE  SignInInv'
<1> DEFINE new == [attempt[a] EXCEPT !.pc = "host"]
<1>1. attempt' = [attempt EXCEPT ![a] = new]
  BY DEF Admit
<1>2. /\ new \in [pc : {"host"}, typed : Typed, token : 0 .. Forged, user : {NoUser}]
      /\ new.pc = "host" /\ new.user = NoUser
  BY DEF SignInInv, SignInTypeOK
<1> HIDE DEF new
<1>3. Cardinality(Behind)' = Cardinality(Behind) + 1 /\ Cardinality(Behind) \in Nat
  BY <1>1, <1>2, BehindStep
<1>4. SignInTypeOK'
  BY <1>1, <1>2 DEF SignInInv, SignInTypeOK
<1>5. \A b \in Attempts : attempt'[b].user = NoUser <=> attempt'[b].pc # "in"
  BY <1>1, <1>2 DEF SignInInv, SignInTypeOK
<1>6. HistoryIsOwn'
  BY DEF SignInInv, HistoryIsOwn
<1>7. CASE enabled
  <2> DEFINE t == attempt[a].token
  <2>1. passed' = Append(passed, t) /\ spent' = spent \cup {t} /\ t \in Nat /\ t \notin ToSet(passed)
    BY <1>7 DEF Admit, SignInInv, SignInTypeOK
  <2> HIDE DEF t
  <2>2. /\ Append(passed, t) \in Seq(Nat) /\ Len(Append(passed, t)) = Len(passed) + 1
        /\ IsInjective(Append(passed, t)) /\ ToSet(Append(passed, t)) = ToSet(passed) \cup {t}
    BY <1>7, <2>1, PassedOnce DEF SignInInv
  <2>3. Len(passed) \in Nat /\ Len(loginLog) \in Nat
    BY LenProperties DEF SignInInv, SignInTypeOK
  <2>4. /\ passed' \in Seq(Nat) /\ IsInjective(passed') /\ ToSet(passed') \subseteq spent'
        /\ Len(loginLog') + Cardinality(Behind)' <= Len(passed')
    BY <1>3, <1>7, <2>1, <2>2, <2>3 DEF SignInInv
  <2> QED BY <1>4, <1>5, <1>6, <2>4 DEF SignInInv
<1>8. CASE ~ enabled
  BY <1>4, <1>5, <1>6, <1>8 DEF Admit, SignInInv
<1> QED BY <1>7, <1>8

\* The host's handler tries the login.
LEMMA JudgedStep ==
    ASSUME SignInInv, NEW a \in Attempts, Judged(a)
    PROVE  SignInInv'
<1>1. /\ attempt[a].pc = "host" /\ attempt[a].user = NoUser
      /\ attempt[a] \in [pc : {"idle", "gate", "host", "in", "out"}, typed : Typed,
                        token : 0 .. Forged, user : Accounts \cup {NoUser}]
  BY DEF Judged, SignInInv, SignInTypeOK
<1>2. spent \subseteq 1..given /\ UNCHANGED <<enabled, given, spent, loginLog, passed>>
  BY DEF Judged, SignInInv, SignInTypeOK
<1>3. CASE attempt' = [attempt EXCEPT ![a].pc = "out"]
  <2> DEFINE new == [attempt[a] EXCEPT !.pc = "out"]
  <2>1. /\ new \in [pc : {"out"}, typed : Typed, token : 0 .. Forged, user : {NoUser}]
        /\ new.pc = "out" /\ new.user = NoUser /\ attempt' = [attempt EXCEPT ![a] = new]
    BY <1>1, <1>3
  <2> HIDE DEF new
  <2> QED BY <1>1, <1>2, <2>1, SameSide
<1>4. CASE /\ attempt[a].typed # Unknown
           /\ attempt' = [attempt EXCEPT ![a].pc = "in", ![a].user = FoundBy(attempt[a].typed)]
  <2> DEFINE user == FoundBy(attempt[a].typed)
             new == [attempt[a] EXCEPT !.pc = "in", !.user = user]
  <2>1. user \in Accounts /\ user # NoUser
    BY <1>1, <1>4, SignInAssumption DEF FoundBy, Typed, Accounts
  <2> HIDE DEF user
  <2>2. /\ new \in [pc : {"in"}, typed : Typed, token : 0 .. Forged, user : Accounts]
        /\ new.pc = "in" /\ new.user = user /\ attempt' = [attempt EXCEPT ![a] = new]
    BY <1>1, <1>4, <2>1 DEF user, SignInInv, SignInTypeOK
  <2> HIDE DEF new
  <2> QED BY <1>1, <1>2, <2>1, <2>2, SameSide
<1> QED BY <1>3, <1>4 DEF Judged

\* The outcome is recorded, or the insert fails.
LEMMA RecordStep ==
    ASSUME SignInInv, NEW a \in Attempts, Record(a)
    PROVE  SignInInv'
<1>1. /\ NoAttempt \in [pc : {"idle", "gate", "host", "in", "out"}, typed : Typed,
                        token : 0 .. Forged, user : Accounts \cup {NoUser}]
      /\ NoAttempt.pc = "idle" /\ NoAttempt.user = NoUser
  BY SignInAssumption DEF NoAttempt, NoToken, Forged, Typed
<1>2. /\ attempt[a].pc \in {"in", "out"} /\ attempt' = [attempt EXCEPT ![a] = NoAttempt]
      /\ UNCHANGED <<enabled, given, spent, passed>>
  BY DEF Record
<1> HIDE DEF NoAttempt
<1>3. Cardinality(Behind)' = Cardinality(Behind) - 1 /\ Cardinality(Behind) \in Nat
  BY <1>1, <1>2, BehindStep
<1>4. \A b \in Attempts : attempt'[b].user = NoUser <=> attempt'[b].pc # "in"
  BY <1>1, <1>2 DEF SignInInv, SignInTypeOK
<1>5. Len(loginLog) \in Nat /\ Len(passed) \in Nat
  BY LenProperties DEF SignInInv, SignInTypeOK
<1>6. CASE UNCHANGED loginLog
  <2>1. SignInTypeOK'
    BY <1>1, <1>2, <1>6 DEF SignInInv, SignInTypeOK
  <2>2. HistoryIsOwn'
    BY <1>6 DEF SignInInv, HistoryIsOwn
  <2> QED BY <1>2, <1>3, <1>4, <1>5, <1>6, <2>1, <2>2 DEF SignInInv
<1>7. ASSUME NEW found \in IDByName(attempt[a].typed),
             loginLog' = Append(loginLog, [user |-> Attributed(attempt[a].user, found),
                                           typed |-> attempt[a].typed,
                                           success |-> attempt[a].pc = "in", by |-> attempt[a].user])
      PROVE  SignInInv'
  <2> DEFINE Entry == [user : Accounts \cup {NoUser}, typed : Typed, success : BOOLEAN,
                       by : Accounts \cup {NoUser}]
  <2>1. PICK e \in Entry : /\ loginLog' = Append(loginLog, e) /\ TrueEntry(e)
    <3> DEFINE e == [user |-> Attributed(attempt[a].user, found), typed |-> attempt[a].typed,
                     success |-> attempt[a].pc = "in", by |-> attempt[a].user]
    <3>1. /\ attempt[a].user \in Accounts \cup {NoUser} /\ attempt[a].typed \in Typed
          /\ attempt[a].user = NoUser <=> attempt[a].pc # "in"
      BY DEF SignInInv, SignInTypeOK
    <3>2. found = NoUser \/ (attempt[a].typed \in DOMAIN ByName /\ found = ByName[attempt[a].typed])
      BY <1>7 DEF IDByName
    <3>3. found \in Accounts \cup {NoUser}
      BY <3>2 DEF Accounts
    <3>4. e \in Entry
      BY <3>1, <3>3 DEF Attributed
    <3>5. TrueEntry(e)
      BY <3>1, <3>2 DEF TrueEntry, Attributed
    <3> QED BY <1>7, <3>4, <3>5
  <2>2. /\ loginLog \in Seq(Entry) /\ loginLog' \in Seq(Entry) /\ Len(loginLog') = Len(loginLog) + 1
        /\ \A i \in 1..Len(loginLog) : loginLog'[i] = loginLog[i]
        /\ loginLog'[Len(loginLog) + 1] = e
    BY <2>1, AppendProperties DEF SignInInv, SignInTypeOK
  <2>3. DOMAIN loginLog = 1..Len(loginLog) /\ DOMAIN loginLog' = 1..(Len(loginLog) + 1)
    BY <2>2, LenProperties
  <2>4. SignInTypeOK'
    BY <1>1, <1>2, <2>2 DEF SignInInv, SignInTypeOK
  <2>5. \A i \in DOMAIN loginLog' : TrueEntry(loginLog'[i])
    <3>1. \A i \in DOMAIN loginLog : TrueEntry(loginLog[i])
      BY DEF SignInInv, HistoryIsOwn, TrueEntry
    <3> QED BY <1>5, <2>1, <2>2, <2>3, <3>1
  <2>6. HistoryIsOwn'
    BY <2>5 DEF HistoryIsOwn, TrueEntry
  <2> QED BY <1>2, <1>3, <1>4, <1>5, <2>2, <2>4, <2>6 DEF SignInInv
<1> QED BY <1>6, <1>7 DEF Record

\* Every step of the requests keeps it.
LEMMA SignInNextInvariant == SignInInv /\ [SignInNext]_signVars => SignInInv'
<1> SUFFICES ASSUME SignInInv, [SignInNext]_signVars PROVE SignInInv'
  OBVIOUS
<1>1. CASE UNCHANGED signVars
  BY <1>1 DEF signVars, SignInInv, SignInTypeOK, Behind, HistoryIsOwn
<1>2. CASE Solve
  <2>1. given < MaxTokens /\ given' = given + 1 /\ UNCHANGED <<enabled, spent, attempt, loginLog, passed>>
    BY <1>2 DEF Solve
  <2>2. SignInTypeOK'
    BY <2>1, SignInAssumption DEF SignInInv, SignInTypeOK
  <2>3. Cardinality(Behind)' = Cardinality(Behind) /\ HistoryIsOwn'
    BY <2>1 DEF Behind, SignInInv, HistoryIsOwn
  <2> QED BY <2>1, <2>2, <2>3 DEF SignInInv
<1>3. ASSUME NEW a \in Attempts, Unasked(a) PROVE SignInInv'
  <2>1. spent \subseteq 1..given
    BY DEF SignInInv, SignInTypeOK
  <2>2. CASE ~ enabled /\ Admit(a)
    BY <1>3, <2>2, AdmitStep DEF Unasked
  <2>3. CASE Turned(a)
    BY <1>3, <2>1, <2>3, TurnedStep DEF Unasked
  <2> QED BY <1>3, <2>2, <2>3 DEF Unasked
<1>4. ASSUME NEW a \in Attempts, SiteVerify(a) PROVE SignInInv'
  <2>1. spent \subseteq 1..given
    BY DEF SignInInv, SignInTypeOK
  <2>2. CASE Turned(a)
    BY <1>4, <2>1, <2>2, TurnedStep DEF SiteVerify
  <2>3. CASE /\ attempt[a].token \in (1..given) \ spent
             /\ spent' = spent \cup {attempt[a].token} /\ Admit(a)
    BY <1>4, <2>3, AdmitStep DEF SiteVerify
  <2> QED BY <1>4, <2>2, <2>3 DEF SiteVerify, Unverified
<1> QED
  BY <1>1, <1>2, <1>3, <1>4, PostStep, JudgedStep, RecordStep DEF SignInNext

\* So it holds in every state.
LEMMA SignInInvariance == SignInSpec => []SignInInv
BY SignInInitInvariant, SignInNextInvariant, PTL DEF SignInSpec

\* The captcha's gate fails closed: no two requests come through it on one solved challenge,
\* and no sign-in is recorded without one.
THEOREM GateFailsClosed == SignInSpec => []OneChallengeEach
<1>1. SignInInv => OneChallengeEach
  <2> SUFFICES ASSUME SignInInv PROVE OneChallengeEach
    OBVIOUS
  <2>1. Cardinality(Behind) \in Nat
    BY SignInAssumption, FS_Subset, FS_CardinalityType DEF Behind
  <2>2. Len(loginLog) \in Nat /\ Len(passed) \in Nat
    BY LenProperties DEF SignInInv, SignInTypeOK
  <2> QED BY <2>1, <2>2 DEF SignInInv, OneChallengeEach
<1> QED BY <1>1, SignInInvariance, PTL

\* The sign-ins shown to a user (loginlog.go) are the account's own logins and failures on
\* its name.
THEOREM HistoryIsTrue == SignInSpec => []HistoryIsOwn
<1>1. SignInInv => HistoryIsOwn
  BY DEF SignInInv
<1> QED BY <1>1, SignInInvariance, PTL

(***************************************************************************)
(* ApiKey: the key that a page shows works or was rotated meanwhile.       *)
(***************************************************************************)
\* Keys are generated once: no two rows share one, and none comes back.
KeysFresh ==
    /\ \A u \in DOMAIN rows : rows[u].key < nextKey /\ rows[u].key \notin retired
    /\ \A u, v \in DOMAIN rows : rows[u].key = rows[v].key => u = v
    /\ \A k \in retired : k < nextKey

\* A page whose insert is done finds a row, with a key that was not dead
\* when the visit began.
PagesServed ==
    \A q \in KeyRequests :
        /\ page[q].pc \in {"read", "shown"} => page[q].user \in DOMAIN rows /\ page[q].old \subseteq retired
        /\ page[q].pc = "shown" =>
              \/ page[q].user \in DOMAIN rows /\ rows[page[q].user].key = page[q].key
              \/ page[q].key \in retired \ page[q].old

KeyInv == KeyTypeOK /\ KeysFresh /\ PagesServed

(***************************************************************************)
(* ApiKey: the steps.                                                      *)
(***************************************************************************)
\* NoPage is a page of some user.
LEMMA NoPageType ==
  NoPage \in [pc : {"idle", "read", "shown", "rotated"}, user : KeyUsers, key : Nat, old : SUBSET Nat]
<1>1. (CHOOSE u \in KeyUsers : TRUE) \in KeyUsers
  BY KeyAssumption
<1> QED
  BY <1>1 DEF NoPage

\* Nobody has a key, and no page is open.
LEMMA KeyInitInvariant == KeyInit => KeyInv
<1> SUFFICES ASSUME KeyInit PROVE KeyInv
  OBVIOUS
<1> USE DEF KeyInit
<1>1. KeyTypeOK
  BY NoPageType DEF KeyTypeOK, IsTable
<1>2. KeysFresh
  BY DEF KeysFresh
<1>3. PagesServed
  BY DEF PagesServed, NoPage
<1> QED
  BY <1>1, <1>2, <1>3 DEF KeyInv

\* The insert of Ensure leaves a row alone that is there, and adds one
\* with the new key to a user without (pgstore.go:49-56).
LEMMA InsertStep ==
  ASSUME KeyInv, NEW q \in KeyRequests, NEW u \in KeyUsers, EnsureInsert(q, u)
  PROVE  KeyInv'
<1> USE DEF KeyInv
<1>1. /\ DOMAIN rows' = DOMAIN rows \cup {u}
      /\ \A v \in DOMAIN rows : rows'[v] = rows[v]
      /\ u \notin DOMAIN rows => rows'[u] = [key |-> nextKey, rotated |-> FALSE]
      /\ retired' = retired /\ nextKey' = nextKey + 1 /\ replica' = replica
      /\ page' = [page EXCEPT ![q] = [pc |-> "read", user |-> u, key |-> nextKey, old |-> retired]]
  BY DEF EnsureInsert, InsertIfNone, Generate
<1>2. nextKey \in Nat /\ \A v \in DOMAIN rows : rows[v] \in KeyRow /\ rows[v].key \in Nat
  BY DEF KeyTypeOK, IsTable, KeyRow
<1>3. KeyTypeOK'
  <2>1. IsTable(rows)'
    <3>1. [key |-> nextKey, rotated |-> FALSE] \in KeyRow
      BY <1>2 DEF KeyRow
    <3>2. \A v \in DOMAIN rows' : rows'[v] \in KeyRow
      BY <1>1, <1>2, <3>1
    <3> QED
      BY <1>1, <3>2 DEF KeyTypeOK, IsTable
  <2> QED
    BY <1>1, <2>1 DEF KeyTypeOK, IsTable
<1>4. KeysFresh'
  BY <1>1, <1>2 DEF KeysFresh, KeyTypeOK
<1>5. PagesServed'
  BY <1>1, <1>2 DEF PagesServed, KeyTypeOK
<1> QED
  BY <1>3, <1>4, <1>5

\* Regeneration retires the key of the row, if there is one (pgstore.go:66-72).
LEMMA RotateStep ==
  ASSUME KeyInv, NEW q \in KeyRequests, NEW u \in KeyUsers, Rotate(q, u)
  PROVE  KeyInv'
<1> USE DEF KeyInv
<1>1. /\ DOMAIN rows' = DOMAIN rows \cup {u}
      /\ \A v \in DOMAIN rows : v # u => rows'[v] = rows[v]
      /\ rows'[u] = [key |-> nextKey, rotated |-> u \in DOMAIN rows]
      /\ retired' = retired \cup (IF u \in DOMAIN rows THEN {rows[u].key} ELSE {})
      /\ nextKey' = nextKey + 1 /\ replica' = replica
      /\ page' = [page EXCEPT ![q] = [NoPage EXCEPT !.pc = "rotated", !.user = u]]
  BY DEF Rotate, Upsert, Generate
<1>2. nextKey \in Nat /\ \A v \in DOMAIN rows : rows[v] \in KeyRow /\ rows[v].key \in Nat
  BY DEF KeyTypeOK, IsTable, KeyRow
<1>3. KeyTypeOK'
  <2>1. IsTable(rows)'
    <3>1. [key |-> nextKey, rotated |-> u \in DOMAIN rows] \in KeyRow
      BY <1>2 DEF KeyRow
    <3>2. \A v \in DOMAIN rows' : rows'[v] \in KeyRow
      BY <1>1, <1>2, <3>1
    <3> QED
      BY <1>1, <3>2 DEF KeyTypeOK, IsTable
  <2>2. retired' \in SUBSET Nat
    BY <1>1, <1>2 DEF KeyTypeOK
  <2>3. [NoPage EXCEPT !.pc = "rotated", !.user = u]
          \in [pc : {"idle", "read", "shown", "rotated"}, user : KeyUsers, key : Nat, old : SUBSET Nat]
    BY NoPageType
  <2> QED
    BY <1>1, <1>2, <2>1, <2>2, <2>3 DEF KeyTypeOK, IsTable
<1>4. KeysFresh'
  BY <1>1, <1>2 DEF KeysFresh, KeyTypeOK
<1>5. PagesServed'
  <2> SUFFICES ASSUME NEW r \in KeyRequests, page'[r].pc \in {"read", "shown"}
               PROVE  /\ page'[r].user \in DOMAIN rows' /\ page'[r].old \subseteq retired'
                      /\ page'[r].pc = "shown" =>
                            \/ page'[r].user \in DOMAIN rows' /\ rows'[page'[r].user].key = page'[r].key
                            \/ page'[r].key \in retired' \ page'[r].old
    BY DEF PagesServed
  <2>1. r # q /\ page'[r] = page[r]
    BY <1>1, NoPageType DEF KeyTypeOK
  <2>2. page[r].user \in DOMAIN rows /\ page[r].old \subseteq retired
    BY <2>1 DEF PagesServed
  <2>3. CASE page[r].user # u
    BY <1>1, <2>1, <2>2, <2>3 DEF PagesServed
  <2>4. CASE page[r].user = u
    \* The key that a page shows goes, and it was alive until now.
    <3>1. rows[u].key \notin page[r].old
      BY <2>2, <2>4 DEF KeysFresh
    <3> QED
      BY <1>1, <2>1, <2>2, <2>4, <3>1 DEF PagesServed
  <2> QED
    BY <2>3, <2>4
<1> QED
  BY <1>3, <1>4, <1>5

\* The other steps change no row: a page reads, ends, or the replica catches up.
LEMMA OtherStep ==
  ASSUME KeyInv,
         \/ Replicate
         \/ \E q \in KeyRequests : EnsureRead(q) \/ ClosePage(q)
  PROVE  KeyInv'
<1> USE DEF KeyInv
<1>1. rows' = rows /\ retired' = retired /\ nextKey' = nextKey
  BY DEF Replicate, EnsureRead, ClosePage
<1>2. KeysFresh'
  BY <1>1 DEF KeysFresh
<1>3. CASE Replicate
  BY <1>1, <1>2, <1>3 DEF Replicate, KeyTypeOK, IsTable, PagesServed
<1>4. ASSUME NEW q \in KeyRequests, EnsureRead(q) PROVE KeyInv'
  <2> USE <1>4 DEF EnsureRead
  <2>1. StoredKey(q) \in Nat
    BY DEF StoredKey, PagesServed, KeyTypeOK, IsTable, KeyRow
  <2>2. KeyTypeOK'
    BY <1>1, <2>1 DEF KeyTypeOK, IsTable
  <2>3. PagesServed'
    BY <1>1 DEF PagesServed, KeyTypeOK, StoredKey
  <2> QED
    BY <1>2, <2>2, <2>3
<1>5. ASSUME NEW q \in KeyRequests, ClosePage(q) PROVE KeyInv'
  <2> USE <1>5 DEF ClosePage
  <2>1. KeyTypeOK'
    BY <1>1, NoPageType DEF KeyTypeOK, IsTable
  <2>2. PagesServed'
    BY <1>1 DEF PagesServed, KeyTypeOK, NoPage
  <2> QED
    BY <1>2, <2>1, <2>2
<1> QED
  BY <1>3, <1>4, <1>5

\* Every step keeps the invariant.
LEMMA KeyNextInvariant == KeyInv /\ [KeyNext]_keyVars => KeyInv'
<1> SUFFICES ASSUME KeyInv, [KeyNext]_keyVars PROVE KeyInv'
  OBVIOUS
<1>1. CASE UNCHANGED keyVars
  BY <1>1 DEF keyVars, KeyInv, KeyTypeOK, IsTable, KeysFresh, PagesServed
<1>2. CASE KeyNext
  BY <1>2, InsertStep, RotateStep, OtherStep DEF KeyNext
<1> QED
  BY <1>1, <1>2

(***************************************************************************)
(* ApiKey: the theorems.                                                   *)
(***************************************************************************)
\* The invariant holds in every state, for any users, requests and number of keys.
THEOREM KeyInvariance == KeySpec => []KeyInv
BY KeyInitInvariant, KeyNextInvariant, PTL DEF KeySpec

\* A page shows a key of its user that resolves, or one that was replaced after the
\* page was asked for (apikey.go:136-152, pgstore.go:44-58).
THEOREM ShownWorks == KeySpec => []ShownKeyWorks
<1>1. KeyInv => ShownKeyWorks
  BY DEF KeyInv, KeysFresh, PagesServed, ShownKeyWorks, Resolve
<1> QED
  BY <1>1, KeyInvariance, PTL

(***************************************************************************)
(* ApiKey: the replica.                                                    *)
(***************************************************************************)
\* The replica may be late, and has no keys of its own: one that it resolves is still its
\* user's, or was rotated.
ReplicaLate ==
    \A u \in DOMAIN replica :
        \/ u \in DOMAIN rows /\ rows[u].key = replica[u].key
        \/ replica[u].key \in retired

\* What one step does to the rows: a key stays, or its user rotates it and it is retired.
LEMMA RowsStep ==
  ASSUME KeyInv, KeyNext
  PROVE  /\ retired \subseteq retired'
         /\ \A u \in DOMAIN rows :
               \/ u \in DOMAIN rows' /\ rows'[u] = rows[u]
               \/ /\ rows[u].key \in retired'
                  /\ \E q \in KeyRequests :
                        page[q].pc = "idle" /\ page'[q].pc = "rotated" /\ page'[q].user = u
<1>1. CASE rows' = rows /\ retired' = retired
  BY <1>1
<1>2. ASSUME NEW q \in KeyRequests, NEW u \in KeyUsers, EnsureInsert(q, u)
      PROVE  /\ DOMAIN rows' = DOMAIN rows \cup {u} /\ retired' = retired
             /\ \A v \in DOMAIN rows : rows'[v] = rows[v]
  BY <1>2 DEF EnsureInsert, InsertIfNone
<1>3. ASSUME NEW q \in KeyRequests, NEW u \in KeyUsers, Rotate(q, u)
      PROVE  /\ DOMAIN rows' = DOMAIN rows \cup {u} /\ retired \subseteq retired'
             /\ \A v \in DOMAIN rows : v # u => rows'[v] = rows[v]
             /\ u \in DOMAIN rows => rows[u].key \in retired'
             /\ page[q].pc = "idle" /\ page'[q].pc = "rotated" /\ page'[q].user = u
  <2>1. [NoPage EXCEPT !.pc = "rotated", !.user = u].pc = "rotated"
        /\ [NoPage EXCEPT !.pc = "rotated", !.user = u].user = u
    BY NoPageType
  <2>2. page' = [page EXCEPT ![q] = [NoPage EXCEPT !.pc = "rotated", !.user = u]] /\ page[q].pc = "idle"
    BY <1>3 DEF Rotate
  <2>3. page'[q].pc = "rotated" /\ page'[q].user = u
    BY <2>1, <2>2 DEF KeyInv, KeyTypeOK
  <2> QED
    BY <1>3, <2>2, <2>3 DEF Rotate, Upsert
<1>4. CASE \E q \in KeyRequests, u \in KeyUsers : EnsureInsert(q, u)
  BY <1>2, <1>4
<1>5. CASE \E q \in KeyRequests, u \in KeyUsers : Rotate(q, u)
  BY <1>3, <1>5
<1> QED
  BY <1>1, <1>4, <1>5 DEF KeyNext, Replicate, EnsureRead, ClosePage

\* The replica stays late and no more.
LEMMA ReplicaStep == KeyInv /\ ReplicaLate /\ [KeyNext]_keyVars => ReplicaLate'
<1> SUFFICES ASSUME KeyInv, ReplicaLate, [KeyNext]_keyVars PROVE ReplicaLate'
  OBVIOUS
<1>1. CASE UNCHANGED keyVars
  BY <1>1 DEF keyVars, ReplicaLate
<1>2. CASE Replicate
  BY <1>2 DEF Replicate, ReplicaLate
<1>3. CASE KeyNext /\ UNCHANGED replica
  BY <1>3, RowsStep DEF ReplicaLate
<1> QED
  BY <1>1, <1>2, <1>3
     DEF KeyNext, EnsureInsert, Rotate, EnsureRead, ClosePage, keyVars

\* A key that resolves, on the primary or on a replica that lags (apikey.go, Resolve), goes on
\* to until its user rotates it: no visit of a page cuts a connected app off.
THEOREM KeysLast == KeySpec => OnlyRotationRetires
<1>1. KeyInit => ReplicaLate
  BY DEF KeyInit, ReplicaLate
<1>2. ASSUME KeyInv, KeyInv', ReplicaLate, KeyNext, NEW u \in DOMAIN rows
      PROVE  \/ Resolve(rows', rows[u].key) = {u}
             \/ \E q \in KeyRequests :
                   page[q].pc = "idle" /\ page'[q].pc = "rotated" /\ page'[q].user = u
  <2>1. CASE rows' = rows
    BY <1>2, <2>1 DEF Resolve, KeyInv, KeysFresh
  <2>2. CASE UNCHANGED replica
    <3>1. \/ u \in DOMAIN rows' /\ rows'[u].key = rows[u].key
          \/ \E q \in KeyRequests :
                page[q].pc = "idle" /\ page'[q].pc = "rotated" /\ page'[q].user = u
      BY <1>2, <2>2, RowsStep
    <3>2. u \in DOMAIN rows' /\ rows'[u].key = rows[u].key => Resolve(rows', rows[u].key) = {u}
      BY <1>2 DEF Resolve, KeyInv, KeysFresh
    <3> QED
      BY <3>1, <3>2
  <2> QED
    BY <1>2, <2>1, <2>2 DEF KeyNext, Replicate, EnsureInsert, Rotate, EnsureRead, ClosePage
<1>3. ASSUME KeyInv, ReplicaLate, KeyNext, NEW u \in DOMAIN replica, replica[u].key \notin retired
      PROVE  Resolve(replica', replica[u].key) = {u}
  <2>1. u \in DOMAIN rows /\ rows[u].key = replica[u].key
    BY <1>3 DEF ReplicaLate
  <2>2. CASE replica' = rows
    BY <1>3, <2>1, <2>2 DEF Resolve, KeyInv, KeysFresh
  <2>3. CASE replica' = replica
    BY <1>3, <2>1, <2>3 DEF Resolve, KeyInv, KeysFresh, ReplicaLate
  <2> QED
    BY <1>3, <2>2, <2>3 DEF KeyNext, Replicate, EnsureInsert, Rotate, EnsureRead, ClosePage
<1>4. ASSUME KeyInv, KeyInv', ReplicaLate, KeyNext
      PROVE  /\ \A u \in DOMAIN rows :
                   \/ Resolve(rows', rows[u].key) = {u}
                   \/ \E q \in KeyRequests :
                         page[q].pc = "idle" /\ page'[q].pc = "rotated" /\ page'[q].user = u
             /\ \A u \in DOMAIN replica :
                   Resolve(replica', replica[u].key) = {u} \/ replica[u].key \in retired
  BY <1>2, <1>3, <1>4
<1>5. KeyInv /\ KeyInv' /\ ReplicaLate /\ [KeyNext]_keyVars =>
        [/\ \A u \in DOMAIN rows :
               \/ Resolve(rows', rows[u].key) = {u}
               \/ \E q \in KeyRequests :
                     page[q].pc = "idle" /\ page'[q].pc = "rotated" /\ page'[q].user = u
         /\ \A u \in DOMAIN replica :
               Resolve(replica', replica[u].key) = {u} \/ replica[u].key \in retired]_keyVars
  BY <1>4
<1> QED
  BY <1>1, <1>5, KeyInvariance, ReplicaStep, PTL DEF KeySpec, OnlyRotationRetires

(***************************************************************************)
(* LintSQL: a verdict about the calls of a file.                           *)
(***************************************************************************)
\* Induction over the numbers, for a set of them.
LEMMA LeastNumber ==
    ASSUME NEW T \in SUBSET Nat, T # {}
    PROVE  \E m \in T : \A k \in T : m <= k
<1>1. PICK R : (\A x, y \in Nat : x < y => <<x, y>> \in R) /\ IsWellFoundedOn(R, Nat)
  <2> DEFINE R == OpToRel(<, Nat)
  <2>1. IsWellFoundedOn(R, Nat)
    BY NatLessThanWellFounded, Zenon
  <2>2. \A x, y \in Nat : x < y => <<x, y>> \in R
    BY DEF OpToRel
  <2> HIDE DEF R
  <2> QED BY <2>1, <2>2
<1>2. T \subseteq Nat /\ IsWellFoundedOn(R, Nat)
  BY <1>1
<1>3. PICK m \in T : \A k \in T : ~ (<<k, m>> \in R)
  <2> HIDE <1>1
  <2> QED BY <1>2, WFMin, Zenon
<1>4. \A k \in T : ~ (k < m)
  BY <1>1, <1>2, <1>3
<1> QED BY <1>2, <1>4

LEMMA StepByStep ==
    ASSUME NEW S, 0 \in S, \A n \in Nat : n \in S => n + 1 \in S
    PROVE  Nat \subseteq S
<1> SUFFICES ASSUME Nat \ S # {} PROVE FALSE
  OBVIOUS
<1>1. PICK m \in Nat \ S : \A k \in Nat \ S : m <= k
  BY LeastNumber
<1>2. m # 0 /\ m \in Nat
  BY <1>1
<1>3. m - 1 \in Nat /\ ~ (m <= m - 1) /\ (m - 1) + 1 = m
  BY <1>2
<1>4. m - 1 \in S
  BY <1>1, <1>3
<1> QED BY <1>1, <1>3, <1>4

\* What Known is from the declarations before.
Next1(f, n) ==
    IF n = 0 THEN {}
    ELSE f[n - 1] \cup (IF IsStatic(decls[n].value, f[n - 1]) THEN {decls[n].name} ELSE {})

LEMMA KnownIs ==
    ASSUME Len(decls) \in Nat
    PROVE  Known = [n \in 0 .. Len(decls) |-> Next1(Known, n)]
<1> DEFINE S == {m \in Nat : \E f : f = [n \in 0 .. m |-> Next1(f, n)]}
<1>1. 0 \in S
  <2> DEFINE f == [n \in 0 .. 0 |-> {}]
  <2>1. f = [n \in 0 .. 0 |-> Next1(f, n)]
    BY DEF Next1
  <2> HIDE DEF f
  <2> QED BY <2>1
<1>2. ASSUME NEW m \in Nat, m \in S PROVE m + 1 \in S
  <2>1. PICK f : f = [n \in 0 .. m |-> Next1(f, n)]
    BY <1>2
  <2> DEFINE g == [n \in 0 .. m + 1 |-> IF n <= m THEN f[n] ELSE Next1(f, m + 1)]
  <2>2. ASSUME NEW n \in 0 .. m + 1 PROVE g[n] = Next1(g, n)
    <3>1. CASE n = 0
      BY <2>1, <3>1 DEF Next1
    <3>2. CASE n # 0
      <4>1. n - 1 \in 0 .. m /\ n - 1 \in 0 .. m + 1 /\ n - 1 <= m
        BY <3>2
      <4>2. g[n - 1] = f[n - 1]
        BY <4>1
      <4>3. g[n] = Next1(f, n)
        <5>1. CASE n <= m
          <6>1. n \in 0 .. m
            BY <5>1
          <6>2. f[n] = Next1(f, n)
            BY <2>1, <6>1
          <6> QED BY <5>1, <6>2
        <5>2. CASE ~ (n <= m)
          <6>1. n = m + 1
            BY <5>2
          <6> QED BY <5>2, <6>1
        <5> QED BY <5>1, <5>2
      <4> HIDE DEF g
      <4> QED BY <3>2, <4>2, <4>3 DEF Next1
    <3> QED BY <3>1, <3>2
  <2>3. g = [n \in 0 .. m + 1 |-> g[n]]
    OBVIOUS
  <2> HIDE DEF g
  <2>4. g = [n \in 0 .. m + 1 |-> Next1(g, n)]
    BY <2>2, <2>3
  <2> QED BY <2>4
<1>3. Nat \subseteq S
  <2> HIDE DEF S
  <2> QED BY <1>1, <1>2, StepByStep
<1>4. \E f : f = [n \in 0 .. Len(decls) |-> Next1(f, n)]
  BY <1>3
<1>5. Known = CHOOSE f : f = [n \in 0 .. Len(decls) |-> Next1(f, n)]
  BY Zenon DEF Known, Next1
<1> QED BY <1>4, <1>5, Zenon

\* More static names, more static strings.
LEMMA StaticGrows ==
    ASSUME NEW e, NEW S, NEW T, S \subseteq T, IsStatic(e, S)
    PROVE  IsStatic(e, T)
BY DEF IsStatic

\* The names that are known are in every closed set, and each has its place.
LEMMA KnownUpTo ==
    ASSUME LintTypeOK, NEW n \in 0 .. Len(decls)
    PROVE  /\ \A S : Closed(S) => Known[n] \subseteq S
           /\ \A p \in Known[n] : \E j \in 1 .. n : p = decls[j].name /\ p \in Known[j]
           /\ \A m \in 0 .. n : Known[m] \subseteq Known[n]
<1> DEFINE Right(m) == /\ \A S : Closed(S) => Known[m] \subseteq S
                       /\ \A p \in Known[m] : \E j \in 1 .. m : p = decls[j].name /\ p \in Known[j]
                       /\ \A k \in 0 .. m : Known[k] \subseteq Known[m]
           S == {m \in Nat : m <= Len(decls) => Right(m)}
<1>1. decls \in Seq(Declarations) /\ Len(decls) \in Nat
  BY DEF LintTypeOK
<1>2. \A m \in 0 .. Len(decls) : Known[m] = Next1(Known, m)
  BY <1>1, KnownIs
<1>3. 0 \in S
  <2>1. 0 \in 0 .. Len(decls)
    BY <1>1
  <2>2. Known[0] = {}
    BY <1>2, <2>1 DEF Next1
  <2>3. \A k \in 0 .. 0 : k = 0
    OBVIOUS
  <2> QED BY <2>2, <2>3
<1>4. ASSUME NEW m \in Nat, m \in S PROVE m + 1 \in S
  <2> SUFFICES ASSUME m + 1 <= Len(decls) PROVE Right(m + 1)
    OBVIOUS
  <2>1. m + 1 \in 0 .. Len(decls) /\ m + 1 # 0 /\ (m + 1) - 1 = m /\ m <= Len(decls) /\ m + 1 \in DOMAIN decls
    BY <1>1
  <2>2. Known[m + 1] = Known[m] \cup (IF IsStatic(decls[m + 1].value, Known[m]) THEN {decls[m + 1].name} ELSE {})
    BY <1>2, <2>1 DEF Next1
  <2>3. Right(m)
    BY <1>4, <2>1
  <2> HIDE DEF S
  <2>4. ASSUME NEW T, Closed(T) PROVE Known[m + 1] \subseteq T
    <3>1. Known[m] \subseteq T
      BY <2>3, <2>4
    <3>2. decls[m + 1] \in ToSet(decls)
      BY <2>1 DEF ToSet
    <3>3. IsStatic(decls[m + 1].value, Known[m]) => decls[m + 1].name \in T
      BY <2>4, <3>1, <3>2, StaticGrows DEF Closed
    <3> QED BY <2>2, <3>1, <3>3
  <2>5. ASSUME NEW p \in Known[m + 1] PROVE \E j \in 1 .. m + 1 : p = decls[j].name /\ p \in Known[j]
    <3>1. CASE p \in Known[m]
      <4>1. PICK j \in 1 .. m : p = decls[j].name /\ p \in Known[j]
        BY <2>3, <3>1
      <4>2. j \in 1 .. m + 1
        OBVIOUS
      <4> QED BY <4>1, <4>2
    <3>2. CASE p \notin Known[m]
      <4>1. p = decls[m + 1].name
        BY <2>2, <3>2
      <4>2. m + 1 \in 1 .. m + 1
        OBVIOUS
      <4> QED BY <4>1, <4>2
    <3> QED BY <3>1, <3>2
  <2>6. ASSUME NEW k \in 0 .. m + 1 PROVE Known[k] \subseteq Known[m + 1]
    <3>1. k = m + 1 \/ k \in 0 .. m
      OBVIOUS
    <3>2. Known[m] \subseteq Known[m + 1]
      BY <2>2
    <3> QED BY <2>3, <3>1, <3>2
  <2> QED BY <2>4, <2>5, <2>6
<1>5. n \in Nat /\ n <= Len(decls)
  BY <1>1
<1>6. n \in S
  <2> HIDE DEF S
  <2> QED BY <1>3, <1>4, <1>5, StepByStep
<1> QED BY <1>5, <1>6

\* Constants: there is a least closed set of declared names.
LEMMA ConstantsLeast ==
    /\ Closed(Constants)
    /\ \A T \in SUBSET Constants : Closed(T) => T = Constants
<1> DEFINE Declared == {d.name : d \in ToSet(decls)}
           M == {x \in Declared : \A T \in SUBSET Declared : Closed(T) => x \in T}
<1>1. Closed(M)
  <2> SUFFICES ASSUME NEW d \in ToSet(decls), IsStatic(d.value, M) PROVE d.name \in M
    BY DEF Closed
  <2>1. d.name \in Declared
    OBVIOUS
  <2>2. ASSUME NEW T \in SUBSET Declared, Closed(T) PROVE d.name \in T
    <3>1. M \subseteq T
      BY <2>2
    <3> HIDE DEF M
    <3>2. IsStatic(d.value, T)
      BY <3>1, StaticGrows
    <3> QED BY <2>2, <3>2 DEF Closed
  <2> QED BY <2>1, <2>2
<1>2. M \in SUBSET Declared
  OBVIOUS
<1>3. \A T \in SUBSET M : Closed(T) => T = M
  OBVIOUS
<1> HIDE DEF M
<1>4. \E S \in SUBSET Declared : Closed(S) /\ \A T \in SUBSET S : Closed(T) => T = S
  BY <1>1, <1>2, <1>3
<1> QED BY <1>4 DEF Constants

\* The linter takes nothing for static that is not constant, and nothing constant for
\* something else if names are declared before they are used.
LEMMA StaticsAreConstant ==
    ASSUME LintTypeOK
    PROVE  /\ StaticStrs \subseteq Constants
           /\ InOrder => StaticStrs = Constants
<1>1. Len(decls) \in Nat /\ Len(decls) \in 0 .. Len(decls) /\ decls \in Seq(Declarations)
  BY DEF LintTypeOK
<1>2. StaticStrs \subseteq Constants
  BY <1>1, KnownUpTo, ConstantsLeast DEF StaticStrs
<1>3. ASSUME InOrder PROVE Closed(StaticStrs)
  <2> SUFFICES ASSUME NEW i \in DOMAIN decls, IsStatic(decls[i].value, StaticStrs)
               PROVE  decls[i].name \in StaticStrs
    BY DEF Closed, ToSet
  <2>1. i \in Nat /\ i \in 1 .. Len(decls) /\ i - 1 \in 0 .. Len(decls) /\ i \in 0 .. Len(decls)
    BY <1>1
  <2>2. ASSUME NEW p \in ToSet(decls[i].value.parts), p \in StaticStrs PROVE p \in Known[i - 1]
    <3>1. PICK j \in 1 .. Len(decls) : p = decls[j].name /\ p \in Known[j]
      BY <1>1, <2>2, KnownUpTo DEF StaticStrs
    <3>2. ~ (i <= j)
      <4>1. j \in DOMAIN decls
        BY <1>1
      <4> QED BY <1>3, <2>2, <3>1, <4>1 DEF InOrder
    <3>3. j \in 0 .. i - 1
      BY <2>1, <3>2
    <3> QED BY <2>1, <3>1, <3>3, KnownUpTo
  <2>3. IsStatic(decls[i].value, Known[i - 1])
    BY <2>2 DEF IsStatic
  <2>4. Known[i] = Next1(Known, i) /\ i # 0
    BY <1>1, <2>1, KnownIs
  <2>5. decls[i].name \in Known[i]
    BY <2>3, <2>4 DEF Next1
  <2> QED BY <1>1, <2>1, <2>5, KnownUpTo DEF StaticStrs
<1> QED BY <1>2, <1>3, ConstantsLeast

\* The first argument that looks like a string: the query, if that does.
LEMMA TheArgument ==
    ASSUME NEW c \in MethodCalls
    PROVE  /\ IsLikelyString(c.query) => Likely(c) # {} /\ SqlArg(c) = c.query
           /\ Likely(c) # {} => SqlArg(c) \in ToSet(<<c.query>> \o c.values)
<1>1. c.query \in Expressions /\ c.values \in Seq(Expressions)
  BY DEF MethodCalls
<1> DEFINE first == <<Context, c.query>>
           n == Len(c.values)
<1>2. /\ n \in Nat /\ DOMAIN Args(c) = 1 .. n + 2
      /\ Args(c)[1] = Context /\ Args(c)[2] = c.query
      /\ \A i \in 1 .. n : Args(c)[i + 2] = c.values[i]
  BY <1>1 DEF Args
<1>3. ~ IsLikelyString(Context)
  BY DEF IsLikelyString, Context
<1>4. ASSUME Likely(c) # {}
      PROVE  Min(Likely(c)) \in Likely(c) /\ \A k \in Likely(c) : Min(Likely(c)) <= k
  <2>1. Likely(c) \in SUBSET Nat
    BY <1>2 DEF Likely
  <2>2. \E m \in Likely(c) : \A k \in Likely(c) : m <= k
    BY <1>4, <2>1, LeastNumber
  <2> QED BY <2>2 DEF Min
<1>5. \A i \in Likely(c) : i \in 2 .. n + 2
  <2>1. \A i \in Likely(c) : i \in 1 .. n + 2 /\ i # 1
    BY <1>2, <1>3 DEF Likely
  <2> QED BY <1>2, <2>1
<1>6. ASSUME IsLikelyString(c.query) PROVE Likely(c) # {} /\ SqlArg(c) = c.query
  <2>1. 2 \in Likely(c)
    BY <1>2, <1>6 DEF Likely
  <2>2. Min(Likely(c)) \in 2 .. n + 2 /\ Min(Likely(c)) <= 2
    BY <1>4, <1>5, <2>1
  <2>3. Min(Likely(c)) = 2
    BY <1>2, <2>2
  <2> QED BY <1>2, <2>1, <2>3 DEF SqlArg
<1>7. ASSUME NEW i \in 2 .. n + 2 PROVE Args(c)[i] \in ToSet(<<c.query>> \o c.values)
  <2>1. /\ DOMAIN (<<c.query>> \o c.values) = 1 .. n + 1
        /\ (<<c.query>> \o c.values)[1] = c.query
        /\ \A j \in 1 .. n : (<<c.query>> \o c.values)[j + 1] = c.values[j]
    BY <1>1
  <2>2. CASE i = 2
    <3>1. 1 \in 1 .. n + 1
      BY <1>2
    <3> QED BY <1>2, <2>1, <2>2, <3>1 DEF ToSet
  <2>3. CASE i # 2
    <3>1. i - 2 \in 1 .. n /\ (i - 2) + 2 = i /\ (i - 2) + 1 \in 1 .. n + 1
      BY <1>2, <2>3
    <3>2. Args(c)[i] = (<<c.query>> \o c.values)[(i - 2) + 1]
      BY <1>2, <2>1, <3>1
    <3> QED BY <2>1, <3>1, <3>2 DEF ToSet
  <2> QED BY <2>2, <2>3
<1> QED BY <1>4, <1>5, <1>6, <1>7 DEF SqlArg

\* The verdict is about the file as it is.
LintInv ==
    /\ LintTypeOK
    /\ verdict = "ok" => Findings \subseteq baseline
    /\ verdict = "new" => ~ (Findings \subseteq baseline)

LEMMA LintInitInvariant == LintInit => LintInv
<1> SUFFICES ASSUME LintInit PROVE LintInv
  OBVIOUS
<1>1. \E c \in CallChoices : c.method \notin dbMethods
  BY LintAssumption
<1>2. (CHOOSE c \in CallChoices : c.method \notin dbMethods) \in MethodCalls
  BY <1>1, LintAssumption
<1>3. calls \in [Sites -> MethodCalls]
  BY <1>2 DEF LintInit
<1>4. parses \in BOOLEAN /\ verdict = "none" /\ decls \in Seq(Declarations) /\ allows \subseteq CommentLines
  BY DEF LintInit
<1> QED BY <1>3, <1>4 DEF LintInv, LintTypeOK

LEMMA LintNextInvariant == LintInv /\ [LintNext]_lintVars => LintInv'
<1> SUFFICES ASSUME LintInv, [LintNext]_lintVars PROVE LintInv'
  OBVIOUS
<1> USE DEF LintInv, LintTypeOK
<1>1. CASE Edit
  <2>1. verdict' = "none"
    BY <1>1 DEF Edit
  <2>2. CASE \E d \in DeclChoices : decls' = d /\ UNCHANGED <<parses, calls, allows>>
    BY <2>1, <2>2, LintAssumption
  <2>3. CASE \E s \in Sites, c \in CallChoices :
                calls' = [calls EXCEPT ![s] = c] /\ UNCHANGED <<parses, decls, allows>>
    BY <2>1, <2>3, LintAssumption
  <2>4. CASE \E l \in CommentLines : allows' = SymDiff(allows, {l}) /\ UNCHANGED <<parses, decls, calls>>
    BY <2>1, <2>4 DEF SymDiff
  <2>5. CASE parses' = ~ parses /\ UNCHANGED <<decls, calls, allows>>
    BY <2>1, <2>5
  <2> QED BY <1>1, <2>2, <2>3, <2>4, <2>5 DEF Edit
<1>2. CASE Lint \/ UNCHANGED lintVars
  <2>1. UNCHANGED <<parses, decls, calls, allows, baseline>>
    BY <1>2 DEF Lint, lintVars
  <2>2. Findings' = Findings
    BY <2>1 DEF Findings, Found, Id, Suppressed, Bad, StaticStrs, Known
  <2> QED BY <1>2, <2>1, <2>2 DEF Lint, lintVars
<1>3. CASE UpdateBaseline
  BY <1>3 DEF UpdateBaseline
<1> QED BY <1>1, <1>2, <1>3 DEF LintNext

\* LintJudges: what passes builds no query at run time, what does not is not harmless.
THEOREM VerdictIsEarned == LintSpec => []LintJudges
<1>1. LintInv => LintJudges
  <2> SUFFICES ASSUME LintInv, parses PROVE LintJudges
    BY DEF LintJudges
  <2>1. /\ calls \in [Sites -> MethodCalls]
        /\ StaticStrs \subseteq Constants /\ (InOrder => StaticStrs = Constants)
    BY StaticsAreConstant DEF LintInv, LintTypeOK
  <2>2. ASSUME verdict = "ok", NEW s \in Sites, BuiltAtRunTime(s), ~ Suppressed(Line[s])
        PROVE  Id(s) \in baseline
    <3> DEFINE q == calls[s].query
    <3>1. /\ calls[s].method \in dbMethods /\ q.kind \in {"concat", "sprint"}
          /\ ~ ToSet(q.parts) \subseteq {"lit"} \cup Constants
      BY <2>2 DEF BuiltAtRunTime
    <3>2. Likely(calls[s]) # {} /\ SqlArg(calls[s]) = q
      BY <2>1, <3>1, TheArgument DEF IsLikelyString
    <3>3. Bad(q)
      BY <2>1, <3>1 DEF Bad, IsStatic
    <3>4. Found(s)
      BY <2>2, <3>1, <3>2, <3>3 DEF Found
    <3> QED BY <2>2, <3>4 DEF LintInv, Findings
  <2>3. ASSUME verdict = "new", InOrder PROVE \E s \in Sites : ~ Harmless(s)
    <3>1. PICK s \in Sites : Found(s)
      BY <2>3 DEF LintInv, Findings
    <3>2. SqlArg(calls[s]) \in ToSet(<<calls[s].query>> \o calls[s].values) /\ Bad(SqlArg(calls[s]))
      BY <2>1, <3>1, TheArgument DEF Found
    <3>3. ~ Harmless(s)
      BY <2>1, <2>3, <3>2 DEF Harmless, Bad, IsStatic
    <3> QED BY <3>3
  <2> QED BY <2>2, <2>3 DEF LintJudges
<1> QED BY <1>1, LintInitInvariant, LintNextInvariant, PTL DEF LintSpec

(***************************************************************************)
(* Types.                                                                  *)
(***************************************************************************)
\* The state of each service keeps its type: entries of the counters, rows and statements of
\* the beats, entries of the cache, rows of the inbox and of the log.
THEOREM TypesCorrect ==
    /\ RateSpec => []RateTypeOK
    /\ HeartbeatSpec => []HeartbeatTypeOK
    /\ CacheSpec => []CacheTypeOK
    /\ InboxSpec => []InboxTypeOK
    /\ SignInSpec => []SignInTypeOK
<1>1. RateInv => RateTypeOK
  BY DEF RateInv
<1>2. BeatInv => HeartbeatTypeOK
  BY DEF BeatInv
<1>3. CacheInv => CacheTypeOK
  BY DEF CacheInv
<1>4. InboxInv => InboxTypeOK
  BY DEF InboxInv
<1>5. SignInInv => SignInTypeOK
  BY DEF SignInInv
<1>6. RateSpec => []RateTypeOK
  BY <1>1, RateInvariance, PTL
<1>7. HeartbeatSpec => []HeartbeatTypeOK
  BY <1>2, BeatInitInvariant, BeatNextInvariant, PTL DEF HeartbeatSpec
<1>8. CacheSpec => []CacheTypeOK
  BY <1>3, CacheInvariance, PTL
<1>9. InboxSpec => []InboxTypeOK
  BY <1>4, InboxInvariance, PTL
<1>10. SignInSpec => []SignInTypeOK
  BY <1>5, SignInInvariance, PTL
<1> QED BY <1>6, <1>7, <1>8, <1>9, <1>10

(***************************************************************************)
(* The services side by side.                                              *)
(***************************************************************************)
\* Whichever service moves keeps its invariant; the others keep their types.
ServicesInv ==
    /\ TypeOK
    /\ moving \in {"ratelimit", "apikey", "heartbeat", "sitemap", "cache", "inbox", "signin", "lint"}
    /\ moving = "ratelimit" => RateInv
    /\ moving = "apikey" => KeyInv
    /\ moving = "heartbeat" => BeatInv
    /\ moving = "sitemap" => SiteInv
    /\ moving = "cache" => CacheInv
    /\ moving = "inbox" => InboxInv
    /\ moving = "signin" => SignInInv
    /\ moving = "lint" => LintInv

\* The invariants say the types.
InvariantsTyped ==
    /\ RateInv => RateTypeOK /\ clock \in Nat
    /\ KeyInv => KeyTypeOK
    /\ BeatInv => HeartbeatTypeOK /\ clock \in Nat
    /\ SiteInv => SitemapTypeOK /\ clock \in Nat
    /\ CacheInv => CacheTypeOK /\ clock \in Nat
    /\ InboxInv => InboxTypeOK
    /\ SignInInv => SignInTypeOK
    /\ LintInv => LintTypeOK

LEMMA TypedByInvariants == InvariantsTyped
<1>1. (RateInv => RateTypeOK) /\ (RateTypeOK => clock \in Nat)
  BY DEF RateInv, RateTypeOK
<1>2. (BeatInv => HeartbeatTypeOK) /\ (HeartbeatTypeOK => clock \in Nat)
  BY DEF BeatInv, HeartbeatTypeOK
<1>3. (SiteInv => SitemapTypeOK) /\ (SitemapTypeOK => clock \in Nat)
  BY DEF SiteInv, SiteTyped, SitemapTypeOK
<1>4. (CacheInv => CacheTypeOK) /\ (CacheTypeOK => clock \in Nat)
  BY DEF CacheInv, CacheTypeOK
<1>5. (KeyInv => KeyTypeOK) /\ (InboxInv => InboxTypeOK)
  BY DEF KeyInv, InboxInv
<1>6. (SignInInv => SignInTypeOK) /\ (LintInv => LintTypeOK)
  BY DEF SignInInv, LintInv
<1> QED BY <1>1, <1>2, <1>3, <1>4, <1>5, <1>6 DEF InvariantsTyped

\* A service that stands keeps its type, whatever the clock shows.
LEMMA Standing ==
    ASSUME clock' \in Nat
    PROVE  /\ RateTypeOK /\ UNCHANGED rateOwn => RateTypeOK'
           /\ KeyTypeOK /\ UNCHANGED keyVars => KeyTypeOK'
           /\ HeartbeatTypeOK /\ UNCHANGED beatOwn => HeartbeatTypeOK'
           /\ SitemapTypeOK /\ UNCHANGED siteOwn => SitemapTypeOK'
           /\ CacheTypeOK /\ UNCHANGED cacheOwn => CacheTypeOK'
           /\ InboxTypeOK /\ UNCHANGED inboxVars => InboxTypeOK'
           /\ SignInTypeOK /\ UNCHANGED signVars => SignInTypeOK'
           /\ LintTypeOK /\ UNCHANGED lintVars => LintTypeOK'
<1>1. RateTypeOK /\ UNCHANGED rateOwn => RateTypeOK'
  BY DEF RateTypeOK, rateOwn
<1>2. KeyTypeOK /\ UNCHANGED keyVars => KeyTypeOK'
  BY DEF KeyTypeOK, keyVars, IsTable
<1>3. HeartbeatTypeOK /\ UNCHANGED beatOwn => HeartbeatTypeOK'
  BY DEF HeartbeatTypeOK, beatOwn
<1>4. SitemapTypeOK /\ UNCHANGED siteOwn => SitemapTypeOK'
  BY DEF SitemapTypeOK, siteOwn
<1>5. CacheTypeOK /\ UNCHANGED cacheOwn => CacheTypeOK'
  BY DEF CacheTypeOK, cacheOwn
<1>6. InboxTypeOK /\ UNCHANGED inboxVars => InboxTypeOK'
  BY DEF InboxTypeOK, inboxVars
<1>7. SignInTypeOK /\ UNCHANGED signVars => SignInTypeOK'
  BY DEF SignInTypeOK, signVars
<1>8. LintTypeOK /\ UNCHANGED lintVars => LintTypeOK'
  BY DEF LintTypeOK, lintVars
<1> QED BY <1>1, <1>2, <1>3, <1>4, <1>5, <1>6, <1>7, <1>8

LEMMA ServicesInitInvariant == Init => ServicesInv
<1> SUFFICES ASSUME Init PROVE ServicesInv
  OBVIOUS
<1>1. /\ RateInv /\ KeyInv /\ BeatInv /\ SiteInv
      /\ CacheInv /\ InboxInv /\ SignInInv /\ LintInv
  BY RateInitInvariant, KeyInitInvariant, BeatInitInvariant, SiteInitInvariant,
     CacheInitInvariant, InboxInitInvariant, SignInInitInvariant, LintInitInvariant DEF Init
<1> QED BY <1>1, TypedByInvariants DEF Init, InvariantsTyped, ServicesInv, TypeOK

LEMMA ServicesNextInvariant == ServicesInv /\ [Next]_<<moving, clock, rateOwn, keyVars, beatOwn,
                               siteOwn, cacheOwn, inboxVars, signVars, lintVars>> => ServicesInv'
<1> DEFINE own == <<rateOwn, keyVars, beatOwn, siteOwn, cacheOwn, inboxVars, signVars, lintVars>>
<1> SUFFICES ASSUME ServicesInv, \/ Next
                                 \/ UNCHANGED <<moving, clock, own>>
             PROVE  ServicesInv'
  OBVIOUS
<1>1. /\ moving' = moving
      /\ moving # "ratelimit" => UNCHANGED rateOwn
      /\ moving # "apikey" => UNCHANGED keyVars
      /\ moving # "heartbeat" => UNCHANGED beatOwn
      /\ moving # "sitemap" => UNCHANGED siteOwn
      /\ moving # "cache" => UNCHANGED cacheOwn
      /\ moving # "inbox" => UNCHANGED inboxVars
      /\ moving # "signin" => UNCHANGED signVars
      /\ moving # "lint" => UNCHANGED lintVars
      /\ moving \in {"apikey", "inbox", "signin", "lint"} => UNCHANGED clock
  BY DEF Next
<1>2. clock \in Nat /\ TypeOK
  BY DEF ServicesInv, TypeOK, RateTypeOK
<1>3. moving = "ratelimit" => RateInv'
  <2>1. moving = "ratelimit" => [RateNext]_rateVars
    BY DEF Next, rateOwn, rateVars
  <2> QED BY <2>1, RateNextInvariant DEF ServicesInv
<1>4. moving = "apikey" => KeyInv'
  <2>1. moving = "apikey" => [KeyNext]_keyVars
    BY DEF Next
  <2> QED BY <2>1, KeyNextInvariant DEF ServicesInv
<1>5. moving = "heartbeat" => BeatInv'
  <2>1. moving = "heartbeat" => [HeartbeatNext]_beatVars
    BY DEF Next, beatOwn, beatVars
  <2> QED BY <2>1, BeatNextInvariant DEF ServicesInv
<1>6. moving = "sitemap" => SiteInv'
  <2>1. moving = "sitemap" => [SitemapNext]_siteVars
    BY DEF Next, siteOwn, siteVars
  <2> QED BY <2>1, SiteNextInvariant DEF ServicesInv
<1>7. moving = "cache" => CacheInv'
  <2>1. moving = "cache" => [CacheNext]_cacheVars
    BY DEF Next, cacheOwn, cacheVars
  <2> QED BY <2>1, CacheNextInvariant DEF ServicesInv
<1>8. moving = "inbox" => InboxInv'
  <2>1. moving = "inbox" => [InboxNext]_inboxVars
    BY DEF Next
  <2> QED BY <2>1, InboxNextInvariant DEF ServicesInv
<1>9. moving = "signin" => SignInInv'
  <2>1. moving = "signin" => [SignInNext]_signVars
    BY DEF Next
  <2> QED BY <2>1, SignInNextInvariant DEF ServicesInv
<1>10. moving = "lint" => LintInv'
  <2>1. moving = "lint" => [LintNext]_lintVars
    BY DEF Next
  <2> QED BY <2>1, LintNextInvariant DEF ServicesInv
<1>11. InvariantsTyped'
  BY TypedByInvariants, PTL
<1>12. clock' \in Nat
  BY <1>1, <1>2, <1>3, <1>5, <1>6, <1>7, <1>11
     DEF ServicesInv, InvariantsTyped
<1> HIDE DEF own
<1>13. TypeOK'
  BY <1>1, <1>2, <1>3, <1>4, <1>5, <1>6, <1>7, <1>8, <1>9, <1>10, <1>11, <1>12, Standing
     DEF TypeOK, InvariantsTyped
<1> QED
  BY <1>1, <1>3, <1>4, <1>5, <1>6, <1>7, <1>8, <1>9, <1>10, <1>13 DEF ServicesInv

\* Side by side, with the clock shared, the variables of every service keep their types.
THEOREM TypeCorrect == Spec => []TypeOK
<1>1. ServicesInv => TypeOK
  BY DEF ServicesInv
<1> QED BY <1>1, ServicesInitInvariant, ServicesNextInvariant, PTL DEF Spec
================================================================================
