------------------------------- MODULE RateLimit -------------------------------
(***************************************************************************)
(* ratelimit/: the middleware and its two counters.                        *)
(*                                                                         *)
(* A request is counted by every rule that applies to it, one Incr after   *)
(* the other, until a rule rejects it.  The in-memory Incr takes its time  *)
(* before it waits for the lock, so that others may come between; the      *)
(* Redis script is atomic and goes by the server's clock, but its answer   *)
(* may be lost.                                                            *)
(***************************************************************************)
EXTENDS Clock, SequencesExt

CONSTANTS
    RateRequests,   \* requests in flight
    Callers,        \* what Config.Key returns
    RateRules,      \* Config.Rules, in order: a sequence of names
    Window,         \* Window[rule]
    Limit,          \* Limit[caller][rule]; 0 switches the rule off
    SweepAt,        \* 10000 in memory.Incr
    MaxLag,         \* longest wait for the counter's lock
    MaxHits,        \* bounds the requests a rule counts for a caller
    RateHorizon     \* bounds the time that passes

ASSUME RateAssumption ==
    /\ RateRules \in Seq(STRING)
    /\ Window \in [ToSet(RateRules) -> Nat \ {0}]
    /\ Limit \in [Callers -> [ToSet(RateRules) -> Nat]]
    /\ SweepAt \in Nat /\ MaxLag \in Nat /\ MaxHits \in Nat /\ RateHorizon \in Nat

VARIABLES
    backend,    \* "memory" or "redis"
    counters,   \* bucket -> [n, exp]
    call,       \* the progress of each request
    hits,       \* bookkeeping: when each bucket was incremented
    passes      \* bookkeeping: when the rule let a request pass

rateVars == <<clock, backend, counters, call, hits, passes>>

Buckets == Callers \X ToSet(RateRules)
NoCall == [pc |-> "idle"]

RateTypeOK ==
    /\ clock \in Nat
    /\ backend \in {"memory", "redis"}
    /\ \A b \in DOMAIN counters : b \in Buckets /\ counters[b] \in [n : Nat \ {0}, exp : Nat]
    /\ call \in [RateRequests -> {NoCall} \cup
                    [pc : {"rule", "lock", "limited"}, caller : Callers,
                     rule : 1 .. Len(RateRules) + 1, stamp : Nat]]
    /\ hits \in [Buckets -> Seq(Nat)] /\ passes \in [Buckets -> Seq(Nat)]

RateInit ==
    /\ clock = 0
    /\ backend \in {"memory", "redis"}
    /\ counters = <<>>
    /\ call = [q \in RateRequests |-> NoCall]
    /\ hits = [b \in Buckets |-> <<>>]
    /\ passes = [b \in Buckets |-> <<>>]

\* The rule after the i-th that applies to a caller; others are skipped, and
\* beyond the last the loop is over.
NextRule(c, i) ==
    {j \in i + 1 .. Len(RateRules) + 1 :
        /\ j \in DOMAIN RateRules => Limit[c][RateRules[j]] > 0
        /\ \A k \in i + 1 .. j - 1 : Limit[c][RateRules[k]] = 0}

LoopOver(q) == call[q].rule > Len(RateRules)

\* The bucket of the request's rule: the key "rl:" + name + ":" + key.
Bucket(q) == <<call[q].caller, RateRules[call[q].rule]>>

Arrive(q, c) ==
    /\ call[q] = NoCall
    /\ \A r \in ToSet(RateRules) : Len(hits[<<c, r>>]) < MaxHits
    /\ \E j \in NextRule(c, 0) :
          call' = [call EXCEPT ![q] = [pc |-> "rule", caller |-> c, rule |-> j, stamp |-> 0]]
    /\ UNCHANGED <<clock, backend, counters, hits, passes>>

(***************************************************************************)
(* The counters.                                                           *)
(***************************************************************************)
\* (A fault: the sweep takes every entry of a large map.)
SweptClean(m, t) == IF Cardinality(DOMAIN m) > SweepAt THEN <<>> ELSE m

\* Expired entries are swept out of a large map.
Swept(m, t) ==
    LET kept == {b \in DOMAIN m : Cardinality(DOMAIN m) <= SweepAt \/ m[b].exp >= t}
    IN  [b \in kept |-> m[b]]

\* Faults: the request that opens a window is not counted; every increment
\* arms the expiry anew.
CountedFromZero(m, b, t) ==
    IF b \in DOMAIN m /\ m[b].exp >= t
    THEN [m[b] EXCEPT !.n = @ + 1]
    ELSE [n |-> 0, exp |-> t + Window[b[2]]]
CountedRearmed(m, b, t) ==
    [n |-> IF b \in DOMAIN m /\ m[b].exp >= t THEN m[b].n + 1 ELSE 1,
     exp |-> t + Window[b[2]]]

\* The entry after an increment at t: in the open window, or the first of a new one.
Counted(m, b, t) ==
    IF b \in DOMAIN m /\ m[b].exp >= t
    THEN [m[b] EXCEPT !.n = @ + 1]
    ELSE [n |-> 1, exp |-> t + Window[b[2]]]

\* The counter's time: taken before the lock in memory, the server's in Redis.
Stamp(q) == IF backend = "memory" THEN call[q].stamp ELSE clock

Store(q) ==
    LET b == Bucket(q)
        m == IF backend = "memory" THEN Swept(counters, Stamp(q)) ELSE counters
    IN  /\ counters' = [a \in DOMAIN m \cup {b} |->
                            IF a = b THEN Counted(m, b, Stamp(q)) ELSE m[a]]
        /\ hits' = [hits EXCEPT ![b] = Append(@, clock)]

(***************************************************************************)
(* The loop of Middleware.                                                 *)
(***************************************************************************)
\* memory.Incr: now := time.Now(), before the lock.
TakeTime(q) ==
    /\ backend = "memory"
    /\ call[q] # NoCall /\ call[q].pc = "rule" /\ ~ LoopOver(q)
    /\ call' = [call EXCEPT ![q].pc = "lock", ![q].stamp = clock]
    /\ UNCHANGED <<clock, backend, counters, hits, passes>>

Ready(q) ==
    /\ call[q] # NoCall
    /\ call[q].pc = IF backend = "memory" THEN "lock" ELSE "rule"
    /\ ~ LoopOver(q)

OnToNextRule(q) ==
    \E j \in NextRule(call[q].caller, call[q].rule) :
        call' = [call EXCEPT ![q] = [@ EXCEPT !.pc = "rule", !.stamp = 0, !.rule = j]]

AllowedBy(b) == Limit[b[1]][b[2]]

\* Incr answers within the limit: on to the next rule.
Pass(q) ==
    /\ Ready(q)
    /\ Store(q)
    /\ counters'[Bucket(q)].n <= AllowedBy(Bucket(q))
    /\ passes' = [passes EXCEPT ![Bucket(q)] = Append(@, clock)]
    /\ OnToNextRule(q)
    /\ UNCHANGED <<clock, backend>>

\* Incr answers above the limit: 429, and no rule after this one counts.
Reject(q) ==
    /\ Ready(q)
    /\ Store(q)
    /\ counters'[Bucket(q)].n > AllowedBy(Bucket(q))
    /\ call' = [call EXCEPT ![q] = [@ EXCEPT !.pc = "limited", !.stamp = 0]]
    /\ UNCHANGED <<clock, backend, passes>>

\* Redis fails, or its answer is lost after the script ran: the rule is passed over.
CounterError(q) ==
    /\ backend = "redis"
    /\ Ready(q)
    /\ Store(q) \/ UNCHANGED <<counters, hits>>
    /\ OnToNextRule(q)
    /\ UNCHANGED <<clock, backend, passes>>

\* The request is answered, by the handler or with 429.
Answer(q) ==
    /\ call[q] # NoCall
    /\ call[q].pc = "limited" \/ LoopOver(q)
    /\ call' = [call EXCEPT ![q] = NoCall]
    /\ UNCHANGED <<clock, backend, counters, hits, passes>>

\* Time passes, but nobody waits for the lock longer than MaxLag.
RateTick ==
    /\ \A q \in RateRequests :
          call[q] # NoCall /\ call[q].pc = "lock" => clock < call[q].stamp + MaxLag
    /\ Advance(RateHorizon)
    /\ UNCHANGED <<backend, counters, call, hits, passes>>

RateNext ==
    \/ RateTick
    \/ \E q \in RateRequests :
          \/ \E c \in Callers : Arrive(q, c)
          \/ TakeTime(q) \/ Pass(q) \/ Reject(q) \/ CounterError(q) \/ Answer(q)

RateSpec == RateInit /\ [][RateNext]_rateVars

(***************************************************************************)
(* Properties.                                                             *)
(***************************************************************************)
\* A caller is rejected only if a rule's limit and more of its requests were
\* counted since one window before it asked: a window does not stretch under
\* load (redis.go:19-20), does not survive a pause, and is not filled by another rule.
NoEarlyReject ==
    [][\A q \in RateRequests :
          call[q] # NoCall /\ call[q].pc # "limited"
             /\ call'[q] # NoCall /\ call'[q].pc = "limited" =>
                LET b == Bucket(q)
                    recent == {i \in DOMAIN hits'[b] : hits'[b][i] + Window[b[2]] >= Stamp(q)}
                IN  Cardinality(recent) > AllowedBy(b)]_rateVars

\* The burst of fixed windows is bounded: in no stretch as long as a window
\* (less the wait for the lock) does a rule let more than twice its limit pass,
\* however requests fall on the edges of windows and whatever is swept.
BurstBounded ==
    \A b \in Buckets : \A i \in DOMAIN passes[b] :
        LET j == i + 2 * AllowedBy(b)
            lag == IF backend = "memory" THEN MaxLag ELSE 0
        IN  j \in DOMAIN passes[b] => passes[b][j] + lag > passes[b][i] + Window[b[2]]
=============================================================================
