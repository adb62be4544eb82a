------------------------------ MODULE JobTrigger ------------------------------
(***************************************************************************)
(* jobtrigger/: "run now" requests go through the table job_triggers from  *)
(* the web process to the workers, whose pollers claim and run them.       *)
(*                                                                         *)
(* pending holds the job names of the rows, which a UNIQUE index keeps     *)
(* apart, and older how requested_at orders them.  A claim is one DELETE:  *)
(* its subquery locks the oldest rows nobody has locked, and the commit    *)
(* removes them.  An INSERT that conflicts with a row under deletion waits *)
(* for the outcome.                                                        *)
(***************************************************************************)
EXTENDS SequencesExt

CONSTANTS
    Jobs, Workers,
    Known,          \* Known[w]: the jobs w can trigger
    ClaimLimit      \* 32 in StartPoller

ASSUME JobTriggerAssumption ==
    /\ IsFiniteSet(Workers)
    /\ Known \in [Workers -> SUBSET Jobs]
    /\ ClaimLimit \in Nat \ {0}

VARIABLES
    up,        \* whether each worker runs
    pending,   \* the jobs that have a row
    older,     \* pairs of them: the row of the first was requested before
    locked,    \* rows under deletion by each worker's claim
    hand       \* names a claim returned that are still to be run

jobVars == <<up, pending, older, locked, hand>>

JobTypeOK ==
    /\ up \in [Workers -> BOOLEAN]
    /\ pending \subseteq Jobs
    /\ older \subseteq pending \X pending
    /\ \A j, k \in pending : <<j, k>> \in older <=> j # k /\ <<k, j>> \notin older
    /\ locked \in [Workers -> SUBSET pending]
    /\ \A v, w \in Workers : v # w => locked[v] \cap locked[w] = {}
    /\ hand \in [Workers -> Seq(Jobs)]

JobInit ==
    /\ up = [w \in Workers |-> TRUE]
    /\ pending = {} /\ older = {}
    /\ locked = [w \in Workers |-> {}]
    /\ hand = [w \in Workers |-> <<>>]

LockedRows == UNION {locked[w] : w \in Workers}
Idle(w) == up[w] /\ locked[w] = {} /\ hand[w] = <<>>

\* INSERT ... ON CONFLICT (job_name) DO NOTHING.
Request(j) ==
    /\ j \notin LockedRows
    /\ j \notin pending
    /\ pending' = pending \cup {j}
    /\ older' = older \cup (pending \X {j})
    /\ UNCHANGED <<up, locked, hand>>

\* The oldest of some rows, as many as a claim takes.
Oldest(rows) == {j \in rows : Cardinality({k \in rows : <<k, j>> \in older}) < ClaimLimit}

\* Faults: rows under deletion are taken too; the newest rows are taken.
OldestOfAll == Oldest(pending)
NewestFree ==
    LET free == pending \ LockedRows
    IN  {j \in free : Cardinality({k \in free : <<j, k>> \in older}) < ClaimLimit}

\* SELECT id ... ORDER BY requested_at LIMIT $1 FOR UPDATE SKIP LOCKED.
OldestFree == Oldest(pending \ LockedRows)

Delete(rows) ==
    /\ pending' = pending \ rows
    /\ older' = older \cap (pending' \X pending')

ClaimLock(w) ==
    /\ Idle(w)
    /\ OldestFree # {}
    /\ locked' = [locked EXCEPT ![w] = OldestFree]
    /\ UNCHANGED <<up, pending, older, hand>>

\* The DELETE commits.  RETURNING yields the rows in no particular order.
ClaimCommit(w) ==
    /\ locked[w] # {}
    /\ Delete(locked[w])
    /\ \E names \in SetToSeqs(locked[w]) : hand' = [hand EXCEPT ![w] = names]
    /\ locked' = [locked EXCEPT ![w] = {}]
    /\ UNCHANGED up

\* Claim returns an error: the statement was rolled back, or it committed and
\* the connection broke while the rows were read.
ClaimError(w) ==
    /\ locked[w] # {}
    /\ locked' = [locked EXCEPT ![w] = {}]
    /\ Delete(locked[w]) \/ UNCHANGED <<pending, older>>
    /\ UNCHANGED <<up, hand>>

\* (A fault: the poller stops at a name its process does not know.)
RunOrStick(w) ==
    /\ hand[w] # <<>> /\ Head(hand[w]) \in Known[w]
    /\ hand' = [hand EXCEPT ![w] = Tail(@)]
    /\ UNCHANGED <<up, pending, older, locked>>

\* run(n): the job is triggered, or TriggerJob does not know it and the
\* request is dropped; StartPoller does not look at the answer.
Run(w) ==
    /\ hand[w] # <<>>
    /\ hand' = [hand EXCEPT ![w] = Tail(@)]
    /\ UNCHANGED <<up, pending, older, locked>>

\* The worker dies; the database rolls its claim back.
Crash(w) ==
    /\ up[w]
    /\ up' = [up EXCEPT ![w] = FALSE]
    /\ locked' = [locked EXCEPT ![w] = {}]
    /\ hand' = [hand EXCEPT ![w] = <<>>]
    /\ UNCHANGED <<pending, older>>

Restart(w) ==
    /\ ~ up[w]
    /\ up' = [up EXCEPT ![w] = TRUE]
    /\ UNCHANGED <<pending, older, locked, hand>>

JobNext ==
    \/ \E j \in Jobs : Request(j)
    \/ \E w \in Workers : ClaimLock(w) \/ ClaimCommit(w) \/ ClaimError(w) \/ Run(w)
                          \/ Crash(w) \/ Restart(w)

\* The ticker of every poller keeps firing, a statement ends one way or the
\* other, and the loop over the claimed names goes on.
JobFairness == \A w \in Workers :
    /\ WF_jobVars(ClaimLock(w)) /\ WF_jobVars(ClaimCommit(w))
    /\ WF_jobVars(Run(w))

JobSpec == JobInit /\ [][JobNext]_jobVars /\ JobFairness

(***************************************************************************)
(* Properties.                                                             *)
(***************************************************************************)
Board == INSTANCE Triggers WITH
    pending <- pending,
    taken <- [j \in Jobs |-> Cardinality({w \in Workers : j \in ToSet(hand[w])})]

\* Claims by locking, deleting and reading back are claims of Triggers: however
\* workers overlap, fail and crash, no accepted request is handed to two of them
\* and none turns up again ("safe for concurrent workers", jobtrigger.go:28).
ImplementsTriggers == Board!Spec

FailuresCease ==
    /\ <>[](\A w \in Workers : up[w])
    /\ <>[][\A w \in Workers : ~ ClaimError(w)]_jobVars

\* Once claims succeed and workers stay up, no request is passed over for ever,
\* however often others are made (rows are claimed oldest first, with a limit),
\* and no worker sits on one: unknown jobs do not hold up the names behind them
\* (jobtrigger.go:47-49).
RequestsServed ==
    FailuresCease => \A j \in Jobs :
        /\ j \in pending ~> j \notin pending
        /\ \A w \in Workers : j \in ToSet(hand[w]) ~> j \notin ToSet(hand[w])

\* "returns their job names (oldest first)" (jobtrigger.go:27): a worker runs
\* what it claimed in the order of the requests.
OldestFirst ==
    [][\A w \in Workers : ClaimCommit(w) =>
          \A m, n \in DOMAIN hand'[w] : <<hand'[w][m], hand'[w][n]>> \in older => m < n]_jobVars
=============================================================================
