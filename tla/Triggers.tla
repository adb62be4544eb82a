------------------------------- MODULE Triggers -------------------------------
(***************************************************************************)
(* What jobtrigger/ promises: a job is pending at most once, a claim takes *)
(* pending jobs away and hands each to one taker, and what was taken is    *)
(* run or lost.  A claim whose answer is lost, and the death of a taker,   *)
(* lose jobs; nothing makes one up and nothing hands one out twice.        *)
(***************************************************************************)
EXTENDS Naturals

CONSTANT Jobs

VARIABLES
    pending,    \* jobs that were requested and not claimed
    taken       \* how often each job was claimed and is still to be run

boardVars == <<pending, taken>>

Init == pending = {} /\ taken = [j \in Jobs |-> 0]

Accept(j) ==
    /\ j \notin pending
    /\ pending' = pending \cup {j}
    /\ UNCHANGED taken

Claim(S) ==
    /\ S # {} /\ S \subseteq pending
    /\ pending' = pending \ S
    /\ taken' = [j \in Jobs |-> taken[j] + IF j \in S THEN 1 ELSE 0]

\* Claimed, and nobody learns of it.
Lose(S) ==
    /\ S # {} /\ S \subseteq pending
    /\ pending' = pending \ S
    /\ UNCHANGED taken

\* Jobs are run, or their taker dies.
Finish(S) ==
    /\ S # {} /\ \A j \in S : taken[j] > 0
    /\ taken' = [j \in Jobs |-> taken[j] - IF j \in S THEN 1 ELSE 0]
    /\ UNCHANGED pending

Next ==
    \/ \E j \in Jobs : Accept(j)
    \/ \E S \in SUBSET Jobs : Claim(S) \/ Lose(S) \/ Finish(S)

Spec == Init /\ [][Next]_boardVars
=============================================================================
