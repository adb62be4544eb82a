----------------------------- MODULE MCJobTrigger -----------------------------
(***************************************************************************)
(* Three jobs, two workers, of which the second does not know one of the   *)
(* jobs; a claim takes at most two rows, so that some stay behind.         *)
(***************************************************************************)
EXTENDS JobTrigger

CONSTANTS a, b, c, w1, w2

ThreeJobs == {a, b, c}
TwoWorkers == {w1, w2}
MostKnown == (w1 :> ThreeJobs) @@ (w2 :> {a, b})
=============================================================================
