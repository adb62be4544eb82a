--------------------------------- MODULE MCHost ---------------------------------
(***************************************************************************)
(* Hooks and job triggers side by side: they share nothing, so one of them *)
(* moves in a behaviour.  Three jobs, two workers, of which the second     *)
(* does not know one of the jobs; a claim takes at most two rows, so that  *)
(* some stay behind.                                                       *)
(***************************************************************************)
EXTENDS MCJobTrigger, Hooks

VARIABLE moving

HostInit == moving \in {"jobs", "hooks"} /\ JobInit /\ HooksInit

HostNext ==
    /\ UNCHANGED moving
    /\ \/ moving = "jobs" /\ JobNext /\ UNCHANGED hookVars
       \/ moving = "hooks" /\ HooksNext /\ UNCHANGED jobVars

\* What does not move stands at its initial state, where nothing is owed to it.
HostSpec ==
    HostInit /\ [][HostNext]_<<moving, jobVars, hookVars>> /\ JobFairness /\ HooksFairness

\* The variables of both have their types.
HostTypeOK == JobTypeOK /\ HooksTypeOK
=============================================================================
