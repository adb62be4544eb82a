----------------------------- MODULE Maintenance -----------------------------
(***************************************************************************)
(* maintenance/: planned-maintenance mode on several web processes.  The   *)
(* state is one row of the database; every process answers from its own    *)
(* copy, which it loads at boot, re-reads on a ticker and overwrites after *)
(* a toggle of its own.                                                    *)
(*                                                                         *)
(* StartedAt is written and never read, so it is left out.  stamp is       *)
(* bookkeeping in its place: how many states had been stored when this one *)
(* was.  No row reads as State{}.                                          *)
(***************************************************************************)
EXTENDS Integers, Sequences

CONSTANTS
    Processes,
    Toggles,       \* toggles by admins that can be under way at once
    Reasons, NoReason,
    Minutes,       \* what the ETA field of the form parses to
    ETALimit,      \* what the INT column eta_secs holds at most: 2147483647
    MaxSets        \* bound on the states stored

ASSUME MaintenanceAssumption ==
    /\ Processes # {} /\ NoReason \in Reasons
    /\ Minutes \subseteq Int /\ ETALimit \in Nat
    /\ MaxSets \in Nat

VARIABLES
    stored,      \* the states stored so far; the last one is the row
    cache,       \* the state in memory of each process
    life,        \* "down", "boot" (before Restore), "up", or "refresh": a Get
                 \* of the refresher has returned and its state is not taken over yet
    read,        \* ... the state it returned
    toggle,      \* progress of each toggle
    since        \* bookkeeping: how many states were stored when each process was restored

maintVars == <<stored, cache, life, read, toggle, since>>

State == [Active : BOOLEAN, Reason : Reasons, ETASecs : Int, stamp : Nat]
Off == [Active |-> FALSE, Reason |-> NoReason, ETASecs |-> 0, stamp |-> 0]

\* (A fault: a column without a range.)
FitsAnyhow(secs) == TRUE

\* The statement fails on a number the column cannot hold.
Fits(secs) == secs \in -ETALimit-1 .. ETALimit

Row == IF stored = <<>> THEN Off ELSE stored[Len(stored)]

Toggle == [pc : {"idle", "set", "take", "done"}, process : Processes, state : State]

MaintenanceTypeOK ==
    /\ stored \in Seq(State) /\ \A n \in DOMAIN stored : stored[n].ETASecs <= ETALimit
    /\ cache \in [Processes -> State] /\ read \in [Processes -> State]
    /\ life \in [Processes -> {"down", "boot", "up", "refresh"}]
    /\ toggle \in [Toggles -> Toggle]
    /\ since \in [Processes -> Nat]

NoToggle == [pc |-> "idle", process |-> CHOOSE p \in Processes : TRUE, state |-> Off]

MaintenanceInit ==
    /\ stored = <<>>
    /\ cache = [p \in Processes |-> Off] /\ read = [p \in Processes |-> Off]
    /\ life = [p \in Processes |-> "boot"]
    /\ toggle = [t \in Toggles |-> NoToggle]
    /\ since = [p \in Processes |-> 0]

Serving(p) == life[p] \in {"up", "refresh"}

(***************************************************************************)
(* The processes.                                                          *)
(***************************************************************************)
\* (A fault: the error of Restore is ignored.)
RestoreOrNot(p) ==
    /\ life[p] = "boot"
    /\ cache' \in {cache, [cache EXCEPT ![p] = Row]}
    /\ life' = [life EXCEPT ![p] = "up"]
    /\ since' = [since EXCEPT ![p] = Len(stored)]
    /\ UNCHANGED <<stored, read, toggle>>

\* The host serves after a Restore that succeeded.
Restore(p) ==
    /\ life[p] = "boot"
    /\ cache' = [cache EXCEPT ![p] = Row]
    /\ life' = [life EXCEPT ![p] = "up"]
    /\ since' = [since EXCEPT ![p] = Len(stored)]
    /\ UNCHANGED <<stored, read, toggle>>

\* The ticker fires and Get returns the row.  A Get that fails changes nothing.
RefreshGet(p) ==
    /\ life[p] = "up"
    /\ read' = [read EXCEPT ![p] = Row]
    /\ life' = [life EXCEPT ![p] = "refresh"]
    /\ UNCHANGED <<stored, cache, toggle, since>>

\* (A fault: only the flag is taken over.)
RefreshTakeFlag(p) ==
    /\ life[p] = "refresh"
    /\ cache' = [cache EXCEPT ![p].Active = read[p].Active]
    /\ life' = [life EXCEPT ![p] = "up"] /\ read' = [read EXCEPT ![p] = Off]
    /\ UNCHANGED <<stored, toggle, since>>

RefreshTake(p) ==
    /\ life[p] = "refresh"
    /\ cache' = [cache EXCEPT ![p] = read[p]]
    /\ life' = [life EXCEPT ![p] = "up"] /\ read' = [read EXCEPT ![p] = Off]
    /\ UNCHANGED <<stored, toggle, since>>

\* A process dies with its memory and the toggles it was serving.
ProcessDies(p) ==
    /\ life[p] # "down"
    /\ life' = [life EXCEPT ![p] = "down"]
    /\ cache' = [cache EXCEPT ![p] = Off] /\ read' = [read EXCEPT ![p] = Off]
    /\ toggle' = [t \in Toggles |-> IF toggle[t].pc # "idle" /\ toggle[t].process = p
                                    THEN NoToggle ELSE toggle[t]]
    /\ UNCHANGED <<stored, since>>

Boot(p) ==
    /\ life[p] = "down"
    /\ life' = [life EXCEPT ![p] = "boot"]
    /\ UNCHANGED <<stored, cache, read, toggle, since>>

(***************************************************************************)
(* Toggles: Set, then the copy.                                            *)
(***************************************************************************)
Begin(t, p, reason, minutes) ==
    /\ toggle[t].pc = "idle" /\ Serving(p)
    /\ toggle' = [toggle EXCEPT ![t] = [NoToggle EXCEPT !.pc = "set", !.process = p,
                    !.state = [Active |-> TRUE, Reason |-> reason, ETASecs |-> minutes * 60,
                               stamp |-> 0]]]
    /\ UNCHANGED <<stored, cache, life, read, since>>

End(t, p) ==
    /\ toggle[t].pc = "idle" /\ Serving(p)
    /\ toggle' = [toggle EXCEPT ![t] = [NoToggle EXCEPT !.pc = "set", !.process = p]]
    /\ UNCHANGED <<stored, cache, life, read, since>>

Stamped(s) == [s EXCEPT !.stamp = Len(stored) + 1]

\* The statement commits.
Set(t) ==
    LET s == Stamped(toggle[t].state) IN
    /\ toggle[t].pc = "set"
    /\ Fits(s.ETASecs) /\ Len(stored) < MaxSets
    /\ stored' = Append(stored, s)
    /\ toggle' = [toggle EXCEPT ![t].pc = "take", ![t].state = s]
    /\ UNCHANGED <<cache, life, read, since>>

\* (A fault: the copy is changed although Set failed.)
SetErrorIgnored(t) ==
    /\ toggle[t].pc = "set"
    /\ toggle' = [toggle EXCEPT ![t].pc = "take"]
    /\ UNCHANGED <<stored, cache, life, read, since>>

\* Set returns an error: it had no effect, or the answer to the
\* commit is lost; the admin gets the error.
SetError(t) ==
    LET s == Stamped(toggle[t].state) IN
    /\ toggle[t].pc = "set"
    /\ \/ UNCHANGED stored
       \/ Fits(s.ETASecs) /\ Len(stored) < MaxSets /\ stored' = Append(stored, s)
    /\ toggle' = [toggle EXCEPT ![t] = NoToggle]
    /\ UNCHANGED <<cache, life, read, since>>

Take(t) ==
    LET q == toggle[t] IN
    /\ q.pc = "take"
    /\ cache' = [cache EXCEPT ![q.process] = q.state]
    /\ toggle' = [toggle EXCEPT ![t].pc = "done"]
    /\ UNCHANGED <<stored, life, read, since>>

\* The admin is redirected after a toggle that succeeded.
Return(t) ==
    /\ toggle[t].pc = "done"
    /\ toggle' = [toggle EXCEPT ![t] = NoToggle]
    /\ UNCHANGED <<stored, cache, life, read, since>>

MaintenanceNext ==
    \/ \E p \in Processes : Restore(p) \/ RefreshGet(p) \/ RefreshTake(p) \/ ProcessDies(p) \/ Boot(p)
    \/ \E t \in Toggles :
         \/ \E p \in Processes : End(t, p)
         \/ \E p \in Processes, reason \in Reasons, minutes \in Minutes :
              Begin(t, p, reason, minutes)
         \/ Set(t) \/ SetError(t) \/ Take(t) \/ Return(t)

(***************************************************************************)
(* Tickers keep firing, code that has the state goes on to take it over,   *)
(* and the supervisor restarts what died.                                  *)
(***************************************************************************)
MaintenanceFairness ==
    /\ \A p \in Processes :
         /\ WF_maintVars(Restore(p)) /\ WF_maintVars(Boot(p))
         /\ WF_maintVars(RefreshGet(p)) /\ WF_maintVars(RefreshTake(p))
    /\ \A t \in Toggles :
         /\ WF_maintVars((Set(t) \/ SetError(t)))
         /\ WF_maintVars(Take(t)) /\ WF_maintVars(Return(t))

MaintenanceSpec ==
    MaintenanceInit /\ [][MaintenanceNext]_maintVars /\ MaintenanceFairness

\* The middleware: what a process holding s answers to visitors the host does
\* not let through, and the Retry-After it sends.
Shown(s) == IF ~ s.Active THEN [code |-> 200, retry |-> 0]
            ELSE [code |-> 503, retry |-> IF s.ETASecs > 0 THEN s.ETASecs ELSE 0]

(***************************************************************************)
(* Properties.                                                             *)
(***************************************************************************)

\* A serving process shows a state the store held since the process was restored,
\* never one that a failed toggle or half a refresh made up (maintenance.go:96-117),
\* nor one from before a restart ("survives restarts", maintenance.go:11).
OnlyStoredIsShown ==
    \A p \in Processes : Serving(p) =>
        /\ cache[p].stamp \in since[p] .. Len(stored)
        /\ cache[p] = (IF cache[p].stamp = 0 THEN Off ELSE stored[cache[p].stamp])

CrashesCease == <>[][\A p \in Processes : ~ ProcessDies(p)]_maintVars

\* "a toggle on one replica reaches the others" (maintenance.go:12): with the
\* last state stored and no more crashes, all processes come to answer by it.
Converges ==
    CrashesCease => <>[](\A p \in Processes : Serving(p) /\ Shown(cache[p]) = Shown(Row))

\* Maintenance "should be on after Begin" (maintenance_test.go:23): a process
\* that has answered a Begin shows the page until something else is stored.
BeginSticks ==
    \A t \in Toggles :
        LET q == toggle[t] IN
        /\ q.pc = "done" /\ q.state = Row /\ q.state.Active
        => Shown(cache[q.process]).code = 503
=============================================================================
