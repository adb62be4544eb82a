------------------------------- MODULE Heartbeat -------------------------------
(***************************************************************************)
(* heartbeat/: every process upserts a row on an interval; the page of     *)
(* services shows the rows of the last minute, and the host prunes old     *)
(* ones.  Beats are stamped with the database's clock, windows are cut     *)
(* off with the clock of the process that asks.                            *)
(***************************************************************************)
EXTENDS Clock, Integers, FiniteSets

CONSTANTS
    Instances,      \* the values of HostID; a restarted process keeps its own
    BeatInterval,   \* of StartReporter
    MaxDelay,       \* longest time a statement is under way
    MaxSkew,        \* most a process clock is off the database's
    onlineWindow,
    PruneAge,       \* olderThan, as the host calls Prune
    BeatHorizon     \* bounds the time that passes

\* "A few beat intervals of slack" (views.go:14-16), and pruning is not closer.
ASSUME HeartbeatAssumption ==
    /\ BeatInterval \in Nat \ {0} /\ MaxDelay \in Nat /\ MaxSkew \in Nat
    /\ onlineWindow \in Nat /\ onlineWindow > BeatInterval + MaxDelay + MaxSkew
    /\ PruneAge \in Nat /\ PruneAge >= onlineWindow /\ BeatHorizon \in Nat

VARIABLES
    beats,      \* service_heartbeats: id -> [started, last]
    proc,       \* id -> the process: [up, started, due, ticking, died, healthy]
    wire        \* beats under way: [id, started, sent]

beatVars == <<clock, beats, proc, wire>>

HeartbeatTypeOK ==
    /\ clock \in Nat
    /\ DOMAIN beats \subseteq Instances
    /\ \A i \in DOMAIN beats : beats[i] \in [started : Nat, last : Nat]
    /\ proc \in [Instances -> [up : BOOLEAN, started : Nat, due : Nat, ticking : BOOLEAN,
                            died : Nat, healthy : BOOLEAN]]
    /\ \A b \in wire : b \in [id : Instances, started : Nat, sent : Nat]

HeartbeatInit ==
    /\ clock = 0
    /\ beats = <<>>
    /\ proc = [i \in Instances |->
                  [up |-> FALSE, started |-> 0, due |-> 0, ticking |-> FALSE,
                   died |-> 0, healthy |-> FALSE]]
    /\ wire = {}

\* StartReporter: beats at once, then on the ticker.
Start(i) ==
    /\ ~ proc[i].up
    /\ proc' = [proc EXCEPT ![i] = [up |-> TRUE, started |-> clock, due |-> clock, ticking |-> FALSE,
                                    died |-> 0, healthy |-> FALSE]]
    /\ UNCHANGED <<clock, beats, wire>>

\* The statement a living process waits for.
Waiting(i) == {b \in wire : b.id = i /\ b.started = proc[i].started /\ proc[i].up}

Send(i) ==
    /\ proc[i].up /\ proc[i].due <= clock
    /\ Waiting(i) = {}
    /\ wire' = wire \cup {[id |-> i, started |-> proc[i].started, sent |-> clock]}
    /\ UNCHANGED <<clock, beats, proc>>

\* When the loop beats next.  The ticker starts after the first beat; of the
\* ticks that a slow beat misses, one is kept.
NextBeat(i) ==
    IF proc[i].ticking
    THEN LET missed == (clock - proc[i].due) \div BeatInterval
         IN  proc[i].due + BeatInterval * (IF missed > 1 THEN missed ELSE 1)
    ELSE clock + BeatInterval

Returned(b, ok) ==
    proc' = IF b \in Waiting(b.id)
            THEN [proc EXCEPT ![b.id] = [@ EXCEPT !.due = NextBeat(b.id), !.ticking = TRUE,
                                                  !.healthy = ok]]
            ELSE proc

\* (A fault: a row that exists keeps its last_seen.)
FirstBeat(b) ==
    [i \in DOMAIN beats \cup {b.id} |->
        IF i \in DOMAIN beats THEN beats[i] ELSE [started |-> b.started, last |-> clock]]

\* INSERT ... ON CONFLICT (service_id) DO UPDATE SET ..., last_seen = now().
Beat(b) ==
    [i \in DOMAIN beats \cup {b.id} |->
        IF i = b.id THEN [started |-> b.started, last |-> clock] ELSE beats[i]]

Land(b) ==
    /\ beats' = Beat(b)
    /\ wire' = wire \ {b}
    /\ Returned(b, TRUE)
    /\ UNCHANGED clock

\* The statement fails; the next tick tries again.
Lose(b) ==
    /\ wire' = wire \ {b}
    /\ Returned(b, FALSE)
    /\ UNCHANGED <<clock, beats>>

\* A process dies; what it sent may still arrive.
Die(i) ==
    /\ proc[i].up
    /\ proc' = [proc EXCEPT ![i] = [@ EXCEPT !.up = FALSE, !.healthy = FALSE, !.died = clock]]
    /\ UNCHANGED <<clock, beats, wire>>

\* The asking process's clock.
Skews == - MaxSkew .. MaxSkew

\* (A fault: every row counts as online.)
EveryRow(within, skew) == DOMAIN beats

\* Active(within): last_seen > now - within, the now of a process skew off.
Active(within, skew) == {i \in DOMAIN beats : beats[i].last > clock + skew - within}

Prune(skew) ==
    /\ \E i \in DOMAIN beats : beats[i].last < clock + skew - PruneAge
    /\ beats' = [i \in {j \in DOMAIN beats : beats[j].last >= clock + skew - PruneAge} |-> beats[i]]
    /\ UNCHANGED <<clock, proc, wire>>

\* Time passes: tickers fire when they are due, statements end within MaxDelay.
HeartbeatTick ==
    /\ \A b \in wire : clock < b.sent + MaxDelay
    /\ \A i \in Instances : proc[i].up => proc[i].due > clock \/ Waiting(i) # {}
    /\ Advance(BeatHorizon)
    /\ UNCHANGED <<beats, proc, wire>>

HeartbeatNext ==
    \/ HeartbeatTick
    \/ \E i \in Instances : Start(i) \/ Send(i) \/ Die(i)
    \/ \E b \in wire : Land(b) \/ Lose(b)
    \/ \E skew \in Skews : Prune(skew)

HeartbeatSpec == HeartbeatInit /\ [][HeartbeatNext]_beatVars

(***************************************************************************)
(* Properties.                                                             *)
(***************************************************************************)
\* A process whose last beat arrived is shown as online, whatever process renders
\* the page, prunes or restarts meanwhile; one that died is off the page one window
\* after its last statement can have arrived (views.go:14-16).
ShownIffAlive ==
    \A i \in Instances, skew \in Skews :
        /\ proc[i].up /\ proc[i].healthy => i \in Active(onlineWindow, skew)
        /\ ~ proc[i].up /\ clock >= proc[i].died + MaxDelay + onlineWindow + MaxSkew =>
              i \notin Active(onlineWindow, skew)
=============================================================================
