-------------------------- MODULE Maintenance_Proofs --------------------------
(***************************************************************************)
(* What serving processes show is what was stored, for any number of       *)
(* processes, toggles and states.                                          *)
(***************************************************************************)
EXTENDS Maintenance, TLAPS

\* The state s was stored, and not before the n-th.
Held(s, n) ==
    /\ s.stamp \in n .. Len(stored)
    /\ s = (IF s.stamp = 0 THEN Off ELSE stored[s.stamp])

\* A state's stamp is its place.
StampsRight == \A n \in DOMAIN stored : stored[n].stamp = n

SinceKept == \A p \in Processes : since[p] <= Len(stored)

CachesHeld == \A p \in Processes : Serving(p) => Held(cache[p], since[p])

\* What a refresh read is of the process's own time too: it dies with it.
ReadsHeld == \A p \in Processes : life[p] = "refresh" => Held(read[p], since[p])

\* So is what a toggle stored and is about to take over.
TogglesHeld ==
    \A t \in Toggles :
        LET q == toggle[t] IN
        /\ q.pc \in {"set", "take"} => Serving(q.process)
        /\ q.pc = "take" => Held(q.state, since[q.process])

IInv == MaintenanceTypeOK /\ StampsRight /\ SinceKept /\ CachesHeld /\ ReadsHeld /\ TogglesHeld

(***************************************************************************)
(* Lemmas.                                                                 *)
(***************************************************************************)
\* Off is a state, and an idle toggle one of some process.
LEMMA Constants == Off \in State /\ NoToggle \in Toggle
<1> USE MaintenanceAssumption
<1>1. Off \in State
  BY DEF Off, State
<1>2. (CHOOSE p \in Processes : TRUE) \in Processes
  OBVIOUS
<1> QED
  BY <1>1, <1>2 DEF NoToggle, Toggle

\* The row was stored last, whenever the process was restored (pgstore.go:28-44).
LEMMA RowIsHeld ==
  ASSUME MaintenanceTypeOK, StampsRight, SinceKept
  PROVE  Row \in State /\ Held(Row, Len(stored)) /\ \A p \in Processes : Held(Row, since[p])
<1> USE DEF MaintenanceTypeOK
<1>1. CASE stored = <<>>
  BY <1>1, Constants DEF Row, Held, Off, SinceKept
<1>2. CASE stored # <<>>
  <2>1. Len(stored) \in DOMAIN stored /\ Len(stored) \in Nat \ {0}
    BY <1>2
  <2>2. Row = stored[Len(stored)] /\ Row.stamp = Len(stored) /\ Row \in State
    BY <1>2, <2>1 DEF Row, StampsRight
  <2> QED
    BY <2>1, <2>2 DEF Held, SinceKept
<1> QED
  BY <1>1, <1>2

\* What was held stays so when one more state is stored, which is held itself.
LEMMA StoringKeepsHeld ==
  ASSUME MaintenanceTypeOK, StampsRight,
         NEW s \in State, Fits(s.ETASecs), s.stamp = Len(stored) + 1,
         stored' = Append(stored, s)
  PROVE  /\ stored' \in Seq(State) /\ StampsRight'
         /\ Len(stored') = Len(stored) + 1
         /\ \A n \in DOMAIN stored' : stored'[n].ETASecs <= ETALimit
         /\ \A r \in State, n \in Nat : Held(r, n) => Held(r, n)'
         /\ \A n \in Nat : n <= Len(stored) => Held(s, n)'
<1> USE DEF MaintenanceTypeOK
<1>1. stored' \in Seq(State) /\ Len(stored') = Len(stored) + 1
  OBVIOUS
<1>2. \A n \in DOMAIN stored : stored'[n] = stored[n]
  OBVIOUS
<1>3. stored'[Len(stored) + 1] = s
  OBVIOUS
<1>4. DOMAIN stored' = DOMAIN stored \cup {Len(stored) + 1}
  BY <1>1
<1>5. s.ETASecs <= ETALimit
  BY MaintenanceAssumption DEF Fits, State
<1>6. StampsRight' /\ \A n \in DOMAIN stored' : stored'[n].ETASecs <= ETALimit
  BY <1>2, <1>3, <1>4, <1>5 DEF StampsRight
<1>7. \A r \in State, n \in Nat : Held(r, n) => Held(r, n)'
  BY <1>1, <1>2 DEF Held, State
<1>8. \A n \in Nat : n <= Len(stored) => Held(s, n)'
  BY <1>1, <1>3 DEF Held, State
<1> QED
  BY <1>1, <1>6, <1>7, <1>8

(***************************************************************************)
(* The invariant.                                                          *)
(***************************************************************************)
\* Before anybody serves, nothing is shown.
LEMMA InitInvariant == MaintenanceInit => IInv
<1> SUFFICES ASSUME MaintenanceInit PROVE IInv
  OBVIOUS
<1> USE DEF MaintenanceInit
<1>1. MaintenanceTypeOK
  BY Constants DEF MaintenanceTypeOK
<1>2. StampsRight /\ SinceKept
  BY DEF StampsRight, SinceKept
<1>3. CachesHeld /\ ReadsHeld /\ TogglesHeld
  BY DEF CachesHeld, ReadsHeld, TogglesHeld, Serving, NoToggle
<1> QED
  BY <1>1, <1>2, <1>3 DEF IInv

\* Every step of a process keeps the invariant.
LEMMA ProcessStep ==
  ASSUME IInv, NEW p \in Processes,
         Restore(p) \/ RefreshGet(p) \/ RefreshTake(p) \/ ProcessDies(p) \/ Boot(p)
  PROVE  IInv'
<1> USE DEF IInv
<1>1. stored' = stored /\ Len(stored) \in Nat
  BY DEF Restore, RefreshGet, RefreshTake, ProcessDies, Boot, MaintenanceTypeOK
<1>2. Row \in State /\ Held(Row, Len(stored)) /\ \A q \in Processes : Held(Row, since[q])
  BY RowIsHeld
<1>4. CASE Restore(p)
  <2> USE <1>4 DEF Restore
  <2>1. MaintenanceTypeOK'
    BY <1>1, <1>2 DEF MaintenanceTypeOK
  <2>2. StampsRight' /\ SinceKept'
    BY <1>1 DEF StampsRight, SinceKept, MaintenanceTypeOK
  <2>3. CachesHeld'
    BY <1>1, <1>2 DEF CachesHeld, Serving, Held, MaintenanceTypeOK
  <2>4. ReadsHeld'
    BY <1>1 DEF ReadsHeld, Held, MaintenanceTypeOK
  <2>5. TogglesHeld'
    BY <1>1 DEF TogglesHeld, Serving, Held, MaintenanceTypeOK
  <2> QED
    BY <2>1, <2>2, <2>3, <2>4, <2>5
<1>5. CASE RefreshGet(p)
  <2> USE <1>5 DEF RefreshGet
  <2>1. MaintenanceTypeOK'
    BY <1>1, <1>2 DEF MaintenanceTypeOK
  <2>2. StampsRight' /\ SinceKept'
    BY <1>1 DEF StampsRight, SinceKept, MaintenanceTypeOK
  <2>3. CachesHeld'
    BY <1>1 DEF CachesHeld, Serving, Held, MaintenanceTypeOK
  <2>4. ReadsHeld'
    BY <1>1, <1>2 DEF ReadsHeld, Held, MaintenanceTypeOK
  <2>5. TogglesHeld'
    BY <1>1 DEF TogglesHeld, Serving, Held, MaintenanceTypeOK
  <2> QED
    BY <2>1, <2>2, <2>3, <2>4, <2>5
<1>6. CASE RefreshTake(p)
  <2> USE <1>6 DEF RefreshTake
  <2>1. MaintenanceTypeOK'
    BY <1>1, Constants DEF MaintenanceTypeOK
  <2>2. StampsRight' /\ SinceKept'
    BY <1>1 DEF StampsRight, SinceKept, MaintenanceTypeOK
  <2>3. CachesHeld'
    BY <1>1 DEF CachesHeld, ReadsHeld, Serving, Held, MaintenanceTypeOK
  <2>4. ReadsHeld'
    BY <1>1 DEF ReadsHeld, Held, MaintenanceTypeOK
  <2>5. TogglesHeld'
    BY <1>1 DEF TogglesHeld, Serving, Held, MaintenanceTypeOK
  <2> QED
    BY <2>1, <2>2, <2>3, <2>4, <2>5
<1>7. CASE ProcessDies(p)
  <2> USE <1>7 DEF ProcessDies
  <2>1. MaintenanceTypeOK'
    BY <1>1, Constants DEF MaintenanceTypeOK
  <2>2. StampsRight' /\ SinceKept'
    BY <1>1 DEF StampsRight, SinceKept, MaintenanceTypeOK
  <2>3. CachesHeld'
    BY <1>1 DEF CachesHeld, Serving, Held, MaintenanceTypeOK
  <2>4. ReadsHeld'
    BY <1>1 DEF ReadsHeld, Held, MaintenanceTypeOK
  <2>5. TogglesHeld'
    BY <1>1, Constants DEF TogglesHeld, Serving, Held, MaintenanceTypeOK, NoToggle
  <2> QED
    BY <2>1, <2>2, <2>3, <2>4, <2>5
<1>8. CASE Boot(p)
  <2> USE <1>8 DEF Boot
  <2>1. MaintenanceTypeOK'
    BY <1>1 DEF MaintenanceTypeOK
  <2>2. StampsRight' /\ SinceKept'
    BY <1>1 DEF StampsRight, SinceKept, MaintenanceTypeOK
  <2>3. CachesHeld'
    BY <1>1 DEF CachesHeld, Serving, Held, MaintenanceTypeOK
  <2>4. ReadsHeld'
    BY <1>1 DEF ReadsHeld, Held, MaintenanceTypeOK
  <2>5. TogglesHeld'
    BY <1>1 DEF TogglesHeld, Serving, Held, MaintenanceTypeOK
  <2> QED
    BY <2>1, <2>2, <2>3, <2>4, <2>5
<1> QED
  BY <1>4, <1>5, <1>6, <1>7, <1>8

\* Every step of a toggle keeps the invariant: Set stores what Take takes over.
LEMMA ToggleStep ==
  ASSUME IInv, NEW t \in Toggles,
         \/ \E p \in Processes : End(t, p)
         \/ \E p \in Processes, reason \in Reasons, minutes \in Minutes :
               Begin(t, p, reason, minutes)
         \/ Set(t) \/ SetError(t) \/ Take(t) \/ Return(t)
  PROVE  IInv'
<1> USE DEF IInv
<1>1. toggle[t] \in Toggle /\ toggle[t].state \in State /\ toggle[t].process \in Processes
  BY DEF MaintenanceTypeOK, Toggle
<1>2. ASSUME NEW s \in State, s.stamp = Len(stored) + 1, Fits(s.ETASecs), stored' = Append(stored, s), UNCHANGED <<cache, life, read, since>>,
             toggle[t].pc = "set",
             \/ toggle' = [toggle EXCEPT ![t].pc = "take", ![t].state = s]
             \/ toggle' = [toggle EXCEPT ![t] = NoToggle]
      PROVE  IInv'
  <2>1. /\ stored' \in Seq(State) /\ StampsRight' /\ Len(stored') = Len(stored) + 1
        /\ \A n \in DOMAIN stored' : stored'[n].ETASecs <= ETALimit
        /\ \A r \in State, n \in Nat : Held(r, n) => Held(r, n)'
        /\ \A n \in Nat : n <= Len(stored) => Held(s, n)'
    BY <1>2, StoringKeepsHeld
  <2>2. MaintenanceTypeOK'
    <3>1. [toggle[t] EXCEPT !.pc = "take", !.state = s] \in Toggle
      BY <1>1 DEF Toggle
    <3>2. toggle' \in [Toggles -> Toggle]
      BY <1>2, <3>1, Constants DEF MaintenanceTypeOK
    <3> QED
      BY <1>2, <2>1, <3>2 DEF MaintenanceTypeOK
  <2>3. SinceKept'
    BY <1>2, <2>1 DEF SinceKept, MaintenanceTypeOK
  <2>4. CachesHeld' /\ ReadsHeld'
    BY <1>2, <2>1 DEF CachesHeld, ReadsHeld, Serving, MaintenanceTypeOK, Held
  <2>5. TogglesHeld'
    <3> SUFFICES ASSUME NEW u \in Toggles
                 PROVE  LET q == toggle[u] IN
                        (/\ q.pc \in {"set", "take"} => Serving(q.process)
                         /\ q.pc = "take" => Held(q.state, since[q.process]))'
      BY DEF TogglesHeld
    <3>1. CASE u # t
      <4>1. toggle'[u] = toggle[u] /\ toggle[u].state \in State /\ since[toggle[u].process] \in Nat
        BY <1>2, <3>1 DEF MaintenanceTypeOK, Toggle
      <4> QED
        BY <1>2, <2>1, <4>1 DEF TogglesHeld, Serving, Held
    <3>2. CASE u = t /\ toggle' = [toggle EXCEPT ![t] = NoToggle]
      BY <3>2, Constants DEF MaintenanceTypeOK, NoToggle
    <3>3. CASE u = t /\ toggle' = [toggle EXCEPT ![t].pc = "take", ![t].state = s]
      <4>1. toggle'[u].process = toggle[t].process /\ toggle[t].process \in Processes
            /\ toggle'[u].state = s
        BY <3>3 DEF MaintenanceTypeOK, Toggle
      <4>2. since[toggle[t].process] \in Nat /\ since[toggle[t].process] <= Len(stored)
        BY <4>1 DEF MaintenanceTypeOK, SinceKept
      <4> QED
        BY <1>2, <2>1, <3>3, <4>1, <4>2 DEF TogglesHeld, Serving, Held
    <3> QED
      BY <1>2, <3>1, <3>2, <3>3
  <2> QED
    BY <2>1, <2>2, <2>3, <2>4, <2>5
\* The request begins, ends or fails: the store and the copies stay.
<1>3. ASSUME UNCHANGED <<stored, cache, life, read, since>>,
             NEW q \in Toggle, toggle' = [toggle EXCEPT ![t] = q],
             q.pc \in {"set", "idle"}, q.pc = "set" => Serving(q.process)
      PROVE  IInv'
  <2>1. MaintenanceTypeOK' /\ StampsRight' /\ SinceKept'
    BY <1>3 DEF MaintenanceTypeOK, StampsRight, SinceKept
  <2>2. CachesHeld' /\ ReadsHeld'
    BY <1>3 DEF CachesHeld, ReadsHeld, Serving, Held
  <2>3. TogglesHeld'
    BY <1>3 DEF TogglesHeld, Serving, Held, MaintenanceTypeOK
  <2> QED
    BY <2>1, <2>2, <2>3
<1>4. CASE \E p \in Processes : End(t, p)
  <2>1. PICK p \in Processes : End(t, p)
    BY <1>4
  <2>2. [NoToggle EXCEPT !.pc = "set", !.process = p] \in Toggle
    BY Constants DEF NoToggle, Toggle
  <2> QED
    BY <1>3, <2>1, <2>2 DEF End, NoToggle
<1>5. CASE \E p \in Processes, reason \in Reasons, minutes \in Minutes : Begin(t, p, reason, minutes)
  <2>1. PICK p \in Processes, reason \in Reasons, minutes \in Minutes : Begin(t, p, reason, minutes)
    BY <1>5
  <2> DEFINE q == [NoToggle EXCEPT !.pc = "set", !.process = p,
                     !.state = [Active |-> TRUE, Reason |-> reason, ETASecs |-> minutes * 60,
                                stamp |-> 0]]
  <2>2. q \in Toggle /\ q.pc = "set" /\ q.process = p
    <3>1. [Active |-> TRUE, Reason |-> reason, ETASecs |-> minutes * 60, stamp |-> 0] \in State
      BY MaintenanceAssumption DEF State
    <3> QED
      BY <3>1, Constants DEF NoToggle, Toggle
  <2> QED
    BY <1>3, <2>1, <2>2 DEF Begin
<1> DEFINE stamped == Stamped(toggle[t].state)
<1>10. stamped \in State /\ stamped.stamp = Len(stored) + 1
  <2>1. Len(stored) + 1 \in Nat
    BY DEF MaintenanceTypeOK
  <2> QED
    BY <1>1, <2>1 DEF Stamped, State
<1> HIDE DEF stamped
<1>6. CASE Set(t)
  <2>1. /\ toggle[t].pc = "set" /\ Fits(stamped.ETASecs) /\ stored' = Append(stored, stamped)
        /\ toggle' = [toggle EXCEPT ![t].pc = "take", ![t].state = stamped]
        /\ UNCHANGED <<cache, life, read, since>>
    BY <1>6 DEF Set, stamped
  <2> QED
    BY <1>2, <1>10, <2>1
<1>7. CASE SetError(t)
  <2>1. CASE UNCHANGED stored
    BY <1>3, <1>7, <2>1, Constants DEF SetError, NoToggle
  <2>2. CASE Fits(stamped.ETASecs) /\ stored' = Append(stored, stamped)
    BY <1>2, <1>7, <1>10, <2>2 DEF SetError
  <2> QED
    BY <1>7, <2>1, <2>2 DEF SetError, stamped
<1>8. CASE Take(t)
  <2> USE <1>8 DEF Take
  <2>1. MaintenanceTypeOK' /\ StampsRight' /\ SinceKept'
    BY DEF MaintenanceTypeOK, StampsRight, SinceKept, Toggle
  <2>2. CachesHeld' /\ ReadsHeld'
    BY DEF CachesHeld, ReadsHeld, TogglesHeld, Serving, Held, MaintenanceTypeOK, Toggle
  <2>3. TogglesHeld'
    BY DEF TogglesHeld, Serving, Held, MaintenanceTypeOK, Toggle
  <2> QED
    BY <2>1, <2>2, <2>3
<1>9. CASE Return(t)
  BY <1>3, <1>9, Constants DEF Return, NoToggle
<1> QED
  BY <1>4, <1>5, <1>6, <1>7, <1>8, <1>9

(***************************************************************************)
(* Theorems.                                                               *)
(***************************************************************************)
\* The invariant holds in every state, for any processes, toggles and bounds.
THEOREM Invariance == MaintenanceSpec => []IInv
<1>1. IInv /\ [MaintenanceNext]_maintVars => IInv'
  <2> SUFFICES ASSUME IInv, [MaintenanceNext]_maintVars PROVE IInv'
    OBVIOUS
  <2>1. CASE UNCHANGED maintVars
    BY <2>1 DEF maintVars, IInv, MaintenanceTypeOK, StampsRight, SinceKept, CachesHeld,
                ReadsHeld, TogglesHeld, Serving, Held
  <2>2. CASE MaintenanceNext
    BY <2>2, ProcessStep, ToggleStep DEF MaintenanceNext
  <2> QED
    BY <2>1, <2>2
<1> QED
  BY <1>1, InitInvariant, PTL DEF MaintenanceSpec

\* Whatever is stored fits the column, and every copy, read and toggle is a state.
THEOREM TypeCorrect == MaintenanceSpec => []MaintenanceTypeOK
<1>1. IInv => MaintenanceTypeOK
  BY DEF IInv
<1> QED
  BY <1>1, Invariance, PTL

\* A serving process shows a state the store has held since the process was restored
\* (maintenance.go:54-117), however toggles, refreshes, lost answers and crashes fall.
THEOREM StoredIsShown == MaintenanceSpec => []OnlyStoredIsShown
<1>1. IInv => OnlyStoredIsShown
  BY DEF IInv, CachesHeld, Held, OnlyStoredIsShown
<1> QED
  BY <1>1, Invariance, PTL
=============================================================================
