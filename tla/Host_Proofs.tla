------------------------------ MODULE Host_Proofs ------------------------------
(***************************************************************************)
(* Job triggers and hooks, for any jobs, workers and limit of a claim, and *)
(* for any topics, goroutines and depth of nesting.                        *)
(***************************************************************************)
EXTENDS MCHost, SequenceTheorems, FiniteSetTheorems, TLAPS

(***************************************************************************)
(* Job triggers.                                                           *)
(***************************************************************************)
\* A worker has rows under deletion only while it runs and has nothing left to run, and
\* a name is in its hand once.
JobInv ==
    /\ JobTypeOK
    /\ IsFiniteSet(pending)
    /\ \A w \in Workers : locked[w] # {} => up[w] /\ hand[w] = <<>>
    /\ \A w \in Workers : IsInjective(hand[w])

\* The sequences of the elements of a finite set have no other elements, and none twice.
LEMMA Arrangements ==
    ASSUME NEW S, IsFiniteSet(S), NEW s \in SetToSeqs(S)
    PROVE  s \in Seq(S) /\ ToSet(s) = S /\ IsInjective(s)
<1> DEFINE n == Cardinality(S)
<1>1. n \in Nat
  BY FS_CardinalityType
<1>2. s \in [1..n -> S] /\ \A i, j \in 1..n : i # j => s[i] # s[j]
  BY DEF SetToSeqs
<1>3. s \in Seq(S)
  BY <1>1, <1>2
<1>4. s \in Injection(1..n, S)
  BY <1>2 DEF Injection, IsInjective
<1>5. IsFiniteSet(1..n) /\ Cardinality(1..n) = n
  BY <1>1, FS_Interval
<1>6. s \in Surjection(1..n, S)
  BY <1>4, <1>5, FS_Injection
<1>7. ToSet(s) = S
  BY <1>2, <1>6 DEF Surjection, ToSet
<1> QED BY <1>3, <1>4, <1>7 DEF Injection

\* Without its first element.
LEMMA WithoutHead ==
    ASSUME NEW T, NEW s \in Seq(T), s # <<>>, IsInjective(s)
    PROVE  /\ Tail(s) \in Seq(T) /\ IsInjective(Tail(s)) /\ Head(s) \in T
           /\ Head(s) \in ToSet(s) /\ ToSet(Tail(s)) = ToSet(s) \ {Head(s)}
<1>1. /\ Len(s) \in Nat /\ Len(s) >= 1 /\ DOMAIN s = 1..Len(s)
      /\ Head(s) = s[1] /\ Head(s) \in T
      /\ Tail(s) \in Seq(T) /\ Len(Tail(s)) = Len(s) - 1
      /\ \A i \in 1..Len(Tail(s)) : Tail(s)[i] = s[i + 1]
  BY HeadTailProperties, LenProperties, EmptySeq
<1>2. DOMAIN Tail(s) = 1..(Len(s) - 1)
  BY <1>1, LenProperties
<1>3. IsInjective(Tail(s))
  BY <1>1, <1>2 DEF IsInjective
<1>4. ASSUME NEW x \in ToSet(Tail(s)) PROVE x \in ToSet(s) \ {Head(s)}
  <2>1. PICK i \in 1..(Len(s) - 1) : x = s[i + 1]
    BY <1>1, <1>2 DEF ToSet
  <2>2. i + 1 \in DOMAIN s /\ 1 \in DOMAIN s /\ i + 1 # 1
    BY <1>1
  <2> QED BY <1>1, <2>1, <2>2 DEF ToSet, IsInjective
<1>5. ASSUME NEW x \in ToSet(s) \ {Head(s)} PROVE x \in ToSet(Tail(s))
  <2>1. PICK i \in 1..Len(s) : x = s[i]
    BY <1>1 DEF ToSet
  <2>2. i - 1 \in 1..(Len(s) - 1)
    BY <1>1, <2>1
  <2>3. Tail(s)[i - 1] = s[(i - 1) + 1] /\ (i - 1) + 1 = i
    BY <1>1, <2>2
  <2> QED BY <1>2, <2>1, <2>2, <2>3 DEF ToSet
<1>6. Head(s) \in ToSet(s)
  BY <1>1 DEF ToSet
<1> QED BY <1>1, <1>3, <1>4, <1>5, <1>6

\* Deleting rows that no other worker has locked.
LEMMA DeleteStep ==
    ASSUME JobInv, NEW w \in Workers, Delete(locked[w]),
           locked' = [locked EXCEPT ![w] = {}], UNCHANGED up, hand' \in [Workers -> Seq(Jobs)]
    PROVE  JobTypeOK' /\ IsFiniteSet(pending')
<1>1. pending' = pending \ locked[w] /\ older' = older \cap (pending' \X pending')
  BY DEF Delete
<1>2. locked' \in [Workers -> SUBSET pending']
  <2>1. ASSUME NEW v \in Workers PROVE locked'[v] \subseteq pending'
    BY <1>1 DEF JobInv, JobTypeOK
  <2>2. locked' = [v \in Workers |-> locked'[v]]
    BY DEF JobInv, JobTypeOK
  <2> QED BY <2>1, <2>2
<1>3. \A u, v \in Workers : u # v => locked'[u] \cap locked'[v] = {}
  BY DEF JobInv, JobTypeOK
<1>4. \A j, k \in pending' : <<j, k>> \in older' <=> j # k /\ <<k, j>> \notin older'
  BY <1>1 DEF JobInv, JobTypeOK
<1>5. IsFiniteSet(pending')
  BY <1>1, FS_Subset DEF JobInv
<1> QED BY <1>1, <1>2, <1>3, <1>4, <1>5 DEF JobInv, JobTypeOK

LEMMA JobInitInvariant == JobInit => JobInv
BY FS_EmptySet, EmptySeq DEF JobInit, JobInv, JobTypeOK, IsInjective

LEMMA JobNextInvariant == JobInv /\ [JobNext]_jobVars => JobInv'
<1> SUFFICES ASSUME JobInv, [JobNext]_jobVars PROVE JobInv'
  OBVIOUS
<1> USE DEF JobInv, JobTypeOK
<1>1. CASE UNCHANGED jobVars
  BY <1>1 DEF jobVars
<1>2. ASSUME NEW j \in Jobs, Request(j) PROVE JobInv'
  <2>1. pending' = pending \cup {j} /\ older' = older \cup (pending \X {j}) /\ j \notin pending
    BY <1>2 DEF Request
  <2>2. IsFiniteSet(pending')
    BY <2>1, FS_AddElement
  <2>3. older' \subseteq pending' \X pending'
    BY <2>1
  <2>4. ASSUME NEW k \in pending', NEW l \in pending'
        PROVE  <<k, l>> \in older' <=> k # l /\ <<l, k>> \notin older'
    BY <2>1
  <2> QED BY <1>2, <2>1, <2>2, <2>3, <2>4 DEF Request
<1>3. ASSUME NEW w \in Workers, ClaimLock(w) PROVE JobInv'
  <2>1. OldestFree \subseteq pending /\ \A v \in Workers : OldestFree \cap locked[v] = {}
    BY DEF OldestFree, Oldest, LockedRows
  <2>2. locked' = [locked EXCEPT ![w] = OldestFree]
    BY <1>3 DEF ClaimLock
  <2>3. locked' \in [Workers -> SUBSET pending]
    BY <2>1, <2>2
  <2>4. \A u, v \in Workers : u # v => locked'[u] \cap locked'[v] = {}
    BY <2>1, <2>2
  <2>5. \A v \in Workers : locked'[v] # {} => up[v] /\ hand[v] = <<>>
    BY <1>3, <2>2 DEF ClaimLock, Idle
  <2> QED BY <1>3, <2>3, <2>4, <2>5 DEF ClaimLock
<1>4. ASSUME NEW w \in Workers, ClaimCommit(w) PROVE JobInv'
  <2>1. PICK names \in SetToSeqs(locked[w]) : hand' = [hand EXCEPT ![w] = names]
    BY <1>4 DEF ClaimCommit
  <2>2. IsFiniteSet(locked[w])
    BY FS_Subset
  <2>3. names \in Seq(Jobs) /\ IsInjective(names)
    BY <2>2, Arrangements
  <2>4. hand' \in [Workers -> Seq(Jobs)] /\ \A v \in Workers : IsInjective(hand'[v])
    BY <2>1, <2>3
  <2>5. JobTypeOK' /\ IsFiniteSet(pending')
    BY <1>4, <2>4, DeleteStep DEF ClaimCommit
  <2>6. \A v \in Workers : locked'[v] # {} => up'[v] /\ hand'[v] = <<>>
    BY <1>4, <2>1 DEF ClaimCommit
  <2> QED BY <2>4, <2>5, <2>6
<1>5. ASSUME NEW w \in Workers, ClaimError(w) PROVE JobInv'
  <2>1. CASE Delete(locked[w])
    <3>1. JobTypeOK' /\ IsFiniteSet(pending')
      BY <1>5, <2>1, DeleteStep DEF ClaimError
    <3> QED BY <1>5, <3>1 DEF ClaimError
  <2>2. CASE UNCHANGED <<pending, older>>
    BY <1>5, <2>2 DEF ClaimError
  <2> QED BY <1>5, <2>1, <2>2 DEF ClaimError
<1>6. ASSUME NEW w \in Workers, Run(w) PROVE JobInv'
  <2>1. hand[w] \in Seq(Jobs) /\ hand[w] # <<>> /\ IsInjective(hand[w])
    BY <1>6 DEF Run
  <2>2. Tail(hand[w]) \in Seq(Jobs) /\ IsInjective(Tail(hand[w]))
    BY <2>1, WithoutHead
  <2>3. hand' = [hand EXCEPT ![w] = Tail(hand[w])]
    BY <1>6 DEF Run
  <2> QED BY <1>6, <2>1, <2>2, <2>3 DEF Run
<1>7. ASSUME NEW w \in Workers, Crash(w) PROVE JobInv'
  BY <1>7, EmptySeq DEF Crash, IsInjective
<1>8. ASSUME NEW w \in Workers, Restart(w) PROVE JobInv'
  BY <1>8 DEF Restart
<1> QED BY <1>1, <1>2, <1>3, <1>4, <1>5, <1>6, <1>7, <1>8 DEF JobNext

\* The rows, their order, the locks and the claimed names keep their types: no row is under
\* deletion by two workers (pgstore.go:47).
THEOREM JobTypeCorrect == JobSpec => []JobTypeOK
<1>1. JobInv => JobTypeOK
  BY DEF JobInv
<1> QED BY <1>1, JobInitInvariant, JobNextInvariant, PTL DEF JobSpec

(***************************************************************************)
(* The workers implement Triggers.                                         *)
(***************************************************************************)
Takers(j) == {w \in Workers : j \in ToSet(hand[w])}
Taken == [j \in Jobs |-> Cardinality(Takers(j))]

\* One worker has S in its hand, or has it no more.
LEMMA HandFilled ==
    ASSUME JobInv, NEW w \in Workers, ToSet(hand[w]) = {}, NEW S,
           NEW names, ToSet(names) = S, hand' = [hand EXCEPT ![w] = names]
    PROVE  Taken' = [j \in Jobs |-> Taken[j] + IF j \in S THEN 1 ELSE 0]
<1>1. ASSUME NEW j \in Jobs
      PROVE  Cardinality(Takers(j))' = Cardinality(Takers(j)) + IF j \in S THEN 1 ELSE 0
  <2>1. IsFiniteSet(Takers(j)) /\ w \notin Takers(j)
    BY JobTriggerAssumption, FS_Subset DEF Takers
  <2>2. Cardinality(Takers(j)) \in Nat
    BY <2>1, FS_CardinalityType
  <2>3. Takers(j)' = IF j \in S THEN Takers(j) \cup {w} ELSE Takers(j)
    BY DEF Takers, JobInv, JobTypeOK
  <2>4. Cardinality(Takers(j) \cup {w}) = Cardinality(Takers(j)) + 1
    BY <2>1, FS_AddElement
  <2>5. CASE j \in S
    BY <2>2, <2>3, <2>4, <2>5
  <2>6. CASE j \notin S
    BY <2>2, <2>3, <2>6
  <2> QED BY <2>5, <2>6
<1>2. Taken' = [j \in Jobs |-> Cardinality(Takers(j))']
  BY DEF Taken
<1> QED BY <1>1, <1>2 DEF Taken

LEMMA HandEmptied ==
    ASSUME JobInv, NEW w \in Workers, NEW S \in SUBSET ToSet(hand[w]),
           NEW names, ToSet(names) = ToSet(hand[w]) \ S, hand' = [hand EXCEPT ![w] = names]
    PROVE  /\ \A j \in S : j \in Jobs /\ Taken[j] > 0
           /\ Taken' = [j \in Jobs |-> Taken[j] - IF j \in S THEN 1 ELSE 0]
<1>1. ASSUME NEW j \in Jobs
      PROVE  /\ Cardinality(Takers(j))' = Cardinality(Takers(j)) - IF j \in S THEN 1 ELSE 0
             /\ j \in S => Cardinality(Takers(j)) > 0
  <2>1. IsFiniteSet(Takers(j))
    BY JobTriggerAssumption, FS_Subset DEF Takers
  <2>2. Cardinality(Takers(j)) \in Nat /\ (Takers(j) # {} => Cardinality(Takers(j)) # 0)
    BY <2>1, FS_CardinalityType, FS_EmptySet
  <2>3. Takers(j)' = IF j \in S THEN Takers(j) \ {w} ELSE Takers(j)
    BY DEF Takers, JobInv, JobTypeOK
  <2>4. j \in S => w \in Takers(j)
    BY DEF Takers
  <2>5. CASE j \in S
    <3>1. Cardinality(Takers(j) \ {w}) = Cardinality(Takers(j)) - 1
      BY <2>1, <2>4, <2>5, FS_RemoveElement
    <3> QED BY <2>2, <2>3, <2>4, <2>5, <3>1
  <2>6. CASE j \notin S
    BY <2>2, <2>3, <2>6
  <2> QED BY <2>5, <2>6
<1>2. Taken' = [j \in Jobs |-> Cardinality(Takers(j))']
  BY DEF Taken
<1>3. S \subseteq Jobs
  BY ElementOfSeq, LenProperties DEF JobInv, JobTypeOK, ToSet
<1> QED BY <1>1, <1>2, <1>3 DEF Taken

\* What the tables and hands show of a step is a step of Triggers, or nothing.
BoardStep ==
    \/ UNCHANGED <<pending, Taken>>
    \/ \E j \in Jobs : j \notin pending /\ pending' = pending \cup {j} /\ UNCHANGED Taken
    \/ \E S \in SUBSET Jobs :
          \/ /\ S # {} /\ S \subseteq pending /\ pending' = pending \ S
             /\ Taken' = [j \in Jobs |-> Taken[j] + IF j \in S THEN 1 ELSE 0]
          \/ S # {} /\ S \subseteq pending /\ pending' = pending \ S /\ UNCHANGED Taken
          \/ /\ S # {} /\ \A j \in S : Taken[j] > 0
             /\ Taken' = [j \in Jobs |-> Taken[j] - IF j \in S THEN 1 ELSE 0]
             /\ UNCHANGED pending

LEMMA StepsMap == JobInv /\ [JobNext]_jobVars => BoardStep
<1> SUFFICES ASSUME JobInv, [JobNext]_jobVars PROVE BoardStep
  OBVIOUS
<1>1. UNCHANGED hand => UNCHANGED Taken
  BY DEF Taken, Takers
<1>2. CASE UNCHANGED jobVars
  BY <1>1, <1>2 DEF jobVars, BoardStep
<1>3. ASSUME NEW j \in Jobs, Request(j) PROVE BoardStep
  BY <1>1, <1>3 DEF Request, BoardStep
<1>4. ASSUME NEW w \in Workers, ClaimLock(w) PROVE BoardStep
  BY <1>1, <1>4 DEF ClaimLock, BoardStep
<1>5. ASSUME NEW w \in Workers, ClaimCommit(w) PROVE BoardStep
  <2>1. PICK names \in SetToSeqs(locked[w]) : hand' = [hand EXCEPT ![w] = names]
    BY <1>5 DEF ClaimCommit
  <2>2. /\ locked[w] # {} /\ locked[w] \subseteq pending /\ locked[w] \subseteq Jobs
        /\ pending' = pending \ locked[w]
    BY <1>5 DEF ClaimCommit, Delete, JobInv, JobTypeOK
  <2>3. IsFiniteSet(locked[w])
    BY <2>2, FS_Subset DEF JobInv
  <2>4. ToSet(names) = locked[w]
    BY <2>3, Arrangements
  <2>5. ToSet(hand[w]) = {}
    BY <2>2, EmptySeq DEF JobInv, ToSet
  <2>6. Taken' = [j \in Jobs |-> Taken[j] + IF j \in locked[w] THEN 1 ELSE 0]
    BY <2>1, <2>4, <2>5, HandFilled
  <2> QED BY <2>2, <2>6 DEF BoardStep
<1>6. ASSUME NEW w \in Workers, ClaimError(w) PROVE BoardStep
  <2>1. locked[w] # {} /\ locked[w] \subseteq pending /\ locked[w] \subseteq Jobs
    BY <1>6 DEF ClaimError, JobInv, JobTypeOK
  <2> QED BY <1>1, <1>6, <2>1 DEF ClaimError, Delete, BoardStep
<1>7. ASSUME NEW w \in Workers, Run(w) PROVE BoardStep
  <2> DEFINE S == {Head(hand[w])}
  <2>1. hand[w] \in Seq(Jobs) /\ hand[w] # <<>> /\ IsInjective(hand[w])
    BY <1>7 DEF Run, JobInv, JobTypeOK
  <2>2. S \in SUBSET Jobs /\ S \in SUBSET ToSet(hand[w]) /\ S # {}
        /\ ToSet(Tail(hand[w])) = ToSet(hand[w]) \ S
    BY <2>1, WithoutHead
  <2>3. hand' = [hand EXCEPT ![w] = Tail(hand[w])] /\ UNCHANGED pending
    BY <1>7 DEF Run
  <2> HIDE DEF S
  <2>4. /\ \A j \in S : Taken[j] > 0
        /\ Taken' = [j \in Jobs |-> Taken[j] - IF j \in S THEN 1 ELSE 0]
    BY <2>2, <2>3, HandEmptied
  <2> QED BY <2>2, <2>3, <2>4 DEF BoardStep
<1>8. ASSUME NEW w \in Workers, Crash(w) PROVE BoardStep
  <2> DEFINE S == ToSet(hand[w])
  <2>1. hand' = [hand EXCEPT ![w] = <<>>] /\ UNCHANGED pending
    BY <1>8 DEF Crash
  <2>2. ToSet(<<>>) = S \ S
    BY EmptySeq DEF ToSet
  <2>3. /\ \A j \in S : j \in Jobs /\ Taken[j] > 0
        /\ Taken' = [j \in Jobs |-> Taken[j] - IF j \in S THEN 1 ELSE 0]
    BY <2>1, <2>2, HandEmptied
  <2>4. CASE S # {}
    BY <2>1, <2>3, <2>4 DEF BoardStep
  <2>5. CASE S = {}
    <3>1. \A v \in Workers : ToSet(hand'[v]) = ToSet(hand[v])
      BY <2>1, <2>2, <2>5 DEF JobInv, JobTypeOK
    <3>2. UNCHANGED Taken
      BY <3>1 DEF Taken, Takers
    <3> QED BY <2>1, <3>2 DEF BoardStep
  <2> QED BY <2>4, <2>5
<1>9. ASSUME NEW w \in Workers, Restart(w) PROVE BoardStep
  BY <1>1, <1>9 DEF Restart, BoardStep
<1> QED
  BY <1>2, <1>3, <1>4, <1>5, <1>6, <1>7, <1>8, <1>9 DEF JobNext

\* However workers overlap, fail and crash, what becomes of the requests is a behaviour of
\* Triggers: none is handed to two workers or turns up again (jobtrigger.go:28).
THEOREM WorkersImplementTriggers == JobSpec => ImplementsTriggers
<1>1. JobInit => Board!Init
  <2> SUFFICES ASSUME JobInit PROVE Board!Init
    OBVIOUS
  <2>1. ASSUME NEW j \in Jobs PROVE {w \in Workers : j \in ToSet(hand[w])} = {}
    BY EmptySeq DEF JobInit, ToSet
  <2>2. \A j \in Jobs : Cardinality({w \in Workers : j \in ToSet(hand[w])}) = 0
    BY <2>1, FS_EmptySet
  <2> QED BY <2>2 DEF JobInit, Board!Init
<1>2. BoardStep => [Board!Next]_(Board!boardVars)
  BY DEF BoardStep, Taken, Takers, Board!Next, Board!Accept, Board!Claim, Board!Lose,
         Board!Finish, Board!boardVars
<1> QED
  BY <1>1, <1>2, StepsMap, JobInitInvariant, JobNextInvariant, PTL
     DEF JobSpec, ImplementsTriggers, Board!Spec

(***************************************************************************)
(* Hooks: prefixes.                                                        *)
(***************************************************************************)
LEMMA PrefixPointwise ==
    ASSUME NEW T, NEW s \in Seq(T), NEW t \in Seq(T)
    PROVE  IsPrefix(s, t) <=> Len(s) <= Len(t) /\ \A i \in 1..Len(s) : s[i] = t[i]
<1> DEFINE m == Len(s)
<1>1. m \in Nat /\ Len(t) \in Nat
  BY LenProperties
<1>2. ASSUME m <= Len(t) PROVE SubSeq(s, 1, m) = SubSeq(t, 1, m) <=> \A i \in 1..m : s[i] = t[i]
  <2>1. SubSeq(s, 1, m) = [i \in 1..m |-> s[i]]
    BY <1>1
  <2>2. SubSeq(t, 1, m) = [i \in 1..m |-> t[i]]
    BY <1>1
  <2> QED BY <2>1, <2>2
<1> QED BY <1>2 DEF IsPrefix

LEMMA PrefixOrder ==
    ASSUME NEW T, NEW s \in Seq(T), NEW t \in Seq(T), NEW u \in Seq(T),
           IsPrefix(s, t), IsPrefix(t, u)
    PROVE  IsPrefix(s, u)
<1>1. Len(s) \in Nat /\ Len(t) \in Nat /\ Len(u) \in Nat
  BY LenProperties
<1> QED BY <1>1, PrefixPointwise

LEMMA PrefixOfConcat ==
    ASSUME NEW T, NEW s \in Seq(T), NEW t \in Seq(T)
    PROVE  s \o t \in Seq(T) /\ IsPrefix(s, s \o t) /\ IsPrefix(s, s) /\ IsPrefix(<<>>, s)
<1> DEFINE st == s \o t
           none == <<>>
<1>1. Len(s) \in Nat /\ Len(t) \in Nat
  BY LenProperties
<1>2. /\ st \in Seq(T) /\ Len(st) = Len(s) + Len(t)
      /\ \A i \in 1..Len(s) : st[i] = s[i]
  BY <1>1, ConcatProperties
<1>3. none \in Seq(T) /\ Len(none) = 0
  BY EmptySeq
<1> HIDE DEF st, none
<1>4. IsPrefix(s, st)
  BY <1>1, <1>2, PrefixPointwise
<1>5. IsPrefix(s, s)
  BY <1>1, PrefixPointwise
<1>6. IsPrefix(none, s)
  <2>1. ASSUME NEW e \in Seq(T), Len(e) = 0 PROVE IsPrefix(e, s)
    <3>1. IsPrefix(e, s) <=> Len(e) <= Len(s) /\ \A i \in 1..Len(e) : e[i] = s[i]
      BY PrefixPointwise
    <3> QED BY <1>1, <2>1, <3>1
  <2> QED BY <1>3, <2>1
<1> QED BY <1>2, <1>4, <1>5, <1>6 DEF st, none

(***************************************************************************)
(* Hooks: the invariant.                                                   *)
(***************************************************************************)
\* Whom a call has called and is still to call.
Due(f) == f.heard \o (IF f.pc = "next" THEN f.todo ELSE Tail(f.todo))

\* The calls as they are on a stack: an emit that has its copy goes through a prefix of
\* what is subscribed, which holds everybody who had subscribed when it began.
SoundFrames == {f \in Frame :
    /\ f.op = "subscribe" <=> f.pc \in {"lock", "append"}
    /\ f.pc \in {"rlock", "copy"} => f.heard = <<>> /\ IsPrefix(f.before, subs[f.topic])
    /\ f.pc \in {"next", "handler", "used"} =>
          /\ f.pc # "next" => f.todo # <<>>
          /\ IsPrefix(Due(f), subs[f.topic]) /\ IsPrefix(f.before, Due(f))}

HooksInv ==
    /\ HooksTypeOK
    /\ stack \in [Goroutines -> Seq(SoundFrames)]

LEMMA SubsAreNumbers == HooksTypeOK => \A t \in Topics : subs[t] \in Seq(Nat)
<1>1. Seq(1..MaxSubs) \subseteq Seq(Nat)
  BY HooksAssumption, SeqMonotonic
<1> QED BY <1>1 DEF HooksTypeOK

LEMMA FramesAreFrames ==
    ASSUME NEW f \in SoundFrames
    PROVE  /\ f \in Frame /\ f.topic \in Topics
           /\ f.todo \in Seq(Nat) /\ f.heard \in Seq(Nat) /\ f.before \in Seq(Nat)
BY DEF SoundFrames, Frame

LEMMA DueType ==
    ASSUME NEW f \in Frame, f.pc = "next" \/ f.todo # <<>>
    PROVE  Due(f) \in Seq(Nat) /\ IsPrefix(f.heard, Due(f))
<1>1. f.todo \in Seq(Nat) /\ f.heard \in Seq(Nat)
  BY DEF Frame
<1>2. f.todo # <<>> => Tail(f.todo) \in Seq(Nat)
  BY <1>1, HeadTailProperties
<1> QED BY <1>1, <1>2, PrefixOfConcat DEF Due

\* The innermost call.
LEMMA TopFrame ==
    ASSUME HooksInv, NEW g \in Goroutines, stack[g] # <<>>
    PROVE  /\ Head(stack[g]) \in SoundFrames /\ Head(stack[g]) \in Frame
           /\ Tail(stack[g]) \in Seq(SoundFrames)
<1>1. Head(stack[g]) \in SoundFrames /\ Tail(stack[g]) \in Seq(SoundFrames)
  BY HeadTailProperties DEF HooksInv
<1> QED BY <1>1 DEF SoundFrames

\* A step of one goroutine while nothing is subscribed.
LEMMA StackStep ==
    ASSUME HooksInv, NEW g \in Goroutines, NEW s \in Seq(SoundFrames),
           stack' = [stack EXCEPT ![g] = s], UNCHANGED subs,
           readers' \subseteq Goroutines, writer' \in Goroutines \cup {Nobody}
    PROVE  HooksInv'
<1>1. SoundFrames' = SoundFrames
  BY DEF SoundFrames
<1>2. stack' \in [Goroutines -> Seq(SoundFrames)]
  BY DEF HooksInv
<1>3. Seq(SoundFrames) \subseteq Seq(Frame)
  BY SeqMonotonic DEF SoundFrames
<1> QED BY <1>1, <1>2, <1>3 DEF HooksInv, HooksTypeOK

LEMMA GoToStep ==
    ASSUME HooksInv, NEW g \in Goroutines, stack[g] # <<>>, NEW f \in SoundFrames, GoTo(g, f),
           UNCHANGED subs, readers' \subseteq Goroutines, writer' \in Goroutines \cup {Nobody}
    PROVE  HooksInv'
<1>1. Tail(stack[g]) \in Seq(SoundFrames)
  BY TopFrame
<1>2. <<f>> \in Seq(SoundFrames)
  OBVIOUS
<1>3. <<f>> \o Tail(stack[g]) \in Seq(SoundFrames)
  BY <1>1, <1>2, ConcatProperties
<1>4. stack' = [stack EXCEPT ![g] = <<f>> \o Tail(stack[g])]
  BY DEF GoTo
<1> QED BY <1>3, <1>4, StackStep

(***************************************************************************)
(* Hooks: one lemma per action.                                            *)
(***************************************************************************)
LEMMA EnterStep ==
    ASSUME HooksInv, NEW g \in Goroutines, NEW f \in SoundFrames, Enter(g, f)
    PROVE  HooksInv'
<1> DEFINE rest == IF stack[g] = <<>> THEN stack[g]
                   ELSE <<[Head(stack[g]) EXCEPT !.pc = "used"]>> \o Tail(stack[g])
<1>1. rest \in Seq(SoundFrames)
  <2>1. CASE stack[g] = <<>>
    BY <2>1 DEF HooksInv
  <2>2. CASE stack[g] # <<>>
    <3> DEFINE h == Head(stack[g])
               u == [h EXCEPT !.pc = "used"]
    <3>1. h \in SoundFrames /\ h \in Frame /\ h.pc = "handler" /\ Tail(stack[g]) \in Seq(SoundFrames)
      BY <2>2, TopFrame DEF Enter, At
    <3>2. /\ u \in Frame /\ u.op = h.op /\ u.pc = "used" /\ u.todo = h.todo
          /\ u.heard = h.heard /\ u.before = h.before /\ u.topic = h.topic
      BY <3>1 DEF Frame
    <3>3. Due(u) = Due(h)
      <4> HIDE DEF h, u
      <4>1. u.pc # "next" /\ h.pc # "next"
        BY <3>1, <3>2
      <4> QED BY <3>2, <4>1 DEF Due
    <3>4. u \in SoundFrames
      BY <3>1, <3>2, <3>3 DEF SoundFrames
    <3> HIDE DEF u
    <3>5. <<u>> \in Seq(SoundFrames)
      BY <3>4
    <3>6. <<u>> \o Tail(stack[g]) \in Seq(SoundFrames)
      BY <3>1, <3>5, ConcatProperties
    <3> QED BY <2>2, <3>6 DEF u
  <2> QED BY <2>1, <2>2
<1>2. stack' = [stack EXCEPT ![g] = <<f>> \o rest]
  BY DEF Enter, HooksInv
<1> HIDE DEF rest
<1>3. <<f>> \in Seq(SoundFrames)
  OBVIOUS
<1>4. <<f>> \o rest \in Seq(SoundFrames)
  BY <1>1, <1>3, ConcatProperties
<1>5. UNCHANGED <<subs, readers, writer>>
  BY DEF Enter
<1> QED BY <1>2, <1>4, <1>5, StackStep DEF HooksInv, HooksTypeOK

LEMMA CallStep ==
    ASSUME HooksInv, NEW g \in Goroutines, NEW t \in Topics, CallEmit(g, t) \/ CallSubscribe(g, t)
    PROVE  HooksInv'
<1> DEFINE e == [op |-> "emit", topic |-> t, pc |-> "rlock", todo |-> <<>>, heard |-> <<>>,
                 before |-> subs[t]]
           s == [op |-> "subscribe", topic |-> t, pc |-> "lock", todo |-> <<>>, heard |-> <<>>,
                 before |-> <<>>]
<1>1. subs[t] \in Seq(Nat) /\ <<>> \in Seq(Nat)
  BY SubsAreNumbers, EmptySeq DEF HooksInv
<1>2. IsPrefix(subs[t], subs[t])
  BY <1>1, PrefixOfConcat
<1>3. e \in SoundFrames /\ s \in SoundFrames
  BY <1>1, <1>2 DEF SoundFrames, Frame
<1>4. Enter(g, e) \/ Enter(g, s)
  BY DEF CallEmit, CallSubscribe
<1> HIDE DEF e, s
<1> QED BY <1>3, <1>4, EnterStep

LEMMA LockStep ==
    ASSUME HooksInv, NEW g \in Goroutines, Lock(g)
    PROVE  HooksInv'
<1> DEFINE h == Head(stack[g])
           f == [h EXCEPT !.pc = "append"]
<1>1. stack[g] # <<>> /\ h \in SoundFrames /\ h \in Frame /\ h.pc = "lock"
  BY TopFrame DEF Lock, At
<1>2. f \in Frame /\ f.op = h.op /\ f.pc = "append"
  BY <1>1 DEF Frame
<1>3. f \in SoundFrames
  BY <1>1, <1>2 DEF SoundFrames
<1>4. GoTo(g, f) /\ UNCHANGED <<subs, readers>> /\ writer' = g
  BY DEF Lock
<1> HIDE DEF f
<1> QED BY <1>1, <1>3, <1>4, GoToStep DEF HooksInv, HooksTypeOK

\* What is subscribed only grows at its end, so what is a prefix stays one.
LEMMA RegisterStep ==
    ASSUME HooksInv, NEW g \in Goroutines, Register(g)
    PROVE  HooksInv'
<1> DEFINE t == Topic(g)
           n == Subscribed + 1
<1>1. stack[g] # <<>> /\ t \in Topics /\ Tail(stack[g]) \in Seq(SoundFrames)
  BY TopFrame DEF Register, At, Topic, Frame
<1>2. Subscribed \in Nat
  <2> DEFINE U == UNION {ToSet(subs[u]) : u \in Topics}
  <2>1. U \subseteq 1..MaxSubs
    <3> SUFFICES ASSUME NEW x \in U PROVE x \in 1..MaxSubs
      OBVIOUS
    <3>1. PICK u \in Topics : x \in ToSet(subs[u])
      OBVIOUS
    <3>2. PICK i \in DOMAIN subs[u] : x = subs[u][i]
      BY <3>1 DEF ToSet
    <3>3. subs[u] \in Seq(1..MaxSubs)
      BY DEF HooksInv, HooksTypeOK
    <3>4. i \in 1..Len(subs[u])
      BY <3>2, <3>3, LenProperties
    <3> QED BY <3>2, <3>3, <3>4, ElementOfSeq
  <2>2. IsFiniteSet(1..MaxSubs)
    BY HooksAssumption, FS_Interval
  <2> HIDE DEF U
  <2>3. Cardinality(U) \in Nat
    BY <2>1, <2>2, FS_Subset, FS_CardinalityType
  <2> QED BY <2>3 DEF Subscribed, U
<1>3. subs' \in [Topics -> Seq(1..MaxSubs)] /\ \A u \in Topics : IsPrefix(subs[u], subs'[u])
  <2> HIDE DEF n
  <2>1. \A u \in Topics : subs[u] \in Seq(1..MaxSubs) /\ IsPrefix(subs[u], subs[u])
    BY PrefixOfConcat DEF HooksInv, HooksTypeOK
  <2>2. CASE Subscribed < MaxSubs
    <3>1. n \in 1..MaxSubs
      BY <1>2, <2>2, HooksAssumption DEF n
    <3>2. subs' = [subs EXCEPT ![t] = Append(subs[t], n)]
      BY <2>2 DEF Register, n
    <3>3. <<n>> \in Seq(1..MaxSubs) /\ Append(subs[t], n) = subs[t] \o <<n>>
      BY <1>1, <2>1, <3>1, AppendIsConcat
    <3>4. /\ Append(subs[t], n) \in Seq(1..MaxSubs)
          /\ IsPrefix(subs[t], Append(subs[t], n))
      BY <1>1, <2>1, <3>3, PrefixOfConcat
    <3> HIDE DEF t
    <3> QED BY <1>1, <2>1, <3>2, <3>4 DEF HooksInv, HooksTypeOK
  <2>3. CASE ~ (Subscribed < MaxSubs)
    <3>1. subs' = subs
      BY <2>3 DEF Register
    <3> QED BY <2>1, <3>1 DEF HooksInv, HooksTypeOK
  <2> QED BY <2>2, <2>3
<1>4. \A u \in Topics : subs[u] \in Seq(Nat) /\ subs'[u] \in Seq(Nat)
  <2>1. Seq(1..MaxSubs) \subseteq Seq(Nat)
    BY HooksAssumption, SeqMonotonic
  <2> QED BY <1>3, <2>1 DEF HooksInv, HooksTypeOK
<1>5. SoundFrames \subseteq SoundFrames'
  <2> SUFFICES ASSUME NEW f \in SoundFrames PROVE f \in SoundFrames'
    OBVIOUS
  <2>1. f \in Frame /\ f.topic \in Topics /\ f.before \in Seq(Nat)
    BY FramesAreFrames
  <2>2. ASSUME NEW s \in Seq(Nat), IsPrefix(s, subs[f.topic]) PROVE IsPrefix(s, subs'[f.topic])
    BY <1>3, <1>4, <2>1, <2>2, PrefixOrder
  <2>3. f.pc \in {"next", "handler", "used"} => Due(f) \in Seq(Nat)
    BY <2>1, DueType DEF SoundFrames
  <2> QED BY <2>1, <2>2, <2>3 DEF SoundFrames
<1>6. Seq(SoundFrames) \subseteq Seq(SoundFrames') /\ Seq(SoundFrames') \subseteq Seq(Frame)
  <2>1. SoundFrames' \subseteq Frame
    BY DEF SoundFrames
  <2> QED BY <1>5, <2>1, SeqMonotonic
<1>7. stack' = [stack EXCEPT ![g] = Tail(stack[g])]
  BY DEF Register, Return
<1>8. stack' \in [Goroutines -> Seq(SoundFrames)]
  BY <1>1, <1>7 DEF HooksInv
<1>9. stack' \in [Goroutines -> Seq(SoundFrames')]
  BY <1>6, <1>8
<1>10. stack' \in [Goroutines -> Seq(Frame)]
  BY <1>6, <1>9
<1>11. writer' = Nobody /\ UNCHANGED readers
  BY DEF Register
<1> QED BY <1>3, <1>9, <1>10, <1>11 DEF HooksInv, HooksTypeOK

LEMMA RLockStep ==
    ASSUME HooksInv, NEW g \in Goroutines, RLock(g)
    PROVE  HooksInv'
<1> DEFINE h == Head(stack[g])
           f == [h EXCEPT !.pc = "copy"]
<1>1. stack[g] # <<>> /\ h \in SoundFrames /\ h \in Frame /\ h.pc = "rlock"
  BY TopFrame DEF RLock, At
<1>2. /\ f \in Frame /\ f.op = h.op /\ f.pc = "copy" /\ f.heard = h.heard
      /\ f.before = h.before /\ f.topic = h.topic
  BY <1>1 DEF Frame
<1>3. f \in SoundFrames
  BY <1>1, <1>2 DEF SoundFrames
<1>4. GoTo(g, f) /\ UNCHANGED <<subs, writer>> /\ readers' = readers \cup {g}
  BY DEF RLock
<1> HIDE DEF f
<1> QED BY <1>1, <1>3, <1>4, GoToStep DEF HooksInv, HooksTypeOK

\* The copy holds everybody who had subscribed when the call began.
LEMMA CopyStep ==
    ASSUME HooksInv, NEW g \in Goroutines, Copy(g)
    PROVE  HooksInv'
<1> DEFINE h == Head(stack[g])
           f == [h EXCEPT !.pc = "next", !.todo = subs[Topic(g)]]
<1>1. /\ stack[g] # <<>> /\ h \in SoundFrames /\ h \in Frame /\ h.pc = "copy"
      /\ Topic(g) = h.topic
  BY TopFrame DEF Copy, At, Topic
<1>2. h.topic \in Topics /\ subs[h.topic] \in Seq(Nat)
  BY <1>1, FramesAreFrames, SubsAreNumbers DEF HooksInv
<1>3. /\ f \in Frame /\ f.op = h.op /\ f.pc = "next" /\ f.heard = h.heard
      /\ f.before = h.before /\ f.topic = h.topic /\ f.todo = subs[h.topic]
  BY <1>1, <1>2 DEF Frame
<1>4. Due(f) = subs[h.topic]
  BY <1>1, <1>2, <1>3, ConcatEmptySeq DEF Due, SoundFrames
<1>5. f \in SoundFrames
  BY <1>1, <1>2, <1>3, <1>4, PrefixOfConcat DEF SoundFrames
<1>6. GoTo(g, f) /\ UNCHANGED <<subs, writer>> /\ readers' = readers \ {g}
  BY DEF Copy, RUnlocked
<1> HIDE DEF f
<1> QED BY <1>1, <1>5, <1>6, GoToStep DEF HooksInv, HooksTypeOK

LEMMA CallHandlerStep ==
    ASSUME HooksInv, NEW g \in Goroutines, CallHandler(g)
    PROVE  HooksInv'
<1> DEFINE h == Head(stack[g])
           f == [h EXCEPT !.pc = "handler", !.heard = Append(h.heard, Head(h.todo))]
<1>1. /\ stack[g] # <<>> /\ h \in SoundFrames /\ h \in Frame /\ h.pc = "next"
      /\ h.todo # <<>>
  BY TopFrame DEF CallHandler, At
<1>2. h.todo \in Seq(Nat) /\ h.heard \in Seq(Nat)
  BY <1>1, FramesAreFrames
<1>3. Head(h.todo) \in Nat /\ Tail(h.todo) \in Seq(Nat)
  BY <1>1, <1>2, HeadTailProperties
<1>4. /\ Append(h.heard, Head(h.todo)) \in Seq(Nat)
      /\ Append(h.heard, Head(h.todo)) = h.heard \o <<Head(h.todo)>>
  BY <1>2, <1>3, AppendIsConcat, AppendProperties
<1>5. <<Head(h.todo)>> \in Seq(Nat) /\ <<Head(h.todo)>> \o Tail(h.todo) = h.todo
  BY <1>1, <1>2, <1>3, HeadTailProperties, ConcatProperties
<1>6. Append(h.heard, Head(h.todo)) \o Tail(h.todo) = h.heard \o h.todo
  <2> DEFINE x == Head(h.todo)
             r == Tail(h.todo)
             e == h.heard
  <2>1. (e \o <<x>>) \o r = e \o (<<x>> \o r)
    <3>1. e \in Seq(Nat) /\ <<x>> \in Seq(Nat) /\ r \in Seq(Nat)
      BY <1>2, <1>3, <1>5
    <3> HIDE DEF e, x, r
    <3> QED BY <3>1, ConcatAssociative
  <2> QED BY <1>4, <1>5, <2>1
<1>7. /\ f \in Frame /\ f.op = h.op /\ f.pc = "handler"
      /\ f.heard = Append(h.heard, Head(h.todo))
      /\ f.before = h.before /\ f.topic = h.topic /\ f.todo = h.todo
  BY <1>1, <1>4 DEF Frame
<1>8. Due(f) = Due(h)
  BY <1>1, <1>6, <1>7 DEF Due
<1>9. f \in SoundFrames
  BY <1>1, <1>7, <1>8 DEF SoundFrames
<1>10. GoTo(g, f) /\ UNCHANGED <<subs, readers, writer>>
  BY DEF CallHandler
<1> HIDE DEF f
<1> QED BY <1>1, <1>9, <1>10, GoToStep DEF HooksInv, HooksTypeOK

LEMMA HandlerReturnsStep ==
    ASSUME HooksInv, NEW g \in Goroutines, NEW failed \in BOOLEAN, HandlerReturns(g, failed)
    PROVE  HooksInv'
<1> DEFINE h == Head(stack[g])
           f == [h EXCEPT !.pc = "next", !.todo = Tail(h.todo)]
<1>1. /\ stack[g] # <<>> /\ h \in SoundFrames /\ h \in Frame
      /\ h.pc \in {"handler", "used"}
  BY TopFrame DEF HandlerReturns, At
<1>2. h.todo \in Seq(Nat) /\ h.todo # <<>>
  BY <1>1, FramesAreFrames DEF SoundFrames
<1>3. Tail(h.todo) \in Seq(Nat)
  BY <1>2, HeadTailProperties
<1>4. /\ f \in Frame /\ f.op = h.op /\ f.pc = "next" /\ f.heard = h.heard
      /\ f.before = h.before /\ f.topic = h.topic /\ f.todo = Tail(h.todo)
  BY <1>1, <1>3 DEF Frame
<1>5. Due(f) = Due(h)
  BY <1>1, <1>4 DEF Due
<1>6. f \in SoundFrames
  BY <1>1, <1>4, <1>5 DEF SoundFrames
<1>7. GoTo(g, f) /\ UNCHANGED <<subs, readers, writer>>
  BY DEF HandlerReturns, Rest
<1> HIDE DEF f
<1> QED BY <1>1, <1>6, <1>7, GoToStep DEF HooksInv, HooksTypeOK

\* A call ends: by itself, or with all those of its goroutine.
LEMMA LeaveStep ==
    ASSUME HooksInv, NEW g \in Goroutines, EmitReturns(g) \/ Panic(g)
    PROVE  HooksInv'
<1>1. PICK s \in Seq(SoundFrames) : stack' = [stack EXCEPT ![g] = s]
  <2>1. CASE EmitReturns(g)
    <3>1. Tail(stack[g]) \in Seq(SoundFrames)
      BY <2>1, TopFrame DEF EmitReturns, At
    <3> QED BY <2>1, <3>1 DEF EmitReturns, Return
  <2>2. CASE Panic(g)
    BY <2>2, EmptySeq DEF Panic
  <2> QED BY <2>1, <2>2
<1>2. UNCHANGED <<subs, readers, writer>>
  BY DEF EmitReturns, Panic
<1> QED BY <1>1, <1>2, StackStep DEF HooksInv, HooksTypeOK

LEMMA HooksInitInvariant == HooksInit => HooksInv
BY EmptySeq DEF HooksInit, HooksInv, HooksTypeOK

LEMMA HooksNextInvariant == HooksInv /\ [HooksNext]_hookVars => HooksInv'
<1>1. ASSUME HooksInv, UNCHANGED hookVars PROVE HooksInv'
  BY <1>1 DEF hookVars, HooksInv, HooksTypeOK, SoundFrames
<1> QED
  BY <1>1, CallStep, LockStep, RegisterStep, RLockStep, CopyStep, CallHandlerStep,
     HandlerReturnsStep, LeaveStep DEF HooksNext, Proceed

\* The lists, the lock and the calls keep their types.
THEOREM HooksTypeCorrect == HooksSpec => []HooksTypeOK
<1>1. HooksInv => HooksTypeOK
  BY DEF HooksInv
<1> QED BY <1>1, HooksInitInvariant, HooksNextInvariant, PTL DEF HooksSpec

\* Whoever had subscribed when a call began is called, each once and in order, whatever is
\* subscribed meanwhile and whatever other handlers do (events.go:47; notify.go:33).
THEOREM EverybodyHearsInOrder == HooksSpec => []HeardInOrder
<1>1. HooksInv => HeardInOrder
  <2> SUFFICES ASSUME HooksInv, NEW g \in Goroutines, NEW n \in DOMAIN stack[g],
                      stack[g][n].op = "emit"
               PROVE  LET f == stack[g][n] IN
                      /\ IsPrefix(f.heard, subs[f.topic])
                      /\ f.pc = "next" /\ f.todo = <<>> => IsPrefix(f.before, f.heard)
    BY DEF HeardInOrder
  <2> DEFINE f == stack[g][n]
  <2>1. f \in SoundFrames
    BY ElementOfSeq, LenProperties DEF HooksInv
  <2> HIDE DEF f
  <2>2. /\ f \in Frame /\ f.topic \in Topics /\ f.heard \in Seq(Nat)
        /\ f.before \in Seq(Nat) /\ subs[f.topic] \in Seq(Nat)
    BY <2>1, FramesAreFrames, SubsAreNumbers DEF HooksInv
  <2>3. CASE f.pc \in {"rlock", "copy"}
    BY <2>1, <2>2, <2>3, PrefixOfConcat DEF SoundFrames, f
  <2>4. CASE f.pc \in {"next", "handler", "used"}
    <3>1. /\ Due(f) \in Seq(Nat) /\ IsPrefix(f.heard, Due(f))
          /\ IsPrefix(Due(f), subs[f.topic]) /\ IsPrefix(f.before, Due(f))
      BY <2>1, <2>2, <2>4, DueType DEF SoundFrames
    <3>2. IsPrefix(f.heard, subs[f.topic])
      BY <2>2, <3>1, PrefixOrder
    <3>3. f.pc = "next" /\ f.todo = <<>> => Due(f) = f.heard
      BY <2>2, ConcatEmptySeq DEF Due
    <3> QED BY <3>1, <3>2, <3>3 DEF f
  <2>5. f.pc \in {"rlock", "copy", "next", "handler", "used"}
    BY <2>1, <2>2 DEF SoundFrames, Frame, f
  <2> QED BY <2>3, <2>4, <2>5
<1> QED BY <1>1, HooksInitInvariant, HooksNextInvariant, PTL DEF HooksSpec

(***************************************************************************)
(* Both side by side.                                                      *)
(***************************************************************************)
HostInv == JobInv /\ HooksInv

LEMMA HostNextInvariant == HostInv /\ [HostNext]_<<moving, jobVars, hookVars>> => HostInv'
<1> SUFFICES ASSUME HostInv, \/ HostNext
                             \/ UNCHANGED <<moving, jobVars, hookVars>>
             PROVE  HostInv'
  OBVIOUS
<1>1. [JobNext]_jobVars
  BY DEF HostNext
<1>2. [HooksNext]_hookVars
  BY DEF HostNext
<1> QED BY <1>1, <1>2, JobNextInvariant, HooksNextInvariant DEF HostInv

\* Claims, locks and hands of the workers, and subscriptions, frames and locks of the hooks
\* keep their types in a host that has both.
THEOREM TypeCorrect == HostSpec => []HostTypeOK
<1>1. HostInit => HostInv
  BY JobInitInvariant, HooksInitInvariant DEF HostInit, HostInv
<1>2. HostInv => HostTypeOK
  BY DEF HostInv, JobInv, HooksInv, HostTypeOK
<1> QED BY <1>1, <1>2, HostNextInvariant, PTL DEF HostSpec
=============================================================================
