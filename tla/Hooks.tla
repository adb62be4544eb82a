--------------------------------- MODULE Hooks ---------------------------------
(***************************************************************************)
(* events/ and the registry of notify.Fanout: subscribers of a topic, and  *)
(* goroutines that call them one after the other.  A Fanout is a bus with  *)
(* a single topic whose handlers return errors.                            *)
(*                                                                         *)
(* Both guard their lists with a sync.RWMutex: a goroutine in Lock waits   *)
(* for the readers and keeps new ones out.  A handler may use the hooks    *)
(* itself, return an error or panic; the host's goroutine recovers.        *)
(***************************************************************************)
EXTENDS Naturals, Sequences, SequencesExt

CONSTANTS
    Topics, Goroutines, Nobody,
    MaxDepth,       \* calls a goroutine nests
    MaxSubs         \* bounds the subscriptions, which are numbered

ASSUME HooksAssumption == Nobody \notin Goroutines /\ MaxDepth \in Nat /\ MaxSubs \in Nat

VARIABLES
    subs,       \* Bus.subs: topic -> its handlers
    readers,    \* goroutines that hold the read lock
    writer,     \* the goroutine in Lock, or Nobody
    stack       \* goroutine -> its calls, the innermost first

hookVars == <<subs, readers, writer, stack>>

\* before (bookkeeping) is what was subscribed when the call began.
Frame == [op : {"emit", "subscribe"}, topic : Topics,
          pc : {"rlock", "copy", "next", "handler", "used", "lock", "append"},
          todo : Seq(Nat), heard : Seq(Nat), before : Seq(Nat)]

HooksTypeOK ==
    /\ subs \in [Topics -> Seq(1 .. MaxSubs)]
    /\ readers \subseteq Goroutines /\ writer \in Goroutines \cup {Nobody}
    /\ stack \in [Goroutines -> Seq(Frame)]

HooksInit ==
    /\ subs = [t \in Topics |-> <<>>]
    /\ readers = {} /\ writer = Nobody
    /\ stack = [g \in Goroutines |-> <<>>]

At(g, pc) == stack[g] # <<>> /\ Head(stack[g]).pc = pc
Topic(g) == Head(stack[g]).topic
GoTo(g, frame) == stack' = [stack EXCEPT ![g] = <<frame>> \o Tail(@)]
Return(g) == stack' = [stack EXCEPT ![g] = Tail(@)]

(***************************************************************************)
(* Calls, by a goroutine of the host or by a handler that is running.  A   *)
(* handler makes at most one.                                              *)
(***************************************************************************)
Enter(g, frame) ==
    /\ stack[g] = <<>> \/ (At(g, "handler") /\ Len(stack[g]) < MaxDepth)
    /\ stack' = [stack EXCEPT ![g] =
                    <<frame>> \o IF @ = <<>> THEN @ ELSE <<[Head(@) EXCEPT !.pc = "used"]>> \o Tail(@)]
    /\ UNCHANGED <<subs, readers, writer>>

CallEmit(g, t) ==
    Enter(g, [op |-> "emit", topic |-> t, pc |-> "rlock", todo |-> <<>>, heard |-> <<>>,
              before |-> subs[t]])

CallSubscribe(g, t) ==
    Enter(g, [op |-> "subscribe", topic |-> t, pc |-> "lock", todo |-> <<>>, heard |-> <<>>,
              before |-> <<>>])

(***************************************************************************)
(* Subscribe and Add.                                                      *)
(***************************************************************************)
Lock(g) ==
    /\ At(g, "lock") /\ writer = Nobody
    /\ writer' = g
    /\ GoTo(g, [Head(stack[g]) EXCEPT !.pc = "append"])
    /\ UNCHANGED <<subs, readers>>

Subscribed == Cardinality(UNION {ToSet(subs[t]) : t \in Topics})

Register(g) ==
    /\ At(g, "append") /\ readers = {}
    /\ subs' = IF Subscribed < MaxSubs THEN [subs EXCEPT ![Topic(g)] = Append(@, Subscribed + 1)]
               ELSE subs
    /\ writer' = Nobody
    /\ Return(g)
    /\ UNCHANGED readers

(***************************************************************************)
(* Emit and Deliver.                                                       *)
(***************************************************************************)
RLock(g) ==
    /\ At(g, "rlock") /\ writer = Nobody
    /\ readers' = readers \cup {g}
    /\ GoTo(g, [Head(stack[g]) EXCEPT !.pc = "copy"])
    /\ UNCHANGED <<subs, writer>>

\* (A fault: RUnlock is missing.)
StillReading(g) == readers
RUnlocked(g) == readers \ {g}

Copy(g) ==
    /\ At(g, "copy")
    /\ GoTo(g, [Head(stack[g]) EXCEPT !.pc = "next", !.todo = subs[Topic(g)]])
    /\ readers' = RUnlocked(g)
    /\ UNCHANGED <<subs, writer>>

CallHandler(g) ==
    LET f == Head(stack[g]) IN
    /\ At(g, "next") /\ f.todo # <<>>
    /\ GoTo(g, [f EXCEPT !.pc = "handler", !.heard = Append(@, Head(f.todo))])
    /\ UNCHANGED <<subs, readers, writer>>

\* (A fault: the first error ends the delivery.)
UpToFirstError(todo, failed) == IF failed THEN <<>> ELSE Tail(todo)

\* Best-effort: what a handler returns is not looked at.
Rest(todo, failed) == Tail(todo)

HandlerReturns(g, failed) ==
    /\ At(g, "handler") \/ At(g, "used")
    /\ GoTo(g, [Head(stack[g]) EXCEPT !.pc = "next", !.todo = Rest(@, failed)])
    /\ UNCHANGED <<subs, readers, writer>>

EmitReturns(g) ==
    /\ At(g, "next") /\ Head(stack[g]).todo = <<>>
    /\ Return(g)
    /\ UNCHANGED <<subs, readers, writer>>

\* A handler panics: every call of the goroutine is abandoned.
Panic(g) ==
    /\ At(g, "handler") \/ At(g, "used")
    /\ stack' = [stack EXCEPT ![g] = <<>>]
    /\ UNCHANGED <<subs, readers, writer>>

Proceed(g) ==
    \/ Lock(g) \/ Register(g) \/ RLock(g) \/ Copy(g) \/ CallHandler(g) \/ EmitReturns(g)
    \/ \E failed \in BOOLEAN : HandlerReturns(g, failed)

HooksNext ==
    \E g \in Goroutines :
        \/ \E t \in Topics : CallEmit(g, t) \/ CallSubscribe(g, t)
        \/ Proceed(g) \/ Panic(g)

\* A goroutine that can go on does, and handlers return.
HooksFairness == \A g \in Goroutines : SF_hookVars(Proceed(g))

HooksSpec == HooksInit /\ [][HooksNext]_hookVars /\ HooksFairness

(***************************************************************************)
(* Properties.                                                             *)
(***************************************************************************)
\* Every call returns, whatever the handlers do: one that subscribes or emits while
\* it is called, with others waiting for the lock, waits for nobody who waits for
\* it, and one that panics leaves no lock behind (events.go:50-57).
CallsReturn == \A g \in Goroutines : stack[g] # <<>> ~> stack[g] = <<>>

\* "delivers payload to every subscriber of topic, inline and in registration
\* order" (events.go:47), "one failing channel never blocks the others"
\* (notify.go:33): whoever had subscribed when the call began is called, each
\* once and in order, whatever is subscribed meanwhile.
HeardInOrder ==
    \A g \in Goroutines : \A n \in DOMAIN stack[g] :
        LET f == stack[g][n] IN
        f.op = "emit" =>
            /\ IsPrefix(f.heard, subs[f.topic])
            /\ f.pc = "next" /\ f.todo = <<>> => IsPrefix(f.before, f.heard)
=============================================================================
