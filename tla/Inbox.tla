--------------------------------- MODULE Inbox ---------------------------------
(***************************************************************************)
(* notify/: notifications are delivered into the inbox, whose page lists   *)
(* the newest and offers "mark all read".                                  *)
(*                                                                         *)
(* A row is stamped when its INSERT begins and is visible when that        *)
(* commits, so rows may appear behind newer ones.  Stamps are the position *)
(* in the order of the INSERTs: n is the n-th one.                         *)
(***************************************************************************)
EXTENDS Naturals, FiniteSets

CONSTANTS
    InboxUsers,
    System,         \* ActorID 0: nobody's doing
    PageSize,       \* 50 in render
    MaxNotes        \* bounds the notifications stored

ASSUME InboxAssumption ==
    /\ System \notin InboxUsers
    /\ PageSize \in Nat \ {0} /\ MaxNotes \in Nat

VARIABLES
    notes,      \* notifications: n -> [user, at: "insert" or "stored" or "failed", read]
    shown,      \* user -> rows a page has shown (bookkeeping)
    inbox       \* user -> [open, stored]: whether the page is open, and
                \* (bookkeeping) what was stored when it was rendered

inboxVars == <<notes, shown, inbox>>

InboxTypeOK ==
    /\ \A n \in DOMAIN notes :
          notes[n] \in [user : InboxUsers, at : {"insert", "stored", "failed"}, read : BOOLEAN]
    /\ shown \in [InboxUsers -> SUBSET DOMAIN notes]
    /\ inbox \in [InboxUsers -> [open : BOOLEAN, stored : SUBSET DOMAIN notes]]

NoInboxPage == [open |-> FALSE, stored |-> {}]

InboxInit ==
    /\ notes = [n \in {} |-> 0]
    /\ shown = [u \in InboxUsers |-> {}]
    /\ inbox = [u \in InboxUsers |-> NoInboxPage]

Stored(u) == {n \in DOMAIN notes : notes[n].user = u /\ notes[n].at = "stored"}
Unread(u) == {n \in Stored(u) : ~ notes[n].read}

\* Deliver(user, n) reaches the inbox sink, unless the user did it themselves.
Deliver(u, actor) ==
    LET n == Cardinality(DOMAIN notes) + 1 IN
    /\ actor # u
    /\ n <= MaxNotes
    /\ notes' = [m \in 1 .. n |-> IF m < n THEN notes[m]
                                  ELSE [user |-> u, at |-> "insert", read |-> FALSE]]
    /\ UNCHANGED <<shown, inbox>>

\* The INSERT commits, or fails; Deliver does not look.
Insert(n) ==
    /\ notes[n].at = "insert"
    /\ \E at \in {"stored", "failed"} : notes' = [notes EXCEPT ![n].at = at]
    /\ UNCHANGED <<shown, inbox>>

\* (A fault: the oldest are listed.)
OldestFew(u, limit) ==
    {n \in Stored(u) : Cardinality({m \in Stored(u) : m < n}) < limit}

\* ORDER BY created_at DESC LIMIT $2.
List(u, limit) ==
    {n \in Stored(u) : Cardinality({m \in Stored(u) : m > n}) < limit}

Render(u) ==
    /\ shown' = [shown EXCEPT ![u] = @ \cup List(u, PageSize)]
    /\ inbox' = [inbox EXCEPT ![u] = [open |-> TRUE, stored |-> Stored(u)]]
    /\ UNCHANGED notes

\* (A fault: user_id is forgotten.)
EveryonesUnread(u) == UNION {Unread(v) : v \in InboxUsers}

\* WHERE user_id = $1 AND read_at IS NULL.
Marked(u) == Unread(u)

\* The button of the page: MarkAllRead, whose error nobody looks at, and a
\* redirect to a new page.
ReadAll(u) ==
    /\ inbox[u].open
    /\ inbox' = [inbox EXCEPT ![u] = NoInboxPage]
    /\ \/ notes' = [n \in DOMAIN notes |-> [notes[n] EXCEPT !.read = @ \/ n \in Marked(u)]]
       \/ UNCHANGED notes
    /\ UNCHANGED shown

InboxNext ==
    \/ \E u \in InboxUsers : Render(u) \/ ReadAll(u)
    \/ \E u \in InboxUsers, actor \in InboxUsers \cup {System} : Deliver(u, actor)
    \/ \E n \in DOMAIN notes : Insert(n)

InboxSpec == InboxInit /\ [][InboxNext]_inboxVars

(***************************************************************************)
(* Properties.                                                             *)
(***************************************************************************)
\* Only their user marks notifications read, from a page (notify.go:148-154); and
\* one that was never on a page goes unseen only if it was stored after the page was
\* rendered, or was off it behind a full page of newer ones.
UnseenOnlyIfLate ==
    [][\A n \in DOMAIN notes :
          LET p == inbox[notes[n].user]
          IN  ~ notes[n].read /\ notes'[n].read =>
                 /\ p.open
                 /\ n \in p.stored =>
                       \/ n \in shown[notes[n].user]
                       \/ Cardinality({m \in p.stored : m > n}) >= PageSize]_inboxVars
=============================================================================
