------------------------------ MODULE EventFeed ------------------------------
(***************************************************************************)
(* What becomes of an event (manager/events.py, db.py, api.py): a loop     *)
(* emits it, the hub stores it and awaits every handler in turn, and a     *)
(* watcher polls /api/v1/events from the last id it knows.  The loops emit *)
(* at the same time, handlers fail, the database is busy or full now and   *)
(* then, old rows are deleted daily, and the process may be restarted.     *)
(***************************************************************************)
EXTENDS Integers, FiniteSets

CONSTANTS Loop,        \* reconcile and disk-sample
          Handlers,    \* how many handlers are subscribed, in their order
          Kind,
          Watched,     \* the kinds that the watcher asks for
          Limits,      \* the limits it asks with, besides a negative one
          Cap,         \* 1000 in the code
          MaxEvents    \* bound: the number of events

ASSUME HandlersAssumption == Handlers \in Nat
ASSUME WatchedAssumption == Watched \subseteq Kind
ASSUME LimitsAssumption == Limits \subseteq Nat /\ Cap \in Nat
ASSUME MaxEventsAssumption == MaxEvents \in Nat

VARIABLES
    dbUp,             \* the database takes statements
    emitted, kind,    \* the number of events, and the kind of each
    rows, id,         \* table events: the events in it, the id of each
    seq,              \* sqlite_sequence: the largest id ever given
    pc, event,        \* a loop: the handler it awaits, 0 for none, and the event
    pruner,           \* the daily loop is there
    cursor,           \* the watcher's since_id
    heard,            \* history: the events each handler was called with
    ended,            \* history: the events whose emission returned
    got, cut          \* history: what polls returned, what was beyond their limit

table   == <<rows, id, seq>>
hub     == <<emitted, kind, pc, event>>
watcher == <<cursor, got, cut>>
vars    == <<dbUp, hub, table, pruner, watcher, heard, ended>>

Event   == 1..MaxEvents
Handler == 1..Handlers

Init ==
    /\ dbUp = TRUE
    /\ emitted = 0 /\ kind \in [Event -> Kind]
    /\ rows = {} /\ id = [e \in Event |-> 0] /\ seq = 0
    /\ pc = [l \in Loop |-> 0] /\ event = [l \in Loop |-> 0]
    /\ pruner = TRUE
    /\ cursor = 0
    /\ heard = [h \in Handler |-> {}] /\ ended = {}
    /\ got = {} /\ cut = {}

-----------------------------------------------------------------------------
(* The hub.                                                                *)

Mutant_MaxPlusOne ==
    IF rows = {} THEN 1 ELSE 1 + id[CHOOSE e \in rows : \A f \in rows : id[f] <= id[e]]

\* INTEGER PRIMARY KEY AUTOINCREMENT
NextId == seq + 1

\* A failure to store is swallowed.
Store(e) ==
    IF dbUp
    THEN /\ rows' = rows \union {e} /\ id' = [id EXCEPT ![e] = NextId]
         /\ seq' = IF NextId > seq THEN NextId ELSE seq
    ELSE UNCHANGED table

\* The loop l awaits handler h with event e, or has called them all.
Awaits(l, e, h) ==
    /\ pc' = [pc EXCEPT ![l] = IF h \in Handler THEN h ELSE 0]
    /\ event' = [event EXCEPT ![l] = IF h \in Handler THEN e ELSE 0]
    /\ ended' = IF h \in Handler THEN ended ELSE ended \union {e}
    /\ heard' = [g \in Handler |-> IF g = h THEN heard[g] \union {e} ELSE heard[g]]

Emit(l) ==
    /\ pc[l] = 0 /\ emitted < MaxEvents
    /\ emitted' = emitted + 1
    /\ Store(emitted + 1)
    /\ Awaits(l, emitted + 1, 1)
    /\ UNCHANGED <<dbUp, kind, pruner, watcher>>

\* The handler returns: it has delivered, or its own except clause has ended the
\* attempt.  The hub sets it no time to do so.
Returns(l) ==
    /\ pc[l] # 0
    /\ Awaits(l, event[l], pc[l] + 1)
    /\ UNCHANGED <<dbUp, emitted, kind, table, pruner, watcher>>

\* The emission raises, or its process ends: the handlers left are not called.
Quits(L) ==
    /\ pc' = [l \in Loop |-> IF l \in L THEN 0 ELSE pc[l]]
    /\ event' = [l \in Loop |-> IF l \in L THEN 0 ELSE event[l]]

Mutant_FailureEndsEmission(l) ==
    /\ pc[l] # 0
    /\ IF dbUp
       THEN /\ Quits({l}) /\ ended' = ended \union {event[l]} /\ UNCHANGED heard
       ELSE Quits({l}) /\ UNCHANGED <<heard, ended>>
    /\ UNCHANGED <<dbUp, emitted, kind, table, pruner, watcher>>

\* The handler raises.  The hub writes that to the audit log and goes on to the
\* next one; when the database fails as well, the emission raises.
Raises(l) ==
    /\ pc[l] # 0
    /\ IF dbUp
       THEN Awaits(l, event[l], pc[l] + 1)
       ELSE Quits({l}) /\ UNCHANGED <<heard, ended>>
    /\ UNCHANGED <<dbUp, emitted, kind, table, pruner, watcher>>

HandlerEnds(l) == Returns(l) \/ Raises(l)

-----------------------------------------------------------------------------
(* The database and the process.                                           *)

\* Locked for longer than its timeout, or on a full disk; or well again.
DbTurns ==
    /\ dbUp' = ~dbUp
    /\ UNCHANGED <<hub, table, pruner, watcher, heard, ended>>

\* The rows older than some time are deleted, and that is audited.  Nothing
\* catches a failure of either.
Prune ==
    /\ pruner
    /\ \/ dbUp /\ \E e \in rows : rows' = {f \in rows : id[f] > id[e]}
       \/ ~dbUp /\ UNCHANGED rows
    /\ pruner' \in {dbUp, FALSE}
    /\ UNCHANGED <<dbUp, hub, id, seq, watcher, heard, ended>>

ManagerRestarts ==
    /\ Quits(Loop)
    /\ pruner' = TRUE
    /\ UNCHANGED <<dbUp, emitted, kind, table, watcher, heard, ended>>

-----------------------------------------------------------------------------
(* The watcher.                                                            *)

Unseen == {e \in rows : id[e] > cursor /\ kind[e] \in Watched}

\* min(limit, 1000); SQLite takes a negative limit for none.
AtMost(n) == IF n > Cap THEN Cap ELSE IF n < 0 THEN MaxEvents ELSE n

\* ORDER BY id DESC LIMIT
Batch(n) == {e \in Unseen : Cardinality({f \in Unseen : id[f] > id[e]}) < AtMost(n)}

Mutant_OldestId(B) ==
    IF B = {} THEN cursor ELSE id[CHOOSE e \in B : \A f \in B : id[f] >= id[e]]

Mutant_OneTooFar(B) ==
    IF B = {} THEN cursor ELSE 1 + id[CHOOSE e \in B : \A f \in B : id[f] <= id[e]]

\* rows[0]["id"] if rows else since_id
LatestId(B) ==
    IF B = {} THEN cursor ELSE id[CHOOSE e \in B : \A f \in B : id[f] <= id[e]]

Poll(n) ==
    /\ dbUp
    /\ cursor' = LatestId(Batch(n))
    /\ got' = got \union Batch(n)
    /\ cut' = IF Cardinality(Unseen) > AtMost(n) THEN cut \union Unseen ELSE cut
    /\ UNCHANGED <<dbUp, hub, table, pruner, heard, ended>>

Next ==
    \/ \E l \in Loop : Emit(l) \/ HandlerEnds(l)
    \/ DbTurns \/ Prune \/ ManagerRestarts
    \/ \E n \in Limits \union {-1} : Poll(n)

Spec == Init /\ [][Next]_vars

-----------------------------------------------------------------------------
\* Every variable keeps to the values the code gives it, and no watcher is
\* ahead of the table.
TypeOK ==
    /\ dbUp \in BOOLEAN
    /\ emitted \in 0..MaxEvents /\ kind \in [Event -> Kind]
    /\ rows \subseteq Event /\ id \in [Event -> Nat] /\ seq \in Nat
    /\ pc \in [Loop -> {0} \union Handler] /\ event \in [Loop -> {0} \union Event]
    /\ pruner \in BOOLEAN
    /\ cursor \in 0..seq
    /\ heard \in [Handler -> SUBSET Event] /\ ended \subseteq Event
    /\ got \subseteq Event /\ cut \subseteq Event

\* A watcher that polls from its latest_id is not past a stored event that it
\* has not been given, unless a poll found more than its limit: deletions, the
\* other loop's events, failures and restarts never put an event behind it
\* (add_event, recent_events, api_events).
NothingSlipsBy ==
    \A e \in rows : kind[e] \in Watched /\ id[e] <= cursor => e \in got \union cut

\* It is given no event twice (recent_events, api_events).
NothingTwice == [][\A n \in Limits \union {-1} : Poll(n) => Batch(n) \cap got = {}]_vars

\* An emission that returned has called every handler with its event, whichever
\* of them failed and whatever the other loop emitted meanwhile (Hub.emit).
EverybodyHears == \A e \in ended, h \in Handler : e \in heard[h]
=============================================================================
