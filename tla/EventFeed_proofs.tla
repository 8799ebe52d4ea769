--------------------------- MODULE EventFeed_proofs ---------------------------
(***************************************************************************)
(* What TLAPS proves of EventFeed for every number of handlers and loops   *)
(* and every limit: no watcher is ahead of the table, it is given no event *)
(* twice and none slips by, and an emission that returned has called every *)
(* handler.                                                                *)
(***************************************************************************)
EXTENDS EventFeed, FiniteSetTheorems, WellFoundedInduction, TLAPS

\* Ids that were given are no larger than the sequence, and what the watcher
\* has is no newer than its cursor.
Ids ==
    /\ rows \subseteq 1..emitted /\ \A e \in rows : id[e] <= seq
    /\ got \subseteq 1..emitted /\ \A e \in got : id[e] <= cursor

\* A loop that awaits a handler has called that one and those before it.
Calls ==
    \A l \in Loop : pc[l] # 0 =>
        event[l] \in Event /\ \A g \in Handler : g <= pc[l] => event[l] \in heard[g]

IInv == TypeOK /\ Ids /\ Calls

-----------------------------------------------------------------------------
\* A finite set that is not empty has an element of the largest value.
LEMMA Largest ==
    ASSUME NEW B, IsFiniteSet(B), B # {}, NEW v, \A e \in B : v[e] \in Int
    PROVE  \E e \in B : \A f \in B : v[f] <= v[e]
<1> DEFINE Above(e) == {f \in B : v[f] > v[e]}
           T == {Above(e) : e \in B}
<1>1. T \subseteq FiniteSubsetsOf(B) /\ T # {}
  <2>1. \A e \in B : Above(e) \in SUBSET B
    OBVIOUS
  <2>2. \A U \in SUBSET B : IsFiniteSet(U)
    BY FS_Subset
  <2>3. QED BY <2>1, <2>2 DEF FiniteSubsetsOf
<1>2. PICK U \in T : \A W \in T : <<W, U>> \notin StrictSubsetOrdering(B)
  <2> HIDE DEF T
  <2>1. IsWellFoundedOn(StrictSubsetOrdering(B), FiniteSubsetsOf(B))
    BY FS_StrictSubsetOrderingWellFounded
  <2>2. QED BY <1>1, <2>1, WFMin
<1>3. PICK e \in B : U = Above(e)
  OBVIOUS
<1>4. ASSUME NEW f \in B, v[f] > v[e] PROVE FALSE
  <2>1. Above(f) \subseteq Above(e) /\ f \in Above(e) /\ f \notin Above(f)
    BY <1>4
  <2>2. <<Above(f), Above(e)>> \in StrictSubsetOrdering(B)
    BY <2>1 DEF StrictSubsetOrdering
  <2>3. QED BY <1>2, <1>3, <2>2
<1>5. QED BY <1>4

LEMMA EventsAreFinite == IsFiniteSet(Event)
BY FS_Interval, MaxEventsAssumption DEF Event

\* latest_id is the cursor, or the id of an event of the answer, and then no
\* event of the answer is newer.
LEMMA LatestIsLargest ==
    ASSUME TypeOK, NEW B \in SUBSET rows
    PROVE  \/ B = {} /\ LatestId(B) = cursor
           \/ \E e \in B : LatestId(B) = id[e] /\ \A f \in B : id[f] <= id[e]
<1>1. CASE B = {}
  BY <1>1 DEF LatestId
<1>2. CASE B # {}
  <2>1. B \subseteq Event
    BY DEF TypeOK
  <2>2. IsFiniteSet(B)
    BY <2>1, EventsAreFinite, FS_Subset
  <2>3. \A e \in B : id[e] \in Int
    BY <2>1 DEF TypeOK
  <2>4. \E e \in B : \A f \in B : id[f] <= id[e]
    BY <1>2, <2>2, <2>3, Largest
  <2>5. QED BY <1>2, <2>4 DEF LatestId
<1>3. QED BY <1>1, <1>2

\* An event that is asked for and not in the answer was cut off by the limit.
LEMMA NotGivenIsCut ==
    ASSUME TypeOK, NEW n \in Limits \union {-1}, NEW e \in Unseen, e \notin Batch(n)
    PROVE  Cardinality(Unseen) > AtMost(n)
<1> DEFINE Newer == {f \in Unseen : id[f] > id[e]}
<1>1. IsFiniteSet(Unseen)
  <2>1. Unseen \subseteq Event
    BY DEF TypeOK, Unseen
  <2>2. QED BY <2>1, EventsAreFinite, FS_Subset
<1>2. IsFiniteSet(Newer) /\ Cardinality(Newer) \in Nat
  BY <1>1, FS_Subset, FS_CardinalityType
<1>3. e \notin Newer /\ Newer \union {e} \in SUBSET Unseen
  <2>1. id[e] \in Nat
    BY DEF TypeOK, Unseen
  <2>2. QED BY <2>1
<1>4. Cardinality(Newer \union {e}) = Cardinality(Newer) + 1
  <2> HIDE DEF Newer
  <2> QED BY <1>2, <1>3, FS_AddElement
<1>5. Cardinality(Newer \union {e}) <= Cardinality(Unseen) /\ Cardinality(Unseen) \in Nat
  <2> HIDE DEF Newer
  <2> QED BY <1>1, <1>3, FS_Subset, FS_CardinalityType
<1>6. ~ (Cardinality(Newer) < AtMost(n)) /\ AtMost(n) \in Int
  BY LimitsAssumption, MaxEventsAssumption DEF Batch, AtMost
<1>7. QED BY <1>2, <1>4, <1>5, <1>6

-----------------------------------------------------------------------------
\* A step of a loop that awaits h next, having called the handlers before it.
LEMMA AwaitsStep ==
    ASSUME IInv, NEW l \in Loop, NEW e \in Event, NEW h \in Nat, h # 0, h <= Handlers + 1,
           \A g \in Handler : g < h => e \in heard[g], Awaits(l, e, h)
    PROVE  /\ pc' \in [Loop -> {0} \union Handler] /\ event' \in [Loop -> {0} \union Event]
           /\ heard' \in [Handler -> SUBSET Event] /\ ended' \subseteq Event
           /\ Calls' /\ (EverybodyHears => EverybodyHears')
<1> USE HandlersAssumption
<1>1. /\ pc' \in [Loop -> {0} \union Handler] /\ event' \in [Loop -> {0} \union Event]
      /\ heard' \in [Handler -> SUBSET Event] /\ ended' \subseteq Event
  BY DEF IInv, TypeOK, Awaits
<1>2. \A g \in Handler : heard[g] \subseteq heard'[g] /\ (g = h => e \in heard'[g])
  BY DEF IInv, TypeOK, Awaits
<1>3. ASSUME NEW k \in Loop, pc'[k] # 0
      PROVE  event'[k] \in Event /\ \A g \in Handler : g <= pc'[k] => event'[k] \in heard'[g]
  <2>1. CASE k # l
    <3>1. pc'[k] = pc[k] /\ event'[k] = event[k]
      BY <2>1 DEF IInv, TypeOK, Awaits
    <3>2. QED BY <1>2, <1>3, <3>1 DEF IInv, Calls
  <2>2. CASE k = l
    <3>1. pc'[k] = h /\ event'[k] = e
      BY <1>3, <2>2 DEF IInv, TypeOK, Awaits
    <3>2. \A g \in Handler : g <= h => g < h \/ g = h
      BY DEF Handler
    <3>3. QED BY <1>2, <3>1, <3>2
  <2>3. QED BY <2>1, <2>2
<1>4. Calls'
  BY <1>3 DEF Calls
<1>5. ASSUME EverybodyHears PROVE EverybodyHears'
  <2>1. CASE h \in Handler
    BY <1>2, <1>5, <2>1 DEF EverybodyHears, Awaits
  <2>2. CASE h \notin Handler
    <3>1. \A g \in Handler : g < h
      BY <2>2 DEF Handler
    <3>2. ended' = ended \union {e}
      BY <2>2 DEF Awaits
    <3>3. QED BY <1>2, <1>5, <3>1, <3>2 DEF EverybodyHears
  <2>3. QED BY <2>1, <2>2
<1>6. QED BY <1>1, <1>4, <1>5

\* An event that is stored gets an id that no watcher has passed.
LEMMA StoreStep ==
    ASSUME IInv, emitted < MaxEvents, emitted' = emitted + 1, Store(emitted + 1),
           UNCHANGED <<kind, watcher>>
    PROVE  /\ emitted' \in 0..MaxEvents
           /\ rows' \subseteq Event /\ id' \in [Event -> Nat] /\ seq' \in Nat /\ cursor' \in 0..seq'
           /\ Ids' /\ (NothingSlipsBy => NothingSlipsBy')
<1> USE MaxEventsAssumption
<1>1. emitted + 1 \in Event /\ emitted' \in 0..MaxEvents /\ emitted \in Nat
  BY DEF IInv, TypeOK, Event
<1>2. UNCHANGED <<kind, cursor, got, cut>>
  BY DEF watcher
<1>3. CASE dbUp
  <2>1. /\ rows' = rows \union {emitted + 1} /\ id' = [id EXCEPT ![emitted + 1] = seq + 1]
        /\ seq' = seq + 1
    BY <1>3 DEF Store, NextId, IInv, TypeOK
  <2>2. rows' \subseteq Event /\ id' \in [Event -> Nat] /\ seq' \in Nat /\ cursor' \in 0..seq'
    BY <1>1, <1>2, <2>1 DEF IInv, TypeOK
  <2>3. \A e \in rows \union got : e \in Event /\ e # emitted + 1 /\ id'[e] = id[e] /\ id[e] \in Nat
    BY <1>1, <2>1 DEF IInv, TypeOK, Ids
  <2>4. id'[emitted + 1] = seq + 1
    BY <1>1, <2>1 DEF IInv, TypeOK
  <2>5. Ids'
    <3>1. rows' \subseteq 1..emitted' /\ got' \subseteq 1..emitted'
      BY <1>1, <1>2, <2>1 DEF IInv, Ids
    <3>2. \A e \in rows' : id'[e] <= seq'
      BY <2>1, <2>3, <2>4 DEF IInv, TypeOK, Ids
    <3>3. \A e \in got' : id'[e] <= cursor'
      BY <1>2, <2>3 DEF IInv, Ids
    <3>4. QED BY <3>1, <3>2, <3>3 DEF Ids
  <2>6. ASSUME NothingSlipsBy PROVE NothingSlipsBy'
    BY <1>2, <2>1, <2>3, <2>4, <2>6 DEF IInv, TypeOK, NothingSlipsBy
  <2>7. QED BY <1>1, <2>2, <2>5, <2>6
<1>4. CASE ~dbUp
  <2>1. UNCHANGED <<rows, id, seq>>
    BY <1>4 DEF Store, table
  <2>2. Ids'
    BY <1>1, <1>2, <2>1 DEF IInv, Ids
  <2>3. QED BY <1>1, <1>2, <2>1, <2>2 DEF IInv, TypeOK, NothingSlipsBy
<1>5. QED BY <1>3, <1>4

\* A poll moves the cursor to the newest event of its answer.
LEMMA PollStep ==
    ASSUME IInv, NEW n \in Limits \union {-1}, Poll(n)
    PROVE  /\ cursor' \in 0..seq /\ got' \subseteq Event /\ cut' \subseteq Event
           /\ Ids' /\ (NothingSlipsBy => NothingSlipsBy') /\ Batch(n) \cap got = {}
<1>1. /\ Unseen \subseteq rows /\ Batch(n) \subseteq Unseen /\ rows \subseteq Event
      /\ cursor \in 0..seq /\ seq \in Nat
      /\ \A e \in rows \union got : e \in Event /\ id[e] \in Nat
  BY DEF Unseen, Batch, IInv, TypeOK
<1>2. UNCHANGED <<emitted, kind, rows, id, seq>> /\ got' = got \union Batch(n)
  BY DEF Poll, hub, table
<1>3. cut \subseteq cut' /\ cut' \subseteq cut \union Unseen
  BY DEF Poll
<1>4. \/ Batch(n) = {} /\ cursor' = cursor
      \/ \E e \in Batch(n) : cursor' = id[e] /\ \A f \in Batch(n) : id[f] <= id[e]
  <2>1. Batch(n) \in SUBSET rows
    BY <1>1
  <2>2. QED BY <2>1, LatestIsLargest DEF Poll, IInv
<1>5. \A e \in Batch(n) : id[e] > cursor /\ id[e] <= seq
  BY <1>1 DEF Unseen, IInv, Ids
<1>6. cursor' \in 0..seq /\ cursor <= cursor' /\ \A e \in Batch(n) : id[e] <= cursor'
  BY <1>1, <1>4, <1>5
<1>7. got' \subseteq Event /\ cut' \subseteq Event
  BY <1>1, <1>2, <1>3 DEF IInv, TypeOK
<1>8. Ids'
  <2>1. rows' \subseteq 1..emitted' /\ got' \subseteq 1..emitted' /\ \A e \in rows' : id'[e] <= seq'
    BY <1>1, <1>2 DEF IInv, Ids
  <2>2. \A e \in got' : id'[e] <= cursor'
    BY <1>1, <1>2, <1>6 DEF IInv, Ids
  <2>3. QED BY <2>1, <2>2 DEF Ids
<1>9. ASSUME NothingSlipsBy, NEW e \in rows, kind[e] \in Watched, id[e] <= cursor'
      PROVE  e \in got' \union cut'
  <2>1. CASE id[e] <= cursor
    BY <1>2, <1>3, <1>9, <2>1 DEF NothingSlipsBy
  <2>2. CASE id[e] > cursor /\ e \in Batch(n)
    BY <1>2, <2>2
  <2>3. CASE id[e] > cursor /\ e \notin Batch(n)
    <3>1. e \in Unseen
      BY <1>9, <2>3 DEF Unseen
    <3>2. Cardinality(Unseen) > AtMost(n)
      BY <2>3, <3>1, NotGivenIsCut DEF IInv
    <3>3. QED BY <3>1, <3>2 DEF Poll
  <2>4. QED BY <1>1, <2>1, <2>2, <2>3
<1>10. NothingSlipsBy => NothingSlipsBy'
  BY <1>2, <1>9 DEF NothingSlipsBy
<1>11. Batch(n) \cap got = {}
  <2>1. \A e \in got : id[e] \in Nat /\ id[e] <= cursor /\ cursor \in Nat
    BY <1>1 DEF IInv, Ids
  <2>2. \A e \in Batch(n) : id[e] > cursor
    BY <1>5
  <2>3. QED BY <2>1, <2>2
<1>12. QED BY <1>6, <1>7, <1>8, <1>10, <1>11

\* What every step keeps.
LEMMA Step ==
    ASSUME IInv, [Next]_vars
    PROVE  IInv' /\ (NothingSlipsBy => NothingSlipsBy') /\ (EverybodyHears => EverybodyHears')
<1> DEFINE Kept == IInv' /\ (NothingSlipsBy => NothingSlipsBy') /\ (EverybodyHears => EverybodyHears')
<1>1. ASSUME NEW l \in Loop, Emit(l) PROVE Kept
  <2>1. emitted + 1 \in Event
    BY <1>1, MaxEventsAssumption DEF Emit, IInv, TypeOK, Event
  <2>2. /\ pc' \in [Loop -> {0} \union Handler] /\ event' \in [Loop -> {0} \union Event]
        /\ heard' \in [Handler -> SUBSET Event] /\ ended' \subseteq Event
        /\ Calls' /\ (EverybodyHears => EverybodyHears')
    <3>1. \A g \in Handler : ~ (g < 1)
      BY DEF Handler
    <3>2. Awaits(l, emitted + 1, 1) /\ 1 <= Handlers + 1
      BY <1>1, HandlersAssumption DEF Emit
    <3>3. QED BY <2>1, <3>1, <3>2, AwaitsStep
  <2>3. /\ emitted' \in 0..MaxEvents
        /\ rows' \subseteq Event /\ id' \in [Event -> Nat] /\ seq' \in Nat /\ cursor' \in 0..seq'
        /\ Ids' /\ (NothingSlipsBy => NothingSlipsBy')
    BY <1>1, StoreStep DEF Emit
  <2>4. UNCHANGED <<dbUp, kind, pruner, got, cut>>
    BY <1>1 DEF Emit, watcher
  <2>5. TypeOK'
    BY <2>2, <2>3, <2>4 DEF IInv, TypeOK
  <2>6. QED BY <2>2, <2>3, <2>5 DEF IInv
<1>2. ASSUME NEW l \in Loop, pc[l] # 0, Awaits(l, event[l], pc[l] + 1),
             UNCHANGED <<dbUp, emitted, kind, table, pruner, watcher>>
      PROVE  Kept
  <2>1. event[l] \in Event /\ pc[l] + 1 \in Nat /\ pc[l] + 1 # 0 /\ pc[l] + 1 <= Handlers + 1
    BY <1>2, HandlersAssumption DEF IInv, TypeOK, Calls, Handler
  <2>2. \A g \in Handler : g < pc[l] + 1 => event[l] \in heard[g]
    BY <1>2, <2>1 DEF IInv, TypeOK, Calls, Handler
  <2>3. /\ pc' \in [Loop -> {0} \union Handler] /\ event' \in [Loop -> {0} \union Event]
        /\ heard' \in [Handler -> SUBSET Event] /\ ended' \subseteq Event
        /\ Calls' /\ (EverybodyHears => EverybodyHears')
    BY <1>2, <2>1, <2>2, AwaitsStep
  <2>4. UNCHANGED <<rows, id, seq, cursor, got, cut>>
    BY <1>2 DEF table, watcher
  <2>5. TypeOK' /\ Ids' /\ (NothingSlipsBy => NothingSlipsBy')
    BY <1>2, <2>3, <2>4 DEF IInv, TypeOK, Ids, NothingSlipsBy
  <2>6. QED BY <2>3, <2>5 DEF IInv
<1>3. ASSUME NEW L, Quits(L), UNCHANGED <<dbUp, emitted, kind, table, watcher, heard, ended>>,
             pruner' \in BOOLEAN
      PROVE  Kept
  <2>1. UNCHANGED <<rows, id, seq, cursor, got, cut>>
    BY <1>3 DEF table, watcher
  <2>2. pc' \in [Loop -> {0} \union Handler] /\ event' \in [Loop -> {0} \union Event]
    BY <1>3 DEF Quits, IInv, TypeOK
  <2>3. \A l \in Loop : pc'[l] # 0 => pc'[l] = pc[l] /\ event'[l] = event[l]
    BY <1>3 DEF Quits
  <2>4. Calls'
    BY <1>3, <2>3 DEF Calls, IInv
  <2>5. TypeOK'
    BY <1>3, <2>1, <2>2 DEF IInv, TypeOK
  <2>6. Ids' /\ (NothingSlipsBy => NothingSlipsBy') /\ (EverybodyHears => EverybodyHears')
    BY <1>3, <2>1 DEF IInv, Ids, NothingSlipsBy, EverybodyHears
  <2>7. QED BY <2>4, <2>5, <2>6 DEF IInv
<1>4. ASSUME NEW l \in Loop, HandlerEnds(l) PROVE Kept
  <2>1. CASE pc[l] # 0 /\ Awaits(l, event[l], pc[l] + 1)
             /\ UNCHANGED <<dbUp, emitted, kind, table, pruner, watcher>>
    BY <1>2, <2>1
  <2>2. CASE Quits({l}) /\ UNCHANGED <<dbUp, emitted, kind, table, pruner, watcher, heard, ended>>
    <3>1. pruner' \in BOOLEAN
      BY <2>2 DEF IInv, TypeOK
    <3>2. QED BY <1>3, <2>2, <3>1
  <2>3. QED BY <1>4, <2>1, <2>2 DEF HandlerEnds, Returns, Raises
<1>5. CASE ManagerRestarts
  BY <1>3, <1>5 DEF ManagerRestarts
<1>6. CASE DbTurns \/ UNCHANGED vars
  <2>1. UNCHANGED <<hub, table, pruner, watcher, heard, ended>> /\ dbUp' \in BOOLEAN
    BY <1>6 DEF DbTurns, vars, IInv, TypeOK
  <2>2. UNCHANGED <<emitted, kind, pc, event, rows, id, seq, cursor, got, cut>>
    BY <2>1 DEF hub, table, watcher
  <2>3. TypeOK'
    BY <2>1, <2>2 DEF IInv, TypeOK
  <2>4. QED
    BY <2>1, <2>2, <2>3 DEF IInv, Ids, Calls, NothingSlipsBy, EverybodyHears
<1>7. CASE Prune
  <2>1. /\ UNCHANGED <<dbUp, emitted, kind, pc, event, id, seq, cursor, got, cut, heard, ended>>
        /\ rows' \subseteq rows
    BY <1>7 DEF Prune, hub, watcher
  <2>2. pruner' \in BOOLEAN
    BY <1>7 DEF Prune, IInv, TypeOK
  <2>3. TypeOK'
    BY <2>1, <2>2 DEF IInv, TypeOK
  <2>4. Ids' /\ Calls' /\ (NothingSlipsBy => NothingSlipsBy')
    BY <2>1 DEF IInv, Ids, Calls, NothingSlipsBy
  <2>5. QED BY <2>1, <2>3, <2>4 DEF IInv, EverybodyHears
<1>8. ASSUME NEW n \in Limits \union {-1}, Poll(n) PROVE Kept
  <2>1. UNCHANGED <<dbUp, emitted, kind, pc, event, rows, id, seq, pruner, heard, ended>>
    BY <1>8 DEF Poll, hub, table
  <2>2. /\ cursor' \in 0..seq /\ got' \subseteq Event /\ cut' \subseteq Event
        /\ Ids' /\ (NothingSlipsBy => NothingSlipsBy')
    BY <1>8, PollStep
  <2>3. TypeOK'
    BY <2>1, <2>2 DEF IInv, TypeOK
  <2>4. QED BY <2>1, <2>2, <2>3 DEF IInv, Calls, EverybodyHears
<1>9. QED
  BY <1>1, <1>4, <1>5, <1>6, <1>7, <1>8 DEF Next

-----------------------------------------------------------------------------
LEMMA Start == Init => IInv /\ NothingSlipsBy /\ EverybodyHears
<1> SUFFICES ASSUME Init PROVE IInv /\ NothingSlipsBy /\ EverybodyHears
  OBVIOUS
<1>1. dbUp \in BOOLEAN /\ pruner \in BOOLEAN
  BY DEF Init
<1>2. /\ pc \in [Loop -> {0} \union Handler] /\ event \in [Loop -> {0} \union Event]
      /\ heard \in [Handler -> SUBSET Event] /\ id \in [Event -> Nat]
  BY DEF Init
<1>3. TypeOK
  BY <1>1, <1>2, MaxEventsAssumption DEF Init, TypeOK
<1>4. Ids /\ Calls /\ NothingSlipsBy /\ EverybodyHears
  BY DEF Init, Ids, Calls, NothingSlipsBy, EverybodyHears
<1>5. QED BY <1>3, <1>4 DEF IInv

\* The variables keep to the values the code gives them, and no watcher is
\* ahead of the table.
THEOREM TypeCorrect == Spec => []TypeOK
<1>1. IInv /\ [Next]_vars => IInv'
  BY Step
<1>2. IInv => TypeOK
  BY DEF IInv
<1>3. QED
  BY <1>1, <1>2, Start, PTL DEF Spec

\* A watcher that polls from its latest_id is not past a stored event that it
\* has not been given, unless a poll found more than its limit.
THEOREM NoEventSlipsBy == Spec => []NothingSlipsBy
<1>1. IInv /\ NothingSlipsBy /\ [Next]_vars => IInv' /\ NothingSlipsBy'
  BY Step
<1>2. QED
  BY <1>1, Start, PTL DEF Spec

\* A watcher is given no event twice.
THEOREM NoEventTwice == Spec => NothingTwice
<1>1. IInv /\ [Next]_vars => IInv'
  BY Step
<1>2. IInv /\ [Next]_vars => [\A n \in Limits \union {-1} : Poll(n) => Batch(n) \cap got = {}]_vars
  BY PollStep
<1>3. QED
  BY <1>1, <1>2, Start, PTL DEF Spec, NothingTwice

\* An emission that returned has called every handler with its event.
THEOREM EveryHandlerHears == Spec => []EverybodyHears
<1>1. IInv /\ EverybodyHears /\ [Next]_vars => IInv' /\ EverybodyHears'
  BY Step
<1>2. QED
  BY <1>1, Start, PTL DEF Spec
=============================================================================
