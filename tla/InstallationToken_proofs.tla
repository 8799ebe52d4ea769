---------------------- MODULE InstallationToken_proofs ----------------------
(***************************************************************************)
(* What TLAPS proves of InstallationToken for every number of handlers and *)
(* for every life and margin, however long the calls to GitHub last: that  *)
(* each prestart that waits has its handler, for how long an expired token *)
(* is trusted in which zone, and which calls have a live one by which      *)
(* clock.                                                                  *)
(***************************************************************************)
EXTENDS InstallationToken, TLAPS

\* A token in use was handed out with more than the margin left, or nearly so.
Ample(d) == \A t \in Task : pc[t] = "call" => held[t] + age[t] + d > Margin

\* The step that hands a token out.
LEMMA HandsOut ==
    ASSUME TypeOK, NEW t \in Task, NEW left \in 0..Life, HasToken(t, left)
    PROVE  /\ pc' \in [Task -> {"free", "renew", "call"}] /\ held' \in [Task -> 0..Life]
           /\ wait' \in [Task -> 0..Lag] /\ age' \in [Task -> 0..(Margin + 1)]
BY LimitsAssumption DEF TypeOK, HasToken

\* A handler with a cached token, or on its way to a new one.
LEMMA Enters ==
    ASSUME TypeOK, NEW t \in Task, InstallationToken(t)
    PROVE  /\ pc' \in [Task -> {"free", "renew", "call"}] /\ held' \in [Task -> 0..Life]
           /\ wait' \in [Task -> 0..Lag] /\ age' \in [Task -> 0..(Margin + 1)]
           /\ pc'[t] # "free" /\ \A u \in Task \ {t} : pc'[u] = pc[u]
<1>1. CASE HasToken(t, instToken)
  BY <1>1, HandsOut DEF TypeOK, HasToken
<1>2. CASE pc' = [pc EXCEPT ![t] = "renew"] /\ UNCHANGED <<held, wait, age>>
  BY <1>2 DEF TypeOK
<1>3. QED BY <1>1, <1>2 DEF InstallationToken

\* A handler that is done.
LEMMA Frees ==
    ASSUME TypeOK, NEW t \in Task, Free(t)
    PROVE  /\ pc' \in [Task -> {"free", "renew", "call"}] /\ held' \in [Task -> 0..Life]
           /\ wait' \in [Task -> 0..Lag] /\ age' \in [Task -> 0..(Margin + 1)]
           /\ \A u \in Task \ {t} : pc'[u] = pc[u]
BY LimitsAssumption DEF TypeOK, Free

\* A handler that is done has told its client, and leaves the others theirs.
LEMMA Done ==
    ASSUME TypeOK, NEW t \in Task, NEW answer \in {"off", "served"}, Free(t), Answers(t, answer),
           UNCHANGED <<clock, cache>>
    PROVE  TypeOK'
<1> USE DEF clock, cache, slot
<1>1. CASE asked = t
  <2>1. client' = answer /\ spent' = 0 /\ asked' = None
    BY <1>1 DEF Answers
  <2>2. QED BY <2>1, Frees DEF TypeOK
<1>2. CASE asked # t
  <2>1. UNCHANGED slot
    BY <1>2 DEF Answers
  <2>2. asked # None => pc'[asked] # "free"
    BY <1>2, Frees DEF TypeOK
  <2>3. QED BY <2>1, <2>2, Frees DEF TypeOK
<1>3. QED BY <1>1, <1>2

\* Every step keeps the types.
LEMMA TypeStep == TypeOK /\ [Next]_vars => TypeOK'
<1> SUFFICES ASSUME TypeOK, [Next]_vars PROVE TypeOK'
  OBVIOUS
<1> USE DEF clock, cache, handler, slot
<1>1. ASSUME NEW t \in Task, ManagerAsks(t) PROVE TypeOK'
  <2>1. asked # None => pc'[asked] # "free"
    BY <1>1, Enters DEF ManagerAsks, TypeOK
  <2>2. QED BY <1>1, <2>1, Enters DEF ManagerAsks, TypeOK
<1>2. ASSUME NEW t \in Task, PrestartAsks(t) PROVE TypeOK'
  BY <1>2, Enters, TaskAssumption DEF PrestartAsks, TypeOK
<1>3. ASSUME NEW t \in Task, Renewed(t) PROVE TypeOK'
  <2>1. PICK lag \in 0..wait[t] :
           /\ instToken' = Life - lag /\ instExp' = Expiry(Life - lag)
           /\ HasToken(t, Life - lag)
    BY <1>3 DEF Renewed
  <2>2. Life - lag \in 0..Life
    BY <2>1, LimitsAssumption DEF TypeOK
  <2>3. instExp' \in Nat
    BY <2>1, <2>2, ZoneAssumption, LimitsAssumption DEF Expiry, AtLeastZero, TypeOK
  <2>4. asked # None => pc'[asked] # "free"
    BY <1>3, <2>1 DEF Renewed, HasToken, TypeOK
  <2>5. QED BY <1>3, <2>1, <2>2, <2>3, <2>4, HandsOut DEF Renewed, TypeOK
<1>4. ASSUME NEW t \in Task, RenewFails(t) PROVE TypeOK'
  BY <1>4, Done DEF RenewFails
<1>5. ASSUME NEW t \in Task, Called(t) PROVE TypeOK'
  BY <1>5, Done DEF Called
<1>6. ASSUME NEW t \in Task, CallFails(t) PROVE TypeOK'
  BY <1>6, Done DEF CallFails
<1>7. CASE ManagerRestarts
  BY <1>7, LimitsAssumption DEF ManagerRestarts, TypeOK
<1>8. CASE GivesUp
  BY <1>8 DEF GivesUp, TypeOK
<1>9. CASE JobEnds
  BY <1>9 DEF JobEnds, TypeOK
<1>10. CASE Tick
  BY <1>10, LimitsAssumption DEF Tick, AtLeastZero, TypeOK
<1>11. CASE ClockSteps
  BY <1>11 DEF ClockSteps, TypeOK
<1>12. CASE UNCHANGED vars
  BY <1>12 DEF vars, TypeOK
<1>13. QED
  BY <1>1, <1>2, <1>3, <1>4, <1>5, <1>6, <1>7, <1>8, <1>9, <1>10, <1>11, <1>12
     DEF Next, Ends

\* The variables keep to their values and a prestart that waits has a handler
\* at work, whatever is renewed, late, given up or restarted.
THEOREM TypeCorrect == Spec => []TypeOK
<1>1. Init => TypeOK
  BY LimitsAssumption, ClockAssumption DEF Init, TypeOK
<1>2. QED BY <1>1, TypeStep, PTL DEF Spec

-----------------------------------------------------------------------------
(* Expired tokens.                                                         *)

\* Both ends of the cache's life are set together, and time takes from both.
LEMMA TrustStep == TypeOK /\ TrustIsBounded /\ [Next]_vars => TrustIsBounded'
<1> SUFFICES ASSUME TypeOK, TrustIsBounded, [Next]_vars PROVE TrustIsBounded'
  OBVIOUS
<1> USE DEF clock, TrustIsBounded, Excess, AtLeastZero
<1>1. ASSUME NEW t \in Task, Renewed(t) PROVE TrustIsBounded'
  <2>1. PICK lag \in 0..wait[t] : instToken' = Life - lag /\ instExp' = Expiry(Life - lag)
    BY <1>1 DEF Renewed
  <2>2. Life - lag \in Nat
    BY <2>1, LimitsAssumption DEF TypeOK
  <2>3. QED BY <1>1, <2>1, <2>2, ZoneAssumption DEF Renewed, Expiry, TypeOK
<1>2. CASE ManagerRestarts
  BY <1>2, ZoneAssumption DEF ManagerRestarts, TypeOK
<1>3. CASE Tick
  BY <1>3, LimitsAssumption, ZoneAssumption DEF Tick, TypeOK
<1>4. CASE UNCHANGED <<west, cache>>
  BY <1>4 DEF cache
<1>5. QED
  BY <1>1, <1>2, <1>3, <1>4
     DEF Next, Ends, ManagerAsks, PrestartAsks, RenewFails, Called, CallFails,
         GivesUp, JobEnds, ClockSteps, vars

\* In every zone, and whatever the clock does, the manager goes on trusting a
\* token past its end for no longer than the zone is west of UTC.
THEOREM TrustHasABound == Spec => []TrustIsBounded
<1>1. Init => TrustIsBounded
  BY ZoneAssumption DEF Init, TrustIsBounded, Excess, AtLeastZero
<1>2. QED BY <1>1, TrustStep, TypeCorrect, PTL DEF Spec

\* What is handed out has more than the margin less the drift left, and only
\* time takes it.
LEMMA AmpleStep ==
    ASSUME NEW d \in Nat, \A w \in Zone, a \in Clock : Excess(w) - a <= d
    PROVE  TypeOK /\ TrustIsBounded /\ Ample(d) /\ [Next]_vars => Ample(d)'
<1> SUFFICES ASSUME TypeOK, TrustIsBounded, Ample(d), [Next]_vars PROVE Ample(d)'
  OBVIOUS
<1> USE DEF clock, cache, handler, slot
<1>1. ASSUME NEW t \in Task, NEW left \in 0..Life, HasToken(t, left), left + d > Margin
      PROVE  Ample(d)'
  BY <1>1, LimitsAssumption DEF HasToken, Ample, TypeOK
<1>2. ASSUME NEW t \in Task, InstallationToken(t) PROVE Ample(d)'
  <2>1. CASE Fresh /\ HasToken(t, instToken)
    <3>1. Excess(west) \in Nat /\ Excess(west) - ahead <= d
      BY ZoneAssumption DEF Excess, AtLeastZero, TypeOK
    <3>2. instToken + d > Margin
      BY <2>1, <3>1, LimitsAssumption, ClockAssumption DEF Fresh, TrustIsBounded, TypeOK
    <3>3. QED BY <1>1, <2>1, <3>2 DEF TypeOK
  <2>2. CASE pc' = [pc EXCEPT ![t] = "renew"] /\ UNCHANGED <<held, wait, age>>
    BY <2>2 DEF Ample, TypeOK
  <2>3. QED BY <1>2, <2>1, <2>2 DEF InstallationToken
<1>3. ASSUME NEW t \in Task, Renewed(t) PROVE Ample(d)'
  <2>1. PICK lag \in 0..wait[t] : HasToken(t, Life - lag)
    BY <1>3 DEF Renewed
  <2>2. Life - lag \in 0..Life /\ Life - lag + d > Margin
    BY <2>1, LimitsAssumption DEF TypeOK
  <2>3. QED BY <1>1, <2>1, <2>2
<1>4. ASSUME NEW t \in Task, Free(t) PROVE Ample(d)'
  BY <1>4 DEF Free, Ample, TypeOK
<1>5. CASE ManagerRestarts
  BY <1>5 DEF ManagerRestarts, Ample
<1>6. CASE Tick
  BY <1>6, LimitsAssumption DEF Tick, AtLeastZero, Ample, TypeOK
<1>7. CASE UNCHANGED <<pc, held, age>>
  BY <1>7 DEF Ample
<1>8. QED
  BY <1>2, <1>3, <1>4, <1>5, <1>6, <1>7
     DEF Next, Ends, ManagerAsks, PrestartAsks, RenewFails, Called, CallFails,
         GivesUp, JobEnds, ClockSteps, vars

\* A clock that is late by up to d, or a zone west of UTC by so little, takes d
\* off the margin and no more: no call sends an expired token before it has had
\* it for the rest of the margin, for every life and margin, however long the
\* calls last and however many handlers renew at once, provided that a token is
\* not older than Lag when it comes.
THEOREM DriftTakesFromTheMargin ==
    ASSUME NEW d \in Nat, \A w \in Zone, a \in Clock : Excess(w) - a <= d
    PROVE  Spec => []RenewedWithin(d)
<1>1. Init => Ample(d)
  BY DEF Init, Ample
<1>2. TypeOK /\ Ample(d) => RenewedWithin(d)
  BY LimitsAssumption DEF TypeOK, Ample, RenewedWithin
<1>3. TypeOK /\ TrustIsBounded /\ Ample(d) /\ [Next]_vars => Ample(d)'
  BY AmpleStep
<1>4. QED BY <1>1, <1>2, <1>3, TypeCorrect, TrustHasABound, PTL DEF Spec

\* With a zone that is not west of UTC and a clock that is never late, a token
\* is good for the whole margin.
THEOREM NoExpiredToken ==
    ASSUME \A w \in Zone : w <= 0, \A a \in Clock : a >= 0
    PROVE  Spec => []RenewedInTime
<1>1. Init => Ample(0)
  BY DEF Init, Ample
<1>2. TypeOK /\ Ample(0) => RenewedInTime
  BY LimitsAssumption DEF TypeOK, Ample, RenewedInTime
<1>3. TypeOK /\ TrustIsBounded /\ Ample(0) /\ [Next]_vars => Ample(0)'
  <2>1. \A w \in Zone, a \in Clock : Excess(w) - a <= 0
    BY ZoneAssumption, ClockAssumption DEF Excess, AtLeastZero
  <2>2. QED BY <2>1, AmpleStep
<1>4. QED BY <1>1, <1>2, <1>3, TypeCorrect, TrustHasABound, PTL DEF Spec
=============================================================================
