-------------------------- MODULE Reconcile_proofs --------------------------
(***************************************************************************)
(* What TLAPS proves of Reconcile for every farm, every grace period and   *)
(* every pause between passes: the types, that a host is reaped only when  *)
(* it has been lost for longer than the grace period, that the events      *)
(* about a host match what the manager believes, and which live runners a  *)
(* pass or the operator may take the registration from.  Each invariant is *)
(* one lemma, with a step for every action of the system.                  *)
(***************************************************************************)
EXTENDS Reconcile, TLAPS

(* The parts of the inductive invariant.                                   *)

\* A host is called unreachable only after its last answer, and only an
\* enabled host is; what was due once stays due until the next answer.
Losses ==
    \A h \in Host :
        /\ since[h] # Never => h \in Enabled /\ contact[h] >= since[h]
        /\ reaped[h] => h \in Enabled /\ contact[h] > Grace

\* The events match the beliefs, and only hosts in use are ever heard.
Events ==
    \A h \in Host :
        /\ ~ever[h] => told[h] = "none" /\ ~reachable[h]
        /\ ever[h] /\ reachable[h] => told[h] \in {"none", "recovered"}
        /\ ever[h] /\ ~reachable[h] => told[h] = "degraded"
        /\ ever[h] => h \in Enabled

\* An outage of a host that was ever heard has a start, and only an answer
\* ends it; a host is lost only in an outage.
Outages ==
    \A h \in Host :
        /\ reachable[h] => since[h] = Never
        /\ ever[h] /\ ~reachable[h] => since[h] # Never
        /\ reaped[h] => since[h] # Never

\* The pass has been at h.
Polled(h) == (pc = "poll" /\ h \notin todo) \/ pc = "reap"

\* A runner without a file has strayed; a registration that was listed and is
\* still there has no runner when the host has answered since that it has no
\* such slot, or else one that has strayed or that was given the id since; so it
\* is with the orphans that come of it.
Orphans ==
    \A h \in Host :
        /\ Alive(h) => Serving(slot[h])
        /\ slot[h] = "stray" => h \in strayed
        /\ Polled(h) /\ reachable[h] /\ state[h] # "present" /\ h \in same /\ Alive(h)
              => h \in strayed \union adopted
        /\ orphan[h] = "sure" /\ Alive(h) => h \in strayed \union adopted
        /\ shown[h] = "sure" /\ Alive(h) => h \in strayed \union adopted

IInv == TypeOK /\ Losses /\ Events /\ Outages /\ Orphans

-----------------------------------------------------------------------------
\* Every step keeps the types.
LEMMA TypeStep == TypeOK /\ [Next]_vars => TypeOK'
<1> SUFFICES ASSUME TypeOK, [Next]_vars PROVE TypeOK'
  OBVIOUS
<1> USE GraceAssumption, PauseAssumption DEF TypeOK, Slot, Reg, Known, Status, Event, Orphan, Age, Never,
        world, entry, pass, page, history
<1>1. ASSUME NEW d \in Pause, NEW ok \in BOOLEAN, Begin(d, ok) PROVE TypeOK'
  BY <1>1 DEF Begin, Older, Seen
<1>2. CASE PollsDone
  BY <1>2 DEF PollsDone
<1>3. CASE EndPass
  BY <1>3 DEF EndPass, NoPass, PassEnds, FindOrphans
<1>4. CASE PassBreaks
  <2>1. ghError' = FALSE /\ todo' = {} /\ same' = {} /\ pc' \in {"idle", "dead"}
        /\ listed' \in [Host -> Status]
    BY <1>4 DEF PassBreaks, BrokenPass, NoPass, PassEnds
  <2>2. QED BY <1>4, <2>1 DEF PassBreaks
<1>5. CASE ManagerRestarts
  BY <1>5 DEF ManagerRestarts, NoPass, PassEnds
<1>6. CASE LoadPage
  BY <1>6 DEF LoadPage
<1>7. ASSUME NEW h \in Host, Serve(h) PROVE TypeOK'
  BY <1>7 DEF Serve, Replaced, Becomes
<1>8. ASSUME NEW h \in Host, Leave(h) PROVE TypeOK'
  BY <1>8 DEF Leave, Replaced, Becomes
<1>9. ASSUME NEW h \in Host, Configure(h) PROVE TypeOK'
  BY <1>9 DEF Configure, Becomes
<1>10. ASSUME NEW h \in Host, Blip(h) PROVE TypeOK'
  BY <1>10 DEF Blip
<1>11. ASSUME NEW h \in Host, Expire(h) PROVE TypeOK'
  BY <1>11 DEF Expire, Replaced
<1>12. ASSUME NEW h \in Host, AgentTurns(h) PROVE TypeOK'
  BY <1>12 DEF AgentTurns
<1>13. ASSUME NEW h \in Host, Skip(h) PROVE TypeOK'
  BY <1>13 DEF Skip, Visit
<1>14. ASSUME NEW h \in Host, Answer(h) PROVE TypeOK'
  BY <1>14 DEF Answer, Visit, Emit
<1>15. ASSUME NEW h \in Host, NoAnswer(h) PROVE TypeOK'
  BY <1>15 DEF NoAnswer, Visit, FirstFailure, Emit
<1>16. ASSUME NEW h \in Host, Spare(h) PROVE TypeOK'
  BY <1>16 DEF Spare, Visit
<1>17. ASSUME NEW h \in Host, Reap(h) PROVE TypeOK'
  BY <1>17 DEF Reap, Visit, DeleteListed, Replaced, Due
<1>18. ASSUME NEW h \in Host, ReapBreaks(h) PROVE TypeOK'
  <2>1. reg' \in [Host -> Reg] /\ orphan' \in [Host -> Orphan] /\ shown' \in [Host -> Orphan]
    BY <1>18 DEF ReapBreaks
  <2>2. ghError' = FALSE /\ todo' = {} /\ same' = {} /\ pc' \in {"idle", "dead"}
        /\ listed' \in [Host -> Status]
    BY <1>18 DEF ReapBreaks, BrokenPass, NoPass, PassEnds
  <2>3. QED BY <1>18, <2>1, <2>2 DEF ReapBreaks
<1>19. ASSUME NEW h \in Host, ReapOrphan(h) PROVE TypeOK'
  BY <1>19 DEF ReapOrphan, Replaced
<1>20. CASE UNCHANGED vars
  BY <1>20 DEF vars
<1>21. QED
  BY <1>1, <1>2, <1>3, <1>4, <1>5, <1>6, <1>7, <1>8, <1>9, <1>10, <1>11, <1>12,
     <1>13, <1>14, <1>15, <1>16, <1>17, <1>18, <1>19, <1>20
     DEF Next, PassStep, Breaks, WorldStep

\* Every step keeps the ages in order.
LEMMA LossStep == TypeOK /\ Losses /\ [Next]_vars => Losses'
<1> SUFFICES ASSUME TypeOK, Losses, [Next]_vars PROVE Losses'
  OBVIOUS
<1> USE GraceAssumption, PauseAssumption DEF TypeOK, Losses, Age, Never,
        world, entry, pass, page, history
<1>1. ASSUME NEW d \in Pause, NEW ok \in BOOLEAN, Begin(d, ok) PROVE Losses'
  BY <1>1 DEF Begin, Older, Seen
<1>2. CASE PollsDone
  BY <1>2 DEF PollsDone
<1>3. CASE EndPass
  BY <1>3 DEF EndPass, NoPass, PassEnds, FindOrphans
<1>4. CASE PassBreaks
  BY <1>4 DEF PassBreaks, BrokenPass, NoPass, PassEnds
<1>5. CASE ManagerRestarts
  BY <1>5 DEF ManagerRestarts, NoPass, PassEnds
<1>6. CASE LoadPage
  BY <1>6 DEF LoadPage
<1>7. ASSUME NEW h \in Host, Serve(h) PROVE Losses'
  BY <1>7 DEF Serve, Replaced, Becomes
<1>8. ASSUME NEW h \in Host, Leave(h) PROVE Losses'
  BY <1>8 DEF Leave, Replaced, Becomes
<1>9. ASSUME NEW h \in Host, Configure(h) PROVE Losses'
  BY <1>9 DEF Configure, Becomes
<1>10. ASSUME NEW h \in Host, Blip(h) PROVE Losses'
  BY <1>10 DEF Blip
<1>11. ASSUME NEW h \in Host, Expire(h) PROVE Losses'
  BY <1>11 DEF Expire, Replaced
<1>12. ASSUME NEW h \in Host, AgentTurns(h) PROVE Losses'
  BY <1>12 DEF AgentTurns
<1>13. ASSUME NEW h \in Host, Skip(h) PROVE Losses'
  BY <1>13 DEF Skip, Visit
<1>14. ASSUME NEW h \in Host, Answer(h) PROVE Losses'
  BY <1>14 DEF Answer, Visit, Emit
<1>15. ASSUME NEW h \in Host, NoAnswer(h) PROVE Losses'
  BY <1>15 DEF NoAnswer, Visit, FirstFailure, Emit
<1>16. ASSUME NEW h \in Host, Spare(h) PROVE Losses'
  BY <1>16 DEF Spare, Visit
<1>17. ASSUME NEW h \in Host, Reap(h) PROVE Losses'
  BY <1>17 DEF Reap, Visit, DeleteListed, Replaced, Due
<1>18. ASSUME NEW h \in Host, ReapBreaks(h) PROVE Losses'
  BY <1>18 DEF ReapBreaks, BrokenPass, NoPass, PassEnds, Due
<1>19. ASSUME NEW h \in Host, ReapOrphan(h) PROVE Losses'
  BY <1>19 DEF ReapOrphan, Replaced
<1>20. CASE UNCHANGED vars
  BY <1>20 DEF vars
<1>21. QED
  BY <1>1, <1>2, <1>3, <1>4, <1>5, <1>6, <1>7, <1>8, <1>9, <1>10, <1>11, <1>12,
     <1>13, <1>14, <1>15, <1>16, <1>17, <1>18, <1>19, <1>20
     DEF Next, PassStep, Breaks, WorldStep

\* Every step keeps the events and the beliefs together.
LEMMA EventStep == TypeOK /\ Events /\ [Next]_vars => Events'
<1> SUFFICES ASSUME TypeOK, Events, [Next]_vars PROVE Events'
  OBVIOUS
<1> USE DEF TypeOK, Events, Event,
        world, entry, pass, page, history
<1>1. ASSUME NEW d \in Pause, NEW ok \in BOOLEAN, Begin(d, ok) PROVE Events'
  BY <1>1 DEF Begin, Older, Seen
<1>2. CASE PollsDone
  BY <1>2 DEF PollsDone
<1>3. CASE EndPass
  BY <1>3 DEF EndPass, NoPass, PassEnds, FindOrphans
<1>4. CASE PassBreaks
  BY <1>4 DEF PassBreaks, BrokenPass, NoPass, PassEnds
<1>5. CASE ManagerRestarts
  BY <1>5 DEF ManagerRestarts, NoPass, PassEnds
<1>6. CASE LoadPage
  BY <1>6 DEF LoadPage
<1>7. ASSUME NEW h \in Host, Serve(h) PROVE Events'
  BY <1>7 DEF Serve, Replaced, Becomes
<1>8. ASSUME NEW h \in Host, Leave(h) PROVE Events'
  BY <1>8 DEF Leave, Replaced, Becomes
<1>9. ASSUME NEW h \in Host, Configure(h) PROVE Events'
  BY <1>9 DEF Configure, Becomes
<1>10. ASSUME NEW h \in Host, Blip(h) PROVE Events'
  BY <1>10 DEF Blip
<1>11. ASSUME NEW h \in Host, Expire(h) PROVE Events'
  BY <1>11 DEF Expire, Replaced
<1>12. ASSUME NEW h \in Host, AgentTurns(h) PROVE Events'
  BY <1>12 DEF AgentTurns
<1>13. ASSUME NEW h \in Host, Skip(h) PROVE Events'
  BY <1>13 DEF Skip, Visit
<1>14. ASSUME NEW h \in Host, Answer(h) PROVE Events'
  BY <1>14 DEF Answer, Visit, Emit
<1>15. ASSUME NEW h \in Host, NoAnswer(h) PROVE Events'
  BY <1>15 DEF NoAnswer, Visit, FirstFailure, Emit
<1>16. ASSUME NEW h \in Host, Spare(h) PROVE Events'
  BY <1>16 DEF Spare, Visit
<1>17. ASSUME NEW h \in Host, Reap(h) PROVE Events'
  BY <1>17 DEF Reap, Visit, DeleteListed, Replaced, Due
<1>18. ASSUME NEW h \in Host, ReapBreaks(h) PROVE Events'
  BY <1>18 DEF ReapBreaks, BrokenPass, NoPass, PassEnds, Due
<1>19. ASSUME NEW h \in Host, ReapOrphan(h) PROVE Events'
  BY <1>19 DEF ReapOrphan, Replaced
<1>20. CASE UNCHANGED vars
  BY <1>20 DEF vars
<1>21. QED
  BY <1>1, <1>2, <1>3, <1>4, <1>5, <1>6, <1>7, <1>8, <1>9, <1>10, <1>11, <1>12,
     <1>13, <1>14, <1>15, <1>16, <1>17, <1>18, <1>19, <1>20
     DEF Next, PassStep, Breaks, WorldStep

\* Every step keeps the starts of the outages.
LEMMA OutageStep == TypeOK /\ Events /\ Outages /\ [Next]_vars => Outages'
<1> SUFFICES ASSUME TypeOK, Events, Outages, [Next]_vars PROVE Outages'
  OBVIOUS
<1> USE GraceAssumption, PauseAssumption DEF TypeOK, Events, Outages, Age, Never,
        world, entry, pass, page, history
<1>1. ASSUME NEW d \in Pause, NEW ok \in BOOLEAN, Begin(d, ok) PROVE Outages'
  BY <1>1 DEF Begin, Older, Seen
<1>2. CASE PollsDone
  BY <1>2 DEF PollsDone
<1>3. CASE EndPass
  BY <1>3 DEF EndPass, NoPass, PassEnds, FindOrphans
<1>4. CASE PassBreaks
  BY <1>4 DEF PassBreaks, BrokenPass, NoPass, PassEnds
<1>5. CASE ManagerRestarts
  BY <1>5 DEF ManagerRestarts, NoPass, PassEnds
<1>6. CASE LoadPage
  BY <1>6 DEF LoadPage
<1>7. ASSUME NEW h \in Host, Serve(h) PROVE Outages'
  BY <1>7 DEF Serve, Replaced, Becomes
<1>8. ASSUME NEW h \in Host, Leave(h) PROVE Outages'
  BY <1>8 DEF Leave, Replaced, Becomes
<1>9. ASSUME NEW h \in Host, Configure(h) PROVE Outages'
  BY <1>9 DEF Configure, Becomes
<1>10. ASSUME NEW h \in Host, Blip(h) PROVE Outages'
  BY <1>10 DEF Blip
<1>11. ASSUME NEW h \in Host, Expire(h) PROVE Outages'
  BY <1>11 DEF Expire, Replaced
<1>12. ASSUME NEW h \in Host, AgentTurns(h) PROVE Outages'
  BY <1>12 DEF AgentTurns
<1>13. ASSUME NEW h \in Host, Skip(h) PROVE Outages'
  BY <1>13 DEF Skip, Visit
<1>14. ASSUME NEW h \in Host, Answer(h) PROVE Outages'
  BY <1>14 DEF Answer, Visit
<1>15. ASSUME NEW h \in Host, NoAnswer(h) PROVE Outages'
  BY <1>15 DEF NoAnswer, Visit, FirstFailure
<1>16. ASSUME NEW h \in Host, Spare(h) PROVE Outages'
  BY <1>16 DEF Spare, Visit
<1>17. ASSUME NEW h \in Host, Reap(h) PROVE Outages'
  BY <1>17 DEF Reap, Visit, DeleteListed, Replaced, Due
<1>18. ASSUME NEW h \in Host, ReapBreaks(h) PROVE Outages'
  BY <1>18 DEF ReapBreaks, BrokenPass, NoPass, PassEnds, Due
<1>19. ASSUME NEW h \in Host, ReapOrphan(h) PROVE Outages'
  BY <1>19 DEF ReapOrphan, Replaced
<1>20. CASE UNCHANGED vars
  BY <1>20 DEF vars
<1>21. QED
  BY <1>1, <1>2, <1>3, <1>4, <1>5, <1>6, <1>7, <1>8, <1>9, <1>10, <1>11, <1>12,
     <1>13, <1>14, <1>15, <1>16, <1>17, <1>18, <1>19, <1>20
     DEF Next, PassStep, Breaks, WorldStep

\* Every step keeps the live runners apart from the orphans.
LEMMA OrphanStep == TypeOK /\ Orphans /\ [Next]_vars => Orphans'
<1> SUFFICES ASSUME TypeOK, Orphans, [Next]_vars PROVE Orphans'
  OBVIOUS
<1> USE DEF TypeOK, Orphans, Alive, Polled, Reg, Slot, Serving, HasFile,
        world, entry, pass, page, history
<1>1. ASSUME NEW d \in Pause, NEW ok \in BOOLEAN, Begin(d, ok) PROVE Orphans'
  BY <1>1 DEF Begin, Older, Seen
<1>2. CASE PollsDone
  BY <1>2 DEF PollsDone
<1>3. CASE EndPass
  BY <1>3 DEF EndPass, NoPass, PassEnds, FindOrphans
<1>4. CASE PassBreaks
  BY <1>4 DEF PassBreaks, BrokenPass, NoPass, PassEnds
<1>5. CASE ManagerRestarts
  BY <1>5 DEF ManagerRestarts, NoPass, PassEnds
<1>6. CASE LoadPage
  BY <1>6 DEF LoadPage
<1>7. ASSUME NEW h \in Host, Serve(h) PROVE Orphans'
  BY <1>7 DEF Serve, Replaced, Becomes
<1>8. ASSUME NEW h \in Host, Leave(h) PROVE Orphans'
  BY <1>8 DEF Leave, Replaced, Becomes
<1>9. ASSUME NEW h \in Host, Configure(h) PROVE Orphans'
  BY <1>9 DEF Configure, Becomes
<1>10. ASSUME NEW h \in Host, Blip(h) PROVE Orphans'
  BY <1>10 DEF Blip
<1>11. ASSUME NEW h \in Host, Expire(h) PROVE Orphans'
  BY <1>11 DEF Expire, Replaced
<1>12. ASSUME NEW h \in Host, AgentTurns(h) PROVE Orphans'
  BY <1>12 DEF AgentTurns
<1>13. ASSUME NEW h \in Host, Skip(h) PROVE Orphans'
  BY <1>13 DEF Skip, Visit
<1>14. ASSUME NEW h \in Host, Answer(h) PROVE Orphans'
  BY <1>14 DEF Answer, Visit, Emit
<1>15. ASSUME NEW h \in Host, NoAnswer(h) PROVE Orphans'
  BY <1>15 DEF NoAnswer, Visit, FirstFailure, Emit
<1>16. ASSUME NEW h \in Host, Spare(h) PROVE Orphans'
  BY <1>16 DEF Spare, Visit
<1>17. ASSUME NEW h \in Host, Reap(h) PROVE Orphans'
  BY <1>17 DEF Reap, Visit, DeleteListed, Replaced, Due
<1>18. ASSUME NEW h \in Host, ReapBreaks(h) PROVE Orphans'
  BY <1>18 DEF ReapBreaks, BrokenPass, NoPass, PassEnds, Due
<1>19. ASSUME NEW h \in Host, ReapOrphan(h) PROVE Orphans'
  BY <1>19 DEF ReapOrphan, Replaced
<1>20. CASE UNCHANGED vars
  BY <1>20 DEF vars
<1>21. QED
  BY <1>1, <1>2, <1>3, <1>4, <1>5, <1>6, <1>7, <1>8, <1>9, <1>10, <1>11, <1>12,
     <1>13, <1>14, <1>15, <1>16, <1>17, <1>18, <1>19, <1>20
     DEF Next, PassStep, Breaks, WorldStep

-----------------------------------------------------------------------------
\* The variables keep to the values the code gives them, in every farm.
THEOREM TypeCorrect == Spec => []TypeOK
<1>1. Init => TypeOK
  <2> SUFFICES ASSUME Init PROVE TypeOK
    OBVIOUS
  <2>1. reachable \in [Host -> BOOLEAN] /\ reaped \in [Host -> BOOLEAN]
        /\ ever \in [Host -> BOOLEAN] /\ ghError \in BOOLEAN
    BY Zenon DEF Init
  <2>2. since \in [Host -> Age \union {Never}] /\ contact \in [Host -> Age]
    BY GraceAssumption DEF Init, Age, Never
  <2>3. QED
    BY <2>1, <2>2 DEF Init, TypeOK, Slot, Reg, Known, Status, Event, Orphan
<1>2. QED BY <1>1, TypeStep, PTL DEF Spec

\* The whole invariant is inductive.
THEOREM ReconcileInvariant == Spec => []IInv
<1>1. Init => Losses
  <2> SUFFICES ASSUME Init, NEW h \in Host PROVE since[h] = Never /\ ~reaped[h]
    BY DEF Losses
  <2>1. QED BY Zenon DEF Init
<1>2. Init => Events
  BY DEF Init, Events
<1>3. Init => Orphans
  BY DEF Init, Orphans, Alive
<1>4. Init => Outages
  <2> SUFFICES ASSUME Init, NEW h \in Host PROVE ~reachable[h] /\ ~ever[h] /\ ~reaped[h]
    BY DEF Outages
  <2>1. QED BY Zenon DEF Init
<1>5. QED
  BY <1>1, <1>2, <1>3, <1>4, TypeCorrect, LossStep, EventStep, OutageStep, OrphanStep, PTL
     DEF Spec, IInv

\* No host is reaped that answered within the grace period, whatever lists,
\* passes and managers failed in between.
THEOREM OnlyLostHostsAreReaped == Spec => []ReapsOnlyLostHosts
<1>1. IInv => ReapsOnlyLostHosts
  BY DEF IInv, Losses, ReapsOnlyLostHosts
<1>2. QED BY <1>1, ReconcileInvariant, PTL

\* The last event about a host that was ever heard agrees with the manager's
\* belief and with the snapshots, and no event is told twice.
THEOREM EventsMatchBeliefs == Spec => []HostEventsMatch
<1>1. IInv => HostEventsMatch
  BY DEF IInv, Events, Outages, HostEventsMatch, Degraded
<1>2. QED BY <1>1, ReconcileInvariant, PTL

\* An orphan of a host that answered has no runner and never gets one, but for
\* one that has lost its file or that GitHub has given the id of the orphan to.
THEOREM SureOrphansAreDead == Spec => []OrphanHasNoRunner
<1>1. IInv => OrphanHasNoRunner
  BY DEF IInv, Orphans, OrphanHasNoRunner
<1>2. QED BY <1>1, ReconcileInvariant, PTL

\* A live runner loses its registration to the manager only when its host is
\* lost, or as an orphan: of a host that did not answer, of a lost file, or of an
\* id that GitHub has let the runner take over since.
THEOREM LiveRunnersAreSpared == Spec => SparesLiveRunners
<1> DEFINE Spared == \A h \in Host :
              Alive(h) /\ reg'[h] = "none" /\ Serving(slot'[h]) =>
                  \/ contact[h] > Grace \/ shown[h] = "unsure"
                  \/ shown[h] = "sure" /\ h \in strayed \union adopted
<1>1. IInv /\ [Next]_vars => [Spared]_vars
  <2> SUFFICES ASSUME IInv, Next PROVE Spared
    OBVIOUS
  <2> SUFFICES ASSUME NEW h \in Host, Alive(h), reg'[h] = "none", Serving(slot'[h])
               PROVE  \/ contact[h] > Grace \/ shown[h] = "unsure"
                      \/ shown[h] = "sure" /\ h \in strayed \union adopted
    OBVIOUS
  <2>1. reg' # reg
    BY DEF Alive
  <2>2. CASE \E g \in Host : WorldStep(g)
    BY <2>2 DEF WorldStep, Serve, Leave, Configure, Blip, Expire, AgentTurns, Alive,
                Becomes, Serving, IInv, TypeOK, Reg, Slot
  <2>3. CASE \E g \in Host : Reap(g) \/ ReapBreaks(g)
    BY <2>3, GraceAssumption
       DEF Reap, ReapBreaks, DeleteListed, Due, Alive, IInv, TypeOK, Losses, Age, Never, Reg
  <2>4. CASE \E g \in Host : ReapOrphan(g)
    BY <2>4 DEF ReapOrphan, Alive, IInv, TypeOK, Orphans, Orphan, Reg
  <2>5. QED
    BY <2>1, <2>2, <2>3, <2>4
       DEF Next, PassStep, Breaks, Begin, PollsDone, EndPass, Skip, Answer, NoAnswer,
           Spare, PassBreaks, ManagerRestarts, LoadPage, world
<1>2. QED BY <1>1, ReconcileInvariant, PTL DEF Spec, SparesLiveRunners
-----------------------------------------------------------------------------
(* Reconciliation implements the abstract fleet.                           *)

\* The abstract state of a snapshot.
Shows == [h \in Host |-> HostStatus(h)]

\* One host's entry changes: the abstract state changes at this host only.
LEMMA OneHostMoves ==
    ASSUME NEW h \in Host, NEW to,
           \A g \in Host \ {h} : HostStatus(g)' = HostStatus(g),
           HostStatus(h)' = to
    PROVE  Shows' = [Shows EXCEPT ![h] = to]
BY DEF Shows

\* An entry that does not move shows what it showed.
LEMMA EntryShows == UNCHANGED entry => Shows' = Shows
BY DEF entry, Shows, HostStatus, Degraded

\* The ages grow, and nobody's state changes with them.
LEMMA AgesDoNotShow ==
    ASSUME TypeOK, NEW d \in Pause, NEW ok \in BOOLEAN, Begin(d, ok)
    PROVE  Shows' = Shows
<1>1. ASSUME NEW h \in Host PROVE since'[h] = Never <=> since[h] = Never
  BY GraceAssumption, PauseAssumption DEF Begin, Older, TypeOK, Age, Never
<1>2. ASSUME NEW h \in Host PROVE HostStatus(h)' = HostStatus(h)
  BY <1>1, <1>2 DEF Begin, HostStatus, Degraded
<1>3. QED BY <1>2 DEF Shows

\* The steps of the pass that touch one host's entry.
LEMMA PollShows ==
    ASSUME IInv, NEW h \in Host, Skip(h) \/ Answer(h) \/ NoAnswer(h) \/ Reap(h)
    PROVE  Shows' = Shows \/ Fleet!Answers(h) \/ Fleet!Fails(h) \/ Fleet!IsLost(h)
<1> USE DEF IInv, TypeOK, Visit, HostStatus, Degraded
<1>1. ASSUME NEW g \in Host \ {h} PROVE HostStatus(g)' = HostStatus(g)
  BY DEF Skip, Answer, NoAnswer, Reap, FirstFailure
<1>2. CASE Skip(h)
  <2>1. ~reachable[h] /\ ~reachable'[h] /\ since'[h] = since[h] /\ reaped'[h] = reaped[h]
    BY <1>2 DEF Skip, Events
  <2>2. HostStatus(h)' = HostStatus(h)
    BY <2>1
  <2>3. QED BY <1>1, <2>2 DEF Shows
<1>3. CASE Answer(h)
  <2>1. HostStatus(h)' = "up"
    BY <1>3 DEF Answer
  <2>2. Shows' = [Shows EXCEPT ![h] = "up"]
    BY <1>1, <2>1, OneHostMoves
  <2>3. Shows[h] \in Fleet!Status
    BY DEF Shows, Fleet!Status
  <2>4. QED BY <2>2, <2>3 DEF Shows, Fleet!Answers, Fleet!Turns
<1>4. CASE NoAnswer(h)
  <2>1. ~reachable'[h] /\ since'[h] # Never /\ reaped'[h] = reaped[h]
    BY <1>4 DEF NoAnswer, FirstFailure, Never
  <2>2. CASE reaped[h]
    <3>1. HostStatus(h) = "lost" /\ HostStatus(h)' = "lost"
      BY <2>1, <2>2 DEF Outages
    <3>2. QED BY <1>1, <3>1 DEF Shows
  <2>3. CASE ~reaped[h] /\ Degraded(h)
    <3>1. HostStatus(h) = "degraded" /\ HostStatus(h)' = "degraded"
      BY <2>1, <2>3
    <3>2. QED BY <1>1, <3>1 DEF Shows
  <2>4. CASE ~reaped[h] /\ ~Degraded(h)
    <3>1. HostStatus(h) \in {"unknown", "up"} /\ HostStatus(h)' = "degraded"
      BY <2>1, <2>4
    <3>2. Shows' = [Shows EXCEPT ![h] = "degraded"] /\ Shows[h] \in {"unknown", "up"}
      BY <1>1, <3>1, OneHostMoves DEF Shows
    <3>3. QED BY <3>2 DEF Shows, Fleet!Fails, Fleet!Turns
  <2>5. QED BY <2>2, <2>3, <2>4
<1>5. CASE Reap(h)
  <2>1. HostStatus(h) = "degraded" /\ HostStatus(h)' = "lost"
    BY <1>5 DEF Reap, Due, Outages
  <2>2. Shows' = [Shows EXCEPT ![h] = "lost"] /\ Shows[h] \in {"degraded"}
    BY <1>1, <2>1, OneHostMoves DEF Shows
  <2>3. QED BY <2>2 DEF Shows, Fleet!IsLost, Fleet!Turns
<1>6. QED BY <1>2, <1>3, <1>4, <1>5

\* In every farm a snapshot moves as the abstract fleet does: lost only after
\* degraded, back only by an answer, whatever breaks or fails in between.
THEOREM FleetPromiseKept == Spec => KeepsFleetPromise
<1>1. Init => Fleet!FInit
  <2> SUFFICES ASSUME Init, NEW h \in Host PROVE HostStatus(h) = "unknown"
    BY DEF Fleet!FInit
  <2>1. ~reachable[h] /\ ~reaped[h] /\ since[h] = Never
    BY Zenon DEF Init
  <2>2. QED BY <2>1 DEF HostStatus, Degraded
<1>2. IInv /\ [Next]_vars => [Fleet!FNext]_Shows
  <2> SUFFICES ASSUME IInv, [Next]_vars PROVE Shows' = Shows \/ Fleet!FNext
    OBVIOUS
  <2>1. ASSUME NEW d \in Pause, NEW ok \in BOOLEAN, Begin(d, ok) PROVE Shows' = Shows
    BY <2>1, AgesDoNotShow DEF IInv
  <2>2. ASSUME NEW h \in Host, Skip(h) \/ Answer(h) \/ NoAnswer(h) \/ Reap(h)
        PROVE  Shows' = Shows \/ Fleet!FNext
    BY <2>2, PollShows DEF Fleet!FNext
  <2>3. ASSUME ManagerRestarts PROVE Fleet!FNext
    <3>1. \A h \in Host : ~reachable'[h] /\ ~reaped'[h] /\ since'[h] = Never
      BY <2>3, Zenon DEF ManagerRestarts
    <3>2. Shows' = [h \in Host |-> "unknown"]
      BY <3>1 DEF Shows, HostStatus, Degraded
    <3>3. QED BY <3>2 DEF Shows, Fleet!FNext, Fleet!Forgets
  <2>4. ASSUME NEW h \in Host,
               WorldStep(h) \/ ReapOrphan(h) \/ Spare(h) \/ ReapBreaks(h)
        PROVE  Shows' = Shows
    BY <2>4, EntryShows
       DEF WorldStep, Serve, Leave, Configure, Blip, Expire, AgentTurns,
           ReapOrphan, Spare, ReapBreaks
  <2>5. ASSUME PollsDone \/ EndPass \/ PassBreaks \/ LoadPage PROVE Shows' = Shows
    BY <2>5, EntryShows DEF PollsDone, EndPass, PassBreaks, LoadPage
  <2>6. ASSUME UNCHANGED vars PROVE Shows' = Shows
    BY <2>6, EntryShows DEF vars
  <2>7. QED
    BY <2>1, <2>2, <2>3, <2>4, <2>5, <2>6 DEF Next, PassStep, Breaks
<1>3. QED
  BY <1>1, <1>2, ReconcileInvariant, PTL
     DEF Spec, KeepsFleetPromise, Fleet!FSpec, Shows
=============================================================================
