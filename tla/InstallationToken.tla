------------------------- MODULE InstallationToken --------------------------
(***************************************************************************)
(* The GitHub App client of the manager (manager/github.py): the cached    *)
(* installation token that every call to GitHub carries, renewed before it *)
(* expires, and what hangs on it: the prestart script of a slot that asks  *)
(* the agent, which asks the manager, which asks GitHub for a registration *)
(* token.  curl gives up after a time; the timeouts of httpx are those of  *)
(* single reads and writes, so that a call to GitHub may last for ever.    *)
(*                                                                         *)
(* Time passes in ticks.  Lives and expiries are what is left of them, in  *)
(* true time; the manager reads its own clock and its own time zone.       *)
(***************************************************************************)
EXTENDS Integers

CONSTANTS Task,      \* the manager's handlers that call GitHub
          None,
          Life,      \* how long GitHub lets an installation token live
          Margin,    \* it is renewed that long before its expiry
          Latency,   \* a call to GitHub that lasts no longer than that is in time
          Lag,       \* assumed: no answer brings a token that was issued longer ago
          Patience,  \* curl --max-time in prestart
          Pause,     \* RestartSec of the unit
          Zone,      \* the manager's zone, UTC minus local time: one of these
          Clock,     \* by how much its clock may be ahead
          Slack      \* the JWT's iat is that long ago, so that GitHub takes it

ASSUME TaskAssumption == None \notin Task
ASSUME LimitsAssumption ==
    /\ Life \in Nat /\ Margin \in Nat /\ Latency \in Nat /\ Lag \in Nat
    /\ Patience \in Nat /\ Pause \in Nat
    /\ Latency < Lag /\ Margin + Lag < Life
ASSUME ZoneAssumption == Zone \subseteq Int /\ Slack \in Int
ASSUME ClockAssumption == Clock \subseteq Int /\ 0 \in Clock /\ \A a \in Clock : Margin + a >= 0

VARIABLES
    ahead, west,     \* the manager's clock, and its zone
    instToken,       \* _inst_token: the life it has left, 0 for none
    instExp,         \* _inst_exp: what the manager believes is left, 0 if nothing
    pc, held,        \* a handler: what it awaits, and the token it uses
    wait,            \* for how long it has awaited that, counted up to Lag
    age,             \* history: for how long it has had its token
    client, spent,   \* prestart, and for how long it has been there
    asked            \* the handler that works for it

clock   == <<ahead, west>>
cache   == <<instToken, instExp>>
handler == <<pc, held, wait, age>>
slot    == <<client, spent, asked>>
vars    == <<clock, cache, handler, slot>>

Free(t) ==
    /\ pc' = [pc EXCEPT ![t] = "free"] /\ held' = [held EXCEPT ![t] = 0]
    /\ wait' = [wait EXCEPT ![t] = 0] /\ age' = [age EXCEPT ![t] = 0]

Init ==
    /\ ahead = 0 /\ west \in Zone
    /\ instToken = 0 /\ instExp = 0
    /\ pc = [t \in Task |-> "free"] /\ held = [t \in Task |-> 0]
    /\ wait = [t \in Task |-> 0] /\ age = [t \in Task |-> 0]
    /\ client = "off" /\ spent = 0 /\ asked = None

-----------------------------------------------------------------------------
(* The manager.                                                            *)

Mutant_NoMargin == instExp > ahead

\* time.time() < _inst_exp - 300
Fresh == instExp > Margin + ahead

\* A handler goes on to its call with a token, or to the renewal.
HasToken(t, left) ==
    /\ pc' = [pc EXCEPT ![t] = "call"] /\ held' = [held EXCEPT ![t] = left]
    /\ wait' = [wait EXCEPT ![t] = 0] /\ age' = [age EXCEPT ![t] = 0]

InstallationToken(t) ==
    \/ Fresh /\ HasToken(t, instToken)
    \/ ~Fresh /\ pc' = [pc EXCEPT ![t] = "renew"] /\ UNCHANGED <<held, wait, age>>

\* systemd starts the unit anew.
PrestartIsDue == client = "off" /\ spent = Pause

\* Reconciliation, a reap or a page asks for something at GitHub.  Handlers
\* are never short in the code, so these leave one to a slot that asks.
ManagerAsks(t) ==
    /\ pc[t] = "free" /\ ~PrestartIsDue
    /\ InstallationToken(t)
    /\ UNCHANGED <<clock, cache, slot>>

AtLeastZero(n) == IF n > 0 THEN n ELSE 0

Mutant_KeepsOldExpiry(left) == instExp

\* mktime takes the UTC time of expires_at for local time.
Expiry(left) == AtLeastZero(left + west)

\* GitHub takes the JWT and issues a token during the call; the handler stores
\* it and its expiry together, over what another handler may have stored.
Renewed(t) ==
    /\ pc[t] = "renew" /\ ahead <= Slack
    /\ \E lag \in 0..wait[t] :
          /\ instToken' = Life - lag /\ instExp' = Expiry(Life - lag)
          /\ HasToken(t, Life - lag)
    /\ UNCHANGED <<clock, slot>>

Mutant_LeavesItWaiting(t, answer) == UNCHANGED slot

\* The client of a handler that is done has its answer, unless it has left.
Answers(t, answer) ==
    IF asked = t
    THEN client' = answer /\ spent' = 0 /\ asked' = None
    ELSE UNCHANGED slot

\* No key, no connection, a timeout, an error status, or the JWT refused.
RenewFails(t) ==
    /\ pc[t] = "renew"
    /\ Free(t) /\ Answers(t, "off")
    /\ UNCHANGED <<clock, cache>>

\* The call is answered, each page of a list with the same token: GitHub takes
\* it.
Called(t) ==
    /\ pc[t] = "call" /\ held[t] > 0
    /\ Free(t) /\ Answers(t, "served")
    /\ UNCHANGED <<clock, cache>>

\* The call fails; one with an expired token (401) always does.
CallFails(t) ==
    /\ pc[t] = "call"
    /\ Free(t) /\ Answers(t, "off")
    /\ UNCHANGED <<clock, cache>>

\* The cache is memory, and the agent tells the client that it had no answer.
ManagerRestarts ==
    /\ instToken' = 0 /\ instExp' = 0
    /\ pc' = [t \in Task |-> "free"] /\ held' = [t \in Task |-> 0]
    /\ wait' = [t \in Task |-> 0] /\ age' = [t \in Task |-> 0]
    /\ IF client = "waits" THEN client' = "off" /\ spent' = 0 ELSE UNCHANGED <<client, spent>>
    /\ asked' = None
    /\ UNCHANGED clock

-----------------------------------------------------------------------------
(* The prestart script of a slot, through the agent.                       *)

PrestartAsks(t) ==
    /\ client = "off" /\ pc[t] = "free"
    /\ client' = "waits" /\ spent' = 0 /\ asked' = t
    /\ InstallationToken(t)
    /\ UNCHANGED <<clock, cache>>

\* curl gives up, exit 1; nobody tells the handler.
GivesUp ==
    /\ client = "waits" /\ spent = Patience
    /\ client' = "off" /\ spent' = 0 /\ asked' = None
    /\ UNCHANGED <<clock, cache, handler>>

\* The slot had its token, its runner and its job, and starts anew.
JobEnds ==
    /\ client = "served"
    /\ client' = "off" /\ spent' = 0
    /\ UNCHANGED <<clock, cache, handler, asked>>

-----------------------------------------------------------------------------
(* Time.                                                                   *)

\* curl leaves after --max-time, systemd restarts the unit after RestartSec;
\* only then is time held up.
ClientInTime ==
    /\ client = "waits" => spent < Patience
    /\ PrestartIsDue => \A t \in Task : pc[t] # "free"

Tick ==
    /\ ClientInTime
    /\ instToken' = AtLeastZero(instToken - 1) /\ instExp' = AtLeastZero(instExp - 1)
    /\ held' = [t \in Task |-> AtLeastZero(held[t] - 1)]
    /\ wait' = [t \in Task |-> IF pc[t] # "free" /\ wait[t] < Lag THEN wait[t] + 1 ELSE wait[t]]
    /\ age' = [t \in Task |-> IF pc[t] = "call" /\ age[t] <= Margin THEN age[t] + 1 ELSE age[t]]
    /\ spent' = IF client = "served" \/ PrestartIsDue THEN spent ELSE spent + 1
    /\ UNCHANGED <<clock, pc, client, asked>>

\* The clock is set, or drifts.
ClockSteps ==
    /\ ahead' \in Clock \ {ahead}
    /\ UNCHANGED <<west, cache, handler, slot>>

Ends(t) == Renewed(t) \/ RenewFails(t) \/ Called(t) \/ CallFails(t)

Next ==
    \/ \E t \in Task : ManagerAsks(t) \/ PrestartAsks(t) \/ Ends(t)
    \/ ManagerRestarts \/ GivesUp \/ JobEnds \/ Tick \/ ClockSteps

Spec == Init /\ [][Next]_vars

(* Time passes, curl's timeout ends it, and systemd starts the unit again. *)
(* Nothing makes GitHub answer.                                            *)
Fairness ==
    /\ WF_vars(Tick) /\ WF_vars(GivesUp)
    /\ WF_vars(\E t \in Task : PrestartAsks(t))

FairSpec == Spec /\ Fairness

-----------------------------------------------------------------------------
\* Every variable keeps to the values the code gives it, and a prestart that
\* waits for an answer has one handler at work for it.
TypeOK ==
    /\ ahead \in Clock /\ west \in Zone
    /\ instToken \in 0..Life /\ instExp \in Nat
    /\ pc \in [Task -> {"free", "renew", "call"}] /\ held \in [Task -> 0..Life]
    /\ wait \in [Task -> 0..Lag] /\ age \in [Task -> 0..(Margin + 1)]
    /\ client \in {"off", "waits", "served"} /\ spent \in Nat
    /\ asked \in Task \union {None}
    /\ client = "waits" <=> asked # None
    /\ asked # None => pc[asked] # "free"

\* A token that GitHub no longer takes is in use only by a call, such as a list
\* of many pages, that has had it for longer than the margin: renewals that
\* overlap, answers that are late and steps of the clock hand out no other
\* ("renewed ~5 min before expiry", github.py).
RenewedInTime == \A t \in Task : pc[t] = "call" /\ age[t] <= Margin => held[t] > 0

\* The same of a call that has its token for no longer than the margin less d,
\* by which a late clock, or a zone just west of UTC, eats into the margin.
RenewedWithin(d) == \A t \in Task : pc[t] = "call" /\ age[t] + d <= Margin => held[t] > 0

\* How much longer than it lives the manager takes a token to live: by what its
\* zone is west of UTC, and not at all elsewhere (_installation_token).
Excess(w) == AtLeastZero(w)
TrustIsBounded == instExp <= instToken + Excess(west)

\* The zone, and the clock, leave a token that took its time in the cache for
\* as long as it takes prestart to give up, to start anew and to find a handler.
StaysCached == Life - Latency + west > Margin + ahead + Patience + Pause + Latency

\* From some time on GitHub ends what a handler asks of it in time, renews the
\* token and answers the slot; the zone and the clock are right enough for
\* it, and the manager is not restarted.
Fails(t) == RenewFails(t) \/ (asked = t /\ held[t] > 0 /\ CallFails(t))
Settles ==
    /\ <>[][~(ManagerRestarts \/ \E t \in Task : Fails(t))]_vars
    /\ <>[](\A t \in Task : wait[t] <= Latency)
    /\ <>[](ahead <= Slack /\ StaysCached)

\* Then a slot that asks for a registration token has one in the end.  Renewal
\* and call together may outlast prestart's patience, and the slot asks again;
\* what saves it is that the renewal of a request that was given up stays
\* cached.  In a zone an hour east of UTC it does not: StaysCached fails there
\* (slot_token, agent_registration_token, _installation_token).
PrestartIsServed == Settles => (client = "waits" ~> client = "served")
=============================================================================
