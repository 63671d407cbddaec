----------------------------- MODULE Monitoring -----------------------------
(***************************************************************************)
(* The health engine (internal/monitoring/engine.go): one goroutine lists  *)
(* the servers, then polls and judges each with the status it had in the   *)
(* list, marks servers offline or active and calls MigrateServer, while    *)
(* administrators set statuses, nodes fail and recover, and clients come   *)
(* and go at any time.  MigrateServer takes one step for each subscription *)
(* here; VpnLifecycle has the steps of one.                                *)
(***************************************************************************)
EXTENDS Integers, FiniteSets

CONSTANTS
  Servers,   \* servers of one country
  Subs,      \* subscriptions that may ever be created
  Room,      \* how many of them a server can take: the addresses of its subnet,
             \* none if it lacks a parameter of their protocol
  Reports,   \* what a node may report: [xrayUp, blocked, cpuHigh, memHigh]
  Down,      \* a node that does not answer
  MaxErrors, \* bound: database errors that the engine only logs or ignores
  Settable,  \* bound: statuses that administrators set
  NoServer

Statuses == {"active", "drain", "offline", "archived"}

ASSUME MonitoringAssumption ==
  /\ Reports \subseteq [xrayUp : BOOLEAN, blocked : Nat, cpuHigh : BOOLEAN, memHigh : BOOLEAN]
  /\ Down \notin Reports
  /\ NoServer \notin Servers /\ MaxErrors \in Nat
  /\ Room \in [Servers -> Nat] /\ Settable \subseteq Statuses

VARIABLES
  status,     \* servers.status
  condition,  \* what polling each node would find
  home,       \* subscriptions.server_id of those that are not deleted
  expired,    \* those of them whose time is over; the others are active
  place,      \* the engine's place
  listed,     \* the sweep's servers still to check, with the status they had
  current,    \* the server being checked
  poll,       \* what its poll found
  todo,       \* the subscriptions that MigrateServer has listed and not seen yet
  errors,
  outdated,   \* history: current's status or condition has changed since it was read
  changes,    \* history: changes by the engine since the last one by another
  marked      \* history: servers whose status is the 'offline' the engine gave

engine == <<place, listed, current, poll, todo>>
hist   == <<outdated, changes, marked>>
clients == <<home, expired>>
engineVars == <<status, condition, clients, engine, errors, hist>>

\* Type invariant.
EngineTypeOK ==
  /\ status \in [Servers -> Statuses]
  /\ condition \in [Servers -> Reports \cup {Down}]
  /\ home \in [Subs -> Servers \cup {NoServer}]
  /\ expired \subseteq {s \in Subs : home[s] # NoServer} /\ todo \subseteq Subs
  /\ place \in {"rest", "sweeping", "polled", "listing", "migrating"}
  /\ listed \in [Servers -> Statuses \cup {"no"}]
  /\ current \in Servers \cup {NoServer}
  /\ poll \in Reports \cup {Down} /\ errors \in 0 .. MaxErrors
  /\ outdated \in BOOLEAN
  /\ changes \in [Servers -> Nat] /\ marked \subseteq Servers
  /\ place \in {"polled", "listing", "migrating"} <=> current # NoServer
  /\ todo # {} => place = "migrating"
  /\ current # NoServer => listed[current] \notin {"no", "archived"}

EngineInit ==
  /\ status = [v \in Servers |-> "active"]
  /\ condition \in [Servers -> Reports \cup {Down}]
  /\ home = [s \in Subs |-> NoServer] /\ expired = {} /\ todo = {}
  /\ place = "rest" /\ listed = [v \in Servers |-> "no"]
  /\ current = NoServer /\ poll = Down /\ errors = 0
  /\ outdated = FALSE
  /\ changes = [v \in Servers |-> 0] /\ marked = {}

----------------------------------------------------------------------------
(* scoreHealth, in percent.                                                 *)

Floor(n) == IF n > 0 THEN n ELSE 0

Score(r) ==
  Floor(100 - (IF r.xrayUp THEN 0 ELSE 40) - 15 * r.blocked
            - (IF r.cpuHigh THEN 20 ELSE 0) - (IF r.memHigh THEN 15 ELSE 0))

Unreachable(r) == r = Down
Blocked(r) == ~Unreachable(r) /\ r.blocked >= 2

\* A mistake: the score alone decides, and two blocked targets still score 70.
Healthy_ByScore(r) == ~Unreachable(r) /\ Score(r) >= 60
Healthy(r) == ~Unreachable(r) /\ ~Blocked(r) /\ Score(r) >= 60

\* The test of the status the sweep listed.
Migrates(v) == listed[v] = "active"

----------------------------------------------------------------------------
(* The engine.                                                              *)

DatabaseFails == errors < MaxErrors /\ errors' = errors + 1

\* The list of the servers, or none if the query fails.
Sweep ==
  /\ place = "rest"
  /\ \/ /\ listed' = [v \in Servers |-> IF status[v] = "archived" THEN "no" ELSE status[v]]
        /\ UNCHANGED errors
     \/ DatabaseFails /\ UNCHANGED listed
  /\ place' = "sweeping"
  /\ UNCHANGED <<status, condition, clients, current, poll, todo, hist>>

\* check begins: the server that comes first in the list, and its report.
Poll(v) ==
  /\ place = "sweeping" /\ listed[v] # "no"
  /\ place' = "polled" /\ current' = v /\ poll' = condition[v]
  /\ outdated' = (listed[v] # status[v])
  /\ UNCHANGED <<status, condition, clients, listed, todo, errors, changes, marked>>

\* UPDATE servers SET status = s WHERE status <> s; an error is ignored.
MarkStatus(v, s) ==
  \/ /\ status' = [status EXCEPT ![v] = s]
     /\ changes' = IF status[v] = s \/ outdated THEN changes
                   ELSE [changes EXCEPT ![v] = @ + 1]
     /\ marked' = IF s = "active" THEN marked \ {v}
                  ELSE IF status[v] = s THEN marked ELSE marked \cup {v}
     /\ UNCHANGED errors
  \/ DatabaseFails /\ UNCHANGED <<status, changes, marked>>

CheckEnds ==
  /\ place' = "sweeping" /\ listed' = [listed EXCEPT ![current] = "no"]
  /\ current' = NoServer /\ poll' = Down /\ outdated' = FALSE

\* A mistake: an unreachable node keeps its status.
GiveUp_BlockedOnly ==
  /\ place = "polled" /\ (Unreachable(poll) \/ Blocked(poll))
  /\ IF Blocked(poll) THEN MarkStatus(current, "offline")
                      ELSE UNCHANGED <<status, changes, marked, errors>>
  /\ IF Blocked(poll) /\ Migrates(current)
     THEN place' = "listing" /\ UNCHANGED <<listed, current, poll, outdated>>
     ELSE CheckEnds
  /\ UNCHANGED <<condition, clients, todo>>

\* The node is unreachable, or blocked: offline, and migrate if it was active.
GiveUp ==
  /\ place = "polled" /\ (Unreachable(poll) \/ Blocked(poll))
  /\ MarkStatus(current, "offline")
  /\ IF Migrates(current)
     THEN place' = "listing" /\ UNCHANGED <<listed, current, poll, outdated>>
     ELSE CheckEnds
  /\ UNCHANGED <<condition, clients, todo>>

Recover ==
  /\ place = "polled" /\ Healthy(poll) /\ listed[current] = "offline"
  /\ MarkStatus(current, "active")
  /\ CheckEnds
  /\ UNCHANGED <<condition, clients, todo>>

LeaveAsItIs ==
  /\ place = "polled" /\ ~Unreachable(poll) /\ ~Blocked(poll)
  /\ ~(Healthy(poll) /\ listed[current] = "offline")
  /\ CheckEnds
  /\ UNCHANGED <<status, condition, clients, todo, errors, changes, marked>>

\* MigrateServer returns at once if the query fails, and the engine logs it.
ActiveSubsOnServer ==
  /\ place = "listing"
  /\ \/ todo' = {s \in Subs \ expired : home[s] = current} /\ UNCHANGED errors
     \/ DatabaseFails /\ UNCHANGED todo
  /\ place' = "migrating"
  /\ UNCHANGED <<status, condition, clients, listed, current, poll, hist>>

Reserves(v) == {w \in Servers \ {v} : status[w] = "active"}

\* The server has an address left, and its node answers.
Accepts(w) ==
  Cardinality({s \in Subs : home[s] = w}) < Room[w] /\ condition[w] # Down

\* One subscription is issued again on a reserve, whatever has become of it since
\* it was listed; or it is skipped: there is no reserve, the one that is chosen
\* does not take it, or the database fails.
MigrateSub(s) ==
  /\ place = "migrating" /\ s \in todo
  /\ todo' = todo \ {s}
  /\ \/ /\ \E w \in Reserves(current) : Accepts(w) /\ home' = [home EXCEPT ![s] = w]
        /\ expired' = expired \ {s}
        /\ UNCHANGED errors
     \/ /\ Reserves(current) = {} \/ \E w \in Reserves(current) : ~ Accepts(w)
        /\ UNCHANGED <<clients, errors>>
     \/ DatabaseFails /\ UNCHANGED clients
  /\ UNCHANGED <<status, condition, place, listed, current, poll, hist>>

MigrationEnds ==
  /\ place = "migrating" /\ todo = {}
  /\ CheckEnds
  /\ UNCHANGED <<status, condition, clients, todo, errors, changes, marked>>

SweepEnds ==
  /\ place = "sweeping" /\ \A v \in Servers : listed[v] = "no"
  /\ place' = "rest"
  /\ UNCHANGED <<status, condition, clients, listed, current, poll, todo, errors, hist>>

Engine ==
  \/ Sweep \/ SweepEnds \/ GiveUp \/ Recover \/ LeaveAsItIs
  \/ ActiveSubsOnServer \/ MigrationEnds
  \/ \E v \in Servers : Poll(v)
  \/ \E s \in Subs : MigrateSub(s)

----------------------------------------------------------------------------
(* Everybody else.                                                          *)

Touched(v) ==
  /\ changes' = [changes EXCEPT ![v] = 0]
  /\ outdated' = (outdated \/ v = current)

SetServerStatus(v, s) ==
  /\ s # status[v]
  /\ status' = [status EXCEPT ![v] = s]
  /\ marked' = marked \ {v}
  /\ Touched(v)
  /\ UNCHANGED <<condition, clients, engine, errors>>

NodeChanges(v, r) ==
  /\ r # condition[v]
  /\ condition' = [condition EXCEPT ![v] = r]
  /\ Touched(v)
  /\ UNCHANGED <<status, clients, engine, errors, marked>>

\* A subscription is created on an active server that takes it (chosen and
\* stored in one step here; VpnLifecycle takes them apart).
ClientArrives(s, v) ==
  /\ home[s] = NoServer /\ status[v] = "active" /\ Accepts(v)
  /\ home' = [home EXCEPT ![s] = v]
  /\ UNCHANGED <<status, condition, expired, engine, errors, hist>>

ClientLeaves(s) ==
  /\ home[s] # NoServer
  /\ home' = [home EXCEPT ![s] = NoServer] /\ expired' = expired \ {s}
  /\ UNCHANGED <<status, condition, engine, errors, hist>>

\* A subscription expires, and keeps its place on its server, or is renewed there.
ClientPauses(s) ==
  /\ home[s] # NoServer
  /\ expired' = IF s \in expired THEN expired \ {s} ELSE expired \cup {s}
  /\ UNCHANGED <<status, condition, home, engine, errors, hist>>

EngineNext ==
  \/ Engine
  \/ \E v \in Servers : \/ \E s \in Settable : SetServerStatus(v, s)
                        \/ \E r \in Reports \cup {Down} : NodeChanges(v, r)
                        \/ \E s \in Subs : ClientArrives(s, v)
  \/ \E s \in Subs : ClientLeaves(s) \/ ClientPauses(s)

EngineSpec == EngineInit /\ [][EngineNext]_engineVars

\* The engine's goroutine runs, and reaches every server of its list.
FairSpec == EngineSpec /\ WF_engineVars(Engine)

----------------------------------------------------------------------------
(* Properties.                                                              *)

\* As long as a node's condition stays what it is and nobody else sets its
\* status, the engine changes the status once at most: it does not flap, not
\* even where the score and the count of blocked targets disagree.  A change
\* that rests on a report or a listing that was overtaken is not counted.
DoesNotFlap == \A v \in Servers : changes[v] <= 1

Bad(v) == Unreachable(condition[v]) \/ Blocked(condition[v])

InUse(s, v) == home[s] = v /\ s \notin expired

\* While it is on server v, every server that may be chosen for it takes it.
HasReserve(s, v) ==
  home[s] = v => Reserves(v) # {} /\ \A w \in Reserves(v) : Accepts(w)

\* No subscription in use stays for ever on a server whose node stays unreachable
\* or blocked and that sweeps find active again and again.  However often the
\* reserve was full, down or missing before, or queries failed -- MigrateServer
\* passes over each in silence -- a sweep moves it once the reserve takes it
\* (check, migrate, MigrateServer).
BadIsDrained ==
  \A s \in Subs, v \in Servers :
    <>[](Bad(v) /\ HasReserve(s, v)) /\ []<>(listed[v] = "active") => []<>(~ InUse(s, v))

----------------------------------------------------------------------------
(* Stronger statements that the code does not meet.                         *)

\* engine.go:143 "Healthy again -> recover a server that was previously
\* auto-marked offline."  The engine makes no server active but those it has
\* itself taken offline.
OnlyAutoMarkedRecovered ==
  [][\A v \in Servers :
       place = "polled" /\ status[v] # "active" /\ status'[v] = "active" /\ Engine
         => v \in marked]_engineVars

\* engine.go:110 "Node unreachable -> offline; migrate its clients to a
\* reserve."  No client stays for ever on a server whose node stays unreachable,
\* while a reserve can take it.
UnreachableIsEvacuated ==
  \A s \in Subs, v \in Servers :
    <>[](Unreachable(condition[v]) /\ HasReserve(s, v)) => []<>(~ InUse(s, v))
=============================================================================
