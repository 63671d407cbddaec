---------------------------- MODULE VpnLifecycle ----------------------------
(***************************************************************************)
(* The life of VPN subscriptions across the database, the VPN nodes and    *)
(* the object store (internal/vpn/service.go and repository.go, with the   *)
(* node agent and the servers' status as they are used from there).        *)
(*                                                                         *)
(* Every time a configuration is issued -- by Create, or by MigrateServer  *)
(* for a subscription whose server failed -- new key material is           *)
(* generated, put on a node, stored, and only then recorded.  One such     *)
(* attempt is a key <<s, n>>: n = 1 is the Create that makes subscription  *)
(* s, the others are migrations, in the order they are started.  The phase *)
(* of a key is the place its attempt has reached and, once it is recorded, *)
(* the status of its row in vpn_keys.                                      *)
(*                                                                         *)
(* Requests run concurrently; migrations are run one after the other by    *)
(* the monitoring engine's single goroutine.                               *)
(***************************************************************************)
EXTENDS Integers, FiniteSets

CONSTANTS
  Subs,           \* subscriptions that may ever be created
  WireGuard,      \* those using WireGuard; the others are Xray clients
  Servers,        \* the servers of one country
  Reserve,        \* servers.reserve: kept for migrations
  IPs,            \* host addresses of a subnet, as offsets
  Last,           \* the last of them that each server's subnet has
  MaxMigrations,  \* bound: runs of MigrateServer
  MaxFaults,      \* bound: calls that fail for an outside reason
  NoKey, NoServer

ASSUME ConstantsAssumption ==
  /\ WireGuard \subseteq Subs /\ Reserve \subseteq Servers
  /\ IPs \subseteq Nat /\ 0 \notin IPs /\ Last \in [Servers -> Nat]
  /\ MaxMigrations \in Nat /\ MaxFaults \in Nat
  /\ NoServer \notin Servers

Keys == Subs \X (1 .. MaxMigrations + 1)

ASSUME NoKeyAssumption == NoKey \notin Keys

VARIABLES
  status,      \* subscriptions.status, "none" before the row exists
  home,        \* subscriptions.server_id
  phase,       \* attempt's place, then vpn_keys.status
  on,          \* the server an attempt is for
  ip,          \* its address on that server, 0 while or when it has none
  up,          \* servers whose status is 'active'
  count,       \* servers.client_count
  peers,       \* the keys each node accepts
  route,       \* the key each node sends an address's traffic to
  late,        \* additions given up by the caller that a node may still make
  objects,     \* configurations in the object store, by key
  del,         \* each Delete, by the key that was the latest when it began
  migFrom, migTodo, migKey, migOld, migPc,   \* the locals of MigrateServer
  migrations, faults,
  revived, raced,   \* history: deleted subscriptions that a migration brought
                    \* back, keys that raced for an address
  skipped,     \* history: subscriptions the last migration gave up, or did not
               \* list: expired, not yet recorded, or the listing failed
  given        \* history: the server it was for, until that comes up again

rows   == <<status, home, count>>
nodes  == <<peers, route, late>>
mig    == <<migFrom, migTodo, migKey, migOld, migPc, migrations>>
hist   == <<revived, raced, skipped, given>>
vars   == <<rows, phase, on, ip, up, nodes, objects, del, mig, faults, hist>>

Owner(k) == k[1]
KeysOf(s) == {k \in Keys : Owner(k) = s}

Live(s) == status[s] \in {"active", "expired"}

Recorded == {k \in Keys : phase[k] \in {"active", "revoked"}}
ActiveOn(v) == {k \in Keys : phase[k] = "active" /\ on[k] = v}
InFlight == {k \in Keys : phase[k] \in {"addressed", "provisioned", "stored"}}
Underway(k) == phase[k] = "selected" \/ k \in InFlight

\* The key of a subscription's latest configuration.
Latest(s) == CHOOSE k \in KeysOf(s) \cap Recorded :
               \A j \in KeysOf(s) \cap Recorded : j[2] <= k[2]

----------------------------------------------------------------------------
Init ==
  /\ status = [s \in Subs |-> "none"] /\ home = [s \in Subs |-> NoServer]
  /\ phase = [k \in Keys |-> "unused"]
  /\ on = [k \in Keys |-> NoServer] /\ ip = [k \in Keys |-> 0]
  /\ up = Servers /\ count = [v \in Servers |-> 0]
  /\ peers = [v \in Servers |-> {}]
  /\ route = [v \in Servers |-> [a \in IPs |-> NoKey]]
  /\ late = {} /\ objects = {}
  /\ del = [k \in Keys |-> [pc |-> "idle", srv |-> NoServer, key |-> NoKey, objs |-> {}]]
  /\ migFrom = NoServer /\ migTodo = {} /\ migKey = NoKey /\ migOld = NoKey
  /\ migPc = "idle" /\ migrations = 0 /\ faults = 0
  /\ revived = {} /\ raced = {} /\ skipped = {} /\ given = NoServer

\* A call fails for a reason outside the program: the database, the object
\* store or the network.
Fault == faults < MaxFaults /\ faults' = faults + 1

----------------------------------------------------------------------------
(* Choosing a server: ORDER BY reserve, priority, client_count LIMIT 1, for  *)
(* servers of one priority.                                                 *)

Preferred(cands, first) ==
  LET class == IF cands \cap first # {} THEN cands \cap first ELSE cands
  IN {v \in class : \A w \in class : count[v] <= count[w]}

\* Mutant: the status of the server is not tested.
SelectServer_AnyStatus(s) ==
  LET k == <<s, 1>> IN
  /\ phase[k] = "unused"
  /\ \E v \in Preferred(Servers, Servers \ Reserve) : on' = [on EXCEPT ![k] = v]
  /\ phase' = [phase EXCEPT ![k] = "selected"]
  /\ UNCHANGED <<rows, ip, up, nodes, objects, del, mig, faults, hist>>

SelectServer(s) ==
  LET k == <<s, 1>> IN
  /\ phase[k] = "unused"
  /\ \E v \in Preferred(up, Servers \ Reserve) : on' = [on EXCEPT ![k] = v]
  /\ phase' = [phase EXCEPT ![k] = "selected"]
  /\ UNCHANGED <<rows, ip, up, nodes, objects, del, mig, faults, hist>>

----------------------------------------------------------------------------
(* An attempt, whoever runs it.  Failed(k) is how it is given up: Create    *)
(* returns the error, MigrateServer goes on with its next subscription.     *)

\* Create owns the first key of a subscription; a later one is the attempt
\* MigrateServer is busy with.
Running(k) == k[2] = 1 \/ (migPc = "attempt" /\ migKey = k)

\* Mutant: a migration returns at its first failure.
Failed_Returns(k) ==
  /\ phase' = [phase EXCEPT ![k] = "failed"]
  /\ IF k[2] = 1
     THEN UNCHANGED <<migPc, migKey, migOld, skipped, migFrom, migTodo>>
     ELSE /\ migPc' = "idle" /\ migKey' = NoKey /\ migOld' = NoKey
          /\ migFrom' = NoServer /\ migTodo' = {}
          /\ skipped' = skipped \cup {Owner(k)}
  /\ UNCHANGED <<rows, on, up, del, migrations, revived, raced, given>>

Failed(k) ==
  /\ phase' = [phase EXCEPT ![k] = "failed"]
  /\ IF k[2] = 1
     THEN UNCHANGED <<migPc, migKey, migOld, skipped>>
     ELSE /\ migPc' = "loop" /\ migKey' = NoKey /\ migOld' = NoKey
          /\ skipped' = skipped \cup {Owner(k)}
  /\ UNCHANGED <<rows, on, up, del, migFrom, migTodo, migrations, revived, raced, given>>

Hosts(v) == {a \in IPs : a <= Last[v]}

\* Mutant: the addresses of revoked keys instead of those of active ones.
Free_Revoked(v) == Hosts(v) \ {ip[k] : k \in {j \in Keys : phase[j] = "revoked" /\ on[j] = v}}

\* ListUsedIPs and allocateWireGuardIP: the lowest address no active key of
\* that server has.
Free(v) == Hosts(v) \ {ip[k] : k \in ActiveOn(v)}

Lowest(S) == CHOOSE a \in S : \A b \in S : a <= b

Contenders(k, a) ==
  {j \in (InFlight \cup late) \ {k} : on[j] = on[k] /\ ip[j] = a}

Allocate(k) ==
  /\ Running(k) /\ phase[k] = "selected"
  /\ IF Owner(k) \in WireGuard
     THEN /\ Free(on[k]) # {}
          /\ LET a == Lowest(Free(on[k])) IN
             /\ ip' = [ip EXCEPT ![k] = a]
             /\ raced' = raced \cup Contenders(k, a)
                           \cup (IF Contenders(k, a) # {} THEN {k} ELSE {})
     ELSE UNCHANGED <<ip, raced>>
  /\ phase' = [phase EXCEPT ![k] = "addressed"]
  /\ UNCHANGED <<rows, on, up, nodes, objects, del, mig, faults, revived, skipped, given>>

\* generate gives up: the subnet is full, or the query of the addresses fails,
\* or the server lacks a parameter of an Xray protocol that its choice does not
\* test (the SNI, the Shadowsocks method).
GenerateFails(k) ==
  /\ Running(k) /\ phase[k] = "selected"
  /\ \/ (Owner(k) \in WireGuard => Free(on[k]) = {}) /\ UNCHANGED faults
     \/ Fault
  /\ Failed(k)
  /\ UNCHANGED <<ip, nodes, objects>>

\* The node's part of an addition: an address belongs to the peer it was
\* given to last.
AddPeer(k) ==
  /\ peers' = [peers EXCEPT ![on[k]] = @ \cup {k}]
  /\ route' = IF ip[k] = 0 THEN route
              ELSE [route EXCEPT ![on[k]][ip[k]] = k]

Provision(k) ==
  /\ Running(k) /\ phase[k] = "addressed"
  /\ AddPeer(k)
  /\ phase' = [phase EXCEPT ![k] = "provisioned"]
  /\ UNCHANGED <<rows, on, ip, up, late, objects, del, mig, faults, hist>>

\* Mutant: the agent's error is logged and the attempt goes on.
ProvisionFails_Ignored(k) ==
  /\ Running(k) /\ phase[k] = "addressed"
  /\ Fault
  /\ phase' = [phase EXCEPT ![k] = "provisioned"]
  /\ UNCHANGED <<rows, on, ip, up, nodes, objects, del, mig, hist>>

\* The call to the agent returns an error or times out: the node has not
\* taken the peer, has taken it already, or will.
ProvisionFails(k) ==
  /\ Running(k) /\ phase[k] = "addressed"
  /\ Fault
  /\ \/ UNCHANGED nodes
     \/ AddPeer(k) /\ UNCHANGED late
     \/ late' = late \cup {k} /\ UNCHANGED <<peers, route>>
  /\ Failed(k)
  /\ UNCHANGED <<ip, objects>>

LateAddition(k) ==
  /\ k \in late
  /\ late' = late \ {k}
  /\ AddPeer(k)
  /\ UNCHANGED <<rows, phase, on, ip, up, objects, del, mig, faults, hist>>

StoreConfig(k) ==
  /\ Running(k) /\ phase[k] = "provisioned"
  /\ phase' = [phase EXCEPT ![k] = "stored"]
  /\ objects' = objects \cup {k}
  /\ UNCHANGED <<rows, on, ip, up, nodes, del, mig, faults, hist>>

\* The configuration or, after it, its QR code cannot be stored.
StoreFails(k) ==
  /\ Running(k) /\ phase[k] = "provisioned"
  /\ Fault
  /\ objects' \in {objects, objects \cup {k}}
  /\ Failed(k)
  /\ UNCHANGED <<ip, nodes>>

\* The unique index on the addresses of a server's active keys, but for those
\* keys the transaction has itself revoked.
AddressTaken(k, revoking) ==
  ip[k] # 0 /\ \E j \in ActiveOn(on[k]) \ revoking : ip[j] = ip[k]

Persist(k) ==
  /\ Running(k) /\ k[2] = 1 /\ phase[k] = "stored"
  /\ ~ AddressTaken(k, {})
  /\ phase' = [phase EXCEPT ![k] = "active"]
  /\ status' = [status EXCEPT ![Owner(k)] = "active"]
  /\ home' = [home EXCEPT ![Owner(k)] = on[k]]
  /\ count' = [count EXCEPT ![on[k]] = @ + 1]
  /\ UNCHANGED <<on, ip, up, nodes, objects, del, mig, faults, hist>>

\* The transaction of Persist or of Reassign is rolled back: the address is
\* taken, the database fails, or it is the victim of a deadlock with SoftDelete.
NotRecorded(k) ==
  /\ Running(k) /\ phase[k] = "stored"
  /\ \/ AddressTaken(k, IF k[2] = 1 THEN {} ELSE KeysOf(Owner(k))) /\ UNCHANGED faults
     \/ Fault
  /\ Failed(k)
  /\ UNCHANGED <<ip, nodes, objects>>

----------------------------------------------------------------------------
(* MigrateServer.                                                           *)

\* GREATEST(client_count - 1, 0).
Dec(n) == IF n > 0 THEN n - 1 ELSE 0

\* The engine gives a server up, whatever its status has become since the
\* engine listed it, and calls MigrateServer.
ServerFails(v) ==
  /\ migPc = "idle" /\ migrations < MaxMigrations
  /\ migPc' = "listing" /\ migFrom' = v /\ migrations' = migrations + 1
  /\ up' = up \ {v}
  /\ skipped' = {} /\ given' = v
  /\ UNCHANGED <<rows, phase, on, ip, nodes, objects, del, migTodo, migKey,
                 migOld, faults, revived, raced>>

\* Subscriptions of which no listing can know that they will be on server v.
Arriving(v) == {s \in Subs : on[<<s, 1>>] = v /\ Underway(<<s, 1>>)}

ActiveSubsOnServer ==
  /\ migPc = "listing"
  /\ migTodo' = {s \in Subs : status[s] = "active" /\ home[s] = migFrom}
  /\ skipped' = Arriving(migFrom) \cup {s \in Subs : status[s] = "expired" /\ home[s] = migFrom}
  /\ migPc' = "loop"
  /\ UNCHANGED <<rows, phase, on, ip, up, nodes, objects, del, migFrom, migKey,
                 migOld, migrations, faults, revived, raced, given>>

\* The query fails: MigrateServer returns, and everybody stays where they are.
ListingFails ==
  /\ migPc = "listing" /\ Fault
  /\ skipped' = Arriving(migFrom) \cup {s \in Subs : Live(s) /\ home[s] = migFrom}
  /\ migPc' = "idle" /\ migFrom' = NoServer
  /\ UNCHANGED <<rows, phase, on, ip, up, nodes, objects, del, migTodo, migKey,
                 migOld, migrations, revived, raced, given>>

\* The first key of s no attempt has used yet.
FreshKey(s) == <<s, Lowest({n \in 1 .. MaxMigrations + 1 : phase[<<s, n>>] = "unused"})>>

SelectReserveServer(s) ==
  LET k == FreshKey(s) IN
  /\ migPc = "loop" /\ s \in migTodo
  /\ \E v \in Preferred(up \ {migFrom}, Reserve) : on' = [on EXCEPT ![k] = v]
  /\ migTodo' = migTodo \ {s}
  /\ phase' = [phase EXCEPT ![k] = "selected"]
  /\ migKey' = k /\ migPc' = "oldkey"
  /\ UNCHANGED <<rows, ip, up, nodes, objects, del, migFrom, migOld, migrations,
                 faults, hist>>

\* No server, or an error of the query.
NoReserveServer(s) ==
  /\ migPc = "loop" /\ s \in migTodo
  /\ (up \ {migFrom} = {} /\ UNCHANGED faults) \/ Fault
  /\ migTodo' = migTodo \ {s} /\ skipped' = skipped \cup {s}
  /\ UNCHANGED <<rows, phase, on, ip, up, nodes, objects, del, migFrom, migKey,
                 migOld, migPc, migrations, revived, raced, given>>

OldKeyForSub ==
  /\ migPc = "oldkey"
  /\ \E k \in KeysOf(Owner(migKey)) \cup {NoKey} :
       /\ IF k = NoKey
          THEN \A j \in KeysOf(Owner(migKey)) : phase[j] # "active"
          ELSE phase[k] = "active"
       /\ migOld' = k
  /\ migPc' = "attempt"
  /\ UNCHANGED <<rows, phase, on, ip, up, nodes, objects, del, migFrom, migTodo,
                 migKey, migrations, faults, hist>>

\* Mutant: the earlier keys are left active.
Reassign_RevokesNothing(k) ==
  LET s == Owner(k) IN
  /\ Running(k) /\ k[2] > 1 /\ phase[k] = "stored"
  /\ ~ AddressTaken(k, {})
  /\ phase' = [phase EXCEPT ![k] = "active"]
  /\ status' = [status EXCEPT ![s] = "active"]
  /\ home' = [home EXCEPT ![s] = on[k]]
  /\ count' = [count EXCEPT ![on[k]] = @ + 1, ![migFrom] = Dec(@)]
  /\ revived' = IF status[s] = "deleted" THEN revived \cup {s} ELSE revived
  /\ migPc' = "reassigned"
  /\ UNCHANGED <<on, ip, up, nodes, objects, del, migFrom, migTodo, migKey, migOld,
                 migrations, faults, raced, skipped, given>>

\* One transaction; it does not look at the status the subscription has now.
Reassign(k) ==
  LET s == Owner(k) IN
  /\ Running(k) /\ k[2] > 1 /\ phase[k] = "stored"
  /\ ~ AddressTaken(k, KeysOf(s))
  /\ phase' = [j \in Keys |-> IF j = k THEN "active"
                              ELSE IF Owner(j) = s /\ phase[j] = "active" THEN "revoked"
                              ELSE phase[j]]
  /\ status' = [status EXCEPT ![s] = "active"]
  /\ home' = [home EXCEPT ![s] = on[k]]
  /\ count' = [count EXCEPT ![on[k]] = @ + 1, ![migFrom] = Dec(@)]
  /\ revived' = IF status[s] = "deleted" THEN revived \cup {s} ELSE revived
  /\ migPc' = "reassigned"
  /\ UNCHANGED <<on, ip, up, nodes, objects, del, migFrom, migTodo, migKey, migOld,
                 migrations, faults, raced, skipped, given>>

\* The node's part of a removal.
DropPeer(v, k) ==
  /\ peers' = [peers EXCEPT ![v] = @ \ {k}]
  /\ route' = [route EXCEPT ![v] = [a \in IPs |-> IF @[a] = k THEN NoKey ELSE @[a]]]

DeprovisionOld ==
  /\ migPc = "reassigned"
  /\ \/ migOld # NoKey /\ DropPeer(migFrom, migOld) /\ UNCHANGED faults
     \/ migOld = NoKey /\ UNCHANGED <<peers, route, faults>>
     \/ Fault /\ UNCHANGED <<peers, route>>
  /\ migPc' = "loop" /\ migKey' = NoKey /\ migOld' = NoKey
  /\ UNCHANGED <<rows, phase, on, ip, up, late, objects, del, migFrom, migTodo,
                 migrations, hist>>

MigrationEnds ==
  /\ migPc = "loop" /\ migTodo = {}
  /\ migPc' = "idle" /\ migFrom' = NoServer /\ migOld' = NoKey
  /\ UNCHANGED <<rows, phase, on, ip, up, nodes, objects, del, migTodo, migKey,
                 migrations, faults, hist>>

----------------------------------------------------------------------------
(* Delete.                                                                  *)

\* Mutant: the status is not tested, so that a second Delete counts again.
SoftDelete_Again(s) ==
  /\ status[s] # "none" /\ del[Latest(s)].pc \notin {"remove", "purge"}
  /\ \E k \in KeysOf(s) \cap Recorded :
       del' = [del EXCEPT ![Latest(s)] = [pc |-> "remove", srv |-> home[s], key |-> k,
                                          objs |-> KeysOf(s) \cap Recorded]]
  /\ phase' = [k \in Keys |-> IF Owner(k) = s /\ phase[k] = "active"
                              THEN "revoked" ELSE phase[k]]
  /\ status' = [status EXCEPT ![s] = "deleted"]
  /\ count' = [count EXCEPT ![home[s]] = Dec(@)]
  /\ UNCHANGED <<home, on, ip, up, nodes, objects, mig, faults, hist>>

\* The key it will take off the node is the first, or for an Xray protocol the
\* last, of the subscription's rows, which the query does not order.
SoftDelete(s) ==
  /\ status[s] \in {"active", "expired"}
  /\ \E k \in KeysOf(s) \cap Recorded :
       del' = [del EXCEPT ![Latest(s)] = [pc |-> "remove", srv |-> home[s], key |-> k,
                                          objs |-> KeysOf(s) \cap Recorded]]
  /\ phase' = [k \in Keys |-> IF Owner(k) = s /\ phase[k] = "active"
                              THEN "revoked" ELSE phase[k]]
  /\ status' = [status EXCEPT ![s] = "deleted"]
  /\ count' = [count EXCEPT ![home[s]] = Dec(@)]
  /\ UNCHANGED <<home, on, ip, up, nodes, objects, mig, faults, hist>>

\* Mutant: a node whose server is not active is not called.
RemovePeer_OnlyActive(d) ==
  /\ del[d].pc = "remove"
  /\ \/ del[d].srv \in up /\ DropPeer(del[d].srv, del[d].key) /\ UNCHANGED faults
     \/ del[d].srv \notin up /\ UNCHANGED <<peers, route, faults>>
     \/ Fault /\ UNCHANGED <<peers, route>>
  /\ del' = [del EXCEPT ![d].pc = "purge", ![d].srv = NoServer, ![d].key = NoKey]
  /\ UNCHANGED <<rows, phase, on, ip, up, late, objects, mig, hist>>

\* An error of the node is logged and the deletion goes on.
RemovePeer(d) ==
  /\ del[d].pc = "remove"
  /\ \/ DropPeer(del[d].srv, del[d].key) /\ UNCHANGED faults
     \/ Fault /\ UNCHANGED <<peers, route>>
  /\ del' = [del EXCEPT ![d].pc = "purge", ![d].srv = NoServer, ![d].key = NoKey]
  /\ UNCHANGED <<rows, phase, on, ip, up, late, objects, mig, hist>>

\* Mutant: the objects are looked up again instead of kept from SoftDelete.
PurgeObjects_LookedUp(d) ==
  /\ del[d].pc = "purge"
  /\ objects' = objects \ KeysOf(Owner(d))
  /\ del' = [del EXCEPT ![d].pc = "done", ![d].objs = {}]
  /\ UNCHANGED <<rows, phase, on, ip, up, nodes, mig, faults, hist>>

\* The objects of the configurations SoftDelete saw.
PurgeObjects(d) ==
  /\ del[d].pc = "purge"
  /\ \/ objects' = objects \ del[d].objs /\ UNCHANGED faults
     \/ Fault /\ \E k \in del[d].objs : objects' = objects \ (del[d].objs \ {k})
  /\ del' = [del EXCEPT ![d].pc = "done", ![d].objs = {}]
  /\ UNCHANGED <<rows, phase, on, ip, up, nodes, mig, hist>>

----------------------------------------------------------------------------
(* The rest of the system, as it touches this state.                        *)

Expire(s) ==
  /\ status[s] = "active"
  /\ status' = [status EXCEPT ![s] = "expired"]
  /\ UNCHANGED <<home, count, phase, on, ip, up, nodes, objects, del, mig, faults, hist>>

ExtendSubscription(s) ==
  /\ status[s] = "expired"
  /\ status' = [status EXCEPT ![s] = "active"]
  /\ UNCHANGED <<home, count, phase, on, ip, up, nodes, objects, del, mig, faults, hist>>

\* An administrator, or the engine when a server answers again.
SetServerStatus(v) ==
  /\ up' \in {up \cup {v}, up \ {v}}
  /\ given' = IF given \in up' THEN NoServer ELSE given
  /\ UNCHANGED <<rows, phase, on, ip, nodes, objects, del, mig, faults, revived,
                 raced, skipped>>

----------------------------------------------------------------------------
Attempt(k) ==
  \/ Allocate(k) \/ GenerateFails(k) \/ Provision(k) \/ ProvisionFails(k)
  \/ StoreConfig(k) \/ StoreFails(k) \/ Persist(k) \/ Reassign(k) \/ NotRecorded(k)

Migrator ==
  \/ ActiveSubsOnServer \/ ListingFails \/ OldKeyForSub \/ DeprovisionOld \/ MigrationEnds
  \/ \E s \in Subs : SelectReserveServer(s) \/ NoReserveServer(s)
  \/ \E k \in Keys : k[2] > 1 /\ Attempt(k)

Next ==
  \/ \E s \in Subs : SelectServer(s)
  \/ \E k \in Keys : k[2] = 1 /\ Attempt(k)
  \/ \E k \in Keys : LateAddition(k)
  \/ Migrator
  \/ \E s \in Subs : SoftDelete(s)
  \/ \E d \in Keys : RemovePeer(d) \/ PurgeObjects(d)
  \/ \E s \in Subs : Expire(s) \/ ExtendSubscription(s)
  \/ \E v \in Servers : ServerFails(v) \/ SetServerStatus(v)

Spec == Init /\ [][Next]_vars

----------------------------------------------------------------------------
(* Properties.                                                              *)

CurrentKeys(s) == {k \in KeysOf(s) : phase[k] = "active"}

\* Type invariant of the three stores, the attempts and the two procedures.
TypeOK ==
  /\ status \in [Subs -> {"none", "active", "expired", "deleted"}]
  /\ home \in [Subs -> Servers \cup {NoServer}]
  /\ phase \in [Keys -> {"unused", "selected", "addressed", "provisioned",
                         "stored", "active", "revoked", "failed"}]
  /\ on \in [Keys -> Servers \cup {NoServer}] /\ ip \in [Keys -> IPs \cup {0}]
  /\ up \subseteq Servers /\ count \in [Servers -> Nat]
  /\ peers \in [Servers -> SUBSET Keys]
  /\ route \in [Servers -> [IPs -> Keys \cup {NoKey}]]
  /\ late \subseteq Keys /\ objects \subseteq Keys
  /\ del \in [Keys -> [pc : {"idle", "remove", "purge", "done"},
                       srv : Servers \cup {NoServer},
                       key : Keys \cup {NoKey}, objs : SUBSET Keys]]
  /\ migFrom \in Servers \cup {NoServer} /\ migTodo \subseteq Subs
  /\ migKey \in Keys \cup {NoKey} /\ migOld \in Keys \cup {NoKey}
  /\ migPc \in {"idle", "listing", "loop", "oldkey", "attempt", "reassigned"}
  /\ migrations \in 0 .. MaxMigrations /\ faults \in 0 .. MaxFaults
  /\ revived \subseteq Subs /\ raced \subseteq Keys /\ skipped \subseteq Subs
  /\ given \in Servers \cup {NoServer}

\* Whatever Create, Delete and MigrateServer do to a subscription at the same
\* time, one that is not deleted has exactly one active key, that of its
\* latest configuration, on its own server; a deleted one has none (the
\* updates of vpn_keys in Persist, Reassign and SoftDelete).
OneActiveKey ==
  \A s \in Subs :
    IF Live(s) THEN CurrentKeys(s) = {Latest(s)} /\ on[Latest(s)] = home[s]
               ELSE CurrentKeys(s) = {}

\* No removal of a peer still to be made -- Delete's, which is sent after its
\* transaction, or the migration's -- is for a key that is in use, so that a
\* user's node always accepts the key the user was given.
NeverCutOff ==
  /\ \A s \in Subs : Live(s) => Latest(s) \in peers[home[s]]
  /\ \A d \in Keys : del[d].pc = "remove" => phase[del[d].key] # "active"
  /\ migPc = "reassigned" /\ migOld # NoKey => phase[migOld] # "active"

\* The configuration a user can ask for (FetchConfig reads the latest one) is
\* in the object store: a purge never takes one that is still served.
ConfigServed == \A s \in Subs : Live(s) => Latest(s) \in objects

\* client_count, which chooses the server of the next client, is the number
\* of subscriptions on the server that are not deleted, as long as no
\* migration has brought a deleted subscription back.
CountsClients ==
  revived = {} => \A v \in Servers : count[v] = Cardinality({s \in Subs : Live(s) /\ home[s] = v})

\* A WireGuard user whose address the node sends elsewhere has lost it to an
\* attempt that held the same address at the same time, never for another
\* reason (a revoked key's removal, a peer left behind by a failed Create).
RouteLostOnlyToRace ==
  \A k \in Keys : phase[k] = "active" /\ ip[k] # 0 =>
    route[on[k]][ip[k]] = k \/ k \in raced

\* Delete of a subscription that was never migrated, with no call failing,
\* leaves none of its keys on a node and none of its configurations stored.
DeleteIsClean ==
  \A s \in Subs :
    del[<<s, 1>>].pc = "done" /\ faults = 0 /\ (\A k \in KeysOf(s) : k[2] > 1 => phase[k] = "unused")
      => /\ \A v \in Servers : peers[v] \cap KeysOf(s) = {}
         /\ objects \cap KeysOf(s) = {}

\* After MigrateServer a subscription in use is on the server that was given up,
\* and is not up again, only if its attempt was given up, or if it was expired
\* or still being created when ActiveSubsOnServer listed the active ones, or if
\* it was there when that listing failed: MigrateServer goes on with the others
\* it listed after one was given up, no creation that starts later ends there,
\* and no renewal of a subscription that was listed.
NobodyForgotten ==
  migPc = "idle" /\ given # NoServer =>
    \A s \in Subs : status[s] = "active" /\ home[s] = given => s \in skipped

----------------------------------------------------------------------------
(* Stronger statements that the code does not meet.                         *)

\* repository.go:97 "The server row is locked to serialise IP allocation."
\* An address given to an attempt is not given to another one while the
\* first may still be recorded.
AddressesSerialised ==
  \A j, k \in InFlight : j # k /\ on[j] = on[k] /\ ip[j] # 0 => ip[j] # ip[k]

\* service.go:310 "Delete revokes a VPN: deprovisions the node and purges
\* stored artifacts." Once Delete is done, and no call has failed, no node accepts
\* the key it revoked.
DeleteDeprovisions ==
  \A d \in Keys : del[d].pc = "done" /\ faults = 0 => d \notin peers[on[d]]

\* service.go:421 "MigrateServer re-issues every active subscription": it
\* issues nothing for one that its user has deleted.
DeletedStaysDeleted ==
  [][\A s \in Subs : status[s] = "deleted" => status'[s] = "deleted"]_vars
=============================================================================
