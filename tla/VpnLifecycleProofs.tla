------------------------- MODULE VpnLifecycleProofs -------------------------
(***************************************************************************)
(* Proofs about VpnLifecycle, for any sets of subscriptions, servers and   *)
(* addresses and any numbers of migrations and faults.                     *)
(***************************************************************************)
EXTENDS MCVpnLifecycle, FiniteSetTheorems, WellFoundedInduction, TLAPS

\* Keys are taken in order, at most one of a subscription by each migration.
KeysInOrder ==
  /\ \A k \in Keys : phase[k] # "unused" => on[k] \in Servers
  /\ \A j, k \in Keys :
       Owner(j) = Owner(k) /\ j[2] < k[2] /\ phase[k] # "unused" => phase[j] # "unused"
  /\ \A k \in Keys : k[2] > migrations + 1 => phase[k] = "unused"
  /\ \A k \in Keys :
       k[2] > migrations /\ (migPc = "listing" \/ Owner(k) \in migTodo) => phase[k] = "unused"
  /\ \A k \in late : phase[k] = "failed"

\* The migration re-issues one subscription at a time, away from the server it
\* empties; a key other than a first one is under way only in its hands.
Migrating(s) == s \in migTodo \/ (migPc \in {"oldkey", "attempt"} /\ s = Owner(migKey))

MigratorPlace ==
  /\ migPc \in {"idle", "listing"} => migTodo = {}
  /\ migPc # "idle" => migFrom \in Servers /\ migrations > 0
  /\ migPc \in {"oldkey", "attempt"} =>
       /\ migKey \in Keys /\ Underway(migKey) /\ migKey[2] > 1 /\ on[migKey] # migFrom
       /\ Owner(migKey) \notin migTodo
  /\ \A k \in Keys : k[2] > 1 /\ Underway(k) =>
       /\ migPc \in {"oldkey", "attempt"} /\ migKey = k
       /\ \A j \in KeysOf(Owner(k)) : j[2] > k[2] => phase[j] = "unused"
  /\ \A s \in Subs : Migrating(s) => status[s] # "none" /\ home[s] = migFrom

\* The key a migration or a Delete will take off its node, and the objects that
\* a Delete will purge, are of rows that are never active again.
MigratorOld ==
  migOld # NoKey =>
    /\ migPc = "attempt" =>
         migOld \in KeysOf(Owner(migKey)) /\ phase[migOld] \in {"active", "revoked"}
    /\ migPc = "reassigned" => phase[migOld] = "revoked"

DeletesOld ==
  \A d \in Keys :
    /\ del[d].pc = "remove" => del[d].key \in Keys /\ phase[del[d].key] = "revoked"
    /\ \A k \in del[d].objs : phase[k] = "revoked"

\* k is the only active key of s, on its server, and the last recorded one.
Serves(k, s) ==
  /\ phase[k] = "active" /\ on[k] = home[s]
  /\ \A j \in KeysOf(s) : j # k =>
       phase[j] # "active" /\ (phase[j] = "revoked" => j[2] < k[2])

SubsServed ==
  \A s \in Subs :
    /\ status[s] = "none" =>
         \A k \in KeysOf(s) : phase[k] \notin {"active", "revoked"} /\ (k[2] > 1 => phase[k] = "unused")
    /\ status[s] # "none" => phase[<<s, 1>>] \in {"active", "revoked"} /\ home[s] \in Servers
    /\ status[s] = "deleted" => \A k \in KeysOf(s) : phase[k] # "active"
    /\ Live(s) => \E k \in KeysOf(s) : Serves(k, s)

\* What was put on a node or stored for a key that is in use, or may be, is there.
Placed ==
  \A k \in Keys :
    /\ phase[k] \in {"provisioned", "stored", "active"} => k \in peers[on[k]]
    /\ phase[k] \in {"stored", "active"} => k \in objects

\* Two keys at one address of one server, of which one may still be put on the
\* node, raced for it.
RaceSeen ==
  /\ \A j \in InFlight \cup late, k \in Keys :
       /\ j # k /\ phase[k] \in {"addressed", "provisioned", "stored", "active"}
       /\ on[j] = on[k] /\ ip[j] = ip[k] /\ ip[k] # 0
       => k \in raced
  /\ \A k \in Keys : phase[k] \in {"provisioned", "stored", "active"} /\ ip[k] # 0 =>
       route[on[k]][ip[k]] = k \/ k \in raced
  /\ \A k \in Keys : phase[k] \in {"unused", "selected"} => ip[k] = 0

\* The server that was given up stays down, and what is on it is being migrated,
\* or was skipped.
GivenUp ==
  given # NoServer =>
    /\ given \notin up
    /\ migPc # "idle" => given = migFrom
    /\ migPc # "listing" =>
         \A s \in Subs :
           /\ Live(s) /\ home[s] = given => s \in skipped \/ Migrating(s)
           /\ Underway(<<s, 1>>) /\ on[<<s, 1>>] = given => s \in skipped

\* While no call failed and no migration touched s, Delete removes what it saw.
Untouched(s) == faults = 0 /\ \A k \in KeysOf(s) : k[2] > 1 => phase[k] = "unused"

CleanSoFar ==
  /\ faults = 0 => late = {}
  /\ \A v \in Servers : \A k \in peers[v] : on[k] = v /\ phase[k] \notin {"unused", "selected"}
  /\ \A k \in objects : phase[k] \notin {"unused", "selected", "addressed"}
  /\ \A s \in Subs : Untouched(s) =>
       LET d == del[<<s, 1>>] IN
       /\ d.pc # "idle" => status[s] = "deleted"
       /\ d.pc = "remove" => d.key = <<s, 1>> /\ d.srv = on[<<s, 1>>]
       /\ d.pc \in {"remove", "purge"} => <<s, 1>> \in d.objs
       /\ d.pc \in {"purge", "done"} => \A v \in Servers : <<s, 1>> \notin peers[v]
       /\ d.pc = "done" => <<s, 1>> \notin objects

\* The subscriptions a server counts.
Clients(v) == {s \in Subs : Live(s) /\ home[s] = v}
Counted == \A v \in Servers : IsFiniteSet(Clients(v)) /\ (revived = {} => count[v] = Cardinality(Clients(v)))

-----------------------------------------------------------------------------
(* Types.                                                                   *)

LEMMA KeyParts ==
  /\ \A k \in Keys : Owner(k) \in Subs /\ k[2] \in Nat /\ k[2] >= 1 /\ k[2] <= MaxMigrations + 1
                     /\ k = <<Owner(k), k[2]>>
  /\ \A s \in Subs, n \in 1 .. MaxMigrations + 1 :
       <<s, n>> \in Keys /\ Owner(<<s, n>>) = s /\ <<s, n>>[2] = n
  /\ \A s \in Subs : <<s, 1>> \in Keys /\ Owner(<<s, 1>>) = s /\ <<s, 1>>[2] = 1
  /\ MaxMigrations \in Nat
<1>1. MaxMigrations \in Nat
  BY ConstantsAssumption
<1>2. \A s \in Subs, n \in 1 .. MaxMigrations + 1 :
        <<s, n>> \in Keys /\ Owner(<<s, n>>) = s /\ <<s, n>>[2] = n
  BY <1>1 DEF Keys, Owner
<1>3. 1 \in 1 .. MaxMigrations + 1
  BY <1>1
<1>4. \A k \in Keys : Owner(k) \in Subs /\ k[2] \in 1 .. MaxMigrations + 1 /\ k = <<Owner(k), k[2]>>
  BY DEF Keys, Owner
<1> QED BY <1>1, <1>2, <1>3, <1>4

\* A nonempty set of naturals has a least element.
LEMMA LowestIn ==
  ASSUME NEW S, S \subseteq Nat, S # {}
  PROVE  Lowest(S) \in S /\ \A b \in S : Lowest(S) <= b
<1>1. PICK n \in S : \A m \in S : <<m, n>> \notin OpToRel(<, Nat)
  BY NatLessThanWellFounded, WFMin, Zenon
<1>2. \A m \in S : ~(m < n)
  <2> SUFFICES ASSUME NEW m \in S, m < n PROVE FALSE
    OBVIOUS
  <2>1. <<m, n>> \in Nat \X Nat
    BY Zenon
  <2>2. <<m, n>> \in OpToRel(<, Nat)
    BY <2>1, Zenon DEF OpToRel
  <2> QED BY <1>1, <2>2, Zenon
<1>3. \A m \in S : n <= m
  BY <1>2
<1> QED BY <1>3 DEF Lowest

\* The key a migration takes for a subscription on its list: the next one.
LEMMA FreshIsNext ==
  ASSUME TypeOK, KeysInOrder, NEW s \in migTodo
  PROVE  /\ FreshKey(s) \in KeysOf(s) /\ FreshKey(s) \in Keys /\ Owner(FreshKey(s)) = s
         /\ phase[FreshKey(s)] = "unused" /\ FreshKey(s)[2] <= migrations + 1
         /\ \A j \in KeysOf(s) : /\ j[2] < FreshKey(s)[2] => phase[j] # "unused"
                                 /\ j[2] > FreshKey(s)[2] => phase[j] = "unused"
<1> DEFINE N == {n \in 1 .. MaxMigrations + 1 : phase[<<s, n>>] = "unused"}
           f == Lowest(N)
<1>1. s \in Subs /\ migrations \in Nat /\ migrations + 1 \in 1 .. MaxMigrations + 1
  BY ConstantsAssumption DEF TypeOK
<1>2. migrations + 1 \in N
  BY <1>1, KeyParts DEF KeysInOrder
<1>3. f \in N /\ \A n \in N : f <= n
  <2> HIDE DEF f
  <2>1. N \subseteq Nat /\ N # {}
    BY <1>2
  <2> HIDE DEF N
  <2> QED BY <2>1, LowestIn DEF f
<1>4. FreshKey(s) = <<s, f>> /\ FreshKey(s) \in Keys /\ Owner(FreshKey(s)) = s
      /\ FreshKey(s)[2] = f /\ f \in Nat
  <2>1. f \in 1 .. MaxMigrations + 1 /\ f \in Nat
    BY <1>3
  <2>2. FreshKey(s) = <<s, f>>
    BY DEF FreshKey
  <2> HIDE DEF f
  <2> QED BY <1>1, <2>1, <2>2, KeyParts
<1>5. phase[<<s, f>>] = "unused" /\ f <= migrations + 1
  BY <1>2, <1>3
<1> HIDE DEF f
<1>6. ASSUME NEW j \in KeysOf(s), j[2] < f PROVE phase[j] # "unused"
  <2>1. j \in Keys /\ j = <<s, j[2]>> /\ j[2] \in 1 .. MaxMigrations + 1 /\ j[2] \in Nat
    BY KeyParts DEF KeysOf
  <2>2. j[2] \notin N
    BY <1>3, <1>4, <1>6, <2>1
  <2> QED BY <2>1, <2>2
<1>7. ASSUME NEW j \in KeysOf(s), j[2] > f PROVE phase[j] = "unused"
  <2>1. j \in Keys /\ Owner(j) = s
    BY DEF KeysOf
  <2> QED BY <1>4, <1>5, <1>7, <2>1 DEF KeysInOrder
<1> QED BY <1>4, <1>5, <1>6, <1>7 DEF KeysOf

\* A free address is one of the subnet's.
LEMMA LowestFree ==
  ASSUME TypeOK, NEW v, Free(v) # {}
  PROVE  /\ Lowest(Free(v)) \in IPs /\ Lowest(Free(v)) # 0
         /\ \A j \in ActiveOn(v) : ip[j] # Lowest(Free(v))
<1>1. Free(v) \subseteq Nat
  BY ConstantsAssumption DEF Free, Hosts
<1>2. Lowest(Free(v)) \in Free(v)
  BY <1>1, LowestIn
<1> QED BY <1>2, ConstantsAssumption DEF Free, Hosts

\* The nodes' tables after an addition and after a removal.
LEMMA AddPeerType ==
  ASSUME TypeOK, NEW k \in Keys, AddPeer(k)
  PROVE  /\ peers' \in [Servers -> SUBSET Keys]
         /\ route' \in [Servers -> [IPs -> Keys \cup {NoKey}]]
<1>1. peers' \in [Servers -> SUBSET Keys]
  BY DEF AddPeer, TypeOK
<1>2. CASE route' = route
  BY <1>1, <1>2 DEF TypeOK
<1>3. CASE route' # route
  <2>1. route' = [route EXCEPT ![on[k]][ip[k]] = k]
    BY <1>3 DEF AddPeer
  <2>2. CASE on[k] \in Servers
    <3> DEFINE row == [route[on[k]] EXCEPT ![ip[k]] = k]
    <3>1. route[on[k]] \in [IPs -> Keys \cup {NoKey}]
      BY <2>2 DEF TypeOK
    <3>2. row \in [IPs -> Keys \cup {NoKey}]
      BY <3>1
    <3>3. route' = [route EXCEPT ![on[k]] = row]
      BY <2>1
    <3> HIDE DEF row
    <3> QED BY <1>1, <3>2, <3>3 DEF TypeOK
  <2>3. CASE on[k] \notin Servers
    BY <1>1, <2>1, <2>3 DEF TypeOK
  <2> QED BY <2>2, <2>3
<1> QED BY <1>2, <1>3

LEMMA DropPeerType ==
  ASSUME TypeOK, NEW v, NEW k, DropPeer(v, k)
  PROVE  /\ peers' \in [Servers -> SUBSET Keys]
         /\ route' \in [Servers -> [IPs -> Keys \cup {NoKey}]]
<1>1. peers' \in [Servers -> SUBSET Keys]
  BY DEF DropPeer, TypeOK
<1>2. CASE v \in Servers
  <2> DEFINE row == [a \in IPs |-> IF route[v][a] = k THEN NoKey ELSE route[v][a]]
  <2>1. route[v] \in [IPs -> Keys \cup {NoKey}]
    BY <1>2 DEF TypeOK
  <2>2. row \in [IPs -> Keys \cup {NoKey}]
    BY <2>1
  <2>3. route' = [route EXCEPT ![v] = row]
    BY DEF DropPeer
  <2> HIDE DEF row
  <2> QED BY <1>1, <2>2, <2>3 DEF TypeOK
<1>3. CASE v \notin Servers
  BY <1>1, <1>3 DEF DropPeer, TypeOK
<1> QED BY <1>2, <1>3

Phases == {"unused", "selected", "addressed", "provisioned", "stored", "active", "revoked", "failed"}

LEMMA TypeInit == Init => TypeOK
<1> SUFFICES ASSUME Init PROVE TypeOK
  OBVIOUS
<1>1. del \in [Keys -> [pc : {"idle", "remove", "purge", "done"}, srv : Servers \cup {NoServer},
                        key : Keys \cup {NoKey}, objs : SUBSET Keys]]
  BY DEF Init
<1>2. route \in [Servers -> [IPs -> Keys \cup {NoKey}]] /\ peers \in [Servers -> SUBSET Keys]
  BY DEF Init
<1> QED BY <1>1, <1>2, ConstantsAssumption DEF Init, TypeOK

\* A server's counter after one client more, or one less.
LEMMA CountTypes ==
  ASSUME NEW c \in [Servers -> Nat], NEW d \in [Servers -> Nat], NEW v
  PROVE  /\ [c EXCEPT ![v] = d[v] + 1] \in [Servers -> Nat]
         /\ [c EXCEPT ![v] = Dec(d[v])] \in [Servers -> Nat]
<1>1. CASE v \in Servers
  <2>1. d[v] \in Nat /\ d[v] + 1 \in Nat /\ Dec(d[v]) \in Nat
    BY <1>1 DEF Dec
  <2>2. ASSUME NEW n \in Nat PROVE [c EXCEPT ![v] = n] \in [Servers -> Nat]
    OBVIOUS
  <2> QED BY <2>1, <2>2
<1>2. CASE v \notin Servers
  <2>1. ASSUME NEW e PROVE [c EXCEPT ![v] = e] \in [Servers -> Nat]
    BY <1>2
  <2> QED BY <2>1
<1> QED BY <1>1, <1>2

LEMMA FaultType ==
  ASSUME TypeOK, Fault
  PROVE  faults' \in 0 .. MaxFaults /\ faults' > 0
BY ConstantsAssumption DEF TypeOK, Fault

LEMMA PhaseType ==
  ASSUME TypeOK, NEW k \in Keys, NEW p \in Phases, phase' = [phase EXCEPT ![k] = p]
  PROVE  phase' \in [Keys -> Phases]
BY DEF TypeOK, Phases

LEMMA FailedType ==
  ASSUME TypeOK, NEW k \in Keys, Failed(k)
  PROVE  /\ phase' \in [Keys -> Phases]
         /\ migPc' \in {"idle", "listing", "loop", "oldkey", "attempt", "reassigned"}
         /\ migKey' \in Keys \cup {NoKey} /\ migOld' \in Keys \cup {NoKey}
         /\ skipped' \subseteq Subs
         /\ UNCHANGED <<rows, on, up, del, migFrom, migTodo, migrations, revived, raced, given>>
<1>1. phase' \in [Keys -> Phases]
  BY PhaseType DEF Failed, Phases
<1>2. Owner(k) \in Subs
  BY KeyParts
<1>3. CASE k[2] = 1
  BY <1>1, <1>3 DEF Failed, TypeOK
<1>4. CASE k[2] # 1
  BY <1>1, <1>2, <1>4 DEF Failed, TypeOK
<1> QED BY <1>3, <1>4

LEMMA AttemptType ==
  ASSUME TypeOK, NEW k \in Keys, Attempt(k)
  PROVE  TypeOK'
<1> USE DEF rows, nodes, mig, hist
<1>0. Owner(k) \in Subs /\ phase \in [Keys -> Phases]
  BY KeyParts DEF TypeOK, Phases
<1>1. CASE Allocate(k)
  <2>1. phase' \in [Keys -> Phases]
    BY <1>1, PhaseType DEF Allocate, Phases
  <2>2. ip' \in [Keys -> IPs \cup {0}] /\ raced' \subseteq Keys
    <3>1. CASE Owner(k) \in WireGuard
      <4> DEFINE a == Lowest(Free(on[k]))
      <4>1. a \in IPs
        BY <1>1, <3>1, LowestFree DEF Allocate
      <4>2. ip' = [ip EXCEPT ![k] = a]
        BY <1>1, <3>1 DEF Allocate
      <4>3. Contenders(k, a) \subseteq Keys
        BY DEF Contenders, InFlight, TypeOK
      <4>4. raced' = raced \cup Contenders(k, a)
                      \cup (IF Contenders(k, a) # {} THEN {k} ELSE {})
        BY <1>1, <3>1 DEF Allocate
      <4> HIDE DEF a
      <4> QED BY <4>1, <4>2, <4>3, <4>4 DEF TypeOK
    <3>2. CASE Owner(k) \notin WireGuard
      BY <1>1, <3>2 DEF Allocate, TypeOK
    <3> QED BY <3>1, <3>2
  <2> QED BY <1>1, <2>1, <2>2 DEF Allocate, TypeOK, Phases
<1>2. CASE GenerateFails(k)
  BY <1>2, FailedType, FaultType DEF GenerateFails, TypeOK, Phases
<1>3. CASE Provision(k)
  BY <1>3, AddPeerType, PhaseType DEF Provision, TypeOK, Phases
<1>4. CASE ProvisionFails(k)
  <2>1. /\ peers' \in [Servers -> SUBSET Keys]
        /\ route' \in [Servers -> [IPs -> Keys \cup {NoKey}]]
        /\ late' \subseteq Keys
    BY <1>4, AddPeerType DEF ProvisionFails, TypeOK
  <2>2. faults' \in 0 .. MaxFaults
    BY <1>4, FaultType DEF ProvisionFails
  <2> QED BY <1>4, <2>1, <2>2, FailedType DEF ProvisionFails, TypeOK, Phases
<1>5. CASE StoreConfig(k)
  BY <1>5, PhaseType DEF StoreConfig, TypeOK, Phases
<1>6. CASE StoreFails(k)
  BY <1>6, FaultType, FailedType DEF StoreFails, TypeOK, Phases
<1>7. CASE Persist(k)
  <2>1. /\ status' \in [Subs -> {"none", "active", "expired", "deleted"}]
        /\ home' \in [Subs -> Servers \cup {NoServer}]
    BY <1>7 DEF Persist, TypeOK
  <2>2. count' = [count EXCEPT ![on[k]] = count[on[k]] + 1] /\ count \in [Servers -> Nat]
    BY <1>7 DEF Persist, TypeOK
  <2>3. count' \in [Servers -> Nat]
    BY <2>2, CountTypes
  <2>4. phase' \in [Keys -> Phases]
    BY <1>7, PhaseType DEF Persist, Phases
  <2> QED BY <1>7, <2>1, <2>3, <2>4 DEF Persist, TypeOK, Phases
<1>8. CASE Reassign(k)
  <2>1. /\ status' \in [Subs -> {"none", "active", "expired", "deleted"}]
        /\ home' \in [Subs -> Servers \cup {NoServer}]
        /\ phase' \in [Keys -> Phases]
        /\ revived' \subseteq Subs
    BY <1>0, <1>8 DEF Reassign, TypeOK, Phases
  <2>2. count' \in [Servers -> Nat]
    <3> DEFINE c == [count EXCEPT ![on[k]] = count[on[k]] + 1]
    <3>1. c \in [Servers -> Nat]
      BY CountTypes DEF TypeOK
    <3>2. count' = [c EXCEPT ![migFrom] = Dec(count[migFrom])] /\ count \in [Servers -> Nat]
      BY <1>8 DEF Reassign, TypeOK
    <3> HIDE DEF c
    <3> QED BY <3>1, <3>2, CountTypes
  <2> QED BY <1>8, <2>1, <2>2 DEF Reassign, TypeOK, Phases
<1>9. CASE NotRecorded(k)
  BY <1>9, FaultType, FailedType DEF NotRecorded, TypeOK, Phases
<1> QED BY <1>1, <1>2, <1>3, <1>4, <1>5, <1>6, <1>7, <1>8, <1>9 DEF Attempt

DelRows == [pc : {"idle", "remove", "purge", "done"}, srv : Servers \cup {NoServer},
            key : Keys \cup {NoKey}, objs : SUBSET Keys]

\* What a Delete is known by is a key of its subscription.
LEMMA LatestKey ==
  ASSUME NEW s \in Subs, NEW k \in KeysOf(s) \cap Recorded
  PROVE  Latest(s) \in KeysOf(s) \cap Recorded
<1> DEFINE R == KeysOf(s) \cap Recorded
           N == {n \in 0 .. MaxMigrations : \E j \in R : j[2] = MaxMigrations + 1 - n}
           n == Lowest(N)
<1>1. \A j \in R : j \in Keys /\ j[2] \in Nat /\ j[2] >= 1 /\ j[2] <= MaxMigrations + 1
  BY KeyParts DEF KeysOf
<1>2. \A j \in R : MaxMigrations + 1 - j[2] \in N
  BY <1>1, KeyParts
<1>3. N \subseteq Nat /\ N # {}
  BY <1>2
<1>4. n \in N /\ \A m \in N : n <= m
  <2> HIDE DEF N
  <2> QED BY <1>3, LowestIn
<1>5. n \in 0 .. MaxMigrations /\ \E j \in R : j[2] = MaxMigrations + 1 - n
  BY <1>4
<1>6. PICK j \in R : j[2] = MaxMigrations + 1 - n
  BY <1>5
<1> HIDE DEF n, N
<1>7. \A i \in R : i[2] <= j[2]
  BY <1>1, <1>2, <1>4, <1>5, <1>6, KeyParts
<1> QED BY <1>7 DEF Latest

LEMMA DeleteType ==
  ASSUME TypeOK, \/ \E s \in Subs : SoftDelete(s)
                 \/ \E d \in Keys : RemovePeer(d) \/ PurgeObjects(d)
  PROVE  TypeOK'
<1> USE DEF rows, nodes, mig, hist
<1>0. del \in [Keys -> DelRows]
  BY DEF TypeOK, DelRows
<1>1. ASSUME NEW d \in Keys, NEW row \in DelRows, del' = [del EXCEPT ![d] = row]
      PROVE  del' \in [Keys -> DelRows]
  BY <1>0, <1>1
<1>2. ASSUME NEW s \in Subs, SoftDelete(s) PROVE TypeOK'
  <2>1. PICK k \in KeysOf(s) \cap Recorded :
          del' = [del EXCEPT ![Latest(s)] = [pc |-> "remove", srv |-> home[s], key |-> k,
                                             objs |-> KeysOf(s) \cap Recorded]]
    BY <1>2 DEF SoftDelete
  <2>2. [pc |-> "remove", srv |-> home[s], key |-> k, objs |-> KeysOf(s) \cap Recorded] \in DelRows
    BY DEF DelRows, TypeOK, KeysOf, Recorded
  <2>3. del' \in [Keys -> DelRows]
    <3>1. Latest(s) \in Keys
      BY LatestKey DEF KeysOf
    <3> QED BY <1>1, <2>1, <2>2, <3>1
  <2>4. phase' \in [Keys -> Phases]
    BY <1>2 DEF SoftDelete, TypeOK, Phases
  <2>5. status' \in [Subs -> {"none", "active", "expired", "deleted"}]
    BY <1>2 DEF SoftDelete, TypeOK
  <2>6. count' \in [Servers -> Nat]
    BY <1>2, CountTypes DEF SoftDelete, TypeOK
  <2> QED BY <1>2, <2>3, <2>4, <2>5, <2>6 DEF SoftDelete, TypeOK, Phases, DelRows
<1>3. ASSUME NEW d \in Keys, RemovePeer(d) PROVE TypeOK'
  <2> DEFINE row == [del[d] EXCEPT !.pc = "purge", !.srv = NoServer, !.key = NoKey]
  <2>0. del[d] \in DelRows
    BY <1>0
  <2>1. row \in DelRows
    BY <2>0 DEF DelRows
  <2>2. del' = [del EXCEPT ![d] = row]
    BY <1>0, <1>3 DEF RemovePeer
  <2> HIDE DEF row
  <2>3. del' \in [Keys -> DelRows]
    BY <1>1, <2>1, <2>2
  <2>4. /\ peers' \in [Servers -> SUBSET Keys]
        /\ route' \in [Servers -> [IPs -> Keys \cup {NoKey}]]
        /\ faults' \in 0 .. MaxFaults
    BY <1>3, DropPeerType, FaultType DEF RemovePeer, TypeOK
  <2> QED BY <1>3, <2>3, <2>4 DEF RemovePeer, TypeOK, DelRows
<1>4. ASSUME NEW d \in Keys, PurgeObjects(d) PROVE TypeOK'
  <2> DEFINE row == [del[d] EXCEPT !.pc = "done", !.objs = {}]
  <2>0. del[d] \in DelRows
    BY <1>0
  <2>1. row \in DelRows
    BY <2>0 DEF DelRows
  <2>2. del' = [del EXCEPT ![d] = row]
    BY <1>0, <1>4 DEF PurgeObjects
  <2> HIDE DEF row
  <2>3. del' \in [Keys -> DelRows]
    BY <1>1, <2>1, <2>2
  <2>4. objects' \subseteq Keys /\ faults' \in 0 .. MaxFaults
    BY <1>4, FaultType DEF PurgeObjects, TypeOK
  <2> QED BY <1>4, <2>3, <2>4 DEF PurgeObjects, TypeOK, DelRows
<1> QED BY <1>2, <1>3, <1>4

LEMMA MigratorType ==
  ASSUME TypeOK, KeysInOrder,
         \/ ActiveSubsOnServer \/ ListingFails \/ OldKeyForSub \/ DeprovisionOld \/ MigrationEnds
         \/ \E s \in Subs : SelectReserveServer(s) \/ NoReserveServer(s)
         \/ \E v \in Servers : ServerFails(v)
  PROVE  TypeOK'
<1> USE DEF rows, nodes, mig, hist
<1>1. CASE ActiveSubsOnServer
  BY <1>1 DEF ActiveSubsOnServer, Arriving, TypeOK
<1>8. CASE ListingFails
  BY <1>8, FaultType DEF ListingFails, Arriving, TypeOK
<1>2. CASE OldKeyForSub
  BY <1>2 DEF OldKeyForSub, KeysOf, TypeOK
<1>3. CASE DeprovisionOld
  <2>1. /\ peers' \in [Servers -> SUBSET Keys]
        /\ route' \in [Servers -> [IPs -> Keys \cup {NoKey}]]
        /\ faults' \in 0 .. MaxFaults
    BY <1>3, DropPeerType, FaultType DEF DeprovisionOld, TypeOK
  <2> QED BY <1>3, <2>1 DEF DeprovisionOld, TypeOK
<1>4. CASE MigrationEnds
  BY <1>4 DEF MigrationEnds, TypeOK
<1>5. ASSUME NEW s \in Subs, SelectReserveServer(s) PROVE TypeOK'
  <2> DEFINE k == FreshKey(s)
  <2>1. k \in Keys
    BY <1>5, FreshIsNext DEF SelectReserveServer
  <2>2. PICK v \in Preferred(up \ {migFrom}, Reserve) : on' = [on EXCEPT ![k] = v]
    BY <1>5 DEF SelectReserveServer
  <2>3. v \in Servers
    BY DEF Preferred, TypeOK
  <2>4. phase' = [phase EXCEPT ![k] = "selected"] /\ migKey' = k
    BY <1>5 DEF SelectReserveServer
  <2> HIDE DEF k
  <2>5. phase' \in [Keys -> Phases] /\ on' \in [Keys -> Servers \cup {NoServer}]
    BY <2>1, <2>2, <2>3, <2>4, PhaseType DEF TypeOK, Phases
  <2> QED BY <1>5, <2>1, <2>4, <2>5 DEF SelectReserveServer, TypeOK, Phases
<1>6. ASSUME NEW s \in Subs, NoReserveServer(s) PROVE TypeOK'
  BY <1>6, FaultType DEF NoReserveServer, TypeOK
<1>7. ASSUME NEW v \in Servers, ServerFails(v) PROVE TypeOK'
  <2>1. migrations' \in 0 .. MaxMigrations
    BY <1>7, ConstantsAssumption DEF ServerFails, TypeOK
  <2> QED BY <1>7, <2>1 DEF ServerFails, TypeOK
<1> QED BY <1>1, <1>2, <1>3, <1>4, <1>5, <1>6, <1>7, <1>8

LEMMA TypeStep == TypeOK /\ KeysInOrder /\ [Next]_vars => TypeOK'
<1> SUFFICES ASSUME TypeOK, KeysInOrder, [Next]_vars PROVE TypeOK'
  OBVIOUS
<1> USE DEF rows, nodes, mig, hist
<1>1. ASSUME NEW s \in Subs, SelectServer(s) PROVE TypeOK'
  <2>1. PICK v \in Preferred(up, Servers \ Reserve) : on' = [on EXCEPT ![<<s, 1>>] = v]
    BY <1>1 DEF SelectServer
  <2>2. v \in Servers /\ <<s, 1>> \in Keys
    BY KeyParts DEF Preferred, TypeOK
  <2>3. phase' \in [Keys -> Phases]
    BY <1>1, <2>2, PhaseType DEF SelectServer, Phases
  <2> QED BY <1>1, <2>1, <2>2, <2>3 DEF SelectServer, TypeOK, Phases
<1>2. ASSUME NEW k \in Keys, LateAddition(k) PROVE TypeOK'
  BY <1>2, AddPeerType DEF LateAddition, TypeOK
<1>3. ASSUME NEW s \in Subs, Expire(s) \/ ExtendSubscription(s) PROVE TypeOK'
  BY <1>3 DEF Expire, ExtendSubscription, TypeOK
<1>4. ASSUME NEW v \in Servers, SetServerStatus(v) PROVE TypeOK'
  BY <1>4 DEF SetServerStatus, TypeOK
<1>5. CASE UNCHANGED vars
  BY <1>5 DEF vars, TypeOK
<1> QED BY <1>1, <1>2, <1>3, <1>4, <1>5, AttemptType, DeleteType, MigratorType DEF Next, Migrator

-----------------------------------------------------------------------------
(* The shapes of the steps.                                                 *)

Going == {"selected", "addressed", "provisioned", "stored"}

\* A step of the attempt k that does not record it: it goes on, or is given up.
Moves(k) ==
  /\ Running(k) /\ phase[k] \in Going
  /\ \E p \in {"addressed", "provisioned", "stored", "failed"} :
       /\ phase' = [phase EXCEPT ![k] = p] /\ (p = "addressed" => phase[k] = "selected")
       /\ late' = late \/ (late' = late \cup {k} /\ p = "failed")
       /\ IF p = "failed" /\ k[2] # 1
          THEN migPc' = "loop" /\ migKey' = NoKey /\ migOld' = NoKey /\ skipped' = skipped \cup {Owner(k)}
          ELSE UNCHANGED <<migPc, migKey, migOld, skipped>>
  /\ UNCHANGED <<rows, on, up, del, migFrom, migTodo, migrations, revived, given>>

LEMMA AttemptShape ==
  ASSUME TypeOK, NEW k \in Keys, Attempt(k)
  PROVE  Moves(k) \/ Persist(k) \/ Reassign(k)
<1> USE DEF nodes, mig, hist
<1>1. CASE Allocate(k)
  BY <1>1 DEF Allocate, Moves, Going
<1>2. ASSUME Failed(k), Running(k), phase[k] \in Going, late' = late \/ late' = late \cup {k}
      PROVE  Moves(k)
  BY <1>2 DEF Failed, Moves
<1>3. CASE GenerateFails(k)
  BY <1>2, <1>3 DEF GenerateFails, Going
<1>4. CASE Provision(k)
  BY <1>4 DEF Provision, Moves, Going
<1>5. CASE ProvisionFails(k)
  BY <1>2, <1>5 DEF ProvisionFails, Going
<1>6. CASE StoreConfig(k)
  BY <1>6 DEF StoreConfig, Moves, Going
<1>7. CASE StoreFails(k)
  BY <1>2, <1>7 DEF StoreFails, Going
<1>8. CASE NotRecorded(k)
  BY <1>2, <1>8 DEF NotRecorded, Going
<1> QED BY <1>1, <1>3, <1>4, <1>5, <1>6, <1>7, <1>8 DEF Attempt

\* A step that changes neither the attempts nor where a subscription is.
Quiet ==
  /\ UNCHANGED <<phase, on, home, count, migTodo, migrations, revived, skipped>> /\ late' \subseteq late
  /\ given' # NoServer => given' = given /\ (given \notin up => given \notin up')
  /\ \A s \in Subs : status'[s] = status[s] \/ {status[s], status'[s]} \subseteq {"active", "expired"}
  /\ \/ UNCHANGED <<migPc, migFrom, migKey>>
     \/ migPc = "oldkey" /\ migPc' = "attempt" /\ UNCHANGED <<migFrom, migKey>>
     \/ migPc = "reassigned" /\ migPc' = "loop" /\ UNCHANGED migFrom
     \/ migPc = "loop" /\ migTodo = {} /\ migPc' = "idle"

LEMMA QuietShape ==
  ASSUME TypeOK,
         \/ \E k \in Keys : LateAddition(k)
         \/ OldKeyForSub \/ DeprovisionOld \/ MigrationEnds
         \/ \E d \in Keys : RemovePeer(d) \/ PurgeObjects(d)
         \/ \E s \in Subs : Expire(s) \/ ExtendSubscription(s)
         \/ \E v \in Servers : SetServerStatus(v)
         \/ UNCHANGED vars
  PROVE  Quiet
<1> USE DEF rows, nodes, mig, hist
<1>1. ASSUME NEW k \in Keys, LateAddition(k) PROVE Quiet
  BY <1>1 DEF LateAddition, Quiet
<1>2. CASE OldKeyForSub
  BY <1>2 DEF OldKeyForSub, Quiet
<1>3. CASE DeprovisionOld
  BY <1>3 DEF DeprovisionOld, Quiet
<1>4. CASE MigrationEnds
  BY <1>4 DEF MigrationEnds, Quiet
<1>5. ASSUME NEW d \in Keys, RemovePeer(d) PROVE Quiet
  BY <1>5 DEF RemovePeer, Quiet
<1>6. ASSUME NEW d \in Keys, PurgeObjects(d) PROVE Quiet
  BY <1>6 DEF PurgeObjects, Quiet
<1>7. ASSUME NEW s \in Subs, Expire(s) \/ ExtendSubscription(s) PROVE Quiet
  BY <1>7 DEF Expire, ExtendSubscription, Quiet, TypeOK
<1>8. ASSUME NEW v \in Servers, SetServerStatus(v) PROVE Quiet
  BY <1>8 DEF SetServerStatus, Quiet
<1>9. CASE UNCHANGED vars
  BY <1>9 DEF vars, Quiet
<1> QED BY <1>1, <1>2, <1>3, <1>4, <1>5, <1>6, <1>7, <1>8, <1>9

LEMMA StepShapes ==
  ASSUME TypeOK, [Next]_vars
  PROVE  \/ \E s \in Subs : SelectServer(s) \/ SelectReserveServer(s) \/ NoReserveServer(s)
         \/ \E k \in Keys : Moves(k) \/ Persist(k) \/ Reassign(k)
         \/ \E s \in Subs : SoftDelete(s)
         \/ ActiveSubsOnServer \/ ListingFails \/ Quiet
         \/ \E v \in Servers : ServerFails(v)
BY AttemptShape, QuietShape DEF Next, Migrator

\* A recorded key stays recorded, and a revoked one revoked.
LEMMA RowsStay ==
  ASSUME TypeOK, KeysInOrder, [Next]_vars, NEW j \in Keys
  PROVE  /\ phase[j] = "revoked" => phase'[j] = "revoked"
         /\ phase[j] \in {"active", "revoked"} => phase'[j] \in {"active", "revoked"}
<1> USE DEF mig
<1>1. ASSUME NEW k \in Keys, NEW p, phase[k] \in Going \cup {"unused"}, phase' = [phase EXCEPT ![k] = p]
      PROVE  phase[j] \in {"active", "revoked"} => phase'[j] = phase[j]
  BY <1>1 DEF TypeOK, Going
<1>2. ASSUME NEW s \in Subs, SelectServer(s)
      PROVE  phase[j] \in {"active", "revoked"} => phase'[j] = phase[j]
  BY <1>1, <1>2, KeyParts DEF SelectServer, TypeOK
<1>3. ASSUME NEW s \in Subs, SelectReserveServer(s)
      PROVE  phase[j] \in {"active", "revoked"} => phase'[j] = phase[j]
  BY <1>1, <1>3, FreshIsNext DEF SelectReserveServer, TypeOK
<1>4. ASSUME NEW s \in Subs, NoReserveServer(s) PROVE UNCHANGED phase
  BY <1>4 DEF NoReserveServer
<1>5. ASSUME NEW k \in Keys, Moves(k)
      PROVE  phase[j] \in {"active", "revoked"} => phase'[j] = phase[j]
  BY <1>1, <1>5 DEF Moves
<1>6. ASSUME NEW k \in Keys, Persist(k)
      PROVE  phase[j] \in {"active", "revoked"} => phase'[j] = phase[j]
  BY <1>1, <1>6 DEF Persist, Going
<1>7. ASSUME NEW k \in Keys, Reassign(k)
      PROVE  /\ phase[j] = "revoked" => phase'[j] = "revoked"
             /\ phase[j] \in {"active", "revoked"} => phase'[j] \in {"active", "revoked"}
  BY <1>7 DEF Reassign
<1>8. ASSUME NEW s \in Subs, SoftDelete(s)
      PROVE  /\ phase[j] = "revoked" => phase'[j] = "revoked"
             /\ phase[j] \in {"active", "revoked"} => phase'[j] \in {"active", "revoked"}
  BY <1>8 DEF SoftDelete
<1>9. CASE ActiveSubsOnServer \/ ListingFails \/ Quiet \/ \E v \in Servers : ServerFails(v)
  BY <1>9 DEF ActiveSubsOnServer, ListingFails, Quiet, ServerFails
<1> QED BY <1>2, <1>3, <1>4, <1>5, <1>6, <1>7, <1>8, <1>9, StepShapes

-----------------------------------------------------------------------------
(* One active key, on the server of its subscription.                       *)

MInv ==
  /\ TypeOK /\ KeysInOrder /\ MigratorPlace /\ MigratorOld /\ DeletesOld
  /\ SubsServed /\ Placed

LEMMA MInvInit == Init => MInv
<1> SUFFICES ASSUME Init PROVE MInv
  OBVIOUS
<1>1. TypeOK
  BY TypeInit
<1>2. KeysInOrder
  BY DEF Init, KeysInOrder
<1>3. MigratorPlace
  BY DEF Init, MigratorPlace, Underway, InFlight, Migrating
<1>4. MigratorOld /\ DeletesOld
  BY DEF Init, MigratorOld, DeletesOld
<1>5. SubsServed
  BY DEF Init, SubsServed, Live, KeysOf
<1>6. Placed
  BY DEF Init, Placed
<1> QED BY <1>1, <1>2, <1>3, <1>4, <1>5, <1>6 DEF MInv

\* A step that starts the attempt k, for s on the server v.
Takes(s, k, v) ==
  /\ Owner(k) = s /\ phase[k] = "unused" /\ phase' = [phase EXCEPT ![k] = "selected"]
  /\ on' = [on EXCEPT ![k] = v] /\ k \notin late
  /\ \A j \in KeysOf(s) : /\ j[2] < k[2] => phase[j] # "unused"
                          /\ j[2] > k[2] /\ k[2] > 1 => phase[j] = "unused"
  /\ UNCHANGED <<late, migrations, status, home, migFrom>>
  /\ \/ k[2] = 1 /\ k[2] <= migrations + 1 /\ UNCHANGED <<migPc, migTodo, migKey>>
     \/ /\ k[2] > 1 /\ migPc = "loop" /\ s \in migTodo /\ v # migFrom
        /\ k[2] <= migrations + 1
        /\ migTodo' = migTodo \ {s} /\ migPc' = "oldkey" /\ migKey' = k

LEMMA TakesKey ==
  ASSUME MInv, NEW s \in Subs, SelectServer(s) \/ SelectReserveServer(s)
  PROVE  \E k \in Keys, v \in up : Takes(s, k, v)
<1> USE DEF rows, nodes, mig, hist
<1>0. TypeOK /\ KeysInOrder /\ MigratorPlace /\ SubsServed
  BY DEF MInv
<1>1. CASE SelectServer(s)
  <2> DEFINE k == <<s, 1>>
  <2>1. k \in Keys /\ Owner(k) = s /\ k[2] = 1 /\ migrations \in Nat
    BY <1>0, KeyParts DEF TypeOK
  <2>2. phase[k] = "unused" /\ phase' = [phase EXCEPT ![k] = "selected"]
    BY <1>1 DEF SelectServer
  <2>3. PICK v \in Preferred(up, Servers \ Reserve) : on' = [on EXCEPT ![k] = v]
    BY <1>1 DEF SelectServer
  <2>4. v \in up
    BY DEF Preferred
  <2>5. UNCHANGED <<late, migrations, status, home, migFrom, migPc, migTodo, migKey>>
    BY <1>1 DEF SelectServer
  <2>6. k \notin late
    BY <1>0, <2>2 DEF KeysInOrder
  <2> HIDE DEF k
  <2>7. k[2] <= migrations + 1 /\ ~(k[2] > 1) /\ \A j \in KeysOf(s) : ~(j[2] < k[2])
    BY <2>1, KeyParts DEF KeysOf
  <2> QED BY <2>1, <2>2, <2>3, <2>4, <2>5, <2>6, <2>7 DEF Takes
<1>2. CASE SelectReserveServer(s)
  <2> DEFINE k == FreshKey(s)
  <2>1. migPc = "loop" /\ s \in migTodo
    BY <1>2 DEF SelectReserveServer
  <2>2. /\ k \in Keys /\ Owner(k) = s /\ phase[k] = "unused" /\ k[2] <= migrations + 1
        /\ \A j \in KeysOf(s) : /\ j[2] < k[2] => phase[j] # "unused"
                                /\ j[2] > k[2] => phase[j] = "unused"
    BY <1>0, <2>1, FreshIsNext
  <2>3. phase' = [phase EXCEPT ![k] = "selected"] /\ migKey' = k /\ migPc' = "oldkey"
        /\ migTodo' = migTodo \ {s}
    BY <1>2 DEF SelectReserveServer
  <2>4. PICK v \in Preferred(up \ {migFrom}, Reserve) : on' = [on EXCEPT ![k] = v]
    BY <1>2 DEF SelectReserveServer
  <2>5. v \in up /\ v # migFrom
    BY DEF Preferred
  <2>6. UNCHANGED <<late, migrations, status, home, migFrom>>
    BY <1>2 DEF SelectReserveServer
  <2>7. k \notin late
    BY <1>0, <2>2 DEF KeysInOrder
  <2> HIDE DEF k
  <2>8. k[2] > 1
    <3>1. <<s, 1>> \in KeysOf(s) /\ phase[<<s, 1>>] # "unused"
      <4>1. status[s] # "none"
        BY <1>0, <2>1 DEF MigratorPlace, Migrating
      <4> QED BY <1>0, <4>1, KeyParts DEF SubsServed, KeysOf
    <3>2. k # <<s, 1>>
      BY <2>2, <3>1
    <3> QED BY <2>2, <3>2, KeyParts
  <2> QED BY <2>1, <2>2, <2>3, <2>4, <2>5, <2>6, <2>7, <2>8 DEF Takes
<1> QED BY <1>1, <1>2

LEMMA OrderStep == MInv /\ [Next]_vars => KeysInOrder'
<1> SUFFICES ASSUME MInv, [Next]_vars PROVE KeysInOrder'
  OBVIOUS
<1> USE DEF rows, nodes, mig, hist
<1>0. TypeOK /\ KeysInOrder /\ MigratorPlace /\ SubsServed /\ migrations \in Nat
  BY DEF MInv, TypeOK
<1>1. ASSUME NEW s \in Subs, SelectServer(s) \/ SelectReserveServer(s) PROVE KeysInOrder'
  <2>1. PICK k \in Keys, v \in up : Takes(s, k, v)
    BY <1>1, TakesKey
  <2> USE DEF Takes
  <2>2. \A j \in Keys : phase'[j] = IF j = k THEN "selected" ELSE phase[j]
    BY <1>0, <2>1 DEF TypeOK
  <2>3. \A j \in Keys : on'[j] = IF j = k THEN v ELSE on[j]
    BY <1>0, <2>1 DEF TypeOK
  <2>4. v \in Servers
    BY <1>0, <2>1 DEF TypeOK
  <2>5. \A j \in Keys : phase'[j] # "unused" => on'[j] \in Servers
    BY <1>0, <2>2, <2>3, <2>4 DEF KeysInOrder
  <2>6. \A i, j \in Keys :
          Owner(i) = Owner(j) /\ i[2] < j[2] /\ phase'[j] # "unused" => phase'[i] # "unused"
    BY <1>0, <2>1, <2>2 DEF KeysInOrder, KeysOf
  <2>7. \A j \in Keys : j[2] > migrations' + 1 => phase'[j] = "unused"
    BY <1>0, <2>1, <2>2, KeyParts DEF KeysInOrder
  <2>8. \A j \in Keys :
          j[2] > migrations' /\ (migPc' = "listing" \/ Owner(j) \in migTodo') => phase'[j] = "unused"
    <3>1. CASE k[2] = 1 /\ UNCHANGED <<migPc, migTodo, migKey>>
      <4>1. migPc = "listing" \/ migTodo # {} => migrations > 0
        BY <1>0 DEF MigratorPlace
      <4> QED BY <1>0, <2>1, <2>2, <3>1, <4>1 DEF KeysInOrder
    <3>2. CASE migTodo' = migTodo \ {s} /\ migPc' = "oldkey"
      BY <1>0, <2>1, <2>2, <3>2 DEF KeysInOrder
    <3> QED BY <2>1, <3>1, <3>2
  <2>9. \A j \in late' : phase'[j] = "failed"
    BY <1>0, <2>1, <2>2 DEF KeysInOrder, TypeOK
  <2> QED BY <2>5, <2>6, <2>7, <2>8, <2>9 DEF KeysInOrder
<1>2. ASSUME \A j \in Keys : (phase'[j] = "unused") <=> (phase[j] = "unused"),
             UNCHANGED <<on, migrations>>, migTodo' \subseteq migTodo,
             migPc' = "listing" => migPc = "listing",
             \A j \in late' : phase'[j] = "failed"
      PROVE  KeysInOrder'
  BY <1>0, <1>2 DEF KeysInOrder
<1>3. ASSUME NEW s \in Subs, NoReserveServer(s) PROVE KeysInOrder'
  BY <1>0, <1>2, <1>3 DEF NoReserveServer, KeysInOrder
<1>4. ASSUME NEW k \in Keys, Moves(k) PROVE KeysInOrder'
  <2>1. PICK p \in {"addressed", "provisioned", "stored", "failed"} :
          /\ phase' = [phase EXCEPT ![k] = p]
          /\ late' = late \/ (late' = late \cup {k} /\ p = "failed")
          /\ migPc' = "listing" => migPc = "listing"
    BY <1>4 DEF Moves
  <2>2. \A j \in Keys : phase'[j] = IF j = k THEN p ELSE phase[j]
    BY <1>0, <2>1 DEF TypeOK
  <2>3. phase[k] # "unused" /\ k \notin late
    BY <1>0, <1>4 DEF Moves, Going, KeysInOrder
  <2>4. \A j \in Keys : (phase'[j] = "unused") <=> (phase[j] = "unused")
    BY <2>2, <2>3
  <2>5. late \subseteq Keys
    BY <1>0 DEF TypeOK
  <2>6. \A j \in late' : phase'[j] = "failed"
    BY <1>0, <2>1, <2>2, <2>3, <2>5 DEF KeysInOrder
  <2> QED BY <1>2, <1>4, <2>1, <2>4, <2>6 DEF Moves
<1>5. ASSUME UNCHANGED <<on, late, migrations, migTodo>>,
             \A j \in Keys : phase'[j] = phase[j] \/ {phase[j], phase'[j]} \subseteq {"stored", "active", "revoked"},
             migPc' = "listing" => migPc = "listing"
      PROVE  KeysInOrder'
  <2>1. late \subseteq Keys
    BY <1>0 DEF TypeOK
  <2>2. \A j \in late' : phase'[j] = "failed"
    BY <1>0, <1>5, <2>1 DEF KeysInOrder
  <2>3. \A j \in Keys : (phase'[j] = "unused") <=> (phase[j] = "unused")
    BY <1>5
  <2> QED BY <1>2, <1>5, <2>2, <2>3
<1>6. ASSUME NEW k \in Keys, Persist(k) PROVE KeysInOrder'
  <2>1. \A j \in Keys : phase'[j] = phase[j] \/ {phase[j], phase'[j]} \subseteq {"stored", "active", "revoked"}
    BY <1>0, <1>6 DEF Persist, TypeOK
  <2> QED BY <1>5, <1>6, <2>1 DEF Persist
<1>7. ASSUME NEW k \in Keys, Reassign(k) PROVE KeysInOrder'
  <2>1. \A j \in Keys : phase'[j] = phase[j] \/ {phase[j], phase'[j]} \subseteq {"stored", "active", "revoked"}
    BY <1>7 DEF Reassign
  <2> QED BY <1>5, <1>7, <2>1 DEF Reassign
<1>8. ASSUME NEW s \in Subs, SoftDelete(s) PROVE KeysInOrder'
  <2>1. \A j \in Keys : phase'[j] = phase[j] \/ {phase[j], phase'[j]} \subseteq {"stored", "active", "revoked"}
    BY <1>8 DEF SoftDelete
  <2> QED BY <1>5, <1>8, <2>1 DEF SoftDelete
<1>9. CASE ActiveSubsOnServer \/ ListingFails
  <2>1. /\ UNCHANGED <<phase, on, late, migrations>> /\ migPc = "listing" /\ migPc' # "listing"
        /\ migTodo' \subseteq Subs
    BY <1>0, <1>9 DEF ActiveSubsOnServer, ListingFails, TypeOK
  <2> QED BY <1>0, <2>1 DEF KeysInOrder
<1>10. CASE Quiet
  BY <1>0, <1>10 DEF Quiet, KeysInOrder
<1>11. ASSUME NEW v \in Servers, ServerFails(v) PROVE KeysInOrder'
  <2>1. /\ UNCHANGED <<phase, on, late, migTodo>> /\ migPc = "idle" /\ migPc' = "listing"
        /\ migrations' = migrations + 1
    BY <1>11 DEF ServerFails
  <2>2. migTodo = {}
    BY <1>0, <2>1 DEF MigratorPlace
  <2>3. \A j \in Keys : j[2] > migrations + 1 => phase[j] = "unused"
    BY <1>0 DEF KeysInOrder
  <2>4. \A j \in Keys : j[2] > migrations + 1 + 1 => j[2] > migrations + 1
    BY <1>0, KeyParts
  <2>5. \A j \in Keys : j[2] > migrations' + 1 => phase'[j] = "unused"
    BY <2>1, <2>3, <2>4
  <2>6. \A j \in Keys : j[2] > migrations' => phase'[j] = "unused"
    BY <2>1, <2>3
  <2> QED BY <1>0, <2>1, <2>5, <2>6 DEF KeysInOrder
<1> QED BY <1>0, <1>1, <1>3, <1>4, <1>6, <1>7, <1>8, <1>9, <1>10, <1>11, StepShapes

\* A step that ends an attempt of a migration ends it for its subscription; the
\* others leave the migration's place and its subscriptions alone.
LEMMA PlaceStep == MInv /\ [Next]_vars => MigratorPlace'
<1> SUFFICES ASSUME MInv, [Next]_vars PROVE MigratorPlace'
  OBVIOUS
<1> USE DEF rows, nodes, mig, hist
<1>0. TypeOK /\ KeysInOrder /\ MigratorPlace /\ SubsServed /\ migrations \in Nat
  BY DEF MInv, TypeOK
<1>a. /\ migPc \in {"idle", "listing"} => migTodo = {}
      /\ migPc # "idle" => migFrom \in Servers /\ migrations > 0
      /\ migPc \in {"oldkey", "attempt"} =>
           /\ migKey \in Keys /\ Underway(migKey) /\ migKey[2] > 1 /\ on[migKey] # migFrom
           /\ Owner(migKey) \notin migTodo
      /\ \A k \in Keys : k[2] > 1 /\ Underway(k) =>
           /\ migPc \in {"oldkey", "attempt"} /\ migKey = k
           /\ \A j \in KeysOf(Owner(k)) : j[2] > k[2] => phase[j] = "unused"
      /\ \A s \in Subs : Migrating(s) => status[s] # "none" /\ home[s] = migFrom
  BY <1>0 DEF MigratorPlace
<1>b. \A k \in Keys : Underway(k) <=> phase[k] \in Going
  BY <1>0 DEF Underway, InFlight, Going
<1>c. \A k \in Keys : Underway(k)' <=> phase'[k] \in Going
  BY DEF Underway, InFlight, Going
<1>1. ASSUME NEW s \in Subs, SelectServer(s) \/ SelectReserveServer(s) PROVE MigratorPlace'
  <2>1. PICK k \in Keys, v \in up : Takes(s, k, v)
    BY <1>1, TakesKey
  <2> USE DEF Takes
  <2>2. \A j \in Keys : phase'[j] = IF j = k THEN "selected" ELSE phase[j]
    BY <1>0, <2>1 DEF TypeOK
  <2>3. \A j \in Keys : on'[j] = IF j = k THEN v ELSE on[j]
    BY <1>0, <2>1 DEF TypeOK
  <2>4. \A j \in Keys : Underway(j)' <=> (j = k \/ Underway(j))
    BY <1>b, <1>c, <2>2 DEF Going
  <2>5. CASE k[2] = 1 /\ UNCHANGED <<migPc, migTodo, migKey>>
    <3>1. migPc \in {"oldkey", "attempt"} => migKey # k
      BY <1>a, <2>5
    <3>2. \A j \in Keys : j[2] > 1 /\ Underway(j)' => j # k /\ Underway(j)
      BY <2>4, <2>5
    <3>3. \A j \in Keys : \A i \in KeysOf(Owner(j)) : j[2] > 1 /\ i[2] > j[2] => i # k
      BY <2>5, KeyParts DEF KeysOf
    <3>4. migPc' \in {"oldkey", "attempt"} =>
            /\ migKey' \in Keys /\ Underway(migKey)' /\ migKey'[2] > 1 /\ on'[migKey'] # migFrom'
            /\ Owner(migKey') \notin migTodo'
      BY <1>a, <2>1, <2>3, <2>4, <2>5, <3>1
    <3>5. \A j \in Keys : j[2] > 1 /\ Underway(j)' =>
            /\ migPc' \in {"oldkey", "attempt"} /\ migKey' = j
            /\ \A i \in KeysOf(Owner(j)) : i[2] > j[2] => phase'[i] = "unused"
      BY <1>a, <2>2, <2>5, <3>2, <3>3 DEF KeysOf
    <3>6. \A t \in Subs : Migrating(t)' => status'[t] # "none" /\ home'[t] = migFrom'
      BY <1>a, <2>1, <2>5 DEF Migrating
    <3> QED BY <1>a, <2>1, <2>5, <3>4, <3>5, <3>6 DEF MigratorPlace
  <2>6. CASE /\ k[2] > 1 /\ migPc = "loop" /\ s \in migTodo /\ v # migFrom
             /\ migTodo' = migTodo \ {s} /\ migPc' = "oldkey" /\ migKey' = k
    <3>1. \A j \in Keys : j[2] > 1 /\ Underway(j)' => j = k
      BY <1>a, <2>4, <2>6
    <3>2. \A i \in KeysOf(Owner(k)) : i[2] > k[2] => phase'[i] = "unused" /\ i # k
      BY <1>0, <2>1, <2>2, <2>6, KeyParts DEF KeysOf
    <3>3. \A t \in Subs : Migrating(t)' => t \in migTodo
      BY <2>1, <2>6 DEF Migrating
    <3>4. \A t \in Subs : Migrating(t)' => status'[t] # "none" /\ home'[t] = migFrom'
      BY <1>a, <2>1, <3>3 DEF Migrating
    <3>5. Underway(k)' /\ on'[k] # migFrom'
      BY <2>1, <2>3, <2>4, <2>6
    <3>6. migFrom' \in Servers /\ migrations' > 0
      BY <1>a, <2>1, <2>6
    <3>7. \A j \in Keys : j[2] > 1 /\ Underway(j)' =>
            /\ migPc' \in {"oldkey", "attempt"} /\ migKey' = j
            /\ \A i \in KeysOf(Owner(j)) : i[2] > j[2] => phase'[i] = "unused"
      BY <2>6, <3>1, <3>2
    <3> QED BY <2>1, <2>6, <3>4, <3>5, <3>6, <3>7 DEF MigratorPlace
  <2> QED BY <2>1, <2>5, <2>6
<1>2. ASSUME NEW s \in Subs, NoReserveServer(s) PROVE MigratorPlace'
  <2>1. /\ UNCHANGED <<phase, on, status, home, migFrom, migKey, migPc, migrations>>
        /\ migTodo' = migTodo \ {s} /\ migPc = "loop"
    BY <1>2 DEF NoReserveServer
  <2>2. \A t \in Subs : Migrating(t)' => Migrating(t)
    BY <2>1 DEF Migrating
  <2> QED BY <1>a, <1>b, <1>c, <2>1, <2>2 DEF MigratorPlace
<1>3. ASSUME NEW k \in Keys, Moves(k) PROVE MigratorPlace'
  <2>1. PICK p \in {"addressed", "provisioned", "stored", "failed"} :
          /\ phase' = [phase EXCEPT ![k] = p]
          /\ IF p = "failed" /\ k[2] # 1
             THEN migPc' = "loop" /\ migKey' = NoKey /\ migOld' = NoKey
             ELSE UNCHANGED <<migPc, migKey, migOld>>
    BY <1>3 DEF Moves
  <2>2. \A j \in Keys : phase'[j] = IF j = k THEN p ELSE phase[j]
    BY <1>0, <2>1 DEF TypeOK
  <2>3. UNCHANGED <<status, home, on, migFrom, migTodo, migrations>> /\ Running(k) /\ phase[k] \in Going
    BY <1>3 DEF Moves
  <2>4. \A j \in Keys : Underway(j)' <=> Underway(j) /\ (j = k => p # "failed")
    BY <1>b, <1>c, <2>2, <2>3 DEF Going
  <2>5. \A j \in Keys : phase[j] = "unused" => phase'[j] = "unused"
    BY <2>2, <2>3 DEF Going
  <2>6. k[2] = 1 \/ (k[2] > 1 /\ migPc = "attempt" /\ migKey = k)
    BY <2>3, KeyParts DEF Running
  <2>7. CASE p = "failed" /\ k[2] # 1
    <3>1. \A j \in Keys : j[2] > 1 => ~Underway(j)'
      BY <1>a, <2>4, <2>6, <2>7
    <3>2. \A t \in Subs : Migrating(t)' => Migrating(t)
      BY <2>1, <2>3, <2>7 DEF Migrating
    <3> QED BY <1>a, <2>1, <2>3, <2>6, <2>7, <3>1, <3>2 DEF MigratorPlace
  <2>8. CASE ~(p = "failed" /\ k[2] # 1)
    <3>1. UNCHANGED <<migPc, migKey>>
      BY <2>1, <2>8
    <3>2. \A t \in Subs : Migrating(t)' => Migrating(t)
      BY <2>3, <3>1 DEF Migrating
    <3>3. migPc \in {"oldkey", "attempt"} => Underway(migKey)'
      BY <1>a, <2>4, <2>8, <3>1
    <3>4. \A j \in Keys : j[2] > 1 /\ Underway(j)' =>
            /\ migPc' \in {"oldkey", "attempt"} /\ migKey' = j
            /\ \A i \in KeysOf(Owner(j)) : i[2] > j[2] => phase'[i] = "unused"
      BY <1>a, <2>4, <2>5, <3>1 DEF KeysOf
    <3>5. migPc' \in {"oldkey", "attempt"} =>
            /\ migKey' \in Keys /\ Underway(migKey)' /\ migKey'[2] > 1 /\ on'[migKey'] # migFrom'
            /\ Owner(migKey') \notin migTodo'
      BY <1>a, <2>3, <3>1, <3>3
    <3>6. \A t \in Subs : Migrating(t)' => status'[t] # "none" /\ home'[t] = migFrom'
      BY <1>a, <2>3, <3>2
    <3> QED BY <1>a, <2>3, <3>1, <3>4, <3>5, <3>6 DEF MigratorPlace
  <2> QED BY <2>7, <2>8
<1>4. ASSUME NEW k \in Keys, Persist(k) PROVE MigratorPlace'
  <2>1. /\ UNCHANGED <<on, migFrom, migTodo, migKey, migPc, migrations>>
        /\ k[2] = 1 /\ phase[k] = "stored" /\ phase' = [phase EXCEPT ![k] = "active"]
        /\ status' = [status EXCEPT ![Owner(k)] = "active"]
        /\ home' = [home EXCEPT ![Owner(k)] = on[k]]
    BY <1>4 DEF Persist
  <2>2. \A j \in Keys : phase'[j] = IF j = k THEN "active" ELSE phase[j]
    BY <1>0, <2>1 DEF TypeOK
  <2>3. \A j \in Keys : Underway(j)' <=> Underway(j) /\ j # k
    BY <1>b, <1>c, <2>2 DEF Going
  <2>4. \A j \in Keys : phase[j] = "unused" => phase'[j] = "unused"
    BY <2>1, <2>2
  <2>5. k = <<Owner(k), 1>> /\ Owner(k) \in Subs
    BY <2>1, KeyParts
  <2>6. ~ Migrating(Owner(k))
    BY <1>0, <1>a, <2>1, <2>5 DEF SubsServed
  <2>7. \A t \in Subs : Migrating(t)' => Migrating(t)
    BY <2>1 DEF Migrating
  <2>8. \A t \in Subs : Migrating(t)' => status'[t] # "none" /\ home'[t] = migFrom'
    BY <1>0, <1>a, <2>1, <2>6, <2>7 DEF TypeOK
  <2>9. \A j \in Keys : j[2] > 1 /\ Underway(j)' =>
          /\ migPc' \in {"oldkey", "attempt"} /\ migKey' = j
          /\ \A i \in KeysOf(Owner(j)) : i[2] > j[2] => phase'[i] = "unused"
    BY <1>a, <2>1, <2>3, <2>4 DEF KeysOf
  <2>10. migPc' \in {"oldkey", "attempt"} =>
           /\ migKey' \in Keys /\ Underway(migKey)' /\ migKey'[2] > 1 /\ on'[migKey'] # migFrom'
           /\ Owner(migKey') \notin migTodo'
    BY <1>a, <2>1, <2>3
  <2> QED BY <1>a, <2>1, <2>8, <2>9, <2>10 DEF MigratorPlace
<1>5. ASSUME NEW k \in Keys, Reassign(k) PROVE MigratorPlace'
  <2>1. /\ UNCHANGED <<on, migFrom, migTodo, migKey, migrations>> /\ migPc' = "reassigned"
        /\ phase' = [j \in Keys |-> IF j = k THEN "active"
                                    ELSE IF Owner(j) = Owner(k) /\ phase[j] = "active" THEN "revoked"
                                    ELSE phase[j]]
        /\ status' = [status EXCEPT ![Owner(k)] = "active"]
        /\ home' = [home EXCEPT ![Owner(k)] = on[k]]
        /\ migPc = "attempt" /\ migKey = k
    BY <1>5, KeyParts DEF Reassign, Running
  <2>2. \A j \in Keys : Underway(j)' => Underway(j) /\ j # k
    BY <1>b, <1>c, <2>1 DEF Going
  <2>3. \A j \in Keys : j[2] > 1 => ~Underway(j)'
    BY <1>a, <2>1, <2>2
  <2>4. \A t \in Subs : Migrating(t)' => t \in migTodo /\ t # Owner(k)
    BY <1>a, <2>1 DEF Migrating
  <2>5. \A t \in Subs : Migrating(t)' => status'[t] # "none" /\ home'[t] = migFrom'
    BY <1>0, <1>a, <2>1, <2>4 DEF TypeOK, Migrating
  <2> QED BY <1>a, <2>1, <2>3, <2>5 DEF MigratorPlace
<1>6. ASSUME NEW s \in Subs, SoftDelete(s) PROVE MigratorPlace'
  <2>1. /\ UNCHANGED <<on, home, migFrom, migTodo, migKey, migPc, migrations>>
        /\ phase' = [k \in Keys |-> IF Owner(k) = s /\ phase[k] = "active" THEN "revoked" ELSE phase[k]]
        /\ status' = [status EXCEPT ![s] = "deleted"]
    BY <1>6 DEF SoftDelete
  <2>2. \A j \in Keys : (Underway(j)' <=> Underway(j)) /\ (phase[j] = "unused" => phase'[j] = "unused")
    BY <1>b, <1>c, <2>1 DEF Going
  <2>3. \A t \in Subs : (Migrating(t)' => Migrating(t)) /\ (status[t] # "none" => status'[t] # "none")
    BY <1>0, <2>1 DEF Migrating, TypeOK
  <2>4. \A t \in Subs : Migrating(t)' => status'[t] # "none" /\ home'[t] = migFrom'
    BY <1>a, <2>1, <2>3
  <2>5. \A j \in Keys : j[2] > 1 /\ Underway(j)' =>
          /\ migPc' \in {"oldkey", "attempt"} /\ migKey' = j
          /\ \A i \in KeysOf(Owner(j)) : i[2] > j[2] => phase'[i] = "unused"
    BY <1>a, <2>1, <2>2 DEF KeysOf
  <2>6. migPc' \in {"oldkey", "attempt"} =>
          /\ migKey' \in Keys /\ Underway(migKey)' /\ migKey'[2] > 1 /\ on'[migKey'] # migFrom'
          /\ Owner(migKey') \notin migTodo'
    BY <1>a, <2>1, <2>2
  <2> QED BY <1>a, <2>1, <2>4, <2>5, <2>6 DEF MigratorPlace
<1>7. CASE ActiveSubsOnServer
  <2>1. /\ UNCHANGED <<phase, on, status, home, migFrom, migrations>>
        /\ migPc = "listing" /\ migPc' = "loop"
        /\ migTodo' = {s \in Subs : status[s] = "active" /\ home[s] = migFrom}
    BY <1>7 DEF ActiveSubsOnServer
  <2>2. \A t \in Subs : Migrating(t)' => status[t] = "active" /\ home[t] = migFrom
    BY <2>1 DEF Migrating
  <2>3. \A j \in Keys : j[2] > 1 => ~Underway(j)'
    BY <1>a, <1>b, <1>c, <2>1
  <2> QED BY <1>a, <2>1, <2>2, <2>3 DEF MigratorPlace
<1>10. CASE ListingFails
  <2>1. /\ UNCHANGED <<phase, on, status, home, migTodo, migrations>>
        /\ migPc = "listing" /\ migPc' = "idle"
    BY <1>10 DEF ListingFails
  <2>2. migTodo' = {} /\ \A t \in Subs : ~ Migrating(t)'
    BY <1>a, <2>1 DEF Migrating
  <2>3. \A j \in Keys : j[2] > 1 => ~Underway(j)'
    BY <1>a, <1>b, <1>c, <2>1
  <2> QED BY <2>1, <2>2, <2>3 DEF MigratorPlace
<1>8. CASE Quiet
  <2>1. UNCHANGED <<phase, on, home, migTodo, migrations>>
    BY <1>8 DEF Quiet
  <2>2. \A j \in Keys : Underway(j)' <=> Underway(j)
    BY <1>b, <1>c, <2>1
  <2>3. \A t \in Subs : status[t] # "none" => status'[t] # "none"
    BY <1>8 DEF Quiet
  <2>4. \A t \in Subs : Migrating(t)' => Migrating(t)
    BY <1>8 DEF Quiet, Migrating
  <2>5. migPc' # "idle" => migPc # "idle" /\ migFrom' = migFrom
    BY <1>0, <1>8 DEF Quiet, TypeOK
  <2>6. \A t \in Subs : Migrating(t)' => migFrom' = migFrom
    BY <1>8 DEF Quiet, Migrating
  <2>7. \A t \in Subs : Migrating(t)' => status'[t] # "none" /\ home'[t] = migFrom'
    BY <1>a, <2>1, <2>3, <2>4, <2>6
  <2>8. /\ migPc \in {"oldkey", "attempt"} <=> migPc' \in {"oldkey", "attempt"}
        /\ migPc' \in {"oldkey", "attempt"} => migKey' = migKey /\ migFrom' = migFrom
    BY <1>8 DEF Quiet
  <2>9. migPc' \in {"idle", "listing"} => migTodo' = {}
    BY <1>a, <1>8 DEF Quiet
  <2>10. migPc' # "idle" => migFrom' \in Servers /\ migrations' > 0
    BY <1>a, <2>1, <2>5
  <2>11. migPc' \in {"oldkey", "attempt"} =>
           /\ migKey' \in Keys /\ Underway(migKey)' /\ migKey'[2] > 1 /\ on'[migKey'] # migFrom'
           /\ Owner(migKey') \notin migTodo'
    BY <1>a, <2>1, <2>2, <2>8
  <2>12. \A j \in Keys : j[2] > 1 /\ Underway(j)' =>
           /\ migPc' \in {"oldkey", "attempt"} /\ migKey' = j
           /\ \A i \in KeysOf(Owner(j)) : i[2] > j[2] => phase'[i] = "unused"
    BY <1>a, <2>1, <2>2, <2>8
  <2> QED BY <2>7, <2>9, <2>10, <2>11, <2>12 DEF MigratorPlace
<1>9. ASSUME NEW v \in Servers, ServerFails(v) PROVE MigratorPlace'
  <2>1. /\ UNCHANGED <<phase, on, status, home, migTodo>> /\ migPc = "idle" /\ migPc' = "listing"
        /\ migrations' = migrations + 1 /\ migFrom' = v
    BY <1>9 DEF ServerFails
  <2>2. migTodo' = {} /\ migrations' > 0
    BY <1>0, <1>a, <2>1
  <2>3. \A j \in Keys : j[2] > 1 => ~Underway(j)'
    BY <1>a, <1>b, <1>c, <2>1
  <2> QED BY <2>1, <2>2, <2>3 DEF MigratorPlace, Migrating
<1> QED BY <1>0, <1>1, <1>2, <1>3, <1>4, <1>5, <1>6, <1>7, <1>8, <1>9, <1>10, StepShapes

\* Only OldKeyForSub chooses an old key, and only Reassign leaves it to be taken
\* off its node: by then it has revoked it.
LEMMA OldStep == MInv /\ [Next]_vars => MigratorOld'
<1> SUFFICES ASSUME MInv, [Next]_vars, migOld' # NoKey
             PROVE  /\ migPc' = "attempt" => /\ migOld' \in KeysOf(Owner(migKey'))
                                             /\ phase'[migOld'] \in {"active", "revoked"}
                    /\ migPc' = "reassigned" => phase'[migOld'] = "revoked"
  BY DEF MigratorOld
<1> DEFINE Goal == /\ migPc' = "attempt" => /\ migOld' \in KeysOf(Owner(migKey'))
                                            /\ phase'[migOld'] \in {"active", "revoked"}
                   /\ migPc' = "reassigned" => phase'[migOld'] = "revoked"
<1> USE DEF rows, nodes, mig, hist
<1>0. TypeOK /\ KeysInOrder /\ MigratorPlace /\ MigratorOld
  BY DEF MInv
<1>a. \A j \in Keys : /\ phase[j] = "revoked" => phase'[j] = "revoked"
                      /\ phase[j] \in {"active", "revoked"} => phase'[j] \in {"active", "revoked"}
  BY <1>0, RowsStay
<1>b. migOld \in Keys \cup {NoKey}
  BY <1>0 DEF TypeOK
<1>1. CASE UNCHANGED <<migPc, migKey, migOld>>
  BY <1>0, <1>1, <1>a, <1>b DEF MigratorOld
<1>2. CASE migPc' \notin {"attempt", "reassigned"}
  BY <1>2
<1>3. CASE OldKeyForSub
  <2>1. /\ UNCHANGED <<phase, migKey>> /\ migPc' = "attempt"
        /\ \E k \in KeysOf(Owner(migKey)) \cup {NoKey} :
             migOld' = k /\ (k = NoKey \/ phase[k] = "active")
    BY <1>3 DEF OldKeyForSub
  <2> QED BY <2>1
<1>4. ASSUME NEW k \in Keys, Reassign(k) PROVE Goal
  <2>1. /\ migPc = "attempt" /\ migKey = k /\ migPc' = "reassigned" /\ UNCHANGED migOld
        /\ phase[k] = "stored"
        /\ \A j \in Keys : j # k /\ Owner(j) = Owner(k) /\ phase[j] = "active" => phase'[j] = "revoked"
    BY <1>4, KeyParts DEF Reassign, Running
  <2>2. migOld \in KeysOf(Owner(k)) /\ phase[migOld] \in {"active", "revoked"}
    BY <1>0, <2>1 DEF MigratorOld
  <2>3. migOld \in Keys /\ Owner(migOld) = Owner(k) /\ migOld # k
    BY <2>1, <2>2 DEF KeysOf
  <2> QED BY <1>a, <2>1, <2>2, <2>3
<1>5. ASSUME NEW k \in Keys, Moves(k) PROVE Goal
  BY <1>1, <1>2, <1>5 DEF Moves
<1>6. ASSUME NEW k \in Keys, Persist(k) PROVE Goal
  BY <1>1, <1>6 DEF Persist
<1>7. ASSUME NEW s \in Subs, SoftDelete(s) PROVE Goal
  BY <1>1, <1>7 DEF SoftDelete
<1>8. ASSUME NEW s \in Subs, SelectServer(s) \/ NoReserveServer(s) PROVE Goal
  BY <1>1, <1>8 DEF SelectServer, NoReserveServer
<1>9. ASSUME NEW s \in Subs, SelectReserveServer(s) PROVE Goal
  BY <1>2, <1>9 DEF SelectReserveServer
<1>10. CASE ActiveSubsOnServer \/ ListingFails \/ DeprovisionOld \/ MigrationEnds \/ \E v \in Servers : ServerFails(v)
  BY <1>2, <1>10 DEF ActiveSubsOnServer, ListingFails, DeprovisionOld, MigrationEnds, ServerFails
<1>11. CASE \E k \in Keys : LateAddition(k)
  BY <1>1, <1>11 DEF LateAddition
<1>12. CASE \/ \E d \in Keys : RemovePeer(d) \/ PurgeObjects(d)
            \/ \E s \in Subs : Expire(s) \/ ExtendSubscription(s)
  BY <1>1, <1>12 DEF RemovePeer, PurgeObjects, Expire, ExtendSubscription
<1>13. CASE (\E v \in Servers : SetServerStatus(v)) \/ UNCHANGED vars
  BY <1>1, <1>13 DEF SetServerStatus, vars
<1>14. ASSUME NEW k \in Keys, Attempt(k) PROVE Goal
  BY <1>0, <1>4, <1>5, <1>6, <1>14, AttemptShape
<1> HIDE DEF Goal
<1>15. Goal
  BY <1>3, <1>7, <1>8, <1>9, <1>10, <1>11, <1>12, <1>13, <1>14 DEF Next, Migrator, Goal
<1> QED BY <1>15 DEF Goal

\* What a Delete will remove it has itself revoked.
LEMMA DeletesStep == MInv /\ [Next]_vars => DeletesOld'
<1> SUFFICES ASSUME MInv, [Next]_vars PROVE DeletesOld'
  OBVIOUS
<1> USE DEF rows, nodes, mig, hist
<1>0. TypeOK /\ KeysInOrder /\ DeletesOld
  BY DEF MInv
<1>a. \A j \in Keys : phase[j] = "revoked" => phase'[j] = "revoked"
  BY <1>0, RowsStay
<1>b. \A d \in Keys : del[d] \in DelRows
  BY <1>0 DEF TypeOK, DelRows
<1>1. ASSUME \A d \in Keys : /\ del'[d].pc = "remove" => del[d].pc = "remove" /\ del'[d].key = del[d].key
                             /\ del'[d].objs \subseteq del[d].objs
      PROVE  DeletesOld'
  <2>1. \A d \in Keys : del[d].objs \subseteq Keys
    BY <1>b DEF DelRows
  <2> QED BY <1>0, <1>1, <1>a, <2>1 DEF DeletesOld
<1>2. CASE UNCHANGED del
  BY <1>1, <1>2
<1>c. ASSUME NEW d \in Keys, NEW row, del' = [del EXCEPT ![d] = row]
      PROVE  del'[d] = row /\ \A e \in Keys : e # d => del'[e] = del[e]
  BY <1>0, <1>c DEF TypeOK
<1>3. ASSUME NEW s \in Subs, SoftDelete(s) PROVE DeletesOld'
  <2> DEFINE K == Latest(s)
             R == KeysOf(s) \cap Recorded
  <2>1. PICK k \in R :
          del' = [del EXCEPT ![K] = [pc |-> "remove", srv |-> home[s], key |-> k, objs |-> R]]
    BY <1>3 DEF SoftDelete
  <2>2. phase' = [j \in Keys |-> IF Owner(j) = s /\ phase[j] = "active" THEN "revoked" ELSE phase[j]]
    BY <1>3 DEF SoftDelete
  <2>3. \A j \in R : j \in Keys /\ phase'[j] = "revoked"
    BY <2>2 DEF KeysOf, Recorded
  <2>4. K \in Keys
    BY LatestKey DEF KeysOf
  <2> HIDE DEF K, R
  <2>5. del'[K].key = k /\ del'[K].objs = R /\ \A d \in Keys : d # K => del'[d] = del[d]
    <3> DEFINE row == [pc |-> "remove", srv |-> home[s], key |-> k, objs |-> R]
    <3>1. row.key = k /\ row.objs = R
      OBVIOUS
    <3>2. del' = [del EXCEPT ![K] = row]
      BY <2>1
    <3> HIDE DEF row
    <3> QED BY <1>c, <2>4, <3>1, <3>2
  <2>6. \A d \in Keys : d # K => del[d].objs \subseteq Keys
    BY <1>b DEF DelRows
  <2> QED BY <1>0, <1>a, <2>1, <2>3, <2>5, <2>6 DEF DeletesOld
<1>4. ASSUME NEW d \in Keys, RemovePeer(d) PROVE DeletesOld'
  <2> DEFINE row == [del[d] EXCEPT !.pc = "purge", !.srv = NoServer, !.key = NoKey]
  <2>1. row.pc = "purge" /\ row.objs = del[d].objs
    BY <1>b DEF DelRows
  <2>2. del' = [del EXCEPT ![d] = row]
    BY <1>0, <1>4 DEF RemovePeer, TypeOK
  <2> HIDE DEF row
  <2>3. del'[d].pc = "purge" /\ del'[d].objs = del[d].objs /\ \A e \in Keys : e # d => del'[e] = del[e]
    BY <1>c, <2>1, <2>2
  <2> QED BY <1>1, <2>3
<1>5. ASSUME NEW d \in Keys, PurgeObjects(d) PROVE DeletesOld'
  <2> DEFINE row == [del[d] EXCEPT !.pc = "done", !.objs = {}]
  <2>1. row.pc = "done" /\ row.objs = {}
    BY <1>b DEF DelRows
  <2>2. del' = [del EXCEPT ![d] = row]
    BY <1>0, <1>5 DEF PurgeObjects, TypeOK
  <2> HIDE DEF row
  <2>3. del'[d].pc = "done" /\ del'[d].objs = {} /\ \A e \in Keys : e # d => del'[e] = del[e]
    BY <1>c, <2>1, <2>2
  <2> QED BY <1>1, <2>3
<1>6. ASSUME NEW k \in Keys, Attempt(k) PROVE DeletesOld'
  <2>1. UNCHANGED del
    BY <1>0, <1>6, AttemptShape DEF Moves, Persist, Reassign
  <2> QED BY <1>2, <2>1
<1>7. CASE \E s \in Subs : SelectServer(s) \/ NoReserveServer(s) \/ SelectReserveServer(s)
                           \/ Expire(s) \/ ExtendSubscription(s)
  BY <1>2, <1>7 DEF SelectServer, NoReserveServer, SelectReserveServer, Expire, ExtendSubscription
<1>8. CASE ActiveSubsOnServer \/ ListingFails \/ OldKeyForSub \/ DeprovisionOld \/ MigrationEnds
           \/ \E k \in Keys : LateAddition(k)
  BY <1>2, <1>8 DEF ActiveSubsOnServer, ListingFails, OldKeyForSub, DeprovisionOld, MigrationEnds, LateAddition
<1>9. CASE (\E v \in Servers : ServerFails(v) \/ SetServerStatus(v)) \/ UNCHANGED vars
  BY <1>2, <1>9 DEF ServerFails, SetServerStatus, vars
<1> QED BY <1>3, <1>4, <1>5, <1>6, <1>7, <1>8, <1>9 DEF Next, Migrator

\* The three transactions on vpn_keys each leave at most one active key.
LEMMA ServedStep == MInv /\ [Next]_vars => SubsServed'
<1> SUFFICES ASSUME MInv, [Next]_vars PROVE SubsServed'
  OBVIOUS
<1> USE DEF rows, nodes, mig, hist
<1>0. TypeOK /\ KeysInOrder /\ MigratorPlace /\ SubsServed
  BY DEF MInv
<1>a. \A s \in Subs : /\ \A j \in KeysOf(s) : j \in Keys /\ Owner(j) = s /\ j[2] \in Nat /\ j = <<s, j[2]>>
                      /\ <<s, 1>> \in KeysOf(s) /\ <<s, 1>>[2] = 1
  BY KeyParts DEF KeysOf
<1>1. ASSUME \A j \in Keys : {phase[j], phase'[j]} \cap {"active", "revoked"} # {} => phase'[j] = phase[j],
             \A j \in Keys : phase[j] = "active" => on'[j] = on[j],
             UNCHANGED home,
             \A s \in Subs : status'[s] = status[s] \/ {status[s], status'[s]} \subseteq {"active", "expired"},
             \A j \in Keys : status[Owner(j)] = "none" /\ j[2] > 1 => phase'[j] = phase[j]
      PROVE  SubsServed'
  <2> SUFFICES ASSUME NEW s \in Subs
               PROVE  /\ status'[s] = "none" =>
                           \A k \in KeysOf(s) : /\ phase'[k] \notin {"active", "revoked"}
                                                /\ k[2] > 1 => phase'[k] = "unused"
                      /\ status'[s] # "none" => phase'[<<s, 1>>] \in {"active", "revoked"} /\ home'[s] \in Servers
                      /\ status'[s] = "deleted" => \A k \in KeysOf(s) : phase'[k] # "active"
                      /\ Live(s)' => \E k \in KeysOf(s) : Serves(k, s)'
    BY DEF SubsServed
  <2>1. status'[s] = "none" => status[s] = "none"
    BY <1>1
  <2>2. status[s] = "none" => \A k \in KeysOf(s) : /\ phase[k] \notin {"active", "revoked"}
                                                   /\ k[2] > 1 => phase[k] = "unused"
    BY <1>0 DEF SubsServed
  <2>3. status'[s] = "none" => \A k \in KeysOf(s) : /\ phase'[k] \notin {"active", "revoked"}
                                                    /\ k[2] > 1 => phase'[k] = "unused"
    BY <1>1, <1>a, <2>1, <2>2
  <2>4. status'[s] # "none" => phase'[<<s, 1>>] \in {"active", "revoked"} /\ home'[s] \in Servers
    BY <1>0, <1>1, <1>a DEF SubsServed
  <2>5. status'[s] = "deleted" => \A k \in KeysOf(s) : phase'[k] # "active"
    BY <1>0, <1>1, <1>a DEF SubsServed
  <2>6. ASSUME Live(s)' PROVE \E k \in KeysOf(s) : Serves(k, s)'
    <3>1. Live(s)
      BY <1>1, <2>6 DEF Live
    <3>2. PICK k \in KeysOf(s) : Serves(k, s)
      BY <1>0, <3>1 DEF SubsServed
    <3>3. phase'[k] = "active" /\ on'[k] = home'[s]
      BY <1>1, <1>a, <3>2 DEF Serves
    <3>4. \A j \in KeysOf(s) : j # k => /\ phase'[j] # "active"
                                        /\ phase'[j] = "revoked" => j[2] < k[2]
      BY <1>1, <1>a, <3>2 DEF Serves
    <3> QED BY <3>3, <3>4 DEF Serves
  <2> QED BY <2>3, <2>4, <2>5, <2>6
<1>2. ASSUME NEW s \in Subs, SelectServer(s) \/ SelectReserveServer(s) PROVE SubsServed'
  <2>1. PICK k \in Keys, v \in up : Takes(s, k, v)
    BY <1>2, TakesKey
  <2>2. \A j \in Keys : /\ phase'[j] = IF j = k THEN "selected" ELSE phase[j]
                        /\ on'[j] = IF j = k THEN v ELSE on[j]
    BY <1>0, <2>1 DEF TypeOK, Takes
  <2>3. UNCHANGED <<status, home>> /\ phase[k] = "unused" /\ Owner(k) = s
    BY <2>1 DEF Takes
  <2>4. k[2] > 1 => status[s] # "none"
    BY <1>0, <2>1 DEF MigratorPlace, Migrating, Takes
  <2> QED BY <1>1, <2>2, <2>3, <2>4
<1>3. ASSUME NEW k \in Keys, Moves(k) PROVE SubsServed'
  <2>1. PICK p \in {"addressed", "provisioned", "stored", "failed"} : phase' = [phase EXCEPT ![k] = p]
    BY <1>3 DEF Moves
  <2>2. \A j \in Keys : phase'[j] = IF j = k THEN p ELSE phase[j]
    BY <1>0, <2>1 DEF TypeOK
  <2>3. UNCHANGED <<status, home, on>> /\ Running(k) /\ phase[k] \in Going
    BY <1>3 DEF Moves
  <2>4. k[2] > 1 => status[Owner(k)] # "none"
    BY <1>0, <2>3, KeyParts DEF MigratorPlace, Migrating, Running
  <2> QED BY <1>1, <2>2, <2>3, <2>4 DEF Going
<1>4. ASSUME UNCHANGED <<phase, on, home>>,
             \A s \in Subs : status'[s] = status[s] \/ {status[s], status'[s]} \subseteq {"active", "expired"}
      PROVE  SubsServed'
  BY <1>1, <1>4
<1>5. ASSUME NEW s \in Subs,
             \A t \in Subs : t # s => status'[t] = status[t] /\ home'[t] = home[t],
             \A j \in Keys : Owner(j) # s => phase'[j] = phase[j] /\ on'[j] = on[j],
             status'[s] # "none", phase'[<<s, 1>>] \in {"active", "revoked"}, home'[s] \in Servers,
             status'[s] = "deleted" => \A k \in KeysOf(s) : phase'[k] # "active",
             Live(s)' => \E k \in KeysOf(s) : Serves(k, s)'
      PROVE  SubsServed'
  <2>1. ASSUME NEW t \in Subs, t # s
        PROVE  /\ status'[t] = "none" =>
                    \A k \in KeysOf(t) : /\ phase'[k] \notin {"active", "revoked"}
                                         /\ k[2] > 1 => phase'[k] = "unused"
               /\ status'[t] # "none" => phase'[<<t, 1>>] \in {"active", "revoked"} /\ home'[t] \in Servers
               /\ status'[t] = "deleted" => \A k \in KeysOf(t) : phase'[k] # "active"
               /\ Live(t)' => \E k \in KeysOf(t) : Serves(k, t)'
    <3>1. status'[t] = status[t] /\ home'[t] = home[t]
      BY <1>5, <2>1
    <3>2. \A k \in KeysOf(t) : phase'[k] = phase[k] /\ on'[k] = on[k]
      BY <1>5, <1>a, <2>1
    <3>3. \A k \in KeysOf(t) : Serves(k, t)' <=> Serves(k, t)
      BY <3>1, <3>2 DEF Serves
    <3>4. Live(t)' <=> Live(t)
      BY <3>1 DEF Live
    <3>5. /\ status[t] = "none" =>
               \A k \in KeysOf(t) : /\ phase[k] \notin {"active", "revoked"}
                                    /\ k[2] > 1 => phase[k] = "unused"
          /\ status[t] # "none" => phase[<<t, 1>>] \in {"active", "revoked"} /\ home[t] \in Servers
          /\ status[t] = "deleted" => \A k \in KeysOf(t) : phase[k] # "active"
          /\ Live(t) => \E k \in KeysOf(t) : Serves(k, t)
      BY <1>0 DEF SubsServed
    <3> QED BY <1>a, <3>1, <3>2, <3>3, <3>4, <3>5
  <2> QED BY <1>5, <2>1 DEF SubsServed
<1>6. ASSUME NEW k \in Keys, Persist(k) PROVE SubsServed'
  <2> DEFINE s == Owner(k)
  <2>1. /\ k[2] = 1 /\ phase[k] = "stored" /\ phase' = [phase EXCEPT ![k] = "active"]
        /\ status' = [status EXCEPT ![s] = "active"] /\ home' = [home EXCEPT ![s] = on[k]]
        /\ UNCHANGED on
    BY <1>6 DEF Persist
  <2>2. s \in Subs /\ k = <<s, 1>> /\ k \in KeysOf(s)
    BY <2>1, KeyParts DEF KeysOf
  <2> HIDE DEF s
  <2>3. \A j \in Keys : phase'[j] = IF j = k THEN "active" ELSE phase[j]
    BY <1>0, <2>1 DEF TypeOK
  <2>4. \A t \in Subs : /\ status'[t] = IF t = s THEN "active" ELSE status[t]
                        /\ home'[t] = IF t = s THEN on[k] ELSE home[t]
    BY <1>0, <2>1 DEF TypeOK
  <2>5. on[k] \in Servers
    BY <1>0, <2>1 DEF KeysInOrder
  <2>6. status[s] = "none"
    BY <1>0, <2>1, <2>2 DEF SubsServed
  <2>7. \A j \in KeysOf(s) : j # k => phase'[j] \notin {"active", "revoked"}
    BY <1>0, <1>a, <2>2, <2>3, <2>6 DEF SubsServed
  <2>8. Serves(k, s)'
    BY <2>1, <2>2, <2>3, <2>4, <2>7 DEF Serves
  <2>9. \A j \in Keys : Owner(j) # s => phase'[j] = phase[j] /\ on'[j] = on[j]
    BY <1>a, <2>1, <2>2, <2>3
  <2> QED BY <1>5, <2>2, <2>3, <2>4, <2>5, <2>8, <2>9
<1>7. ASSUME NEW k \in Keys, Reassign(k) PROVE SubsServed'
  <2> DEFINE s == Owner(k)
  <2>1. /\ migPc = "attempt" /\ migKey = k /\ k[2] > 1 /\ phase[k] = "stored"
        /\ phase' = [j \in Keys |-> IF j = k THEN "active"
                                    ELSE IF Owner(j) = s /\ phase[j] = "active" THEN "revoked"
                                    ELSE phase[j]]
        /\ status' = [status EXCEPT ![s] = "active"] /\ home' = [home EXCEPT ![s] = on[k]]
        /\ UNCHANGED on
    BY <1>7, KeyParts DEF Reassign, Running
  <2>2. s \in Subs /\ k \in KeysOf(s)
    BY KeyParts DEF KeysOf
  <2>a. \A j \in Keys : Owner(j) = s => j \in KeysOf(s)
    BY DEF KeysOf
  <2>b. Owner(k) = s
    OBVIOUS
  <2> HIDE DEF s
  <2>3. \A t \in Subs : /\ status'[t] = IF t = s THEN "active" ELSE status[t]
                        /\ home'[t] = IF t = s THEN on[k] ELSE home[t]
    BY <1>0, <2>1 DEF TypeOK
  <2>4. on[k] \in Servers
    BY <1>0, <2>1 DEF KeysInOrder
  <2>5. status[s] # "none" /\ \A j \in KeysOf(s) : j[2] > k[2] => phase[j] = "unused"
    BY <1>0, <2>1, <2>b, <2>2 DEF MigratorPlace, Migrating, Underway, InFlight
  <2>6. phase'[<<s, 1>>] \in {"active", "revoked"}
    BY <1>0, <1>a, <2>1, <2>2, <2>5 DEF SubsServed
  <2>7. ASSUME NEW j \in KeysOf(s), j # k
        PROVE  phase'[j] # "active" /\ (phase'[j] = "revoked" => j[2] < k[2])
    <3>1. j \in Keys /\ Owner(j) = s /\ j[2] \in Nat /\ k[2] \in Nat /\ j[2] # k[2]
      BY <1>a, <2>2, <2>7
    <3>2. phase'[j] # "active"
      BY <2>1, <2>7, <3>1
    <3>3. phase'[j] = "revoked" => phase[j] # "unused"
      BY <2>1, <2>7, <3>1
    <3> QED BY <2>5, <3>1, <3>2, <3>3
  <2>8. Serves(k, s)'
    BY <2>1, <2>2, <2>3, <2>7 DEF Serves
  <2>9. \A j \in Keys : Owner(j) # s => phase'[j] = phase[j] /\ on'[j] = on[j]
    BY <1>a, <2>1, <2>2
  <2> QED BY <1>5, <2>2, <2>3, <2>4, <2>6, <2>8, <2>9
<1>8. ASSUME NEW s \in Subs, SoftDelete(s) PROVE SubsServed'
  <2>1. /\ phase' = [k \in Keys |-> IF Owner(k) = s /\ phase[k] = "active" THEN "revoked" ELSE phase[k]]
        /\ status' = [status EXCEPT ![s] = "deleted"] /\ UNCHANGED <<home, on>>
        /\ status[s] \in {"active", "expired"}
    BY <1>8 DEF SoftDelete
  <2>2. \A t \in Subs : status'[t] = IF t = s THEN "deleted" ELSE status[t]
    BY <1>0, <2>1 DEF TypeOK
  <2>3. phase'[<<s, 1>>] \in {"active", "revoked"} /\ home'[s] \in Servers
    BY <1>0, <1>a, <2>1 DEF SubsServed
  <2>4. \A k \in KeysOf(s) : phase'[k] # "active"
    BY <1>a, <2>1
  <2>5. \A j \in Keys : Owner(j) # s => phase'[j] = phase[j] /\ on'[j] = on[j]
    BY <2>1
  <2>6. ~ Live(s)'
    BY <2>2 DEF Live
  <2> QED BY <1>5, <2>1, <2>2, <2>3, <2>4, <2>5, <2>6
<1>9. CASE ActiveSubsOnServer \/ ListingFails \/ (\E v \in Servers : ServerFails(v)) \/ \E s \in Subs : NoReserveServer(s)
  BY <1>4, <1>9 DEF ActiveSubsOnServer, ListingFails, ServerFails, NoReserveServer
<1>10. CASE Quiet
  BY <1>4, <1>10 DEF Quiet
<1> QED BY <1>0, <1>2, <1>3, <1>6, <1>7, <1>8, <1>9, <1>10, StepShapes

\* What an addition and a removal do to the keys a node accepts.
LEMMA AddPeerPeers ==
  ASSUME TypeOK, NEW k \in Keys, on[k] \in Servers, AddPeer(k)
  PROVE  \A v \in Servers, j \in Keys : j \in peers'[v] <=> (j \in peers[v] \/ (v = on[k] /\ j = k))
BY DEF AddPeer, TypeOK

LEMMA DropPeerPeers ==
  ASSUME TypeOK, NEW u, NEW k, DropPeer(u, k)
  PROVE  \A v \in Servers, j \in Keys : j \in peers'[v] <=> (j \in peers[v] /\ ~(v = u /\ j = k))
BY DEF DropPeer, TypeOK

\* The removals are of revoked keys.
LEMMA PlacedStep == MInv /\ [Next]_vars => Placed'
<1> SUFFICES ASSUME MInv, [Next]_vars PROVE Placed'
  OBVIOUS
<1> USE DEF rows, nodes, mig, hist
<1>0. /\ TypeOK /\ KeysInOrder /\ MigratorPlace /\ MigratorOld /\ DeletesOld /\ Placed
      /\ \A j \in Keys : phase[j] # "unused" => on[j] \in Servers
  BY DEF MInv, KeysInOrder
<1> DEFINE OnNode == {"provisioned", "stored", "active"}
           Kept == {"stored", "active"}
<1>1. ASSUME \A j \in Keys : phase'[j] \in OnNode =>
               on'[j] = on[j] /\ (phase[j] \in OnNode \/ j \in peers'[on[j]]),
             \A j \in Keys : phase'[j] \in OnNode /\ j \in peers[on[j]] => j \in peers'[on[j]],
             \A j \in Keys : phase'[j] \in Kept => phase[j] \in Kept \/ j \in objects',
             \A j \in Keys : phase'[j] \in Kept /\ j \in objects => j \in objects'
      PROVE  Placed'
  BY <1>0, <1>1 DEF Placed
<1>2. ASSUME UNCHANGED <<peers, objects>>,
             \A j \in Keys : phase'[j] \in OnNode => phase[j] \in OnNode /\ on'[j] = on[j],
             \A j \in Keys : phase'[j] \in Kept => phase[j] \in Kept
      PROVE  Placed'
  BY <1>1, <1>2
<1>3. ASSUME NEW s \in Subs, SelectServer(s) \/ SelectReserveServer(s) PROVE Placed'
  <2>1. PICK k \in Keys, v \in up : Takes(s, k, v)
    BY <1>3, TakesKey
  <2>2. \A j \in Keys : /\ phase'[j] = IF j = k THEN "selected" ELSE phase[j]
                        /\ on'[j] = IF j = k THEN v ELSE on[j]
    BY <1>0, <2>1 DEF TypeOK, Takes
  <2>3. UNCHANGED <<peers, objects>>
    BY <1>3 DEF SelectServer, SelectReserveServer
  <2> QED BY <1>2, <2>2, <2>3
<1>4. ASSUME NEW k \in Keys, NEW p, phase' = [phase EXCEPT ![k] = p]
      PROVE  \A j \in Keys : phase'[j] = IF j = k THEN p ELSE phase[j]
  BY <1>0, <1>4 DEF TypeOK
<1>5. ASSUME NEW k \in Keys, Allocate(k) PROVE Placed'
  <2>1. phase' = [phase EXCEPT ![k] = "addressed"] /\ UNCHANGED <<on, peers, objects>>
    BY <1>5 DEF Allocate
  <2> QED BY <1>2, <1>4, <2>1
<1>6. ASSUME NEW k \in Keys, Failed(k), \A v \in Servers : peers[v] \subseteq peers'[v], objects \subseteq objects'
      PROVE  Placed'
  <2>1. phase' = [phase EXCEPT ![k] = "failed"] /\ UNCHANGED on
    BY <1>6 DEF Failed
  <2>2. \A j \in Keys : phase'[j] = IF j = k THEN "failed" ELSE phase[j]
    BY <1>4, <2>1
  <2>3. \A j \in Keys : phase'[j] \in OnNode => on[j] \in Servers
    BY <1>0, <2>2
  <2> QED BY <1>1, <1>6, <2>1, <2>2, <2>3
<1>7. ASSUME NEW k \in Keys, GenerateFails(k) \/ NotRecorded(k) PROVE Placed'
  BY <1>6, <1>7 DEF GenerateFails, NotRecorded
<1>8. ASSUME NEW k \in Keys, Provision(k) PROVE Placed'
  <2>1. /\ phase[k] = "addressed" /\ phase' = [phase EXCEPT ![k] = "provisioned"]
        /\ UNCHANGED <<on, objects>> /\ AddPeer(k)
    BY <1>8 DEF Provision
  <2>2. on[k] \in Servers
    BY <1>0, <2>1
  <2>3. \A j \in Keys : phase'[j] = IF j = k THEN "provisioned" ELSE phase[j]
    BY <1>4, <2>1
  <2>4. k \in peers'[on[k]]
    BY <1>0, <2>1, <2>2, AddPeerPeers
  <2>5. \A j \in Keys : phase'[j] \in OnNode => on[j] \in Servers
    BY <1>0, <2>2, <2>3
  <2>6. \A j \in Keys : phase'[j] \in OnNode /\ j \in peers[on[j]] => j \in peers'[on[j]]
    BY <1>0, <2>1, <2>2, <2>5, AddPeerPeers
  <2> QED BY <1>1, <2>1, <2>3, <2>4, <2>6
<1>9. ASSUME NEW k \in Keys, ProvisionFails(k) PROVE Placed'
  <2>1. phase[k] = "addressed" /\ Failed(k) /\ UNCHANGED objects /\ (AddPeer(k) \/ UNCHANGED peers)
    BY <1>9 DEF ProvisionFails
  <2>2. on[k] \in Servers
    BY <1>0, <2>1
  <2>3. CASE AddPeer(k)
    <3>1. \A v \in Servers : peers[v] \subseteq Keys
      BY <1>0 DEF TypeOK
    <3>2. \A v \in Servers : peers[v] \subseteq peers'[v]
      BY <1>0, <2>2, <2>3, <3>1, AddPeerPeers
    <3> QED BY <1>6, <2>1, <3>2
  <2>4. CASE UNCHANGED peers
    BY <1>6, <2>1, <2>4
  <2> QED BY <2>1, <2>3, <2>4
<1>10. ASSUME NEW k \in Keys, StoreConfig(k) PROVE Placed'
  <2>1. /\ phase[k] = "provisioned" /\ phase' = [phase EXCEPT ![k] = "stored"]
        /\ UNCHANGED <<on, peers>> /\ objects' = objects \cup {k}
    BY <1>10 DEF StoreConfig
  <2> QED BY <1>1, <1>4, <2>1
<1>11. ASSUME NEW k \in Keys, StoreFails(k) PROVE Placed'
  <2>1. Failed(k) /\ UNCHANGED peers /\ objects \subseteq objects'
    BY <1>11 DEF StoreFails
  <2> QED BY <1>6, <2>1
<1>12. ASSUME NEW k \in Keys, Persist(k) PROVE Placed'
  <2>1. /\ phase[k] = "stored" /\ phase' = [phase EXCEPT ![k] = "active"]
        /\ UNCHANGED <<on, peers, objects>>
    BY <1>12 DEF Persist
  <2> QED BY <1>2, <1>4, <2>1
<1>13. ASSUME NEW k \in Keys, Reassign(k) PROVE Placed'
  <2>1. /\ phase[k] = "stored" /\ UNCHANGED <<on, peers, objects>>
        /\ \A j \in Keys : phase'[j] = IF j = k THEN "active"
                                       ELSE IF Owner(j) = Owner(k) /\ phase[j] = "active" THEN "revoked"
                                       ELSE phase[j]
    BY <1>13 DEF Reassign
  <2> QED BY <1>2, <2>1
<1>14. ASSUME NEW s \in Subs, SoftDelete(s) PROVE Placed'
  <2>1. /\ UNCHANGED <<on, peers, objects>>
        /\ \A j \in Keys : phase'[j] = IF Owner(j) = s /\ phase[j] = "active" THEN "revoked" ELSE phase[j]
    BY <1>14 DEF SoftDelete
  <2> QED BY <1>2, <2>1
<1>15. ASSUME NEW u, NEW k, DropPeer(u, k), k \in Keys, phase[k] = "revoked", UNCHANGED <<phase, on, objects>>
       PROVE  Placed'
  <2>1. \A j \in Keys : phase[j] \in OnNode => on[j] \in Servers /\ j # k
    BY <1>0, <1>15
  <2>2. \A j \in Keys : phase[j] \in OnNode /\ j \in peers[on[j]] => j \in peers'[on[j]]
    BY <1>0, <1>15, <2>1, DropPeerPeers
  <2> QED BY <1>1, <1>15, <2>2
<1>16. CASE DeprovisionOld
  <2>1. /\ UNCHANGED <<phase, on, objects>> /\ migPc = "reassigned"
        /\ (migOld # NoKey /\ DropPeer(migFrom, migOld)) \/ UNCHANGED peers
    BY <1>16 DEF DeprovisionOld
  <2>2. migOld # NoKey => migOld \in Keys /\ phase[migOld] = "revoked"
    BY <1>0, <2>1 DEF MigratorOld, TypeOK
  <2> QED BY <1>2, <1>15, <2>1, <2>2
<1>17. ASSUME NEW d \in Keys, RemovePeer(d) PROVE Placed'
  <2>1. /\ UNCHANGED <<phase, on, objects>> /\ del[d].pc = "remove"
        /\ DropPeer(del[d].srv, del[d].key) \/ UNCHANGED peers
    BY <1>17 DEF RemovePeer
  <2>2. del[d].key \in Keys /\ phase[del[d].key] = "revoked"
    BY <1>0, <2>1 DEF DeletesOld
  <2> QED BY <1>2, <1>15, <2>1, <2>2
<1>18. ASSUME NEW d \in Keys, PurgeObjects(d) PROVE Placed'
  <2>1. /\ UNCHANGED <<phase, on, peers>>
        /\ \A j \in objects : j \in objects' \/ j \in del[d].objs
    BY <1>18 DEF PurgeObjects
  <2>2. \A j \in del[d].objs : phase[j] = "revoked"
    BY <1>0 DEF DeletesOld
  <2> QED BY <1>1, <2>1, <2>2
<1>19. ASSUME NEW k \in Keys, LateAddition(k) PROVE Placed'
  <2>1. UNCHANGED <<phase, on, objects>> /\ k \in late /\ AddPeer(k)
    BY <1>19 DEF LateAddition
  <2>2. on[k] \in Servers
    BY <1>0, <2>1 DEF KeysInOrder
  <2>3. \A j \in Keys : phase[j] \in OnNode /\ j \in peers[on[j]] => j \in peers'[on[j]]
    BY <1>0, <2>1, <2>2, AddPeerPeers
  <2> QED BY <1>1, <2>1, <2>3
<1>20. CASE UNCHANGED <<phase, on, peers, objects>>
  BY <1>2, <1>20
<1>21. CASE ActiveSubsOnServer \/ ListingFails \/ OldKeyForSub \/ MigrationEnds
  BY <1>20, <1>21 DEF ActiveSubsOnServer, ListingFails, OldKeyForSub, MigrationEnds
<1>22. CASE \E s \in Subs : NoReserveServer(s) \/ Expire(s) \/ ExtendSubscription(s)
  BY <1>20, <1>22 DEF NoReserveServer, Expire, ExtendSubscription
<1>23. CASE (\E v \in Servers : ServerFails(v) \/ SetServerStatus(v)) \/ UNCHANGED vars
  BY <1>20, <1>23 DEF ServerFails, SetServerStatus, vars
<1>24. ASSUME NEW k \in Keys, Attempt(k) PROVE Placed'
  BY <1>5, <1>7, <1>8, <1>9, <1>10, <1>11, <1>12, <1>13, <1>24 DEF Attempt
<1> QED BY <1>3, <1>14, <1>16, <1>17, <1>18, <1>19, <1>21, <1>22, <1>23, <1>24 DEF Next, Migrator

LEMMA MInvStep == MInv /\ [Next]_vars => MInv'
<1> SUFFICES ASSUME MInv, [Next]_vars PROVE MInv'
  OBVIOUS
<1>1. TypeOK'
  BY TypeStep DEF MInv
<1>2. KeysInOrder' /\ MigratorPlace' /\ MigratorOld' /\ DeletesOld' /\ SubsServed' /\ Placed'
  BY OrderStep, PlaceStep, OldStep, DeletesStep, ServedStep, PlacedStep
<1> QED BY <1>1, <1>2 DEF MInv

LEMMA MInvAlways == Spec => []MInv
<1>1. MInv /\ [Next]_vars => MInv'
  BY MInvStep
<1> QED BY <1>1, MInvInit, PTL DEF Spec

\* Every reachable state is well typed, whatever the requests, the migrations and
\* the nodes do in between.
THEOREM TypeCorrect == Spec => []TypeOK
<1>1. MInv => TypeOK
  BY DEF MInv
<1> QED BY <1>1, MInvAlways, PTL

\* The key that serves a subscription is its latest recorded one.
LEMMA ServingIsLatest ==
  ASSUME MInv, NEW s \in Subs, NEW k \in KeysOf(s), Serves(k, s)
  PROVE  Latest(s) = k
<1> DEFINE P(x) == \A j \in KeysOf(s) \cap Recorded : j[2] <= x[2]
<1>1. \A j \in KeysOf(s) : j \in Keys /\ j[2] \in Nat /\ j = <<s, j[2]>>
  BY KeyParts DEF KeysOf
<1>2. k \in KeysOf(s) \cap Recorded
  BY <1>1 DEF Serves, Recorded
<1>3. P(k)
  BY <1>1 DEF Serves, Recorded
<1>4. ASSUME NEW x \in KeysOf(s) \cap Recorded, P(x) PROVE x = k
  <2>1. x[2] <= k[2] /\ k[2] <= x[2]
    BY <1>2, <1>3, <1>4
  <2>2. x[2] = k[2]
    BY <1>1, <1>2, <2>1
  <2> QED BY <1>1, <2>2
<1>5. Latest(s) = CHOOSE x \in KeysOf(s) \cap Recorded : P(x)
  BY DEF Latest
<1> HIDE DEF P
<1> QED BY <1>2, <1>3, <1>4, <1>5

\* A subscription that is not deleted has exactly one active key, that of its
\* latest configuration, on its own server; a deleted one has none: Persist,
\* Reassign and SoftDelete may interleave in any way.
THEOREM OneKeyAtATime == Spec => []OneActiveKey
<1>1. ASSUME MInv PROVE OneActiveKey
  <2> SUFFICES ASSUME NEW s \in Subs
               PROVE  IF Live(s) THEN CurrentKeys(s) = {Latest(s)} /\ on[Latest(s)] = home[s]
                      ELSE CurrentKeys(s) = {}
    BY DEF OneActiveKey
  <2>1. CASE Live(s)
    <3>1. PICK k \in KeysOf(s) : Serves(k, s)
      BY <1>1, <2>1 DEF MInv, SubsServed
    <3>2. Latest(s) = k
      BY <1>1, <3>1, ServingIsLatest
    <3>3. CurrentKeys(s) = {k}
      BY <3>1 DEF CurrentKeys, Serves
    <3> QED BY <2>1, <3>1, <3>2, <3>3 DEF Serves
  <2>2. CASE ~ Live(s)
    <3>1. status[s] = "none" \/ status[s] = "deleted"
      BY <1>1, <2>2 DEF MInv, TypeOK, Live
    <3>2. \A k \in KeysOf(s) : phase[k] # "active"
      BY <1>1, <3>1 DEF MInv, SubsServed
    <3> QED BY <2>2, <3>2 DEF CurrentKeys
  <2> QED BY <2>1, <2>2
<1> QED BY <1>1, MInvAlways, PTL

\* The node of a live subscription always accepts its latest key, and no removal
\* still to be sent is for a key in use.
THEOREM NodeAcceptsTheKey == Spec => []NeverCutOff
<1>1. ASSUME MInv PROVE NeverCutOff
  <2>1. ASSUME NEW s \in Subs, Live(s) PROVE Latest(s) \in peers[home[s]]
    <3>1. PICK k \in KeysOf(s) : Serves(k, s)
      BY <1>1, <2>1 DEF MInv, SubsServed
    <3>2. Latest(s) = k
      BY <1>1, <3>1, ServingIsLatest
    <3>3. k \in Keys
      BY DEF KeysOf
    <3> QED BY <1>1, <3>1, <3>2, <3>3 DEF MInv, Placed, Serves
  <2>2. \A d \in Keys : del[d].pc = "remove" => phase[del[d].key] # "active"
    BY <1>1 DEF MInv, DeletesOld
  <2>3. migPc = "reassigned" /\ migOld # NoKey => phase[migOld] # "active"
    BY <1>1 DEF MInv, MigratorOld
  <2> QED BY <2>1, <2>2, <2>3 DEF NeverCutOff
<1> QED BY <1>1, MInvAlways, PTL

\* The configuration FetchConfig reads for a live subscription is stored.
THEOREM ConfigIsServed == Spec => []ConfigServed
<1>1. ASSUME MInv PROVE ConfigServed
  <2> SUFFICES ASSUME NEW s \in Subs, Live(s) PROVE Latest(s) \in objects
    BY DEF ConfigServed
  <2>1. PICK k \in KeysOf(s) : Serves(k, s)
    BY <1>1 DEF MInv, SubsServed
  <2>2. Latest(s) = k /\ k \in Keys
    BY <1>1, <2>1, ServingIsLatest DEF KeysOf
  <2> QED BY <1>1, <2>1, <2>2 DEF MInv, Placed, Serves
<1> QED BY <1>1, MInvAlways, PTL

-----------------------------------------------------------------------------
(* The traffic of an address.                                               *)

\* What an addition and a removal do to the routes: an addition takes one
\* address, and a removal gives up those of its own key.
LEMMA AddPeerRoutes ==
  ASSUME TypeOK, NEW k \in Keys, on[k] \in Servers, AddPeer(k)
  PROVE  \A v \in Servers, a \in IPs :
           route'[v][a] = IF v = on[k] /\ a = ip[k] /\ ip[k] # 0 THEN k ELSE route[v][a]
<1>1. CASE ip[k] = 0
  BY <1>1 DEF AddPeer
<1>2. CASE ip[k] # 0
  <2>1. ip[k] \in IPs
    BY <1>2 DEF TypeOK
  <2>2. route' = [route EXCEPT ![on[k]][ip[k]] = k]
    BY <1>2 DEF AddPeer
  <2> QED BY <1>2, <2>1, <2>2 DEF TypeOK
<1> QED BY <1>1, <1>2

LEMMA DropPeerRoutes ==
  ASSUME TypeOK, NEW u, NEW k, DropPeer(u, k)
  PROVE  \A v \in Servers, a \in IPs : route[v][a] # k => route'[v][a] = route[v][a]
BY DEF DropPeer, TypeOK

Holding == {"addressed", "provisioned", "stored", "active"}
Routed == {"provisioned", "stored", "active"}

LEMMA RaceStep == MInv /\ RaceSeen /\ [Next]_vars => RaceSeen'
<1> SUFFICES ASSUME MInv, RaceSeen, [Next]_vars PROVE RaceSeen'
  OBVIOUS
<1> USE DEF rows, nodes, mig, hist
<1>0. /\ TypeOK /\ KeysInOrder /\ MigratorPlace /\ MigratorOld /\ DeletesOld
      /\ \A j \in Keys : phase[j] # "unused" => on[j] \in Servers
      /\ late \subseteq Keys /\ \A j \in late : phase[j] = "failed"
  BY DEF MInv, KeysInOrder, TypeOK
<1>a. /\ \A j \in InFlight \cup late, k \in Keys :
           j # k /\ phase[k] \in Holding /\ on[j] = on[k] /\ ip[j] = ip[k] /\ ip[k] # 0 => k \in raced
      /\ \A k \in Keys : phase[k] \in Routed /\ ip[k] # 0 => route[on[k]][ip[k]] = k \/ k \in raced
      /\ \A k \in Keys : phase[k] \in {"unused", "selected"} => ip[k] = 0
      /\ \A k \in Keys : k \in InFlight <=> phase[k] \in Holding \ {"active"}
      /\ \A k \in Keys : k \in InFlight' <=> phase'[k] \in Holding \ {"active"}
      /\ InFlight' \subseteq Keys
      /\ \A k \in Keys : ip[k] # 0 => ip[k] \in IPs
  BY <1>0 DEF RaceSeen, Holding, Routed, InFlight, TypeOK
<1>b. ASSUME \A j \in InFlight' \cup late', k \in Keys :
               j # k /\ phase'[k] \in Holding /\ on'[j] = on'[k] /\ ip'[j] = ip'[k] /\ ip'[k] # 0 => k \in raced',
             \A k \in Keys : phase'[k] \in Routed /\ ip'[k] # 0 => route'[on'[k]][ip'[k]] = k \/ k \in raced',
             \A k \in Keys : phase'[k] \in {"unused", "selected"} => ip'[k] = 0
      PROVE  RaceSeen'
  BY <1>b DEF RaceSeen, Holding, Routed
\* Nothing new is held or routed, and what was routed still is.
<1>1. ASSUME UNCHANGED ip, raced \subseteq raced',
             \A j \in Keys : phase'[j] \in Holding => phase[j] \in Holding /\ on'[j] = on[j],
             \A j \in InFlight' \cup late' : j \in InFlight \cup late /\ on'[j] = on[j],
             \A j \in Keys : phase'[j] \in Routed /\ ip[j] # 0 =>
               route'[on[j]][ip[j]] = j \/ j \in raced',
             \A j \in Keys : phase'[j] \in {"unused", "selected"} => phase[j] \in {"unused", "selected"}
      PROVE  RaceSeen'
  <2>1. \A j \in InFlight' \cup late', k \in Keys :
          j # k /\ phase'[k] \in Holding /\ on'[j] = on'[k] /\ ip'[j] = ip'[k] /\ ip'[k] # 0 => k \in raced'
    <3> SUFFICES ASSUME NEW j \in InFlight' \cup late', NEW k \in Keys, j # k, phase'[k] \in Holding,
                        on'[j] = on'[k], ip'[j] = ip'[k], ip'[k] # 0
                 PROVE  k \in raced'
      OBVIOUS
    <3>1. j \in InFlight \cup late /\ on[j] = on[k] /\ ip[j] = ip[k] /\ ip[k] # 0 /\ phase[k] \in Holding
      BY <1>1
    <3> QED BY <1>1, <1>a, <3>1
  <2>2. \A j \in Keys : phase'[j] \in Routed => phase'[j] \in Holding
    BY DEF Routed, Holding
  <2>3. \A k \in Keys : phase'[k] \in Routed /\ ip'[k] # 0 => route'[on'[k]][ip'[k]] = k \/ k \in raced'
    BY <1>1, <2>2
  <2>4. \A k \in Keys : phase'[k] \in {"unused", "selected"} => ip'[k] = 0
    BY <1>1, <1>a
  <2> QED BY <1>b, <2>1, <2>3, <2>4
<1>2. ASSUME UNCHANGED <<ip, raced, route>>, late' \subseteq late,
             \A j \in Keys : /\ phase'[j] \in Holding => phase[j] \in Holding /\ on'[j] = on[j]
                             /\ phase'[j] \in Holding \ {"active"} => phase[j] \in Holding \ {"active"}
                             /\ phase'[j] \in Routed => phase[j] \in Routed
                             /\ phase'[j] \in {"unused", "selected"} => phase[j] \in {"unused", "selected"},
             \A j \in late' : on'[j] = on[j]
      PROVE  RaceSeen'
  <2>1. \A j \in InFlight' \cup late' : j \in InFlight \cup late /\ on'[j] = on[j]
    BY <1>2, <1>a
  <2>2. \A j \in Keys : phase'[j] \in Routed /\ ip[j] # 0 => route'[on[j]][ip[j]] = j \/ j \in raced'
    BY <1>2, <1>a
  <2> QED BY <1>1, <1>2, <2>1, <2>2
<1>3. ASSUME NEW s \in Subs, SelectServer(s) \/ SelectReserveServer(s) PROVE RaceSeen'
  <2>1. PICK k \in Keys, v \in up : Takes(s, k, v)
    BY <1>3, TakesKey
  <2>2. \A j \in Keys : /\ phase'[j] = IF j = k THEN "selected" ELSE phase[j]
                        /\ on'[j] = IF j = k THEN v ELSE on[j]
    BY <1>0, <2>1 DEF TypeOK, Takes
  <2>3. UNCHANGED <<ip, raced, route, late>> /\ k \notin late /\ phase[k] = "unused"
    BY <1>3, <2>1 DEF SelectServer, SelectReserveServer, Takes
  <2>4. \A j \in late' : on'[j] = on[j]
    BY <1>0, <2>2, <2>3
  <2> QED BY <1>2, <2>2, <2>3, <2>4 DEF Holding, Routed
<1>4. ASSUME NEW k \in Keys, Allocate(k) PROVE RaceSeen'
  <2>1. /\ phase[k] = "selected" /\ phase' = [phase EXCEPT ![k] = "addressed"]
        /\ UNCHANGED <<on, route, late>>
    BY <1>4 DEF Allocate
  <2>2. \A j \in Keys : phase'[j] = IF j = k THEN "addressed" ELSE phase[j]
    BY <1>0, <2>1 DEF TypeOK
  <2>3. CASE Owner(k) \notin WireGuard
    <3>1. UNCHANGED <<ip, raced>> /\ ip[k] = 0
      BY <1>4, <1>a, <2>1, <2>3 DEF Allocate
    <3>2. ASSUME NEW j \in InFlight' \cup late', NEW x \in Keys, j # x, phase'[x] \in Holding,
                 on'[j] = on'[x], ip'[j] = ip'[x], ip'[x] # 0
          PROVE  x \in raced'
      <4>1. j \in Keys /\ j # k /\ x # k
        BY <1>0, <1>a, <2>1, <3>1, <3>2
      <4>2. j \in InFlight \cup late
        BY <1>a, <2>1, <2>2, <4>1
      <4> QED BY <1>a, <2>1, <2>2, <3>1, <3>2, <4>1, <4>2
    <3>3. \A x \in Keys : phase'[x] \in Routed => phase[x] \in Routed
      BY <2>2 DEF Routed
    <3>4. \A x \in Keys : phase'[x] \in Routed /\ ip'[x] # 0 => route'[on'[x]][ip'[x]] = x \/ x \in raced'
      BY <1>a, <2>1, <3>1, <3>3
    <3>5. \A x \in Keys : phase'[x] \in {"unused", "selected"} => ip'[x] = 0
      BY <1>a, <2>2, <3>1
    <3> QED BY <1>b, <3>2, <3>4, <3>5
  <2>4. CASE Owner(k) \in WireGuard
    <3> DEFINE a == Lowest(Free(on[k]))
    <3>1. a # 0 /\ \A j \in ActiveOn(on[k]) : ip[j] # a
      BY <1>0, <1>4, <2>4, LowestFree DEF Allocate
    <3>2. /\ ip' = [ip EXCEPT ![k] = a]
          /\ raced' = raced \cup Contenders(k, a) \cup (IF Contenders(k, a) # {} THEN {k} ELSE {})
      BY <1>4, <2>4 DEF Allocate
    <3> HIDE DEF a
    <3>3. \A j \in Keys : ip'[j] = IF j = k THEN a ELSE ip[j]
      BY <1>0, <3>2 DEF TypeOK
    <3>4. ASSUME NEW j \in InFlight' \cup late', NEW x \in Keys, j # x, phase'[x] \in Holding,
                 on'[j] = on'[x], ip'[j] = ip'[x], ip'[x] # 0
          PROVE  x \in raced'
      <4>1. j \in Keys /\ (j = k \/ j \in InFlight \cup late) /\ on[j] = on[x]
        BY <1>0, <1>a, <2>1, <2>2, <3>4
      <4>2. CASE x = k
        <5>1. j # k /\ j \in InFlight \cup late /\ ip[j] = a /\ on[j] = on[k]
          BY <3>3, <3>4, <4>1, <4>2
        <5>2. j \in Contenders(k, a)
          BY <5>1 DEF Contenders
        <5> QED BY <3>2, <4>2, <5>2
      <4>3. CASE x # k /\ j = k
        <5>1. phase[x] \in Holding /\ ip[x] = a /\ on[x] = on[k]
          BY <2>2, <3>3, <3>4, <4>1, <4>3
        <5>2. phase[x] # "active"
          BY <3>1, <5>1 DEF ActiveOn
        <5>3. x \in InFlight
          BY <1>a, <5>1, <5>2
        <5>4. x \in Contenders(k, a)
          BY <4>3, <5>1, <5>3 DEF Contenders
        <5> QED BY <3>2, <5>4
      <4>4. CASE x # k /\ j # k
        <5>1. phase[x] \in Holding /\ ip[j] = ip[x] /\ ip[x] # 0 /\ j \in InFlight \cup late
          BY <2>2, <3>3, <3>4, <4>1, <4>4
        <5>2. x \in raced
          BY <1>a, <3>4, <4>1, <5>1
        <5> QED BY <3>2, <5>2
      <4> QED BY <4>2, <4>3, <4>4
    <3>5. \A x \in Keys : phase'[x] \in Routed => phase[x] \in Routed /\ x # k
      BY <2>1, <2>2 DEF Routed
    <3>6. \A x \in Keys : phase'[x] \in Routed /\ ip'[x] # 0 => route'[on'[x]][ip'[x]] = x \/ x \in raced'
      BY <1>a, <2>1, <3>2, <3>3, <3>5
    <3>7. \A x \in Keys : phase'[x] \in {"unused", "selected"} => ip'[x] = 0
      BY <1>a, <2>2, <3>3
    <3> QED BY <1>b, <3>4, <3>6, <3>7
  <2> QED BY <2>3, <2>4
\* The addresses an addition takes from others were contended for.
<1>5. ASSUME NEW k \in Keys, k \in InFlight \cup late, AddPeer(k), UNCHANGED <<on, ip, raced>>,
             NEW x \in Keys, x # k, phase[x] \in Routed, ip[x] # 0
      PROVE  route'[on[x]][ip[x]] = x \/ x \in raced
  <2>1. on[k] \in Servers /\ on[x] \in Servers /\ ip[x] \in IPs
    BY <1>0, <1>5, <1>a DEF Routed, Holding
  <2>2. CASE on[x] = on[k] /\ ip[x] = ip[k]
    <3>1. phase[x] \in Holding
      BY <1>5 DEF Routed, Holding
    <3> QED BY <1>5, <1>a, <2>2, <3>1
  <2>3. CASE ~(on[x] = on[k] /\ ip[x] = ip[k])
    <3>1. route'[on[x]][ip[x]] = route[on[x]][ip[x]]
      BY <1>0, <1>5, <2>1, <2>3, AddPeerRoutes
    <3> QED BY <1>5, <1>a, <3>1
  <2> QED BY <2>2, <2>3
<1>6. ASSUME NEW k \in Keys, Provision(k) PROVE RaceSeen'
  <2>1. /\ phase[k] = "addressed" /\ phase' = [phase EXCEPT ![k] = "provisioned"]
        /\ UNCHANGED <<on, ip, late, raced>> /\ AddPeer(k)
    BY <1>6 DEF Provision
  <2>2. \A j \in Keys : phase'[j] = IF j = k THEN "provisioned" ELSE phase[j]
    BY <1>0, <2>1 DEF TypeOK
  <2>3. k \in InFlight /\ on[k] \in Servers
    BY <1>0, <1>a, <2>1 DEF Holding
  <2>4. ip[k] # 0 => route'[on[k]][ip[k]] = k
    BY <1>0, <1>a, <2>1, <2>3, AddPeerRoutes
  <2>5. \A j \in Keys : phase'[j] \in Routed /\ ip[j] # 0 => route'[on[j]][ip[j]] = j \/ j \in raced'
    BY <1>5, <2>1, <2>2, <2>3, <2>4
  <2>6. \A j \in Keys : /\ phase'[j] \in Holding => phase[j] \in Holding
                        /\ phase'[j] \in {"unused", "selected"} => phase[j] \in {"unused", "selected"}
                        /\ phase'[j] \in Holding \ {"active"} => phase[j] \in Holding \ {"active"}
    BY <2>1, <2>2 DEF Holding
  <2>7. \A j \in InFlight' \cup late' : j \in InFlight \cup late /\ on'[j] = on[j]
    BY <1>a, <2>1, <2>6
  <2> QED BY <1>1, <2>1, <2>5, <2>6, <2>7
<1>7. ASSUME NEW k \in Keys, Failed(k), UNCHANGED ip, raced' = raced, late' \subseteq late \cup {k},
             k \in late' => k \in InFlight,
             \A x \in Keys : x # k /\ phase[x] \in Routed /\ ip[x] # 0 =>
               route'[on[x]][ip[x]] = x \/ x \in raced
      PROVE  RaceSeen'
  <2>1. phase' = [phase EXCEPT ![k] = "failed"] /\ UNCHANGED on
    BY <1>7 DEF Failed
  <2>2. \A j \in Keys : phase'[j] = IF j = k THEN "failed" ELSE phase[j]
    BY <1>0, <2>1 DEF TypeOK
  <2>3. \A j \in Keys : /\ phase'[j] \in Holding => phase[j] \in Holding
                        /\ phase'[j] \in Routed => phase[j] \in Routed /\ j # k
                        /\ phase'[j] \in {"unused", "selected"} => phase[j] \in {"unused", "selected"}
                        /\ phase'[j] \in Holding \ {"active"} => phase[j] \in Holding \ {"active"}
    BY <2>2 DEF Holding, Routed
  <2>4. \A j \in InFlight' \cup late' : j \in InFlight \cup late /\ on'[j] = on[j]
    BY <1>a, <1>7, <2>1, <2>3
  <2> QED BY <1>1, <1>7, <2>1, <2>3, <2>4
<1>8. ASSUME NEW k \in Keys, Failed(k), UNCHANGED <<ip, nodes>> PROVE RaceSeen'
  <2>1. phase' = [phase EXCEPT ![k] = "failed"] /\ UNCHANGED <<on, raced, route, late>>
    BY <1>8 DEF Failed
  <2>2. \A j \in Keys : phase'[j] = IF j = k THEN "failed" ELSE phase[j]
    BY <1>0, <2>1 DEF TypeOK
  <2> QED BY <1>2, <1>8, <2>1, <2>2 DEF Holding, Routed
<1>9. ASSUME NEW k \in Keys, GenerateFails(k) \/ StoreFails(k) \/ NotRecorded(k) PROVE RaceSeen'
  BY <1>8, <1>9 DEF GenerateFails, StoreFails, NotRecorded
<1>10. ASSUME NEW k \in Keys, ProvisionFails(k) PROVE RaceSeen'
  <2>1. /\ phase[k] = "addressed" /\ Failed(k) /\ UNCHANGED ip
        /\ \/ UNCHANGED nodes
           \/ AddPeer(k) /\ UNCHANGED late
           \/ late' = late \cup {k} /\ UNCHANGED <<peers, route>>
    BY <1>10 DEF ProvisionFails
  <2>2. k \in InFlight /\ UNCHANGED <<on, raced>>
    BY <1>a, <2>1 DEF Holding, Failed
  <2>3. CASE UNCHANGED nodes
    BY <1>8, <2>1, <2>3
  <2>4. CASE AddPeer(k) /\ UNCHANGED late
    BY <1>5, <1>7, <2>1, <2>2, <2>4
  <2>5. CASE late' = late \cup {k} /\ UNCHANGED <<peers, route>>
    BY <1>7, <1>a, <2>1, <2>2, <2>5
  <2> QED BY <2>1, <2>3, <2>4, <2>5
<1>11. ASSUME NEW k \in Keys, StoreConfig(k) \/ Persist(k) PROVE RaceSeen'
  <2>1. /\ UNCHANGED <<on, ip, raced, route, late>>
        /\ \/ phase[k] = "provisioned" /\ phase' = [phase EXCEPT ![k] = "stored"]
           \/ phase[k] = "stored" /\ phase' = [phase EXCEPT ![k] = "active"]
    BY <1>11 DEF StoreConfig, Persist
  <2>2. \A j \in Keys : j # k => phase'[j] = phase[j]
    BY <1>0, <2>1 DEF TypeOK
  <2>3. phase[k] \in {"provisioned", "stored"} /\ phase'[k] \in {"stored", "active"}
    BY <1>0, <2>1 DEF TypeOK
  <2> QED BY <1>2, <2>1, <2>2, <2>3 DEF Holding, Routed
<1>12. ASSUME NEW k \in Keys, Reassign(k) PROVE RaceSeen'
  <2>1. /\ UNCHANGED <<on, ip, raced, route, late>> /\ phase[k] = "stored"
        /\ \A j \in Keys : phase'[j] = IF j = k THEN "active"
                                       ELSE IF Owner(j) = Owner(k) /\ phase[j] = "active" THEN "revoked"
                                       ELSE phase[j]
    BY <1>12 DEF Reassign
  <2> QED BY <1>2, <2>1 DEF Holding, Routed
<1>13. ASSUME NEW s \in Subs, SoftDelete(s) PROVE RaceSeen'
  <2>1. /\ UNCHANGED <<on, ip, raced, route, late>>
        /\ \A j \in Keys : phase'[j] = IF Owner(j) = s /\ phase[j] = "active" THEN "revoked" ELSE phase[j]
    BY <1>13 DEF SoftDelete
  <2> QED BY <1>2, <2>1 DEF Holding, Routed
<1>14. ASSUME NEW k \in Keys, LateAddition(k) PROVE RaceSeen'
  <2>1. /\ UNCHANGED <<phase, on, ip, raced>> /\ k \in late /\ late' \subseteq late /\ AddPeer(k)
    BY <1>14 DEF LateAddition
  <2>2. phase[k] = "failed"
    BY <1>0, <2>1
  <2>3. \A j \in Keys : phase'[j] \in Routed /\ ip[j] # 0 => route'[on[j]][ip[j]] = j \/ j \in raced'
    BY <1>5, <2>1, <2>2 DEF Routed
  <2>4. \A j \in InFlight' \cup late' : j \in InFlight \cup late /\ on'[j] = on[j]
    BY <1>a, <2>1
  <2> QED BY <1>1, <2>1, <2>3, <2>4
<1>15. ASSUME NEW u, NEW k \in Keys, DropPeer(u, k), phase[k] = "revoked",
              UNCHANGED <<phase, on, ip, raced, late>>
       PROVE  RaceSeen'
  <2>1. ASSUME NEW j \in Keys, phase'[j] \in Routed, ip[j] # 0
        PROVE  route'[on[j]][ip[j]] = j \/ j \in raced'
    <3>1. on[j] \in Servers /\ ip[j] \in IPs /\ j # k /\ phase[j] \in Routed
      BY <1>0, <1>15, <1>a, <2>1 DEF Routed
    <3>2. route[on[j]][ip[j]] = j => route'[on[j]][ip[j]] = j
      BY <1>0, <1>15, <3>1, DropPeerRoutes
    <3> QED BY <1>15, <1>a, <2>1, <3>1, <3>2
  <2>2. \A j \in InFlight' \cup late' : j \in InFlight \cup late /\ on'[j] = on[j]
    BY <1>15, <1>a
  <2> QED BY <1>1, <1>15, <2>1, <2>2
<1>16. CASE UNCHANGED <<phase, on, ip, route, late, raced>>
  BY <1>2, <1>16
<1>17. CASE DeprovisionOld
  <2>1. /\ UNCHANGED <<phase, on, ip, raced, late>> /\ migPc = "reassigned"
        /\ (migOld # NoKey /\ DropPeer(migFrom, migOld)) \/ UNCHANGED route
    BY <1>17 DEF DeprovisionOld
  <2>2. migOld # NoKey => migOld \in Keys /\ phase[migOld] = "revoked"
    BY <1>0, <2>1 DEF MigratorOld, TypeOK
  <2> QED BY <1>15, <1>16, <2>1, <2>2
<1>18. ASSUME NEW d \in Keys, RemovePeer(d) PROVE RaceSeen'
  <2>1. /\ UNCHANGED <<phase, on, ip, raced, late>> /\ del[d].pc = "remove"
        /\ DropPeer(del[d].srv, del[d].key) \/ UNCHANGED route
    BY <1>18 DEF RemovePeer
  <2>2. del[d].key \in Keys /\ phase[del[d].key] = "revoked"
    BY <1>0, <2>1 DEF DeletesOld
  <2> QED BY <1>15, <1>16, <2>1, <2>2
<1>19. CASE ActiveSubsOnServer \/ ListingFails \/ OldKeyForSub \/ MigrationEnds
  BY <1>16, <1>19 DEF ActiveSubsOnServer, ListingFails, OldKeyForSub, MigrationEnds
<1>20. CASE \/ \E d \in Keys : PurgeObjects(d)
            \/ \E s \in Subs : NoReserveServer(s) \/ Expire(s) \/ ExtendSubscription(s)
  BY <1>16, <1>20 DEF NoReserveServer, Expire, ExtendSubscription, PurgeObjects
<1>21. CASE (\E v \in Servers : ServerFails(v) \/ SetServerStatus(v)) \/ UNCHANGED vars
  BY <1>16, <1>21 DEF ServerFails, SetServerStatus, vars
<1>22. ASSUME NEW k \in Keys, Attempt(k) PROVE RaceSeen'
  BY <1>4, <1>6, <1>9, <1>10, <1>11, <1>12, <1>22 DEF Attempt
<1> QED BY <1>3, <1>13, <1>14, <1>17, <1>18, <1>19, <1>20, <1>21, <1>22 DEF Next, Migrator

\* An active key whose address the node routes to another has raced for it: no
\* removal of an old key and no addition left behind by a failed Create does it.
THEOREM RouteKeptButForRaces == Spec => []RouteLostOnlyToRace
<1>1. Init => RaceSeen
  BY DEF Init, RaceSeen, InFlight
<1>2. MInv /\ RaceSeen /\ [Next]_vars => MInv' /\ RaceSeen'
  BY MInvStep, RaceStep
<1>3. RaceSeen => RouteLostOnlyToRace
  BY DEF RaceSeen, RouteLostOnlyToRace
<1> QED BY <1>1, <1>2, <1>3, MInvInit, PTL DEF Spec

-----------------------------------------------------------------------------
(* Who is left on a server that was given up.                               *)

\* The three conditions on the state once MigrateServer has listed the
\* subscriptions of the server v.
Left(v) ==
  \A s \in Subs :
    /\ Live(s) /\ home[s] = v => s \in skipped \/ Migrating(s)
    /\ Underway(<<s, 1>>) /\ on[<<s, 1>>] = v => s \in skipped

LEMMA GivenUpStep == MInv /\ GivenUp /\ [Next]_vars => GivenUp'
<1> SUFFICES ASSUME MInv, GivenUp, [Next]_vars, given' # NoServer
             PROVE  /\ given' \notin up'
                    /\ migPc' # "idle" => given' = migFrom'
                    /\ migPc' # "listing" => Left(given)'
  BY DEF GivenUp, Left
<1> DEFINE Goal == /\ given' \notin up'
                   /\ migPc' # "idle" => given' = migFrom'
                   /\ migPc' # "listing" => Left(given)'
<1> USE DEF rows, nodes, mig, hist
<1>0. TypeOK /\ KeysInOrder /\ MigratorPlace /\ SubsServed
  BY DEF MInv
<1>a. given # NoServer =>
        /\ given \notin up
        /\ migPc # "idle" => given = migFrom
        /\ migPc # "listing" => Left(given)
  BY DEF GivenUp, Left
<1>b. \A k \in Keys : Underway(k) <=> phase[k] \in Going
  BY DEF Underway, InFlight, Going
<1>c. \A k \in Keys : Underway(k)' <=> phase'[k] \in Going
  BY DEF Underway, InFlight, Going
<1>d. \A s \in Subs : <<s, 1>> \in Keys /\ <<s, 1>>[2] = 1 /\ Owner(<<s, 1>>) = s
  BY KeyParts
<1>e. ASSUME \A s \in Subs : /\ Live(s)' /\ home'[s] = given' => s \in skipped' \/ Migrating(s)'
                             /\ Underway(<<s, 1>>)' /\ on'[<<s, 1>>] = given' => s \in skipped'
      PROVE  Left(given)'
  BY <1>e DEF Left
\* A step that gives nobody up and moves nobody there.
<1>1. ASSUME given' = given, given \notin up', migPc # "idle" \/ migPc' = "idle",
             migFrom' = migFrom \/ migPc' = "idle",
             migPc' # "listing" => migPc # "listing",
             skipped \subseteq skipped',
             \A s \in Subs : Live(s)' /\ home'[s] = given =>
               s \in skipped' \/ (Live(s) /\ home[s] = given /\ (Migrating(s) => Migrating(s)')),
             \A s \in Subs : Underway(<<s, 1>>)' /\ on'[<<s, 1>>] = given =>
               Underway(<<s, 1>>) /\ on[<<s, 1>>] = given
      PROVE  Goal
  <2>1. migPc' # "idle" => given' = migFrom'
    BY <1>1, <1>a
  <2>2. migPc' # "listing" => Left(given)'
    <3>1. SUFFICES ASSUME migPc' # "listing" PROVE Left(given)'
      OBVIOUS
    <3>2. Left(given)
      BY <1>1, <1>a, <3>1
    <3>3. \A s \in Subs : Live(s)' /\ home'[s] = given' => s \in skipped' \/ Migrating(s)'
      BY <1>1, <3>2 DEF Left
    <3>4. \A s \in Subs : Underway(<<s, 1>>)' /\ on'[<<s, 1>>] = given' => s \in skipped'
      BY <1>1, <3>2 DEF Left
    <3> QED BY <1>e, <3>3, <3>4
  <2> QED BY <1>1, <2>1, <2>2
<1>2. ASSUME NEW s \in Subs, SelectServer(s) \/ SelectReserveServer(s) PROVE Goal
  <2>1. PICK k \in Keys, v \in up : Takes(s, k, v)
    BY <1>2, TakesKey
  <2>2. UNCHANGED <<given, up, skipped>>
    BY <1>2 DEF SelectServer, SelectReserveServer
  <2>3. \A j \in Keys : /\ phase'[j] = IF j = k THEN "selected" ELSE phase[j]
                        /\ on'[j] = IF j = k THEN v ELSE on[j]
    BY <1>0, <2>1 DEF TypeOK, Takes
  <2>4. given \notin up /\ v # given
    BY <1>a, <2>2
  <2>5. UNCHANGED <<status, home, migFrom>>
    BY <2>1 DEF Takes
  <2>6. \A t \in Subs : Live(t)' <=> Live(t)
    BY <2>5 DEF Live
  <2>7. \A t \in Subs : Migrating(t) => Migrating(t)'
    <3>1. CASE UNCHANGED <<migPc, migTodo, migKey>>
      BY <3>1 DEF Migrating
    <3>2. CASE migPc = "loop" /\ migTodo' = migTodo \ {s} /\ migPc' = "oldkey" /\ migKey' = k
      <4>1. Owner(k) = s
        BY <2>1 DEF Takes
      <4> QED BY <3>2, <4>1 DEF Migrating
    <3> QED BY <2>1, <3>1, <3>2 DEF Takes
  <2>8. \A t \in Subs : Underway(<<t, 1>>)' /\ on'[<<t, 1>>] = given =>
                        Underway(<<t, 1>>) /\ on[<<t, 1>>] = given
    BY <1>b, <1>c, <1>d, <2>3, <2>4
  <2>9. /\ migPc # "idle" \/ migPc' = "idle"
        /\ migPc' # "listing" => migPc # "listing"
    BY <2>1 DEF Takes
  <2> QED BY <1>1, <2>2, <2>4, <2>5, <2>6, <2>7, <2>8, <2>9
<1>3. ASSUME NEW s \in Subs, NoReserveServer(s) PROVE Goal
  <2>1. /\ UNCHANGED <<given, up, status, home, phase, on, migFrom, migPc, migKey>>
        /\ migTodo' = migTodo \ {s} /\ skipped' = skipped \cup {s}
    BY <1>3 DEF NoReserveServer
  <2>2. \A t \in Subs : t # s /\ Migrating(t) => Migrating(t)'
    BY <2>1 DEF Migrating
  <2>3. \A t \in Subs : (Live(t)' <=> Live(t)) /\ (Underway(<<t, 1>>)' <=> Underway(<<t, 1>>))
    BY <1>b, <1>c, <1>d, <2>1 DEF Live
  <2> QED BY <1>1, <1>a, <2>1, <2>2, <2>3
<1>4. ASSUME NEW k \in Keys, Moves(k) PROVE Goal
  <2>1. PICK p \in {"addressed", "provisioned", "stored", "failed"} :
          /\ phase' = [phase EXCEPT ![k] = p]
          /\ IF p = "failed" /\ k[2] # 1
             THEN migPc' = "loop" /\ migKey' = NoKey /\ skipped' = skipped \cup {Owner(k)}
             ELSE UNCHANGED <<migPc, migKey, skipped>>
    BY <1>4 DEF Moves
  <2>2. /\ UNCHANGED <<status, home, on, up, given, migFrom, migTodo>>
        /\ Running(k) /\ phase[k] \in Going
    BY <1>4 DEF Moves
  <2>3. \A j \in Keys : phase'[j] = IF j = k THEN p ELSE phase[j]
    BY <1>0, <2>1 DEF TypeOK
  <2>4. \A t \in Subs : (Live(t)' <=> Live(t)) /\ (Underway(<<t, 1>>)' => Underway(<<t, 1>>))
    BY <1>b, <1>c, <1>d, <2>2, <2>3 DEF Live
  <2>5. k[2] # 1 => migPc = "attempt" /\ migKey = k
    BY <2>2 DEF Running
  <2>6. \A t \in Subs : Migrating(t) => Migrating(t)' \/ t \in skipped'
    BY <2>1, <2>2, <2>5 DEF Migrating
  <2>7. skipped \subseteq skipped' /\ (migPc' = migPc \/ (migPc = "attempt" /\ migPc' = "loop"))
    BY <2>1, <2>5
  <2> QED BY <1>1, <1>a, <2>2, <2>4, <2>6, <2>7
<1>5. ASSUME NEW k \in Keys, Persist(k) PROVE Goal
  <2> DEFINE s == Owner(k)
  <2>1. /\ k[2] = 1 /\ phase[k] = "stored" /\ phase' = [phase EXCEPT ![k] = "active"]
        /\ status' = [status EXCEPT ![s] = "active"] /\ home' = [home EXCEPT ![s] = on[k]]
        /\ UNCHANGED <<on, up, given, skipped, migFrom, migTodo, migPc, migKey>>
    BY <1>5 DEF Persist
  <2>2. s \in Subs /\ k = <<s, 1>>
    BY <2>1, KeyParts
  <2> HIDE DEF s
  <2>3. \A j \in Keys : phase'[j] = IF j = k THEN "active" ELSE phase[j]
    BY <1>0, <2>1 DEF TypeOK
  <2>4. \A t \in Subs : /\ status'[t] = IF t = s THEN "active" ELSE status[t]
                        /\ home'[t] = IF t = s THEN on[k] ELSE home[t]
    BY <1>0, <2>1 DEF TypeOK
  <2>5. \A t \in Subs : /\ t # s => (Live(t)' <=> Live(t))
                        /\ Underway(<<t, 1>>)' => Underway(<<t, 1>>)
                        /\ Migrating(t)' <=> Migrating(t)
    BY <1>b, <1>c, <1>d, <2>1, <2>3, <2>4 DEF Live, Going, Migrating
  <2>6. given # NoServer /\ Underway(k)
    BY <1>b, <2>1 DEF Going
  <2>7. CASE migPc = "listing"
    BY <1>a, <2>1, <2>6, <2>7
  <2>8. CASE migPc # "listing"
    <3>1. home'[s] = given => s \in skipped'
      BY <1>a, <2>1, <2>2, <2>4, <2>6, <2>8 DEF Left
    <3> QED BY <1>1, <1>a, <2>1, <2>4, <2>5, <2>6, <3>1
  <2> QED BY <2>7, <2>8
<1>6. ASSUME NEW k \in Keys, Reassign(k) PROVE Goal
  <2> DEFINE s == Owner(k)
  <2>1. /\ migPc = "attempt" /\ migKey = k /\ migPc' = "reassigned" /\ phase[k] = "stored"
        /\ phase' = [j \in Keys |-> IF j = k THEN "active"
                                    ELSE IF Owner(j) = s /\ phase[j] = "active" THEN "revoked"
                                    ELSE phase[j]]
        /\ status' = [status EXCEPT ![s] = "active"] /\ home' = [home EXCEPT ![s] = on[k]]
        /\ UNCHANGED <<on, up, given, skipped, migFrom, migTodo>>
    BY <1>6, KeyParts DEF Reassign, Running
  <2>2. s \in Subs /\ on[k] # migFrom
    BY <1>0, <2>1, KeyParts DEF MigratorPlace
  <2>3. s = Owner(k)
    OBVIOUS
  <2> HIDE DEF s
  <2>4. \A t \in Subs : /\ status'[t] = IF t = s THEN "active" ELSE status[t]
                        /\ home'[t] = IF t = s THEN on[k] ELSE home[t]
    BY <1>0, <2>1 DEF TypeOK
  <2>5. \A t \in Subs : /\ t # s => (Live(t)' <=> Live(t)) /\ (Migrating(t) => Migrating(t)')
                        /\ Underway(<<t, 1>>)' => Underway(<<t, 1>>)
    BY <1>b, <1>c, <1>d, <2>1, <2>3, <2>4 DEF Live, Going, Migrating
  <2>6. given = migFrom
    BY <1>a, <2>1
  <2> QED BY <1>1, <1>a, <2>1, <2>2, <2>4, <2>5, <2>6
<1>7. ASSUME NEW s \in Subs, SoftDelete(s) PROVE Goal
  <2>1. /\ phase' = [k \in Keys |-> IF Owner(k) = s /\ phase[k] = "active" THEN "revoked" ELSE phase[k]]
        /\ status' = [status EXCEPT ![s] = "deleted"]
        /\ UNCHANGED <<home, on, up, given, skipped, migFrom, migTodo, migPc, migKey>>
    BY <1>7 DEF SoftDelete
  <2>2. \A t \in Subs : status'[t] = IF t = s THEN "deleted" ELSE status[t]
    BY <1>0, <2>1 DEF TypeOK
  <2>3. \A t \in Subs : Live(t)' => Live(t)
    BY <2>2 DEF Live
  <2>4. \A t \in Subs : Underway(<<t, 1>>)' => Underway(<<t, 1>>)
    BY <1>b, <1>c, <1>d, <2>1 DEF Going
  <2>5. \A t \in Subs : Migrating(t)' <=> Migrating(t)
    BY <2>1 DEF Migrating
  <2> QED BY <1>1, <1>a, <2>1, <2>3, <2>4, <2>5
<1>8. CASE ActiveSubsOnServer
  <2>1. /\ UNCHANGED <<phase, on, status, home, up, given, migFrom>>
        /\ migPc = "listing" /\ migPc' = "loop"
        /\ migTodo' = {s \in Subs : status[s] = "active" /\ home[s] = migFrom}
        /\ \A t \in Subs : status[t] = "expired" /\ home[t] = migFrom => t \in skipped'
        /\ \A t \in Subs : on[<<t, 1>>] = migFrom /\ Underway(<<t, 1>>) => t \in skipped'
    BY <1>8 DEF ActiveSubsOnServer, Arriving
  <2>2. given' \notin up' /\ given' = migFrom /\ given' = migFrom'
    BY <1>a, <2>1
  <2>3. \A t \in Subs : /\ Live(t)' <=> status[t] \in {"active", "expired"}
                        /\ Underway(<<t, 1>>)' <=> Underway(<<t, 1>>)
                        /\ t \in migTodo' => Migrating(t)'
    BY <1>b, <1>c, <1>d, <2>1 DEF Live, Migrating
  <2>4. Left(given)'
    BY <1>e, <2>1, <2>2, <2>3
  <2> QED BY <2>2, <2>4
<1>12. CASE ListingFails
  <2>1. /\ UNCHANGED <<phase, on, status, home, up, given>> /\ migPc = "listing" /\ migPc' = "idle"
        /\ \A t \in Subs : Live(t) /\ home[t] = migFrom => t \in skipped'
        /\ \A t \in Subs : on[<<t, 1>>] = migFrom /\ Underway(<<t, 1>>) => t \in skipped'
    BY <1>12 DEF ListingFails, Arriving
  <2>2. given' \notin up' /\ given' = migFrom
    BY <1>a, <2>1
  <2>3. \A t \in Subs : (Live(t)' <=> Live(t)) /\ (Underway(<<t, 1>>)' <=> Underway(<<t, 1>>))
    BY <1>b, <1>c, <1>d, <2>1 DEF Live
  <2>4. Left(given)'
    BY <1>e, <2>1, <2>2, <2>3
  <2> QED BY <2>1, <2>2, <2>4
<1>9. CASE Quiet
  <2>1. /\ UNCHANGED <<phase, on, home, migTodo, skipped>> /\ given' = given
        /\ given \notin up => given \notin up'
        /\ \A s \in Subs : status'[s] = status[s] \/ {status[s], status'[s]} \subseteq {"active", "expired"}
    BY <1>9 DEF Quiet
  <2>2. given \notin up'
    BY <1>a, <2>1
  <2>3. \A t \in Subs : (Live(t)' <=> Live(t)) /\ (Underway(<<t, 1>>)' <=> Underway(<<t, 1>>))
    BY <1>b, <1>c, <1>d, <2>1 DEF Live
  <2>4. \A t \in Subs : Migrating(t) => Migrating(t)'
    BY <1>9 DEF Quiet, Migrating
  <2>5. /\ migPc # "idle" \/ migPc' = "idle"
        /\ migFrom' = migFrom \/ migPc' = "idle"
        /\ migPc' # "listing" => migPc # "listing"
    BY <1>9 DEF Quiet
  <2> QED BY <1>1, <2>1, <2>2, <2>3, <2>4, <2>5
<1>10. ASSUME NEW v \in Servers, ServerFails(v) PROVE Goal
  BY <1>10 DEF ServerFails
<1> HIDE DEF Goal
<1>11. Goal
  BY <1>0, <1>2, <1>3, <1>4, <1>5, <1>6, <1>7, <1>8, <1>9, <1>10, <1>12, StepShapes DEF Goal
<1> QED BY <1>11 DEF Goal

\* Whoever is in use on the server that was given up, after MigrateServer has
\* returned, was skipped by it, or could not be on its list, or was there when
\* the query of that list failed.
THEOREM NobodyLeftBehind == Spec => []NobodyForgotten
<1>1. Init => GivenUp
  BY DEF Init, GivenUp
<1>2. MInv /\ GivenUp /\ [Next]_vars => MInv' /\ GivenUp'
  BY MInvStep, GivenUpStep
<1>3. MInv /\ GivenUp => NobodyForgotten
  BY DEF GivenUp, NobodyForgotten, Migrating, Live, MInv, MigratorPlace
<1> QED BY <1>1, <1>2, <1>3, MInvInit, PTL DEF Spec

-----------------------------------------------------------------------------
(* What Delete leaves behind.                                               *)

\* No attempt goes back, and it keeps its server.
LEMMA NoWayBack ==
  ASSUME MInv, [Next]_vars, NEW j \in Keys
  PROVE  /\ phase'[j] = "unused" => phase[j] = "unused"
         /\ phase[j] \notin {"unused", "selected"} => phase'[j] \notin {"unused", "selected"} /\ on'[j] = on[j]
         /\ phase[j] \notin {"unused", "selected", "addressed"} =>
              phase'[j] \notin {"unused", "selected", "addressed"}
<1> DEFINE Goal == /\ phase'[j] = "unused" => phase[j] = "unused"
                   /\ phase[j] \notin {"unused", "selected"} =>
                        phase'[j] \notin {"unused", "selected"} /\ on'[j] = on[j]
                   /\ phase[j] \notin {"unused", "selected", "addressed"} =>
                        phase'[j] \notin {"unused", "selected", "addressed"}
<1>0. TypeOK
  BY DEF MInv
<1>1. ASSUME NEW s \in Subs, SelectServer(s) \/ SelectReserveServer(s) PROVE Goal
  <2>1. PICK k \in Keys, v \in up : Takes(s, k, v)
    BY <1>1, TakesKey
  <2>2. /\ phase'[j] = IF j = k THEN "selected" ELSE phase[j]
        /\ on'[j] = IF j = k THEN v ELSE on[j]
        /\ phase[k] = "unused"
    BY <1>0, <2>1 DEF TypeOK, Takes
  <2> QED BY <2>2
<1>2. ASSUME NEW k \in Keys, Moves(k) PROVE Goal
  <2>1. PICK p \in {"addressed", "provisioned", "stored", "failed"} :
          phase' = [phase EXCEPT ![k] = p] /\ (p = "addressed" => phase[k] = "selected")
    BY <1>2 DEF Moves
  <2>2. phase'[j] = IF j = k THEN p ELSE phase[j]
    BY <1>0, <2>1 DEF TypeOK
  <2>3. UNCHANGED on /\ phase[k] \in Going
    BY <1>2 DEF Moves
  <2> QED BY <2>1, <2>2, <2>3 DEF Going
<1>3. ASSUME NEW k \in Keys, Persist(k) PROVE Goal
  BY <1>0, <1>3 DEF Persist, TypeOK
<1>4. ASSUME NEW k \in Keys, Reassign(k) PROVE Goal
  BY <1>4 DEF Reassign
<1>5. ASSUME NEW s \in Subs, SoftDelete(s) PROVE Goal
  BY <1>5 DEF SoftDelete
<1>6. ASSUME ActiveSubsOnServer \/ ListingFails \/ Quiet \/ (\E v \in Servers : ServerFails(v))
             \/ \E s \in Subs : NoReserveServer(s)
      PROVE  Goal
  BY <1>6 DEF ActiveSubsOnServer, ListingFails, Quiet, ServerFails, NoReserveServer
<1> HIDE DEF Goal
<1>7. Goal
  BY <1>0, <1>1, <1>2, <1>3, <1>4, <1>5, <1>6, StepShapes
<1> QED BY <1>7 DEF Goal

\* A node takes a key only from its attempt or, later, from a call that was given
\* up; the object store only from the attempt. No fault is forgotten.
LEMMA WhoAdds ==
  ASSUME MInv, [Next]_vars
  PROVE  /\ \A v \in Servers, j \in Keys : j \in peers'[v] =>
              j \in peers[v] \/ (v = on[j] /\ (phase[j] = "addressed" \/ (phase[j] = "failed" /\ j \in late)))
         /\ \A j \in Keys : j \in objects' => j \in objects \/ phase[j] = "provisioned"
         /\ faults' = 0 => faults = 0 /\ late' \subseteq late
<1> DEFINE Nodes == \A v \in Servers, j \in Keys : j \in peers'[v] =>
                      \/ j \in peers[v]
                      \/ v = on[j] /\ (phase[j] = "addressed" \/ (phase[j] = "failed" /\ j \in late))
           Stored == \A j \in Keys : j \in objects' => j \in objects \/ phase[j] = "provisioned"
           Faults == faults' = 0 => faults = 0 /\ late' \subseteq late
           Goal == Nodes /\ Stored /\ Faults
<1> USE DEF rows, nodes, mig, hist
<1>0. /\ TypeOK /\ MigratorOld /\ DeletesOld
      /\ \A j \in Keys : phase[j] # "unused" => on[j] \in Servers
      /\ \A j \in late : phase[j] = "failed"
  BY DEF MInv, KeysInOrder
<1>1. CASE UNCHANGED <<peers, objects, faults, late>>
  BY <1>1
<1>2. ASSUME Fault PROVE Faults
  <2>1. faults' > 0 /\ faults' \in 0 .. MaxFaults
    BY <1>0, <1>2, FaultType
  <2> QED BY <2>1
<1>3. ASSUME NEW k \in Keys, AddPeer(k), phase[k] = "addressed" \/ k \in late PROVE Nodes
  <2>1. on[k] \in Servers /\ (phase[k] = "addressed" \/ (phase[k] = "failed" /\ k \in late))
    BY <1>0, <1>3
  <2> QED BY <1>0, <1>3, <2>1, AddPeerPeers
<1>4. ASSUME NEW u, NEW k, DropPeer(u, k) PROVE Nodes
  BY <1>0, <1>4, DropPeerPeers
<1>5. ASSUME NEW k \in Keys, Provision(k) PROVE Goal
  <2>1. Nodes
    BY <1>3, <1>5 DEF Provision
  <2> QED BY <1>5, <2>1 DEF Provision
<1>6. ASSUME NEW k \in Keys, ProvisionFails(k) PROVE Goal
  <2>1. Faults
    BY <1>2, <1>6 DEF ProvisionFails
  <2>2. Nodes
    BY <1>3, <1>6 DEF ProvisionFails
  <2> QED BY <1>6, <2>1, <2>2 DEF ProvisionFails
<1>7. ASSUME NEW k \in Keys, StoreConfig(k) PROVE Goal
  BY <1>7 DEF StoreConfig
<1>8. ASSUME NEW k \in Keys, StoreFails(k) PROVE Goal
  <2>1. Faults
    BY <1>2, <1>8 DEF StoreFails
  <2> QED BY <1>8, <2>1 DEF StoreFails
<1>9. ASSUME NEW k \in Keys, NotRecorded(k) PROVE Goal
  <2>1. Faults
    BY <1>2, <1>9 DEF NotRecorded
  <2> QED BY <1>9, <2>1 DEF NotRecorded
<1>10. ASSUME NEW k \in Keys, Allocate(k) \/ Persist(k) \/ Reassign(k) PROVE Goal
  BY <1>1, <1>10 DEF Allocate, Persist, Reassign
<1>c. ASSUME UNCHANGED <<peers, objects, late>>, UNCHANGED faults \/ Fault PROVE Goal
  <2>1. Faults
    BY <1>2, <1>c
  <2> QED BY <1>c, <2>1
<1>d. ASSUME NEW k \in Keys, GenerateFails(k) PROVE Goal
  BY <1>c, <1>d DEF GenerateFails
<1>11. ASSUME NEW k \in Keys, Attempt(k) PROVE Goal
  BY <1>5, <1>6, <1>7, <1>8, <1>9, <1>10, <1>11, <1>d DEF Attempt
<1>12. ASSUME NEW k \in Keys, LateAddition(k) PROVE Goal
  <2>1. Nodes
    BY <1>3, <1>12 DEF LateAddition
  <2> QED BY <1>12, <2>1 DEF LateAddition
<1>13. ASSUME DeprovisionOld PROVE Goal
  <2>1. Nodes
    BY <1>4, <1>13 DEF DeprovisionOld
  <2>2. Faults
    BY <1>2, <1>13 DEF DeprovisionOld
  <2> QED BY <1>13, <2>1, <2>2 DEF DeprovisionOld
<1>14. ASSUME NEW d \in Keys, RemovePeer(d) PROVE Goal
  <2>1. Nodes
    BY <1>4, <1>14 DEF RemovePeer
  <2>2. Faults
    BY <1>2, <1>14 DEF RemovePeer
  <2> QED BY <1>14, <2>1, <2>2 DEF RemovePeer
<1>15. ASSUME NEW d \in Keys, PurgeObjects(d) PROVE Goal
  <2>1. Faults
    BY <1>2, <1>15 DEF PurgeObjects
  <2> QED BY <1>15, <2>1 DEF PurgeObjects
<1>16. ASSUME NEW s \in Subs, \/ SelectServer(s) \/ SelectReserveServer(s)
                              \/ SoftDelete(s) \/ Expire(s) \/ ExtendSubscription(s)
       PROVE  Goal
  BY <1>1, <1>16 DEF SelectServer, SelectReserveServer, SoftDelete, Expire, ExtendSubscription
<1>e. ASSUME ListingFails \/ \E s \in Subs : NoReserveServer(s) PROVE Goal
  BY <1>c, <1>e DEF ListingFails, NoReserveServer
<1>17. ASSUME ActiveSubsOnServer \/ OldKeyForSub \/ MigrationEnds PROVE Goal
  BY <1>1, <1>17 DEF ActiveSubsOnServer, OldKeyForSub, MigrationEnds
<1>18. ASSUME (\E v \in Servers : ServerFails(v) \/ SetServerStatus(v)) \/ UNCHANGED vars PROVE Goal
  BY <1>1, <1>18 DEF ServerFails, SetServerStatus, vars
<1> HIDE DEF Goal
<1>19. Goal
  BY <1>11, <1>12, <1>13, <1>14, <1>15, <1>16, <1>17, <1>18, <1>e DEF Next, Migrator
<1> QED BY <1>19 DEF Goal

LEMMA CleanStep == MInv /\ CleanSoFar /\ [Next]_vars => CleanSoFar'
<1> SUFFICES ASSUME MInv, CleanSoFar, [Next]_vars PROVE CleanSoFar'
  OBVIOUS
<1> USE DEF rows, nodes, mig, hist
<1>0. /\ TypeOK /\ KeysInOrder /\ SubsServed
      /\ \A k \in late : phase[k] = "failed"
      /\ \A s \in Subs : <<s, 1>> \in KeysOf(s) /\ <<s, 1>> \in Keys
  BY KeyParts DEF MInv, KeysInOrder, KeysOf
<1>a. \A j \in Keys :
        /\ phase'[j] = "unused" => phase[j] = "unused"
        /\ phase[j] \notin {"unused", "selected"} => phase'[j] \notin {"unused", "selected"} /\ on'[j] = on[j]
        /\ phase[j] \notin {"unused", "selected", "addressed"} =>
             phase'[j] \notin {"unused", "selected", "addressed"}
  BY NoWayBack
<1>b. /\ \A v \in Servers, j \in Keys : j \in peers'[v] =>
           j \in peers[v] \/ (v = on[j] /\ (phase[j] = "addressed" \/ (phase[j] = "failed" /\ j \in late)))
      /\ \A j \in Keys : j \in objects' => j \in objects \/ phase[j] = "provisioned"
      /\ faults' = 0 => faults = 0 /\ late' \subseteq late
  BY WhoAdds
<1>1. faults' = 0 => late' = {}
  BY <1>b DEF CleanSoFar
<1>2. \A v \in Servers : \A k \in peers'[v] : on'[k] = v /\ phase'[k] \notin {"unused", "selected"}
  <2> SUFFICES ASSUME NEW v \in Servers, NEW k \in peers'[v]
               PROVE  on'[k] = v /\ phase'[k] \notin {"unused", "selected"}
    OBVIOUS
  <2>1. TypeOK'
    BY TypeStep DEF MInv
  <2>2. k \in Keys
    BY <2>1 DEF TypeOK
  <2>3. on[k] = v /\ phase[k] \notin {"unused", "selected"}
    BY <1>b, <2>2 DEF CleanSoFar
  <2> QED BY <1>a, <2>2, <2>3
<1>3. \A k \in objects' : phase'[k] \notin {"unused", "selected", "addressed"}
  <2> SUFFICES ASSUME NEW k \in objects' PROVE phase'[k] \notin {"unused", "selected", "addressed"}
    OBVIOUS
  <2>1. TypeOK'
    BY TypeStep DEF MInv
  <2>2. k \in Keys
    BY <2>1 DEF TypeOK
  <2>3. phase[k] \notin {"unused", "selected", "addressed"}
    BY <1>b, <2>2 DEF CleanSoFar
  <2> QED BY <1>a, <2>2, <2>3
<1>4. ASSUME NEW s \in Subs, Untouched(s)'
      PROVE  LET d == del'[<<s, 1>>] IN
             /\ d.pc # "idle" => status'[s] = "deleted"
             /\ d.pc = "remove" => d.key = <<s, 1>> /\ d.srv = on'[<<s, 1>>]
             /\ d.pc \in {"remove", "purge"} => <<s, 1>> \in d.objs
             /\ d.pc \in {"purge", "done"} => \A v \in Servers : <<s, 1>> \notin peers'[v]
             /\ d.pc = "done" => <<s, 1>> \notin objects'
  <2> DEFINE K == <<s, 1>>
             Goal == /\ del'[K].pc # "idle" => status'[s] = "deleted"
                     /\ del'[K].pc = "remove" => del'[K].key = K /\ del'[K].srv = on'[K]
                     /\ del'[K].pc \in {"remove", "purge"} => K \in del'[K].objs
                     /\ del'[K].pc \in {"purge", "done"} => \A v \in Servers : K \notin peers'[v]
                     /\ del'[K].pc = "done" => K \notin objects'
  <2>0. K \in Keys /\ K \in KeysOf(s) /\ faults' = 0 /\ faults = 0 /\ late = {}
    BY <1>0, <1>4, <1>b DEF Untouched, CleanSoFar
  <2>1. \A k \in KeysOf(s) : k[2] > 1 => phase[k] = "unused" /\ phase'[k] = "unused"
    BY <1>4, <1>a DEF Untouched, KeysOf
  <2>2. Untouched(s)
    BY <2>0, <2>1 DEF Untouched
  <2>3. /\ del[K].pc # "idle" => status[s] = "deleted"
        /\ del[K].pc = "remove" => del[K].key = K /\ del[K].srv = on[K]
        /\ del[K].pc \in {"remove", "purge"} => K \in del[K].objs
        /\ del[K].pc \in {"purge", "done"} => \A v \in Servers : K \notin peers[v]
        /\ del[K].pc = "done" => K \notin objects
    BY <2>2 DEF CleanSoFar
  <2>4. status[s] # "none" => phase[K] \in {"active", "revoked"}
    BY <1>0 DEF SubsServed
  <2>5. /\ status[s] # "none" => on'[K] = on[K]
        /\ status[s] # "none" /\ K \in objects' => K \in objects
        /\ \A v \in Servers : status[s] # "none" /\ K \in peers'[v] => K \in peers[v]
    BY <1>a, <1>b, <2>0, <2>4
\* Its status, while nothing of Delete runs for s itself.
  <2>6. ASSUME status[s] = "deleted" PROVE status'[s] = "deleted"
    <3>1. ASSUME NEW t \in Subs, \/ SelectServer(t) \/ SelectReserveServer(t) \/ NoReserveServer(t)
          PROVE  status'[s] = "deleted"
      BY <2>6, <3>1 DEF SelectServer, SelectReserveServer, NoReserveServer
    <3>2. ASSUME NEW k \in Keys, Moves(k) PROVE status'[s] = "deleted"
      BY <2>6, <3>2 DEF Moves
    <3>3. ASSUME NEW k \in Keys, Persist(k) PROVE status'[s] = "deleted"
      <4>1. /\ k[2] = 1 /\ phase[k] = "stored" /\ status' = [status EXCEPT ![Owner(k)] = "active"]
        BY <3>3 DEF Persist
      <4>2. k = <<Owner(k), 1>>
        BY <4>1, KeyParts
      <4>3. Owner(k) # s
        BY <2>4, <2>6, <4>1, <4>2
      <4> QED BY <1>0, <2>6, <4>1, <4>3 DEF TypeOK
    <3>4. ASSUME NEW k \in Keys, Reassign(k) PROVE status'[s] = "deleted"
      <4>1. /\ k[2] > 1 /\ phase'[k] = "active" /\ status' = [status EXCEPT ![Owner(k)] = "active"]
        BY <3>4 DEF Reassign
      <4>2. Owner(k) # s
        BY <2>1, <4>1 DEF KeysOf
      <4> QED BY <1>0, <2>6, <4>1, <4>2 DEF TypeOK
    <3>5. ASSUME NEW t \in Subs, SoftDelete(t) PROVE status'[s] = "deleted"
      BY <1>0, <2>6, <3>5 DEF SoftDelete, TypeOK
    <3>6. ASSUME ActiveSubsOnServer \/ ListingFails \/ Quiet \/ \E v \in Servers : ServerFails(v) PROVE status'[s] = "deleted"
      BY <2>6, <3>6 DEF ActiveSubsOnServer, ListingFails, Quiet, ServerFails
    <3> QED BY <1>0, <3>1, <3>2, <3>3, <3>4, <3>5, <3>6, StepShapes
  <2>7. ASSUME del'[K] = del[K] PROVE Goal
    BY <2>3, <2>5, <2>6, <2>7
  <2>a. ASSUME NEW d \in Keys, NEW row, del' = [del EXCEPT ![d] = row]
        PROVE  IF d = K THEN del'[K] = row ELSE del'[K] = del[K]
    BY <1>0, <2>0, <2>a DEF TypeOK
  <2>b. del[K] \in DelRows /\ \A d \in Keys : del[d] \in DelRows
    BY <1>0, <2>0 DEF TypeOK, DelRows
  <2>c. ASSUME NEW t \in Subs, SoftDelete(t) PROVE Latest(t) \in KeysOf(t)
    BY <2>c, LatestKey DEF SoftDelete
  <2>8. ASSUME SoftDelete(s) PROVE Goal
    <3>1. PICK k \in KeysOf(s) \cap Recorded :
            del' = [del EXCEPT ![Latest(s)] = [pc |-> "remove", srv |-> home[s], key |-> k,
                                               objs |-> KeysOf(s) \cap Recorded]]
      BY <2>8 DEF SoftDelete
    <3>3. UNCHANGED on /\ status'[s] = "deleted" /\ Live(s)
      BY <1>0, <2>8 DEF SoftDelete, TypeOK, Live
    <3>4. \A j \in KeysOf(s) : phase[j] # "unused" => j = K
      BY <2>1, KeyParts DEF KeysOf
    <3>5. k = K
      BY <3>4 DEF Recorded
    <3>6. K \in Recorded
      BY <2>0, <2>4, <3>3 DEF Recorded, Live
    <3>7. on[K] = home[s]
      <4>1. PICK j \in KeysOf(s) : Serves(j, s)
        BY <1>0, <3>3 DEF SubsServed
      <4> QED BY <3>4, <4>1 DEF Serves
    <3>8. Latest(s) = K
      BY <3>4, LatestKey DEF Recorded
    <3>2. del'[K].pc = "remove" /\ del'[K].srv = home[s] /\ del'[K].key = k
          /\ del'[K].objs = KeysOf(s) \cap Recorded
      <4> DEFINE row == [pc |-> "remove", srv |-> home[s], key |-> k, objs |-> KeysOf(s) \cap Recorded]
      <4>1. row.pc = "remove" /\ row.srv = home[s] /\ row.key = k /\ row.objs = KeysOf(s) \cap Recorded
        OBVIOUS
      <4>2. del' = [del EXCEPT ![K] = row]
        BY <3>1, <3>8
      <4> HIDE DEF row, K
      <4> QED BY <2>0, <2>a, <4>1, <4>2
    <3> QED BY <2>0, <3>2, <3>3, <3>5, <3>6, <3>7
  <2>9. ASSUME RemovePeer(K) PROVE Goal
    <3> DEFINE row == [del[K] EXCEPT !.pc = "purge", !.srv = NoServer, !.key = NoKey]
    <3>0. del' = [del EXCEPT ![K] = row]
      BY <2>9 DEF RemovePeer
    <3>1. del[K].pc = "remove" /\ DropPeer(del[K].srv, del[K].key) /\ UNCHANGED status
      BY <2>0, <2>9 DEF RemovePeer, Fault
    <3>2. row.pc = "purge" /\ row.objs = del[K].objs
      BY <2>b DEF DelRows
    <3> HIDE DEF row, K
    <3>5. del'[K].pc = "purge" /\ del'[K].objs = del[K].objs
      BY <2>0, <2>a, <3>0, <3>2
    <3>3. \A v \in Servers : K \in peers[v] => v = on[K]
      BY DEF CleanSoFar
    <3>4. \A v \in Servers : K \notin peers'[v]
      BY <1>0, <2>0, <2>3, <3>1, <3>3, DropPeerPeers
    <3> QED BY <2>3, <3>1, <3>4, <3>5
  <2>10. ASSUME PurgeObjects(K) PROVE Goal
    <3> DEFINE row == [del[K] EXCEPT !.pc = "done", !.objs = {}]
    <3>0. del' = [del EXCEPT ![K] = row]
      BY <2>10 DEF PurgeObjects
    <3>1. del[K].pc = "purge" /\ objects' = objects \ del[K].objs /\ UNCHANGED status
      BY <2>0, <2>10 DEF PurgeObjects, Fault
    <3>2. row.pc = "done"
      BY <2>b DEF DelRows
    <3> HIDE DEF row, K
    <3>3. del'[K].pc = "done"
      BY <2>0, <2>a, <3>0, <3>2
    <3> QED BY <2>3, <2>5, <3>1, <3>3
  <2>11. ASSUME \/ \E t \in Subs : t # s /\ SoftDelete(t)
                \/ \E d \in Keys : d # K /\ (RemovePeer(d) \/ PurgeObjects(d))
         PROVE Goal
    <3>1. ASSUME NEW t \in Subs, t # s, SoftDelete(t) PROVE del'[K] = del[K]
      <4>1. Latest(t) \in Keys /\ Latest(t) # K
        BY <2>c, <2>0, <3>1 DEF KeysOf
      <4>2. \E row : del' = [del EXCEPT ![Latest(t)] = row]
        BY <3>1 DEF SoftDelete
      <4> HIDE DEF K
      <4> QED BY <2>a, <4>1, <4>2
    <3>2. ASSUME NEW d \in Keys, d # K, RemovePeer(d) \/ PurgeObjects(d) PROVE del'[K] = del[K]
      BY <1>0, <2>0, <3>2 DEF RemovePeer, PurgeObjects, TypeOK
    <3> QED BY <2>7, <2>11, <3>1, <3>2
  <2>12. ASSUME UNCHANGED del PROVE Goal
    BY <2>7, <2>12
  <2>13. ASSUME NEW k \in Keys, Attempt(k) PROVE Goal
    <3>1. UNCHANGED del
      BY <1>0, <2>13, AttemptShape DEF Moves, Persist, Reassign
    <3> QED BY <2>12, <3>1
  <2>14. ASSUME NEW t \in Subs, \/ SelectServer(t) \/ NoReserveServer(t) \/ SelectReserveServer(t)
                                \/ Expire(t) \/ ExtendSubscription(t)
         PROVE  Goal
    BY <2>12, <2>14 DEF SelectServer, NoReserveServer, SelectReserveServer, Expire, ExtendSubscription
  <2>15. ASSUME \/ ActiveSubsOnServer \/ ListingFails \/ OldKeyForSub \/ DeprovisionOld \/ MigrationEnds
                \/ \E k \in Keys : LateAddition(k)
         PROVE  Goal
    BY <2>12, <2>15 DEF ActiveSubsOnServer, ListingFails, OldKeyForSub, DeprovisionOld, MigrationEnds, LateAddition
  <2>16. ASSUME (\E v \in Servers : ServerFails(v) \/ SetServerStatus(v)) \/ UNCHANGED vars PROVE Goal
    BY <2>12, <2>16 DEF ServerFails, SetServerStatus, vars
  <2> HIDE DEF Goal, K
  <2>17. Goal
    BY <2>8, <2>9, <2>10, <2>11, <2>13, <2>14, <2>15, <2>16 DEF Next, Migrator
  <2> QED BY <2>17 DEF Goal, K
<1> QED BY <1>1, <1>2, <1>3, <1>4 DEF CleanSoFar

\* Delete takes a subscription's only key off every node and its only
\* configuration out of the store, if no call fails and no migration touches it.
THEOREM DeleteLeavesNothing == Spec => []DeleteIsClean
<1>1. Init => CleanSoFar
  BY KeyParts DEF Init, CleanSoFar
<1>2. MInv /\ CleanSoFar /\ [Next]_vars => MInv' /\ CleanSoFar'
  BY MInvStep, CleanStep
<1>3. ASSUME MInv, CleanSoFar PROVE DeleteIsClean
  <2> SUFFICES ASSUME NEW s \in Subs, del[<<s, 1>>].pc = "done", faults = 0,
                      \A k \in KeysOf(s) : k[2] > 1 => phase[k] = "unused"
               PROVE  /\ \A v \in Servers : peers[v] \cap KeysOf(s) = {}
                      /\ objects \cap KeysOf(s) = {}
    BY DEF DeleteIsClean
  <2>1. /\ \A v \in Servers : <<s, 1>> \notin peers[v]
        /\ <<s, 1>> \notin objects
    BY <1>3 DEF CleanSoFar, Untouched
  <2>2. \A k \in KeysOf(s) : k # <<s, 1>> => phase[k] = "unused"
    BY KeyParts DEF KeysOf
  <2>3. \A k \in KeysOf(s) : k # <<s, 1>> => k \notin objects /\ \A v \in Servers : k \notin peers[v]
    BY <1>3, <2>2 DEF CleanSoFar
  <2> QED BY <2>1, <2>3
<1> QED BY <1>1, <1>2, <1>3, MInvInit, PTL DEF Spec

-----------------------------------------------------------------------------
(* client_count.                                                            *)

\* Counting one client more, and one less.
LEMMA OneMore ==
  ASSUME NEW S, NEW s, IsFiniteSet(S), s \notin S
  PROVE  IsFiniteSet(S \cup {s}) /\ Cardinality(S \cup {s}) = Cardinality(S) + 1
BY FS_AddElement

LEMMA OneLess ==
  ASSUME NEW S, NEW s, IsFiniteSet(S), s \in S
  PROVE  IsFiniteSet(S \ {s}) /\ Cardinality(S \ {s}) = Dec(Cardinality(S))
<1>1. IsFiniteSet(S \ {s}) /\ Cardinality(S \ {s}) = Cardinality(S) - 1
  BY FS_RemoveElement
<1>2. Cardinality(S) \in Nat /\ Cardinality(S \ {s}) \in Nat
  BY <1>1, FS_CardinalityType
<1> QED BY <1>1, <1>2 DEF Dec

LEMMA CountStep == MInv /\ Counted /\ [Next]_vars => Counted'
<1> SUFFICES ASSUME MInv, Counted, [Next]_vars PROVE Counted'
  OBVIOUS
<1> USE DEF rows, nodes, mig, hist
<1>0. TypeOK /\ KeysInOrder /\ MigratorPlace /\ SubsServed
  BY DEF MInv
<1>a. \A v \in Servers : IsFiniteSet(Clients(v)) /\ (revived = {} => count[v] = Cardinality(Clients(v)))
  BY DEF Counted
<1>b. ASSUME \A v \in Servers : /\ IsFiniteSet(Clients(v)')
                                /\ revived' = {} => count'[v] = Cardinality(Clients(v)')
      PROVE  Counted'
  BY <1>b DEF Counted
<1>c. \A v : Clients(v) = {s \in Subs : Live(s) /\ home[s] = v}
  BY DEF Clients
<1>d. \A v \in Servers : Clients(v)' = {s \in Subs : Live(s)' /\ home'[s] = v}
  BY DEF Clients
<1>1. ASSUME UNCHANGED <<home, count, revived>>, \A s \in Subs : Live(s)' <=> Live(s) PROVE Counted'
  <2>1. \A v \in Servers : Clients(v)' = Clients(v)
    BY <1>1, <1>c, <1>d
  <2> QED BY <1>1, <1>a, <1>b, <2>1
<1>2. ASSUME UNCHANGED <<status, home, count, revived>> PROVE Counted'
  BY <1>1, <1>2 DEF Live
<1>3. ASSUME NEW s \in Subs, SelectServer(s) \/ SelectReserveServer(s) \/ NoReserveServer(s) PROVE Counted'
  BY <1>2, <1>3 DEF SelectServer, SelectReserveServer, NoReserveServer
<1>4. ASSUME NEW k \in Keys, Moves(k) PROVE Counted'
  BY <1>2, <1>4 DEF Moves
<1>5. CASE ActiveSubsOnServer \/ ListingFails \/ \E v \in Servers : ServerFails(v)
  BY <1>2, <1>5 DEF ActiveSubsOnServer, ListingFails, ServerFails
<1>6. CASE Quiet
  <2>1. \A s \in Subs : Live(s)' <=> Live(s)
    BY <1>6 DEF Quiet, Live
  <2> QED BY <1>1, <1>6, <2>1 DEF Quiet
<1>7. ASSUME NEW k \in Keys, Persist(k) PROVE Counted'
  <2> DEFINE s == Owner(k)
  <2>3. PICK u \in Servers : u = on[k]
    BY <1>0, <1>7 DEF KeysInOrder, Persist
  <2>1. /\ k[2] = 1 /\ phase[k] = "stored" /\ UNCHANGED revived
        /\ status' = [status EXCEPT ![s] = "active"] /\ home' = [home EXCEPT ![s] = u]
        /\ count' = [count EXCEPT ![u] = count[u] + 1]
    BY <1>7, <2>3 DEF Persist
  <2>2. s \in Subs /\ k = <<s, 1>>
    BY <2>1, KeyParts
  <2> HIDE DEF s
  <2>4. ~ Live(s)
    BY <1>0, <2>1, <2>2 DEF SubsServed, Live
  <2>5. \A t \in Subs : /\ status'[t] = IF t = s THEN "active" ELSE status[t]
                        /\ home'[t] = IF t = s THEN u ELSE home[t]
    BY <1>0, <2>1 DEF TypeOK
  <2>6. Live(s)' /\ \A t \in Subs : t # s => (Live(t)' <=> Live(t))
    BY <2>2, <2>5 DEF Live
  <2>7. Clients(u)' = Clients(u) \cup {s} /\ s \notin Clients(u)
    BY <1>c, <1>d, <2>2, <2>3, <2>4, <2>5, <2>6
  <2>8. \A v \in Servers : v # u => Clients(v)' = Clients(v)
    BY <1>c, <1>d, <2>2, <2>4, <2>5, <2>6
  <2>9. \A v \in Servers : count'[v] = IF v = u THEN count[v] + 1 ELSE count[v]
    BY <1>0, <2>1 DEF TypeOK
  <2>10. IsFiniteSet(Clients(u)') /\ Cardinality(Clients(u)') = Cardinality(Clients(u)) + 1
    BY <1>a, <2>3, <2>7, OneMore
  <2> QED BY <1>a, <1>b, <2>1, <2>3, <2>8, <2>9, <2>10
<1>8. ASSUME NEW k \in Keys, Reassign(k) PROVE Counted'
  <2> DEFINE s == Owner(k)
  <2>3. PICK u \in Servers : u = on[k]
    BY <1>0, <1>8 DEF KeysInOrder, Reassign
  <2>1. /\ migPc = "attempt" /\ migKey = k /\ phase[k] = "stored"
        /\ status' = [status EXCEPT ![s] = "active"] /\ home' = [home EXCEPT ![s] = u]
        /\ count' = [count EXCEPT ![u] = count[u] + 1, ![migFrom] = Dec(count[migFrom])]
        /\ revived' = IF status[s] = "deleted" THEN revived \cup {s} ELSE revived
    BY <1>8, <2>3, KeyParts DEF Reassign, Running
  <2>2. /\ s \in Subs /\ u # migFrom /\ migFrom \in Servers
        /\ status[s] # "none" /\ home[s] = migFrom
    BY <1>0, <2>1, <2>3, KeyParts DEF MigratorPlace, Migrating
  <2> HIDE DEF s
  <2>4. \A t \in Subs : /\ status'[t] = IF t = s THEN "active" ELSE status[t]
                        /\ home'[t] = IF t = s THEN u ELSE home[t]
    BY <1>0, <2>1 DEF TypeOK
  <2>5. Live(s)' /\ \A t \in Subs : t # s => (Live(t)' <=> Live(t))
    BY <2>2, <2>4 DEF Live
  <2>6. Clients(u)' = Clients(u) \cup {s} /\ s \notin Clients(u)
    BY <1>c, <1>d, <2>2, <2>3, <2>4, <2>5
  <2>7. Clients(migFrom) \ {s} = {t \in Subs : Live(t)' /\ home'[t] = migFrom}
    BY <1>c, <2>2, <2>4, <2>5
  <2>8. \A v \in Servers : v # u /\ v # migFrom => Clients(v)' = Clients(v)
    BY <1>c, <1>d, <2>2, <2>4, <2>5
  <2>9. \A v \in Servers : count'[v] = IF v = migFrom THEN Dec(count[v])
                                       ELSE IF v = u THEN count[v] + 1 ELSE count[v]
    BY <1>0, <2>1, <2>2 DEF TypeOK
  <2>10. IsFiniteSet(Clients(u)') /\ Cardinality(Clients(u)') = Cardinality(Clients(u)) + 1
    BY <1>a, <2>3, <2>6, OneMore
  <2>11. \A v \in Servers : v = migFrom => Clients(v)' = Clients(v) \ {s}
    BY <1>d, <2>7
  <2>12. CASE status[s] = "deleted"
    <3>1. revived' # {}
      BY <2>1, <2>12
    <3>2. s \notin Clients(migFrom)
      BY <1>c, <2>12 DEF Live
    <3>3. Clients(migFrom) \ {s} = Clients(migFrom)
      BY <3>2
    <3>4. \A v \in Servers : IsFiniteSet(Clients(v)')
      BY <1>a, <2>2, <2>8, <2>10, <2>11, <3>3
    <3> QED BY <1>b, <3>1, <3>4
  <2>13. CASE status[s] # "deleted"
    <3>1. s \in Clients(migFrom)
      BY <1>0, <1>c, <2>2, <2>13 DEF Live, TypeOK
    <3>2. /\ IsFiniteSet(Clients(migFrom) \ {s})
          /\ Cardinality(Clients(migFrom) \ {s}) = Dec(Cardinality(Clients(migFrom)))
      BY <1>a, <2>2, <3>1, OneLess
    <3>3. revived' = revived
      BY <2>1, <2>13
    <3>4. ASSUME NEW v \in Servers
          PROVE  IsFiniteSet(Clients(v)') /\ (revived' = {} => count'[v] = Cardinality(Clients(v)'))
      <4>1. CASE v = migFrom
        BY <1>a, <2>9, <2>11, <3>2, <3>3, <4>1
      <4>2. CASE v = u
        BY <1>a, <2>2, <2>9, <2>10, <3>3, <4>2
      <4>3. CASE v # u /\ v # migFrom
        BY <1>a, <2>8, <2>9, <3>3, <4>3
      <4> QED BY <4>1, <4>2, <4>3
    <3> QED BY <1>b, <3>4
  <2> QED BY <2>12, <2>13
<1>9. ASSUME NEW s \in Subs, SoftDelete(s) PROVE Counted'
  <2>2. PICK u \in Servers : u = home[s]
    BY <1>0, <1>9 DEF SubsServed, SoftDelete
  <2>1. /\ status' = [status EXCEPT ![s] = "deleted"] /\ UNCHANGED <<home, revived>>
        /\ count' = [count EXCEPT ![u] = Dec(count[u])] /\ Live(s)
    BY <1>9, <2>2 DEF SoftDelete, Live
  <2>3. \A t \in Subs : status'[t] = IF t = s THEN "deleted" ELSE status[t]
    BY <1>0, <2>1 DEF TypeOK
  <2>4. ~ Live(s)' /\ \A t \in Subs : t # s => (Live(t)' <=> Live(t))
    BY <2>3 DEF Live
  <2>5. Clients(u)' = Clients(u) \ {s} /\ s \in Clients(u)
    BY <1>c, <1>d, <2>1, <2>2, <2>4
  <2>6. \A v \in Servers : v # u => Clients(v)' = Clients(v)
    BY <1>c, <1>d, <2>1, <2>2, <2>4
  <2>7. \A v \in Servers : count'[v] = IF v = u THEN Dec(count[v]) ELSE count[v]
    BY <1>0, <2>1 DEF TypeOK
  <2>8. IsFiniteSet(Clients(u)') /\ Cardinality(Clients(u)') = Dec(Cardinality(Clients(u)))
    BY <1>a, <2>2, <2>5, OneLess
  <2> QED BY <1>a, <1>b, <2>1, <2>2, <2>6, <2>7, <2>8
<1> QED BY <1>0, <1>3, <1>4, <1>5, <1>6, <1>7, <1>8, <1>9, StepShapes

\* client_count is the number of subscriptions that are not deleted on each
\* server, until a migration brings a deleted one back.
THEOREM CountIsOfClients == Spec => []CountsClients
<1>1. Init => Counted
  <2> SUFFICES ASSUME Init, NEW v \in Servers
               PROVE  IsFiniteSet(Clients(v)) /\ count[v] = Cardinality(Clients(v))
    BY DEF Counted
  <2>1. Clients(v) = {} /\ count[v] = 0
    BY DEF Init, Clients, Live
  <2> QED BY <2>1, FS_EmptySet
<1>2. MInv /\ Counted /\ [Next]_vars => MInv' /\ Counted'
  BY MInvStep, CountStep
<1>3. Counted => CountsClients
  BY DEF Counted, CountsClients, Clients
<1> QED BY <1>1, <1>2, <1>3, MInvInit, PTL DEF Spec
=============================================================================
