----------------------------- MODULE NodeProofs -----------------------------
(***************************************************************************)
(* Proofs about a node's agent (NodeAgent), for any number of requests at  *)
(* once, of clients and of peers and any bounds on faults and removals,    *)
(* and, in the last section, about the engine that polls the nodes         *)
(* (Monitoring), for any servers and reports.                              *)
(***************************************************************************)
EXTENDS NodeAgent, Monitoring, TLAPS

\* The requests in progress: what is being added was asked for once and is not
\* added yet, what is being removed was added.
Jobs ==
  /\ job \in [Handlers -> Job \cup {None}]
  /\ copy \in [Handlers -> SUBSET (Clients \cup Peers)]
  /\ removing \subseteq added
  /\ \A h \in Handlers : pc[h] # "idle" =>
       /\ job[h].client \in IF pc[h] \in {"set", "saving"} THEN Peers ELSE Clients
       /\ IF job[h].add
          THEN /\ job[h].client \in asked \ added
               /\ \A g \in Handlers \ {h} : pc[g] # "idle" /\ job[g].add => job[g].client # job[h].client
          ELSE job[h].client \in removing
       /\ pc[h] = "saving" => copy[h] \subseteq asked

\* Under xrayMu: the file is whole and nobody else edits it.
Edits ==
  /\ torn => faults > 0
  /\ \A h \in Handlers :
       /\ pc[h] \in {"editing", "reloading"} => ~ torn
       /\ pc[h] = "editing" => copy[h] = file
       /\ pc[h] = "reloading" => (job[h].client \in file <=> job[h].add)

\* A save that nothing has overlapped writes the interface as it is.
Saves ==
  \A h \in quiet : copy[h] = peers /\ \A g \in Handlers \ {h} : pc[g] # "saving"

IInv == TypeOK /\ Jobs /\ Edits /\ AddedIsServed /\ RemovedIsGone /\ Saves /\ QuietSaveRepairs

-----------------------------------------------------------------------------
(* Types.                                                                   *)

Places == {"idle", "waiting", "editing", "reloading", "set", "saving"}

\* The functions of a state whose requests are well typed.
LEMMA Shapes ==
  ASSUME TypeOK, Jobs
  PROVE  /\ pc \in [Handlers -> Places] /\ job \in [Handlers -> Job \cup {None}]
         /\ copy \in [Handlers -> SUBSET (Clients \cup Peers)]
         /\ \A h \in Handlers : pc[h] # "idle" =>
              job[h] \in Job /\ job[h].client \in Clients \cup Peers /\ job[h].add \in BOOLEAN
BY DEF TypeOK, Jobs, Job, Places

\* A request that ends, and one that moves on.
LEMMA FinishShape ==
  ASSUME TypeOK, Jobs, NEW h \in Handlers, Finish(h)
  PROVE  \A g \in Handlers : /\ pc'[g] = IF g = h THEN "idle" ELSE pc[g]
                             /\ job'[g] = IF g = h THEN None ELSE job[g]
                             /\ copy'[g] = IF g = h THEN {} ELSE copy[g]
BY Shapes DEF Finish, At

LEMMA AtShape ==
  ASSUME TypeOK, Jobs, NEW h \in Handlers, NEW p, At(h, p)
  PROVE  \A g \in Handlers : pc'[g] = IF g = h THEN p ELSE pc[g]
BY Shapes DEF At

LEMMA AnswerShape ==
  ASSUME TypeOK, Jobs, NEW h \in Handlers, pc[h] # "idle", Answer(h)
  PROVE  /\ Finish(h) /\ UNCHANGED <<asked, removing>>
         /\ added \subseteq added' /\ removed \subseteq removed'
         /\ job[h].add => added' = added \cup {job[h].client} /\ removed' = removed
         /\ ~ job[h].add => added' = added /\ removed' = removed \cup {job[h].client}
         /\ added' \subseteq asked /\ removed' \subseteq removing \cap added'
<1>1. job[h].add => job[h].client \in asked
  BY DEF Jobs
<1>2. ~ job[h].add => job[h].client \in removing /\ removing \subseteq added
  BY DEF Jobs
<1> QED BY <1>1, <1>2 DEF Answer, TypeOK

\* The conjuncts of TypeOK about one request.
Place(h) ==
  /\ IF pc[h] = "idle" THEN job[h] = None ELSE job[h] \in Job
  /\ pc[h] \in {"idle", "waiting", "set"} => copy[h] = {}
  /\ copy[h] \subseteq IF pc[h] = "saving" THEN Peers ELSE Clients
  /\ lock = h <=> pc[h] \in {"editing", "reloading"}

\* The rest of them.
Stores ==
  /\ file \subseteq Clients /\ running \subseteq Clients /\ torn \in BOOLEAN
  /\ peers \subseteq asked \cap Peers /\ saved \subseteq asked \cap Peers
  /\ lock \in Handlers \cup {None}
  /\ faults \in 0 .. MaxFaults /\ removals \in 0 .. MaxRemovals
  /\ asked \subseteq Clients \cup Peers /\ removing \subseteq asked
  /\ removed \subseteq removing \cap added /\ added \subseteq asked
  /\ quiet \subseteq {h \in Handlers : pc[h] = "saving"} /\ suspect \in BOOLEAN

LEMMA TypeParts ==
  TypeOK <=> pc \in [Handlers -> Places] /\ (\A h \in Handlers : Place(h)) /\ Stores
BY DEF TypeOK, Place, Stores, Places

LEMMA FaultType ==
  ASSUME TypeOK, Fault
  PROVE  faults' \in 0 .. MaxFaults /\ faults' > 0
BY AgentAssumption DEF TypeOK, Fault

\* The types of the requests after a step of h that leaves the others alone.
LEMMA OthersKeepPlace ==
  ASSUME TypeOK, NEW h \in Handlers,
         \A g \in Handlers \ {h} : pc'[g] = pc[g] /\ job'[g] = job[g] /\ copy'[g] = copy[g],
         lock' = lock \/ (lock = None /\ lock' = h) \/ (lock = h /\ lock' = None),
         Place(h)'
  PROVE  \A g \in Handlers : Place(g)'
<1> SUFFICES ASSUME NEW g \in Handlers, g # h PROVE Place(g)'
  OBVIOUS
<1>1. Place(g)
  BY TypeParts
<1>2. lock' = g <=> lock = g
  BY AgentAssumption
<1> QED BY <1>1, <1>2 DEF Place

LEMMA TypeStep == TypeOK /\ Jobs /\ [Next]_vars => TypeOK'
<1> SUFFICES ASSUME TypeOK, Jobs, [Next]_vars PROVE TypeOK'
  OBVIOUS
<1> USE DEF xray, wg, saves, bounds, history
<1>0. /\ pc \in [Handlers -> Places] /\ Stores /\ (\A h \in Handlers : Place(h))
      /\ job \in [Handlers -> Job \cup {None}] /\ removing \subseteq added
      /\ copy \in [Handlers -> SUBSET (Clients \cup Peers)]
      /\ None \notin Handlers
  BY TypeParts, AgentAssumption DEF Jobs
<1>a. ASSUME pc' \in [Handlers -> Places], \A g \in Handlers : Place(g)', Stores' PROVE TypeOK'
  BY <1>a DEF TypeOK, Place, Stores, Places
<1>1. ASSUME NEW h \in Handlers, NEW p \in Places, At(h, p) PROVE pc' \in [Handlers -> Places]
  BY <1>0, <1>1 DEF At
<1>2. ASSUME NEW h \in Handlers, Finish(h) PROVE pc' \in [Handlers -> Places]
  BY <1>1, <1>2 DEF Finish, Places
\* A request that ends leaves the lock, if it has it.
<1>3. ASSUME NEW h \in Handlers, Finish(h),
             IF pc[h] \in {"editing", "reloading"} THEN lock' = None ELSE lock' = lock
      PROVE  \A g \in Handlers : Place(g)'
  <2>1. \A g \in Handlers : /\ pc'[g] = IF g = h THEN "idle" ELSE pc[g]
                            /\ job'[g] = IF g = h THEN None ELSE job[g]
                            /\ copy'[g] = IF g = h THEN {} ELSE copy[g]
    BY <1>3, FinishShape
  <2>2. lock = h <=> pc[h] \in {"editing", "reloading"}
    BY <1>0 DEF Place
  <2>3. Place(h)'
    BY <1>0, <1>3, <2>1, <2>2 DEF Place
  <2> QED BY <1>3, <2>1, <2>2, <2>3, OthersKeepPlace
\* A request that moves on.
<1>4. ASSUME NEW h \in Handlers, NEW p \in Places, At(h, p), UNCHANGED <<job, lock>>,
             \A g \in Handlers \ {h} : copy'[g] = copy[g], Place(h)'
      PROVE  \A g \in Handlers : Place(g)'
  <2>1. \A g \in Handlers : pc'[g] = IF g = h THEN p ELSE pc[g]
    BY <1>4, AtShape
  <2> QED BY <1>4, <2>1, OthersKeepPlace
\* A new one.
<1>5. ASSUME NEW h \in Handlers, NEW p \in {"waiting", "set"}, pc[h] = "idle", At(h, p),
             NEW r \in Job, job' = [job EXCEPT ![h] = r], UNCHANGED <<copy, lock>>
      PROVE  \A g \in Handlers : Place(g)'
  <2>1. \A g \in Handlers : /\ pc'[g] = IF g = h THEN p ELSE pc[g]
                            /\ job'[g] = IF g = h THEN r ELSE job[g]
    BY <1>0, <1>5, AtShape
  <2>2. Place(h) /\ copy[h] = {}
    BY <1>0, <1>5 DEF Place
  <2>3. Place(h)'
    BY <1>5, <2>1, <2>2 DEF Place
  <2> QED BY <1>5, <2>1, <2>3, OthersKeepPlace
<1>6. ASSUME NEW c \in Clients \cup Peers, NEW b \in BOOLEAN PROVE [add |-> b, client |-> c] \in Job
  BY DEF Job
\* The saves in progress, if those that end leave "quiet".
<1>7. ASSUME quiet' \subseteq quiet, \A g \in quiet' : pc'[g] = pc[g]
      PROVE  quiet' \subseteq {g \in Handlers : pc'[g] = "saving"}
  BY <1>0, <1>7 DEF Stores
<1>8. ASSUME NEW h \in Handlers, pc[h] # "saving", UNCHANGED quiet,
             \A g \in Handlers : g # h => pc'[g] = pc[g]
      PROVE  quiet' \subseteq {g \in Handlers : pc'[g] = "saving"}
  BY <1>0, <1>7, <1>8 DEF Stores
<1>9. ASSUME NEW h \in Handlers, NEW c \in Clients, Add(h, c) PROVE TypeOK'
  <2>1. /\ pc[h] = "idle" /\ At(h, "waiting") /\ job' = [job EXCEPT ![h] = [add |-> TRUE, client |-> c]]
        /\ asked' = asked \cup {c} /\ UNCHANGED <<xray, wg, copy, bounds, added, removing, removed, saves>>
    BY <1>9 DEF Add, Begin
  <2>2. [add |-> TRUE, client |-> c] \in Job
    BY <1>6
  <2>3. \A g \in Handlers : Place(g)'
    BY <1>5, <2>1, <2>2
  <2>4. pc' \in [Handlers -> Places]
    BY <1>1, <2>1 DEF Places
  <2>5. quiet' \subseteq {g \in Handlers : pc'[g] = "saving"}
    BY <1>8, <2>1, AtShape
  <2>6. Stores'
    BY <1>0, <2>1, <2>5 DEF Stores
  <2> QED BY <2>3, <2>4, <2>6, <1>a
<1>10. ASSUME NEW h \in Handlers, NEW c \in Clients, Remove(h, c) PROVE TypeOK'
  <2>1. /\ pc[h] = "idle" /\ At(h, "waiting") /\ job' = [job EXCEPT ![h] = [add |-> FALSE, client |-> c]]
        /\ c \in added /\ removals < MaxRemovals
        /\ removing' = removing \cup {c} /\ removals' = removals + 1
        /\ UNCHANGED <<xray, wg, copy, faults, asked, added, removed, saves>>
    BY <1>10 DEF Remove, Begin
  <2>2. [add |-> FALSE, client |-> c] \in Job
    BY <1>6
  <2>3. \A g \in Handlers : Place(g)'
    BY <1>5, <2>1, <2>2
  <2>4. pc' \in [Handlers -> Places]
    BY <1>1, <2>1 DEF Places
  <2>5. quiet' \subseteq {g \in Handlers : pc'[g] = "saving"}
    BY <1>8, <2>1, AtShape
  <2>6. removals' \in 0 .. MaxRemovals
    BY <1>0, <2>1, AgentAssumption DEF Stores
  <2>7. Stores'
    BY <1>0, <2>1, <2>5, <2>6 DEF Stores
  <2> QED BY <2>3, <2>4, <2>7, <1>a
<1>11. ASSUME NEW h \in Handlers, Lock(h) PROVE TypeOK'
  <2>1. /\ pc[h] = "waiting" /\ lock = None /\ lock' = h /\ At(h, "editing")
        /\ copy' = [copy EXCEPT ![h] = file]
        /\ UNCHANGED <<file, torn, running, wg, job, bounds, history, saves>>
    BY <1>11 DEF Lock
  <2>2. \A g \in Handlers : /\ pc'[g] = IF g = h THEN "editing" ELSE pc[g]
                            /\ copy'[g] = IF g = h THEN file ELSE copy[g]
    BY <1>0, <2>1, AtShape
  <2>3. Place(h)'
    BY <1>0, <2>1, <2>2 DEF Place, Stores
  <2>4. \A g \in Handlers : Place(g)'
    BY <2>1, <2>2, <2>3, OthersKeepPlace
  <2>5. pc' \in [Handlers -> Places]
    BY <1>1, <2>1 DEF Places
  <2>6. quiet' \subseteq {g \in Handlers : pc'[g] = "saving"}
    BY <1>8, <2>1, <2>2
  <2>7. Stores'
    BY <1>0, <2>1, <2>6 DEF Stores
  <2> QED BY <2>4, <2>5, <2>7, <1>a
<1>12. ASSUME NEW h \in Handlers, Unreadable(h) PROVE TypeOK'
  <2>1. /\ pc[h] = "waiting" /\ Finish(h) /\ (UNCHANGED faults \/ Fault)
        /\ UNCHANGED <<xray, wg, removals, history, saves>>
    BY <1>12 DEF Unreadable
  <2>2. (\A g \in Handlers : Place(g)') /\ pc' \in [Handlers -> Places]
    BY <1>2, <1>3, <2>1
  <2>3. quiet' \subseteq {g \in Handlers : pc'[g] = "saving"}
    BY <1>8, <2>1, FinishShape
  <2>4. faults' \in 0 .. MaxFaults
    BY <1>0, <2>1, FaultType DEF Stores
  <2>5. Stores'
    BY <1>0, <2>1, <2>3, <2>4 DEF Stores
  <2> QED BY <2>2, <2>5, <1>a
<1>13. ASSUME NEW h \in Handlers, WriteFile(h) PROVE TypeOK'
  <2>1. /\ pc[h] = "editing" /\ file' = Edited(h) /\ At(h, "reloading")
        /\ UNCHANGED <<torn, running, lock, wg, job, copy, bounds, history, saves>>
    BY <1>13 DEF WriteFile
  <2>2. \A g \in Handlers : pc'[g] = IF g = h THEN "reloading" ELSE pc[g]
    BY <2>1, AtShape
  <2>3. Place(h) /\ job[h].client \in Clients
    BY <1>0, <2>1 DEF Jobs
  <2>4. file' \subseteq Clients
    BY <2>1, <2>3 DEF Edited, Place
  <2>5. Place(h)'
    BY <2>1, <2>2, <2>3 DEF Place
  <2>6. (\A g \in Handlers : Place(g)') /\ pc' \in [Handlers -> Places]
    BY <1>1, <1>4, <2>1, <2>5 DEF Places
  <2>7. quiet' \subseteq {g \in Handlers : pc'[g] = "saving"}
    BY <1>8, <2>1, <2>2
  <2>8. Stores'
    BY <1>0, <2>1, <2>4, <2>7 DEF Stores
  <2> QED BY <2>6, <2>8, <1>a
<1>14. ASSUME NEW h \in Handlers, WriteFails(h) PROVE TypeOK'
  <2>1. /\ pc[h] = "editing" /\ Fault /\ lock' = None /\ Finish(h)
        /\ torn' \in {torn, TRUE} /\ file' \in {file, Edited(h)}
        /\ UNCHANGED <<running, wg, removals, history, saves>>
    BY <1>14 DEF WriteFails
  <2>6. torn' \in BOOLEAN /\ file' \subseteq Clients
    <3>1. copy[h] \subseteq Clients /\ job[h].client \in Clients
      BY <1>0, <2>1 DEF Place, Jobs
    <3>2. Edited(h) \subseteq Clients
      BY <3>1 DEF Edited
    <3> QED BY <1>0, <2>1, <3>2 DEF Stores
  <2>2. (\A g \in Handlers : Place(g)') /\ pc' \in [Handlers -> Places]
    BY <1>2, <1>3, <2>1
  <2>3. quiet' \subseteq {g \in Handlers : pc'[g] = "saving"}
    BY <1>8, <2>1, FinishShape
  <2>4. faults' \in 0 .. MaxFaults
    BY <2>1, FaultType
  <2>5. Stores'
    BY <1>0, <2>1, <2>3, <2>4, <2>6 DEF Stores
  <2> QED BY <2>2, <2>5, <1>a
<1>15. ASSUME NEW h \in Handlers, Reload(h) PROVE TypeOK'
  <2>1. /\ pc[h] = "reloading" /\ running' = file /\ lock' = None /\ Answer(h)
        /\ UNCHANGED <<file, torn, wg, bounds, saves>>
    BY <1>15 DEF Reload
  <2>2. /\ Finish(h) /\ UNCHANGED <<asked, removing>>
        /\ added' \subseteq asked /\ removed' \subseteq removing \cap added'
    BY <2>1, AnswerShape
  <2>3. (\A g \in Handlers : Place(g)') /\ pc' \in [Handlers -> Places]
    BY <1>2, <1>3, <2>1, <2>2
  <2>4. quiet' \subseteq {g \in Handlers : pc'[g] = "saving"}
    BY <1>8, <2>1, <2>2, FinishShape
  <2>5. Stores'
    BY <1>0, <2>1, <2>2, <2>4 DEF Stores
  <2> QED BY <2>3, <2>5, <1>a
<1>16. ASSUME NEW h \in Handlers, ReloadFails(h) PROVE TypeOK'
  <2>1. /\ pc[h] = "reloading" /\ Fault /\ running' \in {running, file, {}} /\ lock' = None /\ Finish(h)
        /\ UNCHANGED <<file, torn, wg, removals, history, saves>>
    BY <1>16 DEF ReloadFails
  <2>2. (\A g \in Handlers : Place(g)') /\ pc' \in [Handlers -> Places]
    BY <1>2, <1>3, <2>1
  <2>3. quiet' \subseteq {g \in Handlers : pc'[g] = "saving"}
    BY <1>8, <2>1, FinishShape
  <2>4. faults' \in 0 .. MaxFaults
    BY <2>1, FaultType
  <2>5. Stores'
    BY <1>0, <2>1, <2>3, <2>4 DEF Stores
  <2> QED BY <2>2, <2>5, <1>a
<1>17. ASSUME NEW h \in Handlers, NEW p \in Peers, AddPeer(h, p) \/ RemovePeer(h, p) PROVE TypeOK'
  <2>1. PICK b \in BOOLEAN :
          /\ pc[h] = "idle" /\ At(h, "set") /\ job' = [job EXCEPT ![h] = [add |-> b, client |-> p]]
          /\ quiet' = {} /\ UNCHANGED <<xray, saved, copy, bounds, added, removed, suspect>>
          /\ \/ peers' = peers \cup {p} /\ asked' = asked \cup {p} /\ UNCHANGED removing
             \/ peers' = peers \ {p} /\ p \in added /\ removing' = removing \cup {p} /\ UNCHANGED asked
    BY <1>17 DEF AddPeer, RemovePeer, SetPeer
  <2>2. [add |-> b, client |-> p] \in Job
    BY <1>6
  <2>3. \A g \in Handlers : Place(g)'
    BY <1>5, <2>1, <2>2
  <2>4. pc' \in [Handlers -> Places]
    BY <1>1, <2>1 DEF Places
  <2>5. peers' \subseteq asked' \cap Peers /\ saved' \subseteq asked' \cap Peers
    BY <1>0, <2>1 DEF Stores
  <2>6. Stores'
    BY <1>0, <2>1, <2>5 DEF Stores
  <2> QED BY <2>3, <2>4, <2>6, <1>a
<1>18. ASSUME NEW h \in Handlers, BeginSave(h) PROVE TypeOK'
  <2>1. /\ pc[h] = "set" /\ copy' = [copy EXCEPT ![h] = peers] /\ At(h, "saving") /\ quiet' = Alone(h)
        /\ UNCHANGED <<xray, wg, job, bounds, history, suspect>>
    BY <1>18 DEF BeginSave
  <2>2. \A g \in Handlers : /\ pc'[g] = IF g = h THEN "saving" ELSE pc[g]
                            /\ copy'[g] = IF g = h THEN peers ELSE copy[g]
    BY <1>0, <2>1, AtShape
  <2>3. Place(h)'
    BY <1>0, <2>1, <2>2 DEF Place, Stores
  <2>4. (\A g \in Handlers : Place(g)') /\ pc' \in [Handlers -> Places]
    BY <1>1, <1>4, <2>1, <2>2, <2>3 DEF Places
  <2>5. quiet' \subseteq {g \in Handlers : pc'[g] = "saving"}
    BY <2>1, <2>2 DEF Alone
  <2>6. Stores'
    BY <1>0, <2>1, <2>5 DEF Stores
  <2> QED BY <2>4, <2>6, <1>a
<1>19. ASSUME NEW h \in Handlers, EndSave(h) \/ SaveFails(h) PROVE TypeOK'
  <2>1. /\ pc[h] \in {"set", "saving"} /\ Answer(h) /\ UNCHANGED <<xray, peers, removals>>
        /\ \/ pc[h] = "saving" /\ saved' = copy[h] /\ UNCHANGED faults
           \/ UNCHANGED saved /\ Fault
        /\ quiet' = quiet \ {h} /\ suspect' \in BOOLEAN
    BY <1>19 DEF EndSave, SaveFails
  <2>2. /\ Finish(h) /\ UNCHANGED <<asked, removing>>
        /\ added' \subseteq asked /\ removed' \subseteq removing \cap added'
    BY <2>1, AnswerShape
  <2>3. (\A g \in Handlers : Place(g)') /\ pc' \in [Handlers -> Places]
    BY <1>2, <1>3, <2>1, <2>2
  <2>4. quiet' \subseteq {g \in Handlers : pc'[g] = "saving"}
    BY <1>0, <1>7, <2>1, <2>2, FinishShape DEF Stores
  <2>5. saved' \subseteq asked \cap Peers
    BY <1>0, <2>1 DEF Stores, Place, Jobs
  <2>6. faults' \in 0 .. MaxFaults
    BY <1>0, <2>1, FaultType DEF Stores
  <2>7. Stores'
    BY <1>0, <2>1, <2>2, <2>4, <2>5, <2>6 DEF Stores
  <2> QED BY <2>3, <2>7, <1>a
<1>20. CASE XrayRestarts
  <2>1. running' \subseteq Clients /\ UNCHANGED <<file, torn, lock, wg, pc, job, copy, bounds, history, saves>>
    BY <1>0, <1>20 DEF XrayRestarts, Stores
  <2> QED BY <2>1 DEF TypeOK
<1>21. CASE Crash \/ Reboot
  <2>1. /\ Fault /\ lock' = None /\ pc' = [h \in Handlers |-> "idle"] /\ job' = [h \in Handlers |-> None]
        /\ copy' = [h \in Handlers |-> {}] /\ quiet' = {} /\ UNCHANGED <<file, saved, removals, history>>
    BY <1>21 DEF Crash, Reboot, Die
  <2>2. /\ torn' \in BOOLEAN /\ suspect' \in BOOLEAN
        /\ running' \subseteq Clients /\ peers' \subseteq asked \cap Peers
    BY <1>0, <1>21 DEF Crash, Reboot, Die, Stores
  <2>3. \A g \in Handlers : Place(g)'
    BY <1>0, <2>1 DEF Place
  <2>4. faults' \in 0 .. MaxFaults
    BY <2>1, FaultType
  <2>5. Stores'
    BY <1>0, <2>1, <2>2, <2>4 DEF Stores
  <2>6. pc' \in [Handlers -> Places]
    BY <2>1 DEF Places
  <2> QED BY <2>3, <2>5, <2>6, <1>a
<1>22. CASE UNCHANGED vars
  BY <1>22 DEF vars, TypeOK
<1> QED BY <1>9, <1>10, <1>11, <1>12, <1>13, <1>14, <1>15, <1>16, <1>17, <1>18, <1>19, <1>20, <1>21, <1>22
        DEF Next, Edit

-----------------------------------------------------------------------------
(* The requests in progress.                                                *)

\* What Jobs says of one request, alone and against another.
JobOf(h) ==
  pc[h] # "idle" =>
    /\ job[h].client \in IF pc[h] \in {"set", "saving"} THEN Peers ELSE Clients
    /\ IF job[h].add THEN job[h].client \in asked \ added ELSE job[h].client \in removing
    /\ pc[h] = "saving" => copy[h] \subseteq asked

Apart(g, h) ==
  pc[g] # "idle" /\ pc[h] # "idle" /\ job[g].add /\ job[h].add => job[g].client # job[h].client

LEMMA JobParts ==
  Jobs <=> /\ job \in [Handlers -> Job \cup {None}]
           /\ copy \in [Handlers -> SUBSET (Clients \cup Peers)]
           /\ removing \subseteq added
           /\ \A h \in Handlers : JobOf(h)
           /\ \A h \in Handlers : \A g \in Handlers \ {h} : Apart(g, h)
BY DEF Jobs, JobOf, Apart

LEMMA JobsStep == TypeOK /\ Jobs /\ [Next]_vars => Jobs'
<1> SUFFICES ASSUME TypeOK, Jobs, [Next]_vars PROVE Jobs'
  OBVIOUS
<1> USE DEF xray, wg, saves, bounds, history
<1>a. ASSUME job' \in [Handlers -> Job \cup {None}], copy' \in [Handlers -> SUBSET (Clients \cup Peers)],
             removing' \subseteq added', \A h \in Handlers : JobOf(h)',
             \A h \in Handlers : \A g \in Handlers \ {h} : Apart(g, h)'
      PROVE  Jobs'
  BY <1>a DEF Jobs, JobOf, Apart
<1>0. /\ pc \in [Handlers -> Places] /\ job \in [Handlers -> Job \cup {None}]
      /\ copy \in [Handlers -> SUBSET (Clients \cup Peers)] /\ removing \subseteq added
      /\ \A h \in Handlers : JobOf(h)
      /\ \A h \in Handlers : \A g \in Handlers \ {h} : Apart(g, h)
  BY Shapes, JobParts
<1>s. /\ file \subseteq Clients /\ peers \subseteq asked \cap Peers
      /\ asked \subseteq Clients \cup Peers /\ added \subseteq asked
  BY DEF TypeOK
\* A new request: an addition of what nobody asked for, or a removal.
<1>1. ASSUME NEW h \in Handlers, pc[h] = "idle", NEW p \in {"waiting", "set"}, At(h, p),
             NEW b \in BOOLEAN, NEW c \in IF p = "set" THEN Peers ELSE Clients,
             job' = [job EXCEPT ![h] = [add |-> b, client |-> c]], UNCHANGED <<copy, added>>,
             \/ b /\ c \notin asked /\ asked' = asked \cup {c} /\ UNCHANGED removing
             \/ ~ b /\ c \in added /\ removing' = removing \cup {c} /\ UNCHANGED asked
      PROVE  Jobs'
  <2> DEFINE r == [add |-> b, client |-> c]
  <2>1. r \in Job /\ r.add = b /\ r.client = c
    BY <1>1 DEF Job
  <2> HIDE DEF r
  <2>2. job' = [job EXCEPT ![h] = r]
    BY <1>1 DEF r
  <2>3. job' \in [Handlers -> Job \cup {None}]
    BY <1>0, <2>1, <2>2
  <2>4. \A g \in Handlers : /\ pc'[g] = IF g = h THEN p ELSE pc[g]
                            /\ job'[g] = IF g = h THEN r ELSE job[g]
    BY <1>0, <1>1, <2>2, AtShape
  <2>5. \A g \in Handlers : pc[g] # "idle" /\ job[g].add => job[g].client # c \/ ~ b
    BY <1>0, <1>1 DEF JobOf
  <2>6. asked \subseteq asked' /\ removing \subseteq removing' /\ removing' \subseteq added' /\ added' = added
    BY <1>0, <1>1
  <2>7. ASSUME NEW g \in Handlers PROVE JobOf(g)'
    <3>1. CASE g # h
      <4>1. JobOf(g) /\ pc'[g] = pc[g] /\ job'[g] = job[g] /\ copy'[g] = copy[g]
        BY <1>0, <1>1, <2>4, <3>1
      <4> QED BY <4>1, <2>6 DEF JobOf
    <3>2. CASE g = h
      <4>1. pc'[g] = p /\ job'[g].add = b /\ job'[g].client = c
        BY <2>1, <2>4, <3>2
      <4>2. IF b THEN c \in asked' \ added' ELSE c \in removing'
        BY <1>1, <1>s
      <4> QED BY <1>1, <4>1, <4>2 DEF JobOf
    <3> QED BY <3>1, <3>2
  <2>8. ASSUME NEW g \in Handlers, NEW k \in Handlers \ {g} PROVE Apart(k, g)'
    <3>1. Apart(k, g)
      BY <1>0
    <3>2. CASE g # h /\ k # h
      BY <2>4, <3>1, <3>2 DEF Apart
    <3>3. CASE g = h
      BY <2>1, <2>4, <2>5, <3>3 DEF Apart
    <3>4. CASE k = h
      BY <2>1, <2>4, <2>5, <3>4 DEF Apart
    <3> QED BY <3>2, <3>3, <3>4
  <2>9. copy' \in [Handlers -> SUBSET (Clients \cup Peers)]
    BY <1>0, <1>1
  <2> QED BY <2>3, <2>6, <2>7, <2>8, <2>9, <1>a
\* One that moves on.
<1>2. ASSUME NEW h \in Handlers, pc[h] # "idle", NEW p \in Places, At(h, p), p # "idle",
             pc[h] \in {"set", "saving"} <=> p \in {"set", "saving"},
             UNCHANGED <<job, asked, added, removing>>,
             copy' \in [Handlers -> SUBSET (Clients \cup Peers)],
             \A g \in Handlers \ {h} : copy'[g] = copy[g],
             p = "saving" => copy'[h] \subseteq asked
      PROVE  Jobs'
  <2>1. \A g \in Handlers : pc'[g] = IF g = h THEN p ELSE pc[g]
    BY <1>2, AtShape
  <2>2. ASSUME NEW g \in Handlers PROVE JobOf(g)'
    <3>1. CASE g # h
      <4>1. JobOf(g) /\ pc'[g] = pc[g] /\ copy'[g] = copy[g]
        BY <1>0, <1>2, <2>1, <3>1
      <4> QED BY <4>1, <1>2 DEF JobOf
    <3>2. CASE g = h
      <4>1. JobOf(h) /\ pc'[h] = p
        BY <1>0, <2>1
      <4> QED BY <4>1, <1>2, <3>2 DEF JobOf
    <3> QED BY <3>1, <3>2
  <2>3. ASSUME NEW g \in Handlers, NEW k \in Handlers \ {g} PROVE Apart(k, g)'
    BY <1>0, <1>2, <2>1 DEF Apart
  <2> QED BY <1>0, <1>2, <2>2, <2>3, <1>a
\* One that ends.
<1>3. ASSUME NEW h \in Handlers, pc[h] # "idle", Finish(h), UNCHANGED <<asked, removing>>,
             added \subseteq added', added' # added => job[h].add /\ added' = added \cup {job[h].client}
      PROVE  Jobs'
  <2>1. \A g \in Handlers : /\ pc'[g] = IF g = h THEN "idle" ELSE pc[g]
                            /\ job'[g] = IF g = h THEN None ELSE job[g]
                            /\ copy'[g] = IF g = h THEN {} ELSE copy[g]
    BY <1>3, FinishShape
  <2>2. /\ job' \in [Handlers -> Job \cup {None}]
        /\ copy' \in [Handlers -> SUBSET (Clients \cup Peers)]
    BY <1>0, <1>3 DEF Finish
  <2>3. ASSUME NEW g \in Handlers PROVE JobOf(g)'
    <3>1. CASE g = h
      BY <2>1, <3>1 DEF JobOf
    <3>2. CASE g # h
      <4>1. /\ JobOf(g) /\ Apart(g, h)
            /\ pc'[g] = pc[g] /\ job'[g] = job[g] /\ copy'[g] = copy[g]
        BY <1>0, <2>1, <3>2
      <4>2. pc[g] # "idle" /\ job[g].add /\ job[g].client \notin added => job[g].client \notin added'
        BY <1>3, <4>1 DEF Apart
      <4> QED BY <4>1, <4>2, <1>3 DEF JobOf
    <3> QED BY <3>1, <3>2
  <2>4. ASSUME NEW g \in Handlers, NEW k \in Handlers \ {g} PROVE Apart(k, g)'
    BY <1>0, <2>1 DEF Apart
  <2>5. removing' \subseteq added'
    BY <1>0, <1>3
  <2> QED BY <2>2, <2>3, <2>4, <2>5, <1>a
<1>4. ASSUME NEW h \in Handlers, pc[h] # "idle", Answer(h) PROVE Jobs'
  <2>1. /\ Finish(h) /\ UNCHANGED <<asked, removing>>
        /\ added \subseteq added'
        /\ job[h].add => added' = added \cup {job[h].client}
        /\ ~ job[h].add => added' = added
    BY <1>4, AnswerShape
  <2> QED BY <1>3, <1>4, <2>1
<1>5. ASSUME NEW h \in Handlers, pc[h] # "idle", Finish(h), UNCHANGED history PROVE Jobs'
  BY <1>3, <1>5
<1>6. ASSUME NEW h \in Handlers, NEW c \in Clients, Add(h, c) \/ Remove(h, c) PROVE Jobs'
  <2>1. CASE Add(h, c)
    <3>1. /\ pc[h] = "idle" /\ At(h, "waiting") /\ job' = [job EXCEPT ![h] = [add |-> TRUE, client |-> c]]
          /\ c \notin asked /\ asked' = asked \cup {c} /\ UNCHANGED <<copy, added, removing>>
      BY <2>1 DEF Add, Begin
    <3> QED BY <1>1, <3>1
  <2>2. CASE Remove(h, c)
    <3>1. /\ pc[h] = "idle" /\ At(h, "waiting") /\ job' = [job EXCEPT ![h] = [add |-> FALSE, client |-> c]]
          /\ c \in added /\ removing' = removing \cup {c} /\ UNCHANGED <<copy, added, asked>>
      BY <2>2 DEF Remove, Begin
    <3> QED BY <1>1, <3>1
  <2> QED BY <1>6, <2>1, <2>2
<1>7. ASSUME NEW h \in Handlers, NEW c \in Peers, AddPeer(h, c) \/ RemovePeer(h, c) PROVE Jobs'
  <2>1. CASE AddPeer(h, c)
    <3>1. /\ pc[h] = "idle" /\ At(h, "set") /\ job' = [job EXCEPT ![h] = [add |-> TRUE, client |-> c]]
          /\ c \notin asked /\ asked' = asked \cup {c} /\ UNCHANGED <<copy, added, removing>>
      BY <2>1 DEF AddPeer, SetPeer
    <3> QED BY <1>1, <3>1
  <2>2. CASE RemovePeer(h, c)
    <3>1. /\ pc[h] = "idle" /\ At(h, "set") /\ job' = [job EXCEPT ![h] = [add |-> FALSE, client |-> c]]
          /\ c \in added /\ removing' = removing \cup {c} /\ UNCHANGED <<copy, added, asked>>
      BY <2>2 DEF RemovePeer, SetPeer
    <3> QED BY <1>1, <3>1
  <2> QED BY <1>7, <2>1, <2>2
<1>8. ASSUME NEW h \in Handlers, Edit(h) PROVE Jobs'
  <2>1. CASE Lock(h)
    <3>1. /\ pc[h] = "waiting" /\ At(h, "editing") /\ copy' = [copy EXCEPT ![h] = file]
          /\ UNCHANGED <<job, asked, added, removing>>
      BY <2>1 DEF Lock
    <3>2. /\ copy' \in [Handlers -> SUBSET (Clients \cup Peers)]
          /\ \A g \in Handlers \ {h} : copy'[g] = copy[g]
      BY <1>0, <1>s, <3>1
    <3>3. "editing" \in Places
      BY DEF Places
    <3> QED BY <1>2, <3>1, <3>2, <3>3
  <2>2. CASE WriteFile(h)
    <3>1. pc[h] = "editing" /\ At(h, "reloading") /\ UNCHANGED <<job, copy, asked, added, removing>>
      BY <2>2 DEF WriteFile
    <3>2. "reloading" \in Places
      BY DEF Places
    <3> QED BY <1>0, <1>2, <3>1, <3>2
  <2>3. CASE Unreadable(h) \/ WriteFails(h) \/ ReloadFails(h)
    BY <1>5, <2>3 DEF Unreadable, WriteFails, ReloadFails
  <2>4. CASE Reload(h)
    BY <1>4, <2>4 DEF Reload
  <2> QED BY <1>8, <2>1, <2>2, <2>3, <2>4 DEF Edit
<1>9. ASSUME NEW h \in Handlers, BeginSave(h) PROVE Jobs'
  <2>1. /\ pc[h] = "set" /\ At(h, "saving") /\ copy' = [copy EXCEPT ![h] = peers]
        /\ UNCHANGED <<job, asked, added, removing>>
    BY <1>9 DEF BeginSave
  <2>2. /\ copy' \in [Handlers -> SUBSET (Clients \cup Peers)]
        /\ \A g \in Handlers \ {h} : copy'[g] = copy[g]
        /\ copy'[h] \subseteq asked
    BY <1>0, <1>s, <2>1
  <2>3. "saving" \in Places
    BY DEF Places
  <2> QED BY <1>2, <2>1, <2>2, <2>3
<1>10. ASSUME NEW h \in Handlers, EndSave(h) \/ SaveFails(h) PROVE Jobs'
  BY <1>4, <1>10 DEF EndSave, SaveFails
<1>11. CASE Crash \/ Reboot
  <2>1. /\ pc' = [h \in Handlers |-> "idle"] /\ job' = [h \in Handlers |-> None]
        /\ copy' = [h \in Handlers |-> {}] /\ UNCHANGED history
    BY <1>11 DEF Crash, Reboot, Die
  <2> QED BY <1>0, <2>1 DEF Jobs
<1>12. CASE XrayRestarts \/ UNCHANGED vars
  BY <1>12 DEF XrayRestarts, vars, Jobs
<1> QED BY <1>6, <1>7, <1>8, <1>9, <1>10, <1>11, <1>12 DEF Next

-----------------------------------------------------------------------------
(* Xray's file under the lock.                                              *)

LEMMA OneEditor ==
  ASSUME TypeOK, NEW h \in Handlers, lock = None \/ lock = h, NEW g \in Handlers, g # h
  PROVE  pc[g] \notin {"editing", "reloading"}
BY AgentAssumption DEF TypeOK

LEMMA EditsStep == TypeOK /\ Jobs /\ Edits /\ [Next]_vars => Edits'
<1> SUFFICES ASSUME TypeOK, Jobs, Edits, [Next]_vars PROVE Edits'
  OBVIOUS
<1> USE DEF xray, wg, saves, bounds, history
<1>0. faults \in Nat /\ \A h \in Handlers : lock = h <=> pc[h] \in {"editing", "reloading"}
  BY AgentAssumption DEF TypeOK
<1>1. Fault => faults' > 0
  BY FaultType
\* A step that begins no edit and leaves the file alone.
<1>2. ASSUME UNCHANGED <<file, torn>>, UNCHANGED faults \/ Fault,
             \A g \in Handlers : pc'[g] \in {"editing", "reloading"} =>
               pc'[g] = pc[g] /\ job'[g] = job[g] /\ copy'[g] = copy[g]
      PROVE  Edits'
  BY <1>1, <1>2 DEF Edits
<1>3. ASSUME NEW h \in Handlers, Finish(h), UNCHANGED <<file, torn>>, UNCHANGED faults \/ Fault PROVE Edits'
  BY <1>2, <1>3, FinishShape
<1>4. ASSUME NEW h \in Handlers, NEW p \in {"waiting", "set", "saving"}, At(h, p),
             \A g \in Handlers \ {h} : job'[g] = job[g] /\ copy'[g] = copy[g],
             UNCHANGED <<file, torn, faults>>
      PROVE  Edits'
  <2>1. \A g \in Handlers : pc'[g] = IF g = h THEN p ELSE pc[g]
    BY <1>4, AtShape
  <2> QED BY <1>2, <1>4, <2>1
<1>5. ASSUME NEW h \in Handlers, NEW c \in Clients, Add(h, c) \/ Remove(h, c) PROVE Edits'
  <2>1. PICK r : /\ At(h, "waiting") /\ job' = [job EXCEPT ![h] = r]
                 /\ UNCHANGED <<copy, file, torn, faults>>
    BY <1>5 DEF Add, Remove, Begin
  <2> QED BY <1>4, <2>1, Shapes
<1>6. ASSUME NEW h \in Handlers, NEW c \in Peers, AddPeer(h, c) \/ RemovePeer(h, c) PROVE Edits'
  <2>1. PICK r : /\ At(h, "set") /\ job' = [job EXCEPT ![h] = r]
                 /\ UNCHANGED <<copy, file, torn, faults>>
    BY <1>6 DEF AddPeer, RemovePeer, SetPeer
  <2> QED BY <1>4, <2>1, Shapes
<1>7. ASSUME NEW h \in Handlers, BeginSave(h) PROVE Edits'
  <2>1. /\ At(h, "saving") /\ copy' = [copy EXCEPT ![h] = peers]
        /\ UNCHANGED <<job, file, torn, faults>>
    BY <1>7 DEF BeginSave
  <2> QED BY <1>4, <2>1, Shapes
<1>8. ASSUME NEW h \in Handlers, Unreadable(h) \/ ReloadFails(h) PROVE Edits'
  BY <1>3, <1>8 DEF Unreadable, ReloadFails
<1>9. ASSUME NEW h \in Handlers, Reload(h) \/ EndSave(h) \/ SaveFails(h) PROVE Edits'
  BY <1>3, <1>9 DEF Reload, EndSave, SaveFails, Answer
<1>10. ASSUME NEW h \in Handlers, Lock(h) PROVE Edits'
  <2>1. /\ lock = None /\ ~ torn /\ At(h, "editing") /\ copy' = [copy EXCEPT ![h] = file]
        /\ UNCHANGED <<file, torn, job, faults>>
    BY <1>10 DEF Lock
  <2>2. \A g \in Handlers : /\ pc'[g] = IF g = h THEN "editing" ELSE pc[g]
                            /\ copy'[g] = IF g = h THEN file ELSE copy[g]
    BY <2>1, AtShape, Shapes
  <2> QED BY <2>1, <2>2, OneEditor DEF Edits
<1>11. ASSUME NEW h \in Handlers, WriteFile(h) PROVE Edits'
  <2>1. /\ pc[h] = "editing" /\ file' = Edited(h) /\ At(h, "reloading")
        /\ UNCHANGED <<torn, job, copy, faults>>
    BY <1>11 DEF WriteFile
  <2>2. \A g \in Handlers : pc'[g] = IF g = h THEN "reloading" ELSE pc[g]
    BY <2>1, AtShape
  <2>3. job[h].client \in file' <=> job[h].add
    BY <2>1, Shapes DEF Edited
  <2>4. \A g \in Handlers \ {h} : pc[g] \notin {"editing", "reloading"}
    BY <1>0, <2>1, OneEditor
  <2> QED BY <2>1, <2>2, <2>3, <2>4 DEF Edits
<1>12. ASSUME NEW h \in Handlers, WriteFails(h) PROVE Edits'
  <2>1. pc[h] = "editing" /\ Finish(h) /\ Fault
    BY <1>12 DEF WriteFails
  <2>2. \A g \in Handlers : pc'[g] \notin {"editing", "reloading"}
    BY <1>0, <2>1, OneEditor, FinishShape
  <2> QED BY <1>1, <2>1, <2>2 DEF Edits
<1>13. CASE Crash \/ Reboot
  <2>1. Fault /\ pc' = [h \in Handlers |-> "idle"]
    BY <1>13 DEF Crash, Reboot, Die
  <2> QED BY <1>1, <2>1 DEF Edits
<1>14. CASE XrayRestarts \/ UNCHANGED vars
  BY <1>14 DEF XrayRestarts, vars, Edits
<1> QED BY <1>5, <1>6, <1>7, <1>8, <1>9, <1>10, <1>11, <1>12, <1>13, <1>14 DEF Next, Edit

-----------------------------------------------------------------------------
(* What Xray serves.                                                        *)

LEMMA ServedStep ==
  TypeOK /\ Jobs /\ Edits /\ AddedIsServed /\ RemovedIsGone /\ [Next]_vars => (AddedIsServed /\ RemovedIsGone)'
<1> SUFFICES ASSUME TypeOK, Jobs, Edits, AddedIsServed, RemovedIsGone, [Next]_vars
             PROVE  (AddedIsServed /\ RemovedIsGone)'
  OBVIOUS
<1> USE DEF xray, wg, saves, bounds, history
<1>0. /\ Clients \cap Peers = {} /\ removed \subseteq added /\ removing \subseteq asked
      /\ \A h \in Handlers : lock = h <=> pc[h] \in {"editing", "reloading"}
  BY AgentAssumption DEF TypeOK
<1>1. Fault => faults' # 0
  BY FaultType
\* Xray keeps what it serves, or, when the file is whole or commands have
\* failed, takes the file.
<1>2. ASSUME file' = file, ~ torn' => ~ torn, faults' = 0 => faults = 0,
             \A c : c \in running' => c \in running \/ (c \in file /\ ~ torn),
             faults' = 0 => running' = running \/ (running' = file /\ ~ torn),
             removing \subseteq removing',
             \A c \in Clients : /\ c \in added' \ added => c \in file /\ running' = file
                                /\ c \in removed' \ removed => c \notin file /\ running' = file
      PROVE  (AddedIsServed /\ RemovedIsGone)'
  <2>1. AddedIsServed'
    BY <1>2 DEF AddedIsServed
  <2>2. RemovedIsGone'
    BY <1>2 DEF RemovedIsGone
  <2> QED BY <2>1, <2>2
\* WireGuard's answers are about no client of Xray.
<1>3. ASSUME UNCHANGED <<file, torn, running>>, UNCHANGED faults \/ Fault, removing \subseteq removing',
             \A c \in Clients : (c \in added' => c \in added) /\ (c \in removed' => c \in removed)
      PROVE  (AddedIsServed /\ RemovedIsGone)'
  <2>1. file' = file /\ torn' = torn /\ running' = running
    BY <1>3
  <2>2. faults' = 0 => faults = 0
    BY <1>1, <1>3
  <2>3. AddedIsServed'
    BY <1>3, <2>1, <2>2 DEF AddedIsServed
  <2>4. RemovedIsGone'
    BY <1>3, <2>1 DEF RemovedIsGone
  <2> QED BY <2>3, <2>4
<1>4. ASSUME NEW h \in Handlers, NEW c \in Clients, Add(h, c) \/ Remove(h, c)
      PROVE  (AddedIsServed /\ RemovedIsGone)'
  BY <1>3, <1>4 DEF Add, Remove
<1>5. ASSUME NEW h \in Handlers, NEW c \in Peers, AddPeer(h, c) \/ RemovePeer(h, c)
      PROVE  (AddedIsServed /\ RemovedIsGone)'
  BY <1>3, <1>5 DEF AddPeer, RemovePeer, SetPeer
<1>6. ASSUME NEW h \in Handlers, Lock(h) \/ Unreadable(h) \/ BeginSave(h)
      PROVE  (AddedIsServed /\ RemovedIsGone)'
  BY <1>3, <1>6 DEF Lock, Unreadable, BeginSave
<1>7. ASSUME NEW h \in Handlers, EndSave(h) \/ SaveFails(h) PROVE (AddedIsServed /\ RemovedIsGone)'
  <2>1. /\ pc[h] \in {"set", "saving"} /\ Answer(h)
        /\ UNCHANGED <<file, torn, running>> /\ (UNCHANGED faults \/ Fault)
    BY <1>7 DEF EndSave, SaveFails
  <2>2. job[h].client \in Peers
    BY <2>1 DEF Jobs
  <2>3. /\ UNCHANGED removing
        /\ added' \subseteq added \cup {job[h].client} /\ removed' \subseteq removed \cup {job[h].client}
    BY <2>1 DEF Answer
  <2>4. job[h].client \notin Clients
    BY <1>0, <2>2
  <2> QED BY <1>3, <2>1, <2>3, <2>4
\* An edit: a removal's client is asked to go, an addition's is not there yet.
<1>8. ASSUME NEW h \in Handlers, WriteFile(h) PROVE (AddedIsServed /\ RemovedIsGone)'
  <2>1. pc[h] = "editing" /\ file' = Edited(h) /\ UNCHANGED <<torn, running, faults, history>>
    BY <1>8 DEF WriteFile
  <2>2. copy[h] = file
    BY <2>1 DEF Edits
  <2>3. IF job[h].add THEN job[h].client \notin added /\ file' = file \cup {job[h].client}
                      ELSE job[h].client \in removing /\ file' = file \ {job[h].client}
    BY <2>1, <2>2 DEF Jobs, Edited
  <2>4. AddedIsServed'
    BY <2>1, <2>3 DEF AddedIsServed
  <2>5. RemovedIsGone'
    BY <1>0, <2>1, <2>3 DEF RemovedIsGone
  <2> QED BY <2>4, <2>5
\* An edit that fails may have been written; Xray does not hear of it.
<1>9. ASSUME NEW h \in Handlers, WriteFails(h) PROVE (AddedIsServed /\ RemovedIsGone)'
  <2>1. /\ pc[h] = "editing" /\ faults' # 0 /\ UNCHANGED <<running, history>>
        /\ torn' \/ file' \in {file, Edited(h)}
    BY <1>1, <1>9 DEF WriteFails
  <2>2. ~ torn /\ copy[h] = file
    BY <2>1 DEF Edits
  <2>3. IF job[h].add THEN job[h].client \notin added /\ Edited(h) = file \cup {job[h].client}
                      ELSE job[h].client \in removing /\ Edited(h) = file \ {job[h].client}
    BY <2>1, <2>2 DEF Jobs, Edited
  <2>4. AddedIsServed'
    BY <2>1, <2>2, <2>3 DEF AddedIsServed
  <2>5. RemovedIsGone'
    BY <1>0, <2>1, <2>2, <2>3 DEF RemovedIsGone
  <2> QED BY <2>4, <2>5
<1>10. ASSUME NEW h \in Handlers, Reload(h) PROVE (AddedIsServed /\ RemovedIsGone)'
  <2>1. pc[h] = "reloading" /\ running' = file /\ Answer(h) /\ UNCHANGED <<file, torn, faults>>
    BY <1>10 DEF Reload
  <2>2. ~ torn /\ (job[h].client \in file <=> job[h].add)
    BY <2>1 DEF Edits
  <2>3. /\ UNCHANGED removing
        /\ \A c : /\ c \in added' \ added => c = job[h].client /\ job[h].add
                  /\ c \in removed' \ removed => c = job[h].client /\ ~ job[h].add
    BY <2>1 DEF Answer
  <2> QED BY <1>2, <2>1, <2>2, <2>3
<1>11. ASSUME NEW h \in Handlers, ReloadFails(h) PROVE (AddedIsServed /\ RemovedIsGone)'
  <2>1. /\ pc[h] = "reloading" /\ Fault /\ running' \in {running, file, {}}
        /\ UNCHANGED <<file, torn, history>>
    BY <1>11 DEF ReloadFails
  <2>2. ~ torn
    BY <2>1 DEF Edits
  <2> QED BY <1>1, <1>2, <2>1, <2>2
<1>12. CASE XrayRestarts
  <2>1. running' = (IF torn THEN {} ELSE file) /\ UNCHANGED <<file, torn, faults, history>>
    BY <1>12 DEF XrayRestarts
  <2>2. torn => faults # 0
    BY DEF Edits
  <2> QED BY <1>2, <2>1, <2>2
<1>13. CASE Crash \/ Reboot
  <2>1. /\ Fault /\ (~ torn' => ~ torn) /\ UNCHANGED <<file, history>>
        /\ running' = running \/ running' = {} \/ (running' = file /\ ~ torn')
    BY <1>13 DEF Crash, Reboot, Die
  <2>2. faults' # 0
    BY <1>1, <2>1
  <2>3. \A c : c \in running' => c \in running \/ (c \in file /\ ~ torn)
    BY <2>1
  <2>4. file' = file /\ removing' = removing /\ added' = added /\ removed' = removed
    BY <2>1
  <2> QED BY <1>2, <2>1, <2>2, <2>3, <2>4
<1>14. CASE UNCHANGED vars
  BY <1>3, <1>14 DEF vars
<1> QED BY <1>4, <1>5, <1>6, <1>7, <1>8, <1>9, <1>10, <1>11, <1>12, <1>13, <1>14 DEF Next, Edit

-----------------------------------------------------------------------------
(* WireGuard's saves.                                                       *)

LEMMA SavesStep ==
  TypeOK /\ Jobs /\ Saves /\ QuietSaveRepairs /\ [Next]_vars => (Saves /\ QuietSaveRepairs)'
<1> SUFFICES ASSUME TypeOK, Jobs, Saves, QuietSaveRepairs, [Next]_vars
             PROVE  (Saves /\ QuietSaveRepairs)'
  OBVIOUS
<1> USE DEF xray, wg, saves, bounds, history
<1>0. quiet \subseteq {h \in Handlers : pc[h] = "saving"}
  BY DEF TypeOK
\* A step of Xray's requests, which leaves WireGuard's alone.
<1>1. ASSUME UNCHANGED <<wg, saves>>,
             \A g \in Handlers : /\ pc'[g] \in {"set", "saving"} <=> pc[g] \in {"set", "saving"}
                                 /\ pc'[g] = "saving" => pc[g] = "saving"
                                 /\ pc[g] = "saving" => copy'[g] = copy[g]
      PROVE  (Saves /\ QuietSaveRepairs)'
  <2>1. Saves'
    BY <1>0, <1>1 DEF Saves
  <2>2. QuietSaveRepairs'
    BY <1>1 DEF QuietSaveRepairs
  <2> QED BY <2>1, <2>2
<1>2. ASSUME NEW h \in Handlers, NEW p \in {"waiting", "editing", "reloading"}, At(h, p),
             pc[h] \notin {"set", "saving"}, \A g \in Handlers \ {h} : copy'[g] = copy[g],
             UNCHANGED <<wg, saves>>
      PROVE  (Saves /\ QuietSaveRepairs)'
  <2>1. \A g \in Handlers : pc'[g] = IF g = h THEN p ELSE pc[g]
    BY <1>2, AtShape
  <2>2. \A g \in Handlers : /\ pc'[g] \in {"set", "saving"} <=> pc[g] \in {"set", "saving"}
                            /\ pc'[g] = "saving" => pc[g] = "saving"
                            /\ pc[g] = "saving" => copy'[g] = copy[g]
    BY <1>2, <2>1
  <2> QED BY <1>1, <1>2, <2>2
<1>3. ASSUME NEW h \in Handlers, Finish(h), pc[h] \notin {"set", "saving"}, UNCHANGED <<wg, saves>>
      PROVE  (Saves /\ QuietSaveRepairs)'
  <2>1. \A g \in Handlers : /\ pc'[g] \in {"set", "saving"} <=> pc[g] \in {"set", "saving"}
                            /\ pc'[g] = "saving" => pc[g] = "saving"
                            /\ pc[g] = "saving" => copy'[g] = copy[g]
    BY <1>3, FinishShape
  <2> QED BY <1>1, <1>3, <2>1
<1>4. ASSUME NEW h \in Handlers, NEW c \in Clients, Add(h, c) \/ Remove(h, c)
      PROVE  (Saves /\ QuietSaveRepairs)'
  <2>1. pc[h] = "idle" /\ At(h, "waiting") /\ UNCHANGED <<wg, saves, copy>>
    BY <1>4 DEF Add, Remove, Begin
  <2> QED BY <1>2, <2>1
<1>5. ASSUME NEW h \in Handlers, Edit(h) PROVE (Saves /\ QuietSaveRepairs)'
  <2>1. CASE Lock(h)
    <3>1. /\ pc[h] = "waiting" /\ At(h, "editing") /\ copy' = [copy EXCEPT ![h] = file]
          /\ UNCHANGED <<wg, saves>>
      BY <2>1 DEF Lock
    <3>2. \A g \in Handlers \ {h} : copy'[g] = copy[g]
      BY <3>1, Shapes
    <3> QED BY <1>2, <3>1, <3>2
  <2>2. CASE WriteFile(h)
    <3>1. pc[h] = "editing" /\ At(h, "reloading") /\ UNCHANGED <<wg, saves, copy>>
      BY <2>2 DEF WriteFile
    <3> QED BY <1>2, <3>1
  <2>3. CASE Unreadable(h) \/ WriteFails(h) \/ Reload(h) \/ ReloadFails(h)
    BY <1>3, <2>3 DEF Unreadable, WriteFails, Reload, ReloadFails, Answer
  <2> QED BY <1>5, <2>1, <2>2, <2>3 DEF Edit
\* A peer set or removed ends the quiet of the saves in progress.
<1>6. ASSUME NEW h \in Handlers, NEW c \in Peers, AddPeer(h, c) \/ RemovePeer(h, c)
      PROVE  (Saves /\ QuietSaveRepairs)'
  <2>1. At(h, "set") /\ quiet' = {}
    BY <1>6 DEF AddPeer, RemovePeer, SetPeer
  <2>2. pc'[h] = "set"
    BY <2>1, AtShape
  <2> QED BY <2>1, <2>2 DEF Saves, QuietSaveRepairs
\* A save that begins while another runs is not quiet.
<1>7. ASSUME NEW h \in Handlers, BeginSave(h) PROVE (Saves /\ QuietSaveRepairs)'
  <2>1. /\ At(h, "saving") /\ copy' = [copy EXCEPT ![h] = peers] /\ quiet' = Alone(h)
        /\ UNCHANGED <<wg, suspect>>
    BY <1>7 DEF BeginSave
  <2>2. /\ \A g \in Handlers : pc'[g] = IF g = h THEN "saving" ELSE pc[g]
        /\ copy'[h] = peers
    BY <2>1, AtShape, Shapes
  <2>3. \A k \in quiet' : k = h /\ \A g \in Handlers \ {h} : pc[g] # "saving"
    BY <2>1 DEF Alone
  <2>4. Saves'
    BY <2>1, <2>2, <2>3 DEF Saves
  <2>5. QuietSaveRepairs'
    BY <2>2 DEF QuietSaveRepairs
  <2> QED BY <2>4, <2>5
<1>8. ASSUME NEW h \in Handlers, EndSave(h) \/ SaveFails(h) PROVE (Saves /\ QuietSaveRepairs)'
  <2>1. /\ pc[h] \in {"set", "saving"} /\ Finish(h) /\ UNCHANGED peers /\ quiet' = quiet \ {h}
        /\ \/ saved' = copy[h] /\ suspect' = (h \notin quiet)
           \/ suspect' = TRUE
    BY <1>8 DEF EndSave, SaveFails, Answer
  <2>2. \A g \in Handlers : /\ pc'[g] = IF g = h THEN "idle" ELSE pc[g]
                            /\ g # h => copy'[g] = copy[g]
    BY <2>1, FinishShape
  <2>3. Saves'
    <3>1. ASSUME NEW k \in quiet' PROVE copy'[k] = peers' /\ \A g \in Handlers \ {k} : pc'[g] # "saving"
      <4>1. k \in quiet /\ k # h /\ k \in Handlers
        BY <1>0, <2>1
      <4>2. copy[k] = peers /\ \A g \in Handlers \ {k} : pc[g] # "saving"
        BY <4>1 DEF Saves
      <4> QED BY <2>1, <2>2, <4>1, <4>2
    <3> QED BY <3>1 DEF Saves
  <2>4. ~ suspect' => saved' = peers'
    BY <2>1 DEF Saves
  <2> QED BY <2>3, <2>4 DEF QuietSaveRepairs
\* The agent may die in the middle of a save; the node starts from the file.
<1>9. CASE Crash
  <2>1. /\ quiet' = {} /\ UNCHANGED <<peers, saved>>
        /\ suspect' = (suspect \/ \E h \in Handlers : pc[h] \in {"set", "saving"})
    BY <1>9 DEF Crash, Die
  <2> QED BY <2>1 DEF Saves, QuietSaveRepairs
<1>10. CASE Reboot
  <2>1. quiet' = {} /\ saved' = saved /\ peers' = saved
    BY <1>10 DEF Reboot, Die
  <2> QED BY <2>1 DEF Saves, QuietSaveRepairs
<1>11. CASE XrayRestarts \/ UNCHANGED vars
  BY <1>1, <1>11 DEF XrayRestarts, vars
<1> QED BY <1>4, <1>5, <1>6, <1>7, <1>8, <1>9, <1>10, <1>11 DEF Next

-----------------------------------------------------------------------------
(* The theorems.                                                            *)

LEMMA InitIInv == Init => IInv
<1> SUFFICES ASSUME Init PROVE IInv
  OBVIOUS
<1>1. TypeOK
  <2>1. faults \in 0 .. MaxFaults /\ removals \in 0 .. MaxRemovals
    BY AgentAssumption DEF Init
  <2>2. pc \in [Handlers -> {"idle", "waiting", "editing", "reloading", "set", "saving"}]
    BY DEF Init
  <2>3. \A h \in Handlers : pc[h] = "idle" /\ job[h] = None /\ copy[h] = {} /\ lock # h
    BY AgentAssumption DEF Init
  <2> QED BY <2>1, <2>2, <2>3 DEF Init, TypeOK
<1>2. Jobs
  BY DEF Init, Jobs
<1> QED BY <1>1, <1>2 DEF Init, IInv, Edits, AddedIsServed, RemovedIsGone, Saves, QuietSaveRepairs

LEMMA IInvStep == IInv /\ [Next]_vars => IInv'
BY TypeStep, JobsStep, EditsStep, ServedStep, SavesStep DEF IInv

LEMMA Invariance == Spec => []IInv
BY InitIInv, IInvStep, PTL DEF Spec

\* The types: in particular the peers of the interface and of its file were
\* all asked for, and xrayMu is held by exactly the request that edits or
\* reloads.
THEOREM TypeCorrect == Spec => []TypeOK
<1>1. IInv => TypeOK
  BY DEF IInv
<1> QED BY <1>1, Invariance, PTL

\* editXrayClients: a client whose addition was answered is in Xray's file, and
\* served as long as no command fails, until its removal is asked for, however
\* many other requests edit the file meanwhile.
THEOREM AdditionsLast == Spec => []AddedIsServed
<1>1. IInv => AddedIsServed
  BY DEF IInv
<1> QED BY <1>1, Invariance, PTL

\* A client whose removal was answered is gone for good, through failed reloads,
\* restarts and reboots.
THEOREM RemovalsLast == Spec => []RemovedIsGone
<1>1. IInv => RemovedIsGone
  BY DEF IInv
<1> QED BY <1>1, Invariance, PTL

\* persistWG: after a save that nothing overlapped, the file and the interface
\* agree, whatever happened before it.
THEOREM QuietSavesRepair == Spec => []QuietSaveRepairs
<1>1. IInv => QuietSaveRepairs
  BY DEF IInv
<1> QED BY <1>1, Invariance, PTL

-----------------------------------------------------------------------------
(* The engine that polls the nodes.                                         *)

\* The engine is done with what it found at v: its node is bad and it is
\* offline, or its node is healthy and it is active.
Settled(v) ==
  \/ status[v] = "offline" /\ (Unreachable(condition[v]) \/ Blocked(condition[v]))
  \/ status[v] = "active" /\ Healthy(condition[v])

\* A server the engine has changed stays settled until another touches it; in a
\* check that nothing has overtaken, the list and the report are as they were.
EInv ==
  /\ changes \in [Servers -> {0, 1}] /\ status \in [Servers -> Statuses]
  /\ listed \in [Servers -> Statuses \cup {"no"}]
  /\ condition \in [Servers -> Reports \cup {Down}]
  /\ place \in {"polled", "listing", "migrating"} => current \in Servers
  /\ place = "polled" /\ ~ outdated => poll = condition[current] /\ listed[current] = status[current]
  /\ place = "polled" /\ outdated => changes[current] = 0
  /\ \A v \in Servers : changes[v] = 1 =>
       /\ Settled(v)
       /\ listed[v] \in {"no", status[v]} \/ (place \in {"listing", "migrating"} /\ v = current)

\* Marking the server being checked, once the engine has decided.
LEMMA MarkSettles ==
  ASSUME EInv, place = "polled", NEW c \in Servers, c = current, NEW s \in Statuses, MarkStatus(c, s),
         \/ s = "offline" /\ (Unreachable(poll) \/ Blocked(poll))
         \/ s = "active" /\ Healthy(poll),
         UNCHANGED condition
  PROVE  /\ changes' \in [Servers -> {0, 1}] /\ status' \in [Servers -> Statuses]
         /\ \A v \in Servers \ {c} : changes'[v] = changes[v] /\ status'[v] = status[v]
         /\ changes'[c] = 1 => Settled(c)'
<1>1. CASE UNCHANGED <<status, changes>>
  BY <1>1 DEF EInv, Settled
<1>2. CASE /\ status' = [status EXCEPT ![c] = s]
           /\ changes' = IF status[c] = s \/ outdated THEN changes ELSE [changes EXCEPT ![c] = @ + 1]
  <2>1. /\ status' \in [Servers -> Statuses] /\ status'[c] = s
        /\ \A v \in Servers \ {c} : status'[v] = status[v]
    BY <1>2 DEF EInv
  <2>2. CASE outdated
    BY <1>2, <2>1, <2>2 DEF EInv
  <2>3. CASE ~ outdated
    <3>1. poll = condition[c]
      BY <2>3 DEF EInv
    <3>2. Settled(c)'
      BY <2>1, <3>1 DEF Settled
    <3>3. CASE status[c] = s
      BY <1>2, <2>1, <3>2, <3>3 DEF EInv
    <3>4. CASE status[c] # s
      <4>1. changes[c] # 1
        BY <3>1, <3>4 DEF EInv, Settled, Healthy
      <4>2. changes[c] = 0 /\ changes' = [changes EXCEPT ![c] = 1]
        <5>1. changes[c] = 0 /\ changes' = [changes EXCEPT ![c] = changes[c] + 1]
          BY <1>2, <2>3, <3>4, <4>1 DEF EInv
        <5> QED BY <5>1
      <4> QED BY <2>1, <3>2, <4>2 DEF EInv
    <3> QED BY <3>3, <3>4
  <2> QED BY <2>2, <2>3
<1> QED BY <1>1, <1>2 DEF MarkStatus

LEMMA EInvStep == EInv /\ [EngineNext]_engineVars => EInv'
<1> SUFFICES ASSUME EInv, [EngineNext]_engineVars PROVE EInv'
  OBVIOUS
<1> USE DEF engine, hist
<1>0. /\ changes \in [Servers -> {0, 1}] /\ status \in [Servers -> Statuses]
      /\ listed \in [Servers -> Statuses \cup {"no"}]
      /\ condition \in [Servers -> Reports \cup {Down}]
  BY DEF EInv
\* Somebody else touches a server, which starts its count again.
<1>1. ASSUME NEW v \in Servers, Touched(v), UNCHANGED <<listed, place, current, poll>>,
             status' \in [Servers -> Statuses], condition' \in [Servers -> Reports \cup {Down}],
             \A w \in Servers \ {v} : status'[w] = status[w] /\ condition'[w] = condition[w]
      PROVE  EInv'
  <2>1. /\ changes' \in [Servers -> {0, 1}] /\ changes'[v] = 0
        /\ \A w \in Servers \ {v} : changes'[w] = changes[w]
    BY <1>0, <1>1 DEF Touched
  <2>2. ASSUME NEW w \in Servers, changes'[w] = 1
        PROVE  Settled(w)' /\ (listed'[w] \in {"no", status'[w]} \/ (place' \in {"listing", "migrating"} /\ w = current'))
    <3>1. w # v /\ changes[w] = 1
      BY <2>1, <2>2
    <3>2. Settled(w) /\ (listed[w] \in {"no", status[w]} \/ (place \in {"listing", "migrating"} /\ w = current))
      BY <3>1 DEF EInv
    <3>3. Settled(w)'
      BY <1>1, <3>1, <3>2 DEF Settled
    <3> QED BY <1>1, <3>1, <3>2, <3>3
  <2>3. outdated' = (outdated \/ v = current)
    BY <1>1 DEF Touched
  <2>4. place' \in {"polled", "listing", "migrating"} => current' \in Servers
    BY <1>1 DEF EInv
  <2>5. place' = "polled" /\ ~ outdated' => poll' = condition'[current'] /\ listed'[current'] = status'[current']
    <3>1. SUFFICES ASSUME place = "polled", ~ outdated, v # current
                   PROVE  poll = condition'[current] /\ listed[current] = status'[current]
      BY <1>1, <2>3
    <3> QED BY <1>1, <3>1 DEF EInv
  <2>6. place' = "polled" /\ outdated' => changes'[current'] = 0
    BY <1>1, <2>1, <2>3 DEF EInv
  <2> QED BY <1>0, <1>1, <2>1, <2>2, <2>4, <2>5, <2>6 DEF EInv
\* A check ends, after the engine has marked the server or let it be.
<1>2. ASSUME NEW c \in Servers, c = current, CheckEnds, UNCHANGED condition,
             changes' \in [Servers -> {0, 1}], status' \in [Servers -> Statuses],
             \A v \in Servers \ {c} : changes'[v] = changes[v] /\ status'[v] = status[v],
             changes'[c] = 1 => Settled(c)', place \in {"polled", "migrating"}
      PROVE  EInv'
  <2>1. /\ place' = "sweeping" /\ listed' = [listed EXCEPT ![c] = "no"]
    BY <1>2 DEF CheckEnds
  <2>2. /\ listed' \in [Servers -> Statuses \cup {"no"}] /\ listed'[c] = "no"
        /\ \A v \in Servers \ {c} : listed'[v] = listed[v]
    BY <1>0, <2>1
  <2>3. ASSUME NEW v \in Servers, changes'[v] = 1 PROVE Settled(v)' /\ listed'[v] \in {"no", status'[v]}
    <3>1. CASE v = c
      BY <1>2, <2>2, <2>3, <3>1
    <3>2. CASE v # c
      <4>1. Settled(v) /\ listed[v] \in {"no", status[v]}
        BY <1>2, <2>3, <3>2 DEF EInv
      <4>2. Settled(v)'
        BY <1>2, <3>2, <4>1 DEF Settled
      <4> QED BY <1>2, <2>2, <3>2, <4>1, <4>2
    <3> QED BY <3>1, <3>2
  <2> QED BY <1>0, <1>2, <2>1, <2>2, <2>3 DEF EInv
<1>3. CASE Sweep
  <2>1. /\ place = "rest" /\ place' = "sweeping" /\ UNCHANGED <<status, condition, current, poll, changes, outdated>>
        /\ \/ listed' = [v \in Servers |-> IF status[v] = "archived" THEN "no" ELSE status[v]]
           \/ UNCHANGED listed
    BY <1>3 DEF Sweep
  <2>2. /\ listed' \in [Servers -> Statuses \cup {"no"}]
        /\ \A v \in Servers : changes[v] = 1 => listed'[v] \in {"no", status[v]}
    BY <1>0, <2>1 DEF EInv
  <2> QED BY <1>0, <2>1, <2>2 DEF EInv, Settled
<1>4. CASE SweepEnds
  BY <1>4 DEF SweepEnds, EInv, Settled
<1>5. ASSUME NEW v \in Servers, Poll(v) PROVE EInv'
  <2>1. /\ place = "sweeping" /\ listed[v] # "no" /\ place' = "polled" /\ current' = v /\ poll' = condition[v]
        /\ outdated' = (listed[v] # status[v]) /\ UNCHANGED <<status, condition, listed, changes>>
    BY <1>5 DEF Poll
  <2>2. changes[v] = 1 => listed[v] = status[v]
    BY <2>1 DEF EInv
  <2>3. place' = "polled" /\ outdated' => changes'[current'] = 0
    BY <1>0, <2>1, <2>2
  <2>4. ASSUME NEW w \in Servers, changes'[w] = 1 PROVE Settled(w)' /\ listed'[w] \in {"no", status'[w]}
    BY <2>1, <2>4 DEF EInv, Settled
  <2> QED BY <1>0, <2>1, <2>3, <2>4 DEF EInv
<1>6. CASE GiveUp
  <2>1. PICK c \in Servers : c = current
    BY <1>6 DEF GiveUp, EInv
  <2>2. /\ place = "polled" /\ MarkStatus(c, "offline") /\ UNCHANGED condition
        /\ Unreachable(poll) \/ Blocked(poll)
        /\ \/ place' = "listing" /\ UNCHANGED <<listed, current, poll, outdated>>
           \/ CheckEnds
    BY <1>6, <2>1 DEF GiveUp
  <2>3. "offline" \in Statuses
    BY DEF Statuses
  <2>4. /\ changes' \in [Servers -> {0, 1}] /\ status' \in [Servers -> Statuses]
        /\ \A v \in Servers \ {c} : changes'[v] = changes[v] /\ status'[v] = status[v]
        /\ changes'[c] = 1 => Settled(c)'
    BY <2>1, <2>2, <2>3, MarkSettles
  <2>5. CASE CheckEnds
    BY <1>2, <2>1, <2>2, <2>4, <2>5
  <2>6. CASE place' = "listing" /\ UNCHANGED <<listed, current, poll, outdated>>
    <3>1. ASSUME NEW v \in Servers, changes'[v] = 1
          PROVE  Settled(v)' /\ (listed'[v] \in {"no", status'[v]} \/ (place' \in {"listing", "migrating"} /\ v = current'))
      <4>1. CASE v = c
        BY <2>1, <2>4, <2>6, <3>1, <4>1
      <4>2. CASE v # c
        <5>1. Settled(v) /\ listed[v] \in {"no", status[v]}
          BY <2>2, <2>4, <3>1, <4>2 DEF EInv
        <5>2. Settled(v)'
          BY <2>2, <2>4, <4>2, <5>1 DEF Settled
        <5> QED BY <2>4, <2>6, <4>2, <5>1, <5>2
      <4> QED BY <4>1, <4>2
    <3> QED BY <1>0, <2>1, <2>2, <2>4, <2>6, <3>1 DEF EInv
  <2> QED BY <2>2, <2>5, <2>6
<1>7. CASE Recover
  <2>1. PICK c \in Servers : c = current
    BY <1>7 DEF Recover, EInv
  <2>2. /\ place = "polled" /\ MarkStatus(c, "active") /\ UNCHANGED condition /\ Healthy(poll) /\ CheckEnds
    BY <1>7, <2>1 DEF Recover
  <2>3. "active" \in Statuses
    BY DEF Statuses
  <2>4. /\ changes' \in [Servers -> {0, 1}] /\ status' \in [Servers -> Statuses]
        /\ \A v \in Servers \ {c} : changes'[v] = changes[v] /\ status'[v] = status[v]
        /\ changes'[c] = 1 => Settled(c)'
    BY <2>1, <2>2, <2>3, MarkSettles
  <2> QED BY <1>2, <2>1, <2>2, <2>4
<1>8. CASE LeaveAsItIs \/ MigrationEnds
  <2>1. PICK c \in Servers : c = current
    BY <1>8 DEF LeaveAsItIs, MigrationEnds, EInv
  <2>2. place \in {"polled", "migrating"} /\ CheckEnds /\ UNCHANGED <<status, condition, changes>>
    BY <1>8 DEF LeaveAsItIs, MigrationEnds
  <2>3. changes'[c] = 1 => Settled(c)'
    BY <2>2 DEF EInv, Settled
  <2> QED BY <1>0, <1>2, <2>1, <2>2, <2>3
<1>9. ASSUME NEW v \in Servers, NEW s \in Statuses, SetServerStatus(v, s) PROVE EInv'
  <2>1. /\ status' = [status EXCEPT ![v] = s] /\ Touched(v)
        /\ UNCHANGED <<condition, listed, place, current, poll>>
    BY <1>9 DEF SetServerStatus
  <2>2. status' \in [Servers -> Statuses] /\ \A w \in Servers \ {v} : status'[w] = status[w]
    BY <1>0, <2>1
  <2> QED BY <1>0, <1>1, <2>1, <2>2
<1>10. ASSUME NEW v \in Servers, NEW r \in Reports \cup {Down}, NodeChanges(v, r) PROVE EInv'
  <2>1. /\ condition' = [condition EXCEPT ![v] = r] /\ Touched(v)
        /\ UNCHANGED <<status, listed, place, current, poll>>
    BY <1>10 DEF NodeChanges
  <2>2. condition' \in [Servers -> Reports \cup {Down}] /\ \A w \in Servers \ {v} : condition'[w] = condition[w]
    BY <1>0, <2>1
  <2> QED BY <1>0, <1>1, <2>1, <2>2
<1>11. ASSUME NEW s \in Subs,
              ClientLeaves(s) \/ ClientPauses(s) \/ \E v \in Servers : ClientArrives(s, v)
       PROVE  EInv'
  BY <1>11 DEF ClientLeaves, ClientPauses, ClientArrives, EInv, Settled
<1>13. ASSUME ActiveSubsOnServer \/ \E s \in Subs : MigrateSub(s) PROVE EInv'
  <2>1. /\ place \in {"listing", "migrating"} /\ place' = "migrating"
        /\ UNCHANGED <<status, condition, listed, current, poll, changes, outdated>>
    BY <1>13 DEF ActiveSubsOnServer, MigrateSub
  <2> QED BY <2>1 DEF EInv, Settled
<1>12. CASE UNCHANGED engineVars
  BY <1>12 DEF engineVars, EInv, Settled
<1> QED BY <1>3, <1>4, <1>5, <1>6, <1>7, <1>8, <1>9, <1>10, <1>11, <1>12, <1>13, MonitoringAssumption DEF EngineNext, Engine

\* An engine that nobody overtakes never changes a status twice, whatever nodes
\* report and however many servers there are.
THEOREM StatusSettles == EngineSpec => []DoesNotFlap
<1>1. EngineInit => EInv
  BY DEF EngineInit, EInv, Statuses
<1>2. EInv => DoesNotFlap
  BY DEF EInv, DoesNotFlap
<1> QED BY <1>1, <1>2, EInvStep, PTL DEF EngineSpec
=============================================================================
