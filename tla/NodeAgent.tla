----------------------------- MODULE NodeAgent -----------------------------
(***************************************************************************)
(* The agent of one VPN node (cmd/agent): how its concurrent requests      *)
(* change what Xray and the WireGuard interface serve and what they will   *)
(* serve after a restart, with the platform's requests to it               *)
(* (internal/vpn/provisioner.go) around it.                                *)
(*                                                                         *)
(* Xray: editXrayClients takes xrayMu, reads the configuration file, edits *)
(* it, writes it and restarts Xray, which runs with the file it found when *)
(* it last started.  The lists of the VLESS, Shadowsocks and Trojan        *)
(* inbounds are one set: an edit rewrites the whole file, and a client's   *)
(* id or e-mail is a fresh UUID.                                           *)
(*                                                                         *)
(* WireGuard: each request runs "wg set", then persistWG's "wg-quick       *)
(* save", which reads the interface and then replaces its file.  Nothing   *)
(* orders these requests.                                                  *)
(***************************************************************************)
EXTENDS Naturals

CONSTANTS
  Clients,     \* bound: Xray clients that may ever be created
  Peers,       \* bound: WireGuard peers that may ever be created
  Handlers,    \* bound: requests in progress at once
  None,
  MaxFaults,   \* bound: failed commands, crashes and reboots
  MaxRemovals  \* bound: removal requests for Xray clients

ASSUME AgentAssumption ==
  /\ None \notin Handlers /\ Clients \cap Peers = {}
  /\ MaxFaults \in Nat /\ MaxRemovals \in Nat

VARIABLES
  file,     \* the clients of Xray's configuration file
  torn,     \* the file was cut short and does not parse
  running,  \* the clients Xray serves
  lock,     \* the holder of xrayMu
  peers,    \* the peers of the WireGuard interface
  saved,    \* the peers of its configuration file
  pc,       \* where each request is
  job,      \* what it is to do: add or remove which client or peer
  copy,     \* what it has read: the file's clients, or the interface's peers
  faults, removals, \* counters of the bounds
  asked,    \* history: clients and peers whose addition was requested
  added,    \* history: those whose addition was answered 200
  removing, \* history: clients and peers whose removal was requested
  removed,  \* history: those whose removal was answered 200
  quiet,    \* history: saves that nothing overlapped since they began
  suspect   \* history: no quiet save followed the last disturbed or failed one

xray    == <<file, torn, running, lock>>
wg      == <<peers, saved>>
saves   == <<quiet, suspect>>
bounds  == <<faults, removals>>
history == <<asked, added, removing, removed>>
vars == <<xray, wg, pc, job, copy, bounds, history, saves>>

Job == [add : BOOLEAN, client : Clients \cup Peers]

\* Type invariant.
TypeOK ==
  /\ file \subseteq Clients /\ running \subseteq Clients /\ torn \in BOOLEAN
  /\ peers \subseteq asked \cap Peers /\ saved \subseteq asked \cap Peers
  /\ pc \in [Handlers -> {"idle", "waiting", "editing", "reloading", "set", "saving"}]
  /\ \A h \in Handlers :
       /\ IF pc[h] = "idle" THEN job[h] = None ELSE job[h] \in Job
       /\ pc[h] \in {"idle", "waiting", "set"} => copy[h] = {}
       /\ copy[h] \subseteq IF pc[h] = "saving" THEN Peers ELSE Clients
       /\ lock = h <=> pc[h] \in {"editing", "reloading"}
  /\ lock \in Handlers \cup {None}
  /\ faults \in 0 .. MaxFaults /\ removals \in 0 .. MaxRemovals
  /\ asked \subseteq Clients \cup Peers /\ removing \subseteq asked
  /\ removed \subseteq removing \cap added /\ added \subseteq asked
  /\ quiet \subseteq {h \in Handlers : pc[h] = "saving"} /\ suspect \in BOOLEAN

Init ==
  /\ file = {} /\ torn = FALSE /\ running = {} /\ lock = None
  /\ peers = {} /\ saved = {}
  /\ pc = [h \in Handlers |-> "idle"] /\ job = [h \in Handlers |-> None]
  /\ copy = [h \in Handlers |-> {}]
  /\ faults = 0 /\ removals = 0
  /\ asked = {} /\ added = {} /\ removing = {} /\ removed = {}
  /\ quiet = {} /\ suspect = FALSE

----------------------------------------------------------------------------
Fault == faults < MaxFaults /\ faults' = faults + 1

At(h, place) == pc' = [pc EXCEPT ![h] = place]

Finish(h) ==
  At(h, "idle") /\ job' = [job EXCEPT ![h] = None] /\ copy' = [copy EXCEPT ![h] = {}]

\* The answer 200.
Answer(h) ==
  /\ IF job[h].add THEN added' = added \cup {job[h].client} /\ UNCHANGED removed
                   ELSE removed' = removed \cup {job[h].client} /\ UNCHANGED added
  /\ Finish(h)
  /\ UNCHANGED <<asked, removing>>

----------------------------------------------------------------------------
(* Xray.                                                                    *)

Begin(h, request) ==
  /\ pc[h] = "idle"
  /\ At(h, "waiting") /\ job' = [job EXCEPT ![h] = request]

\* addVLESS, addSS, addTrojan: every client is added by one request, which the
\* platform does not repeat.
Add(h, c) ==
  /\ c \notin asked
  /\ Begin(h, [add |-> TRUE, client |-> c])
  /\ asked' = asked \cup {c}
  /\ UNCHANGED <<xray, wg, copy, bounds, added, removing, removed, saves>>

\* removeVLESS, removeSS, removeTrojan: of a client that is stored, hence was
\* added; a deletion and a migration may both ask for it.
Remove(h, c) ==
  /\ c \in added /\ removals < MaxRemovals
  /\ Begin(h, [add |-> FALSE, client |-> c])
  /\ removing' = removing \cup {c} /\ removals' = removals + 1
  /\ UNCHANGED <<xray, wg, copy, faults, asked, added, removed, saves>>

\* A mistake: the file is read before the lock is taken.
Lock_Free(h) ==
  /\ pc[h] = "waiting" /\ ~ torn
  /\ lock' = h
  /\ copy' = [copy EXCEPT ![h] = file]
  /\ At(h, "editing")
  /\ UNCHANGED <<file, torn, running, wg, job, bounds, history, saves>>

\* The lock, and the file as it is now.
Lock(h) ==
  /\ pc[h] = "waiting" /\ lock = None /\ ~ torn
  /\ lock' = h
  /\ copy' = [copy EXCEPT ![h] = file]
  /\ At(h, "editing")
  /\ UNCHANGED <<file, torn, running, wg, job, bounds, history, saves>>

\* The file does not parse, or cannot be read.
Unreadable(h) ==
  /\ pc[h] = "waiting" /\ lock = None
  /\ (torn /\ UNCHANGED faults) \/ Fault
  /\ Finish(h)
  /\ UNCHANGED <<xray, wg, removals, history, saves>>

\* A mistake: an addition of what is there, or a removal, keeps the whole list.
Edited_Keeps(h) == copy[h] \cup {job[h].client}

\* The list with the client, once, or without it.
Edited(h) == IF job[h].add THEN copy[h] \cup {job[h].client}
                           ELSE copy[h] \ {job[h].client}

WriteFile(h) ==
  /\ pc[h] = "editing"
  /\ file' = Edited(h)
  /\ At(h, "reloading")
  /\ UNCHANGED <<torn, running, lock, wg, job, copy, bounds, history, saves>>

\* A mistake: an error return that keeps the lock.
WriteFails_Locked(h) ==
  /\ pc[h] = "editing" /\ Fault
  /\ \/ torn' = TRUE /\ UNCHANGED file
     \/ file' \in {file, Edited(h)} /\ UNCHANGED torn
  /\ Finish(h)
  /\ UNCHANGED <<running, lock, wg, removals, history, saves>>

\* os.WriteFile fails before it truncates the file, in the middle, or after the
\* whole content was written; in each case without a reload.
WriteFails(h) ==
  /\ pc[h] = "editing" /\ Fault
  /\ \/ torn' = TRUE /\ UNCHANGED file
     \/ file' \in {file, Edited(h)} /\ UNCHANGED torn
  /\ lock' = None
  /\ Finish(h)
  /\ UNCHANGED <<running, wg, removals, history, saves>>

\* The reload command, and the answer 200.
Reload(h) ==
  /\ pc[h] = "reloading"
  /\ running' = file
  /\ lock' = None
  /\ Answer(h)
  /\ UNCHANGED <<file, torn, wg, bounds, saves>>

\* The command fails, before, after or in the middle of the restart; the file
\* stays as written, and the answer is 500.
ReloadFails(h) ==
  /\ pc[h] = "reloading" /\ Fault
  /\ running' \in {running, file, {}}
  /\ lock' = None
  /\ Finish(h)
  /\ UNCHANGED <<file, torn, wg, removals, history, saves>>

\* Xray's container is restarted by something else.
XrayRestarts ==
  /\ running' = IF torn THEN {} ELSE file
  /\ UNCHANGED <<file, torn, lock, wg, pc, job, copy, bounds, history, saves>>

Edit(h) == Lock(h) \/ Unreadable(h) \/ WriteFile(h) \/ WriteFails(h) \/ Reload(h) \/ ReloadFails(h)

----------------------------------------------------------------------------
(* WireGuard.                                                               *)

SetPeer(h, request, new) ==
  /\ pc[h] = "idle"
  /\ peers' = new
  /\ At(h, "set") /\ job' = [job EXCEPT ![h] = request]
  /\ quiet' = {}
  /\ UNCHANGED <<xray, saved, copy, bounds, added, removed, suspect>>

\* addWGPeer: wg set peer.  A command that fails changes nothing and ends the
\* request.
AddPeer(h, p) ==
  /\ p \notin asked
  /\ SetPeer(h, [add |-> TRUE, client |-> p], peers \cup {p})
  /\ asked' = asked \cup {p} /\ UNCHANGED removing

\* removeWGPeer: wg set peer remove.
RemovePeer(h, p) ==
  /\ p \in added \ removing
  /\ SetPeer(h, [add |-> FALSE, client |-> p], peers \ {p})
  /\ removing' = removing \cup {p} /\ UNCHANGED asked

Alone(h) == IF \E g \in Handlers \ {h} : pc[g] = "saving" THEN {} ELSE {h}

\* A mistake: the configuration is saved by additions only.
BeginSave_AddsOnly(h) ==
  /\ pc[h] = "set"
  /\ copy' = [copy EXCEPT ![h] = saved \cup peers]
  /\ At(h, "saving")
  /\ quiet' = Alone(h)
  /\ UNCHANGED <<xray, wg, job, bounds, history, suspect>>

\* persistWG: wg-quick save reads the interface ...
BeginSave(h) ==
  /\ pc[h] = "set"
  /\ copy' = [copy EXCEPT ![h] = peers]
  /\ At(h, "saving")
  /\ quiet' = Alone(h)
  /\ UNCHANGED <<xray, wg, job, bounds, history, suspect>>

\* ... and replaces the file.
EndSave(h) ==
  /\ pc[h] = "saving"
  /\ saved' = copy[h]
  /\ Answer(h)
  /\ quiet' = quiet \ {h} /\ suspect' = (h \notin quiet)
  /\ UNCHANGED <<xray, peers, bounds>>

\* A failed save is only logged, and the answer is 200 all the same.
SaveFails(h) ==
  /\ pc[h] \in {"set", "saving"} /\ Fault
  /\ Answer(h)
  /\ quiet' = quiet \ {h} /\ suspect' = TRUE
  /\ UNCHANGED <<xray, wg, removals>>

----------------------------------------------------------------------------
\* The process ends with its requests; a file that was being written may be
\* cut short.
Die ==
  /\ Fault
  /\ torn' \in {torn, torn \/ \E h \in Handlers : pc[h] = "editing"}
  /\ lock' = None
  /\ pc' = [h \in Handlers |-> "idle"] /\ job' = [h \in Handlers |-> None]
  /\ copy' = [h \in Handlers |-> {}]
  /\ quiet' = {}
  /\ UNCHANGED <<file, saved, removals, history>>

\* The agent is restarted.
Crash ==
  /\ Die
  /\ suspect' = (suspect \/ \E h \in Handlers : pc[h] \in {"set", "saving"})
  /\ UNCHANGED <<running, peers>>

\* The node starts again, with what the two files hold.
Reboot ==
  /\ Die
  /\ suspect' = FALSE
  /\ peers' = saved
  /\ running' = IF torn' THEN {} ELSE file

----------------------------------------------------------------------------
Next ==
  \/ \E h \in Handlers :
       \/ \E c \in Clients : Add(h, c) \/ Remove(h, c)
       \/ Edit(h)
       \/ \E p \in Peers : AddPeer(h, p) \/ RemovePeer(h, p)
       \/ BeginSave(h) \/ EndSave(h) \/ SaveFails(h)
  \/ XrayRestarts \/ Crash \/ Reboot

\* sync.Mutex hands a lock to whoever waits for it, and commands end.
Fairness == \A h \in Handlers : SF_vars(Lock(h) \/ Unreadable(h)) /\ WF_vars(Edit(h))

Spec == Init /\ [][Next]_vars /\ Fairness

----------------------------------------------------------------------------
(* Properties.                                                              *)

\* "Serialised against races": a client whose addition was answered stays in
\* the file whatever other clients' edits overlap it, until its removal is
\* asked for, and as long as no command fails Xray serves it.
AddedIsServed ==
  \A c \in (added \ removing) \cap Clients :
    /\ ~ torn => c \in file
    /\ faults = 0 => c \in running

\* A client whose removal was answered is served no more and does not come
\* back: neither an overlapping edit, nor a failed reload, nor a restart of the
\* agent, of Xray or of the node restores it.
RemovedIsGone ==
  \A c \in removed \cap Clients : c \notin running /\ (~ torn => c \notin file)

\* Every Xray request is answered or cut off by a restart: no error return keeps
\* the lock.
Answered == \A h \in Handlers : pc[h] = "waiting" ~> pc[h] = "idle"

\* Whatever WireGuard saves failed or overlapped before, one that runs
\* undisturbed makes the file agree with the interface: then a restart neither
\* loses a peer nor brings a removed one back.
QuietSaveRepairs ==
  (\A h \in Handlers : pc[h] \notin {"set", "saving"}) /\ ~ suspect => saved = peers

----------------------------------------------------------------------------
(* A stronger statement that the code does not meet.                        *)

\* main.go:448 "persistWG best-effort saves the running config so peers survive a
\* restart", where every save succeeds.
PeersSurviveRestart ==
  (\A h \in Handlers : pc[h] \notin {"set", "saving"}) /\ faults = 0 => saved = peers
=============================================================================
