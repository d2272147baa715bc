------------------------------ MODULE Replicas ------------------------------
(***************************************************************************)
(* The copies of one committed checkpoint: replicate_to_policy at the end   *)
(* of its capture, the fetch a restore makes for a target that has no copy  *)
(* (ensure_replica), verification, protection and retirement                *)
(* (coordinator.rs), the locations the store keeps of it (persistence.rs),  *)
(* and the nodes that copy, serve, verify and delete it and report it in    *)
(* heartbeats (node.rs, storage.rs).                                        *)
(*                                                                          *)
(* A step is one call on the store or one request handled by a node, except *)
(* that do_replicate takes two: it reads from its peer, then promotes. A    *)
(* node id <<h, b>> is start b of the node process over data directory h:   *)
(* every start registers under a fresh id over the same directory.          *)
(*                                                                          *)
(* Simplifications: one coordinator epoch and no store errors (Capture and  *)
(* Restore have both); a restore is reduced to what it reads and writes     *)
(* here; one thread of each kind at a time; the chunks of a component and   *)
(* its manifest are either as anchored ("good") or not ("bad"); a fetch     *)
(* token outlives its replication; staging left behind is removed by the    *)
(* sweep or at the next start.                                              *)
(***************************************************************************)
EXTENDS Naturals, Sequences, FiniteSets, Lifecycle

CONSTANTS
    Hosts,          \* data directories
    Home,           \* the one the checkpoint was captured on
    None,           \* no node
    MinReplicas,    \* min_valid_replicas of the policy
    Faults,         \* what may go wrong, a subset of FaultKinds
    Protections,    \* protection states that clients ask for
    MaxBoot,        \* bound: starts of each node
    MaxStarts,      \* bound: starts of all nodes
    MaxBeats        \* bound: heartbeats under way at a time

\* "rpc"      a call is handled after its caller gave up
\* "node"     a node process ends and starts again, or goes stale
\* "disk"     a copy is damaged, or cannot be deleted
\* "overlap"  requests of several clients are served at the same time
FaultKinds == {"rpc", "node", "disk", "overlap"}

ProtectionStates == {"none", "protected", "pinned"}

ASSUME ReplicaFaultsAssumption == Faults \subseteq FaultKinds
ASSUME ReplicaHostsAssumption == Home \in Hosts /\ None \notin Hosts \X Nat
ASSUME ReplicaProtectionsAssumption == Protections \subseteq ProtectionStates
ASSUME ReplicaBoundsAssumption == {MaxBoot, MaxStarts, MaxBeats, MinReplicas} \subseteq Nat

VARIABLES
    \* the checkpoint's row and its restore reservation
    lifecycle,
    integrity,
    protection,
    locations,      \* durable_locations: node ids; replica_count is its length
    reserved,
    active,         \* node ids the store lists as ACTIVE
    \* the coordinator
    thread,         \* the state of each thread
    \* the nodes
    boot,           \* current start of each node
    disk,           \* the committed directory, see DiskStates
    copying,        \* do_replicate calls between reading and promoting
    tokens,         \* fetch tokens: <<node id, thread>>
    beats,          \* node ids with a heartbeat that lists the checkpoint under way
    msgs            \* requests on their way to a node

rowVars  == <<lifecycle, integrity, protection, locations, reserved>>
nodeVars == <<boot, disk, copying, tokens, beats>>
vars == <<rowVars, active, thread, nodeVars, msgs>>

\* "bad": a file differs from what is anchored; "partial": a deletion stopped half-way.
DiskStates == {"absent", "good", "bad", "partial"}

NodeIds == Hosts \X Nat
Threads == {"replicate", "retire", "verify", "restore"}
Ops == {"allow", "fetch", "probe", "delete", "verify", "restore", "unstage"}
Messages == [op : Ops, by : Threads, node : NodeIds, peer : NodeIds]
NoCall == [op |-> "none"]

Labels ==
    {"idle", "ready", "done", "wait", "loop", "fetch", "add", "reread", "valid", "corrupt",
     "check", "delete", "reserve", "pending", "provide", "apply", "commit", "abort",
     "put_back", "release"}

\* A thread: where it is, the call it waits for or made last, the node it works for,
\* the locations it read, and the nodes replicate_to_policy has still to try.
ThreadStates ==
    [pc : Labels, call : Messages \cup {NoCall}, target : NodeIds \cup {None},
     snap : Seq(NodeIds), todo : SUBSET NodeIds]
Fresh == [pc |-> "idle", call |-> NoCall, target |-> None, snap |-> <<>>, todo |-> {}]

\* A thread that has returned; the capture's replication runs once.
Returned(t) == IF t = "replicate" THEN [Fresh EXCEPT !.pc = "done"] ELSE Fresh

Quiet(t) == thread[t].pc \in {"idle", "ready", "done"}

\* Clients wait for each other's requests, unless they overlap.
MayStart == "overlap" \in Faults \/ \A t \in Threads : Quiet(t)

\* has_committed: the directory has a manifest, its digest and the integrity records.
HasCommitted(h) == disk[h] \in {"good", "bad"}

\* promote: an existing directory is never replaced.
CanPromote(h) == disk[h] = "absent"

\* delete_committed: what it may leave. Removing the tree may fail before or in it.
DeleteCommitted(h) ==
    IF "disk" \in Faults /\ disk[h] # "absent" THEN {"absent", disk[h], "partial"}
                                               ELSE {"absent"}

\* The process with this node id is the one that runs now.
Running(n) == boot[n[1]] = n[2]

Init ==
    /\ lifecycle = "AVAILABLE"
    /\ integrity = "valid"
    /\ protection = "none"
    /\ locations = <<<<Home, 1>>>>
    /\ reserved = FALSE
    /\ active = Hosts \X {1}
    /\ thread = [t \in Threads |->
                    IF t = "replicate" THEN [Fresh EXCEPT !.pc = "ready"] ELSE Fresh]
    /\ boot = [h \in Hosts |-> 1]
    /\ disk = [h \in Hosts |-> IF h = Home THEN "good" ELSE "absent"]
    /\ copying = {}
    /\ tokens = {}
    /\ beats = {}
    /\ msgs = {}

------------------------------------------------------------------------------
(* The store *)

\* Mutant: the directory is recorded, not the node id.
AddLocationOfHost(n) ==
    locations' = IF \E i \in DOMAIN locations : locations[i] = n
                 THEN locations ELSE Append(locations, n[1])

\* checkpoint_add_location: nothing when the node id is listed already.
AddLocation(n) ==
    locations' = IF \E i \in DOMAIN locations : locations[i] = n
                 THEN locations ELSE Append(locations, n)

\* The entries at the positions P are kept, in their order, and n becomes the last.
KeepAndAppend(P, n) ==
    \E k \in 0 .. Len(locations) : \E kept \in [1 .. k -> DOMAIN locations] :
        /\ {kept[i] : i \in 1 .. k} = P
        /\ \A i, j \in 1 .. k : i < j => kept[i] < kept[j]
        /\ locations' = Append([i \in 1 .. k |-> locations[kept[i]]], n)

\* Mutant: only the node's own id is replaced.
RebindById(n) == KeepAndAppend({i \in DOMAIN locations : locations[i] # n}, n)

\* checkpoint_rebind_location: the entries of the node's directory are replaced.
Rebind(n) == KeepAndAppend({i \in DOMAIN locations : locations[i][1] # n[1]}, n)

\* node_validate_identity: the id is registered and ACTIVE; a start has its own id, so
\* the boot id matches.
ValidIdentity(n) == n \in active

\* checkpoint_set_integrity, whatever the row's lifecycle.
SetIntegrity(state) ==
    /\ integrity' = state
    /\ UNCHANGED <<lifecycle, protection, locations, reserved>>

\* checkpoint_set_protection, whatever the row's lifecycle.
SetProtection(p) ==
    /\ protection' = p
    /\ UNCHANGED <<lifecycle, integrity, locations, reserved>>

\* set_lifecycle leaves the integrity pending.
SetLifecycle(target, state) ==
    /\ lifecycle' = target
    /\ integrity' = state
    /\ UNCHANGED <<protection, locations, reserved>>

------------------------------------------------------------------------------
(* Calls to a node *)

Goto(t, label) == thread' = [thread EXCEPT ![t].pc = label]
Return(t) == thread' = [thread EXCEPT ![t] = Returned(t)]

\* Thread t, its state th otherwise, calls a node; a process that is gone gets nothing.
Call(t, th, op, node, peer) ==
    LET m == [op |-> op, by |-> t, node |-> node, peer |-> peer]
    IN  /\ thread' = [thread EXCEPT ![t] = [th EXCEPT !.pc = "wait", !.call = m]]
        /\ msgs' = IF Running(node) THEN msgs \cup {m} ELSE msgs

\* Where a thread goes on after a call: with its answer "ok", "no" (a probe that finds
\* nothing), "refused" (ok = false, or an error field), or without one ("error").
After(t, op, result) ==
    CASE op = "unstage"                          -> "put_back"
      [] op = "allow" /\ result = "ok"           -> "fetch"
      [] op = "fetch" /\ result = "ok"           -> "add"
      [] op = "fetch" /\ result = "refused" /\ t = "replicate" -> "reread"
      [] op = "delete" /\ result = "ok"          -> "delete"
      [] op = "verify" /\ result = "ok"          -> "valid"
      [] op = "verify" /\ result = "refused"     -> "corrupt"
      [] op = "probe" /\ result = "ok"           -> "apply"
      [] op = "probe" /\ result = "no"           -> "provide"
      [] op = "restore" /\ result = "ok"         -> "commit"
      [] OTHER -> IF t = "restore" THEN "abort" ELSE "return"

Continue(t, result) ==
    LET label == After(t, thread[t].call.op, result)
    IN  thread' = [thread EXCEPT ![t] =
                      IF label = "return" THEN Returned(t) ELSE [@ EXCEPT !.pc = label]]

Waiting(m) == thread[m.by].pc = "wait" /\ thread[m.by].call = m

Answer(m, result) ==
    IF Waiting(m) THEN Continue(m.by, result) ELSE UNCHANGED thread

\* Mutant: a retirement asks a node that does not answer again.
GiveUpRetry(t) ==
    /\ thread[t].pc = "wait"
    /\ "rpc" \in Faults \/ thread[t].call \notin msgs \cup copying
    /\ IF t = "retire"
       THEN thread' = [thread EXCEPT ![t].pc = "delete",
                                     ![t].snap = <<thread[t].call.node>> \o @]
       ELSE Continue(t, "error")
    /\ UNCHANGED <<rowVars, active, nodeVars, msgs>>

\* The call fails: the timeout, or the process it went to has ended.
GiveUp(t) ==
    /\ thread[t].pc = "wait"
    /\ "rpc" \in Faults \/ thread[t].call \notin msgs \cup copying
    /\ Continue(t, "error")
    /\ UNCHANGED <<rowVars, active, nodeVars, msgs>>

------------------------------------------------------------------------------
(* replicate_to_policy *)

\* The ACTIVE nodes not among the locations are to be tried.
ReplicateStart ==
    /\ thread["replicate"].pc = "ready"
    /\ MayStart
    /\ thread' = [thread EXCEPT !["replicate"] =
           [@ EXCEPT !.pc = "loop", !.snap = locations,
                     !.todo = {n \in active : \A i \in DOMAIN locations : locations[i] # n}]]
    /\ UNCHANGED <<rowVars, active, nodeVars, msgs>>

\* The next target, until the policy is met or no node is left. The source is the
\* first location, whether or not its node is ACTIVE; without a location the thread
\* panics.
ReplicateNext ==
    LET th == thread["replicate"]
    IN  /\ th.pc = "loop"
        /\ IF th.todo = {} \/ Len(th.snap) >= MinReplicas \/ th.snap = <<>>
           THEN Return("replicate") /\ UNCHANGED msgs
           ELSE \E n \in th.todo :
                   Call("replicate", [th EXCEPT !.target = n, !.todo = @ \ {n}],
                        "allow", th.snap[1], n)
        /\ UNCHANGED <<rowVars, active, nodeVars>>

\* Once the source knows the fetch token the target is asked to copy; also for a
\* restore.
SendFetch(t) ==
    /\ thread[t].pc = "fetch"
    /\ Call(t, thread[t], "fetch", thread[t].target, thread[t].call.node)
    /\ UNCHANGED <<rowVars, active, nodeVars>>

\* The copy is recorded; also for a restore.
RecordCopy(t) ==
    /\ thread[t].pc = "add"
    /\ AddLocation(thread[t].target)
    /\ Goto(t, IF t = "replicate" THEN "reread" ELSE "apply")
    /\ UNCHANGED <<lifecycle, integrity, protection, reserved, active, nodeVars, msgs>>

ReplicateReread ==
    /\ thread["replicate"].pc = "reread"
    /\ thread' = [thread EXCEPT !["replicate"] =
                     [@ EXCEPT !.pc = "loop", !.snap = locations]]
    /\ UNCHANGED <<rowVars, active, nodeVars, msgs>>

------------------------------------------------------------------------------
(* verify_checkpoint, protect_checkpoint, unprotect_checkpoint *)

\* n is the first of the locations s whose node is ACTIVE.
FirstActive(s, n) ==
    \E i \in DOMAIN s : /\ s[i] = n
                        /\ n \in active
                        /\ \A j \in 1 .. i - 1 : s[j] \notin active

VerifyStart ==
    /\ thread["verify"].pc = "idle"
    /\ MayStart
    /\ \E n \in active :
          FirstActive(locations, n) /\ Call("verify", Fresh, "verify", n, n)
    /\ UNCHANGED <<rowVars, active, nodeVars>>

VerifyRecord ==
    /\ thread["verify"].pc \in {"valid", "corrupt"}
    /\ SetIntegrity(thread["verify"].pc)
    /\ Return("verify")
    /\ UNCHANGED <<active, nodeVars, msgs>>

Protect(p) ==
    /\ MayStart
    /\ protection # p
    /\ SetProtection(p)
    /\ UNCHANGED <<active, thread, nodeVars, msgs>>

------------------------------------------------------------------------------
(* retire_checkpoint *)

\* Mutant: the protection is not looked at.
RetireStartAny ==
    /\ thread["retire"].pc = "idle"
    /\ MayStart
    /\ thread' = [thread EXCEPT !["retire"] =
                     [@ EXCEPT !.pc = "check", !.snap = locations]]
    /\ UNCHANGED <<rowVars, active, nodeVars, msgs>>

\* The row is read; a protected one is refused.
RetireStart ==
    /\ thread["retire"].pc = "idle"
    /\ MayStart
    /\ protection = "none"
    /\ thread' = [thread EXCEPT !["retire"] =
                     [@ EXCEPT !.pc = "check", !.snap = locations]]
    /\ UNCHANGED <<rowVars, active, nodeVars, msgs>>

\* A restore reservation refuses it, too.
RetireCheck ==
    /\ thread["retire"].pc = "check"
    /\ IF reserved THEN Return("retire") ELSE Goto("retire", "delete")
    /\ UNCHANGED <<rowVars, active, nodeVars, msgs>>

\* Mutant: a node that does not answer is passed over.
RetireDeleteReachable ==
    LET th == thread["retire"]
    IN  /\ th.pc = "delete"
        /\ th.snap # <<>>
        /\ IF Running(Head(th.snap))
           THEN Call("retire", [th EXCEPT !.snap = Tail(@)], "delete", Head(th.snap),
                     Head(th.snap))
           ELSE /\ thread' = [thread EXCEPT !["retire"].snap = Tail(@)]
                /\ UNCHANGED msgs
        /\ UNCHANGED <<rowVars, active, nodeVars>>

\* The nodes of the locations read are asked to delete their copy, one by one; the
\* first failure ends the retirement.
RetireDelete ==
    LET th == thread["retire"]
    IN  /\ th.pc = "delete"
        /\ th.snap # <<>>
        /\ Call("retire", [th EXCEPT !.snap = Tail(@)], "delete", Head(th.snap),
                Head(th.snap))
        /\ UNCHANGED <<rowVars, active, nodeVars>>

\* checkpoint_retire: refused for a pinned row and where the table does not allow it.
RetireMark ==
    /\ thread["retire"].pc = "delete"
    /\ thread["retire"].snap = <<>>
    /\ Return("retire")
    /\ IF protection # "pinned" /\ CanTransition(lifecycle, "RETIRED")
       THEN lifecycle' = "RETIRED" /\ locations' = <<>>
       ELSE UNCHANGED <<lifecycle, locations>>
    /\ UNCHANGED <<integrity, protection, reserved, active, nodeVars, msgs>>

------------------------------------------------------------------------------
(* A restore, as far as it reads or writes what is modelled here *)

\* validate_restore_request
RestoreStart(n) ==
    /\ thread["restore"].pc = "idle"
    /\ MayStart
    /\ n \in active
    /\ IsRestorable(lifecycle) /\ integrity # "corrupt"
    /\ locations # <<>> /\ Len(locations) >= MinReplicas
    /\ thread' = [thread EXCEPT !["restore"] =
                     [@ EXCEPT !.pc = "reserve", !.target = n, !.snap = locations]]
    /\ UNCHANGED <<rowVars, active, nodeVars, msgs>>

RestoreReserve ==
    /\ thread["restore"].pc = "reserve"
    /\ reserved' = TRUE
    /\ Goto("restore", "pending")
    /\ UNCHANGED <<lifecycle, integrity, protection, locations, active, nodeVars, msgs>>

\* RESTORE_PENDING, and the target is asked whether it has a copy.
RestorePending ==
    LET th == thread["restore"]
    IN  /\ th.pc = "pending"
        /\ IF CanTransition(lifecycle, "RESTORE_PENDING")
           THEN /\ SetLifecycle("RESTORE_PENDING", "pending")
                /\ Call("restore", th, "probe", th.target, th.target)
           ELSE Goto("restore", "abort") /\ UNCHANGED <<rowVars, msgs>>
        /\ UNCHANGED <<active, nodeVars>>

\* ensure_replica: an ACTIVE node among the locations the request read is the source.
RestoreProvide ==
    LET th == thread["restore"]
    IN  /\ th.pc = "provide"
        /\ \/ \E n \in active :
                 FirstActive(th.snap, n) /\ Call("restore", th, "allow", n, th.target)
           \/ /\ \A i \in DOMAIN th.snap : th.snap[i] \notin active
              /\ Goto("restore", "abort")
              /\ UNCHANGED msgs
        /\ UNCHANGED <<rowVars, active, nodeVars>>

RestoreApply ==
    LET th == thread["restore"]
    IN  /\ th.pc = "apply"
        /\ SetLifecycle("RESTORING", "pending")
        /\ Call("restore", th, "restore", th.target, th.target)
        /\ UNCHANGED <<active, nodeVars>>

RestoreCommit ==
    /\ thread["restore"].pc = "commit"
    /\ SetLifecycle("RESTORED", "valid")
    /\ Goto("restore", "release")
    /\ UNCHANGED <<active, nodeVars, msgs>>

RestoreAbort ==
    LET th == thread["restore"]
    IN  /\ th.pc = "abort"
        /\ Call("restore", th, "unstage", th.target, th.target)
        /\ UNCHANGED <<rowVars, active, nodeVars>>

\* The checkpoint is put back, as valid whatever a verification said.
RestorePutBack ==
    /\ thread["restore"].pc = "put_back"
    /\ IF lifecycle \in {"RESTORE_PENDING", "RESTORING"}
       THEN SetLifecycle("AVAILABLE", "valid") ELSE UNCHANGED rowVars
    /\ Goto("restore", "release")
    /\ UNCHANGED <<active, nodeVars, msgs>>

RestoreRelease ==
    /\ thread["restore"].pc = "release"
    /\ reserved' = FALSE
    /\ Return("restore")
    /\ UNCHANGED <<lifecycle, integrity, protection, locations, active, nodeVars, msgs>>

------------------------------------------------------------------------------
(* The nodes *)

Receive(m, op) == m.op = op /\ msgs' = msgs \ {m}

AllowFetch(m) ==
    /\ Receive(m, "allow")
    /\ tokens' = tokens \cup {<<m.node, m.by>>}
    /\ Answer(m, "ok")
    /\ UNCHANGED <<rowVars, active, boot, disk, copying, beats>>

\* The peer runs and knows the token of m's replication.
PeerServes(m) == Running(m.peer) /\ <<m.peer, m.by>> \in tokens

\* A token is drawn for one replication: once that has ended nobody names it again.
SpendToken(m) == tokens' = tokens \ {<<m.peer, m.by>>}

\* do_replicate up to the first component: the peer's manifest must match the anchor. A
\* bad one is refused, or is an error when the peer cannot parse it.
FetchBegin(m) ==
    /\ Receive(m, "fetch")
    /\ \/ /\ PeerServes(m) /\ disk[m.peer[1]] = "good"
          /\ copying' = copying \cup {m}
          /\ UNCHANGED <<thread, tokens>>
       \/ /\ PeerServes(m) /\ disk[m.peer[1]] = "bad"
          /\ Answer(m, "refused")
          /\ SpendToken(m)
          /\ UNCHANGED copying
       \/ /\ ~PeerServes(m) \/ disk[m.peer[1]] # "good"
          /\ Answer(m, "error")
          /\ SpendToken(m)
          /\ UNCHANGED copying
    /\ UNCHANGED <<rowVars, active, boot, disk, beats>>

\* Mutant: the components fetched are not compared with their hashes.
FetchedOkUnchecked(m) == disk[m.peer[1]] # "absent"

\* Every component arrived whole and has the hash the manifest gives.
FetchedOk(m) == disk[m.peer[1]] = "good"

\* The rest of do_replicate: the components are fetched and checked, and the staging
\* directory becomes the committed one unless there is one.
FetchEnd(m) ==
    /\ copying' = copying \ {m}
    /\ SpendToken(m)
    /\ IF PeerServes(m) /\ FetchedOk(m) /\ CanPromote(m.node[1])
       THEN disk' = [disk EXCEPT ![m.node[1]] = disk[m.peer[1]]] /\ Answer(m, "ok")
       ELSE /\ Answer(m, IF PeerServes(m) THEN "refused" ELSE "error")
            /\ UNCHANGED disk
    /\ UNCHANGED <<rowVars, active, boot, beats, msgs>>

Probe(m) ==
    /\ Receive(m, "probe")
    /\ Answer(m, IF HasCommitted(m.node[1]) THEN "ok" ELSE "no")
    /\ UNCHANGED <<rowVars, active, nodeVars>>

\* do_verify and do_restore: the local copy is compared with the anchor and its hashes.
\* A manifest that cannot be parsed is an error.
CheckCopy(m) ==
    /\ Receive(m, "verify") \/ Receive(m, "restore")
    /\ \/ disk[m.node[1]] = "good" /\ Answer(m, "ok")
       \/ disk[m.node[1]] # "good" /\ Answer(m, "refused")
       \/ disk[m.node[1]] = "bad" /\ Answer(m, "error")
    /\ UNCHANGED <<rowVars, active, nodeVars>>

\* do_cleanup with a checkpoint id.
Delete(m) ==
    /\ Receive(m, "delete")
    /\ \E left \in DeleteCommitted(m.node[1]) :
          /\ disk' = [disk EXCEPT ![m.node[1]] = left]
          /\ Answer(m, IF left = "absent" THEN "ok" ELSE "refused")
    /\ UNCHANGED <<rowVars, active, boot, copying, tokens, beats>>

\* do_cleanup of a restore attempt's staging directory: a copy still being made in it
\* cannot be promoted, and nobody waits for its error any more.
Unstage(m) ==
    /\ Receive(m, "unstage")
    /\ copying' = {c \in copying : <<c.node, c.by>> # <<m.node, m.by>>}
    /\ Answer(m, "ok")
    /\ UNCHANGED <<rowVars, active, boot, disk, tokens, beats>>

\* heartbeat_tick: the committed directories are listed, then sent.
BeatSend(h) ==
    /\ HasCommitted(h)
    /\ <<h, boot[h]>> \notin beats
    /\ Cardinality(beats) < MaxBeats
    /\ beats' = beats \cup {<<h, boot[h]>>}
    /\ UNCHANGED <<rowVars, active, thread, boot, disk, copying, tokens, msgs>>

\* NodeHeartbeat: the inventory of an ACTIVE node rebinds the location, whatever has
\* become of the row.
BeatApply(n) ==
    /\ n \in beats
    /\ beats' = beats \ {n}
    /\ IF ValidIdentity(n) THEN Rebind(n) ELSE UNCHANGED locations
    /\ UNCHANGED <<lifecycle, integrity, protection, reserved, active, thread, boot, disk,
                   copying, tokens, msgs>>

------------------------------------------------------------------------------
(* Faults *)

\* The node process ends and is started again: a fresh id, staging emptied, tokens and
\* calls gone; its registration lists the committed directory.
NodeRestart(h) ==
    LET n == <<h, boot[h] + 1>>
    IN  /\ "node" \in Faults
        /\ boot[h] < MaxBoot
        /\ Cardinality({k \in Hosts \X (1 .. MaxBoot) : k[2] <= boot[k[1]]}) < MaxStarts
        /\ boot' = [boot EXCEPT ![h] = @ + 1]
        /\ active' = active \cup {n}
        /\ IF HasCommitted(h) THEN Rebind(n) ELSE UNCHANGED locations
        /\ copying' = {m \in copying : m.node[1] # h}
        /\ tokens' = {k \in tokens : k[1][1] # h}
        /\ msgs' = {m \in msgs : m.node[1] # h}
        /\ UNCHANGED <<lifecycle, integrity, protection, reserved, thread, disk, beats>>

MarkStale(n) ==
    /\ "node" \in Faults
    /\ n \in active
    /\ active' = active \ {n}
    /\ UNCHANGED <<rowVars, thread, nodeVars, msgs>>

\* A file of the copy is damaged.
Damage(h) ==
    /\ "disk" \in Faults
    /\ disk[h] = "good"
    /\ disk' = [disk EXCEPT ![h] = "bad"]
    /\ UNCHANGED <<rowVars, active, thread, boot, copying, tokens, beats, msgs>>

------------------------------------------------------------------------------
(* Specification *)

Request ==
    \/ ReplicateStart \/ VerifyStart \/ RetireStart
    \/ \E p \in Protections : Protect(p)
    \/ \E n \in active : RestoreStart(n)

ThreadStep ==
    \/ ReplicateNext \/ ReplicateReread \/ VerifyRecord
    \/ RetireCheck \/ RetireDelete \/ RetireMark
    \/ RestoreReserve \/ RestorePending \/ RestoreProvide \/ RestoreApply
    \/ RestoreCommit \/ RestoreAbort \/ RestorePutBack \/ RestoreRelease
    \/ \E t \in Threads : SendFetch(t) \/ RecordCopy(t) \/ GiveUp(t)

NodeStep ==
    \/ \E m \in msgs : \/ AllowFetch(m) \/ FetchBegin(m) \/ Probe(m) \/ CheckCopy(m)
                       \/ Delete(m) \/ Unstage(m)
    \/ \E m \in copying : FetchEnd(m)

Next ==
    \/ Request \/ ThreadStep \/ NodeStep
    \/ \E h \in Hosts : BeatSend(h) \/ NodeRestart(h) \/ Damage(h)
    \/ \E n \in beats : BeatApply(n)
    \/ \E n \in active : MarkStale(n)

Spec == Init /\ [][Next]_vars

\* Threads run, calls end with an answer or a timeout, and heartbeats are handled. The
\* heartbeat loop of each node goes on whatever the other nodes do, so its turn also
\* comes when MaxBeats keeps it back from time to time.
Fairness ==
    /\ WF_vars(ThreadStep)
    /\ WF_vars(NodeStep)
    /\ WF_vars(\E n \in beats : BeatApply(n))
    /\ \A h \in Hosts : SF_vars(BeatSend(h))

FairSpec == Spec /\ Fairness

------------------------------------------------------------------------------
(* Properties *)

\* Every variable has its type.
TypeOK ==
    /\ lifecycle \in LifecycleStates
    /\ integrity \in {"valid", "pending", "corrupt"}
    /\ protection \in ProtectionStates
    /\ locations \in Seq(NodeIds)
    /\ reserved \in BOOLEAN
    /\ active \subseteq NodeIds
    /\ thread \in [Threads -> ThreadStates]
    /\ boot \in [Hosts -> Nat]
    /\ disk \in [Hosts -> DiskStates]
    /\ copying \subseteq Messages
    /\ tokens \subseteq NodeIds \X Threads
    /\ beats \subseteq NodeIds
    /\ msgs \subseteq Messages

\* A damaged copy is not spread: what a node promotes out of a replication matches the
\* anchor, also when the source was damaged after its manifest was checked.
DamageStays ==
    [][\A h \in Hosts : disk[h] = "absent" => disk'[h] \in {"absent", "good"}]_vars

\* "Physical replica deletion must succeed before metadata locations are cleared": when
\* a row becomes RETIRED, no directory its locations name is left.
ClearedIsDeleted ==
    [][lifecycle' = "RETIRED" /\ lifecycle # "RETIRED" =>
         \A i \in DOMAIN locations : disk[locations[i][1]] = "absent"]_vars

\* The copies of a protected or pinned checkpoint are not deleted, not even in part.
ProtectedIsKept ==
    [][protection # "none" =>
         \A h \in Hosts : HasCommitted(h) => HasCommitted(h)']_vars

Listed(h) == {i \in DOMAIN locations : locations[i][1] = h}

\* One directory counted as two replicas (recorded by the thread that asked for it, and
\* by the restarted node that found it) is counted once again, unless the copy goes or
\* the node goes stale.
CountHeals ==
    \A h \in Hosts :
        Cardinality(Listed(h)) > 1 ~>
            \/ Cardinality(Listed(h)) <= 1
            \/ ~HasCommitted(h)
            \/ <<h, boot[h]>> \notin active

\* Every request comes to an end.
OperationsEnd == \A t \in Threads : ~Quiet(t) ~> Quiet(t)
==============================================================================
