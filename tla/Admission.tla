------------------------------ MODULE Admission ------------------------------
(***************************************************************************)
(* What the coordinator admits and what it then claims: the derivation of a *)
(* checkpoint's resumability at capture (capture.rs), the judgement of a    *)
(* target at a restore, rollback or migration (policy.rs, restore.rs,       *)
(* compatibility.rs, migration.rs), the class the restore reports, and the  *)
(* creation and forking of workloads (coordinator.rs).                      *)
(*                                                                          *)
(* The judgement reads a row that the target's registration, heartbeats and *)
(* attachments write; the target applies the restore later, with the        *)
(* providers it hosts by then. Nodes therefore have their registries here,  *)
(* and every one of these steps is an action of its own.                    *)
(*                                                                          *)
(* Simplifications: a capture and a commit of a restore are one step each   *)
(* (modules Capture and Restore have their protocols); workloads are        *)
(* single-active; one restore or migration is served at a time; checkpoints *)
(* have a replica for the policy and no recorded corruption (Replicas);     *)
(* captures are not spaced by an interval, and frontiers name the current   *)
(* generation. No checkpoint the coordinator builds has dependencies, so a  *)
(* request with a required context reference is refused and not listed. The *)
(* format version compared by evaluate is the checkpoint's on both sides,   *)
(* and every component names a restore handler (evaluate passes over one    *)
(* that does not).                                                          *)
(***************************************************************************)
EXTENDS Naturals, FiniteSets, Lifecycle

CONSTANTS
    Workloads,     \* workload ids
    Checkpoints,   \* checkpoint ids
    Nodes,         \* nodes
    Components,    \* component ids
    Required,      \* those whose provider describes them as required
    Handler,       \* the restore handler of each component
    Offers,        \* the component sets an attach call may offer
    Policies,      \* the policies a coordinator may be started with
    Mismatches,    \* the ways a node's runtime may differ from the workload's
    CaptureRequests, \* the options a client may ask a capture with
    None,          \* no node, no workload, no frontier
    MaxEvents      \* bound: creations, forks, captures, attachments, detachments, deaths

Dimensions == {"os", "arch", "backend", "schema", "class", "accelerator"}
Statuses == {"UNCOMMITTED", "COMMITTED", "REPLAYABLE", "NON_REPLAYABLE", "UNKNOWN"}
Operations == {"capture", "restore", "migrate", "fork", "rollback"}
Roles == {"owner", "operator", "auditor"}
Actors == {"owner", "operator"}      \* the roles of those who ask
Consistencies == {"CRASH", "APPLICATION", "EXECUTION"}
Quiescences == {"NONE", "COOPERATIVE", "FORCED"}
FrontierFlags == [exact : BOOLEAN, equivalent : BOOLEAN, verified : BOOLEAN,
                  unresolved : BOOLEAN]
CaptureOptions == [consistency : Consistencies, quiescence : Quiescences,
                   frontier : FrontierFlags \cup {None}, effects : SUBSET Statuses,
                   wanted : SUBSET Components, needed : SUBSET Components]
Handlers == {Handler[k] : k \in Components}

ClassRank == [NON_RESUMABLE |-> 0, RESTART_FROM_CHECKPOINT |-> 1, DEGRADED |-> 2,
              EQUIVALENT |-> 3, EXACT |-> 4]
Classes == DOMAIN ClassRank

\* The rows of the store; a missing one is None.
WorkloadRows == [parent : Workloads \cup {None}, forkGen : Nat, node : Nodes \cup {None}]
CheckpointRows ==
    [workload : Workloads, source : Nodes, comps : SUBSET Components, ack : BOOLEAN,
     quiescence : Quiescences, frontier : FrontierFlags \cup {None}, effects : SUBSET Statuses,
     hosts : SUBSET Components, class : Classes]

ASSUME AdmissionBoundAssumption == MaxEvents \in Nat
ASSUME AdmissionNoneAssumption ==
    None \notin Workloads \cup Checkpoints \cup Nodes \cup FrontierFlags \cup Consistencies
                    \cup WorkloadRows \cup CheckpointRows
ASSUME AdmissionInputsAssumption ==
    /\ Required \subseteq Components
    /\ Offers \subseteq SUBSET Components
    /\ Mismatches \subseteq SUBSET Dimensions
    /\ CaptureRequests \subseteq CaptureOptions
    /\ \A q \in CaptureRequests : q.needed \subseteq q.wanted
    /\ Policies \subseteq [crossOs : BOOLEAN, crossArch : BOOLEAN, schemaStrict : BOOLEAN,
                           forbidDegraded : BOOLEAN, required : Consistencies \cup {None},
                           roles : [Operations -> SUBSET Roles]]

VARIABLES
    \* the metadata store
    policy,      \* the coordinator's policy
    workload,    \* each workload's row, or None
    lineage,     \* FORKED_FROM records
    ckpt,        \* each checkpoint's row, or None
    lifecycle,   \* lifecycle of each checkpoint
    active,      \* nodes the store lists as ACTIVE
    mismatch,    \* how the runtime a node registered differs
    advert,      \* the restore handlers in a node's row
    req,         \* the restore or migration being served, and what it reports
    \* the nodes
    alive,       \* running nodes
    hosted,      \* the providers each node has: <<workload, component>>
    attaching,   \* an attach call on its way
    events       \* events so far

storeVars == <<policy, workload, lineage, ckpt, lifecycle>>
rowVars   == <<active, mismatch, advert>>
nodeVars  == <<alive, hosted, attaching>>
vars == <<storeVars, rowVars, req, nodeVars, events>>

NoAttach == [workload |-> None, offers |-> {}]
NoTarget == [mismatch |-> {}, advert |-> {}]
Idle == [pc |-> "idle", ckpt |-> None, node |-> None, actor |-> "owner",
         resume |-> FALSE, migration |-> FALSE, verdict |-> "COMPATIBLE",
         target |-> NoTarget, applied |-> {}, resumed |-> FALSE,
         class |-> "NON_RESUMABLE"]

Init ==
    /\ policy \in Policies
    /\ workload = [w \in Workloads |-> None]
    /\ lineage = {}
    /\ ckpt = [c \in Checkpoints |-> None]
    /\ lifecycle = [c \in Checkpoints |-> "CREATED"]
    /\ active = Nodes
    /\ mismatch \in [Nodes -> Mismatches]
    /\ advert = [n \in Nodes |-> {}]
    /\ req = Idle
    /\ alive = Nodes
    /\ hosted = [n \in Nodes |-> {}]
    /\ attaching = [n \in Nodes |-> NoAttach]
    /\ events = 0

CountEvent == events < MaxEvents /\ events' = events + 1

------------------------------------------------------------------------------
(* Policy *)

\* PolicySet::authorize: an empty list admits everyone, an operator passes every list.
Authorized(actor, op) ==
    actor \in (IF policy.roles[op] = {} THEN Actors ELSE policy.roles[op] \cup {"operator"})

ConsistencyRank == [CRASH |-> 0, APPLICATION |-> 1, EXECUTION |-> 2]

\* enforce_consistency
MeetsPolicy(achieved) ==
    policy.required # None => ConsistencyRank[achieved] >= ConsistencyRank[policy.required]

------------------------------------------------------------------------------
(* What a capture may claim *)

\* Mutant: an acknowledgement is enough, whatever the quiescence was.
DeriveConsistencyAnyMode(requested, quiescence, frontier, ack) ==
    CASE requested = "EXECUTION" /\ frontier # None -> "EXECUTION"
      [] requested = "APPLICATION" /\ ack           -> "APPLICATION"
      [] OTHER                                      -> "CRASH"

\* derive_consistency
DeriveConsistency(requested, quiescence, frontier, ack) ==
    CASE /\ requested = "EXECUTION"
         /\ quiescence = "COOPERATIVE" /\ ack /\ frontier # None -> "EXECUTION"
      [] /\ requested = "APPLICATION"
         /\ quiescence = "COOPERATIVE" /\ ack                    -> "APPLICATION"
      [] OTHER                                                   -> "CRASH"

AtLeast(class, floor) == ClassRank[class] >= ClassRank[floor]

\* validate_for_exact: no effect is UNKNOWN or NON_REPLAYABLE.
ExactEffects(effects) == effects \cap {"UNKNOWN", "NON_REPLAYABLE"} = {}

\* derive_resumability
DeriveResumability(consistency, frontier, effects) ==
    IF consistency # "EXECUTION" \/ frontier = None THEN "RESTART_FROM_CHECKPOINT"
    ELSE IF ~ExactEffects(effects) \/ frontier.unresolved THEN "DEGRADED"
    ELSE IF frontier.verified /\ frontier.exact THEN "EXACT"
    ELSE IF frontier.equivalent THEN "EQUIVALENT"
    ELSE "DEGRADED"

------------------------------------------------------------------------------
(* What a restore may claim *)

VerdictRank == [COMPATIBLE |-> 0, TRANSLATION |-> 1, DEGRADED |-> 2, INCOMPATIBLE |-> 3]

\* The verdict of evaluate on a dimension in which the target differs.
DimensionVerdict(d) ==
    CASE d = "os"     -> (IF policy.crossOs THEN "TRANSLATION" ELSE "INCOMPATIBLE")
      [] d = "arch"   -> (IF policy.crossArch THEN "TRANSLATION" ELSE "INCOMPATIBLE")
      [] d = "schema" -> (IF policy.schemaStrict THEN "INCOMPATIBLE" ELSE "DEGRADED")
      [] d = "accelerator" -> "INCOMPATIBLE"
      [] OTHER        -> "DEGRADED"

\* The verdict of evaluate on a component whose handler the target does not list.
HandlerVerdict(k) == IF k \in Required THEN "INCOMPATIBLE" ELSE "DEGRADED"

Unlisted(comps, target) == {k \in comps : Handler[k] \notin target.advert}

\* Mutant: components are looked at only when they are required.
EvaluateRequired(comps, target) ==
    LET raised == {"COMPATIBLE"} \cup {DimensionVerdict(d) : d \in target.mismatch}
                      \cup {HandlerVerdict(k) : k \in Unlisted(comps \cap Required, target)}
    IN  CHOOSE v \in raised : \A u \in raised : VerdictRank[u] <= VerdictRank[v]

\* evaluate: the worst verdict on any point.
Evaluate(comps, target) ==
    LET raised == {"COMPATIBLE"} \cup {DimensionVerdict(d) : d \in target.mismatch}
                      \cup {HandlerVerdict(k) : k \in Unlisted(comps, target)}
    IN  CHOOSE v \in raised : \A u \in raised : VerdictRank[u] <= VerdictRank[v]

\* restored_resumability
RestoredResumability(captured, verdict, resumed) ==
    LET base == CASE verdict = "TRANSLATION" /\ captured = "EXACT" -> "EQUIVALENT"
                  [] verdict = "DEGRADED" /\ captured \in {"EXACT", "EQUIVALENT"} -> "DEGRADED"
                  [] verdict = "INCOMPATIBLE" -> "NON_RESUMABLE"
                  [] OTHER -> captured
    IN  IF ~resumed /\ ClassRank[base] > ClassRank["RESTART_FROM_CHECKPOINT"]
        THEN "RESTART_FROM_CHECKPOINT" ELSE base

------------------------------------------------------------------------------
(* Workloads *)

\* create_workload. The id is looked up first, but it is workload_insert that refuses one
\* that is taken; the claimed node was active when it was looked up and need not be now.
CreateWorkload ==
    /\ CountEvent
    /\ \E w \in Workloads, n \in Nodes \cup {None} :
        /\ workload[w] = None
        /\ workload' = [workload EXCEPT ![w] = [parent |-> None, forkGen |-> 0, node |-> n]]
    /\ UNCHANGED <<policy, lineage, ckpt, lifecycle, rowVars, req, nodeVars>>

\* Mutant: the record is written whether or not the id was free.
ForkBlind ==
    /\ CountEvent
    /\ \E c \in Checkpoints, w \in Workloads, actor \in Actors :
        /\ Authorized(actor, "fork")
        /\ ckpt[c] # None
        /\ LET parent == ckpt[c].workload
           IN  /\ workload' = IF workload[w] # None THEN workload
                              ELSE [workload EXCEPT ![w] =
                                        [parent |-> parent, node |-> None,
                                         forkGen |-> workload[parent].forkGen + 1]]
               /\ lineage' = lineage \cup {[child |-> w, parent |-> parent, ckpt |-> c]}
    /\ UNCHANGED <<policy, ckpt, lifecycle, rowVars, req, nodeVars>>

\* fork, of a checkpoint in any state. workload_insert_fork writes the child's row and
\* its FORKED_FROM record, or neither when the id is taken.
Fork ==
    /\ CountEvent
    /\ \E c \in Checkpoints, w \in Workloads, actor \in Actors :
        /\ Authorized(actor, "fork")
        /\ ckpt[c] # None
        /\ workload[w] = None
        /\ LET parent == ckpt[c].workload
           IN  /\ workload' = [workload EXCEPT ![w] =
                                  [parent |-> parent, node |-> None,
                                   forkGen |-> workload[parent].forkGen + 1]]
               /\ lineage' = lineage \cup {[child |-> w, parent |-> parent, ckpt |-> c]}
    /\ UNCHANGED <<policy, ckpt, lifecycle, rowVars, req, nodeVars>>

------------------------------------------------------------------------------
(* The nodes, and what the store knows of them *)

Hosts(n, w) == {k \in Components : <<w, k>> \in hosted[n]}

\* attach_workload of the node: the providers are registered before the claim is sent.
AttachHost(n) ==
    /\ CountEvent
    /\ n \in alive \cap active
    /\ attaching[n] = NoAttach
    /\ \E w \in Workloads, offers \in Offers :
        /\ workload[w] # None
        /\ hosted' = [hosted EXCEPT ![n] = @ \cup ({w} \X offers)]
        /\ attaching' = [attaching EXCEPT ![n] = [workload |-> w, offers |-> offers]]
    /\ UNCHANGED <<storeVars, rowVars, req, alive>>

\* WorkloadAttach: the claim, then merge_node_provider_versions adds the handlers to
\* the node's row. A refusal removes every provider of the workload from the node.
AttachClaim(n) ==
    /\ attaching[n] # NoAttach
    /\ LET w == attaching[n].workload
       IN  IF workload[w].node \in {None, n}
           THEN /\ workload' = [workload EXCEPT ![w].node = n]
                /\ advert' = [advert EXCEPT ![n] =
                                  @ \cup {Handler[k] : k \in attaching[n].offers}]
                /\ UNCHANGED hosted
           ELSE /\ hosted' = [hosted EXCEPT ![n] = @ \ ({w} \X Components)]
                /\ UNCHANGED <<workload, advert>>
    /\ attaching' = [attaching EXCEPT ![n] = NoAttach]
    /\ UNCHANGED <<policy, lineage, ckpt, lifecycle, active, mismatch, req, alive, events>>

\* detach_workload of the node: the row still lists the handlers.
DetachHost(n) ==
    /\ n \in alive
    /\ attaching[n] = NoAttach
    /\ CountEvent
    /\ \E w \in Workloads :
        /\ Hosts(n, w) # {}
        /\ hosted' = [hosted EXCEPT ![n] = @ \ ({w} \X Components)]
    /\ UNCHANGED <<storeVars, rowVars, req, alive, attaching>>

\* WorkloadDetach: the claim is released.
ReleaseClaim(w) ==
    /\ workload[w] # None
    /\ workload[w].node # None
    /\ workload' = [workload EXCEPT ![w].node = None]
    /\ UNCHANGED <<policy, lineage, ckpt, lifecycle, rowVars, req, nodeVars, events>>

\* NodeHeartbeat: the row lists what the node hosts, whatever was merged before. The
\* node's connection is free.
Heartbeat(n) ==
    /\ n \in alive \cap active
    /\ attaching[n] = NoAttach
    /\ advert[n] # {Handler[h[2]] : h \in hosted[n]}
    /\ advert' = [advert EXCEPT ![n] = {Handler[h[2]] : h \in hosted[n]}]
    /\ UNCHANGED <<storeVars, active, mismatch, req, nodeVars, events>>

\* A node dies. Its row stays ACTIVE until the sweep, which takes the claims away.
NodeDies(n) ==
    /\ n \in alive
    /\ CountEvent
    /\ alive' = alive \ {n}
    /\ hosted' = [hosted EXCEPT ![n] = {}]
    /\ attaching' = [attaching EXCEPT ![n] = NoAttach]
    /\ UNCHANGED <<storeVars, rowVars, req>>

Sweep(n) ==
    /\ n \in active \ alive
    /\ active' = active \ {n}
    /\ workload' = [w \in Workloads |->
                      IF workload[w] # None /\ workload[w].node = n
                      THEN [workload[w] EXCEPT !.node = None] ELSE workload[w]]
    /\ UNCHANGED <<policy, lineage, ckpt, lifecycle, mismatch, advert, req, nodeVars, events>>

\* NodeRegister: the row is written anew, with a runtime that may have changed.
NodeRegister(n) ==
    /\ n \notin active
    /\ active' = active \cup {n}
    /\ alive' = alive \cup {n}
    /\ advert' = [advert EXCEPT ![n] = {}]
    /\ \E m \in Mismatches : mismatch' = [mismatch EXCEPT ![n] = m]
    /\ UNCHANGED <<storeVars, req, hosted, attaching, events>>

------------------------------------------------------------------------------
(* Captures *)

\* pick_capture_node: the node of the claim, or any active node when it is not active.
CaptureNodes(w) == IF workload[w].node \in active THEN {workload[w].node} ELSE active

\* validate_capture_request, workload_captureable, do_capture on the node, and the
\* claims execute_capture derives. Only the components asked for are captured; one that
\* is not hosted is refused when the request needs it and left out otherwise. Whether
\* an entry is required is what its provider says. A request that is refused leaves no
\* checkpoint to restore.
CaptureOn(c, w, q) ==
    /\ ckpt[c] = None
    /\ workload[w] # None
    /\ workload[w].node # None
    /\ \E n \in CaptureNodes(w) \cap alive :
        LET got == q.wanted \cap Hosts(n, w)
        IN  /\ q.needed \subseteq got
            /\ \E acks \in SUBSET got :
                LET ack == q.quiescence = "COOPERATIVE" /\ got # {} /\ acks = got
                    achieved == DeriveConsistency(q.consistency, q.quiescence, q.frontier, ack)
                IN  /\ q.quiescence # "COOPERATIVE" => acks = {}
                    /\ MeetsPolicy(achieved)
                    /\ ckpt' = [ckpt EXCEPT ![c] =
                          [workload |-> w, source |-> n, comps |-> got, ack |-> ack,
                           quiescence |-> q.quiescence, frontier |-> q.frontier,
                           effects |-> q.effects, hosts |-> Hosts(n, w),
                           class |-> DeriveResumability(achieved, q.frontier, q.effects)]]
    /\ lifecycle' = [lifecycle EXCEPT ![c] = "AVAILABLE"]

RequestCapture ==
    /\ CountEvent
    /\ \E actor \in Actors : Authorized(actor, "capture")
    /\ \E c \in Checkpoints, w \in Workloads, q \in CaptureRequests : CaptureOn(c, w, q)
    /\ UNCHANGED <<policy, workload, lineage, rowVars, req, nodeVars>>

Retire(c) ==
    /\ lifecycle[c] = "AVAILABLE"
    /\ lifecycle' = [lifecycle EXCEPT ![c] = "RETIRED"]
    /\ UNCHANGED <<policy, workload, lineage, ckpt, rowVars, req, nodeVars, events>>

------------------------------------------------------------------------------
(* Restore, rollback and migration *)

\* validate_target_claim
TargetClaim(w, n, migration) == ~migration => workload[w].node \in {None, n}

\* request_restore up to the attempt, and the first step of execute_restore. A RESTORED
\* row passes the validation and is refused by the transition table.
Admit(c, n, actor, resume, migration) ==
    LET target == [mismatch |-> mismatch[n], advert |-> advert[n]]
        verdict == Evaluate(ckpt[c].comps, target)
    IN  /\ Authorized(actor, "restore")
        /\ n \in active
        /\ ckpt[c] # None
        /\ IsRestorable(lifecycle[c])
        /\ TargetClaim(ckpt[c].workload, n, migration)
        /\ verdict # "INCOMPATIBLE"
        /\ ~(policy.forbidDegraded /\ verdict = "DEGRADED")
        /\ CanTransition(lifecycle[c], "RESTORE_PENDING")
        /\ lifecycle' = [lifecycle EXCEPT ![c] = "RESTORE_PENDING"]
        /\ req' = [Idle EXCEPT !.pc = "admitted", !.ckpt = c, !.node = n, !.resume = resume,
                               !.migration = migration, !.verdict = verdict,
                               !.target = target]

RequestRestore ==
    /\ req = Idle
    /\ \E c \in Checkpoints, n \in Nodes, actor \in Actors, resume, migration \in BOOLEAN :
        /\ migration => Authorized(actor, "migrate")
        /\ Admit(c, n, actor, resume, migration)
    /\ UNCHANGED <<policy, workload, lineage, ckpt, rowVars, nodeVars, events>>

\* request_rollback: a restore that resumes, for an actor both lists admit.
RequestRollback ==
    /\ req = Idle
    /\ \E c \in Checkpoints, n \in Nodes, actor \in Actors :
        /\ Authorized(actor, "rollback")
        /\ Admit(c, n, actor, TRUE, FALSE)
    /\ UNCHANGED <<policy, workload, lineage, ckpt, rowVars, nodeVars, events>>

\* Mutant: the checkpoint is not looked up.
RequestMigrateUnread ==
    /\ req = Idle
    /\ \E c \in Checkpoints, n \in Nodes, actor \in Actors :
        /\ Authorized(actor, "migrate")
        /\ req' = [Idle EXCEPT !.pc = "migrate", !.ckpt = c, !.node = n, !.actor = actor]
    /\ UNCHANGED <<storeVars, rowVars, nodeVars, events>>

\* migrate: authorized, and begun for a checkpoint.
RequestMigrate ==
    /\ req = Idle
    /\ \E c \in Checkpoints, n \in Nodes, actor \in Actors :
        /\ Authorized(actor, "migrate")
        /\ ckpt[c] # None
        /\ ckpt[c].source # n
        /\ req' = [Idle EXCEPT !.pc = "migrate", !.ckpt = c, !.node = n, !.actor = actor]
    /\ UNCHANGED <<storeVars, rowVars, nodeVars, events>>

\* A checkpoint that can be restored is restored, and may take the claim.
MigrateRestores ==
    /\ req.pc = "migrate"
    /\ ckpt[req.ckpt].source # req.node
    /\ IsRestorable(lifecycle[req.ckpt])
    /\ Admit(req.ckpt, req.node, req.actor, TRUE, TRUE)
    /\ UNCHANGED <<policy, workload, lineage, ckpt, rowVars, nodeVars, events>>

\* The options of the capture that migrate asks for: CaptureOptions::default, which
\* names no component.
FreshCapture == [consistency |-> "CRASH", quiescence |-> "NONE", frontier |-> None,
                 effects |-> {}, wanted |-> {}, needed |-> {}]

\* For one that cannot be, the workload is captured anew, and migrate calls itself.
MigrateCaptures ==
    /\ req.pc = "migrate"
    /\ ckpt[req.ckpt].source # req.node
    /\ ~IsRestorable(lifecycle[req.ckpt])
    /\ ckpt[req.ckpt].source \in active
    /\ Authorized(req.actor, "capture")
    /\ \E fresh \in Checkpoints :
        /\ CaptureOn(fresh, ckpt[req.ckpt].workload, FreshCapture)
        /\ req' = [req EXCEPT !.ckpt = fresh]
    /\ UNCHANGED <<policy, workload, lineage, rowVars, nodeVars, events>>

\* A migration ends with an error: it is refused, or its capture fails.
MigrateFails ==
    /\ req.pc = "migrate"
    /\ req' = Idle
    /\ UNCHANGED <<storeVars, rowVars, nodeVars, events>>

\* abort_restore_attempt
AbortRestore ==
    /\ req.pc \in {"admitted", "applied"}
    /\ lifecycle' = [lifecycle EXCEPT ![req.ckpt] = "AVAILABLE"]
    /\ req' = Idle
    /\ UNCHANGED <<policy, workload, lineage, ckpt, rowVars, nodeVars, events>>

\* Mutant: a component without a provider is left out, required or not.
ApplyRestoreLeniently ==
    /\ req.pc = "admitted"
    /\ req.node \in alive
    /\ LET comps == ckpt[req.ckpt].comps
           here  == comps \cap Hosts(req.node, ckpt[req.ckpt].workload)
       IN  req' = [req EXCEPT !.pc = "applied", !.applied = here]
    /\ lifecycle' = [lifecycle EXCEPT ![req.ckpt] = "RESTORING"]
    /\ UNCHANGED <<policy, workload, lineage, ckpt, rowVars, nodeVars, events>>

\* do_restore on the node: each component goes to the provider hosted for it. A missing
\* provider is an error when the component is required, else the component is left out.
ApplyRestore ==
    /\ req.pc = "admitted"
    /\ req.node \in alive
    /\ LET comps == ckpt[req.ckpt].comps
           here  == comps \cap Hosts(req.node, ckpt[req.ckpt].workload)
       IN  /\ comps \cap Required \subseteq here
           /\ req' = [req EXCEPT !.pc = "applied", !.applied = here]
    /\ lifecycle' = [lifecycle EXCEPT ![req.ckpt] = "RESTORING"]
    /\ UNCHANGED <<policy, workload, lineage, ckpt, rowVars, nodeVars, events>>

\* restore_commit, the grant to the target, and the class that is reported. The claim
\* becomes the target's, whoever has it by now.
CommitRestore ==
    /\ req.pc = "applied"
    /\ CanTransition(lifecycle[req.ckpt], "RESTORED")
    /\ lifecycle' = [lifecycle EXCEPT ![req.ckpt] = "RESTORED"]
    /\ workload' = [workload EXCEPT ![ckpt[req.ckpt].workload].node = req.node]
    /\ \E resumed \in {FALSE, req.resume /\ req.node \in alive} :
        req' = [req EXCEPT !.pc = "committed", !.resumed = resumed,
                           !.class = RestoredResumability(ckpt[req.ckpt].class, req.verdict,
                                                          resumed)]
    /\ UNCHANGED <<policy, lineage, ckpt, rowVars, nodeVars, events>>

\* The outcome is returned to the caller.
Reply ==
    /\ req.pc = "committed"
    /\ req' = Idle
    /\ UNCHANGED <<storeVars, rowVars, nodeVars, events>>

Next ==
    \/ CreateWorkload \/ Fork
    \/ \E n \in Nodes : \/ AttachHost(n) \/ AttachClaim(n) \/ DetachHost(n) \/ Heartbeat(n)
                        \/ NodeDies(n) \/ Sweep(n) \/ NodeRegister(n)
    \/ \E w \in Workloads : ReleaseClaim(w)
    \/ \E c \in Checkpoints : Retire(c)
    \/ RequestCapture
    \/ RequestRestore \/ RequestRollback \/ RequestMigrate
    \/ MigrateRestores \/ MigrateCaptures \/ MigrateFails
    \/ ApplyRestore \/ AbortRestore \/ CommitRestore \/ Reply

Spec == Init /\ [][Next]_vars

------------------------------------------------------------------------------
(* Properties *)

Targets == [mismatch : SUBSET Dimensions, advert : SUBSET Handlers]
Requests ==
    [pc : {"idle", "migrate", "admitted", "applied", "committed"},
     ckpt : Checkpoints \cup {None}, node : Nodes \cup {None}, actor : Actors,
     resume : BOOLEAN, migration : BOOLEAN,
     verdict : DOMAIN VerdictRank, target : Targets, applied : SUBSET Components,
     resumed : BOOLEAN, class : Classes]
\* The types of the state, and a row for whatever a request, a checkpoint or a parent
\* link names.
TypeOK ==
    /\ policy \in Policies
    /\ workload \in [Workloads -> WorkloadRows \cup {None}]
    /\ lineage \subseteq [child : Workloads, parent : Workloads, ckpt : Checkpoints]
    /\ ckpt \in [Checkpoints -> CheckpointRows \cup {None}]
    /\ lifecycle \in [Checkpoints -> LifecycleStates]
    /\ active \subseteq Nodes /\ alive \subseteq Nodes
    /\ mismatch \in [Nodes -> SUBSET Dimensions]
    /\ advert \in [Nodes -> SUBSET Handlers]
    /\ hosted \in [Nodes -> SUBSET (Workloads \X Components)]
    /\ attaching \in [Nodes -> [workload : Workloads \cup {None}, offers : SUBSET Components]]
    /\ req \in Requests
    /\ events \in 0..MaxEvents
    /\ \A c \in Checkpoints :
        /\ (ckpt[c] = None) = (lifecycle[c] = "CREATED")
        /\ ckpt[c] # None => workload[ckpt[c].workload] # None
    /\ req.ckpt # None => ckpt[req.ckpt] # None
    /\ \A w \in Workloads : workload[w] # None /\ workload[w].parent # None
                                => workload[workload[w].parent] # None

\* derive_consistency and restored_resumability ("never overstates"): the class a
\* restore reports is backed by what the capture achieved and by what the target was
\* found to be. Above a restart, the workload was resumed, and had acknowledged a
\* cooperative quiescence at a frontier. Above DEGRADED, no effect or frontier is
\* unresolved, the target differs at most in os or architecture, and lists a handler for
\* every component. EXACT also takes a verified exact frontier and no difference at all.
ClaimFollowsEvidence ==
    req.pc = "committed" =>
        LET row == ckpt[req.ckpt]
            class == req.class
        IN  /\ AtLeast(row.class, class)
            /\ AtLeast(class, "DEGRADED") =>
                  /\ req.resumed
                  /\ row.ack /\ row.quiescence = "COOPERATIVE"
                  /\ row.frontier # None
            /\ AtLeast(class, "EQUIVALENT") =>
                  /\ ExactEffects(row.effects)
                  /\ ~row.frontier.unresolved
                  /\ req.target.mismatch \subseteq {"os", "arch"}
                  /\ Unlisted(row.comps, req.target) = {}
            /\ class = "EXACT" =>
                  /\ row.frontier.verified /\ row.frontier.exact
                  /\ req.target.mismatch = {}

\* do_restore: a restore that commits has put back every required component of its
\* checkpoint, although the target was judged by the handlers its row listed, for any
\* workload, and may have lost its providers since.
RequiredApplied ==
    req.pc = "committed" => ckpt[req.ckpt].comps \cap Required \subseteq req.applied

\* workload_insert_fork: in whatever order workloads are created and forked, a workload
\* with a parent has one FORKED_FROM record, of a checkpoint of that parent and one fork
\* generation below it; a workload without a parent has none.
ForkLinked ==
    \A w \in Workloads :
        LET records == {l \in lineage : l.child = w}
        IN  IF workload[w] = None \/ workload[w].parent = None THEN records = {}
            ELSE /\ Cardinality(records) = 1
                 /\ \A l \in records :
                      /\ l.parent = workload[w].parent
                      /\ ckpt[l.ckpt].workload = l.parent
                      /\ workload[w].forkGen = workload[l.parent].forkGen + 1

\* CONTRIBUTING: "Required state components are never silently omitted from a committed
\* checkpoint." A migration puts back on its target every required component that the
\* workload had on the node it was captured from.
MigrationMovesState ==
    req.pc = "committed" /\ req.migration
        => Required \cap ckpt[req.ckpt].hosts \subseteq req.applied
==============================================================================
