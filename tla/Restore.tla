------------------------------- MODULE Restore -------------------------------
(***************************************************************************)
(* The restores of one single-active workload and the authority to execute  *)
(* it: the coordinator thread that serves a restore, rollback or migration  *)
(* (coordinator.rs, request_restore to abort_restore_attempt), the claims,  *)
(* fences and sweeps that move the authority (attach_workload,              *)
(* fence_workload, sweep_stale), the node that applies a restore, installs  *)
(* a grant and reports it in heartbeats (node.rs), and the part of recovery *)
(* about restore attempts (recovery.rs, run_recovery).                      *)
(*                                                                          *)
(* A step is one call on the store or one request handled by a node. A      *)
(* restore r in Restores stands for its attempt id. A node in Nodes is one  *)
(* incarnation of a node process. Authority is a token, fresh at each grant,*)
(* and the workload's execution epoch.                                      *)
(*                                                                          *)
(* Simplifications: the validations of a request that do not read what is   *)
(* modelled here (policy, compatibility, context) are taken as passed; the  *)
(* probe and the fetch of a missing replica are one step that succeeds or   *)
(* fails; providers roll back and commit by attempt, as the filesystem      *)
(* provider does; set_lifecycle's read and write are one step, the restore  *)
(* reservation keeping other restores of the checkpoint away; requests      *)
(* leave target_fence_token unset, as every caller in the program does.     *)
(***************************************************************************)
EXTENDS Naturals, FiniteSets, Lifecycle

CONSTANTS
    Nodes,          \* node incarnations
    Restores,       \* the restore requests
    Checkpoints,    \* the workload's checkpoints, AVAILABLE at first
    None,           \* no node, no attempt
    Faults,         \* what may go wrong, a subset of FaultKinds
    MaxAttach,      \* bound: claims accepted
    MaxFence        \* bound: calls of fence_workload

\* "rpc"         calls are delayed past their timeout or lost
\* "failpoint"   an armed failpoint fires
\* "store"       a store call returns an error
\* "coordinator" the coordinator process dies and is started again, once
\* "node"        nodes die, or miss their heartbeats
\* "provider"    a provider cannot complete a restore
\* "detach"      a node detaches the workload: its grant and its providers are gone
\* "overlap"     recovery is run, or a reservation expires, while a restore
\*               thread is still working
FaultKinds ==
    {"rpc", "failpoint", "store", "coordinator", "node", "provider", "detach", "overlap"}

ASSUME RestoreFaultsAssumption == Faults \subseteq FaultKinds
ASSUME RestoreNoneAssumption == None \notin Nodes \cup Restores
ASSUME RestoreBoundsAssumption == MaxAttach \in Nat /\ MaxFence \in Nat

VARIABLES
    \* the metadata store
    generation,     \* the workload's generation
    epoch,          \* its execution_epoch
    activeNode,     \* its active_node, or None
    token,          \* its fence_token, 0 when NULL
    lifecycle,      \* lifecycle of each checkpoint
    attempt,        \* state of each restore's attempt record
    reserved,       \* restores with an ACTIVE reservation
    restored,       \* restores with journal state components_restored
    genCommitted,   \* ... generation_committed
    resumed,        \* ... resumed
    active,         \* nodes the store lists as ACTIVE
    \* the coordinator process
    grants,         \* tokens handed out so far
    attaches,       \* claims accepted so far
    fences,         \* fences so far
    pc,             \* where the thread serving r is
    plan,           \* r's checkpoint, target and migration option
    grant,          \* the token and execution epoch r sends to its target
    outcome,        \* whether the target resumed
    fencing,        \* fence_workload: the node and the epoch it read
    sweep,          \* sweep_stale: the node found stale, the epoch it read
    recPc,          \* where the recovery command is
    recTodo,        \* ACTIVE attempts still to be reconciled
    recCur,         \* the attempt at hand
    recActions,     \* recovery actions to apply: <<attempt, action>>
    era,            \* the coordinator's own epoch
    \* the nodes
    alive,          \* running nodes
    nodeEra,        \* coordinator epoch each node registered with, 0 before
    attached,       \* the grant a node holds, or NoGrant
    claim,          \* the grant of an attach on its way to the node, or NoGrant
    beat,           \* a node's heartbeat: the grant it reports, and its answer
    provider,       \* what r did to its target's provider state
    msgs            \* requests on their way to a node

workVars   == <<generation, epoch, activeNode, token>>
bookVars   == <<lifecycle, attempt, reserved, restored, genCommitted, resumed>>
threadVars == <<pc, plan, grant, outcome>>
recVars    == <<recPc, recTodo, recCur, recActions>>
countVars  == <<grants, attaches, fences>>
sideVars   == <<fencing, sweep>>
nodeVars   == <<alive, nodeEra, attached, claim, beat, provider>>
vars == <<workVars, bookVars, active, countVars, threadVars, recVars, sideVars, era,
          nodeVars, msgs>>

NoGrant == [token |-> 0, epoch |-> 0]
Grants == [token : Nat, epoch : Nat]
Silent == [stage |-> "none", grant |-> NoGrant]
Idle == [stage |-> "idle", node |-> None, epoch |-> 0]
NoPlan == [ckpt |-> None, node |-> None, migration |-> FALSE]
Plans == [ckpt : Checkpoints, node : Nodes, migration : BOOLEAN]

ExecLabels ==
    {"begin", "pending", "provision", "restoring", "wait_restore", "journal", "commit",
     "read", "send_resume", "wait_resume", "resumed", "finish", "release"}
AbortLabels ==
    {"abort", "abort_cleanup", "abort_read", "abort_put_back", "abort_fail",
     "abort_committed", "abort_release"}
Labels == {"idle", "reserve", "done", "dead"} \cup ExecLabels \cup AbortLabels
RecLabels ==
    {"idle", "reconcile", "get", "put_back", "finish_ok", "finish_fail",
     "release", "node", "wait"}

Messages ==
    [op : {"restore", "resume", "cleanup"}, att : Restores,
     by : {"thread", "recovery"}, era : Nat, grant : Grants]

Live(r) == pc[r] \notin {"idle", "done", "dead"}

Init ==
    /\ generation = 0
    /\ epoch = 0
    /\ activeNode = None
    /\ token = 0
    /\ lifecycle = [c \in Checkpoints |-> "AVAILABLE"]
    /\ attempt = [r \in Restores |-> "none"]
    /\ reserved = {}
    /\ restored = {}
    /\ genCommitted = {}
    /\ resumed = {}
    /\ active = {}
    /\ grants = 0
    /\ attaches = 0
    /\ fences = 0
    /\ pc = [r \in Restores |-> "idle"]
    /\ plan = [r \in Restores |-> NoPlan]
    /\ grant = [r \in Restores |-> NoGrant]
    /\ outcome = [r \in Restores |-> FALSE]
    /\ fencing = Idle
    /\ sweep = Idle
    /\ recPc = "idle"
    /\ recTodo = {}
    /\ recCur = None
    /\ recActions = {}
    /\ era = 1
    /\ alive = {}
    /\ nodeEra = [n \in Nodes |-> 0]
    /\ attached = [n \in Nodes |-> NoGrant]
    /\ claim = [n \in Nodes |-> NoGrant]
    /\ beat = [n \in Nodes |-> Silent]
    /\ provider = [r \in Restores |-> "untouched"]
    /\ msgs = {}

------------------------------------------------------------------------------
(* Transactions of the store *)

\* Mutant: every grant has the same token.
ReusedToken == 1

\* new_fence_token: a token no one has held before.
FreshToken == grants + 1

\* Mutant: the token stays.
RevokeNode == activeNode' = None /\ token' = token

\* The workload row after the authority is taken away.
Revoke == activeNode' = None /\ token' = 0

\* workload_bump_fence: refused when the epoch is not the one the caller read.
BumpFence(read) ==
    IF epoch = read THEN epoch' = epoch + 1 /\ Revoke
                    ELSE UNCHANGED <<epoch, activeNode, token>>

\* workload_release: only the node named as active is released.
WorkloadRelease(n) ==
    IF activeNode = n THEN Revoke ELSE UNCHANGED <<activeNode, token>>

\* The transaction of restore_commit: generation, epoch, authority, lifecycle and
\* journal record change together.
RestoreTx(r) ==
    /\ generation' = generation + 1
    /\ epoch' = epoch + (IF plan[r].migration THEN 2 ELSE 1)
    /\ activeNode' = plan[r].node
    /\ token' = FreshToken
    /\ grants' = grants + 1
    /\ lifecycle' = [lifecycle EXCEPT ![plan[r].ckpt] = "RESTORED"]
    /\ genCommitted' = genCommitted \cup {r}

\* validate_fence, and the comparison of epochs before it: does the store's workload
\* row confirm the grant g of node n?
Confirms(n, g) == activeNode = n /\ token # 0 /\ token = g.token /\ epoch = g.epoch

------------------------------------------------------------------------------
(* Calls to a node *)

Goto(r, label) == pc' = [pc EXCEPT ![r] = label]

Send(op, r, by, g) ==
    msgs' = msgs \cup {[op |-> op, att |-> r, by |-> by, era |-> era, grant |-> g]}

\* Where the caller of m waits.
WaitLabel(m) ==
    CASE m.op = "restore" -> "wait_restore"
      [] m.op = "resume"  -> "wait_resume"
      [] OTHER            -> "abort_cleanup"

\* Where a thread waiting at a label goes when its call succeeds, or does not: a
\* resume that fails is recorded and does not abort, a cleanup's result is ignored.
Resumption(label, ok) ==
    CASE label = "wait_restore" -> (IF ok THEN "journal" ELSE "abort")
      [] label = "wait_resume"  -> "resumed"
      [] OTHER                  -> "abort_read"

ThreadWaiting(m) == m.by = "thread" /\ pc[m.att] = WaitLabel(m)
RecWaiting(m) == m.by = "recovery" /\ recPc = "wait" /\ recCur = m.att

\* The recovery command returns; what it held in memory is gone.
RecoveryReturns == recPc' = "idle" /\ recTodo' = {} /\ recCur' = None /\ recActions' = {}

\* The answer to m reaches its caller if it is still waiting.
Answer(m, ok) ==
    /\ pc' = IF ThreadWaiting(m)
             THEN [pc EXCEPT ![m.att] = Resumption(@, ok)] ELSE pc
    /\ outcome' = IF ThreadWaiting(m) /\ m.op = "resume"
                  THEN [outcome EXCEPT ![m.att] = ok] ELSE outcome
    /\ CASE RecWaiting(m) /\ ok  -> recPc' = "node" /\ UNCHANGED <<recTodo, recCur, recActions>>
         [] RecWaiting(m) /\ ~ok -> RecoveryReturns
         [] OTHER                -> UNCHANGED recVars
    /\ UNCHANGED <<plan, grant>>

------------------------------------------------------------------------------
(* The thread of request_restore and execute_restore *)

\* validate_target_claim: the target is the active node, unless there is none or this
\* is a migration.
TargetClaimed(p) == p.migration \/ activeNode \in {None, p.node}

\* The validations of request_restore: an ACTIVE target, a restorable checkpoint, and
\* the claim.
RequestRestore(r) ==
    /\ pc[r] = "idle"
    /\ \E p \in Plans :
        /\ p.node \in active
        /\ IsRestorable(lifecycle[p.ckpt])
        /\ TargetClaimed(p)
        /\ plan' = [plan EXCEPT ![r] = p]
    /\ Goto(r, "reserve")
    /\ UNCHANGED <<workVars, bookVars, active, countVars, grant, outcome, recVars,
                   sideVars, era, nodeVars, msgs>>

\* reservation_create: one ACTIVE restore reservation per checkpoint.
Reserve(r) ==
    /\ pc[r] = "reserve"
    /\ IF \E s \in reserved : plan[s].ckpt = plan[r].ckpt
       THEN Goto(r, "done") /\ UNCHANGED reserved
       ELSE Goto(r, "begin") /\ reserved' = reserved \cup {r}
    /\ UNCHANGED <<workVars, lifecycle, attempt, restored, genCommitted, resumed, active,
                   countVars, plan, grant, outcome, recVars, sideVars, era, nodeVars, msgs>>

\* A step of the thread that writes r's attempt record.
AttemptStep(r, from, state, to) ==
    /\ pc[r] = from
    /\ attempt' = [attempt EXCEPT ![r] = state]
    /\ Goto(r, to)
    /\ UNCHANGED <<workVars, lifecycle, reserved, restored, genCommitted, resumed, active,
                   countVars, plan, grant, outcome, recVars, sideVars, era, nodeVars, msgs>>

AttemptBegin(r) == AttemptStep(r, "begin", "ACTIVE", "pending")

\* A set_lifecycle call of the thread: an error when the table does not allow it.
LifecycleStep(r, from, target, to) ==
    /\ pc[r] = from
    /\ IF CanTransition(lifecycle[plan[r].ckpt], target)
       THEN /\ lifecycle' = [lifecycle EXCEPT ![plan[r].ckpt] = target]
            /\ Goto(r, to)
       ELSE Goto(r, "abort") /\ UNCHANGED lifecycle
    /\ UNCHANGED <<workVars, attempt, reserved, restored, genCommitted, resumed, active,
                   countVars, plan, grant, outcome, recVars, sideVars, era, nodeVars>>

EnterPending(r) ==
    LifecycleStep(r, "pending", "RESTORE_PENDING", "provision") /\ UNCHANGED msgs

\* The target has the checkpoint or fetches it; or the probe or the fetch fails.
Provision(r) ==
    /\ pc[r] = "provision"
    /\ \/ /\ plan[r].node \in alive
          /\ nodeEra[plan[r].node] = era
          /\ Goto(r, "restoring")
       \/ Goto(r, "abort")
    /\ UNCHANGED <<workVars, bookVars, active, countVars, plan, grant, outcome, recVars,
                   sideVars, era, nodeVars, msgs>>

EnterRestoring(r) ==
    /\ LifecycleStep(r, "restoring", "RESTORING", "wait_restore")
    /\ IF pc'[r] = "wait_restore" THEN Send("restore", r, "thread", NoGrant)
                                  ELSE UNCHANGED msgs

\* A step of the thread that journals a state of r.
JournalRestored(r) ==
    /\ pc[r] = "journal"
    /\ restored' = restored \cup {r}
    /\ Goto(r, "commit")
    /\ UNCHANGED <<workVars, lifecycle, attempt, reserved, genCommitted, resumed, active,
                   countVars, plan, grant, outcome, recVars, sideVars, era, nodeVars, msgs>>

\* restore_commit with a fresh token; it is an error unless the checkpoint may become
\* RESTORED. The claim validated by the request is not validated again.
RestoreCommit(r) ==
    /\ pc[r] = "commit"
    /\ IF CanTransition(lifecycle[plan[r].ckpt], "RESTORED")
       THEN /\ RestoreTx(r)
            /\ grant' = [grant EXCEPT ![r].token = FreshToken]
            /\ Goto(r, "read")
            /\ UNCHANGED <<attempt, reserved, restored, resumed>>
       ELSE Goto(r, "abort") /\ UNCHANGED <<workVars, bookVars, grants, grant>>
    /\ UNCHANGED <<active, attaches, fences, plan, outcome, recVars, sideVars, era,
                   nodeVars, msgs>>

\* Mutant: the coordinator's own epoch is granted.
ReadEpochOwn(r) ==
    /\ pc[r] = "read"
    /\ grant' = [grant EXCEPT ![r].epoch = era]
    /\ Goto(r, "send_resume")
    /\ UNCHANGED <<workVars, bookVars, active, countVars, plan, outcome, recVars, sideVars,
                   era, nodeVars, msgs>>

\* The execution epoch to grant is read from the workload after the commit.
ReadEpoch(r) ==
    /\ pc[r] = "read"
    /\ grant' = [grant EXCEPT ![r].epoch = epoch]
    /\ Goto(r, "send_resume")
    /\ UNCHANGED <<workVars, bookVars, active, countVars, plan, outcome, recVars, sideVars,
                   era, nodeVars, msgs>>

SendResume(r) ==
    /\ pc[r] = "send_resume"
    /\ Send("resume", r, "thread", grant[r])
    /\ Goto(r, "wait_resume")
    /\ UNCHANGED <<workVars, bookVars, active, countVars, plan, grant, outcome, recVars,
                   sideVars, era, nodeVars>>

JournalResumed(r) ==
    /\ pc[r] = "resumed"
    /\ resumed' = resumed \cup {r}
    /\ Goto(r, "finish")
    /\ UNCHANGED <<workVars, lifecycle, attempt, reserved, restored, genCommitted, active,
                   countVars, plan, grant, outcome, recVars, sideVars, era, nodeVars, msgs>>

\* Mutant: the outcome's state is written to the attempt record.
FinishAsRestored(r) ==
    AttemptStep(r, "finish", IF outcome[r] THEN "RESTORED" ELSE "RESTORED_NO_RESUME",
                "release")

Finish(r) ==
    AttemptStep(r, "finish", IF outcome[r] THEN "COMMITTED" ELSE "COMMITTED_NO_RESUME",
                "release")

\* A step of the thread that releases r's reservation, if it is still ACTIVE.
ReleaseStep(r, from) ==
    /\ pc[r] = from
    /\ reserved' = reserved \ {r}
    /\ Goto(r, "done")
    /\ UNCHANGED <<workVars, lifecycle, attempt, restored, genCommitted, resumed, active,
                   countVars, plan, grant, outcome, recVars, sideVars, era, nodeVars, msgs>>

Release(r) == ReleaseStep(r, "release")

\* Nothing that could answer the call of r's thread is left.
NoAnswer(r) ==
    \A m \in msgs : ~(/\ m.att = r
                      /\ ThreadWaiting(m)
                      /\ plan[r].node \in alive)

\* Mutant: only the restore call has a timeout.
GiveUpRestoreOnly(r) ==
    /\ pc[r] \in {"wait_restore"}
    /\ "rpc" \in Faults \/ NoAnswer(r)
    /\ Goto(r, Resumption(pc[r], FALSE))
    /\ UNCHANGED <<workVars, bookVars, active, countVars, plan, grant, outcome, recVars,
                   sideVars, era, nodeVars, msgs>>

\* The call fails: no answer within the timeout, or none can come any more.
GiveUp(r) ==
    /\ pc[r] \in {"wait_restore", "wait_resume", "abort_cleanup"}
    /\ "rpc" \in Faults \/ NoAnswer(r)
    /\ Goto(r, Resumption(pc[r], FALSE))
    /\ UNCHANGED <<workVars, bookVars, active, countVars, plan, grant, outcome, recVars,
                   sideVars, era, nodeVars, msgs>>

\* restore.before_generation_commit, restore.after_generation_commit and
\* restore.after_commit: the thread aborts.
Failpoint(r) ==
    /\ "failpoint" \in Faults
    /\ pc[r] \in {"commit", "send_resume", "release"}
    /\ IF pc[r] = "release" THEN reserved' = reserved \ {r} ELSE UNCHANGED reserved
    /\ Goto(r, "abort")
    /\ UNCHANGED <<workVars, lifecycle, attempt, restored, genCommitted, resumed, active,
                   countVars, plan, grant, outcome, recVars, sideVars, era, nodeVars, msgs>>

\* A store call of the thread returns an error: before the attempt is handed to
\* execute_restore and in abort_restore_attempt the call returns, else it aborts.
StoreError(r) ==
    /\ "store" \in Faults
    /\ \/ /\ pc[r] \in {"reserve", "begin", "pending", "abort", "abort_read",
                        "abort_put_back", "abort_fail", "abort_committed", "abort_release"}
          /\ Goto(r, "done")
       \/ /\ pc[r] \in {"pending", "restoring", "journal", "commit", "read", "resumed",
                        "finish", "release"}
          /\ Goto(r, "abort")
    /\ UNCHANGED <<workVars, bookVars, active, countVars, plan, grant, outcome, recVars,
                   sideVars, era, nodeVars, msgs>>

------------------------------------------------------------------------------
(* abort_restore_attempt *)

\* Mutant: the journal is not consulted.
AbortStartBlind(r) ==
    /\ pc[r] = "abort"
    /\ IF r \notin Restores
       THEN Goto(r, "abort_committed") /\ UNCHANGED msgs
       ELSE Goto(r, "abort_cleanup") /\ Send("cleanup", r, "thread", NoGrant)
    /\ UNCHANGED <<workVars, bookVars, active, countVars, plan, grant, outcome, recVars,
                   sideVars, era, nodeVars>>

\* Mutant: components_restored is taken for the commit.
AbortStartRestored(r) ==
    /\ pc[r] = "abort"
    /\ IF r \in restored
       THEN Goto(r, "abort_committed") /\ UNCHANGED msgs
       ELSE Goto(r, "abort_cleanup") /\ Send("cleanup", r, "thread", NoGrant)
    /\ UNCHANGED <<workVars, bookVars, active, countVars, plan, grant, outcome, recVars,
                   sideVars, era, nodeVars>>

\* A committed restore is only finished; any other one is rolled back on its target.
AbortStart(r) ==
    /\ pc[r] = "abort"
    /\ IF r \in genCommitted
       THEN Goto(r, "abort_committed") /\ UNCHANGED msgs
       ELSE Goto(r, "abort_cleanup") /\ Send("cleanup", r, "thread", NoGrant)
    /\ UNCHANGED <<workVars, bookVars, active, countVars, plan, grant, outcome, recVars,
                   sideVars, era, nodeVars>>

AbortCommitted(r) ==
    AttemptStep(r, "abort_committed", "COMMITTED_NO_RESUME", "abort_release")

InRestore(c) == lifecycle[c] \in {"RESTORE_PENDING", "RESTORING"}

\* Mutant: RESTORING is forgotten.
AbortReadPending(r) ==
    /\ pc[r] = "abort_read"
    /\ Goto(r, IF lifecycle[plan[r].ckpt] = "RESTORE_PENDING" THEN "abort_put_back" ELSE "abort_fail")
    /\ UNCHANGED <<workVars, bookVars, active, countVars, plan, grant, outcome, recVars,
                   sideVars, era, nodeVars, msgs>>

AbortRead(r) ==
    /\ pc[r] = "abort_read"
    /\ Goto(r, IF InRestore(plan[r].ckpt) THEN "abort_put_back" ELSE "abort_fail")
    /\ UNCHANGED <<workVars, bookVars, active, countVars, plan, grant, outcome, recVars,
                   sideVars, era, nodeVars, msgs>>

AbortPutBack(r) ==
    /\ pc[r] = "abort_put_back"
    /\ lifecycle' = [lifecycle EXCEPT ![plan[r].ckpt] = "AVAILABLE"]
    /\ Goto(r, "abort_fail")
    /\ UNCHANGED <<workVars, attempt, reserved, restored, genCommitted, resumed, active,
                   countVars, plan, grant, outcome, recVars, sideVars, era, nodeVars, msgs>>

AbortFail(r) == AttemptStep(r, "abort_fail", "FAILED", "abort_release")

AbortRelease(r) == ReleaseStep(r, "abort_release")

------------------------------------------------------------------------------
(* The authority to execute the workload *)

\* WorkloadAttach: the claim of an ACTIVE node with the current execution epoch. The
\* node's connection to the coordinator is free: a heartbeat holds it, and gives it up
\* for good when it fails.
AttachClaim(n) ==
    /\ attaches < MaxAttach
    /\ n \in active \cap alive
    /\ beat[n].stage = "none"
    /\ claim[n] = NoGrant
    /\ activeNode \in {None, n}
    /\ activeNode' = n
    /\ token' = FreshToken
    /\ grants' = grants + 1
    /\ attaches' = attaches + 1
    /\ claim' = [claim EXCEPT ![n] = [token |-> FreshToken, epoch |-> epoch]]
    /\ UNCHANGED <<generation, epoch, bookVars, active, fences, threadVars, recVars,
                   sideVars, era, alive, nodeEra, attached, beat, provider, msgs>>

\* The answer reaches the node, which records the grant; or it is lost.
AttachInstall(n) ==
    /\ claim[n] # NoGrant
    /\ attached' = [attached EXCEPT ![n] = claim[n]]
    /\ claim' = [claim EXCEPT ![n] = NoGrant]
    /\ UNCHANGED <<workVars, bookVars, active, countVars, threadVars, recVars, sideVars,
                   era, alive, nodeEra, beat, provider, msgs>>

AttachLost(n) ==
    /\ "rpc" \in Faults \/ nodeEra[n] # era
    /\ claim[n] # NoGrant
    /\ claim' = [claim EXCEPT ![n] = NoGrant]
    /\ UNCHANGED <<workVars, bookVars, active, countVars, threadVars, recVars, sideVars,
                   era, alive, nodeEra, attached, beat, provider, msgs>>

\* WorkloadDetach for the active node; for another one it changes nothing.
Detach(n) ==
    /\ activeNode = n
    /\ WorkloadRelease(n)
    /\ UNCHANGED <<generation, epoch, bookVars, active, countVars, threadVars, recVars,
                   sideVars, era, nodeVars, msgs>>

\* detach_workload of the node: it forgets its grant, and tells nobody.
NodeDetach(n) ==
    /\ "detach" \in Faults
    /\ attached[n] # NoGrant
    /\ attached' = [attached EXCEPT ![n] = NoGrant]
    /\ UNCHANGED <<workVars, bookVars, active, countVars, threadVars, recVars, sideVars,
                   era, alive, nodeEra, claim, beat, provider, msgs>>

\* fence_workload: it reads the workload, bumps the fence, and releases the node it
\* read.
FenceRead ==
    /\ fences < MaxFence
    /\ fencing = Idle
    /\ fences' = fences + 1
    /\ fencing' = [stage |-> "bump", node |-> activeNode, epoch |-> epoch]
    /\ UNCHANGED <<workVars, bookVars, active, grants, attaches, threadVars, recVars,
                   sweep, era, nodeVars, msgs>>

FenceBump ==
    /\ fencing.stage = "bump"
    /\ BumpFence(fencing.epoch)
    /\ fencing' = IF epoch = fencing.epoch THEN [fencing EXCEPT !.stage = "release"]
                                           ELSE Idle
    /\ UNCHANGED <<generation, bookVars, active, countVars, threadVars, recVars, sweep,
                   era, nodeVars, msgs>>

FenceRelease ==
    /\ fencing.stage = "release"
    /\ WorkloadRelease(fencing.node)
    /\ fencing' = Idle
    /\ UNCHANGED <<generation, epoch, bookVars, active, countVars, threadVars, recVars,
                   sweep, era, nodeVars, msgs>>

\* A node whose heartbeats may be missing for long enough.
MaySeemStale(n) ==
    n \in active /\ ("node" \in Faults \/ n \notin alive \/ beat[n].stage = "cut")

\* sweep_stale: a stale node is marked; if the workload is read as its own, the fence
\* is bumped unless the epoch changed since.
SweepMark(n) ==
    /\ sweep = Idle
    /\ MaySeemStale(n)
    /\ active' = active \ {n}
    /\ sweep' = [stage |-> "read", node |-> n, epoch |-> 0]
    /\ UNCHANGED <<workVars, bookVars, countVars, threadVars, recVars, fencing, era,
                   nodeVars, msgs>>

SweepRead ==
    /\ sweep.stage = "read"
    /\ sweep' = IF activeNode = sweep.node
                THEN [sweep EXCEPT !.stage = "bump", !.epoch = epoch] ELSE Idle
    /\ UNCHANGED <<workVars, bookVars, active, countVars, threadVars, recVars, fencing,
                   era, nodeVars, msgs>>

SweepBump ==
    /\ sweep.stage = "bump"
    /\ BumpFence(sweep.epoch)
    /\ sweep' = Idle
    /\ UNCHANGED <<generation, bookVars, active, countVars, threadVars, recVars, fencing,
                   era, nodeVars, msgs>>

------------------------------------------------------------------------------
(* Recovery *)

\* reconcile: stale nodes are marked, without a fence, and ACTIVE attempts are read.
RecoveryStart ==
    /\ recPc = "idle"
    /\ "overlap" \in Faults \/ \A r \in Restores : ~Live(r)
    /\ \E S \in SUBSET {n \in Nodes : MaySeemStale(n)} : active' = active \ S
    /\ recTodo' = {r \in Restores : attempt[r] = "ACTIVE"}
    /\ recPc' = "reconcile"
    /\ UNCHANGED <<workVars, bookVars, countVars, threadVars, recCur, recActions, sideVars,
                   era, nodeVars, msgs>>

\* Mutant: components_restored is looked at first.
RecoveryPickBlind(r) ==
    /\ recPc = "reconcile"
    /\ r \in recTodo
    /\ recTodo' = recTodo \ {r}
    /\ recCur' = r
    /\ CASE r \in genCommitted \ restored ->
              /\ recPc' = "finish_ok"
              /\ recActions' = IF r \in resumed THEN recActions
                                               ELSE recActions \cup {<<r, "resume">>}
         [] r \in restored ->
              recPc' = "get" /\ recActions' = recActions \cup {<<r, "cleanup">>}
         [] OTHER ->
              recPc' = "finish_fail" /\ UNCHANGED recActions
    /\ UNCHANGED <<workVars, bookVars, active, countVars, threadVars, sideVars, era,
                   nodeVars, msgs>>

\* reconcile_attempt: what the journal says of r decides.
RecoveryPick(r) ==
    /\ recPc = "reconcile"
    /\ r \in recTodo
    /\ recTodo' = recTodo \ {r}
    /\ recCur' = r
    /\ CASE r \in genCommitted ->
              /\ recPc' = "finish_ok"
              /\ recActions' = IF r \in resumed THEN recActions
                                               ELSE recActions \cup {<<r, "resume">>}
         [] r \in restored \ genCommitted ->
              recPc' = "get" /\ recActions' = recActions \cup {<<r, "cleanup">>}
         [] OTHER ->
              recPc' = "finish_fail" /\ UNCHANGED recActions
    /\ UNCHANGED <<workVars, bookVars, active, countVars, threadVars, sideVars, era,
                   nodeVars, msgs>>

RecoveryGet ==
    /\ recPc = "get"
    /\ recPc' = IF InRestore(plan[recCur].ckpt) THEN "put_back" ELSE "finish_fail"
    /\ UNCHANGED <<workVars, bookVars, active, countVars, threadVars, recTodo, recCur,
                   recActions, sideVars, era, nodeVars, msgs>>

RecoveryPutBack ==
    /\ recPc = "put_back"
    /\ lifecycle' = [lifecycle EXCEPT ![plan[recCur].ckpt] = "AVAILABLE"]
    /\ recPc' = "finish_fail"
    /\ UNCHANGED <<workVars, attempt, reserved, restored, genCommitted, resumed, active,
                   countVars, threadVars, recTodo, recCur, recActions, sideVars, era,
                   nodeVars, msgs>>

RecoveryFinish ==
    /\ recPc \in {"finish_ok", "finish_fail"}
    /\ attempt' = [attempt EXCEPT ![recCur] =
                       IF recPc = "finish_ok" THEN "COMMITTED" ELSE "FAILED"]
    /\ recPc' = "release"
    /\ UNCHANGED <<workVars, lifecycle, reserved, restored, genCommitted, resumed, active,
                   countVars, threadVars, recTodo, recCur, recActions, sideVars, era,
                   nodeVars, msgs>>

RecoveryRelease ==
    /\ recPc = "release"
    /\ reserved' = reserved \ {recCur}
    /\ recPc' = "reconcile"
    /\ recCur' = None
    /\ UNCHANGED <<workVars, lifecycle, attempt, restored, genCommitted, resumed, active,
                   countVars, threadVars, recTodo, recActions, sideVars, era, nodeVars,
                   msgs>>

\* run_recovery, once every attempt is reconciled: the actions for nodes still ACTIVE,
\* one by one. A committed restore is granted what the workload row holds now.
RecoveryApply(a) ==
    /\ recPc = "node" \/ (recPc = "reconcile" /\ recTodo = {})
    /\ a \in recActions
    /\ recActions' = recActions \ {a}
    /\ recCur' = a[1]
    /\ CASE plan[a[1]].node \notin active ->
              recPc' = "node" /\ UNCHANGED msgs
         [] plan[a[1]].node \in active /\ a[2] = "cleanup" ->
              recPc' = "wait" /\ Send("cleanup", a[1], "recovery", NoGrant)
         [] OTHER ->
              /\ recPc' = "wait"
              /\ Send("resume", a[1], "recovery", [token |-> token, epoch |-> epoch])
    /\ UNCHANGED <<workVars, bookVars, active, countVars, threadVars, recTodo, sideVars,
                   era, nodeVars>>

RecoveryDone ==
    /\ recPc = "node" \/ (recPc = "reconcile" /\ recTodo = {})
    /\ recActions = {}
    /\ RecoveryReturns
    /\ UNCHANGED <<workVars, bookVars, active, countVars, threadVars, sideVars, era,
                   nodeVars, msgs>>

\* An error of the store or of a node's answer ends the command.
RecoveryError ==
    /\ \/ recPc \notin {"idle", "wait"} /\ "store" \in Faults
       \/ recPc = "wait" /\ "rpc" \in Faults
       \/ recPc = "wait" /\ ~\E m \in msgs : RecWaiting(m) /\ plan[recCur].node \in alive
    /\ RecoveryReturns
    /\ UNCHANGED <<workVars, bookVars, active, countVars, threadVars, sideVars, era,
                   nodeVars, msgs>>

------------------------------------------------------------------------------
(* The nodes *)

\* A node process starts and registers.
NodeStart(n) ==
    /\ nodeEra[n] = 0
    /\ nodeEra' = [nodeEra EXCEPT ![n] = era]
    /\ alive' = alive \cup {n}
    /\ active' = active \cup {n}
    /\ UNCHANGED <<workVars, bookVars, countVars, threadVars, recVars, sideVars, era,
                   attached, claim, beat, provider, msgs>>

\* m is taken by its node, and answered.
Handle(m, ok) ==
    /\ plan[m.att].node \in alive
    /\ msgs' = msgs \ {m}
    /\ Answer(m, ok)
    /\ UNCHANGED <<workVars, bookVars, active, countVars, sideVars, era, alive, nodeEra,
                   claim, beat>>

\* check_epoch: is m from the coordinator its node registered with?
EraMatches(m) == nodeEra[plan[m.att].node] = m.era

RefuseEra(m) ==
    /\ ~EraMatches(m)
    /\ Handle(m, FALSE)
    /\ UNCHANGED <<attached, provider>>

\* do_restore: the providers apply the checkpoint.
ApplyRestore(m) ==
    /\ m.op = "restore"
    /\ EraMatches(m)
    /\ Handle(m, TRUE)
    /\ provider' = [provider EXCEPT ![m.att] = "applied"]
    /\ UNCHANGED attached

\* One of them fails or is missing: those before it are rolled back in reverse
\* (cleanup_restored).
ApplyFails(m) ==
    /\ Faults \cap {"provider", "detach"} # {}
    /\ m.op = "restore"
    /\ EraMatches(m)
    /\ Handle(m, FALSE)
    /\ provider' = [provider EXCEPT ![m.att] = "rolled_back"]
    /\ UNCHANGED attached

\* do_resume with an authority grant: it is recorded first; then the providers make
\* the restore final, or cannot, or none is registered.
InstallGrant(m) ==
    /\ m.op = "resume"
    /\ m.grant.token # 0
    /\ EraMatches(m)
    /\ attached' = [attached EXCEPT ![plan[m.att].node] = m.grant]
    /\ \/ Handle(m, TRUE) /\ provider' = [provider EXCEPT ![m.att] =
                                             IF @ = "applied" THEN "final" ELSE @]
       \/ "provider" \in Faults /\ Handle(m, FALSE) /\ UNCHANGED provider
       \/ "detach" \in Faults /\ Handle(m, TRUE) /\ UNCHANGED provider

\* A grant without a token is an error.
RefuseGrant(m) ==
    /\ m.op = "resume"
    /\ m.grant.token = 0
    /\ EraMatches(m)
    /\ Handle(m, FALSE)
    /\ UNCHANGED <<attached, provider>>

\* do_cleanup of a restore attempt: what was applied and not made final is undone; or a
\* provider cannot do so, or is not registered.
CleanupRestore(m) ==
    /\ m.op = "cleanup"
    /\ EraMatches(m)
    /\ \/ Handle(m, TRUE) /\ provider' = [provider EXCEPT ![m.att] =
                                             IF @ = "applied" THEN "rolled_back" ELSE @]
       \/ "provider" \in Faults /\ Handle(m, FALSE) /\ UNCHANGED provider
       \/ "detach" \in Faults /\ Handle(m, TRUE) /\ UNCHANGED provider
    /\ UNCHANGED attached

\* heartbeat_tick: the node reports the grant it holds. It needs its connection. A beat
\* with nothing to report changes nothing when it is accepted, and is left out then.
BeatSend(n) ==
    /\ n \in alive
    /\ attached[n] # NoGrant \/ n \notin active \/ nodeEra[n] # era
    /\ beat[n].stage = "none"
    /\ claim[n] = NoGrant
    /\ beat' = [beat EXCEPT ![n] = [stage |-> "sent", grant |-> attached[n]]]
    /\ UNCHANGED <<workVars, bookVars, active, countVars, threadVars, recVars, sideVars,
                   era, alive, nodeEra, attached, claim, provider, msgs>>

\* Mutant: only the active node is compared.
BeatJudgeNodeOnly(n) ==
    /\ beat[n].stage = "sent"
    /\ beat' = [beat EXCEPT ![n] =
           IF nodeEra[n] # era \/ n \notin active THEN [@ EXCEPT !.stage = "cut"]
           ELSE IF @.grant # NoGrant /\ activeNode # n THEN [@ EXCEPT !.stage = "stale"]
           ELSE Silent]
    /\ UNCHANGED <<workVars, bookVars, active, countVars, threadVars, recVars, sideVars,
                   era, alive, nodeEra, attached, claim, provider, msgs>>

\* NodeHeartbeat at the coordinator. A refusal cuts the node off.
BeatJudge(n) ==
    /\ beat[n].stage = "sent"
    /\ beat' = [beat EXCEPT ![n] =
           IF nodeEra[n] # era \/ n \notin active THEN [@ EXCEPT !.stage = "cut"]
           ELSE IF @.grant # NoGrant /\ ~Confirms(n, @.grant) THEN [@ EXCEPT !.stage = "stale"]
           ELSE Silent]
    /\ UNCHANGED <<workVars, bookVars, active, countVars, threadVars, recVars, sideVars,
                   era, alive, nodeEra, attached, claim, provider, msgs>>

\* The node drops whatever grant it holds by now.
BeatApply(n) ==
    /\ beat[n].stage = "stale"
    /\ attached' = [attached EXCEPT ![n] = NoGrant]
    /\ beat' = [beat EXCEPT ![n] = Silent]
    /\ UNCHANGED <<workVars, bookVars, active, countVars, threadVars, recVars, sideVars,
                   era, alive, nodeEra, claim, provider, msgs>>

BeatLost(n) ==
    /\ "rpc" \in Faults
    /\ beat[n].stage \in {"sent", "stale"}
    /\ beat' = [beat EXCEPT ![n].stage = "cut"]
    /\ UNCHANGED <<workVars, bookVars, active, countVars, threadVars, recVars, sideVars,
                   era, alive, nodeEra, attached, claim, provider, msgs>>

\* A node that was cut off stops after ten failed heartbeats; a node may also die.
NodeStops(n) ==
    /\ n \in alive
    /\ beat[n].stage = "cut" \/ "node" \in Faults
    /\ alive' = alive \ {n}
    /\ attached' = [attached EXCEPT ![n] = NoGrant]
    /\ claim' = [claim EXCEPT ![n] = NoGrant]
    /\ beat' = [beat EXCEPT ![n] = Silent]
    /\ msgs' = {m \in msgs : plan[m.att].node # n}
    /\ UNCHANGED <<workVars, bookVars, active, countVars, threadVars, recVars, sideVars,
                   era, nodeEra, provider>>

LoseMessage(m) ==
    /\ "rpc" \in Faults
    /\ msgs' = msgs \ {m}
    /\ UNCHANGED <<workVars, bookVars, active, countVars, threadVars, recVars, sideVars,
                   era, nodeVars>>

------------------------------------------------------------------------------
(* Time and the coordinator process *)

\* A reservation outlives its TTL: it is recovery or a later reservation that finds out.
ExpireReservation(r) ==
    /\ r \in reserved
    /\ "overlap" \in Faults \/ ~Live(r)
    /\ reserved' = reserved \ {r}
    /\ UNCHANGED <<workVars, lifecycle, attempt, restored, genCommitted, resumed, active,
                   countVars, threadVars, recVars, sideVars, era, nodeVars, msgs>>

\* The coordinator dies and is started again: it claims the next epoch, and whatever
\* its threads were doing is lost.
CoordinatorRestart ==
    /\ "coordinator" \in Faults
    /\ era = 1
    /\ era' = 2
    /\ pc' = [r \in Restores |-> IF Live(r) THEN "dead" ELSE pc[r]]
    /\ RecoveryReturns
    /\ fencing' = Idle
    /\ sweep' = Idle
    /\ UNCHANGED <<workVars, bookVars, active, countVars, plan, grant, outcome, nodeVars,
                   msgs>>

------------------------------------------------------------------------------
(* Specification *)

ThreadStep(r) ==
    \/ RequestRestore(r) \/ Reserve(r) \/ AttemptBegin(r) \/ EnterPending(r)
    \/ Provision(r) \/ EnterRestoring(r) \/ JournalRestored(r) \/ RestoreCommit(r)
    \/ ReadEpoch(r) \/ SendResume(r) \/ JournalResumed(r) \/ Finish(r) \/ Release(r)
    \/ AbortStart(r) \/ AbortCommitted(r) \/ AbortRead(r) \/ AbortPutBack(r)
    \/ AbortFail(r) \/ AbortRelease(r)

ThreadFault(r) == GiveUp(r) \/ Failpoint(r) \/ StoreError(r) \/ ExpireReservation(r)

AuthorityStep(n) ==
    \/ AttachClaim(n) \/ AttachInstall(n) \/ AttachLost(n) \/ Detach(n) \/ NodeDetach(n)
    \/ SweepMark(n)

ServerStep == FenceRead \/ FenceBump \/ FenceRelease \/ SweepRead \/ SweepBump

RecoveryStep ==
    \/ RecoveryStart \/ RecoveryGet \/ RecoveryPutBack \/ RecoveryFinish
    \/ RecoveryRelease \/ RecoveryDone \/ RecoveryError
    \/ \E r \in Restores : RecoveryPick(r)
    \/ \E a \in recActions : RecoveryApply(a)

HandleStep(m) ==
    \/ RefuseEra(m) \/ ApplyRestore(m) \/ ApplyFails(m) \/ InstallGrant(m) \/ RefuseGrant(m)
    \/ CleanupRestore(m)

BeatStep(n) == BeatSend(n) \/ BeatJudge(n) \/ BeatApply(n)

Next ==
    \/ \E r \in Restores : ThreadStep(r) \/ ThreadFault(r)
    \/ \E n \in Nodes :
          AuthorityStep(n) \/ NodeStart(n) \/ BeatStep(n) \/ BeatLost(n) \/ NodeStops(n)
    \/ \E m \in msgs : HandleStep(m) \/ LoseMessage(m)
    \/ ServerStep
    \/ RecoveryStep
    \/ CoordinatorRestart

Spec == Init /\ [][Next]_vars

\* Threads run, calls end with an answer or a timeout, a node that keeps running beats
\* and receives the answers, the monitor's sweep runs and runs to its end. Nothing makes
\* a client send a request or an operator start recovery.
Fairness ==
    /\ \A r \in Restores :
          /\ WF_vars(pc[r] # "idle" /\ ThreadStep(r))
          /\ WF_vars(GiveUp(r))
    /\ WF_vars(\E m \in msgs : HandleStep(m))
    /\ WF_vars(FenceBump \/ FenceRelease)
    /\ WF_vars(SweepRead \/ SweepBump)
    /\ \A n \in Nodes :
          /\ WF_vars(BeatStep(n))
          /\ WF_vars(AttachInstall(n))
          /\ WF_vars(beat[n].stage = "cut" /\ NodeStops(n))
          /\ SF_vars(n \notin alive /\ SweepMark(n))

FairSpec == Spec /\ Fairness

------------------------------------------------------------------------------
(* Properties *)

\* Every variable has its type.
TypeOK ==
    /\ <<generation, epoch, token, grants, attaches, fences, era>>
         \in Nat \X Nat \X Nat \X Nat \X Nat \X Nat \X {1, 2}
    /\ activeNode \in Nodes \cup {None}
    /\ lifecycle \in [Checkpoints -> LifecycleStates]
    /\ attempt \in [Restores -> {"none", "ACTIVE", "COMMITTED", "COMMITTED_NO_RESUME", "FAILED"}]
    /\ reserved \subseteq Restores
    /\ restored \subseteq Restores
    /\ genCommitted \subseteq Restores
    /\ resumed \subseteq Restores
    /\ active \subseteq Nodes
    /\ pc \in [Restores -> Labels]
    /\ plan \in [Restores -> Plans \cup {NoPlan}]
    /\ grant \in [Restores -> Grants]
    /\ outcome \in [Restores -> BOOLEAN]
    /\ fencing \in [stage : {"idle", "bump", "release"}, node : Nodes \cup {None}, epoch : Nat]
    /\ sweep \in [stage : {"idle", "read", "bump"}, node : Nodes \cup {None}, epoch : Nat]
    /\ recPc \in RecLabels
    /\ recTodo \subseteq Restores
    /\ recCur \in Restores \cup {None}
    /\ recActions \subseteq Restores \X {"resume", "cleanup"}
    /\ alive \subseteq Nodes
    /\ nodeEra \in [Nodes -> 0 .. 2]
    /\ attached \in [Nodes -> Grants]
    /\ claim \in [Nodes -> Grants]
    /\ beat \in [Nodes -> [stage : {"none", "sent", "stale", "cut"}, grant : Grants]]
    /\ provider \in [Restores -> {"untouched", "applied", "rolled_back", "final"}]
    /\ msgs \subseteq Messages

\* Nothing is under way: no thread, no recovery, no attempt record left ACTIVE, no call
\* still to be handled.
AtRest ==
    /\ \A r \in Restores : ~Live(r) /\ attempt[r] # "ACTIVE"
    /\ recPc = "idle"
    /\ msgs = {}

\* A restore recorded as committed was applied by its target, acknowledged and
\* committed, whoever wrote the record: its thread, its abort path or recovery.
NoFalseRestore ==
    \A r \in Restores : attempt[r] \in {"COMMITTED", "COMMITTED_NO_RESUME"} =>
        r \in restored \cap genCommitted

\* A committed restore is not undone on its target.
CommittedStays == \A r \in genCommitted : provider[r] # "rolled_back"

\* An attempt record that says FAILED is about a restore that was not committed.
FailedRestoreNotCommitted ==
    \A r \in Restores : attempt[r] = "FAILED" => r \notin genCommitted

\* Once everything has come to rest no checkpoint is left in the middle of a restore,
\* where no request could restore it again.
NotStuck == AtRest => \A c \in Checkpoints : ~InRestore(c)

\* The same as long as the coordinator does not crash: every abort puts back what its
\* restore began.
AbortsPutBack == era = 1 => NotStuck

\* The workload's current token is held, or is on its way, only to the node the store
\* names as active: no two nodes execute under one authority.
AuthoritySingle ==
    \A n \in Nodes :
        /\ attached[n].token = token /\ token # 0 => activeNode = n
        /\ claim[n].token = token /\ token # 0 => activeNode = n

\* A grant the store no longer confirms is never confirmed again: a node that was
\* fenced, detached or replaced cannot pass for the active one with what it holds.
StaleStaysStale ==
    [][\A n \in Nodes :
         /\ attached[n] # NoGrant
         /\ attached'[n] = attached[n]
         /\ ~Confirms(n, attached[n])
         => ~Confirms(n, attached[n])']_vars

\* Whoever holds the workload's current token, or is on its way to get it, has it with
\* the workload's current execution epoch, although a restore reads the epoch in a call of
\* its own after its commit, and sweeps, fences, claims and other commits come between:
\* the rightful node is never declared stale by its own heartbeat.
TokenFixesEpoch ==
    \A n \in Nodes : token # 0 =>
        /\ attached[n].token = token => attached[n].epoch = epoch
        /\ claim[n].token = token => claim[n].epoch = epoch

\* A restore that was requested comes to an end.
RestoresEnd == \A r \in Restores : Live(r) ~> ~Live(r)

\* A node that holds a grant the store does not confirm drops it, or stops.
StaleDetached ==
    \A n \in Nodes :
        attached[n] # NoGrant /\ ~Confirms(n, attached[n]) ~>
        attached[n] = NoGrant \/ Confirms(n, attached[n])

==============================================================================
