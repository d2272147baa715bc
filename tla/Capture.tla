------------------------------- MODULE Capture -------------------------------
(***************************************************************************)
(* The capture of one workload's checkpoints: the coordinator thread that   *)
(* serves a capture request (coordinator.rs, request_capture to             *)
(* abort_capture_attempt), the node that stages, promotes, resumes and      *)
(* cleans up (node.rs), the metadata store both rely on (persistence.rs)    *)
(* and the recovery command (recovery.rs, run_recovery).                    *)
(*                                                                          *)
(* A step is one call on the store (each is one SQLite transaction or       *)
(* statement under the store's mutex) or one request handled by the node.   *)
(* A capture request a in Attempts stands for its attempt id and for its    *)
(* checkpoint id, both drawn fresh by request_capture.                      *)
(*                                                                          *)
(* A request sent to the node stays in `msgs' until the node takes it, the  *)
(* network drops it or the node process goes away. The caller waits at      *)
(* most 30 s, so it may give up while its request is still to be handled:   *)
(* a call that was handled but whose answer is lost is the case where the   *)
(* caller gives up just before the node acts. call_node never replays.      *)
(*                                                                          *)
(* Simplifications: min_valid_replicas = 1, the default, for which          *)
(* replicate_to_policy returns at once; the requests considered are the     *)
(* ones request_capture's validation admits; journal states that no code    *)
(* reads (reserved, sealed, resume_done), sizes, audit records and the      *)
(* integrity column are left out; the restore of a checkpoint is reduced    *)
(* to the lifecycle and generation changes a capture can observe.           *)
(***************************************************************************)
EXTENDS Naturals, FiniteSets, Lifecycle

CONSTANTS
    Attempts,               \* the capture requests
    None,                   \* "no checkpoint"
    Faults,                 \* what may go wrong, a subset of FaultKinds
    MaxEpoch,               \* bound: coordinator starts
    MaxBoot,                \* bound: node starts
    MaxWorkloadGeneration   \* bound: restores committed

\* "rpc"         calls are delayed past their timeout or lost
\* "store"       a store call returns an error, or a failpoint fires
\* "coordinator" the coordinator process dies and is started again
\* "node"        the node process dies and is started again, or goes stale
\* "provider"    a provider cannot resume its source
\* "overlap"     recovery is run, or a reservation expires, while a capture
\*               thread is still working
FaultKinds == {"rpc", "store", "coordinator", "node", "provider", "overlap"}

ASSUME FaultsAssumption == Faults \subseteq FaultKinds
ASSUME NoneAssumption == None \notin Attempts
ASSUME BoundsAssumption ==
    /\ MaxEpoch \in Nat
    /\ MaxBoot \in Nat
    /\ MaxWorkloadGeneration \in Nat

VARIABLES
    \* the metadata store
    lifecycle,              \* lifecycle column of a's row, "none" without a row
    generation,             \* checkpoint_generation chosen for a
    capturedAt,             \* workload_generation a was captured at
    anchored,               \* rows whose manifest digest is set
    located,                \* rows with a durable location
    supersedes,             \* row -> row
    supersededBy,           \* row -> row
    lineage,                \* SUPERSEDES records <<newer, older>>
    attempt,                \* state of the attempt record
    reservation,            \* state of the capture reservation
    persisted,              \* attempts with journal state persisted
    dbCommitted,            \* attempts with journal state db_committed
    workloadGeneration,     \* the workload's generation
    checkpointGeneration,   \* the workload's checkpoint_generation
    \* the coordinator process
    epoch,                  \* its epoch
    pc,                     \* where the thread serving a is
    home,                   \* the node (boot) picked for a
    sawCommitted,           \* `committed' of abort_capture_attempt
    recPc,                  \* where the recovery command is
    recTodo,                \* ACTIVE attempts still to be reconciled
    recCur,                 \* the attempt being reconciled
    recSaw,                 \* its lifecycle as read by reconcile_attempt
    recActions,             \* attempts with a recovery action to apply
    recDelete,              \* those whose action is failed_cleanup
    \* the node process
    boot,                   \* incarnation: each start has a fresh node id
    active,                 \* incarnations the store lists as ACTIVE
    nodeEpoch,              \* coordinator epoch it registered with
    staging,                \* staging directories
    leased,                 \* staging leases
    committed,              \* committed checkpoint directories
    capturing,              \* do_capture calls in progress
    quiesced,               \* quiesced_captures
    paused,                 \* the source is quiesced
    msgs                    \* requests on their way to the node

rowVars    == <<lifecycle, generation, capturedAt, anchored, located,
                supersedes, supersededBy, lineage>>
bookVars   == <<attempt, reservation, persisted, dbCommitted>>
workVars   == <<workloadGeneration, checkpointGeneration>>
storeVars  == <<rowVars, bookVars, workVars>>
threadVars == <<pc, home, sawCommitted>>
recVars    == <<recPc, recTodo, recCur, recSaw, recActions, recDelete>>
nodeVars   == <<boot, active, nodeEpoch, staging, leased, committed, capturing,
                quiesced, paused>>
vars == <<storeVars, epoch, threadVars, recVars, nodeVars, msgs>>

Rows == {a \in Attempts : lifecycle[a] # "none"}

ExecLabels ==
    {"begin", "insert", "enter", "wait_capture", "captured", "validating", "seal",
     "sealed", "persisting", "wait_promote", "promoted", "journal", "commit",
     "send_resume", "wait_resume", "resume_failed", "finish", "release"}
AbortLabels ==
    {"abort", "abort_resume", "abort_resumed", "abort_cleanup", "abort_read",
     "abort_fail", "abort_finish", "abort_release"}
Labels == {"idle", "reserve", "done", "dead"} \cup ExecLabels \cup AbortLabels
RecLabels ==
    {"idle", "reconcile", "get", "commit", "reject", "finish_ok", "finish_fail",
     "release", "node", "wait_resume", "cleanup", "wait_cleanup"}

\* The thread serving a exists and has not returned.
Live(a) == pc[a] \notin {"idle", "done", "dead"}

Messages ==
    [op : {"capture", "promote", "resume", "cleanup"}, att : Attempts,
     by : {"exec", "abort", "recovery"}, epoch : Nat, delete : BOOLEAN]

Init ==
    /\ lifecycle = [a \in Attempts |-> "none"]
    /\ generation = [a \in Attempts |-> 0]
    /\ capturedAt = [a \in Attempts |-> 0]
    /\ anchored = {}
    /\ located = {}
    /\ supersedes = [a \in Attempts |-> None]
    /\ supersededBy = [a \in Attempts |-> None]
    /\ lineage = {}
    /\ attempt = [a \in Attempts |-> "none"]
    /\ reservation = [a \in Attempts |-> "none"]
    /\ persisted = {}
    /\ dbCommitted = {}
    /\ workloadGeneration = 0
    /\ checkpointGeneration = 0
    /\ epoch = 1
    /\ pc = [a \in Attempts |-> "idle"]
    /\ home = [a \in Attempts |-> 0]
    /\ sawCommitted = [a \in Attempts |-> FALSE]
    /\ recPc = "idle"
    /\ recTodo = {}
    /\ recCur = None
    /\ recSaw = "none"
    /\ recActions = {}
    /\ recDelete = {}
    /\ boot = 1
    /\ active = {1}
    /\ nodeEpoch = 1
    /\ staging = {}
    /\ leased = {}
    /\ committed = {}
    /\ capturing = {}
    /\ quiesced = {}
    /\ paused = FALSE
    /\ msgs = {}

------------------------------------------------------------------------------
(* Transactions of the store *)

\* The rows capture_commit looks for neighbours among.
Visible(b) == IsRestorable(lifecycle[b])

\* Mutant: the newest visible row, whatever its generation.
IsPrevNewest(a, p) ==
    LET others == {b \in Attempts \ {a} : Visible(b)}
    IN  \/ p = None /\ others = {}
        \/ p \in others /\ \A b \in others : generation[b] <= generation[p]

\* p is the visible neighbour just below a's generation, or None.
IsPrev(a, p) ==
    LET below == {b \in Attempts : Visible(b) /\ generation[b] < generation[a]}
    IN  \/ p = None /\ below = {}
        \/ p \in below /\ \A b \in below : generation[b] <= generation[p]

\* n is the visible neighbour just above it, or None.
IsNext(a, n) ==
    LET above == {b \in Attempts : Visible(b) /\ generation[b] > generation[a]}
    IN  \/ n = None /\ above = {}
        \/ n \in above /\ \A b \in above : generation[n] <= generation[b]

\* Mutant: the workload's generation is not checked.
CommitAcceptsAnyGeneration(a) ==
    lifecycle[a] \in {"PERSISTING", "AVAILABLE"} /\ a \in located \cap anchored

\* The checks of capture_commit; when one fails the transaction is an error.
CommitAccepts(a) ==
    /\ lifecycle[a] \in {"PERSISTING", "AVAILABLE"}
    /\ a \in located
    /\ a \in anchored
    /\ lifecycle[a] = "PERSISTING" => capturedAt[a] = workloadGeneration

\* Row a is linked in between its neighbours p and n.
Relink(a, p, n) ==
    /\ supersedes' = [b \in Attempts |-> CASE b = a -> p
                                           [] b = n -> a
                                           [] OTHER -> supersedes[b]]
    /\ supersededBy' = [b \in Attempts |-> CASE b = a -> n
                                             [] b = p -> a
                                             [] OTHER -> supersededBy[b]]

\* The lineage record of a superseding p, if there is such a p.
SupersedesRecord(a, p) == {<<a, p>>} \ {<<a, None>>}

\* The transaction of capture_commit: the row becomes AVAILABLE and is linked
\* with its neighbours, the workload's counter never goes back, and the journal
\* records db_committed.
CommitTx(a) ==
    \E p, n \in Attempts \cup {None} :
        /\ IsPrev(a, p)
        /\ IsNext(a, n)
        /\ lifecycle' = [lifecycle EXCEPT ![a] = "AVAILABLE"]
        /\ Relink(a, p, n)
        /\ lineage' = lineage \cup SupersedesRecord(a, p)
        /\ checkpointGeneration' = IF generation[a] >= checkpointGeneration
                                   THEN generation[a] ELSE checkpointGeneration
        /\ dbCommitted' = dbCommitted \cup {a}
        /\ UNCHANGED <<generation, capturedAt, anchored, located,
                       attempt, reservation, persisted, workloadGeneration>>

\* set_lifecycle: read the durable state, check the transition, write. Until
\* a's PERSISTED record is journaled no other thread writes a's row, so the
\* read and the write are one step.
SetLifecycle(a, target) ==
    /\ CanTransition(lifecycle[a], target)
    /\ lifecycle' = [lifecycle EXCEPT ![a] = target]

AttemptFinish(a, state) == attempt' = [attempt EXCEPT ![a] = state]

\* reservation_release touches ACTIVE reservations only.
ReservationRelease(a) ==
    reservation' = IF reservation[a] = "ACTIVE"
                   THEN [reservation EXCEPT ![a] = "RELEASED"] ELSE reservation

------------------------------------------------------------------------------
(* Calls to the node *)

Goto(a, label) == pc' = [pc EXCEPT ![a] = label]

\* call_node: connecting to an incarnation that is gone fails at once.
Send(op, a, by, delete) ==
    msgs' = IF home[a] = boot
            THEN msgs \cup {[op |-> op, att |-> a, by |-> by, epoch |-> epoch,
                             delete |-> delete]}
            ELSE msgs

\* Where the caller of m waits.
WaitLabel(m) ==
    CASE m.by = "exec" /\ m.op = "capture"   -> "wait_capture"
      [] m.by = "exec" /\ m.op = "promote"   -> "wait_promote"
      [] m.by = "exec" /\ m.op = "resume"    -> "wait_resume"
      [] m.by = "abort" /\ m.op = "resume"   -> "abort_resume"
      [] m.by = "abort" /\ m.op = "cleanup"  -> "abort_cleanup"
      [] m.by = "recovery" /\ m.op = "resume" -> "wait_resume"
      [] OTHER                               -> "wait_cleanup"

\* Where a thread waiting at a label goes on result "ok", on a structured
\* refusal ("refused": ok = false in the answer), and on an error. The aborting
\* thread ignores the result.
Resumption(label, result) ==
    CASE label = "abort_resume"  -> "abort_resumed"
      [] label = "abort_cleanup" -> "abort_read"
      [] label = "wait_capture" /\ result = "ok" -> "captured"
      [] label = "wait_promote" /\ result = "ok" -> "promoted"
      [] label = "wait_resume" /\ result = "ok" -> "finish"
      [] label = "wait_resume" /\ result = "refused" -> "resume_failed"
      [] OTHER -> "abort"

RecResumption(label, result) ==
    CASE label = "wait_resume" /\ result = "ok" -> "cleanup"
      [] label = "wait_cleanup" /\ result = "ok" -> "node"
      [] OTHER -> "idle"

RecWaiting(m) == /\ m.by = "recovery"
                 /\ recCur = m.att
                 /\ recPc = WaitLabel(m)
ThreadWaiting(m) == m.by # "recovery" /\ pc[m.att] = WaitLabel(m)

\* The recovery command returns; what it held in memory is gone.
RecoveryReturns ==
    /\ recPc' = "idle"
    /\ recTodo' = {}
    /\ recCur' = None
    /\ recSaw' = "none"
    /\ recActions' = {}
    /\ recDelete' = {}

\* The recovery command goes on after a call to the node, or returns its error.
RecoveryAnswered(result) ==
    IF RecResumption(recPc, result) = "idle"
    THEN RecoveryReturns
    ELSE /\ recPc' = RecResumption(recPc, result)
         /\ UNCHANGED <<recTodo, recCur, recSaw, recActions, recDelete>>

\* The node's answer to m reaches the caller if it is still waiting for it.
Answer(m, result) ==
    /\ pc' = IF ThreadWaiting(m)
             THEN [pc EXCEPT ![m.att] = Resumption(@, result)] ELSE pc
    /\ IF RecWaiting(m) THEN RecoveryAnswered(result) ELSE UNCHANGED recVars
    /\ UNCHANGED <<home, sawCommitted>>

------------------------------------------------------------------------------
(* The thread of request_capture and execute_capture *)

\* request_capture up to the reservation: pick an ACTIVE node, read the workload
\* and the highest generation in use.
RequestCapture(a) ==
    /\ pc[a] = "idle"
    /\ \E b \in active : home' = [home EXCEPT ![a] = b]
    /\ \E g \in {0} \cup {generation[b] : b \in Rows} :
        /\ \A b \in Rows : generation[b] <= g
        /\ generation' = [generation EXCEPT ![a] = g + 1]
    /\ capturedAt' = [capturedAt EXCEPT ![a] = workloadGeneration]
    /\ Goto(a, "reserve")
    /\ UNCHANGED <<lifecycle, anchored, located, supersedes, supersededBy, lineage,
                   bookVars, workVars, epoch, sawCommitted, recVars, nodeVars, msgs>>

\* reservation_create: the unique index admits one ACTIVE capture reservation.
Reserve(a) ==
    /\ pc[a] = "reserve"
    /\ IF \E b \in Attempts : reservation[b] = "ACTIVE"
       THEN Goto(a, "done") /\ UNCHANGED reservation
       ELSE /\ reservation' = [reservation EXCEPT ![a] = "ACTIVE"]
            /\ Goto(a, "begin")
    /\ UNCHANGED <<rowVars, attempt, persisted, dbCommitted, workVars, epoch, home,
                   sawCommitted, recVars, nodeVars, msgs>>

BeginAttempt(a) ==
    /\ pc[a] = "begin"
    /\ attempt' = [attempt EXCEPT ![a] = "ACTIVE"]
    /\ Goto(a, "insert")
    /\ UNCHANGED <<rowVars, reservation, persisted, dbCommitted, workVars, epoch,
                   home, sawCommitted, recVars, nodeVars, msgs>>

\* Mutant: the counter moves when the scaffold is inserted.
InsertScaffoldAndCount(a) ==
    /\ pc[a] = "insert"
    /\ \A b \in Rows : generation[b] # generation[a]
    /\ lifecycle' = [lifecycle EXCEPT ![a] = "CREATED"]
    /\ checkpointGeneration' = generation[a]
    /\ Goto(a, "enter")
    /\ UNCHANGED <<generation, capturedAt, anchored, located, supersedes,
                   supersededBy, lineage, bookVars, workloadGeneration, epoch, home,
                   sawCommitted, recVars, nodeVars, msgs>>

\* checkpoint_insert: (workload, generation) is unique.
InsertScaffold(a) ==
    /\ pc[a] = "insert"
    /\ IF \E b \in Rows : generation[b] = generation[a]
       THEN Goto(a, "abort") /\ UNCHANGED lifecycle
       ELSE /\ lifecycle' = [lifecycle EXCEPT ![a] = "CREATED"]
            /\ Goto(a, "enter")
    /\ UNCHANGED <<generation, capturedAt, anchored, located, supersedes,
                   supersededBy, lineage, bookVars, workVars, epoch, home,
                   sawCommitted, recVars, nodeVars, msgs>>

\* A set_lifecycle call of execute_capture on the way from one label to another.
LifecycleStep(a, from, target, to) ==
    /\ pc[a] = from
    /\ SetLifecycle(a, target)
    /\ Goto(a, to)
    /\ UNCHANGED <<generation, capturedAt, anchored, located, supersedes,
                   supersededBy, lineage, bookVars, workVars, epoch, home,
                   sawCommitted, recVars, nodeVars>>

EnterCapturing(a) ==
    /\ LifecycleStep(a, "enter", "CAPTURING", "wait_capture")
    /\ Send("capture", a, "exec", FALSE)

\* validate_component_completeness and enforce_consistency accept the result.
AcceptCapture(a) ==
    LifecycleStep(a, "captured", "CAPTURED", "validating") /\ UNCHANGED msgs

\* ... or one of them refuses it.
RefuseCapture(a) ==
    /\ pc[a] = "captured"
    /\ Goto(a, "abort")
    /\ UNCHANGED <<storeVars, epoch, home, sawCommitted, recVars, nodeVars, msgs>>

EnterValidating(a) ==
    LifecycleStep(a, "validating", "VALIDATING", "seal") /\ UNCHANGED msgs

\* Mutant: the digest is not stored before the promotion is asked for.
SealManifestNoAnchor(a) ==
    /\ pc[a] = "seal"
    /\ Goto(a, "sealed")
    /\ UNCHANGED <<storeVars, epoch, home, sawCommitted, recVars, nodeVars, msgs>>

\* The manifest is sealed and its digest stored as the coordinator's anchor.
SealManifest(a) ==
    /\ pc[a] = "seal"
    /\ anchored' = anchored \cup {a}
    /\ Goto(a, "sealed")
    /\ UNCHANGED <<lifecycle, generation, capturedAt, located, supersedes,
                   supersededBy, lineage, bookVars, workVars, epoch, home,
                   sawCommitted, recVars, nodeVars, msgs>>

EnterSealed(a) ==
    LifecycleStep(a, "sealed", "SEALED", "persisting") /\ UNCHANGED msgs

EnterPersisting(a) ==
    /\ LifecycleStep(a, "persisting", "PERSISTING", "wait_promote")
    /\ Send("promote", a, "exec", FALSE)

\* Mutant: the image is written with the lifecycle the thread last read.
UpdateImageStale(a) ==
    /\ pc[a] = "promoted"
    /\ lifecycle' = [lifecycle EXCEPT ![a] = "SEALED"]
    /\ located' = located \cup {a}
    /\ Goto(a, "journal")
    /\ UNCHANGED <<generation, capturedAt, anchored, supersedes, supersededBy,
                   lineage, bookVars, workVars, epoch, home, sawCommitted, recVars,
                   nodeVars, msgs>>

\* checkpoint_update writes the whole image, lifecycle PERSISTING and the
\* location of the promoted directory included.
UpdateImage(a) ==
    /\ pc[a] = "promoted"
    /\ lifecycle' = [lifecycle EXCEPT ![a] = "PERSISTING"]
    /\ located' = located \cup {a}
    /\ Goto(a, "journal")
    /\ UNCHANGED <<generation, capturedAt, anchored, supersedes, supersededBy,
                   lineage, bookVars, workVars, epoch, home, sawCommitted, recVars,
                   nodeVars, msgs>>

\* Mutant: the record is not journaled.
JournalPersistedSkipped(a) ==
    /\ pc[a] = "journal"
    /\ Goto(a, "commit")
    /\ UNCHANGED <<storeVars, epoch, home, sawCommitted, recVars, nodeVars, msgs>>

\* The journal records that the physical commit and the image are complete.
JournalPersisted(a) ==
    /\ pc[a] = "journal"
    /\ persisted' = persisted \cup {a}
    /\ Goto(a, "commit")
    /\ UNCHANGED <<rowVars, attempt, reservation, dbCommitted, workVars, epoch,
                   home, sawCommitted, recVars, nodeVars, msgs>>

CaptureCommit(a) ==
    /\ pc[a] = "commit"
    /\ IF CommitAccepts(a)
       THEN CommitTx(a) /\ Goto(a, "send_resume")
       ELSE Goto(a, "abort") /\ UNCHANGED storeVars
    /\ UNCHANGED <<epoch, home, sawCommitted, recVars, nodeVars, msgs>>

SendResume(a) ==
    /\ pc[a] = "send_resume"
    /\ Send("resume", a, "exec", FALSE)
    /\ Goto(a, "wait_resume")
    /\ UNCHANGED <<storeVars, epoch, home, sawCommitted, recVars, nodeVars>>

\* A step of thread a that writes the attempt record.
FinishStep(a, from, state, to) ==
    /\ pc[a] = from
    /\ AttemptFinish(a, state)
    /\ Goto(a, to)
    /\ UNCHANGED <<rowVars, reservation, persisted, dbCommitted, workVars, epoch,
                   home, sawCommitted, recVars, nodeVars, msgs>>

\* A step of thread a that releases its reservation.
ReleaseStep(a, from, to) ==
    /\ pc[a] = from
    /\ ReservationRelease(a)
    /\ Goto(a, to)
    /\ UNCHANGED <<rowVars, attempt, persisted, dbCommitted, workVars, epoch, home,
                   sawCommitted, recVars, nodeVars, msgs>>

\* The source could not be resumed: execute_capture records it and returns the
\* error, on which request_capture aborts the attempt.
ResumeFailed(a) == FinishStep(a, "resume_failed", "RESUME_FAILED", "abort")

FinishCommitted(a) == FinishStep(a, "finish", "COMMITTED", "release")

\* After the release capture.after_commit may fire, and the attempt is aborted.
ReleaseCommitted(a) ==
    \/ ReleaseStep(a, "release", "done")
    \/ "store" \in Faults /\ ReleaseStep(a, "release", "abort")

\* Mutant: the calls of the aborting thread have no timeout.
GiveUpExecOnly(a) ==
    /\ pc[a] \in {"wait_capture", "wait_promote", "wait_resume"}
    /\ \/ "rpc" \in Faults
       \/ /\ \A m \in msgs : ~(m.att = a /\ ThreadWaiting(m))
          /\ ~(pc[a] = "wait_capture" /\ a \in capturing)
    /\ Goto(a, "abort")
    /\ UNCHANGED <<storeVars, epoch, home, sawCommitted, recVars, nodeVars, msgs>>

\* The call fails: no answer within the timeout, or none can come any more.
GiveUp(a) ==
    /\ pc[a] \in {"wait_capture", "wait_promote", "wait_resume", "abort_resume",
                  "abort_cleanup"}
    /\ \/ "rpc" \in Faults
       \/ /\ \A m \in msgs : ~(m.att = a /\ ThreadWaiting(m))
          /\ ~(pc[a] = "wait_capture" /\ a \in capturing)
    /\ Goto(a, Resumption(pc[a], "error"))
    /\ UNCHANGED <<storeVars, epoch, home, sawCommitted, recVars, nodeVars, msgs>>

\* A store call of the thread returns an error, or a failpoint fires: before
\* execute_capture the request just returns (at "insert", when the reserved
\* record cannot be journaled), inside it the attempt is aborted, and an abort
\* that meets an error stops where it is.
StoreError(a) ==
    /\ "store" \in Faults
    /\ \/ /\ pc[a] \in {"reserve", "begin", "insert", "abort", "abort_read",
                        "abort_fail", "abort_finish", "abort_release"}
          /\ Goto(a, "done")
       \/ /\ pc[a] \in {"insert", "enter", "captured", "validating", "seal", "sealed",
                        "persisting", "promoted", "journal", "commit",
                        "resume_failed", "finish", "release"}
          /\ Goto(a, "abort")
    /\ UNCHANGED <<storeVars, epoch, home, sawCommitted, recVars, nodeVars, msgs>>

------------------------------------------------------------------------------
(* abort_capture_attempt *)

\* Whether the capture committed is read once, before the calls to the node.
AbortStart(a) ==
    /\ pc[a] = "abort"
    /\ sawCommitted' = [sawCommitted EXCEPT ![a] = a \in dbCommitted]
    /\ Send("resume", a, "abort", FALSE)
    /\ Goto(a, "abort_resume")
    /\ UNCHANGED <<storeVars, epoch, home, recVars, nodeVars>>

\* An abort's request to clean up.
CleanupStep(a, delete) ==
    /\ pc[a] = "abort_resumed"
    /\ Send("cleanup", a, "abort", delete)
    /\ Goto(a, "abort_cleanup")
    /\ UNCHANGED <<storeVars, epoch, home, sawCommitted, recVars, nodeVars>>

\* Mutant: the checkpoint directory always goes.
AbortCleanupAll(a) == CleanupStep(a, TRUE)

\* The staging directory goes, and the checkpoint directory unless committed.
AbortCleanup(a) == CleanupStep(a, ~sawCommitted[a])

\* Mutant: the row is failed whatever has become of it.
AbortReadBlind(a) ==
    /\ pc[a] = "abort_read"
    /\ Goto(a, IF lifecycle[a] # "none" THEN "abort_fail" ELSE "abort_finish")
    /\ UNCHANGED <<storeVars, epoch, home, sawCommitted, recVars, nodeVars, msgs>>

\* The row is read again to decide whether it is to be failed.
AbortRead(a) ==
    /\ pc[a] = "abort_read"
    /\ Goto(a, IF /\ ~sawCommitted[a]
                  /\ lifecycle[a] \notin {"none", "AVAILABLE", "RESTORED", "RETIRED"}
               THEN "abort_fail" ELSE "abort_finish")
    /\ UNCHANGED <<storeVars, epoch, home, sawCommitted, recVars, nodeVars, msgs>>

\* checkpoint_set_lifecycle writes FAILED over whatever the row holds by now.
AbortFailRow(a) ==
    /\ pc[a] = "abort_fail"
    /\ lifecycle' = [lifecycle EXCEPT ![a] = "FAILED"]
    /\ Goto(a, "abort_finish")
    /\ UNCHANGED <<generation, capturedAt, anchored, located, supersedes,
                   supersededBy, lineage, bookVars, workVars, epoch, home,
                   sawCommitted, recVars, nodeVars, msgs>>

AbortFinish(a) ==
    FinishStep(a, "abort_finish",
               IF sawCommitted[a] THEN "COMMITTED" ELSE "FAILED", "abort_release")

AbortRelease(a) == ReleaseStep(a, "abort_release", "done")

------------------------------------------------------------------------------
(* Restores of the workload's checkpoints, as far as a capture can see them *)

\* A restore's write to the lifecycle of checkpoint c.
RestoreStep(c, from, target) ==
    /\ lifecycle[c] = from
    /\ lifecycle' = [lifecycle EXCEPT ![c] = target]
    /\ UNCHANGED <<generation, capturedAt, anchored, located, supersedes,
                   supersededBy, lineage, bookVars, epoch, threadVars, recVars,
                   nodeVars, msgs>>

RestoreBegin(c) ==
    /\ workloadGeneration < MaxWorkloadGeneration
    /\ RestoreStep(c, "AVAILABLE", "RESTORE_PENDING")
    /\ UNCHANGED workVars

RestoreApply(c) == RestoreStep(c, "RESTORE_PENDING", "RESTORING") /\ UNCHANGED workVars

\* abort_restore_attempt puts the checkpoint back.
RestoreAbort(c) ==
    /\ \/ RestoreStep(c, "RESTORE_PENDING", "AVAILABLE")
       \/ RestoreStep(c, "RESTORING", "AVAILABLE")
    /\ UNCHANGED workVars

\* restore_commit advances the workload's generation and sets its checkpoint
\* counter to the generation of the checkpoint restored.
RestoreCommit(c) ==
    /\ RestoreStep(c, "RESTORING", "RESTORED")
    /\ workloadGeneration < MaxWorkloadGeneration
    /\ workloadGeneration' = workloadGeneration + 1
    /\ checkpointGeneration' = generation[c]

------------------------------------------------------------------------------
(* The recovery command *)

\* reconcile: list the ACTIVE attempts.
RecoveryStart ==
    /\ recPc = "idle"
    /\ "overlap" \in Faults \/ \A a \in Attempts : ~Live(a)
    /\ {a \in Attempts : attempt[a] = "ACTIVE"} # {}
    /\ recTodo' = {a \in Attempts : attempt[a] = "ACTIVE"}
    /\ recPc' = "reconcile"
    /\ UNCHANGED <<storeVars, epoch, threadVars, recCur, recSaw, recActions,
                   recDelete, nodeVars, msgs>>

\* Mutant: a persisted capture is taken for a committed one.
RecoveryPickPersisted(a) ==
    /\ recPc = "reconcile"
    /\ a \in recTodo
    /\ recTodo' = recTodo \ {a}
    /\ recCur' = a
    /\ recPc' = IF a \in persisted THEN "finish_ok" ELSE "finish_fail"
    /\ UNCHANGED <<storeVars, epoch, threadVars, recSaw, recActions, recDelete,
                   nodeVars, msgs>>

\* Mutant: the attempt to be reconciled is not remembered.
RecoveryPickForgets(a) ==
    /\ recPc = "reconcile"
    /\ a \in recTodo
    /\ recTodo' = recTodo \ {a}
    /\ recPc' = "finish_fail"
    /\ UNCHANGED <<storeVars, epoch, threadVars, recCur, recSaw, recActions,
                   recDelete, nodeVars, msgs>>

\* reconcile_attempt for the next attempt: what does the journal say of it?
RecoveryPick(a) ==
    /\ recPc = "reconcile"
    /\ a \in recTodo
    /\ recTodo' = recTodo \ {a}
    /\ recCur' = a
    /\ recPc' = CASE a \in dbCommitted -> "finish_ok"
                  [] a \in persisted \ dbCommitted -> "get"
                  [] OTHER -> "finish_fail"
    /\ UNCHANGED <<storeVars, epoch, threadVars, recSaw, recActions, recDelete,
                   nodeVars, msgs>>

\* The row is read before its commit is tried again.
RecoveryGet ==
    /\ recPc = "get"
    /\ recSaw' = lifecycle[recCur]
    /\ recPc' = "commit"
    /\ UNCHANGED <<storeVars, epoch, threadVars, recTodo, recCur, recActions,
                   recDelete, nodeVars, msgs>>

\* capture_commit is run again; if it refuses, the promoted object is to go.
RecoveryCommit ==
    /\ recPc = "commit"
    /\ IF CommitAccepts(recCur)
       THEN CommitTx(recCur) /\ recPc' = "finish_ok" /\ UNCHANGED recDelete
       ELSE /\ recPc' = IF recSaw \in {"PERSISTING", "AVAILABLE"}
                        THEN "reject" ELSE "finish_fail"
            /\ recDelete' = recDelete \cup {recCur}
            /\ UNCHANGED storeVars
    /\ UNCHANGED <<epoch, threadVars, recTodo, recCur, recSaw, recActions, nodeVars,
                   msgs>>

\* The transition to FAILED is checked against the row as it was read.
RecoveryReject ==
    /\ recPc = "reject"
    /\ lifecycle' = [lifecycle EXCEPT ![recCur] = "FAILED"]
    /\ recPc' = "finish_fail"
    /\ UNCHANGED <<generation, capturedAt, anchored, located, supersedes,
                   supersededBy, lineage, bookVars, workVars, epoch, threadVars,
                   recTodo, recCur, recSaw, recActions, recDelete, nodeVars, msgs>>

RecoveryFinish ==
    /\ recPc \in {"finish_ok", "finish_fail"}
    /\ AttemptFinish(recCur, IF recPc = "finish_ok" THEN "COMMITTED" ELSE "FAILED")
    /\ recPc' = "release"
    /\ UNCHANGED <<rowVars, reservation, persisted, dbCommitted, workVars, epoch,
                   threadVars, recTodo, recCur, recSaw, recActions, recDelete,
                   nodeVars, msgs>>

RecoveryRelease ==
    /\ recPc = "release"
    /\ ReservationRelease(recCur)
    /\ recActions' = recActions \cup {recCur}
    /\ recPc' = IF recTodo = {} THEN "node" ELSE "reconcile"
    /\ UNCHANGED <<rowVars, attempt, persisted, dbCommitted, workVars, epoch,
                   threadVars, recTodo, recCur, recSaw, recDelete, nodeVars, msgs>>

\* run_recovery applies the actions one by one: the source of an attempt whose
\* node is ACTIVE is resumed, then its directories are cleaned up.
RecoveryApply(a) ==
    /\ recPc = "node"
    /\ a \in recActions
    /\ recActions' = recActions \ {a}
    /\ recCur' = a
    /\ IF home[a] \in active
       THEN Send("resume", a, "recovery", FALSE) /\ recPc' = "wait_resume"
       ELSE UNCHANGED <<msgs, recPc>>
    /\ UNCHANGED <<storeVars, epoch, threadVars, recTodo, recSaw, recDelete, nodeVars>>

RecoveryCleanup ==
    /\ recPc = "cleanup"
    /\ Send("cleanup", recCur, "recovery", recCur \in recDelete)
    /\ recPc' = "wait_cleanup"
    /\ UNCHANGED <<storeVars, epoch, threadVars, recTodo, recCur, recSaw, recActions,
                   recDelete, nodeVars>>

RecoveryDone ==
    /\ recPc = "node"
    /\ recActions = {}
    /\ RecoveryReturns
    /\ UNCHANGED <<storeVars, epoch, threadVars, nodeVars, msgs>>

\* The command returns an error, whatever actions are left: a store call fails,
\* or the node does not answer.
RecoveryError ==
    /\ \/ "store" \in Faults /\ recPc \notin {"idle", "wait_resume", "wait_cleanup"}
       \/ /\ recPc \in {"wait_resume", "wait_cleanup"}
          /\ "rpc" \in Faults \/ \A m \in msgs : ~RecWaiting(m)
    /\ RecoveryReturns
    /\ UNCHANGED <<storeVars, epoch, threadVars, nodeVars, msgs>>

------------------------------------------------------------------------------
(* The node: one action per request handled, or per half of do_capture *)

Receive(m, op) ==
    /\ m \in msgs
    /\ m.op = op
    /\ m.epoch = nodeEpoch
    /\ msgs' = msgs \ {m}

\* check_epoch refuses a request of another coordinator epoch.
RefuseEpoch(m) ==
    /\ m \in msgs
    /\ m.epoch # nodeEpoch
    /\ msgs' = msgs \ {m}
    /\ Answer(m, "error")
    /\ UNCHANGED <<storeVars, epoch, nodeVars>>

\* do_capture begins: a fresh staging directory under a lease, and the providers
\* quiesce the source.
CaptureBegin(m) ==
    /\ Receive(m, "capture")
    /\ capturing' = capturing \cup {m.att}
    /\ staging' = staging \cup {m.att}
    /\ leased' = leased \cup {m.att}
    /\ paused' = TRUE
    /\ UNCHANGED <<storeVars, epoch, threadVars, recVars, boot, active, nodeEpoch,
                   committed, quiesced>>

CaptureCall(a) == [op |-> "capture", att |-> a, by |-> "exec", epoch |-> nodeEpoch,
                   delete |-> FALSE]

\* do_capture succeeds. Writing a component creates the staging directory, so one
\* that a cleanup removed meanwhile may be back, without its lease.
CaptureSucceeds(a) ==
    /\ a \in capturing
    /\ capturing' = capturing \ {a}
    /\ quiesced' = quiesced \cup {a}
    /\ staging' \in {staging, staging \cup {a}}
    /\ Answer(CaptureCall(a), "ok")
    /\ UNCHANGED <<storeVars, epoch, boot, active, nodeEpoch, leased, committed,
                   paused, msgs>>

\* do_capture fails: the providers abort, which resumes the source, and the
\* staging directory goes.
CaptureFails(a) ==
    /\ a \in capturing
    /\ capturing' = capturing \ {a}
    /\ staging' = staging \ {a}
    /\ leased' = leased \ {a}
    /\ paused' = FALSE
    /\ Answer(CaptureCall(a), "refused")
    /\ UNCHANGED <<storeVars, epoch, boot, active, nodeEpoch, committed, quiesced, msgs>>

\* do_promote: rename the staging directory, unless it is missing or the
\* checkpoint directory exists.
Promote(m) ==
    /\ Receive(m, "promote")
    /\ IF m.att \in staging /\ m.att \notin committed
       THEN /\ staging' = staging \ {m.att}
            /\ leased' = leased \ {m.att}
            /\ committed' = committed \cup {m.att}
            /\ Answer(m, "ok")
       ELSE Answer(m, "refused") /\ UNCHANGED <<staging, leased, committed>>
    /\ UNCHANGED <<storeVars, epoch, boot, active, nodeEpoch, capturing, quiesced, paused>>

\* do_resume without an authority grant: nothing to do unless the attempt's
\* capture completed here; the entry is consumed whether or not the providers
\* then resume.
Resume(m) ==
    /\ Receive(m, "resume")
    /\ quiesced' = quiesced \ {m.att}
    /\ \/ /\ paused' = IF m.att \in quiesced THEN FALSE ELSE paused
          /\ Answer(m, "ok")
       \/ /\ "provider" \in Faults
          /\ m.att \in quiesced
          /\ UNCHANGED paused
          /\ Answer(m, "refused")
    /\ UNCHANGED <<storeVars, epoch, boot, active, nodeEpoch, staging, leased,
                   committed, capturing>>

\* do_cleanup
Cleanup(m) ==
    /\ Receive(m, "cleanup")
    /\ staging' = staging \ {m.att}
    /\ leased' = leased \ {m.att}
    /\ committed' = IF m.delete THEN committed \ {m.att} ELSE committed
    /\ Answer(m, "ok")
    /\ UNCHANGED <<storeVars, epoch, boot, active, nodeEpoch, capturing, quiesced, paused>>

\* The sweep every ten heartbeats removes old staging directories without a lease.
SweepStaging(a) ==
    /\ a \in staging \ leased
    /\ staging' = staging \ {a}
    /\ UNCHANGED <<storeVars, epoch, threadVars, recVars, boot, active, nodeEpoch,
                   leased, committed, capturing, quiesced, paused, msgs>>

\* A heartbeat's inventory adds a location to each row it names
\* (checkpoint_rebind_location); the coordinator takes it from ACTIVE nodes of its
\* own epoch.
Heartbeat ==
    /\ nodeEpoch = epoch
    /\ boot \in active
    /\ located' = located \cup (committed \cap Rows)
    /\ UNCHANGED <<lifecycle, generation, capturedAt, anchored, supersedes,
                   supersededBy, lineage, bookVars, workVars, epoch, threadVars,
                   recVars, nodeVars, msgs>>

------------------------------------------------------------------------------
(* Faults and time *)

LoseMessage(m) ==
    /\ "rpc" \in Faults
    /\ m \in msgs
    /\ msgs' = msgs \ {m}
    /\ UNCHANGED <<storeVars, epoch, threadVars, recVars, nodeVars>>

\* Mutant: the reservation of an attempt still listed as ACTIVE is kept.
ExpireReservationFinished(a) ==
    /\ reservation[a] = "ACTIVE"
    /\ attempt[a] # "ACTIVE"
    /\ "overlap" \in Faults \/ ~Live(a)
    /\ reservation' = [reservation EXCEPT ![a] = "EXPIRED"]
    /\ UNCHANGED <<rowVars, attempt, persisted, dbCommitted, workVars, epoch,
                   threadVars, recVars, nodeVars, msgs>>

\* reservations_expire, by the monitor or at the start of recovery: a reservation
\* lives 600 s, several times what a capture's four calls may take.
ExpireReservation(a) ==
    /\ reservation[a] = "ACTIVE"
    /\ "overlap" \in Faults \/ ~Live(a)
    /\ reservation' = [reservation EXCEPT ![a] = "EXPIRED"]
    /\ UNCHANGED <<rowVars, attempt, persisted, dbCommitted, workVars, epoch,
                   threadVars, recVars, nodeVars, msgs>>

\* The coordinator dies, with its threads, and starts with the next epoch
\* (claim_coordinator_epoch). Requests already sent are still under way.
CoordinatorRestart ==
    /\ "coordinator" \in Faults
    /\ epoch < MaxEpoch
    /\ epoch' = epoch + 1
    /\ pc' = [a \in Attempts |-> IF Live(a) THEN "dead" ELSE pc[a]]
    /\ RecoveryReturns
    /\ UNCHANGED <<storeVars, home, sawCommitted, nodeVars, msgs>>

\* The node process ends and is started again over the same data directory: staging
\* is emptied, what it kept in memory is gone, and it registers under a fresh id.
NodeRestart ==
    /\ "node" \in Faults
    /\ boot < MaxBoot
    /\ boot' = boot + 1
    /\ active' = active \cup {boot + 1}
    /\ nodeEpoch' = epoch
    /\ staging' = {}
    /\ leased' = {}
    /\ capturing' = {}
    /\ quiesced' = {}
    /\ paused' = FALSE
    /\ msgs' = {}
    /\ located' = located \cup (committed \cap Rows)
    /\ UNCHANGED <<lifecycle, generation, capturedAt, anchored, supersedes,
                   supersededBy, lineage, bookVars, workVars, epoch, threadVars,
                   recVars, committed>>

\* A node whose heartbeats stay away is marked STALE.
MarkStale(b) ==
    /\ "node" \in Faults
    /\ b \in active
    /\ active' = active \ {b}
    /\ UNCHANGED <<storeVars, epoch, threadVars, recVars, boot, nodeEpoch, staging,
                   leased, committed, capturing, quiesced, paused, msgs>>

------------------------------------------------------------------------------

\* What the thread serving a does once it has been asked to.
ThreadStep(a) ==
    \/ Reserve(a) \/ BeginAttempt(a) \/ InsertScaffold(a) \/ EnterCapturing(a)
    \/ AcceptCapture(a) \/ RefuseCapture(a) \/ EnterValidating(a) \/ SealManifest(a)
    \/ EnterSealed(a) \/ EnterPersisting(a) \/ UpdateImage(a) \/ JournalPersisted(a)
    \/ CaptureCommit(a) \/ SendResume(a) \/ ResumeFailed(a) \/ FinishCommitted(a)
    \/ ReleaseCommitted(a) \/ GiveUp(a) \/ StoreError(a)
    \/ AbortStart(a) \/ AbortCleanup(a) \/ AbortRead(a) \/ AbortFailRow(a)
    \/ AbortFinish(a) \/ AbortRelease(a)

RestoreNext(c) == RestoreBegin(c) \/ RestoreApply(c) \/ RestoreAbort(c) \/ RestoreCommit(c)

RecoveryStep ==
    \/ RecoveryGet \/ RecoveryCommit \/ RecoveryReject \/ RecoveryFinish
    \/ RecoveryRelease \/ RecoveryCleanup \/ RecoveryDone \/ RecoveryError
    \/ \E a \in Attempts : RecoveryPick(a) \/ RecoveryApply(a)

\* The node handles a request, or completes a capture.
NodeStep ==
    \/ \E m \in msgs : RefuseEpoch(m) \/ CaptureBegin(m) \/ Promote(m) \/ Resume(m)
                       \/ Cleanup(m)
    \/ \E a \in Attempts : CaptureSucceeds(a) \/ CaptureFails(a)

Next ==
    \/ \E a \in Attempts : RequestCapture(a) \/ ThreadStep(a) \/ RestoreNext(a)
                           \/ ExpireReservation(a) \/ SweepStaging(a)
    \/ RecoveryStart \/ RecoveryStep
    \/ NodeStep \/ Heartbeat
    \/ \E m \in msgs : LoseMessage(m)
    \/ CoordinatorRestart \/ NodeRestart \/ \E b \in active : MarkStale(b)

Spec == Init /\ [][Next]_vars

\* Threads and the node's handlers run, a call ends within its timeout, and the
\* monitor expires reservations. Clients need not ask for anything and nobody needs
\* to run recovery.
Fairness ==
    /\ \A a \in Attempts : WF_vars(ThreadStep(a)) /\ WF_vars(ExpireReservation(a))
    /\ WF_vars(NodeStep)
    /\ WF_vars(RecoveryStep)

FairSpec == Spec /\ Fairness

------------------------------------------------------------------------------
(* Properties *)

\* The variables hold values of their kind.
TypeOK ==
    /\ lifecycle \in [Attempts -> LifecycleStates \cup {"none"}]
    /\ generation \in [Attempts -> Nat]
    /\ capturedAt \in [Attempts -> Nat]
    /\ anchored \subseteq Attempts
    /\ located \subseteq Attempts
    /\ supersedes \in [Attempts -> Attempts \cup {None}]
    /\ supersededBy \in [Attempts -> Attempts \cup {None}]
    /\ lineage \subseteq Attempts \X Attempts
    /\ attempt \in [Attempts -> {"none", "ACTIVE", "COMMITTED", "FAILED", "RESUME_FAILED"}]
    /\ reservation \in [Attempts -> {"none", "ACTIVE", "RELEASED", "EXPIRED"}]
    /\ persisted \subseteq Attempts
    /\ dbCommitted \subseteq Attempts
    /\ workloadGeneration \in Nat
    /\ checkpointGeneration \in Nat
    /\ epoch \in Nat
    /\ pc \in [Attempts -> Labels]
    /\ home \in [Attempts -> Nat]
    /\ sawCommitted \in [Attempts -> BOOLEAN]
    /\ recPc \in RecLabels
    /\ recTodo \subseteq Attempts
    /\ recCur \in Attempts \cup {None}
    /\ recPc \notin {"idle", "reconcile", "node"} => recCur \in Attempts
    /\ recSaw \in LifecycleStates \cup {"none"}
    /\ recActions \subseteq Attempts
    /\ recDelete \subseteq Attempts
    /\ boot \in Nat
    /\ active \subseteq Nat
    /\ nodeEpoch \in Nat
    /\ staging \subseteq Attempts
    /\ leased \subseteq Attempts
    /\ committed \subseteq Attempts
    /\ capturing \subseteq Attempts
    /\ quiesced \subseteq Attempts
    /\ paused \in BOOLEAN
    /\ msgs \subseteq Messages

\* A row that capture_commit has made AVAILABLE, or a restore has taken further.
Committed(a) == lifecycle[a] \in {"AVAILABLE", "RESTORE_PENDING", "RESTORING", "RESTORED"}

\* "A checkpoint becomes AVAILABLE only after atomic local promotion and a complete
\* recoverable metadata image": whoever commits it, the thread or recovery, the row
\* has its manifest anchor and a location and the journal holds both records.
CommitIsEvidenced ==
    \A a \in Attempts :
        Committed(a) => a \in anchored \cap located \cap persisted \cap dbCommitted

\* An attempt is recorded as COMMITTED only if its metadata commit happened, however
\* thread, abort and recovery race to finish it.
NoFalseSuccess ==
    \A a \in Attempts : attempt[a] = "COMMITTED" => a \in dbCommitted

\* The node holds a checkpoint directory only for a manifest the coordinator has
\* anchored, even when a promotion is handled long after its caller gave up.
PromotedIsAnchored == committed \subseteq anchored

\* Supersession links point from a newer generation to an older one, so they form
\* no cycle, even when captures commit out of order.
SupersessionOrdered ==
    \A a, b \in Attempts :
        /\ supersedes[a] = b => generation[b] < generation[a]
        /\ supersededBy[a] = b => generation[a] < generation[b]

\* The workload's checkpoint counter is 0 or the generation of a checkpoint that was
\* committed: an aborted capture never moves it.
CounterNamesCommit ==
    checkpointGeneration # 0 =>
        \E a \in dbCommitted : generation[a] = checkpointGeneration

\* Every write to a row's lifecycle follows the transition table, save the abort
\* that fails a row still CREATED: the abort, the image update and capture_commit
\* write without consulting the table.
LifecycleFollowsTable ==
    [][\A a \in Attempts :
        lifecycle'[a] # lifecycle[a] =>
            \/ lifecycle[a] = "none" /\ lifecycle'[a] = "CREATED"
            \/ CanTransition(lifecycle[a], lifecycle'[a])
            \/ lifecycle[a] = "CREATED" /\ lifecycle'[a] = "FAILED"]_vars

\* A committed checkpoint has its directory on the node.
CommittedHasData == \A a \in Attempts : Committed(a) => a \in committed

\* Once capture_commit has run for a checkpoint, neither its row nor its attempt is ever
\* recorded as FAILED, even when its thread died at any point and recovery decided.
CommitIsFinal == \A a \in dbCommitted : lifecycle[a] # "FAILED" /\ attempt[a] # "FAILED"

\* Links are reciprocal: a supersedes b exactly when b is superseded by a. A lineage record,
\* which is never taken back, names two checkpoints that committed, the newer first. (A link
\* need not have a record: capture_commit writes none for the newer neighbour of a row that
\* commits late.)
SupersessionReciprocal ==
    /\ \A a, b \in Attempts : supersedes[a] = b <=> supersededBy[b] = a
    /\ \A a, b \in Attempts : <<a, b>> \in lineage =>
           {a, b} \subseteq dbCommitted /\ generation[b] < generation[a]

\* Every capture request is answered.
RequestsEnd == \A a \in Attempts : pc[a] = "reserve" ~> pc[a] \in {"done", "dead"}

\* A reservation does not outlive its capture for ever.
ReservationsEnd == \A a \in Attempts : reservation[a] = "ACTIVE" ~> reservation[a] # "ACTIVE"

\* The capture as its readers see it: a row is pending until it is committed or failed.
StatusOf(a) ==
    CASE lifecycle[a] = "none"   -> "absent"
      [] lifecycle[a] = "FAILED" -> "failed"
      [] Committed(a)            -> "committed"
      [] OTHER                   -> "pending"

Abstract == INSTANCE CheckpointCommit WITH
    Checkpoints <- Attempts,
    status <- [a \in Attempts |-> StatusOf(a)],
    number <- [a \in Attempts |-> IF a \in Rows THEN generation[a] ELSE 0],
    base <- [a \in Attempts |-> IF a \in Rows THEN capturedAt[a] ELSE 0],
    workload <- workloadGeneration,
    counter <- checkpointGeneration

\* The protocol of threads, node and recovery implements CheckpointCommit: commits
\* are atomic and final, and a late or repeated commit attempt never shows.
CommitsAtomically == Abstract!Spec
==============================================================================
