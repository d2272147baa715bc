# Checkpoint Fabric in TLA+

Models of the protocols of Checkpoint Fabric, of what a restore does to its target and of
what the coordinator admits and claims, the TLC configurations that check them on
small instances, and TLAPS proofs of their safety properties for all instances. Paths like
`coordinator.rs` are under `src/src/` of the repository; `PROJECT.json` maps every
definition to its lines.

    tlc -workers 2 -config MCCapture_quiet.cfg MCCapture     # one run
    tlapm CaptureProofs.tla                                  # one module's proofs

## 1. The system

A **coordinator** process serves clients, each request in a thread of its own, and keeps
all metadata in one **SQLite store** behind a mutex. **Node** processes run beside the
workloads; the coordinator calls them, and they call it to register, attach workloads and
send heartbeats. A call is sent once and answered or given up after a timeout
(`transport.rs`, `Coordinator::call_node`); a call given up may still be handled.

| component | state it keeps | operations | correct when |
|---|---|---|---|
| capture protocol (`coordinator.rs` 499-875) | the thread's position | `request_capture`, `execute_capture`, `abort_capture_attempt` | a checkpoint becomes AVAILABLE only with data, anchor and journal; failures free the source |
| checkpoint lifecycle (`lifecycle.rs`) | none | `can_transition`, `is_restorable` | all writers follow the table |
| restore, rollback, migration (`coordinator.rs` 989-1458, `restore.rs`) | the thread's position | `request_restore`, `execute_restore`, `abort_restore_attempt`, `migrate`, `fork` | a restore is reported iff its generation commit happened; a failed one is rolled back |
| workload authority (`coordinator.rs` 440-500, 2358-2400; `workload.rs`) | `active_node`, `fence_token`, `execution_epoch` | attach, detach, fence, sweep, heartbeat judgement | at most one node holds the current token; a stale grant never becomes current |
| recovery (`recovery.rs`, `run_recovery`) | none of its own | reconcile ACTIVE attempts, then call nodes | interrupted work is committed or failed, never both |
| replicas (`coordinator.rs` 905-986, 1460-1632, 1876-1938; `node.rs` 976-1413) | locations, integrity, protection; directories on nodes | replicate, fetch, verify, protect, retire, rebind | damage does not spread, protected copies stay, retirement deletes before it forgets |
| store (`persistence.rs`) | all rows | one transaction or statement per call | - |
| node runtime (`node.rs`, `storage.rs`) | staging, leases, committed directories, attached workloads | one handler per request, heartbeat loop, sweep | promotion is atomic and never overwrites |
| providers (`providers.rs`) | rollback journals in memory and on disk; the registry of a node | capture, quiesce, resume, restore, commit, clean up | a restore can be undone until it commits, by a new process too, and a cleanup undoes exactly it |
| compatibility, policy, frontier, side effects (`compatibility.rs`, `policy.rs`, `capture.rs`, `restore.rs`, `sideeffect.rs`) | none | authorize, evaluate, derive classes | a class that is reported is never above its evidence |
| workloads, lineage and fork (`coordinator.rs` 380-434, 1352-1406; `lineage.rs`) | workload rows, lineage records | create, fork | a fork has its row and its record, or neither |
| manifest, integrity, compression, cli, integrations, audit | none, or append-only | pure functions and plumbing | - |

What is hard in it: threads of different requests meet only in the store, between any two
of their calls; recovery is itself a request and may run beside the work it takes for
interrupted; node calls may be handled after the caller has given up and cleaned up;
coordinator and nodes may stop between any two steps, and a node comes back under a fresh
id over the old directory; reservations expire under slow threads. `PROJECT.json` lists
these hazards line by line with the properties aimed at each.

## 2. Modules

| module | models | extends |
|---|---|---|
| `Lifecycle` | the transition table | |
| `CheckpointCommit` | abstract: a checkpoint commits in one step or fails, for good | |
| `Capture` | capture threads, the abort path, recovery of captures, the node's capture side, reservations; restores only as the lifecycle and generation changes a capture sees | `Lifecycle` |
| `CaptureProofs` | theorems about `Capture` | `Capture`, `TLAPS` |
| `CommitProofs` | theorems about `Capture` without overlap, the refinement of `CheckpointCommit` among them | `CaptureProofs` |
| `Restore` | restore threads with the migration option, the abort path, recovery of restores, attach, detach, fence, sweep, heartbeats, grants | `Lifecycle` |
| `RestoreProofs` | theorems about `Restore` | `Restore`, `TLAPS` |
| `Replicas` | the copies of one checkpoint on several nodes | `Lifecycle` |
| `ReplicasProofs` | theorems about `Replicas` | `Replicas`, `TLAPS` |
| `ProviderRestore` | the node's restore, cleanup and grant handlers and the providers they drive, file access by file access | |
| `ProviderRestoreProofs` | theorems about `ProviderRestore` | `ProviderRestore`, `TLAPS` |
| `Admission` | policy, capture claims, target judgement, rollback, migration, workload creation and fork, provider registries | `Lifecycle` |
| `AdmissionProofs` | theorems about `Admission` | `Admission`, `TLAPS` |
| `MCCapture`, `MCRestore`, `MCReplicas`, `MCProviderRestore`, `MCAdmission` | model values, symmetry, the inputs enumerated | |

In `Capture`, `Restore` and `Replicas` one step is one call on the store, or one request handled by
a node. The store's mutex makes a call atomic; everything between two calls may be
interleaved. A thread is its label (`pc`, or `thread[t].pc`), named after the call it is
about to make; early returns and `?` are jumps to the abort labels. Requests to nodes are
records in `msgs`; they leave it when the node handles them, when they are lost, or when
the process they were sent to ends. A caller that gives up simply goes on; its message
stays. A message handled with its answer lost is the case in which the caller gives up
first. Each module has a constant `Faults` that says what may go wrong; the comment at its
head lists the kinds.

**Capture.** `Attempts` are capture requests; each stands for its attempt and checkpoint
id. Store state: lifecycle, generation, anchor, location, supersession links and lineage,
attempt, reservation, journal (`persisted`, `dbCommitted`), the workload's two counters.
Node state: staging, leases, committed directories, captures in progress, quiesced
sources. `CommitTx` is `capture_commit` with its checks, links and counter. Recovery
(`RecoveryStart` ... `RecoveryDone`) reads the ACTIVE attempts, decides by journal and
lifecycle, then calls the node for each action and stops at the first failed call.

**Restore.** One single-active workload. A grant is a token, fresh each time, and the
execution epoch. `RestoreTx` is `restore_commit`; `Confirms` is `validate_fence`. Nodes
hold a grant (`attached`), report it (`BeatSend`), are judged (`BeatJudge`) and drop it
(`BeatApply`); a beat that fails ends the loop (`BeatLost`). A workload is detached through
the coordinator (`Detach`) or by its node alone (`NodeDetach`, fault `"detach"`), after
which a grant or a cleanup that reaches the node may do nothing and be answered well.

**Replicas.** A node id is `<<h, b>>`: start `b` of the process over directory `h`.
`disk[h]` is what is in the directory; `locations` is what the store thinks. do_replicate
takes two steps, so that the source may change while it is read.

**ProviderRestore.** The one state `provider[r]` that `Restore` gives a restored target,
opened up. `work[<<a, "restore">>]` and `work[<<a, "cleanup">>]` are the two handlers an
attempt may have: their step, component and file. A file holds `Old`, `Absent` or the name
of the attempt that wrote it; `Scan` looks at every destination, `Persist` writes the
journal under its temporary name and renames it, `WriteFile` writes file by file, and the
cleanup (`TakeJournal`, `PutBack`, `RemoveDirs`, `DropJournal`, `RemoveRoot`) goes back.
Each access may fail (`"io"`), and the node may die before each (`Crash`), a write that is
cut short leaving a torn file (`CutShort`). `call[a]` is what the coordinator does for the
attempt; recovery (`Recover`) goes by `components_restored`, as in `Restore`.

`hosted` is the node's provider registry. A process starts with an empty one
(`NodeRuntime::start`), the application fills it (`Attach`, from the sets in `Offers`), and
a refused claim or a detach empties it (`DropProviders`), all at any moment. do_restore
fails at a required component without a provider and skips an optional one
(`ProviderMissing`); do_cleanup works from `pending_restores` or, without an entry, from the
providers registered now, and passes over what it does not find (`UndoPasses`); do_resume
commits at the providers it finds (`Grant`). The last two answer without an error when they
found none. `clean` collects the attempts whose cleanup or grant did reach the filesystem
provider and was answered without an error; the properties about what such a call achieves
speak of these.

Besides `clean` three variables are history: `before` is what a restore found, `last` the
last committed one and `after` the restores requested since. A manifest has one filesystem
component (`ProviderOrderAssumption`; a second one would share the first one's journal),
and it is required (`ProviderOptionalAssumption`).

**Admission.** `Authorized`, `DeriveConsistency`, `DeriveResumability`, `Evaluate` and
`RestoredResumability` are the pure functions; a runtime that differs is the set of
dimensions in which it does. The judgement of a target reads the node's row (`advert`,
`mismatch`), which registration, attach and heartbeats write, while `do_restore` looks in
the node's own registry (`hosted`), which attach, detach and death change: these are
actions of their own, between any two steps of `req`, the restore or migration being
served. `migrate` of a checkpoint that cannot be restored captures the workload
(`MigrateCaptures`) and calls itself. A capture and a restore commit are one step, the
protocols being those of the other modules.

## 3. Runs

Bounds are chosen as the smallest in which the races of the hazard list occur: two
requests of a kind (or one with recovery or a second kind beside it), one restart. States
are distinct states.

| run | instance | states | what it shows |
|---|---|---|---|
| `capture_overlap` | 2 captures, recovery beside live threads, expiring reservations | 648 K | no false success, every commit has its evidence, links ordered, the counter names a commit, lifecycles follow the table |
| `capture_quiet` | 2 captures, delayed and lost calls, a coordinator restart, a restore | 1.1 M | a commit keeps its data and is final, refinement of `CheckpointCommit` |
| `capture_live` | 1 capture, all faults but overlap | 164 K | requests and reservations end; commits have evidence; nothing is promoted before its anchor |
| `restore_authority` | 2 nodes, 1 attach, 1 fence, sweep, detach by coordinator and node, 1 restore or migration, late and lost calls, failpoints | 3.4 M | one holder of the current token, with the current epoch; stale grants stay stale; aborts put the checkpoint back |
| `restore_live` | 1 node, 1 restore, 1 attach, late and lost calls, store errors, failpoints, provider failures, restart | 400 K | no false restore, a committed restore stays, a failed one was not committed, restores end, stale grants go |
| `replicas_quiet` | 2 nodes, 3 starts, damage, failed deletions, one request at a time | 3.2 M | damage stays, cleared is deleted, protected is kept |
| `replicas_live` | 2 nodes, 3 starts | 139 K | the replica count heals, operations end |
| `providers_rollback` | 2 restores over 2 files, one in a subdirectory, from every initial content; 1 node death, 1 coordinator death, failing accesses, callbacks and commits, providers attached and dropped at any moment | 777 K | a restore can be undone until it commits; a cleanup that reaches the provider undoes exactly it and leaves committed files; journals go; attempts end |
| `admission_claims` | 2 workloads, 2 checkpoints, 2 nodes, a required and an optional component, a permissive and a strict policy, 6 capture requests, 4 events | 2.0 M | a reported class has its evidence, required components are put back, forks are linked |
| `stuck_crash` | 1 restore, a coordinator restart | violation | see below |
| `migrate_empty` | 1 workload, 2 checkpoints, 2 nodes, 4 events | violation | see below |
| `one_way_link` | 3 captures, restores, no fault | violation | see below |

`MaxEvents` counts creations, forks, captures, attachments, detachments and deaths; four
are what a creation, an attachment on two nodes and a capture take, after which restores,
migrations, retirements, heartbeats and registrations are free. The capture requests cover
each way a class may be lowered: effects, an unverified frontier, an unresolved one,
forced quiescence, none.

Every property of a passing run has a mutant: a plausible slip in one definition, written
next to it (`... Mutant:`), for which TLC reports that property. Mutants are not part of
the specifications.

Deadlock is checked in `Replicas`. In the other modules it is not: the requests are
finitely many and a system that has served all of them rests.

**Fairness.** Threads run and a call ends by answer or timeout, so each thread's steps and
`GiveUp` are weakly fair; so are the handlers of a running node and the monitor that
expires reservations (`start_monitor`). In `Restore` heartbeats of a running node are
weakly fair, and the sweep that marks a dead node is strongly fair: the monitor sweeps
again and again, and another sweep under way only holds it up. In `Replicas` the beat of
each node is strongly fair for the same reason, the bound `MaxBeats` being the only thing
that holds it up. In `ProviderRestore` it is enough that coordinator and handlers do not
all rest while one of them has a step to take (`Working` is weakly fair): a handler runs in
a thread of its own and has no loop. `Admission` states safety only. Clients, operators and faults have no fairness.

**Findings.** `stuck_crash`: recovery fails a restore attempt without
`components_restored` and leaves its checkpoint in RESTORE_PENDING or RESTORING, from
where no request leads out. `migrate_empty`: `migrate` of a checkpoint that cannot be
restored captures with `CaptureOptions::default()`, which names no component; the empty
checkpoint commits, is restored on the target, and the authority moves there without the
required state the workload has. `one_way_link`: `capture_commit` takes its neighbours
among the AVAILABLE and RESTORED rows (`persistence.rs:876-895`); with checkpoints 1 and 2
linked and 2 in RESTORE_PENDING it links 3 with 1, and 2 keeps a link that 1 no longer
returns, where `ARCHITECTURE.md:184-185` has the transaction commit reciprocal supersession.

**Observations** on other constants than those of the runs. The first five are
counterexamples TLC finds within a minute; they are why the theorems of section 4 have
hypotheses.

- `CommittedHasData` with `"store"` and one capture: `abort_capture_attempt` deletes the
  promoted object, then makes store calls before it writes FAILED; when one of them fails
  the attempt stays ACTIVE with its `persisted` record, and recovery commits a checkpoint
  without data (`CONTRIBUTING.md:59`: a committed checkpoint has a durable location).
- `CommitIsFinal` with `"overlap"`, two captures and a restore: recovery fails a row judging
  by a lifecycle it read earlier (`recovery.rs:135`).
- `CommittedStays` and `FailedRestoreNotCommitted` with `"overlap"` and one restore:
  recovery reads the journal before the commit, and cleans up the target after it
  (`CONTRIBUTING.md:65`).
- `AuthoritySingle` with `"store"`, two nodes, two restores, two checkpoints: recovery
  grants an old restore's node the token it reads from the workload's row, which a migration
  has written since (`CONTRIBUTING.md:78`: recovery cannot fabricate authority state).
- `RollbackCapable` with `"late"` and one restore: a restore handler whose caller gave up
  goes on writing after the cleanup has put the files back and removed the journal
  (`SECURITY.md:74`: mutations remain rollback-capable until the commit).
- A cleanup by a node that was started again (or that detached the workload) and has no
  provider yet does nothing and is answered without an error (`node.rs:1081-1102`), so that
  the abort ends with the restore's files and journal still on disk
  (`ARCHITECTURE.md:247`: a pre-commit failure rolls provider state back); a grant in that
  window leaves the journal (`node.rs:738-773`; `ARCHITECTURE.md:224`: it is discarded after
  the grant). If `clean` also counted these answers, `CleanupExact`, `JournalsDiscarded` and
  `CommittedFilesKept` would be violated in the instance of `providers_rollback`.
- A capture handled after its caller's cleanup leaves its source paused; an object promoted
  just before a coordinator crash stays without metadata.
- A capture that commits after a newer one is linked below it, but
  `capture_commit` writes no SUPERSEDES record for that link (`persistence.rs:905`).
- `ClearedIsDeleted` and `ProtectedIsKept` with `"overlap"` or `"rpc"`: a replication or a
  pin that comes between the checks of a retirement and its deletions, or a deletion
  handled late.
- A source that cannot resume is recorded as RESUME_FAILED and then overwritten by
  COMMITTED, since the error takes the thread through `abort_capture_attempt`.
- RESTORED is restorable for the validation, but leads neither to RESTORE_PENDING nor to
  RETIRED: a second restore is refused after its reservation, and retiring a restored
  checkpoint deletes its copies and is then refused.
- `MemoryRegionProvider.cleanup_restore` empties the regions whoever filled them
  (`UndoRegions`): a failed restore takes those of the one committed before it. An I/O
  error of `persist_restore_journal` leaves a temporary file that keeps the restore root.
- An optional component whose handler the target lists, for this workload or another, and
  whose provider it does not host is skipped by `do_restore`, and the restore may still be
  reported as EXACT. `pick_capture_node` falls back to a node that does not host the
  workload.
- A heartbeat's answer is applied to whatever grant the node holds then (`node.rs:1480`);
  nodes that recovery marks stale are not fenced (`recovery.rs:75`); a claim may come
  between validation and `restore_commit`; a heartbeat adds a location to a row retired
  since; `replicate_to_policy` indexes an empty list when a retirement came first; an
  aborted restore writes integrity Valid over a corruption found meanwhile; recovery's
  node calls are refused until the node registers with the new epoch.

## 4. Proofs

All theorems hold for every value of the constants that satisfies the named assumptions of
the modules (`Faults` are known kinds, `None` is no other value, bounds are naturals,
payloads are sequences of files, inputs are inputs), in particular for any number of
captures, restores, nodes, files and workloads, and for unbounded runs. A hypothesis on
`Faults` is stated in the theorem itself; where there is none, all faults are allowed.

| theorem | property | excluded |
|---|---|---|
| `CaptureProofs!TypeCorrect` | `TypeOK` | |
| `CommitEvidence` | `CommitIsEvidenced` | |
| `TrueSuccess` | `NoFalseSuccess` | |
| `PromotionAnchored` | `PromotedIsAnchored` | |
| `LinksOrdered` | `SupersessionOrdered` | |
| `CounterCommitted` | `CounterNamesCommit` | |
| `LifecycleLegal` | `LifecycleFollowsTable`, an action property (the abort of a row still CREATED is its one stated exception) | |
| `CommitProofs!ImplementsCheckpointCommit` | `CommitsAtomically`: `Capture` refines `CheckpointCommit` | overlap |
| `CommitsAreFinal` | `CommitIsFinal` | overlap |
| `CommittedDataStays` | `CommittedHasData` | overlap, store |
| `LinksReciprocal` | `SupersessionReciprocal` | overlap, restores |
| `RestoreProofs!RestoreTypes` | `TypeOK` | |
| `TrueRestores` | `NoFalseRestore` | |
| `StaleIsFinal` | `StaleStaysStale`, an action property | |
| `EpochOfToken` | `TokenFixesEpoch` | |
| `FailuresAreUncommitted` | `FailedRestoreNotCommitted` | overlap |
| `CommitsStay` | `CommittedStays` | overlap |
| `AbortsRepair` | `AbortsPutBack` (until a coordinator crash) | overlap, store |
| `OneAuthority` | `AuthoritySingle`, until a coordinator crash | overlap, store |
| `ReplicasProofs!ReplicaTypes` | `TypeOK` | |
| `DamageIsContained` | `DamageStays`, an action property | |
| `ClearedAreDeleted` | `ClearedIsDeleted`, an action property | rpc, overlap |
| `ProtectedStays` | `ProtectedIsKept`, an action property | rpc, overlap |
| `ProviderRestoreProofs!ProviderTypes` | `TypeOK` | |
| `RestoresCanBeUndone` | `RollbackCapable` | late |
| `CleanupsAreExact` | `CleanupExact` | late |
| `CommittedFilesStay` | `CommittedFilesKept` | late |
| `JournalsGo` | `JournalsDiscarded` | late |
| `AdmissionProofs!AdmissionTypes` | `TypeOK` | |
| `ClaimsAreBacked` | `ClaimFollowsEvidence` | |
| `CommitsPutBackRequired` | `RequiredApplied` | |
| `ForksAreLinked` | `ForkLinked` | |

With two exceptions, what is excluded is excluded because the property is false with it, and
TLC shows it on a small instance. `one_way_link` and the Observations name those that say
something about the code. The others are: two captures and `MaxWorkloadGeneration = 1` with
`"overlap"` alone for `CommitsAtomically`, `CommittedHasData` and `CommitIsFinal`; two nodes
and two restores of one checkpoint with `"store"` alone for `AbortsPutBack`, and with
`"overlap"` alone for `AuthoritySingle`; `"rpc"` or `"overlap"` alone in the instance of
`MCReplicas_quiet` for `ClearedIsDeleted` and `ProtectedIsKept`; the instance of
`MCProviderRestore_rollback` with `"late"` added for `CleanupExact`, `CommittedFilesKept`
and `JournalsDiscarded`. The exceptions, for which we know of no counterexample, are `"overlap"` for `LinksReciprocal`
(the proof uses that a commit happens once) and for `AbortsPutBack` (TLC finds none with two
restores on one node; the proof uses that recovery and a restore do not run together).

**`CaptureProofs`.** That a row may become AVAILABLE depends on what a thread, recovery or
a message on its way has established before. The invariant is
`IInv == TypeOK /\ Evidence /\ Ordered`.

- `Evidence` (`ThreadEvidence`, `RecoveryEvidence`, `PromotionEvidence`,
  `JournalEvidence`): a thread past a label, recovery at a label, a promote request or
  a promoted directory, and a journal record each imply what is durable by then. A
  `db_committed` record, for instance, comes only with anchor, location and `persisted`.
- `Ordered` (`IdleIsFresh`, `RowFollowsThread`, `SupersessionOrdered`,
  `CounterNamesCommit`): a request not made has left no trace, rows exist only for threads
  that have inserted them, links lead to smaller generations, the counter names a commit.

One lemma per conjunct and group of actions (thread, request, recovery, node) shows that a
step keeps it; `StepIInv` puts them together.

**`CommitProofs`** adds four invariants to it, each relying on the ones before.

- `Decided` (`Alone`, `Known`, `CommitIsFinal`): recovery decides only about ACTIVE
  attempts whose thread has ended, each once, and what an aborting thread has read about
  its commit is still what the journal says.
- `Numbered`: two rows never have the same number, and no capture is based on a workload
  generation that has not been reached.
- `Held`, for `CommittedHasData`: a cleanup that deletes, on its way or planned, is for a
  capture that is `Doomed`, that is, not committed and with no commit to come; until then
  the directory is there from the promotion on.
- `Chained`, for `SupersessionReciprocal`: each committed checkpoint is linked with the
  ones just below and just above it among the committed ones.

The refinement goes through `RowEffect`: a step is a request, an insertion, a restore's
step, or it `Works`, `Commits` or `Fails` one row, or it leaves all rows alone; each of
these is a step of `CheckpointCommit` or a stutter (`StepImplements`). That the store is
written by many actions (each thread's and recovery's) and seen as few is what the
classification is for.

**`RestoreProofs`.** `IInv` has a part for each thing that two actors must agree on:
`Planned`; `Journalled` (the journal is ahead of whoever reads it); `Issued` (every token
anywhere was handed out, so that a new one is fresh); `Separate` (without overlap: recovery
meets no running thread, whoever rolls back or writes FAILED does so for a restore that can
no longer commit, and the one restore call of an attempt is gone before its thread
commits); and, without store errors and crashes, `Closed`, `Owned` (each token belongs to
one node, wherever a copy of it is) and `Exclusive` (a restore works alone under its
reservation, and a checkpoint in the middle of a restore has a thread that takes it out).
`EpochOfToken` has an invariant of its own, `EpochFixed`: every copy of the current token
that a node holds, that is on its way or that is about to be sent (`Carried`) comes with
the current epoch, because whatever moves the epoch replaces or takes the token.

**`ReplicasProofs`.** `TInv` adds to the types `Placed`: which labels and calls a thread
has, and that whoever fetches works for a node; that is enough for `DamageStays`. `QInv`,
for requests served one at a time and calls that end before their caller gives up, has five
parts: `Sequential` (one busy thread), `Awaited` (what is on its way to a node or being
copied there is waited for), `Located` (a directory with anything in it, or reported by a
heartbeat under way, is listed or about to be recorded), `Retiring` (the row is unprotected,
and each listed directory is deleted, being deleted, or still among those to delete) and
`RestoringLive` (no restore works on a retired row). `Located` is what `ClearedIsDeleted`
needs for directories that a heartbeat or a restarted node lists while the retirement runs.

**`ProviderRestoreProofs`.** `Placed` says that a handler's component and file fit its step,
`OneAtATime` what is on disk by then: `Handled` (how many files are written or put back at
each step, and that the durable journal is there from before the first write to after the
last put-back, and gone when a cleanup that is still without an error has gone past the
filesystem component), `Recorded` (journals remember what the restore found), `Undoables`,
`Opened` (while an attempt is open each file is as found or restored, and without a journal
everything is as found) and `Resting`. It is inductive over each file access, with a death
of the node between any two and a registry that may be empty or change at any of them.

**`AdmissionProofs`.** The class a restore reports is decided at the capture, at the
admission and on the target. `RowsBacked` and `Judged` carry the evidence of each to the
commit, `Linked` ties FORKED_FROM records to child rows one to one, `Named` says that
requests name rows that exist. Lemmas about the operators (`EvaluateWorst`,
`VerdictMeaning`, ...) say what a verdict implies about the target.

**What the proofs changed in the models.** `DeriveResumability` had CASE arms that overlap,
where the code returns at the first; it is a chain now. `CommittedFilesKept` said nothing
once a later restore had been requested; with `after` it speaks about the last commit
whatever was tried since. That a manifest has one filesystem component was implicit in
`ProviderRestore` and is an assumption now. `Rebind` says which entries are kept and in
which order (`KeepAndAppend`) instead of filtering with a LAMBDA, which the provers cannot
read; a thread of `Replicas` is a record with a stated set of labels.

**Model-checked only:** liveness (`RequestsEnd`, `ReservationsEnd`, `RestoresEnd`,
`StaleDetached`, `AttemptsEnd`, `CountHeals`, `OperationsEnd`), which is beyond the prover.
Every invariant and action property of the passing runs is stated by a theorem.

## 5. What is left out

- `Capture`: policy admission is taken as passed (`Admission` has it, but for the minimum
  interval between captures); the store reads before the reservation (workload, nodes,
  highest generation) are one step; journal states that no code reads, sizes, audit records
  and the integrity column.
- `Restore`: compatibility, context validation and policy are taken as passed (`Admission`
  has the first and the last; no checkpoint the coordinator builds has dependencies, so
  context references never match). `target_fence_token` is unset, as all callers leave it.
  No run has recovery beside a running restore (`"overlap"`): the theorems without that
  exclusion cover it.
- `Replicas`: coordinator restarts and store errors (the other two modules have them); fetch
  tokens do not expire; one thread of each kind.
- `ProviderRestore`: path checks, symbolic links and encodings; one subdirectory for all
  levels; as long as its process lives an application attaches the same provider objects
  again, all it offers in one step; the filesystem component is required; a grant reads its
  list of providers and works it off in one step; one restore is requested at a time.
- `Admission`: one restore or migration at a time; single-active workloads; every component
  names a handler; `evaluate_hardware` and `resumability_for` have no caller.
- Manifests, digests, codecs: pure data transformations. Transport framing, command line,
  integrations, audit, lineage queries: no protocol state.
- Heartbeats that would change nothing are not steps.

## 6. Plan

Done: `Lifecycle`, `Capture` with `CheckpointCommit`, `Restore`, `Replicas`,
`ProviderRestore`, `Admission`; proofs of all their safety properties.

Next, in this order:

1. `AuthoritySpec`: an abstract authority (one holder, tokens never reused) that `Restore`
   implements; `Owned` and `Issued` of `RestoreProofs` are its refinement invariants.
2. `LinksReciprocal` with overlap, which needs that recovery's commit of a row that its
   thread has committed changes no link, and `AbortsRepair` with overlap, which needs that
   recovery leaves alone an attempt whose thread is at work on the same row.
3. An abstract copy set (added, damaged, deleted, forgotten) that `Replicas` implements.
