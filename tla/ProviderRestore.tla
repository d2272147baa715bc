--------------------------- MODULE ProviderRestore ---------------------------
(***************************************************************************)
(* What a restore does to the state of its target: the handlers of a node   *)
(* for restore, cleanup and the authority grant (node.rs, do_restore,       *)
(* cleanup_restored, do_cleanup, do_resume) and the providers they drive,   *)
(* the filesystem provider with its durable rollback journal above all      *)
(* (providers.rs).                                                          *)
(*                                                                          *)
(* One workload, one node, one filesystem component. A step is one access   *)
(* of a file, of the journal, of a provider's memory or of a handler's own  *)
(* table. A file's content is Old, or the attempt whose restore wrote it    *)
(* (wholly or torn), or Absent. The coordinator is reduced to the calls it  *)
(* makes for an attempt and the order it makes them in; module Restore has  *)
(* the rest of it.                                                          *)
(*                                                                          *)
(* Simplifications: the directories below the root are one directory; the   *)
(* journal directory is there exactly when it holds something; the state    *)
(* behind an application's callbacks is the application's own; as long as   *)
(* its process lives an application attaches the same provider objects, all *)
(* it offers in one step; the filesystem component is required; a grant's   *)
(* list of providers is read and worked off in one step; the workload's     *)
(* restores are requested one at a time.                                    *)
(***************************************************************************)
EXTENDS Naturals, Sequences

CONSTANTS
    Attempts,     \* restore attempts
    Files,        \* the files under the restore root
    Nested,       \* those in a subdirectory of it
    Payload,      \* the files an attempt's checkpoint holds, in order
    Order,        \* the kinds of its components, in manifest order
    Optional,     \* the positions of those that are not required
    Offers,       \* the sets of them an application attaches providers for
    Old, Absent,  \* contents of a file
    None,         \* no journal, no attempt
    Faults,       \* what may go wrong, a subset of ProviderFaults
    MaxCrashes,   \* bound: deaths of the node
    MaxRestarts   \* bound: deaths of the coordinator

\* "io"          an access of the file system fails
\* "provider"    a payload cannot be read, or a callback fails
\* "node"        the node dies and is started again
\* "commit"      the generation is not committed: a failpoint, an illegal lifecycle
\* "coordinator" the coordinator dies and recovery is run
\* "late"        a caller gives up while its request is under way or still executed
ProviderFaults == {"io", "provider", "node", "commit", "coordinator", "late"}

ASSUME ProviderFaultsAssumption == Faults \subseteq ProviderFaults
ASSUME ProviderBoundsAssumption == MaxCrashes \in Nat /\ MaxRestarts \in Nat
ASSUME ProviderFilesAssumption ==
    /\ Nested \subseteq Files
    /\ Payload \in [Attempts -> Seq(Files)]
    /\ Order \in Seq({"filesystem", "memory", "application"})
    /\ {Old, Absent, None} \cap Attempts = {}
Components == 1 .. Len(Order)
ASSUME ProviderOffersAssumption == Offers \subseteq SUBSET Components

\* There is one filesystem component, and it is required.
ASSUME ProviderOrderAssumption ==
    \E i \in Components : \A j \in Components : Order[j] = "filesystem" <=> j = i
ASSUME ProviderOptionalAssumption ==
    \A i \in Optional \cap Components : Order[i] # "filesystem"

VARIABLES
    \* the file system
    root,       \* the restore root exists
    dir,        \* its subdirectory exists
    litter,     \* the journal directory holds a temporary file nobody removes
    disk,       \* content of each file
    durable,    \* the durable journal of each attempt, or None
    \* the node process
    memory,     \* restore_journals of the filesystem provider
    pending,    \* pending_restores: the components an attempt restored, or None
    region,     \* target_regions of the memory-region provider
    hosted,     \* the components whose providers are registered
    work,       \* the handler of a call: where it is
    \* the coordinator
    call,       \* what the coordinator is doing for an attempt
    journaled,  \* attempts with journal state components_restored
    crashes, restarts,
    \* history
    clean,      \* attempts whose cleanup or grant reached the filesystem provider
                \* and was answered without an error
    last,       \* the last attempt that was committed
    after,      \* the attempts requested since then
    before      \* files and subdirectory when the attempt was requested

diskVars  == <<root, dir, litter, disk, durable>>
procVars  == <<memory, pending, region, hosted>>
histVars  == <<last, after, before>>
coordVars == <<call, journaled, crashes, restarts, clean, histVars>>
vars == <<diskVars, procVars, work, coordVars>>

Contents == {Old, Absent} \cup Attempts
PayloadFiles(a) == {Payload[a][i] : i \in 1 .. Len(Payload[a])}
Journals(a) == [files : [PayloadFiles(a) -> Contents], dir : BOOLEAN, root : BOOLEAN]
ASSUME ProviderNoneAssumption == \A a \in Attempts : None \notin Journals(a)

\* A handler: its step, the component at hand, its scope (the components it has restored,
\* or has to clean up), the file at hand, the journal it works from, and whether it
\* reached the filesystem provider and every cleanup succeeded.
Handler(pc, comp, scope, file, journal, ok) ==
    [pc |-> pc, comp |-> comp, scope |-> scope, file |-> file, journal |-> journal,
     ok |-> ok]
NoWork == Handler("idle", 0, {}, 0, None, TRUE)
Calls == Attempts \X {"restore", "cleanup"}
RestoreSteps == {"component", "persist", "write"}
UndoSteps == {"undo", "put_back", "remove_dirs", "drop", "remove_root"}

Settled(a) == call[a] \in {"idle", "failed", "held", "granted"}
Committed(a) == call[a] \in {"committed", "held", "granted"}

\* A directory exists if a file in it does.
Init ==
    /\ disk \in [Files -> {Old, Absent}]
    /\ dir = (\E f \in Nested : disk[f] = Old)
    /\ root \in BOOLEAN
    /\ (\E f \in Files : disk[f] = Old) => root
    /\ litter = FALSE
    /\ durable = [a \in Attempts |-> None]
    /\ memory = [a \in Attempts |-> None]
    /\ pending = [a \in Attempts |-> None]
    /\ region = Absent
    /\ hosted = {}
    /\ work = [t \in Calls |-> NoWork]
    /\ call = [a \in Attempts |-> "idle"]
    /\ journaled = {}
    /\ crashes = 0
    /\ restarts = 0
    /\ clean = {}
    /\ last = None
    /\ after = {}
    /\ before = [a \in Attempts |-> [disk |-> disk, dir |-> dir]]

------------------------------------------------------------------------------
(* The coordinator's calls for an attempt *)

Phase(a, phase) == call' = [call EXCEPT ![a] = phase]

\* The handler of a call is at a step of its, with a component, a file and a journal.
Goto(t, handler) == work' = [work EXCEPT ![t] = handler]

Send(t) == Goto(t, Handler("sent", 0, {}, 0, None, TRUE))

\* No answer can come any more, or the caller does not wait for it.
NoAnswer(t) == work[t].pc = "idle" \/ "late" \in Faults

RequestRestore(a) ==
    /\ call[a] = "idle"
    /\ \A b \in Attempts : Settled(b)
    /\ Phase(a, "restoring")
    /\ Send(<<a, "restore">>)
    /\ before' = [before EXCEPT ![a] = [disk |-> disk, dir |-> dir]]
    /\ after' = after \cup {a}
    /\ UNCHANGED <<diskVars, procVars, journaled, crashes, restarts, clean, last>>

\* The answer of a handler that ended reaches the thread if it still waits.
AnswerRestore(a, ok) ==
    call' = IF call[a] = "restoring"
            THEN [call EXCEPT ![a] = IF ok THEN "acked" ELSE "aborting"] ELSE call

\* Mutant: only the restore call has an end.
CallFailsRestore(a) ==
    /\ call[a] = "restoring" /\ NoAnswer(<<a, "restore">>) /\ Phase(a, "aborting")
    /\ UNCHANGED <<diskVars, procVars, work, journaled, crashes, restarts, clean, histVars>>

CallFails(a) ==
    /\ \/ call[a] = "restoring" /\ NoAnswer(<<a, "restore">>) /\ Phase(a, "aborting")
       \/ call[a] = "cleaning" /\ NoAnswer(<<a, "cleanup">>) /\ Phase(a, "ended")
    /\ UNCHANGED <<diskVars, procVars, work, journaled, crashes, restarts, clean, histVars>>

JournalRestored(a) ==
    /\ call[a] = "acked"
    /\ journaled' = journaled \cup {a}
    /\ Phase(a, "applied")
    /\ UNCHANGED <<diskVars, procVars, work, crashes, restarts, clean, histVars>>

CommitGeneration(a) ==
    /\ call[a] = "applied"
    /\ \/ Phase(a, "committed") /\ last' = a /\ after' = {}
       \/ "commit" \in Faults /\ Phase(a, "aborting") /\ UNCHANGED <<last, after>>
    /\ UNCHANGED <<diskVars, procVars, work, journaled, crashes, restarts, clean, before>>

\* abort_restore_attempt: the cleanup's result is not looked at.
SendCleanup(a) ==
    /\ call[a] = "aborting"
    /\ work[<<a, "cleanup">>].pc = "idle"
    /\ Phase(a, "cleaning")
    /\ Send(<<a, "cleanup">>)
    /\ UNCHANGED <<diskVars, procVars, journaled, crashes, restarts, clean, histVars>>

FinishFailed(a) ==
    /\ call[a] = "ended"
    /\ Phase(a, "failed")
    /\ UNCHANGED <<diskVars, procVars, work, journaled, crashes, restarts, clean, histVars>>

\* Mutant: recovery does not ask whether the generation was committed.
RecoverCommitted(a) ==
    /\ "coordinator" \in Faults
    /\ restarts < MaxRestarts
    /\ restarts' = restarts + 1
    /\ ~Settled(a)
    /\ \A k \in {"restore", "cleanup"} : NoAnswer(<<a, k>>)
    /\ Phase(a, IF a \in journaled THEN "aborting" ELSE "failed")
    /\ UNCHANGED <<diskVars, procVars, work, journaled, crashes, clean, histVars>>

\* The coordinator dies with the attempt ACTIVE, and recovery finds it: with
\* components_restored it is cleaned up again, without it only marked as failed.
Recover(a) ==
    /\ "coordinator" \in Faults
    /\ restarts < MaxRestarts
    /\ restarts' = restarts + 1
    /\ ~Settled(a) /\ ~Committed(a)
    /\ \A k \in {"restore", "cleanup"} : NoAnswer(<<a, k>>)
    /\ Phase(a, IF a \in journaled THEN "aborting" ELSE "failed")
    /\ UNCHANGED <<diskVars, procVars, work, journaled, crashes, clean, histVars>>

------------------------------------------------------------------------------
(* do_restore *)

At(t, step) == work[t].pc = step

\* The handler works on the files of its component, with a journal or none.
Handle(t, step, file, journal) ==
    Goto(t, Handler(step, work[t].comp, work[t].scope, file, journal, work[t].ok))
Move(t, step) == Handle(t, step, work[t].file, work[t].journal)

\* The handler begins to clean up the components in scope, from i downwards.
Undo(t, i, scope) == Goto(t, Handler("undo", i, scope, 0, None, TRUE))

\* The handler goes on with the next component.
Advance(t, scope) == Goto(t, Handler("component", work[t].comp + 1, scope, 0, None, TRUE))

\* The provider at hand is rolled back too once its restore has begun.
Taken(t) == work[t].scope \cup {work[t].comp}

ReceiveRestore(a) ==
    LET t == <<a, "restore">> IN
    /\ At(t, "sent")
    /\ Advance(t, {})
    /\ UNCHANGED <<diskVars, procVars, coordVars>>

\* A component is at hand, and its provider is looked up.
Turn(t) == At(t, "component") /\ work[t].comp <= Len(Order)
Component(t) == Turn(t) /\ work[t].comp \in hosted
KindIs(t, kind) == Order[work[t].comp] = kind

\* It has no provider: an optional component is skipped, a required one ends the restore.
ProviderMissing(a) ==
    LET t == <<a, "restore">> IN
    /\ Turn(t) /\ work[t].comp \notin hosted
    /\ IF work[t].comp \in Optional THEN Advance(t, work[t].scope)
                                    ELSE Undo(t, work[t].comp - 1, work[t].scope)
    /\ UNCHANGED <<diskVars, procVars, coordVars>>

\* Its payload cannot be read: it is not rolled back itself.
PayloadFails(a) ==
    LET t == <<a, "restore">> IN
    /\ "provider" \in Faults
    /\ Component(t)
    /\ Undo(t, work[t].comp - 1, work[t].scope)
    /\ UNCHANGED <<diskVars, procVars, coordVars>>

\* ApplicationStateProvider and CustomProvider: the callback, and what it may return.
ApplyCallback(a) ==
    LET t == <<a, "restore">> IN
    /\ Component(t) /\ KindIs(t, "application")
    /\ \/ Advance(t, Taken(t))
       \/ "provider" \in Faults /\ Undo(t, work[t].comp, Taken(t))
    /\ UNCHANGED <<diskVars, procVars, coordVars>>

\* MemoryRegionProvider: the regions are replaced.
ApplyRegions(a) ==
    LET t == <<a, "restore">> IN
    /\ Component(t) /\ KindIs(t, "memory")
    /\ region' = a
    /\ Advance(t, Taken(t))
    /\ UNCHANGED <<diskVars, memory, pending, hosted, coordVars>>

\* Mutant: only files that are overwritten are journaled.
ScanPresent(a) ==
    [files |-> [f \in {h \in PayloadFiles(a) : disk[h] # Absent} |-> disk[f]],
     dir   |-> ~dir /\ PayloadFiles(a) \cap Nested # {},
     root  |-> ~root]

\* The journal of the state found: previous contents, what is about to be created.
ScanFiles(a) ==
    [files |-> [f \in PayloadFiles(a) |-> disk[f]],
     dir   |-> ~dir /\ PayloadFiles(a) \cap Nested # {},
     root  |-> ~root]

\* FilesystemProvider.restore: the root is created, then every destination is looked
\* at. An error leaves the root behind.
Scan(a) ==
    LET t == <<a, "restore">> IN
    /\ Component(t) /\ KindIs(t, "filesystem")
    /\ \/ root' = TRUE /\ Handle(t, "persist", 0, ScanFiles(a))
       \/ "io" \in Faults /\ root' \in {root, TRUE} /\ Undo(t, work[t].comp, Taken(t))
    /\ UNCHANGED <<dir, litter, disk, durable, procVars, coordVars>>

\* Mutant: the journal is kept in memory only.
PersistInMemory(a) ==
    LET t == <<a, "restore">> IN
    /\ At(t, "persist")
    /\ memory' = [memory EXCEPT ![a] = work[t].journal]
    /\ Handle(t, "write", 1, None)
    /\ UNCHANGED <<diskVars, pending, region, hosted, coordVars>>

\* persist_restore_journal, under the lock of restore_journals: a temporary file, then
\* a rename. It is refused when the attempt has a journal already.
Persist(a) ==
    LET t == <<a, "restore">> IN
    /\ At(t, "persist")
    /\ \/ /\ durable[a] = None /\ memory[a] = None
          /\ durable' = [durable EXCEPT ![a] = work[t].journal]
          /\ memory' = [memory EXCEPT ![a] = work[t].journal]
          /\ Handle(t, "write", 1, None)
          /\ UNCHANGED litter
       \/ /\ durable[a] # None \/ memory[a] # None
          /\ Undo(t, work[t].comp, Taken(t))
          /\ UNCHANGED <<litter, durable, memory>>
       \/ /\ "io" \in Faults
          /\ litter' = TRUE
          /\ Undo(t, work[t].comp, Taken(t))
          /\ UNCHANGED <<durable, memory>>
    /\ UNCHANGED <<root, dir, disk, pending, region, hosted, coordVars>>

\* One file of the payload: its directory is created, and it is written; or one of the
\* two fails, and the file is changed or not.
WriteFile(a) ==
    LET t == <<a, "restore">>
        f == Payload[a][work[t].file]
        made == dir \/ f \in Nested
        written == [disk EXCEPT ![f] = a]
    IN
    /\ At(t, "write") /\ work[t].file <= Len(Payload[a])
    /\ root' = TRUE
    /\ \/ /\ dir' = made /\ disk' = written
          /\ Handle(t, "write", work[t].file + 1, None)
       \/ /\ "io" \in Faults
          /\ \/ dir' \in {dir, made} /\ UNCHANGED disk
             \/ dir' = made /\ disk' = written
          /\ Undo(t, work[t].comp, Taken(t))
    /\ UNCHANGED <<litter, durable, procVars, coordVars>>

FilesWritten(a) ==
    LET t == <<a, "restore">> IN
    /\ At(t, "write") /\ work[t].file > Len(Payload[a])
    /\ Advance(t, Taken(t))
    /\ UNCHANGED <<diskVars, procVars, coordVars>>

\* Every component is restored and verified, or skipped.
RestoreDone(a) ==
    LET t == <<a, "restore">> IN
    /\ At(t, "component") /\ work[t].comp > Len(Order)
    /\ pending' = [pending EXCEPT ![a] = work[t].scope]
    /\ Goto(t, NoWork)
    /\ AnswerRestore(a, TRUE)
    /\ UNCHANGED <<diskVars, memory, region, hosted, journaled, crashes, restarts, clean,
                   histVars>>

------------------------------------------------------------------------------
(* cleanup_restored and do_cleanup: providers are cleaned up in reverse order *)

\* do_cleanup of a restore attempt: the components pending_restores names, else those
\* whose providers are registered now. A restarted node may have none.
ReceiveCleanup(a) ==
    /\ At(<<a, "cleanup">>, "sent")
    /\ pending' = [pending EXCEPT ![a] = None]
    /\ Undo(<<a, "cleanup">>, Len(Order), IF pending[a] # None THEN pending[a] ELSE hosted)
    /\ UNCHANGED <<diskVars, memory, region, hosted, coordVars>>

\* A component is at hand, going back.
Back(t) == At(t, "undo") /\ work[t].comp > 0

\* The restore handler holds the providers it called; the cleanup handler looks each of
\* them up again.
Found(t) ==
    /\ work[t].comp \in work[t].scope
    /\ t[2] = "restore" \/ work[t].comp \in hosted

\* The next component; ok says how the cleanup of this one went.
Retreat(t, ok) ==
    Goto(t, Handler("undo", work[t].comp - 1, work[t].scope, 0, None, work[t].ok /\ ok))

\* A component without a provider is passed over, and no error says so.
UndoPasses(t) ==
    /\ Back(t) /\ ~Found(t)
    /\ Retreat(t, ~KindIs(t, "filesystem"))
    /\ UNCHANGED <<diskVars, procVars, coordVars>>

UndoCallback(t) ==
    /\ Back(t) /\ Found(t) /\ KindIs(t, "application")
    /\ Retreat(t, TRUE) \/ ("provider" \in Faults /\ Retreat(t, FALSE))
    /\ UNCHANGED <<diskVars, procVars, coordVars>>

\* MemoryRegionProvider.cleanup_restore: the regions are emptied, whoever filled them.
UndoRegions(t) ==
    /\ Back(t) /\ Found(t) /\ KindIs(t, "memory")
    /\ region' = Absent
    /\ Retreat(t, TRUE)
    /\ UNCHANGED <<diskVars, memory, pending, hosted, coordVars>>

\* FilesystemProvider.cleanup_restore: the journal is taken out of memory, else it is
\* the durable one. Without one there is nothing to do.
TakeJournal(t) ==
    LET a == t[1]
        journal == IF memory[a] # None THEN memory[a] ELSE durable[a]
    IN
    /\ Back(t) /\ Found(t) /\ KindIs(t, "filesystem")
    /\ memory' = [memory EXCEPT ![a] = None]
    /\ IF journal = None THEN Retreat(t, TRUE)
       ELSE Handle(t, "put_back", Len(Payload[a]), journal)
    /\ UNCHANGED <<diskVars, pending, region, hosted, coordVars>>

\* One file, the last first: its previous content is written, or it is removed.
PutBack(t) ==
    LET f == Payload[t[1]][work[t].file]
        previous == work[t].journal.files[f]
    IN
    /\ At(t, "put_back") /\ work[t].file > 0
    /\ disk' = [disk EXCEPT ![f] = previous]
    /\ root' = (root \/ previous # Absent)
    /\ dir' = (dir \/ (previous # Absent /\ f \in Nested))
    /\ Handle(t, "put_back", work[t].file - 1, work[t].journal)
    /\ UNCHANGED <<litter, durable, procVars, coordVars>>

\* Mutant: the journal goes before the directories are looked at.
PutBackDropping(t) ==
    /\ At(t, "put_back") /\ work[t].file = 0
    /\ durable' = [durable EXCEPT ![t[1]] = None]
    /\ Move(t, "remove_dirs")
    /\ UNCHANGED <<root, dir, litter, disk, procVars, coordVars>>

PutBackDone(t) ==
    /\ At(t, "put_back") /\ work[t].file = 0
    /\ Move(t, "remove_dirs")
    /\ UNCHANGED <<diskVars, procVars, coordVars>>

\* A directory the restore created is removed if it is empty.
RemoveDirs(t) ==
    /\ At(t, "remove_dirs")
    /\ dir' = (dir /\ (work[t].journal.dir => \E f \in Nested : disk[f] # Absent))
    /\ Move(t, "drop")
    /\ UNCHANGED <<root, litter, disk, durable, procVars, coordVars>>

DropJournal(t) ==
    /\ At(t, "drop")
    /\ durable' = [durable EXCEPT ![t[1]] = None]
    /\ Move(t, "remove_root")
    /\ UNCHANGED <<root, dir, litter, disk, procVars, coordVars>>

RootEmpty ==
    /\ ~dir /\ ~litter
    /\ \A f \in Files : disk[f] = Absent
    /\ \A a \in Attempts : durable[a] = None

RemoveRoot(t) ==
    /\ At(t, "remove_root")
    /\ root' = (root /\ ~(work[t].journal.root /\ RootEmpty))
    /\ Retreat(t, TRUE)
    /\ UNCHANGED <<dir, litter, disk, durable, procVars, coordVars>>

\* What the handler's put-back may leave when it is cut short: the file as it was, or
\* torn, which is as good as the restore's own bytes.
CutShort(t) ==
    {disk} \cup
    {[disk EXCEPT ![Payload[t[1]][i]] = t[1]] :
        i \in {j \in {work[t].file} \ {0} :
                 /\ At(t, "put_back")
                 /\ work[t].journal.files[Payload[t[1]][j]] # Absent}}

\* An access fails: the rest of this provider's cleanup is left out.
UndoFails(t) ==
    /\ "io" \in Faults
    /\ \/ /\ work[t].pc \in {"put_back", "remove_dirs", "drop", "remove_root"}
          /\ disk' \in CutShort(t)
          /\ UNCHANGED memory
       \/ /\ Back(t) /\ Found(t) /\ KindIs(t, "filesystem")
          /\ memory' = [memory EXCEPT ![t[1]] = None]
          /\ UNCHANGED disk
    /\ Retreat(t, FALSE)
    /\ UNCHANGED <<root, dir, litter, durable, pending, region, hosted, coordVars>>

\* The restore handler ignores how its own cleanup went.
RestoreFailed(a) ==
    LET t == <<a, "restore">> IN
    /\ At(t, "undo") /\ work[t].comp = 0
    /\ Goto(t, NoWork)
    /\ AnswerRestore(a, FALSE)
    /\ UNCHANGED <<diskVars, procVars, journaled, crashes, restarts, clean, histVars>>

CleanupDone(a) ==
    LET t == <<a, "cleanup">> IN
    /\ At(t, "undo") /\ work[t].comp = 0
    /\ Goto(t, NoWork)
    /\ call' = IF call[a] = "cleaning" THEN [call EXCEPT ![a] = "ended"] ELSE call
    /\ clean' = IF work[t].ok THEN clean \cup {a} ELSE clean
    /\ UNCHANGED <<diskVars, procVars, journaled, crashes, restarts, histVars>>

------------------------------------------------------------------------------
(* do_resume with a grant, attachment, and the end of the process *)

HostsFiles == \E i \in hosted : Order[i] = "filesystem"

\* Mutant: the durable journal is left to be removed by someone else.
CommitProviderKeeping(a) ==
    /\ memory' = [memory EXCEPT ![a] = None]
    /\ UNCHANGED durable

\* commit_restore of the filesystem provider: the journal goes.
CommitProvider(a) ==
    /\ memory' = [memory EXCEPT ![a] = None]
    /\ durable' = [durable EXCEPT ![a] = None]

\* commit_restore of every provider registered now. If the filesystem provider is not
\* one of them its journal stays, and the answer is the same; if its journal cannot be
\* removed, or a source not be resumed, the restore stays pending; if the node does not
\* answer nothing happens.
Grant(a) ==
    /\ call[a] = "committed"
    /\ \/ /\ IF HostsFiles THEN CommitProvider(a) /\ clean' = clean \cup {a}
                            ELSE UNCHANGED <<memory, durable, clean>>
          /\ pending' = [pending EXCEPT ![a] = None]
          /\ Phase(a, "granted")
       \/ /\ "provider" \in Faults
          /\ IF HostsFiles THEN CommitProvider(a) ELSE UNCHANGED <<memory, durable>>
          /\ Phase(a, "held")
          /\ UNCHANGED <<pending, clean>>
       \/ /\ "io" \in Faults /\ HostsFiles
          /\ memory' = [memory EXCEPT ![a] = None]
          /\ durable' \in {durable, [durable EXCEPT ![a] = None]}
          /\ Phase(a, "held")
          /\ UNCHANGED <<pending, clean>>
       \/ /\ "node" \in Faults
          /\ Phase(a, "held")
          /\ UNCHANGED <<memory, durable, pending, clean>>
    /\ UNCHANGED <<root, dir, litter, disk, region, hosted, work, journaled, crashes,
                   restarts, histVars>>

\* attach_workload registers the providers an application offers before it asks the
\* coordinator for the authority.
Attach(offer) ==
    /\ ~(offer \subseteq hosted)
    /\ hosted' = hosted \cup offer
    /\ UNCHANGED <<diskVars, memory, pending, region, work, coordVars>>

\* The authority is refused, or the workload is detached (detach_workload).
DropProviders ==
    /\ hosted # {}
    /\ hosted' = {}
    /\ UNCHANGED <<diskVars, memory, pending, region, work, coordVars>>

\* A directory that the restore handler has created for a file it has not written yet.
DirCutShort(t) ==
    /\ At(t, "write") /\ work[t].file <= Len(Payload[t[1]])
    /\ Payload[t[1]][work[t].file] \in Nested

\* The node dies and is started again: what is on disk stays, a journal that was being
\* written leaves its temporary file. The new process has no providers.
Crash ==
    /\ "node" \in Faults
    /\ crashes < MaxCrashes
    /\ crashes' = crashes + 1
    /\ memory' = [a \in Attempts |-> None]
    /\ pending' = [a \in Attempts |-> None]
    /\ region' = Absent
    /\ hosted' = {}
    /\ work' = [t \in Calls |-> NoWork]
    /\ litter' = (litter \/ \E a \in Attempts : At(<<a, "restore">>, "persist"))
    /\ \E t \in Calls : disk' \in CutShort(t) /\ dir' \in {dir, dir \/ DirCutShort(t)}
    /\ root' = (root \/ dir')
    /\ UNCHANGED <<durable, call, journaled, restarts, clean, histVars>>

------------------------------------------------------------------------------
(* Specification *)

CoordinatorStep(a) ==
    \/ CallFails(a) \/ JournalRestored(a) \/ CommitGeneration(a) \/ SendCleanup(a)
    \/ FinishFailed(a) \/ Grant(a)

RestoreStep(a) ==
    \/ ReceiveRestore(a) \/ ProviderMissing(a) \/ PayloadFails(a) \/ ApplyCallback(a)
    \/ ApplyRegions(a) \/ Scan(a) \/ Persist(a) \/ WriteFile(a) \/ FilesWritten(a)
    \/ RestoreDone(a) \/ RestoreFailed(a)

UndoStep(t) ==
    \/ UndoPasses(t) \/ UndoCallback(t) \/ UndoRegions(t) \/ TakeJournal(t) \/ PutBack(t)
    \/ PutBackDone(t) \/ RemoveDirs(t) \/ DropJournal(t) \/ RemoveRoot(t) \/ UndoFails(t)

Next ==
    \/ \E a \in Attempts :
          \/ RequestRestore(a) \/ Recover(a) \/ CoordinatorStep(a) \/ RestoreStep(a)
          \/ ReceiveCleanup(a) \/ CleanupDone(a)
    \/ \E t \in Calls : UndoStep(t)
    \/ \E offer \in Offers : Attach(offer)
    \/ DropProviders
    \/ Crash

Spec == Init /\ [][Next]_vars

\* The coordinator's thread and the handlers do not all rest while one of them has a step
\* to take; nothing makes a client ask for a restore, or an application attach.
Working ==
    \/ \E a \in Attempts : ~Settled(a) /\ CoordinatorStep(a)
    \/ \E t \in Calls :
          /\ work[t].pc # "idle"
          /\ \/ UndoStep(t)
             \/ t[2] = "restore" /\ RestoreStep(t[1])
             \/ t[2] = "cleanup" /\ (ReceiveCleanup(t[1]) \/ CleanupDone(t[1]))

Fairness == WF_vars(Working)

FairSpec == Spec /\ Fairness

------------------------------------------------------------------------------
(* Properties *)

\* Every variable has its type.
TypeOK ==
    /\ {root, dir, litter} \subseteq BOOLEAN
    /\ disk \in [Files -> Contents]
    /\ \A a \in Attempts : {durable[a], memory[a]} \subseteq Journals(a) \cup {None}
    /\ pending \in [Attempts -> (SUBSET Components) \cup {None}]
    /\ hosted \subseteq Components
    /\ region \in Attempts \cup {Absent}
    /\ \A t \in Calls :
          /\ work[t].pc \in {"idle", "sent"} \cup RestoreSteps \cup UndoSteps
          /\ work[t].comp \in 0 .. Len(Order) + 1
          /\ work[t].scope \subseteq Components
          /\ work[t].file \in 0 .. Len(Payload[t[1]]) + 1
          /\ work[t].journal \in Journals(t[1]) \cup {None}
          /\ work[t].ok \in BOOLEAN
    /\ call \in [Attempts -> {"idle", "restoring", "acked", "applied", "committed", "held",
                              "granted", "aborting", "cleaning", "ended", "failed"}]
    /\ journaled \subseteq Attempts
    /\ crashes \in 0 .. MaxCrashes
    /\ restarts \in 0 .. MaxRestarts
    /\ clean \subseteq Attempts
    /\ last \in Attempts \cup {None}
    /\ after \subseteq Attempts
    /\ before \in [Attempts -> [disk : [Files -> Contents], dir : BOOLEAN]]

\* What a restore that is not committed has done to the files can be undone, by a new
\* process too: the durable journal holds what was there before, file by file
\* (FilesystemProvider.restore writes it first, cleanup_restore removes it last).
RollbackCapable ==
    \A a \in Attempts : ~Committed(a) =>
        \A f \in Files : disk[f] = a =>
            /\ durable[a] # None
            /\ durable[a].files[f] = before[a].disk[f]

\* A cleanup that reached the filesystem provider and was answered without an error left
\* the files and the subdirectory exactly as they were when the restore was requested,
\* whatever the cleanups before it were interrupted by and whichever process and registry
\* they ran in (cleanup_restore). A cleanup that found no provider gives the same answer.
CleanupExact ==
    \A a \in clean : call[a] = "ended" => disk = before[a].disk /\ dir = before[a].dir

\* The files of the last committed restore are there as long as every restore requested
\* after it was cleaned up like that (commit_restore gives up what could undo them, and
\* cleanup_restore puts back what it found).
CommittedFilesKept ==
    last # None /\ (\A b \in after : b \in clean /\ Settled(b)) =>
        \A f \in PayloadFiles(last) : disk[f] = last

\* A restore that was granted, or undone, by a call that reached the filesystem provider
\* and was answered without an error keeps no journal that a later cleanup could replay
\* over newer files (commit_restore, cleanup_restore).
JournalsDiscarded ==
    \A a \in clean :
        call[a] \in {"ended", "failed", "granted"} => durable[a] = None /\ memory[a] = None

\* A restore that was requested is granted, held or failed in the end, through crashes
\* of the node and of the coordinator.
AttemptsEnd == (\E a \in Attempts : ~Settled(a)) ~> \A a \in Attempts : Settled(a)

==============================================================================
