---------------------------- MODULE CommitProofs ----------------------------
(***************************************************************************)
(* More proofs about Capture, on top of CaptureProofs: what holds when      *)
(* recovery is not run, and no reservation expires, while a capture thread  *)
(* is at work ("overlap" is not among the faults). Then a commit is final,  *)
(* the protocol implements CheckpointCommit, a committed checkpoint keeps   *)
(* its directory, and its links are reciprocal.                             *)
(***************************************************************************)
EXTENDS CaptureProofs

\* A thread that has returned, or died with the coordinator.
Over == {"done", "dead"}

\* Labels of a thread that has not tried to commit.
BeforeCommit == BeforeJournal \cup {"commit"}

\* The abort has read whether the capture committed.
Aborting == AbortLabels \ {"abort"}

\* Labels of recovery at which it decides about recCur.
Deciding == {"get", "commit", "reject", "finish_ok", "finish_fail"}

------------------------------------------------------------------------------
(* The inductive invariants *)

\* Recovery decides about ACTIVE attempts without a thread, each once, and what it found
\* not to be committed stays so until it commits it.
Alone ==
    /\ \A a \in recTodo : pc[a] \in Over /\ attempt[a] = "ACTIVE"
    /\ recPc \in Deciding =>
          pc[recCur] \in Over /\ attempt[recCur] = "ACTIVE" /\ recCur \notin recTodo
    /\ recPc \in Deciding \ {"finish_ok"} => recCur \notin dbCommitted

\* What a thread knows about the commit is what the journal says.
Known ==
    \A a \in Attempts :
        /\ pc[a] \in BeforeCommit \cup {"abort_fail"} => a \notin dbCommitted
        /\ pc[a] \in Aborting => (a \in dbCommitted => sawCommitted[a])
        /\ attempt[a] = "FAILED" => pc[a] \in {"abort_release"} \cup Over
        /\ attempt[a] = "ACTIVE" => pc[a] \notin {"idle", "reserve", "begin"}

\* A commit is decided once: what the first theorem and all others rest on.
Decided == Alone /\ Known /\ CommitIsFinal

\* Requests are numbered from 1, one row per number, and read a workload generation that
\* has been reached.
Numbered ==
    /\ \A a \in Attempts : /\ pc[a] # "idle" => generation[a] > 0
                           /\ capturedAt[a] <= workloadGeneration
    /\ \A a, b \in Rows : generation[a] = generation[b] => a = b

\* No commit of a is to come: there is none, and it would be refused.
Doomed(a) ==
    /\ pc[a] \in AbortLabels \cup Over
    /\ a \notin dbCommitted
    /\ a \in persisted => capturedAt[a] < workloadGeneration

\* A directory is only deleted once no commit is to come; until then it is there from the
\* promotion on.
HeldAt(a) ==
    /\ pc[a] \in AbortLabels => a \in dbCommitted \/ Doomed(a)
    /\ pc[a] \in {"promoted", "journal"} => a \in committed
    /\ a \in persisted => a \in committed \/ Doomed(a)
    /\ a \in persisted \ dbCommitted => \/ lifecycle[a] = "PERSISTING"
                                        \/ lifecycle[a] = "FAILED" /\ Doomed(a)
\* Deletions asked for, or planned by recovery, concern what will never be committed.
Held ==
    /\ \A m \in msgs : m.op = "cleanup" /\ m.delete => Doomed(m.att)
    /\ \A a \in recDelete : Doomed(a)
    /\ recPc = "reject" => recCur \in recDelete
    /\ \A a \in Attempts : HeldAt(a)

\* p is the one of the checkpoints d just below a, n the one just above it.
JustBelow(d, a, p) ==
    LET below == {b \in d : generation[b] < generation[a]}
    IN  \/ p = None /\ below = {}
        \/ p \in below /\ \A b \in below : generation[b] <= generation[p]
JustAbove(d, a, n) ==
    LET above == {b \in d : generation[b] > generation[a]}
    IN  \/ n = None /\ above = {}
        \/ n \in above /\ \A b \in above : generation[n] <= generation[b]

\* Without restores what was committed is visible, and each committed checkpoint is linked
\* with the ones just below and above it.
Chained ==
    /\ \A a \in dbCommitted : /\ lifecycle[a] = "AVAILABLE"
                              /\ JustBelow(dbCommitted, a, supersedes[a])
                              /\ JustAbove(dbCommitted, a, supersededBy[a])
    /\ \A a \in Attempts \ dbCommitted : supersedes[a] = None /\ supersededBy[a] = None
    /\ \A a, b \in Attempts : <<a, b>> \in lineage =>
           {a, b} \subseteq dbCommitted /\ generation[b] < generation[a]

------------------------------------------------------------------------------
(* What the steps of the node and its world may change *)

\* Where an answer of the node may take a thread.
Onward ==
    {<<"wait_capture", "captured">>, <<"wait_capture", "abort">>,
     <<"wait_promote", "promoted">>, <<"wait_promote", "abort">>,
     <<"wait_resume", "finish">>, <<"wait_resume", "resume_failed">>,
     <<"wait_resume", "abort">>, <<"abort_resume", "abort_resumed">>,
     <<"abort_cleanup", "abort_read">>}

\* Recovery decides nothing, and forgets only.
RecoveryIdles ==
    /\ recTodo' \subseteq recTodo
    /\ recDelete' \subseteq recDelete
    /\ \/ UNCHANGED <<recPc, recCur, recDelete>>
       \/ recPc' \notin Deciding

\* Threads go on after an answer.
Answered == \A a \in Attempts : pc'[a] = pc[a] \/ <<pc[a], pc'[a]>> \in Onward

\* An answer takes the waiting thread on; a promotion's thread only with its own answer.
LEMMA AnswerEffect ==
    ASSUME TypeOK, NEW m \in Messages, NEW r, Answer(m, r)
    PROVE  /\ Answered /\ RecoveryIdles /\ sawCommitted' = sawCommitted
           /\ \A a \in Attempts : pc'[a] = "promoted" =>
                 pc[a] = "promoted" \/ (m.op = "promote" /\ m.att = a /\ r = "ok")
  <1>1. m.att \in Attempts /\ m.by \in {"exec", "abort", "recovery"}
    BY DEF Messages
  <1>2. \A a \in Attempts :
           \/ pc'[a] = pc[a]
           \/ /\ a = m.att /\ m.by # "recovery" /\ pc[a] = WaitLabel(m)
              /\ pc'[a] = Resumption(pc[a], r)
    BY <1>1 DEF Answer, ThreadWaiting, TypeOK
  <1>3. Answered
    <2> SUFFICES ASSUME NEW a \in Attempts, pc'[a] # pc[a]
                 PROVE  <<pc[a], pc'[a]>> \in Onward
      BY DEF Answered
    <2>1. pc[a] \in Labels /\ m.by \in {"exec", "abort"} /\ pc[a] = WaitLabel(m)
      BY <1>1, <1>2 DEF TypeOK
    <2>2. pc[a] \in {"wait_capture", "wait_promote", "wait_resume", "abort_resume",
                     "abort_cleanup"}
      BY <2>1 DEF WaitLabel, Labels, ExecLabels, AbortLabels
    <2>3. pc'[a] = Resumption(pc[a], r)
      BY <1>2
    <2> QED BY <2>2, <2>3 DEF Onward, Resumption
  <1>4. RecoveryIdles
    BY <1>1, ResumptionType DEF Answer, RecoveryAnswered, RecoveryReturns, RecoveryIdles,
       RecWaiting, WaitLabel, Deciding, recVars
  <1>5. ASSUME NEW a \in Attempts, pc'[a] = "promoted", pc[a] # "promoted"
        PROVE  m.op = "promote" /\ m.att = a /\ r = "ok"
    BY <1>2, <1>5 DEF Resumption, WaitLabel
  <1> QED BY <1>3, <1>4, <1>5 DEF Answer

\* The rows, the records and what aborting threads know.
recordVars == <<lifecycle, generation, capturedAt, supersedes, supersededBy, lineage, attempt,
                persisted, dbCommitted, workloadGeneration, checkpointGeneration,
                sawCommitted>>

\* Requests are taken; a directory goes by a cleanup that deletes it, and a thread learns of
\* its promotion when the directory is there.
DirectoriesKept ==
    /\ msgs' \subseteq msgs
    /\ \A a \in committed : \/ a \in committed'
                            \/ \E m \in msgs : m.op = "cleanup" /\ m.delete /\ m.att = a
    /\ \A a \in Attempts : pc'[a] = "promoted" => pc[a] = "promoted" \/ a \in committed'

\* A restart of the coordinator ends its threads and its recovery.
ThreadsDie ==
    /\ \A a \in Attempts : pc'[a] = IF Live(a) THEN "dead" ELSE pc[a]
    /\ recPc' = "idle" /\ recTodo' = {} /\ recDelete' = {}

\* The node and its world write no row, save locations, and no record.
NodeEffect ==
    /\ UNCHANGED recordVars
    /\ DirectoriesKept
    /\ \/ Answered /\ RecoveryIdles
       \/ ThreadsDie

\* That is what each of their steps does.
LEMMA NodeEffects ==
    ASSUME TypeOK, NodeOrFaultStep
    PROVE  NodeEffect
  <1> USE DEF storeVars, rowVars, bookVars, workVars, threadVars, recVars, nodeVars,
          recordVars, NodeEffect
  <1>1. ASSUME NEW m \in msgs, RefuseEpoch(m)
       PROVE  NodeEffect
    <2>0. m \in Messages
      BY DEF TypeOK
    <2>1. Answer(m, "error")
      BY <1>1 DEF RefuseEpoch
    <2>2. Answered /\ RecoveryIdles /\ sawCommitted' = sawCommitted
      BY <2>0, <2>1, AnswerEffect
    <2>3. DirectoriesKept
      BY <1>1, <2>0, <2>1, AnswerEffect DEF RefuseEpoch, DirectoriesKept, Receive
    <2> QED BY <1>1, <2>2, <2>3 DEF RefuseEpoch
  <1>2. ASSUME NEW m \in msgs, CaptureBegin(m)
       PROVE  NodeEffect
    BY <1>2 DEF CaptureBegin, Receive, DirectoriesKept, Answered, RecoveryIdles, ThreadsDie,
       TypeOK
  <1>3. ASSUME NEW a \in Attempts, CaptureSucceeds(a)
       PROVE  NodeEffect
    <2>0. CaptureCall(a) \in Messages /\ CaptureCall(a).op = "capture"
      BY DEF CaptureCall, Messages, TypeOK
    <2>1. Answer(CaptureCall(a), "ok")
      BY <1>3 DEF CaptureSucceeds
    <2>2. Answered /\ RecoveryIdles /\ sawCommitted' = sawCommitted
      BY <2>0, <2>1, AnswerEffect
    <2>3. DirectoriesKept
      BY <1>3, <2>0, <2>1, AnswerEffect DEF CaptureSucceeds, DirectoriesKept
    <2> QED BY <1>3, <2>2, <2>3 DEF CaptureSucceeds
  <1>4. ASSUME NEW a \in Attempts, CaptureFails(a)
       PROVE  NodeEffect
    <2>0. CaptureCall(a) \in Messages /\ CaptureCall(a).op = "capture"
      BY DEF CaptureCall, Messages, TypeOK
    <2>1. Answer(CaptureCall(a), "refused")
      BY <1>4 DEF CaptureFails
    <2>2. Answered /\ RecoveryIdles /\ sawCommitted' = sawCommitted
      BY <2>0, <2>1, AnswerEffect
    <2>3. DirectoriesKept
      BY <1>4, <2>0, <2>1, AnswerEffect DEF CaptureFails, DirectoriesKept
    <2> QED BY <1>4, <2>2, <2>3 DEF CaptureFails
  <1>5. ASSUME NEW m \in msgs, Promote(m)
       PROVE  NodeEffect
    <2>0. m \in Messages
      BY DEF TypeOK
    <2>1. PICK r : Answer(m, r) /\ (r = "ok" => m.att \in committed')
      BY <1>5 DEF Promote
    <2>2. Answered /\ RecoveryIdles /\ sawCommitted' = sawCommitted
      BY <2>0, <2>1, AnswerEffect
    <2>3. DirectoriesKept
      BY <1>5, <2>0, <2>1, AnswerEffect DEF Promote, DirectoriesKept, Receive
    <2> QED BY <1>5, <2>2, <2>3 DEF Promote
  <1>6. ASSUME NEW m \in msgs, Resume(m)
       PROVE  NodeEffect
    <2>0. m \in Messages
      BY DEF TypeOK
    <2>1. PICK r : Answer(m, r)
      BY <1>6 DEF Resume
    <2>2. Answered /\ RecoveryIdles /\ sawCommitted' = sawCommitted
      BY <2>0, <2>1, AnswerEffect
    <2>3. DirectoriesKept
      BY <1>6, <2>0, <2>1, AnswerEffect DEF Resume, DirectoriesKept, Receive
    <2> QED BY <1>6, <2>2, <2>3 DEF Resume
  <1>7. ASSUME NEW m \in msgs, Cleanup(m)
       PROVE  NodeEffect
    <2>0. m \in Messages
      BY DEF TypeOK
    <2>1. Answer(m, "ok")
      BY <1>7 DEF Cleanup
    <2>2. Answered /\ RecoveryIdles /\ sawCommitted' = sawCommitted
      BY <2>0, <2>1, AnswerEffect
    <2>3. DirectoriesKept
      BY <1>7, <2>0, <2>1, AnswerEffect DEF Cleanup, DirectoriesKept, Receive
    <2> QED BY <1>7, <2>2, <2>3 DEF Cleanup
  <1>8. ASSUME Heartbeat
       PROVE  NodeEffect
    BY <1>8 DEF Heartbeat, DirectoriesKept, Answered, RecoveryIdles, ThreadsDie, TypeOK
  <1>9. ASSUME NEW m \in msgs, LoseMessage(m)
       PROVE  NodeEffect
    BY <1>9 DEF LoseMessage, DirectoriesKept, Answered, RecoveryIdles, ThreadsDie, TypeOK
  <1>10. ASSUME CoordinatorRestart
       PROVE  NodeEffect
    BY <1>10 DEF CoordinatorRestart, RecoveryReturns, Live, DirectoriesKept, Answered,
       RecoveryIdles, ThreadsDie, TypeOK
  <1>11. ASSUME NodeRestart
       PROVE  NodeEffect
    BY <1>11 DEF NodeRestart, DirectoriesKept, Answered, RecoveryIdles, ThreadsDie, TypeOK
  <1>12. ASSUME NEW b \in active, MarkStale(b)
       PROVE  NodeEffect
    BY <1>12 DEF MarkStale, DirectoriesKept, Answered, RecoveryIdles, ThreadsDie, TypeOK
  <1> QED BY <1>1, <1>2, <1>3, <1>4, <1>5, <1>6, <1>7, <1>8, <1>9, <1>10, <1>11, <1>12 DEF
      NodeOrFaultStep, NodeStep

------------------------------------------------------------------------------
(* A commit is final *)

\* The steps of a capture's thread keep what threads and recovery know true.
LEMMA DecidedThread ==
    ASSUME "overlap" \notin Faults, TypeOK, TypeOK', Decided, NEW a0 \in Attempts, ThreadStep(a0)
    PROVE  Decided'
  <1> USE DEF TypeOK, storeVars, rowVars, bookVars, workVars, threadVars, recVars, nodeVars,
          Goto, Labels, ExecLabels, AbortLabels, Decided, Alone, Known, CommitIsFinal,
          BeforeCommit, BeforeJournal, Aborting, Deciding, Over
  <1>1. ASSUME NEW a \in Attempts, Reserve(a)
       PROVE  Decided'
    BY <1>1 DEF Reserve
  <1>2. ASSUME NEW a \in Attempts, BeginAttempt(a)
       PROVE  Decided'
    BY <1>2 DEF BeginAttempt
  <1>3. ASSUME NEW a \in Attempts, InsertScaffold(a)
       PROVE  Decided'
    BY <1>3 DEF InsertScaffold
  <1>4. ASSUME NEW a \in Attempts, EnterCapturing(a)
       PROVE  Decided'
    BY <1>4 DEF EnterCapturing, LifecycleStep, SetLifecycle
  <1>5. ASSUME NEW a \in Attempts, AcceptCapture(a)
       PROVE  Decided'
    BY <1>5 DEF AcceptCapture, LifecycleStep, SetLifecycle
  <1>6. ASSUME NEW a \in Attempts, RefuseCapture(a)
       PROVE  Decided'
    BY <1>6 DEF RefuseCapture
  <1>7. ASSUME NEW a \in Attempts, EnterValidating(a)
       PROVE  Decided'
    BY <1>7 DEF EnterValidating, LifecycleStep, SetLifecycle
  <1>8. ASSUME NEW a \in Attempts, SealManifest(a)
       PROVE  Decided'
    BY <1>8 DEF SealManifest
  <1>9. ASSUME NEW a \in Attempts, EnterSealed(a)
       PROVE  Decided'
    BY <1>9 DEF EnterSealed, LifecycleStep, SetLifecycle
  <1>10. ASSUME NEW a \in Attempts, EnterPersisting(a)
       PROVE  Decided'
    BY <1>10 DEF EnterPersisting, LifecycleStep, SetLifecycle
  <1>11. ASSUME NEW a \in Attempts, UpdateImage(a)
       PROVE  Decided'
    BY <1>11 DEF UpdateImage
  <1>12. ASSUME NEW a \in Attempts, JournalPersisted(a)
       PROVE  Decided'
    BY <1>12 DEF JournalPersisted
  <1>13. ASSUME NEW a \in Attempts, CaptureCommit(a)
       PROVE  Decided'
    BY <1>13 DEF CaptureCommit, CommitTx
  <1>14. ASSUME NEW a \in Attempts, SendResume(a)
       PROVE  Decided'
    BY <1>14 DEF SendResume
  <1>15. ASSUME NEW a \in Attempts, ResumeFailed(a)
       PROVE  Decided'
    BY <1>15 DEF ResumeFailed, FinishStep, AttemptFinish
  <1>16. ASSUME NEW a \in Attempts, FinishCommitted(a)
       PROVE  Decided'
    BY <1>16 DEF FinishCommitted, FinishStep, AttemptFinish
  <1>17. ASSUME NEW a \in Attempts, ReleaseCommitted(a)
       PROVE  Decided'
    BY <1>17 DEF ReleaseCommitted, ReleaseStep
  <1>18. ASSUME NEW a \in Attempts, GiveUp(a)
       PROVE  Decided'
    BY <1>18 DEF GiveUp, Resumption
  <1>19. ASSUME NEW a \in Attempts, StoreError(a)
       PROVE  Decided'
    BY <1>19 DEF StoreError
  <1>20. ASSUME NEW a \in Attempts, AbortStart(a)
       PROVE  Decided'
    <2>1. sawCommitted \in [Attempts -> BOOLEAN]
      BY DEF TypeOK
    <2>2. sawCommitted' = [sawCommitted EXCEPT ![a] = a \in dbCommitted]
      BY <1>20 DEF AbortStart
    <2>3. sawCommitted'[a] = (a \in dbCommitted)
      BY ONLY <2>1, <2>2, a \in Attempts, Zenon
    <2>4. \A b \in Attempts \ {a} : sawCommitted'[b] = sawCommitted[b]
      BY ONLY <2>1, <2>2
    <2>5. \A b \in Attempts : (b = a /\ b \in dbCommitted) \/ (b # a /\ sawCommitted[b])
              => sawCommitted'[b]
      BY ONLY <2>3, <2>4, Zenon
    <2>6. Known'
      BY <1>20, <2>5 DEF AbortStart
    <2> QED BY <1>20, <2>6 DEF AbortStart
  <1>21. ASSUME NEW a \in Attempts, AbortCleanup(a)
       PROVE  Decided'
    BY <1>21 DEF AbortCleanup, CleanupStep
  <1>22. ASSUME NEW a \in Attempts, AbortRead(a)
       PROVE  Decided'
    BY <1>22 DEF AbortRead
  <1>23. ASSUME NEW a \in Attempts, AbortFailRow(a)
       PROVE  Decided'
    BY <1>23 DEF AbortFailRow
  <1>24. ASSUME NEW a \in Attempts, AbortFinish(a)
       PROVE  Decided'
    BY <1>24 DEF AbortFinish, FinishStep, AttemptFinish
  <1>25. ASSUME NEW a \in Attempts, AbortRelease(a)
       PROVE  Decided'
    BY <1>25 DEF AbortRelease, ReleaseStep
  <1> QED BY <1>1, <1>2, <1>3, <1>4, <1>5, <1>6, <1>7, <1>8, <1>9, <1>10, <1>11, <1>12,
      <1>13, <1>14, <1>15, <1>16, <1>17, <1>18, <1>19, <1>20, <1>21, <1>22, <1>23, <1>24,
      <1>25 DEF ThreadStep

\* So do requests, restores and expiries.
LEMMA DecidedRequest ==
    ASSUME "overlap" \notin Faults, TypeOK, TypeOK', Decided, NEW a0 \in Attempts, RequestStep(a0)
    PROVE  Decided'
  <1> USE DEF TypeOK, storeVars, rowVars, bookVars, workVars, threadVars, recVars, nodeVars,
          Goto, Labels, ExecLabels, AbortLabels, Decided, Alone, Known, CommitIsFinal,
          BeforeCommit, BeforeJournal, Aborting, Deciding, Over
  <1>1. ASSUME NEW a \in Attempts, RequestCapture(a)
       PROVE  Decided'
    BY <1>1 DEF RequestCapture
  <1>2. ASSUME NEW a \in Attempts, RestoreBegin(a)
       PROVE  Decided'
    BY <1>2 DEF RestoreBegin, RestoreStep
  <1>3. ASSUME NEW a \in Attempts, RestoreApply(a)
       PROVE  Decided'
    BY <1>3 DEF RestoreApply, RestoreStep
  <1>4. ASSUME NEW a \in Attempts, RestoreAbort(a)
       PROVE  Decided'
    BY <1>4 DEF RestoreAbort, RestoreStep
  <1>5. ASSUME NEW a \in Attempts, RestoreCommit(a)
       PROVE  Decided'
    BY <1>5 DEF RestoreCommit, RestoreStep
  <1>6. ASSUME NEW a \in Attempts, ExpireReservation(a)
       PROVE  Decided'
    BY <1>6 DEF ExpireReservation
  <1>7. ASSUME NEW a \in Attempts, SweepStaging(a)
       PROVE  Decided'
    BY <1>7 DEF SweepStaging
  <1> QED BY <1>1, <1>2, <1>3, <1>4, <1>5, <1>6, <1>7 DEF RequestStep, RestoreNext

\* So does recovery, which runs while no thread does.
LEMMA DecidedRecovery ==
    ASSUME "overlap" \notin Faults, TypeOK, TypeOK', Decided, RecoveryStart \/ RecoveryStep
    PROVE  Decided'
  <1> USE DEF TypeOK, storeVars, rowVars, bookVars, workVars, threadVars, recVars, nodeVars,
          Goto, Labels, ExecLabels, AbortLabels, Decided, Alone, Known, CommitIsFinal,
          BeforeCommit, BeforeJournal, Aborting, Deciding, Over
  <1>1. ASSUME RecoveryStart
       PROVE  Decided'
    BY <1>1 DEF RecoveryStart, Live
  <1>2. ASSUME NEW a \in Attempts, RecoveryPick(a)
       PROVE  Decided'
    BY <1>2 DEF RecoveryPick
  <1>3. ASSUME RecoveryGet
       PROVE  Decided'
    BY <1>3 DEF RecoveryGet
  <1>4. ASSUME RecoveryCommit
       PROVE  Decided'
    BY <1>4 DEF RecoveryCommit, CommitTx
  <1>5. ASSUME RecoveryReject
       PROVE  Decided'
    BY <1>5 DEF RecoveryReject
  <1>6. ASSUME RecoveryFinish
       PROVE  Decided'
    BY <1>6 DEF RecoveryFinish, AttemptFinish
  <1>7. ASSUME RecoveryRelease
       PROVE  Decided'
    BY <1>7 DEF RecoveryRelease
  <1>8. ASSUME NEW a \in Attempts, RecoveryApply(a)
       PROVE  Decided'
    BY <1>8 DEF RecoveryApply
  <1>9. ASSUME RecoveryCleanup
       PROVE  Decided'
    BY <1>9 DEF RecoveryCleanup
  <1>10. ASSUME RecoveryDone
       PROVE  Decided'
    BY <1>10 DEF RecoveryDone, RecoveryReturns
  <1>11. ASSUME RecoveryError
       PROVE  Decided'
    BY <1>11 DEF RecoveryError, RecoveryReturns
  <1> QED BY <1>1, <1>2, <1>3, <1>4, <1>5, <1>6, <1>7, <1>8, <1>9, <1>10, <1>11 DEF
      RecoveryStep

\* So do the node and its world.
LEMMA DecidedNode ==
    ASSUME "overlap" \notin Faults, TypeOK, TypeOK', Decided, NodeOrFaultStep
    PROVE  Decided'
  <1> USE DEF TypeOK, storeVars, rowVars, bookVars, workVars, threadVars, recVars, nodeVars,
          Goto, Labels, ExecLabels, AbortLabels, Decided, Alone, Known, CommitIsFinal,
          BeforeCommit, BeforeJournal, Aborting, Deciding, Over
  <1>1. NodeEffect
    BY NodeEffects
  <1>2. CASE Answered /\ RecoveryIdles
    <2>1. Alone'
      BY <1>1, <1>2 DEF NodeEffect, recordVars, Answered, Onward, RecoveryIdles
    <2>2. Known'
      BY <1>1, <1>2 DEF NodeEffect, recordVars, Answered, Onward
    <2> QED BY <1>1, <2>1, <2>2 DEF NodeEffect, recordVars
  <1>3. CASE ThreadsDie
    BY <1>1, <1>3 DEF NodeEffect, recordVars, ThreadsDie, Live
  <1> QED BY <1>1, <1>2, <1>3 DEF NodeEffect

\* Initially nothing is decided.
LEMMA InitDecided == Init => Decided
  BY DEF Init, Decided, Alone, Known, CommitIsFinal, BeforeCommit, BeforeJournal, Aborting,
         AbortLabels, Deciding, Over

\* Every step keeps it.
LEMMA StepDecided ==
    ASSUME "overlap" \notin Faults, IInv, IInv', Decided, [Next]_vars
    PROVE  Decided'
  <1>1. TypeOK /\ TypeOK'
    BY DEF IInv
  <1>2. CASE UNCHANGED vars
    BY <1>2 DEF vars, storeVars, rowVars, bookVars, workVars, threadVars, recVars, nodeVars,
        Decided, Alone, Known, CommitIsFinal
  <1>3. CASE Next
    BY <1>1, <1>3, NextSteps, DecidedThread, DecidedRequest, DecidedRecovery, DecidedNode
  <1> QED BY <1>2, <1>3

\* What threads and recovery know is true in every reachable state.
LEMMA AlwaysDecided ==
    ASSUME "overlap" \notin Faults
    PROVE  Spec => [](IInv /\ Decided)
  <1>1. Decided /\ IInv /\ IInv' /\ [Next]_vars => Decided'
    BY StepDecided
  <1> QED BY <1>1, InitDecided, Inductive, PTL DEF Spec

\* Unless recovery is run, or a reservation expires, while a capture thread is at work, a
\* checkpoint whose capture_commit has run is never recorded as failed, for any number of
\* captures and whatever else fails, whoever dies or is cut off (capture_commit,
\* abort_capture_attempt, reconcile_attempt).
THEOREM CommitsAreFinal ==
    ASSUME "overlap" \notin Faults
    PROVE  Spec => []CommitIsFinal
  <1>1. Decided => CommitIsFinal
    BY DEF Decided
  <1> QED BY <1>1, AlwaysDecided, PTL

------------------------------------------------------------------------------
(* The steps that write rows *)

\* A row before its commit.
Working == {"CREATED", "CAPTURING", "CAPTURED", "VALIDATING", "SEALED", "PERSISTING"}

\* The rows, their numbers and links, and the workload.
chainVars == <<lifecycle, generation, capturedAt, supersedes, supersededBy, lineage,
               dbCommitted, workloadGeneration, checkpointGeneration>>
NoneStarts == \A a \in Attempts : pc'[a] # "idle" => pc[a] # "idle"
OnlyLifecycle == UNCHANGED <<generation, capturedAt, supersedes, supersededBy, lineage,
                             dbCommitted, workloadGeneration, checkpointGeneration>>

\* A capture at work takes its row on.
Works(a) ==
    /\ OnlyLifecycle /\ NoneStarts
    /\ lifecycle[a] \in Working
    /\ \E l \in Working : lifecycle' = [lifecycle EXCEPT ![a] = l]

\* The thread, or recovery, commits.
Commits(a) ==
    /\ NoneStarts
    /\ pc[a] = "commit" \/ (recPc = "commit" /\ recCur = a)
    /\ a \in persisted /\ CommitAccepts(a) /\ CommitTx(a)

\* The thread, or recovery, fails the row.
Fails(a) ==
    /\ OnlyLifecycle /\ NoneStarts
    /\ pc[a] = "abort_fail" \/ (recPc = "reject" /\ recCur = a)
    /\ lifecycle[a] # "none"
    /\ lifecycle' = [lifecycle EXCEPT ![a] = "FAILED"]

\* The steps that write the row of a.
RowStep(a) ==
    \/ RequestCapture(a) \/ InsertScaffold(a) \/ RestoreNext(a)
    \/ Works(a) \/ Commits(a) \/ Fails(a)

\* Every other step leaves them alone.
RowEffect == \/ \E a \in Attempts : RowStep(a)
             \/ UNCHANGED chainVars /\ NoneStarts

\* A thread writes its own row only, in one of the ways above, and starts no other.
LEMMA ThreadRows ==
    ASSUME IInv, NEW a \in Attempts, ThreadStep(a)
    PROVE  RowStep(a) \/ (UNCHANGED chainVars /\ NoneStarts)
  <1> USE DEF storeVars, rowVars, bookVars, workVars, chainVars, Goto
  <1>1. TypeOK /\ Evidence /\ RowFollowsThread
    BY DEF IInv, Ordered
  <1>2. pc[a] # "idle" /\ \A b \in Attempts \ {a} : pc'[b] = pc[b]
    BY <1>1 DEF TypeOK, ThreadStep, Reserve, BeginAttempt, InsertScaffold, EnterCapturing,
       AcceptCapture, RefuseCapture, EnterValidating, SealManifest, EnterSealed,
       EnterPersisting, UpdateImage, JournalPersisted, CaptureCommit, SendResume, ResumeFailed,
       FinishCommitted, ReleaseCommitted, GiveUp, StoreError, AbortStart, AbortCleanup,
       AbortRead, AbortFailRow, AbortFinish, AbortRelease, LifecycleStep, FinishStep,
       ReleaseStep, CleanupStep
  <1>3. NoneStarts
    BY <1>2 DEF NoneStarts
  <1>4. CASE EnterCapturing(a) \/ AcceptCapture(a) \/ EnterValidating(a) \/ EnterSealed(a)
             \/ EnterPersisting(a)
    <2>1. /\ OnlyLifecycle
          /\ \E l \in {"CAPTURING", "CAPTURED", "VALIDATING", "SEALED", "PERSISTING"} :
                CanTransition(lifecycle[a], l) /\ lifecycle' = [lifecycle EXCEPT ![a] = l]
      BY <1>4 DEF EnterCapturing, AcceptCapture, EnterValidating, EnterSealed, EnterPersisting,
         LifecycleStep, SetLifecycle, OnlyLifecycle
    <2>2. PICK l \in {"CAPTURING", "CAPTURED", "VALIDATING", "SEALED", "PERSISTING"} :
              CanTransition(lifecycle[a], l) /\ lifecycle' = [lifecycle EXCEPT ![a] = l]
      BY <2>1
    <2>3. lifecycle[a] \in Working /\ l \in Working
      BY <2>2 DEF CanTransition, Successors, Working
    <2> QED BY <1>3, <2>1, <2>2, <2>3 DEF RowStep, Works
  <1>5. CASE UpdateImage(a)
    <2>1. lifecycle[a] = "PERSISTING"
      BY <1>1, <1>5 DEF UpdateImage, RowFollowsThread
    <2> QED BY <1>3, <1>5, <2>1 DEF UpdateImage, RowStep, Works, OnlyLifecycle, Working
  <1>6. CASE CaptureCommit(a)
    <2>1. a \in persisted
      BY <1>1, <1>6 DEF CaptureCommit, Evidence, ThreadEvidence, AfterJournal
    <2> QED BY <1>3, <1>6, <2>1 DEF CaptureCommit, RowStep, Commits
  <1>7. CASE AbortFailRow(a)
    <2>1. lifecycle[a] # "none"
      BY <1>1, <1>7 DEF AbortFailRow, RowFollowsThread
    <2> QED BY <1>3, <1>7, <2>1 DEF AbortFailRow, RowStep, Fails, OnlyLifecycle
  <1>8. CASE Reserve(a) \/ BeginAttempt(a) \/ RefuseCapture(a) \/ SealManifest(a)
             \/ JournalPersisted(a) \/ SendResume(a) \/ ResumeFailed(a) \/ FinishCommitted(a)
             \/ ReleaseCommitted(a) \/ GiveUp(a) \/ StoreError(a) \/ AbortStart(a)
             \/ AbortCleanup(a) \/ AbortRead(a) \/ AbortFinish(a) \/ AbortRelease(a)
    BY <1>3, <1>8 DEF Reserve, BeginAttempt, RefuseCapture, SealManifest, JournalPersisted,
       SendResume, ResumeFailed, FinishCommitted, ReleaseCommitted, GiveUp, StoreError,
       AbortStart, AbortCleanup, AbortRead, AbortFinish, AbortRelease, FinishStep, ReleaseStep,
       CleanupStep
  <1>9. InsertScaffold(a) => RowStep(a)
    BY DEF RowStep
  <1> QED BY <1>4, <1>5, <1>6, <1>7, <1>8, <1>9 DEF ThreadStep

\* Every step writes a row in one of these ways or leaves the rows alone.
LEMMA RowEffects ==
    ASSUME IInv, [Next]_vars
    PROVE  RowEffect
  <1> USE DEF storeVars, rowVars, bookVars, workVars, threadVars, chainVars
  <1>1. TypeOK /\ Evidence /\ RowFollowsThread
    BY DEF IInv, Ordered
  <1>2. CASE UNCHANGED vars
    BY <1>2 DEF vars, RowEffect, NoneStarts
  <1>3. ASSUME NEW a \in Attempts, ThreadStep(a)
        PROVE  RowEffect
    BY <1>3, ThreadRows DEF RowEffect
  <1>4. ASSUME NEW a \in Attempts, RequestStep(a)
        PROVE  RowEffect
    BY <1>4 DEF RequestStep, ExpireReservation, SweepStaging, RowEffect, RowStep, NoneStarts
  <1>5. CASE RecoveryStart \/ RecoveryStep
    <2>0. NoneStarts
      BY <1>5 DEF RecoveryStart, RecoveryStep, RecoveryPick, RecoveryGet, RecoveryCommit,
         RecoveryReject, RecoveryFinish, RecoveryRelease, RecoveryApply, RecoveryCleanup,
         RecoveryDone, RecoveryError, NoneStarts
    <2>1. CASE RecoveryCommit
      <3>1. recCur \in Attempts /\ recCur \in persisted
        BY <1>1, <2>1 DEF RecoveryCommit, TypeOK, Evidence, RecoveryEvidence
      <3> QED BY <2>0, <2>1, <3>1 DEF RecoveryCommit, RowEffect, RowStep, Commits
    <2>2. CASE RecoveryReject
      <3>1. recCur \in Attempts /\ recCur \in persisted /\ lifecycle[recCur] # "none"
        BY <1>1, <2>2 DEF RecoveryReject, TypeOK, Evidence, RecoveryEvidence, RowFollowsThread
      <3> QED BY <2>0, <2>2, <3>1 DEF RecoveryReject, RowEffect, RowStep, Fails, OnlyLifecycle
    <2>3. CASE ~RecoveryCommit /\ ~RecoveryReject
      BY <1>5, <2>0, <2>3 DEF RecoveryStart, RecoveryStep, RecoveryPick, RecoveryGet,
         RecoveryFinish, RecoveryRelease, RecoveryApply, RecoveryCleanup, RecoveryDone,
         RecoveryError, RowEffect
    <2> QED BY <2>1, <2>2, <2>3
  <1>6. CASE NodeOrFaultStep
    <2>1. NodeEffect
      BY <1>1, <1>6, NodeEffects
    <2>2. NoneStarts
      BY <2>1 DEF NodeEffect, Answered, Onward, ThreadsDie, Live, NoneStarts
    <2> QED BY <2>1, <2>2 DEF NodeEffect, recordVars, RowEffect
  <1> QED BY <1>2, <1>3, <1>4, <1>5, <1>6, NextSteps

------------------------------------------------------------------------------
(* Numbers *)

\* Initially no number is given.
LEMMA InitNumbered == Init => Numbered
  BY DEF Init, Numbered, Rows

\* A step that makes no request and no row keeps the numbers.
LEMMA SameRowsNumbered ==
    ASSUME TypeOK, Numbered, NoneStarts, generation' = generation, capturedAt' = capturedAt,
           workloadGeneration' \in Nat, workloadGeneration <= workloadGeneration',
           Rows' \subseteq Rows
    PROVE  Numbered'
  BY DEF TypeOK, Numbered, NoneStarts

\* Every step keeps the numbers.
LEMMA StepNumbered ==
    ASSUME IInv, IInv', Numbered, [Next]_vars
    PROVE  Numbered'
  <1>1. TypeOK /\ TypeOK' /\ IdleIsFresh
    BY DEF IInv, Ordered
  <1>2. RowEffect
    BY RowEffects
  <1>3. CASE UNCHANGED chainVars /\ NoneStarts
    BY <1>1, <1>3, SameRowsNumbered DEF chainVars, Rows, TypeOK
  <1>4. ASSUME NEW a \in Attempts, Works(a) \/ Fails(a)
        PROVE  Numbered'
    BY <1>1, <1>4, SameRowsNumbered DEF Works, Fails, OnlyLifecycle, Working, Rows, TypeOK
  <1>5. ASSUME NEW a \in Attempts, Commits(a)
        PROVE  Numbered'
    <2>1. /\ NoneStarts /\ generation' = generation /\ capturedAt' = capturedAt
          /\ workloadGeneration' = workloadGeneration
          /\ lifecycle[a] # "none" /\ lifecycle' = [lifecycle EXCEPT ![a] = "AVAILABLE"]
      BY <1>5 DEF Commits, CommitTx, CommitAccepts
    <2> QED BY <1>1, <2>1, SameRowsNumbered DEF Rows, TypeOK
  <1>6. ASSUME NEW a \in Attempts, RestoreNext(a)
        PROVE  Numbered'
    BY <1>1, <1>6, SameRowsNumbered DEF RestoreNext, RestoreBegin, RestoreApply, RestoreAbort,
       RestoreCommit, RestoreStep, Rows, TypeOK, workVars, threadVars, NoneStarts
  <1>7. ASSUME NEW a \in Attempts, RequestCapture(a)
        PROVE  Numbered'
    <2>1. /\ a \notin Rows /\ Rows' = Rows /\ workloadGeneration' = workloadGeneration
          /\ \A b \in Attempts \ {a} : /\ pc'[b] = pc[b] /\ generation'[b] = generation[b]
                                       /\ capturedAt'[b] = capturedAt[b]
          /\ capturedAt'[a] = workloadGeneration
      BY <1>1, <1>7 DEF RequestCapture, IdleIsFresh, Fresh, Rows, TypeOK, workVars, Goto
    <2>2. generation'[a] > 0
      BY <1>1, <1>7 DEF RequestCapture, TypeOK, Rows
    <2> QED BY <1>1, <2>1, <2>2 DEF Numbered, TypeOK, Rows
  <1>8. ASSUME NEW a \in Attempts, InsertScaffold(a)
        PROVE  Numbered'
    BY <1>1, <1>8 DEF InsertScaffold, Numbered, TypeOK, Rows, workVars, Goto
  <1> QED BY <1>2, <1>3, <1>4, <1>5, <1>6, <1>7, <1>8 DEF RowEffect, RowStep

\* The numbers are right in every reachable state.
LEMMA AlwaysNumbered == Spec => [](IInv /\ Numbered)
  <1>1. Numbered /\ IInv /\ IInv' /\ [Next]_vars => Numbered'
    BY StepNumbered
  <1> QED BY <1>1, InitNumbered, Inductive, PTL DEF Spec

------------------------------------------------------------------------------
(* The protocol implements CheckpointCommit *)

\* What a reader sees of a: its status, its number and its workload generation.
Number(a) == IF a \in Rows THEN generation[a] ELSE 0
Base(a) == IF a \in Rows THEN capturedAt[a] ELSE 0
SeenAlike(a) == StatusOf(a)' = StatusOf(a) /\ Number(a)' = Number(a) /\ Base(a)' = Base(a)

\* What is seen of a depends on its row only.
LEMMA SameRowSeen ==
    ASSUME NEW a \in Attempts, lifecycle'[a] = lifecycle[a],
           a \in Rows => generation'[a] = generation[a] /\ capturedAt'[a] = capturedAt[a]
    PROVE  SeenAlike(a)
  BY DEF SeenAlike, StatusOf, Committed, Number, Base, Rows

\* If nothing is seen to change, the abstract specification stutters.
LEMMA UnseenStutters ==
    ASSUME \A a \in Attempts : SeenAlike(a),
           UNCHANGED <<workloadGeneration, checkpointGeneration>>
    PROVE  UNCHANGED Abstract!vars
  BY DEF SeenAlike, Abstract!vars, Number, Base

\* The commit is of a row that is still PERSISTING, and a row that is failed was not
\* committed.
LEMMA Undecided ==
    ASSUME IInv, Decided, NEW a \in Attempts, Commits(a) \/ Fails(a)
    PROVE  a \notin dbCommitted /\ ~Committed(a)
  BY DEF IInv, Decided, Alone, Known, Commits, Fails, Deciding, BeforeCommit, Evidence,
     JournalEvidence

\* Initial states are initial states of the abstract specification.
LEMMA InitImplements == Init => Abstract!Init
  <1> SUFFICES ASSUME Init PROVE Abstract!Init
    OBVIOUS
  <1>1. \A a \in Attempts : StatusOf(a) = "absent" /\ Number(a) = 0 /\ Base(a) = 0
    <2>1. \A a \in Attempts : lifecycle[a] = "none"
      BY DEF Init
    <2> QED BY <2>1 DEF StatusOf, Committed, Number, Base, Rows
  <1>2. workloadGeneration = 0 /\ checkpointGeneration = 0
    BY DEF Init
  <1> QED BY <1>1, <1>2 DEF Abstract!Init, Number, Base

\* Every step is a step of the abstract specification, or is not seen.
LEMMA StepImplements ==
    ASSUME IInv, IInv', Decided, Numbered, [Next]_vars
    PROVE  [Abstract!Next]_(Abstract!vars)
  <1>1. TypeOK /\ TypeOK' /\ IdleIsFresh
    BY DEF IInv, Ordered
  <1>2. RowEffect
    BY RowEffects
  <1>3. CASE UNCHANGED chainVars /\ NoneStarts
    BY <1>3, SameRowSeen, UnseenStutters DEF chainVars
  <1>4. ASSUME NEW a \in Attempts, RequestCapture(a)
        PROVE  UNCHANGED Abstract!vars
    <2>1. /\ a \notin Rows /\ lifecycle' = lifecycle
          /\ UNCHANGED <<workloadGeneration, checkpointGeneration>>
          /\ \A b \in Attempts \ {a} : generation'[b] = generation[b]
                                       /\ capturedAt'[b] = capturedAt[b]
      BY <1>1, <1>4 DEF RequestCapture, IdleIsFresh, Fresh, Rows, TypeOK, workVars
    <2> QED BY <2>1, SameRowSeen, UnseenStutters
  <1>5. ASSUME NEW a \in Attempts, Works(a)
        PROVE  UNCHANGED Abstract!vars
    <2>1. SeenAlike(a)
      BY <1>1, <1>5 DEF Works, OnlyLifecycle, Working, SeenAlike, StatusOf, Committed, Number,
         Base, Rows, TypeOK
    <2>2. \A b \in Attempts \ {a} : SeenAlike(b)
      BY <1>1, <1>5, SameRowSeen DEF Works, OnlyLifecycle, TypeOK
    <2> QED BY <1>5, <2>1, <2>2, UnseenStutters DEF Works, OnlyLifecycle
  <1>6. ASSUME NEW a \in Attempts, InsertScaffold(a)
        PROVE  [Abstract!Next]_(Abstract!vars)
    <2>1. UNCHANGED <<generation, capturedAt, workloadGeneration, checkpointGeneration>>
      BY <1>6 DEF InsertScaffold, workVars
    <2>2. CASE lifecycle' = lifecycle
      BY <2>1, <2>2, SameRowSeen, UnseenStutters
    <2>3. CASE lifecycle' # lifecycle
      <3>1. /\ lifecycle' = [lifecycle EXCEPT ![a] = "CREATED"]
            /\ \A b \in Rows : generation[b] # generation[a]
            /\ pc[a] = "insert"
        BY <1>6, <2>3 DEF InsertScaffold
      <3>2. lifecycle[a] = "none" /\ StatusOf(a) = "absent" /\ StatusOf(a)' = "pending"
        BY <1>1, <3>1 DEF StatusOf, Committed, Rows, TypeOK
      <3>3. \A b \in Attempts \ {a} : SeenAlike(b)
        BY <1>1, <2>1, <3>1, SameRowSeen DEF TypeOK
      <3>4. /\ Number(a)' # 0 /\ Base(a)' <= workloadGeneration
            /\ \A b \in Attempts \ {a} : Number(a)' # Number(b)
        BY <1>1, <2>1, <3>1 DEF Number, Base, Rows, Numbered, TypeOK
      <3>5. Abstract!Begin(a)
        BY <2>1, <3>2, <3>3, <3>4 DEF Abstract!Begin, SeenAlike, Number, Base
      <3> QED BY <3>5 DEF Abstract!Next
    <2> QED BY <2>2, <2>3
  <1>7. ASSUME NEW a \in Attempts, Commits(a)
        PROVE  Abstract!Next
    <2>1. ~Committed(a)
      BY <1>7, Undecided
    <2>2. /\ lifecycle[a] = "PERSISTING" /\ capturedAt[a] = workloadGeneration
          /\ lifecycle' = [lifecycle EXCEPT ![a] = "AVAILABLE"]
          /\ checkpointGeneration' = IF generation[a] >= checkpointGeneration
                                     THEN generation[a] ELSE checkpointGeneration
          /\ UNCHANGED <<generation, capturedAt, workloadGeneration>>
      BY <1>7, <2>1 DEF Commits, CommitAccepts, CommitTx, Committed
    <2>3. /\ StatusOf(a) = "pending" /\ StatusOf(a)' = "committed"
          /\ Number(a) = generation[a] /\ Base(a) = capturedAt[a]
          /\ Number(a)' = Number(a) /\ Base(a)' = Base(a)
      BY <1>1, <2>2 DEF StatusOf, Committed, Number, Base, Rows, TypeOK
    <2>4. \A b \in Attempts \ {a} : SeenAlike(b)
      BY <1>1, <2>2, SameRowSeen DEF TypeOK
    <2>5. Abstract!Commit(a)
      BY <2>2, <2>3, <2>4 DEF Abstract!Commit, SeenAlike, Number, Base
    <2> QED BY <2>5 DEF Abstract!Next
  <1>8. ASSUME NEW a \in Attempts, Fails(a)
        PROVE  [Abstract!Next]_(Abstract!vars)
    <2>1. ~Committed(a) /\ lifecycle[a] # "none"
      BY <1>8, Undecided DEF Fails
    <2>2. /\ lifecycle' = [lifecycle EXCEPT ![a] = "FAILED"]
          /\ UNCHANGED <<generation, capturedAt, workloadGeneration, checkpointGeneration>>
      BY <1>8 DEF Fails, OnlyLifecycle
    <2>3. \A b \in Attempts \ {a} : SeenAlike(b)
      BY <1>1, <2>2, SameRowSeen DEF TypeOK
    <2>4. CASE lifecycle[a] = "FAILED"
      BY <1>1, <2>2, <2>3, <2>4, SameRowSeen, UnseenStutters DEF TypeOK
    <2>5. CASE lifecycle[a] # "FAILED"
      <3>1. /\ StatusOf(a) = "pending" /\ StatusOf(a)' = "failed"
            /\ Number(a)' = Number(a) /\ Base(a)' = Base(a)
        BY <1>1, <2>1, <2>2, <2>5 DEF StatusOf, Committed, Number, Base, Rows, TypeOK
      <3>2. Abstract!Fail(a)
        BY <2>2, <2>3, <3>1 DEF Abstract!Fail, SeenAlike, Number, Base
      <3> QED BY <3>2 DEF Abstract!Next
    <2> QED BY <2>4, <2>5
  <1>9. ASSUME NEW a \in Attempts, RestoreNext(a)
        PROVE  [Abstract!Next]_(Abstract!vars)
    <2>1. /\ Committed(a) /\ Committed(a)' /\ UNCHANGED <<generation, capturedAt>>
          /\ \A b \in Attempts \ {a} : lifecycle'[b] = lifecycle[b]
      BY <1>1, <1>9 DEF RestoreNext, RestoreBegin, RestoreApply, RestoreAbort, RestoreCommit,
         RestoreStep, Committed, TypeOK
    <2>2. /\ StatusOf(a) = "committed" /\ SeenAlike(a) /\ Number(a) = generation[a]
      BY <1>1, <2>1 DEF SeenAlike, StatusOf, Committed, Number, Base, Rows
    <2>3. \A b \in Attempts : SeenAlike(b)
      BY <2>1, <2>2, SameRowSeen
    <2>4. CASE RestoreCommit(a)
      <3>1. /\ workloadGeneration' = workloadGeneration + 1
            /\ checkpointGeneration' = generation[a]
        BY <2>4 DEF RestoreCommit
      <3>2. Abstract!Restore(a)
        BY <2>2, <2>3, <3>1 DEF Abstract!Restore, SeenAlike, Number, Base
      <3> QED BY <3>2 DEF Abstract!Next
    <2>5. CASE ~RestoreCommit(a)
      BY <1>9, <2>3, <2>5, UnseenStutters DEF RestoreNext, RestoreBegin, RestoreApply,
         RestoreAbort, workVars
    <2> QED BY <2>4, <2>5
  <1> QED BY <1>2, <1>3, <1>4, <1>5, <1>6, <1>7, <1>8, <1>9 DEF RowEffect, RowStep

\* For any number of captures, with calls lost and delayed, store errors, restores, and the
\* coordinator and the node restarted at any point, what a reader of the metadata store sees
\* is a behaviour of CheckpointCommit: a checkpoint is committed in one step, for the workload
\* generation it was captured at, and for good, or it fails for good - as long as recovery
\* and expiry keep clear of capture threads at work (capture_commit, abort_capture_attempt,
\* reconcile_attempt).
THEOREM ImplementsCheckpointCommit ==
    ASSUME "overlap" \notin Faults
    PROVE  Spec => CommitsAtomically
  <1>1. /\ IInv /\ Decided /\ Numbered /\ IInv' /\ [Next]_vars
        => [Abstract!Next]_(Abstract!vars)
    BY StepImplements
  <1> QED BY <1>1, InitImplements, AlwaysDecided, AlwaysNumbered, PTL
          DEF Spec, CommitsAtomically, Abstract!Spec

------------------------------------------------------------------------------
(* A committed checkpoint keeps its directory *)

\* Where a thread was, given where it is: it never leaves an abort, and its image is
\* journaled from one label.
LEMMA ThreadOnward ==
    ASSUME TypeOK, [Next]_vars, NEW a \in Attempts
    PROVE  /\ pc[a] \in AbortLabels \cup Over => pc'[a] \in AbortLabels \cup Over
           /\ a \in persisted' => a \in persisted \/ pc[a] = "journal"
  <1> USE DEF storeVars, rowVars, bookVars, threadVars, Goto, AbortLabels, Over
  <1>1. CASE UNCHANGED vars
    BY <1>1 DEF vars
  <1>2. ASSUME NEW b \in Attempts, ThreadStep(b)
        PROVE  /\ pc[a] \in AbortLabels \cup Over => pc'[a] \in AbortLabels \cup Over
               /\ a \in persisted' => a \in persisted \/ pc[a] = "journal"
    <2> USE <1>2 DEF ThreadStep, Reserve, BeginAttempt, InsertScaffold, EnterCapturing,
         AcceptCapture, RefuseCapture, EnterValidating, SealManifest, EnterSealed,
         EnterPersisting, UpdateImage, JournalPersisted, CaptureCommit, CommitTx, SendResume,
         ResumeFailed, FinishCommitted, ReleaseCommitted, GiveUp, Resumption, StoreError,
         AbortStart, AbortCleanup, AbortRead, AbortFailRow, AbortFinish, AbortRelease,
         LifecycleStep, FinishStep, ReleaseStep, CleanupStep
    <2>1. \E l : /\ pc' = [pc EXCEPT ![b] = l]
                 /\ pc[b] \in AbortLabels => l \in AbortLabels \cup Over
                 /\ pc[b] \notin Over
      OBVIOUS
    <2>2. persisted' = persisted \/ (persisted' = persisted \cup {b} /\ pc[b] = "journal")
      OBVIOUS
    <2> QED BY ONLY TypeOK, <2>1, <2>2, a \in Attempts DEF TypeOK, AbortLabels, Over
  <1>3. ASSUME NEW b \in Attempts, RequestStep(b)
        PROVE  /\ pc[a] \in AbortLabels \cup Over => pc'[a] \in AbortLabels \cup Over
               /\ a \in persisted' => a \in persisted
    BY <1>3 DEF TypeOK, RequestStep, RequestCapture, RestoreNext, RestoreBegin, RestoreApply,
       RestoreAbort, RestoreCommit, RestoreStep, ExpireReservation, SweepStaging
  <1>4. CASE RecoveryStart \/ RecoveryStep
    BY <1>4 DEF RecoveryStart, RecoveryStep, RecoveryPick, RecoveryGet, RecoveryCommit,
       CommitTx, RecoveryReject, RecoveryFinish, RecoveryRelease, RecoveryApply,
       RecoveryCleanup, RecoveryDone, RecoveryError
  <1>5. CASE NodeOrFaultStep
    <2>1. NodeEffect
      BY <1>5, NodeEffects
    <2> QED BY <2>1 DEF NodeEffect, recordVars, Answered, Onward, ThreadsDie, Live
  <1> QED BY <1>1, <1>2, <1>3, <1>4, <1>5, NextSteps

\* No commit is ever to come of a capture of which none is.
LEMMA DoomedStays ==
    ASSUME IInv, IInv', Decided, Numbered, [Next]_vars, NEW a \in Attempts, Doomed(a)
    PROVE  Doomed(a)'
  <1>1. TypeOK /\ TypeOK' /\ IdleIsFresh
    BY DEF IInv, Ordered
  <1>2. /\ pc'[a] \in AbortLabels \cup Over
        /\ a \in persisted' => a \in persisted
    BY <1>1, ThreadOnward DEF Doomed, AbortLabels, Over
  <1>3. a \notin dbCommitted' /\ (capturedAt[a] < workloadGeneration =>
                                     capturedAt'[a] < workloadGeneration')
    <2>1. CASE UNCHANGED chainVars
      BY <2>1 DEF chainVars, Doomed
    <2>2. ASSUME NEW b \in Attempts, Works(b) \/ Fails(b)
          PROVE  UNCHANGED <<dbCommitted, capturedAt, workloadGeneration>>
      BY <2>2 DEF Works, Fails, OnlyLifecycle
    <2>3. ASSUME NEW b \in Attempts, Commits(b)
          PROVE  /\ UNCHANGED <<capturedAt, workloadGeneration>>
                 /\ dbCommitted' = dbCommitted \cup {b} /\ b # a
      <3>1. /\ capturedAt[b] = workloadGeneration /\ b \in persisted
            /\ UNCHANGED <<capturedAt, workloadGeneration>>
            /\ dbCommitted' = dbCommitted \cup {b}
        BY <2>3, Undecided DEF Commits, CommitAccepts, CommitTx, Committed
      <3> QED BY <1>1, <3>1 DEF Doomed, TypeOK
    <2>4. ASSUME NEW b \in Attempts, RequestCapture(b) \/ InsertScaffold(b)
          PROVE  UNCHANGED <<dbCommitted, workloadGeneration>> /\ capturedAt'[a] = capturedAt[a]
      BY <1>1, <2>4 DEF RequestCapture, InsertScaffold, bookVars, workVars, Doomed, TypeOK,
         AbortLabels, Over
    <2>5. ASSUME NEW b \in Attempts, RestoreNext(b)
          PROVE  /\ UNCHANGED <<dbCommitted, capturedAt>>
                 /\ workloadGeneration' \in {workloadGeneration, workloadGeneration + 1}
      BY <2>5 DEF RestoreNext, RestoreBegin, RestoreApply, RestoreAbort, RestoreCommit,
         RestoreStep, bookVars, workVars
    <2>6. RowEffect
      BY RowEffects
    <2> QED BY <1>1, <2>1, <2>2, <2>3, <2>4, <2>5, <2>6 DEF RowEffect, RowStep, Doomed, TypeOK
  <1> QED BY <1>2, <1>3 DEF Doomed

\* What does not concern a keeps it.
LEMMA OthersHeld ==
    ASSUME NEW a \in Attempts, HeldAt(a), Doomed(a) => Doomed(a)', pc'[a] = pc[a],
           lifecycle'[a] = lifecycle[a], a \in committed => a \in committed',
           a \in dbCommitted' <=> a \in dbCommitted, a \in persisted' <=> a \in persisted
    PROVE  HeldAt(a)'
  BY DEF HeldAt

\* A request keeps the deletions under way to what is doomed.
LEMMA SendHeld ==
    ASSUME TypeOK, \A m \in msgs : m.op = "cleanup" /\ m.delete => Doomed(m.att),
           \A a \in Attempts : Doomed(a) => Doomed(a)',
           NEW a \in Attempts, NEW op, NEW by, NEW delete \in BOOLEAN,
           Send(op, a, by, delete), op = "cleanup" /\ delete => Doomed(a)
    PROVE  \A m \in msgs' : m.op = "cleanup" /\ m.delete => Doomed(m.att)'
  <1> DEFINE new == [op |-> op, att |-> a, by |-> by, epoch |-> epoch, delete |-> delete]
  <1>1. new.op = op /\ new.att = a /\ new.delete = delete
    OBVIOUS
  <1>2. new.op = "cleanup" /\ new.delete => Doomed(new.att)
    BY <1>1
  <1>3. \A m \in msgs : m.att \in Attempts
    BY DEF TypeOK, Messages
  <1>4. msgs' \subseteq msgs \cup {new}
    BY DEF Send
  <1> HIDE DEF new
  <1> QED BY <1>1, <1>2, <1>3, <1>4

\* A step of thread a writes a's row and records only, leaves the directories and recovery
\* alone, and asks for a deletion only when it cleans up.
OwnStep(a) ==
    /\ \A b \in Attempts \ {a} : /\ pc'[b] = pc[b] /\ lifecycle'[b] = lifecycle[b]
                                 /\ b \in dbCommitted' <=> b \in dbCommitted
                                 /\ b \in persisted' <=> b \in persisted
    /\ UNCHANGED <<committed, recPc, recCur, recDelete>>
    /\ \/ msgs' = msgs
       \/ AbortCleanup(a)
       \/ \E op \in {"capture", "promote", "resume"}, by \in {"exec", "abort"} :
             Send(op, a, by, FALSE)

\* That is what each step of a thread does.
LEMMA ThreadOwns ==
    ASSUME TypeOK, NEW a \in Attempts, ThreadStep(a)
    PROVE  OwnStep(a)
  <1> USE DEF TypeOK, storeVars, rowVars, bookVars, recVars, nodeVars, Goto,
       ThreadStep, Reserve, BeginAttempt, InsertScaffold, EnterCapturing,
       AcceptCapture, RefuseCapture, EnterValidating, SealManifest, EnterSealed,
       EnterPersisting, UpdateImage, JournalPersisted, CaptureCommit, CommitTx, SendResume,
       ResumeFailed, FinishCommitted, ReleaseCommitted, GiveUp, StoreError,
       AbortStart, AbortCleanup, AbortRead, AbortFailRow, AbortFinish, AbortRelease,
       LifecycleStep, SetLifecycle, FinishStep, ReleaseStep, CleanupStep
  <1>1. \A b \in Attempts \ {a} : /\ pc'[b] = pc[b] /\ lifecycle'[b] = lifecycle[b]
                                  /\ b \in dbCommitted' <=> b \in dbCommitted
                                  /\ b \in persisted' <=> b \in persisted
    <2>1. \E l : pc' = [pc EXCEPT ![a] = l]
      OBVIOUS
    <2>2. lifecycle' = lifecycle \/ \E l : lifecycle' = [lifecycle EXCEPT ![a] = l]
      OBVIOUS
    <2>3. dbCommitted' \in {dbCommitted, dbCommitted \cup {a}}
      OBVIOUS
    <2>4. persisted' \in {persisted, persisted \cup {a}}
      OBVIOUS
    <2> QED BY ONLY TypeOK, <2>1, <2>2, <2>3, <2>4 DEF TypeOK
  <1>2. UNCHANGED <<committed, recPc, recCur, recDelete>>
    OBVIOUS
  <1>3. \/ msgs' = msgs
        \/ AbortCleanup(a)
        \/ \E op \in {"capture", "promote", "resume"}, by \in {"exec", "abort"} :
              Send(op, a, by, FALSE)
    OBVIOUS
  <1> QED BY ONLY <1>1, <1>2, <1>3 DEF OwnStep

\* The thread of a keeps its directory until no commit is to come.
LEMMA ThreadHeld ==
    ASSUME "store" \notin Faults, TypeOK, Evidence, RowFollowsThread, Decided, Numbered,
           NEW a0 \in Attempts, HeldAt(a0), Doomed(a0) => Doomed(a0)', ThreadStep(a0)
    PROVE  HeldAt(a0)'
  <1> a0 \in persisted => a0 \in located \cap anchored
    BY DEF Evidence, JournalEvidence
  <1> USE DEF TypeOK, storeVars, rowVars, bookVars, workVars, nodeVars, Goto, HeldAt, Doomed,
              AbortLabels, Over
  <1>1. CASE Reserve(a0)
    BY <1>1 DEF Reserve, RowFollowsThread, BeforeJournal
  <1>2. CASE BeginAttempt(a0)
    BY <1>2 DEF BeginAttempt, RowFollowsThread, BeforeJournal
  <1>3. CASE InsertScaffold(a0)
    BY <1>3 DEF InsertScaffold, RowFollowsThread, BeforeJournal, Decided, Known,
       BeforeCommit
  <1>4. CASE EnterCapturing(a0)
    BY <1>4 DEF EnterCapturing, LifecycleStep, SetLifecycle, RowFollowsThread, BeforeJournal
  <1>5. CASE AcceptCapture(a0)
    BY <1>5 DEF AcceptCapture, LifecycleStep, SetLifecycle, RowFollowsThread, BeforeJournal
  <1>6. CASE RefuseCapture(a0)
    BY <1>6 DEF RefuseCapture, RowFollowsThread, BeforeJournal, Decided, Known, BeforeCommit
  <1>7. CASE EnterValidating(a0)
    BY <1>7 DEF EnterValidating, LifecycleStep, SetLifecycle, RowFollowsThread,
       BeforeJournal
  <1>8. CASE SealManifest(a0)
    BY <1>8 DEF SealManifest, RowFollowsThread, BeforeJournal
  <1>9. CASE EnterSealed(a0)
    BY <1>9 DEF EnterSealed, LifecycleStep, SetLifecycle, RowFollowsThread, BeforeJournal
  <1>10. CASE EnterPersisting(a0)
    BY <1>10 DEF EnterPersisting, LifecycleStep, SetLifecycle, RowFollowsThread,
       BeforeJournal
  <1>11. CASE UpdateImage(a0)
    BY <1>11 DEF UpdateImage, RowFollowsThread, BeforeJournal
  <1>12. CASE JournalPersisted(a0)
    BY <1>12 DEF JournalPersisted, RowFollowsThread, BeforeJournal, Decided, Known,
       BeforeCommit
  <1>13. CASE CaptureCommit(a0)
    BY <1>13 DEF CaptureCommit, CommitTx, RowFollowsThread, BeforeJournal, Decided, Known,
       BeforeCommit, Evidence, ThreadEvidence, AfterCommit, CommitAccepts, Numbered,
       AfterJournal
  <1>14. CASE SendResume(a0)
    BY <1>14 DEF SendResume, RowFollowsThread, BeforeJournal
  <1>15. CASE ResumeFailed(a0)
    BY <1>15 DEF ResumeFailed, FinishStep, AttemptFinish, RowFollowsThread, BeforeJournal,
       Decided, Known, BeforeCommit, Evidence, ThreadEvidence, AfterCommit
  <1>16. CASE FinishCommitted(a0)
    BY <1>16 DEF FinishCommitted, FinishStep, AttemptFinish, RowFollowsThread, BeforeJournal
  <1>17. CASE ReleaseCommitted(a0)
    BY <1>17 DEF ReleaseCommitted, ReleaseStep, RowFollowsThread, BeforeJournal
  <1>18. CASE GiveUp(a0)
    BY <1>18 DEF GiveUp, Resumption, RowFollowsThread, BeforeJournal, Decided, Known,
       BeforeCommit, Evidence, ThreadEvidence, AfterCommit
  <1>19. CASE StoreError(a0)
    BY <1>19 DEF StoreError, RowFollowsThread, BeforeJournal
  <1>20. CASE AbortStart(a0)
    BY <1>20 DEF AbortStart, RowFollowsThread, BeforeJournal
  <1>21. CASE AbortCleanup(a0)
    BY <1>21 DEF AbortCleanup, CleanupStep, RowFollowsThread, BeforeJournal
  <1>22. CASE AbortRead(a0)
    BY <1>22 DEF AbortRead, RowFollowsThread, BeforeJournal
  <1>23. CASE AbortFailRow(a0)
    BY <1>23 DEF AbortFailRow, RowFollowsThread, BeforeJournal, Decided, Known, BeforeCommit
  <1>24. CASE AbortFinish(a0)
    BY <1>24 DEF AbortFinish, FinishStep, AttemptFinish, RowFollowsThread, BeforeJournal
  <1>25. CASE AbortRelease(a0)
    BY <1>25 DEF AbortRelease, ReleaseStep, RowFollowsThread, BeforeJournal
  <1> QED BY <1>1, <1>2, <1>3, <1>4, <1>5, <1>6, <1>7, <1>8, <1>9, <1>10, <1>11, <1>12,
      <1>13, <1>14, <1>15, <1>16, <1>17, <1>18, <1>19, <1>20, <1>21, <1>22, <1>23, <1>24,
      <1>25 DEF ThreadStep

\* A thread's step keeps the directories.
LEMMA HeldThread ==
    ASSUME "store" \notin Faults, IInv, Decided, Numbered, Held,
           \A b \in Attempts : Doomed(b) => Doomed(b)', NEW a \in Attempts, ThreadStep(a)
    PROVE  Held'
  <1>1. TypeOK /\ Evidence /\ RowFollowsThread
    BY DEF IInv, Ordered
  <1>2. OwnStep(a)
    BY <1>1, ThreadOwns
  <1>3. HeldAt(a)'
    BY <1>1, ThreadHeld DEF Held
  <1>4. \A b \in Attempts \ {a} : HeldAt(b)'
    BY <1>2, OthersHeld DEF OwnStep, Held
  <1>5. \A m \in msgs' : m.op = "cleanup" /\ m.delete => Doomed(m.att)'
    <2>1. CASE msgs' = msgs
      BY <1>1, <2>1 DEF Held, TypeOK, Messages
    <2>2. CASE AbortCleanup(a)
      <3>1. (~sawCommitted[a]) \in BOOLEAN /\ Send("cleanup", a, "abort", ~sawCommitted[a])
        BY <2>2 DEF AbortCleanup, CleanupStep
      <3>2. ~sawCommitted[a] => Doomed(a)
        BY <2>2 DEF AbortCleanup, CleanupStep, Decided, Known, Aborting, AbortLabels, Held,
           HeldAt
      <3> QED BY <1>1, <3>1, <3>2, SendHeld DEF Held
    <2>3. CASE \E op \in {"capture", "promote", "resume"}, by \in {"exec", "abort"} :
                  Send(op, a, by, FALSE)
      BY <1>1, <2>3, SendHeld DEF Held
    <2> QED BY <1>2, <2>1, <2>2, <2>3 DEF OwnStep
  <1>6. (\A b \in recDelete : Doomed(b))' /\ (recPc = "reject" => recCur \in recDelete)'
    BY <1>1, <1>2 DEF OwnStep, Held, TypeOK
  <1> QED BY <1>3, <1>4, <1>5, <1>6 DEF Held

\* A step that leaves threads, records, directories, requests and recovery alone.
LEMMA HeldRequest ==
    ASSUME IInv, IInv', Decided, Held, \A b \in Attempts : Doomed(b) => Doomed(b)',
           NEW a \in Attempts, RequestStep(a)
    PROVE  Held'
  <1> USE DEF RequestStep, RestoreNext, RequestCapture, RestoreBegin, RestoreApply,
      RestoreAbort, RestoreCommit, RestoreStep, ExpireReservation, SweepStaging, Goto,
      storeVars, rowVars, bookVars, recVars, nodeVars, threadVars
  <1>1. TypeOK /\ Evidence /\ IdleIsFresh /\ RowFollowsThread
    BY ONLY IInv DEF IInv, Ordered
  <1>2. UNCHANGED <<committed, dbCommitted, persisted, msgs, recPc, recCur, recDelete>>
    OBVIOUS
  <1>3. \A b \in Attempts \ {a} : pc'[b] = pc[b] /\ lifecycle'[b] = lifecycle[b]
    BY <1>1 DEF TypeOK
  <1>4. \/ pc'[a] = pc[a] /\ lifecycle'[a] = lifecycle[a]
        \/ pc'[a] = "reserve" /\ a \notin persisted
        \/ pc'[a] = pc[a] /\ a \in dbCommitted
    BY <1>1 DEF TypeOK, IdleIsFresh, Fresh, Evidence, JournalEvidence, Committed
  <1>5. HeldAt(a)'
    BY ONLY <1>2, <1>4, Held, Doomed(a) => Doomed(a)', a \in Attempts
       DEF Held, HeldAt, AbortLabels
  <1>6. \A b \in Attempts \ {a} : HeldAt(b)'
    BY ONLY <1>2, <1>3, Held, \A b \in Attempts : Doomed(b) => Doomed(b)', OthersHeld DEF Held
  <1>7. /\ \A m \in msgs' : m.op = "cleanup" /\ m.delete => Doomed(m.att)'
        /\ \A b \in recDelete' : Doomed(b)'
        /\ recPc' = "reject" => recCur' \in recDelete'
    BY ONLY <1>1, <1>2, Held, \A b \in Attempts : Doomed(b) => Doomed(b)'
       DEF Held, TypeOK, Messages
  <1> QED BY ONLY <1>5, <1>6, <1>7 DEF Held

\* Recovery asks for a deletion only if its commit was refused for good.
LEMMA HeldRecovery ==
    ASSUME IInv, IInv', Decided, Numbered, Held,
           \A b \in Attempts : Doomed(b) => Doomed(b)', RecoveryStart \/ RecoveryStep
    PROVE  Held'
  <1> USE DEF storeVars, rowVars, bookVars, workVars, threadVars, nodeVars
  <1>1. TypeOK /\ Evidence
    BY DEF IInv
  <1>2. CASE RecoveryCommit
    <2>1. /\ recCur \in Attempts /\ recCur \in persisted /\ recCur \notin dbCommitted
          /\ recCur \in located \cap anchored /\ pc[recCur] \in Over /\ HeldAt(recCur)
      BY <1>1, <1>2 DEF RecoveryCommit, TypeOK, Evidence, RecoveryEvidence, JournalEvidence,
         Decided, Alone, Deciding, Held
    <2>2. UNCHANGED <<pc, committed, persisted, msgs, recCur>>
      BY <1>2 DEF RecoveryCommit, CommitTx
    <2>3. CASE CommitAccepts(recCur)
      <3>1. /\ dbCommitted' = dbCommitted \cup {recCur} /\ recDelete' = recDelete
            /\ lifecycle' = [lifecycle EXCEPT ![recCur] = "AVAILABLE"] /\ recPc' = "finish_ok"
        BY <1>2, <2>3 DEF RecoveryCommit, CommitTx
      <3>2. ~Doomed(recCur)
        BY <1>1, <2>1, <2>3 DEF CommitAccepts, Doomed, HeldAt, TypeOK
      <3>3. HeldAt(recCur)'
        BY <2>1, <2>2, <3>1, <3>2 DEF HeldAt
      <3>4. \A b \in Attempts \ {recCur} : HeldAt(b)'
        BY <1>1, <2>2, <3>1, OthersHeld DEF Held, TypeOK
      <3> QED BY <1>1, <2>1, <2>2, <3>1, <3>3, <3>4 DEF Held, TypeOK, Messages
    <2>4. CASE ~CommitAccepts(recCur)
      <3>1. /\ dbCommitted' = dbCommitted /\ lifecycle' = lifecycle
            /\ recDelete' = recDelete \cup {recCur}
        BY <1>2, <2>4 DEF RecoveryCommit
      <3>2. Doomed(recCur)
        BY <1>1, <2>1, <2>4 DEF CommitAccepts, Doomed, HeldAt, Numbered, TypeOK
      <3>3. \A b \in Attempts : HeldAt(b)'
        BY <1>1, <2>2, <3>1, OthersHeld DEF Held, TypeOK
      <3> QED BY <1>1, <2>1, <2>2, <3>1, <3>2, <3>3 DEF Held, TypeOK, Messages
    <2> QED BY <2>3, <2>4
  <1>3. CASE RecoveryReject
    <2>1. recCur \in Attempts /\ Doomed(recCur) /\ HeldAt(recCur)
      BY <1>1, <1>3 DEF RecoveryReject, TypeOK, Held
    <2>2. /\ UNCHANGED <<pc, committed, persisted, dbCommitted, msgs, recCur, recDelete>>
          /\ lifecycle' = [lifecycle EXCEPT ![recCur] = "FAILED"] /\ recPc' = "finish_fail"
      BY <1>3 DEF RecoveryReject
    <2>3. HeldAt(recCur)'
      BY <1>1, <2>1, <2>2 DEF HeldAt, TypeOK
    <2>4. \A b \in Attempts \ {recCur} : HeldAt(b)'
      BY <1>1, <2>2, OthersHeld DEF Held, TypeOK
    <2> QED BY <1>1, <2>1, <2>2, <2>3, <2>4 DEF Held, TypeOK, Messages
  <1>4. CASE ~RecoveryCommit /\ ~RecoveryReject
    <2> USE <1>4 DEF RecoveryStart, RecoveryStep, RecoveryPick, RecoveryGet, RecoveryFinish,
        RecoveryRelease, RecoveryApply, RecoveryCleanup, RecoveryDone, RecoveryError,
        RecoveryReturns
    <2>1. UNCHANGED <<pc, committed, persisted, dbCommitted, lifecycle>>
      OBVIOUS
    <2>2. recDelete' \in {recDelete, {}} /\ recPc' # "reject"
      OBVIOUS
    <2>3. \A b \in Attempts : HeldAt(b)'
      BY ONLY <2>1, OthersHeld, Held, \A b \in Attempts : Doomed(b) => Doomed(b)' DEF Held
    <2>4. \/ msgs' = msgs
          \/ \E a \in Attempts : Send("resume", a, "recovery", FALSE)
          \/ Send("cleanup", recCur, "recovery", recCur \in recDelete) /\ recPc = "cleanup"
      OBVIOUS
    <2>5. \A m \in msgs' : m.op = "cleanup" /\ m.delete => Doomed(m.att)'
      <3>1. CASE msgs' = msgs
        BY ONLY <1>1, <3>1, Held, \A b \in Attempts : Doomed(b) => Doomed(b)'
           DEF Held, TypeOK, Messages
      <3>2. CASE \E a \in Attempts : Send("resume", a, "recovery", FALSE)
        BY ONLY <1>1, <3>2, SendHeld, Held, \A b \in Attempts : Doomed(b) => Doomed(b)' DEF Held
      <3>3. CASE Send("cleanup", recCur, "recovery", recCur \in recDelete) /\ recPc = "cleanup"
        <4>1. /\ recCur \in Attempts /\ (recCur \in recDelete) \in BOOLEAN
              /\ recCur \in recDelete => Doomed(recCur)
          BY ONLY <1>1, <3>3, Held DEF TypeOK, Held
        <4> QED BY ONLY <1>1, <3>3, <4>1, SendHeld, Held,
                   \A b \in Attempts : Doomed(b) => Doomed(b)' DEF Held
      <3> QED BY ONLY <2>4, <3>1, <3>2, <3>3
    <2> QED BY ONLY <1>1, <2>2, <2>3, <2>5, Held, \A b \in Attempts : Doomed(b) => Doomed(b)'
            DEF Held, TypeOK
  <1> QED BY <1>2, <1>3, <1>4

\* The node deletes what it is asked to delete.
LEMMA HeldNode ==
    ASSUME IInv, Held, Decided, \A b \in Attempts : Doomed(b) => Doomed(b)', NodeOrFaultStep
    PROVE  Held'
  <1>1. TypeOK /\ Evidence /\ RowFollowsThread
    BY DEF IInv, Ordered
  <1>2. NodeEffect
    BY <1>1, NodeEffects
  <1>3. ASSUME NEW a \in Attempts PROVE HeldAt(a)'
    <2>1. a \in committed => a \in committed' \/ Doomed(a)
      BY <1>2 DEF NodeEffect, DirectoriesKept, Held
    <2>2. UNCHANGED <<dbCommitted, persisted, lifecycle>> /\ HeldAt(a)
      BY <1>2 DEF NodeEffect, recordVars, Held
    <2>3. Doomed(a) => Doomed(a)'
      OBVIOUS
    <2>4. pc'[a] \in {"promoted", "journal"} => pc[a] = pc'[a] \/ a \in committed'
      BY <1>2 DEF NodeEffect, DirectoriesKept, Answered, Onward, ThreadsDie, Live
    <2>5. pc[a] \in {"promoted", "journal"} => ~Doomed(a)
      BY DEF Doomed, AbortLabels, Over
    <2>6. pc'[a] \in AbortLabels =>
             \/ pc[a] \in AbortLabels
             \/ pc[a] = "wait_resume" /\ a \in dbCommitted
             \/ a \notin persisted /\ a \notin dbCommitted
      BY <1>1, <1>2 DEF NodeEffect, Answered, Onward, ThreadsDie, Live, AbortLabels, Evidence,
         ThreadEvidence, JournalEvidence, AfterCommit, RowFollowsThread, BeforeJournal, TypeOK
    <2>7. pc'[a] \in AbortLabels => a \in dbCommitted' \/ Doomed(a)'
      BY <2>2, <2>3, <2>6 DEF HeldAt, Doomed
    <2> QED BY <2>1, <2>2, <2>3, <2>4, <2>5, <2>7 DEF HeldAt
  <1>4. /\ msgs' \subseteq msgs /\ recDelete' \subseteq recDelete
        /\ UNCHANGED <<recPc, recCur, recDelete>> \/ recPc' # "reject"
    BY <1>2 DEF NodeEffect, DirectoriesKept, RecoveryIdles, ThreadsDie, Deciding
  <1> QED BY <1>1, <1>3, <1>4 DEF Held, TypeOK, Messages

\* Initially there is no directory and nothing to delete.
LEMMA InitHeld == Init => Held
  BY DEF Init, Held, HeldAt, Doomed, AbortLabels, Over

\* Every step keeps the directories.
LEMMA StepHeld ==
    ASSUME "store" \notin Faults, IInv, IInv', Decided, Numbered, Held, [Next]_vars
    PROVE  Held'
  <1>1. \A b \in Attempts : Doomed(b) => Doomed(b)'
    BY DoomedStays
  <1>2. CASE UNCHANGED vars
    BY <1>2 DEF vars, storeVars, rowVars, bookVars, workVars, threadVars, recVars, nodeVars,
       Held, HeldAt, Doomed
  <1>3. CASE Next
    BY <1>1, <1>3, NextSteps, HeldThread, HeldRequest, HeldRecovery, HeldNode
  <1> QED BY <1>2, <1>3

\* For any number of captures, whatever calls are lost or late and whoever restarts, a
\* committed checkpoint has its directory on the node: a delayed cleanup never deletes it.
\* Store errors are excluded: a capture whose commit failed with one is cleaned up, and may
\* yet be committed by recovery if its abort ends half-way (abort_capture_attempt,
\* reconcile_attempt, do_cleanup).
THEOREM CommittedDataStays ==
    ASSUME "overlap" \notin Faults, "store" \notin Faults
    PROVE  Spec => []CommittedHasData
  <1>1. Held /\ IInv /\ IInv' /\ Decided /\ Numbered /\ [Next]_vars => Held'
    BY StepHeld
  <1>2. IInv /\ Held => CommittedHasData
    BY DEF IInv, Evidence, JournalEvidence, Held, HeldAt, Doomed, CommittedHasData
  <1> QED BY <1>1, <1>2, InitHeld, AlwaysDecided, AlwaysNumbered, PTL DEF Spec

------------------------------------------------------------------------------
(* Links are reciprocal *)

\* Committed checkpoints have rows, so their numbers differ.
LEMMA NumbersDiffer ==
    ASSUME TypeOK, Numbered, Chained,
           NEW a \in dbCommitted, NEW b \in Rows, generation[a] = generation[b]
    PROVE  a = b
  BY DEF TypeOK, Numbered, Chained, Rows

\* A commit links the checkpoint in between those just below and just above it.
LEMMA CommitChains ==
    ASSUME IInv, IInv', Decided, Numbered, Chained, NEW a \in Attempts, Commits(a)
    PROVE  Chained'
  <1>1. TypeOK /\ TypeOK' /\ Evidence
    BY DEF IInv
  <1>2. a \notin dbCommitted /\ a \in Rows /\ dbCommitted \subseteq Attempts
    BY <1>1, Undecided DEF Commits, CommitAccepts, Rows, TypeOK
  <1>3. \A b \in Attempts : Visible(b) <=> b \in dbCommitted
    BY <1>1 DEF Visible, IsRestorable, Evidence, JournalEvidence, Committed, Chained
  <1>4. PICK p, n \in Attempts \cup {None} :
           /\ IsPrev(a, p) /\ IsNext(a, n) /\ Relink(a, p, n)
           /\ lifecycle' = [lifecycle EXCEPT ![a] = "AVAILABLE"]
           /\ lineage' = lineage \cup SupersedesRecord(a, p)
           /\ dbCommitted' = dbCommitted \cup {a} /\ generation' = generation
    BY DEF Commits, CommitTx
  <1>5. JustBelow(dbCommitted, a, p) /\ JustAbove(dbCommitted, a, n)
    <2>1. {b \in Attempts : Visible(b) /\ generation[b] < generation[a]}
             = {b \in dbCommitted : generation[b] < generation[a]}
      BY <1>2, <1>3
    <2>2. {b \in Attempts : Visible(b) /\ generation[b] > generation[a]}
             = {b \in dbCommitted : generation[b] > generation[a]}
      BY <1>2, <1>3
    <2> QED BY <1>4, <2>1, <2>2 DEF IsPrev, IsNext, JustBelow, JustAbove
  <1>6. /\ p # a /\ n # a
        /\ p # None => p \in dbCommitted /\ generation[p] < generation[a]
        /\ n # None => n \in dbCommitted /\ generation[n] > generation[a]
    BY <1>1, <1>2, <1>5, NoneAssumption DEF JustBelow, JustAbove, TypeOK
  <1>7. /\ supersedes'[a] = p /\ supersededBy'[a] = n
        /\ \A b \in Attempts \ {a} :
              /\ supersedes'[b] = IF b = n THEN a ELSE supersedes[b]
              /\ supersededBy'[b] = IF b = p THEN a ELSE supersededBy[b]
    BY <1>4, <1>6, NoneAssumption DEF Relink
  <1>8. JustBelow(dbCommitted', a, p) /\ JustAbove(dbCommitted', a, n)
    BY <1>1, <1>2, <1>4, <1>5 DEF JustBelow, JustAbove, TypeOK
  <1>9. ASSUME NEW b \in dbCommitted
        PROVE  /\ JustBelow(dbCommitted', b, supersedes'[b])
               /\ JustAbove(dbCommitted', b, supersededBy'[b])
    <2>1. /\ b \in Attempts /\ b # a /\ generation[b] # generation[a]
          /\ JustBelow(dbCommitted, b, supersedes[b]) /\ JustAbove(dbCommitted, b, supersededBy[b])
          /\ \A c \in dbCommitted : generation[c] \in Nat
          /\ generation[a] \in Nat
      BY <1>1, <1>2, NumbersDiffer DEF Chained, TypeOK
    <2>2. CASE generation[b] < generation[a]
      <3>1. supersedes'[b] = supersedes[b]
        BY <1>1, <1>6, <1>7, <2>1, <2>2, NoneAssumption DEF TypeOK
      <3>2. JustBelow(dbCommitted', b, supersedes[b])
        BY <1>4, <2>1, <2>2 DEF JustBelow
      <3>3. CASE b = p
        <4>1. supersededBy'[b] = a
          BY <1>7, <2>1, <3>3
        <4>2. \A c \in dbCommitted : generation[c] > generation[b] => generation[c] >= generation[a]
          BY <1>2, <1>5, <2>1, <2>2, <3>3 DEF JustBelow
        <4>3. JustAbove(dbCommitted', b, a)
          BY <1>2, <1>4, <2>1, <2>2, <4>2 DEF JustAbove
        <4> QED BY <3>1, <3>2, <4>1, <4>3
      <3>4. CASE b # p
        <4>1. p \in dbCommitted /\ generation[b] < generation[p] /\ generation[p] < generation[a]
          <5>1. p \in dbCommitted /\ generation[b] <= generation[p]
            BY <1>5, <2>1, <2>2 DEF JustBelow
          <5>2. generation[b] # generation[p]
            BY <1>1, <3>4, <5>1, NumbersDiffer DEF Chained, Rows, TypeOK
          <5>3. generation[p] < generation[a]
            BY <1>1, <1>5, <5>1, NoneAssumption DEF JustBelow, TypeOK
          <5> QED BY <2>1, <5>1, <5>2, <5>3
        <4>2. JustAbove(dbCommitted', b, supersededBy[b])
          BY <1>2, <1>4, <2>1, <2>2, <4>1 DEF JustAbove
        <4> QED BY <1>7, <2>1, <3>1, <3>2, <3>4, <4>2
      <3> QED BY <3>3, <3>4
    <2>3. CASE generation[b] > generation[a]
      <3>1. supersededBy'[b] = supersededBy[b]
        BY <1>1, <1>6, <1>7, <2>1, <2>3, NoneAssumption DEF TypeOK
      <3>2. JustAbove(dbCommitted', b, supersededBy[b])
        BY <1>4, <2>1, <2>3 DEF JustAbove
      <3>3. CASE b = n
        <4>1. supersedes'[b] = a
          BY <1>7, <2>1, <3>3
        <4>2. \A c \in dbCommitted : generation[c] < generation[b] => generation[c] <= generation[a]
          BY <1>2, <1>5, <2>1, <2>3, <3>3 DEF JustAbove
        <4>3. JustBelow(dbCommitted', b, a)
          BY <1>2, <1>4, <2>1, <2>3, <4>2 DEF JustBelow
        <4> QED BY <3>1, <3>2, <4>1, <4>3
      <3>4. CASE b # n
        <4>1. n \in dbCommitted /\ generation[n] < generation[b] /\ generation[a] < generation[n]
          <5>1. n \in dbCommitted /\ generation[n] <= generation[b]
            BY <1>5, <2>1, <2>3 DEF JustAbove
          <5>2. generation[b] # generation[n]
            BY <1>1, <3>4, <5>1, NumbersDiffer DEF Chained, Rows, TypeOK
          <5>3. generation[a] < generation[n]
            BY <1>1, <1>5, <5>1, NoneAssumption DEF JustAbove, TypeOK
          <5> QED BY <2>1, <5>1, <5>2, <5>3
        <4>2. JustBelow(dbCommitted', b, supersedes[b])
          BY <1>2, <1>4, <2>1, <2>3, <4>1 DEF JustBelow
        <4> QED BY <1>7, <2>1, <3>1, <3>2, <3>4, <4>2
      <3> QED BY <3>3, <3>4
    <2> QED BY <2>1, <2>2, <2>3
  <1>10. ASSUME NEW b \in dbCommitted'
         PROVE  /\ lifecycle'[b] = "AVAILABLE"
                /\ JustBelow(dbCommitted', b, supersedes'[b])
                /\ JustAbove(dbCommitted', b, supersededBy'[b])
    <2>1. CASE b = a
      BY <1>1, <1>4, <1>7, <1>8, <2>1 DEF TypeOK
    <2>2. CASE b \in dbCommitted
      <3>1. b \in Attempts /\ b # a /\ lifecycle[b] = "AVAILABLE"
        BY <1>2, <2>2 DEF Chained
      <3>2. lifecycle'[b] = lifecycle[b]
        BY <1>1, <1>4, <3>1 DEF TypeOK
      <3>3. /\ JustBelow(dbCommitted', b, supersedes'[b])
            /\ JustAbove(dbCommitted', b, supersededBy'[b])
        BY <1>9, <2>2
      <3> QED BY <3>1, <3>2, <3>3
    <2> QED BY <1>4, <2>1, <2>2
  <1>11. \A b \in Attempts \ dbCommitted' : supersedes'[b] = None /\ supersededBy'[b] = None
    BY <1>2, <1>4, <1>6, <1>7, NoneAssumption DEF Chained
  <1>12. \A b, c \in Attempts : <<b, c>> \in lineage' =>
            {b, c} \subseteq dbCommitted' /\ generation'[c] < generation'[b]
    BY <1>4, <1>6, NoneAssumption DEF SupersedesRecord, Chained
  <1>13. ASSUME NEW b \in dbCommitted'
         PROVE  /\ JustBelow(dbCommitted, b, supersedes[b])'
                /\ JustAbove(dbCommitted, b, supersededBy[b])'
    BY <1>4, <1>10 DEF JustBelow, JustAbove
  <1> QED BY <1>10, <1>11, <1>12, <1>13 DEF Chained

\* Initially nothing is linked.
LEMMA InitChained == Init => Chained
  BY DEF Init, Chained, JustBelow, JustAbove

\* What does not concern committed rows keeps the chain.
LEMMA SameChain ==
    ASSUME Chained, dbCommitted \subseteq Attempts,
           UNCHANGED <<dbCommitted, supersedes, supersededBy, lineage>>,
           \A b \in dbCommitted : generation'[b] = generation[b] /\ lifecycle'[b] = lifecycle[b]
    PROVE  Chained'
  <1>1. \A b \in dbCommitted : /\ JustBelow(dbCommitted, b, supersedes[b])'
                               /\ JustAbove(dbCommitted, b, supersededBy[b])'
    BY DEF Chained, JustBelow, JustAbove
  <1> QED BY <1>1 DEF Chained

\* Without restores, every step keeps the chain.
LEMMA StepChained ==
    ASSUME MaxWorkloadGeneration = 0, IInv, IInv', Decided, Numbered, Chained, [Next]_vars
    PROVE  Chained'
  <1>1. TypeOK /\ TypeOK' /\ Evidence /\ IdleIsFresh
    BY DEF IInv, Ordered
  <1>2. dbCommitted \subseteq Attempts /\ \A b \in dbCommitted : lifecycle[b] = "AVAILABLE"
    BY <1>1 DEF TypeOK, Chained
  <1>3. CASE UNCHANGED chainVars
    BY <1>2, <1>3, SameChain DEF chainVars
  <1>4. ASSUME NEW a \in Attempts, RequestCapture(a)
        PROVE  Chained'
    <2>1. /\ a \notin dbCommitted /\ \A b \in Attempts \ {a} : generation'[b] = generation[b]
          /\ UNCHANGED <<lifecycle, dbCommitted, supersedes, supersededBy, lineage>>
      BY <1>1, <1>2, <1>4 DEF RequestCapture, IdleIsFresh, Fresh, TypeOK, bookVars
    <2> QED BY <1>2, <2>1, SameChain
  <1>5. ASSUME NEW a \in Attempts, Works(a)
        PROVE  Chained'
    BY <1>1, <1>2, <1>5, SameChain DEF Works, OnlyLifecycle, Working, TypeOK
  <1>6. ASSUME NEW a \in Attempts, InsertScaffold(a)
        PROVE  Chained'
    <2>1. /\ UNCHANGED <<generation, dbCommitted, supersedes, supersededBy, lineage>>
          /\ \A b \in Attempts : lifecycle[b] = lifecycle'[b] \/ lifecycle[b] = "none"
      BY <1>1, <1>6 DEF InsertScaffold, Rows, TypeOK, bookVars
    <2> QED BY <1>2, <2>1, SameChain
  <1>7. ASSUME NEW a \in Attempts, Fails(a)
        PROVE  Chained'
    <2>1. a \notin dbCommitted
      BY <1>7, Undecided
    <2> QED BY <1>1, <1>2, <1>7, <2>1, SameChain DEF Fails, OnlyLifecycle, TypeOK
  <1>8. ASSUME NEW a \in Attempts, Commits(a)
        PROVE  Chained'
    BY <1>8, CommitChains
  <1>9. \A a \in Attempts : ~RestoreNext(a)
    BY <1>1, <1>2 DEF RestoreNext, RestoreBegin, RestoreApply, RestoreAbort, RestoreCommit,
       RestoreStep, Evidence, JournalEvidence, Committed, TypeOK
  <1>10. RowEffect
    BY RowEffects
  <1> QED BY <1>3, <1>4, <1>5, <1>6, <1>7, <1>8, <1>9, <1>10 DEF RowEffect, RowStep

\* Without restores under way, the supersession links of any number of captures are
\* reciprocal and lineage names commits only, in whatever order they commit and whichever are
\* committed by recovery (capture_commit). With restores it is not so: see README.
THEOREM LinksReciprocal ==
    ASSUME "overlap" \notin Faults, MaxWorkloadGeneration = 0
    PROVE  Spec => []SupersessionReciprocal
  <1>1. Chained /\ IInv /\ IInv' /\ Decided /\ Numbered /\ [Next]_vars => Chained'
    BY StepChained
  <1>2. IInv /\ Numbered /\ Chained => SupersessionReciprocal
    <2> SUFFICES ASSUME TypeOK, Numbered, Chained PROVE SupersessionReciprocal
      BY DEF IInv
    <2>1. ASSUME NEW a \in Attempts, NEW b \in Attempts, supersedes[a] = b
          PROVE  supersededBy[b] = a
      <3>1. /\ a \in dbCommitted /\ b \in dbCommitted /\ generation[b] < generation[a]
            /\ \A c \in dbCommitted : generation[c] < generation[a] =>
                  generation[c] <= generation[b]
        BY <2>1, NoneAssumption DEF Chained, JustBelow
      <3>2. /\ supersededBy[b] \in dbCommitted /\ generation[supersededBy[b]] > generation[b]
            /\ generation[supersededBy[b]] <= generation[a]
        BY <3>1 DEF Chained, JustAbove
      <3>3. generation[supersededBy[b]] = generation[a]
        BY <3>1, <3>2 DEF TypeOK
      <3> QED BY <3>1, <3>2, <3>3, NumbersDiffer DEF Chained, Rows, TypeOK
    <2>2. ASSUME NEW a \in Attempts, NEW b \in Attempts, supersededBy[b] = a
          PROVE  supersedes[a] = b
      <3>1. /\ a \in dbCommitted /\ b \in dbCommitted /\ generation[b] < generation[a]
            /\ \A c \in dbCommitted : generation[c] > generation[b] =>
                  generation[a] <= generation[c]
        BY <2>2, NoneAssumption DEF Chained, JustAbove, TypeOK
      <3>2. /\ supersedes[a] \in dbCommitted /\ generation[supersedes[a]] < generation[a]
            /\ generation[b] <= generation[supersedes[a]]
        BY <3>1 DEF Chained, JustBelow
      <3>3. generation[supersedes[a]] = generation[b]
        BY <3>1, <3>2 DEF TypeOK
      <3> QED BY <3>1, <3>2, <3>3, NumbersDiffer DEF Chained, Rows, TypeOK
    <2> QED BY <2>1, <2>2 DEF SupersessionReciprocal, Chained
  <1> QED BY <1>1, <1>2, InitChained, AlwaysDecided, AlwaysNumbered, PTL DEF Spec
==============================================================================
