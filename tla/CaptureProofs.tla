---------------------------- MODULE CaptureProofs ----------------------------
(***************************************************************************)
(* Proofs about Capture, for every set of requests, every set of faults and *)
(* every bound. The safety invariants are not inductive: that an AVAILABLE  *)
(* row has its evidence depends on what the thread serving it has done by   *)
(* the time it asks for the commit, and on what recovery has read before it *)
(* commits or finishes. Evidence states those facts.                        *)
(***************************************************************************)
EXTENDS Capture, TLAPS

\* Labels of execute_capture from which the manifest's digest has been stored, the
\* image written, its completion journaled, the metadata committed.
AfterCommit == {"send_resume", "wait_resume", "resume_failed", "finish", "release"}
AfterJournal == {"commit"} \cup AfterCommit
AfterImage == {"journal"} \cup AfterJournal
AfterSeal == {"sealed", "persisting", "wait_promote", "promoted"} \cup AfterImage

\* Labels before the completion of the image is journaled.
BeforeJournal ==
    {"idle", "reserve", "begin", "insert", "enter", "wait_capture", "captured",
     "validating", "seal", "sealed", "persisting", "wait_promote", "promoted",
     "journal"}

\* What the thread serving a has done by the time it is at a label.
ThreadEvidence ==
    \A a \in Attempts :
        /\ pc[a] \in AfterSeal => a \in anchored
        /\ pc[a] \in AfterImage => a \in located
        /\ pc[a] \in AfterJournal => a \in persisted
        /\ pc[a] \in AfterCommit => a \in dbCommitted
        /\ sawCommitted[a] => a \in dbCommitted

\* What recovery has found in the journal by the time it is at a label.
RecoveryEvidence ==
    /\ recPc \in {"get", "commit", "reject"} => recCur \in persisted
    /\ recPc = "finish_ok" => recCur \in dbCommitted

\* A promotion is only asked for once the manifest's digest is stored.
PromotionEvidence ==
    /\ \A m \in msgs : m.op = "promote" => m.att \in anchored
    /\ committed \subseteq anchored

\* The journal's records come in order, and after what they record.
JournalEvidence ==
    /\ persisted \subseteq anchored \cap located
    /\ dbCommitted \subseteq persisted
    /\ \A a \in Attempts : Committed(a) => a \in dbCommitted
    /\ NoFalseSuccess

Evidence ==
    ThreadEvidence /\ RecoveryEvidence /\ PromotionEvidence /\ JournalEvidence

\* A request that has not been made has no row, no record and no link.
Fresh(a) ==
    /\ lifecycle[a] = "none"
    /\ a \notin persisted
    /\ \A b \in Attempts : /\ supersedes[a] # b /\ supersedes[b] # a
                           /\ supersededBy[a] # b /\ supersededBy[b] # a
IdleIsFresh == \A a \in Attempts : pc[a] = "idle" => Fresh(a)
\* Nobody but its thread writes a row before its image is journaled.
RowFollowsThread ==
    \A a \in Attempts :
        /\ pc[a] \in BeforeJournal => a \notin persisted
        /\ pc[a] \in {"wait_promote", "promoted", "journal"} => lifecycle[a] = "PERSISTING"
        /\ pc[a] = "abort_fail" => lifecycle[a] # "none"
        /\ a \in persisted => lifecycle[a] \notin {"none", "CREATED"}

Ordered == IdleIsFresh /\ RowFollowsThread /\ SupersessionOrdered /\ CounterNamesCommit

IInv == TypeOK /\ Evidence /\ Ordered

\* The steps of Next that are not a thread's or the recovery command's.
RequestStep(a) ==
    RequestCapture(a) \/ RestoreNext(a) \/ ExpireReservation(a) \/ SweepStaging(a)
NodeOrFaultStep ==
    \/ NodeStep \/ Heartbeat
    \/ \E m \in msgs : LoseMessage(m)
    \/ CoordinatorRestart \/ NodeRestart \/ \E b \in active : MarkStale(b)

\* Next is a step of a thread, of a request, of recovery, or of the node and its world.
LEMMA NextSteps ==
    ASSUME Next
    PROVE  \/ \E a \in Attempts : ThreadStep(a) \/ RequestStep(a)
           \/ RecoveryStart \/ RecoveryStep
           \/ NodeOrFaultStep
  BY DEF Next, RequestStep, NodeOrFaultStep


\* A request sent for an attempt keeps the set of requests well typed.
LEMMA SendType ==
    ASSUME TypeOK, NEW a \in Attempts,
           NEW op \in {"capture", "promote", "resume", "cleanup"},
           NEW by \in {"exec", "abort", "recovery"},
           NEW delete \in BOOLEAN, Send(op, a, by, delete)
    PROVE  msgs' \subseteq Messages
  <1>1. [op |-> op, att |-> a, by |-> by, epoch |-> epoch, delete |-> delete] \in Messages
    BY DEF Messages, TypeOK
  <1> QED BY <1>1 DEF Send, TypeOK

\* Wherever an answer sends a thread or the recovery command is one of its labels.
LEMMA ResumptionType ==
    ASSUME NEW l, NEW r
    PROVE  Resumption(l, r) \in Labels /\ RecResumption(l, r) \in {"idle", "node", "cleanup"}
  BY DEF Resumption, RecResumption, Labels, ExecLabels, AbortLabels

\* An answer of the node leaves the caller's variables well typed.
LEMMA AnswerType ==
    ASSUME TypeOK, NEW m \in Messages, NEW r, Answer(m, r)
    PROVE  /\ pc' \in [Attempts -> Labels]
           /\ home' = home /\ sawCommitted' = sawCommitted
           /\ recPc' \in RecLabels
           /\ recTodo' \subseteq Attempts
           /\ recCur' \in Attempts \cup {None}
           /\ recPc' \notin {"idle", "reconcile", "node"} => recCur' \in Attempts
           /\ recSaw' \in LifecycleStates \cup {"none"}
           /\ recActions' \subseteq Attempts
           /\ recDelete' \subseteq Attempts
  <1>1. m.att \in Attempts
    BY DEF Messages
  <1>2. pc' \in [Attempts -> Labels]
    BY <1>1, ResumptionType DEF Answer, TypeOK
  <1>3. CASE RecWaiting(m)
    <2>1. recPc \in {"wait_resume", "wait_cleanup"} /\ recCur \in Attempts
      BY <1>1, <1>3 DEF RecWaiting, WaitLabel, Messages
    <2> QED BY <1>2, <1>3, <2>1, ResumptionType
            DEF Answer, RecoveryAnswered, RecoveryReturns, TypeOK, RecLabels
  <1>4. CASE ~RecWaiting(m)
    BY <1>2, <1>4 DEF Answer, TypeOK, recVars
  <1> QED BY <1>3, <1>4

\* The steps of execute_capture and abort_capture_attempt preserve TypeOK.
LEMMA TypeThread ==
    ASSUME TypeOK, NEW a0 \in Attempts, ThreadStep(a0)
    PROVE  TypeOK'
  <1> USE DEF TypeOK, storeVars, rowVars, bookVars, workVars, threadVars, recVars,
          nodeVars, Goto, Labels, ExecLabels, AbortLabels, LifecycleStates
  <1>1. ASSUME NEW a \in Attempts, Reserve(a)
       PROVE  TypeOK'
    BY <1>1 DEF Reserve
  <1>2. ASSUME NEW a \in Attempts, BeginAttempt(a)
       PROVE  TypeOK'
    BY <1>2 DEF BeginAttempt
  <1>3. ASSUME NEW a \in Attempts, InsertScaffold(a)
       PROVE  TypeOK'
    BY <1>3 DEF InsertScaffold
  <1>4. ASSUME NEW a \in Attempts, EnterCapturing(a)
       PROVE  TypeOK'
    <2>1. msgs' \subseteq Messages
      BY <1>4, SendType DEF EnterCapturing, LifecycleStep, SetLifecycle
    <2> QED BY <1>4, <2>1 DEF EnterCapturing, LifecycleStep, SetLifecycle
  <1>5. ASSUME NEW a \in Attempts, AcceptCapture(a)
       PROVE  TypeOK'
    BY <1>5 DEF AcceptCapture, LifecycleStep, SetLifecycle
  <1>6. ASSUME NEW a \in Attempts, RefuseCapture(a)
       PROVE  TypeOK'
    BY <1>6 DEF RefuseCapture
  <1>7. ASSUME NEW a \in Attempts, EnterValidating(a)
       PROVE  TypeOK'
    BY <1>7 DEF EnterValidating, LifecycleStep, SetLifecycle
  <1>8. ASSUME NEW a \in Attempts, SealManifest(a)
       PROVE  TypeOK'
    BY <1>8 DEF SealManifest
  <1>9. ASSUME NEW a \in Attempts, EnterSealed(a)
       PROVE  TypeOK'
    BY <1>9 DEF EnterSealed, LifecycleStep, SetLifecycle
  <1>10. ASSUME NEW a \in Attempts, EnterPersisting(a)
       PROVE  TypeOK'
    <2>1. msgs' \subseteq Messages
      BY <1>10, SendType DEF EnterPersisting, LifecycleStep, SetLifecycle
    <2> QED BY <1>10, <2>1 DEF EnterPersisting, LifecycleStep, SetLifecycle
  <1>11. ASSUME NEW a \in Attempts, UpdateImage(a)
       PROVE  TypeOK'
    BY <1>11 DEF UpdateImage
  <1>12. ASSUME NEW a \in Attempts, JournalPersisted(a)
       PROVE  TypeOK'
    BY <1>12 DEF JournalPersisted
  <1>13. ASSUME NEW a \in Attempts, CaptureCommit(a)
       PROVE  TypeOK'
    BY <1>13 DEF CaptureCommit, CommitTx, Relink, SupersedesRecord
  <1>14. ASSUME NEW a \in Attempts, SendResume(a)
       PROVE  TypeOK'
    <2>1. msgs' \subseteq Messages
      BY <1>14, SendType DEF SendResume
    <2> QED BY <1>14, <2>1 DEF SendResume
  <1>15. ASSUME NEW a \in Attempts, ResumeFailed(a)
       PROVE  TypeOK'
    BY <1>15 DEF ResumeFailed, FinishStep, AttemptFinish
  <1>16. ASSUME NEW a \in Attempts, FinishCommitted(a)
       PROVE  TypeOK'
    BY <1>16 DEF FinishCommitted, FinishStep, AttemptFinish
  <1>17. ASSUME NEW a \in Attempts, ReleaseCommitted(a)
       PROVE  TypeOK'
    <2>1. CASE ReleaseStep(a, "release", "done")
      BY <2>1 DEF ReleaseStep, ReservationRelease
    <2>2. CASE ReleaseStep(a, "release", "abort")
      BY <2>2 DEF ReleaseStep, ReservationRelease
    <2> QED BY <1>17, <2>1, <2>2 DEF ReleaseCommitted
  <1>18. ASSUME NEW a \in Attempts, GiveUp(a)
       PROVE  TypeOK'
    BY <1>18, ResumptionType DEF GiveUp
  <1>19. ASSUME NEW a \in Attempts, StoreError(a)
       PROVE  TypeOK'
    BY <1>19 DEF StoreError
  <1>20. ASSUME NEW a \in Attempts, AbortStart(a)
       PROVE  TypeOK'
    <2>1. msgs' \subseteq Messages
      BY <1>20, SendType DEF AbortStart
    <2> QED BY <1>20, <2>1 DEF AbortStart
  <1>21. ASSUME NEW a \in Attempts, AbortCleanup(a)
       PROVE  TypeOK'
    <2>1. msgs' \subseteq Messages
      BY <1>21, SendType DEF AbortCleanup, CleanupStep
    <2> QED BY <1>21, <2>1 DEF AbortCleanup, CleanupStep
  <1>22. ASSUME NEW a \in Attempts, AbortRead(a)
       PROVE  TypeOK'
    BY <1>22 DEF AbortRead
  <1>23. ASSUME NEW a \in Attempts, AbortFailRow(a)
       PROVE  TypeOK'
    BY <1>23 DEF AbortFailRow
  <1>24. ASSUME NEW a \in Attempts, AbortFinish(a)
       PROVE  TypeOK'
    BY <1>24 DEF AbortFinish, FinishStep, AttemptFinish
  <1>25. ASSUME NEW a \in Attempts, AbortRelease(a)
       PROVE  TypeOK'
    BY <1>25 DEF AbortRelease, ReleaseStep, ReservationRelease
  <1> QED BY <1>1, <1>2, <1>3, <1>4, <1>5, <1>6, <1>7, <1>8, <1>9, <1>10, <1>11,
        <1>12, <1>13, <1>14, <1>15, <1>16, <1>17, <1>18, <1>19, <1>20, <1>21,
        <1>22, <1>23, <1>24, <1>25
      DEF ThreadStep

\* The steps of request_capture and the errors of a thread preserve TypeOK.
LEMMA TypeRequest ==
    ASSUME TypeOK, NEW a0 \in Attempts, RequestStep(a0)
    PROVE  TypeOK'
  <1> USE DEF TypeOK, storeVars, rowVars, bookVars, workVars, threadVars, recVars,
          nodeVars, Goto, Rows, Labels, ExecLabels, AbortLabels,
          LifecycleStates
  <1>1. ASSUME NEW a \in Attempts, RequestCapture(a)
       PROVE  TypeOK'
    BY <1>1 DEF RequestCapture
  <1>2. ASSUME NEW a \in Attempts, RestoreBegin(a)
       PROVE  TypeOK'
    BY <1>2 DEF RestoreBegin, RestoreStep
  <1>3. ASSUME NEW a \in Attempts, RestoreApply(a)
       PROVE  TypeOK'
    BY <1>3 DEF RestoreApply, RestoreStep
  <1>4. ASSUME NEW a \in Attempts, RestoreAbort(a)
       PROVE  TypeOK'
    BY ZenonT(40), <1>4 DEF RestoreAbort, RestoreStep
  <1>5. ASSUME NEW a \in Attempts, RestoreCommit(a)
       PROVE  TypeOK'
    BY <1>5 DEF RestoreCommit, RestoreStep
  <1>6. ASSUME NEW a \in Attempts, ExpireReservation(a)
       PROVE  TypeOK'
    BY <1>6 DEF ExpireReservation
  <1>7. ASSUME NEW a \in Attempts, SweepStaging(a)
       PROVE  TypeOK'
    BY <1>7 DEF SweepStaging
  <1> QED BY <1>1, <1>2, <1>3, <1>4, <1>5, <1>6, <1>7
      DEF RequestStep, RestoreNext

\* The steps of recovery preserve TypeOK.
LEMMA TypeRecovery ==
    ASSUME TypeOK, RecoveryStart \/ RecoveryStep
    PROVE  TypeOK'
  <1> USE DEF TypeOK, storeVars, rowVars, bookVars, workVars, threadVars, recVars,
          nodeVars, RecLabels, LifecycleStates
  <1>1. ASSUME RecoveryStart
       PROVE  TypeOK'
    BY <1>1 DEF RecoveryStart
  <1>2. ASSUME NEW a \in Attempts, RecoveryPick(a)
       PROVE  TypeOK'
    BY <1>2 DEF RecoveryPick
  <1>3. ASSUME RecoveryGet
       PROVE  TypeOK'
    BY <1>3 DEF RecoveryGet
  <1>4. ASSUME RecoveryCommit
       PROVE  TypeOK'
    BY <1>4 DEF RecoveryCommit, CommitTx, Relink, SupersedesRecord
  <1>5. ASSUME RecoveryReject
       PROVE  TypeOK'
    BY <1>5 DEF RecoveryReject
  <1>6. ASSUME RecoveryFinish
       PROVE  TypeOK'
    BY <1>6 DEF RecoveryFinish, AttemptFinish
  <1>7. ASSUME RecoveryRelease
       PROVE  TypeOK'
    BY <1>7 DEF RecoveryRelease, ReservationRelease
  <1>8. ASSUME NEW a \in Attempts, RecoveryApply(a)
       PROVE  TypeOK'
    <2>1. msgs' \subseteq Messages
      BY <1>8, SendType DEF RecoveryApply
    <2> QED BY <1>8, <2>1 DEF RecoveryApply
  <1>9. ASSUME RecoveryCleanup
       PROVE  TypeOK'
    <2>1. msgs' \subseteq Messages
      <3>1. recCur \in Attempts /\ (recCur \in recDelete) \in BOOLEAN
        BY <1>9 DEF RecoveryCleanup
      <3>2. Send("cleanup", recCur, "recovery", recCur \in recDelete)
        BY <1>9 DEF RecoveryCleanup
      <3> QED BY <3>1, <3>2, SendType
    <2> QED BY <1>9, <2>1 DEF RecoveryCleanup
  <1>10. ASSUME RecoveryDone
       PROVE  TypeOK'
    BY <1>10 DEF RecoveryDone, RecoveryReturns
  <1>11. ASSUME RecoveryError
       PROVE  TypeOK'
    BY <1>11 DEF RecoveryError, RecoveryReturns
  <1> QED BY <1>1, <1>2, <1>3, <1>4, <1>5, <1>6, <1>7, <1>8, <1>9, <1>10, <1>11
      DEF RecoveryStep

\* The steps of the node, of the restores and of the clocks preserve TypeOK.
LEMMA TypeNode ==
    ASSUME TypeOK, NodeOrFaultStep
    PROVE  TypeOK'
  <1> USE DEF TypeOK, storeVars, rowVars, bookVars, workVars, threadVars, recVars,
          nodeVars
  <1>1. ASSUME NEW m \in msgs, RefuseEpoch(m)
       PROVE  TypeOK'
    BY <1>1, AnswerType DEF RefuseEpoch
  <1>2. ASSUME NEW m \in msgs, CaptureBegin(m)
       PROVE  TypeOK'
    BY <1>2 DEF CaptureBegin, Receive, Messages
  <1>3. ASSUME NEW a \in Attempts, CaptureSucceeds(a)
       PROVE  TypeOK'
    BY <1>3, AnswerType DEF CaptureSucceeds, CaptureCall, Messages
  <1>4. ASSUME NEW a \in Attempts, CaptureFails(a)
       PROVE  TypeOK'
    BY <1>4, AnswerType DEF CaptureFails, CaptureCall, Messages
  <1>5. ASSUME NEW m \in msgs, Promote(m)
       PROVE  TypeOK'
    BY <1>5, AnswerType DEF Promote, Receive, Messages
  <1>6. ASSUME NEW m \in msgs, Resume(m)
       PROVE  TypeOK'
    BY <1>6, AnswerType DEF Resume, Receive, Messages
  <1>7. ASSUME NEW m \in msgs, Cleanup(m)
       PROVE  TypeOK'
    BY <1>7, AnswerType DEF Cleanup, Receive, Messages
  <1>8. ASSUME Heartbeat
       PROVE  TypeOK'
    BY <1>8 DEF Heartbeat, Rows
  <1>9. ASSUME NEW m \in msgs, LoseMessage(m)
       PROVE  TypeOK'
    BY <1>9 DEF LoseMessage
  <1>10. ASSUME CoordinatorRestart
       PROVE  TypeOK'
    BY <1>10 DEF CoordinatorRestart, RecoveryReturns, Labels, RecLabels
  <1>11. ASSUME NodeRestart
       PROVE  TypeOK'
    <2>1. active' \subseteq Nat /\ boot' \in Nat
      BY <1>11 DEF NodeRestart
    <2>2. located' \subseteq Attempts
      BY <1>11 DEF NodeRestart, Rows
    <2>3. msgs' \subseteq Messages
      BY <1>11 DEF NodeRestart
    <2> QED BY <1>11, <2>1, <2>2, <2>3 DEF NodeRestart
  <1>12. ASSUME NEW b \in active, MarkStale(b)
       PROVE  TypeOK'
    BY <1>12 DEF MarkStale
  <1> QED BY <1>1, <1>2, <1>3, <1>4, <1>5, <1>6, <1>7, <1>8, <1>9, <1>10, <1>11,
        <1>12
      DEF NodeOrFaultStep, NodeStep

\* The initial state is well typed.
LEMMA InitType == Init => TypeOK
  <1> SUFFICES ASSUME Init PROVE TypeOK
    OBVIOUS
  <1>1. active \subseteq Nat /\ msgs \subseteq Messages /\ sawCommitted \in [Attempts -> BOOLEAN]
    BY DEF Init
  <1> QED BY <1>1 DEF Init, TypeOK, Labels, RecLabels, LifecycleStates

\* Every step preserves TypeOK.
LEMMA StepType == TypeOK /\ [Next]_vars => TypeOK'
  <1> SUFFICES ASSUME TypeOK, [Next]_vars PROVE TypeOK'
    OBVIOUS
  <1>1. CASE UNCHANGED vars
    BY <1>1 DEF vars, TypeOK, storeVars, rowVars, bookVars, workVars, threadVars,
                recVars, nodeVars
  <1>2. CASE Next
    BY <1>2, NextSteps, TypeThread, TypeRequest, TypeRecovery, TypeNode
  <1> QED BY <1>1, <1>2

\* Type correctness: whatever fails and whoever runs concurrently, every variable of
\* the coordinator, the store and the node keeps a value of its kind.
THEOREM TypeCorrect == Spec => []TypeOK
  BY InitType, StepType, PTL DEF Spec

\* A request other than a promotion is sent freely, a promotion for an anchored row.
LEMMA SendEvidence ==
    ASSUME PromotionEvidence, NEW a, NEW op, NEW by, NEW delete, Send(op, a, by, delete),
           op = "promote" => a \in anchored
    PROVE  \A m \in msgs' : m.op = "promote" => m.att \in anchored
  BY DEF PromotionEvidence, Send

\* An answer takes no thread past a label it has not reached, and leads the recovery
\* command to no decision about an attempt.
LEMMA AnswerEvidence ==
    ASSUME TypeOK, NEW m \in Messages, NEW r, Answer(m, r)
    PROVE  /\ \A a \in Attempts :
                /\ pc'[a] \in AfterSeal => pc[a] \in AfterSeal
                /\ pc'[a] \in AfterImage => pc[a] \in AfterImage
                /\ pc'[a] \in AfterJournal => pc[a] \in AfterJournal
                /\ pc'[a] \in AfterCommit => pc[a] \in AfterCommit
           /\ recPc' \in {"get", "commit", "reject", "finish_ok"} =>
                recPc' = recPc /\ recCur' = recCur
           /\ sawCommitted' = sawCommitted
  <1> USE DEF AfterSeal, AfterImage, AfterJournal, AfterCommit, TypeOK
  <1>1. \A a \in Attempts : pc'[a] = pc[a] \/ pc'[a] = Resumption(pc[a], r)
    BY DEF Answer
  <1>2. ASSUME NEW a \in Attempts
        PROVE  /\ pc'[a] \in AfterSeal => pc[a] \in AfterSeal
               /\ pc'[a] \in AfterImage => pc[a] \in AfterImage
               /\ pc'[a] \in AfterJournal => pc[a] \in AfterJournal
               /\ pc'[a] \in AfterCommit => pc[a] \in AfterCommit
    BY <1>1 DEF Resumption
  <1>3. recPc' \in {"get", "commit", "reject", "finish_ok"} =>
            recPc' = recPc /\ recCur' = recCur
    BY ResumptionType DEF Answer, RecoveryAnswered, RecoveryReturns, recVars
  <1> QED BY <1>2, <1>3 DEF Answer

\* The steps of execute_capture and abort_capture_attempt preserve the evidence.
LEMMA EvidenceThread ==
    ASSUME TypeOK, TypeOK', Evidence, NEW a0 \in Attempts, ThreadStep(a0)
    PROVE  Evidence'
  <1> USE DEF TypeOK, storeVars, rowVars, bookVars, workVars, threadVars, recVars,
          nodeVars, Goto, Evidence, ThreadEvidence, RecoveryEvidence,
          PromotionEvidence, JournalEvidence, NoFalseSuccess, Committed,
          AfterSeal, AfterImage, AfterJournal, AfterCommit
  <1>1. ASSUME NEW a \in Attempts, Reserve(a)
       PROVE  Evidence'
    BY <1>1 DEF Reserve
  <1>2. ASSUME NEW a \in Attempts, BeginAttempt(a)
       PROVE  Evidence'
    BY <1>2 DEF BeginAttempt
  <1>3. ASSUME NEW a \in Attempts, InsertScaffold(a)
       PROVE  Evidence'
    BY <1>3 DEF InsertScaffold
  <1>4. ASSUME NEW a \in Attempts, EnterCapturing(a)
       PROVE  Evidence'
    <2>1. \A m \in msgs' : m.op = "promote" => m.att \in anchored
      BY <1>4, SendEvidence DEF EnterCapturing
    <2> QED BY <1>4, <2>1 DEF EnterCapturing, LifecycleStep, SetLifecycle
  <1>5. ASSUME NEW a \in Attempts, AcceptCapture(a)
       PROVE  Evidence'
    BY <1>5 DEF AcceptCapture, LifecycleStep, SetLifecycle
  <1>6. ASSUME NEW a \in Attempts, RefuseCapture(a)
       PROVE  Evidence'
    BY <1>6 DEF RefuseCapture
  <1>7. ASSUME NEW a \in Attempts, EnterValidating(a)
       PROVE  Evidence'
    BY <1>7 DEF EnterValidating, LifecycleStep, SetLifecycle
  <1>8. ASSUME NEW a \in Attempts, SealManifest(a)
       PROVE  Evidence'
    BY <1>8 DEF SealManifest
  <1>9. ASSUME NEW a \in Attempts, EnterSealed(a)
       PROVE  Evidence'
    BY <1>9 DEF EnterSealed, LifecycleStep, SetLifecycle
  <1>10. ASSUME NEW a \in Attempts, EnterPersisting(a)
       PROVE  Evidence'
    <2>1. \A m \in msgs' : m.op = "promote" => m.att \in anchored
      BY <1>10, SendEvidence DEF EnterPersisting, LifecycleStep
    <2> QED BY <1>10, <2>1 DEF EnterPersisting, LifecycleStep, SetLifecycle
  <1>11. ASSUME NEW a \in Attempts, UpdateImage(a)
       PROVE  Evidence'
    BY <1>11 DEF UpdateImage
  <1>12. ASSUME NEW a \in Attempts, JournalPersisted(a)
       PROVE  Evidence'
    BY <1>12 DEF JournalPersisted
  <1>13. ASSUME NEW a \in Attempts, CaptureCommit(a)
       PROVE  Evidence'
    BY <1>13 DEF CaptureCommit, CommitTx
  <1>14. ASSUME NEW a \in Attempts, SendResume(a)
       PROVE  Evidence'
    <2>1. \A m \in msgs' : m.op = "promote" => m.att \in anchored
      BY <1>14, SendEvidence DEF SendResume
    <2> QED BY <1>14, <2>1 DEF SendResume
  <1>15. ASSUME NEW a \in Attempts, ResumeFailed(a)
       PROVE  Evidence'
    BY <1>15 DEF ResumeFailed, FinishStep, AttemptFinish
  <1>16. ASSUME NEW a \in Attempts, FinishCommitted(a)
       PROVE  Evidence'
    BY <1>16 DEF FinishCommitted, FinishStep, AttemptFinish
  <1>17. ASSUME NEW a \in Attempts, ReleaseCommitted(a)
       PROVE  Evidence'
    BY <1>17 DEF ReleaseCommitted, ReleaseStep
  <1>18. ASSUME NEW a \in Attempts, GiveUp(a)
       PROVE  Evidence'
    BY <1>18 DEF GiveUp, Resumption
  <1>19. ASSUME NEW a \in Attempts, StoreError(a)
       PROVE  Evidence'
    BY <1>19 DEF StoreError
  <1>20. ASSUME NEW a \in Attempts, AbortStart(a)
       PROVE  Evidence'
    <2>1. \A m \in msgs' : m.op = "promote" => m.att \in anchored
      BY <1>20, SendEvidence DEF AbortStart
    <2> QED BY <1>20, <2>1 DEF AbortStart
  <1>21. ASSUME NEW a \in Attempts, AbortCleanup(a)
       PROVE  Evidence'
    <2>1. \A m \in msgs' : m.op = "promote" => m.att \in anchored
      BY <1>21, SendEvidence DEF AbortCleanup, CleanupStep
    <2> QED BY <1>21, <2>1 DEF AbortCleanup, CleanupStep
  <1>22. ASSUME NEW a \in Attempts, AbortRead(a)
       PROVE  Evidence'
    BY <1>22 DEF AbortRead
  <1>23. ASSUME NEW a \in Attempts, AbortFailRow(a)
       PROVE  Evidence'
    BY <1>23 DEF AbortFailRow
  <1>24. ASSUME NEW a \in Attempts, AbortFinish(a)
       PROVE  Evidence'
    BY <1>24 DEF AbortFinish, FinishStep, AttemptFinish
  <1>25. ASSUME NEW a \in Attempts, AbortRelease(a)
       PROVE  Evidence'
    BY <1>25 DEF AbortRelease, ReleaseStep
  <1> QED BY <1>1, <1>2, <1>3, <1>4, <1>5, <1>6, <1>7, <1>8, <1>9, <1>10, <1>11,
        <1>12, <1>13, <1>14, <1>15, <1>16, <1>17, <1>18, <1>19, <1>20, <1>21,
        <1>22, <1>23, <1>24, <1>25
      DEF ThreadStep

\* The steps of request_capture and the errors of a thread preserve the evidence.
LEMMA EvidenceRequest ==
    ASSUME TypeOK, TypeOK', Evidence, NEW a0 \in Attempts, RequestStep(a0)
    PROVE  Evidence'
  <1> USE DEF TypeOK, storeVars, rowVars, bookVars, workVars, threadVars, recVars,
          nodeVars, Goto, Evidence, ThreadEvidence, RecoveryEvidence,
          PromotionEvidence, JournalEvidence, NoFalseSuccess, Committed,
          AfterSeal, AfterImage, AfterJournal, AfterCommit
  <1>1. ASSUME NEW a \in Attempts, RequestCapture(a)
       PROVE  Evidence'
    BY <1>1 DEF RequestCapture
  <1>2. ASSUME NEW a \in Attempts, RestoreBegin(a)
       PROVE  Evidence'
    BY <1>2 DEF RestoreBegin, RestoreStep
  <1>3. ASSUME NEW a \in Attempts, RestoreApply(a)
       PROVE  Evidence'
    BY <1>3 DEF RestoreApply, RestoreStep
  <1>4. ASSUME NEW a \in Attempts, RestoreAbort(a)
       PROVE  Evidence'
    BY <1>4 DEF RestoreAbort, RestoreStep
  <1>5. ASSUME NEW a \in Attempts, RestoreCommit(a)
       PROVE  Evidence'
    BY <1>5 DEF RestoreCommit, RestoreStep
  <1>6. ASSUME NEW a \in Attempts, ExpireReservation(a)
       PROVE  Evidence'
    BY <1>6 DEF ExpireReservation
  <1>7. ASSUME NEW a \in Attempts, SweepStaging(a)
       PROVE  Evidence'
    BY <1>7 DEF SweepStaging
  <1> QED BY <1>1, <1>2, <1>3, <1>4, <1>5, <1>6, <1>7
      DEF RequestStep, RestoreNext

\* The steps of recovery preserve the evidence.
LEMMA EvidenceRecovery ==
    ASSUME TypeOK, TypeOK', Evidence, RecoveryStart \/ RecoveryStep
    PROVE  Evidence'
  <1> USE DEF TypeOK, storeVars, rowVars, bookVars, workVars, threadVars, recVars,
          nodeVars, Goto, Evidence, ThreadEvidence, RecoveryEvidence,
          PromotionEvidence, JournalEvidence, NoFalseSuccess, Committed,
          AfterSeal, AfterImage, AfterJournal, AfterCommit
  <1>1. ASSUME RecoveryStart
       PROVE  Evidence'
    BY <1>1 DEF RecoveryStart
  <1>2. ASSUME NEW a \in Attempts, RecoveryPick(a)
       PROVE  Evidence'
    BY <1>2 DEF RecoveryPick
  <1>3. ASSUME RecoveryGet
       PROVE  Evidence'
    BY <1>3 DEF RecoveryGet
  <1>4. ASSUME RecoveryCommit
       PROVE  Evidence'
    BY <1>4 DEF RecoveryCommit, CommitTx
  <1>5. ASSUME RecoveryReject
       PROVE  Evidence'
    BY <1>5 DEF RecoveryReject
  <1>6. ASSUME RecoveryFinish
       PROVE  Evidence'
    BY <1>6 DEF RecoveryFinish, AttemptFinish
  <1>7. ASSUME RecoveryRelease
       PROVE  Evidence'
    BY <1>7 DEF RecoveryRelease
  <1>8. ASSUME NEW a \in Attempts, RecoveryApply(a)
       PROVE  Evidence'
    BY <1>8, SendEvidence DEF RecoveryApply
  <1>9. ASSUME RecoveryCleanup
       PROVE  Evidence'
    <2>1. \A m \in msgs' : m.op = "promote" => m.att \in anchored
      BY <1>9, SendEvidence DEF RecoveryCleanup
    <2> QED BY <1>9, <2>1 DEF RecoveryCleanup
  <1>10. ASSUME RecoveryDone
       PROVE  Evidence'
    BY <1>10 DEF RecoveryDone, RecoveryReturns
  <1>11. ASSUME RecoveryError
       PROVE  Evidence'
    BY <1>11 DEF RecoveryError, RecoveryReturns
  <1> QED BY <1>1, <1>2, <1>3, <1>4, <1>5, <1>6, <1>7, <1>8, <1>9, <1>10, <1>11
      DEF RecoveryStep

\* The steps of the node, of the restores and of the clocks preserve the evidence.
LEMMA EvidenceNode ==
    ASSUME TypeOK, TypeOK', Evidence, NodeOrFaultStep
    PROVE  Evidence'
  <1> USE DEF TypeOK, storeVars, rowVars, bookVars, workVars, threadVars, recVars,
          nodeVars, Goto, Evidence, ThreadEvidence, RecoveryEvidence,
          PromotionEvidence, JournalEvidence, NoFalseSuccess, Committed,
          AfterSeal, AfterImage, AfterJournal, AfterCommit
  <1>1. ASSUME NEW m \in msgs, RefuseEpoch(m)
       PROVE  Evidence'
    BY <1>1, AnswerEvidence DEF RefuseEpoch
  <1>2. ASSUME NEW m \in msgs, CaptureBegin(m)
       PROVE  Evidence'
    BY <1>2 DEF CaptureBegin, Receive
  <1>3. ASSUME NEW a \in Attempts, CaptureSucceeds(a)
       PROVE  Evidence'
    <2>1. CaptureCall(a) \in Messages
      BY DEF CaptureCall, Messages
    <2> QED BY <1>3, <2>1, AnswerEvidence DEF CaptureSucceeds
  <1>4. ASSUME NEW a \in Attempts, CaptureFails(a)
       PROVE  Evidence'
    <2>1. CaptureCall(a) \in Messages
      BY DEF CaptureCall, Messages
    <2> QED BY <1>4, <2>1, AnswerEvidence DEF CaptureFails
  <1>5. ASSUME NEW m \in msgs, Promote(m)
       PROVE  Evidence'
    BY <1>5, AnswerEvidence DEF Promote, Receive
  <1>6. ASSUME NEW m \in msgs, Resume(m)
       PROVE  Evidence'
    <2>1. PICK r : Answer(m, r)
      BY <1>6 DEF Resume
    <2> QED BY <1>6, <2>1, AnswerEvidence DEF Resume, Receive
  <1>7. ASSUME NEW m \in msgs, Cleanup(m)
       PROVE  Evidence'
    BY <1>7, AnswerEvidence DEF Cleanup, Receive
  <1>8. ASSUME Heartbeat
       PROVE  Evidence'
    BY <1>8 DEF Heartbeat
  <1>9. ASSUME NEW m \in msgs, LoseMessage(m)
       PROVE  Evidence'
    BY <1>9 DEF LoseMessage
  <1>10. ASSUME CoordinatorRestart
       PROVE  Evidence'
    BY <1>10 DEF CoordinatorRestart, RecoveryReturns, Live
  <1>11. ASSUME NodeRestart
       PROVE  Evidence'
    BY <1>11 DEF NodeRestart
  <1>12. ASSUME NEW b \in active, MarkStale(b)
       PROVE  Evidence'
    BY <1>12 DEF MarkStale
  <1> QED BY <1>1, <1>2, <1>3, <1>4, <1>5, <1>6, <1>7, <1>8, <1>9, <1>10, <1>11,
        <1>12
      DEF NodeOrFaultStep, NodeStep

\* An answer starts no thread again and takes none to where its row is to be failed.
LEMMA AnswerOrder ==
    ASSUME TypeOK, NEW m \in Messages, NEW r, Answer(m, r)
    PROVE  \A a \in Attempts :
                /\ pc'[a] = "idle" => pc[a] = "idle"
                /\ pc'[a] \in BeforeJournal => pc[a] \in BeforeJournal
                /\ pc'[a] \in {"wait_promote", "promoted", "journal"} =>
                        pc[a] \in {"wait_promote", "promoted", "journal"}
                /\ pc'[a] = "abort_fail" => pc[a] = "abort_fail"
  <1>1. \A a \in Attempts : pc'[a] = pc[a] \/ pc'[a] = Resumption(pc[a], r)
    BY DEF Answer, TypeOK
  <1> QED BY <1>1 DEF Resumption, BeforeJournal

\* capture_commit keeps links and counter in order, whoever runs it: the row is
\* linked between visible neighbours, none of which is a request still to be made.
LEMMA CommitOrder ==
    ASSUME TypeOK, TypeOK', Evidence, Ordered, NEW a \in persisted, CommitTx(a),
           \A b \in Attempts : pc'[b] = pc[b] \/ pc'[b] = "send_resume"
    PROVE  Ordered'
  <1> a \in Attempts
    BY DEF TypeOK
  <1>1. PICK p, n \in Attempts \cup {None} :
            IsPrev(a, p) /\ IsNext(a, n) /\ Relink(a, p, n)
    BY DEF CommitTx
  <1>2. \A b \in Attempts : pc'[b] = "idle" => pc[b] = "idle" /\ Fresh(b) /\ b # a
    BY DEF Ordered, IdleIsFresh, Fresh
  <1>3. /\ p \in Attempts => generation[p] < generation[a] /\ lifecycle[p] # "none"
        /\ n \in Attempts => generation[a] < generation[n] /\ lifecycle[n] # "none"
    BY <1>1, NoneAssumption DEF IsPrev, IsNext, Visible, IsRestorable, TypeOK
  <1>4. IdleIsFresh'
    <2> SUFFICES ASSUME NEW b \in Attempts, pc'[b] = "idle" PROVE Fresh(b)'
      BY DEF IdleIsFresh
    <2>1. Fresh(b) /\ b # a /\ b # p /\ b # n
      BY <1>2, <1>3 DEF Fresh
    <2> QED BY <1>1, <2>1 DEF CommitTx, Relink, Fresh, TypeOK
  <1>5. RowFollowsThread'
    BY DEF CommitTx, Ordered, RowFollowsThread, BeforeJournal, TypeOK
  <1>6. SupersessionOrdered'
    <2> generation' = generation
      BY DEF CommitTx
    <2> QED BY <1>1, <1>3, NoneAssumption DEF Relink, Ordered, SupersessionOrdered, TypeOK
  <1>7. CounterNamesCommit'
    BY DEF CommitTx, Ordered, CounterNamesCommit, TypeOK
  <1> QED BY <1>4, <1>5, <1>6, <1>7 DEF Ordered

\* The steps of execute_capture and abort_capture_attempt preserve the order.
LEMMA OrderThread ==
    ASSUME TypeOK, TypeOK', Evidence, Ordered, NEW a0 \in Attempts, ThreadStep(a0)
    PROVE  Ordered'
  <1> USE DEF TypeOK, storeVars, rowVars, bookVars, workVars, threadVars, recVars,
          nodeVars, Goto, Ordered, IdleIsFresh, Fresh, RowFollowsThread, BeforeJournal,
          SupersessionOrdered, CounterNamesCommit
  <1>1. ASSUME NEW a \in Attempts, Reserve(a)
       PROVE  Ordered'
    BY <1>1 DEF Reserve
  <1>2. ASSUME NEW a \in Attempts, BeginAttempt(a)
       PROVE  Ordered'
    BY <1>2 DEF BeginAttempt
  <1>3. ASSUME NEW a \in Attempts, InsertScaffold(a)
       PROVE  Ordered'
    BY <1>3 DEF InsertScaffold
  <1>4. ASSUME NEW a \in Attempts, EnterCapturing(a)
       PROVE  Ordered'
    BY <1>4 DEF EnterCapturing, LifecycleStep, SetLifecycle, CanTransition, Successors
  <1>5. ASSUME NEW a \in Attempts, AcceptCapture(a)
       PROVE  Ordered'
    BY <1>5 DEF AcceptCapture, LifecycleStep, SetLifecycle
  <1>6. ASSUME NEW a \in Attempts, RefuseCapture(a)
       PROVE  Ordered'
    BY <1>6 DEF RefuseCapture
  <1>7. ASSUME NEW a \in Attempts, EnterValidating(a)
       PROVE  Ordered'
    BY <1>7 DEF EnterValidating, LifecycleStep, SetLifecycle
  <1>8. ASSUME NEW a \in Attempts, SealManifest(a)
       PROVE  Ordered'
    BY <1>8 DEF SealManifest
  <1>9. ASSUME NEW a \in Attempts, EnterSealed(a)
       PROVE  Ordered'
    BY <1>9 DEF EnterSealed, LifecycleStep, SetLifecycle
  <1>10. ASSUME NEW a \in Attempts, EnterPersisting(a)
       PROVE  Ordered'
    BY <1>10 DEF EnterPersisting, LifecycleStep, SetLifecycle, CanTransition, Successors
  <1>11. ASSUME NEW a \in Attempts, UpdateImage(a)
       PROVE  Ordered'
    BY <1>11 DEF UpdateImage
  <1>12. ASSUME NEW a \in Attempts, JournalPersisted(a)
       PROVE  Ordered'
    BY <1>12 DEF JournalPersisted
  <1>13. ASSUME NEW a \in Attempts, CaptureCommit(a)
       PROVE  Ordered'
    <2>1. CASE CommitAccepts(a)
      BY <1>13, <2>1, CommitOrder
      DEF CaptureCommit, Evidence, ThreadEvidence, AfterJournal
    <2>2. CASE ~CommitAccepts(a)
      BY <1>13, <2>2 DEF CaptureCommit
    <2> QED BY <2>1, <2>2
  <1>14. ASSUME NEW a \in Attempts, SendResume(a)
       PROVE  Ordered'
    BY <1>14 DEF SendResume
  <1>15. ASSUME NEW a \in Attempts, ResumeFailed(a)
       PROVE  Ordered'
    BY <1>15 DEF ResumeFailed, FinishStep, AttemptFinish
  <1>16. ASSUME NEW a \in Attempts, FinishCommitted(a)
       PROVE  Ordered'
    BY <1>16 DEF FinishCommitted, FinishStep, AttemptFinish
  <1>17. ASSUME NEW a \in Attempts, ReleaseCommitted(a)
       PROVE  Ordered'
    BY <1>17 DEF ReleaseCommitted, ReleaseStep
  <1>18. ASSUME NEW a \in Attempts, GiveUp(a)
       PROVE  Ordered'
    BY <1>18 DEF GiveUp, Resumption
  <1>19. ASSUME NEW a \in Attempts, StoreError(a)
       PROVE  Ordered'
    BY <1>19 DEF StoreError
  <1>20. ASSUME NEW a \in Attempts, AbortStart(a)
       PROVE  Ordered'
    BY <1>20 DEF AbortStart
  <1>21. ASSUME NEW a \in Attempts, AbortCleanup(a)
       PROVE  Ordered'
    BY <1>21 DEF AbortCleanup, CleanupStep
  <1>22. ASSUME NEW a \in Attempts, AbortRead(a)
       PROVE  Ordered'
    BY <1>22 DEF AbortRead
  <1>23. ASSUME NEW a \in Attempts, AbortFailRow(a)
       PROVE  Ordered'
    BY <1>23 DEF AbortFailRow
  <1>24. ASSUME NEW a \in Attempts, AbortFinish(a)
       PROVE  Ordered'
    BY <1>24 DEF AbortFinish, FinishStep, AttemptFinish
  <1>25. ASSUME NEW a \in Attempts, AbortRelease(a)
       PROVE  Ordered'
    BY <1>25 DEF AbortRelease, ReleaseStep
  <1> QED BY <1>1, <1>2, <1>3, <1>4, <1>5, <1>6, <1>7, <1>8, <1>9, <1>10, <1>11,
        <1>12, <1>13, <1>14, <1>15, <1>16, <1>17, <1>18, <1>19, <1>20, <1>21,
        <1>22, <1>23, <1>24, <1>25
      DEF ThreadStep

\* The steps of request_capture and the errors of a thread preserve the order.
LEMMA OrderRequest ==
    ASSUME TypeOK, TypeOK', Evidence, Ordered, NEW a0 \in Attempts, RequestStep(a0)
    PROVE  Ordered'
  <1> USE DEF TypeOK, storeVars, rowVars, bookVars, workVars, threadVars, recVars,
          nodeVars, Goto, Ordered, IdleIsFresh, Fresh, RowFollowsThread, BeforeJournal,
          SupersessionOrdered, CounterNamesCommit
  <1>1. ASSUME NEW a \in Attempts, RequestCapture(a)
       PROVE  Ordered'
    <2>1. /\ Fresh(a)
          /\ \A b \in Attempts \ {a} : generation'[b] = generation[b]
          /\ \A b \in Attempts : pc'[b] = pc[b] \/ (b = a /\ pc'[b] = "reserve")
      BY <1>1 DEF RequestCapture
    <2>2. /\ UNCHANGED <<lifecycle, persisted, dbCommitted, supersedes, supersededBy,
                         checkpointGeneration>>
      BY <1>1 DEF RequestCapture
    <2>3. IdleIsFresh'
      BY <2>1, <2>2
    <2>4. RowFollowsThread'
      BY <2>1, <2>2
    <2>5. SupersessionOrdered'
      BY <2>1, <2>2
    <2>6. CounterNamesCommit'
      <3>1. a \notin dbCommitted /\ dbCommitted \subseteq Attempts
        BY <2>1 DEF Evidence, JournalEvidence
      <3> QED BY <2>1, <2>2, <3>1
    <2> QED BY <2>3, <2>4, <2>5, <2>6
  <1>2. ASSUME NEW a \in Attempts, RestoreBegin(a)
       PROVE  Ordered'
    BY <1>2 DEF RestoreBegin, RestoreStep
  <1>3. ASSUME NEW a \in Attempts, RestoreApply(a)
       PROVE  Ordered'
    BY <1>3 DEF RestoreApply, RestoreStep
  <1>4. ASSUME NEW a \in Attempts, RestoreAbort(a)
       PROVE  Ordered'
    BY <1>4 DEF RestoreAbort, RestoreStep
  <1>5. ASSUME NEW a \in Attempts, RestoreCommit(a)
       PROVE  Ordered'
    <2>1. a \in dbCommitted
      BY <1>5 DEF RestoreCommit, RestoreStep, Evidence, JournalEvidence, Committed
    <2> QED BY <1>5, <2>1 DEF RestoreCommit, RestoreStep
  <1>6. ASSUME NEW a \in Attempts, ExpireReservation(a)
       PROVE  Ordered'
    BY <1>6 DEF ExpireReservation
  <1>7. ASSUME NEW a \in Attempts, SweepStaging(a)
       PROVE  Ordered'
    BY <1>7 DEF SweepStaging
  <1> QED BY <1>1, <1>2, <1>3, <1>4, <1>5, <1>6, <1>7
      DEF RequestStep, RestoreNext

\* The steps of recovery preserve the order.
LEMMA OrderRecovery ==
    ASSUME TypeOK, TypeOK', Evidence, Ordered, RecoveryStart \/ RecoveryStep
    PROVE  Ordered'
  <1> USE DEF TypeOK, storeVars, rowVars, bookVars, workVars, threadVars, recVars,
          nodeVars, Goto, Ordered, IdleIsFresh, Fresh, RowFollowsThread, BeforeJournal,
          SupersessionOrdered, CounterNamesCommit
  <1>1. ASSUME RecoveryStart
       PROVE  Ordered'
    BY <1>1 DEF RecoveryStart
  <1>2. ASSUME NEW a \in Attempts, RecoveryPick(a)
       PROVE  Ordered'
    BY <1>2 DEF RecoveryPick
  <1>3. ASSUME RecoveryGet
       PROVE  Ordered'
    BY <1>3 DEF RecoveryGet
  <1>4. ASSUME RecoveryCommit
       PROVE  Ordered'
    <2>1. CASE CommitAccepts(recCur)
      BY <1>4, <2>1, CommitOrder DEF RecoveryCommit, Evidence, RecoveryEvidence
    <2>2. CASE ~CommitAccepts(recCur)
      BY <1>4, <2>2 DEF RecoveryCommit
    <2> QED BY <2>1, <2>2
  <1>5. ASSUME RecoveryReject
       PROVE  Ordered'
    BY <1>5 DEF RecoveryReject, Evidence, RecoveryEvidence
  <1>6. ASSUME RecoveryFinish
       PROVE  Ordered'
    BY <1>6 DEF RecoveryFinish, AttemptFinish
  <1>7. ASSUME RecoveryRelease
       PROVE  Ordered'
    BY <1>7 DEF RecoveryRelease
  <1>8. ASSUME NEW a \in Attempts, RecoveryApply(a)
       PROVE  Ordered'
    BY <1>8 DEF RecoveryApply
  <1>9. ASSUME RecoveryCleanup
       PROVE  Ordered'
    BY <1>9 DEF RecoveryCleanup
  <1>10. ASSUME RecoveryDone
       PROVE  Ordered'
    BY <1>10 DEF RecoveryDone, RecoveryReturns
  <1>11. ASSUME RecoveryError
       PROVE  Ordered'
    BY <1>11 DEF RecoveryError, RecoveryReturns
  <1> QED BY <1>1, <1>2, <1>3, <1>4, <1>5, <1>6, <1>7, <1>8, <1>9, <1>10, <1>11
      DEF RecoveryStep

\* The steps of the node, of the restores and of the clocks preserve the order.
LEMMA OrderNode ==
    ASSUME TypeOK, TypeOK', Evidence, Ordered, NodeOrFaultStep
    PROVE  Ordered'
  <1> USE DEF TypeOK, storeVars, rowVars, bookVars, workVars, threadVars, recVars,
          nodeVars, Goto, Ordered, IdleIsFresh, Fresh, RowFollowsThread, BeforeJournal,
          SupersessionOrdered, CounterNamesCommit
  <1>1. ASSUME NEW m \in msgs, RefuseEpoch(m)
       PROVE  Ordered'
    BY <1>1, AnswerOrder DEF RefuseEpoch
  <1>2. ASSUME NEW m \in msgs, CaptureBegin(m)
       PROVE  Ordered'
    BY <1>2 DEF CaptureBegin, Receive
  <1>3. ASSUME NEW a \in Attempts, CaptureSucceeds(a)
       PROVE  Ordered'
    <2>1. CaptureCall(a) \in Messages
      BY DEF CaptureCall, Messages
    <2> QED BY <1>3, <2>1, AnswerOrder DEF CaptureSucceeds
  <1>4. ASSUME NEW a \in Attempts, CaptureFails(a)
       PROVE  Ordered'
    <2>1. CaptureCall(a) \in Messages
      BY DEF CaptureCall, Messages
    <2> QED BY <1>4, <2>1, AnswerOrder DEF CaptureFails
  <1>5. ASSUME NEW m \in msgs, Promote(m)
       PROVE  Ordered'
    BY <1>5, AnswerOrder DEF Promote, Receive
  <1>6. ASSUME NEW m \in msgs, Resume(m)
       PROVE  Ordered'
    <2>1. PICK r : Answer(m, r)
      BY <1>6 DEF Resume
    <2> QED BY <1>6, <2>1, AnswerOrder DEF Resume, Receive
  <1>7. ASSUME NEW m \in msgs, Cleanup(m)
       PROVE  Ordered'
    BY <1>7, AnswerOrder DEF Cleanup, Receive
  <1>8. ASSUME Heartbeat
       PROVE  Ordered'
    BY <1>8 DEF Heartbeat
  <1>9. ASSUME NEW m \in msgs, LoseMessage(m)
       PROVE  Ordered'
    BY <1>9 DEF LoseMessage
  <1>10. ASSUME CoordinatorRestart
       PROVE  Ordered'
    BY <1>10 DEF CoordinatorRestart, RecoveryReturns, Live
  <1>11. ASSUME NodeRestart
       PROVE  Ordered'
    BY <1>11 DEF NodeRestart
  <1>12. ASSUME NEW b \in active, MarkStale(b)
       PROVE  Ordered'
    BY <1>12 DEF MarkStale
  <1> QED BY <1>1, <1>2, <1>3, <1>4, <1>5, <1>6, <1>7, <1>8, <1>9, <1>10, <1>11,
        <1>12
      DEF NodeOrFaultStep, NodeStep

\* The initial state satisfies the inductive invariant.
LEMMA InitIInv == Init => IInv
  <1> SUFFICES ASSUME Init PROVE IInv
    OBVIOUS
  <1>1. TypeOK
    BY InitType
  <1>2. Evidence
    BY DEF Init, Evidence, ThreadEvidence, RecoveryEvidence, PromotionEvidence,
           JournalEvidence, NoFalseSuccess, Committed, AfterSeal, AfterImage,
           AfterJournal, AfterCommit
  <1>3. Ordered
    BY NoneAssumption DEF Init, Ordered, IdleIsFresh, Fresh, RowFollowsThread,
           BeforeJournal, SupersessionOrdered, CounterNamesCommit
  <1> QED BY <1>1, <1>2, <1>3 DEF IInv

\* Every step preserves the inductive invariant.
LEMMA StepIInv == IInv /\ [Next]_vars => IInv'
  <1> SUFFICES ASSUME IInv, [Next]_vars PROVE IInv'
    OBVIOUS
  <1>t. TypeOK /\ Evidence /\ Ordered
    BY DEF IInv
  <1>1. TypeOK'
    BY <1>t, StepType
  <1>2. CASE UNCHANGED vars
    <2> USE <1>2 DEF vars, storeVars, rowVars, bookVars, workVars, threadVars, recVars,
                     nodeVars
    <2>1. Evidence'
      BY <1>t DEF Evidence, ThreadEvidence, RecoveryEvidence, PromotionEvidence,
                  JournalEvidence, NoFalseSuccess, Committed
    <2>2. Ordered'
      BY <1>t DEF Ordered, IdleIsFresh, Fresh, RowFollowsThread, SupersessionOrdered,
                  CounterNamesCommit
    <2> QED BY <1>1, <2>1, <2>2 DEF IInv
  <1>3. CASE Next
    <2>1. Evidence'
      BY <1>t, <1>1, <1>3, NextSteps, EvidenceThread, EvidenceRequest, EvidenceRecovery,
         EvidenceNode
    <2>2. Ordered'
      BY <1>t, <1>1, <1>3, NextSteps, OrderThread, OrderRequest, OrderRecovery, OrderNode
    <2> QED BY <1>1, <2>1, <2>2 DEF IInv
  <1> QED BY <1>2, <1>3

\* The inductive invariant the theorems below follow from.
THEOREM Inductive == Spec => []IInv
  BY InitIInv, StepIInv, PTL DEF Spec

\* No checkpoint is AVAILABLE without its evidence: for any number of captures, under
\* any faults, with recovery run at any time, a row that capture_commit has made
\* AVAILABLE has its manifest anchor, a location and both journal records.
THEOREM CommitEvidence == Spec => []CommitIsEvidenced
  <1>1. IInv => CommitIsEvidenced
    BY DEF IInv, Evidence, JournalEvidence, CommitIsEvidenced
  <1> QED BY <1>1, Inductive, PTL

\* Whoever finishes an attempt, its thread, an abort or recovery, it is recorded as
\* COMMITTED only when the metadata commit has happened.
THEOREM TrueSuccess == Spec => []NoFalseSuccess
  <1>1. IInv => NoFalseSuccess
    BY DEF IInv, Evidence, JournalEvidence
  <1> QED BY <1>1, Inductive, PTL

\* The node's checkpoint directories all belong to anchored manifests, also those of
\* promotions handled long after their caller gave up.
THEOREM PromotionAnchored == Spec => []PromotedIsAnchored
  <1>1. IInv => PromotedIsAnchored
    BY DEF IInv, Evidence, PromotionEvidence, PromotedIsAnchored
  <1> QED BY <1>1, Inductive, PTL

\* Supersession links follow the generations, and so never form a cycle, whatever the
\* order in which threads and recovery commit captures.
THEOREM LinksOrdered == Spec => []SupersessionOrdered
  <1>1. IInv => SupersessionOrdered
    BY DEF IInv, Ordered
  <1> QED BY <1>1, Inductive, PTL

\* The workload's checkpoint counter always names a committed checkpoint's generation.
THEOREM CounterCommitted == Spec => []CounterNamesCommit
  <1>1. IInv => CounterNamesCommit
    BY DEF IInv, Ordered
  <1> QED BY <1>1, Inductive, PTL

\* A write to a row's lifecycle that the table allows, or one of its two exceptions.
LegalChange(a) ==
    lifecycle'[a] # lifecycle[a] =>
        \/ lifecycle[a] = "none" /\ lifecycle'[a] = "CREATED"
        \/ CanTransition(lifecycle[a], lifecycle'[a])
        \/ lifecycle[a] = "CREATED" /\ lifecycle'[a] = "FAILED"

\* capture_commit makes a row AVAILABLE only from a lifecycle the table allows.
LEMMA CommitLegal ==
    ASSUME TypeOK, NEW c \in Attempts, CommitAccepts(c), CommitTx(c)
    PROVE  \A a \in Attempts : LegalChange(a)
  BY DEF TypeOK, CommitAccepts, CommitTx, LegalChange, CanTransition, Successors

\* The steps that write FAILED find a row that exists and that the table lets fail.
LEMMA FailLegal ==
    ASSUME TypeOK, NEW c \in Attempts, lifecycle[c] # "none",
           lifecycle' = [lifecycle EXCEPT ![c] = "FAILED"]
    PROVE  \A a \in Attempts : LegalChange(a)
  BY DEF TypeOK, LegalChange, CanTransition, Successors, LifecycleStates

\* Every step changes lifecycles as the table allows, in a state of the invariant.
LEMMA StepLegal ==
    ASSUME IInv, [Next]_vars
    PROVE  \A a \in Attempts : LegalChange(a)
  <1> USE DEF rowVars, storeVars
  <1>t. TypeOK /\ Evidence /\ Ordered
    BY DEF IInv
  <1>0. ASSUME UNCHANGED lifecycle PROVE \A a \in Attempts : LegalChange(a)
    BY <1>0 DEF LegalChange
  <1>1. ASSUME NEW c \in Attempts, ThreadStep(c) PROVE \A a \in Attempts : LegalChange(a)
    <2>1. CASE InsertScaffold(c)
      BY <1>t, <2>1 DEF InsertScaffold, Rows, LegalChange, TypeOK, Ordered, RowFollowsThread,
                        CanTransition, Successors
    <2>2. CASE \/ EnterCapturing(c) \/ AcceptCapture(c) \/ EnterValidating(c)
               \/ EnterSealed(c) \/ EnterPersisting(c)
      BY <1>t, <2>2 DEF EnterCapturing, AcceptCapture, EnterValidating, EnterSealed,
         EnterPersisting, LifecycleStep, SetLifecycle, LegalChange, TypeOK
    <2>3. CASE UpdateImage(c)
      BY <1>t, <2>3 DEF UpdateImage, LegalChange, TypeOK, Ordered, RowFollowsThread
    <2>4. CASE CaptureCommit(c)
      BY <1>t, <1>0, <2>4, CommitLegal DEF CaptureCommit
    <2>5. CASE AbortFailRow(c)
      BY <1>t, <2>5, FailLegal DEF AbortFailRow, Ordered, RowFollowsThread
    <2>6. CASE \/ Reserve(c) \/ BeginAttempt(c) \/ RefuseCapture(c) \/ SealManifest(c)
               \/ JournalPersisted(c) \/ SendResume(c) \/ GiveUp(c) \/ StoreError(c)
      BY <1>0, <2>6 DEF Reserve, BeginAttempt, RefuseCapture, SealManifest,
         JournalPersisted, SendResume, GiveUp, StoreError
    <2>7. CASE \/ ResumeFailed(c) \/ FinishCommitted(c) \/ ReleaseCommitted(c)
               \/ AbortStart(c) \/ AbortCleanup(c) \/ AbortRead(c) \/ AbortFinish(c)
               \/ AbortRelease(c)
      BY <1>0, <2>7 DEF ResumeFailed, FinishCommitted, ReleaseCommitted, AbortStart,
         AbortCleanup, AbortRead, AbortFinish, AbortRelease, FinishStep, ReleaseStep,
         CleanupStep
    <2> QED BY <1>1, <2>1, <2>2, <2>3, <2>4, <2>5, <2>6, <2>7 DEF ThreadStep
  <1>2. ASSUME NEW c \in Attempts, RequestStep(c) PROVE \A a \in Attempts : LegalChange(a)
    <2>1. CASE RestoreNext(c)
      BY <1>t, <2>1 DEF RestoreNext, RestoreBegin, RestoreApply, RestoreAbort,
         RestoreCommit, RestoreStep, LegalChange, TypeOK, CanTransition, Successors
    <2>2. CASE RequestCapture(c) \/ ExpireReservation(c) \/ SweepStaging(c)
      BY <1>0, <2>2 DEF RequestCapture, ExpireReservation, SweepStaging
    <2> QED BY <1>2, <2>1, <2>2 DEF RequestStep
  <1>3. ASSUME RecoveryStart \/ RecoveryStep PROVE \A a \in Attempts : LegalChange(a)
    <2>1. CASE RecoveryCommit
      BY <1>t, <1>0, <2>1, CommitLegal DEF RecoveryCommit, TypeOK
    <2>2. CASE RecoveryReject
      <3>1. recCur \in Attempts /\ lifecycle[recCur] # "none"
        BY <1>t, <2>2 DEF RecoveryReject, Evidence, RecoveryEvidence, Ordered,
                          RowFollowsThread, TypeOK
      <3> QED BY <1>t, <2>2, <3>1, FailLegal DEF RecoveryReject
    <2>3. CASE \/ RecoveryStart \/ RecoveryGet \/ RecoveryFinish \/ RecoveryRelease
               \/ RecoveryCleanup \/ RecoveryDone \/ RecoveryError
               \/ \E a \in Attempts : RecoveryPick(a) \/ RecoveryApply(a)
      BY <1>0, <2>3 DEF RecoveryStart, RecoveryGet, RecoveryFinish, RecoveryRelease,
         RecoveryCleanup, RecoveryDone, RecoveryError, RecoveryPick, RecoveryApply
    <2> QED BY <1>3, <2>1, <2>2, <2>3 DEF RecoveryStep
  <1>4. ASSUME NodeOrFaultStep PROVE \A a \in Attempts : LegalChange(a)
    BY <1>0, <1>4 DEF NodeOrFaultStep, NodeStep, RefuseEpoch, CaptureBegin, Promote,
       Resume, Cleanup, CaptureSucceeds, CaptureFails, Heartbeat, LoseMessage,
       CoordinatorRestart, NodeRestart, MarkStale
  <1> QED BY <1>0, <1>1, <1>2, <1>3, <1>4, NextSteps DEF vars

\* The abort, the image update, capture_commit and the restore write lifecycles without
\* consulting the transition table; their writes follow it all the same, but for the
\* abort of a capture whose row is still CREATED.
THEOREM LifecycleLegal == Spec => LifecycleFollowsTable
  <1>1. IInv /\ [Next]_vars =>
            [\A a \in Attempts :
                lifecycle'[a] # lifecycle[a] =>
                    \/ lifecycle[a] = "none" /\ lifecycle'[a] = "CREATED"
                    \/ CanTransition(lifecycle[a], lifecycle'[a])
                    \/ lifecycle[a] = "CREATED" /\ lifecycle'[a] = "FAILED"]_vars
    BY StepLegal DEF LegalChange
  <1> QED BY <1>1, Inductive, PTL DEF Spec, LifecycleFollowsTable
==============================================================================
