---------------------------- MODULE RestoreProofs ----------------------------
(***************************************************************************)
(* Proofs about Restore, for every set of nodes, restores and checkpoints   *)
(* and every bound. What a theorem needs excluded of the faults is in its   *)
(* statement; the others hold for every subset of FaultKinds.               *)
(***************************************************************************)
EXTENDS Restore, TLAPS

\* The steps of Next by whose they are.
ThreadFamily(r) == ThreadStep(r) \/ ThreadFault(r)
NodeFamily(n) ==
    AuthorityStep(n) \/ NodeStart(n) \/ BeatStep(n) \/ BeatLost(n) \/ NodeStops(n)
MessageFamily(m) == HandleStep(m) \/ LoseMessage(m)

------------------------------------------------------------------------------
(* The inductive invariant *)

PastCommit ==
    {"read", "send_resume", "wait_resume", "resumed", "finish", "release", "abort_committed"}
BeforeCommit ==
    {"idle", "reserve", "begin", "pending", "provision", "restoring", "wait_restore",
     "journal", "commit"}
RollingBack == {"abort_cleanup", "abort_read", "abort_put_back", "abort_fail"}

\* The journal is ahead of everyone who reads it: a thread past the commit, and recovery
\* about to record a success, are about a restore that was applied and committed.
Journalled ==
    /\ genCommitted \subseteq restored
    /\ \A r \in Restores :
          /\ pc[r] = "commit" => r \in restored
          /\ pc[r] \in PastCommit => r \in genCommitted
    /\ recPc = "finish_ok" => recCur \in genCommitted
    /\ NoFalseRestore

\* A restore under way has a target and a checkpoint.
Planned == \A r \in Restores : pc[r] # "idle" => plan[r] \in Plans

\* Every token that is anywhere was handed out.
Issued ==
    /\ token <= grants
    /\ \A n \in Nodes : attached[n].token <= grants /\ claim[n].token <= grants
    /\ \A r \in Restores : grant[r].token <= grants
    /\ \A m \in msgs : m.grant.token <= grants

Ended(r) == pc[r] \in {"done", "dead"}

\* r is not committed and never will be.
Doomed(r) ==
    /\ r \notin genCommitted
    /\ pc[r] \in {"abort", "abort_release", "done", "dead"} \cup RollingBack

\* Recovery and a restore's thread do not meet: recovery looks at restores whose thread
\* has ended; whoever rolls back, or says FAILED, does so for a restore that is doomed;
\* and the one restore call of an attempt is gone before the thread goes on to commit.
SeparatedThreads ==
    \A r \in Restores :
        /\ pc[r] \in BeforeCommit \cup RollingBack => r \notin genCommitted
        /\ attempt[r] # "none" => pc[r] \notin {"idle", "reserve", "begin"}
        /\ attempt[r] = "FAILED" => Doomed(r)
        /\ provider[r] = "rolled_back" => Doomed(r)
SeparatedRecovery ==
    /\ \A r \in recTodo : Ended(r)
    /\ \A a \in recActions : Ended(a[1]) /\ (a[2] = "cleanup" => a[1] \notin genCommitted)
    /\ recPc \in {"get", "put_back", "finish_fail"} => recCur \in Restores /\ Doomed(recCur)
SeparatedCalls ==
    /\ \A m \in msgs :
          /\ m.op = "cleanup" => Doomed(m.att)
          /\ m.op = "restore" => /\ m.by = "thread" /\ m.att \notin genCommitted
                                 /\ pc[m.att] = "wait_restore" \/ Doomed(m.att)
    /\ \A m, k \in msgs : m.op = "restore" /\ k.op = "restore" /\ m.att = k.att => m = k
Separate ==
    "overlap" \notin Faults => SeparatedThreads /\ SeparatedRecovery /\ SeparatedCalls

\* The store does not fail, recovery keeps away from running threads, and the coordinator
\* has not crashed yet.
Undisturbed == "overlap" \notin Faults /\ "store" \notin Faults /\ era = 1

\* Then a thread that ends closes its attempt, and recovery finds nothing to do.
Closed ==
    Undisturbed =>
        /\ \A r \in Restores :
              /\ pc[r] # "dead"
              /\ pc[r] \in {"release", "abort_release", "done"} => attempt[r] # "ACTIVE"
        /\ recTodo = {} /\ recActions = {} /\ recPc \in {"idle", "reconcile"}

\* Node n has token t, or it is granted to n, or is on its way there.
Holds(n, t) ==
    /\ t # 0
    /\ \/ attached[n].token = t
       \/ claim[n].token = t
       \/ activeNode = n /\ token = t
       \/ \E r \in Restores : plan[r].node = n /\ grant[r].token = t
       \/ \E m \in msgs : plan[m.att].node = n /\ m.grant.token = t

\* Then each token belongs to one node.
OneOwner == \A n, k \in Nodes, t \in Nat : Holds(n, t) /\ Holds(k, t) => n = k
Unborn ==
    \A r \in Restores : pc[r] = "idle" => grant[r] = NoGrant /\ \A m \in msgs : m.att # r
Owned == Undisturbed => OneOwner /\ Unborn /\ (token # 0 => activeNode # None)

\* r is between its reservation and its commit, or rolls back.
Working(r) == Live(r) /\ pc[r] # "reserve" /\ r \notin genCommitted

\* Then a restore works under a reservation of its checkpoint, alone, and a checkpoint
\* in the middle of a restore has the thread that will take it out.
Alone ==
    /\ \A r \in Restores : Working(r) => r \in reserved
    /\ \A r \in reserved : pc[r] \notin {"idle", "reserve"}
    /\ \A r, s \in reserved : plan[r].ckpt = plan[s].ckpt => r = s
Outside ==
    {"idle", "reserve", "begin", "pending", "abort_fail", "abort_release", "done", "dead"}
Attended ==
    \A c \in Checkpoints : InRestore(c) =>
        \E r \in Restores :
            plan[r].ckpt = c /\ r \notin genCommitted /\ pc[r] \notin Outside
Exclusive == Undisturbed => Alone /\ Attended

IInv == TypeOK /\ Planned /\ Journalled /\ Issued /\ Separate /\ Closed /\ Owned /\ Exclusive

------------------------------------------------------------------------------
(* Types *)

\* TypeOK, by the part of the state it is about.
WorkTypes ==
    /\ generation \in Nat /\ epoch \in Nat /\ token \in Nat /\ grants \in Nat
    /\ attaches \in Nat /\ fences \in Nat /\ era \in {1, 2}
    /\ activeNode \in Nodes \cup {None}
    /\ active \subseteq Nodes
    /\ fencing \in [stage : {"idle", "bump", "release"}, node : Nodes \cup {None}, epoch : Nat]
    /\ sweep \in [stage : {"idle", "read", "bump"}, node : Nodes \cup {None}, epoch : Nat]
BookTypes ==
    /\ lifecycle \in [Checkpoints -> LifecycleStates]
    /\ attempt \in [Restores -> {"none", "ACTIVE", "COMMITTED", "COMMITTED_NO_RESUME", "FAILED"}]
    /\ reserved \subseteq Restores
    /\ restored \subseteq Restores
    /\ genCommitted \subseteq Restores
    /\ resumed \subseteq Restores
ThreadTypes ==
    /\ pc \in [Restores -> Labels]
    /\ plan \in [Restores -> Plans \cup {NoPlan}]
    /\ grant \in [Restores -> Grants]
    /\ outcome \in [Restores -> BOOLEAN]
RecoveryTypes ==
    /\ recPc \in RecLabels
    /\ recTodo \subseteq Restores
    /\ recCur \in Restores \cup {None}
    /\ recActions \subseteq Restores \X {"resume", "cleanup"}
NodeTypes ==
    /\ alive \subseteq Nodes
    /\ nodeEra \in [Nodes -> 0 .. 2]
    /\ attached \in [Nodes -> Grants]
    /\ claim \in [Nodes -> Grants]
    /\ beat \in [Nodes -> [stage : {"none", "sent", "stale", "cut"}, grant : Grants]]
    /\ provider \in [Restores -> {"untouched", "applied", "rolled_back", "final"}]
    /\ msgs \subseteq Messages

\* They are together TypeOK.
LEMMA TypeParts ==
    TypeOK <=> WorkTypes /\ BookTypes /\ ThreadTypes /\ RecoveryTypes /\ NodeTypes
  BY DEF TypeOK, WorkTypes, BookTypes, ThreadTypes, RecoveryTypes, NodeTypes

\* The grant of a thread: a commit puts a fresh token in it, then the epoch is read.
LEMMA GrantMoves ==
    ASSUME TypeOK, NEW r \in Restores, ThreadStep(r)
    PROVE  /\ grant' \in [Restores -> Grants]
           /\ \A s \in Restores \ {r} : grant'[s] = grant[s]
           /\ \/ grant'[r].token = grant[r].token
              \/ RestoreCommit(r) /\ pc'[r] = "read" /\ grant'[r].token = grants + 1
  <1>1. CASE RestoreCommit(r) /\ pc'[r] = "read"
    <2>1. grant' = [grant EXCEPT ![r] = [grant[r] EXCEPT !.token = grants + 1]]
      BY <1>1 DEF RestoreCommit, FreshToken, Goto, TypeOK
    <2>2. grants + 1 \in Nat
      BY TypeParts DEF WorkTypes
    <2> QED BY <1>1, <2>1, <2>2 DEF TypeOK, Grants
  <1>2. CASE RestoreCommit(r) /\ pc'[r] # "read"
    <2>1. grant' = grant
      BY <1>2 DEF RestoreCommit, Goto, TypeOK
    <2> QED BY <1>2, <2>1 DEF TypeOK
  <1>3. CASE ReadEpoch(r)
    <2>1. grant' = [grant EXCEPT ![r] = [grant[r] EXCEPT !.epoch = epoch]]
      BY <1>3 DEF ReadEpoch
    <2> QED BY <2>1 DEF TypeOK, Grants
  <1>4. CASE ~RestoreCommit(r) /\ ~ReadEpoch(r)
    <2>1. grant' = grant
      BY <1>4
         DEF ThreadStep, RequestRestore, Reserve, AttemptBegin, EnterPending, Provision,
             EnterRestoring, JournalRestored, SendResume, JournalResumed, Finish, Release,
             AbortStart, AbortCommitted, AbortRead, AbortPutBack, AbortFail, AbortRelease,
             AttemptStep, LifecycleStep, ReleaseStep
    <2> QED BY <2>1 DEF TypeOK
  <1> QED BY <1>1, <1>2, <1>3, <1>4

\* No node holds a token that was not handed out.
LEMMA HoldsIssued ==
    ASSUME TypeOK, Issued, NEW n \in Nodes, NEW t \in Nat, Holds(n, t)
    PROVE  t <= grants
  BY DEF Issued, Holds

\* A step after which every token is held as before, or is new and held by one node,
\* keeps each token with one node.
LEMMA OneOwnerKept ==
    ASSUME TypeOK, Issued, OneOwner, NEW new,
           \A n \in Nodes, t \in Nat : Holds(n, t)' => Holds(n, t) \/ (t = grants + 1 /\ n = new)
    PROVE  OneOwner'
  <1>0. grants \in Nat
    BY TypeParts DEF WorkTypes
  <1>1. \A n \in Nodes, t \in Nat : Holds(n, t) => t # grants + 1
    BY <1>0, HoldsIssued
  <1> QED BY <1>1 DEF OneOwner

\* A step that moves threads only within, or within the outside of, the middle of a
\* restore, and touches neither lifecycles nor reservations.
LEMMA ExclusiveKept ==
    ASSUME TypeOK, Exclusive, UNCHANGED <<lifecycle, reserved, genCommitted, plan, era>>,
           \A r \in Restores : pc'[r] = pc[r] \/ {pc[r], pc'[r]} \cap Outside = {}
    PROVE  Exclusive'
  <1> SUFFICES ASSUME Undisturbed PROVE Alone' /\ Attended'
    BY DEF Exclusive, Undisturbed
  <1>1. Alone'
    BY DEF Exclusive, Alone, Working, Live, Outside, TypeOK
  <1>2. Attended'
    BY DEF Exclusive, Attended, InRestore
  <1> QED BY <1>1, <1>2

------------------------------------------------------------------------------
(* The steps *)

\* A step of a restore's thread keeps the invariant.
LEMMA ThreadStepKeeps ==
    ASSUME IInv, NEW r \in Restores, ThreadStep(r)
    PROVE  IInv'
  <1>0. /\ TypeOK /\ Planned /\ Journalled /\ Issued /\ Separate /\ Closed /\ Owned /\ Exclusive
        /\ WorkTypes /\ BookTypes /\ ThreadTypes /\ RecoveryTypes /\ NodeTypes
    BY TypeParts DEF IInv
  <1> USE DEF ThreadStep, RequestRestore, Reserve, AttemptBegin, EnterPending, Provision,
      EnterRestoring, JournalRestored, RestoreCommit, RestoreTx, ReadEpoch, SendResume,
      JournalResumed, Finish, Release, AbortStart, AbortCommitted, AbortRead, AbortPutBack,
      AbortFail, AbortRelease, AttemptStep, LifecycleStep, ReleaseStep, Goto, Send,
      workVars, bookVars, threadVars, recVars, countVars, sideVars, nodeVars
  <1>1. WorkTypes'
    BY <1>0 DEF Plans, NoPlan, FreshToken, Idle, WorkTypes, BookTypes, ThreadTypes,
        RecoveryTypes, NodeTypes
  <1>2. BookTypes'
    <2>1. lifecycle' \in [Checkpoints -> LifecycleStates]
      BY <1>0 DEF LifecycleStates, BookTypes
    <2>2. attempt' \in [Restores ->
                          {"none", "ACTIVE", "COMMITTED", "COMMITTED_NO_RESUME", "FAILED"}]
      BY <1>0 DEF BookTypes
    <2>3. reserved' \subseteq Restores /\ restored' \subseteq Restores
          /\ genCommitted' \subseteq Restores /\ resumed' \subseteq Restores
      BY <1>0 DEF BookTypes
    <2> QED BY ONLY <2>1, <2>2, <2>3 DEF BookTypes
  <1>3. ThreadTypes'
    <2>1. pc' \in [Restores -> Labels]
      BY <1>0 DEF Labels, ExecLabels, AbortLabels, ThreadTypes
    <2>2. plan' \in [Restores -> Plans \cup {NoPlan}] /\ outcome' \in [Restores -> BOOLEAN]
      BY <1>0 DEF ThreadTypes
    <2>3. grant' \in [Restores -> Grants]
      BY ONLY <1>0, ThreadStep(r), GrantMoves
    <2> QED BY ONLY <2>1, <2>2, <2>3 DEF ThreadTypes
  <1>4. RecoveryTypes'
    BY <1>0 DEF RecLabels, WorkTypes, BookTypes, ThreadTypes, RecoveryTypes, NodeTypes
  <1>5. NodeTypes'
    BY <1>0 DEF Grants, NoGrant, Silent, Messages, FreshToken, WorkTypes, BookTypes,
        ThreadTypes, RecoveryTypes, NodeTypes
  <1>6. Journalled'
    BY <1>0 DEF Journalled, NoFalseRestore, PastCommit, TypeOK, WaitLabel, ThreadWaiting,
        RecWaiting, Live
  <1>7. Issued'
    <2>1. /\ grants' \in Nat /\ grants' >= grants
          /\ token' <= grants'
      BY <1>0 DEF Issued, TypeOK, FreshToken
    <2>2. UNCHANGED <<attached, claim>>
      OBVIOUS
    <2>3. \A s \in Restores : grant'[s].token <= grants'
      <3>1. RestoreCommit(r) /\ pc'[r] = "read" => grants' = grants + 1
        BY <1>0 DEF FreshToken, ThreadTypes
      <3> HIDE DEF ThreadStep, RestoreCommit
      <3>2. /\ \A s \in Restores \ {r} : grant'[s] = grant[s]
            /\ grant'[r].token = grant[r].token \/ grant'[r].token = grants'
        BY ONLY <1>0, <3>1, GrantMoves, r \in Restores, ThreadStep(r)
      <3>3. grants \in Nat /\ \A s \in Restores : grant[s].token \in Nat /\ grant[s].token <= grants
        BY ONLY <1>0 DEF Issued, ThreadTypes, WorkTypes, Grants
      <3> QED BY ONLY <2>1, <3>2, <3>3
    <2>4. \A m \in msgs' : m \in msgs \/ m.grant = NoGrant \/ m.grant = grant[r]
      OBVIOUS
    <2>5. \A m \in msgs' : m.grant.token <= grants'
      <3>1. grant[r].token \in Nat /\ grant[r].token <= grants /\ grants \in Nat
        BY ONLY <1>0 DEF Issued, ThreadTypes, WorkTypes, Grants
      <3>2. \A m \in msgs : m.grant.token \in Nat /\ m.grant.token <= grants
        BY ONLY <1>0 DEF Issued, NodeTypes, Messages, Grants
      <3>3. NoGrant.token = 0
        BY DEF NoGrant
      <3> QED BY ONLY <2>1, <2>4, <3>1, <3>2, <3>3
    <2> QED BY ONLY <1>0, <2>1, <2>2, <2>3, <2>5 DEF Issued, TypeOK, Grants
  <1>8. "overlap" \notin Faults => SeparatedThreads'
    BY <1>0 DEF Separate, SeparatedThreads, SeparatedCalls, SeparatedRecovery, Doomed,
        Ended, BeforeCommit, RollingBack, Live, TypeOK, Messages, WaitLabel, ThreadWaiting
  <1>9. "overlap" \notin Faults => SeparatedRecovery'
    <2> SUFFICES ASSUME "overlap" \notin Faults PROVE SeparatedRecovery'
      OBVIOUS
    <2>0. SeparatedThreads /\ SeparatedRecovery /\ SeparatedCalls
      BY <1>0 DEF Separate
    <2>1. \A s \in Restores : (Ended(s) => Ended(s)') /\ (Doomed(s) => Doomed(s)')
      BY <1>0 DEF TypeOK, Ended, Doomed, RollingBack
    <2>2. UNCHANGED recVars
      OBVIOUS
    <2>3. \A s \in Restores : Ended(s) /\ s \notin genCommitted => s \notin genCommitted'
      BY <1>0 DEF TypeOK, Ended
    <2> QED BY ONLY <1>0, <2>0, <2>1, <2>2, <2>3 DEF SeparatedRecovery, recVars, TypeOK
  <1>10. "overlap" \notin Faults => SeparatedCalls'
    <2> SUFFICES ASSUME "overlap" \notin Faults PROVE SeparatedCalls'
      OBVIOUS
    <2>0. SeparatedThreads /\ SeparatedRecovery /\ SeparatedCalls
      BY <1>0 DEF Separate
    <2>1. \A s \in Restores : (Ended(s) => Ended(s)') /\ (Doomed(s) => Doomed(s)')
      BY <1>0 DEF TypeOK, Ended, Doomed, RollingBack
    <2>2. \A m \in msgs' \ msgs :
             /\ m.att = r
             /\ m.op = "restore" => /\ m.by = "thread" /\ pc[r] = "restoring"
                                    /\ pc'[r] = "wait_restore"
             /\ m.op = "cleanup" => r \notin genCommitted /\ UNCHANGED genCommitted
                                     /\ pc'[r] = "abort_cleanup"
             /\ m.op \in {"restore", "cleanup", "resume"}
      BY <1>0 DEF TypeOK
    <2>3. \A m, k \in msgs' \ msgs : m = k
      OBVIOUS
    <2>4. r \in genCommitted' => r \in genCommitted \/ pc[r] = "commit"
      OBVIOUS
    <2>5. \A s \in Restores \ {r} : pc'[s] = pc[s] /\ (s \in genCommitted' => s \in genCommitted)
      BY <1>0 DEF TypeOK
    <2>6. pc[r] = "wait_restore" => pc'[r] = "wait_restore"
      OBVIOUS
    <2>7. pc[r] = "restoring" => r \notin genCommitted /\ ~Doomed(r)
      BY <2>0 DEF SeparatedThreads, BeforeCommit, Doomed, RollingBack
    <2>8. ASSUME NEW m \in msgs'
          PROVE  /\ m.op = "cleanup" => Doomed(m.att)'
                 /\ m.op = "restore" => /\ m.by = "thread" /\ m.att \notin genCommitted'
                                        /\ pc'[m.att] = "wait_restore" \/ Doomed(m.att)'
      <3>1. CASE m \in msgs
        BY ONLY <1>0, <2>0, <2>1, <2>4, <2>5, <2>6, <3>1
           DEF SeparatedCalls, TypeOK, Messages, Doomed, RollingBack
      <3>2. CASE m \notin msgs
        BY ONLY <1>0, <2>2, <2>4, <2>7, <2>8, <3>2 DEF Doomed, RollingBack
      <3> QED BY ONLY <3>1, <3>2
    <2>9. \A m, k \in msgs' : m.op = "restore" /\ k.op = "restore" /\ m.att = k.att => m = k
      BY ONLY <2>0, <2>2, <2>3, <2>7 DEF SeparatedCalls
    <2> QED BY ONLY <2>8, <2>9 DEF SeparatedCalls
  <1>11. Closed'
    BY <1>0 DEF Closed, Undisturbed, TypeOK, Live, WaitLabel, ThreadWaiting, RecWaiting,
        Separate, SeparatedThreads
  <1>12. Owned'
    <2> SUFFICES ASSUME Undisturbed'
                 PROVE  OneOwner' /\ Unborn' /\ (token' # 0 => activeNode' # None)
      BY DEF Owned
    <2>0. Undisturbed /\ OneOwner /\ Unborn /\ (token # 0 => activeNode # None)
      BY <1>0 DEF Owned, Undisturbed
    <2>1. /\ UNCHANGED <<attached, claim>>
          /\ \A s \in Restores : pc'[s] = "idle" => s # r /\ pc[s] = "idle"
      BY <1>0 DEF TypeOK
    <2>2. /\ \A s \in Restores \ {r} : grant'[s] = grant[s] /\ plan'[s] = plan[s]
          /\ \A m \in msgs' \ msgs : m.att = r
      <3>1. \A s \in Restores \ {r} : plan'[s] = plan[s]
        BY <1>0 DEF ThreadTypes
      <3>2. \A m \in msgs' \ msgs : m.att = r
        OBVIOUS
      <3> HIDE DEF ThreadStep
      <3>3. \A s \in Restores \ {r} : grant'[s] = grant[s]
        BY ONLY <1>0, GrantMoves, r \in Restores, ThreadStep(r)
      <3> QED BY ONLY <3>1, <3>2, <3>3
    <2>3. Unborn'
      BY ONLY <2>0, <2>1, <2>2 DEF Unborn
    <2>4. CASE RequestRestore(r)
      <3>1. /\ UNCHANGED <<token, activeNode, grant, msgs>>
            /\ grant[r] = NoGrant /\ \A m \in msgs : m.att # r
        BY <2>0, <2>4 DEF Unborn
      <3>2. \A n \in Nodes, t \in Nat : Holds(n, t)' => Holds(n, t)
        <4>1. /\ \A s \in Restores : plan'[s].node = plan[s].node \/ grant[s].token = 0
              /\ \A m \in msgs : plan'[m.att] = plan[m.att]
          BY ONLY <1>0, <2>2, <3>1 DEF NoGrant, TypeOK, Messages
        <4> QED BY ONLY <2>1, <3>1, <4>1 DEF Holds
      <3> QED BY ONLY <2>0, <2>3, <3>1, <3>2 DEF OneOwner
    <2>5. CASE RestoreCommit(r) /\ pc'[r] = "read"
      <3>1. /\ UNCHANGED <<plan, msgs>> /\ pc[r] = "commit"
            /\ token' = grants + 1 /\ activeNode' = plan[r].node
        BY <1>0, <2>5 DEF FreshToken, ThreadTypes
      <3>2. \A n \in Nodes, t \in Nat :
               Holds(n, t)' => Holds(n, t) \/ (t = grants + 1 /\ n = plan[r].node)
        BY ONLY <1>0, <2>1, <2>2, <3>1, GrantMoves, ThreadStep(r) DEF Holds
      <3>3. OneOwner'
        BY ONLY <1>0, <2>0, <3>2, OneOwnerKept
      <3>4. plan[r].node # None
        BY ONLY <1>0, <3>1, RestoreNoneAssumption DEF Planned, Plans
      <3> QED BY ONLY <2>3, <3>1, <3>3, <3>4
    <2>6. CASE ~RequestRestore(r) /\ ~(RestoreCommit(r) /\ pc'[r] = "read")
      <3>1. /\ UNCHANGED <<token, activeNode, plan>>
            /\ \A m \in msgs' \ msgs : m.att = r /\ (m.grant = NoGrant \/ m.grant = grant[r])
        BY <1>0, <2>6 DEF TypeOK
      <3>2. grant'[r].token = grant[r].token
        <4> HIDE DEF ThreadStep, RestoreCommit
        <4> QED BY ONLY <1>0, <2>6, GrantMoves, r \in Restores, ThreadStep(r)
      <3>3. \A n \in Nodes, t \in Nat : Holds(n, t)' => Holds(n, t)
        BY ONLY <2>1, <2>2, <3>1, <3>2 DEF Holds, NoGrant
      <3> QED BY ONLY <2>0, <2>3, <3>1, <3>3 DEF OneOwner
    <2> QED BY ONLY <2>4, <2>5, <2>6
  <1>13. Exclusive'
    <2> SUFFICES ASSUME Undisturbed PROVE Alone' /\ Attended'
      BY DEF Exclusive, Undisturbed
    <2>0. /\ Alone /\ Attended
          /\ pc[r] \in BeforeCommit \cup RollingBack => r \notin genCommitted
          /\ pc[r] \in PastCommit => r \in genCommitted
          /\ \A s \in Restores \ {r} : pc'[s] = pc[s]
      BY <1>0
         DEF Exclusive, Undisturbed, Separate, SeparatedThreads, Journalled, ThreadTypes
    <2>00. /\ \A s \in Restores : Live(s) <=> pc[s] \notin {"idle", "done", "dead"}
           /\ \A s \in Restores : Live(s)' <=> pc'[s] \notin {"idle", "done", "dead"}
      BY DEF Live
    <2>1. CASE RequestRestore(r)
      <3>1. /\ UNCHANGED <<lifecycle, reserved, genCommitted>>
            /\ pc[r] = "idle" /\ pc'[r] = "reserve"
            /\ \A s \in Restores \ {r} : plan'[s] = plan[s]
        BY <1>0, <2>1 DEF ThreadTypes, BookTypes
      <3>2. Alone'
        BY ONLY SMTT(30), <1>0, <2>0, <2>00, <3>1
           DEF Alone, Working, BeforeCommit, RollingBack, PastCommit, TypeOK
      <3>3. Attended'
        BY ONLY <1>0, <2>0, <2>00, <3>1
           DEF Attended, Outside, InRestore, BeforeCommit, RollingBack, PastCommit, TypeOK
      <3> QED BY ONLY <3>2, <3>3
    <2>2. CASE Reserve(r)
      <3>1. /\ UNCHANGED <<lifecycle, genCommitted, plan>> /\ pc[r] = "reserve"
            /\ \/ pc'[r] = "done" /\ UNCHANGED reserved
               \/ /\ pc'[r] = "begin" /\ reserved' = reserved \cup {r}
                  /\ \A s \in reserved : plan[s].ckpt # plan[r].ckpt
        BY <1>0, <2>2 DEF ThreadTypes, BookTypes
      <3>2. Alone'
        BY ONLY <1>0, <2>0, <2>00, <3>1
           DEF Alone, Working, BeforeCommit, RollingBack, PastCommit, TypeOK
      <3>3. Attended'
        BY ONLY <1>0, <2>0, <2>00, <3>1
           DEF Attended, Outside, InRestore, BeforeCommit, RollingBack, PastCommit, TypeOK
      <3> QED BY ONLY <3>2, <3>3
    <2>3. CASE AttemptBegin(r) \/ AbortFail(r)
      <3>1. /\ UNCHANGED <<lifecycle, reserved, genCommitted, plan>>
            /\ \/ pc[r] = "begin" /\ pc'[r] = "pending"
               \/ pc[r] = "abort_fail" /\ pc'[r] = "abort_release"
        BY <1>0, <2>3 DEF ThreadTypes, BookTypes
      <3>2. Alone'
        <4>1. \A s \in Restores : Working(s)' => Working(s)
          BY ONLY <1>0, <2>0, <2>00, <3>1 DEF Working, BeforeCommit, RollingBack, PastCommit
        <4>2. \A s \in Restores : pc'[s] \in {"idle", "reserve"} => pc[s] \in {"idle", "reserve"}
          BY ONLY <2>0, <3>1
        <4> QED BY ONLY <1>0, <2>0, <3>1, <4>1, <4>2 DEF Alone, BookTypes
      <3>3. Attended'
        BY ONLY <1>0, <2>0, <2>00, <3>1
           DEF Attended, Outside, InRestore, BeforeCommit, RollingBack, PastCommit, TypeOK
      <3> QED BY ONLY <3>2, <3>3
    <2>4. CASE EnterPending(r) \/ EnterRestoring(r)
      <3>1. /\ UNCHANGED <<reserved, genCommitted, plan>> /\ pc[r] \in {"pending", "restoring"}
            /\ pc'[r] \in {"provision", "wait_restore", "abort"}
            /\ \A c \in Checkpoints : lifecycle'[c] = lifecycle[c] \/ c = plan[r].ckpt
        BY <1>0, <2>4 DEF ThreadTypes, BookTypes
      <3>2. Alone'
        <4>1. \A s \in Restores : Working(s)' => Working(s)
          BY ONLY <1>0, <2>0, <2>00, <3>1 DEF Working, BeforeCommit, RollingBack, PastCommit
        <4>2. \A s \in Restores : pc'[s] \in {"idle", "reserve"} => pc[s] \in {"idle", "reserve"}
          BY ONLY <2>0, <3>1
        <4> QED BY ONLY <1>0, <2>0, <3>1, <4>1, <4>2 DEF Alone, BookTypes
      <3>3. Attended'
        BY ONLY SMTT(30), <1>0, <2>0, <2>00, <3>1
           DEF Attended, Outside, InRestore, BeforeCommit, RollingBack, PastCommit, TypeOK
      <3> QED BY ONLY <3>2, <3>3
    <2>5. CASE RestoreCommit(r) /\ pc'[r] = "read"
      <3>1. /\ UNCHANGED <<reserved, plan>> /\ pc[r] = "commit" /\ pc'[r] = "read"
            /\ genCommitted' = genCommitted \cup {r}
            /\ lifecycle' = [lifecycle EXCEPT ![plan[r].ckpt] = "RESTORED"]
        BY <1>0, <2>5 DEF ThreadTypes, BookTypes
      <3>2. Alone'
        <4>1. \A s \in Restores : Working(s)' => Working(s)
          BY ONLY <1>0, <2>0, <2>00, <3>1 DEF Working, BeforeCommit, RollingBack, PastCommit
        <4>2. \A s \in Restores : pc'[s] \in {"idle", "reserve"} => pc[s] \in {"idle", "reserve"}
          BY ONLY <2>0, <3>1
        <4> QED BY ONLY <1>0, <2>0, <3>1, <4>1, <4>2 DEF Alone, BookTypes
      <3>3. Attended'
        BY ONLY <1>0, <2>0, <2>00, <3>1
           DEF Attended, Outside, InRestore, BeforeCommit, RollingBack, PastCommit, TypeOK
      <3> QED BY ONLY <3>2, <3>3
    <2>6. CASE AbortRead(r)
      <3>1. /\ UNCHANGED <<lifecycle, reserved, genCommitted, plan>>
            /\ pc[r] = "abort_read"
            /\ pc'[r] \in {"abort_put_back", "abort_fail"}
            /\ pc'[r] = "abort_fail" => ~InRestore(plan[r].ckpt)
        BY <1>0, <2>6 DEF ThreadTypes, BookTypes
      <3>2. Alone'
        <4>1. \A s \in Restores : Working(s)' => Working(s)
          BY ONLY <1>0, <2>0, <2>00, <3>1 DEF Working, BeforeCommit, RollingBack, PastCommit
        <4>2. \A s \in Restores : pc'[s] \in {"idle", "reserve"} => pc[s] \in {"idle", "reserve"}
          BY ONLY <2>0, <3>1
        <4> QED BY ONLY <1>0, <2>0, <3>1, <4>1, <4>2 DEF Alone, BookTypes
      <3>3. Attended'
        BY ONLY <1>0, <2>0, <2>00, <3>1
           DEF Attended, Outside, InRestore, BeforeCommit, RollingBack, PastCommit, TypeOK
      <3> QED BY ONLY <3>2, <3>3
    <2>7. CASE AbortPutBack(r)
      <3>1. /\ UNCHANGED <<reserved, genCommitted, plan>> /\ pc[r] = "abort_put_back"
            /\ pc'[r] = "abort_fail"
            /\ lifecycle' = [lifecycle EXCEPT ![plan[r].ckpt] = "AVAILABLE"]
        BY <1>0, <2>7 DEF ThreadTypes, BookTypes
      <3>2. Alone'
        <4>1. \A s \in Restores : Working(s)' => Working(s)
          BY ONLY <1>0, <2>0, <2>00, <3>1 DEF Working, BeforeCommit, RollingBack, PastCommit
        <4>2. \A s \in Restores : pc'[s] \in {"idle", "reserve"} => pc[s] \in {"idle", "reserve"}
          BY ONLY <2>0, <3>1
        <4> QED BY ONLY <1>0, <2>0, <3>1, <4>1, <4>2 DEF Alone, BookTypes
      <3>3. Attended'
        BY ONLY <1>0, <2>0, <2>00, <3>1
           DEF Attended, Outside, InRestore, BeforeCommit, RollingBack, PastCommit, TypeOK
      <3> QED BY ONLY <3>2, <3>3
    <2>8. CASE Release(r) \/ AbortRelease(r)
      <3>1. /\ UNCHANGED <<lifecycle, genCommitted, plan>> /\ pc[r] \in {"release", "abort_release"}
            /\ pc'[r] = "done" /\ reserved' = reserved \ {r}
        BY <1>0, <2>8 DEF ThreadTypes, BookTypes
      <3>2. Alone'
        BY ONLY <1>0, <2>0, <2>00, <3>1
           DEF Alone, Working, BeforeCommit, RollingBack, PastCommit, TypeOK
      <3>3. Attended'
        BY ONLY <1>0, <2>0, <2>00, <3>1
           DEF Attended, Outside, InRestore, BeforeCommit, RollingBack, PastCommit, TypeOK
      <3> QED BY ONLY <3>2, <3>3
    <2>9. CASE AbortCommitted(r)
      <3>1. /\ UNCHANGED <<lifecycle, reserved, genCommitted, plan>>
            /\ pc[r] = "abort_committed" /\ pc'[r] = "abort_release"
        BY <1>0, <2>9 DEF ThreadTypes, BookTypes
      <3>2. Alone'
        <4>1. \A s \in Restores : Working(s)' => Working(s)
          BY ONLY <1>0, <2>0, <2>00, <3>1 DEF Working, BeforeCommit, RollingBack, PastCommit
        <4>2. \A s \in Restores : pc'[s] \in {"idle", "reserve"} => pc[s] \in {"idle", "reserve"}
          BY ONLY <2>0, <3>1
        <4> QED BY ONLY <1>0, <2>0, <3>1, <4>1, <4>2 DEF Alone, BookTypes
      <3>3. Attended'
        BY ONLY <1>0, <2>0, <2>00, <3>1
           DEF Attended, Outside, InRestore, BeforeCommit, RollingBack, PastCommit, TypeOK
      <3> QED BY ONLY <3>2, <3>3
    <2>10. CASE /\ ~(RequestRestore(r) \/ Reserve(r) \/ AttemptBegin(r) \/ AbortFail(r))
                /\ ~(EnterPending(r) \/ EnterRestoring(r) \/ AbortRead(r) \/ AbortPutBack(r))
                /\ ~(Release(r) \/ AbortRelease(r) \/ AbortCommitted(r))
                /\ ~(RestoreCommit(r) /\ pc'[r] = "read")
      <3>1. /\ UNCHANGED <<lifecycle, reserved, genCommitted, plan, era>>
            /\ {pc[r], pc'[r]} \cap Outside = {}
        BY <1>0, <2>10 DEF ThreadTypes, Outside
      <3>2. Exclusive'
        BY ONLY <1>0, <2>0, <3>1, ExclusiveKept
      <3>3. Undisturbed'
        BY ONLY <3>1, Undisturbed DEF Undisturbed
      <3> QED BY ONLY <3>2, <3>3 DEF Exclusive
    <2> QED BY ONLY <2>1, <2>2, <2>3, <2>4, <2>5, <2>6, <2>7, <2>8, <2>9, <2>10
  <1>14. Planned'
    BY <1>0 DEF Planned, TypeOK, Live, Labels, WaitLabel, ThreadWaiting, Plans, NoPlan
  <1>15. TypeOK'
    BY ONLY <1>1, <1>2, <1>3, <1>4, <1>5
       DEF TypeOK, WorkTypes, BookTypes, ThreadTypes, RecoveryTypes, NodeTypes
  <1> QED BY ONLY <1>6, <1>7, <1>8, <1>9, <1>10, <1>11, <1>12, <1>13, <1>14, <1>15 DEF IInv,
      Separate

\* So does a call that fails, a failpoint, a store error or an expired reservation.
LEMMA ThreadFaultKeeps ==
    ASSUME IInv, NEW r \in Restores, ThreadFault(r)
    PROVE  IInv'
  <1>0. /\ TypeOK /\ Planned /\ Journalled /\ Issued /\ Separate /\ Closed /\ Owned /\ Exclusive
        /\ WorkTypes /\ BookTypes /\ ThreadTypes /\ RecoveryTypes /\ NodeTypes
    BY TypeParts DEF IInv
  <1> USE DEF ThreadFault, GiveUp, Failpoint, StoreError, ExpireReservation, Resumption,
      Goto, workVars, bookVars, threadVars, recVars, countVars, sideVars, nodeVars
  <1>1. WorkTypes'
    BY <1>0 DEF Plans, NoPlan, FreshToken, Idle, WorkTypes, BookTypes, ThreadTypes,
        RecoveryTypes, NodeTypes
  <1>2. BookTypes'
    BY <1>0 DEF LifecycleStates, WorkTypes, BookTypes, ThreadTypes, RecoveryTypes, NodeTypes
  <1>3. ThreadTypes'
    BY <1>0 DEF Labels, ExecLabels, AbortLabels, Grants, WaitLabel, ThreadWaiting, Live,
        FreshToken, Plans, WorkTypes, BookTypes, ThreadTypes, RecoveryTypes, NodeTypes
  <1>4. RecoveryTypes'
    BY <1>0 DEF RecLabels, WorkTypes, BookTypes, ThreadTypes, RecoveryTypes, NodeTypes
  <1>5. NodeTypes'
    BY <1>0 DEF Grants, NoGrant, Silent, Messages, FreshToken, WorkTypes, BookTypes,
        ThreadTypes, RecoveryTypes, NodeTypes
  <1>6. Journalled'
    BY <1>0 DEF Journalled, NoFalseRestore, PastCommit, TypeOK, WaitLabel, ThreadWaiting,
        RecWaiting, Live
  <1>7. Issued'
    BY <1>0 DEF Issued, TypeOK, FreshToken, NoGrant, Grants, Messages, ThreadWaiting,
        WaitLabel
  <1>8. "overlap" \notin Faults => SeparatedThreads'
    BY <1>0 DEF Separate, SeparatedThreads, SeparatedCalls, SeparatedRecovery, Doomed,
        Ended, BeforeCommit, RollingBack, Live, TypeOK, Messages, WaitLabel, ThreadWaiting
  <1>9. "overlap" \notin Faults => SeparatedRecovery'
    <2> SUFFICES ASSUME "overlap" \notin Faults PROVE SeparatedRecovery'
      OBVIOUS
    <2>0. SeparatedThreads /\ SeparatedRecovery /\ SeparatedCalls
      BY <1>0 DEF Separate
    <2>1. \A s \in Restores : (Ended(s) => Ended(s)') /\ (Doomed(s) => Doomed(s)')
      BY <1>0 DEF TypeOK, Ended, Doomed, RollingBack
    <2>2. UNCHANGED recVars
      OBVIOUS
    <2>3. \A s \in Restores : Ended(s) /\ s \notin genCommitted => s \notin genCommitted'
      BY <1>0 DEF TypeOK, Ended
    <2> QED BY ONLY <1>0, <2>0, <2>1, <2>2, <2>3 DEF SeparatedRecovery, recVars, TypeOK
  <1>10. "overlap" \notin Faults => SeparatedCalls'
    BY <1>0 DEF Separate, SeparatedThreads, SeparatedCalls, SeparatedRecovery, Doomed,
        Ended, BeforeCommit, RollingBack, Live, TypeOK, Messages, WaitLabel, ThreadWaiting
  <1>11. Closed'
    BY <1>0 DEF Closed, Undisturbed, TypeOK, Live, WaitLabel, ThreadWaiting, RecWaiting,
        Separate, SeparatedThreads
  <1>12. Owned'
    <2> SUFFICES ASSUME Undisturbed'
                 PROVE  OneOwner' /\ Unborn' /\ (token' # 0 => activeNode' # None)
      BY DEF Owned
    <2>0. Undisturbed /\ OneOwner /\ Unborn /\ (token # 0 => activeNode # None)
      BY <1>0 DEF Owned, Undisturbed
    <2>1. UNCHANGED <<token, activeNode, grant, plan, msgs, attached, claim>>
      OBVIOUS
    <2>2. \A s \in Restores : pc'[s] = "idle" => pc[s] = "idle"
      BY <1>0 DEF TypeOK
    <2> QED BY ONLY <2>0, <2>1, <2>2 DEF OneOwner, Unborn, Holds
  <1>13. Exclusive'
    <2> SUFFICES ASSUME Undisturbed PROVE Alone' /\ Attended'
      BY DEF Exclusive, Undisturbed
    <2>0. /\ Alone /\ Attended
          /\ pc[r] \in BeforeCommit \cup RollingBack => r \notin genCommitted
          /\ pc[r] \in PastCommit => r \in genCommitted
          /\ \A s \in Restores \ {r} : pc'[s] = pc[s]
      BY <1>0
         DEF Exclusive, Undisturbed, Separate, SeparatedThreads, Journalled, ThreadTypes
    <2>00. /\ \A s \in Restores : Live(s) <=> pc[s] \notin {"idle", "done", "dead"}
           /\ \A s \in Restores : Live(s)' <=> pc'[s] \notin {"idle", "done", "dead"}
      BY DEF Live
    <2>1. CASE GiveUp(r)
      <3>1. /\ UNCHANGED <<lifecycle, reserved, genCommitted, plan, era>>
            /\ pc[r] \in {"wait_restore", "wait_resume", "abort_cleanup"}
            /\ pc'[r] \in {"abort", "resumed", "abort_read"}
        BY <1>0, <2>1 DEF ThreadTypes, BookTypes, Outside
      <3>2. Alone'
        <4>1. \A s \in Restores : Working(s)' => Working(s)
          BY ONLY <1>0, <2>0, <2>00, <3>1 DEF Working, BeforeCommit, RollingBack, PastCommit
        <4>2. \A s \in Restores : pc'[s] \in {"idle", "reserve"} => pc[s] \in {"idle", "reserve"}
          BY ONLY <2>0, <3>1
        <4> QED BY ONLY <1>0, <2>0, <3>1, <4>1, <4>2 DEF Alone, BookTypes
      <3>3. Attended'
        BY ONLY <1>0, <2>0, <2>00, <3>1
           DEF Attended, Outside, InRestore, BeforeCommit, RollingBack, PastCommit, TypeOK
      <3> QED BY ONLY <3>2, <3>3
    <2>2. CASE Failpoint(r)
      <3>1. /\ UNCHANGED <<lifecycle, genCommitted, plan>> /\ pc'[r] = "abort"
            /\ pc[r] \in {"commit", "send_resume", "release"}
            /\ reserved' = IF pc[r] = "release" THEN reserved \ {r} ELSE reserved
        BY <1>0, <2>2 DEF ThreadTypes, BookTypes
      <3>2. Alone'
        BY ONLY <1>0, <2>0, <2>00, <3>1
           DEF Alone, Working, BeforeCommit, RollingBack, PastCommit, TypeOK
      <3>3. Attended'
        BY ONLY <1>0, <2>0, <2>00, <3>1
           DEF Attended, Outside, InRestore, BeforeCommit, RollingBack, PastCommit, TypeOK
      <3> QED BY ONLY <3>2, <3>3
    <2>3. CASE ExpireReservation(r)
      <3>1. /\ UNCHANGED <<lifecycle, genCommitted, plan, pc>> /\ ~Live(r)
            /\ reserved' = reserved \ {r}
        BY <1>0, <2>3 DEF ThreadTypes, BookTypes, Undisturbed
      <3>2. Alone'
        BY ONLY <1>0, <2>0, <2>00, <3>1
           DEF Alone, Working, BeforeCommit, RollingBack, PastCommit, TypeOK
      <3>3. Attended'
        BY ONLY <1>0, <2>0, <2>00, <3>1
           DEF Attended, Outside, InRestore, BeforeCommit, RollingBack, PastCommit, TypeOK
      <3> QED BY ONLY <3>2, <3>3
    <2> QED BY ONLY <2>1, <2>2, <2>3, ThreadFault(r), Undisturbed
           DEF ThreadFault, StoreError, Undisturbed
  <1>14. Planned'
    BY <1>0 DEF Planned, TypeOK, Live, Labels, WaitLabel, ThreadWaiting, Plans, NoPlan
  <1>15. TypeOK'
    BY ONLY <1>1, <1>2, <1>3, <1>4, <1>5
       DEF TypeOK, WorkTypes, BookTypes, ThreadTypes, RecoveryTypes, NodeTypes
  <1> QED BY ONLY <1>6, <1>7, <1>8, <1>9, <1>10, <1>11, <1>12, <1>13, <1>14, <1>15 DEF IInv,
      Separate

\* So do claims, registrations, heartbeats and the end of a node.
LEMMA NodeKeeps ==
    ASSUME IInv, NEW n \in Nodes, NodeFamily(n)
    PROVE  IInv'
  <1>0. /\ TypeOK /\ Planned /\ Journalled /\ Issued /\ Separate /\ Closed /\ Owned /\ Exclusive
        /\ WorkTypes /\ BookTypes /\ ThreadTypes /\ RecoveryTypes /\ NodeTypes
    BY TypeParts DEF IInv
  <1> USE DEF NodeFamily, AuthorityStep, AttachClaim, AttachInstall, AttachLost, Detach,
      NodeDetach, SweepMark, NodeStart, BeatStep, BeatSend, BeatJudge, BeatApply, BeatLost, NodeStops,
      WorkloadRelease, Revoke, workVars, bookVars, threadVars, recVars, countVars, sideVars,
      nodeVars
  <1>1. WorkTypes'
    BY <1>0 DEF Plans, NoPlan, FreshToken, Idle, WorkTypes, BookTypes, ThreadTypes,
        RecoveryTypes, NodeTypes
  <1>2. BookTypes'
    BY <1>0 DEF LifecycleStates, WorkTypes, BookTypes, ThreadTypes, RecoveryTypes, NodeTypes
  <1>3. ThreadTypes'
    BY <1>0 DEF Labels, ExecLabels, AbortLabels, Grants, WaitLabel, ThreadWaiting, Live,
        FreshToken, Plans, WorkTypes, BookTypes, ThreadTypes, RecoveryTypes, NodeTypes
  <1>4. RecoveryTypes'
    BY <1>0 DEF RecLabels, WorkTypes, BookTypes, ThreadTypes, RecoveryTypes, NodeTypes
  <1>5. NodeTypes'
    <2>1. alive' \subseteq Nodes /\ UNCHANGED provider /\ msgs' \subseteq msgs
      BY <1>0 DEF NodeTypes
    <2>2. nodeEra' \in [Nodes -> 0 .. 2]
      BY <1>0 DEF NodeTypes, WorkTypes
    <2>3. attached' \in [Nodes -> Grants]
      BY <1>0 DEF NodeTypes, NoGrant, Grants
    <2>4. claim' \in [Nodes -> Grants]
      BY <1>0 DEF NodeTypes, WorkTypes, NoGrant, Grants, FreshToken
    <2>5. beat' \in [Nodes -> [stage : {"none", "sent", "stale", "cut"}, grant : Grants]]
      <3>1. CASE BeatStep(n) \/ BeatLost(n) \/ NodeStops(n)
        BY <1>0, <3>1 DEF NodeTypes, NoGrant, Grants, Silent
      <3>2. CASE AuthorityStep(n) \/ NodeStart(n)
        <4>1. UNCHANGED beat
          BY <3>2
        <4> QED BY ONLY <1>0, <4>1 DEF NodeTypes
      <3> QED BY ONLY <3>1, <3>2, NodeFamily(n) DEF NodeFamily
    <2> QED BY ONLY <1>0, <2>1, <2>2, <2>3, <2>4, <2>5 DEF NodeTypes
  <1>6. Journalled'
    BY <1>0 DEF Journalled, NoFalseRestore, PastCommit, TypeOK, WaitLabel, ThreadWaiting,
        RecWaiting, Live
  <1>7. Issued'
    <2>1. grants \in Nat /\ grants' \in Nat /\ grants' >= grants /\ token' <= grants'
      BY <1>0 DEF Issued, WorkTypes, FreshToken
    <2>2. \A k \in Nodes : attached'[k] \in {attached[k], claim[k], NoGrant}
      BY <1>0 DEF NodeTypes
    <2>3. \A k \in Nodes : claim'[k] \in {claim[k], NoGrant} \/ claim'[k].token = grants'
      BY <1>0 DEF NodeTypes, FreshToken
    <2>4. UNCHANGED grant /\ msgs' \subseteq msgs
      OBVIOUS
    <2>5. \A k \in Nodes : /\ attached[k].token \in Nat /\ attached[k].token <= grants
                          /\ claim[k].token \in Nat /\ claim[k].token <= grants
      BY ONLY <1>0 DEF Issued, NodeTypes, Grants
    <2>6. NoGrant.token = 0
      BY DEF NoGrant
    <2>7. /\ \A s \in Restores : grant[s].token \in Nat /\ grant[s].token <= grants
          /\ \A m \in msgs : m.grant.token \in Nat /\ m.grant.token <= grants
      BY ONLY <1>0 DEF Issued, ThreadTypes, NodeTypes, Messages, Grants
    <2> QED BY ONLY <2>1, <2>2, <2>3, <2>4, <2>5, <2>6, <2>7 DEF Issued
  <1>8. "overlap" \notin Faults => SeparatedThreads'
    BY <1>0 DEF Separate, SeparatedThreads, SeparatedCalls, SeparatedRecovery, Doomed,
        Ended, BeforeCommit, RollingBack, Live, TypeOK, Messages, WaitLabel, ThreadWaiting
  <1>9. "overlap" \notin Faults => SeparatedRecovery'
    BY <1>0 DEF Separate, SeparatedThreads, SeparatedCalls, SeparatedRecovery, Doomed,
        Ended, BeforeCommit, RollingBack, Live, TypeOK, Messages, WaitLabel, ThreadWaiting,
        RecWaiting
  <1>10. "overlap" \notin Faults => SeparatedCalls'
    BY <1>0 DEF Separate, SeparatedThreads, SeparatedCalls, SeparatedRecovery, Doomed,
        Ended, BeforeCommit, RollingBack, Live, TypeOK, Messages, WaitLabel, ThreadWaiting
  <1>11. Closed'
    BY <1>0 DEF Closed, Undisturbed, TypeOK, Live, WaitLabel, ThreadWaiting, RecWaiting,
        Separate, SeparatedThreads
  <1>12. Owned'
    BY SMTT(30), <1>0, RestoreNoneAssumption DEF Owned, OneOwner, Unborn, Closed, Undisturbed,
            Holds,
        Issued, TypeOK, NoGrant, Grants, Messages, FreshToken, Plans, NoPlan, Live
  <1>13. Exclusive'
    <2>1. UNCHANGED <<lifecycle, reserved, genCommitted, plan, era>>
      OBVIOUS
    <2>2. \A s \in Restores : pc'[s] = pc[s] \/ {pc[s], pc'[s]} \cap Outside = {}
      BY <1>0 DEF TypeOK, Outside, ThreadWaiting, WaitLabel
    <2> QED BY ONLY <1>0, <2>1, <2>2, ExclusiveKept
  <1>14. Planned'
    BY <1>0 DEF Planned, TypeOK, Live, Labels, WaitLabel, ThreadWaiting, Plans, NoPlan
  <1>15. TypeOK'
    BY ONLY <1>1, <1>2, <1>3, <1>4, <1>5
       DEF TypeOK, WorkTypes, BookTypes, ThreadTypes, RecoveryTypes, NodeTypes
  <1> QED BY ONLY <1>6, <1>7, <1>8, <1>9, <1>10, <1>11, <1>12, <1>13, <1>14, <1>15 DEF IInv,
      Separate

\* So does a call that is handled by its node, or lost.
LEMMA MessageKeeps ==
    ASSUME IInv, NEW m \in msgs, MessageFamily(m)
    PROVE  IInv'
  <1>0. /\ TypeOK /\ Planned /\ Journalled /\ Issued /\ Separate /\ Closed /\ Owned /\ Exclusive
        /\ WorkTypes /\ BookTypes /\ ThreadTypes /\ RecoveryTypes /\ NodeTypes
    BY TypeParts DEF IInv
  <1> USE DEF MessageFamily, HandleStep, RefuseEra, ApplyRestore, ApplyFails, InstallGrant,
      RefuseGrant, CleanupRestore, LoseMessage, Handle, Answer, RecoveryReturns, Resumption,
      workVars, bookVars, threadVars, recVars, countVars, sideVars, nodeVars
  <1>1. WorkTypes'
    BY <1>0 DEF Plans, NoPlan, FreshToken, Idle, WorkTypes, BookTypes, ThreadTypes,
        RecoveryTypes, NodeTypes
  <1>2. BookTypes'
    BY <1>0 DEF LifecycleStates, WorkTypes, BookTypes, ThreadTypes, RecoveryTypes, NodeTypes
  <1>3. ThreadTypes'
    <2>1. UNCHANGED <<plan, grant>>
      OBVIOUS
    <2>2. pc' \in [Restores -> Labels]
      BY <1>0 DEF ThreadTypes, ThreadWaiting, WaitLabel, Labels, ExecLabels, AbortLabels
    <2>3. outcome' \in [Restores -> BOOLEAN]
      BY <1>0 DEF ThreadTypes
    <2> QED BY ONLY <1>0, <2>1, <2>2, <2>3 DEF ThreadTypes
  <1>4. RecoveryTypes'
    BY <1>0 DEF RecLabels, WorkTypes, BookTypes, ThreadTypes, RecoveryTypes, NodeTypes
  <1>5. NodeTypes'
    <2>1. UNCHANGED <<alive, nodeEra, claim, beat>> /\ msgs' \subseteq msgs
      OBVIOUS
    <2>2. provider' \in [Restores -> {"untouched", "applied", "rolled_back", "final"}]
      BY <1>0 DEF NodeTypes
    <2>3. m.grant \in Grants
      BY ONLY <1>0, m \in msgs DEF NodeTypes, Messages
    <2>4. attached' = attached \/ attached' = [attached EXCEPT ![plan[m.att].node] = m.grant]
      OBVIOUS
    <2>5. attached' \in [Nodes -> Grants]
      BY ONLY <1>0, <2>3, <2>4 DEF NodeTypes
    <2> QED BY ONLY <1>0, <2>1, <2>2, <2>5 DEF NodeTypes
  <1>6. Journalled'
    BY <1>0 DEF Journalled, NoFalseRestore, PastCommit, TypeOK, WaitLabel, ThreadWaiting,
        RecWaiting, Live
  <1>7. Issued'
    <2>1. UNCHANGED <<token, grants, claim, grant>> /\ msgs' \subseteq msgs
      OBVIOUS
    <2>2. attached' = attached \/ attached' = [attached EXCEPT ![plan[m.att].node] = m.grant]
      OBVIOUS
    <2> QED BY ONLY <1>0, <2>1, <2>2 DEF Issued, NodeTypes
  <1>8. "overlap" \notin Faults => SeparatedThreads'
    BY SMTT(30), <1>0 DEF Separate, SeparatedThreads, SeparatedCalls, SeparatedRecovery, Doomed,
        Ended, BeforeCommit, RollingBack, Live, TypeOK, Messages, WaitLabel, ThreadWaiting
  <1>9. "overlap" \notin Faults => SeparatedRecovery'
    <2> SUFFICES ASSUME "overlap" \notin Faults PROVE SeparatedRecovery'
      OBVIOUS
    <2>0. SeparatedRecovery
      BY <1>0 DEF Separate
    <2>1. UNCHANGED genCommitted
      OBVIOUS
    <2>2. \A s \in Restores : (Ended(s) => Ended(s)') /\ (Doomed(s) => Doomed(s)')
      BY <1>0 DEF TypeOK, Ended, Doomed, RollingBack, ThreadWaiting, WaitLabel
    <2>3. /\ recTodo' \subseteq recTodo /\ recActions' \subseteq recActions
          /\ recPc' \in {"get", "put_back", "finish_fail"} => UNCHANGED <<recPc, recCur>>
      OBVIOUS
    <2> QED BY ONLY <1>0, <2>0, <2>1, <2>2, <2>3 DEF SeparatedRecovery, RecoveryTypes
  <1>10. "overlap" \notin Faults => SeparatedCalls'
    <2> SUFFICES ASSUME "overlap" \notin Faults PROVE SeparatedCalls'
      OBVIOUS
    <2>0. SeparatedCalls
      BY <1>0 DEF Separate
    <2>1. UNCHANGED genCommitted /\ msgs' \subseteq msgs \ {m}
      OBVIOUS
    <2>2. \A s \in Restores : Doomed(s) => Doomed(s)'
      BY <1>0 DEF TypeOK, Doomed, RollingBack, ThreadWaiting, WaitLabel
    <2>3. \A s \in Restores : pc'[s] # pc[s] => m.att = s /\ pc[s] = WaitLabel(m)
      BY <1>0 DEF ThreadTypes, ThreadWaiting
    <2>4. WaitLabel(m) = "wait_restore" => m.op = "restore"
      BY <1>0 DEF NodeTypes, Messages, WaitLabel
    <2>5. \A k \in msgs : k.att \in Restores
      BY ONLY <1>0 DEF NodeTypes, Messages
    <2> QED BY ONLY <2>0, <2>1, <2>2, <2>3, <2>4, <2>5 DEF SeparatedCalls
  <1>11. Closed'
    BY <1>0 DEF Closed, Undisturbed, TypeOK, Live, WaitLabel, ThreadWaiting, RecWaiting,
        Separate, SeparatedThreads
  <1>12. Owned'
    <2> SUFFICES ASSUME Undisturbed'
                 PROVE  OneOwner' /\ Unborn' /\ (token' # 0 => activeNode' # None)
      BY DEF Owned
    <2>0. Undisturbed /\ OneOwner /\ Unborn /\ (token # 0 => activeNode # None)
      BY <1>0 DEF Owned, Undisturbed
    <2>1. UNCHANGED <<token, activeNode, grant, plan, claim>> /\ msgs' \subseteq msgs
      OBVIOUS
    <2>2. \A s \in Restores : pc'[s] = "idle" => pc[s] = "idle"
      BY <1>0 DEF ThreadTypes, ThreadWaiting, WaitLabel
    <2>3. attached' = attached \/ attached' = [attached EXCEPT ![plan[m.att].node] = m.grant]
      OBVIOUS
    <2>4. \A n \in Nodes, t \in Nat : Holds(n, t)' => Holds(n, t)
      BY ONLY <1>0, <2>1, <2>3, m \in msgs DEF Holds, NodeTypes
    <2> QED BY ONLY <2>0, <2>1, <2>2, <2>4 DEF OneOwner, Unborn
  <1>13. Exclusive'
    <2>1. UNCHANGED <<lifecycle, reserved, genCommitted, plan, era>>
      OBVIOUS
    <2>2. \A s \in Restores : pc'[s] = pc[s] \/ {pc[s], pc'[s]} \cap Outside = {}
      BY <1>0 DEF TypeOK, Outside, ThreadWaiting, WaitLabel
    <2> QED BY ONLY <1>0, <2>1, <2>2, ExclusiveKept
  <1>14. Planned'
    BY <1>0 DEF Planned, TypeOK, Live, Labels, WaitLabel, ThreadWaiting, Plans, NoPlan
  <1>15. TypeOK'
    BY ONLY <1>1, <1>2, <1>3, <1>4, <1>5
       DEF TypeOK, WorkTypes, BookTypes, ThreadTypes, RecoveryTypes, NodeTypes
  <1> QED BY ONLY <1>6, <1>7, <1>8, <1>9, <1>10, <1>11, <1>12, <1>13, <1>14, <1>15 DEF IInv,
      Separate

\* So do fence_workload and sweep_stale.
LEMMA ServerKeeps ==
    ASSUME IInv, ServerStep
    PROVE  IInv'
  <1>0. /\ TypeOK /\ Planned /\ Journalled /\ Issued /\ Separate /\ Closed /\ Owned /\ Exclusive
        /\ WorkTypes /\ BookTypes /\ ThreadTypes /\ RecoveryTypes /\ NodeTypes
    BY TypeParts DEF IInv
  <1> USE DEF ServerStep, FenceRead, FenceBump, FenceRelease, SweepRead, SweepBump,
      BumpFence, WorkloadRelease, Revoke, workVars, bookVars, threadVars, recVars,
      countVars, sideVars, nodeVars
  <1>1. WorkTypes'
    <2>1. /\ generation' \in Nat /\ epoch' \in Nat /\ token' \in Nat /\ grants' \in Nat
          /\ attaches' \in Nat /\ fences' \in Nat /\ era' \in {1, 2}
          /\ activeNode' \in Nodes \cup {None} /\ active' \subseteq Nodes
      BY <1>0 DEF WorkTypes
    <2>2. fencing' \in [stage : {"idle", "bump", "release"}, node : Nodes \cup {None}, epoch : Nat]
      BY <1>0 DEF WorkTypes, Idle
    <2>3. sweep' \in [stage : {"idle", "read", "bump"}, node : Nodes \cup {None}, epoch : Nat]
      <3>1. CASE SweepRead
        <4>1. sweep' = Idle \/ sweep' = [stage |-> "bump", node |-> sweep.node, epoch |-> epoch]
          BY <1>0, <3>1 DEF WorkTypes
        <4> QED BY ONLY <1>0, <4>1 DEF WorkTypes, Idle
      <3>2. CASE ~SweepRead
        BY <1>0, <3>2 DEF WorkTypes, Idle
      <3> QED BY ONLY <3>1, <3>2
    <2> QED BY ONLY <2>1, <2>2, <2>3 DEF WorkTypes
  <1>2. BookTypes'
    BY <1>0 DEF LifecycleStates, WorkTypes, BookTypes, ThreadTypes, RecoveryTypes, NodeTypes
  <1>3. ThreadTypes'
    BY <1>0 DEF Labels, ExecLabels, AbortLabels, Grants, WaitLabel, ThreadWaiting, Live,
        FreshToken, Plans, WorkTypes, BookTypes, ThreadTypes, RecoveryTypes, NodeTypes
  <1>4. RecoveryTypes'
    BY <1>0 DEF RecLabels, WorkTypes, BookTypes, ThreadTypes, RecoveryTypes, NodeTypes
  <1>5. NodeTypes'
    BY <1>0 DEF Grants, NoGrant, Silent, Messages, FreshToken, WorkTypes, BookTypes,
        ThreadTypes, RecoveryTypes, NodeTypes
  <1>6. Journalled'
    BY <1>0 DEF Journalled, NoFalseRestore, PastCommit, TypeOK, WaitLabel, ThreadWaiting,
        RecWaiting, Live
  <1>7. Issued'
    BY <1>0 DEF Issued, TypeOK, FreshToken, NoGrant, Grants, Messages, ThreadWaiting,
        WaitLabel
  <1>8. "overlap" \notin Faults => SeparatedThreads'
    BY <1>0 DEF Separate, SeparatedThreads, SeparatedCalls, SeparatedRecovery, Doomed,
        Ended, BeforeCommit, RollingBack, Live, TypeOK, Messages, WaitLabel, ThreadWaiting
  <1>9. "overlap" \notin Faults => SeparatedRecovery'
    BY <1>0 DEF Separate, SeparatedThreads, SeparatedCalls, SeparatedRecovery, Doomed,
        Ended, BeforeCommit, RollingBack, Live, TypeOK, Messages, WaitLabel, ThreadWaiting,
        RecWaiting
  <1>10. "overlap" \notin Faults => SeparatedCalls'
    BY <1>0 DEF Separate, SeparatedThreads, SeparatedCalls, SeparatedRecovery, Doomed,
        Ended, BeforeCommit, RollingBack, Live, TypeOK, Messages, WaitLabel, ThreadWaiting
  <1>11. Closed'
    BY <1>0 DEF Closed, Undisturbed, TypeOK, Live, WaitLabel, ThreadWaiting, RecWaiting,
        Separate, SeparatedThreads
  <1>12. Owned'
    BY <1>0, RestoreNoneAssumption DEF Owned, OneOwner, Unborn, Closed, Undisturbed, Holds,
        Issued, TypeOK, NoGrant, Grants, Messages, FreshToken, Plans, NoPlan, Live
  <1>13. Exclusive'
    <2>1. UNCHANGED <<lifecycle, reserved, genCommitted, plan, era, pc>>
      OBVIOUS
    <2> QED BY ONLY <1>0, <2>1, ExclusiveKept
  <1>14. Planned'
    BY <1>0 DEF Planned, TypeOK, Live, Labels, WaitLabel, ThreadWaiting, Plans, NoPlan
  <1>15. TypeOK'
    BY ONLY <1>1, <1>2, <1>3, <1>4, <1>5
       DEF TypeOK, WorkTypes, BookTypes, ThreadTypes, RecoveryTypes, NodeTypes
  <1> QED BY ONLY <1>6, <1>7, <1>8, <1>9, <1>10, <1>11, <1>12, <1>13, <1>14, <1>15 DEF IInv,
      Separate

\* So do reconcile and run_recovery.
LEMMA RecoveryKeeps ==
    ASSUME IInv, RecoveryStep
    PROVE  IInv'
  <1>0. /\ TypeOK /\ Planned /\ Journalled /\ Issued /\ Separate /\ Closed /\ Owned /\ Exclusive
        /\ WorkTypes /\ BookTypes /\ ThreadTypes /\ RecoveryTypes /\ NodeTypes
    BY TypeParts DEF IInv
  <1> USE DEF RecoveryStep, RecoveryStart, RecoveryGet, RecoveryPutBack, RecoveryFinish,
      RecoveryRelease, RecoveryDone, RecoveryError, RecoveryPick, RecoveryApply,
      RecoveryReturns, Send, workVars, bookVars, threadVars, recVars, countVars, sideVars,
      nodeVars
  <1>1. WorkTypes'
    BY <1>0 DEF Plans, NoPlan, FreshToken, Idle, WorkTypes, BookTypes, ThreadTypes,
        RecoveryTypes, NodeTypes
  <1>2. BookTypes'
    BY SMTT(30), <1>0 DEF LifecycleStates, WorkTypes, BookTypes, ThreadTypes, RecoveryTypes,
            NodeTypes
  <1>3. ThreadTypes'
    BY <1>0 DEF Labels, ExecLabels, AbortLabels, Grants, WaitLabel, ThreadWaiting, Live,
        FreshToken, Plans, WorkTypes, BookTypes, ThreadTypes, RecoveryTypes, NodeTypes
  <1>4. RecoveryTypes'
    BY <1>0 DEF RecLabels, WorkTypes, BookTypes, ThreadTypes, RecoveryTypes, NodeTypes
  <1>5. NodeTypes'
    BY <1>0 DEF Grants, NoGrant, Silent, Messages, FreshToken, WorkTypes, BookTypes,
        ThreadTypes, RecoveryTypes, NodeTypes
  <1>6. Journalled'
    BY <1>0 DEF Journalled, NoFalseRestore, PastCommit, TypeOK, WaitLabel, ThreadWaiting,
        RecWaiting, Live
  <1>7. Issued'
    BY <1>0 DEF Issued, TypeOK, FreshToken, NoGrant, Grants, Messages, ThreadWaiting,
        WaitLabel
  <1>8. "overlap" \notin Faults => SeparatedThreads'
    <2> SUFFICES ASSUME "overlap" \notin Faults PROVE SeparatedThreads'
      OBVIOUS
    <2>0. SeparatedThreads /\ SeparatedRecovery
      BY <1>0 DEF Separate
    <2>1. UNCHANGED <<pc, genCommitted, provider>>
      OBVIOUS
    <2>2. \A r \in Restores :
             \/ attempt'[r] = attempt[r]
             \/ /\ r = recCur /\ recPc \in {"finish_ok", "finish_fail"}
                /\ attempt'[r] = IF recPc = "finish_ok" THEN "COMMITTED" ELSE "FAILED"
      BY <1>0 DEF BookTypes
    <2>3. recPc = "finish_ok" => \A r \in Restores : r = recCur => r \in genCommitted
      BY ONLY <1>0 DEF Journalled
    <2> QED BY ONLY <2>0, <2>1, <2>2, <2>3
            DEF SeparatedThreads, SeparatedRecovery, Doomed, RollingBack, BeforeCommit
  <1>9. "overlap" \notin Faults => SeparatedRecovery'
    BY <1>0 DEF Separate, SeparatedThreads, SeparatedCalls, SeparatedRecovery, Doomed,
        Ended, BeforeCommit, RollingBack, Live, TypeOK, Messages, WaitLabel, ThreadWaiting,
        RecWaiting
  <1>10. "overlap" \notin Faults => SeparatedCalls'
    BY <1>0 DEF Separate, SeparatedThreads, SeparatedCalls, SeparatedRecovery, Doomed,
        Ended, BeforeCommit, RollingBack, Live, TypeOK, Messages, WaitLabel, ThreadWaiting
  <1>11. Closed'
    BY <1>0 DEF Closed, Undisturbed, TypeOK, Live, WaitLabel, ThreadWaiting, RecWaiting,
        Separate, SeparatedThreads
  <1>12. Owned'
    BY <1>0, RestoreNoneAssumption DEF Owned, OneOwner, Unborn, Closed, Undisturbed, Holds,
        Issued, TypeOK, NoGrant, Grants, Messages, FreshToken, Plans, NoPlan, Live
  <1>13. Exclusive'
    BY <1>0 DEF Exclusive, Alone, Attended, Outside, Closed, Undisturbed, Working,
        InRestore, TypeOK, Live
  <1>14. Planned'
    BY <1>0 DEF Planned, TypeOK, Live, Labels, WaitLabel, ThreadWaiting, Plans, NoPlan
  <1>15. TypeOK'
    BY ONLY <1>1, <1>2, <1>3, <1>4, <1>5
       DEF TypeOK, WorkTypes, BookTypes, ThreadTypes, RecoveryTypes, NodeTypes
  <1> QED BY ONLY <1>6, <1>7, <1>8, <1>9, <1>10, <1>11, <1>12, <1>13, <1>14, <1>15 DEF IInv,
      Separate

\* So does a restart of the coordinator.
LEMMA RestartKeeps ==
    ASSUME IInv, CoordinatorRestart
    PROVE  IInv'
  <1>0. /\ TypeOK /\ Planned /\ Journalled /\ Issued /\ Separate /\ Closed /\ Owned /\ Exclusive
        /\ WorkTypes /\ BookTypes /\ ThreadTypes /\ RecoveryTypes /\ NodeTypes
    BY TypeParts DEF IInv
  <1> USE DEF CoordinatorRestart, RecoveryReturns, workVars, bookVars, threadVars, recVars,
      countVars, sideVars, nodeVars
  <1>1. WorkTypes'
    BY <1>0 DEF Plans, NoPlan, FreshToken, Idle, WorkTypes, BookTypes, ThreadTypes,
        RecoveryTypes, NodeTypes
  <1>2. BookTypes'
    BY <1>0 DEF LifecycleStates, WorkTypes, BookTypes, ThreadTypes, RecoveryTypes, NodeTypes
  <1>3. ThreadTypes'
    BY <1>0 DEF Labels, ExecLabels, AbortLabels, Grants, WaitLabel, ThreadWaiting, Live,
        FreshToken, Plans, WorkTypes, BookTypes, ThreadTypes, RecoveryTypes, NodeTypes
  <1>4. RecoveryTypes'
    BY <1>0 DEF RecLabels, WorkTypes, BookTypes, ThreadTypes, RecoveryTypes, NodeTypes
  <1>5. NodeTypes'
    BY <1>0 DEF Grants, NoGrant, Silent, Messages, FreshToken, WorkTypes, BookTypes,
        ThreadTypes, RecoveryTypes, NodeTypes
  <1>6. Journalled'
    BY <1>0 DEF Journalled, NoFalseRestore, PastCommit, TypeOK, WaitLabel, ThreadWaiting,
        RecWaiting, Live
  <1>7. Issued'
    BY <1>0 DEF Issued, TypeOK, FreshToken, NoGrant, Grants, Messages, ThreadWaiting,
        WaitLabel
  <1>8. "overlap" \notin Faults => SeparatedThreads'
    BY <1>0 DEF Separate, SeparatedThreads, SeparatedCalls, SeparatedRecovery, Doomed,
        Ended, BeforeCommit, RollingBack, Live, TypeOK, Messages, WaitLabel, ThreadWaiting
  <1>9. "overlap" \notin Faults => SeparatedRecovery'
    BY <1>0 DEF Separate, SeparatedThreads, SeparatedCalls, SeparatedRecovery, Doomed,
        Ended, BeforeCommit, RollingBack, Live, TypeOK, Messages, WaitLabel, ThreadWaiting,
        RecWaiting
  <1>10. "overlap" \notin Faults => SeparatedCalls'
    BY <1>0 DEF Separate, SeparatedThreads, SeparatedCalls, SeparatedRecovery, Doomed,
        Ended, BeforeCommit, RollingBack, Live, TypeOK, Messages, WaitLabel, ThreadWaiting
  <1>11. Closed'
    BY <1>0 DEF Closed, Undisturbed, TypeOK, Live, WaitLabel, ThreadWaiting, RecWaiting,
        Separate, SeparatedThreads
  <1>12. Owned'
    BY <1>0, RestoreNoneAssumption DEF Owned, OneOwner, Unborn, Closed, Undisturbed, Holds,
        Issued, TypeOK, NoGrant, Grants, Messages, FreshToken, Plans, NoPlan, Live
  <1>13. Exclusive'
    BY <1>0 DEF Exclusive, Alone, Attended, Outside, Closed, Undisturbed, Working,
        InRestore, TypeOK, Live
  <1>14. Planned'
    BY <1>0 DEF Planned, TypeOK, Live, Labels, WaitLabel, ThreadWaiting, Plans, NoPlan
  <1>15. TypeOK'
    BY ONLY <1>1, <1>2, <1>3, <1>4, <1>5
       DEF TypeOK, WorkTypes, BookTypes, ThreadTypes, RecoveryTypes, NodeTypes
  <1> QED BY ONLY <1>6, <1>7, <1>8, <1>9, <1>10, <1>11, <1>12, <1>13, <1>14, <1>15 DEF IInv,
      Separate

\* Initially nothing is under way, and every part holds.
LEMMA InitIInv == Init => IInv
  <1> SUFFICES ASSUME Init PROVE IInv
    OBVIOUS
  <1>1. TypeOK
    BY
       DEF Init, TypeOK, LifecycleStates, Labels, ExecLabels, AbortLabels, RecLabels,
           NoPlan,
           NoGrant, Grants, Idle, Silent
  <1>2. Planned /\ Journalled /\ Issued
    BY DEF Init, Planned, Journalled, NoFalseRestore, PastCommit, Issued, NoGrant
  <1>3. Separate /\ Closed
    BY
       DEF Init, Separate, SeparatedThreads, SeparatedRecovery, SeparatedCalls, Closed,
           Doomed,
           Ended, BeforeCommit, RollingBack
  <1>4. Owned
    <2>1. OneOwner
      BY DEF Init, OneOwner, Holds, NoGrant
    <2> QED BY <2>1 DEF Init, Owned, Unborn
  <1>5. Exclusive
    BY DEF Init, Exclusive, Alone, Attended, Working, Live, InRestore
  <1> QED BY <1>1, <1>2, <1>3, <1>4, <1>5 DEF IInv

\* Every step keeps the invariant.
LEMMA StepIInv == IInv /\ [Next]_vars => IInv'
  <1> SUFFICES ASSUME IInv, [Next]_vars PROVE IInv'
    OBVIOUS
  <1>1. CASE UNCHANGED vars
    <2> USE <1>1 DEF vars, workVars, bookVars, threadVars, recVars, countVars, sideVars, nodeVars
    <2>1. TypeOK' /\ Planned' /\ Journalled' /\ Issued'
      BY DEF IInv, TypeOK, Planned, Journalled, NoFalseRestore, Issued
    <2>2. Separate' /\ Closed'
      BY DEF IInv, Separate, SeparatedThreads, SeparatedRecovery, SeparatedCalls, Doomed,
             Ended, Closed, Undisturbed
    <2>3. Owned'
      <3>1. UNCHANGED <<attached, claim, activeNode, token, plan, grant, msgs, pc, era>>
        OBVIOUS
      <3>2. \A n \in Nodes, t \in Nat : Holds(n, t)' => Holds(n, t)
        BY ONLY <3>1 DEF Holds
      <3>3. Owned
        BY DEF IInv
      <3> QED BY ONLY <3>1, <3>2, <3>3 DEF Owned, OneOwner, Unborn, Undisturbed
    <2>4. Exclusive'
      BY DEF IInv, Undisturbed, Exclusive, Alone, Attended, Working, Live, InRestore
    <2> QED BY <2>1, <2>2, <2>3, <2>4 DEF IInv
  <1>2. CASE Next
    BY <1>2, ThreadStepKeeps, ThreadFaultKeeps, NodeKeeps, MessageKeeps, ServerKeeps,
       RecoveryKeeps, RestartKeeps DEF Next, NodeFamily, MessageFamily
  <1> QED BY <1>1, <1>2

\* The workload row keeps its authority and its epoch, loses the authority, or gets a
\* fresh token.
LEMMA AuthorityMoves ==
    ASSUME TypeOK, [Next]_vars
    PROVE  \/ UNCHANGED <<activeNode, token, epoch>>
           \/ token' = 0 /\ activeNode' = None
           \/ token' = grants + 1
  <1>0. epoch \in Nat /\ pc \in [Restores -> Labels]
    BY TypeParts DEF WorkTypes, ThreadTypes
  <1> USE
       DEF workVars, bookVars, threadVars, recVars, countVars, sideVars, nodeVars,
           FreshToken
  <1>1. ASSUME NEW r \in Restores, ThreadStep(r) \/ ThreadFault(r)
        PROVE  \/ UNCHANGED <<activeNode, token, epoch>>
               \/ token' = grants + 1
    BY <1>0, <1>1
       DEF ThreadStep, RequestRestore, Reserve, AttemptBegin, EnterPending, Provision,
           EnterRestoring, JournalRestored, RestoreCommit, RestoreTx, ReadEpoch, SendResume,
           JournalResumed, Finish, Release, AbortStart, AbortCommitted, AbortRead,
           AbortPutBack, AbortFail, AbortRelease, AttemptStep, LifecycleStep, ReleaseStep,
           Goto, Send, ThreadFault, GiveUp, Failpoint, StoreError, ExpireReservation,
           Resumption, Goto
  <1>2. ASSUME NEW n \in Nodes, NodeFamily(n)
        PROVE  \/ UNCHANGED <<activeNode, token, epoch>>
               \/ token' = 0 /\ activeNode' = None
               \/ token' = grants + 1
    BY <1>2
       DEF NodeFamily, AuthorityStep, AttachClaim, AttachInstall, AttachLost, Detach,
           NodeDetach, SweepMark, NodeStart, BeatStep, BeatSend, BeatJudge, BeatApply, BeatLost,
           NodeStops, WorkloadRelease, Revoke
  <1>3. CASE ServerStep
    BY <1>3
       DEF ServerStep, FenceRead, FenceBump, FenceRelease, SweepRead, SweepBump, BumpFence,
           WorkloadRelease, Revoke
  <1>4. ASSUME NEW m \in msgs, MessageFamily(m) PROVE UNCHANGED <<activeNode, token, epoch>>
    BY <1>4
       DEF MessageFamily, HandleStep, RefuseEra, ApplyRestore, ApplyFails, InstallGrant,
           RefuseGrant, CleanupRestore, LoseMessage, Handle, Answer, RecoveryReturns,
           Resumption
  <1>5. CASE RecoveryStep \/ CoordinatorRestart \/ UNCHANGED vars
    BY <1>5
       DEF vars, CoordinatorRestart, RecoveryStep, RecoveryStart, RecoveryGet,
           RecoveryPutBack, RecoveryFinish, RecoveryRelease, RecoveryDone, RecoveryError,
           RecoveryPick, RecoveryApply, RecoveryReturns, Send
  <1> QED BY <1>1, <1>2, <1>3, <1>4, <1>5
          DEF Next, NodeFamily, MessageFamily

------------------------------------------------------------------------------
(* The epoch that goes with the current token *)

\* Grant g is held by a node, on its way to one, or about to be sent.
Carried(g) ==
    \/ \E n \in Nodes : g \in {attached[n], claim[n]}
    \/ \E m \in msgs : g = m.grant
    \/ \E r \in Restores : pc[r] = "send_resume" /\ g = grant[r]

\* Then, if its token is the current one, so is its epoch.
EpochFixed ==
    \A g \in Grants : Carried(g) /\ token # 0 /\ g.token = token => g.epoch = epoch

\* A grant is carried already, is empty, or has just been given the epoch of the row.
LEMMA GrantSources ==
    ASSUME TypeOK, [Next]_vars, NEW g \in Grants, Carried(g)'
    PROVE  Carried(g) \/ g.token = 0 \/ g.epoch = epoch'
  <1>0. ThreadTypes /\ NodeTypes
    BY TypeParts
  <1> USE DEF workVars, bookVars, threadVars, recVars, countVars, sideVars, nodeVars, NoGrant
  <1>1. ASSUME NEW r \in Restores, ThreadStep(r)
        PROVE  Carried(g) \/ g.token = 0 \/ g.epoch = epoch'
    <2> USE DEF ThreadStep, RequestRestore, Reserve, AttemptBegin, EnterPending, Provision,
           EnterRestoring, JournalRestored, RestoreCommit, RestoreTx, ReadEpoch, SendResume,
           JournalResumed, Finish, Release, AbortStart, AbortCommitted, AbortRead,
           AbortPutBack, AbortFail, AbortRelease, AttemptStep, LifecycleStep, ReleaseStep,
           Goto, Send
    <2>1. UNCHANGED <<attached, claim>>
      BY <1>1
    <2>2. \A m \in msgs' : m \in msgs \/ m.grant = NoGrant
                                      \/ (pc[r] = "send_resume" /\ m.grant = grant[r])
      BY <1>1
    <2>3. \A s \in Restores : pc'[s] = "send_resume" =>
              (pc[s] = "send_resume" /\ grant'[s] = grant[s]) \/ grant'[s].epoch = epoch'
      BY <1>0, <1>1 DEF ThreadTypes, Grants
    <2> QED BY ONLY <2>1, <2>2, <2>3, Carried(g)', r \in Restores DEF Carried, NoGrant
  <1>2. ASSUME NEW r \in Restores, ThreadFault(r) PROVE Carried(g)
    <2>1. UNCHANGED <<attached, claim, msgs, grant>>
      BY <1>2 DEF ThreadFault, GiveUp, Failpoint, StoreError, ExpireReservation
    <2>2. \A s \in Restores : pc'[s] = "send_resume" => pc[s] = "send_resume"
      BY <1>0, <1>2 DEF ThreadFault, GiveUp, Failpoint, StoreError, ExpireReservation, Goto,
         Resumption, ThreadTypes
    <2> QED BY ONLY <2>1, <2>2, Carried(g)' DEF Carried
  <1>3. ASSUME NEW n \in Nodes, NodeFamily(n)
        PROVE  Carried(g) \/ g.token = 0 \/ g.epoch = epoch'
    <2> USE DEF NodeFamily, AuthorityStep, AttachClaim, AttachInstall, AttachLost, Detach,
           NodeDetach, SweepMark, NodeStart, BeatStep, BeatSend, BeatJudge, BeatApply, BeatLost,
           NodeStops
    <2>1. UNCHANGED <<pc, grant>> /\ msgs' \subseteq msgs
      BY <1>3
    <2>2. \A k \in Nodes : attached'[k] \in {attached[k], claim[k], NoGrant}
      BY <1>0, <1>3 DEF NodeTypes
    <2>3. \A k \in Nodes : claim'[k] \in {claim[k], NoGrant} \/ claim'[k].epoch = epoch'
      BY <1>0, <1>3 DEF NodeTypes
    <2> QED BY ONLY <2>1, <2>2, <2>3, Carried(g)' DEF Carried, NoGrant
  <1>4. ASSUME NEW m \in msgs, MessageFamily(m) PROVE Carried(g)
    <2> USE DEF MessageFamily, HandleStep, RefuseEra, ApplyRestore, ApplyFails, InstallGrant,
           RefuseGrant, CleanupRestore, LoseMessage, Handle
    <2>1. UNCHANGED <<claim, grant>> /\ msgs' \subseteq msgs
      BY <1>4 DEF Answer
    <2>2. \A k \in Nodes : attached'[k] \in {attached[k], m.grant}
      BY <1>0, <1>4 DEF NodeTypes
    <2>3. \A s \in Restores : pc'[s] = "send_resume" => pc[s] = "send_resume"
      BY <1>0, <1>4 DEF Answer, Resumption, ThreadTypes
    <2> QED BY ONLY <2>1, <2>2, <2>3, Carried(g)', m \in msgs DEF Carried
  <1>5. CASE ServerStep \/ UNCHANGED vars
    <2>1. UNCHANGED <<attached, claim, msgs, grant, pc>>
      BY <1>5 DEF ServerStep, FenceRead, FenceBump, FenceRelease, SweepRead, SweepBump, vars
    <2> QED BY ONLY <2>1, Carried(g)' DEF Carried
  <1>6. CASE RecoveryStep
    <2>1. UNCHANGED <<attached, claim, pc, grant, epoch>>
      BY <1>6 DEF RecoveryStep, RecoveryStart, RecoveryGet, RecoveryPutBack, RecoveryFinish,
           RecoveryRelease, RecoveryDone, RecoveryError, RecoveryPick, RecoveryApply
    <2>2. \A m \in msgs' : m \in msgs \/ m.grant = NoGrant \/ m.grant.epoch = epoch
      BY <1>6 DEF RecoveryStep, RecoveryStart, RecoveryGet, RecoveryPutBack, RecoveryFinish,
           RecoveryRelease, RecoveryDone, RecoveryError, RecoveryPick, RecoveryApply, Send
    <2> QED BY ONLY <2>1, <2>2, Carried(g)' DEF Carried, NoGrant
  <1>7. CASE CoordinatorRestart
    <2>1. UNCHANGED <<attached, claim, msgs, grant>>
      BY <1>7 DEF CoordinatorRestart
    <2>2. \A s \in Restores : pc'[s] = "send_resume" => pc[s] = "send_resume"
      BY <1>0, <1>7 DEF CoordinatorRestart, ThreadTypes
    <2> QED BY ONLY <2>1, <2>2, Carried(g)' DEF Carried
  <1> QED BY <1>1, <1>2, <1>3, <1>4, <1>5, <1>6, <1>7 DEF Next, NodeFamily, MessageFamily

\* Every step keeps the epoch with the token.
LEMMA EpochKept ==
    ASSUME IInv, EpochFixed, [Next]_vars
    PROVE  EpochFixed'
  <1>0. TypeOK /\ Issued /\ grants \in Nat
    BY TypeParts DEF IInv, WorkTypes
  <1> SUFFICES ASSUME NEW g \in Grants, Carried(g)', token' # 0, g.token = token'
               PROVE  g.epoch = epoch'
    BY DEF EpochFixed
  <1>1. CASE g.epoch = epoch'
    BY <1>1
  <1>2. CASE Carried(g)
    <2>1. g.token <= grants
      BY <1>0, <1>2 DEF Carried, Issued
    <2>2. token' # grants + 1
      BY <1>0, <2>1 DEF Grants
    <2>3. UNCHANGED <<token, epoch>>
      BY <1>0, <2>2, AuthorityMoves
    <2> QED BY <1>2, <2>3 DEF EpochFixed
  <1> QED BY <1>0, <1>1, <1>2, GrantSources

------------------------------------------------------------------------------
(* The theorems *)

\* The inductive invariant the theorems below follow from.
THEOREM Inductive == Spec => []IInv
  BY InitIInv, StepIInv, PTL DEF Spec

\* Every variable has its type, under every combination of faults.
THEOREM RestoreTypes == Spec => []TypeOK
  <1>1. IInv => TypeOK
    BY DEF IInv
  <1> QED BY <1>1, Inductive, PTL

\* Whoever finishes the attempt of a restore, its thread, abort_restore_attempt or
\* reconcile, also beside one another: it is recorded as committed only when the target
\* has applied it and restore_commit has happened.
THEOREM TrueRestores == Spec => []NoFalseRestore
  <1>1. IInv => NoFalseRestore
    BY DEF IInv, Journalled
  <1> QED BY <1>1, Inductive, PTL

\* As long as recovery and reservation expiry keep away from running threads, an attempt
\* recorded as FAILED was not committed: with calls handled late, a coordinator that
\* crashes and store errors.
THEOREM FailuresAreUncommitted ==
    ASSUME "overlap" \notin Faults
    PROVE  Spec => []FailedRestoreNotCommitted
  <1>1. IInv => FailedRestoreNotCommitted
    BY DEF IInv, Separate, SeparatedThreads, Doomed, FailedRestoreNotCommitted
  <1> QED BY <1>1, Inductive, PTL

\* Under the same condition a committed restore is not undone on its target, although
\* restore and cleanup calls may be handled long after their caller gave up.
THEOREM CommitsStay ==
    ASSUME "overlap" \notin Faults
    PROVE  Spec => []CommittedStays
  <1>1. IInv => CommittedStays
    BY DEF IInv, TypeOK, Separate, SeparatedThreads, Doomed, CommittedStays
  <1> QED BY <1>1, Inductive, PTL

\* Without store errors, and until the coordinator crashes, every abort puts back the
\* checkpoint its restore began to move, whatever restores of it follow one another.
THEOREM AbortsRepair ==
    ASSUME "overlap" \notin Faults, "store" \notin Faults
    PROVE  Spec => []AbortsPutBack
  <1>1. IInv => AbortsPutBack
    <2> SUFFICES ASSUME IInv, era = 1, AtRest, NEW c \in Checkpoints PROVE ~InRestore(c)
      BY DEF AbortsPutBack, NotStuck
    <2>1. Attended
      BY DEF IInv, Exclusive, Undisturbed
    <2>2. \A r \in Restores : pc[r] \in Outside
      BY DEF AtRest, Live, Outside
    <2> QED BY <2>1, <2>2 DEF Attended
  <1> QED BY <1>1, Inductive, PTL

\* Under that condition the workload's current token is held, or is on its way, only to
\* the node the store names as active, for any number of nodes, claims, fences, sweeps
\* and restores.
THEOREM OneAuthority ==
    ASSUME "overlap" \notin Faults, "store" \notin Faults
    PROVE  Spec => [](era = 1 => AuthoritySingle)
  <1>1. IInv => (era = 1 => AuthoritySingle)
    <2> SUFFICES ASSUME IInv, era = 1, NEW n \in Nodes, token # 0,
                        attached[n].token = token \/ claim[n].token = token
                 PROVE  activeNode = n
      BY DEF AuthoritySingle
    <2>1. OneOwner /\ activeNode # None
      BY DEF IInv, Owned, Undisturbed
    <2>2. activeNode \in Nodes /\ token \in Nat
      BY <2>1, TypeParts DEF IInv, WorkTypes
    <2>3. Holds(n, token) /\ Holds(activeNode, token)
      BY DEF Holds
    <2> QED BY <2>1, <2>2, <2>3 DEF OneOwner
  <1> QED BY <1>1, Inductive, PTL

\* A grant the store no longer confirms is never confirmed again, under every
\* combination of faults: validate_fence accepts fresh tokens only.
THEOREM StaleIsFinal == Spec => StaleStaysStale
  <1>1. IInv /\ [Next]_vars =>
            [\A n \in Nodes :
               /\ attached[n] # NoGrant
               /\ attached'[n] = attached[n]
               /\ ~Confirms(n, attached[n])
               => ~Confirms(n, attached[n])']_vars
    <2> SUFFICES ASSUME IInv, [Next]_vars, NEW n \in Nodes, attached'[n] = attached[n],
                        ~Confirms(n, attached[n])
                 PROVE  ~Confirms(n, attached[n])'
      OBVIOUS
    <2>0. TypeOK /\ grants \in Nat /\ attached[n].token \in Nat /\ attached[n].token <= grants
      BY TypeParts DEF IInv, WorkTypes, NodeTypes, Grants, Issued
    <2>1. CASE UNCHANGED <<activeNode, token, epoch>>
      BY <2>1 DEF Confirms
    <2>2. CASE token' = 0 \/ token' = grants + 1
      BY <2>0, <2>2 DEF Confirms
    <2> QED BY <2>0, <2>1, <2>2, AuthorityMoves
  <1> QED BY <1>1, Inductive, PTL DEF Spec, StaleStaysStale

\* The current token comes with the current execution epoch wherever it is held or
\* on its way to, under every combination of faults: restore_commit and the reading of
\* the epoch are two calls, and whatever moves the epoch between them takes the token.
THEOREM EpochOfToken == Spec => []TokenFixesEpoch
  <1>1. Init => EpochFixed
    BY DEF Init, EpochFixed, Carried
  <1>2. IInv /\ EpochFixed /\ [Next]_vars => EpochFixed'
    BY EpochKept
  <1>3. IInv /\ EpochFixed => TokenFixesEpoch
    <2> SUFFICES ASSUME IInv, EpochFixed, NEW n \in Nodes, token # 0
                 PROVE  /\ attached[n].token = token => attached[n].epoch = epoch
                        /\ claim[n].token = token => claim[n].epoch = epoch
      BY DEF TokenFixesEpoch
    <2>1. attached[n] \in Grants /\ claim[n] \in Grants
      BY TypeParts DEF IInv, NodeTypes
    <2> QED BY <2>1 DEF EpochFixed, Carried
  <1> QED BY <1>1, <1>2, <1>3, Inductive, PTL DEF Spec
==============================================================================
