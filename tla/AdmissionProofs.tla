--------------------------- MODULE AdmissionProofs ---------------------------
(***************************************************************************)
(* Proofs about Admission, for every set of workloads, checkpoints, nodes   *)
(* and components, every policy and every input. What a restore reports is  *)
(* decided in three places: at the capture, at the admission and on the     *)
(* target. The invariant carries the evidence of each to the commit.        *)
(***************************************************************************)
EXTENDS Admission, FiniteSetTheorems, TLAPS

\* A request under way names a checkpoint and a node; an attach call a workload's row.
Named ==
    /\ req.pc # "idle" => req.ckpt \in Checkpoints /\ req.node \in Nodes
    /\ \A n \in Nodes : attaching[n] # NoAttach =>
          attaching[n].workload \in Workloads /\ workload[attaching[n].workload] # None

\* The class in a checkpoint's row is backed by the capture's evidence.
CaptureEvidence(row) ==
    /\ AtLeast(row.class, "DEGRADED") =>
          row.ack /\ row.quiescence = "COOPERATIVE" /\ row.frontier # None
    /\ AtLeast(row.class, "EQUIVALENT") =>
          ExactEffects(row.effects) /\ ~row.frontier.unresolved
    /\ row.class = "EXACT" => row.frontier.verified /\ row.frontier.exact

RowsBacked == \A c \in Checkpoints : ckpt[c] # None => CaptureEvidence(ckpt[c])

\* The verdict of an admitted request is the one on the target it was judged by, and a
\* request that was applied has put back what is required.
Judged ==
    /\ req.pc \in {"admitted", "applied", "committed"} =>
          req.verdict = Evaluate(ckpt[req.ckpt].comps, req.target)
    /\ req.pc \in {"applied", "committed"} =>
          ckpt[req.ckpt].comps \cap Required \subseteq req.applied
    /\ req.pc = "committed" =>
          req.class = RestoredResumability(ckpt[req.ckpt].class, req.verdict, req.resumed)

\* FORKED_FROM records and child rows belong together, one to one.
Linked ==
    /\ \A l \in lineage :
          /\ workload[l.child] # None
          /\ workload[l.child].parent = l.parent
          /\ workload[l.parent] # None
          /\ workload[l.child].forkGen = workload[l.parent].forkGen + 1
          /\ ckpt[l.ckpt] # None
          /\ ckpt[l.ckpt].workload = l.parent
    /\ \A w \in Workloads : workload[w] # None /\ workload[w].parent # None =>
          \E l \in lineage : l.child = w
    /\ \A l, k \in lineage : l.child = k.child => l = k

IInv == TypeOK /\ Named /\ RowsBacked /\ Judged /\ Linked

------------------------------------------------------------------------------
(* The operators *)

\* evaluate returns a verdict no point of which is worse.
LEMMA EvaluateWorst ==
    ASSUME NEW comps, NEW target
    PROVE  LET raised == {"COMPATIBLE"} \cup {DimensionVerdict(d) : d \in target.mismatch}
                             \cup {HandlerVerdict(k) : k \in Unlisted(comps, target)}
           IN  /\ Evaluate(comps, target) \in raised
               /\ raised \subseteq DOMAIN VerdictRank
               /\ \A u \in raised : VerdictRank[u] <= VerdictRank[Evaluate(comps, target)]
  <1> DEFINE raised == {"COMPATIBLE"} \cup {DimensionVerdict(d) : d \in target.mismatch}
                           \cup {HandlerVerdict(k) : k \in Unlisted(comps, target)}
  <1>1. raised \subseteq {"COMPATIBLE", "TRANSLATION", "DEGRADED", "INCOMPATIBLE"}
    BY DEF DimensionVerdict, HandlerVerdict
  <1>2. "COMPATIBLE" \in raised
    OBVIOUS
  <1> HIDE DEF raised
  <1>3. \E v \in raised : \A u \in raised : VerdictRank[u] <= VerdictRank[v]
    <2>1. CASE "INCOMPATIBLE" \in raised
      BY <1>1, <2>1 DEF VerdictRank
    <2>2. CASE "INCOMPATIBLE" \notin raised /\ "DEGRADED" \in raised
      BY <1>1, <2>2 DEF VerdictRank
    <2>3. CASE /\ "INCOMPATIBLE" \notin raised /\ "DEGRADED" \notin raised
               /\ "TRANSLATION" \in raised
      BY <1>1, <2>3 DEF VerdictRank
    <2>4. CASE /\ "INCOMPATIBLE" \notin raised /\ "DEGRADED" \notin raised
               /\ "TRANSLATION" \notin raised
      <3>1. raised = {"COMPATIBLE"}
        BY <1>1, <1>2, <2>4
      <3> QED BY <3>1 DEF VerdictRank
    <2> QED BY <2>1, <2>2, <2>3, <2>4
  <1>4. Evaluate(comps, target) =
            CHOOSE v \in raised : \A u \in raised : VerdictRank[u] <= VerdictRank[v]
    BY DEF Evaluate, raised
  <1>5. /\ Evaluate(comps, target) \in raised
        /\ \A u \in raised : VerdictRank[u] <= VerdictRank[Evaluate(comps, target)]
    BY <1>3, <1>4
  <1> QED BY <1>1, <1>5 DEF raised, VerdictRank

\* What the verdicts better than DEGRADED say of the target.
LEMMA VerdictMeaning ==
    ASSUME NEW comps, NEW target, target.mismatch \subseteq Dimensions
    PROVE  /\ Evaluate(comps, target) \in DOMAIN VerdictRank
           /\ Evaluate(comps, target) \in {"COMPATIBLE", "TRANSLATION"} =>
                 /\ target.mismatch \subseteq {"os", "arch"}
                 /\ Unlisted(comps, target) = {}
           /\ Evaluate(comps, target) = "COMPATIBLE" => target.mismatch = {}
  <1> DEFINE v == Evaluate(comps, target)
  <1>0. /\ v \in DOMAIN VerdictRank
        /\ \A d \in target.mismatch : VerdictRank[DimensionVerdict(d)] <= VerdictRank[v]
        /\ \A k \in Unlisted(comps, target) : VerdictRank[HandlerVerdict(k)] <= VerdictRank[v]
    BY EvaluateWorst
  <1> HIDE DEF v
  <1>1. \A d \in Dimensions : VerdictRank[DimensionVerdict(d)] >= 1
    BY DEF Dimensions, DimensionVerdict, VerdictRank
  <1>4. ASSUME v = "COMPATIBLE" PROVE target.mismatch = {}
    BY <1>0, <1>1, <1>4 DEF VerdictRank, Dimensions, DimensionVerdict
  <1>5. ASSUME v \in {"COMPATIBLE", "TRANSLATION"}
        PROVE  target.mismatch \subseteq {"os", "arch"} /\ Unlisted(comps, target) = {}
    <2>1. VerdictRank[v] \in {0, 1}
      BY <1>5 DEF VerdictRank
    <2>2. \A d \in Dimensions \ {"os", "arch"} : VerdictRank[DimensionVerdict(d)] \in {2, 3}
      BY DEF Dimensions, DimensionVerdict, VerdictRank
    <2>3. \A k : VerdictRank[HandlerVerdict(k)] \in {2, 3}
      BY DEF HandlerVerdict, VerdictRank
    <2>4. Unlisted(comps, target) = {}
      BY <1>0, <2>1, <2>3
    <2>5. target.mismatch \subseteq {"os", "arch"}
      BY <1>0, <2>1, <2>2
    <2> QED BY <2>4, <2>5
  <1> QED BY <1>0, <1>4, <1>5 DEF v

\* derive_resumability claims a class only with its evidence.
LEMMA CaptureClaims ==
    ASSUME NEW q \in CaptureOptions, NEW ack \in BOOLEAN,
           ack => q.quiescence = "COOPERATIVE"
    PROVE  LET achieved == DeriveConsistency(q.consistency, q.quiescence, q.frontier, ack)
               class == DeriveResumability(achieved, q.frontier, q.effects)
           IN  /\ achieved \in Consistencies
               /\ class \in Classes
               /\ AtLeast(class, "DEGRADED") =>
                     ack /\ q.quiescence = "COOPERATIVE" /\ q.frontier # None
               /\ AtLeast(class, "EQUIVALENT") =>
                     ExactEffects(q.effects) /\ ~q.frontier.unresolved
               /\ class = "EXACT" => q.frontier.verified /\ q.frontier.exact
  <1> DEFINE achieved == DeriveConsistency(q.consistency, q.quiescence, q.frontier, ack)
             class == DeriveResumability(achieved, q.frontier, q.effects)
  <1>1. /\ achieved \in Consistencies
        /\ achieved = "EXECUTION" => ack /\ q.quiescence = "COOPERATIVE" /\ q.frontier # None
    BY DEF DeriveConsistency, Consistencies
  <1> HIDE DEF achieved
  <1>2. /\ class \in {"RESTART_FROM_CHECKPOINT", "DEGRADED", "EQUIVALENT", "EXACT"}
        /\ class # "RESTART_FROM_CHECKPOINT" => achieved = "EXECUTION" /\ q.frontier # None
    BY DEF DeriveResumability
  <1>3. class \in {"EQUIVALENT", "EXACT"} =>
            ExactEffects(q.effects) /\ ~q.frontier.unresolved
    BY DEF DeriveResumability
  <1>4. class = "EXACT" => q.frontier.verified /\ q.frontier.exact
    BY DEF DeriveResumability
  <1> HIDE DEF class
  <1>5. /\ class \in Classes
        /\ AtLeast(class, "DEGRADED") => class # "RESTART_FROM_CHECKPOINT"
        /\ AtLeast(class, "EQUIVALENT") => class \in {"EQUIVALENT", "EXACT"}
    BY <1>2 DEF Classes, ClassRank, AtLeast
  <1> QED BY <1>1, <1>2, <1>3, <1>4, <1>5 DEF achieved, class

\* restored_resumability never raises the captured class, keeps at most a restart
\* without a resume, and lowers it by the verdict.
LEMMA RestoreClaims ==
    ASSUME NEW captured \in Classes, NEW verdict \in DOMAIN VerdictRank, NEW resumed \in BOOLEAN
    PROVE  LET class == RestoredResumability(captured, verdict, resumed)
           IN  /\ class \in Classes
               /\ AtLeast(captured, class)
               /\ AtLeast(class, "DEGRADED") => resumed
               /\ AtLeast(class, "EQUIVALENT") => verdict \in {"COMPATIBLE", "TRANSLATION"}
               /\ class = "EXACT" => verdict = "COMPATIBLE" /\ captured = "EXACT"
  BY DEF RestoredResumability, Classes, ClassRank, AtLeast, VerdictRank

------------------------------------------------------------------------------
(* The invariant *)

\* The initial state satisfies the invariant.
LEMMA InitIInv == Init => IInv
  <1> SUFFICES ASSUME Init PROVE IInv
    OBVIOUS
  <1>1. Idle \in Requests
    BY DEF Idle, Requests, NoTarget, Targets, Actors, VerdictRank, Classes, ClassRank
  <1>2. TypeOK
    BY <1>1, AdmissionBoundAssumption, AdmissionNoneAssumption, AdmissionInputsAssumption
       DEF Init, TypeOK, NoAttach, LifecycleStates, Idle
  <1>3. Named /\ RowsBacked /\ Judged /\ Linked
    BY DEF Init, Named, RowsBacked, Judged, Linked, Idle, NoAttach
  <1> QED BY <1>2, <1>3 DEF IInv

\* No row is None, and a row is kept whole by a change of its node.
LEMMA Rows ==
    /\ \A row \in WorkloadRows : row # None
    /\ \A row \in CheckpointRows : row # None
    /\ \A row \in WorkloadRows, n \in Nodes \cup {None} :
          /\ [row EXCEPT !.node = n] \in WorkloadRows
          /\ [row EXCEPT !.node = n].parent = row.parent
          /\ [row EXCEPT !.node = n].forkGen = row.forkGen
  <1>1. /\ \A row \in WorkloadRows : row # None
        /\ \A row \in CheckpointRows : row # None
    BY AdmissionNoneAssumption
  <1>2. \A row \in WorkloadRows, n \in Nodes \cup {None} :
          /\ [row EXCEPT !.node = n] \in WorkloadRows
          /\ [row EXCEPT !.node = n].parent = row.parent
          /\ [row EXCEPT !.node = n].forkGen = row.forkGen
    BY DEF WorkloadRows
  <1> QED BY <1>1, <1>2

\* A step that changes of the workloads' rows at most the node: same rows, same
\* parents, same fork generations.
SameFamily ==
    /\ workload' \in [Workloads -> WorkloadRows \cup {None}]
    /\ \A w \in Workloads :
          /\ workload'[w] = None <=> workload[w] = None
          /\ workload[w] # None => /\ workload'[w].parent = workload[w].parent
                                  /\ workload'[w].forkGen = workload[w].forkGen

\* A change of the claim of one workload is such a step.
LEMMA SetNode ==
    ASSUME TypeOK, NEW w \in Workloads, workload[w] # None, NEW n \in Nodes \cup {None},
           workload' = [workload EXCEPT ![w].node = n]
    PROVE  SameFamily
  <1>1. workload[w] \in WorkloadRows
    BY DEF TypeOK
  <1>2. workload' = [workload EXCEPT ![w] = [workload[w] EXCEPT !.node = n]]
    OBVIOUS
  <1> QED BY <1>1, <1>2, Rows DEF SameFamily, TypeOK

\* So is a step that leaves the rows alone.
LEMMA SameRows ==
    ASSUME TypeOK, UNCHANGED workload
    PROVE  SameFamily
  BY DEF TypeOK, SameFamily

\* A step that leaves the checkpoints and the lineage alone, and keeps the workloads'
\* families, keeps the links.
LEMMA LinkedKept ==
    ASSUME TypeOK, Linked, SameFamily, UNCHANGED <<lineage, ckpt>>
    PROVE  Linked'
  BY DEF Linked, SameFamily, TypeOK

\* So do the evidence of the rows, and what is known of a request that goes on.
LEMMA EvidenceKept ==
    ASSUME RowsBacked, Judged, UNCHANGED <<policy, ckpt, req>>
    PROVE  RowsBacked' /\ Judged'
  BY DEF RowsBacked, Judged, Evaluate, DimensionVerdict

\* create_workload adds a row without a parent.
LEMMA CreateStep == IInv /\ CreateWorkload => IInv'
  <1> SUFFICES ASSUME IInv, CreateWorkload PROVE IInv'
    OBVIOUS
  <1>0. TypeOK /\ Named /\ RowsBacked /\ Judged /\ Linked
    BY DEF IInv
  <1>1. PICK w \in Workloads, n \in Nodes \cup {None} :
            /\ workload[w] = None
            /\ workload' = [workload EXCEPT ![w] = [parent |-> None, forkGen |-> 0, node |-> n]]
    BY DEF CreateWorkload
  <1> DEFINE row == [parent |-> None, forkGen |-> 0, node |-> n]
  <1>2. row \in WorkloadRows /\ row # None /\ row.parent = None
    BY Rows DEF WorkloadRows
  <1> HIDE DEF row
  <1>3. /\ workload' \in [Workloads -> WorkloadRows \cup {None}]
        /\ workload'[w] = row
        /\ \A v \in Workloads \ {w} : workload'[v] = workload[v]
    BY <1>0, <1>1, <1>2 DEF TypeOK, row
  <1>4. events' \in 0 .. MaxEvents
    BY <1>0, AdmissionBoundAssumption DEF CreateWorkload, CountEvent, TypeOK
  <1> USE DEF CreateWorkload, rowVars, nodeVars
  <1>5. TypeOK'
    BY <1>0, <1>1, <1>2, <1>3, <1>4 DEF TypeOK, WorkloadRows, CheckpointRows
  <1>6. Named'
    BY <1>0, <1>2, <1>3 DEF Named
  <1>7. RowsBacked' /\ Judged'
    BY <1>0, EvidenceKept
  <1>8. Linked'
    BY <1>0, <1>1, <1>2, <1>3 DEF Linked, TypeOK
  <1> QED BY <1>5, <1>6, <1>7, <1>8 DEF IInv

\* fork adds a row and its record together.
LEMMA ForkStep == IInv /\ Fork => IInv'
  <1> SUFFICES ASSUME IInv, Fork PROVE IInv'
    OBVIOUS
  <1>0. TypeOK /\ Named /\ RowsBacked /\ Judged /\ Linked
    BY DEF IInv
  <1>1. PICK c \in Checkpoints, w \in Workloads :
            /\ ckpt[c] # None
            /\ workload[w] = None
            /\ LET parent == ckpt[c].workload
               IN  /\ workload' = [workload EXCEPT ![w] =
                                      [parent |-> parent, node |-> None,
                                       forkGen |-> workload[parent].forkGen + 1]]
                   /\ lineage' = lineage \cup {[child |-> w, parent |-> parent, ckpt |-> c]}
    BY DEF Fork
  <1> DEFINE p == ckpt[c].workload
             row == [parent |-> p, node |-> None, forkGen |-> workload[p].forkGen + 1]
             new == [child |-> w, parent |-> p, ckpt |-> c]
  <1>2. p \in Workloads /\ workload[p] \in WorkloadRows /\ workload[p] # None /\ p # None
    BY <1>0, <1>1, AdmissionNoneAssumption DEF TypeOK, CheckpointRows
  <1>3. row \in WorkloadRows /\ row # None /\ row.parent = p
        /\ row.forkGen = workload[p].forkGen + 1
    BY <1>2, Rows DEF WorkloadRows
  <1>4. /\ new \in [child : Workloads, parent : Workloads, ckpt : Checkpoints]
        /\ new.child = w /\ new.parent = p /\ new.ckpt = c
    BY <1>2
  <1>5. workload' = [workload EXCEPT ![w] = row] /\ lineage' = lineage \cup {new}
    BY <1>1
  <1>5a. ckpt[c].workload = p
    OBVIOUS
  <1> HIDE DEF row, new, p
  <1>6. /\ workload' \in [Workloads -> WorkloadRows \cup {None}]
        /\ workload'[w] = row
        /\ \A v \in Workloads \ {w} : workload'[v] = workload[v]
    BY <1>0, <1>3, <1>5 DEF TypeOK
  <1>7. events' \in 0 .. MaxEvents
    BY <1>0, AdmissionBoundAssumption DEF Fork, CountEvent, TypeOK
  <1> USE DEF Fork, rowVars, nodeVars
  <1>8. TypeOK'
    BY <1>0, <1>1, <1>2, <1>3, <1>4, <1>5, <1>6, <1>7 DEF TypeOK, WorkloadRows, CheckpointRows
  <1>9. Named'
    BY <1>0, <1>3, <1>6 DEF Named
  <1>10. RowsBacked' /\ Judged'
    BY <1>0, EvidenceKept
  <1>11. Linked'
    <2>1. w # p
      BY <1>1, <1>2
    <2>2. ASSUME NEW l \in lineage'
          PROVE  /\ workload'[l.child] # None
                 /\ workload'[l.child].parent = l.parent
                 /\ workload'[l.parent] # None
                 /\ workload'[l.child].forkGen = workload'[l.parent].forkGen + 1
                 /\ ckpt'[l.ckpt] # None
                 /\ ckpt'[l.ckpt].workload = l.parent
      <3>1. CASE l = new
        BY <1>1, <1>2, <1>3, <1>4, <1>5a, <1>6, <2>1, <3>1
      <3>2. CASE l \in lineage
        BY <1>0, <1>1, <1>6, <3>2 DEF Linked, TypeOK
      <3> QED BY <1>5, <2>2, <3>1, <3>2
    <2>3. \A v \in Workloads : workload'[v] # None /\ workload'[v].parent # None =>
              \E l \in lineage' : l.child = v
      BY <1>0, <1>4, <1>5, <1>6 DEF Linked
    <2>4. \A l, k \in lineage' : l.child = k.child => l = k
      BY <1>0, <1>1, <1>4, <1>5 DEF Linked
    <2> QED BY <2>2, <2>3, <2>4 DEF Linked
  <1> QED BY <1>8, <1>9, <1>10, <1>11 DEF IInv

\* The steps of a node, of its registration and of its claims.
NodeOrClaimStep ==
    \/ \E n \in Nodes : \/ AttachHost(n) \/ AttachClaim(n) \/ DetachHost(n) \/ Heartbeat(n)
                        \/ NodeDies(n) \/ Sweep(n) \/ NodeRegister(n)
    \/ \E w \in Workloads : ReleaseClaim(w)

\* They change claims, rows of nodes and providers, which the evidence does not rest on.
LEMMA NodeOrClaimKeeps == IInv /\ NodeOrClaimStep => IInv'
  <1> SUFFICES ASSUME IInv, NodeOrClaimStep PROVE IInv'
    OBVIOUS
  <1> USE DEF storeVars, rowVars, nodeVars
  <1>0. TypeOK /\ Named /\ RowsBacked /\ Judged /\ Linked
    BY DEF IInv
  <1>1. UNCHANGED <<policy, lineage, ckpt, lifecycle, req>>
    BY DEF NodeOrClaimStep, AttachHost, AttachClaim, DetachHost, Heartbeat, NodeDies, Sweep,
           NodeRegister, ReleaseClaim
  <1>2. SUFFICES /\ SameFamily
                 /\ active' \subseteq Nodes /\ alive' \subseteq Nodes
                 /\ mismatch' \in [Nodes -> SUBSET Dimensions]
                 /\ advert' \in [Nodes -> SUBSET Handlers]
                 /\ hosted' \in [Nodes -> SUBSET (Workloads \X Components)]
                 /\ attaching' \in [Nodes -> [workload : Workloads \cup {None},
                                             offers : SUBSET Components]]
                 /\ events' \in 0 .. MaxEvents
                 /\ \A n \in Nodes : attaching'[n] # NoAttach =>
                       /\ attaching'[n].workload \in Workloads
                       /\ workload[attaching'[n].workload] # None
    <2>1. TypeOK'
      BY <1>0, <1>1, <1>2 DEF TypeOK, SameFamily, WorkloadRows, CheckpointRows
    <2>2. Named'
      BY <1>0, <1>1, <1>2 DEF Named, SameFamily
    <2>3. RowsBacked' /\ Judged' /\ Linked'
      BY <1>0, <1>1, <1>2, EvidenceKept, LinkedKept
    <2> QED BY <2>1, <2>2, <2>3 DEF IInv
  <1>3. ASSUME CountEvent PROVE events' \in 0 .. MaxEvents
    BY <1>0, <1>3, AdmissionBoundAssumption DEF CountEvent, TypeOK
  <1>4. NoAttach \in [workload : Workloads \cup {None}, offers : SUBSET Components]
    BY DEF NoAttach
  <1>5. ASSUME NEW n \in Nodes, AttachHost(n) PROVE <1>2!1
    <2>1. PICK w \in Workloads, offers \in Offers :
             /\ workload[w] # None
             /\ hosted' = [hosted EXCEPT ![n] = @ \cup ({w} \X offers)]
             /\ attaching' = [attaching EXCEPT ![n] = [workload |-> w, offers |-> offers]]
      BY <1>5 DEF AttachHost
    <2>2. offers \subseteq Components
      BY AdmissionInputsAssumption
    <2>3. hosted' \in [Nodes -> SUBSET (Workloads \X Components)]
      BY <1>0, <2>1, <2>2 DEF TypeOK
    <2>4. attaching' \in [Nodes -> [workload : Workloads \cup {None}, offers : SUBSET Components]]
      BY <1>0, <2>1, <2>2 DEF TypeOK
    <2>5. \A k \in Nodes : attaching'[k] # NoAttach =>
             attaching'[k].workload \in Workloads /\ workload[attaching'[k].workload] # None
      BY <1>0, <2>1 DEF TypeOK, Named
    <2> QED BY <1>0, <1>3, <1>5, <2>3, <2>4, <2>5, SameRows DEF AttachHost, TypeOK
  <1>6. ASSUME NEW n \in Nodes, AttachClaim(n) PROVE <1>2!1
    <2>1. attaching[n].workload \in Workloads /\ workload[attaching[n].workload] # None
          /\ attaching[n].offers \subseteq Components
      BY <1>0, <1>6 DEF AttachClaim, Named, TypeOK
    <2>2. attaching' \in [Nodes -> [workload : Workloads \cup {None}, offers : SUBSET Components]]
      BY <1>0, <1>4, <1>6 DEF AttachClaim, TypeOK
    <2>3. \A k \in Nodes : attaching'[k] # NoAttach =>
             attaching'[k].workload \in Workloads /\ workload[attaching'[k].workload] # None
      BY <1>0, <1>6 DEF AttachClaim, TypeOK, Named
    <2>4. CASE workload[attaching[n].workload].node \in {None, n}
      <3>1. SameFamily
        BY <1>0, <1>6, <2>1, <2>4, SetNode DEF AttachClaim
      <3>2. advert' \in [Nodes -> SUBSET Handlers]
        <4>1. {Handler[k] : k \in attaching[n].offers} \subseteq Handlers
          BY <2>1 DEF Handlers
        <4>2. advert' = [advert EXCEPT ![n] = @ \cup {Handler[k] : k \in attaching[n].offers}]
          BY <1>6, <2>4 DEF AttachClaim
        <4> QED BY <1>0, <4>1, <4>2 DEF TypeOK
      <3> QED BY <1>0, <1>6, <2>2, <2>3, <2>4, <3>1, <3>2 DEF AttachClaim, TypeOK
    <2>5. CASE workload[attaching[n].workload].node \notin {None, n}
      <3>1. hosted' \in [Nodes -> SUBSET (Workloads \X Components)]
        BY <1>0, <1>6, <2>5 DEF AttachClaim, TypeOK
      <3> QED BY <1>0, <1>6, <2>2, <2>3, <2>5, <3>1, SameRows DEF AttachClaim, TypeOK
    <2> QED BY <2>4, <2>5
  <1>7. ASSUME NEW n \in Nodes, DetachHost(n) PROVE <1>2!1
    <2>1. hosted' \in [Nodes -> SUBSET (Workloads \X Components)]
      BY <1>0, <1>7 DEF DetachHost, TypeOK
    <2> QED BY <1>0, <1>3, <1>7, <2>1, SameRows DEF DetachHost, TypeOK, Named
  <1>8. ASSUME NEW n \in Nodes, Heartbeat(n) PROVE <1>2!1
    <2>1. {Handler[h[2]] : h \in hosted[n]} \subseteq Handlers
      BY <1>0 DEF TypeOK, Handlers
    <2>2. advert' \in [Nodes -> SUBSET Handlers]
      BY <1>0, <1>8, <2>1 DEF Heartbeat, TypeOK
    <2> QED BY <1>0, <1>8, <2>2, SameRows DEF Heartbeat, TypeOK, Named
  <1>9. ASSUME NEW n \in Nodes, NodeDies(n) PROVE <1>2!1
    BY <1>0, <1>3, <1>4, <1>9, SameRows DEF NodeDies, TypeOK, Named
  <1>10. ASSUME NEW n \in Nodes, Sweep(n) PROVE <1>2!1
    <2>1. SameFamily
      <3>1. ASSUME NEW w \in Workloads
            PROVE  /\ workload'[w] \in WorkloadRows \cup {None}
                   /\ workload'[w] = None <=> workload[w] = None
                   /\ workload[w] # None => /\ workload'[w].parent = workload[w].parent
                                           /\ workload'[w].forkGen = workload[w].forkGen
        <4>1. workload[w] # None => workload[w] \in WorkloadRows
          BY <1>0 DEF TypeOK
        <4>2. workload'[w] \in {workload[w], [workload[w] EXCEPT !.node = None]}
              /\ (workload[w] = None => workload'[w] = None)
          BY <1>10 DEF Sweep
        <4>3. CASE workload[w] = None
          BY <4>2, <4>3
        <4>4. CASE workload[w] # None /\ workload'[w] = workload[w]
          BY <4>1, <4>4
        <4>5. CASE workload[w] # None /\ workload'[w] = [workload[w] EXCEPT !.node = None]
          BY <4>1, <4>5, Rows
        <4> QED BY <4>2, <4>3, <4>4, <4>5
      <3>2. workload' = [w \in Workloads |-> workload'[w]]
        BY <1>10 DEF Sweep
      <3> QED BY <3>1, <3>2 DEF SameFamily
    <2> QED BY <1>0, <1>10, <2>1 DEF Sweep, TypeOK, Named
  <1>11. ASSUME NEW n \in Nodes, NodeRegister(n) PROVE <1>2!1
    BY <1>0, <1>11, SameRows, AdmissionInputsAssumption DEF NodeRegister, TypeOK, Named
  <1>12. ASSUME NEW w \in Workloads, ReleaseClaim(w) PROVE <1>2!1
    <2>1. SameFamily
      BY <1>0, <1>12, SetNode DEF ReleaseClaim
    <2> QED BY <1>0, <1>12, <2>1 DEF ReleaseClaim, TypeOK, Named
  <1> QED BY <1>5, <1>6, <1>7, <1>8, <1>9, <1>10, <1>11, <1>12 DEF NodeOrClaimStep

\* The row a capture writes.
LEMMA CaptureRow ==
    ASSUME TypeOK, NEW c \in Checkpoints, NEW w \in Workloads, NEW q \in CaptureOptions,
           CaptureOn(c, w, q)
    PROVE  /\ ckpt[c] = None /\ workload[w] # None
           /\ lifecycle' = [lifecycle EXCEPT ![c] = "AVAILABLE"]
           /\ \E row \in CheckpointRows :
                 /\ row.workload = w
                 /\ CaptureEvidence(row)
                 /\ ckpt' = [ckpt EXCEPT ![c] = row]
  <1> DEFINE Got(n) == q.wanted \cap Hosts(n, w)
             Ack(n, acks) == q.quiescence = "COOPERATIVE" /\ Got(n) # {} /\ acks = Got(n)
             Class(a) == DeriveResumability(
                             DeriveConsistency(q.consistency, q.quiescence, q.frontier, a),
                             q.frontier, q.effects)
             Row(n, a) == [workload |-> w, source |-> n, comps |-> Got(n), ack |-> a,
                           quiescence |-> q.quiescence, frontier |-> q.frontier,
                           effects |-> q.effects, hosts |-> Hosts(n, w), class |-> Class(a)]
  <1>1. PICK n \in CaptureNodes(w) \cap alive : \E acks \in SUBSET Got(n) :
            ckpt' = [ckpt EXCEPT ![c] = Row(n, Ack(n, acks))]
    BY DEF CaptureOn
  <1>1a. PICK acks \in SUBSET Got(n) : ckpt' = [ckpt EXCEPT ![c] = Row(n, Ack(n, acks))]
    BY <1>1
  <1> DEFINE got == Got(n)
             ack == Ack(n, acks)
             class == Class(ack)
             row == [workload |-> w, source |-> n, comps |-> got, ack |-> ack,
                     quiescence |-> q.quiescence, frontier |-> q.frontier,
                     effects |-> q.effects, hosts |-> Hosts(n, w), class |-> class]
  <1>2. ckpt' = [ckpt EXCEPT ![c] = row]
    BY <1>1a
  <1>3. ack \in BOOLEAN /\ (ack => q.quiescence = "COOPERATIVE")
    OBVIOUS
  <1>4. n \in Nodes /\ Hosts(n, w) \subseteq Components /\ got \subseteq Components
    BY DEF TypeOK, Hosts, CaptureOptions
  <1> HIDE DEF got, ack, Got, Ack
  <1>5. /\ class \in Classes
        /\ AtLeast(class, "DEGRADED") =>
              ack /\ q.quiescence = "COOPERATIVE" /\ q.frontier # None
        /\ AtLeast(class, "EQUIVALENT") =>
              ExactEffects(q.effects) /\ ~q.frontier.unresolved
        /\ class = "EXACT" => q.frontier.verified /\ q.frontier.exact
    BY <1>3, CaptureClaims
  <1> HIDE DEF class, Class, Row
  <1>6. row \in CheckpointRows
    BY <1>3, <1>4, <1>5 DEF CheckpointRows, CaptureOptions
  <1>7. row.workload = w /\ CaptureEvidence(row)
    BY <1>5 DEF CaptureEvidence
  <1>8. /\ ckpt[c] = None /\ workload[w] # None
        /\ lifecycle' = [lifecycle EXCEPT ![c] = "AVAILABLE"]
    BY DEF CaptureOn
  <1> HIDE DEF row
  <1> QED BY <1>2, <1>6, <1>7, <1>8

\* A capture adds a row that is backed, and touches no other.
LEMMA CaptureKeeps ==
    ASSUME IInv, NEW c \in Checkpoints, NEW w \in Workloads, NEW q \in CaptureOptions,
           CaptureOn(c, w, q), UNCHANGED <<policy, workload, lineage, rowVars, nodeVars>>,
           events' \in 0 .. MaxEvents,
           UNCHANGED req \/ (req.pc = "migrate" /\ req' = [req EXCEPT !.ckpt = c])
    PROVE  IInv'
  <1>0. TypeOK /\ Named /\ RowsBacked /\ Judged /\ Linked
    BY DEF IInv
  <1>1. /\ ckpt[c] = None /\ workload[w] # None
        /\ lifecycle' = [lifecycle EXCEPT ![c] = "AVAILABLE"]
    BY <1>0, CaptureRow
  <1>2. PICK row \in CheckpointRows :
            row.workload = w /\ CaptureEvidence(row) /\ ckpt' = [ckpt EXCEPT ![c] = row]
    BY <1>0, CaptureRow
  <1>3. /\ ckpt' \in [Checkpoints -> CheckpointRows \cup {None}]
        /\ ckpt'[c] = row /\ row # None
        /\ \A d \in Checkpoints \ {c} : ckpt'[d] = ckpt[d]
    BY <1>0, <1>2, Rows DEF TypeOK
  <1>4. /\ lifecycle' \in [Checkpoints -> LifecycleStates]
        /\ lifecycle'[c] = "AVAILABLE"
        /\ \A d \in Checkpoints \ {c} : lifecycle'[d] = lifecycle[d]
    BY <1>0, <1>1 DEF TypeOK, LifecycleStates
  <1>5. /\ req' \in Requests
        /\ \/ req'.ckpt = None
           \/ req'.ckpt \in Checkpoints /\ ckpt'[req'.ckpt] # None
        /\ req'.pc = req.pc
        /\ req.pc # "idle" => req'.ckpt \in Checkpoints /\ req'.node \in Nodes
        /\ req.pc # "migrate" => req' = req
    BY <1>0, <1>3 DEF TypeOK, Requests, Named
  <1> USE DEF rowVars, nodeVars
  <1>6. \A d \in Checkpoints : /\ (ckpt'[d] = None) = (lifecycle'[d] = "CREATED")
                              /\ ckpt'[d] # None => workload'[ckpt'[d].workload] # None
    BY <1>0, <1>1, <1>2, <1>3, <1>4 DEF TypeOK
  <1>7. TypeOK'
    BY <1>0, <1>3, <1>4, <1>5, <1>6 DEF TypeOK
  <1>8. Named'
    BY <1>0, <1>5 DEF Named
  <1>9. RowsBacked'
    BY <1>0, <1>2, <1>3 DEF RowsBacked
  <1>10. Judged'
    <2>1. CASE req.pc \in {"admitted", "applied", "committed"}
      <3>1. req' = req /\ ckpt'[req.ckpt] = ckpt[req.ckpt]
        <4>1. req.ckpt \in Checkpoints /\ req.ckpt # None
          BY <1>0, <2>1, AdmissionNoneAssumption DEF Named
        <4>2. req.ckpt # c
          BY <1>0, <1>1, <4>1 DEF TypeOK
        <4> QED BY <1>3, <1>5, <2>1, <4>1, <4>2
      <3> QED BY <1>0, <3>1 DEF Judged, Evaluate, DimensionVerdict
    <2>2. CASE req.pc \notin {"admitted", "applied", "committed"}
      BY <1>5, <2>2 DEF Judged
    <2> QED BY <2>1, <2>2
  <1>11. Linked'
    <2>1. \A l \in lineage : l.ckpt \in Checkpoints \ {c}
      BY <1>0, <1>1 DEF Linked, TypeOK
    <2> QED BY <1>0, <1>3, <2>1 DEF Linked
  <1> QED BY <1>7, <1>8, <1>9, <1>10, <1>11 DEF IInv

\* request_capture keeps the invariant.
LEMMA RequestCaptureStep == IInv /\ RequestCapture => IInv'
  <1> SUFFICES ASSUME IInv, RequestCapture PROVE IInv'
    OBVIOUS
  <1>1. PICK c \in Checkpoints, w \in Workloads, q \in CaptureRequests : CaptureOn(c, w, q)
    BY DEF RequestCapture
  <1>2. q \in CaptureOptions
    BY AdmissionInputsAssumption
  <1>3. events' \in 0 .. MaxEvents
    BY AdmissionBoundAssumption DEF RequestCapture, CountEvent, IInv, TypeOK
  <1>4. UNCHANGED <<policy, workload, lineage, rowVars, nodeVars, req>>
    BY DEF RequestCapture
  <1> QED BY <1>1, <1>2, <1>3, <1>4, CaptureKeeps

\* So does the capture that migrate asks for.
LEMMA MigrateCapturesStep == IInv /\ MigrateCaptures => IInv'
  <1> SUFFICES ASSUME IInv, MigrateCaptures PROVE IInv'
    OBVIOUS
  <1>1. PICK c \in Checkpoints :
            /\ CaptureOn(c, ckpt[req.ckpt].workload, FreshCapture)
            /\ req' = [req EXCEPT !.ckpt = c]
    BY DEF MigrateCaptures
  <1>2. FreshCapture \in CaptureOptions
    BY DEF FreshCapture, CaptureOptions, Consistencies, Quiescences
  <1>3. req.pc = "migrate" /\ UNCHANGED <<policy, workload, lineage, rowVars, nodeVars, events>>
    BY DEF MigrateCaptures
  <1>4. ckpt[req.ckpt].workload \in Workloads
    <2>1. req.ckpt \in Checkpoints /\ ckpt[req.ckpt] # None
      BY <1>3, AdmissionNoneAssumption DEF IInv, TypeOK, Named
    <2> QED BY <2>1 DEF IInv, TypeOK, CheckpointRows
  <1>5. events' \in 0 .. MaxEvents
    BY <1>3 DEF IInv, TypeOK
  <1> QED BY <1>1, <1>2, <1>3, <1>4, <1>5, CaptureKeeps

\* A step of the request being served: the other variables keep their values, but for
\* the lifecycle of a captured checkpoint and the claims.
LEMMA RequestKeeps ==
    ASSUME IInv, UNCHANGED <<policy, lineage, ckpt, rowVars, nodeVars, events>>, SameFamily,
           lifecycle' = lifecycle \/ \E c \in Checkpoints, s \in LifecycleStates \ {"CREATED"} :
                                        ckpt[c] # None /\ lifecycle' = [lifecycle EXCEPT ![c] = s],
           req' \in Requests,
           \/ req' = Idle
           \/ req'.ckpt \in Checkpoints /\ req'.node \in Nodes /\ ckpt[req'.ckpt] # None,
           Judged'
    PROVE  IInv'
  <1>0. TypeOK /\ Named /\ RowsBacked /\ Judged /\ Linked
    BY DEF IInv
  <1> USE DEF rowVars, nodeVars
  <1>1. /\ lifecycle' \in [Checkpoints -> LifecycleStates]
        /\ \A c \in Checkpoints : (ckpt[c] = None) = (lifecycle'[c] = "CREATED")
    BY <1>0 DEF TypeOK
  <1>2. req'.ckpt # None => ckpt[req'.ckpt] # None
    BY DEF Idle
  <1>3. TypeOK'
    BY <1>0, <1>1, <1>2 DEF TypeOK, SameFamily, WorkloadRows, CheckpointRows
  <1>4. Named'
    BY <1>0 DEF Named, Idle, SameFamily
  <1>5. RowsBacked'
    BY <1>0 DEF RowsBacked
  <1>6. Linked'
    BY <1>0, LinkedKept
  <1> QED BY <1>3, <1>4, <1>5, <1>6 DEF IInv

\* A coordinator that serves no request.
LEMMA IdleRequest == Idle \in Requests
  BY DEF Idle, Requests, NoTarget, Targets, Actors, VerdictRank, Classes, ClassRank

\* A request that is dropped leaves nothing to judge.
LEMMA IdleJudged == req' = Idle => Judged'
  BY DEF Judged, Idle

\* The transitions of a checkpoint that is being restored.
LEMMA RestoreStates ==
    {"AVAILABLE", "RETIRED", "RESTORE_PENDING", "RESTORING", "RESTORED"}
        \subseteq LifecycleStates \ {"CREATED"}
  BY DEF LifecycleStates

\* A request under way is about a captured checkpoint of an existing workload.
LEMMA RequestNames ==
    ASSUME IInv, req.pc # "idle"
    PROVE  /\ req.ckpt \in Checkpoints /\ req.node \in Nodes
           /\ ckpt[req.ckpt] # None /\ ckpt[req.ckpt] \in CheckpointRows
           /\ workload[ckpt[req.ckpt].workload] # None
  <1>1. /\ req.ckpt \in Checkpoints /\ req.node \in Nodes /\ req.ckpt # None
    BY AdmissionNoneAssumption DEF IInv, Named
  <1> QED BY <1>1 DEF IInv, TypeOK

\* An admission records the verdict with the target it was reached on.
LEMMA AdmitStep ==
    ASSUME IInv, NEW c \in Checkpoints, NEW n \in Nodes, NEW actor \in Actors,
           NEW resume \in BOOLEAN, NEW migration \in BOOLEAN,
           Admit(c, n, actor, resume, migration),
           UNCHANGED <<policy, workload, lineage, ckpt, rowVars, nodeVars, events>>
    PROVE  IInv'
  <1> DEFINE target == [mismatch |-> mismatch[n], advert |-> advert[n]]
             verdict == Evaluate(ckpt[c].comps, target)
  <1>0. TypeOK
    BY DEF IInv
  <1>1. ckpt[c] # None /\ lifecycle' = [lifecycle EXCEPT ![c] = "RESTORE_PENDING"]
    BY DEF Admit
  <1>2. req' = [Idle EXCEPT !.pc = "admitted", !.ckpt = c, !.node = n, !.resume = resume,
                            !.migration = migration, !.verdict = verdict, !.target = target]
    BY DEF Admit
  <1>3. target \in Targets
    BY <1>0 DEF Targets, TypeOK
  <1>4. verdict \in DOMAIN VerdictRank
    BY <1>3, VerdictMeaning DEF Targets
  <1>5. policy' = policy /\ ckpt' = ckpt
    OBVIOUS
  <1>6. verdict = Evaluate(ckpt[c].comps, target)
    OBVIOUS
  <1> HIDE DEF target, verdict
  <1>7. /\ req'.pc = "admitted" /\ req'.ckpt = c /\ req'.node = n
        /\ req'.verdict = verdict /\ req'.target = target
    BY <1>2 DEF Idle
  <1>8. req' \in Requests
    BY <1>2, <1>3, <1>4, IdleRequest DEF Idle, Requests
  <1>9. Judged'
    BY <1>5, <1>6, <1>7 DEF Judged, Evaluate, DimensionVerdict
  <1>10. SameFamily
    BY <1>0, SameRows
  <1>11. "RESTORE_PENDING" \in LifecycleStates \ {"CREATED"}
    BY RestoreStates
  <1> QED BY <1>1, <1>7, <1>8, <1>9, <1>10, <1>11, RequestKeeps

\* Restores, rollbacks and migrations are admitted alike.
LEMMA AdmitSteps == IInv /\ (RequestRestore \/ RequestRollback \/ MigrateRestores) => IInv'
  <1> SUFFICES ASSUME IInv, RequestRestore \/ RequestRollback \/ MigrateRestores PROVE IInv'
    OBVIOUS
  <1>1. CASE RequestRestore
    BY <1>1, AdmitStep DEF RequestRestore
  <1>2. CASE RequestRollback
    BY <1>2, AdmitStep DEF RequestRollback
  <1>3. CASE MigrateRestores
    <2>1. req.ckpt \in Checkpoints /\ req.node \in Nodes /\ req.actor \in Actors
      BY <1>3, RequestNames DEF MigrateRestores, IInv, TypeOK, Requests
    <2> QED BY <1>3, <2>1, AdmitStep DEF MigrateRestores
  <1> QED BY <1>1, <1>2, <1>3

\* The other steps of a request.
RequestStep ==
    \/ RequestMigrate \/ MigrateFails \/ ApplyRestore \/ AbortRestore \/ CommitRestore \/ Reply

\* Each of them keeps the invariant.
LEMMA RequestSteps == IInv /\ RequestStep => IInv'
  <1> SUFFICES ASSUME IInv, RequestStep PROVE IInv'
    OBVIOUS
  <1>0. TypeOK /\ Judged /\ req \in Requests
    BY DEF IInv, TypeOK
  <1> USE DEF storeVars
  <1>1. CASE RequestMigrate
    <2>1. PICK c \in Checkpoints, n \in Nodes, actor \in Actors :
             /\ ckpt[c] # None
             /\ req' = [Idle EXCEPT !.pc = "migrate", !.ckpt = c, !.node = n, !.actor = actor]
      BY <1>1 DEF RequestMigrate
    <2>2. req'.pc = "migrate" /\ req'.ckpt = c /\ req'.node = n /\ req' \in Requests
      BY <2>1, IdleRequest DEF Idle, Requests
    <2>3. Judged'
      BY <2>2 DEF Judged
    <2>4. UNCHANGED <<policy, lineage, ckpt, rowVars, nodeVars, events, workload, lifecycle>>
      BY <1>1 DEF RequestMigrate
    <2> QED BY <1>0, <2>1, <2>2, <2>3, <2>4, SameRows, RequestKeeps
  <1>2. CASE MigrateFails \/ Reply
    <2>1. /\ UNCHANGED <<policy, lineage, ckpt, rowVars, nodeVars, events, workload, lifecycle>>
          /\ req' = Idle
      BY <1>2 DEF MigrateFails, Reply
    <2> QED BY <1>0, <2>1, SameRows, IdleRequest, IdleJudged, RequestKeeps
  <1>3. CASE AbortRestore
    <2>1. /\ UNCHANGED <<policy, lineage, ckpt, rowVars, nodeVars, events, workload>>
          /\ lifecycle' = [lifecycle EXCEPT ![req.ckpt] = "AVAILABLE"]
          /\ req' = Idle /\ req.pc # "idle"
      BY <1>3 DEF AbortRestore
    <2>2. req.ckpt \in Checkpoints /\ ckpt[req.ckpt] # None
      BY <2>1, RequestNames
    <2>3. "AVAILABLE" \in LifecycleStates \ {"CREATED"}
      BY RestoreStates
    <2> QED BY <1>0, <2>1, <2>2, <2>3, SameRows, IdleRequest, IdleJudged, RequestKeeps
  <1>4. CASE ApplyRestore
    <2> DEFINE here == ckpt[req.ckpt].comps \cap Hosts(req.node, ckpt[req.ckpt].workload)
    <2>1. /\ UNCHANGED <<policy, lineage, ckpt, rowVars, nodeVars, events, workload>>
          /\ lifecycle' = [lifecycle EXCEPT ![req.ckpt] = "RESTORING"]
          /\ req.pc = "admitted"
          /\ ckpt[req.ckpt].comps \cap Required \subseteq here
          /\ req' = [req EXCEPT !.pc = "applied", !.applied = here]
      BY <1>4 DEF ApplyRestore
    <2>2. /\ req.ckpt \in Checkpoints /\ req.node \in Nodes /\ ckpt[req.ckpt] # None
      BY <2>1, RequestNames
    <2>3. here \subseteq Components
      BY DEF Hosts
    <2> HIDE DEF here
    <2>4. /\ req' \in Requests /\ req'.pc = "applied" /\ req'.ckpt = req.ckpt
          /\ req'.node = req.node /\ req'.verdict = req.verdict /\ req'.target = req.target
          /\ req'.applied = here
      BY <1>0, <2>1, <2>3 DEF Requests
    <2>5. Judged'
      BY <1>0, <2>1, <2>4 DEF Judged, Evaluate, DimensionVerdict
    <2>6. "RESTORING" \in LifecycleStates \ {"CREATED"}
      BY RestoreStates
    <2> QED BY <1>0, <2>1, <2>2, <2>4, <2>5, <2>6, SameRows, RequestKeeps
  <1>5. CASE CommitRestore
    <2>1. /\ UNCHANGED <<policy, lineage, ckpt, rowVars, nodeVars, events>>
          /\ lifecycle' = [lifecycle EXCEPT ![req.ckpt] = "RESTORED"]
          /\ req.pc = "applied"
          /\ workload' = [workload EXCEPT ![ckpt[req.ckpt].workload].node = req.node]
      BY <1>5 DEF CommitRestore
    <2>2. PICK resumed \in {FALSE, req.resume /\ req.node \in alive} :
              req' = [req EXCEPT !.pc = "committed", !.resumed = resumed,
                                 !.class = RestoredResumability(ckpt[req.ckpt].class,
                                                                req.verdict, resumed)]
      BY <1>5 DEF CommitRestore
    <2>3. /\ req.ckpt \in Checkpoints /\ req.node \in Nodes /\ ckpt[req.ckpt] # None
          /\ ckpt[req.ckpt] \in CheckpointRows /\ workload[ckpt[req.ckpt].workload] # None
      BY <2>1, RequestNames
    <2>4. ckpt[req.ckpt].workload \in Workloads /\ ckpt[req.ckpt].class \in Classes
      BY <2>3 DEF CheckpointRows
    <2>5. resumed \in BOOLEAN /\ req.verdict \in DOMAIN VerdictRank
      BY <1>0, <2>2 DEF Requests
    <2> DEFINE class == RestoredResumability(ckpt[req.ckpt].class, req.verdict, resumed)
    <2>6. class \in Classes
      BY <2>4, <2>5, RestoreClaims
    <2>7. class = RestoredResumability(ckpt[req.ckpt].class, req.verdict, resumed)
      OBVIOUS
    <2>8. req' = [req EXCEPT !.pc = "committed", !.resumed = resumed, !.class = class]
      BY <2>2
    <2> HIDE DEF class
    <2>9. /\ req' \in Requests /\ req'.pc = "committed" /\ req'.ckpt = req.ckpt
          /\ req'.node = req.node /\ req'.verdict = req.verdict /\ req'.target = req.target
          /\ req'.applied = req.applied /\ req'.resumed = resumed /\ req'.class = class
      BY <1>0, <2>5, <2>6, <2>8 DEF Requests
    <2>10. Judged'
      <3>1. Judged
        BY <1>0
      <3> QED BY <2>1, <2>7, <2>9, <3>1 DEF Judged, Evaluate, DimensionVerdict
    <2>11. "RESTORED" \in LifecycleStates \ {"CREATED"}
      BY RestoreStates
    <2>12. SameFamily
      BY <1>0, <2>1, <2>3, <2>4, SetNode
    <2> QED BY <1>0, <2>1, <2>3, <2>9, <2>10, <2>11, <2>12, RequestKeeps
  <1> QED BY <1>1, <1>2, <1>3, <1>4, <1>5 DEF RequestStep

\* Retirement changes a lifecycle only.
LEMMA RetireStep ==
    ASSUME IInv, NEW c \in Checkpoints, Retire(c)
    PROVE  IInv'
  <1>0. TypeOK /\ RowsBacked /\ Judged /\ Named
    BY DEF IInv
  <1>1. /\ ckpt[c] # None
        /\ lifecycle' = [lifecycle EXCEPT ![c] = "RETIRED"]
        /\ UNCHANGED <<policy, lineage, ckpt, rowVars, nodeVars, events, workload, req>>
    BY <1>0 DEF Retire, TypeOK
  <1>2. "RETIRED" \in LifecycleStates \ {"CREATED"}
    BY RestoreStates
  <1>3. Judged' /\ SameFamily
    BY <1>0, <1>1, EvidenceKept, SameRows
  <1> QED BY <1>0, <1>1, <1>2, <1>3 DEF IInv, TypeOK, Named, RowsBacked, Linked, rowVars, nodeVars

\* Every step keeps the invariant.
LEMMA Inductive == IInv /\ [Next]_vars => IInv'
  <1> SUFFICES ASSUME IInv, [Next]_vars PROVE IInv'
    OBVIOUS
  <1>1. CASE UNCHANGED vars
    BY <1>1 DEF IInv, TypeOK, Named, RowsBacked, Judged, Linked, Evaluate, DimensionVerdict,
                vars, storeVars, rowVars, nodeVars
  <1>2. ASSUME NEW c \in Checkpoints, Retire(c) PROVE IInv'
    BY <1>2, RetireStep
  <1>3. CASE Next
    BY <1>2, <1>3, CreateStep, ForkStep, NodeOrClaimKeeps, RequestCaptureStep,
       MigrateCapturesStep, AdmitSteps, RequestSteps
       DEF Next, NodeOrClaimStep, RequestStep
  <1> QED BY <1>1, <1>3

------------------------------------------------------------------------------
(* The theorems *)

\* The types of the state, and a row for whatever a request, a checkpoint or a parent
\* link names, after any sequence of coordinator and node steps.
THEOREM AdmissionTypes == Spec => []TypeOK
  <1>1. IInv => TypeOK
    BY DEF IInv
  <1> QED BY <1>1, InitIInv, Inductive, PTL DEF Spec

\* do_restore: a restore that commits has put back every required component, whatever
\* the target's providers did since it was admitted.
THEOREM CommitsPutBackRequired == Spec => []RequiredApplied
  <1>1. IInv => RequiredApplied
    BY DEF IInv, Judged, RequiredApplied
  <1> QED BY <1>1, InitIInv, Inductive, PTL DEF Spec

\* derive_consistency, evaluate and restored_resumability together: for every policy,
\* every capture request and every target, the class a restore reports is backed by the
\* evidence of the capture and of the admission.
THEOREM ClaimsAreBacked == Spec => []ClaimFollowsEvidence
  <1>1. ASSUME IInv PROVE ClaimFollowsEvidence
    <2> SUFFICES ASSUME req.pc = "committed"
                 PROVE  LET row == ckpt[req.ckpt]
                            class == req.class
                        IN  /\ AtLeast(row.class, class)
                            /\ AtLeast(class, "DEGRADED") =>
                                  /\ req.resumed
                                  /\ row.ack /\ row.quiescence = "COOPERATIVE"
                                  /\ row.frontier # None
                            /\ AtLeast(class, "EQUIVALENT") =>
                                  /\ ExactEffects(row.effects)
                                  /\ ~row.frontier.unresolved
                                  /\ req.target.mismatch \subseteq {"os", "arch"}
                                  /\ Unlisted(row.comps, req.target) = {}
                            /\ class = "EXACT" =>
                                  /\ row.frontier.verified /\ row.frontier.exact
                                  /\ req.target.mismatch = {}
      BY DEF ClaimFollowsEvidence
    <2> DEFINE row == ckpt[req.ckpt]
    <2>1. /\ req.verdict = Evaluate(row.comps, req.target)
          /\ req.class = RestoredResumability(row.class, req.verdict, req.resumed)
      BY <1>1 DEF IInv, Judged
    <2>2. row \in CheckpointRows /\ CaptureEvidence(row)
      BY <1>1, RequestNames DEF IInv, RowsBacked
    <2>3. req.resumed \in BOOLEAN /\ req.target.mismatch \subseteq Dimensions
      BY <1>1 DEF IInv, TypeOK, Requests, Targets
    <2> HIDE DEF row
    <2>4. row.class \in Classes /\ req.class \in Classes
      BY <1>1, <2>2 DEF CheckpointRows, IInv, TypeOK, Requests
    <2>5. /\ req.verdict \in DOMAIN VerdictRank
          /\ req.verdict \in {"COMPATIBLE", "TRANSLATION"} =>
                /\ req.target.mismatch \subseteq {"os", "arch"}
                /\ Unlisted(row.comps, req.target) = {}
          /\ req.verdict = "COMPATIBLE" => req.target.mismatch = {}
      BY <2>1, <2>3, VerdictMeaning
    <2>6. /\ AtLeast(row.class, req.class)
          /\ AtLeast(req.class, "DEGRADED") => req.resumed
          /\ AtLeast(req.class, "EQUIVALENT") => req.verdict \in {"COMPATIBLE", "TRANSLATION"}
          /\ req.class = "EXACT" => req.verdict = "COMPATIBLE" /\ row.class = "EXACT"
      BY <2>1, <2>3, <2>4, <2>5, RestoreClaims
    <2>7. /\ AtLeast(req.class, "DEGRADED") => AtLeast(row.class, "DEGRADED")
          /\ AtLeast(req.class, "EQUIVALENT") => AtLeast(row.class, "EQUIVALENT")
      BY <2>4, <2>6 DEF AtLeast, Classes, ClassRank
    <2> QED BY <2>2, <2>5, <2>6, <2>7 DEF CaptureEvidence, row
  <1> QED BY <1>1, InitIInv, Inductive, PTL DEF Spec

\* workload_insert_fork: after any number of creations, forks and forks of forks, a
\* workload with a parent has one FORKED_FROM record, of a checkpoint of that parent.
THEOREM ForksAreLinked == Spec => []ForkLinked
  <1>1. ASSUME IInv PROVE ForkLinked
    <2> SUFFICES ASSUME NEW w \in Workloads
                 PROVE  LET records == {l \in lineage : l.child = w}
                        IN  IF workload[w] = None \/ workload[w].parent = None
                            THEN records = {}
                            ELSE /\ Cardinality(records) = 1
                                 /\ \A l \in records :
                                      /\ l.parent = workload[w].parent
                                      /\ ckpt[l.ckpt].workload = l.parent
                                      /\ workload[w].forkGen = workload[l.parent].forkGen + 1
      BY DEF ForkLinked
    <2> DEFINE records == {l \in lineage : l.child = w}
    <2>0. TypeOK /\ Linked
      BY <1>1 DEF IInv
    <2>1. CASE workload[w] = None \/ workload[w].parent = None
      <3>1. \A l \in lineage : l.parent # None
        BY <2>0, AdmissionNoneAssumption DEF TypeOK
      <3> QED BY <2>0, <2>1, <3>1 DEF Linked
    <2>2. CASE workload[w] # None /\ workload[w].parent # None
      <3>1. PICK l \in lineage : l.child = w
        BY <2>0, <2>2 DEF Linked
      <3>2. records = {l}
        BY <2>0, <3>1 DEF Linked
      <3>3. Cardinality(records) = 1
        BY <3>2, FS_Singleton
      <3> QED BY <2>0, <2>2, <3>1, <3>2, <3>3 DEF Linked
    <2> QED BY <2>1, <2>2
  <1> QED BY <1>1, InitIInv, Inductive, PTL DEF Spec

==============================================================================
