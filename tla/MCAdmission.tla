---------------------------- MODULE MCAdmission ----------------------------
(* Instances of Admission for TLC. *)
EXTENDS Admission, TLC

CONSTANTS state, cache

MCComponents == {state, cache}
MCHandler == [k \in MCComponents |-> IF k = state THEN "app-state" ELSE "file-tree"]

MCOffers == {{state}, {state, cache}}

AnyActor == [op \in Operations |-> {}]

\* A permissive policy, and a strict one that reserves migration to auditors.
Permissive == [crossOs |-> TRUE, crossArch |-> TRUE, schemaStrict |-> FALSE,
               forbidDegraded |-> FALSE, required |-> None, roles |-> AnyActor]
Strict == [crossOs |-> FALSE, crossArch |-> TRUE, schemaStrict |-> TRUE,
           forbidDegraded |-> TRUE, required |-> "APPLICATION",
           roles |-> [AnyActor EXCEPT !["migrate"] = {"auditor"}]]
MCPolicies == {Permissive, Strict}
OnePolicy == {Permissive}

MCMismatches == {{}, {"arch"}, {"backend"}}

Flags(exact, equivalent, verified, unresolved) ==
    [exact |-> exact, equivalent |-> equivalent, verified |-> verified,
     unresolved |-> unresolved]

Options(consistency, quiescence, frontier, effects) ==
    [consistency |-> consistency, quiescence |-> quiescence, frontier |-> frontier,
     effects |-> effects, wanted |-> MCComponents, needed |-> {state}]

Sound == Flags(TRUE, FALSE, TRUE, FALSE)

MCRequests ==
    {Options("EXECUTION", "COOPERATIVE", Sound, {"COMMITTED"}),
     Options("EXECUTION", "COOPERATIVE", Sound, {"COMMITTED", "UNKNOWN"}),
     Options("EXECUTION", "COOPERATIVE", Flags(TRUE, TRUE, FALSE, FALSE), {}),
     Options("EXECUTION", "COOPERATIVE", Flags(TRUE, TRUE, TRUE, TRUE), {}),
     Options("EXECUTION", "FORCED", Sound, {}),
     [Options("APPLICATION", "COOPERATIVE", None, {}) EXCEPT !.needed = {state}]}

\* A sound request alone, for the run about migration.
OneRequest == {Options("EXECUTION", "COOPERATIVE", Sound, {"COMMITTED"})}

Symmetry == Permutations(Workloads) \cup Permutations(Nodes) \cup Permutations(Checkpoints)
==============================================================================
