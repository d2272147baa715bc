SPECIFICATION Spec
CONSTANTS
    Workloads = {w1, w2}
    Checkpoints = {c1, c2}
    Nodes = {n1, n2}
    state = state
    cache = cache
    Components <- MCComponents
    Required = {state}
    Handler <- MCHandler
    Offers <- MCOffers
    Policies <- MCPolicies
    Mismatches <- MCMismatches
    CaptureRequests <- MCRequests
    None = None
    MaxEvents = 4
INVARIANTS TypeOK ClaimFollowsEvidence RequiredApplied ForkLinked
SYMMETRY Symmetry
CHECK_DEADLOCK FALSE
