SPECIFICATION Spec
CONSTANTS
    Workloads = {w1}
    Checkpoints = {c1, c2}
    Nodes = {n1, n2}
    state = state
    cache = cache
    Components <- MCComponents
    Required = {state}
    Handler <- MCHandler
    Offers <- MCOffers
    Policies <- OnePolicy
    Mismatches = {{}}
    CaptureRequests <- OneRequest
    None = None
    MaxEvents = 4
INVARIANT MigrationMovesState
CHECK_DEADLOCK FALSE
