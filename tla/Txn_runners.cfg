CONSTANTS
    Txns = {1, 2}
    Docs = {1, 2}
    Runners = {r1, r2}
    Workloads <- MCWorkloads
    Retries = 3
SPECIFICATION Spec
SYMMETRY Symmetry
CHECK_DEADLOCK FALSE
INVARIANTS
    Consistent
    AppliedExactly
    AbortedChangesNothing
