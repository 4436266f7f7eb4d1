CONSTANTS
    Prompts = {p1}
    Steers = {s1}
    Commands = {}
    Mutations = {m1}
    start = start
    Admissions = {a1, a2, a3, a4}
    None = None
SPECIFICATION Spec
INVARIANTS TypeOK OneLease ExecutionUnderLease HoldersExact DisposedHoldsNothing AgentLeaseKept
PROPERTY ClosedOnce
CHECK_DEADLOCK FALSE
