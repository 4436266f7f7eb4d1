CONSTANTS
    Prompts = {p1}
    Steers = {}
    Commands = {c1}
    Mutations = {}
    start = start
    Admissions = {a1, a2, a3, a4}
    None = None
SPECIFICATION Spec
INVARIANT AgentUnderLease
CHECK_DEADLOCK FALSE
