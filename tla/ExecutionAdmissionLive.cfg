CONSTANTS
    Prompts = {p1}
    Steers = {}
    Commands = {}
    Mutations = {m1}
    start = start
    Admissions = {a1, a2, a3, a4, a5, a6}
    None = None
SPECIFICATION FairSpec
PROPERTY EveryRequestSettles
CHECK_DEADLOCK FALSE
