SPECIFICATION Spec
CONSTANTS
    Worker = {w1, w2, w3}
    Ids = {"r1", "r2", "r3", "r4"}
    Verdicts <- MCVerdicts
    Moves = 2
    Plies = 3
    Deep = 3
    Bot = {b1, b2, b3}
    Games = 2
    Sem = 2
    Latency = {1, 2, 3}
INVARIANTS
    ExitTellsTruth
    NeverRefused
    NearestRank
PROPERTIES
    ToolsEnd
CHECK_DEADLOCK FALSE
