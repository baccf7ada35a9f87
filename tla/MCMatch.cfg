SPECIFICATION Spec
CONSTANTS
    p1 = p1
    p2 = p2
    p3 = p3
    Player <- MCPlayer
    Scores <- MCScores
    BaseWindow = 0
    WidenPerSec = 1
    MaxWindow = 1
    Batch = 2
    RangeCount = 2
    AgeCap = 1
    Calls = 4
    Faults = 1
INVARIANTS
    MatchInv
    NobodyLost
PROPERTIES
    QueueSpec
    SeniorityKept
    MatchHappens
