SPECIFICATION Spec
CONSTANTS
    c1 = c1
    c2 = c2
    Conn <- MCConn
    SendCap = 1
    Requests <- MCRequests
    InboxCap = 1
INVARIANTS
    SessionInv
    GoneIsOffline
    StaysQueued
PROPERTIES
    LoopsEnd
    CutOffIsUnqueued
