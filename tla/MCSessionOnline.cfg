SPECIFICATION Spec
CONSTANTS
    c1 = c1
    c2 = c2
    Conn <- MCConn
    SendCap = 1
    Requests <- MCJoins
    InboxCap = 2
INVARIANTS
    StaysOnline
