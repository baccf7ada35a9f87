SPECIFICATION Spec
CONSTANTS
    StartHP = 1
    HandStart = 0
    MaxMana = 1
    BoardLimit = 1
    CardID <- MCCardID
    Catalog <- MCCatalog
    InitDecks <- MCInitDecks
    InboxCap = 1
    Requests <- MCRequests
INVARIANTS
    RoomInv
    LogReplays
    ReportFaithful
    ViewsFresh
PROPERTIES
    RoomCloses
