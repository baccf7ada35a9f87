SPECIFICATION Spec
CONSTANTS
    u1 = u1
    u2 = u2
    p1 = p1
    p2 = p2
    User = {u1, u2}
    Nobody = nobody
    Req = {r1, r2}
    Password = {p1, p2}
    Real <- MCReal
    TooLong = {p2}
    Slots = 1
    IP = {a1, a2}
    Cost = 2
    Burst = 4
    Idle = 4
    SweepEvery = 1
    LimitHorizon = 6
    Token = {t1, t2, t3}
    Junk = {empty, forged}
    Seed = {t1}
    SeedUser = u1
    Horizon = 5
    NoToken = empty
    TTL = 0
    TokenTTL = 2
    CardFile <- MCCardFile
    Request <- MCRequest
    HandStart = 3
    Games = 1
    None = none
    Room = {m1, m2, m3}
    Time = {1, 2}
    Limits = {0, 1, 9}
    DefaultLimit = 2
    MaxLimit = 3
INVARIANTS
    LoginInv
    MapBounded
    WindowBound
    PlayableDecks
    ReplaysTheGame
    ListIsNewest
PROPERTIES
    Answered
    BucketSpec
    TokenStores
