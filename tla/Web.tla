-------------------------------- MODULE Web --------------------------------
(***************************************************************************)
(* The HTTP side of the server: logins and the limiter before them, tokens *)
(* in the process or in Redis, the card table with the decks, and the      *)
(* reports.  These parts share no variable, and every property is about    *)
(* one of them: it is enough to look at one at a time, with the others at  *)
(* rest.                                                                   *)
(***************************************************************************)
EXTENDS Integers, FiniteSets, Sequences

CONSTANTS
    User, Nobody, Req, Password, Real, TooLong, Slots,    \* of Login
    IP, Cost, Burst, Idle, SweepEvery, LimitHorizon,      \* of LoginLimit
    Token, Junk, Seed, SeedUser, Horizon,                 \* of MemTokens
    NoToken, TTL, TokenTTL,                               \* of RedisTokens
    CardFile, Request, HandStart, Games, None,            \* of Cards
    Room, Time, Limits, DefaultLimit, MaxLimit            \* of Reports

VARIABLES
    part,                                            \* the part that is looked at
    stored, req,                                     \* of Login
    clock, limiters, lastSweep, answer, spent, base, called,   \* of LoginLimit
    now, m, memDrawn, memReply,                      \* of MemTokens
    keys, told, drawn, reply,                        \* of RedisTokens
    file, phase, cat, hash, saved, decks, reports, edited,   \* of Cards
    rows                                             \* of Reports

Logins == INSTANCE Login
Rate == INSTANCE LoginLimit WITH now <- clock, m <- limiters, Horizon <- LimitHorizon
Mem == INSTANCE MemTokens WITH drawn <- memDrawn, reply <- memReply, ttl <- TokenTTL,
       NoUser <- Nobody
Redis == INSTANCE RedisTokens WITH NoUser <- Nobody
Decks == INSTANCE Cards WITH Player <- User
Lists == INSTANCE Reports WITH Player <- User

ASSUME WebConstants ==
    /\ Real \in [User -> Password] /\ TooLong \subseteq Password
    /\ IsFiniteSet(Req) /\ Slots \in Nat \ {0} /\ Nobody \notin User
    /\ Cost \in Nat \ {0} /\ {Burst, Idle, SweepEvery, LimitHorizon} \subseteq Nat
    /\ TTL \in Int /\ TokenTTL \in Nat \ {0} /\ Horizon \in Nat
    /\ Seed \subseteq Token /\ SeedUser \in User
    /\ Token \cap Junk = {} /\ Junk # {} /\ NoToken \notin Token
    /\ \A t \in Token : Redis!tokenKey(t) \notin Token
    /\ CardFile \subseteq Seq(Decks!Card)
    /\ Time \subseteq Nat /\ Limits \subseteq Int
    /\ {DefaultLimit, MaxLimit} \subseteq Nat \ {0}

logins == <<stored, req>>
limit == <<clock, limiters, lastSweep, answer, spent, base, called>>
mem == <<now, m, memDrawn, memReply>>
redis == <<keys, told, drawn, reply>>
cards == <<file, phase, cat, hash, saved, decks, reports, edited>>
vars == <<part, logins, limit, mem, redis, cards, rows>>

\* A part at rest is in one of its initial states.
Init ==
    /\ part \in {"login", "limit", "mem", "redis", "cards", "reports"}
    /\ Logins!Init /\ Rate!Init /\ Mem!Init /\ Redis!Init /\ Decks!Init /\ Lists!Init
    /\ part # "login" => \A r \in Req : /\ req[r].pw = CHOOSE p \in Password : TRUE
                                        /\ \A u \in User : ~stored[u].hashed
    /\ part # "limit" => answer = CHOOSE a \in [ip : IP, ok : BOOLEAN] : TRUE
    /\ part # "cards" => file = CHOOSE f \in CardFile : TRUE

LookAt(p) == part = p /\ UNCHANGED part
LoginSteps == LookAt("login") /\ UNCHANGED <<limit, mem, redis, cards, rows>>
LimitSteps == LookAt("limit") /\ UNCHANGED <<logins, mem, redis, cards, rows>>
MemSteps == LookAt("mem") /\ UNCHANGED <<logins, limit, redis, cards, rows>>
RedisSteps == LookAt("redis") /\ UNCHANGED <<logins, limit, mem, cards, rows>>
CardSteps == LookAt("cards") /\ UNCHANGED <<logins, limit, mem, redis, rows>>
ReportSteps == LookAt("reports") /\ UNCHANGED <<logins, limit, mem, redis, cards>>

Next ==
    \/ LoginSteps /\ Logins!Next
    \/ LimitSteps /\ Rate!Next
    \/ MemSteps /\ Mem!Next
    \/ RedisSteps /\ Redis!Next
    \/ CardSteps /\ Decks!Next
    \/ ReportSteps /\ Lists!Next

\* Login's: a goroutine runs on, and a channel serves its waiting senders in
\* turn.  The other parts promise nothing that has to happen.
Fairness ==
    \A r \in Req : /\ WF_vars(LoginSteps /\ Logins!Handle(r))
                   /\ SF_vars(LoginSteps /\ Logins!Acquire(r))

Spec == Init /\ [][Next]_vars /\ Fairness

-----------------------------------------------------------------------------
\* checkPassword, UpdatePassword and burnPasswordCheck: whatever logins race to
\* upgrade an account, its owner's password opens it, no other does, and every 401
\* has cost one computation, whether or not the account exists and was migrated.
LoginInv == Logins!LoginInv

\* withBcryptSlot: every login is answered, however many wait for a slot.
Answered == Logins!Answered

\* sweep, "so that the map does not grow for ever": when Allow has been called,
\* no address is kept that was silent for longer than ipIdle and a minute.
MapBounded == Rate!MapBounded

\* IPLimiter: a bucket filled on demand, and forgotten when idle, is a bucket
\* that fills all the time, provided that an idle bucket is a full one.
BucketSpec == Rate!BucketSpec

\* The promise that follows, for every window: sweeping idle addresses never
\* lets one of them have more than a full bucket and what flows in.
WindowBound == Rate!WindowBound

\* MemTokens, which forgets expired tokens only when asked, and RedisTokens, with
\* failing commands and clients that present keys, are both TokenStores.
TokenStores ==
    /\ [](Mem!TypeOK /\ Redis!TypeOK)
    /\ Mem!StoreSpec
    /\ Redis!StoreSpec

\* loadDeckOrDefault: a match begins with decks that are valid under the card
\* table in use, whatever tables the decks were saved under.
PlayableDecks == Decks!PlayableDecks

\* ReplayReport shows a match as it was played, or answers cards_changed.
ReplaysTheGame == Decks!ReplaysTheGame

\* ListReports: the list is the player's newest matches, newest first, each once.
ListIsNewest == Lists!ListIsNewest

=============================================================================
