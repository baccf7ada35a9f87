----------------------------- MODULE LoginLimit -----------------------------
(***************************************************************************)
(* The token buckets of internal/auth: limiter (one for each connection's  *)
(* commands) and IPLimiter (one limiter for each address that calls        *)
(* /login, made on demand and swept when idle).  A bucket is filled only   *)
(* when somebody asks.  Tokens are measured in units as in Bucket; the     *)
(* rounding of float64 is left out.                                        *)
(***************************************************************************)
EXTENDS Integers

CONSTANTS
    IP,
    Cost,          \* 1/rate: units in a token
    Burst,         \* burst, in units
    Idle,          \* ipIdle, in ticks
    SweepEvery,    \* time.Minute, in ticks
    Horizon        \* bound on the clock

VARIABLES
    now,         \* the clock
    m,           \* IPLimiter.m: address -> limiter
    lastSweep,   \* IPLimiter.lastSweep
    answer,      \* the last answer of Allow
    spent, base, \* history: units granted to each address since the time base
    called       \* history: time of the last call of Allow

vars == <<now, m, lastSweep, answer, spent, base, called>>

Limiter == [tokens : Int, last : Int]

\* lastSweep is the zero time: longer ago than any sweep interval.
Init ==
    /\ now = 0 /\ called = 0
    /\ m = [ip \in {} |-> <<>>]
    /\ lastSweep = -SweepEvery - 1
    /\ answer \in [ip : IP, ok : BOOLEAN]
    /\ spent = [ip \in IP |-> 0]
    /\ base = 0

-----------------------------------------------------------------------------
(***************************************************************************)
(* limiter.                                                                *)
(***************************************************************************)
newLimiter == [tokens |-> Burst, last |-> now]

Refilled(l) ==
    LET tokens == l.tokens + (now - l.last)
    IN  IF tokens > Burst THEN Burst ELSE tokens

Granted(l) == Refilled(l) >= Cost

\* Fault: a refused call leaves last alone but keeps what was filled in.
AllowLimiter_Fault(l) ==
    IF Granted(l) THEN [tokens |-> Refilled(l) - Cost, last |-> now]
    ELSE [tokens |-> Refilled(l), last |-> l.last]

\* limiter.Allow: the bucket it leaves behind.
AllowLimiter(l) ==
    [tokens |-> IF Granted(l) THEN Refilled(l) - Cost ELSE Refilled(l), last |-> now]

-----------------------------------------------------------------------------
(***************************************************************************)
(* IPLimiter.                                                              *)
(***************************************************************************)
\* Fault: nobody is idle.
Kept_Fault == DOMAIN m

\* Fault: idle is measured against the sweep interval.
Kept_Short == {ip \in DOMAIN m : now - m[ip].last <= SweepEvery}

\* sweep keeps the limiters that were used within ipIdle.
Kept == {ip \in DOMAIN m : now - m[ip].last <= Idle}

SweepDue == now - lastSweep > SweepEvery

\* The addresses in the map after the sweep, if there is one, and the limiter
\* of ip: the one in the map, or a new one.
Remaining == IF SweepDue THEN Kept ELSE DOMAIN m
LimiterOf(ip) == IF ip \in Remaining THEN m[ip] ELSE newLimiter

Allow(ip) ==
    LET l == LimiterOf(ip)
    IN  /\ lastSweep' = IF SweepDue THEN now ELSE lastSweep
        /\ m' = [x \in Remaining \cup {ip} |-> IF x = ip THEN AllowLimiter(l) ELSE m[x]]
        /\ answer' = [ip |-> ip, ok |-> Granted(l)]
        /\ spent' = IF Granted(l) THEN [spent EXCEPT ![ip] = spent[ip] + Cost] ELSE spent
        /\ called' = now
        /\ UNCHANGED <<now, base>>

Tick ==
    /\ now < Horizon
    /\ now' = now + 1
    /\ UNCHANGED <<m, lastSweep, answer, spent, base, called>>

\* The observer begins a new window.
Watch ==
    /\ base' = now
    /\ spent' = [ip \in IP |-> 0]
    /\ UNCHANGED <<now, m, lastSweep, answer, called>>

Next == Tick \/ Watch \/ \E ip \in IP : Allow(ip)

Spec == Init /\ [][Next]_vars

-----------------------------------------------------------------------------
TypeOK ==
    /\ now \in 0 .. Horizon /\ called \in 0 .. now /\ base \in 0 .. now
    /\ lastSweep \in Int /\ lastSweep <= now
    /\ DOMAIN m \subseteq IP
    /\ \A ip \in DOMAIN m : m[ip] \in Limiter /\ m[ip].tokens \in 0 .. Burst
                            /\ m[ip].last \in 0 .. now
    /\ answer \in [ip : IP, ok : BOOLEAN]
    /\ spent \in [IP -> Nat]

\* sweep, "so that the map does not grow for ever": when Allow has been called,
\* no address is kept that was silent for longer than ipIdle and a minute.
MapBounded == \A ip \in DOMAIN m : called - m[ip].last <= Idle + SweepEvery

\* What each address would find in its bucket: a full one if it has none.
Credit ==
    [ip \in IP |-> IF ip \in DOMAIN m THEN Refilled(m[ip]) ELSE Burst]

\* A bucket filled on demand, and forgotten when idle, is a bucket that fills
\* all the time, provided that an idle bucket is a full one (Idle >= Burst).
Promise == INSTANCE Bucket WITH credit <- Credit, elapsed <- now - base
BucketSpec == Promise!Spec

\* The promise that follows, for every window: sweeping idle addresses never
\* lets one of them have more than a full bucket and what flows in.
WindowBound == Promise!WindowBound

=============================================================================
