------------------------------ MODULE MemTokens ------------------------------
(***************************************************************************)
(* MemTokens, the token table inside the process: an expired entry stays   *)
(* in the map until somebody asks for it.  Each operation holds the mutex, *)
(* so each is a step.                                                      *)
(***************************************************************************)
EXTENDS Integers

CONSTANTS
    User, Token, Junk,
    NoUser,     \* the "" that comes with an error
    ttl,        \* MemTokens.ttl, in ticks
    Seed,       \* the tokens NewMemTokens is given, ...
    SeedUser,   \* ... all for this player
    Horizon     \* bound on the clock

VARIABLES
    now,
    m,        \* token -> [username, expires]
    drawn,    \* the tokens newToken has made
    reply     \* history: the last answer, and to which token

vars == <<now, m, drawn, reply>>

Invalid(token) == [code |-> 401, token |-> token, user |-> NoUser]
Ok(token, user) == [code |-> 200, token |-> token, user |-> user]

\* NewMemTokens.
Init ==
    /\ now = 0
    /\ m = [t \in Seed |-> [username |-> SeedUser, expires |-> now + ttl]]
    /\ drawn = Seed
    /\ reply = Invalid(CHOOSE t \in Junk : TRUE)

\* newToken reads 32 random bytes: a token that was never drawn.
newToken == Token \ drawn

Issue(user, token) ==
    /\ token \in newToken
    /\ drawn' = drawn \cup {token}
    /\ m' = [t \in DOMAIN m \cup {token} |->
                IF t = token THEN [username |-> user, expires |-> now + ttl] ELSE m[t]]
    /\ reply' = Ok(token, user)
    /\ UNCHANGED now

\* now.Before(expires), for a token that is in the map.
Fresh(token) == now < m[token].expires

\* Fault: a token that is used lives on.
Lookup_Sliding(token) ==
    LET there == token \in DOMAIN m
        good == there /\ Fresh(token)
    IN  /\ m' = IF good THEN [m EXCEPT ![token].expires = m[token].expires + ttl] ELSE m
        /\ reply' = IF good THEN Ok(token, m[token].username) ELSE Invalid(token)
        /\ UNCHANGED <<now, drawn>>

\* Lookup, as PlayerFromToken and tokenErr pass it on: a missing header is no
\* token, and no token is in the map.
Lookup(token) ==
    LET there == token \in DOMAIN m
        good == there /\ Fresh(token)
    IN  /\ m' = IF there /\ ~good THEN [t \in DOMAIN m \ {token} |-> m[t]] ELSE m
        /\ reply' = IF good THEN Ok(token, m[token].username) ELSE Invalid(token)
        /\ UNCHANGED <<now, drawn>>

Tick ==
    /\ now < Horizon
    /\ now' = now + 1
    /\ UNCHANGED <<m, drawn, reply>>

Next ==
    \/ Tick
    \/ \E user \in User, token \in Token : Issue(user, token)
    \/ \E token \in drawn \cup Junk : Lookup(token)

Spec == Init /\ [][Next]_vars

-----------------------------------------------------------------------------
TypeOK ==
    /\ now \in 0 .. Horizon
    /\ DOMAIN m \subseteq drawn /\ drawn \subseteq Token
    /\ \A t \in DOMAIN m : /\ m[t] \in [username : User, expires : Nat]
                           /\ m[t].expires <= now + ttl
    /\ reply \in [code : {200, 401}, token : drawn \cup Junk, user : User \cup {NoUser}]

\* The entries that an answer would still go by.
Live == [t \in {t \in DOMAIN m : Fresh(t)} |->
            [user |-> m[t].username, left |-> m[t].expires - now]]

\* A table that forgets expired tokens only when asked is a TokenStore; so a token
\* that was refused once is never good again, nor lives on because it is used.
Promise == INSTANCE TokenStore WITH live <- Live, Life <- ttl
StoreSpec == Promise!Spec

=============================================================================
