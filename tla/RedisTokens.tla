----------------------------- MODULE RedisTokens -----------------------------
(***************************************************************************)
(* RedisTokens: a token is a key in Redis, stored under its hash, which    *)
(* Redis deletes when its time is up.  Any command may fail, before or     *)
(* after Redis has executed it.  A command and its answer are one step.    *)
(***************************************************************************)
EXTENDS Integers

CONSTANTS
    User, Token,
    NoUser,     \* the "" that comes with an error
    NoToken,    \* a missing header or an empty token
    TTL,        \* RedisTokens.TTL
    TokenTTL    \* the default

VARIABLES
    keys,     \* Redis: key -> [username, pttl]
    told,     \* the tokens that clients hold
    drawn,    \* the tokens newToken has made
    reply     \* history: the last answer, and to which token

vars == <<keys, told, drawn, reply>>

Invalid(token) == [code |-> 401, token |-> token, user |-> NoUser]
Unavailable(token) == [code |-> 503, token |-> token, user |-> NoUser]
Ok(token, user) == [code |-> 200, token |-> token, user |-> user]

\* sha256: a key is no token, and tells tokens apart.
tokenKey(token) == [tok |-> token]

ttl == IF TTL <= 0 THEN TokenTTL ELSE TTL

\* What a client may send: a token it holds, nothing, or a key read from a
\* dump of Redis.
Sent == told \cup {NoToken} \cup {tokenKey(t) : t \in drawn}

Init ==
    /\ keys = [k \in {} |-> <<>>]
    /\ told = {} /\ drawn = {}
    /\ reply = Invalid(NoToken)

newToken == Token \ drawn

\* SET key username EX ttl.
Set(token, user) ==
    keys' = [k \in DOMAIN keys \cup {tokenKey(token)} |->
                IF k = tokenKey(token) THEN [username |-> user, pttl |-> ttl] ELSE keys[k]]

Issue(user, token) ==
    /\ token \in newToken
    /\ drawn' = drawn \cup {token}
    /\ Set(token, user)
    /\ told' = told \cup {token}
    /\ reply' = Ok(token, user)

\* The connection breaks: the client gets 503 and no token, whether or not
\* the key was written.
IssueFails(user, token) ==
    /\ token \in newToken
    /\ drawn' = drawn \cup {token}
    /\ Set(token, user) \/ UNCHANGED keys
    /\ reply' = Unavailable(token)
    /\ UNCHANGED told

Lookup(token) ==
    /\ reply' = IF token # NoToken /\ tokenKey(token) \in DOMAIN keys
                THEN Ok(token, keys[tokenKey(token)].username)
                ELSE Invalid(token)
    /\ UNCHANGED <<keys, told, drawn>>

\* Fault: an error is taken for redis.Nil.
LookupFails_Fault(token) ==
    /\ token # NoToken
    /\ reply' = Invalid(token)
    /\ UNCHANGED <<keys, told, drawn>>

\* GET fails: tokenErr answers 503.
LookupFails(token) ==
    /\ token # NoToken
    /\ reply' = Unavailable(token)
    /\ UNCHANGED <<keys, told, drawn>>

\* Time passes in Redis.
Expire ==
    /\ keys' = [k \in {k \in DOMAIN keys : keys[k].pttl > 1} |->
                   [keys[k] EXCEPT !.pttl = keys[k].pttl - 1]]
    /\ UNCHANGED <<told, drawn, reply>>

Next ==
    \/ Expire
    \/ \E user \in User, token \in Token : Issue(user, token) \/ IssueFails(user, token)
    \/ \E token \in Sent : Lookup(token) \/ LookupFails(token)

Spec == Init /\ [][Next]_vars

-----------------------------------------------------------------------------
TypeOK ==
    /\ told \subseteq drawn /\ drawn \subseteq Token
    /\ DOMAIN keys \subseteq {tokenKey(t) : t \in drawn}
    /\ \A k \in DOMAIN keys : keys[k] \in [username : User, pttl : 1 .. ttl]
    /\ reply \in [code : {200, 401, 503}, token : drawn \cup {NoToken} \cup {tokenKey(t) : t \in drawn},
                 user : User \cup {NoUser}]

\* The keys that belong to a token some client holds.
Live == [t \in {t \in told : tokenKey(t) \in DOMAIN keys} |->
            [user |-> keys[tokenKey(t)].username, left |-> keys[tokenKey(t)].pttl]]

\* Redis keys with a TTL are a TokenStore, failures and dumped keys included:
\* a key that was written although SET failed names nobody.
Promise == INSTANCE TokenStore WITH live <- Live, Life <- ttl,
    Junk <- {NoToken} \cup {tokenKey(t) : t \in Token}
StoreSpec == Promise!Spec

=============================================================================
