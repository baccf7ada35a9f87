----------------------------- MODULE TokenStore -----------------------------
(***************************************************************************)
(* What a TokenStore promises: a token names the player it was issued to   *)
(* for exactly Life ticks, nothing else names anybody, and a store that    *)
(* cannot be asked says so (503) and never that the token is bad (401).    *)
(***************************************************************************)
EXTENDS Integers

CONSTANTS
    User,
    NoUser,   \* the "" that comes with an error
    Token,    \* what newToken may draw
    Junk,     \* what else a client may send as a token, the empty one included
    Life      \* ticks a token is good for

VARIABLES
    live,     \* token a client was given -> [user, left]
    drawn,    \* the tokens drawn so far
    reply     \* the last answer: the HTTP status, to which token, and whom it names

storeVars == <<live, drawn, reply>>

Reply == [code : {200, 401, 503}, token : Token \cup Junk, user : User \cup {NoUser}]
Invalid(token) == [code |-> 401, token |-> token, user |-> NoUser]
Unavailable(token) == [code |-> 503, token |-> token, user |-> NoUser]
Ok(token, user) == [code |-> 200, token |-> token, user |-> user]

Init == drawn = DOMAIN live /\ \E token \in Junk : reply = Invalid(token)

Issue(user, token) ==
    /\ token \notin drawn
    /\ drawn' = drawn \cup {token}
    /\ live' = [t \in DOMAIN live \cup {token} |->
                   IF t = token THEN [user |-> user, left |-> Life] ELSE live[t]]
    /\ reply' = Ok(token, user)

\* The token is lost: it was drawn, perhaps even stored, but given to nobody.
IssueFails(token) ==
    /\ token \notin drawn
    /\ drawn' = drawn \cup {token}
    /\ reply' = Unavailable(token)
    /\ UNCHANGED live

Lookup(token) ==
    /\ reply' = IF token \in DOMAIN live THEN Ok(token, live[token].user) ELSE Invalid(token)
    /\ UNCHANGED <<live, drawn>>

LookupFails(token) ==
    /\ reply' = Unavailable(token)
    /\ UNCHANGED <<live, drawn>>

Tick ==
    /\ live' = [t \in {t \in DOMAIN live : live[t].left > 1} |->
                   [live[t] EXCEPT !.left = live[t].left - 1]]
    /\ UNCHANGED <<drawn, reply>>

Next ==
    \/ Tick
    \/ \E token \in Token : IssueFails(token) \/ \E user \in User : Issue(user, token)
    \/ \E token \in Token \cup Junk : Lookup(token) \/ LookupFails(token)

Spec == Init /\ [][Next]_storeVars

=============================================================================
