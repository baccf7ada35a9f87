-------------------------------- MODULE Login --------------------------------
(***************************************************************************)
(* POST /login: handlers that run at the same time over one users table,   *)
(* with Slots bcrypt computations at once.  A handler reads the stored     *)
(* password once and acts on it later, after waiting for a slot, perhaps   *)
(* twice.  The rate limiter is LoginLimit's and the token store            *)
(* TokenStore's: here they may answer either way.                          *)
(***************************************************************************)
EXTENDS Integers, FiniteSets

CONSTANTS
    Req,        \* the handlers that may run at once
    User,       \* the accounts
    Nobody,     \* a name without an account
    Password,
    Real,       \* Real[u]: the password of account u
    TooLong,    \* passwords over 72 bytes: GenerateFromPassword refuses them
    Slots       \* cap(bcryptSem)

VARIABLES
    stored,     \* users.password: [hashed, pw]; bcrypt tells passwords apart
    req         \* request -> its handler

vars == <<stored, req>>

Stored == [hashed : BOOLEAN, pw : Password]

\* A handler: where it is, what the client sent, what was read, the bcrypt
\* computations it has cost, and the answer.
Handler == [pc : {"arrive", "find", "wait", "work", "update", "issue", "done"},
            job : {"none", "compare", "burn", "hash"},
            user : User \cup {Nobody}, pw : Password, seen : Stored,
            cost : Nat, code : {0, 200, 400, 401, 405, 429, 500, 503}]

NewHandler(user, pw) ==
    [pc |-> "arrive", job |-> "none", user |-> user, pw |-> pw,
     seen |-> [hashed |-> FALSE, pw |-> pw], cost |-> 0, code |-> 0]

\* Some accounts still have the old plain text.
Init ==
    /\ stored \in {s \in [User -> Stored] : \A u \in User : s[u].pw = Real[u]
                                            /\ (Real[u] \in TooLong => ~s[u].hashed)}
    /\ req \in [Req -> {NewHandler(Nobody, pw) : pw \in Password}]

At(r, pc) == req[r].pc = pc
Go(r, h) == req' = [req EXCEPT ![r] = h]
Answer(r, code) == Go(r, [req[r] EXCEPT !.pc = "done", !.code = code])
Wait(h, job) == [h EXCEPT !.pc = "wait", !.job = job]

\* Turned away before anything is looked up: the wrong method, too many
\* requests, or a body that is no JSON or too long.
TurnAway(r) ==
    /\ At(r, "arrive")
    /\ \E code \in {400, 405, 429} : Answer(r, code)
    /\ UNCHANGED stored

Accept(r) ==
    /\ At(r, "arrive")
    /\ Go(r, [req[r] EXCEPT !.pc = "find"])
    /\ UNCHANGED stored

\* Fault: plain text is always upgraded.
checkPassword_Eager(h) == Wait(h, IF h.seen.hashed THEN "compare" ELSE "hash")

\* checkPassword up to its first computation: a hash is compared; plain text
\* that is right is to be hashed; plain text that is wrong burns one.
checkPassword(h) ==
    Wait(h, IF h.seen.hashed THEN "compare"
            ELSE IF h.seen.pw = h.pw THEN "hash"
            ELSE "burn")

\* FindUserByName, then burnPasswordCheck or checkPassword.
Find(r) ==
    /\ At(r, "find")
    /\ LET h == req[r]
       IN  IF h.user = Nobody THEN Go(r, Wait(h, "burn"))
           ELSE Go(r, checkPassword([h EXCEPT !.seen = stored[h.user]]))
    /\ UNCHANGED stored

FindFails(r) ==
    /\ At(r, "find")
    /\ Answer(r, 500)
    /\ UNCHANGED stored

Working == {r \in Req : At(r, "work")}

\* withBcryptSlot: bcryptSem <- struct{}{}.
Acquire(r) ==
    /\ At(r, "wait")
    /\ Cardinality(Working) < Slots
    /\ Go(r, [req[r] EXCEPT !.pc = "work"])
    /\ UNCHANGED stored

\* Fault: a hash that cannot be made is tried again (without end, and uncounted).
Computed_Fault(h) ==
    CASE h.job = "burn" -> [h EXCEPT !.pc = "done", !.code = 401]
      [] h.job = "compare" -> IF h.seen.pw = h.pw THEN [h EXCEPT !.pc = "issue"]
                              ELSE [h EXCEPT !.pc = "done", !.code = 401]
      [] h.job = "hash" -> IF h.pw \in TooLong THEN [h EXCEPT !.pc = "wait", !.cost = 0]
                           ELSE [h EXCEPT !.pc = "update"]

\* What bcrypt's verdict leads to: 401, the token, or the upgraded password.
Computed(h) ==
    CASE h.job = "burn" -> [h EXCEPT !.pc = "done", !.code = 401]
      [] h.job = "compare" -> IF h.seen.pw = h.pw THEN [h EXCEPT !.pc = "issue"]
                              ELSE [h EXCEPT !.pc = "done", !.code = 401]
      [] h.job = "hash" -> [h EXCEPT !.pc = IF h.pw \in TooLong THEN "issue" ELSE "update"]

\* The computation ends and gives its slot back.
Compute(r) ==
    /\ At(r, "work")
    /\ Go(r, Computed([req[r] EXCEPT !.cost = req[r].cost + 1]))
    /\ UNCHANGED stored

\* UpdatePassword: an error is only logged, and the row may have been written.
Update(r) ==
    /\ At(r, "update")
    /\ Go(r, [req[r] EXCEPT !.pc = "issue"])
    /\ \/ stored' = [stored EXCEPT ![req[r].user] = [hashed |-> TRUE, pw |-> req[r].pw]]
       \/ UNCHANGED stored

Issue(r) ==
    /\ At(r, "issue")
    /\ \E code \in {200, 503} : Answer(r, code)
    /\ UNCHANGED stored

\* The next request takes the handler's place.
Arrive(r) ==
    /\ At(r, "done")
    /\ \E user \in User \cup {Nobody}, pw \in Password : Go(r, NewHandler(user, pw))
    /\ UNCHANGED stored

Handle(r) ==
    TurnAway(r) \/ Accept(r) \/ Find(r) \/ FindFails(r) \/ Compute(r) \/ Update(r) \/ Issue(r)

Next == \E r \in Req : Handle(r) \/ Acquire(r) \/ Arrive(r)

\* A goroutine runs on; a channel serves its waiting senders in turn, so that
\* a handler is not passed over for ever.
Fairness == \A r \in Req : WF_vars(Handle(r)) /\ SF_vars(Acquire(r))

Spec == Init /\ [][Next]_vars /\ Fairness

-----------------------------------------------------------------------------
TypeOK ==
    /\ stored \in [User -> Stored]
    /\ req \in [Req -> Handler]
    /\ Cardinality(Working) <= Slots

\* Whatever logins race to upgrade an account, its owner's password opens it,
\* and no other does: neither the table nor what a waiting handler has read of
\* it is ever wrong.
StillOpens ==
    /\ \A u \in User : stored[u].pw = Real[u]
    /\ \A r \in Req : req[r].code = 200 => req[r].user # Nobody /\ req[r].pw = Real[req[r].user]

\* password.go: how long a refusal takes does not depend on whether the name
\* exists or its account was migrated.  Every 401 has cost one computation,
\* and what was turned away has cost none.
EqualWork ==
    \A r \in Req : At(r, "done") =>
        /\ req[r].code = 401 => req[r].cost = 1
        /\ req[r].code \in {400, 405, 429, 500} => req[r].cost = 0

\* What holds of the accounts and of every handler, however they race: right
\* verdicts at equal cost, and no more computations at once than slots.
LoginInv == TypeOK /\ StillOpens /\ EqualWork

\* Every login is answered, however many wait for a slot.
Answered == \A r \in Req : At(r, "find") ~> At(r, "done")

=============================================================================
