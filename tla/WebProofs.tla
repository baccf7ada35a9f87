----------------------------- MODULE WebProofs -----------------------------
(***************************************************************************)
(* Proofs about Web, for every set of users, addresses, tokens, card       *)
(* tables, matches and requests: what holds of the logins whatever         *)
(* handlers race, that the limiters are buckets that fill all the time,    *)
(* that both token stores are TokenStores, that decks are playable, that a *)
(* replay shows what was played, and that a list of reports is the newest. *)
(***************************************************************************)
EXTENDS Web, FiniteSetTheorems, SequenceTheorems, TLAPS

\* Every module that Web instantiates has its own name for Cardinality.
LEMMA SameCount ==
    ASSUME NEW S
    PROVE  Logins!Cardinality(S) = Cardinality(S) /\ Decks!Cardinality(S) = Cardinality(S)
           /\ Lists!Cardinality(S) = Cardinality(S)
  BY DEF Logins!Cardinality, Decks!Cardinality, Lists!Cardinality, Cardinality

LEMMA UpTo == \A n \in Nat : IsFiniteSet(1 .. n) /\ Cardinality(1 .. n) = n
<1> TAKE n \in Nat
<1>1. IsFiniteSet(1 .. n) /\ Cardinality(1 .. n) = IF 1 > n THEN 0 ELSE n - 1 + 1
  BY FS_Interval
<1> QED
  BY <1>1

-----------------------------------------------------------------------------
(***************************************************************************)
(* Login.                                                                  *)
(***************************************************************************)
\* What a handler that looked an account up knows: the owner's password, and,
\* once it is about to let the client in, that the client has sent it.
Knows(h) ==
    /\ h.pc \in {"arrive", "find", "wait", "work"} => h.cost = 0
    /\ h.pc \in {"wait", "work"} => h.job # "none"
    /\ h.pc \in {"wait", "work"} /\ h.job # "burn" =>
          h.user \in User /\ h.seen.pw = Real[h.user]
    /\ h.pc \in {"wait", "work"} /\ h.job = "hash" => h.pw = Real[h.user]
    /\ h.pc \in {"update", "issue"} => h.user \in User /\ h.pw = Real[h.user]
    /\ h.pc # "done" => h.code = 0

LoginIInv == LoginInv /\ \A r \in Req : Knows(req[r])

\* Only the handler of r moves: to h, which is a handler that knows what it must,
\* and which does not compute unless a slot was free.
LEMMA HandlerMoves ==
    ASSUME LoginIInv, NEW r \in Req, NEW h \in Logins!Handler, Logins!Go(r, h),
           stored' \in [User -> Logins!Stored], \A u \in User : stored'[u].pw = Real[u],
           Knows(h),
           h.code = 200 => h.user # Nobody /\ h.pw = Real[h.user],
           h.pc = "done" => /\ h.code = 401 => h.cost = 1
                            /\ h.code \in {400, 405, 429, 500} => h.cost = 0,
           h.pc = "work" => Cardinality(Logins!Working) < Slots
    PROVE  LoginIInv'
<1>1. /\ req' \in [Req -> Logins!Handler] /\ req'[r] = h
      /\ \A q \in Req \ {r} : req'[q] = req[q]
  BY DEF LoginIInv, LoginInv, Logins!LoginInv, Logins!TypeOK, Logins!Go
<1>2. Cardinality(Logins!Working') <= Slots
  <2>1. /\ IsFiniteSet(Logins!Working) /\ Cardinality(Logins!Working) <= Slots
        /\ Cardinality(Logins!Working) \in Nat
    <3>1. Logins!Working \subseteq Req
      BY DEF Logins!Working
    <3> QED
      BY <3>1, WebConstants, SameCount, FS_Subset, FS_CardinalityType
         DEF LoginIInv, LoginInv, Logins!LoginInv, Logins!TypeOK
  <2>2. CASE h.pc = "work"
    <3>1. Logins!Working' \subseteq Logins!Working \cup {r}
      BY <1>1 DEF Logins!Working, Logins!At
    <3>2. /\ IsFiniteSet(Logins!Working \cup {r})
          /\ Cardinality(Logins!Working \cup {r}) <= Cardinality(Logins!Working) + 1
      BY <2>1, FS_AddElement
    <3>3. /\ Cardinality(Logins!Working') <= Cardinality(Logins!Working \cup {r})
          /\ IsFiniteSet(Logins!Working')
      BY <3>1, <3>2, FS_Subset
    <3>4. /\ Cardinality(Logins!Working') \in Nat
          /\ Cardinality(Logins!Working \cup {r}) \in Nat
      BY <3>2, <3>3, FS_CardinalityType
    <3>5. Cardinality(Logins!Working) < Slots /\ Slots \in Nat
      BY <2>2, WebConstants
    <3> QED
      BY <2>1, <3>2, <3>3, <3>4, <3>5
  <2>3. CASE h.pc # "work"
    <3>1. Logins!Working' \subseteq Logins!Working
      BY <1>1, <2>3 DEF Logins!Working, Logins!At
    <3>2. /\ Cardinality(Logins!Working') <= Cardinality(Logins!Working)
          /\ IsFiniteSet(Logins!Working')
      BY <2>1, <3>1, FS_Subset
    <3>3. Cardinality(Logins!Working') \in Nat /\ Slots \in Nat
      BY <3>2, FS_CardinalityType, WebConstants
    <3> QED
      BY <2>1, <3>2, <3>3
  <2> QED
    BY <2>2, <2>3
<1>3. Logins!StillOpens'
  BY <1>1 DEF LoginIInv, LoginInv, Logins!LoginInv, Logins!StillOpens
<1>4. Logins!EqualWork'
  BY <1>1 DEF LoginIInv, LoginInv, Logins!LoginInv, Logins!EqualWork, Logins!At
<1>5. \A q \in Req : Knows(req'[q])
  BY <1>1 DEF LoginIInv
<1> QED
  BY <1>1, <1>2, <1>3, <1>4, <1>5, SameCount DEF LoginIInv, LoginInv, Logins!LoginInv, Logins!TypeOK

\* The record of a handler after some of its fields have changed.
LEMMA HandlerAt ==
    ASSUME NEW h \in Logins!Handler,
           NEW pc \in {"arrive", "find", "wait", "work", "update", "issue", "done"}
    PROVE  [h EXCEPT !.pc = pc] \in Logins!Handler
  BY DEF Logins!Handler

Codes == {0, 200, 400, 401, 405, 429, 500, 503}

Done(h, code) == [h EXCEPT !.pc = "done", !.code = code]

LEMMA HandlerCode ==
    ASSUME NEW h \in Logins!Handler, NEW code \in Codes
    PROVE  Done(h, code) \in Logins!Handler
<1>1. [h EXCEPT !.pc = "done"] \in Logins!Handler
  BY HandlerAt
<1>2. \A g \in Logins!Handler : [g EXCEPT !.code = code] \in Logins!Handler
  BY DEF Logins!Handler, Codes
<1> QED
  BY <1>1, <1>2 DEF Done

LEMMA HandlerWaits ==
    ASSUME NEW h \in Logins!Handler, NEW job \in {"none", "compare", "burn", "hash"}
    PROVE  Logins!Wait(h, job) \in Logins!Handler
<1>1. [h EXCEPT !.pc = "wait"] \in Logins!Handler
  BY HandlerAt
<1>2. \A g \in Logins!Handler : [g EXCEPT !.job = job] \in Logins!Handler
  BY DEF Logins!Handler
<1> QED
  BY <1>1, <1>2 DEF Logins!Wait

LEMMA HandlerSees ==
    ASSUME NEW h \in Logins!Handler, NEW seen \in Logins!Stored
    PROVE  [h EXCEPT !.seen = seen] \in Logins!Handler
  BY DEF Logins!Handler

\* A handler that answers.
LEMMA AnswerInv ==
    ASSUME LoginIInv, NEW r \in Req, stored' = stored, req[r].pc # "done",
           NEW code \in {200, 400, 401, 405, 429, 500, 503}, Logins!Answer(r, code),
           code = 200 => req[r].user # Nobody /\ req[r].pw = Real[req[r].user],
           code = 401 => req[r].cost = 1,
           code \in {400, 405, 429, 500} => req[r].cost = 0
    PROVE  LoginIInv'
<1> DEFINE h == Done(req[r], code)
<1>1. /\ req[r] \in Logins!Handler
      /\ stored \in [User -> Logins!Stored] /\ \A u \in User : stored[u].pw = Real[u]
  BY DEF LoginIInv, LoginInv, Logins!LoginInv, Logins!TypeOK, Logins!StillOpens
<1>2. h \in Logins!Handler
  <2>1. code \in Codes
    BY DEF Codes
  <2> QED
    BY <1>1, <2>1, HandlerCode
<1>3. h.pc = "done" /\ h.code = code /\ h.cost = req[r].cost /\ h.user = req[r].user
      /\ h.pw = req[r].pw
  BY <1>1 DEF Logins!Handler, Done
<1>4. Logins!Go(r, h)
  BY DEF Logins!Answer, Done
<1> HIDE DEF h
<1>5. Knows(h)
  BY <1>3 DEF Knows
<1> QED
  BY <1>1, <1>2, <1>3, <1>4, <1>5, HandlerMoves

\* A handler that goes on, to a place that is not the end.
LEMMA GoesOn ==
    ASSUME LoginIInv, NEW r \in Req, NEW h \in Logins!Handler, Logins!Go(r, h),
           stored' = stored, Knows(h), h.pc \notin {"done", "work"}
    PROVE  LoginIInv'
<1>1. stored \in [User -> Logins!Stored] /\ \A u \in User : stored[u].pw = Real[u]
  BY DEF LoginIInv, LoginInv, Logins!LoginInv, Logins!TypeOK, Logins!StillOpens
<1>2. h.code = 0
  BY DEF Knows
<1> QED
  BY <1>1, <1>2, HandlerMoves

LEMMA HandleInv ==
    ASSUME LoginIInv, NEW r \in Req,
           Logins!Handle(r) \/ Logins!Acquire(r) \/ Logins!Arrive(r)
    PROVE  LoginIInv'
<1>1. /\ req[r] \in Logins!Handler /\ Knows(req[r])
      /\ stored \in [User -> Logins!Stored] /\ \A u \in User : stored[u].pw = Real[u]
      /\ Real \in [User -> Password] /\ Nobody \notin User
  BY WebConstants DEF LoginIInv, LoginInv, Logins!LoginInv, Logins!TypeOK, Logins!StillOpens
<1>2. CASE Logins!TurnAway(r)
  BY <1>1, <1>2, AnswerInv DEF Logins!TurnAway, Logins!At, Knows
<1>3. CASE Logins!FindFails(r)
  BY <1>1, <1>3, AnswerInv DEF Logins!FindFails, Logins!At, Knows
<1>4. CASE Logins!Issue(r)
  BY <1>1, <1>4, AnswerInv DEF Logins!Issue, Logins!At, Knows
<1>5. CASE Logins!Accept(r)
  <2> DEFINE h == [req[r] EXCEPT !.pc = "find"]
  <2>1. h \in Logins!Handler
    BY <1>1, HandlerAt
  <2>2. Knows(h) /\ h.pc = "find"
    BY <1>1, <1>5 DEF Logins!Accept, Logins!At, Logins!Handler, Knows
  <2> QED
    BY <1>5, <2>1, <2>2, GoesOn DEF Logins!Accept
<1>6. CASE Logins!Find(r)
  <2>1. ASSUME NEW seen \in Logins!Stored, NEW job \in {"compare", "burn", "hash"},
               job # "burn" => req[r].user \in User /\ seen.pw = Real[req[r].user],
               job = "hash" => req[r].pw = seen.pw,
               Logins!Go(r, Logins!Wait([req[r] EXCEPT !.seen = seen], job))
        PROVE  LoginIInv'
    <3> DEFINE g == [req[r] EXCEPT !.seen = seen]
               h == Logins!Wait(g, job)
    <3>1. g \in Logins!Handler
      BY <1>1, HandlerSees
    <3>2. /\ g.cost = 0 /\ g.user = req[r].user /\ g.pw = req[r].pw
          /\ g.seen = seen /\ g.code = 0
      BY <1>1, <1>6 DEF Logins!Find, Logins!At, Logins!Handler, Knows
    <3> HIDE DEF g
    <3>3. h \in Logins!Handler
      BY <3>1, HandlerWaits
    <3>4. /\ h.pc = "wait" /\ h.job = job /\ h.cost = 0 /\ h.user = req[r].user
          /\ h.pw = req[r].pw /\ h.seen = seen /\ h.code = 0
      BY <3>1, <3>2 DEF Logins!Wait, Logins!Handler
    <3>5. Logins!Go(r, h)
      BY <2>1 DEF g
    <3> HIDE DEF h
    <3>6. Knows(h)
      BY <2>1, <3>4 DEF Knows
    <3>7. stored' = stored
      BY <1>6 DEF Logins!Find
    <3> QED
      BY <3>3, <3>4, <3>5, <3>6, <3>7, GoesOn
  <2>2. req[r].seen \in Logins!Stored /\ req[r].user \in User \cup {Nobody}
    BY <1>1 DEF Logins!Handler
  <2>3. CASE req[r].user = Nobody
    <3>1. Logins!Go(r, Logins!Wait([req[r] EXCEPT !.seen = req[r].seen], "burn"))
      <4>1. [req[r] EXCEPT !.seen = req[r].seen] = req[r]
        BY <1>1 DEF Logins!Handler
      <4> QED
        BY <1>6, <2>3, <4>1 DEF Logins!Find
    <3> QED
      BY <2>1, <2>2, <3>1
  <2>4. CASE req[r].user # Nobody
    <3> DEFINE u == req[r].user
               g == [req[r] EXCEPT !.seen = stored[u]]
    <3>1. u \in User /\ stored[u] \in Logins!Stored /\ stored[u].pw = Real[u]
      BY <1>1, <2>2, <2>4
    <3>2. g.seen = stored[u] /\ g.pw = req[r].pw
      BY <1>1 DEF Logins!Handler
    <3>3. Logins!Go(r, Logins!checkPassword(g))
      BY <1>6, <2>4 DEF Logins!Find
    <3>4. PICK job \in {"compare", "burn", "hash"} :
             /\ Logins!checkPassword(g) = Logins!Wait(g, job)
             /\ job = "hash" => g.seen.pw = g.pw
      <4> HIDE DEF g
      <4> QED
        BY DEF Logins!checkPassword
    <3> QED
      BY <2>1, <3>1, <3>2, <3>3, <3>4
  <2> QED
    BY <2>3, <2>4
<1>7. CASE Logins!Acquire(r)
  <2> DEFINE h == [req[r] EXCEPT !.pc = "work"]
  <2>1. h \in Logins!Handler
    BY <1>1, HandlerAt
  <2>2. Knows(h) /\ h.pc = "work" /\ h.code = 0
    BY <1>1, <1>7 DEF Logins!Acquire, Logins!At, Logins!Handler, Knows
  <2>3. Logins!Go(r, h) /\ stored' = stored /\ Cardinality(Logins!Working) < Slots
    BY <1>7, SameCount DEF Logins!Acquire
  <2> HIDE DEF h
  <2> QED
    BY <1>1, <2>1, <2>2, <2>3, HandlerMoves
<1>8. CASE Logins!Compute(r)
  <2> DEFINE g == [req[r] EXCEPT !.cost = req[r].cost + 1]
             h == Logins!Computed(g)
  <2>1. req[r].cost = 0 /\ req[r].code = 0 /\ req[r].job \in {"compare", "burn", "hash"}
    BY <1>1, <1>8 DEF Logins!Compute, Logins!At, Logins!Handler, Knows
  <2>2. /\ g \in Logins!Handler /\ g.cost = 1 /\ g.code = 0 /\ g.job = req[r].job
        /\ g.user = req[r].user /\ g.pw = req[r].pw /\ g.seen = req[r].seen
    BY <1>1, <2>1 DEF Logins!Handler
  <2>3. Logins!Go(r, h) /\ stored' = stored
    BY <1>8 DEF Logins!Compute
  <2>4. /\ g.job # "burn" => g.user \in User /\ g.seen.pw = Real[g.user]
        /\ g.job = "hash" => g.pw = Real[g.user]
    BY <1>1, <1>8, <2>2 DEF Logins!Compute, Logins!At, Knows
  <2> HIDE DEF g
  <2>5. /\ h = [g EXCEPT !.pc = "done", !.code = 401]
        \/ /\ h = [g EXCEPT !.pc = "issue"] \/ h = [g EXCEPT !.pc = "update"]
           /\ g.user \in User /\ g.pw = Real[g.user]
    BY <2>1, <2>2, <2>4 DEF Logins!Computed
  <2>6. /\ h \in Logins!Handler /\ h.cost = 1 /\ h.user = g.user /\ h.pw = g.pw
        /\ \/ h.pc = "done" /\ h.code = 401
           \/ h.pc \in {"issue", "update"} /\ h.code = 0 /\ g.user \in User /\ g.pw = Real[g.user]
    <3> HIDE DEF h
    <3>1. CASE h = [g EXCEPT !.pc = "done", !.code = 401]
      <4>1. h \in Logins!Handler
        <5>1. 401 \in Codes /\ g \in Logins!Handler
          BY <2>2 DEF Codes
        <5>2. Done(g, 401) \in Logins!Handler
          BY <5>1, HandlerCode
        <5> QED
          BY <3>1, <5>2 DEF Done
      <4> QED
        BY <2>2, <3>1, <4>1 DEF Logins!Handler
    <3>2. ASSUME NEW pc \in {"issue", "update"}, h = [g EXCEPT !.pc = pc],
                 g.user \in User, g.pw = Real[g.user]
          PROVE  /\ h \in Logins!Handler /\ h.cost = 1 /\ h.user = g.user /\ h.pw = g.pw
                 /\ h.pc \in {"issue", "update"} /\ h.code = 0
      <4>1. h \in Logins!Handler
        BY <2>2, <3>2, HandlerAt
      <4> QED
        BY <2>2, <3>2, <4>1 DEF Logins!Handler
    <3> QED
      BY <2>5, <3>1, <3>2
  <2> HIDE DEF h
  <2>7. Knows(h)
    BY <2>6 DEF Knows
  <2> QED
    BY <1>1, <2>3, <2>6, <2>7, HandlerMoves
<1>9. CASE Logins!Update(r)
  <2> DEFINE h == [req[r] EXCEPT !.pc = "issue"]
  <2>1. h \in Logins!Handler
    BY <1>1, HandlerAt
  <2>2. Knows(h) /\ h.pc = "issue" /\ h.code = 0
    BY <1>1, <1>9 DEF Logins!Update, Logins!At, Logins!Handler, Knows
  <2>3. req[r].user \in User /\ req[r].pw = Real[req[r].user] /\ req[r].pw \in Password
    BY <1>1, <1>9 DEF Logins!Update, Logins!At, Logins!Handler, Knows
  <2>4. stored' \in [User -> Logins!Stored] /\ \A u \in User : stored'[u].pw = Real[u]
    <3>1. [hashed |-> TRUE, pw |-> req[r].pw] \in Logins!Stored
      BY <2>3 DEF Logins!Stored
    <3>2. \/ stored' = stored
          \/ stored' = [stored EXCEPT ![req[r].user] = [hashed |-> TRUE, pw |-> req[r].pw]]
      BY <1>9 DEF Logins!Update
    <3> QED
      BY <1>1, <2>3, <3>1, <3>2
  <2>5. Logins!Go(r, h)
    BY <1>9 DEF Logins!Update
  <2> HIDE DEF h
  <2> QED
    BY <2>1, <2>2, <2>4, <2>5, HandlerMoves
<1>10. CASE Logins!Arrive(r)
  <2>1. PICK user \in User \cup {Nobody}, pw \in Password :
           Logins!Go(r, Logins!NewHandler(user, pw))
    BY <1>10 DEF Logins!Arrive
  <2> DEFINE h == Logins!NewHandler(user, pw)
  <2>2. h \in Logins!Handler /\ Knows(h) /\ h.pc = "arrive"
    BY DEF Logins!NewHandler, Logins!Handler, Logins!Stored, Knows
  <2>3. stored' = stored
    BY <1>10 DEF Logins!Arrive
  <2> HIDE DEF h
  <2> QED
    BY <2>1, <2>2, <2>3, GoesOn DEF h
<1> QED
  BY <1>2, <1>3, <1>4, <1>5, <1>6, <1>7, <1>8, <1>9, <1>10 DEF Logins!Handle

LEMMA LoginInit == Init => LoginIInv
<1> SUFFICES ASSUME Init
             PROVE  LoginIInv
  OBVIOUS
<1>1. /\ stored \in [User -> Logins!Stored] /\ \A u \in User : stored[u].pw = Real[u]
      /\ req \in [Req -> {Logins!NewHandler(Nobody, pw) : pw \in Password}]
  BY DEF Init, Logins!Init
<1>2. \A r \in Req : /\ req[r] \in Logins!Handler /\ Knows(req[r])
                     /\ req[r].pc = "arrive" /\ req[r].code = 0
  <2> TAKE r \in Req
  <2>1. PICK pw \in Password : req[r] = Logins!NewHandler(Nobody, pw)
    BY <1>1
  <2> QED
    BY <2>1 DEF Logins!NewHandler, Logins!Handler, Logins!Stored, Knows
<1>3. req \in [Req -> Logins!Handler]
  BY <1>1, <1>2
<1>4. Logins!Cardinality(Logins!Working) <= Slots
  <2>1. Logins!Working = {}
    BY <1>2 DEF Logins!Working, Logins!At
  <2>2. Logins!Cardinality(Logins!Working) = 0
    BY <2>1, SameCount, FS_EmptySet
  <2>3. Slots \in Nat
    BY WebConstants
  <2> QED
    BY <2>2, <2>3
<1> QED
  BY <1>1, <1>2, <1>3, <1>4 DEF LoginIInv, LoginInv, Logins!LoginInv, Logins!TypeOK,
                                Logins!StillOpens, Logins!EqualWork, Logins!At

LEMMA LoginStep == LoginIInv /\ [Next]_vars => LoginIInv'
<1> SUFFICES ASSUME LoginIInv, [Next]_vars
             PROVE  LoginIInv'
  OBVIOUS
<1>1. CASE Logins!Next
  BY <1>1, HandleInv DEF Logins!Next
<1>2. CASE UNCHANGED logins
  BY <1>2 DEF logins, LoginIInv, LoginInv, Logins!LoginInv, Logins!TypeOK, Logins!StillOpens,
              Logins!EqualWork, Logins!At, Logins!Working
<1> QED
  BY <1>1, <1>2 DEF Next, LoginSteps, LimitSteps, MemSteps, RedisSteps, CardSteps, ReportSteps, vars

\* However many logins race to upgrade an account: its owner's password opens it
\* and no other does, every 401 has cost one computation, and no more than Slots
\* of them run at once.
THEOREM LoginsAreFair == Spec => []LoginInv
<1>1. LoginIInv => LoginInv
  BY DEF LoginIInv
<1> QED
  BY <1>1, LoginInit, LoginStep, PTL DEF Spec

-----------------------------------------------------------------------------
(***************************************************************************)
(* Cards.                                                                  *)
(***************************************************************************)
\* A table that was loaded is in use while the server is up, and decks are dealt
\* out of it only then.
DecksIInv ==
    /\ phase \in {"down", "loaded", "up"} /\ file \in CardFile
    /\ phase # "down" => cat \in CardFile /\ Decks!Load(cat)
    /\ phase = "down" => \A p \in User : decks[p] = None
    /\ PlayableDecks

\* The ids of a table that loaded are as many as its rows.
LEMMA FirstCards ==
    ASSUME NEW table \in Seq(Decks!Card),
           Decks!IsInjective(Decks!IDs(table)), NEW n \in Nat, n <= Len(table)
    PROVE  LET ids == {table[i].id : i \in 1 .. n}
           IN  IsFiniteSet(ids) /\ Cardinality(ids) = n
<1> DEFINE ids == {table[i].id : i \in 1 .. n}
           f == [i \in 1 .. n |-> table[i].id]
<1>1. /\ DOMAIN table = 1 .. Len(table) /\ Len(table) \in Nat
      /\ \A i \in 1 .. n : i \in DOMAIN table
  OBVIOUS
<1>2. f \in Surjection(1 .. n, ids)
  BY DEF Surjection
<1>3. f \in Injection(1 .. n, ids)
  <2>1. \A i, j \in 1 .. n : f[i] = f[j] => i = j
    BY <1>1 DEF Decks!IsInjective, Decks!IDs
  <2> QED
    BY <2>1 DEF Injection, IsInjective
<1>4. IsFiniteSet(1 .. n) /\ Cardinality(1 .. n) = n
  BY UpTo
<1> HIDE DEF ids, f
<1>5. IsFiniteSet(ids) /\ Cardinality(ids) = n
  BY <1>2, <1>3, <1>4, FS_Surjection
<1> QED
  BY <1>5 DEF ids

\* DefaultDeck: two of each of four to six cards is a deck.
LEMMA DefaultDeckIsGood ==
    ASSUME cat \in CardFile, Decks!Load(cat), Len(cat) >= 4
    PROVE  Decks!ValidateDeck(Decks!defaultDeck)
<1> DEFINE n == IF Len(cat) < 6 THEN Len(cat) ELSE 6
           ids == {cat[i].id : i \in 1 .. n}
           pairs == UNION {{id} \X (1 .. 2) : id \in ids}
<1>1. /\ cat \in Seq(Decks!Card)
      /\ Len(cat) \in Nat /\ DOMAIN cat = 1 .. Len(cat)
  <2>1. CardFile \subseteq Seq(Decks!Card)
    BY WebConstants
  <2> QED
    BY <2>1
<1>2. n \in 4 .. 6 /\ n <= Len(cat)
  BY <1>1
<1>3. IsFiniteSet(ids) /\ Cardinality(ids) = n
  <2>1. n \in Nat
    BY <1>2
  <2> HIDE DEF n
  <2> QED
    BY <1>1, <1>2, <2>1, FirstCards DEF Decks!Load
<1>4. Decks!defaultDeck = [id \in ids |-> 2]
  BY DEF Decks!defaultDeck
<1>5. Cardinality(pairs) \in 8 .. 12
  <2> HIDE DEF ids, n
  <2>1. pairs = ids \X (1 .. 2)
    OBVIOUS
  <2>2. IsFiniteSet(1 .. 2) /\ Cardinality(1 .. 2) = 2
    BY UpTo
  <2>3. Cardinality(pairs) = n * 2
    BY <1>3, <2>1, <2>2, FS_Product
  <2> QED
    BY <1>2, <2>3
<1>6. \A id \in ids : Decks!Has(id)
  <2> SUFFICES ASSUME NEW i \in 1 .. n
               PROVE  Decks!Has(cat[i].id)
    OBVIOUS
  <2>1. i \in DOMAIN cat
    BY <1>1, <1>2
  <2> QED
    BY <2>1 DEF Decks!Has, Decks!Range, Decks!IDs
<1> HIDE DEF ids, n
<1>7. Decks!Size(Decks!defaultDeck) = Cardinality(pairs)
  BY <1>4, SameCount DEF Decks!Size
<1> QED
  BY <1>4, <1>5, <1>6, <1>7 DEF Decks!ValidateDeck

LEMMA DecksStep == DecksIInv /\ [Next]_vars => DecksIInv'
<1> SUFFICES ASSUME DecksIInv, [Next]_vars
             PROVE  DecksIInv'
  OBVIOUS
<1> USE DEF PlayableDecks, Decks!PlayableDecks
\* The same table, and the same decks or none.
<1>1. ASSUME cat' = cat, file' \in CardFile, phase # "down", phase' \in {"loaded", "up"},
             decks' = decks \/ \A p \in User : decks'[p] = None
      PROVE  DecksIInv'
  BY <1>1 DEF DecksIInv, Decks!ValidateDeck, Decks!Has, Decks!IDs, Decks!Load
<1>2. ASSUME UNCHANGED <<cat, phase, decks>>, file' \in CardFile
      PROVE  DecksIInv'
  BY <1>2 DEF DecksIInv, Decks!ValidateDeck, Decks!Has, Decks!IDs, Decks!Load
<1>3. CASE UNCHANGED cards \/ Decks!Edit
  BY <1>2, <1>3 DEF cards, Decks!Edit, DecksIInv
<1>4. CASE Decks!LoadTable
  <2>1. /\ phase = "down" /\ phase' = "loaded" /\ decks' = decks /\ cat' = file
        /\ file' = file /\ Decks!Load(file)
    BY <1>4 DEF Decks!LoadTable
  <2>2. \A p \in User : decks'[p] = None
    BY <2>1 DEF DecksIInv
  <2> QED
    BY <2>1, <2>2 DEF DecksIInv, Decks!Load
<1>5. CASE \/ Decks!HashTable \/ Decks!Report
           \/ \E p \in User, deck \in Request : Decks!Savedecks(p, deck)
  <2>1. /\ cat' = cat /\ file' = file /\ phase # "down" /\ phase' = "up"
        /\ decks' = decks \/ \A p \in User : decks'[p] = None
    BY <1>5 DEF Decks!HashTable, Decks!Savedecks, Decks!Report
  <2> QED
    BY <1>1, <2>1 DEF DecksIInv
<1>6. CASE Decks!Stop
  BY <1>6 DEF Decks!Stop, DecksIInv
<1>7. ASSUME NEW p \in User, NEW q \in User, Decks!LoadDecks(p, q)
      PROVE  DecksIInv'
  <2>1. /\ cat' = cat /\ file' = file /\ phase = "up" /\ phase' = "up"
    BY <1>7 DEF Decks!LoadDecks
  <2>2. ASSUME NEW r \in User, decks'[r] # None, Len(cat) >= 4
        PROVE  Decks!ValidateDeck(decks'[r])
    <3>1. Decks!ValidateDeck(Decks!defaultDeck)
      BY <2>1, <2>2, DefaultDeckIsGood DEF DecksIInv
    <3>2. \A o \in User : Decks!ValidateDeck(Decks!loadDeckOrDefault(o))
      BY <3>1 DEF Decks!loadDeckOrDefault
    <3>3. PICK da \in {Decks!loadDeckOrDefault(p), Decks!defaultDeck},
               db \in {Decks!loadDeckOrDefault(q), Decks!defaultDeck} :
             decks' = [o \in User |-> CASE o = p -> da [] o = q -> db [] OTHER -> None]
      BY <1>7 DEF Decks!LoadDecks
    <3>4. Decks!ValidateDeck(da) /\ Decks!ValidateDeck(db)
      BY <3>1, <3>2
    <3>5. decks'[r] = da \/ decks'[r] = db
      BY <2>2, <3>3
    <3> QED
      BY <3>4, <3>5
  <2>3. PlayableDecks'
    BY <2>1, <2>2 DEF Decks!ValidateDeck, Decks!Has, Decks!IDs
  <2> QED
    BY <2>1, <2>3 DEF DecksIInv, Decks!Load
<1> QED
  BY <1>3, <1>4, <1>5, <1>6, <1>7 DEF Next, Decks!Next, LoginSteps, LimitSteps, MemSteps, 
                                      RedisSteps, CardSteps, ReportSteps, vars

\* A match begins with decks that can be played, whatever was saved when.
THEOREM DecksArePlayable == Spec => []PlayableDecks
<1>1. Init => DecksIInv
  BY DEF Init, Decks!Init, DecksIInv, PlayableDecks, Decks!PlayableDecks
<1>2. DecksIInv => PlayableDecks
  BY DEF DecksIInv
<1> QED
  BY <1>1, <1>2, DecksStep, PTL DEF Spec

\* What the two reads of a start have to do with each other, and with the reports
\* of a server that read the same table twice.
HashIInv ==
    /\ edited \in BOOLEAN
    /\ phase = "loaded" /\ ~edited => file = cat
    /\ phase = "up" /\ ~edited => hash = cat
    /\ \A rep \in reports : ~rep.edited => rep.cards_hash = rep.table

LEMMA HashStep == HashIInv /\ [Next]_vars => HashIInv'
<1> SUFFICES ASSUME HashIInv, [Next]_vars
             PROVE  HashIInv'
  OBVIOUS
<1> USE DEF HashIInv
<1>1. CASE Decks!Edit
  BY <1>1 DEF Decks!Edit
<1>2. CASE Decks!LoadTable
  BY <1>2 DEF Decks!LoadTable
<1>3. CASE Decks!HashTable
  BY <1>3 DEF Decks!HashTable
<1>4. CASE Decks!Stop
  BY <1>4 DEF Decks!Stop
<1>5. CASE Decks!Report
  <2> DEFINE seated == {p \in User : decks[p] # None}
             rep == [players |-> seated, cards_hash |-> hash, table |-> cat, edited |-> edited]
  <2>1. /\ phase = "up" /\ reports' = reports \cup {rep}
        /\ UNCHANGED <<file, phase, cat, hash, edited>>
    BY <1>5 DEF Decks!Report
  <2>2. ~rep.edited => rep.cards_hash = rep.table
    BY <2>1
  <2> HIDE DEF rep
  <2> QED
    BY <2>1, <2>2
<1>6. CASE \/ UNCHANGED cards
           \/ \E p \in User, deck \in Request : Decks!Savedecks(p, deck)
           \/ \E p, q \in User : Decks!LoadDecks(p, q)
  BY <1>6 DEF cards, Decks!Savedecks, Decks!LoadDecks
<1> QED
  BY <1>1, <1>2, <1>3, <1>4, <1>5, <1>6
     DEF Next, Decks!Next, LoginSteps, LimitSteps, MemSteps, RedisSteps, CardSteps, ReportSteps, vars

\* A report of a server that read the same table twice is answered, by one that
\* did so too, with the match as it was played, or with cards_changed, whatever
\* restarts and edits lie between the two.
THEOREM ReplaysAreTrue == Spec => []ReplaysTheGame
<1>1. Init => HashIInv
  BY DEF Init, Decks!Init, HashIInv
<1>2. HashIInv => ReplaysTheGame
  BY DEF HashIInv, ReplaysTheGame, Decks!ReplaysTheGame, Decks!ReplayReport, Decks!Build
<1> QED
  BY <1>1, <1>2, HashStep, PTL DEF Spec

-----------------------------------------------------------------------------
(***************************************************************************)
(* The limiters, for every rate, burst and interval.  The invariant is the *)
(* type together with Swept: no limiter was already idle at the last       *)
(* sweep.                                                                  *)
(***************************************************************************)
LEMMA LimitConstants ==
    /\ Cost \in Nat \ {0} /\ Burst \in Nat
    /\ {Idle, SweepEvery, LimitHorizon} \subseteq Nat
<1>1. Cost \in Nat \ {0} /\ {Burst, Idle, SweepEvery, LimitHorizon} \subseteq Nat
  BY WebConstants
<1> QED
  BY <1>1

\* The limiters are the part "limit" and nothing else touches them.
LEMMA OneLimiter == (Init => Rate!Init) /\ ([Next]_vars => [Rate!Next]_limit)
  BY DEF Init, Next, LoginSteps, LimitSteps, MemSteps, RedisSteps, CardSteps, ReportSteps, vars

Swept == /\ \A ip \in DOMAIN limiters : lastSweep - limiters[ip].last <= Idle
         /\ called - lastSweep <= SweepEvery \/ DOMAIN limiters = {}

LimitInv == Rate!TypeOK /\ Swept /\ Rate!MapBounded

\* limiter.Allow keeps a bucket between empty and full.
LEMMA AllowKeepsBucket ==
    ASSUME NEW l \in Rate!Limiter, l.tokens \in 0 .. Burst, clock \in Nat, l.last \in 0 .. clock
    PROVE  /\ Rate!Refilled(l) \in 0 .. Burst
           /\ Rate!AllowLimiter(l) \in Rate!Limiter
           /\ Rate!AllowLimiter(l).tokens \in 0 .. Burst
           /\ Rate!AllowLimiter(l).last = clock
           /\ Rate!AllowLimiter(l).tokens
                = IF Rate!Granted(l) THEN Rate!Refilled(l) - Cost ELSE Rate!Refilled(l)
<1>1. Rate!Refilled(l) \in 0 .. Burst
  BY LimitConstants DEF Rate!Refilled, Rate!Limiter
<1>2. ~Rate!Granted(l) \/ Rate!Refilled(l) - Cost \in 0 .. Burst
  BY <1>1, LimitConstants DEF Rate!Granted
<1> QED
  BY <1>1, <1>2 DEF Rate!AllowLimiter, Rate!Limiter

\* The limiter that Allow consults is a proper one.
LEMMA LimiterOfType ==
    ASSUME Rate!TypeOK, NEW ip \in IP
    PROVE  LET l == Rate!LimiterOf(ip)
           IN  l \in Rate!Limiter /\ l.tokens \in 0 .. Burst /\ l.last \in 0 .. clock
<1>1. clock \in Nat /\ Burst \in Nat
  BY LimitConstants DEF Rate!TypeOK
<1>2. CASE ip \in Rate!Remaining
  BY <1>2 DEF Rate!LimiterOf, Rate!Remaining, Rate!Kept, Rate!TypeOK
<1>3. CASE ip \notin Rate!Remaining
  BY <1>1, <1>3 DEF Rate!LimiterOf, Rate!newLimiter, Rate!Limiter
<1> QED
  BY <1>2, <1>3

LEMMA LimitStep == LimitInv /\ [Rate!Next]_limit => LimitInv'
<1> SUFFICES ASSUME LimitInv, [Rate!Next]_limit PROVE LimitInv'
  OBVIOUS
<1>0. clock \in Nat /\ called \in 0 .. clock /\ base \in 0 .. clock /\ lastSweep \in Int
      /\ LimitHorizon \in Nat /\ Idle \in Nat /\ SweepEvery \in Nat /\ Burst \in Nat
      /\ Cost \in Nat
  BY LimitConstants DEF LimitInv, Rate!TypeOK
<1>1. CASE Rate!Tick
  <2>1. \A ip \in DOMAIN limiters : limiters[ip].last \in 0 .. clock'
    BY <1>0, <1>1 DEF Rate!Tick, LimitInv, Rate!TypeOK
  <2> QED
    BY <1>0, <1>1, <2>1 DEF Rate!Tick, LimitInv, Rate!TypeOK, Swept, Rate!MapBounded
<1>2. CASE Rate!Watch
  BY <1>0, <1>2 DEF Rate!Watch, LimitInv, Rate!TypeOK, Swept, Rate!MapBounded
<1>3. ASSUME NEW ip \in IP, Rate!Allow(ip) PROVE LimitInv'
  <2> DEFINE l == Rate!LimiterOf(ip)
  <2>1. /\ l \in Rate!Limiter /\ l.tokens \in 0 .. Burst /\ l.last \in 0 .. clock
    BY LimiterOfType DEF LimitInv
  <2>2. /\ DOMAIN limiters' = Rate!Remaining \cup {ip}
        /\ limiters'[ip] = Rate!AllowLimiter(l)
        /\ \A x \in DOMAIN limiters' :
              x # ip => x \in Rate!Remaining /\ limiters'[x] = limiters[x]
    BY <1>3 DEF Rate!Allow
  <2>3. /\ limiters'[ip] \in Rate!Limiter /\ limiters'[ip].tokens \in 0 .. Burst
        /\ limiters'[ip].last = clock
    BY <1>0, <2>1, <2>2, AllowKeepsBucket
  <2>4. /\ clock' = clock /\ base' = base /\ called' = clock
        /\ lastSweep' = IF Rate!SweepDue THEN clock ELSE lastSweep
    BY <1>3 DEF Rate!Allow
  <2>5. Rate!Remaining \subseteq DOMAIN limiters
    BY DEF Rate!Remaining, Rate!Kept
  <2>6. Rate!TypeOK'
    <3>1. answer' \in [ip : IP, ok : BOOLEAN]
      BY <1>3 DEF Rate!Allow, Rate!Granted
    <3>2. spent' \in [IP -> Nat]
      BY <1>0, <1>3 DEF Rate!Allow, LimitInv, Rate!TypeOK
    <3>3. \A x \in DOMAIN limiters' : /\ limiters'[x] \in Rate!Limiter
                                      /\ limiters'[x].tokens \in 0 .. Burst
                                      /\ limiters'[x].last \in 0 .. clock
      BY <1>0, <2>2, <2>3, <2>5 DEF LimitInv, Rate!TypeOK
    <3> QED
      BY <1>0, <2>2, <2>4, <2>5, <3>1, <3>2, <3>3 DEF LimitInv, Rate!TypeOK
  <2>7. Swept' /\ Rate!MapBounded'
    <3>1. CASE Rate!SweepDue
      <4>1. \A x \in DOMAIN limiters' : /\ limiters'[x].last \in 0 .. clock
                                        /\ clock - limiters'[x].last <= Idle
        BY <1>0, <2>2, <2>3, <3>1 DEF LimitInv, Rate!TypeOK, Rate!Remaining, Rate!Kept
      <4>2. lastSweep' = clock /\ called' = clock
        BY <2>4, <3>1
      <4> QED
        BY <1>0, <4>1, <4>2 DEF Swept, Rate!MapBounded
    <3>2. CASE ~Rate!SweepDue
      <4>1. clock - lastSweep <= SweepEvery /\ lastSweep <= clock
        BY <1>0, <3>2 DEF Rate!SweepDue, LimitInv, Rate!TypeOK
      <4>2. \A x \in DOMAIN limiters' : /\ limiters'[x].last \in Int
                                        /\ lastSweep - limiters'[x].last <= Idle
        BY <1>0, <2>2, <2>3, <2>5, <4>1 DEF LimitInv, Swept, Rate!TypeOK, Rate!Limiter
      <4> QED
        BY <1>0, <2>4, <3>2, <4>1, <4>2 DEF Swept, Rate!MapBounded
    <3> QED
      BY <3>1, <3>2
  <2> QED
    BY <2>6, <2>7 DEF LimitInv
<1>4. CASE UNCHANGED limit
  BY <1>4 DEF limit, LimitInv, Rate!TypeOK, Swept, Rate!MapBounded
<1> QED
  BY <1>1, <1>2, <1>3, <1>4 DEF Rate!Next

LEMMA LimitInvariant == Spec => []LimitInv
<1>1. Rate!Init => LimitInv
  BY LimitConstants DEF Rate!Init, LimitInv, Rate!TypeOK, Swept, Rate!MapBounded
<1> QED
  BY <1>1, LimitStep, OneLimiter, PTL DEF Spec

\* Every reachable state of the limiters has its type: no bucket is ever below
\* empty or above full.
THEOREM LimitTypeCorrect == Spec => []Rate!TypeOK
  BY LimitInvariant, PTL DEF LimitInv

\* No address outlives ipIdle and a minute in the map.
THEOREM MapStaysBounded == Spec => []MapBounded
  BY LimitInvariant, PTL DEF LimitInv, MapBounded

-----------------------------------------------------------------------------
(***************************************************************************)
(* The refinement.                                                         *)
(***************************************************************************)
\* What Allow finds in the bucket it consults is what the address has, although
\* the sweep may just have thrown its limiter away: an idle one is full.
LEMMA SweepForgetsNothing ==
    ASSUME Rate!TypeOK, Idle >= Burst, NEW ip \in IP
    PROVE  /\ Rate!Refilled(Rate!LimiterOf(ip)) = Rate!Credit[ip]
           /\ ip \in DOMAIN limiters /\ ip \notin Rate!Remaining => Rate!Credit[ip] = Burst
<1>0. clock \in Nat /\ Idle \in Nat /\ Burst \in Nat
  BY LimitConstants DEF Rate!TypeOK
<1>1. Rate!Refilled(Rate!newLimiter) = Burst
  BY <1>0 DEF Rate!Refilled, Rate!newLimiter
<1>2. ip \in DOMAIN limiters => Rate!Credit[ip] = Rate!Refilled(limiters[ip])
  BY DEF Rate!Credit
<1>3. ip \notin DOMAIN limiters => Rate!Credit[ip] = Burst
  BY DEF Rate!Credit
<1>4. Rate!Remaining \subseteq DOMAIN limiters
  BY DEF Rate!Remaining, Rate!Kept
<1>5. ip \in DOMAIN limiters /\ ip \notin Rate!Remaining => Rate!Refilled(limiters[ip]) = Burst
  <2> SUFFICES ASSUME ip \in DOMAIN limiters, ip \notin Rate!Remaining
               PROVE  Rate!Refilled(limiters[ip]) = Burst
    OBVIOUS
  <2>1. limiters[ip].tokens \in 0 .. Burst /\ limiters[ip].last \in 0 .. clock
    BY DEF Rate!TypeOK
  <2>2. ~(clock - limiters[ip].last <= Idle)
    BY DEF Rate!Remaining, Rate!Kept
  <2> QED
    BY <1>0, <2>1, <2>2 DEF Rate!Refilled
<1> QED
  BY <1>1, <1>2, <1>3, <1>4, <1>5 DEF Rate!LimiterOf

\* A tick of the clock fills every bucket, on demand as all the time.
LEMMA TickPasses == Rate!TypeOK /\ Rate!Tick => Rate!Promise!Pass
<1> SUFFICES ASSUME Rate!TypeOK, Rate!Tick PROVE Rate!Promise!Pass
  OBVIOUS
<1>0. clock \in Nat /\ clock' = clock + 1 /\ base \in Nat /\ Burst \in Nat /\ limiters' = limiters
  BY LimitConstants DEF Rate!TypeOK, Rate!Tick
<1>1. ASSUME NEW ip \in IP PROVE Rate!Credit'[ip] = Rate!Promise!Capped(Rate!Credit[ip] + 1)
  <2>1. CASE ip \in DOMAIN limiters
    <3>1. limiters[ip].tokens \in 0 .. Burst /\ limiters[ip].last \in 0 .. clock
      BY <2>1 DEF Rate!TypeOK
    <3>2. /\ Rate!Credit[ip] = Rate!Refilled(limiters[ip])
          /\ Rate!Credit'[ip] = Rate!Refilled(limiters[ip])'
      BY <1>0, <2>1 DEF Rate!Credit
    <3> DEFINE t == limiters[ip].tokens + (clock - limiters[ip].last)
    <3>3. t \in Nat /\ limiters[ip].tokens + ((clock + 1) - limiters[ip].last) = t + 1
      BY <1>0, <3>1
    <3>4. Rate!Refilled(limiters[ip]) = IF t > Burst THEN Burst ELSE t
      BY DEF Rate!Refilled
    <3>5. Rate!Refilled(limiters[ip])' = IF t + 1 > Burst THEN Burst ELSE t + 1
      BY <1>0, <3>3 DEF Rate!Refilled
    <3> HIDE DEF t
    <3> QED
      BY <1>0, <3>2, <3>3, <3>4, <3>5 DEF Rate!Promise!Capped
  <2>2. CASE ip \notin DOMAIN limiters
    BY <1>0, <2>2 DEF Rate!Credit, Rate!Promise!Capped
  <2> QED
    BY <2>1, <2>2
<1>2. Rate!Credit' = [ip \in IP |-> Rate!Promise!Capped(Rate!Credit[ip] + 1)]
  BY <1>1 DEF Rate!Credit
<1>3. (clock - base)' = (clock - base) + 1 /\ answer' = answer /\ spent' = spent
  BY <1>0 DEF Rate!Tick
<1> QED
  BY <1>2, <1>3 DEF Rate!Promise!Pass

\* Allow grants or refuses as the promised bucket does, and no other bucket is
\* touched.
LEMMA AllowGrants ==
    ASSUME Rate!TypeOK, Idle >= Burst, NEW ip \in IP, Rate!Allow(ip)
    PROVE  Rate!Promise!Grant(ip) \/ Rate!Promise!Refuse(ip)
<1> DEFINE l == Rate!LimiterOf(ip)
<1>0. clock \in Nat /\ clock' = clock /\ base' = base /\ Burst \in Nat /\ Cost \in Nat
  BY LimitConstants DEF Rate!TypeOK, Rate!Allow
<1>1. l \in Rate!Limiter /\ l.tokens \in 0 .. Burst /\ l.last \in 0 .. clock
  BY LimiterOfType
<1>2. Rate!Refilled(l) = Rate!Credit[ip] /\ Rate!Refilled(l) \in 0 .. Burst
  BY <1>0, <1>1, SweepForgetsNothing, AllowKeepsBucket
<1>3. /\ DOMAIN limiters' = Rate!Remaining \cup {ip} /\ limiters'[ip] = Rate!AllowLimiter(l)
      /\ \A x \in Rate!Remaining : x # ip => limiters'[x] = limiters[x]
  BY DEF Rate!Allow
<1>4. Rate!Remaining \subseteq DOMAIN limiters
  BY DEF Rate!Remaining, Rate!Kept
<1>5. Rate!Credit'[ip] = IF Rate!Granted(l) THEN Rate!Credit[ip] - Cost ELSE Rate!Credit[ip]
  <2>1. /\ Rate!AllowLimiter(l).last = clock
        /\ Rate!AllowLimiter(l).tokens \in 0 .. Burst
        /\ Rate!AllowLimiter(l).tokens
             = IF Rate!Granted(l) THEN Rate!Refilled(l) - Cost ELSE Rate!Refilled(l)
    BY <1>0, <1>1, AllowKeepsBucket
  <2>2. Rate!Credit'[ip] = Rate!Refilled(limiters[ip])'
    BY <1>3 DEF Rate!Credit
  <2>3. Rate!Refilled(limiters[ip])' = Rate!AllowLimiter(l).tokens
    BY <1>0, <1>3, <2>1 DEF Rate!Refilled
  <2> QED
    BY <1>2, <2>1, <2>2, <2>3
<1>6. ASSUME NEW x \in IP, x # ip PROVE Rate!Credit'[x] = Rate!Credit[x]
  <2>1. CASE x \in Rate!Remaining
    <3>1. limiters'[x] = limiters[x] /\ x \in DOMAIN limiters /\ x \in DOMAIN limiters'
      BY <1>3, <1>4, <1>6, <2>1
    <3> QED
      BY <1>0, <3>1 DEF Rate!Credit, Rate!Refilled
  <2>2. CASE x \notin Rate!Remaining
    <3>1. Rate!Credit'[x] = Burst
      BY <1>3, <1>6, <2>2 DEF Rate!Credit
    <3>2. Rate!Credit[x] = Burst
      BY <2>2, SweepForgetsNothing DEF Rate!Credit
    <3> QED
      BY <3>1, <3>2
  <2> QED
    BY <2>1, <2>2
<1>7. /\ answer' = [ip |-> ip, ok |-> Rate!Granted(l)]
      /\ spent' = IF Rate!Granted(l) THEN [spent EXCEPT ![ip] = spent[ip] + Cost] ELSE spent
      /\ (clock - base)' = clock - base
  BY <1>0 DEF Rate!Allow
<1>8. DOMAIN Rate!Credit = IP /\ DOMAIN Rate!Credit' = IP
  BY DEF Rate!Credit
<1>9. CASE Rate!Granted(l)
  <2>1. Rate!Credit[ip] >= Cost
    BY <1>2, <1>9 DEF Rate!Granted
  <2>2. Rate!Credit' = [Rate!Credit EXCEPT ![ip] = Rate!Credit[ip] - Cost]
    BY <1>5, <1>6, <1>8, <1>9 DEF Rate!Credit
  <2> QED
    BY <1>7, <1>9, <2>1, <2>2 DEF Rate!Promise!Grant
<1>10. CASE ~Rate!Granted(l)
  <2>1. Rate!Credit[ip] < Cost
    BY <1>0, <1>2, <1>10 DEF Rate!Granted
  <2>2. Rate!Credit' = Rate!Credit
    BY <1>5, <1>6, <1>8, <1>10 DEF Rate!Credit
  <2>3. answer' = [ip |-> ip, ok |-> FALSE]
    <3>1. Rate!Granted(l) = FALSE
      BY <1>10 DEF Rate!Granted
    <3> QED
      BY <1>7, <3>1
  <2> QED
    BY <1>7, <1>10, <2>1, <2>2, <2>3 DEF Rate!Promise!Refuse
<1> QED
  BY <1>9, <1>10

\* For every rate, burst and interval with Idle >= Burst: buckets that are made
\* on demand, filled on demand and swept when idle are buckets that fill all
\* the time.
THEOREM LimiterRefines == ASSUME Idle >= Burst PROVE Spec => BucketSpec
<1>1. Rate!Init => Rate!Promise!Init
  BY LimitConstants DEF Rate!Init, Rate!Promise!Init, Rate!Promise!Answers, Rate!Credit
<1>2. Rate!TypeOK /\ [Rate!Next]_limit => [Rate!Promise!Next]_(Rate!Promise!bucketVars)
  <2> SUFFICES ASSUME Rate!TypeOK, [Rate!Next]_limit
               PROVE  [Rate!Promise!Next]_(Rate!Promise!bucketVars)
    OBVIOUS
  <2>1. CASE Rate!Tick
    BY <2>1, TickPasses DEF Rate!Promise!Next
  <2>2. CASE Rate!Watch
    <3>1. Rate!Credit' = Rate!Credit /\ answer' = answer /\ spent' = [ip \in IP |-> 0]
      BY <2>2 DEF Rate!Watch, Rate!Credit, Rate!Refilled
    <3>2. (clock - base)' = 0
      BY <2>2 DEF Rate!Watch, Rate!TypeOK
    <3> QED
      BY <3>1, <3>2 DEF Rate!Promise!Next, Rate!Promise!Watch
  <2>3. ASSUME NEW ip \in IP, Rate!Allow(ip) PROVE Rate!Promise!Next
    BY <2>3, AllowGrants DEF Rate!Promise!Next
  <2>4. CASE UNCHANGED limit
    BY <2>4 DEF limit, Rate!Promise!bucketVars, Rate!Credit, Rate!Refilled
  <2> QED
    BY <2>1, <2>2, <2>3, <2>4 DEF Rate!Next
<1> QED
  BY <1>1, <1>2, LimitTypeCorrect, OneLimiter, PTL
     DEF Spec, BucketSpec, Rate!BucketSpec, Rate!Promise!Spec

\* For every window: an address gets no more than a full bucket and what flows
\* in meanwhile.  Ledger is the inductive part, and survives because each step
\* is one of the promised bucket.
THEOREM WindowsBounded == ASSUME Idle >= Burst PROVE Spec => []WindowBound
<1> DEFINE Books == Rate!TypeOK /\ Rate!Promise!Ledger
<1>1. Rate!Init => Rate!Promise!Ledger
  <2> SUFFICES ASSUME Rate!Init, NEW ip \in IP
               PROVE  spent[ip] + Rate!Credit[ip] <= Burst + (clock - base)
    BY DEF Rate!Promise!Ledger
  <2>1. Rate!Credit[ip] = Burst
    BY DEF Rate!Init, Rate!Credit
  <2> QED
    BY <2>1, LimitConstants DEF Rate!Init
<1>2. Books /\ [Rate!Next]_limit => Rate!Promise!Ledger'
  <2> SUFFICES ASSUME Books, [Rate!Next]_limit PROVE Rate!Promise!Ledger'
    OBVIOUS
  <2>0. /\ spent \in [IP -> Nat] /\ clock - base \in Nat /\ Burst \in Nat /\ Cost \in Nat
        /\ \A ip \in IP : Rate!Credit[ip] \in 0 .. Burst
    <3>1. ASSUME NEW ip \in IP PROVE Rate!Credit[ip] \in 0 .. Burst
      <4>1. CASE ip \in DOMAIN limiters
        BY <4>1, AllowKeepsBucket DEF Rate!Credit, Rate!TypeOK
      <4>2. CASE ip \notin DOMAIN limiters
        BY <4>2, LimitConstants DEF Rate!Credit
      <4> QED
        BY <4>1, <4>2
    <3> QED
      BY <3>1, LimitConstants DEF Rate!TypeOK
  <2>1. CASE Rate!Tick
    <3>1. /\ Rate!Credit' = [ip \in IP |-> Rate!Promise!Capped(Rate!Credit[ip] + 1)]
          /\ (clock - base)' = (clock - base) + 1 /\ spent' = spent
      BY <2>1, TickPasses DEF Rate!Promise!Pass
    <3> QED
      BY <2>0, <3>1 DEF Rate!Promise!Ledger, Rate!Promise!Capped
  <2>2. CASE Rate!Watch
    <3>1. /\ Rate!Credit' = Rate!Credit /\ spent' = [ip \in IP |-> 0] /\ (clock - base)' = 0
      BY <2>2 DEF Rate!Watch, Rate!Credit, Rate!Refilled, Rate!TypeOK
    <3> QED
      BY <2>0, <3>1 DEF Rate!Promise!Ledger
  <2>3. ASSUME NEW ip \in IP, Rate!Allow(ip) PROVE Rate!Promise!Ledger'
    <3>1. CASE Rate!Promise!Grant(ip)
      <4>1. /\ Rate!Credit' = [Rate!Credit EXCEPT ![ip] = Rate!Credit[ip] - Cost]
            /\ spent' = [spent EXCEPT ![ip] = spent[ip] + Cost]
            /\ (clock - base)' = clock - base /\ DOMAIN Rate!Credit = IP
        BY <3>1 DEF Rate!Promise!Grant, Rate!Credit
      <4> SUFFICES ASSUME NEW x \in IP
                   PROVE  spent'[x] + Rate!Credit'[x] <= Burst + (clock - base)'
        BY DEF Rate!Promise!Ledger
      <4>2. spent[x] + Rate!Credit[x] <= Burst + (clock - base)
        BY DEF Rate!Promise!Ledger
      <4>3. spent'[x] + Rate!Credit'[x] = spent[x] + Rate!Credit[x]
        BY <2>0, <4>1
      <4> QED
        BY <4>1, <4>2, <4>3
    <3>2. CASE Rate!Promise!Refuse(ip)
      BY <3>2 DEF Rate!Promise!Refuse, Rate!Promise!Ledger
    <3> QED
      BY <2>3, <3>1, <3>2, AllowGrants
  <2>4. CASE UNCHANGED limit
    BY <2>4 DEF limit, Rate!Promise!Ledger, Rate!Credit, Rate!Refilled
  <2> QED
    BY <2>1, <2>2, <2>3, <2>4 DEF Rate!Next
<1>3. Books => WindowBound
  <2> SUFFICES ASSUME Books, NEW ip \in IP PROVE spent[ip] <= Burst + (clock - base)
    BY DEF WindowBound, Rate!WindowBound, Rate!Promise!WindowBound
  <2>1. Rate!Credit[ip] \in 0 .. Burst
    <3>1. CASE ip \in DOMAIN limiters
      BY <3>1, AllowKeepsBucket DEF Rate!Credit, Rate!TypeOK
    <3>2. CASE ip \notin DOMAIN limiters
      BY <3>2, LimitConstants DEF Rate!Credit
    <3> QED
      BY <3>1, <3>2
  <2>2. spent[ip] \in Nat /\ clock - base \in Nat /\ Burst \in Nat
    BY LimitConstants DEF Rate!TypeOK
  <2> QED
    BY <2>1, <2>2 DEF Rate!Promise!Ledger
<1> QED
  BY <1>1, <1>2, <1>3, LimitTypeCorrect, OneLimiter, PTL DEF Spec

-----------------------------------------------------------------------------
(***************************************************************************)
(* Tokens in the process.  An entry that has expired is in m and not in    *)
(* Live: each step of MemTokens is one of TokenStore.                      *)
(***************************************************************************)
LEMMA MemConstants ==
    /\ TokenTTL \in Nat /\ TokenTTL > 0 /\ Horizon \in Nat
    /\ Seed \subseteq Token /\ SeedUser \in User /\ Junk # {}
<1>1. TokenTTL \in Nat \ {0} /\ Horizon \in Nat
  BY WebConstants
<1>2. Seed \subseteq Token /\ SeedUser \in User /\ Junk # {}
  BY WebConstants
<1> QED
  BY <1>1, <1>2

MemEntries ==
    \A t \in DOMAIN m : /\ m[t] \in [username : User, expires : Nat]
                        /\ m[t].expires <= now + TokenTTL
MemReplies ==
    memReply \in [code : {200, 401}, token : memDrawn \cup Junk, user : User \cup {Nobody}]

LEMMA MemParts ==
    Mem!TypeOK <=> /\ now \in 0 .. Horizon /\ DOMAIN m \subseteq memDrawn
                   /\ memDrawn \subseteq Token /\ MemEntries /\ MemReplies
  BY DEF Mem!TypeOK, MemEntries, MemReplies

LEMMA MemInit == Init => Mem!TypeOK /\ Mem!Promise!Init
<1> SUFFICES ASSUME Init
             PROVE  Mem!TypeOK /\ Mem!Promise!Init
  OBVIOUS
<1>1. /\ now = 0 /\ memDrawn = Seed
      /\ m = [t \in Seed |-> [username |-> SeedUser, expires |-> TokenTTL]]
      /\ memReply = Mem!Invalid(CHOOSE t \in Junk : TRUE)
    BY MemConstants DEF Init, Mem!Init
<1>2. PICK t0 \in Junk : memReply = [code |-> 401, token |-> t0, user |-> Nobody]
  BY <1>1, MemConstants DEF Mem!Invalid
<1>3. Mem!TypeOK
  <2>1. MemEntries
    BY <1>1, MemConstants DEF MemEntries
  <2>2. MemReplies
    BY <1>2 DEF MemReplies
  <2> QED
    BY <1>1, <2>1, <2>2, MemConstants, MemParts
<1>4. DOMAIN Mem!Live = Seed
  BY <1>1, MemConstants DEF Mem!Live, Mem!Fresh
<1>5. Mem!Promise!Init
  BY <1>1, <1>2, <1>4 DEF Mem!Promise!Init, Mem!Promise!Invalid
<1> QED
  BY <1>3, <1>5

LEMMA MemTypes == Mem!TypeOK /\ Mem!Next => Mem!TypeOK'
<1> SUFFICES ASSUME Mem!TypeOK, Mem!Next
             PROVE  /\ now' \in 0 .. Horizon /\ DOMAIN m' \subseteq memDrawn'
                    /\ memDrawn' \subseteq Token /\ MemEntries' /\ MemReplies'
  BY DEF Mem!TypeOK, MemEntries, MemReplies
<1>1. /\ now \in 0 .. Horizon /\ DOMAIN m \subseteq memDrawn
      /\ memDrawn \subseteq Token /\ MemEntries /\ MemReplies
  BY MemParts
<1>2. CASE Mem!Tick
  <2>1. /\ now' = now + 1 /\ now < Horizon /\ now \in Nat
        /\ UNCHANGED <<m, memDrawn, memReply>>
    BY <1>1, <1>2, MemConstants DEF Mem!Tick
  <2>2. MemEntries'
    BY <1>1, <2>1, MemConstants DEF MemEntries
  <2>3. MemReplies'
    BY <1>1, <2>1 DEF MemReplies
  <2> QED
    BY <1>1, <2>1, <2>2, <2>3, MemConstants
<1>3. ASSUME NEW user \in User, NEW token \in Token, Mem!Issue(user, token)
      PROVE  /\ now' = now /\ DOMAIN m' \subseteq memDrawn'
             /\ memDrawn' \subseteq Token /\ MemEntries' /\ MemReplies'
  <2>1. /\ now' = now /\ memDrawn' = memDrawn \cup {token}
        /\ m' = [t \in DOMAIN m \cup {token} |->
                    IF t = token THEN [username |-> user, expires |-> now + TokenTTL] ELSE m[t]]
        /\ memReply' = [code |-> 200, token |-> token, user |-> user]
    BY <1>3 DEF Mem!Issue, Mem!Ok
  <2>2. ASSUME NEW t \in DOMAIN m'
        PROVE  m'[t] \in [username : User, expires : Nat] /\ m'[t].expires <= now + TokenTTL
    <3>1. CASE t = token
      <4>1. m'[t] = [username |-> user, expires |-> now + TokenTTL] /\ now + TokenTTL \in Nat
        BY <1>1, <2>1, <3>1, MemConstants
      <4> QED
        BY <4>1
    <3>2. CASE t # token
      BY <1>1, <2>1, <3>2 DEF MemEntries
    <3> QED
      BY <3>1, <3>2
  <2>3. MemReplies'
    BY <2>1 DEF MemReplies
  <2>4. MemEntries'
    BY <2>1, <2>2 DEF MemEntries
  <2> QED
    BY <1>1, <2>1, <2>3, <2>4
<1>4. ASSUME NEW token \in memDrawn \cup Junk, Mem!Lookup(token)
      PROVE  /\ now' = now /\ DOMAIN m' \subseteq memDrawn'
             /\ memDrawn' \subseteq Token /\ MemEntries' /\ MemReplies'
  <2>1. /\ now' = now /\ memDrawn' = memDrawn
        /\ m' = m \/ m' = [t \in DOMAIN m \ {token} |-> m[t]]
    BY <1>4 DEF Mem!Lookup
  <2>2. MemReplies'
    <3>1. CASE token \in DOMAIN m /\ Mem!Fresh(token)
      <4>1. m[token].username \in User
        BY <1>1, <3>1 DEF MemEntries
      <4>2. memReply' = [code |-> 200, token |-> token, user |-> m[token].username]
        BY <1>4, <3>1 DEF Mem!Lookup, Mem!Ok
      <4> QED
        BY <2>1, <4>1, <4>2 DEF MemReplies
    <3>2. CASE ~(token \in DOMAIN m /\ Mem!Fresh(token))
      <4>1. memReply' = [code |-> 401, token |-> token, user |-> Nobody]
        BY <1>4, <3>2 DEF Mem!Lookup, Mem!Invalid
      <4> QED
        BY <2>1, <4>1 DEF MemReplies
    <3> QED
      BY <3>1, <3>2
  <2>3. \A t \in DOMAIN m' : t \in DOMAIN m /\ m'[t] = m[t]
    BY <2>1
  <2>4. MemEntries'
    BY <1>1, <2>1, <2>3 DEF MemEntries
  <2> QED
    BY <1>1, <2>1, <2>2, <2>4
<1> QED
  BY <1>1, <1>2, <1>3, <1>4 DEF Mem!Next

LEMMA MemStep == Mem!TypeOK /\ Mem!Next => Mem!Promise!Next
<1> SUFFICES ASSUME Mem!TypeOK, Mem!Next
             PROVE  Mem!Promise!Next
  OBVIOUS
<1>1. /\ now \in Nat /\ DOMAIN m \subseteq memDrawn /\ memDrawn \subseteq Token
      /\ \A t \in DOMAIN m : m[t].expires \in Nat
  BY MemParts, MemConstants DEF MemEntries
<1>2. CASE Mem!Tick
  <2>1. now' = now + 1 /\ m' = m /\ memDrawn' = memDrawn /\ memReply' = memReply
    BY <1>2 DEF Mem!Tick
  <2>2. \A t \in DOMAIN m : now' < m[t].expires <=> now < m[t].expires /\ m[t].expires - now > 1
    BY <1>1, <2>1
  <2>3. DOMAIN Mem!Live' = {t \in DOMAIN Mem!Live : Mem!Live[t].left > 1}
    BY <2>1, <2>2 DEF Mem!Live, Mem!Fresh
  <2>4. \A t \in DOMAIN Mem!Live' :
           Mem!Live'[t] = [Mem!Live[t] EXCEPT !.left = Mem!Live[t].left - 1]
    <3> TAKE t \in DOMAIN Mem!Live'
    <3>1. t \in DOMAIN m /\ now < m[t].expires
      BY <2>1, <2>2 DEF Mem!Live, Mem!Fresh
    <3>2. Mem!Live[t] = [user |-> m[t].username, left |-> m[t].expires - now]
      BY <3>1 DEF Mem!Live, Mem!Fresh
    <3>3. Mem!Live'[t] = [user |-> m[t].username, left |-> m[t].expires - now']
      BY <2>1 DEF Mem!Live, Mem!Fresh
    <3>4. m[t].expires - now' = (m[t].expires - now) - 1
      BY <1>1, <2>1, <3>1
    <3> QED
      BY <3>2, <3>3, <3>4
  <2>5. Mem!Live' = [t \in DOMAIN Mem!Live' |-> Mem!Live'[t]]
    BY DEF Mem!Live
  <2>6. Mem!Promise!Tick
    BY <2>1, <2>3, <2>4, <2>5 DEF Mem!Promise!Tick
  <2> QED
    BY <2>6 DEF Mem!Promise!Next
<1>3. ASSUME NEW user \in User, NEW token \in Token, Mem!Issue(user, token)
      PROVE  Mem!Promise!Next
  <2>1. /\ now' = now /\ token \notin memDrawn /\ memDrawn' = memDrawn \cup {token}
        /\ m' = [t \in DOMAIN m \cup {token} |->
                    IF t = token THEN [username |-> user, expires |-> now + TokenTTL] ELSE m[t]]
        /\ memReply' = Mem!Promise!Ok(token, user)
    BY <1>3 DEF Mem!Issue, Mem!newToken, Mem!Ok, Mem!Promise!Ok
  <2>2. now < now + TokenTTL /\ (now + TokenTTL) - now = TokenTTL
    BY <1>1, MemConstants
  <2>3. token \notin DOMAIN m
    BY <1>1, <2>1
  <2>4. Mem!Live' = [t \in DOMAIN Mem!Live \cup {token} |->
                        IF t = token THEN [user |-> user, left |-> TokenTTL] ELSE Mem!Live[t]]
    BY <2>1, <2>2, <2>3 DEF Mem!Live, Mem!Fresh
  <2>5. Mem!Promise!Issue(user, token)
    BY <2>1, <2>4 DEF Mem!Promise!Issue
  <2> QED
    BY <2>5 DEF Mem!Promise!Next
<1>4. ASSUME NEW token \in memDrawn \cup Junk, Mem!Lookup(token)
      PROVE  Mem!Promise!Next
  <2>1. token \in Token \cup Junk
    BY <1>1
  <2>2. /\ now' = now /\ memDrawn' = memDrawn
        /\ m' = (IF token \in DOMAIN m /\ ~(token \in DOMAIN m /\ now < m[token].expires)
                 THEN [t \in DOMAIN m \ {token} |-> m[t]] ELSE m)
        /\ memReply' = IF token \in DOMAIN m /\ now < m[token].expires
                       THEN Mem!Ok(token, m[token].username) ELSE Mem!Invalid(token)
    BY <1>4 DEF Mem!Lookup, Mem!Fresh
  <2>3. Mem!Live' = Mem!Live
    BY <2>2 DEF Mem!Live, Mem!Fresh
  <2>4. /\ token \in DOMAIN Mem!Live <=> token \in DOMAIN m /\ now < m[token].expires
        /\ token \in DOMAIN Mem!Live => Mem!Live[token].user = m[token].username
    BY DEF Mem!Live, Mem!Fresh
  <2>5. Mem!Promise!Lookup(token)
    BY <2>2, <2>3, <2>4 DEF Mem!Promise!Lookup, Mem!Ok, Mem!Invalid, Mem!Promise!Ok,
                            Mem!Promise!Invalid
  <2> QED
    BY <2>1, <2>5 DEF Mem!Promise!Next
<1> QED
  BY <1>2, <1>3, <1>4 DEF Mem!Next

-----------------------------------------------------------------------------
(***************************************************************************)
(* Tokens in Redis.  A key may be in keys without any client that holds    *)
(* its token, and whoever presents a key itself asks for another key.      *)
(***************************************************************************)
LEMMA RedisConstants ==
    /\ Redis!ttl \in Nat /\ Redis!ttl > 0
    /\ NoToken \notin Token /\ \A t \in Token : Redis!tokenKey(t) \notin Token
<1>1. TTL \in Int /\ TokenTTL \in Nat \ {0}
  BY WebConstants
<1>2. NoToken \notin Token /\ \A t \in Token : Redis!tokenKey(t) \notin Token
  BY WebConstants
<1> QED
  BY <1>1, <1>2 DEF Redis!ttl

\* sha256 tells tokens apart.
LEMMA KeysDiffer ==
    ASSUME NEW s, NEW t, Redis!tokenKey(s) = Redis!tokenKey(t)
    PROVE  s = t
<1>1. Redis!tokenKey(s).tok = s /\ Redis!tokenKey(t).tok = t
  BY DEF Redis!tokenKey
<1> QED
  BY <1>1

KeyEntries == \A k \in DOMAIN keys : keys[k] \in [username : User, pttl : 1 .. Redis!ttl]

RedisReplies ==
    reply \in [code : {200, 401, 503},
               token : drawn \cup {NoToken} \cup {Redis!tokenKey(t) : t \in drawn},
               user : User \cup {Nobody}]

RedisFacts ==
    /\ told \subseteq drawn /\ drawn \subseteq Token
    /\ DOMAIN keys \subseteq {Redis!tokenKey(t) : t \in drawn}
    /\ KeyEntries /\ RedisReplies

LEMMA RedisParts == Redis!TypeOK <=> RedisFacts
  BY DEF Redis!TypeOK, RedisFacts, KeyEntries, RedisReplies

LEMMA RedisInit == Init => Redis!TypeOK /\ Redis!Promise!Init
<1> SUFFICES ASSUME Init
             PROVE  Redis!TypeOK /\ Redis!Promise!Init
  OBVIOUS
<1>1. /\ keys = [k \in {} |-> <<>>] /\ told = {} /\ drawn = {}
      /\ reply = [code |-> 401, token |-> NoToken, user |-> Nobody]
  BY DEF Init, Redis!Init, Redis!Invalid
<1>2. KeyEntries /\ DOMAIN keys = {}
  BY <1>1 DEF KeyEntries
<1>3. RedisReplies
  BY <1>1 DEF RedisReplies
<1>4. DOMAIN Redis!Live = {}
  BY <1>1 DEF Redis!Live
<1>5. Redis!Promise!Init
  BY <1>1, <1>4 DEF Redis!Promise!Init, Redis!Promise!Invalid
<1> QED
  BY <1>1, <1>2, <1>3, <1>5, RedisParts DEF RedisFacts

\* What SET does to the table of keys.
LEMMA SetKeeps ==
    ASSUME RedisFacts, NEW user \in User, NEW token \in Token, Redis!Set(token, user)
    PROVE  /\ DOMAIN keys' \subseteq {Redis!tokenKey(t) : t \in drawn \cup {token}}
           /\ KeyEntries'
<1>1. keys' = [k \in DOMAIN keys \cup {Redis!tokenKey(token)} |->
                  IF k = Redis!tokenKey(token) THEN [username |-> user, pttl |-> Redis!ttl]
                  ELSE keys[k]]
  BY DEF Redis!Set
<1>2. [username |-> user, pttl |-> Redis!ttl] \in [username : User, pttl : 1 .. Redis!ttl]
  BY RedisConstants
<1>3. \A k \in DOMAIN keys' : keys'[k] \in [username : User, pttl : 1 .. Redis!ttl]
  BY <1>1, <1>2 DEF RedisFacts, KeyEntries
<1> QED
  BY <1>1, <1>3 DEF RedisFacts, KeyEntries

LEMMA RedisTypes == Redis!TypeOK /\ Redis!Next => Redis!TypeOK'
<1> SUFFICES ASSUME RedisFacts, Redis!Next
             PROVE  RedisFacts'
  BY DEF Redis!TypeOK, RedisFacts, KeyEntries, RedisReplies
<1>1. CASE Redis!Expire
  <2>1. /\ keys' = [k \in {k \in DOMAIN keys : keys[k].pttl > 1} |->
                       [keys[k] EXCEPT !.pttl = keys[k].pttl - 1]]
        /\ UNCHANGED <<told, drawn, reply>>
    BY <1>1 DEF Redis!Expire
  <2>2. ASSUME NEW k \in DOMAIN keys'
        PROVE  keys'[k] \in [username : User, pttl : 1 .. Redis!ttl]
    <3>1. /\ k \in DOMAIN keys /\ keys[k].pttl > 1
          /\ keys'[k] = [keys[k] EXCEPT !.pttl = keys[k].pttl - 1]
          /\ keys[k] \in [username : User, pttl : 1 .. Redis!ttl]
      BY <2>1 DEF RedisFacts, KeyEntries
    <3>2. keys[k].pttl - 1 \in 1 .. Redis!ttl
      BY <3>1, RedisConstants
    <3> QED
      BY <3>1, <3>2
  <2> QED
    BY <2>1, <2>2 DEF RedisFacts, KeyEntries, RedisReplies
<1>2. ASSUME NEW user \in User, NEW token \in Token,
             Redis!Issue(user, token) \/ Redis!IssueFails(user, token)
      PROVE  RedisFacts'
  <2>1. /\ drawn' = drawn \cup {token} /\ told' \subseteq told \cup {token}
        /\ Redis!Set(token, user) \/ keys' = keys
    BY <1>2 DEF Redis!Issue, Redis!IssueFails
  <2>2. /\ DOMAIN keys' \subseteq {Redis!tokenKey(t) : t \in drawn'}
        /\ KeyEntries'
    BY <2>1, SetKeeps DEF RedisFacts, KeyEntries
  <2>3. \/ reply' = [code |-> 200, token |-> token, user |-> user]
        \/ reply' = [code |-> 503, token |-> token, user |-> Nobody]
    BY <1>2 DEF Redis!Issue, Redis!IssueFails, Redis!Ok, Redis!Unavailable
  <2>4. RedisReplies'
    <3> DEFINE T == drawn' \cup {NoToken} \cup {Redis!tokenKey(t) : t \in drawn'}
    <3>1. token \in T
      BY <2>1
    <3>2. RedisReplies' <=> reply' \in [code : {200, 401, 503}, token : T, user : User \cup {Nobody}]
      BY DEF RedisReplies
    <3> HIDE DEF T
    <3>3. PICK u \in User :
             \/ reply' = [code |-> 200, token |-> token, user |-> u]
             \/ reply' = [code |-> 401, token |-> token, user |-> Nobody]
             \/ reply' = [code |-> 503, token |-> token, user |-> Nobody]
      BY <2>3
    <3>4. reply' \in [code : {200, 401, 503}, token : T, user : User \cup {Nobody}]
      <4>1. CASE reply' = [code |-> 200, token |-> token, user |-> u]
        BY <3>1, <4>1
      <4>2. CASE reply' = [code |-> 401, token |-> token, user |-> Nobody]
        BY <3>1, <4>2
      <4>3. CASE reply' = [code |-> 503, token |-> token, user |-> Nobody]
        BY <3>1, <4>3
      <4> QED
        BY <3>3, <4>1, <4>2, <4>3
    <3> QED
      BY <3>2, <3>4
  <2> QED
    BY <2>1, <2>2, <2>4 DEF RedisFacts
<1>3. ASSUME NEW token \in Redis!Sent, Redis!Lookup(token) \/ Redis!LookupFails(token)
      PROVE  RedisFacts'
  <2>1. UNCHANGED <<keys, told, drawn>>
    BY <1>3 DEF Redis!Lookup, Redis!LookupFails
  <2>2. token \in drawn \cup {NoToken} \cup {Redis!tokenKey(t) : t \in drawn}
    BY DEF Redis!Sent, RedisFacts
  <2>3. \E user \in User :
        \/ reply' = [code |-> 200, token |-> token, user |-> user]
        \/ reply' = [code |-> 401, token |-> token, user |-> Nobody]
        \/ reply' = [code |-> 503, token |-> token, user |-> Nobody]
    <3>1. Redis!tokenKey(token) \in DOMAIN keys => keys[Redis!tokenKey(token)].username \in User
      BY DEF RedisFacts, KeyEntries
    <3>2. SeedUser \in User
      BY WebConstants
    <3> QED
      BY <1>3, <3>1, <3>2 DEF Redis!Lookup, Redis!LookupFails, Redis!Ok, Redis!Invalid, Redis!Unavailable
  <2>4. RedisReplies'
    <3> DEFINE T == drawn' \cup {NoToken} \cup {Redis!tokenKey(t) : t \in drawn'}
    <3>1. token \in T
      BY <2>1, <2>2
    <3>2. RedisReplies' <=> reply' \in [code : {200, 401, 503}, token : T, user : User \cup {Nobody}]
      BY DEF RedisReplies
    <3> HIDE DEF T
    <3>3. PICK u \in User :
             \/ reply' = [code |-> 200, token |-> token, user |-> u]
             \/ reply' = [code |-> 401, token |-> token, user |-> Nobody]
             \/ reply' = [code |-> 503, token |-> token, user |-> Nobody]
      BY <2>3
    <3>4. reply' \in [code : {200, 401, 503}, token : T, user : User \cup {Nobody}]
      <4>1. CASE reply' = [code |-> 200, token |-> token, user |-> u]
        BY <3>1, <4>1
      <4>2. CASE reply' = [code |-> 401, token |-> token, user |-> Nobody]
        BY <3>1, <4>2
      <4>3. CASE reply' = [code |-> 503, token |-> token, user |-> Nobody]
        BY <3>1, <4>3
      <4> QED
        BY <3>3, <4>1, <4>2, <4>3
    <3> QED
      BY <3>2, <3>4
  <2> QED
    BY <2>1, <2>4 DEF RedisFacts, KeyEntries
<1> QED
  BY <1>1, <1>2, <1>3 DEF Redis!Next

LEMMA RedisStep == Redis!TypeOK /\ Redis!Next => Redis!Promise!Next
<1> SUFFICES ASSUME RedisFacts, Redis!Next
             PROVE  Redis!Promise!Next
  BY RedisParts
<1>1. /\ told \subseteq drawn /\ drawn \subseteq Token
      /\ DOMAIN keys \subseteq {Redis!tokenKey(t) : t \in drawn}
  BY DEF RedisFacts
<1>2. CASE Redis!Expire
  <2>1. /\ keys' = [k \in {k \in DOMAIN keys : keys[k].pttl > 1} |->
                       [keys[k] EXCEPT !.pttl = keys[k].pttl - 1]]
        /\ UNCHANGED <<told, drawn, reply>>
    BY <1>2 DEF Redis!Expire
  <2>2. \A t \in DOMAIN Redis!Live :
           /\ Redis!Live[t].left = keys[Redis!tokenKey(t)].pttl
           /\ Redis!Live[t].user = keys[Redis!tokenKey(t)].username
    BY DEF Redis!Live
  <2>3. DOMAIN Redis!Live' = {t \in DOMAIN Redis!Live : Redis!Live[t].left > 1}
    BY <2>1, <2>2 DEF Redis!Live
  <2>4. \A t \in DOMAIN Redis!Live' :
           Redis!Live'[t] = [Redis!Live[t] EXCEPT !.left = Redis!Live[t].left - 1]
    <3> TAKE t \in DOMAIN Redis!Live'
    <3> DEFINE k == Redis!tokenKey(t)
    <3>1. /\ t \in told /\ k \in DOMAIN keys /\ keys[k].pttl > 1
          /\ keys'[k] = [keys[k] EXCEPT !.pttl = keys[k].pttl - 1]
          /\ keys[k] \in [username : User, pttl : 1 .. Redis!ttl]
      BY <2>1 DEF Redis!Live, RedisFacts, KeyEntries
    <3>2. Redis!Live[t] = [user |-> keys[k].username, left |-> keys[k].pttl]
      BY <3>1 DEF Redis!Live
    <3>3. Redis!Live'[t] = [user |-> keys'[k].username, left |-> keys'[k].pttl]
      BY DEF Redis!Live
    <3>4. keys'[k].username = keys[k].username /\ keys'[k].pttl = keys[k].pttl - 1
      BY <3>1
    <3> QED
      BY <3>2, <3>3, <3>4
  <2>5. Redis!Live' = [t \in DOMAIN Redis!Live' |-> Redis!Live'[t]]
    BY DEF Redis!Live
  <2>6. Redis!Promise!Tick
    BY <2>1, <2>3, <2>4, <2>5 DEF Redis!Promise!Tick
  <2> QED
    BY <2>6 DEF Redis!Promise!Next
<1>3. ASSUME NEW user \in User, NEW token \in Token, Redis!Issue(user, token)
      PROVE  Redis!Promise!Next
  <2> DEFINE key == Redis!tokenKey(token)
  <2>1. /\ token \notin drawn /\ drawn' = drawn \cup {token} /\ told' = told \cup {token}
        /\ keys' = [k \in DOMAIN keys \cup {key} |->
                       IF k = key THEN [username |-> user, pttl |-> Redis!ttl] ELSE keys[k]]
        /\ reply' = Redis!Promise!Ok(token, user)
    BY <1>3 DEF Redis!Issue, Redis!newToken, Redis!Set, Redis!Ok, Redis!Promise!Ok
  <2>2. \A t \in told : Redis!tokenKey(t) # key
    BY <1>1, <2>1, KeysDiffer
  <2>3. DOMAIN Redis!Live' = DOMAIN Redis!Live \cup {token}
    BY <2>1, <2>2 DEF Redis!Live
  <2>4. \A t \in DOMAIN Redis!Live' :
           Redis!Live'[t] = IF t = token THEN [user |-> user, left |-> Redis!ttl]
                            ELSE Redis!Live[t]
    <3> TAKE t \in DOMAIN Redis!Live'
    <3>1. Redis!Live'[t] = [user |-> keys'[Redis!tokenKey(t)].username,
                            left |-> keys'[Redis!tokenKey(t)].pttl]
      BY DEF Redis!Live
    <3>2. CASE t = token
      <4>1. keys'[key] = [username |-> user, pttl |-> Redis!ttl]
        BY <2>1
      <4> QED
        BY <3>1, <3>2, <4>1
    <3>3. CASE t # token
      <4>1. t \in DOMAIN Redis!Live /\ t \in told /\ Redis!tokenKey(t) \in DOMAIN keys
        BY <2>3, <3>3 DEF Redis!Live
      <4>2. keys'[Redis!tokenKey(t)] = keys[Redis!tokenKey(t)]
        BY <2>1, <2>2, <4>1
      <4> QED
        BY <3>1, <3>3, <4>1, <4>2 DEF Redis!Live
    <3> QED
      BY <3>2, <3>3
  <2>5. Redis!Live' = [t \in DOMAIN Redis!Live' |-> Redis!Live'[t]]
    BY DEF Redis!Live
  <2>6. Redis!Promise!Issue(user, token)
    BY <2>1, <2>3, <2>4, <2>5 DEF Redis!Promise!Issue
  <2> QED
    BY <2>6 DEF Redis!Promise!Next
<1>4. ASSUME NEW user \in User, NEW token \in Token, Redis!IssueFails(user, token)
      PROVE  Redis!Promise!Next
  <2> DEFINE key == Redis!tokenKey(token)
  <2>1. /\ token \notin drawn /\ drawn' = drawn \cup {token} /\ told' = told
        /\ \/ keys' = keys
           \/ keys' = [k \in DOMAIN keys \cup {key} |->
                          IF k = key THEN [username |-> user, pttl |-> Redis!ttl] ELSE keys[k]]
        /\ reply' = Redis!Promise!Unavailable(token)
    BY <1>4 DEF Redis!IssueFails, Redis!newToken, Redis!Set, Redis!Unavailable,
                Redis!Promise!Unavailable
  <2>2. \A t \in told : Redis!tokenKey(t) # key
    BY <1>1, <2>1, KeysDiffer
  <2>3. \A t \in told : /\ Redis!tokenKey(t) \in DOMAIN keys' <=> Redis!tokenKey(t) \in DOMAIN keys
                        /\ Redis!tokenKey(t) \in DOMAIN keys =>
                              keys'[Redis!tokenKey(t)] = keys[Redis!tokenKey(t)]
    BY <2>1, <2>2
  <2>4. Redis!Live' = Redis!Live
    BY <2>1, <2>3 DEF Redis!Live
  <2>5. Redis!Promise!IssueFails(token)
    BY <2>1, <2>4 DEF Redis!Promise!IssueFails
  <2> QED
    BY <2>5 DEF Redis!Promise!Next
<1>5. ASSUME NEW token \in Redis!Sent, Redis!Lookup(token) \/ Redis!LookupFails(token)
      PROVE  Redis!Promise!Next
  <2> DEFINE key == Redis!tokenKey(token)
  <2>1. token \in Token \cup ({NoToken} \cup {Redis!tokenKey(t) : t \in Token})
    BY <1>1 DEF Redis!Sent
  <2>2. Redis!Live' = Redis!Live /\ drawn' = drawn
    BY <1>5 DEF Redis!Lookup, Redis!LookupFails, Redis!Live
  <2>3. CASE Redis!LookupFails(token)
    <3>1. Redis!Promise!LookupFails(token)
      BY <2>2, <2>3 DEF Redis!LookupFails, Redis!Promise!LookupFails, Redis!Unavailable,
                        Redis!Promise!Unavailable
    <3> QED
      BY <2>1, <3>1 DEF Redis!Promise!Next
  <2>4. CASE Redis!Lookup(token)
    <3>1. token \in DOMAIN Redis!Live <=> token # NoToken /\ key \in DOMAIN keys
      <4>1. CASE token \in told
        BY <1>1, <4>1, RedisConstants DEF Redis!Live
      <4>2. CASE token = NoToken
        BY <1>1, <4>2, RedisConstants DEF Redis!Live
      <4>3. ASSUME NEW t \in drawn, token = Redis!tokenKey(t)
            PROVE  token \notin Token /\ key \notin DOMAIN keys
        <5>1. token \notin Token
          BY <1>1, <4>3, RedisConstants
        <5>2. ASSUME key \in DOMAIN keys
              PROVE  FALSE
          <6>1. PICK s \in drawn : key = Redis!tokenKey(s)
            BY <1>1, <5>2
          <6>2. token = s
            BY <6>1, KeysDiffer
          <6> QED
            BY <1>1, <5>1, <6>2
        <5> QED
          BY <5>1, <5>2
      <4> QED
        BY <1>1, <4>1, <4>2, <4>3 DEF Redis!Sent, Redis!Live
    <3>2. token \in DOMAIN Redis!Live => Redis!Live[token].user = keys[key].username
      BY DEF Redis!Live
    <3>3. Redis!Promise!Lookup(token)
      BY <2>2, <2>4, <3>1, <3>2 DEF Redis!Lookup, Redis!Promise!Lookup, Redis!Ok, Redis!Invalid,
                                    Redis!Promise!Ok, Redis!Promise!Invalid
    <3> QED
      BY <2>1, <3>3 DEF Redis!Promise!Next
  <2> QED
    BY <1>5, <2>3, <2>4
<1> QED
  BY <1>2, <1>3, <1>4, <1>5 DEF Redis!Next

\* Both stores, each on its own: they keep their types, and whatever they do is
\* what a TokenStore may do.
THEOREM StoresKeepTheirPromise == Spec => TokenStores
<1>1. Init => Mem!TypeOK /\ Redis!TypeOK /\ Mem!Promise!Init /\ Redis!Promise!Init
  BY MemInit, RedisInit
<1>2. Mem!TypeOK /\ [Next]_vars => Mem!TypeOK' /\ [Mem!Promise!Next]_(Mem!Promise!storeVars)
  <2> SUFFICES ASSUME Mem!TypeOK, [Next]_vars
               PROVE  Mem!TypeOK' /\ [Mem!Promise!Next]_(Mem!Promise!storeVars)
    OBVIOUS
  <2>1. CASE Mem!Next
    BY <2>1, MemTypes, MemStep
  <2>2. CASE UNCHANGED mem
    <3>1. UNCHANGED <<now, m, memDrawn, memReply>>
      BY <2>2 DEF mem
    <3>2. Mem!TypeOK'
      BY <3>1 DEF Mem!TypeOK
    <3>3. UNCHANGED Mem!Promise!storeVars
      BY <3>1 DEF Mem!Promise!storeVars, Mem!Live, Mem!Fresh
    <3> QED
      BY <3>2, <3>3
  <2> QED
    BY <2>1, <2>2 DEF Next, LoginSteps, LimitSteps, MemSteps, RedisSteps, CardSteps, ReportSteps, vars
<1>3. Redis!TypeOK /\ [Next]_vars => Redis!TypeOK' /\ [Redis!Promise!Next]_(Redis!Promise!storeVars)
  <2> SUFFICES ASSUME Redis!TypeOK, [Next]_vars
               PROVE  Redis!TypeOK' /\ [Redis!Promise!Next]_(Redis!Promise!storeVars)
    OBVIOUS
  <2>1. CASE Redis!Next
    BY <2>1, RedisTypes, RedisStep
  <2>2. CASE UNCHANGED redis
    <3>1. UNCHANGED <<keys, told, drawn, reply>>
      BY <2>2 DEF redis
    <3>2. Redis!TypeOK'
      BY <3>1 DEF Redis!TypeOK
    <3>3. UNCHANGED Redis!Promise!storeVars
      BY <3>1 DEF Redis!Promise!storeVars, Redis!Live
    <3> QED
      BY <3>2, <3>3
  <2> QED
    BY <2>1, <2>2 DEF Next, LoginSteps, LimitSteps, MemSteps, RedisSteps, CardSteps, ReportSteps, vars
<1> QED
  BY <1>1, <1>2, <1>3, PTL DEF Spec, TokenStores, Mem!StoreSpec, Redis!StoreSpec,
                               Mem!Promise!Spec, Redis!Promise!Spec

-----------------------------------------------------------------------------
(***************************************************************************)
(* Reports.                                                                *)
(***************************************************************************)
\* The rows are well formed, and a room has one at most.
RowsIInv ==
    /\ rows \subseteq Lists!Row /\ IsFiniteSet(rows)
    /\ \A r, s \in rows : r.room_id = s.room_id => r = s

Listed(s) == {s[i] : i \in DOMAIN s}

Least(k, n) == IF k < n THEN k ELSE n

\* A function on 1 .. n that tells its arguments apart has n values.
LEMMA ImageCount ==
    ASSUME NEW n \in Nat, NEW s, DOMAIN s = 1 .. n, s = [i \in 1 .. n |-> s[i]],
           \A i, j \in 1 .. n : s[i] = s[j] => i = j
    PROVE  IsFiniteSet(Listed(s)) /\ Cardinality(Listed(s)) = n
<1>1. s \in [1 .. n -> Listed(s)]
  BY DEF Listed
<1>2. s \in Surjection(1 .. n, Listed(s))
  BY <1>1 DEF Surjection, Listed
<1>3. s \in Injection(1 .. n, Listed(s))
  BY <1>1 DEF Injection, IsInjective
<1> QED
  BY <1>2, <1>3, UpTo, FS_Surjection

\* ORDER BY started_at DESC LIMIT n.
LEMMA NewestOf ==
    ASSUME NEW S, IsFiniteSet(S), \A x \in S : x.started_at \in Nat, NEW n \in Nat,
           NEW s \in Lists!Newest(S, n)
    PROVE  LET k == Least(Cardinality(S), n)
           IN  /\ k \in Nat /\ DOMAIN s = 1 .. k /\ s \in [1 .. k -> S]
               /\ \A i, j \in 1 .. k : s[i] = s[j] => i = j
               /\ \A i, j \in 1 .. k : i < j => s[i].started_at >= s[j].started_at
               /\ \A x \in S \ Listed(s) : \A i \in 1 .. k : x.started_at <= s[i].started_at
               /\ Listed(s) \subseteq S /\ IsFiniteSet(Listed(s)) /\ Cardinality(Listed(s)) = k
<1> DEFINE c == Cardinality(S)
           k == Least(c, n)
<1>1. c \in Nat /\ Lists!Cardinality(S) = c
  BY FS_CardinalityType, SameCount
<1>2. PICK q \in Lists!SetToSeqs(S) :
         /\ \A i, j \in DOMAIN q : i < j => q[i].started_at >= q[j].started_at
         /\ s = [i \in 1 .. (IF n < Len(q) THEN n ELSE Len(q)) |-> q[i]]
  BY DEF Lists!Newest
<1>3. q \in [1 .. c -> S] /\ \A i, j \in 1 .. c : i # j => q[i] # q[j]
  BY <1>1, <1>2 DEF Lists!SetToSeqs
<1> HIDE DEF c
<1>4. Len(q) = c
  BY <1>1, <1>3
<1>5. k \in Nat /\ k <= c /\ s = [i \in 1 .. k |-> q[i]]
  BY <1>1, <1>2, <1>4 DEF Least
<1> HIDE DEF k
<1>6. /\ DOMAIN s = 1 .. k /\ s \in [1 .. k -> S]
      /\ \A i \in 1 .. k : i \in 1 .. c /\ s[i] = q[i]
  BY <1>1, <1>3, <1>5
<1>7. \A i, j \in 1 .. k : s[i] = s[j] => i = j
  BY <1>3, <1>6
<1>8. \A i, j \in 1 .. k : i < j => s[i].started_at >= s[j].started_at
  BY <1>2, <1>3, <1>6
<1>9. \A x \in S : \E j \in 1 .. c : q[j] = x
  <2>1. q \in Injection(1 .. c, S)
    BY <1>3 DEF Injection, IsInjective
  <2>2. Cardinality(1 .. c) = Cardinality(S)
    BY <1>1, UpTo DEF c
  <2>3. q \in Surjection(1 .. c, S)
    BY <2>1, <2>2, FS_Injection
  <2> QED
    BY <2>3 DEF Surjection
<1>10. ASSUME NEW x \in S \ Listed(s), NEW i \in 1 .. k
       PROVE  x.started_at <= s[i].started_at
  <2>1. PICK j \in 1 .. c : q[j] = x
    BY <1>9
  <2>2. j \notin 1 .. k
    BY <1>6, <2>1, <1>10 DEF Listed
  <2>3. i < j
    BY <1>1, <1>5, <2>2
  <2>4. q[i].started_at >= q[j].started_at
    BY <1>2, <1>3, <1>6, <2>3
  <2>5. q[i].started_at \in Nat /\ q[j].started_at \in Nat
    BY <1>3, <1>6
  <2> QED
    BY <1>6, <2>1, <2>4, <2>5
<1>11. Listed(s) \subseteq S
  BY <1>6 DEF Listed
<1>12. IsFiniteSet(Listed(s)) /\ Cardinality(Listed(s)) = k
  BY <1>5, <1>6, <1>7, ImageCount
<1> QED
  BY <1>5, <1>6, <1>7, <1>8, <1>10, <1>11, <1>12 DEF k, c

\* What the first cut has dropped from one half is not newer than what the second
\* cut has kept of both.
LEMMA NothingNewerIsCut ==
    ASSUME NEW A, IsFiniteSet(A), NEW B, IsFiniteSet(B),
           \A x \in A \cup B : x.started_at \in Nat, NEW n \in Nat, n > 0,
           NEW as \in Lists!Newest(A, n), NEW bs \in Lists!Newest(B, n),
           NEW found \in Lists!Newest(Listed(as) \cup Listed(bs), n),
           NEW r \in A \ Listed(found), NEW i \in DOMAIN found
    PROVE  r.started_at <= found[i].started_at
<1> DEFINE U == Listed(as) \cup Listed(bs)
           ka == Least(Cardinality(A), n)
           k == Least(Cardinality(U), n)
<1>1. /\ ka \in Nat /\ DOMAIN as = 1 .. ka /\ as \in [1 .. ka -> A]
      /\ \A x \in A \ Listed(as) : \A j \in 1 .. ka : x.started_at <= as[j].started_at
      /\ Listed(as) \subseteq A /\ IsFiniteSet(Listed(as)) /\ Cardinality(Listed(as)) = ka
  BY NewestOf
<1>2. Listed(bs) \subseteq B /\ IsFiniteSet(Listed(bs))
  BY NewestOf
<1>3. IsFiniteSet(U) /\ \A x \in U : x.started_at \in Nat
  BY <1>1, <1>2, FS_Union
<1>4. found \in Lists!Newest(U, n)
  OBVIOUS
<1> HIDE DEF U
<1>5. /\ k \in Nat /\ DOMAIN found = 1 .. k /\ found \in [1 .. k -> U]
      /\ \A x \in U \ Listed(found) : \A j \in 1 .. k : x.started_at <= found[j].started_at
      /\ Listed(found) \subseteq U /\ IsFiniteSet(Listed(found)) /\ Cardinality(Listed(found)) = k
  BY <1>3, <1>4, NewestOf
<1> HIDE DEF ka, k
<1>6. found[i] \in U /\ found[i] \in Listed(found) /\ found[i].started_at \in Nat
  BY <1>3, <1>5 DEF Listed
<1>7. CASE r \in Listed(as)
  BY <1>5, <1>7 DEF U
<1>8. CASE r \notin Listed(as)
  <2>1. ka = n
    <3>1. ka = Cardinality(A) \/ ka = n
      BY DEF ka, Least
    <3>2. ka # Cardinality(A)
      BY <1>1, <1>8, FS_Subset
    <3> QED
      BY <3>1, <3>2
  <2>2. \A x \in Listed(as) : x \in A /\ r.started_at <= x.started_at
    BY <1>1, <1>8 DEF Listed
  <2>3. CASE found[i] \in Listed(as)
    BY <2>2, <2>3
  <2>4. CASE found[i] \notin Listed(as)
    <3>1. PICK x \in Listed(as) : x \notin Listed(found)
      <4>1. SUFFICES ASSUME Listed(as) \subseteq Listed(found)
                     PROVE  FALSE
        OBVIOUS
      <4>2. ka <= k
        BY <1>1, <1>5, <4>1, FS_Subset
      <4>3. k <= n
        <5>1. Cardinality(U) \in Nat
          BY <1>3, FS_CardinalityType
        <5> QED
          BY <5>1 DEF k, Least
      <4>4. Cardinality(Listed(found)) = Cardinality(Listed(as))
        BY <1>1, <1>5, <2>1, <4>2, <4>3
      <4>5. Listed(found) = Listed(as)
        BY <1>5, <4>1, <4>4, FS_Subset
      <4> QED
        BY <1>6, <2>4, <4>5
    <3>2. x \in U /\ x.started_at <= found[i].started_at
      BY <1>5, <3>1 DEF U
    <3>3. r.started_at <= x.started_at /\ x.started_at \in Nat /\ r.started_at \in Nat
      BY <2>2, <3>1
    <3> QED
      BY <1>6, <3>2, <3>3
  <2> QED
    BY <2>3, <2>4
<1> QED
  BY <1>7, <1>8

\* Two sets with nothing in common have as many elements together as apart.
LEMMA DisjointCount ==
  ASSUME NEW X, NEW Y, IsFiniteSet(X), IsFiniteSet(Y), X \cap Y = {}
  PROVE  /\ IsFiniteSet(X \cup Y)
         /\ Cardinality(X \cup Y) = Cardinality(X) + Cardinality(Y)
<1>1. IsFiniteSet(X \cup Y) /\ Cardinality(X \cup Y) = Cardinality(X) + Cardinality(Y) - Cardinality(X \cap Y)
  BY FS_Union
<1>2. Cardinality(X \cap Y) = 0 /\ Cardinality(X) \in Nat /\ Cardinality(Y) \in Nat
  BY FS_EmptySet, FS_CardinalityType
<1> QED
  BY <1>1, <1>2

\* The list that ListReports answers with, in a table whose rows are well formed.
LEMMA ListIsRight == RowsIInv => ListIsNewest
<1> SUFFICES ASSUME RowsIInv, NEW me \in User, NEW v \in Limits,
                    NEW items \in Lists!ListReports(me, v)
             PROVE  LET listed == {items[i].room_id : i \in DOMAIN items}
                        mine == Lists!Mine(me)
                    IN  /\ Cardinality(listed) = Len(items)
                        /\ listed \subseteq {r.room_id : r \in mine}
                        /\ Len(items) = IF Cardinality(mine) < Lists!LimitOf(v)
                                        THEN Cardinality(mine) ELSE Lists!LimitOf(v)
                        /\ \A i, j \in DOMAIN items :
                              i < j => items[i].started_at >= items[j].started_at
                        /\ \A r \in mine, i \in DOMAIN items :
                              r.room_id \notin listed => r.started_at <= items[i].started_at
  BY SameCount, ZenonT(60) DEF ListIsNewest, Lists!ListIsNewest
<1> DEFINE n == Lists!LimitOf(v)
           A == {r \in rows : r.player_a = me}
           B == {r \in rows : r.player_b = me}
           mine == Lists!Mine(me)
<1>1. n \in Nat /\ n > 0
  <2>1. v \in Int /\ DefaultLimit \in Nat \ {0} /\ MaxLimit \in Nat \ {0}
    BY WebConstants
  <2> QED
    BY <2>1 DEF Lists!LimitOf
<1>2. /\ mine = A \cup B /\ A \cap B = {} /\ IsFiniteSet(A) /\ IsFiniteSet(B)
      /\ \A x \in A \cup B : x.started_at \in Nat /\ x \in rows
  <2>1. \A x \in rows : x.player_a # x.player_b /\ x.started_at \in Time
    BY DEF RowsIInv, Lists!Row
  <2>2. Time \subseteq Nat
    BY WebConstants
  <2>3. IsFiniteSet(A) /\ IsFiniteSet(B)
    BY FS_Subset DEF RowsIInv
  <2>4. mine = A \cup B /\ A \cap B = {}
    BY <2>1 DEF Lists!Mine
  <2> QED
    BY <2>1, <2>2, <2>3, <2>4
<1>3. PICK found \in Lists!Query(me, n) :
          items = [i \in DOMAIN found |-> Lists!Item(found[i], me)]
  BY DEF Lists!ListReports
<1>4. PICK as \in Lists!Newest(A, n), bs \in Lists!Newest(B, n) :
         found \in Lists!Newest(Lists!ToSet(as) \cup Lists!ToSet(bs), n)
  BY DEF Lists!Query
<1> DEFINE U == Listed(as) \cup Listed(bs)
           k == Least(Cardinality(U), n)
<1>5. found \in Lists!Newest(U, n) /\ found \in Lists!Newest(Listed(bs) \cup Listed(as), n)
  <2>1. Lists!ToSet(as) = Listed(as) /\ Lists!ToSet(bs) = Listed(bs)
    BY DEF Lists!ToSet, Listed
  <2>2. Listed(bs) \cup Listed(as) = U
    OBVIOUS
  <2> QED
    BY <1>4, <2>1, <2>2
<1> HIDE DEF n, A, B, mine
<1>6. /\ Listed(as) \subseteq A /\ IsFiniteSet(Listed(as))
      /\ Cardinality(Listed(as)) = Least(Cardinality(A), n)
  BY <1>1, <1>2, NewestOf
<1>7. /\ Listed(bs) \subseteq B /\ IsFiniteSet(Listed(bs))
      /\ Cardinality(Listed(bs)) = Least(Cardinality(B), n)
  BY <1>1, <1>2, NewestOf
<1>8. /\ IsFiniteSet(U) /\ U \subseteq A \cup B
      /\ Cardinality(U) = Least(Cardinality(A), n) + Least(Cardinality(B), n)
  <2>1. Listed(as) \cap Listed(bs) = {}
    BY <1>2, <1>6, <1>7
  <2>2. /\ IsFiniteSet(U)
        /\ Cardinality(U) = Cardinality(Listed(as)) + Cardinality(Listed(bs))
    BY <1>6, <1>7, <2>1, DisjointCount DEF U
  <2>3. U \subseteq A \cup B
    BY <1>6, <1>7 DEF U
  <2> HIDE DEF U
  <2> QED
    BY <1>6, <1>7, <2>2, <2>3
<1> HIDE DEF U
<1>9. /\ k \in Nat /\ DOMAIN found = 1 .. k /\ found \in [1 .. k -> U]
      /\ \A i, j \in 1 .. k : found[i] = found[j] => i = j
      /\ \A i, j \in 1 .. k : i < j => found[i].started_at >= found[j].started_at
      /\ \A x \in U \ Listed(found) : \A i \in 1 .. k : x.started_at <= found[i].started_at
  BY <1>1, <1>2, <1>5, <1>8, NewestOf
<1>10. Cardinality(mine) \in Nat /\ k = Least(Cardinality(mine), n)
  <2>1. /\ Cardinality(A) \in Nat /\ Cardinality(B) \in Nat
        /\ Cardinality(mine) = Cardinality(A) + Cardinality(B)
    <3>1. Cardinality(mine) = Cardinality(A) + Cardinality(B)
      BY <1>2, DisjointCount
    <3>2. Cardinality(A) \in Nat /\ Cardinality(B) \in Nat
      BY <1>2, FS_CardinalityType
    <3> QED
      BY <3>1, <3>2
  <2> QED
    BY <1>1, <1>8, <2>1 DEF Least
<1> HIDE DEF k
<1>11. /\ DOMAIN items = 1 .. k /\ Len(items) = k
       /\ \A i \in 1 .. k : /\ items[i].room_id = found[i].room_id
                            /\ items[i].started_at = found[i].started_at
                            /\ found[i] \in mine /\ found[i] \in rows
  <2>1. items = [i \in 1 .. k |-> Lists!Item(found[i], me)]
    BY <1>3, <1>9
  <2>2. \A i \in 1 .. k : found[i] \in mine /\ found[i] \in rows
    BY <1>2, <1>8, <1>9
  <2>3. \A x : Lists!Item(x, me).room_id = x.room_id /\ Lists!Item(x, me).started_at = x.started_at
    BY DEF Lists!Item
  <2>4. DOMAIN items = 1 .. k /\ Len(items) = k
    BY <1>9, <2>1
  <2> QED
    BY <2>1, <2>2, <2>3, <2>4
<1> DEFINE ids == [i \in 1 .. k |-> items[i].room_id]
           listed == {items[i].room_id : i \in DOMAIN items}
<1>12. Listed(ids) = listed /\ Cardinality(listed) = k
  <2>1. \A i, j \in 1 .. k : ids[i] = ids[j] => i = j
    BY <1>9, <1>11 DEF RowsIInv
  <2>2. DOMAIN ids = 1 .. k /\ ids = [i \in 1 .. k |-> ids[i]]
    OBVIOUS
  <2>3. Listed(ids) = listed
    BY <1>11 DEF Listed
  <2> HIDE DEF ids, listed
  <2>4. Cardinality(Listed(ids)) = k
    BY <1>9, <2>1, <2>2, ImageCount
  <2> QED
    BY <2>3, <2>4
<1>13. listed \subseteq {r.room_id : r \in mine}
  BY <1>11
<1>14. ASSUME NEW r \in mine, NEW i \in DOMAIN items, r.room_id \notin listed
       PROVE  r.started_at <= items[i].started_at
  <2>1. r \notin Listed(found) /\ i \in DOMAIN found
    BY <1>9, <1>11, <1>14 DEF Listed
  <2>2. \A x \in A \cup B : x.started_at \in Nat
    BY <1>2
  <2>3. \A x \in B \cup A : x.started_at \in Nat
    BY <1>2
  <2> HIDE DEF listed
  <2>4. CASE r \in A
    <3>1. r.started_at <= found[i].started_at
      BY <1>1, <1>2, <1>5, <2>1, <2>2, <2>4, NothingNewerIsCut DEF U
    <3> QED
      BY <1>9, <1>11, <2>1, <3>1
  <2>5. CASE r \in B
    <3>1. r.started_at <= found[i].started_at
      BY <1>1, <1>2, <1>5, <2>1, <2>3, <2>5, NothingNewerIsCut
    <3> QED
      BY <1>9, <1>11, <2>1, <3>1
  <2> QED
    BY <1>2, <2>4, <2>5
<1> HIDE DEF ids, listed
<1> QED
  BY <1>9, <1>10, <1>11, <1>12, <1>13, <1>14 DEF n, mine, Least, listed

LEMMA RowsStep == RowsIInv /\ [Next]_vars => RowsIInv'
<1> SUFFICES ASSUME RowsIInv, [Next]_vars
             PROVE  RowsIInv'
  OBVIOUS
<1>1. CASE UNCHANGED rows
  BY <1>1 DEF RowsIInv
<1>2. ASSUME NEW row \in Lists!Row, Lists!SaveBattleReport(row)
      PROVE  RowsIInv'
  <2>1. CASE Lists!Unique(row)
    <3>1. rows' = rows \cup {row}
      BY <1>2, <2>1 DEF Lists!SaveBattleReport
    <3>2. IsFiniteSet(rows')
      BY <3>1, FS_AddElement DEF RowsIInv
    <3> QED
      BY <2>1, <3>1, <3>2 DEF RowsIInv, Lists!Unique
  <2>2. CASE ~Lists!Unique(row)
    BY <1>1, <1>2, <2>2 DEF Lists!SaveBattleReport
  <2> QED
    BY <2>1, <2>2
<1> QED
  BY <1>1, <1>2 DEF Next, Lists!Next, LoginSteps, LimitSteps, MemSteps, RedisSteps, CardSteps,
                    ReportSteps, vars

\* Whatever matches end in whatever order, the list shows the player's newest.
THEOREM ListsAreNewest == Spec => []ListIsNewest
<1>1. Init => RowsIInv
  BY FS_EmptySet DEF Init, Lists!Init, RowsIInv
<1> QED
  BY <1>1, RowsStep, ListIsRight, PTL DEF Spec

=============================================================================
