------------------------------- MODULE Match -------------------------------
(***************************************************************************)
(* internal/match: the waiting queue, two Redis sorted sets (mm:rating and *)
(* mm:time), used by the connections' readLoops (enqueue, dequeue) and by  *)
(* one matcher goroutine.  Redis executes one command, or one MULTI block, *)
(* at a time, and nothing else makes the callers wait for each other: so   *)
(* every command is an action.                                             *)
(*                                                                         *)
(* A command may fail (timeout, lost connection, shutdown), and its caller *)
(* cannot know whether Redis executed it.  Faults bounds how often.        *)
(*                                                                         *)
(* A time stamp is represented by its age, counted in seconds and not      *)
(* further than AgeCap, where the window has reached its maximum; that of  *)
(* a new entry is counted from the command which writes it.                *)
(***************************************************************************)
EXTENDS Integers, Sequences, FiniteSets, SequencesExt

CONSTANTS
    Player,
    Scores,        \* the scores each player may enqueue with: the client names one each time
    BaseWindow, WidenPerSec, MaxWindow, Batch,  \* fields of Manager
    RangeCount,    \* Count of the ZRANGE for opponents (code: 10)
    AgeCap,        \* ages are not told apart beyond this
    Calls,         \* bound on the calls of Join and Leave
    Faults         \* bound on failing commands and restarts

ASSUME MatchConstants ==
    /\ Scores \in [Player -> SUBSET Int]
    /\ {BaseWindow, WidenPerSec, MaxWindow, Calls, Faults} \subseteq Nat
    /\ {Batch, RangeCount, AgeCap} \subseteq Nat \ {0}
    /\ BaseWindow + WidenPerSec * AgeCap >= MaxWindow

VARIABLES
    rating,   \* mm:rating: member -> score
    time,     \* mm:time: member -> age of its time stamp
    joining,  \* per player, the Joins that have done the first of their two commands
    intent,   \* what each player last asked for or was told
    pc,       \* the command that matchOnce issues next
    zs,       \* what is left of the batch; its head is a
    paired,   \* local variable of matchOnce
    aScore,   \* local variable of matchOnce
    b,        \* local variable of matchOnce
    bScore,   \* the score that Redis found b by (not kept by the code)
    credit,   \* entries made by Join, less those Leave removed and the pairs
    calls, faults

queue == <<rating, time>>
clients == <<joining, intent, credit>>
pass == <<pc, zs, paired, aScore, b, bScore>>
bounds == <<calls, faults>>
vars == <<queue, clients, pass, bounds>>

Nobody == "nobody"
Ages == 0 .. AgeCap
Older(age) == IF age < AgeCap THEN age + 1 ELSE age

Init ==
    /\ rating = <<>> /\ time = <<>>
    /\ joining = [p \in Player |-> 0]
    /\ intent = [p \in Player |-> "away"]
    /\ credit = [p \in Player |-> 0]
    /\ pc = "idle" /\ zs = <<>> /\ paired = {} /\ aScore = 0 /\ b = Nobody /\ bScore = 0
    /\ calls = 0 /\ faults = 0

-----------------------------------------------------------------------------
(***************************************************************************)
(* Sorted sets, as functions from members to scores.                       *)
(***************************************************************************)
ZAdd(z, p, s) == [q \in DOMAIN z \cup {p} |-> IF q = p THEN s ELSE z[q]]
ZAddNX(z, p, s) == IF p \in DOMAIN z THEN z ELSE ZAdd(z, p, s)
ZRem(z, p) == [q \in DOMAIN z \ {p} |-> z[q]]

\* The members in S by score: in every order that z allows.
Sorted(z, S, Before(_, _)) ==
    {s \in SetToSeqs(S) : \A i, j \in DOMAIN s : i < j => ~Before(z[s[j]], z[s[i]])}

FirstOf(s, n) == SubSeq(s, 1, IF Len(s) < n THEN Len(s) ELSE n)

Works == UNCHANGED faults
Fails == faults < Faults /\ faults' = faults + 1

\* A command that leaves z' in sorted set z when it is executed: it works, or
\* it fails and is executed, or it fails and is not.
Failed(z, then) == Fails /\ z' \in {z, then}

-----------------------------------------------------------------------------
(***************************************************************************)
(* The connections.  Two connections of one player may overlap (a new one  *)
(* kicks the old one), so a Leave, or another Join, with another score,    *)
(* may come in the middle of a Join.                                       *)
(***************************************************************************)
Called == calls < Calls /\ calls' = calls + 1

JoinRating(p, score) ==
    /\ Called
    /\ \/ /\ Works
          /\ rating' = ZAddNX(rating, p, score)
          /\ joining' = [joining EXCEPT ![p] = @ + 1]
          /\ intent' = [intent EXCEPT ![p] = "queued"]
       \/ /\ Failed(rating, ZAddNX(rating, p, score))
          /\ UNCHANGED <<joining, intent>>
    /\ credit' = IF rating' # rating THEN [credit EXCEPT ![p] = @ + 1] ELSE credit
    /\ UNCHANGED <<time, pass>>

\* The message enqueue names the score.
Enqueue(p) == \E score \in Scores[p] : JoinRating(p, score)

JoinTime(p) ==
    /\ joining[p] > 0
    /\ joining' = [joining EXCEPT ![p] = @ - 1]
    /\ \/ Works /\ time' = ZAddNX(time, p, 0)
       \/ Failed(time, ZAddNX(time, p, 0))
    /\ UNCHANGED <<rating, intent, credit, calls, pass>>

\* Both removals are one MULTI block.  The callers ignore its error: they tell
\* the player "dequeued" all the same, or there is nobody left to tell.
Leave(p) ==
    /\ intent[p] \in {"queued", "matched"}
    /\ Called
    /\ \/ /\ Works
          /\ rating' = ZRem(rating, p) /\ time' = ZRem(time, p)
          /\ intent' = [intent EXCEPT ![p] = "left"]
       \/ /\ Fails
          /\ \/ rating' = ZRem(rating, p) /\ time' = ZRem(time, p)
             \/ UNCHANGED queue
          /\ UNCHANGED intent
    /\ credit' = IF rating' # rating THEN [credit EXCEPT ![p] = @ - 1] ELSE credit
    /\ UNCHANGED <<joining, pass>>

-----------------------------------------------------------------------------
(***************************************************************************)
(* matchOnce.                                                              *)
(***************************************************************************)
a == Head(zs).id

EndPass ==
    /\ pc' = "idle" /\ zs' = <<>> /\ paired' = {}
    /\ aScore' = 0 /\ b' = Nobody /\ bScore' = 0

\* continue: on to the next of the batch.
Continue(done) ==
    IF Len(zs) = 1 THEN EndPass
    ELSE /\ pc' = "score" /\ zs' = Tail(zs) /\ paired' = done
         /\ aScore' = 0 /\ b' = Nobody /\ bScore' = 0

Goto(next) == pc' = next /\ UNCHANGED <<zs, paired, aScore, b, bScore>>

\* ZRANGE mm:time 0 batch-1: smallest time stamp first.
Oldest == {FirstOf(s, Batch) : s \in Sorted(time, DOMAIN time, LAMBDA x, y : x > y)}

\* The tick of the ticker and the first command.  waited is fixed by the now
\* that the pass started with; the time stamp itself goes on getting older.
Begin ==
    /\ pc = "idle"
    /\ DOMAIN time # {}
    /\ \/ /\ Works
          /\ \E s \in Oldest :
                zs' = [k \in DOMAIN s |-> [id |-> s[k], waited |-> time[s[k]],
                                           age |-> time[s[k]]]]
          /\ pc' = "score" /\ UNCHANGED <<paired, aScore, b, bScore>>
       \/ Fails /\ UNCHANGED pass
    /\ UNCHANGED <<queue, clients, calls>>

\* ZSCORE of a, unless a is paired already.
ReadScore ==
    /\ pc = "score"
    /\ \/ /\ Works
          /\ IF a \in paired \/ a \notin DOMAIN rating THEN Continue(paired)
             ELSE /\ aScore' = rating[a] /\ pc' = "range"
                  /\ UNCHANGED <<zs, paired, b, bScore>>
       \/ a \notin paired /\ Fails /\ EndPass
    /\ UNCHANGED <<queue, clients, calls>>

\* Fault: the window does not widen.
Window_Fault(waited) == IF BaseWindow < MaxWindow THEN BaseWindow ELSE MaxWindow

Window(waited) ==
    LET w == BaseWindow + WidenPerSec * waited
    IN  IF w > MaxWindow THEN MaxWindow ELSE w

\* Fault: the range has no lower end.
InWindow_Fault(p) == rating[p] <= aScore + Window(Head(zs).waited)

InWindow(p) ==
    LET w == Window(Head(zs).waited)
    IN  rating[p] \in aScore - w .. aScore + w

\* ZRANGE mm:rating BYSCORE: the opponent is the first of those listed that is
\* neither a nor paired.
ChooseOpponent ==
    /\ pc = "range"
    /\ \/ /\ Works
          /\ \E s \in Sorted(rating, {p \in DOMAIN rating : InWindow(p)},
                             LAMBDA x, y : x < y) :
                LET ids == FirstOf(s, RangeCount)
                    k == SelectInSeq(ids, LAMBDA p : p # a /\ p \notin paired)
                IN  IF k = 0 THEN Continue(paired)
                    ELSE /\ b' = ids[k] /\ bScore' = rating[ids[k]] /\ pc' = "takeA"
                         /\ UNCHANGED <<zs, paired, aScore>>
       \/ Fails /\ EndPass
    /\ UNCHANGED <<queue, clients, calls>>

\* Fault: take succeeds whatever ZREM says it has removed.
Removed_Fault(p) == TRUE

\* The result n of ZREM mm:rating p: whoever gets 1 owns the player.
Removed(p) == p \in DOMAIN rating

\* take(a), first command.
TakeA ==
    /\ pc = "takeA"
    /\ \/ /\ Works
          /\ rating' = ZRem(rating, a)
          /\ IF Removed(a) THEN Goto("takeA2") ELSE Continue(paired)
       \/ Failed(rating, ZRem(rating, a)) /\ EndPass
    /\ UNCHANGED <<time, clients, calls>>

\* take(a), second command: its error is ignored.
TakeA2 ==
    /\ pc = "takeA2"
    /\ \/ Works /\ time' = ZRem(time, a)
       \/ Failed(time, ZRem(time, a))
    /\ Goto("takeB")
    /\ UNCHANGED <<rating, clients, calls>>

\* Fault: a is not put back when b is gone.
AfterTakeB_Fault(ok) == IF ok THEN Goto("takeB2") ELSE Continue(paired)

AfterTakeB(ok) == IF ok THEN Goto("takeB2") ELSE Goto("restore")

\* take(b), first command: an error means "not taken", as a zero does.
TakeB ==
    /\ pc = "takeB"
    /\ \/ Works /\ rating' = ZRem(rating, b) /\ AfterTakeB(Removed(b))
       \/ Failed(rating, ZRem(rating, b)) /\ AfterTakeB(FALSE)
    /\ UNCHANGED <<time, clients, calls>>

\* take(b), second command, and OnMatch, which notifies both players.
TakeB2 ==
    /\ pc = "takeB2"
    /\ \/ Works /\ time' = ZRem(time, b)
       \/ Failed(time, ZRem(time, b))
    /\ intent' = [p \in Player |-> IF p \in {a, b} THEN "matched" ELSE intent[p]]
    /\ credit' = [p \in Player |-> IF p \in {a, b} THEN credit[p] - 1 ELSE credit[p]]
    /\ Continue(paired \cup {a, b})
    /\ UNCHANGED <<rating, joining, calls>>

\* restore, first command; matchOnce ignores the error.
Restore ==
    /\ pc = "restore"
    /\ \/ Works /\ rating' = ZAdd(rating, a, aScore) /\ Goto("restore2")
       \/ Failed(rating, ZAdd(rating, a, aScore)) /\ Continue(paired)
    /\ UNCHANGED <<time, clients, calls>>

\* Fault: the waiting starts again.
Restore2_Fault ==
    /\ pc = "restore2"
    /\ Works /\ time' = ZAdd(time, a, 0)
    /\ Continue(paired)
    /\ UNCHANGED <<rating, clients, calls>>

\* restore, second command, with the time stamp that was read.
Restore2 ==
    /\ pc = "restore2"
    /\ \/ Works /\ time' = ZAdd(time, a, Head(zs).age)
       \/ Failed(time, ZAdd(time, a, Head(zs).age))
    /\ Continue(paired)
    /\ UNCHANGED <<rating, clients, calls>>

MatchOnce ==
    Begin \/ ReadScore \/ ChooseOpponent \/ TakeA \/ TakeA2 \/ TakeB \/ TakeB2
    \/ Restore \/ Restore2

-----------------------------------------------------------------------------
\* A second passes.
Tick ==
    /\ time' = [p \in DOMAIN time |-> Older(time[p])]
    /\ zs' = [k \in DOMAIN zs |-> [zs[k] EXCEPT !.age = Older(@)]]
    /\ UNCHANGED <<rating, clients, pc, paired, aScore, b, bScore, bounds>>

\* The server restarts; Redis keeps the queue.
Restart ==
    /\ Fails
    /\ EndPass
    /\ joining' = [p \in Player |-> 0]
    /\ UNCHANGED <<queue, intent, credit, calls>>

Next ==
    \/ \E p \in Player : Enqueue(p) \/ JoinTime(p) \/ Leave(p)
    \/ MatchOnce
    \/ Tick
    \/ Restart

\* The matcher's ticker never stops, a Join that has begun goes on to its second
\* command, and time passes.
Fairness ==
    /\ WF_vars(MatchOnce) /\ WF_vars(Tick)
    /\ \A p \in Player : WF_vars(JoinTime(p))

Spec == Init /\ [][Next]_vars /\ Fairness

-----------------------------------------------------------------------------
TypeOK ==
    /\ DOMAIN rating \subseteq Player /\ \A p \in DOMAIN rating : rating[p] \in Scores[p]
    /\ DOMAIN time \subseteq Player /\ \A p \in DOMAIN time : time[p] \in Ages
    /\ joining \in [Player -> Nat]
    /\ intent \in [Player -> {"away", "queued", "matched", "left"}]
    /\ pc \in {"idle", "score", "range", "takeA", "takeA2", "takeB", "takeB2",
               "restore", "restore2"}
    /\ zs \in Seq([id : Player, waited : Ages, age : Ages]) /\ Len(zs) <= Batch
    /\ pc = "idle" <=> zs = <<>>
    /\ paired \subseteq Player /\ b \in Player \cup {Nobody}

\* Players that matchOnce has taken out of the queue and not disposed of yet.
Held ==
    (IF pc \in {"takeA2", "takeB", "takeB2", "restore"} THEN {a} ELSE {})
    \cup (IF pc = "takeB2" THEN {b} ELSE {})

\* take as a lock: every pair that is handed to OnMatch uses up one entry that
\* each of its two players made and did not withdraw; no entry serves twice,
\* through failures and restarts, restores and concurrent re-enqueues alike.
OnePairPerEntry ==
    \A p \in Player :
        credit[p] >= Cardinality({p} \cap DOMAIN rating) + Cardinality({p} \cap Held)

\* The matcher's books: the types of queue and locals, and take as a lock.
MatchInv == TypeOK /\ OnePairPerEntry

\* take and restore: while no command fails, a player who enqueued, did not
\* leave and was not matched is in the queue, or about to be paired or restored.
NobodyLost ==
    faults = 0 =>
        \A p \in Player : intent[p] = "queued" => p \in DOMAIN rating \cup Held

\* The score by which the matcher knows each player that it is at work on.
Seen ==
    [p \in IF pc \in {"idle", "score"} THEN {} ELSE IF pc = "range" THEN {a} ELSE {a, b}
        |-> IF p = a THEN aScore ELSE bScore]

\* What it is all for (module Queue): OnMatch gets two players, not one twice, that
\* Redis found in the queue under scores no further apart than MaxWindow, in this
\* pass, and each has enqueued for it, however often they left, enqueued again
\* with another score or failed while the matcher was at work on them.  (A player
\* who did so is matched by the score he was found with.)
Promise == INSTANCE Queue WITH
    entries <- credit, told <- {p \in Player : intent[p] = "matched"},
    scores <- rating, seen <- Seen

QueueSpec == Promise!Spec

\* The age under which p waits: that of the entry in hand from take to restore.
Seniority(p) ==
    IF pc \in {"takeA2", "takeB", "takeB2", "restore", "restore2"} /\ p = a
    THEN Head(zs).age
    ELSE IF p \in DOMAIN time THEN time[p] ELSE 0

\* Join (NX) and restore: as long as a player is waiting, neither another
\* enqueue nor a match that fell through makes the waiting time start again.
\* (A command that fails may cost the seniority, or the place itself.)
SeniorityKept ==
    [][faults' = 0 => \A p \in Player :
          intent[p] = "queued" /\ intent'[p] = "queued" => Seniority(p)' >= Seniority(p)]_vars

\* p waits with score s: in the queue, or in the matcher's hands.
WaitsWith(p, s) ==
    /\ intent[p] = "queued"
    /\ (p \in DOMAIN rating /\ rating[p] = s) \/ (p \in Held /\ Seen[p] = s)

\* matchOnce: two players do not both wait for ever with scores that differ by no
\* more than MaxWindow, unless a command fails, or Batch entries that are in
\* mm:time alone fill every batch.
MatchHappens ==
    \A p, q \in Player : \A s \in Scores[p], t \in Scores[q] :
        p # q /\ s - t \in 0 .. MaxWindow =>
            (WaitsWith(p, s) /\ WaitsWith(q, t)
                ~> \/ ~WaitsWith(p, s) \/ ~WaitsWith(q, t)
                   \/ faults > 0
                   \/ pc = "idle" /\ Cardinality(DOMAIN time \ DOMAIN rating) >= Batch)

\* TestOddPlayerStaysInQueue: "the two sorted sets must not disagree", once
\* nobody is at work on them.
QueuesAgree == pc = "idle" /\ (\A p \in Player : joining[p] = 0) => DOMAIN rating = DOMAIN time

=============================================================================
