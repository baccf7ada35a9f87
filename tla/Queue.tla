-------------------------------- MODULE Queue --------------------------------
(***************************************************************************)
(* What matchmaking promises: two players are told that they are matched   *)
(* only together, each for an entry of his own that he has not withdrawn   *)
(* and that has matched nobody before, and only if the matcher, at work on *)
(* these two, has seen them in the queue under scores that differ by no    *)
(* more than MaxWindow.  Which scores are meant has to be said: a player   *)
(* may withdraw while the matcher is at work on him and enqueue again with *)
(* another score, and is then matched, or put back, by the one seen.       *)
(***************************************************************************)
EXTENDS Integers

CONSTANTS Player, Scores, MaxWindow

VARIABLES
    entries,   \* player -> entries neither withdrawn nor used for a match
    told,      \* players whose last word is that they are matched
    scores,    \* the queue: player -> score
    seen       \* the players that the matcher is at work on -> score it saw

queueVars == <<entries, told, scores, seen>>

None == [p \in {} |-> 0]

With(z, p, s) == [r \in DOMAIN z \cup {p} |-> IF r = p THEN s ELSE z[r]]
Without(z, p) == [r \in DOMAIN z \ {p} |-> z[r]]

Init ==
    /\ entries = [p \in Player |-> 0] /\ told = {}
    /\ scores = None /\ seen = None

\* A call that is answered takes back what was said before; one that fails may
\* have made or withdrawn the entry all the same.
Answers(p) == told' \in {told, told \ {p}} /\ UNCHANGED seen

Enqueue(p, s) ==
    /\ Answers(p)
    /\ p \notin DOMAIN scores
    /\ scores' = With(scores, p, s)
    /\ entries' = [entries EXCEPT ![p] = entries[p] + 1]

Withdraw(p) ==
    /\ Answers(p)
    /\ p \in DOMAIN scores /\ entries[p] > 0
    /\ scores' = Without(scores, p)
    /\ entries' = [entries EXCEPT ![p] = entries[p] - 1]

\* He was in the queue already, or not in it any more.
NothingNew(p) == Answers(p) /\ UNCHANGED <<entries, scores>>

\* The matcher looks for a first player, and then for one to go with him.
Look(p) ==
    /\ p \in DOMAIN scores \ DOMAIN seen
    /\ \A q, r \in DOMAIN seen : q = r
    /\ seen' = With(seen, p, scores[p])
    /\ UNCHANGED <<entries, told, scores>>

Forgets == seen' \in {seen, None}

\* It takes players out of the queue, and puts back one of whom it has an entry.
Take(p) ==
    /\ p \in DOMAIN seen /\ Forgets
    /\ scores' = Without(scores, p)
    /\ UNCHANGED <<entries, told>>

PutBack(p) ==
    /\ p \in DOMAIN seen /\ entries[p] > 0 /\ Forgets
    /\ scores' = With(scores, p, seen[p])
    /\ UNCHANGED <<entries, told>>

GiveUp == Forgets /\ UNCHANGED <<entries, told, scores>>

Near(p, q) == seen[q] - seen[p] \in -MaxWindow .. MaxWindow

Pair(p, q) ==
    /\ p # q /\ {p, q} \subseteq DOMAIN seen /\ Near(p, q)
    /\ entries[p] > 0 /\ entries[q] > 0
    /\ entries' = [r \in Player |-> IF r \in {p, q} THEN entries[r] - 1 ELSE entries[r]]
    /\ told' = told \cup {p, q}
    /\ seen' = None
    /\ UNCHANGED scores

Next ==
    \/ \E p \in Player :
          \/ \E s \in Scores[p] : Enqueue(p, s)
          \/ Withdraw(p) \/ NothingNew(p) \/ Look(p) \/ Take(p) \/ PutBack(p)
    \/ GiveUp
    \/ \E p, q \in Player : Pair(p, q)

Spec == Init /\ [][Next]_queueVars

=============================================================================
