------------------------------- MODULE BotRun -------------------------------
(***************************************************************************)
(* A run of the robots: main of scripts/bot, where every robot logs in and *)
(* plays on its own, and runLoad (-load), which first logs all of them in, *)
(* a few at once, and only then lets them play.  What a robot does in a    *)
(* game is BotClient's; here a game comes to its end or fails.             *)
(***************************************************************************)
EXTENDS Integers, Sequences, FiniteSets, SequencesExt

CONSTANTS
    Bot,
    Games,      \* games for each robot
    Sem,        \* logins at once in runLoad (32)
    Latency     \* times a login may take

VARIABLES
    load,       \* is it runLoad?
    pc,         \* robot -> where it is
    won,        \* robot -> games that came to their end
    fails,      \* fails, or failed
    lat,        \* loginLat.ds
    exit        \* -1 until the program ends

vars == <<load, pc, won, fails, lat, exit>>

Init ==
    /\ load \in BOOLEAN
    /\ pc = [b \in Bot |-> "new"]
    /\ won = [b \in Bot |-> 0]
    /\ fails = 0 /\ lat = <<>> /\ exit = -1

Go(b, from, to) == pc[b] = from /\ pc' = [pc EXCEPT ![b] = to]
At(places) == {b \in Bot : pc[b] \in places}

\* Fault: a failed login keeps its place.
HeldSem_Fault == At({"login", "noToken"})

\* The places of sem that are taken.
HeldSem == At({"login"})

LogIn(b) ==
    /\ load => Cardinality(HeldSem) < Sem
    /\ Go(b, "new", "login")
    /\ UNCHANGED <<load, won, fails, lat, exit>>

LoggedIn(b) ==
    /\ Go(b, "login", "token")
    /\ \E d \in Latency : lat' = IF load THEN Append(lat, d) ELSE lat
    /\ UNCHANGED <<load, won, fails, exit>>

\* No token: 429 counts as well.
LoginFails(b) ==
    /\ Go(b, "login", "noToken")
    /\ UNCHANGED <<load, won, fails, lat, exit>>

\* lwg.Wait: in runLoad nobody plays before everybody has tried to log in.
LoginsOver == load => At({"new", "login"}) = {}

\* Without a token, or when dial fails, all of its games have failed.
GiveUp(b) ==
    /\ LoginsOver
    /\ Go(b, "noToken", "end") \/ Go(b, "token", "end")
    /\ fails' = fails + Games
    /\ UNCHANGED <<load, won, lat, exit>>

Dialled(b) ==
    /\ LoginsOver
    /\ Go(b, "token", "loop")
    /\ UNCHANGED <<load, won, fails, lat, exit>>

Enqueue(b) ==
    /\ won[b] < Games /\ Go(b, "loop", "play")
    /\ UNCHANGED <<load, won, fails, lat, exit>>

\* The write fails: runLoad counts one failure, main none.
EnqueueFails(b) ==
    /\ won[b] < Games /\ Go(b, "loop", IF load THEN "end" ELSE "unsent")
    /\ fails' = IF load THEN fails + 1 ELSE fails
    /\ UNCHANGED <<load, won, lat, exit>>

Played(b) ==
    /\ Go(b, "play", "loop")
    /\ won' = [won EXCEPT ![b] = won[b] + 1]
    /\ UNCHANGED <<load, fails, lat, exit>>

PlayFails(b) ==
    /\ Go(b, "play", "end")
    /\ fails' = fails + 1
    /\ UNCHANGED <<load, won, lat, exit>>

LoopOver(b) ==
    /\ won[b] = Games /\ Go(b, "loop", "end")
    /\ UNCHANGED <<load, won, fails, lat, exit>>

\* wg.Wait.  runLoad has to read /metrics once more, which may fail.
Exit ==
    /\ exit = -1 /\ At({"end", "unsent"}) = Bot
    /\ \/ exit' = IF fails > 0 THEN 1 ELSE 0
       \/ load /\ exit' = 1
    /\ UNCHANGED <<load, pc, won, fails, lat>>

Robot(b) ==
    \/ LogIn(b) \/ LoggedIn(b) \/ LoginFails(b) \/ GiveUp(b) \/ Dialled(b)
    \/ Enqueue(b) \/ EnqueueFails(b) \/ Played(b) \/ PlayFails(b) \/ LoopOver(b)

Next == Exit \/ \E b \in Bot : Robot(b)

\* A game is limited by the timeout of its context.  A login is not limited by
\* the program: that it returns is assumed of the connection and the server.
Spec == Init /\ [][Next]_vars /\ WF_vars(Exit) /\ \A b \in Bot : WF_vars(Robot(b))

-----------------------------------------------------------------------------
(***************************************************************************)
(* The statistics of runLoad.                                              *)
(***************************************************************************)
\* sort.Slice: some order of the places in which the samples ascend.
Ascending(ds) ==
    CHOOSE f \in Bijection(DOMAIN ds, DOMAIN ds) :
       \A i, j \in DOMAIN ds : i < j => ds[f[i]] <= ds[f[j]]
Sorted(ds) == [i \in DOMAIN ds |-> ds[Ascending(ds)[i]]]

\* Fault: truncated, not rounded up.
percentile_Fault(sorted, p) ==
    LET k == (Len(sorted) * p) \div 100 - 1
    IN  IF sorted = <<>> THEN 0 ELSE sorted[IF k < 0 THEN 1 ELSE k + 1]

\* int(n * p / 100 + 0.999999) - 1, kept within the samples; in units of a
\* millionth.
percentile(sorted, p) ==
    LET k == (Len(sorted) * p * 10000 + 999999) \div 1000000 - 1
        n == Len(sorted)
    IN  IF sorted = <<>> THEN 0
        ELSE sorted[1 + (IF k < 0 THEN 0 ELSE IF k >= n THEN n - 1 ELSE k)]

dist == [p \in {50, 90, 99, 100} |->
            IF p = 100 THEN (IF lat = <<>> THEN 0 ELSE Last(Sorted(lat)))
            ELSE percentile(Sorted(lat), p)]

AtMost(d) == Cardinality({i \in DOMAIN lat : lat[i] <= d})

\* percentile is the nearest rank: the least sample that at least p per cent of
\* the samples do not exceed.
NearestRank ==
    lat # <<>> => \A p \in {50, 90, 99, 100} :
        /\ dist[p] \in Range(lat)
        /\ 100 * AtMost(dist[p]) >= p * Len(lat)
        /\ \A d \in Range(lat) : d < dist[p] => 100 * AtMost(d) < p * Len(lat)

-----------------------------------------------------------------------------
\* "Some games failed" or exit 0: a run that succeeds has played every game of
\* every robot to its end, but for those of a robot whose enqueue could not be
\* written, which main does not count and runLoad does.
SuccessMeansPlayed ==
    exit = 0 => \A b \in Bot : won[b] = Games \/ (~load /\ pc[b] = "unsent")

\* The run ends, whatever fails: no robot waits for a place for ever.  (It does if
\* a login never returns, see Spec.)
RunEnds == <>(exit # -1)

=============================================================================
