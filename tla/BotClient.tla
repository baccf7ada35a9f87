------------------------------ MODULE BotClient ------------------------------
(***************************************************************************)
(* playOne of scripts/bot: one robot and its room, from the creation of    *)
(* the room on, with the messages under way between them.  His opponent    *)
(* may be anyone: he may never join, leave again, or play before the robot *)
(* has joined, which the room allows.  The room's turn timer may end a     *)
(* turn the robot is still thinking about, and the connection's limiter    *)
(* may throw a command away.  A turn allows a number of moves (Battle's    *)
(* TurnProgress); which one the robot makes is Strategy's, whose           *)
(* MovesLegal says that it is legal in the state it was chosen for.        *)
(***************************************************************************)
EXTENDS Integers, Sequences

CONSTANTS
    Moves,    \* moves a turn allows, at most
    Plies,    \* bound on the turns of a game
    Deep      \* bound on the messages under way in one direction

VARIABLES
    game,      \* the room; told: match_found was sent, here: the robot has joined,
               \* opp: is his opponent there, ply: turns so far, left: moves of this one,
               \* gone: the room was closed before the game was over
    inbox,     \* commands on their way to the room
    out,       \* messages on their way to the robot
    roomID, lastSeq, last, illegal,   \* playOne's variables; illegal counts up to Plies
    pc,        \* "read", "send"; playOne has returned: "done", "failed"
    timed,     \* history: did the turn timer end one of the robot's turns?
    early      \* history: did the opponent play before the game had started?

vars == <<game, inbox, out, roomID, lastSeq, last, illegal, pc, timed, early>>

robotVars == <<roomID, lastSeq, last, illegal, pc>>

\* The view of the room that a game_state carries.
StateMsg(g) == [type |-> "game_state", game |-> g]
Msg(type) == [type |-> type]

\* Manager.Create has returned.  last is the zero Action.
Init ==
    /\ game \in [told : {FALSE}, here : {FALSE}, opp : {"away"}, on : {FALSE}, seq : {0},
                 ply : {1}, mine : BOOLEAN, left : {Moves}, over : {FALSE}, gone : {FALSE}]
    /\ inbox = <<>> /\ out = <<>>
    /\ roomID = "none" /\ lastSeq = 0 /\ last = "none" /\ illegal = 0 /\ pc = "read"
    /\ timed = FALSE /\ early = FALSE

-----------------------------------------------------------------------------
(***************************************************************************)
(* The server, as the robot meets it.                                      *)
(***************************************************************************)
Closed == game.over \/ game.gone

Push(g) ==
    /\ game' = [g EXCEPT !.seq = g.seq + 1]
    /\ out' = out \o <<StateMsg(game')>>
                  \o (IF g.over THEN <<Msg("game_over")>> ELSE <<>>)

\* The room has a state for everyone once both have joined.
Joined(g) ==
    IF g.here /\ g.opp = "here" /\ ~g.on THEN Push([g EXCEPT !.on = TRUE])
    ELSE game' = g /\ UNCHANGED out

Passed(g) == [g EXCEPT !.ply = g.ply + 1, !.mine = ~g.mine, !.left = Moves,
                       !.over = g.ply = Plies]

\* NotifyMatch, which may be slower than the opponent.
NotifyMatch ==
    /\ ~game.told
    /\ game' = [game EXCEPT !.told = TRUE]
    /\ out' = Append(out, Msg("match_found"))
    /\ UNCHANGED <<inbox, timed, early>> /\ UNCHANGED robotVars

\* The limiter of the connection throws a command away, the join as well; or the
\* room's inbox is full.
Limit ==
    /\ inbox # <<>> /\ Head(inbox) # "none" /\ Len(out) < Deep
    /\ inbox' = Tail(inbox)
    /\ \E type \in {"rate_limited", "error"} : out' = Append(out, Msg(type))
    /\ UNCHANGED <<game, timed, early>> /\ UNCHANGED robotVars

\* A command is answered: by the room with a state for everyone or with an error
\* code, or, when its type or its room is not known, by the readLoop with an
\* error that has none.  A room that is about to close may leave it unread.
Serve ==
    /\ inbox # <<>> /\ Len(out) < Deep
    /\ inbox' = Tail(inbox)
    /\ LET c == Head(inbox)
           noCode == out' = Append(out, Msg("error")) /\ UNCHANGED game
       IN  CASE c \in {"none", "nowhere"} -> noCode
             [] Closed /\ c \notin {"none", "nowhere"} -> noCode \/ UNCHANGED <<out, game>>
             [] ~Closed /\ c = "join" -> Joined([game EXCEPT !.here = TRUE])
             [] ~Closed /\ c = "move" /\ game.mine /\ game.left > 0 ->
                   \E won \in BOOLEAN : Push([game EXCEPT !.left = game.left - 1, !.over = won])
             [] ~Closed /\ c = "end_turn" /\ game.mine -> Push(Passed(game))
             [] OTHER -> out' = Append(out, Msg("refused")) /\ UNCHANGED game
    /\ UNCHANGED <<timed, early>> /\ UNCHANGED robotVars

\* The opponent joins, or his connection is lost.  Once the game has started this
\* changes nothing for the robot.
OpponentComes ==
    /\ ~Closed /\ ~game.on /\ Len(out) < Deep
    /\ \/ game.opp # "here" /\ Joined([game EXCEPT !.opp = "here"])
       \/ game.opp # "left" /\ game' = [game EXCEPT !.opp = "left"] /\ UNCHANGED out
    /\ UNCHANGED <<inbox, timed, early>> /\ UNCHANGED robotVars

\* He moves, or ends his turn, or his timer does: the room does not ask whether the
\* game has started.
Opponent ==
    /\ ~Closed /\ ~game.mine /\ Len(out) < Deep
    /\ \/ /\ game.left > 0
          /\ \E won \in BOOLEAN : Push([game EXCEPT !.left = game.left - 1, !.over = won])
       \/ Push(Passed(game))
    /\ early' = (early \/ ~game.on)
    /\ UNCHANGED <<inbox, timed>> /\ UNCHANGED robotVars

Timer ==
    /\ game.on /\ ~Closed /\ game.mine /\ Len(out) < Deep
    /\ Push(Passed(game))
    /\ timed' = TRUE
    /\ UNCHANGED <<inbox, early>> /\ UNCHANGED robotVars

\* The room closes itself before the game is over: its grace period is over, which
\* began when nobody was there any more, or it has crashed.
Close ==
    /\ ~Closed /\ Len(out) < Deep
    /\ game' = [game EXCEPT !.gone = TRUE]
    /\ \/ game.opp = "left" /\ ~game.here /\ UNCHANGED out
       \/ out' = Append(out, Msg("error"))
    /\ UNCHANGED <<inbox, timed, early>> /\ UNCHANGED robotVars

-----------------------------------------------------------------------------
(***************************************************************************)
(* playOne.                                                                *)
(***************************************************************************)
Reading(type) == pc = "read" /\ out # <<>> /\ Head(out).type = type
Done == out' = Tail(out) /\ UNCHANGED <<game, timed, early>>

Join ==
    /\ Reading("match_found")
    /\ roomID' = "room"
    /\ inbox' = Append(inbox, "join")
    /\ UNCHANGED <<lastSeq, last, illegal, pc>> /\ Done

chooseAction(g) == IF g.left > 0 THEN "move" ELSE "end_turn"

\* Fault: the robot does not look whose turn it is.
Due_Fault(g) == g.seq > lastSeq /\ ~g.over

Due(g) == g.seq > lastSeq /\ ~g.over /\ g.mine

\* A state that asks for nothing: an old one, the last one, or not its turn.
Skip ==
    /\ Reading("game_state") /\ ~Due(Head(out).game)
    /\ lastSeq' = IF Head(out).game.seq > lastSeq THEN Head(out).game.seq ELSE lastSeq
    /\ UNCHANGED <<inbox, roomID, last, illegal, pc>> /\ Done

\* It takes its time (delay) before it sends what it chooses.
Think ==
    /\ Reading("game_state") /\ Due(Head(out).game)
    /\ lastSeq' = Head(out).game.seq
    /\ last' = chooseAction(Head(out).game)
    /\ pc' = "send"
    /\ UNCHANGED <<inbox, roomID, illegal>> /\ Done

\* The command was thrown away: 200 ms later the last action is sent again, also
\* when it was the join.
Limited ==
    /\ Reading("rate_limited")
    /\ pc' = "send"
    /\ UNCHANGED <<inbox, roomID, lastSeq, last, illegal>> /\ Done

\* The command was refused: end the turn instead.
Refused ==
    /\ Reading("refused")
    /\ illegal' = IF illegal < Plies THEN illegal + 1 ELSE illegal
    /\ last' = "end_turn"
    /\ pc' = "send"
    /\ UNCHANGED <<inbox, roomID, lastSeq>> /\ Done

\* The zero Action has no type; a command sent before match_found, no room.
SendAction ==
    /\ pc = "send" /\ Len(inbox) < Deep
    /\ inbox' = Append(inbox, IF roomID = "none" /\ last # "none" THEN "nowhere" ELSE last)
    /\ pc' = "read"
    /\ UNCHANGED <<game, out, roomID, lastSeq, last, illegal, timed, early>>

\* playOne returns: the game is over, or the error has no code.
GameOver ==
    /\ \/ Reading("game_over") /\ pc' = "done"
       \/ Reading("error") /\ pc' = "failed"
    /\ UNCHANGED <<inbox, roomID, lastSeq, last, illegal>> /\ Done

\* A read or a write fails, or the deadline is over.
Fails ==
    /\ pc \in {"read", "send"}
    /\ pc' = "failed"
    /\ UNCHANGED <<game, inbox, out, roomID, lastSeq, last, illegal, timed, early>>

Robot == Join \/ Skip \/ Think \/ Limited \/ Refused \/ SendAction \/ GameOver

Next ==
    \/ Robot \/ Fails
    \/ NotifyMatch \/ Limit \/ Serve \/ OpponentComes \/ Opponent \/ Timer \/ Close

\* The turn timer, which runs once the game has started, ends the opponent's turn.
OpponentTimer == game.on /\ Opponent

\* The programs run on, and the limiter's bucket fills: what is sent again and
\* again gets through.  Nothing makes the opponent join.
Spec == Init /\ [][Next]_vars
        /\ WF_vars(Robot) /\ WF_vars(NotifyMatch) /\ SF_vars(OpponentTimer) /\ SF_vars(Serve)

-----------------------------------------------------------------------------
\* "Ideally 0": as long as the timer leaves it its turns, and the opponent waits
\* for the game to start before he plays, no command of the robot is refused,
\* although it acts on old views and sends some twice.  (Against an opponent who
\* does not wait it may be: the start pushes a position again under a new number,
\* and the robot answers it twice.)
NeverRefused == ~timed /\ ~early => illegal = 0

\* The robot never stalls a game and is never stuck in its errors: with or
\* without a timer, once the game has started, or the opponent is there and has
\* not played, it is played to the end or playOne returns an error, and no deadline
\* is needed for that (Fails is possible, but nothing makes it happen).  What only
\* the deadline ends is the wait for an opponent who has not joined, and a game
\* that the opponent began to play before it had started.
Awaited == game.on \/ (game.opp = "here" /\ ~early)

PlaysToTheEnd == Awaited ~> (pc \in {"done", "failed"} \/ ~Awaited)

=============================================================================
