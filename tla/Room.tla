-------------------------------- MODULE Room --------------------------------
(***************************************************************************)
(* One room of internal/room: a goroutine that owns a game and is driven   *)
(* by one select over its inbox, the disconnect grace timer, the turn      *)
(* timer and its context.  Whichever cases are ready, select picks any, so *)
(* each case is an action of its own.                                      *)
(*                                                                         *)
(* Time is abstracted: a timer that is armed may fire in any later state.  *)
(* Out, the callback that hands messages to the connections, may panic at  *)
(* any call; Run recovers and closes the room.  A message that Out was     *)
(* given is what the player has been shown: what the connection then does  *)
(* with it is not part of the room.                                        *)
(***************************************************************************)
EXTENDS BattleRules

CONSTANTS
    InitDecks,   \* the two decks the game was created with
    InboxCap,    \* capacity of the inbox channel (code: 64)
    Requests     \* the battle.Actions that clients send

ASSUME RoomConstants ==
    /\ InboxCap \in Nat \ {0}
    /\ Requests \subseteq Action
    /\ \A i \in Seats : InitDecks[i] \in Seq(CardID) /\ Dealable(InitDecks[i])

VARIABLES
    inbox,      \* the channel of commands
    ctxDone,    \* the room's context was cancelled (Close, or server shutdown)
    phase,      \* "running" while Run is in its loop, then "closed"
    joined,     \* session.joined: seats that ever joined
    online,     \* session.online
    started,    \* session.started
    grace,      \* graceTimer # nil
    turnC,      \* 0 when turnC = nil, else the ply the turn timer was armed in
    lastTurn,   \* the local variable of checkTurn; Nobody for -1
    deal,       \* the shuffled decks: what Seed stands for
    battle,     \* Room.Battle
    seq,        \* Room.seq
    log,        \* Room.log
    shown,      \* the last game_state given to Out for each seat
    report      \* what OnFinish was called with, or NoReport

session == <<joined, online, started>>
timers == <<grace, turnC, lastTurn>>
game == <<deal, battle, seq, log, shown>>
vars == <<inbox, ctxDone, phase, session, timers, game, report>>

-----------------------------------------------------------------------------
(***************************************************************************)
(* Commands and records.                                                   *)
(***************************************************************************)
\* Data of a command that battle.Action cannot be unmarshalled from.
BadData == [type |-> "bad data"]
NoData == [type |-> "no data"]

Cmd(p, t, d) == [from |-> p, type |-> t, data |-> d]

\* Everything that can be put into the inbox: what readLoop forwards, the
\* leave that ServerWs sends, and commands that handle must ignore.
Commands ==
    {Cmd(p, t, NoData) : p \in Seats, t \in {"join", "leave", "other"}}
    \cup {Cmd(p, a.type, a) : p \in Seats, a \in Requests}
    \cup {Cmd(p, "play_card", BadData) : p \in Seats}
    \cup {Cmd(Nobody, "join", NoData)}

\* A log entry, without its time (AtMs).
Entry(p, a, auto) ==
    [seq |-> seq + 1, player |-> p, act |-> a, auto |-> auto, hash |-> battle']

LogEntry == [seq : Nat, player : Seats, act : Action, auto : BOOLEAN, hash : State]

NoReport == [reason |-> "none"]

\* The end_turn that the room plays for a player whose time is up.
AutoEnd == [type |-> "end_turn", card |-> CHOOSE c \in CardID : TRUE,
            inst |-> 0, target |-> 0]

\* What the client of seat i last saw, before anything was sent.
NoView == [seq |-> 0]

Init ==
    /\ inbox = <<>> /\ ctxDone = FALSE
    /\ phase = "running"
    /\ joined = {} /\ online = {} /\ started = FALSE
    /\ grace = FALSE /\ turnC = 0 /\ lastTurn = Nobody
    /\ \E d0 \in Shuffles(InitDecks[0]), d1 \in Shuffles(InitDecks[1]) :
          deal = [i \in Seats |-> IF i = 0 THEN d0 ELSE d1]
    /\ battle = NewState(deal)
    /\ seq = 0 /\ log = <<>>
    /\ shown = [i \in Seats |-> NoView]
    /\ report = NoReport

-----------------------------------------------------------------------------
(***************************************************************************)
(* The room's surroundings: senders and the server's shutdown.             *)
(***************************************************************************)
\* Room.Send, as far as it succeeds: it never blocks, and a command sent to a
\* full inbox or to a cancelled room is dropped without a trace in the room.
Send(c) ==
    /\ ~ctxDone
    /\ Len(inbox) < InboxCap
    /\ inbox' = Append(inbox, c)
    /\ UNCHANGED <<ctxDone, phase, session, timers, game, report>>

\* The parent context is cancelled, and with it (AfterFunc) the room's.
Cancel ==
    /\ ~ctxDone
    /\ ctxDone' = TRUE
    /\ UNCHANGED <<inbox, phase, session, timers, game, report>>

-----------------------------------------------------------------------------
(***************************************************************************)
(* Pieces of the goroutine.                                                *)
(***************************************************************************)
Running == phase = "running"

\* Fault: the reason of the exit is written down as it is.
finish_Fault(reason) ==
    IF ~started' THEN NoReport
    ELSE [reason |-> reason, winner |-> battle'.winner,
          rounds |-> DisplayRound(battle'), actions |-> log']

\* The Report, if there is one: a decided game is finished, whatever happened
\* to the room afterwards, and a game that never started is not reported.
finish(reason) ==
    IF ~started' THEN NoReport
    ELSE [reason |-> IF battle'.over THEN "finished" ELSE reason,
          winner |-> battle'.winner, rounds |-> DisplayRound(battle'),
          actions |-> log']

\* The step does not leave the loop.
Stay == UNCHANGED <<ctxDone, phase, report>>

\* The step leaves the loop, by return or by panic, and the deferred functions
\* run: they read only what the room's goroutine owns, so nothing can come
\* between.  What is left in the inbox is never read.
Exit(reason) ==
    /\ phase' = "closed"
    /\ report' = finish(reason)
    /\ grace' = FALSE /\ turnC' = 0
    /\ ctxDone' = TRUE
    /\ inbox' = <<>>
    /\ UNCHANGED <<lastTurn, deal>>

\* Receive from the inbox.
Receive(c) == Running /\ inbox # <<>> /\ c = Head(inbox)

\* The command has been dealt with, and the loop goes on.
Handled ==
    /\ Stay
    /\ inbox' = Tail(inbox)
    /\ UNCHANGED deal

Snapshot(i) == [seq |-> seq', view |-> ViewFor(battle', i)]

\* Fault: the new state is numbered but shown only to the player who acts.
pushState_Fault(got) ==
    /\ seq' = seq + 1
    /\ shown' = [i \in Seats |-> IF i \in got \cap {battle.turn} THEN Snapshot(i)
                                 ELSE shown[i]]

\* pushState, up to the calls of Out that returned (those for the seats in got).
pushState(got) ==
    /\ seq' = seq + 1
    /\ shown' = [i \in Seats |-> IF i \in got THEN Snapshot(i) ELSE shown[i]]

\* Fault: the timer is armed for the first turn only.
checkTurn_Fault(armed) ==
    IF started' /\ ~battle'.over /\ lastTurn = Nobody
    THEN lastTurn' = battle'.turn /\ turnC' = battle'.round
    ELSE turnC' = armed /\ UNCHANGED lastTurn

\* checkTurn: a turn that has just begun gets a new turn timer; armed is what
\* the timer was before.
checkTurn(armed) ==
    IF started' /\ ~battle'.over /\ battle'.turn # lastTurn
    THEN lastTurn' = battle'.turn /\ turnC' = battle'.round
    ELSE turnC' = armed /\ UNCHANGED lastTurn

\* Out panics while pushState (or, once over, the game_over broadcast that
\* follows) is under way: the players in got have been served.
PanicAfter(got) == got \in {{}, {0}} \/ (got = Seats /\ battle'.over)

\* Fault: the action is applied but not written to the log.
record_Fault(p, a, auto) == log' = log

record(p, a, auto) == log' = Append(log, Entry(p, a, auto))

\* An action that Apply accepted: applied, recorded, shown; in this order, so
\* that a panic of Out finds it recorded.
Accepted(p, a, auto, got) ==
    /\ Apply(battle, p, a).err = "ok"
    /\ battle' = Apply(battle, p, a).st
    /\ record(p, a, auto)
    /\ pushState(got)
    /\ UNCHANGED session

-----------------------------------------------------------------------------
(***************************************************************************)
(* select case 1: a command from the inbox (handle, then checkTurn).       *)
(***************************************************************************)
IsMove(c) == c.type \in {"play_card", "attack", "end_turn"} /\ c.from \in Seats

\* Not one of the two players, or not a known type.
HandleIgnored(c) ==
    /\ Receive(c)
    /\ c.from \notin Seats \/ ~(IsMove(c) \/ c.type \in {"join", "leave"})
    /\ UNCHANGED <<session, grace, battle, seq, log, shown>>
    /\ Handled /\ checkTurn(turnC)

Starts(p) == ~started /\ online \cup {p} = Seats

\* The session's part of join.
Enter(p) ==
    /\ joined' = joined \cup {p}
    /\ online' = online \cup {p}

\* Fault: a player who comes back does not stop the grace timer.
cancelGrace_Fault == UNCHANGED grace

cancelGrace == grace' = FALSE

\* join: the second player's first join starts the game for both; a join after
\* that is a reconnect and gets a snapshot of its own.
HandleJoin(c) ==
    /\ Receive(c)
    /\ c.type = "join" /\ c.from \in Seats
    /\ Enter(c.from)
    /\ cancelGrace
    /\ started' = (started \/ Starts(c.from))
    /\ UNCHANGED <<battle, log>>
    /\ IF Starts(c.from) THEN pushState(Seats)
       ELSE /\ UNCHANGED seq
            /\ shown' = IF started THEN [shown EXCEPT ![c.from] = Snapshot(c.from)]
                        ELSE shown
    /\ Handled /\ checkTurn(turnC)

\* Out panics on the status message, or on a reconnect's snapshot.
JoinPanicsEarly(c) ==
    /\ Receive(c)
    /\ c.type = "join" /\ c.from \in Seats
    /\ Enter(c.from)
    /\ UNCHANGED <<started, battle, seq, log, shown>>
    /\ Exit("crashed")

\* Out panics on the first snapshots of the game.
JoinPanicsLate(c, got) ==
    /\ Receive(c)
    /\ c.type = "join" /\ c.from \in Seats /\ Starts(c.from)
    /\ Enter(c.from)
    /\ started' = TRUE
    /\ UNCHANGED <<battle, log>>
    /\ pushState(got) /\ got \in {{}, {0}}
    /\ Exit("crashed")

\* leave: when nobody is left the grace timer starts, unless it is running.
HandleLeave(c) ==
    /\ Receive(c)
    /\ c.type = "leave" /\ c.from \in Seats
    /\ online' = online \ {c.from}
    /\ grace' = (grace \/ online' = {})
    /\ UNCHANGED <<joined, started, battle, seq, log, shown>>
    /\ Handled /\ checkTurn(turnC)

\* Out panics when the one who stays is told.
LeavePanics(c) ==
    /\ Receive(c)
    /\ c.type = "leave" /\ c.from \in Seats
    /\ online' = online \ {c.from}
    /\ online' # {}
    /\ UNCHANGED <<joined, started, battle, seq, log, shown>>
    /\ Exit("crashed")

\* A move that cannot be read or that Apply refuses: the sender gets an error,
\* and should Out panic over that, the room crashes.
HandleRefused(c) ==
    /\ Receive(c)
    /\ IsMove(c)
    /\ c.data = BadData \/ Apply(battle, c.from, c.data).err # "ok"
    /\ UNCHANGED <<session, battle, seq, log, shown>>
    /\ \/ Handled /\ checkTurn(turnC) /\ UNCHANGED grace
       \/ Exit("crashed")

\* A move that Apply accepts.  The last one closes the room.
HandleMove(c) ==
    /\ Receive(c)
    /\ IsMove(c) /\ c.data # BadData
    /\ Accepted(c.from, c.data, FALSE, Seats)
    /\ IF battle'.over THEN Exit("finished")
       ELSE Handled /\ checkTurn(turnC) /\ UNCHANGED grace

MovePanics(c, got) ==
    /\ Receive(c)
    /\ IsMove(c) /\ c.data # BadData
    /\ Accepted(c.from, c.data, FALSE, got) /\ PanicAfter(got)
    /\ Exit("crashed")

-----------------------------------------------------------------------------
(***************************************************************************)
(* The other select cases.                                                 *)
(***************************************************************************)
GraceFires ==
    /\ Running /\ grace
    /\ UNCHANGED <<session, battle, seq, log, shown>>
    /\ Exit("abandoned")

\* The turn timer ends the turn of whoever is to move.  Apply cannot refuse:
\* the caller is the one to move, and TurnClock says that the game is not over.
TurnTimeout ==
    /\ Running /\ turnC # 0
    /\ Accepted(battle.turn, AutoEnd, TRUE, Seats)
    /\ IF battle'.over THEN Exit("finished")
       ELSE Stay /\ checkTurn(0) /\ UNCHANGED <<inbox, grace, deal>>

TimeoutPanics(got) ==
    /\ Running /\ turnC # 0
    /\ Accepted(battle.turn, AutoEnd, TRUE, got) /\ PanicAfter(got)
    /\ Exit("crashed")

CtxDone ==
    /\ Running /\ ctxDone
    /\ UNCHANGED <<session, battle, seq, log, shown>>
    /\ Exit("aborted")

-----------------------------------------------------------------------------
Handle ==
    \E c \in Commands :
        \/ HandleIgnored(c) \/ HandleJoin(c) \/ HandleLeave(c)
        \/ HandleRefused(c) \/ HandleMove(c)
        \/ JoinPanicsEarly(c) \/ LeavePanics(c)
        \/ \E got \in SUBSET Seats : JoinPanicsLate(c, got) \/ MovePanics(c, got)

Timeout ==
    TurnTimeout \/ \E got \in SUBSET Seats : TimeoutPanics(got)

Next ==
    \/ \E c \in Commands : Send(c)
    \/ Cancel
    \/ Handle
    \/ GraceFires \/ Timeout \/ CtxDone

\* A closed room rests.
Rests == phase = "closed" /\ UNCHANGED vars

\* The room's goroutine is scheduled, an armed timer fires in the end, and a
\* select that finds several cases ready picks at random: none is passed over
\* for ever.  Nobody is forced to send.
Fairness ==
    /\ WF_vars(Handle) /\ WF_vars(GraceFires) /\ WF_vars(Timeout) /\ WF_vars(CtxDone)

Spec == Init /\ [][Next \/ Rests]_vars /\ Fairness

-----------------------------------------------------------------------------
(***************************************************************************)
(* Safety.                                                                 *)
(***************************************************************************)
TypeOK ==
    /\ inbox \in Seq(Commands) /\ Len(inbox) <= InboxCap
    /\ ctxDone \in BOOLEAN
    /\ phase \in {"running", "closed"}
    /\ joined \in SUBSET Seats /\ online \in SUBSET Seats /\ started \in BOOLEAN
    /\ grace \in BOOLEAN /\ turnC \in Nat /\ lastTurn \in Seats \cup {Nobody}
    /\ deal \in [Seats -> Seq(CardID)] /\ battle \in State
    /\ seq \in Nat /\ log \in Seq(LogEntry)

\* One step of battle.Replay, hashes compared as replay.Build does it; a step
\* that is refused or whose hash differs leaves the error behind.
ReplayStep(r, e) ==
    LET q == Apply(r.st, e.player, e.act)
    IN  IF r.err # "ok" THEN r
        ELSE IF q.err # "ok" \/ q.st # e.hash THEN fail(r.st, "mismatch")
        ELSE q

Replay(actions) ==
    LET r[k \in 0 .. Len(actions)] ==
            IF k = 0 THEN Accept(NewState(deal)) ELSE ReplayStep(r[k - 1], actions[k])
    IN  r[Len(actions)]

\* record against Apply, panics of Out included: at any moment, replaying the
\* log from the same seed goes through without a refusal or a differing hash
\* and ends in the very State the room holds.
LogReplays == Replay(log) = Accept(battle)

\* replay.Build accepts a report: its actions replay, and winner, rounds and
\* reason ("finished" if and only if over) agree with where they lead.
Build(rep) ==
    LET r == Replay(rep.actions)
    IN  /\ r.err = "ok"
        /\ r.st.winner = rep.winner
        /\ DisplayRound(r.st) = rep.rounds
        /\ r.st.over <=> rep.reason = "finished"

\* finish against replay.Build: the report of a room, whichever way it ended
\* (last move, timeout, grace, shutdown, panic), is one that Build accepts.
ReportFaithful == report # NoReport => Build(report)

\* startGrace and cancelGrace against the session: while the room runs, the
\* grace timer is armed only over an empty room, and always over one that
\* somebody had joined; so nobody who is online is ever thrown out by it.
GraceMeansEmpty ==
    /\ grace => online = {}
    /\ Running /\ online = {} /\ joined # {} => grace
    /\ report.reason = "abandoned" => online = {}

\* checkTurn and the timeout case: while the room runs, the game is undecided,
\* and once it has started a turn timer is armed, and was armed in the very
\* ply that is being played (no turn inherits the timer of the one before).
TurnClock == Running => ~battle.over /\ (started => turnC = battle.round)

\* pushState and sendView: whenever the select waits, both players have been
\* shown the newest state under the newest number; a snapshot to one player
\* does not consume a number.
ViewsFresh ==
    Running /\ seq > 0 =>
        \A i \in Seats : shown[i] = [seq |-> seq, view |-> ViewFor(battle, i)]

\* seq counts the states that were pushed (one for every action in the log and
\* one for the start), and every log entry carries the number its state got.
SeqCountsPushes ==
    /\ seq = Len(log) + IF started THEN 1 ELSE 0
    /\ \A k \in DOMAIN log : log[k].seq \in {k, k + 1}
    /\ \A k \in 1 .. Len(log) - 1 : log[k].seq < log[k + 1].seq

\* The entries of the log by which seat i played a card.
PlaysOf(i) == {k \in DOMAIN log : log[k].player = i /\ log[k].act.type = "play_card"}
LogPlayed == [i \in Seats |-> Cardinality(PlaysOf(i))]

\* The rules hold in a room as they do in a game (module Battle), and the log is
\* a full account of it: boards, ids, mana and draws are those that follow from
\* the plays in the log, and every card of the two decks is in a hand, in a deck,
\* or in the log as often as it was played.
GameSound ==
    /\ OneWinner(battle) /\ SoundBoards(battle, LogPlayed) /\ SoundTurns(battle, LogPlayed)
    /\ \A i \in Seats, c \in CardID :
          Copies(InitDecks[i], c) = Copies(battle.players[i].hand, c)
                                    + Copies(battle.players[i].deck, c)
                                    + Cardinality({k \in PlaysOf(i) : log[k].act.card = c})

\* The room's books, types included: timers, numbers and log follow the session
\* and the game in every order of commands, timeouts, panics and the shutdown.
RoomInv == TypeOK /\ GraceMeansEmpty /\ TurnClock /\ SeqCountsPushes /\ GameSound

-----------------------------------------------------------------------------
(***************************************************************************)
(* Liveness.                                                               *)
(***************************************************************************)
\* A started game comes to an end (turn timer and fatigue) and a cancelled room
\* is torn down, whatever the players send or fail to send.
RoomCloses == started \/ ctxDone ~> phase = "closed"

\* README: when both are offline the grace starts, and when it ends the room
\* is closed; so a room does not stay empty for ever.
EmptyRoomCloses == Running /\ online = {} ~> (online # {} \/ phase = "closed")

=============================================================================
