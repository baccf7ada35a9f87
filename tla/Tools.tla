------------------------------- MODULE Tools -------------------------------
(***************************************************************************)
(* The command line tools.  The operator runs one of them: scripts/replay, *)
(* or scripts/bot, which is looked at as a whole (plain or with -load) and *)
(* as one robot in one game.  They share nothing with each other, so the   *)
(* one that is not run stays as it is.                                     *)
(***************************************************************************)
EXTENDS Integers, Sequences, FiniteSets, SequencesExt

CONSTANTS
    Worker, Ids, Verdicts,      \* of Verify
    Moves, Plies, Deep,         \* of BotClient
    Bot, Games, Sem, Latency    \* of BotRun

VARIABLES
    program,                                                      \* the one that is run
    rest, feeder, worker, wg, count, exit,                        \* of Verify
    game, inbox, out, roomID, lastSeq, last, illegal, pc,         \* of BotClient
    timed, early,
    robots, won, fails, lat, runExit                              \* of BotRun

Replay == INSTANCE Verify
Client == INSTANCE BotClient
Run == INSTANCE BotRun WITH load <- program = "load", pc <- robots, exit <- runExit

ASSUME ToolConstants ==
    /\ IsFiniteSet(Worker) /\ Worker # {} /\ IsFiniteSet(Ids)
    /\ Verdicts \in [Ids -> SUBSET Replay!Kinds]
    /\ {Moves, Games} \subseteq Nat /\ {Plies, Deep, Sem} \subseteq Nat \ {0}
    /\ IsFiniteSet(Bot) /\ Latency \subseteq Nat

replay == <<rest, feeder, worker, wg, count, exit>>
client == <<game, inbox, out, roomID, lastSeq, last, illegal, pc, timed, early>>
bots == <<robots, won, fails, lat, runExit>>
vars == <<program, replay, client, bots>>

Init ==
    /\ program \in {"replay", "client", "load", "plain"}
    /\ Replay!Init /\ Client!Init /\ Run!Init
    /\ program # "replay" => rest = SetToSeq(Ids)
    /\ program # "client" => game.mine

Runs(p) == program \in p /\ UNCHANGED program
ReplayRuns == Runs({"replay"}) /\ UNCHANGED <<client, bots>>
ClientRuns == Runs({"client"}) /\ UNCHANGED <<replay, bots>>
BotsRun == Runs({"load", "plain"}) /\ UNCHANGED <<replay, client>>

Next ==
    \/ ReplayRuns /\ Replay!Next
    \/ ClientRuns /\ Client!Next
    \/ BotsRun /\ Run!Next

\* What each of the modules assumes, of the one that is run.
Fairness ==
    /\ WF_vars(ReplayRuns /\ Replay!Next)
    /\ WF_vars(ClientRuns /\ Client!Robot)
    /\ WF_vars(ClientRuns /\ Client!NotifyMatch)
    /\ SF_vars(ClientRuns /\ Client!OpponentTimer) /\ SF_vars(ClientRuns /\ Client!Serve)
    /\ WF_vars(BotsRun /\ Run!Exit)
    /\ \A b \in Bot : WF_vars(BotsRun /\ Run!Robot(b))

Spec == Init /\ [][Next]_vars /\ Fairness

-----------------------------------------------------------------------------
\* The exit codes.  Of scripts/replay: every report was counted exactly once, and
\* 0 means that each was replayed to its recorded end, or was played with other
\* cards.  Of scripts/bot: 0 means that every robot has played every game to its
\* end, but for the enqueue that main does not count.
ExitTellsTruth == Replay!EachOnce /\ Replay!ExitTellsTruth /\ Run!SuccessMeansPlayed

\* playOne: as long as the turn timer leaves it its turns and the opponent plays
\* only once the game has started, no command of the robot is refused, although
\* it acts on old views and sends some twice.
NeverRefused == Client!NeverRefused

\* percentile is the nearest rank: the least sample that at least p per cent of
\* the samples do not exceed.
NearestRank == Run!NearestRank

\* Every tool ends: the pool of workers winds up, playOne is never stuck in a game
\* that has started, in one whose opponent is there, or in its errors, and no
\* robot waits for a place for ever, whatever fails.
ToolsEnd ==
    /\ program = "replay" => Replay!Terminates
    /\ program = "client" => Client!PlaysToTheEnd
    /\ program \in {"load", "plain"} => Run!RunEnds

=============================================================================
