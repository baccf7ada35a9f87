----------------------------- MODULE RoomProofs -----------------------------
(***************************************************************************)
(* What Room promises, for every card table, every pair of decks, every    *)
(* capacity of the inbox and every set of requests: its books are right,   *)
(* its log replays, its report is one that replay.Build accepts, and both  *)
(* players see the newest state.                                           *)
(***************************************************************************)
EXTENDS Room, RulesProofs

-----------------------------------------------------------------------------
(***************************************************************************)
(* The inductive invariant.                                                *)
(***************************************************************************)
\* The State that the k-th entry of the log was applied to.
Before(k) == IF k = 1 THEN NewState(deal) ELSE log[k - 1].hash

\* Every entry leads from the State before it to the one it carries, and the
\* last one to the State the room holds.
LogSteps ==
    /\ \A k \in DOMAIN log :
          Apply(Before(k), log[k].player, log[k].act) = Accept(log[k].hash)
    /\ battle = Before(Len(log) + 1)

\* The entries by which seat i played the card c.
CardPlays(i, c) == {k \in PlaysOf(i) : log[k].act.card = c}

\* Every card of the decks is held, or was played by an entry of the log.
CardsLogged ==
    \A i \in Seats, c \in CardID :
       Copies(InitDecks[i], c) = Held(battle.players[i], c) + Cardinality(CardPlays(i, c))

\* The game and its books, whatever the session and the timers do.
GameInv ==
    /\ deal \in [Seats -> Seq(CardID)]
    /\ GoodState(battle, LogPlayed) /\ CardsLogged
    /\ seq \in Nat /\ log \in Seq(LogEntry) /\ started \in BOOLEAN
    /\ SeqCountsPushes
    /\ \A k \in DOMAIN log : log[k].seq <= seq
    /\ LogSteps

\* checkTurn keeps up with the game from its start on, and not before.
TimerFollows ==
    Running => /\ lastTurn = IF started THEN battle.turn ELSE Nobody
               /\ ~started => turnC = 0

\* A report is written once, when the room closes, from what the room holds.
Told ==
    report # NoReport =>
        /\ ~Running
        /\ report.actions = log /\ report.winner = battle.winner
        /\ report.rounds = DisplayRound(battle)
        /\ report.reason = "finished" <=> battle.over

RoomIInv ==
    /\ RoomInv /\ GameInv
    /\ TimerFollows /\ Told /\ ViewsFresh
    /\ shown = [i \in Seats |-> shown[i]]

-----------------------------------------------------------------------------
(***************************************************************************)
(* What can be asked of the rules.                                         *)
(***************************************************************************)
\* There is a card, since there are decks to deal from.
LEMMA AutoEndIsAction == AutoEnd \in Action
<1>1. InitDecks[0] \in Seq(CardID) /\ Len(InitDecks[0]) > HandStart
  BY RoomConstants DEF Seats, Dealable
<1>2. HandStart \in Nat /\ Len(InitDecks[0]) \in Nat
  BY <1>1, RulesConstants
<1>3. 1 \in 1 .. Len(InitDecks[0])
  BY <1>1, <1>2
<1>4. InitDecks[0][1] \in CardID
  BY <1>1, <1>3, ElementOfSeq
<1>5. (CHOOSE c \in CardID : TRUE) \in CardID
  BY <1>4
<1> QED
  BY <1>5 DEF AutoEnd, Action

\* A move that can be read is an action of the rules, from one of the players.
LEMMA MoveIsAction ==
    ASSUME NEW c \in Commands, IsMove(c), c.data # BadData
    PROVE  c.data \in Action /\ c.from \in Seats
<1>1. \E p \in Seats, a \in Requests : c = Cmd(p, a.type, a)
  BY DEF Commands, IsMove, Cmd
<1> QED
  BY <1>1, RoomConstants DEF Cmd

\* What the rules say of the game, said of the room.
LEMMA GameIsSound == GameInv => GameSound
BY DEF GameInv, GoodState, CardsLogged, CardPlays, Held, GameSound

LEMMA SoundAfter == GameInv' => GameSound'
BY GameIsSound, PTL

\* The State is a State, and the log entry a log entry.
LEMMA GameTypes ==
    ASSUME GameInv
    PROVE  battle \in State /\ battle.turn \in Seats /\ battle.round \in Nat
BY DEF GameInv, GoodState, State

-----------------------------------------------------------------------------
(***************************************************************************)
(* The game.                                                               *)
(***************************************************************************)
\* A step that touches neither the game nor the log.
LEMMA GameStays ==
    ASSUME GoodState(battle, LogPlayed), CardsLogged, battle' = battle, log' = log
    PROVE  GoodState(battle, LogPlayed)' /\ CardsLogged'
<1>1. \A i \in Seats : PlaysOf(i)' = PlaysOf(i)
  BY DEF PlaysOf
<1>2. \A i \in Seats, c \in CardID : CardPlays(i, c)' = CardPlays(i, c)
  BY <1>1 DEF CardPlays, PlaysOf
<1>3. LogPlayed' = LogPlayed
  BY <1>1 DEF LogPlayed
<1>4. GoodState(battle, LogPlayed)'
  BY <1>3 DEF GoodState, OneWinner, SoundBoards, SoundTurns
<1>5. CardsLogged'
  BY <1>2 DEF CardsLogged, Held
<1> QED
  BY <1>4, <1>5

\* A step that leaves game and start alone, or only starts the game.
LEMMA GameKept ==
    ASSUME GameInv, deal' = deal, battle' = battle, log' = log,
           \/ seq' = seq /\ started' = started
           \/ seq' = seq + 1 /\ ~started /\ started' = TRUE
    PROVE  GameInv'
<1>0. log \in Seq(LogEntry) /\ seq \in Nat /\ started \in BOOLEAN
  BY DEF GameInv
<1>1. /\ seq \in Nat /\ Len(log) \in Nat /\ seq' \in Nat /\ seq <= seq'
      /\ started' \in BOOLEAN
  <2>1. started' \in BOOLEAN
    BY <1>0
  <2>2. seq' = seq \/ seq' = seq + 1
    OBVIOUS
  <2> QED
    BY <1>0, <2>1, <2>2
<1>2. LogSteps'
  BY DEF GameInv, LogSteps, Before
<1>3. SeqCountsPushes'
  BY <1>1 DEF GameInv, SeqCountsPushes
<1>4. \A k \in DOMAIN log : log[k].seq <= seq'
  <2> TAKE k \in DOMAIN log
  <2>1. log[k] \in LogEntry
    BY ElementOfSeq DEF GameInv
  <2> QED
    BY <1>1, <2>1 DEF GameInv, LogEntry
<1>5. GoodState(battle, LogPlayed)' /\ CardsLogged'
  BY GameStays DEF GameInv
<1> QED
  BY <1>1, <1>2, <1>3, <1>4, <1>5 DEF GameInv

\* Counting entries: one more, if the last one counts.
LEMMA CountsOneMore ==
    ASSUME NEW n \in Nat, NEW S \in SUBSET (1 .. n), NEW hit \in BOOLEAN,
           NEW T, T = IF hit THEN S \cup {n + 1} ELSE S
    PROVE  /\ IsFiniteSet(S) /\ Cardinality(S) \in Nat
           /\ Cardinality(T) = Cardinality(S) + (IF hit THEN 1 ELSE 0)
<1>1. IsFiniteSet(1 .. n)
  BY FS_Interval
<1>2. IsFiniteSet(S) /\ Cardinality(S) \in Nat
  BY <1>1, FS_Subset, FS_CardinalityType
<1>3. n + 1 \notin S
  OBVIOUS
<1>4. Cardinality(S \cup {n + 1}) = Cardinality(S) + 1
  BY <1>2, <1>3, FS_AddElement
<1> QED
  BY <1>2, <1>4

LEMMA PlaysCounted ==
    ASSUME log \in Seq(LogEntry)
    PROVE  /\ LogPlayed \in [Seats -> Nat]
           /\ \A i \in Seats : PlaysOf(i) \in SUBSET (1 .. Len(log))
           /\ \A i \in Seats, c \in CardID : /\ CardPlays(i, c) \in SUBSET (1 .. Len(log))
                                            /\ Cardinality(CardPlays(i, c)) \in Nat
<1>1. Len(log) \in Nat /\ DOMAIN log = 1 .. Len(log)
  OBVIOUS
<1>2. /\ \A i \in Seats : PlaysOf(i) \in SUBSET (1 .. Len(log))
      /\ \A i \in Seats, c \in CardID : CardPlays(i, c) \in SUBSET (1 .. Len(log))
  BY <1>1 DEF PlaysOf, CardPlays
<1>3. \A S \in SUBSET (1 .. Len(log)) : Cardinality(S) \in Nat
  <2> TAKE S \in SUBSET (1 .. Len(log))
  <2>1. IsFiniteSet(1 .. Len(log))
    BY <1>1, FS_Interval
  <2> QED
    BY <2>1, FS_Subset, FS_CardinalityType
<1>4. \A i \in Seats : Cardinality(PlaysOf(i)) \in Nat
  BY <1>2, <1>3
<1>5. LogPlayed \in [Seats -> Nat]
  BY <1>4 DEF LogPlayed
<1> QED
  BY <1>2, <1>3, <1>5

\* A play that is written down is counted, and nothing else is.
LEMMA PlayCounted ==
    ASSUME log \in Seq(LogEntry), NEW e \in LogEntry, log' = Append(log, e)
    PROVE  /\ LogPlayed' = IF e.act.type = "play_card" THEN Played(LogPlayed, e.player)
                           ELSE LogPlayed
           /\ \A i \in Seats, c \in CardID :
                 Cardinality(CardPlays(i, c))'
                 = Cardinality(CardPlays(i, c))
                   + (IF e.act.type = "play_card" /\ i = e.player THEN CopyOf(e.act.card, c) ELSE 0)
<1> PICK n \in Nat : n = Len(log)
  OBVIOUS
<1>1. /\ DOMAIN log = 1 .. n /\ DOMAIN log' = 1 .. n + 1
      /\ \A k \in 1 .. n : log'[k] = log[k]
      /\ log'[n + 1] = e
  BY AppendProperties
<1>2. 1 .. n + 1 = 1 .. n \cup {n + 1}
  OBVIOUS
<1>3. /\ LogPlayed \in [Seats -> Nat]
      /\ \A i \in Seats : PlaysOf(i) \in SUBSET (1 .. n)
      /\ \A i \in Seats, c \in CardID : CardPlays(i, c) \in SUBSET (1 .. n)
  BY PlaysCounted
<1>4. ASSUME NEW i \in Seats, NEW c \in CardID
      PROVE  Cardinality(CardPlays(i, c))'
             = Cardinality(CardPlays(i, c))
               + (IF e.act.type = "play_card" /\ i = e.player THEN CopyOf(e.act.card, c) ELSE 0)
  <2> DEFINE hit == e.act.type = "play_card" /\ i = e.player /\ e.act.card = c
  <2>1. CardPlays(i, c)' = IF hit THEN CardPlays(i, c) \cup {n + 1} ELSE CardPlays(i, c)
    BY <1>1, <1>2 DEF CardPlays, PlaysOf
  <2>2. CardPlays(i, c) \in SUBSET (1 .. n) /\ hit \in BOOLEAN
    BY <1>3
  <2>3. CopyOf(e.act.card, c) = IF e.act.card = c THEN 1 ELSE 0
    BY OneCopy
  <2> HIDE DEF hit
  <2>4. Cardinality(CardPlays(i, c)') = Cardinality(CardPlays(i, c)) + (IF hit THEN 1 ELSE 0)
    BY <2>1, <2>2, CountsOneMore
  <2> QED
    BY <2>3, <2>4 DEF hit
<1>5. ASSUME NEW i \in Seats
      PROVE  LogPlayed'[i] = LogPlayed[i]
                             + (IF e.act.type = "play_card" /\ i = e.player THEN 1 ELSE 0)
  <2> DEFINE hit == e.act.type = "play_card" /\ i = e.player
  <2>1. PlaysOf(i)' = IF hit THEN PlaysOf(i) \cup {n + 1} ELSE PlaysOf(i)
    BY <1>1, <1>2 DEF PlaysOf
  <2>2. PlaysOf(i) \in SUBSET (1 .. n) /\ hit \in BOOLEAN
    BY <1>3 DEF hit
  <2> HIDE DEF hit
  <2>3. Cardinality(PlaysOf(i)') = Cardinality(PlaysOf(i)) + (IF hit THEN 1 ELSE 0)
    BY <2>1, <2>2, CountsOneMore
  <2> QED
    BY <2>3 DEF hit, LogPlayed
<1>6. e.player \in Seats /\ LogPlayed' = [i \in Seats |-> LogPlayed'[i]]
      /\ \A i \in Seats : LogPlayed[i] \in Nat
  BY <1>3 DEF LogPlayed, LogEntry
<1>7. LogPlayed' = IF e.act.type = "play_card" THEN Played(LogPlayed, e.player) ELSE LogPlayed
  <2>1. CASE e.act.type = "play_card"
    <3>1. \A i \in Seats : LogPlayed'[i] = Played(LogPlayed, e.player)[i]
      BY <1>3, <1>5, <1>6, <2>1 DEF Played
    <3>2. Played(LogPlayed, e.player) = [i \in Seats |-> Played(LogPlayed, e.player)[i]]
      BY <1>3 DEF Played
    <3> QED
      BY <1>6, <2>1, <3>1, <3>2
  <2>2. CASE e.act.type # "play_card"
    BY <1>3, <1>5, <1>6, <2>2
  <2> QED
    BY <2>1, <2>2
<1> QED
  BY <1>4, <1>7

\* An action that Apply accepted has been recorded with the State it led to.
LEMMA GameMoves ==
    ASSUME GameInv, deal' = deal, NEW p \in Seats, NEW a \in Action,
           NEW auto \in BOOLEAN, NEW got, Accepted(p, a, auto, got)
    PROVE  /\ GameInv' /\ ~battle.over /\ p = battle.turn /\ started' = started
           /\ a.type = "end_turn" => /\ battle'.turn = Other(battle.turn)
                                     /\ battle'.round = battle.round + 1
           /\ a.type # "end_turn" => /\ battle'.turn = battle.turn
                                     /\ battle'.round = battle.round
<1> DEFINE e == Entry(p, a, auto)
<1>1. LogPlayed \in [Seats -> Nat] /\ GoodState(battle, LogPlayed)
  BY PlaysCounted DEF GameInv
<1>2. /\ battle' = Apply(battle, p, a).st /\ Apply(battle, p, a).err = "ok"
      /\ log' = Append(log, e) /\ seq' = seq + 1 /\ started' = started
  BY DEF Accepted, record, pushState, session
<1>3. /\ Apply(battle, p, a) = Accept(battle')
      /\ ~battle.over /\ p = battle.turn
      /\ battle' \in State
      /\ a.type = "end_turn" => /\ battle'.turn = Other(battle.turn)
                                /\ battle'.round = battle.round + 1
      /\ a.type # "end_turn" => /\ battle'.turn = battle.turn
                                /\ battle'.round = battle.round
  BY <1>1, <1>2, ApplyAccepts DEF GoodState
<1>4. battle' \in State
  BY <1>3
<1>5. log \in Seq(LogEntry) /\ seq \in Nat /\ started \in BOOLEAN
  BY DEF GameInv
<1>6. /\ e \in LogEntry /\ e.seq = seq + 1 /\ e.player = p /\ e.act = a
      /\ e.hash = battle'
  BY <1>4, <1>5 DEF Entry, LogEntry
<1> HIDE DEF e
<1> PICK n \in Nat : n = Len(log)
  BY <1>5
<1>7. /\ log' \in Seq(LogEntry) /\ Len(log') = n + 1
      /\ DOMAIN log = 1 .. n /\ DOMAIN log' = 1 .. n + 1
      /\ \A k \in 1 .. n : log'[k] = log[k]
      /\ log'[n + 1] = e
  BY <1>2, <1>5, <1>6, AppendProperties
<1>8. \A k \in 1 .. n : log[k].seq \in Nat
  <2>1. \A k \in 1 .. n : log[k] \in LogEntry
    BY <1>5, ElementOfSeq
  <2> QED
    BY <2>1 DEF LogEntry
<1>9. LogSteps'
  <2>1. \A k \in 1 .. n + 1 : Before(k)' = Before(k)
    BY <1>7 DEF Before
  <2>2. Before(n + 2)' = battle'
    BY <1>6, <1>7 DEF Before
  <2>3. ASSUME NEW k \in 1 .. n + 1
        PROVE  Apply(Before(k)', log'[k].player, log'[k].act) = Accept(log'[k].hash)
    <3>1. CASE k = n + 1
      <4>1. Before(k)' = battle
        BY <2>1, <3>1 DEF GameInv, LogSteps
      <4> QED
        BY <1>3, <1>6, <1>7, <3>1, <4>1
    <3>2. CASE k # n + 1
      <4>1. k \in 1 .. n /\ k \in DOMAIN log
        BY <1>7, <3>2
      <4> QED
        BY <1>7, <2>1, <4>1 DEF GameInv, LogSteps
    <3> QED
      BY <3>1, <3>2
  <2>4. Len(log') + 1 = n + 2
    BY <1>7
  <2> QED
    BY <1>7, <2>2, <2>3, <2>4 DEF LogSteps
<1>10. \A k \in DOMAIN log' : log'[k].seq <= seq'
  <2>1. \A k \in 1 .. n : log[k].seq <= seq
    BY <1>7 DEF GameInv
  <2> QED
    BY <1>2, <1>5, <1>6, <1>7, <1>8, <2>1
<1>11. SeqCountsPushes'
  <2>1. /\ seq = n + IF started THEN 1 ELSE 0
        /\ \A k \in 1 .. n : log[k].seq \in {k, k + 1} /\ log[k].seq <= seq
        /\ \A k \in 1 .. n - 1 : log[k].seq < log[k + 1].seq
    BY <1>7 DEF GameInv, SeqCountsPushes
  <2>2. seq' = Len(log') + IF started' THEN 1 ELSE 0
    BY <1>2, <1>5, <1>7, <2>1
  <2>3. \A k \in 1 .. n + 1 : log'[k].seq \in {k, k + 1}
    BY <1>2, <1>5, <1>6, <1>7, <2>1
  <2>4. ASSUME NEW k \in 1 .. n
        PROVE  log'[k].seq < log'[k + 1].seq
    <3>1. CASE k = n
      BY <1>5, <1>6, <1>7, <1>8, <2>1, <3>1
    <3>2. CASE k # n
      BY <1>7, <2>1, <3>2
    <3> QED
      BY <3>1, <3>2
  <2>5. Len(log') - 1 = n
    BY <1>7
  <2> QED
    BY <1>7, <2>2, <2>3, <2>4, <2>5 DEF SeqCountsPushes
<1>12. deal' \in [Seats -> Seq(CardID)] /\ seq' \in Nat /\ started' \in BOOLEAN
  BY <1>2, <1>5 DEF GameInv
<1>13. /\ LogPlayed' = IF a.type = "play_card" THEN Played(LogPlayed, p) ELSE LogPlayed
       /\ \A i \in Seats, c \in CardID :
             Cardinality(CardPlays(i, c))'
             = Cardinality(CardPlays(i, c))
               + (IF a.type = "play_card" /\ i = p THEN CopyOf(a.card, c) ELSE 0)
  BY <1>2, <1>5, <1>6, PlayCounted
<1>14. GoodState(battle, LogPlayed)'
  <2> DEFINE m == IF a.type = "play_card" THEN Played(LogPlayed, p) ELSE LogPlayed
  <2>1. GoodState(battle', m)
    BY <1>1, <1>2, ApplySound
  <2>2. LogPlayed' = m
    BY <1>13
  <2> HIDE DEF m
  <2>3. GoodState(battle', LogPlayed')
    BY <2>1, <2>2
  <2> QED
    BY <2>3 DEF GoodState, OneWinner, SoundBoards, SoundTurns
<1>15. CardsLogged'
  <2> SUFFICES ASSUME NEW i \in Seats, NEW c \in CardID
               PROVE  Copies(InitDecks[i], c) = Held(battle.players[i], c)'
                                                + Cardinality(CardPlays(i, c))'
    BY DEF CardsLogged, Held
  <2> DEFINE used == IF a.type = "play_card" /\ i = p THEN CopyOf(a.card, c) ELSE 0
             t == Apply(battle, p, a).st
  <2>1. Copies(InitDecks[i], c) = Held(battle.players[i], c) + Cardinality(CardPlays(i, c))
    BY DEF GameInv, CardsLogged
  <2>2. /\ Held(battle.players[i], c) = Held(t.players[i], c) + used
        /\ Held(t.players[i], c) \in Nat
    BY <1>1, <1>2, ApplyHolds
  <2>3. Cardinality(CardPlays(i, c))' = Cardinality(CardPlays(i, c)) + used
    BY <1>13
  <2>4. used \in Nat /\ Cardinality(CardPlays(i, c)) \in Nat
    BY <1>5, PlaysCounted, OneCopy
  <2>5. t = battle'
    BY <1>2
  <2> HIDE DEF used, t
  <2>6. Held(battle.players[i], c)' = Held(battle'.players[i], c)
    BY DEF Held
  <2> QED
    BY <2>1, <2>2, <2>3, <2>4, <2>5, <2>6
<1>16. GameInv'
  BY <1>7, <1>9, <1>10, <1>11, <1>12, <1>14, <1>15 DEF GameInv
<1> QED
  BY <1>2, <1>3, <1>16

\* NewState founds the books.
LEMMA GameStarts ==
    ASSUME Init
    PROVE  GameInv /\ battle.over = FALSE
<1>1. PICK d0 \in Shuffles(InitDecks[0]), d1 \in Shuffles(InitDecks[1]) :
           deal = [i \in Seats |-> IF i = 0 THEN d0 ELSE d1]
  BY DEF Init
<1>2. /\ InitDecks[0] \in Seq(CardID) /\ Dealable(InitDecks[0])
      /\ InitDecks[1] \in Seq(CardID) /\ Dealable(InitDecks[1])
  BY RoomConstants DEF Seats
<1>3. /\ d0 \in Seq(CardID) /\ Len(d0) = Len(InitDecks[0])
      /\ d1 \in Seq(CardID) /\ Len(d1) = Len(InitDecks[1])
  BY <1>2, ShuffleKeeps
<1>4. deal \in [Seats -> Seq(CardID)] /\ \A i \in Seats : Dealable(deal[i])
  BY <1>1, <1>2, <1>3 DEF Dealable, Seats
<1>5. /\ battle = NewState(deal) /\ seq = 0 /\ log = <<>> /\ started = FALSE
  BY DEF Init
<1>6. GoodState(battle, [i \in Seats |-> 0]) /\ battle.over = FALSE
  BY <1>4, <1>5, NewStateSound, NewStateUndecided
<1>7. [i \in Seats |-> 0] \in [Seats -> Nat]
  OBVIOUS
<1>8. log \in Seq(LogEntry) /\ Len(log) = 0 /\ DOMAIN log = {}
  BY <1>5
<1>9. SeqCountsPushes
  BY <1>5, <1>8 DEF SeqCountsPushes
<1>10. LogSteps
  BY <1>5, <1>8 DEF LogSteps, Before
<1>11. /\ \A i \in Seats : PlaysOf(i) = {}
       /\ \A i \in Seats, c \in CardID : CardPlays(i, c) = {}
  BY <1>8 DEF PlaysOf, CardPlays
<1>12. GoodState(battle, LogPlayed)
  <2>1. LogPlayed = [i \in Seats |-> 0]
    BY <1>11, FS_EmptySet DEF LogPlayed
  <2> QED
    BY <1>6, <2>1
<1>13. CardsLogged
  <2> SUFFICES ASSUME NEW i \in Seats, NEW c \in CardID
               PROVE  Copies(InitDecks[i], c) = Held(battle.players[i], c)
                                                + Cardinality(CardPlays(i, c))
    BY DEF CardsLogged
  <2>1. Held(battle.players[i], c) = Copies(deal[i], c)
    BY <1>4, <1>5, NewStateHolds
  <2>2. deal[i] \in Shuffles(InitDecks[i]) /\ InitDecks[i] \in Seq(CardID)
    BY <1>1, RoomConstants DEF Seats
  <2>3. Copies(deal[i], c) = Copies(InitDecks[i], c) /\ Copies(InitDecks[i], c) \in Nat
    BY <2>2, CopiesShuffle, PlacesFinite
  <2>4. Cardinality(CardPlays(i, c)) = 0
    BY <1>11, FS_EmptySet
  <2> QED
    BY <2>1, <2>3, <2>4
<1> QED
  BY <1>4, <1>5, <1>6, <1>8, <1>9, <1>10, <1>12, <1>13 DEF GameInv

-----------------------------------------------------------------------------
(***************************************************************************)
(* The two ways a step of the goroutine can end.                           *)
(***************************************************************************)
\* The loop is left: nothing is armed any more, and the report is written from
\* the State that the step left behind.
LEMMA ExitInv ==
    ASSUME RoomIInv, GameInv', NEW reason, Exit(reason),
           reason = "finished" => battle'.over,
           reason = "abandoned" => online' = {},
           joined' \in SUBSET Seats, online' \in SUBSET Seats,
           shown' = [i \in Seats |-> shown'[i]]
    PROVE  RoomIInv'
<1>1. /\ phase' = "closed" /\ report' = finish(reason)
      /\ grace' = FALSE /\ turnC' = 0 /\ ctxDone' = TRUE /\ inbox' = <<>>
      /\ lastTurn' = lastTurn /\ deal' = deal
  BY DEF Exit
<1>2. TypeOK'
  <2>1. inbox' \in Seq(Commands) /\ Len(inbox') <= InboxCap
    BY <1>1, RoomConstants
  <2>2. /\ deal' \in [Seats -> Seq(CardID)] /\ battle' \in State
        /\ seq' \in Nat /\ log' \in Seq(LogEntry) /\ started' \in BOOLEAN
    BY DEF GameInv, GoodState
  <2>3. lastTurn' \in Seats \cup {Nobody}
    BY <1>1 DEF RoomIInv, RoomInv, TypeOK
  <2> QED
    BY <1>1, <2>1, <2>2, <2>3 DEF TypeOK
<1>3. ~Running'
  BY <1>1 DEF Running
<1>4. report' # NoReport =>
         report' = [reason |-> IF battle'.over THEN "finished" ELSE reason,
                    winner |-> battle'.winner, rounds |-> DisplayRound(battle'),
                    actions |-> log']
  BY <1>1 DEF finish
<1>5. battle'.over \in BOOLEAN
  BY <1>2 DEF TypeOK, State
<1>6. Told'
  <2>1. DisplayRound(battle)' = DisplayRound(battle')
    BY DEF DisplayRound
  <2> QED
    BY <1>3, <1>4, <1>5, <2>1 DEF Told
<1>7. GraceMeansEmpty'
  <2>1. report'.reason = "abandoned" => online' = {}
    BY <1>4 DEF NoReport
  <2> QED
    BY <1>1, <1>3, <2>1 DEF GraceMeansEmpty
<1>8. TurnClock' /\ TimerFollows' /\ ViewsFresh'
  BY <1>3 DEF TurnClock, TimerFollows, ViewsFresh
<1> QED
  BY <1>2, <1>6, <1>7, <1>8, SoundAfter DEF RoomIInv, RoomInv, GameInv

\* The loop goes on: checkTurn arms the timer for a turn that has just begun.
LEMMA LoopInv ==
    ASSUME RoomIInv, GameInv', Running, Stay, NEW armed, checkTurn(armed),
           inbox' \in Seq(Commands), Len(inbox') <= InboxCap,
           joined' \in SUBSET Seats, online' \in SUBSET Seats,
           started => started', ~battle'.over,
           \/ battle'.turn = battle.turn /\ battle'.round = battle.round /\ armed = turnC
           \/ battle'.turn = Other(battle.turn) /\ armed \in {0, turnC},
           grace' \in BOOLEAN, grace' => online' = {},
           online' = {} /\ joined' # {} => grace',
           seq' > 0 => \A i \in Seats :
                          shown'[i] = [seq |-> seq', view |-> ViewFor(battle', i)],
           shown' = [i \in Seats |-> shown'[i]]
    PROVE  RoomIInv'
<1>1. phase' = "running" /\ ctxDone' = ctxDone /\ report' = report
  BY DEF Stay, Running
<1>2. report = NoReport
  BY DEF RoomIInv, Told
<1>3. /\ battle' \in State /\ battle'.turn \in Seats /\ battle'.round \in Nat
      /\ battle.turn \in Seats /\ started' \in BOOLEAN /\ started \in BOOLEAN
  BY DEF RoomIInv, GameInv, GoodState, State
<1>4. /\ lastTurn = IF started THEN battle.turn ELSE Nobody
      /\ ~started => turnC = 0
      /\ started => turnC = battle.round
  BY DEF RoomIInv, RoomInv, TimerFollows, TurnClock
<1>5. /\ lastTurn' = IF started' THEN battle'.turn ELSE Nobody
      /\ ~started' => turnC' = 0
      /\ started' => turnC' = battle'.round
  <2>1. CASE started' /\ battle'.turn # lastTurn
    BY <2>1 DEF checkTurn
  <2>2. CASE ~started'
    BY <1>4, <2>2 DEF checkTurn
  <2>3. CASE started' /\ battle'.turn = lastTurn
    <3>1. started /\ battle'.turn = battle.turn
      BY <1>3, <1>4, <2>3 DEF Seats, Nobody
    <3>2. battle'.round = battle.round /\ armed = turnC
      BY <1>3, <3>1 DEF Seats, Other
    <3> QED
      BY <1>4, <2>3, <3>1, <3>2 DEF checkTurn
  <2> QED
    BY <2>1, <2>2, <2>3
<1>6. turnC' \in Nat /\ lastTurn' \in Seats \cup {Nobody}
  BY <1>3, <1>5
<1>7. TypeOK'
  <2>1. /\ deal' \in [Seats -> Seq(CardID)] /\ seq' \in Nat
        /\ log' \in Seq(LogEntry)
    BY DEF GameInv
  <2>2. ctxDone' \in BOOLEAN
    BY <1>1 DEF RoomIInv, RoomInv, TypeOK
  <2> QED
    BY <1>1, <1>3, <1>6, <2>1, <2>2 DEF TypeOK
<1>8. GraceMeansEmpty'
  BY <1>1, <1>2 DEF GraceMeansEmpty, NoReport
<1>9. TurnClock' /\ TimerFollows'
  BY <1>5 DEF TurnClock, TimerFollows
<1>10. Told'
  BY <1>1, <1>2 DEF Told, NoReport
<1>11. ViewsFresh'
  <2>1. \A i \in Seats : ViewFor(battle, i)' = ViewFor(battle', i)
    BY DEF ViewFor, toView
  <2> QED
    BY <2>1 DEF ViewsFresh
<1> QED
  BY <1>7, <1>8, <1>9, <1>10, <1>11, SoundAfter DEF RoomIInv, RoomInv, GameInv

-----------------------------------------------------------------------------
(***************************************************************************)
(* The actions.                                                            *)
(***************************************************************************)
LEMMA InitInv == Init => RoomIInv
<1> SUFFICES ASSUME Init
             PROVE  RoomIInv
  OBVIOUS
<1>1. GameInv /\ battle.over = FALSE
  BY GameStarts
<1>2. battle \in State /\ deal \in [Seats -> Seq(CardID)]
      /\ log \in Seq(LogEntry) /\ seq \in Nat
  BY <1>1 DEF GameInv, GoodState
<1>3. inbox \in Seq(Commands) /\ Len(inbox) <= InboxCap
  BY RoomConstants DEF Init
<1>4. TypeOK
  BY <1>2, <1>3 DEF Init, TypeOK, Nobody
<1>5. GraceMeansEmpty /\ TurnClock /\ SeqCountsPushes
  <2>1. SeqCountsPushes
    BY <1>1 DEF GameInv
  <2> QED
    BY <1>1, <2>1 DEF Init, GraceMeansEmpty, TurnClock, NoReport
<1>6. TimerFollows /\ Told /\ ViewsFresh
  BY DEF Init, TimerFollows, Told, ViewsFresh
<1>7. shown = [i \in Seats |-> shown[i]]
  BY DEF Init
<1> QED
  BY <1>1, <1>4, <1>5, <1>6, <1>7, GameIsSound DEF RoomIInv, RoomInv

\* What the invariant says while the room runs.
LEMMA WhileRunning ==
    ASSUME RoomIInv, Running
    PROVE  /\ ~battle.over /\ GameInv
           /\ joined \in SUBSET Seats /\ online \in SUBSET Seats
           /\ grace \in BOOLEAN /\ (grace => online = {})
           /\ (online = {} /\ joined # {} => grace)
           /\ (seq > 0 => \A i \in Seats :
                             shown[i] = [seq |-> seq, view |-> ViewFor(battle, i)])
           /\ shown = [i \in Seats |-> shown[i]]
           /\ (turnC # 0 => started)
BY DEF RoomIInv, RoomInv, TypeOK, GraceMeansEmpty, TurnClock, ViewsFresh, TimerFollows

\* What is received was sent, and receiving it leaves a shorter inbox.
LEMMA Received ==
    ASSUME RoomIInv, NEW c, Receive(c)
    PROVE  /\ Running
           /\ Tail(inbox) \in Seq(Commands) /\ Len(Tail(inbox)) <= InboxCap
<1>1. inbox \in Seq(Commands) /\ inbox # <<>> /\ Len(inbox) <= InboxCap /\ Running
  BY DEF Receive, RoomIInv, RoomInv, TypeOK
<1>2. /\ Tail(inbox) \in Seq(Commands) /\ Len(Tail(inbox)) = Len(inbox) - 1
  BY <1>1, HeadTailProperties
<1>3. Len(inbox) \in Nat /\ InboxCap \in Nat
  BY <1>1, RoomConstants
<1> QED
  BY <1>1, <1>2, <1>3

\* The environment does not touch the goroutine's state.
LEMMA SurroundingsInv ==
    ASSUME RoomIInv, (\E c \in Commands : Send(c)) \/ Cancel \/ UNCHANGED vars
    PROVE  RoomIInv'
<1>1. /\ UNCHANGED <<phase, joined, online, started, grace, turnC, lastTurn,
                     deal, battle, seq, log, shown, report>>
      /\ inbox' \in Seq(Commands) /\ Len(inbox') <= InboxCap /\ ctxDone' \in BOOLEAN
  <2>1. /\ inbox \in Seq(Commands) /\ Len(inbox) \in Nat /\ Len(inbox) <= InboxCap
        /\ ctxDone \in BOOLEAN /\ InboxCap \in Nat
    BY RoomConstants DEF RoomIInv, RoomInv, TypeOK
  <2>2. CASE \E c \in Commands : Send(c)
    <3>1. PICK c \in Commands : Send(c)
      BY <2>2
    <3>2. /\ Append(inbox, c) \in Seq(Commands)
          /\ Len(Append(inbox, c)) = Len(inbox) + 1
      BY <2>1, AppendProperties
    <3> QED
      BY <2>1, <3>1, <3>2 DEF Send, session, timers, game
  <2>3. CASE Cancel
    BY <2>1, <2>3 DEF Cancel, session, timers, game
  <2>4. CASE UNCHANGED vars
    BY <2>1, <2>4 DEF vars, session, timers, game
  <2> QED
    BY <2>2, <2>3, <2>4
<1>2. GameInv'
  <2>1. GoodState(battle, LogPlayed)' /\ CardsLogged'
    BY <1>1, GameStays DEF RoomIInv, GameInv
  <2> QED
    BY <1>1, <2>1 DEF RoomIInv, GameInv, SeqCountsPushes, LogSteps, Before
<1>3. TypeOK'
  BY <1>1 DEF RoomIInv, RoomInv, TypeOK
<1>4. /\ GraceMeansEmpty' /\ TurnClock' /\ TimerFollows'
  BY <1>1 DEF RoomIInv, RoomInv, GraceMeansEmpty, TurnClock, TimerFollows, Running
<1>5. Told'
  BY <1>1 DEF RoomIInv, Told, Running, DisplayRound
<1>6. ViewsFresh'
  BY <1>1 DEF RoomIInv, ViewsFresh, Running, ViewFor, toView
<1>7. (shown = [i \in Seats |-> shown[i]])'
  BY <1>1 DEF RoomIInv
<1> QED
  BY <1>2, <1>3, <1>4, <1>5, <1>6, <1>7, SoundAfter DEF RoomIInv, RoomInv, GameInv

\* A step that leaves the game as it is and the loop too.
LEMMA LeaveGameInv ==
    ASSUME RoomIInv, Running, NEW reason, Exit(reason),
           UNCHANGED <<started, battle, seq, log, shown>>,
           joined' \in SUBSET Seats, online' \in SUBSET Seats,
           reason # "finished", reason = "abandoned" => online' = {}
    PROVE  RoomIInv'
<1>1. GameInv'
  BY WhileRunning, GameKept DEF Exit
<1>2. shown' = [i \in Seats |-> shown'[i]]
  BY WhileRunning
<1> QED
  BY <1>1, <1>2, ExitInv

LEMMA IgnoredInv ==
    ASSUME RoomIInv, NEW c \in Commands, HandleIgnored(c)
    PROVE  RoomIInv'
<1>1. /\ UNCHANGED <<joined, online, started, grace, deal, battle, seq, log, shown>>
      /\ Receive(c) /\ Stay /\ inbox' = Tail(inbox) /\ checkTurn(turnC)
  BY DEF HandleIgnored, Handled, session
<1>2. Running /\ inbox' \in Seq(Commands) /\ Len(inbox') <= InboxCap
  BY <1>1, Received
<1>3. GameInv'
  BY <1>1, <1>2, WhileRunning, GameKept
<1> QED
  BY <1>1, <1>2, <1>3, WhileRunning, LoopInv

\* join: nobody's grace runs any more; the first join of the second player
\* shows both the state, a later one shows it to the one who came back.
LEMMA JoinInv ==
    ASSUME RoomIInv, NEW c \in Commands, HandleJoin(c)
    PROVE  RoomIInv'
<1> DEFINE p == c.from
<1>1. /\ Receive(c) /\ p \in Seats /\ joined' = joined \cup {p}
      /\ online' = online \cup {p} /\ grace' = FALSE
      /\ started' = (started \/ Starts(p))
      /\ UNCHANGED <<deal, battle, log>>
      /\ Stay /\ inbox' = Tail(inbox) /\ checkTurn(turnC)
  BY DEF HandleJoin, Handled, Enter, cancelGrace
<1>2. /\ Starts(p) => pushState(Seats)
      /\ ~Starts(p) => /\ seq' = seq
                       /\ shown' = IF started THEN [shown EXCEPT ![p] = Snapshot(p)]
                                   ELSE shown
  BY DEF HandleJoin
<1>3. Running /\ inbox' \in Seq(Commands) /\ Len(inbox') <= InboxCap
  BY <1>1, Received
<1>4. /\ GameInv /\ ~battle.over /\ started \in BOOLEAN
      /\ joined \in SUBSET Seats /\ online \in SUBSET Seats
      /\ (seq > 0 => \A i \in Seats :
                        shown[i] = [seq |-> seq, view |-> ViewFor(battle, i)])
      /\ shown = [i \in Seats |-> shown[i]]
  BY <1>3, WhileRunning DEF GameInv
<1> HIDE DEF p
<1>5. GameInv'
  <2>1. CASE Starts(p)
    BY <1>1, <1>2, <1>4, <2>1, GameKept DEF Starts, pushState
  <2>2. CASE ~Starts(p)
    BY <1>1, <1>2, <1>4, <2>2, GameKept
  <2> QED
    BY <2>1, <2>2
<1>6. /\ shown' = [i \in Seats |-> shown'[i]]
      /\ (seq' > 0 => \A i \in Seats :
                         shown'[i] = [seq |-> seq', view |-> ViewFor(battle', i)])
  <2>1. CASE Starts(p)
    BY <1>2, <2>1 DEF pushState, Snapshot
  <2>2. CASE ~Starts(p) /\ ~started
    BY <1>1, <1>2, <1>4, <2>2
  <2>3. CASE ~Starts(p) /\ started
    <3>1. /\ shown' = [shown EXCEPT ![p] = Snapshot(p)] /\ seq' = seq
          /\ Snapshot(p) = [seq |-> seq', view |-> ViewFor(battle', p)]
      BY <1>2, <2>3 DEF Snapshot
    <3> HIDE DEF Snapshot
    <3>2. \A i \in Seats : shown'[i] = IF i = p THEN Snapshot(p) ELSE shown[i]
      BY <1>4, <3>1
    <3>3. shown' = [i \in Seats |-> shown'[i]]
      BY <1>4, <3>1
    <3> QED
      BY <1>1, <1>4, <3>1, <3>2, <3>3
  <2> QED
    BY <1>4, <2>1, <2>2, <2>3
<1>7. joined' \in SUBSET Seats /\ online' \in SUBSET Seats /\ online' # {}
  BY <1>1, <1>4
<1>8. battle' = battle
  BY <1>1
<1> QED
  BY <1>1, <1>3, <1>4, <1>5, <1>6, <1>7, <1>8, LoopInv

\* join, if Out panics on the status message or on a snapshot.
LEMMA JoinPanicsInv ==
    ASSUME RoomIInv, NEW c \in Commands, NEW got,
           JoinPanicsEarly(c) \/ JoinPanicsLate(c, got)
    PROVE  RoomIInv'
<1>1. /\ Receive(c) /\ c.from \in Seats /\ Exit("crashed")
      /\ joined' = joined \cup {c.from} /\ online' = online \cup {c.from}
  BY DEF JoinPanicsEarly, JoinPanicsLate, Enter
<1>2. Running
  BY <1>1, Received
<1>3. joined' \in SUBSET Seats /\ online' \in SUBSET Seats
  BY <1>1, <1>2, WhileRunning
<1>4. CASE JoinPanicsEarly(c)
  <2>1. UNCHANGED <<started, battle, seq, log, shown>>
    BY <1>4 DEF JoinPanicsEarly
  <2> QED
    BY <1>1, <1>2, <1>3, <2>1, LeaveGameInv
<1>5. CASE JoinPanicsLate(c, got)
  <2>1. /\ ~started /\ started' = TRUE /\ battle' = battle /\ log' = log
        /\ seq' = seq + 1 /\ shown' = [i \in Seats |-> shown'[i]]
    BY <1>5 DEF JoinPanicsLate, Starts, pushState
  <2>2. deal' = deal
    BY <1>1 DEF Exit
  <2>3. GameInv'
    BY <1>2, <2>1, <2>2, WhileRunning, GameKept
  <2> QED
    BY <1>1, <1>3, <2>1, <2>3, ExitInv
<1> QED
  BY <1>4, <1>5

\* leave: the last one to go leaves the grace timer running.
LEMMA LeaveInv ==
    ASSUME RoomIInv, NEW c \in Commands, HandleLeave(c) \/ LeavePanics(c)
    PROVE  RoomIInv'
<1>1. /\ Receive(c) /\ c.from \in Seats /\ online' = online \ {c.from}
      /\ UNCHANGED <<joined, started, battle, seq, log, shown>>
  BY DEF HandleLeave, LeavePanics
<1>2. Running /\ Tail(inbox) \in Seq(Commands) /\ Len(Tail(inbox)) <= InboxCap
  BY <1>1, Received
<1>3. joined' \in SUBSET Seats /\ online' \in SUBSET Seats
  BY <1>1, <1>2, WhileRunning
<1>4. CASE HandleLeave(c)
  <2>1. /\ grace' = (grace \/ online' = {}) /\ deal' = deal
        /\ Stay /\ inbox' = Tail(inbox) /\ checkTurn(turnC)
    BY <1>4 DEF HandleLeave, Handled
  <2>2. GameInv'
    BY <1>1, <1>2, <2>1, WhileRunning, GameKept
  <2>3. grace' \in BOOLEAN /\ (grace' => online' = {}) /\ (online' = {} => grace')
    BY <1>1, <1>2, <2>1, WhileRunning
  <2> QED
    BY <1>1, <1>2, <1>3, <2>1, <2>2, <2>3, WhileRunning, LoopInv
<1>5. CASE LeavePanics(c)
  BY <1>1, <1>2, <1>3, <1>5, LeaveGameInv DEF LeavePanics
<1> QED
  BY <1>4, <1>5

\* A refused move.
LEMMA RefusedInv ==
    ASSUME RoomIInv, NEW c \in Commands, HandleRefused(c)
    PROVE  RoomIInv'
<1>1. /\ UNCHANGED <<joined, online, started, battle, seq, log, shown>> /\ Receive(c)
      /\ \/ Handled /\ checkTurn(turnC) /\ UNCHANGED grace
         \/ Exit("crashed")
  BY DEF HandleRefused, session
<1>2. Running /\ Tail(inbox) \in Seq(Commands) /\ Len(Tail(inbox)) <= InboxCap
  BY <1>1, Received
<1>3. CASE Handled /\ checkTurn(turnC) /\ UNCHANGED grace
  <2>1. Stay /\ inbox' = Tail(inbox) /\ deal' = deal
    BY <1>3 DEF Handled
  <2>2. GameInv'
    BY <1>1, <1>2, <2>1, WhileRunning, GameKept
  <2> QED
    BY <1>1, <1>2, <1>3, <2>1, <2>2, WhileRunning, LoopInv
<1>4. CASE Exit("crashed")
  BY <1>1, <1>2, <1>4, WhileRunning, LeaveGameInv
<1> QED
  BY <1>1, <1>3, <1>4

\* An accepted action after which the loop goes on: armed is what checkTurn
\* finds, the old timer or, when that fired, none.
LEMMA MoveStaysInv ==
    ASSUME RoomIInv, Running, NEW p \in Seats, NEW a \in Action, NEW auto \in BOOLEAN,
           Accepted(p, a, auto, Seats), ~battle'.over, Stay, NEW armed, checkTurn(armed),
           deal' = deal, grace' = grace,
           inbox' \in Seq(Commands), Len(inbox') <= InboxCap,
           armed = turnC \/ (armed = 0 /\ a.type = "end_turn")
    PROVE  RoomIInv'
<1>1. /\ GameInv' /\ started' = started
      /\ a.type = "end_turn" => battle'.turn = Other(battle.turn)
      /\ a.type # "end_turn" => /\ battle'.turn = battle.turn
                                /\ battle'.round = battle.round
  BY WhileRunning, GameMoves
<1>2. joined' = joined /\ online' = online /\ pushState(Seats)
  BY DEF Accepted, session
<1>3. /\ shown' = [i \in Seats |-> shown'[i]]
      /\ \A i \in Seats : shown'[i] = [seq |-> seq', view |-> ViewFor(battle', i)]
  BY <1>2 DEF pushState, Snapshot
<1> QED
  BY <1>1, <1>2, <1>3, WhileRunning, LoopInv

\* An accepted action that closes the room: it decided the game, or Out panicked.
LEMMA MoveEndsInv ==
    ASSUME RoomIInv, Running, NEW p \in Seats, NEW a \in Action, NEW auto \in BOOLEAN,
           NEW got, Accepted(p, a, auto, got), NEW reason, Exit(reason),
           reason = "crashed" \/ (reason = "finished" /\ battle'.over)
    PROVE  RoomIInv'
<1>1. GameInv'
  BY WhileRunning, GameMoves DEF Exit
<1>2. joined' = joined /\ online' = online /\ pushState(got)
  BY DEF Accepted, session
<1>3. shown' = [i \in Seats |-> shown'[i]]
  BY <1>2 DEF pushState
<1> QED
  BY <1>1, <1>2, <1>3, WhileRunning, ExitInv

LEMMA MoveInv ==
    ASSUME RoomIInv, NEW c \in Commands, NEW got, HandleMove(c) \/ MovePanics(c, got)
    PROVE  RoomIInv'
<1>1. Receive(c) /\ IsMove(c) /\ c.data # BadData
  BY DEF HandleMove, MovePanics
<1>2. c.data \in Action /\ c.from \in Seats
  BY <1>1, MoveIsAction
<1>3. Running /\ Tail(inbox) \in Seq(Commands) /\ Len(Tail(inbox)) <= InboxCap
  BY <1>1, Received
<1>4. CASE HandleMove(c) /\ battle'.over
  BY <1>2, <1>3, <1>4, MoveEndsInv DEF HandleMove
<1>5. CASE HandleMove(c) /\ ~battle'.over
  <2>1. /\ Accepted(c.from, c.data, FALSE, Seats) /\ checkTurn(turnC) /\ Stay
        /\ inbox' = Tail(inbox) /\ deal' = deal /\ grace' = grace
    BY <1>5 DEF HandleMove, Handled
  <2> QED
    BY <1>2, <1>3, <1>5, <2>1, MoveStaysInv
<1>6. CASE MovePanics(c, got)
  BY <1>2, <1>3, <1>6, MoveEndsInv DEF MovePanics
<1> QED
  BY <1>4, <1>5, <1>6

\* The turn timer: the room itself plays end_turn.
LEMMA TimeoutInv ==
    ASSUME RoomIInv, Timeout
    PROVE  RoomIInv'
<1>1. PICK got : TurnTimeout \/ TimeoutPanics(got)
  BY DEF Timeout
<1>2. Running
  BY <1>1 DEF TurnTimeout, TimeoutPanics
<1>3. battle.turn \in Seats
  BY <1>2, WhileRunning, GameTypes
<1>4. AutoEnd \in Action /\ AutoEnd.type = "end_turn"
  BY AutoEndIsAction DEF AutoEnd
<1>5. CASE TurnTimeout /\ battle'.over
  BY <1>2, <1>3, <1>4, <1>5, MoveEndsInv DEF TurnTimeout
<1>6. CASE TurnTimeout /\ ~battle'.over
  <2>1. /\ Accepted(battle.turn, AutoEnd, TRUE, Seats) /\ checkTurn(0) /\ Stay
        /\ inbox' = inbox /\ deal' = deal /\ grace' = grace
    BY <1>6 DEF TurnTimeout
  <2>2. inbox \in Seq(Commands) /\ Len(inbox) <= InboxCap
    BY DEF RoomIInv, RoomInv, TypeOK
  <2> QED
    BY <1>2, <1>3, <1>4, <1>6, <2>1, <2>2, MoveStaysInv
<1>7. CASE TimeoutPanics(got)
  BY <1>2, <1>3, <1>4, <1>7, MoveEndsInv DEF TimeoutPanics
<1> QED
  BY <1>1, <1>5, <1>6, <1>7

\* The grace timer fires over an empty room; a cancelled context ends any room.
LEMMA OtherCasesInv ==
    ASSUME RoomIInv, GraceFires \/ CtxDone
    PROVE  RoomIInv'
<1>1. UNCHANGED <<joined, online, started, battle, seq, log, shown>> /\ Running
  BY DEF GraceFires, CtxDone, session
<1>2. CASE GraceFires
  BY <1>1, <1>2, WhileRunning, LeaveGameInv DEF GraceFires
<1>3. CASE CtxDone
  BY <1>1, <1>3, WhileRunning, LeaveGameInv DEF CtxDone
<1> QED
  BY <1>2, <1>3

LEMMA StepInv == RoomIInv /\ [Next \/ Rests]_vars => RoomIInv'
<1> SUFFICES ASSUME RoomIInv, [Next \/ Rests]_vars
             PROVE  RoomIInv'
  OBVIOUS
<1>1. CASE (\E c \in Commands : Send(c)) \/ Cancel \/ UNCHANGED vars \/ Rests
  BY <1>1, SurroundingsInv DEF Rests
<1>2. CASE Handle
  <2>1. PICK c \in Commands, got \in SUBSET Seats :
            \/ HandleIgnored(c) \/ HandleJoin(c) \/ HandleLeave(c)
            \/ HandleRefused(c) \/ HandleMove(c)
            \/ JoinPanicsEarly(c) \/ LeavePanics(c)
            \/ JoinPanicsLate(c, got) \/ MovePanics(c, got)
    BY <1>2 DEF Handle
  <2> QED
    BY <2>1, IgnoredInv, JoinInv, LeaveInv, RefusedInv, MoveInv, JoinPanicsInv
<1>3. CASE Timeout
  BY <1>3, TimeoutInv
<1>4. CASE GraceFires \/ CtxDone
  BY <1>4, OtherCasesInv
<1> QED
  BY <1>1, <1>2, <1>3, <1>4 DEF Next

\* Every reachable state of every room satisfies the inductive invariant.
THEOREM RoomIInvariant == Spec => []RoomIInv
<1>1. Init => RoomIInv
  BY InitInv
<1>2. RoomIInv /\ [Next \/ Rests]_vars => RoomIInv'
  BY StepInv
<1> QED
  BY <1>1, <1>2, PTL DEF Spec

-----------------------------------------------------------------------------
(***************************************************************************)
(* What follows from the invariant.                                        *)
(***************************************************************************)
\* The room's books: types, grace and turn timers and the numbers of states and
\* log entries follow the session and the game in every order of commands,
\* timeouts, panics and the shutdown.
THEOREM RoomBooks == Spec => []RoomInv
<1>1. RoomIInv => RoomInv
  BY DEF RoomIInv
<1> QED
  BY <1>1, RoomIInvariant, PTL

\* Apply and the log of record: in every room the game is sound and the log a full
\* account of it, as in a game without a room: at most one winner, sound boards,
\* turns, mana and draws that follow from the plays logged, no card made or lost.
THEOREM GameIsAlwaysSound == Spec => []GameSound
<1>1. RoomIInv => GameSound
  BY DEF RoomIInv, RoomInv
<1> QED
  BY <1>1, RoomIInvariant, PTL

\* pushState and sendView: while the room runs both players have been shown the
\* newest state under the newest number.
THEOREM ViewsAreFresh == Spec => []ViewsFresh
<1>1. RoomIInv => ViewsFresh
  BY SMTT(60) DEF RoomIInv
<1> QED
  BY <1>1, RoomIInvariant, PTL

\* battle.Replay on the log reaches the State of the room: the recursion that
\* Replay defines has one solution, and the log's own hashes are it.
LEMMA StepsReplay ==
    ASSUME GameInv
    PROVE  Replay(log) = Accept(battle)
<1> DEFINE Body(g, k) == IF k = 0 THEN Accept(NewState(deal))
                         ELSE ReplayStep(g[k - 1], log[k])
<1>0. log \in Seq(LogEntry) /\ Len(log) \in Nat /\ DOMAIN log = 1 .. Len(log)
  BY SMTT(60) DEF GameInv
<1> PICK n \in Nat : n = Len(log)
  BY <1>0
<1> DEFINE r == CHOOSE g : g = [k \in 0 .. n |-> Body(g, k)]
           f == [k \in 0 .. n |-> Accept(Before(k + 1))]
<1>1. Replay(log) = r[n]
  BY DEF Replay
<1>2. ASSUME NEW k \in 1 .. n
      PROVE  ReplayStep(Accept(Before(k)), log[k]) = Accept(Before(k + 1))
  <2>1. Apply(Before(k), log[k].player, log[k].act) = Accept(log[k].hash)
    BY <1>0 DEF GameInv, LogSteps
  <2>2. Before(k + 1) = log[k].hash
    BY DEF Before
  <2> HIDE DEF Before
  <2> QED
    BY <2>1, <2>2 DEF ReplayStep, Accept
<1>3. Before(1) = NewState(deal)
  BY DEF Before
<1> HIDE DEF Before, ReplayStep, Accept
<1>4. f = [k \in 0 .. n |-> Body(f, k)]
  <2>1. \A k \in 0 .. n : f[k] = Body(f, k)
    <3> TAKE k \in 0 .. n
    <3>1. CASE k = 0
      BY <1>3, <3>1
    <3>2. CASE k # 0
      <4>1. k \in 1 .. n /\ k - 1 \in 0 .. n /\ (k - 1) + 1 = k
        BY <3>2
      <4>2. f[k - 1] = Accept(Before(k)) /\ f[k] = Accept(Before(k + 1))
        BY <4>1
      <4> QED
        BY <1>2, <3>2, <4>1, <4>2
    <3> QED
      BY <3>1, <3>2
  <2> QED
    BY <2>1
<1> HIDE DEF f, Body
<1>5. r = [k \in 0 .. n |-> Body(r, k)]
  BY <1>4
<1> HIDE DEF r
<1> DEFINE T == {k \in 0 .. n : r[k] # f[k]}
           R == OpToRel(<, Nat)
<1>6. T = {}
  <2> SUFFICES ASSUME T # {}
               PROVE  FALSE
    OBVIOUS
  <2>1. T \subseteq Nat
    OBVIOUS
  <2>2. PICK k \in T : \A j \in T : ~(<<j, k>> \in R)
    BY <2>1, NatLessThanWellFounded, WFMin
  <2>3. k \in 0 .. n /\ r[k] # f[k]
    OBVIOUS
  <2>4. r[k] = Body(r, k) /\ f[k] = Body(f, k)
    BY <1>4, <1>5, <2>3
  <2>5. k # 0
    BY <2>3, <2>4 DEF Body
  <2>6. k - 1 \in 0 .. n /\ k - 1 < k /\ k - 1 \in Nat
    BY <2>3, <2>5
  <2>7. r[k - 1] = f[k - 1]
    <3>1. k - 1 \in T => <<k - 1, k>> \in R
      BY <2>3, <2>6 DEF OpToRel
    <3> QED
      BY <2>2, <2>6, <3>1
  <2> QED
    BY <2>3, <2>4, <2>5, <2>7 DEF Body
<1>7. r[n] = f[n] /\ f[n] = Accept(Before(n + 1))
  <2>1. r[n] = f[n]
    BY <1>6
  <2>2. f[n] = Accept(Before(n + 1))
    BY DEF f
  <2> QED
    BY <2>1, <2>2
<1>8. battle = Before(n + 1)
  BY DEF GameInv, LogSteps
<1> QED
  BY <1>1, <1>7, <1>8, SMTT(60)

\* record against Apply: at any moment, panics of Out included, replaying the log
\* from the same deal goes through without a refusal or a differing hash, and
\* ends in the very State the room holds.
THEOREM LogAlwaysReplays == Spec => []LogReplays
<1>1. RoomIInv => LogReplays
  BY StepsReplay DEF RoomIInv, LogReplays
<1> QED
  BY <1>1, RoomIInvariant, PTL

\* finish against replay.Build: whichever way a room ends, Build accepts what it
\* reported.
THEOREM ReportsAreFaithful == Spec => []ReportFaithful
<1>1. ASSUME RoomIInv, report # NoReport
      PROVE  Build(report)
  <2>1. /\ report.actions = log /\ report.winner = battle.winner
        /\ report.rounds = DisplayRound(battle)
        /\ report.reason = "finished" <=> battle.over
    BY <1>1 DEF RoomIInv, Told
  <2>2. Replay(report.actions) = Accept(battle)
    BY <1>1, <2>1, StepsReplay DEF RoomIInv
  <2>3. Accept(battle).st = battle /\ Accept(battle).err = "ok"
    BY DEF Accept
  <2> QED
    BY <2>1, <2>2, <2>3 DEF Build
<1>2. RoomIInv => ReportFaithful
  BY <1>1 DEF ReportFaithful
<1> QED
  BY <1>2, RoomIInvariant, PTL

=============================================================================
