# A TLA+ model of the pet-tcg server

The repository is an authoritative server for a two-player card game: clients
log in, queue for an opponent, play in a room over a WebSocket, may reconnect,
and leave a replayable report behind. This directory holds TLA+ models of the
parts that carry the server's own logic, TLC runs over small instances of them,
and TLAPS proofs, for all values of the constants, of what the server's parts
promise: everything that the passing runs check, but for liveness.

## The system and its parts

| part (source) | state it keeps | operations | module | status |
|---|---|---|---|---|
| battle rules (`internal/battle`) | `State`: players, boards, turn, ply, verdict, next id | `NewState`, `Apply` (play_card, attack, end_turn), `ViewFor` | `BattleRules`, `Battle` | modelled, proved |
| room actor (`internal/room`: room, state, report) | session (joined, online, started), two timers, game, `seq`, log | `Send`; the select of `Run`: command, grace, turn timeout, context; recover; `finish` | `Room` | modelled, proved |
| replay (`battle/replay.go`, `room/replay.go`, `internal/replay`) | none | `Replay`, `Steps`, `Build` | operators in `Room`; the card hash in `Cards` | partly; proved |
| matchmaking (`internal/match`) | two Redis sorted sets; locals of a pass | `Join`, `Leave`, `take`, `restore`, `matchOnce` | `Match`, promise: `Queue` | modelled, proved |
| connections (`auth/ws.go`, `SendTo`) | `Conns[user]`; per connection: send channel, quit, room id | `ServerWs`, `addConn`, `removeConn`, `readLoop`, `writeLoop`, `Send` | `Session` | modelled, proved |
| room manager, start, shutdown (`room/manager.go`, `server/main.go`) | room table, wait group, the signal context | `Create`, `Remove`, `Wait`, `OnMatch`, `saveReport`, `run` | `Lifecycle` | modelled, proved |
| login, passwords (`auth/auth.go`, `auth/password.go`) | `users.password`, the bcrypt slots | `Login`, `checkPassword`, `burnPasswordCheck`, `withBcryptSlot` | `Login` | modelled, proved |
| tokens (`auth/tokens.go`) | a map, or keys in Redis | `Issue`, `Lookup`, `PlayerFromToken`, `tokenErr` | `MemTokens`, `RedisTokens`, promise: `TokenStore` | modelled, proved |
| rate limiters (`auth/ratelimit.go`, `auth/loginlimit.go`) | token buckets, the map of addresses | `Allow`, `sweep` | `LoginLimit`, promise: `Bucket` | modelled, proved |
| card table, decks (`internal/deck`, `Savedecks`, `loadDeckOrDefault`) | catalogue, its hash, stored decks | `Load`, `ValidateDeck`, `Savedecks`, `defaultDeck` | `Cards` | modelled, proved |
| reports (`internal/store`, `auth/reports.go`) | `battle_reports` | `SaveBattleReport`, `ListReports`, `ReplayReport` | `Reports`, `Cards` | partly; proved |
| replay tool (`scripts/replay`) | pool of workers, counts | `verifyAll`, `check` | `Verify` | partly; proved |
| robots, load test (`scripts/bot`) | per game: last seq, last command; per run: failures, samples | `chooseAction`, `playOne`, `runLoad`, `percentile` | `Strategy`, `BotClient`, `BotRun` | partly; proved |
| origins, metrics | none; counters | | none | not modelled |

How they interact. A connection's `readLoop` calls the matcher (enqueue,
dequeue) and puts commands into a room's inbox. The matcher's goroutine pairs
players and, through `OnMatch`, creates a game and a room for it. The room's
goroutine owns the game, calls `Apply`, and hands views to `SendTo`, which looks
up the player's current connection and puts the message into its send channel;
the connection's `writeLoop` empties it. When a room ends it hands a report to
`OnFinish`, which stores it; `replay.Build` later checks the report by playing it
again. `Login` asks the limiter of the caller's address, checks the password
through a bounded number of bcrypt slots and issues a token; every other request
looks its token up. Stored decks and reports outlive the server and the card
table they were made under. The tools are clients of all this: the robots play over WebSockets, and the replay tool checks every stored report.

What is hard here: the order in which the room's select takes ready cases, a
panic of `Out` in the middle of a broadcast, timers racing the commands they are
about, two connections of one player overlapping, Redis commands that are atomic
one by one only, failures of such commands, channels that drop what does not
fit, passwords that two logins upgrade at once, a shutdown that nobody tells the
matcher about, and data that was written under another card table.
`PROJECT.json` lists the hazards one by one with the properties for them.

## Modules

`BattleRules` has the rules as operators on a game state: one operator per Go
function, under its name. `Apply(s, i, a)` returns the state and the error code.
A board is a set of minions, since the slice is always in the order of the ids;
instance ids are numbers; a player is his seat. It also defines what a sound
state is (`OneWinner`, `SoundBoards`, `SoundTurns`), given how many cards each seat
has played, and counts the `Copies` of a card.

`Battle` is a game as a state machine: Init is `NewState` over every shuffle,
one action per type of call, made by either player or a stranger, with ids that
exist, existed, or never did. `spent` and `idle` are histories; a room has its log
instead.

`Room` is one room. Each case of the select is a set of actions. A command is
handled in one step (`handle` and the `checkTurn` after it), since the goroutine
owns all it touches; the ways in which `Out` can panic meanwhile are actions
with the suffix `Panics`, whose parameter `got` is the set of players who were
served before. Leaving the loop includes the deferred functions (`Exit`). Time is
abstracted: an armed timer may fire in any later state. `turnC` remembers in
which ply the turn timer was armed. `deal` (the shuffled decks) stands for the
seed, and the hash in a log entry is the state itself. `Replay`, `ReplayStep` and
`Build` are `battle.Replay`, `room.Steps` and `replay.Build`. `LogPlayed` counts the
cards in the log, so that `GameSound` can say of a room what `Battle`'s
properties say of a game. The report's times are left out.

`Queue` is what matchmaking promises: a player is told that he is matched only
together with another one, for an entry of his own that he has not withdrawn and
that has served nobody else, and only if the matcher, at work on these two, has
seen them in the queue under scores in range of each other. Whoever is put back
is put back under the score that was seen. `Match` is the code and implements it;
it has one action per Redis command. A client names a score in every enqueue
(`Scores` has those that each player may name, `Enqueue` picks one), so a player
can leave and come back with another score while the matcher is at work on him:
then he is matched, or written back by `restore`, by the score he was found with,
and that is all `Queue` promises. The scores that stand in Redis at the moment of
`take` may be further apart than `MaxWindow`. A time stamp is represented by its
age, capped where the window is at its widest, so the clock need not be bounded.
Members of equal score come in any order. `joining` counts the Joins of a player
that have done the first of their two commands: those of two connections may
overlap. `credit`, `intent` and `bScore` (the score under which Redis listed `b`,
which the code does not keep) are histories, and with them goes the refinement
mapping: `Queue`'s entries are credits, who has been told is who has `intent`
"matched", and `Seen` is the matcher's knowledge of scores. `faults` counts the
commands that have failed and the restarts.

`Session` has the connections of one player, each with its handler and its
writeLoop, his place in the matcher's queue (a bit here: `Match` has the two
sorted sets), and as much of a room as the connections see: inbox, whether it is
open, and whether it believes the player to be online. The clean-up of a
connection is four steps (`removeConn`, `LeaveQueue`, `SendLeave`, `CloseSelf`),
as in `ServerWs`, because other connections act between them. `told`, whether
the current connection's enqueue stands, and `slips`, whether a leave was dropped,
not sent by a replaced connection, or late, are histories for the properties
("late" is set by either half of a late clean-up, and stays). Which
messages are sent on each connection is a constant.

`Lifecycle` is the process from its first match to its exit. The main goroutine
goes through `run`'s shutdown line by line, the matcher goes through `OnMatch`
(`Manager.Create` is two steps: the table under its lock, then the wait group
and the goroutine), and each room through its end (report, `Remove`, `Done`); a
room may end before both players have joined, and then reports nothing.
A match that starts and ends is left to `Room`.

`Login` has several handlers of `POST /login` over one users table. A handler
reads the stored password once (`seen`) and acts on it after it has waited for a
slot. `cost` counts its bcrypt computations. bcrypt itself is a predicate:
a hash opens to the password it was made of, and to no other (the real comparison
ignores what follows the 72nd byte).

`TokenStore` is what the rest of the server relies on: a token names its player
for exactly its life, and a store that cannot be asked answers 503. `MemTokens`
(a map whose expired entries stay until they are asked for) and `RedisTokens`
(keys with a TTL, commands that fail executed or not, clients that present a
key instead of a token) are both shown to implement it, with the fresh entries
respectively the keys of tokens that were handed out as refinement mapping. The
last answer and the token it was given to are part of what is implemented.

`Bucket` is an abstract token bucket for every address that fills all the time.
`LoginLimit` is the code: a bucket refilled only when somebody asks, in a map
that is swept. Time and tokens are measured in units of the refill, so that
`Cost` units are one token; float64 rounding is left out. The refinement mapping
`Credit` is what an address would find if it asked now. A connection's own
limiter is the same operator, `AllowLimiter`. It is `Web`'s part `limit`.

`Cards` follows the card table over restarts: the file that the operator edits,
the two reads of a start, decks saved and reports written under older tables. A
deck is a function from ids to numbers of copies; a table stands for its sha256.
A replay changes nothing, so `ReplayReport` is the set of its possible answers.

`Reports` is the table of reports and the list that a player asks for, the
`UNION ALL` of two limited halves included; rows of equal time come in any order,
so `ListReports` is a set of lists.

`Web` puts `Login`, `LoginLimit`, the two token stores, `Cards` and `Reports` side
by side. They share no variable, and every property is about one of them, so a
behaviour steps one of them (`part`) and leaves the others in an initial state: a product of
their states would contain the same behaviours of each.

`Verify` is the worker pool of `scripts/replay -all`. The channels are
unbuffered, so a send and its receive are one step.

`Strategy` extends `Battle` with `chooseAction`, defined on the view a robot
gets and not on the state. `BotClient` is `playOne` from the creation of its room
on, with the room reduced to who has joined, whether it has started, the ply,
whose turn it is, how many moves are left and whether it is closed, and with the
messages under way in both directions. As in `handle`, the room starts, and
pushes a state, when the second of the two joins, and accepts moves before that;
the opponent may join before or after the robot, leave again before the start,
never come, or play before it (`early` remembers that). `timed` remembers that the
turn timer has interfered. An error without a code ends `playOne`, as a read
that fails does. What an earlier game has left on the same connection is not
modelled, nor is a match whose creation fails. `BotRun`
is both main programs: every robot on its own, or `runLoad` (`load`), in which
everybody logs in first. `Tools` puts `Verify`, `BotClient` and `BotRun` side by
side, as `Web` does: the operator runs one `program`.

Definitions whose name continues that of another one after an underscore
(`Draw_Fault`, `Kept_Short`, `Lookup_Sliding` and so on) are
seeded faults, used by nothing: each shows that a property fails when the
definition is replaced by it.

## Runs

| run | instance | states | what it shows |
|---|---|---|---|
| `game` | decks of three cards (minions, an attackless one, a spell, a card missing from the table), 3 hit points, mana 2, board 1 | 10 thousand | sound boards, turns and verdicts, no card made or lost, harmless refusals, that a robot's choices are legal in any game, and that every game ends |
| `room` | a game of at most four plies, inbox 1, all commands of both seats, a stranger's and malformed ones | 25 thousand | game, log, report, timers and views stay right through every race and every panic, and log and state account for every card; a started or cancelled room closes |
| `room_empty` | as `room` | violation | a room nobody joins stays for ever |
| `match` | three players, one of whom has two scores to enqueue with, on either side of another's, batch 2, range 2, four calls, one failing command or restart | 270 thousand | the matcher implements `Queue`: no entry serves twice, pairs are in range by the scores they were seen with; until something fails, nobody waiting is lost or loses seniority, and players who wait with close scores do not both wait for ever |
| `match_agree` | as `match`, five calls, no failures | violation | the two sorted sets come apart |
| `session` | two connections, one that joins and enqueues, one that dequeues and sends other messages; one message and one command of buffer | 184 thousand | the table of connections is truthful, no goroutine is left behind; who is gone is offline and unqueued, and who is there stays queued, but for the exceptions below |
| `session_online` | two connections that join, inbox 2 | violation | a late leave takes a reconnected player offline |
| `lifecycle` | three rooms | 42 thousand | wait group and table follow the rooms, awaited rooms have reported before the database is closed, the server stops, pairs are told |
| `lifecycle_late` | as `lifecycle` | violation | `OnMatch` creates a room after `Wait` has returned |
| `web` | two login handlers, two accounts (one whose password bcrypt refuses), an unknown name, one slot; two addresses, two tokens of two units, idle 4, sweeps every 1, six ticks; three tokens, one of them seeded; six card tables, three of them bad; three matches, two start times, limits none, 1 and too large | 167 thousand | the right password opens, no other does, every 401 costs one computation, every login is answered; a bucket per address, windows and the map bounded; both token stores implement `TokenStore`; decks are valid under the table in use, replays true or refused; the list is the newest matches |
| `tools` | three workers and four reports; two moves a turn, three plies, three messages under way each way; three robots, two games each, two logins at once | 171 thousand | every report counted once, a truthful exit code, termination; the robot is never stuck in a game that has started or whose opponent waits for him, and never refused unless the timer or an early opponent interferes; runs end, exit 0 means all was played, percentiles are nearest ranks |

An invariant whose name ends in `Inv` is the conjunction of a module's type
invariant with parts that need each other: `GameInv` (`Verdict`), `RoomInv`
(`GraceMeansEmpty`, `TurnClock`, `SeqCountsPushes`, `GameSound`), `MatchInv`
(`OnePairPerEntry`), `SessionInv` (`TableTruthful`), `LifecycleInv` (`InSync`, `ReportsWritten`) and `LoginInv` (`StillOpens`, `EqualWork`).
`TokenStores` states both refinements; `ExitTellsTruth` and `ToolsEnd` have one
conjunct for each tool.

The four violations are the findings of `PROJECT.json`, each with the line of
documentation or test that says otherwise. None of them is provoked by the
bounds: the traces use two connections, three players or one command.

Other properties hold with an exception that the code really has, which is part
of the statement:

- `NobodyLost`, `SeniorityKept` and `MatchHappens` hold until a Redis command fails
  or the server restarts. A player who leaves while the matcher holds him is put
  back by `restore`; no property excludes that.
- `MatchHappens` excepts a batch full of entries that are in `mm:time` alone: they
  are never removed (`match.go:97`) and come first in every pass.
- `GoneIsOffline` names the two ways in which a room goes on counting a player
  who is gone: his leave met a full inbox, or the connection that had joined was
  replaced by one that never named the room.
- `StaysQueued` excepts whoever was already back when a removed connection of his
  cleaned up, be it by `MM.Leave` or by the leave to the room, from then on.
- `QueueSpec` speaks of the scores that the matcher found the two players under. A
  player who has left and enqueued again with another score since then is matched
  all the same.
- `PlayableDecks` excepts tables of fewer than four cards, which load although
  the default deck made from them is too short.
- `ReplaysTheGame` is about starts in which `cards.yaml` is not edited between its
  two reads (`main.go:183` and `:188`).
- `ExitTellsTruth` (`SuccessMeansPlayed`) excepts the enqueue that cannot be written in the plain
  mode (`scripts/bot/main.go:119`), which is not counted as a failure.
- `NeverRefused` holds until the turn timer ends one of the robot's turns; then an
  `end_turn` sent after a refusal may end a turn it was not meant for. It also
  needs an opponent who plays only once the game has started: `room.go:94` does
  not ask whether it has, and the push at `room.go:89` repeats a position under a
  new number, which the robot answers a second time.
- `ToolsEnd` (`PlaysToTheEnd`) says that `playOne` ends without its deadline when the
  game has started, or the opponent is there and has not played. It does not
  say so of a robot whose opponent never joins (nothing but the deadline of the
  read ends that wait), nor of one whose opponent has played before the start:
  if the robot's join is then rate limited, it sends its last move again and not
  the join, and does not join at all. A join that is rate limited in a game
  where nothing was played makes the robot send an empty command, whose error
  ends its game.
- `BucketSpec` needs an idle period that fills a bucket, as the default rate does
  (`PET_LOGIN_RATE` below 1/60 would not).

Bounds and why they suffice. The rules treat all cards of one kind alike, so one
card of each kind and a limit of one or two reaches every branch and both sides
of every limit; TLAPS covers all other values. In the room, an inbox of one
already lets every command race every timer, since the sender refills it at any
moment; the queue's length matters to no guard except that of `Send`. In the
matcher, three players are the fewest for which a taken player's partner can be
lost to a third party, and `Calls` bounds coming and going (a Leave, a Join and
two more calls are what the races need): `MatchHappens` needs
that, because a third player who leaves at the right moment in every pass can
keep two others apart for ever. Two connections are the fewest that overlap.
Three rooms are one that is over, one that ends and one that is being created
while the server stops. Two handlers on one slot are the fewest that race, and
a handler is used again when it is done, so their number over time is not
bounded. In `session` one connection that joins and enqueues against one that does neither
gives every overlap of their clean-ups; the overlap of two joins is
`session_online`. `LimitHorizon` is longer than idle time and sweep interval
together, so buckets are swept and made anew; the proofs cover all other values.
The clocks of `MemTokens` and `LoginLimit` are bounded by `Horizon` and
`LimitHorizon`; the clock of `RedisTokens` is not, since only remaining lives are
kept.
Three matches with a limit of one or two leave out a match in either half of the
query, and ties. In `match`, the two scores of one player bring him near the one
neighbour or near both, so that he can be chosen by one score and be back with
the other before he is taken. With three messages under way a refusal, or the
state that the start repeats, reaches the robot after the turn it was about.

Fairness. `Battle`: the player to move ends his turn in the end, because the room
does it for him when the turn timer fires. `Room`: the goroutine runs, an armed
timer fires, and select picks at random among ready cases, so weak fairness of
each case is what the runtime gives; nobody is made to send. `OnFinish` returns
(the store's context has a timeout of three seconds). `Match`: the ticker goes
on, a Join that has begun does its second command, time passes. `Session`: both
goroutines of a connection run, and reads and writes have deadlines. Nothing is
assumed of clients or the network. `Lifecycle`: weak fairness of each goroutine;
no signal has to arrive. `Login`: weak fairness of each handler, and strong
fairness of getting a slot, because a Go channel serves blocked senders first
come, first served. `Verify`, `BotRun`: goroutines run, and a game is limited by
its context; a login is assumed to return, although the tool's `http.Post` has no
timeout of its own. `BotClient`: the robot runs, and `match_found` is sent (weak);
the room's answer, and in a game that has started the opponent's turn, are
strongly fair, because the connection's limiter refills and
the opponent has a turn timer: both are only interrupted by the limiter and by
full buffers. Nothing makes the opponent join. The server stays up, and a room
that crashes tells its players so. `Web` and `Tools` take over the fairness of the modules they put side by
side, for the one that is stepped. `CHECK_DEADLOCK FALSE` is in the runs whose
system ends: a process that exits, a tool that returns.

## Proofs

`RulesProofs` proves for every card table, every limit and every state that
`Apply` keeps a sound state sound (`ApplySound`). `GoodState(s, played)` is the
conjunction of the three soundness predicates with the type of the state and the
finiteness of both boards. The argument goes along the code: lemmas for `Draw`,
`Refresh`, `checkOver`, `Summon`, `Swap`, `removeDead`, the two kinds of attack,
then one lemma for each of `playCard`, `attack` and `endTurn`. Cards are counted
there too: `CopiesJoin`, `CopiesSplit`, `CopiesRemoveAt` and `CopiesShuffle` say
what happens to the number of copies of a card when a sequence is extended, cut,
loses one entry or is shuffled (a shuffle is a bijection of the places),
`DealHolds` to `PlayCardTakes` say which of these each function of the code does,
and `ApplyHolds` sums it up: an accepted play takes one copy of its card out of
hand and deck, and nothing else changes their number. `Battle` and `Room` both
use it.

`BattleProofs` lifts this to the state machine. The inductive invariant is
`BattleInv`: `TypeOK`, `GoodState`, and `Rested`, which says that a minion whose
id is in `idle` has `canAttack` false. The conjuncts need each other: that
exactly one player is dead when the game is over holds only because an attack
hits one face and fatigue one player while nobody was dead before; that an id is
fresh needs the bound of all ids by `nextInstID`; `AttacksLimited` needs
`Rested`, and `Rested` needs unique ids, since otherwise refreshing one minion
could wake another. From `BattleInvariant` follow `VerdictCorrect`,
`BoardsCorrect`, `TurnsCorrect`, and with one step more the action properties
`RejectionsHarmless` and `AttacksLimited`. `CardsStay` is `ApplyHolds` with the
history of cards played.

`TurnsRunOut` shows that every accepted action but `end_turn` uses up a card of
the hand or a minion's attack (`CardIsUsed`, `AttackIsUsed`), minions
that die included. `RobotIsLegal` goes from the view to the state (`ViewIsTrue`)
and then through the guards of `Apply` for each candidate; it holds in every
state of `BattleInv`, not only in those robots bring about.

`RoomProofs` is about any decks, any inbox and any set of requests. `RoomInv`
alone is not inductive: a room's books are right because the game inside is
sound and the log leads to it. `RoomIInv` adds `GameInv` (`GoodState` of the
game with the plays of the log, by `ApplySound`; `CardsLogged`, that hand, deck
and log add up to the dealt deck for each card; and `LogSteps`: entry k leads
from the state of entry k - 1 to its own, the last one to the game in hand), `TimerFollows`, what a closed
room has told (`Told`) and `ViewsFresh`. There is one lemma for each case of the
select, and for each that `Out` can break off. `GameIsAlwaysSound` is what that
says of the game: `PlayCounted` shows that appending an entry to the log counts
as one play of one card by one seat if it is a play and as none otherwise,
whatever panics come after it, and `ApplyHolds` and `ApplySound` do the rest.
`LogReplays` is about a recursion over a log of any length: `StepsReplay` takes the least entry at which `Replay`
and the log would disagree (the well-foundedness of the natural numbers gives
it) and shows that there is none. `ReportFaithful` follows from it and `Told`.

`LifecycleProofs`: `LifecycleIInv` adds `Progress`, which relates what the main
goroutine has reached to what the rooms have done: a report can be lost only to
a closed database, and a room that `Wait` has seen end has handed in its report.
The wait group is a cardinality, so each step of a room is `CountKept`,
`CountUp` or `CountDown`.

`MatchProofs`: `MatchIInv` adds `PassInv` (what the locals of a pass still have
to do with the queue: a time stamp newer than the batch is never older) and `Sets`
(the sorted sets are finite maps). `NobodyLost` is a
part of the invariant and not a consequence. A command that fails makes that
part vacuous for good, so each lemma has a case for it. `SeniorityIsKept` is a
property of steps: the difficult one is `restore`, which writes back a stamp
from the batch, and `PassInv` says that it is not younger than what it replaces.
`MatchKeepsItsPromise` maps each action to one of `Queue`: a call to `Enqueue`,
`Withdraw` or `NothingNew`, depending on whether the command was executed
(`JoinEnqueues`, `LeaveWithdraws`), the two reads of scores to `Look` (`ReadsLook`),
`take` and `restore` to `Take` and `PutBack` (`TakesAndRestores`), the removal of
the opponent to `Pair` (`TakeB2Pairs`), the end of a pass to `GiveUp`, and the rest to
nothing. That the two are different and in range was decided commands ago, on
scores that Redis may not hold any more, so it has to be carried along:
`Compatible` says that from the choice of an opponent on the pass holds such a
pair, under the scores it has seen.

`SessionProofs`: `TableTruthful` is inductive with the types. `GoneIsOffline` is
about the future of commands in the inbox: `WillBeOnline` says what the room
will believe when it has handled them, and `LeaveWillCome` that somebody who has
joined still has the leave to send as long as the room believes, or will, in the
player. `EnteredKnow` gives that handler the room id. `QueuedStaysQueued` needs
that "queued" stands only while there is a current connection (`ToldIsCurrent`).

`WebProofs` has one section for each part; a step of `Web` is a step or a stutter
of that part (`OneLimiter` and the like). `LoginIInv` gives each handler what it
`Knows` between its read of the password and the update after the slot: the hash it has seen opens to the
account's password, although it may be another hash by now. `DecksIInv` says
that no deck in use is older than the table, and `HashIInv` what the two reads
of a start and the reports of earlier ones have to do with each other (`edited`
is a history: whether the file changed between the reads). `RowsIInv` is a
primary key; `ListIsNewest` does not depend on the steps but on the query:
`NewestOf` and `NothingNewerIsCut` show that the halves of the union, each cut
at the limit, lose nothing that the list would show. `StoresKeepTheirPromise` is
two refinements proved step by step: `MemStep` and `RedisStep` map each action
to one of `TokenStore` (`RedisTokens` deletes what `TokenStore` forgets; in
`MemTokens` a tick forgets an entry that is still there, and the `delete` of
`Lookup` is a stutter but for the answer). Two tokens never share
a key (`KeysDiffer`), and a key read from a dump of Redis is no token, which is
what makes the `Lookup` of one a 401.

The limiter is proved for any number of addresses, any rate, burst and
intervals. The inductive invariant `LimitInv` is its `TypeOK`, `MapBounded` and
`Swept`, which relates the last sweep to the last call: without it a step cannot
know that an entry that is still there was looked at recently enough. From it
follow `LimitTypeCorrect` and `MapStaysBounded`. `LimiterRefines` shows `Spec =>
BucketSpec` action by action: a tick fills (`TickPasses`), a call grants or
refuses as the abstract bucket does (`AllowGrants`), and the heart of it is
`SweepForgetsNothing`: an address that is swept, and one that was never there,
both stand for a full bucket. This needs `Idle >= Burst` (an idle bucket is a
full one), which is an assumption of the theorem and not of the module, because
the settings do not guarantee it. `WindowsBounded` follows from the abstract
`Ledger` (what was granted plus what is left never exceeds the burst and what
has flowed in), carried along the mapping.

`ToolsProofs` is about any reports, workers, robots, samples, lengths of turns
and games, and any number of messages under way. For the pool, `PoolInv` says
that each report is in exactly one place (`OnePlace`, `SomePlace`: not yet fed,
with one worker, or counted) and what `feeder` and wait group know of the
workers (`WindsUp`), which makes the sum of the counts the number of reports when
`verifyAll` returns. For a run of robots, `RunInv` says that each robot is at one
of its places and that whoever failed has been counted. `NeverRefused` needs to
know what is under way between a robot and its room until the turn timer or an
early opponent interferes (`ClientInv`): either the game has not begun (`Start`:
the match is not announced, or the join has still to be sent, is under way or was
thrown away, or the robot has joined and waits), or it is the
robot's turn and of the messages on their way to it only the last asks for a move
(`Asked`), or the command it sends is the one for the room's state, unless the
limiter throws it away (`Chosen`), or it is not the robot's turn and nothing it
will read makes it move (`Idles`), or the room is closed and refuses nothing
any more (`GoneConfig`). Each action leads from one of these to another
(`JoinedCalm` is the start, whoever of the two comes second), and none of them
contains a refused command.
`PercentilesAreNearest` is arithmetic and counting: sorting is a bijection of the
places that ascends (one exists, `OrderExists`), so the samples up to the one of
rank r are at least r, those below it fewer (`RankCounts`), and the rounding of
`percentile` gives the least rank that is enough (`RankOf`).

Assumptions, which TLC evaluates in the runs: `RulesConstants` (the limits are
natural numbers, all but the opening hand positive), `CatalogLoaded` (what
`validateCard` checks), `DecksDealable` and `RoomConstants` (what `NewState`
checks; requests are actions), `RoomsFinite`, `MatchConstants` (scores are
integers: fractions, and the infinities that `ParseFloat` accepts, are left out;
ages are capped where the window is at its widest), `SessionConstants` (channels have room; no
connection is called `NoConn`), `WebConstants` (at least one slot; no more
handlers than can be counted; no player is called as nobody is; a Redis key has
a prefix, so it is no token; a token of the limiter costs something; the other
numbers are natural) and `ToolConstants` (finitely many workers, reports and
robots, at least one worker; places for at least one message and one login).
`LimiterRefines` and `WindowsBounded` assume `Idle >= Burst` besides.

Only model-checked: liveness (`GameEnds`, `RoomCloses`, `MatchHappens`,
`LoopsEnd`, `CutOffIsUnqueued`, `Answered`, `Stops`, `PairsAreTold`,
`ToolsEnd`), which is beyond this prover.

## Not modelled

Contents and encoding of messages, the collision of hashes, clock values, the
rounding of float64, and the times in a report (`AtMs` of a move that is
accepted before both players have joined counts from the zero time). Of a Redis
command that fails, only whether it was executed. The origin check and its
setting are pure functions on text. The metrics are counters that nothing reads
back. The SQL collation (names that differ in case) and the JSON columns are the
database's. Of the tools, creating the robots' accounts, reading `/metrics` and
printing are left out, since they only produce output. Frames (`GodView`) are
the state itself.

## Plan

1. An abstract room (a game, who is online, a report) that `Room` implements.
2. `Session` with two players and a room, so that the grace timer is seen from
   the connections.
