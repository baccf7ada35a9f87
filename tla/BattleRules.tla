---------------------------- MODULE BattleRules ----------------------------
(***************************************************************************)
(* The rules of one game: package internal/battle, as operators on a game  *)
(* state.  The package has no goroutine and no I/O: NewState builds a      *)
(* state, Apply is its only mutator, and both are used by the room         *)
(* goroutine (online) and by Replay (offline).                             *)
(*                                                                         *)
(* Abstractions.  A player is named by his seat, 0 or 1, the index of      *)
(* State.Players; Nobody stands for "" and for a stranger's name.  The     *)
(* instance id "m<k>" is the number k, and the target "face" is 0.  A      *)
(* board is a SET of minions: the code only appends to a board a minion    *)
(* with a larger id than any before and filters it in place, so the slice  *)
(* order is the order of the ids and the set loses nothing.                *)
(***************************************************************************)
EXTENDS Integers, Sequences, FiniteSets, SequencesExt

CONSTANTS
    StartHP,     \* hit points of a player at the start (code: 20)
    HandStart,   \* cards dealt before the first turn (code: 3)
    MaxMana,     \* ceiling of the mana pool (code: 10)
    BoardLimit,  \* minions one side may have in play (code: 5)
    CardID,      \* the cards a client can name
    Catalog      \* the card table: a function from known cards to records

Seats == {0, 1}
Other(i) == 1 - i
Nobody == -1
Face == 0

\* A card as deck.validateCard accepts it.  A spell has no attack and no hit
\* points; its damage or healing is never read by the rules.
Card == [type : {"minion", "spell"}, cost : Nat, atk : Nat, hp : Nat]

ASSUME RulesConstants ==
    /\ StartHP \in Nat \ {0}
    /\ HandStart \in Nat
    /\ MaxMana \in Nat \ {0}
    /\ BoardLimit \in Nat \ {0}

ASSUME CatalogLoaded ==
    /\ DOMAIN Catalog \subseteq CardID
    /\ \A c \in DOMAIN Catalog :
          /\ Catalog[c] \in Card
          /\ Catalog[c].type = "minion" => Catalog[c].hp > 0

-----------------------------------------------------------------------------
(***************************************************************************)
(* The data model.                                                         *)
(***************************************************************************)
Minion == [inst : Nat, card : CardID, atk : Nat, hp : Int, maxHP : Nat,
           canAttack : BOOLEAN]

Player == [hp : Int, mana : Int, maxMana : Nat, deck : Seq(CardID),
           hand : Seq(CardID), board : SUBSET Minion, fatigue : Nat]

State == [players : [Seats -> Player], turn : Seats, round : Nat,
          over : BOOLEAN, winner : Seats \cup {Nobody}, nextInstID : Nat]

ErrCode == {"game_over", "not_in_game", "not_your_turn", "unknown_action",
            "card_not_in_hand", "unknown_card", "not_enough_mana",
            "not_implemented", "board_full", "minion_not_found", "cant_attack",
            "invalid_target", "target_not_found"}

\* What Apply and its helpers return: the state they leave behind and an
\* error code, "ok" for nil.
Accept(s) == [st |-> s, err |-> "ok"]
fail(s, code) == [st |-> s, err |-> code]

-----------------------------------------------------------------------------
(***************************************************************************)
(* State transformers.  A definition whose name ends in _Fault is a seeded *)
(* fault: it is used by no definition, only to show that a check fails     *)
(* when the definition after it is replaced by it.                         *)
(***************************************************************************)
\* Fault: the verdict always goes to the seat that is not 0.
checkOver_Fault(s) ==
    [s EXCEPT !.over = \E i \in Seats : s.players[i].hp <= 0,
              !.winner = IF s.players[0].hp <= 0 THEN 1 ELSE s.winner]

\* Somebody at or below zero hit points ends the game; a verdict is final.
checkOver(s) ==
    LET dead == {i \in Seats : s.players[i].hp <= 0}
    IN  IF s.over \/ dead = {} THEN s
        ELSE [s EXCEPT !.over = TRUE,
                       !.winner = IF dead = Seats THEN Nobody
                                  ELSE CHOOSE i \in Seats : i \notin dead]

\* Fault: the drawn card stays on top of the deck.
Draw_Fault(p) ==
    IF p.deck = <<>> THEN p
    ELSE [p EXCEPT !.hand = Append(p.hand, Head(p.deck))]

\* The top card of the deck moves to the hand; an empty deck gives nothing.
Draw(p) ==
    IF p.deck = <<>> THEN p
    ELSE [p EXCEPT !.deck = Tail(p.deck), !.hand = Append(p.hand, Head(p.deck))]

\* The part of beginTurn that concerns the player whose turn begins.
Refresh(p) ==
    LET cap == IF p.maxMana < MaxMana THEN p.maxMana + 1 ELSE p.maxMana
        q == Draw([p EXCEPT !.maxMana = cap, !.mana = cap])
        tired == IF p.deck # <<>> THEN q
                 ELSE [q EXCEPT !.fatigue = p.fatigue + 1,
                                !.hp = p.hp - (p.fatigue + 1)]
    IN  [tired EXCEPT !.board = {[m EXCEPT !.canAttack = TRUE] : m \in p.board}]

\* Mana grows and refills, a card is drawn (or fatigue hurts, which can end
\* the game at once), and every minion on the board may attack.
beginTurn(s, i) ==
    LET t == [s EXCEPT !.players[i] = Refresh(s.players[i])]
    IN  IF s.players[i].deck # <<>> THEN t ELSE checkOver(t)

\* HandStart draws from a shuffled deck that holds more cards than that.
Deal(d) == [hp |-> StartHP, mana |-> 0, maxMana |-> 0,
            deck |-> SubSeq(d, HandStart + 1, Len(d)),
            hand |-> SubSeq(d, 1, HandStart), board |-> {}, fatigue |-> 0]

\* A deck that NewState accepts: a card is left after the opening hand.
Dealable(d) == Len(d) > HandStart

\* NewState once its checks passed; deal[i] is what the shuffle made of the
\* deck of seat i.  Both hands are dealt, then the first turn begins.
NewState(deal) ==
    beginTurn([players |-> [i \in Seats |-> Deal(deal[i])], turn |-> 0,
               round |-> 1, over |-> FALSE, winner |-> Nobody,
               nextInstID |-> 0], 0)

\* The orders rng.Shuffle can put a deck in, one for every class of seeds.
Shuffles(d) == {[k \in DOMAIN d |-> d[f[k]]] : f \in Bijection(DOMAIN d, DOMAIN d)}

-----------------------------------------------------------------------------
(***************************************************************************)
(* The three actions of a player.                                          *)
(***************************************************************************)
Known(c) == c \in DOMAIN Catalog

\* Fault: the instance id is consumed before the board is known to have room.
Summon_Fault(s, i, c) ==
    LET id == s.nextInstID + 1
        m == [inst |-> id, card |-> c, atk |-> Catalog[c].atk,
              hp |-> Catalog[c].hp, maxHP |-> Catalog[c].hp, canAttack |-> FALSE]
    IN  IF ~Known(c) THEN fail(s, "unknown_card")
        ELSE IF Catalog[c].type # "minion" THEN fail(s, "not_implemented")
        ELSE IF Cardinality(s.players[i].board) >= BoardLimit
             THEN fail([s EXCEPT !.nextInstID = id], "board_full")
        ELSE Accept([s EXCEPT !.nextInstID = id,
                              !.players[i].board = s.players[i].board \cup {m}])

\* A minion copied from the card table enters the board with a fresh id.
Summon(s, i, c) ==
    LET id == s.nextInstID + 1
        m == [inst |-> id, card |-> c, atk |-> Catalog[c].atk,
              hp |-> Catalog[c].hp, maxHP |-> Catalog[c].hp, canAttack |-> FALSE]
    IN  IF ~Known(c) THEN fail(s, "unknown_card")
        ELSE IF Catalog[c].type # "minion" THEN fail(s, "not_implemented")
        ELSE IF Cardinality(s.players[i].board) >= BoardLimit
             THEN fail(s, "board_full")
        ELSE Accept([s EXCEPT !.nextInstID = id,
                              !.players[i].board = s.players[i].board \cup {m}])

indexOfString(xs, x) == SelectInSeq(xs, LAMBDA y : y = x)

\* Fault: the card is paid for and played but stays in the hand.
playCard_Fault(s, i, c) ==
    LET p == s.players[i]
        r == Summon(s, i, c)
    IN  IF indexOfString(p.hand, c) = 0 THEN fail(s, "card_not_in_hand")
        ELSE IF ~Known(c) THEN fail(s, "unknown_card")
        ELSE IF p.mana < Catalog[c].cost THEN fail(s, "not_enough_mana")
        ELSE IF r.err # "ok" THEN r
        ELSE Accept([r.st EXCEPT !.players[i].mana = p.mana - Catalog[c].cost])

\* Summoning comes first; only when it succeeded are the mana and the card
\* spent, so a refusal at any point must leave the state as it was.
playCard(s, i, c) ==
    LET p == s.players[i]
        hi == indexOfString(p.hand, c)
        r == Summon(s, i, c)
    IN  IF hi = 0 THEN fail(s, "card_not_in_hand")
        ELSE IF ~Known(c) THEN fail(s, "unknown_card")
        ELSE IF p.mana < Catalog[c].cost THEN fail(s, "not_enough_mana")
        ELSE IF r.err # "ok" THEN r
        ELSE Accept([r.st EXCEPT !.players[i].mana = p.mana - Catalog[c].cost,
                                 !.players[i].hand = RemoveAt(p.hand, hi)])

OnBoard(p, id) == \E m \in p.board : m.inst = id
findMinion(p, id) == CHOOSE m \in p.board : m.inst = id

\* Board after its minion m became n.
Swap(board, m, n) == (board \ {m}) \cup {n}

\* Fault: the dead stay on the board.
removeDead_Fault(s) == s

removeDead(s) ==
    [s EXCEPT !.players = [i \in Seats |->
        [s.players[i] EXCEPT !.board = {m \in s.players[i].board : m.hp > 0}]]]

\* Face attack: the defender loses hit points, the attacker its attack.
HitFace(s, i, x) ==
    [s EXCEPT !.players[Other(i)].hp = s.players[Other(i)].hp - x.atk,
              !.players[i].board = Swap(s.players[i].board, x,
                                        [x EXCEPT !.canAttack = FALSE])]

\* Fault: the fight does not use up the attacker's attack.
Fight_Fault(s, i, x, d) ==
    [s EXCEPT !.players[Other(i)].board = Swap(s.players[Other(i)].board, d,
                                               [d EXCEPT !.hp = d.hp - x.atk]),
              !.players[i].board = Swap(s.players[i].board, x,
                                        [x EXCEPT !.hp = x.hp - d.atk])]

\* Minion against minion: both strike at once, and both can die.
Fight(s, i, x, d) ==
    [s EXCEPT !.players[Other(i)].board = Swap(s.players[Other(i)].board, d,
                                               [d EXCEPT !.hp = d.hp - x.atk]),
              !.players[i].board = Swap(s.players[i].board, x,
                                        [x EXCEPT !.hp = x.hp - d.atk,
                                                  !.canAttack = FALSE])]

attack(s, i, id, target) ==
    LET me == s.players[i]
        opposite == s.players[Other(i)]
        x == findMinion(me, id)
    IN  IF ~OnBoard(me, id) THEN fail(s, "minion_not_found")
        ELSE IF ~x.canAttack \/ x.atk = 0 THEN fail(s, "cant_attack")
        ELSE IF target = Face THEN Accept(checkOver(removeDead(HitFace(s, i, x))))
        ELSE IF OnBoard(me, target) THEN fail(s, "invalid_target")
        ELSE IF ~OnBoard(opposite, target) THEN fail(s, "target_not_found")
        ELSE Accept(checkOver(removeDead(Fight(s, i, x,
                                                findMinion(opposite, target)))))

\* Fault: the turn passes but the ply counter stands still.
endTurn_Fault(s, i) == Accept(beginTurn([s EXCEPT !.turn = Other(i)], Other(i)))

\* Fault: an empty deck is an error of end_turn instead of fatigue.
endTurn_NoFatigue(s, i) ==
    IF s.players[Other(i)].deck = <<>> THEN fail(s, "card_not_in_hand")
    ELSE Accept(beginTurn([s EXCEPT !.turn = Other(i), !.round = s.round + 1], Other(i)))

endTurn(s, i) ==
    Accept(beginTurn([s EXCEPT !.turn = Other(i), !.round = s.round + 1], Other(i)))

-----------------------------------------------------------------------------
(***************************************************************************)
(* Apply: the one entry point.  An action carries every field; the ones    *)
(* its type does not use are ignored.                                      *)
(***************************************************************************)
Action == [type : {"play_card", "attack", "end_turn", "unknown"},
           card : CardID, inst : Nat, target : Nat]

Apply(s, i, a) ==
    IF s.over THEN fail(s, "game_over")
    ELSE IF i \notin Seats THEN fail(s, "not_in_game")
    ELSE IF i # s.turn THEN fail(s, "not_your_turn")
    ELSE CASE a.type = "play_card" -> playCard(s, i, a.card)
           [] a.type = "attack"    -> attack(s, i, a.inst, a.target)
           [] a.type = "end_turn"  -> endTurn(s, i)
           [] OTHER                -> fail(s, "unknown_action")

\* Rounds as players count them: two plies make one.
DisplayRound(s) == (s.round + 1) \div 2

-----------------------------------------------------------------------------
(***************************************************************************)
(* What a client is shown: the opponent's hand and both decks only as      *)
(* counts.                                                                 *)
(***************************************************************************)
toView(p, showhand) ==
    [hp |-> p.hp, mana |-> p.mana, maxMana |-> p.maxMana, fatigue |-> p.fatigue,
     board |-> p.board, hand |-> IF showhand THEN p.hand ELSE <<>>,
     handCount |-> Len(p.hand), deckCount |-> Len(p.deck)]

ViewFor(s, i) ==
    [me |-> toView(s.players[i], TRUE), opp |-> toView(s.players[Other(i)], FALSE),
     round |-> s.round, over |-> s.over, winner |-> s.winner,
     yourTurn |-> i = s.turn]

-----------------------------------------------------------------------------
(***************************************************************************)
(* What makes a State sound; played[i] is how many cards seat i played.    *)
(***************************************************************************)
\* The game is over exactly when a player is dead, and then exactly one is:
\* the winner is the other one, and the draw of checkOver does not happen.
OneWinner(s) ==
    LET dead == {i \in Seats : s.players[i].hp <= 0}
    IN  IF s.over THEN s.winner \in Seats /\ dead = {Other(s.winner)}
        ELSE dead = {} /\ s.winner = Nobody

\* A minion that may be on a board: alive, within its maximum, its id given out.
SoundMinion(m, lastID) ==
    0 < m.hp /\ m.hp <= m.maxHP /\ 0 < m.inst /\ m.inst <= lastID

\* Both boards within the limit, every minion sound, no id twice (across both
\* boards), and as many ids given out as cards were played.
SoundBoards(s, played) ==
    /\ \A i \in Seats : Cardinality(s.players[i].board) <= BoardLimit
    /\ \A i \in Seats : \A m \in s.players[i].board : SoundMinion(m, s.nextInstID)
    /\ \A i, j \in Seats :
          \A m \in s.players[i].board, n \in s.players[j].board :
              m.inst = n.inst => i = j /\ m = n
    /\ s.nextInstID = played[0] + played[1]

Copies(xs, c) == Cardinality({k \in DOMAIN xs : xs[k] = c})

\* How many turns seat i has begun by the ply the game is in.
TurnsBegun(s, i) == (s.round + 1 - i) \div 2

\* The books of one player after he began so many turns.
SoundPlayer(p, begun, played) ==
    /\ p.maxMana = IF begun < MaxMana THEN begun ELSE MaxMana
    /\ 0 <= p.mana /\ p.mana <= p.maxMana
    /\ HandStart + begun = Len(p.hand) + played + p.fatigue
    /\ p.fatigue > 0 => p.deck = <<>>
    /\ p.hp <= StartHP

\* beginTurn ran once for each turn: whose turn it is, both mana ceilings and
\* the cards drawn (or the fatigue suffered instead) all follow from the ply.
SoundTurns(s, played) ==
    /\ s.turn = (s.round + 1) % 2
    /\ \A i \in Seats : SoundPlayer(s.players[i], TurnsBegun(s, i), played[i])

=============================================================================
