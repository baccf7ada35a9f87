------------------------------- MODULE Battle -------------------------------
(***************************************************************************)
(* One game as a state machine: a State built by NewState from the two     *)
(* decks, and every call of Apply a client can cause, the refused ones     *)
(* included.  The histories record what the state does not keep and the    *)
(* properties need.                                                        *)
(***************************************************************************)
EXTENDS BattleRules

CONSTANT InitDecks   \* State.InitDecks: the two decks before the shuffle

ASSUME DecksDealable ==
    \A i \in Seats : InitDecks[i] \in Seq(CardID) /\ Dealable(InitDecks[i])

VARIABLES
    battle,   \* the State
    reply,    \* what the last Apply returned, "ok" for nil
    spent,    \* history: spent[i] is the cards seat i played, in order
    idle      \* history: ids summoned or used to attack in this ply

vars == <<battle, reply, spent, idle>>

TypeOK ==
    /\ battle \in State
    /\ reply \in ErrCode \cup {"ok"}
    /\ spent \in [Seats -> Seq(CardID)]
    /\ idle \in SUBSET Nat

Init ==
    /\ \E d0 \in Shuffles(InitDecks[0]), d1 \in Shuffles(InitDecks[1]) :
          battle = NewState([i \in Seats |-> IF i = 0 THEN d0 ELSE d1])
    /\ reply = "ok"
    /\ spent = [i \in Seats |-> <<>>]
    /\ idle = {}

\* Everyone Apply may hear from: the two players, and a name that is neither.
Callers == Seats \cup {Nobody}

\* Ids a client may name: every id given out so far, and one never given out.
Ids(s) == 1 .. s.nextInstID + 1

Act(t, c, id, target) == [type |-> t, card |-> c, inst |-> id, target |-> target]
NoCard == CHOOSE c \in CardID : TRUE

\* The call itself: the state and the error Apply leaves behind.
Call(i, a) ==
    LET r == Apply(battle, i, a)
    IN  battle' = r.st /\ reply' = r.err

PlayCard(i, c) ==
    /\ Call(i, Act("play_card", c, 0, 0))
    /\ spent' = IF reply' = "ok" THEN [spent EXCEPT ![i] = Append(spent[i], c)]
                ELSE spent
    /\ idle' = IF reply' = "ok" THEN idle \cup {battle'.nextInstID} ELSE idle

Attack(i, id, target) ==
    /\ Call(i, Act("attack", NoCard, id, target))
    /\ idle' = IF reply' = "ok" THEN idle \cup {id} ELSE idle
    /\ UNCHANGED spent

EndTurn(i) ==
    /\ Call(i, Act("end_turn", NoCard, 0, 0))
    /\ idle' = IF reply' = "ok" THEN {} ELSE idle
    /\ UNCHANGED spent

\* A type that is none of the three.
UnknownAction(i) ==
    /\ Call(i, Act("unknown", NoCard, 0, 0))
    /\ UNCHANGED <<spent, idle>>

Next ==
    \E i \in Callers :
        \/ \E c \in CardID : PlayCard(i, c)
        \/ \E id \in Ids(battle), target \in Ids(battle) \cup {Face} :
              Attack(i, id, target)
        \/ EndTurn(i)
        \/ UnknownAction(i)

\* The turn timer of the room ends a turn that its player does not end, so
\* end_turn by the player to move cannot be put off for ever.
Fairness == WF_vars(EndTurn(battle.turn))

Spec == Init /\ [][Next]_vars /\ Fairness

-----------------------------------------------------------------------------
(***************************************************************************)
(* Safety.                                                                 *)
(***************************************************************************)
\* checkOver after every change of hit points: the game is over exactly when
\* a player is dead, and then exactly one is: the winner is the other one and
\* the draw that checkOver provides for cannot happen.
Verdict == OneWinner(battle)

\* Apply never leaves the State malformed or the verdict wrong: field by field the
\* State stays one that State describes, and a game has the winner it should.
GameInv == TypeOK /\ Verdict

\* Draw and playCard move cards and never make or lose one: for every card,
\* the copies in hand, in the deck and played are those of the initial deck.
CardsConserved ==
    \A i \in Seats, c \in CardID :
        Copies(InitDecks[i], c) = Copies(battle.players[i].hand, c)
                                  + Copies(battle.players[i].deck, c)
                                  + Copies(spent[i], c)

CardsPlayed == [i \in Seats |-> Len(spent[i])]

\* Summon, attack and removeDead keep both boards sound: within the limit, no
\* minion at or below zero or above its maximum, no id twice (across both
\* boards), and ids counted by the cards played: none is skipped by a refusal.
BoardSound == SoundBoards(battle, CardsPlayed)

\* beginTurn runs once for each turn: whose turn it is, both mana ceilings and
\* the cards drawn (or the fatigue suffered instead) all follow from the ply.
TurnAccounting == SoundTurns(battle, CardsPlayed)

\* A minion attacks at most once in a ply and not at all in the ply it was
\* summoned in (canAttack): an accepted attack is by an id that is not idle.
OneAttackPerTurn ==
    [][\A i \in Seats, id \in Ids(battle), target \in Ids(battle) \cup {Face} :
          Attack(i, id, target) /\ reply' = "ok" => id \notin idle]_vars

\* The return paths of Apply: a call that returns an error has changed nothing,
\* although Summon runs, and may fail, in the middle of playCard.
RejectedChangesNothing == [][reply' # "ok" => battle' = battle]_vars

\* What the player to move can still do before he ends his turn.
Budget(s) ==
    LET p == s.players[s.turn]
    IN  Len(p.hand) + Cardinality({m \in p.board : m.canAttack})

\* Within a turn every accepted call uses something up (a card of the hand or
\* a minion's attack): a turn cannot go on for ever on accepted calls alone.
TurnProgress ==
    [][battle' # battle =>
          \/ battle'.round = battle.round + 1
          \/ battle'.round = battle.round /\ Budget(battle') < Budget(battle)]_vars

\* Fatigue and the turn timer together: every game comes to its end.
GameEnds == <>battle.over

=============================================================================
