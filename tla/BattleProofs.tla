---------------------------- MODULE BattleProofs ----------------------------
(***************************************************************************)
(* What Battle promises, for every card table, every pair of decks that    *)
(* NewState accepts and every value of the limits.                         *)
(***************************************************************************)
EXTENDS Strategy, RulesProofs

\* The minions of the player to move that were summoned or have attacked in
\* this ply cannot attack: what canAttack is for, as an invariant.
Rested ==
    /\ \A id \in idle : id <= battle.nextInstID
    /\ \A m \in battle.players[battle.turn].board : m.inst \in idle => ~m.canAttack

\* The inductive invariant.
BattleInv == TypeOK /\ GoodState(battle, CardsPlayed) /\ Rested

\* A dealt deck is not empty, so there is a card.
LEMMA NoCardIsCard == NoCard \in CardID
<1>1. InitDecks[0] \in Seq(CardID) /\ Len(InitDecks[0]) > HandStart
  BY DecksDealable DEF Seats, Dealable
<1>2. HandStart \in Nat /\ Len(InitDecks[0]) \in Nat
  BY <1>1, RulesConstants
<1>3. 1 \in 1 .. Len(InitDecks[0])
  BY <1>1, <1>2
<1>4. InitDecks[0][1] \in CardID
  BY <1>1, <1>3, ElementOfSeq
<1> QED
  BY <1>4 DEF NoCard

\* NewState establishes the invariant.
LEMMA InitInv == Init => BattleInv
<1> SUFFICES ASSUME Init
             PROVE  BattleInv
  OBVIOUS
<1>1. PICK d0 \in Shuffles(InitDecks[0]), d1 \in Shuffles(InitDecks[1]) :
           battle = NewState([i \in Seats |-> IF i = 0 THEN d0 ELSE d1])
  BY DEF Init
<1> DEFINE deal == [i \in Seats |-> IF i = 0 THEN d0 ELSE d1]
<1>2. /\ InitDecks[0] \in Seq(CardID) /\ Dealable(InitDecks[0])
      /\ InitDecks[1] \in Seq(CardID) /\ Dealable(InitDecks[1])
  BY DecksDealable DEF Seats
<1>3. /\ d0 \in Seq(CardID) /\ Len(d0) = Len(InitDecks[0])
      /\ d1 \in Seq(CardID) /\ Len(d1) = Len(InitDecks[1])
  BY <1>2, ShuffleKeeps
<1>4. deal \in [Seats -> Seq(CardID)] /\ \A i \in Seats : Dealable(deal[i])
  BY <1>2, <1>3 DEF Dealable, Seats
<1> HIDE DEF deal
<1>5. GoodState(NewState(deal), [i \in Seats |-> 0])
  BY <1>4, NewStateSound
<1>6. spent \in [Seats -> Seq(CardID)] /\ CardsPlayed = [i \in Seats |-> 0]
  BY DEF Init, CardsPlayed
<1>7. GoodState(battle, CardsPlayed)
  BY <1>1, <1>5, <1>6 DEF deal
<1>8. idle = {} /\ reply = "ok"
  BY DEF Init
<1> QED
  BY <1>6, <1>7, <1>8 DEF BattleInv, TypeOK, Rested, GoodState

\* A call that is refused leaves every part of the invariant as it was.
LEMMA RefusalKeepsInv ==
    ASSUME BattleInv, battle' = battle, spent' = spent, idle' = idle,
           reply' \in ErrCode \cup {"ok"}
    PROVE  BattleInv'
BY DEF BattleInv, TypeOK, CardsPlayed, Rested

\* What a call does, as the rules' ApplyOutcome has it.
LEMMA CallOutcome ==
    ASSUME BattleInv, NEW i \in Callers, NEW a \in Action, Call(i, a)
    PROVE  /\ reply' \in ErrCode \cup {"ok"}
           /\ CardsPlayed \in [Seats -> Nat]
           /\ reply' # "ok" => battle' = battle
           /\ reply' = "ok" =>
                 /\ ~battle.over /\ i = battle.turn /\ i \in Seats
                 /\ a.type = "play_card" => CardPlayed(battle, battle', i, a.card)
                 /\ a.type = "attack" => Attacked(battle, battle', i, a.inst)
                 /\ a.type = "end_turn" => battle' = endTurn(battle, i).st
                 /\ a.type # "unknown"
<1> DEFINE r == Apply(battle, i, a)
<1>1. battle' = r.st /\ reply' = r.err
  BY DEF Call
<1>2. CardsPlayed \in [Seats -> Nat] /\ GoodState(battle, CardsPlayed)
  BY DEF BattleInv, TypeOK, CardsPlayed
<1>3. i \in Seats \cup {Nobody}
  BY DEF Callers
<1>4. \/ r.err # "ok" /\ r.st = battle
      \/ /\ r.err = "ok" /\ ~battle.over /\ i = battle.turn /\ i \in Seats
         /\ \/ a.type = "play_card" /\ CardPlayed(battle, r.st, i, a.card)
            \/ a.type = "attack" /\ Attacked(battle, r.st, i, a.inst)
            \/ a.type = "end_turn" /\ r = endTurn(battle, i)
  BY <1>2, <1>3, ApplyOutcome
<1>5. r.err \in ErrCode \cup {"ok"}
  BY ApplyCode
<1> HIDE DEF r
<1> QED
  BY <1>1, <1>2, <1>4, <1>5

\* play_card keeps the invariant.
LEMMA PlayCardInv ==
    ASSUME BattleInv, NEW i \in Callers, NEW c \in CardID, PlayCard(i, c)
    PROVE  BattleInv'
<1> DEFINE a == Act("play_card", c, 0, 0)
<1>1. a \in Action /\ a.type = "play_card" /\ a.card = c
  BY DEF Act, Action
<1>2. Call(i, a)
  BY DEF PlayCard
<1> HIDE DEF a
<1>3. /\ reply' \in ErrCode \cup {"ok"} /\ CardsPlayed \in [Seats -> Nat]
      /\ reply' # "ok" => battle' = battle
      /\ reply' = "ok" => /\ ~battle.over /\ i = battle.turn /\ i \in Seats
                          /\ CardPlayed(battle, battle', i, c)
  BY <1>1, <1>2, CallOutcome
<1>4. CASE reply' # "ok"
  BY <1>3, <1>4, RefusalKeepsInv DEF PlayCard
<1>5. CASE reply' = "ok"
  <2>1. /\ i \in Seats /\ i = battle.turn /\ CardPlayed(battle, battle', i, c)
        /\ spent' = [spent EXCEPT ![i] = Append(spent[i], c)]
        /\ idle' = idle \cup {battle'.nextInstID}
        /\ spent \in [Seats -> Seq(CardID)] /\ idle \in SUBSET Nat
        /\ GoodState(battle, CardsPlayed)
    BY <1>3, <1>5 DEF PlayCard, BattleInv, TypeOK
  <2>2. spent' \in [Seats -> Seq(CardID)] /\ CardsPlayed' = Played(CardsPlayed, i)
    <3>1. Append(spent[i], c) \in Seq(CardID)
          /\ Len(Append(spent[i], c)) = Len(spent[i]) + 1
      BY <2>1, AppendProperties
    <3> QED
      BY <2>1, <3>1 DEF CardsPlayed, Played
  <2>3. GoodState(battle', CardsPlayed')
    BY <1>3, <2>1, <2>2, PlayCardSound
  <2>4. /\ battle.nextInstID \in Nat /\ battle'.nextInstID = battle.nextInstID + 1
        /\ battle'.turn = i
        /\ battle'.players[i].board = battle.players[i].board
                                      \cup {NewMinion(battle, c)}
    BY <2>1 DEF CardPlayed, GoodState, State
  <2>5. NewMinion(battle, c).canAttack = FALSE
    BY DEF NewMinion
  <2>6. \A m \in battle.players[i].board : m.inst \in Nat /\ m.inst <= battle.nextInstID
    <3>1. GoodBoard(battle.players[i].board, battle.nextInstID)
      BY <2>1, BoardsSplit
    <3> QED
      BY <3>1 DEF GoodBoard, SoundMinion, Minion
  <2>7. \A m \in battle.players[i].board : m.inst \in idle => ~m.canAttack
    BY <2>1 DEF BattleInv, Rested
  <2>8. \A m \in battle'.players[i].board : m.inst \in idle' => ~m.canAttack
    BY <2>1, <2>4, <2>5, <2>6, <2>7
  <2>9. idle' \in SUBSET Nat /\ \A id \in idle' : id <= battle'.nextInstID
    <3>1. \A id \in idle : id \in Nat /\ id <= battle.nextInstID
      BY <2>1 DEF BattleInv, Rested
    <3>2. battle'.nextInstID \in Nat
      BY <2>4
    <3>3. \A id \in idle : id <= battle'.nextInstID
      BY <2>4, <3>1
    <3>4. battle'.nextInstID <= battle'.nextInstID
      BY <3>2
    <3>5. idle' \in SUBSET Nat
      BY <2>1, <3>2
    <3> QED
      BY <2>1, <3>3, <3>4, <3>5, Zenon
  <2> QED
    BY <1>3, <2>2, <2>3, <2>4, <2>8, <2>9 DEF BattleInv, TypeOK, Rested, GoodState
<1> QED
  BY <1>4, <1>5

\* attack keeps the invariant.
LEMMA AttackInv ==
    ASSUME BattleInv, NEW i \in Callers, NEW id \in Nat, NEW target \in Nat,
           Attack(i, id, target)
    PROVE  BattleInv'
<1> DEFINE a == Act("attack", NoCard, id, target)
<1>1. a \in Action /\ a.type = "attack" /\ a.inst = id
  BY NoCardIsCard DEF Act, Action
<1>2. Call(i, a)
  BY DEF Attack
<1> HIDE DEF a
<1>3. /\ reply' \in ErrCode \cup {"ok"} /\ CardsPlayed \in [Seats -> Nat]
      /\ reply' # "ok" => battle' = battle
      /\ reply' = "ok" => /\ ~battle.over /\ i = battle.turn /\ i \in Seats
                          /\ Attacked(battle, battle', i, id)
  BY <1>1, <1>2, CallOutcome
<1>4. CASE reply' # "ok"
  BY <1>3, <1>4, RefusalKeepsInv DEF Attack
<1>5. CASE reply' = "ok"
  <2>1. /\ ~battle.over /\ i \in Seats /\ i = battle.turn
        /\ Attacked(battle, battle', i, id)
        /\ spent' = spent /\ idle' = idle \cup {id}
        /\ spent \in [Seats -> Seq(CardID)] /\ idle \in SUBSET Nat
        /\ GoodState(battle, CardsPlayed)
    BY <1>3, <1>5 DEF Attack, BattleInv, TypeOK
  <2>2. CardsPlayed' = CardsPlayed
    BY <2>1 DEF CardsPlayed
  <2>3. /\ GoodState(battle', CardsPlayed') /\ battle'.turn = i
        /\ battle'.nextInstID = battle.nextInstID
        /\ \A m \in battle'.players[i].board :
              m.canAttack => m \in battle.players[i].board /\ m.inst # id
    BY <1>3, <2>1, <2>2, AttackSound
  <2>4. \A m \in battle.players[i].board : m.inst \in idle => ~m.canAttack
    BY <2>1 DEF BattleInv, Rested
  <2>5. \A m \in battle'.players[i].board : m.inst \in idle' => ~m.canAttack
    BY <2>1, <2>3, <2>4
  <2>6. id <= battle.nextInstID
    <3>1. PICK x \in battle.players[i].board : x.inst = id
      BY <2>1 DEF Attacked
    <3>2. GoodBoard(battle.players[i].board, battle.nextInstID)
      BY <2>1, BoardsSplit
    <3> QED
      BY <3>1, <3>2 DEF GoodBoard, SoundMinion
  <2>7. idle' \in SUBSET Nat /\ \A k \in idle' : k <= battle'.nextInstID
    BY <2>1, <2>3, <2>6 DEF BattleInv, Rested
  <2> QED
    BY <1>3, <2>1, <2>3, <2>5, <2>7 DEF BattleInv, TypeOK, Rested, GoodState
<1> QED
  BY <1>4, <1>5

\* end_turn keeps the invariant.
LEMMA EndTurnInv ==
    ASSUME BattleInv, NEW i \in Callers, EndTurn(i)
    PROVE  BattleInv'
<1> DEFINE a == Act("end_turn", NoCard, 0, 0)
<1>1. a \in Action /\ a.type = "end_turn"
  BY NoCardIsCard DEF Act, Action
<1>2. Call(i, a)
  BY DEF EndTurn
<1> HIDE DEF a
<1>3. /\ reply' \in ErrCode \cup {"ok"} /\ CardsPlayed \in [Seats -> Nat]
      /\ reply' # "ok" => battle' = battle
      /\ reply' = "ok" => /\ ~battle.over /\ i = battle.turn /\ i \in Seats
                          /\ battle' = endTurn(battle, i).st
  BY <1>1, <1>2, CallOutcome
<1>4. CASE reply' # "ok"
  BY <1>3, <1>4, RefusalKeepsInv DEF EndTurn
<1>5. CASE reply' = "ok"
  <2>1. spent' = spent /\ idle' = {} /\ CardsPlayed' = CardsPlayed
    BY <1>5 DEF EndTurn, CardsPlayed
  <2>2. GoodState(battle', CardsPlayed')
    BY <1>3, <1>5, <2>1, EndTurnSound DEF BattleInv
  <2> QED
    BY <1>3, <2>1, <2>2 DEF BattleInv, TypeOK, Rested, GoodState
<1> QED
  BY <1>4, <1>5

\* An action of no known type keeps the invariant.
LEMMA UnknownActionInv ==
    ASSUME BattleInv, NEW i \in Callers, UnknownAction(i)
    PROVE  BattleInv'
<1> DEFINE a == Act("unknown", NoCard, 0, 0)
<1>1. a \in Action /\ a.type = "unknown"
  BY NoCardIsCard DEF Act, Action
<1>2. Call(i, a)
  BY DEF UnknownAction
<1> HIDE DEF a
<1>3. reply' \in ErrCode \cup {"ok"} /\ battle' = battle
  BY <1>1, <1>2, CallOutcome
<1> QED
  BY <1>3, RefusalKeepsInv DEF UnknownAction

\* Ids and targets that a client may name are natural numbers.
LEMMA IdsAreNat ==
    ASSUME BattleInv
    PROVE  /\ \A id \in Ids(battle) : id \in Nat
           /\ \A t \in Ids(battle) \cup {Face} : t \in Nat
<1>1. battle.nextInstID \in Nat
  BY DEF BattleInv, TypeOK, State
<1> QED
  BY <1>1 DEF Ids, Face

\* Every step keeps the invariant.
LEMMA NextInv == BattleInv /\ [Next]_vars => BattleInv'
<1> SUFFICES ASSUME BattleInv, [Next]_vars
             PROVE  BattleInv'
  OBVIOUS
<1>1. ASSUME NEW i \in Callers, NEW c \in CardID, PlayCard(i, c)
      PROVE  BattleInv'
  BY <1>1, PlayCardInv
<1>2. ASSUME NEW i \in Callers, NEW id \in Ids(battle),
             NEW target \in Ids(battle) \cup {Face}, Attack(i, id, target)
      PROVE  BattleInv'
  BY <1>2, IdsAreNat, AttackInv
<1>3. ASSUME NEW i \in Callers, EndTurn(i)
      PROVE  BattleInv'
  BY <1>3, EndTurnInv
<1>4. ASSUME NEW i \in Callers, UnknownAction(i)
      PROVE  BattleInv'
  BY <1>4, UnknownActionInv
<1>5. CASE UNCHANGED vars
  BY <1>5 DEF vars, BattleInv, TypeOK, CardsPlayed, Rested
<1> QED
  BY <1>1, <1>2, <1>3, <1>4, <1>5 DEF Next

-----------------------------------------------------------------------------
\* The inductive invariant holds in every state of every game.
THEOREM BattleInvariant == Spec => []BattleInv
BY InitInv, NextInv, PTL DEF Spec

\* Every State the rules reach is well typed, and no draw, no missed and no wrong
\* verdict is ever reached, in a game with any cards.
THEOREM VerdictCorrect == Spec => []GameInv
<1>1. BattleInv => GameInv
  BY DEF BattleInv, GoodState, GameInv, Verdict
<1> QED
  BY <1>1, BattleInvariant, PTL

\* The boards stay sound under every sequence of summons, fights and deaths.
THEOREM BoardsCorrect == Spec => []BoardSound
<1>1. BattleInv => BoardSound
  BY DEF BattleInv, GoodState, BoardSound
<1> QED
  BY <1>1, BattleInvariant, PTL

\* Turn, mana, draws and fatigue follow from the ply, however long the game.
THEOREM TurnsCorrect == Spec => []TurnAccounting
<1>1. BattleInv => TurnAccounting
  BY DEF BattleInv, GoodState, TurnAccounting
<1> QED
  BY <1>1, BattleInvariant, PTL

\* An error is an error: no path through Apply both refuses and changes.
THEOREM RejectionsHarmless == Spec => RejectedChangesNothing
<1>1. BattleInv /\ [Next]_vars => [reply' # "ok" => battle' = battle]_vars
  <2> SUFFICES ASSUME BattleInv, Next, reply' # "ok"
               PROVE  battle' = battle
    BY DEF vars
  <2>1. ASSUME NEW i \in Callers, NEW a \in Action, Call(i, a)
        PROVE  battle' = battle
    BY <2>1, CallOutcome
  <2>2. ASSUME NEW i \in Callers, NEW c \in CardID, PlayCard(i, c)
        PROVE  battle' = battle
    BY <2>1, <2>2 DEF PlayCard, Act, Action
  <2>3. ASSUME NEW i \in Callers, NEW id \in Nat, NEW target \in Nat,
               Attack(i, id, target)
        PROVE  battle' = battle
    BY <2>1, <2>3, NoCardIsCard DEF Attack, Act, Action
  <2>4. ASSUME NEW i \in Callers, EndTurn(i)
        PROVE  battle' = battle
    BY <2>1, <2>4, NoCardIsCard DEF EndTurn, Act, Action
  <2>5. ASSUME NEW i \in Callers, UnknownAction(i)
        PROVE  battle' = battle
    BY <2>1, <2>5, NoCardIsCard DEF UnknownAction, Act, Action
  <2> QED
    BY <2>2, <2>3, <2>4, <2>5, IdsAreNat DEF Next
<1> QED
  BY <1>1, BattleInvariant, PTL DEF Spec, RejectedChangesNothing

\* No minion attacks twice in a ply or in the ply it was summoned in.
THEOREM AttacksLimited == Spec => OneAttackPerTurn
<1> DEFINE A == \A i \in Seats, id \in Ids(battle), target \in Ids(battle) \cup {Face} :
                   Attack(i, id, target) /\ reply' = "ok" => id \notin idle
<1>1. BattleInv => A
  <2> SUFFICES ASSUME BattleInv, NEW i \in Seats, NEW id \in Ids(battle),
                      NEW target \in Ids(battle) \cup {Face},
                      Attack(i, id, target), reply' = "ok"
               PROVE  id \notin idle
    OBVIOUS
  <2> DEFINE a == Act("attack", NoCard, id, target)
  <2>1. id \in Nat /\ target \in Nat /\ i \in Callers
    BY IdsAreNat DEF Callers
  <2>2. a \in Action /\ a.type = "attack" /\ a.inst = id
    BY <2>1, NoCardIsCard DEF Act, Action
  <2>3. Call(i, a)
    BY DEF Attack
  <2> HIDE DEF a
  <2>4. i = battle.turn /\ Attacked(battle, battle', i, id)
    BY <2>1, <2>2, <2>3, CallOutcome
  <2>5. PICK x \in battle.players[i].board : x.inst = id /\ x.canAttack
    BY <2>4 DEF Attacked
  <2> QED
    BY <2>4, <2>5 DEF BattleInv, Rested
<1>2. BattleInv /\ [Next]_vars => [A]_vars
  BY <1>1
<1> QED
  BY <1>2, BattleInvariant, PTL DEF Spec, OneAttackPerTurn

-----------------------------------------------------------------------------
(***************************************************************************)
(* No card is made or lost.                                                *)
(***************************************************************************)
\* The books of the cards, carried along.
ConservedInv == BattleInv /\ CardsConserved

LEMMA ConservedInit == Init => ConservedInv
<1> SUFFICES ASSUME Init
             PROVE  CardsConserved
  BY InitInv DEF ConservedInv
<1>1. PICK d0 \in Shuffles(InitDecks[0]), d1 \in Shuffles(InitDecks[1]) :
           battle = NewState([i \in Seats |-> IF i = 0 THEN d0 ELSE d1])
  BY DEF Init
<1> DEFINE deal == [i \in Seats |-> IF i = 0 THEN d0 ELSE d1]
<1>2. \A i \in Seats : InitDecks[i] \in Seq(CardID) /\ Dealable(InitDecks[i])
  BY DecksDealable
<1>3. \A i \in Seats : /\ deal[i] \in Shuffles(InitDecks[i]) /\ deal[i] \in Seq(CardID)
                       /\ Len(deal[i]) = Len(InitDecks[i])
  <2>1. \A i \in Seats : deal[i] \in Shuffles(InitDecks[i])
    BY DEF Seats
  <2> HIDE DEF deal
  <2> QED
    BY <1>2, <2>1, ShuffleKeeps
<1>4. deal \in [Seats -> Seq(CardID)] /\ \A i \in Seats : Dealable(deal[i])
  BY <1>2, <1>3 DEF Dealable
<1>5. battle = NewState(deal)
  BY <1>1
<1> HIDE DEF deal
<1>6. ASSUME NEW i \in Seats, NEW c \in CardID
      PROVE  Copies(InitDecks[i], c) = Copies(battle.players[i].hand, c)
                                       + Copies(battle.players[i].deck, c)
                                       + Copies(spent[i], c)
  <2>1. Held(battle.players[i], c) = Copies(deal[i], c)
    BY <1>4, <1>5, NewStateHolds
  <2>2. Copies(deal[i], c) = Copies(InitDecks[i], c) /\ Copies(InitDecks[i], c) \in Nat
    BY <1>2, <1>3, CopiesShuffle, PlacesFinite
  <2>3. spent[i] = <<>>
    BY DEF Init
  <2>4. Copies(<<>>, c) = 0
    <3>1. {k \in DOMAIN <<>> : <<>>[k] = c} = {}
      OBVIOUS
    <3> QED
      BY <3>1, FS_EmptySet DEF Copies
  <2> QED
    BY <2>1, <2>2, <2>3, <2>4 DEF Held
<1> QED
  BY <1>6 DEF CardsConserved

\* A call that spends nothing, or does nothing.
LEMMA ConservedCall ==
    ASSUME ConservedInv, NEW i \in Callers, NEW a \in Action, Call(i, a),
           spent' = IF reply' = "ok" /\ a.type = "play_card"
                    THEN [spent EXCEPT ![i] = Append(spent[i], a.card)] ELSE spent
    PROVE  CardsConserved'
<1>1. BattleInv /\ CardsConserved
  BY DEF ConservedInv
<1>2. CASE reply' # "ok"
  <2>1. battle' = battle /\ spent' = spent
    BY <1>1, <1>2, CallOutcome
  <2> QED
    BY <1>1, <2>1 DEF CardsConserved
<1>3. CASE reply' = "ok"
  <2>1. /\ battle \in State /\ spent \in [Seats -> Seq(CardID)]
        /\ CardsPlayed \in [Seats -> Nat] /\ GoodState(battle, CardsPlayed)
    BY <1>1 DEF BattleInv, TypeOK, CardsPlayed
  <2>2. i \in Seats
    BY <1>1, <1>3, CallOutcome
  <2>3. i \in Seats \cup {Nobody} /\ Apply(battle, i, a).err = "ok"
        /\ battle' = Apply(battle, i, a).st
    BY <1>3, <2>2 DEF Call
  <2>4. ASSUME NEW j \in Seats, NEW x \in CardID
        PROVE  Copies(InitDecks[j], x) = Copies(battle'.players[j].hand, x)
                                         + Copies(battle'.players[j].deck, x)
                                         + Copies(spent'[j], x)
    <3> DEFINE used == IF a.type = "play_card" /\ j = i THEN CopyOf(a.card, x) ELSE 0
    <3>1. /\ Held(battle.players[j], x) = Held(battle'.players[j], x) + used
          /\ Held(battle'.players[j], x) \in Nat
      <4> DEFINE t == Apply(battle, i, a).st
      <4>1. Held(battle.players[j], x) = Held(t.players[j], x) + used /\ Held(t.players[j], x) \in Nat
        BY <2>1, <2>3, ApplyHolds
      <4>2. t = battle'
        BY <2>3
      <4> HIDE DEF t, used
      <4> QED
        BY <4>1, <4>2
    <3>2. Copies(InitDecks[j], x) = Held(battle.players[j], x) + Copies(spent[j], x)
      BY <1>1 DEF CardsConserved, Held
    <3>3. /\ Copies(spent'[j], x) = Copies(spent[j], x) + used
          /\ Copies(spent[j], x) \in Nat /\ used \in Nat
      <4>1. spent[j] \in Seq(CardID) /\ Copies(spent[j], x) \in Nat
        BY <2>1, PlacesFinite
      <4>2. CASE a.type = "play_card" /\ j = i
        <5>1. a.card \in CardID /\ CopyOf(a.card, x) \in Nat
          <6>1. a.card \in CardID /\ <<a.card>> \in Seq(CardID)
            BY DEF Action
          <6> QED
            BY <6>1, PlacesFinite DEF CopyOf
        <5>2. spent'[j] = Append(spent[j], a.card)
          BY <1>3, <2>1, <4>2
        <5> QED
          BY <4>1, <4>2, <5>1, <5>2, CopiesAppend
      <4>3. CASE ~(a.type = "play_card" /\ j = i)
        <5>1. spent'[j] = spent[j]
          BY <1>3, <2>1, <4>3
        <5> QED
          BY <4>1, <4>3, <5>1
      <4> QED
        BY <4>2, <4>3
    <3> HIDE DEF used
    <3> QED
      BY <3>1, <3>2, <3>3 DEF Held
  <2> QED
    BY <2>4 DEF CardsConserved
<1> QED
  BY <1>2, <1>3

\* Every step keeps the books.
LEMMA ConservedNext == ConservedInv /\ [Next]_vars => ConservedInv'
<1> SUFFICES ASSUME ConservedInv, [Next]_vars
             PROVE  ConservedInv'
  OBVIOUS
<1>1. BattleInv /\ CardsConserved /\ BattleInv'
  BY NextInv DEF ConservedInv
<1>2. ASSUME NEW i \in Callers, NEW c \in CardID, PlayCard(i, c)
      PROVE  CardsConserved'
  <2> DEFINE a == Act("play_card", c, 0, 0)
  <2>1. a \in Action /\ a.type = "play_card" /\ a.card = c
    BY DEF Act, Action
  <2>2. Call(i, a) /\ spent' = IF reply' = "ok" THEN [spent EXCEPT ![i] = Append(spent[i], c)]
                               ELSE spent
    BY <1>2 DEF PlayCard
  <2> HIDE DEF a
  <2> QED
    BY <2>1, <2>2, ConservedCall
<1>3. ASSUME NEW i \in Callers, NEW id \in Ids(battle),
             NEW target \in Ids(battle) \cup {Face}, Attack(i, id, target)
      PROVE  CardsConserved'
  <2> DEFINE a == Act("attack", NoCard, id, target)
  <2>1. a \in Action /\ a.type = "attack"
    BY <1>1, IdsAreNat, NoCardIsCard DEF Act, Action
  <2>2. Call(i, a) /\ spent' = spent
    BY <1>3 DEF Attack
  <2> HIDE DEF a
  <2> QED
    BY <2>1, <2>2, ConservedCall
<1>4. ASSUME NEW i \in Callers, EndTurn(i) \/ UnknownAction(i)
      PROVE  CardsConserved'
  <2>1. PICK a \in Action : Call(i, a) /\ a.type # "play_card"
    <3>1. \A t \in {"end_turn", "unknown"} :
             Act(t, NoCard, 0, 0) \in Action /\ Act(t, NoCard, 0, 0).type = t
      BY NoCardIsCard DEF Act, Action
    <3> QED
      BY <1>4, <3>1 DEF EndTurn, UnknownAction
  <2>2. spent' = spent
    BY <1>4 DEF EndTurn, UnknownAction
  <2> QED
    BY <2>1, <2>2, ConservedCall
<1>5. ASSUME UNCHANGED vars
      PROVE  CardsConserved'
  BY <1>1, <1>5 DEF vars, CardsConserved
<1>6. CardsConserved'
  BY <1>2, <1>3, <1>4, <1>5 DEF Next
<1> QED
  BY <1>1, <1>6 DEF ConservedInv

\* Draw, playCard and the deal move cards and never make or lose one, whatever
\* the decks are and in whatever order they are played.
THEOREM CardsStay == Spec => []CardsConserved
<1>1. ConservedInv => CardsConserved
  BY DEF ConservedInv
<1> QED
  BY <1>1, ConservedInit, ConservedNext, PTL DEF Spec

-----------------------------------------------------------------------------
(***************************************************************************)
(* A turn uses up what its player has.                                     *)
(***************************************************************************)
Ready(b) == {m \in b : m.canAttack}

\* Which step uses up what: a card of the hand, or the attack of a minion.
LEMMA CardIsUsed ==
    ASSUME NEW s, NEW played, GoodState(s, played), NEW t, NEW c,
           CardPlayed(s, t, s.turn, c)
    PROVE  t.round = s.round /\ Budget(t) < Budget(s)
<1> DEFINE p == s.players[s.turn]
           q == t.players[s.turn]
<1>1. /\ s.turn \in Seats /\ p \in Player /\ IsFiniteSet(p.board)
      /\ t.turn = s.turn /\ t.round = s.round /\ t \in State
      /\ Len(q.hand) = Len(p.hand) - 1 /\ q.board = p.board \cup {NewMinion(s, c)}
  BY DEF GoodState, State, CardPlayed
<1>2. NewMinion(s, c).canAttack = FALSE
  BY DEF NewMinion
<1>3. Ready(q.board) = Ready(p.board)
  BY <1>1, <1>2 DEF Ready
<1>4. Cardinality(Ready(p.board)) \in Nat
  BY <1>1, FS_Subset, FS_CardinalityType DEF Ready
<1>5. Len(p.hand) \in Nat
  BY <1>1 DEF Player
<1>6. /\ Budget(s) = Len(p.hand) + Cardinality(Ready(p.board))
      /\ Budget(t) = Len(q.hand) + Cardinality(Ready(q.board))
  BY <1>1 DEF Budget, Ready
<1> HIDE DEF p, q
<1> QED
  BY <1>1, <1>3, <1>4, <1>5, <1>6

LEMMA AttackIsUsed ==
    ASSUME NEW s, NEW played \in [Seats -> Nat], GoodState(s, played), ~s.over,
           NEW t, NEW id, Attacked(s, t, s.turn, id)
    PROVE  t.round = s.round /\ Budget(t) < Budget(s)
<1> DEFINE p == s.players[s.turn]
           q == t.players[s.turn]
<1>1. /\ s.turn \in Seats /\ p \in Player /\ IsFiniteSet(p.board)
  BY DEF GoodState, State
<1>2. /\ t.turn = s.turn /\ t.round = s.round
      /\ \A m \in q.board : m.canAttack => m \in p.board /\ m.inst # id
  BY <1>1, AttackSound
<1>3. PICK x \in p.board : x.inst = id /\ x.canAttack
  BY DEF Attacked
<1>4. q.hand = p.hand
  <2>1. PICK u : Struck(s, u, s.turn, id) /\ t = checkOver(u)
    BY DEF Attacked
  <2>2. t.players = u.players /\ u.players[s.turn].hand = p.hand
    BY <1>1, <2>1, CheckOverFields DEF Struck, SameBooks
  <2> QED
    BY <2>2
<1>5. /\ Ready(q.board) \subseteq Ready(p.board)
      /\ x \in Ready(p.board) /\ x \notin Ready(q.board)
  BY <1>2, <1>3 DEF Ready
<1>6. /\ IsFiniteSet(Ready(p.board)) /\ Cardinality(Ready(p.board)) \in Nat
  BY <1>1, FS_Subset, FS_CardinalityType DEF Ready
<1>7. /\ Cardinality(Ready(q.board)) \in Nat
      /\ Cardinality(Ready(q.board)) < Cardinality(Ready(p.board))
  <2>1. /\ IsFiniteSet(Ready(q.board))
        /\ Cardinality(Ready(q.board)) <= Cardinality(Ready(p.board))
        /\ Cardinality(Ready(p.board)) # Cardinality(Ready(q.board))
    BY <1>5, <1>6, FS_Subset
  <2>2. Cardinality(Ready(q.board)) \in Nat
    BY <2>1, FS_CardinalityType
  <2> QED
    BY <1>6, <2>1, <2>2
<1>8. Len(p.hand) \in Nat
  BY <1>1 DEF Player
<1>9. /\ Budget(s) = Len(p.hand) + Cardinality(Ready(p.board))
      /\ Budget(t) = Len(q.hand) + Cardinality(Ready(q.board))
  BY <1>2 DEF Budget, Ready
<1> HIDE DEF p, q
<1> QED
  BY <1>2, <1>4, <1>6, <1>7, <1>8, <1>9

\* Apply leaves the turn to the player only when it has cost him something: a
\* ply cannot go on for ever on accepted calls, in a game with any cards.
THEOREM TurnsRunOut == Spec => TurnProgress
<1> DEFINE P == \/ battle' = battle
                \/ battle'.round = battle.round + 1
                \/ battle'.round = battle.round /\ Budget(battle') < Budget(battle)
<1>1. ASSUME BattleInv, NEW i \in Callers, NEW a \in Action, Call(i, a)
      PROVE  P
  <2>1. /\ CardsPlayed \in [Seats -> Nat]
        /\ reply' # "ok" => battle' = battle
        /\ reply' = "ok" =>
              /\ ~battle.over /\ i = battle.turn /\ i \in Seats
              /\ a.type = "play_card" => CardPlayed(battle, battle', i, a.card)
              /\ a.type = "attack" => Attacked(battle, battle', i, a.inst)
              /\ a.type = "end_turn" => battle' = endTurn(battle, i).st
              /\ a.type # "unknown"
    BY <1>1, CallOutcome
  <2>2. GoodState(battle, CardsPlayed) /\ battle \in State
    BY <1>1 DEF BattleInv, GoodState
  <2>3. a.type \in {"play_card", "attack", "end_turn", "unknown"}
    BY DEF Action
  <2> HIDE DEF P
  <2>4. CASE reply' # "ok"
    BY <2>1, <2>4 DEF P
  <2>5. CASE reply' = "ok" /\ a.type = "play_card"
    <3>1. CardPlayed(battle, battle', battle.turn, a.card)
      BY <2>1, <2>5
    <3> QED
      BY <2>2, <3>1, CardIsUsed DEF P
  <2>6. CASE reply' = "ok" /\ a.type = "attack"
    <3>1. Attacked(battle, battle', battle.turn, a.inst) /\ ~battle.over
      BY <2>1, <2>6
    <3> QED
      BY <2>1, <2>2, <3>1, AttackIsUsed DEF P
  <2>7. CASE reply' = "ok" /\ a.type = "end_turn"
    <3> DEFINE t == [battle EXCEPT !.turn = Other(i), !.round = battle.round + 1]
    <3>1. battle' = beginTurn(t, Other(i)) /\ Other(i) \in Seats /\ battle.round + 1 \in Nat
      BY <2>1, <2>2, <2>7 DEF endTurn, Accept, Seats, Other, State
    <3>2. t \in State /\ t.round = battle.round + 1
      BY <2>2, <3>1 DEF State
    <3> HIDE DEF t
    <3>3. battle'.round = battle.round + 1
      BY <3>1, <3>2, BeginTurnFields
    <3> QED
      BY <3>3 DEF P
  <2> QED
    BY <2>1, <2>3, <2>4, <2>5, <2>6, <2>7
<1>2. ASSUME BattleInv, Next
      PROVE  P
  <2> HIDE DEF P
  <2>1. ASSUME NEW i \in Callers, NEW c \in CardID, PlayCard(i, c)
        PROVE  P
    BY <1>1, <1>2, <2>1 DEF PlayCard, Act, Action
  <2>2. ASSUME NEW i \in Callers, NEW id \in Nat, NEW target \in Nat,
               Attack(i, id, target)
        PROVE  P
    <3> DEFINE a == Act("attack", NoCard, id, target)
    <3>1. a \in Action /\ Call(i, a)
      BY <2>2, NoCardIsCard DEF Attack, Act, Action
    <3> HIDE DEF a
    <3> QED
      BY <1>1, <1>2, <3>1
  <2>3. ASSUME NEW i \in Callers, EndTurn(i)
        PROVE  P
    <3> DEFINE a == Act("end_turn", NoCard, 0, 0)
    <3>1. a \in Action /\ Call(i, a)
      BY <2>3, NoCardIsCard DEF EndTurn, Act, Action
    <3> HIDE DEF a
    <3> QED
      BY <1>1, <1>2, <3>1
  <2>4. ASSUME NEW i \in Callers, UnknownAction(i)
        PROVE  P
    BY <1>1, <1>2, <2>4, NoCardIsCard DEF UnknownAction, Act, Action
  <2> QED
    BY <1>2, <2>1, <2>2, <2>3, <2>4, IdsAreNat DEF Next
<1>3. BattleInv /\ [Next]_vars =>
        [battle' # battle =>
          \/ battle'.round = battle.round + 1
          \/ battle'.round = battle.round /\ Budget(battle') < Budget(battle)]_vars
  BY <1>2
<1> QED
  BY <1>3, BattleInvariant, PTL DEF Spec, TurnProgress

-----------------------------------------------------------------------------
(***************************************************************************)
(* The robot's choices.                                                    *)
(***************************************************************************)
\* indexOfString finds a string that is there.
LEMMA IndexFound ==
    ASSUME NEW S, NEW xs \in Seq(S), NEW x, NEW k \in DOMAIN xs, xs[k] = x
    PROVE  indexOfString(xs, x) # 0
<1> DEFINE T == {j \in 1 .. Len(xs) : xs[j] = x}
           R == OpToRel(<, Nat)
<1>1. T # {} /\ indexOfString(xs, x) = Min(T)
  BY DEF indexOfString, SelectInSeq
<1>2. T \subseteq Nat /\ 0 \notin T
  OBVIOUS
<1>3. PICK n \in T : \A j \in T : ~(<<j, n>> \in R)
  BY <1>1, <1>2, NatLessThanWellFounded, WFMin
<1>4. \A j \in T : n <= j
  <2> TAKE j \in T
  <2>1. n \in Nat /\ j \in Nat
    BY <1>2
  <2>2. ~(j < n)
    BY <1>3, <2>1 DEF OpToRel
  <2> QED
    BY <2>1, <2>2
<1>5. Min(T) \in T
  BY <1>4 DEF Min
<1> QED
  BY <1>1, <1>2, <1>5

\* What the robot sees of itself and of the other board is what is there.
LEMMA ViewIsTrue ==
    ASSUME NEW s, NEW i
    PROVE  LET v == ViewFor(s, i)
               p == s.players[i]
           IN  /\ v.me.board = p.board /\ v.me.hand = p.hand /\ v.me.mana = p.mana
               /\ v.opp.board = s.players[Other(i)].board
BY DEF ViewFor, toView

\* A card that the robot may play is accepted.
LEMMA PlaysAccepted ==
    ASSUME BattleInv, ~battle.over, NEW a \in Plays(ViewFor(battle, battle.turn))
    PROVE  Apply(battle, battle.turn, a).err = "ok"
<1> DEFINE i == battle.turn
           p == battle.players[i]
<1>1. battle \in State /\ i \in Seats /\ p \in Player /\ p.hand \in Seq(CardID)
      /\ p.mana \in Int /\ IsFiniteSet(p.board)
  BY DEF BattleInv, TypeOK, State, Player, GoodState
<1>2. PICK c \in DOMAIN Catalog :
         /\ a = Act("play_card", c, 0, 0)
         /\ Cardinality(p.board) < BoardLimit
         /\ \E k \in DOMAIN p.hand : p.hand[k] = c
         /\ Catalog[c].type = "minion" /\ Catalog[c].cost <= p.mana
  BY ViewIsTrue DEF Plays
<1>3. indexOfString(p.hand, c) # 0
  BY <1>1, <1>2, IndexFound
<1>4. ~(p.mana < Catalog[c].cost)
  <2>1. Catalog[c].cost \in Nat
    BY CatalogLoaded DEF Card
  <2> QED
    BY <1>1, <1>2, <2>1
<1>5. ~(Cardinality(p.board) >= BoardLimit)
  BY <1>1, <1>2, FS_CardinalityType, RulesConstants
<1>6. Summon(battle, i, c).err = "ok"
  BY <1>2, <1>5 DEF Summon, Known, Accept
<1>7. playCard(battle, i, c).err = "ok"
  BY <1>2, <1>3, <1>4, <1>6 DEF playCard, Known, Accept
<1>8. Apply(battle, i, a) = playCard(battle, i, c)
  BY <1>1, <1>2 DEF Apply, Act
<1> QED
  BY <1>7, <1>8

\* An attack that the robot may make is accepted.
LEMMA AttacksAccepted ==
    ASSUME BattleInv, ~battle.over, NEW a \in Attacks(ViewFor(battle, battle.turn))
    PROVE  Apply(battle, battle.turn, a).err = "ok"
<1> DEFINE i == battle.turn
           me == battle.players[i]
           opp == battle.players[Other(i)]
<1>1. battle \in State /\ i \in Seats /\ Other(i) \in Seats /\ i # Other(i)
  BY DEF BattleInv, TypeOK, State, Seats, Other
<1>2. PICK m \in me.board, target \in {Face} \cup {o.inst : o \in opp.board} :
         /\ a = Act("attack", NoCard, m.inst, target)
         /\ m.canAttack /\ m.atk > 0
  <2>1. ViewFor(battle, i).me.board = me.board /\ ViewFor(battle, i).opp.board = opp.board
    BY ViewIsTrue
  <2> DEFINE ready == {m \in me.board : m.canAttack /\ m.atk > 0}
             targets == {Face} \cup {o.inst : o \in opp.board}
  <2>2. PICK x \in ready \X targets : a = Act("attack", NoCard, x[1].inst, x[2])
    BY <2>1 DEF Attacks
  <2>3. x[1] \in ready /\ x[2] \in targets
    BY <2>2
  <2> QED
    BY <2>2, <2>3
<1>3. /\ GoodBoard(me.board, battle.nextInstID) /\ GoodBoard(opp.board, battle.nextInstID)
      /\ InstIDs(me.board) \cap InstIDs(opp.board) = {}
  <2>1. /\ \A k \in Seats : GoodBoard(battle.players[k].board, battle.nextInstID)
        /\ InstIDs(battle.players[0].board) \cap InstIDs(battle.players[1].board) = {}
    BY BoardsSplit DEF BattleInv
  <2> QED
    BY <1>1, <2>1 DEF Seats, Other
<1>4. /\ \A n \in me.board : n.inst = m.inst => n = m
      /\ m.atk \in Nat
  BY <1>2, <1>3 DEF GoodBoard, Minion
<1>5. OnBoard(me, m.inst) /\ findMinion(me, m.inst) = m
  BY <1>2, <1>4 DEF OnBoard, findMinion
<1>6. target = Face \/ (~OnBoard(me, target) /\ OnBoard(opp, target))
  BY <1>2, <1>3 DEF OnBoard, InstIDs
<1>7. attack(battle, i, m.inst, target).err = "ok"
  <2>1. ~(~m.canAttack \/ m.atk = 0)
    BY <1>2, <1>4
  <2> QED
    BY <1>5, <1>6, <2>1 DEF attack, Accept
<1>8. Apply(battle, i, a) = attack(battle, i, m.inst, target)
  BY <1>1, <1>2 DEF Apply, Act
<1> QED
  BY <1>7, <1>8

\* chooseAction, "pick a legal action": in every reachable state of every game
\* Apply accepts whatever the robot may draw.
THEOREM RobotIsLegal == Spec => []MovesLegal
<1>1. ASSUME BattleInv, ~battle.over, NEW a \in Candidates(ViewFor(battle, battle.turn))
      PROVE  Apply(battle, battle.turn, a).err = "ok"
  <2>1. CASE a \in Plays(ViewFor(battle, battle.turn))
    BY <1>1, <2>1, PlaysAccepted
  <2>2. CASE a \in Attacks(ViewFor(battle, battle.turn))
    BY <1>1, <2>2, AttacksAccepted
  <2>3. CASE a = Act("end_turn", NoCard, 0, 0)
    <3>1. battle.turn \in Seats
      BY <1>1 DEF BattleInv, TypeOK, State
    <3> QED
      BY <1>1, <2>3, <3>1 DEF Apply, Act, endTurn, Accept
  <2> QED
    BY <2>1, <2>2, <2>3 DEF Candidates
<1>2. BattleInv => MovesLegal
  BY <1>1 DEF MovesLegal
<1> QED
  BY <1>2, BattleInvariant, PTL

=============================================================================
