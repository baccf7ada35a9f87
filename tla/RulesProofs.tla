---------------------------- MODULE RulesProofs ----------------------------
(***************************************************************************)
(* Facts about the operators of BattleRules, for every card table, every   *)
(* board limit and every number of hit points.  They end in ApplySound:    *)
(* whatever is asked of a sound State, Apply leaves a sound State behind.  *)
(***************************************************************************)
EXTENDS BattleRules, TLAPS, FiniteSetTheorems, SequenceTheorems, WellFoundedInduction

\* A State in which the rules can be trusted.  The boards are finite sets.
GoodState(s, played) ==
    /\ s \in State
    /\ \A i \in Seats : IsFiniteSet(s.players[i].board)
    /\ OneWinner(s)
    /\ SoundBoards(s, played)
    /\ SoundTurns(s, played)

-----------------------------------------------------------------------------
(***************************************************************************)
(* One player.                                                             *)
(***************************************************************************)
\* Draw keeps the type and moves one card, or does nothing on an empty deck.
LEMMA DrawMoves ==
    ASSUME NEW p \in Player
    PROVE  /\ Draw(p) \in Player
           /\ p.deck = <<>> => Draw(p) = p
           /\ p.deck # <<>> => Len(Draw(p).hand) = Len(p.hand) + 1
           /\ Draw(p).hp = p.hp /\ Draw(p).mana = p.mana
           /\ Draw(p).maxMana = p.maxMana /\ Draw(p).board = p.board
           /\ Draw(p).fatigue = p.fatigue
<1>1. CASE p.deck = <<>>
  BY <1>1 DEF Draw
<1>2. CASE p.deck # <<>>
  <2>1. Head(p.deck) \in CardID /\ Tail(p.deck) \in Seq(CardID)
    BY <1>2 DEF Player
  <2>2. /\ Append(p.hand, Head(p.deck)) \in Seq(CardID)
        /\ Len(Append(p.hand, Head(p.deck))) = Len(p.hand) + 1
    BY <2>1 DEF Player
  <2> QED
    BY <1>2, <2>1, <2>2 DEF Draw, Player
<1> QED
  BY <1>1, <1>2

\* Refresh is beginTurn seen by its player: every field of the outcome.
LEMMA RefreshFields ==
    ASSUME NEW p \in Player
    PROVE  LET q == Refresh(p)
               cap == IF p.maxMana < MaxMana THEN p.maxMana + 1 ELSE p.maxMana
           IN  /\ q \in Player
               /\ q.maxMana = cap /\ q.mana = cap
               /\ q.board = {[m EXCEPT !.canAttack = TRUE] : m \in p.board}
               /\ p.deck # <<>> => /\ Len(q.hand) = Len(p.hand) + 1
                                   /\ q.fatigue = p.fatigue
                                   /\ q.hp = p.hp
               /\ p.deck = <<>> => /\ q.hand = p.hand /\ q.deck = <<>>
                                   /\ q.fatigue = p.fatigue + 1
                                   /\ q.hp = p.hp - (p.fatigue + 1)
<1> DEFINE cap == IF p.maxMana < MaxMana THEN p.maxMana + 1 ELSE p.maxMana
           b == {[m EXCEPT !.canAttack = TRUE] : m \in p.board}
           r == [p EXCEPT !.maxMana = cap, !.mana = cap]
           q == Draw(r)
<1>1. cap \in Nat
  BY RulesConstants DEF Player
<1>2. b \in SUBSET Minion
  BY DEF Player, Minion
<1> HIDE DEF b, cap
<1>3. r \in Player /\ r.deck = p.deck /\ r.hand = p.hand /\ r.hp = p.hp
      /\ r.fatigue = p.fatigue /\ r.maxMana = cap /\ r.mana = cap
  <2>1. cap \in Int
    BY <1>1
  <2>2. r \in Player
    BY <1>1, <2>1 DEF Player
  <2> QED
    BY <2>2 DEF Player
<1>4. /\ q \in Player /\ q.maxMana = cap /\ q.mana = cap
      /\ q.hp = p.hp /\ q.fatigue = p.fatigue
      /\ p.deck = <<>> => q = r
      /\ p.deck # <<>> => Len(q.hand) = Len(p.hand) + 1
  BY <1>3, DrawMoves
<1> HIDE DEF q, r
<1>5. CASE p.deck # <<>>
  <2>1. Refresh(p) = [q EXCEPT !.board = b]
    BY <1>5 DEF Refresh, q, r, b, cap
  <2> QED
    BY <1>1, <1>2, <1>4, <1>5, <2>1 DEF Player, b, cap
<1>6. CASE p.deck = <<>>
  <2>1. Refresh(p) = [[q EXCEPT !.fatigue = p.fatigue + 1,
                                !.hp = p.hp - (p.fatigue + 1)] EXCEPT !.board = b]
    BY <1>6 DEF Refresh, q, r, b, cap
  <2>2. p.fatigue + 1 \in Nat /\ p.hp - (p.fatigue + 1) \in Int
    BY DEF Player
  <2>3. q.hand = p.hand /\ q.deck = <<>>
    BY <1>3, <1>4, <1>6
  <2> QED
    BY <1>1, <1>2, <1>4, <1>6, <2>1, <2>2, <2>3 DEF Player, b, cap
<1> QED
  BY <1>5, <1>6

-----------------------------------------------------------------------------
(***************************************************************************)
(* checkOver and beginTurn.                                                *)
(***************************************************************************)
\* checkOver decides the verdict and nothing else.
LEMMA CheckOverFields ==
    ASSUME NEW s \in State
    PROVE  /\ checkOver(s) \in State
           /\ checkOver(s).players = s.players /\ checkOver(s).turn = s.turn
           /\ checkOver(s).round = s.round
           /\ checkOver(s).nextInstID = s.nextInstID
<1> DEFINE dead == {i \in Seats : s.players[i].hp <= 0}
           w == IF dead = Seats THEN Nobody ELSE CHOOSE i \in Seats : i \notin dead
<1>1. CASE s.over \/ dead = {}
  BY <1>1 DEF checkOver
<1>2. CASE ~(s.over \/ dead = {})
  <2>1. w \in Seats \cup {Nobody}
    <3>1. CASE dead = Seats
      BY <3>1
    <3>2. CASE dead # Seats
      <4>1. \E i \in Seats : i \notin dead
        BY <3>2
      <4> QED
        BY <3>2, <4>1
    <3> QED
      BY <3>1, <3>2
  <2>2. checkOver(s) = [s EXCEPT !.over = TRUE, !.winner = w]
    BY <1>2 DEF checkOver
  <2> HIDE DEF w
  <2> QED
    BY <2>1, <2>2 DEF State
<1> QED
  BY <1>1, <1>2

\* As long as somebody is alive, checkOver names the right winner.
LEMMA CheckOverVerdict ==
    ASSUME NEW s \in State, ~s.over, s.winner = Nobody,
           NEW k \in Seats, s.players[k].hp > 0
    PROVE  OneWinner(checkOver(s))
<1> DEFINE dead == {i \in Seats : s.players[i].hp <= 0}
           w == IF dead = Seats THEN Nobody ELSE CHOOSE i \in Seats : i \notin dead
           t == checkOver(s)
<1>0. \A i \in Seats : s.players[i].hp \in Int
  BY DEF State, Player
<1>1. k \notin dead
  BY <1>0
<1>2. CASE dead = {}
  BY <1>2 DEF checkOver, OneWinner
<1>3. CASE dead # {}
  <2>1. dead = {Other(k)}
    BY <1>1, <1>3 DEF Seats, Other
  <2>2. (CHOOSE i \in Seats : i \notin dead) = k
    BY <2>1 DEF Seats, Other
  <2>3. w = k
    BY <1>1, <2>2
  <2>4. t = [s EXCEPT !.over = TRUE, !.winner = k]
    BY <1>3, <2>3 DEF checkOver
  <2>5. t.over = TRUE /\ t.winner = k /\ t.players = s.players
    BY <2>4 DEF State
  <2>6. {i \in Seats : t.players[i].hp <= 0} = {Other(t.winner)}
    BY <2>1, <2>5
  <2> QED
    BY <2>5, <2>6 DEF OneWinner
<1> QED
  BY <1>2, <1>3

\* beginTurn changes its player by Refresh and nothing else of the players.
LEMMA BeginTurnFields ==
    ASSUME NEW s \in State, NEW i \in Seats
    PROVE  /\ beginTurn(s, i) \in State
           /\ beginTurn(s, i).players[i] = Refresh(s.players[i])
           /\ beginTurn(s, i).players[Other(i)] = s.players[Other(i)]
           /\ beginTurn(s, i).turn = s.turn /\ beginTurn(s, i).round = s.round
           /\ beginTurn(s, i).nextInstID = s.nextInstID
<1> DEFINE q == Refresh(s.players[i])
           t == [s EXCEPT !.players[i] = q]
<1>1. s.players[i] \in Player
  BY DEF State
<1>2. q \in Player
  BY <1>1, RefreshFields
<1> HIDE DEF q
<1>3. /\ t \in State /\ t.players[i] = q
      /\ t.players[Other(i)] = s.players[Other(i)]
      /\ t.turn = s.turn /\ t.round = s.round /\ t.nextInstID = s.nextInstID
  BY <1>2 DEF State, Seats, Other
<1>4. beginTurn(s, i) = t \/ beginTurn(s, i) = checkOver(t)
  BY DEF beginTurn, q
<1> HIDE DEF t
<1> QED
  BY <1>3, <1>4, CheckOverFields DEF q

\* Fatigue hurts only the player who begins, so it kills at most him.
LEMMA BeginTurnVerdict ==
    ASSUME NEW s \in State, NEW i \in Seats, OneWinner(s), ~s.over
    PROVE  OneWinner(beginTurn(s, i))
<1> DEFINE q == Refresh(s.players[i])
           t == [s EXCEPT !.players[i] = q]
<1>1. s.players[i] \in Player
  BY DEF State
<1>2. q \in Player /\ (s.players[i].deck # <<>> => q.hp = s.players[i].hp)
  BY <1>1, RefreshFields
<1>3. \A j \in Seats : s.players[j].hp \in Int /\ s.players[j].hp > 0
  <2>1. \A j \in Seats : s.players[j].hp \in Int
    BY DEF State, Player
  <2>2. {j \in Seats : s.players[j].hp <= 0} = {}
    BY DEF OneWinner
  <2> QED
    BY <2>1, <2>2
<1> HIDE DEF q
<1>4. /\ t \in State /\ ~t.over /\ t.winner = Nobody /\ t.players[i] = q
      /\ t.players[Other(i)] = s.players[Other(i)]
  BY <1>2 DEF State, Seats, Other, OneWinner
<1> HIDE DEF t
<1>5. CASE s.players[i].deck = <<>>
  <2>1. beginTurn(s, i) = checkOver(t)
    BY <1>5 DEF beginTurn, q, t
  <2>2. Other(i) \in Seats /\ t.players[Other(i)].hp > 0
    BY <1>3, <1>4 DEF Seats, Other
  <2> QED
    BY <1>4, <2>1, <2>2, CheckOverVerdict
<1>6. CASE s.players[i].deck # <<>>
  <2>1. beginTurn(s, i) = t
    BY <1>6 DEF beginTurn, q, t
  <2>2. \A j \in Seats : t.players[j].hp > 0
    BY <1>2, <1>3, <1>4, <1>6 DEF Seats, Other
  <2>3. \A j \in Seats : t.players[j].hp \in Int
    BY <1>4 DEF State, Player
  <2>4. {j \in Seats : t.players[j].hp <= 0} = {}
    BY <2>2, <2>3
  <2> QED
    BY <1>4, <2>1, <2>4 DEF OneWinner
<1> QED
  BY <1>5, <1>6

-----------------------------------------------------------------------------
(***************************************************************************)
(* Boards.                                                                 *)
(***************************************************************************)
InstIDs(b) == {m.inst : m \in b}

\* A board by itself; the ids of the two boards must be disjoint besides.
GoodBoard(b, lastID) ==
    /\ b \in SUBSET Minion /\ IsFiniteSet(b) /\ Cardinality(b) <= BoardLimit
    /\ \A m \in b : SoundMinion(m, lastID)
    /\ \A m, n \in b : m.inst = n.inst => m = n

\* SoundBoards, from both boards and what relates them.
LEMMA BoardsJoin ==
    ASSUME NEW s \in State, NEW played,
           \A i \in Seats : GoodBoard(s.players[i].board, s.nextInstID),
           InstIDs(s.players[0].board) \cap InstIDs(s.players[1].board) = {},
           s.nextInstID = played[0] + played[1]
    PROVE  /\ SoundBoards(s, played)
           /\ \A i \in Seats : IsFiniteSet(s.players[i].board)
<1>1. ASSUME NEW i \in Seats, NEW j \in Seats,
             NEW m \in s.players[i].board, NEW n \in s.players[j].board,
             m.inst = n.inst
      PROVE  i = j /\ m = n
  <2>1. m.inst \in InstIDs(s.players[i].board)
    BY DEF InstIDs
  <2>2. m.inst \in InstIDs(s.players[j].board)
    BY <1>1 DEF InstIDs
  <2>3. i = j
    BY <2>1, <2>2 DEF Seats
  <2> QED
    BY <1>1, <2>3 DEF GoodBoard
<1> QED
  BY <1>1 DEF SoundBoards, GoodBoard

\* The parts of SoundBoards back from the whole.
LEMMA BoardsSplit ==
    ASSUME NEW s, NEW played, GoodState(s, played)
    PROVE  /\ \A i \in Seats : GoodBoard(s.players[i].board, s.nextInstID)
           /\ InstIDs(s.players[0].board) \cap InstIDs(s.players[1].board) = {}
           /\ s.nextInstID = played[0] + played[1]
<1>1. ASSUME NEW i \in Seats
      PROVE  GoodBoard(s.players[i].board, s.nextInstID)
  <2>1. s.players[i].board \in SUBSET Minion
    BY DEF GoodState, State, Player
  <2> QED
    BY <2>1 DEF GoodState, SoundBoards, GoodBoard
<1>2. InstIDs(s.players[0].board) \cap InstIDs(s.players[1].board) = {}
  <2>1. SUFFICES ASSUME NEW m \in s.players[0].board, NEW n \in s.players[1].board,
                        m.inst = n.inst
                 PROVE  FALSE
    BY DEF InstIDs
  <2> QED
    BY <2>1 DEF GoodState, SoundBoards, Seats
<1> QED
  BY <1>1, <1>2 DEF GoodState, SoundBoards

\* Letting every minion attack again disturbs nothing else on a board.
LEMMA RefreshBoard ==
    ASSUME NEW b, NEW lastID, GoodBoard(b, lastID)
    PROVE  LET c == {[m EXCEPT !.canAttack = TRUE] : m \in b}
           IN  GoodBoard(c, lastID) /\ InstIDs(c) = InstIDs(b)
<1> DEFINE up(m) == [m EXCEPT !.canAttack = TRUE]
           c == {up(m) : m \in b}
           f == [m \in b |-> up(m)]
<1>1. \A m \in b : /\ up(m) \in Minion /\ up(m).inst = m.inst
                   /\ up(m).hp = m.hp /\ up(m).maxHP = m.maxHP
  BY DEF GoodBoard, Minion
<1> HIDE DEF up
<1>2. f \in Surjection(b, c)
  BY DEF Surjection
<1>3. IsFiniteSet(b) /\ Cardinality(b) <= BoardLimit
  BY DEF GoodBoard
<1>4. IsFiniteSet(c) /\ Cardinality(c) <= Cardinality(b)
  BY <1>2, <1>3, FS_Surjection
<1>5. Cardinality(c) <= BoardLimit
  BY <1>3, <1>4, FS_CardinalityType, RulesConstants
<1>6. InstIDs(c) = InstIDs(b)
  BY <1>1 DEF InstIDs
<1>7. \A n \in c : SoundMinion(n, lastID)
  BY <1>1 DEF GoodBoard, SoundMinion
<1>8. \A m, n \in c : m.inst = n.inst => m = n
  BY <1>1 DEF GoodBoard
<1>9. GoodBoard(c, lastID)
  BY <1>1, <1>4, <1>5, <1>7, <1>8 DEF GoodBoard
<1> QED
  BY <1>6, <1>9 DEF up

\* Ply arithmetic: when seat i ends a ply, the other one begins a turn.
LEMMA PlyArithmetic ==
    ASSUME NEW r \in Nat, NEW i \in Seats, i = (r + 1) % 2
    PROVE  /\ Other(i) = (r + 1 + 1) % 2
           /\ (r + 1 + 1 - Other(i)) \div 2 = (r + 1 - Other(i)) \div 2 + 1
           /\ (r + 1 + 1 - i) \div 2 = (r + 1 - i) \div 2
<1>1. CASE i = 0
  BY <1>1 DEF Other, Seats
<1>2. CASE i = 1
  BY <1>2 DEF Other, Seats
<1> QED
  BY <1>1, <1>2 DEF Seats

\* The books of a player stay right when he begins one more turn.
LEMMA RefreshSound ==
    ASSUME NEW p \in Player, NEW begun \in Nat, NEW n \in Nat,
           SoundPlayer(p, begun, n)
    PROVE  SoundPlayer(Refresh(p), begun + 1, n)
<1> DEFINE q == Refresh(p)
<1>1. /\ q \in Player
      /\ q.maxMana = IF p.maxMana < MaxMana THEN p.maxMana + 1 ELSE p.maxMana
      /\ q.mana = q.maxMana
      /\ p.deck # <<>> => /\ Len(q.hand) = Len(p.hand) + 1
                          /\ q.fatigue = p.fatigue /\ q.hp = p.hp
      /\ p.deck = <<>> => /\ q.hand = p.hand /\ q.deck = <<>>
                          /\ q.fatigue = p.fatigue + 1
                          /\ q.hp = p.hp - (p.fatigue + 1)
  BY RefreshFields
<1> HIDE DEF q
<1>2. /\ Len(p.hand) \in Nat /\ p.fatigue \in Nat /\ p.hp \in Int
      /\ p.maxMana \in Nat
  BY DEF Player
<1>3. q.maxMana = IF begun + 1 < MaxMana THEN begun + 1 ELSE MaxMana
  BY <1>1, <1>2, RulesConstants DEF SoundPlayer
<1>4. 0 <= q.mana /\ q.mana <= q.maxMana
  BY <1>1, <1>2, RulesConstants
<1>5. CASE p.deck # <<>>
  <2>1. p.fatigue = 0
    <3>1. ~(p.fatigue > 0)
      BY <1>5 DEF SoundPlayer
    <3> QED
      BY <1>2, <3>1
  <2>2. HandStart + (begun + 1) = Len(q.hand) + n + q.fatigue
    <3>1. HandStart + begun = Len(p.hand) + n + p.fatigue
      BY DEF SoundPlayer
    <3>2. Len(q.hand) = Len(p.hand) + 1 /\ q.fatigue = p.fatigue
      BY <1>1, <1>5
    <3>3. HandStart \in Nat
      BY RulesConstants
    <3> QED
      BY <1>2, <3>1, <3>2, <3>3, SMTT(60)
  <2> QED
    BY <1>1, <1>3, <1>4, <1>5, <2>1, <2>2 DEF SoundPlayer, q
<1>6. CASE p.deck = <<>>
  <2>1. HandStart + (begun + 1) = Len(q.hand) + n + q.fatigue
    <3>1. HandStart + begun = Len(p.hand) + n + p.fatigue
      BY DEF SoundPlayer
    <3>2. Len(q.hand) = Len(p.hand) /\ q.fatigue = p.fatigue + 1
      BY <1>1, <1>6
    <3>3. HandStart \in Nat
      BY RulesConstants
    <3> QED
      BY <1>2, <3>1, <3>2, <3>3, SMTT(60)
  <2>2. q.hp <= StartHP
    BY <1>1, <1>2, <1>6, RulesConstants, SMTT(60) DEF SoundPlayer
  <2> QED
    BY <1>1, <1>3, <1>4, <1>6, <2>1, <2>2 DEF SoundPlayer, q
<1> QED
  BY <1>5, <1>6

-----------------------------------------------------------------------------
(***************************************************************************)
(* Each action keeps a good State good.                                    *)
(***************************************************************************)
\* What a sound beginning of a turn needs, and gives: used by endTurn and,
\* for the first turn, by NewState.
LEMMA BeginTurnSound ==
    ASSUME NEW s \in State, NEW i \in Seats, NEW played \in [Seats -> Nat],
           OneWinner(s), ~s.over,
           \A k \in Seats : GoodBoard(s.players[k].board, s.nextInstID),
           InstIDs(s.players[0].board) \cap InstIDs(s.players[1].board) = {},
           s.nextInstID = played[0] + played[1],
           s.turn = i, i = (s.round + 1) % 2,
           NEW b \in Nat, TurnsBegun(s, i) = b + 1,
           SoundPlayer(s.players[i], b, played[i]),
           SoundPlayer(s.players[Other(i)], TurnsBegun(s, Other(i)), played[Other(i)])
    PROVE  GoodState(beginTurn(s, i), played)
<1> DEFINE t == beginTurn(s, i)
           o == Other(i)
<1>1. /\ t \in State /\ t.players[i] = Refresh(s.players[i])
      /\ t.players[o] = s.players[o] /\ t.turn = s.turn
      /\ t.round = s.round /\ t.nextInstID = s.nextInstID
  BY BeginTurnFields, SMTT(60)
<1>2. OneWinner(t)
  BY BeginTurnVerdict
<1>3. s.players[i] \in Player
  BY SMTT(60) DEF State
<1> HIDE DEF t
<1>4. /\ GoodBoard(t.players[i].board, t.nextInstID)
      /\ InstIDs(t.players[i].board) = InstIDs(s.players[i].board)
  <2>1. t.players[i].board
          = {[m EXCEPT !.canAttack = TRUE] : m \in s.players[i].board}
    BY <1>1, <1>3, RefreshFields
  <2> DEFINE bd == s.players[i].board
  <2>2. GoodBoard(bd, s.nextInstID)
    OBVIOUS
  <2> HIDE DEF bd
  <2>3. /\ GoodBoard({[m EXCEPT !.canAttack = TRUE] : m \in bd}, s.nextInstID)
        /\ InstIDs({[m EXCEPT !.canAttack = TRUE] : m \in bd}) = InstIDs(bd)
    BY <2>2, RefreshBoard
  <2> QED
    BY <1>1, <2>1, <2>3 DEF bd
<1>5. \A k \in Seats : /\ GoodBoard(t.players[k].board, t.nextInstID)
                       /\ InstIDs(t.players[k].board) = InstIDs(s.players[k].board)
  BY <1>1, <1>4 DEF Seats, Other
<1>6. InstIDs(t.players[0].board) \cap InstIDs(t.players[1].board) = {}
  BY <1>5 DEF Seats
<1>7. SoundBoards(t, played) /\ \A k \in Seats : IsFiniteSet(t.players[k].board)
  BY <1>1, <1>5, <1>6, BoardsJoin
<1>8. SoundPlayer(t.players[i], b + 1, played[i])
  BY <1>1, <1>3, RefreshSound
<1>9. \A k \in Seats : TurnsBegun(t, k) = TurnsBegun(s, k)
  BY <1>1 DEF TurnsBegun
<1>10. SoundTurns(t, played)
  BY <1>1, <1>8, <1>9 DEF SoundTurns, Seats, Other
<1> QED
  BY <1>1, <1>2, <1>7, <1>10 DEF GoodState, t

\* end_turn.
LEMMA EndTurnSound ==
    ASSUME NEW s, NEW played \in [Seats -> Nat], GoodState(s, played),
           ~s.over, NEW i \in Seats, i = s.turn
    PROVE  GoodState(endTurn(s, i).st, played) /\ endTurn(s, i).err = "ok"
<1> DEFINE o == Other(i)
           t == [s EXCEPT !.turn = o, !.round = s.round + 1]
<1>1. s \in State /\ s.round \in Nat /\ o \in Seats
  BY DEF GoodState, State, Seats, Other
<1>2. /\ t \in State /\ t.players = s.players /\ t.turn = o
      /\ t.round = s.round + 1 /\ t.over = s.over /\ t.winner = s.winner
      /\ t.nextInstID = s.nextInstID
  <2>1. s.round + 1 \in Nat
    BY <1>1
  <2> HIDE DEF o
  <2>2. t \in State
    BY <1>1, <2>1 DEF State
  <2> QED
    BY <1>1, <2>2 DEF State
<1>3. endTurn(s, i) = [st |-> beginTurn(t, o), err |-> "ok"]
  BY DEF endTurn, Accept
<1> HIDE DEF t
<1>4. OneWinner(t) /\ ~t.over
  BY <1>2 DEF GoodState, OneWinner
<1>5. /\ i = (s.round + 1) % 2
      /\ \A k \in Seats : SoundPlayer(s.players[k], TurnsBegun(s, k), played[k])
  BY DEF GoodState, SoundTurns
<1>6. /\ o = (t.round + 1) % 2
      /\ TurnsBegun(t, o) = TurnsBegun(s, o) + 1
      /\ TurnsBegun(t, i) = TurnsBegun(s, i)
  BY <1>1, <1>2, <1>5, PlyArithmetic DEF TurnsBegun
<1>7. TurnsBegun(s, o) \in Nat /\ Other(o) = i
  BY <1>1 DEF TurnsBegun, Seats, Other
<1>8. /\ \A k \in Seats : GoodBoard(t.players[k].board, t.nextInstID)
      /\ InstIDs(t.players[0].board) \cap InstIDs(t.players[1].board) = {}
      /\ t.nextInstID = played[0] + played[1]
  BY <1>2, BoardsSplit
<1>9. /\ SoundPlayer(t.players[o], TurnsBegun(s, o), played[o])
      /\ SoundPlayer(t.players[i], TurnsBegun(t, i), played[i])
  BY <1>1, <1>2, <1>5, <1>6
<1> HIDE DEF o
<1>10. GoodState(beginTurn(t, o), played)
  BY <1>1, <1>2, <1>4, <1>6, <1>7, <1>8, <1>9, BeginTurnSound
<1> QED
  BY <1>3, <1>10

\* NewState, whatever order the shuffle left the decks in.
LEMMA NewStateSound ==
    ASSUME NEW deal \in [Seats -> Seq(CardID)],
           \A i \in Seats : Dealable(deal[i])
    PROVE  GoodState(NewState(deal), [i \in Seats |-> 0])
<1> DEFINE s == [players |-> [i \in Seats |-> Deal(deal[i])], turn |-> 0,
                 round |-> 1, over |-> FALSE, winner |-> Nobody, nextInstID |-> 0]
           played == [i \in Seats |-> 0]
<1>0. StartHP \in Nat /\ StartHP > 0 /\ HandStart \in Nat /\ MaxMana \in Nat
      /\ MaxMana > 0 /\ BoardLimit \in Nat
  BY RulesConstants
<1>1. ASSUME NEW i \in Seats
      PROVE  /\ Deal(deal[i]) \in Player
             /\ Deal(deal[i]).hp = StartHP /\ Deal(deal[i]).mana = 0
             /\ Deal(deal[i]).maxMana = 0 /\ Deal(deal[i]).board = {}
             /\ Deal(deal[i]).fatigue = 0 /\ Len(Deal(deal[i]).hand) = HandStart
  <2> DEFINE d == deal[i]
  <2>1. d \in Seq(CardID) /\ Len(d) \in Nat /\ Len(d) > HandStart
    BY DEF Dealable
  <2>2. \A k \in 1 .. Len(d) : d[k] \in CardID
    BY <2>1, ElementOfSeq
  <2> HIDE DEF d
  <2>3. /\ SubSeq(d, 1, HandStart) \in Seq(CardID)
        /\ Len(SubSeq(d, 1, HandStart)) = HandStart
    <3>1. \A k \in 1 .. HandStart : d[k] \in CardID
      BY <1>0, <2>1, <2>2
    <3> QED
      BY <1>0, <3>1, SubSeqProperties
  <2>4. SubSeq(d, HandStart + 1, Len(d)) \in Seq(CardID)
    <3>1. \A k \in HandStart + 1 .. Len(d) : d[k] \in CardID
      BY <1>0, <2>1, <2>2
    <3> QED
      BY <1>0, <2>1, <3>1, SubSeqProperties
  <2> QED
    BY <1>0, <2>3, <2>4 DEF Deal, Player, d
<1>2. s \in State
  BY <1>1 DEF State, Seats, Nobody
<1>3. /\ \A i \in Seats : s.players[i] = Deal(deal[i])
      /\ s.turn = 0 /\ s.round = 1 /\ ~s.over /\ s.winner = Nobody
      /\ s.nextInstID = 0
  OBVIOUS
<1>4. NewState(deal) = beginTurn(s, 0)
  BY DEF NewState
<1> HIDE DEF s
<1>5. OneWinner(s)
  <2>1. \A i \in Seats : s.players[i].hp > 0 /\ s.players[i].hp \in Int
    BY <1>0, <1>1, <1>3
  <2>2. {i \in Seats : s.players[i].hp <= 0} = {}
    BY <2>1
  <2> QED
    BY <1>3, <2>2 DEF OneWinner
<1>6. \A k \in Seats : /\ s.players[k].board = {}
                       /\ GoodBoard(s.players[k].board, s.nextInstID)
  <2>1. \A k \in Seats : s.players[k].board = {}
    BY <1>1, <1>3
  <2>2. {} \in SUBSET Minion /\ IsFiniteSet({}) /\ Cardinality({}) <= BoardLimit
    BY <1>0, FS_EmptySet
  <2>3. GoodBoard({}, s.nextInstID)
    BY <2>2 DEF GoodBoard
  <2> QED
    BY <2>1, <2>3
<1>7. InstIDs(s.players[0].board) \cap InstIDs(s.players[1].board) = {}
  BY <1>6 DEF InstIDs, Seats
<1>8. /\ played \in [Seats -> Nat] /\ s.nextInstID = played[0] + played[1]
      /\ \A i \in Seats : played[i] = 0
  BY <1>3 DEF Seats
<1>9. /\ 0 = (s.round + 1) % 2 /\ TurnsBegun(s, 0) = 0 + 1
      /\ TurnsBegun(s, Other(0)) = 0
  BY <1>3 DEF TurnsBegun, Other
<1>10. \A i \in Seats : SoundPlayer(s.players[i], 0, 0)
  BY <1>0, <1>1, <1>3 DEF SoundPlayer
<1>11. 0 \in Seats /\ Other(0) \in Seats
  BY DEF Seats, Other
<1> HIDE DEF played
<1>12. /\ SoundPlayer(s.players[0], 0, played[0])
       /\ SoundPlayer(s.players[Other(0)], TurnsBegun(s, Other(0)), played[Other(0)])
  BY <1>8, <1>9, <1>10, <1>11
<1>13. 0 \in Nat /\ TurnsBegun(s, 0) = 0 + 1
  BY <1>9
<1>14. /\ \A k \in Seats : GoodBoard(s.players[k].board, s.nextInstID)
       /\ played \in [Seats -> Nat] /\ s.nextInstID = played[0] + played[1]
       /\ s.turn = 0 /\ 0 = (s.round + 1) % 2
  BY <1>3, <1>6, <1>8, <1>9
<1>15. GoodState(beginTurn(s, 0), played)
  BY <1>2, <1>3, <1>5, <1>7, <1>11, <1>12, <1>13, <1>14, BeginTurnSound
<1> QED
  BY <1>4, <1>15 DEF played

\* indexOfString finds a position that holds the string, or none.
LEMMA IndexInRange ==
    ASSUME NEW S, NEW xs \in Seq(S), NEW x, indexOfString(xs, x) # 0
    PROVE  indexOfString(xs, x) \in 1 .. Len(xs) /\ xs[indexOfString(xs, x)] = x
<1> DEFINE T == {k \in 1 .. Len(xs) : xs[k] = x}
           R == OpToRel(<, Nat)
<1>1. T # {} /\ indexOfString(xs, x) = Min(T)
  BY DEF indexOfString, SelectInSeq
<1>2. T \subseteq Nat
  OBVIOUS
<1>3. PICK k \in T : \A j \in T : ~(<<j, k>> \in R)
  BY <1>1, <1>2, NatLessThanWellFounded, WFMin
<1>4. \A j \in T : k <= j
  <2> TAKE j \in T
  <2>1. k \in Nat /\ j \in Nat
    BY <1>2
  <2>2. ~(j < k)
    BY <1>3, <2>1 DEF OpToRel
  <2> QED
    BY <2>1, <2>2
<1>5. Min(T) \in T
  BY <1>4 DEF Min
<1> QED
  BY <1>1, <1>5

\* Taking one card out of a hand.
LEMMA RemoveAtLength ==
    ASSUME NEW S, NEW xs \in Seq(S), NEW k \in 1 .. Len(xs)
    PROVE  RemoveAt(xs, k) \in Seq(S) /\ Len(RemoveAt(xs, k)) = Len(xs) - 1
<1>0. Len(xs) \in Nat /\ k \in Nat /\ 1 <= k /\ k <= Len(xs)
  OBVIOUS
<1>1. \A j \in 1 .. Len(xs) : xs[j] \in S
  BY ElementOfSeq
<1>2. /\ SubSeq(xs, 1, k - 1) \in Seq(S)
      /\ Len(SubSeq(xs, 1, k - 1)) = k - 1
  <2>1. \A j \in 1 .. k - 1 : xs[j] \in S
    BY <1>0, <1>1
  <2> QED
    BY <1>0, <2>1, SubSeqProperties
<1>3. /\ SubSeq(xs, k + 1, Len(xs)) \in Seq(S)
      /\ Len(SubSeq(xs, k + 1, Len(xs))) = Len(xs) - k
  <2>1. \A j \in k + 1 .. Len(xs) : xs[j] \in S
    BY <1>0, <1>1
  <2> QED
    BY <1>0, <2>1, SubSeqProperties
<1> QED
  BY <1>0, <1>2, <1>3, ConcatProperties DEF RemoveAt

\* The minion that Summon puts on the board for card c.
NewMinion(s, c) ==
    [inst |-> s.nextInstID + 1, card |-> c, atk |-> Catalog[c].atk,
     hp |-> Catalog[c].hp, maxHP |-> Catalog[c].hp, canAttack |-> FALSE]

Summoned(s, i, c) ==
    [s EXCEPT !.nextInstID = s.nextInstID + 1,
              !.players[i].board = s.players[i].board \cup {NewMinion(s, c)}]

\* Summon fails without a trace or adds one minion and takes one id.
LEMMA SummonOutcome ==
    ASSUME NEW s \in State, NEW i \in Seats, NEW c
    PROVE  \/ Summon(s, i, c).err # "ok" /\ Summon(s, i, c).st = s
           \/ /\ Summon(s, i, c).err = "ok"
              /\ Known(c) /\ Catalog[c].type = "minion"
              /\ ~(Cardinality(s.players[i].board) >= BoardLimit)
              /\ Summon(s, i, c).st = Summoned(s, i, c)
<1>1. CASE ~Known(c)
  BY <1>1 DEF Summon, fail
<1>2. CASE Known(c) /\ Catalog[c].type # "minion"
  BY <1>2 DEF Summon, fail
<1>3. CASE Known(c) /\ Catalog[c].type = "minion"
           /\ Cardinality(s.players[i].board) >= BoardLimit
  BY <1>3 DEF Summon, fail
<1>4. CASE Known(c) /\ Catalog[c].type = "minion"
           /\ ~(Cardinality(s.players[i].board) >= BoardLimit)
  BY <1>4 DEF Summon, Summoned, Accept, NewMinion
<1> QED
  BY <1>1, <1>2, <1>3, <1>4

\* The State that playing card c leaves behind, field by field.
CardPlayed(s, t, i, c) ==
    /\ t \in State
    /\ t.turn = s.turn /\ t.round = s.round /\ t.over = s.over
    /\ t.winner = s.winner /\ t.nextInstID = s.nextInstID + 1
    /\ t.players[Other(i)] = s.players[Other(i)]
    /\ LET p == s.players[i]
           q == t.players[i]
       IN  /\ q.hp = p.hp /\ q.maxMana = p.maxMana /\ q.deck = p.deck
           /\ q.fatigue = p.fatigue /\ 0 <= q.mana /\ q.mana <= p.mana
           /\ Len(q.hand) = Len(p.hand) - 1
           /\ q.board = p.board \cup {NewMinion(s, c)}
           /\ Cardinality(p.board) < BoardLimit
           /\ NewMinion(s, c) \in Minion /\ NewMinion(s, c).hp > 0

\* playCard fails without a trace or does all of CardPlayed.
LEMMA PlayCardOutcome ==
    ASSUME NEW s \in State, NEW i \in Seats, NEW c \in CardID,
           IsFiniteSet(s.players[i].board)
    PROVE  LET r == playCard(s, i, c)
           IN  \/ r.err # "ok" /\ r.st = s
               \/ r.err = "ok" /\ CardPlayed(s, r.st, i, c)
<1> DEFINE p == s.players[i]
           hi == indexOfString(p.hand, c)
           u == Summon(s, i, c)
           r == playCard(s, i, c)
<1>0. p \in Player /\ p.hand \in Seq(CardID) /\ p.mana \in Int
  BY DEF State, Player
<1>1. CASE hi = 0
  BY <1>1 DEF playCard, fail
<1>2. CASE hi # 0 /\ ~Known(c)
  BY <1>2 DEF playCard, fail
<1>3. CASE hi # 0 /\ Known(c) /\ p.mana < Catalog[c].cost
  BY <1>3 DEF playCard, fail
<1>4. CASE hi # 0 /\ Known(c) /\ ~(p.mana < Catalog[c].cost) /\ u.err # "ok"
  <2>1. r = u
    BY <1>4 DEF playCard
  <2>2. u.st = s
    BY <1>4, SummonOutcome
  <2> QED
    BY <1>4, <2>1, <2>2
<1>5. CASE hi # 0 /\ Known(c) /\ ~(p.mana < Catalog[c].cost) /\ u.err = "ok"
  <2> DEFINE m == NewMinion(s, c)
             b == p.board \cup {m}
             left == p.mana - Catalog[c].cost
             h == RemoveAt(p.hand, hi)
  <2>1. /\ Catalog[c].type = "minion" /\ ~(Cardinality(p.board) >= BoardLimit)
        /\ u.st = [s EXCEPT !.nextInstID = s.nextInstID + 1, !.players[i].board = b]
    <3>1. /\ Catalog[c].type = "minion" /\ ~(Cardinality(p.board) >= BoardLimit)
          /\ u.st = Summoned(s, i, c)
      BY <1>5, SummonOutcome
    <3> QED
      BY <3>1 DEF Summoned
  <2>2. r = [st |-> [u.st EXCEPT !.players[i].mana = left, !.players[i].hand = h],
             err |-> "ok"]
    BY <1>5 DEF playCard, Accept
  <2>3. Catalog[c] \in Card /\ Catalog[c].hp > 0
    BY <1>5, <2>1, CatalogLoaded DEF Known
  <2>4. s.nextInstID + 1 \in Nat
    BY DEF State
  <2>5. m \in Minion /\ m.hp > 0
    <3>1. Catalog[c].atk \in Nat /\ Catalog[c].hp \in Nat
      BY <2>3 DEF Card
    <3> QED
      BY <2>3, <2>4, <3>1 DEF NewMinion, Minion
  <2>6. left \in Int /\ 0 <= left /\ left <= p.mana
    BY <1>0, <1>5, <2>3 DEF Card
  <2>7. h \in Seq(CardID) /\ Len(h) = Len(p.hand) - 1
    BY <1>0, <1>5, IndexInRange, RemoveAtLength
  <2>8. b \in SUBSET Minion
    BY <1>0, <2>5 DEF Player
  <2>9. Cardinality(p.board) < BoardLimit
    BY <2>1, FS_CardinalityType, RulesConstants
  <2> HIDE DEF m, b, left, h
  <2>10. /\ u.st \in State /\ u.st.turn = s.turn /\ u.st.round = s.round
         /\ u.st.over = s.over /\ u.st.winner = s.winner
         /\ u.st.nextInstID = s.nextInstID + 1
         /\ u.st.players[Other(i)] = s.players[Other(i)]
         /\ u.st.players[i] = [p EXCEPT !.board = b]
    <3>1. [p EXCEPT !.board = b] \in Player
      BY <1>0, <2>8 DEF Player
    <3>2. u.st = [s EXCEPT !.nextInstID = s.nextInstID + 1,
                           !.players = [s.players EXCEPT ![i] = [p EXCEPT !.board = b]]]
      BY <2>1
    <3>3. [s.players EXCEPT ![i] = [p EXCEPT !.board = b]] \in [Seats -> Player]
      BY <3>1 DEF State
    <3>4. u.st \in State
      BY <2>4, <3>2, <3>3 DEF State
    <3>5. u.st.players = [s.players EXCEPT ![i] = [p EXCEPT !.board = b]]
      BY <3>2, <3>4 DEF State
    <3>6. /\ u.st.players[Other(i)] = s.players[Other(i)]
          /\ u.st.players[i] = [p EXCEPT !.board = b]
      BY <3>5 DEF State, Seats, Other
    <3> QED
      BY <3>2, <3>4, <3>6 DEF State
  <2>11. /\ r.st \in State /\ r.st.turn = s.turn /\ r.st.round = s.round
         /\ r.st.over = s.over /\ r.st.winner = s.winner
         /\ r.st.nextInstID = s.nextInstID + 1
         /\ r.st.players[Other(i)] = s.players[Other(i)]
         /\ r.st.players[i] = [p EXCEPT !.board = b, !.mana = left, !.hand = h]
    <3> DEFINE q == [p EXCEPT !.board = b, !.mana = left, !.hand = h]
    <3>1. q \in Player
      BY <1>0, <2>6, <2>7, <2>8 DEF Player
    <3>2. r.st = [u.st EXCEPT !.players = [u.st.players EXCEPT ![i] = q]]
      <4>1. r.st = [u.st EXCEPT !.players[i].mana = left, !.players[i].hand = h]
        BY <2>2
      <4>2. [[u.st.players[i] EXCEPT !.mana = left] EXCEPT !.hand = h] = q
        BY <2>10
      <4>3. r.st = [u.st EXCEPT !.players = [u.st.players EXCEPT ![i] =
                      [[u.st.players[i] EXCEPT !.mana = left] EXCEPT !.hand = h]]]
        BY <2>10, <4>1 DEF State
      <4> QED
        BY <4>2, <4>3
    <3> HIDE DEF q
    <3>3. [u.st.players EXCEPT ![i] = q] \in [Seats -> Player]
      BY <2>10, <3>1 DEF State
    <3> QED
      BY <2>10, <3>2, <3>3 DEF State, Seats, Other, q
  <2>12. r.err = "ok"
    BY <2>2
  <2>13. CardPlayed(s, r.st, i, c)
    BY <1>0, <2>5, <2>6, <2>7, <2>9, <2>11 DEF CardPlayed, Player, m, b
  <2> QED
    BY <2>12, <2>13
<1> QED
  BY <1>1, <1>2, <1>3, <1>4, <1>5

\* The card count of the seat that played goes up by one.
Played(played, i) == [played EXCEPT ![i] = played[i] + 1]

\* play_card, accepted.
LEMMA PlayCardSound ==
    ASSUME NEW s, NEW played \in [Seats -> Nat], GoodState(s, played),
           NEW i \in Seats, NEW c, NEW t, CardPlayed(s, t, i, c)
    PROVE  GoodState(t, Played(played, i))
<1> DEFINE n == Played(played, i)
           m == NewMinion(s, c)
           b == s.players[i].board
           o == Other(i)
<1>1. /\ s \in State /\ t \in State /\ s.nextInstID \in Nat
      /\ t.nextInstID = s.nextInstID + 1 /\ o \in Seats
      /\ t.players[o] = s.players[o] /\ t.players[i].board = b \cup {m}
      /\ t.turn = s.turn /\ t.round = s.round
  BY DEF CardPlayed, GoodState, State, Seats, Other
<1>2. /\ m \in Minion /\ m.inst = s.nextInstID + 1 /\ m.maxHP = m.hp
      /\ m.hp > 0 /\ m.hp \in Int
  BY DEF CardPlayed, NewMinion, Minion
<1>3. /\ \A k \in Seats : GoodBoard(s.players[k].board, s.nextInstID)
      /\ InstIDs(s.players[0].board) \cap InstIDs(s.players[1].board) = {}
      /\ s.nextInstID = played[0] + played[1]
  BY BoardsSplit
<1>4. n \in [Seats -> Nat] /\ n[i] = played[i] + 1 /\ n[o] = played[o]
  BY DEF Played, Seats, Other
<1>5. t.nextInstID = n[0] + n[1]
  BY <1>1, <1>3, <1>4 DEF Seats, Other
<1> HIDE DEF m, n
<1>6. ASSUME NEW k \in Seats, NEW x \in s.players[k].board
      PROVE  /\ x \in Minion /\ x.inst \in Nat /\ x.inst <= s.nextInstID
             /\ SoundMinion(x, s.nextInstID + 1)
  <2>1. x \in Minion /\ SoundMinion(x, s.nextInstID)
    BY <1>3 DEF GoodBoard
  <2>2. x.inst \in Nat /\ x.inst <= s.nextInstID
    BY <2>1 DEF Minion, SoundMinion
  <2>3. x.inst <= s.nextInstID + 1
    BY <1>1, <2>2
  <2> QED
    BY <2>1, <2>2, <2>3 DEF SoundMinion
<1>7. GoodBoard(t.players[i].board, t.nextInstID)
  <2>1. IsFiniteSet(b) /\ b \in SUBSET Minion
    BY <1>3 DEF GoodBoard
  <2>2. Cardinality(b) \in Nat /\ Cardinality(b) < BoardLimit
    BY <2>1, FS_CardinalityType DEF CardPlayed
  <2>3. IsFiniteSet(b \cup {m}) /\ Cardinality(b \cup {m}) <= Cardinality(b) + 1
        /\ Cardinality(b \cup {m}) \in Nat
    <3>1. /\ IsFiniteSet(b \cup {m})
          /\ Cardinality(b \cup {m}) = IF m \in b THEN Cardinality(b)
                                                  ELSE Cardinality(b) + 1
      BY <2>1, FS_AddElement
    <3> QED
      BY <2>2, <3>1
  <2>4. Cardinality(b \cup {m}) <= BoardLimit
    BY <2>2, <2>3, RulesConstants
  <2>5. SoundMinion(m, s.nextInstID + 1)
    BY <1>1, <1>2 DEF SoundMinion
  <2>6. \A x \in b \cup {m} : SoundMinion(x, s.nextInstID + 1)
    BY <1>6, <2>5
  <2>7. \A x, y \in b \cup {m} : x.inst = y.inst => x = y
    <3>1. \A x \in b : x.inst # m.inst
      BY <1>1, <1>2, <1>6
    <3>2. \A x, y \in b : x.inst = y.inst => x = y
      BY <1>3 DEF GoodBoard
    <3> QED
      BY <3>1, <3>2
  <2>8. b \cup {m} \in SUBSET Minion
    BY <1>2, <2>1
  <2> QED
    BY <1>1, <2>3, <2>4, <2>6, <2>7, <2>8 DEF GoodBoard
<1>8. GoodBoard(t.players[o].board, t.nextInstID)
  <2>1. \A x \in s.players[o].board : SoundMinion(x, s.nextInstID + 1)
    BY <1>1, <1>6
  <2> QED
    BY <1>1, <1>3, <2>1 DEF GoodBoard
<1>9. InstIDs(t.players[i].board) \cap InstIDs(t.players[o].board) = {}
  <2>1. InstIDs(b) \cap InstIDs(s.players[o].board) = {}
    BY <1>3 DEF Seats, Other
  <2>2. InstIDs(b \cup {m}) = InstIDs(b) \cup {m.inst}
    BY DEF InstIDs
  <2>3. m.inst \notin InstIDs(s.players[o].board)
    BY <1>1, <1>2, <1>6 DEF InstIDs
  <2> QED
    BY <1>1, <2>1, <2>2, <2>3
<1>10. /\ \A k \in Seats : GoodBoard(t.players[k].board, t.nextInstID)
       /\ InstIDs(t.players[0].board) \cap InstIDs(t.players[1].board) = {}
  BY <1>7, <1>8, <1>9 DEF Seats, Other
<1>11. SoundBoards(t, n) /\ \A k \in Seats : IsFiniteSet(t.players[k].board)
  BY <1>1, <1>5, <1>10, BoardsJoin
<1>12. OneWinner(t)
  <2>1. \A k \in Seats : t.players[k].hp = s.players[k].hp
    BY DEF CardPlayed, Seats, Other
  <2>2. t.over = s.over /\ t.winner = s.winner /\ OneWinner(s)
    BY DEF CardPlayed, GoodState
  <2>3. {k \in Seats : t.players[k].hp <= 0} = {k \in Seats : s.players[k].hp <= 0}
    BY <2>1
  <2> QED
    BY <2>2, <2>3 DEF OneWinner
<1>13. SoundTurns(t, n)
  <2>1. /\ s.turn = (s.round + 1) % 2
        /\ \A k \in Seats : SoundPlayer(s.players[k], TurnsBegun(s, k), played[k])
    BY DEF GoodState, SoundTurns
  <2>2. \A k \in Seats : TurnsBegun(t, k) = TurnsBegun(s, k)
    BY <1>1 DEF TurnsBegun
  <2>3. SoundPlayer(t.players[i], TurnsBegun(t, i), n[i])
    <3> DEFINE p == s.players[i]
               q == t.players[i]
    <3>1. /\ q.hp = p.hp /\ q.maxMana = p.maxMana /\ q.deck = p.deck
          /\ q.fatigue = p.fatigue /\ 0 <= q.mana /\ q.mana <= p.mana
          /\ Len(q.hand) = Len(p.hand) - 1
      BY DEF CardPlayed
    <3>2. /\ Len(p.hand) \in Nat /\ p.fatigue \in Nat /\ played[i] \in Nat
          /\ p.mana \in Int /\ p.maxMana \in Nat /\ q.mana \in Int
      <4>1. p \in Player /\ q \in Player
        BY <1>1 DEF State
      <4> HIDE DEF p, q
      <4>2. Len(p.hand) \in Nat /\ p.fatigue \in Nat /\ p.mana \in Int
            /\ p.maxMana \in Nat /\ q.mana \in Int
        BY <4>1 DEF Player
      <4> QED
        BY <4>2
    <3>3. SoundPlayer(p, TurnsBegun(t, i), played[i])
      BY <2>1, <2>2
    <3> HIDE DEF p, q
    <3>4. Len(p.hand) + played[i] + p.fatigue = Len(q.hand) + n[i] + q.fatigue
      <4>1. n[i] = played[i] + 1 /\ q.fatigue = p.fatigue
            /\ Len(q.hand) = Len(p.hand) - 1
        BY <1>4, <3>1
      <4> QED
        BY <3>2, <4>1
    <3>5. 0 <= q.mana /\ q.mana <= q.maxMana
      BY <3>1, <3>2, <3>3 DEF SoundPlayer
    <3> QED
      BY <3>1, <3>3, <3>4, <3>5 DEF SoundPlayer, q
  <2>4. SoundPlayer(t.players[o], TurnsBegun(t, o), n[o])
    BY <1>1, <1>4, <2>1, <2>2
  <2> QED
    BY <1>1, <2>1, <2>3, <2>4 DEF SoundTurns, Seats, Other
<1> QED
  BY <1>1, <1>11, <1>12, <1>13 DEF GoodState, n

-----------------------------------------------------------------------------
(***************************************************************************)
(* attack.                                                                 *)
(***************************************************************************)
Alive(b) == {m \in b : m.hp > 0}

\* A board whose minion m became n, once the dead are removed.
LEMMA SwapAlive ==
    ASSUME NEW b, NEW lastID, GoodBoard(b, lastID), NEW m \in b, NEW n \in Minion,
           n.inst = m.inst, n.maxHP = m.maxHP, n.hp <= m.hp
    PROVE  /\ Alive(Swap(b, m, n)) \in SUBSET Minion
           /\ GoodBoard(Alive(Swap(b, m, n)), lastID)
           /\ InstIDs(Alive(Swap(b, m, n))) \subseteq InstIDs(b)
           /\ \A x \in Alive(Swap(b, m, n)) : x = n \/ (x \in b /\ x.inst # m.inst)
<1> DEFINE w == Swap(b, m, n)
           c == Alive(w)
<1>1. /\ b \in SUBSET Minion /\ IsFiniteSet(b) /\ Cardinality(b) <= BoardLimit
      /\ \A x \in b : SoundMinion(x, lastID)
      /\ \A x, y \in b : x.inst = y.inst => x = y
  BY DEF GoodBoard
<1>2. w = (b \ {m}) \cup {n} /\ c \subseteq w /\ \A x \in c : x.hp > 0
  BY DEF Swap, Alive
<1>3. IsFiniteSet(w) /\ Cardinality(w) <= Cardinality(b) /\ Cardinality(b) \in Nat
      /\ Cardinality(w) \in Nat
  <2>1. IsFiniteSet(b \ {m}) /\ Cardinality(b \ {m}) = Cardinality(b) - 1
    BY <1>1, FS_RemoveElement
  <2>2. /\ IsFiniteSet(w)
        /\ Cardinality(w) = IF n \in b \ {m} THEN Cardinality(b \ {m})
                                              ELSE Cardinality(b \ {m}) + 1
    BY <1>2, <2>1, FS_AddElement, SMTT(60)
  <2>3. Cardinality(b) \in Nat /\ Cardinality(w) \in Nat
    BY <1>1, <2>2, FS_CardinalityType
  <2> QED
    BY <2>1, <2>2, <2>3
<1>4. IsFiniteSet(c) /\ Cardinality(c) <= Cardinality(w) /\ Cardinality(c) \in Nat
  BY <1>2, <1>3, FS_Subset, FS_CardinalityType
<1>5. Cardinality(c) <= BoardLimit
  <2>1. BoardLimit \in Nat
    BY RulesConstants
  <2> QED
    BY <1>1, <1>3, <1>4, <2>1
<1>6. c \in SUBSET Minion
  BY <1>1, <1>2
<1>7. \A x \in c : x = n \/ (x \in b /\ x.inst # m.inst)
  BY <1>1, <1>2
<1>8. n.hp > 0 => SoundMinion(n, lastID)
  <2>1. SoundMinion(m, lastID) /\ m \in Minion
    BY <1>1
  <2>2. m.hp \in Int /\ n.hp \in Int /\ m.maxHP \in Nat
    BY <2>1 DEF Minion
  <2> QED
    BY <2>1, <2>2 DEF SoundMinion
<1>9. \A x \in c : SoundMinion(x, lastID)
  BY <1>1, <1>2, <1>7, <1>8
<1>10. \A x, y \in c : x.inst = y.inst => x = y
  BY <1>1, <1>7
<1>11. InstIDs(c) \subseteq InstIDs(b)
  BY <1>7 DEF InstIDs
<1>12. GoodBoard(c, lastID)
  BY <1>4, <1>5, <1>6, <1>9, <1>10 DEF GoodBoard
<1> QED
  BY <1>6, <1>7, <1>11, <1>12

\* A board with nobody dead on it is left as it is.
LEMMA GoodBoardAlive ==
    ASSUME NEW b, NEW lastID, GoodBoard(b, lastID)
    PROVE  Alive(b) = b
BY DEF GoodBoard, SoundMinion, Alive

\* An attack leaves cards, mana and fatigue alone.
SameBooks(p, q) ==
    /\ q.mana = p.mana /\ q.maxMana = p.maxMana /\ q.deck = p.deck
    /\ q.hand = p.hand /\ q.fatigue = p.fatigue

\* The State after the blow has been struck and before checkOver: what differs
\* from s, when seat i attacked with the minion id.
Struck(s, t, i, id) ==
    /\ t \in State
    /\ t.turn = s.turn /\ t.round = s.round /\ t.over = s.over
    /\ t.winner = s.winner /\ t.nextInstID = s.nextInstID
    /\ \A k \in Seats :
          LET p == s.players[k]
              q == t.players[k]
          IN  /\ SameBooks(p, q) /\ q.hp <= p.hp
              /\ GoodBoard(q.board, s.nextInstID)
              /\ InstIDs(q.board) \subseteq InstIDs(p.board)
    /\ t.players[i].hp = s.players[i].hp
    /\ \A m \in t.players[i].board :
          m.canAttack => m \in s.players[i].board /\ m.inst # id

\* removeDead, field by field.
LEMMA RemoveDeadFields ==
    ASSUME NEW s \in State
    PROVE  /\ removeDead(s) \in State
           /\ removeDead(s).turn = s.turn /\ removeDead(s).round = s.round
           /\ removeDead(s).over = s.over /\ removeDead(s).winner = s.winner
           /\ removeDead(s).nextInstID = s.nextInstID
           /\ \A k \in Seats : removeDead(s).players[k]
                 = [s.players[k] EXCEPT !.board = Alive(s.players[k].board)]
<1> DEFINE f == [i \in Seats |->
                  [s.players[i] EXCEPT !.board = Alive(s.players[i].board)]]
<1>1. removeDead(s) = [s EXCEPT !.players = f]
  BY DEF removeDead, Alive
<1>2. f \in [Seats -> Player]
  <2>1. ASSUME NEW k \in Seats
        PROVE  [s.players[k] EXCEPT !.board = Alive(s.players[k].board)] \in Player
    <3>1. s.players[k] \in Player
      BY DEF State
    <3>2. Alive(s.players[k].board) \in SUBSET Minion
      BY <3>1 DEF Player, Alive
    <3> QED
      BY <3>1, <3>2 DEF Player
  <2> QED
    BY <2>1
<1>3. \A k \in Seats : f[k] = [s.players[k] EXCEPT !.board = Alive(s.players[k].board)]
  OBVIOUS
<1> HIDE DEF f
<1>4. removeDead(s) \in State /\ removeDead(s).players = f
  BY <1>1, <1>2 DEF State
<1> QED
  BY <1>1, <1>3, <1>4 DEF State

\* The State in which seat i holds player p and the other seat holds q.
WithPlayers(s, i, p, q) ==
    [s EXCEPT !.players = [[s.players EXCEPT ![Other(i)] = q] EXCEPT ![i] = p]]

\* WithPlayers, field by field.
LEMMA WithPlayersFields ==
    ASSUME NEW s \in State, NEW i \in Seats, NEW p \in Player, NEW q \in Player,
           NEW u, u = WithPlayers(s, i, p, q)
    PROVE  /\ u \in State /\ u.players[i] = p /\ u.players[Other(i)] = q
           /\ u.turn = s.turn /\ u.round = s.round /\ u.over = s.over
           /\ u.winner = s.winner /\ u.nextInstID = s.nextInstID
<1> DEFINE f == [[s.players EXCEPT ![Other(i)] = q] EXCEPT ![i] = p]
<1>1. f \in [Seats -> Player] /\ f[i] = p /\ f[Other(i)] = q
  BY DEF State, Seats, Other
<1>2. u = [s EXCEPT !.players = f]
  BY DEF WithPlayers
<1> HIDE DEF f
<1>3. /\ u \in State /\ u.players = f
      /\ u.turn = s.turn /\ u.round = s.round /\ u.over = s.over
      /\ u.winner = s.winner /\ u.nextInstID = s.nextInstID
  BY <1>1, <1>2, SMTT(60) DEF State
<1> QED
  BY <1>1, <1>3

\* From a player on either side to the whole State: i's minion x became n,
\* the other player became q.
LEMMA StruckFromPlayers ==
    ASSUME NEW s, NEW played, GoodState(s, played), NEW i \in Seats,
           NEW x \in s.players[i].board, NEW n \in Minion,
           n.inst = x.inst, n.maxHP = x.maxHP, n.hp <= x.hp, ~n.canAttack,
           NEW q \in Player, SameBooks(s.players[Other(i)], q),
           q.hp <= s.players[Other(i)].hp,
           GoodBoard(Alive(q.board), s.nextInstID),
           InstIDs(Alive(q.board)) \subseteq InstIDs(s.players[Other(i)].board),
           NEW u,
           u = WithPlayers(s, i,
                 [s.players[i] EXCEPT !.board = Swap(s.players[i].board, x, n)], q)
    PROVE  Struck(s, removeDead(u), i, x.inst)
<1> DEFINE o == Other(i)
           b == s.players[i].board
           w == Swap(b, x, n)
           p == [s.players[i] EXCEPT !.board = w]
           t == removeDead(u)
<1>1. /\ s \in State /\ o \in Seats /\ o # i /\ \A k \in Seats : k = i \/ k = o
      /\ s.players[i] \in Player
  BY DEF GoodState, State, Seats, Other
<1>2. GoodBoard(b, s.nextInstID) /\ b \in SUBSET Minion
  BY BoardsSplit DEF GoodBoard
<1>3. /\ w \in SUBSET Minion
      /\ GoodBoard(Alive(w), s.nextInstID)
      /\ InstIDs(Alive(w)) \subseteq InstIDs(b)
      /\ \A y \in Alive(w) : y = n \/ (y \in b /\ y.inst # x.inst)
  <2>1. w \in SUBSET Minion
    BY <1>2 DEF Swap
  <2> QED
    BY <1>2, <2>1, SwapAlive
<1> HIDE DEF w
<1>4. /\ p \in Player /\ p.board = w /\ p.hp = s.players[i].hp
      /\ SameBooks(s.players[i], p)
  BY <1>1, <1>3 DEF Player, SameBooks
<1>5. u = WithPlayers(s, i, p, q)
  BY DEF w
<1> HIDE DEF p, o
<1>6. /\ u \in State /\ u.players[i] = p /\ u.players[o] = q
      /\ u.turn = s.turn /\ u.round = s.round /\ u.over = s.over
      /\ u.winner = s.winner /\ u.nextInstID = s.nextInstID
  <2>1. s \in State /\ p \in Player
    BY <1>1, <1>4
  <2>2. u.players[Other(i)] = u.players[o]
    BY DEF o
  <2> QED
    BY <1>5, <2>1, <2>2, WithPlayersFields
<1>7. /\ t \in State /\ t.turn = s.turn /\ t.round = s.round /\ t.over = s.over
      /\ t.winner = s.winner /\ t.nextInstID = s.nextInstID
      /\ t.players[i] = [p EXCEPT !.board = Alive(w)]
      /\ t.players[o] = [q EXCEPT !.board = Alive(q.board)]
  <2>1. /\ t.players[i] = [u.players[i] EXCEPT !.board = Alive(u.players[i].board)]
        /\ t.players[o] = [u.players[o] EXCEPT !.board = Alive(u.players[o].board)]
    BY <1>1, <1>6, RemoveDeadFields
  <2>2. /\ t.players[i] = [p EXCEPT !.board = Alive(w)]
        /\ t.players[o] = [q EXCEPT !.board = Alive(q.board)]
    BY <1>4, <1>6, <2>1
  <2> QED
    BY <1>6, <2>2, RemoveDeadFields
<1> HIDE DEF t
<1>8. /\ t.players[i].board = Alive(w) /\ t.players[i].hp = s.players[i].hp
      /\ SameBooks(s.players[i], t.players[i])
  BY <1>4, <1>7 DEF Player, SameBooks
<1>9. /\ t.players[o].board = Alive(q.board) /\ t.players[o].hp = q.hp
      /\ SameBooks(s.players[o], t.players[o])
  BY <1>7 DEF Player, SameBooks, o
<1>10. \A m \in t.players[i].board : m.canAttack => m \in b /\ m.inst # x.inst
  BY <1>3, <1>8
<1>11. s.players[i].hp <= s.players[i].hp
  <2>1. s.players[i].hp \in Int
    BY <1>1 DEF Player
  <2> QED
    BY <2>1
<1>12. \A k \in Seats : /\ SameBooks(s.players[k], t.players[k])
                        /\ t.players[k].hp <= s.players[k].hp
                        /\ GoodBoard(t.players[k].board, s.nextInstID)
                        /\ InstIDs(t.players[k].board) \subseteq InstIDs(s.players[k].board)
  <2>1. /\ t.players[i].hp <= s.players[i].hp
        /\ GoodBoard(t.players[i].board, s.nextInstID)
        /\ InstIDs(t.players[i].board) \subseteq InstIDs(s.players[i].board)
    BY <1>3, <1>8, <1>11
  <2>2. /\ t.players[o].hp <= s.players[o].hp
        /\ GoodBoard(t.players[o].board, s.nextInstID)
        /\ InstIDs(t.players[o].board) \subseteq InstIDs(s.players[o].board)
    BY <1>9 DEF o
  <2> QED
    BY <1>1, <1>8, <1>9, <2>1, <2>2
<1> QED
  BY <1>7, <1>8, <1>10, <1>12 DEF Struck, t

\* Hitting the face.
LEMMA HitFaceStruck ==
    ASSUME NEW s, NEW played, GoodState(s, played), NEW i \in Seats,
           NEW x \in s.players[i].board
    PROVE  Struck(s, removeDead(HitFace(s, i, x)), i, x.inst)
<1> DEFINE o == Other(i)
           n == [x EXCEPT !.canAttack = FALSE]
           q == [s.players[o] EXCEPT !.hp = s.players[o].hp - x.atk]
           u == HitFace(s, i, x)
<1>1. /\ s \in State /\ o \in Seats /\ o # i /\ s.players[o] \in Player
  BY DEF GoodState, State, Seats, Other
<1>2. /\ GoodBoard(s.players[o].board, s.nextInstID) /\ x \in Minion
  BY <1>1, BoardsSplit DEF GoodBoard
<1>3. /\ n \in Minion /\ n.inst = x.inst /\ n.maxHP = x.maxHP /\ n.hp = x.hp
      /\ ~n.canAttack
  BY <1>2 DEF Minion
<1>4. x.hp \in Int /\ x.atk \in Nat /\ s.players[o].hp \in Int
  BY <1>1, <1>2 DEF Minion, Player
<1>5. /\ q \in Player /\ SameBooks(s.players[o], q)
      /\ q.board = s.players[o].board /\ q.hp = s.players[o].hp - x.atk
  <2>1. s.players[o].hp - x.atk \in Int
    BY <1>4
  <2> QED
    BY <1>1, <2>1 DEF Player, SameBooks
<1>6. q.hp <= s.players[o].hp /\ n.hp <= x.hp
  BY <1>3, <1>4, <1>5
<1>7. Alive(q.board) = s.players[o].board
  BY <1>2, <1>5, GoodBoardAlive
<1>8. u = WithPlayers(s, i,
            [s.players[i] EXCEPT !.board = Swap(s.players[i].board, x, n)], q)
  BY <1>1 DEF HitFace, WithPlayers, State
<1> HIDE DEF n, q, u
<1>9. Struck(s, removeDead(u), i, x.inst)
  BY <1>2, <1>3, <1>5, <1>6, <1>7, <1>8, StruckFromPlayers
<1> QED
  BY <1>9 DEF u

\* A fight between two minions.
LEMMA FightStruck ==
    ASSUME NEW s, NEW played, GoodState(s, played), NEW i \in Seats,
           NEW x \in s.players[i].board, NEW d \in s.players[Other(i)].board
    PROVE  Struck(s, removeDead(Fight(s, i, x, d)), i, x.inst)
<1> DEFINE o == Other(i)
           n == [x EXCEPT !.hp = x.hp - d.atk, !.canAttack = FALSE]
           e == [d EXCEPT !.hp = d.hp - x.atk]
           w == Swap(s.players[o].board, d, e)
           q == [s.players[o] EXCEPT !.board = w]
           u == Fight(s, i, x, d)
<1>1. /\ s \in State /\ o \in Seats /\ o # i /\ s.players[o] \in Player
  BY DEF GoodState, State, Seats, Other
<1>2. /\ GoodBoard(s.players[o].board, s.nextInstID) /\ x \in Minion /\ d \in Minion
  BY <1>1, BoardsSplit DEF GoodBoard
<1>3. /\ x.hp \in Int /\ x.atk \in Nat /\ d.hp \in Int /\ d.atk \in Nat
      /\ x.hp - d.atk \in Int /\ d.hp - x.atk \in Int
      /\ x.hp - d.atk <= x.hp /\ d.hp - x.atk <= d.hp
  <2>1. x.hp \in Int /\ x.atk \in Nat /\ d.hp \in Int /\ d.atk \in Nat
    BY <1>2 DEF Minion
  <2> QED
    BY <2>1
<1>4. /\ n \in Minion /\ n.inst = x.inst /\ n.maxHP = x.maxHP /\ n.hp <= x.hp
      /\ ~n.canAttack
  BY <1>2, <1>3 DEF Minion
<1>5. /\ e \in Minion /\ e.inst = d.inst /\ e.maxHP = d.maxHP /\ e.hp <= d.hp
  BY <1>2, <1>3 DEF Minion
<1>6. u = WithPlayers(s, i,
            [s.players[i] EXCEPT !.board = Swap(s.players[i].board, x, n)], q)
  BY <1>1 DEF Fight, WithPlayers, State
<1> HIDE DEF n, e, u
<1>7. /\ w \in SUBSET Minion
      /\ GoodBoard(Alive(w), s.nextInstID)
      /\ InstIDs(Alive(w)) \subseteq InstIDs(s.players[o].board)
  <2>1. w \in SUBSET Minion
    BY <1>2, <1>5 DEF Swap, GoodBoard
  <2> QED
    BY <1>2, <1>5, <2>1, SwapAlive
<1> HIDE DEF w
<1>8. /\ q \in Player /\ SameBooks(s.players[o], q) /\ q.board = w
      /\ q.hp = s.players[o].hp /\ q.hp \in Int
  BY <1>1, <1>7 DEF Player, SameBooks
<1>9. q.hp <= s.players[o].hp
  BY <1>8
<1> HIDE DEF q
<1>10. Struck(s, removeDead(u), i, x.inst)
  BY <1>4, <1>6, <1>7, <1>8, <1>9, StruckFromPlayers
<1> QED
  BY <1>10 DEF u

\* An accepted attack: the minion id stood ready, struck, and checkOver ran.
Attacked(s, t, i, id) ==
    /\ \E x \in s.players[i].board : x.inst = id /\ x.canAttack
    /\ \E u : Struck(s, u, i, id) /\ t = checkOver(u)

\* attack fails without a trace or does all of Attacked.
LEMMA AttackOutcome ==
    ASSUME NEW s, NEW played, GoodState(s, played), NEW i \in Seats,
           NEW id \in Nat, NEW target \in Nat
    PROVE  \/ attack(s, i, id, target).err # "ok" /\ attack(s, i, id, target).st = s
           \/ /\ attack(s, i, id, target).err = "ok"
              /\ Attacked(s, attack(s, i, id, target).st, i, id)
<1> DEFINE me == s.players[i]
           opp == s.players[Other(i)]
           x == findMinion(me, id)
           d == findMinion(opp, target)
           r == attack(s, i, id, target)
<1>1. CASE ~OnBoard(me, id)
  BY <1>1 DEF attack, fail
<1>2. CASE OnBoard(me, id) /\ (~x.canAttack \/ x.atk = 0)
  BY <1>2 DEF attack, fail
<1>3. CASE OnBoard(me, id) /\ ~(~x.canAttack \/ x.atk = 0)
  <2>1. x \in me.board /\ x.inst = id /\ x.canAttack
    BY <1>3 DEF OnBoard, findMinion
  <2>2. CASE target = Face
    <3>1. r.err = "ok" /\ r.st = checkOver(removeDead(HitFace(s, i, x)))
      BY <1>3, <2>2 DEF attack, Accept
    <3>2. Struck(s, removeDead(HitFace(s, i, x)), i, x.inst)
      BY <2>1, HitFaceStruck
    <3> HIDE DEF x, r
    <3> QED
      BY <2>1, <3>1, <3>2 DEF Attacked, r
  <2>3. CASE target # Face /\ OnBoard(me, target)
    BY <1>3, <2>3 DEF attack, fail
  <2>4. CASE target # Face /\ ~OnBoard(me, target) /\ ~OnBoard(opp, target)
    BY <1>3, <2>4 DEF attack, fail
  <2>5. CASE target # Face /\ ~OnBoard(me, target) /\ OnBoard(opp, target)
    <3>1. r.err = "ok" /\ r.st = checkOver(removeDead(Fight(s, i, x, d)))
      BY <1>3, <2>5 DEF attack, Accept
    <3>2. d \in opp.board
      BY <2>5 DEF OnBoard, findMinion
    <3>3. Struck(s, removeDead(Fight(s, i, x, d)), i, x.inst)
      BY <2>1, <3>2, FightStruck
    <3> HIDE DEF x, d, r
    <3> QED
      BY <2>1, <3>1, <3>3 DEF Attacked, r
  <2> QED
    BY <2>2, <2>3, <2>4, <2>5
<1> QED
  BY <1>1, <1>2, <1>3

\* attack, accepted.
LEMMA AttackSound ==
    ASSUME NEW s, NEW played \in [Seats -> Nat], GoodState(s, played), ~s.over,
           NEW i \in Seats, NEW id, NEW t, Attacked(s, t, i, id)
    PROVE  /\ GoodState(t, played)
           /\ t.turn = s.turn /\ t.round = s.round /\ t.nextInstID = s.nextInstID
           /\ \A m \in t.players[i].board :
                 m.canAttack => m \in s.players[i].board /\ m.inst # id
<1>1. PICK u : Struck(s, u, i, id) /\ t = checkOver(u)
  BY DEF Attacked
<1>2. /\ u \in State /\ u.turn = s.turn /\ u.round = s.round /\ u.over = s.over
      /\ u.winner = s.winner /\ u.nextInstID = s.nextInstID
      /\ u.players[i].hp = s.players[i].hp
  BY <1>1 DEF Struck
<1>3. /\ t \in State /\ t.players = u.players /\ t.turn = s.turn
      /\ t.round = s.round /\ t.nextInstID = s.nextInstID
  BY <1>1, <1>2, CheckOverFields
<1>4. OneWinner(t)
  <2>1. s.winner = Nobody /\ {k \in Seats : s.players[k].hp <= 0} = {}
    BY DEF GoodState, OneWinner
  <2>2. s.players[i].hp \in Int
    BY DEF GoodState, State, Player
  <2>3. u.players[i].hp > 0
    BY <1>2, <2>1, <2>2
  <2> QED
    BY <1>1, <1>2, <2>1, <2>3, CheckOverVerdict
<1>5. /\ \A k \in Seats : GoodBoard(t.players[k].board, t.nextInstID)
      /\ \A k \in Seats : InstIDs(t.players[k].board) \subseteq InstIDs(s.players[k].board)
  BY <1>1, <1>3 DEF Struck
<1>6. /\ InstIDs(s.players[0].board) \cap InstIDs(s.players[1].board) = {}
      /\ s.nextInstID = played[0] + played[1]
  BY BoardsSplit
<1>7. InstIDs(t.players[0].board) \cap InstIDs(t.players[1].board) = {}
  BY <1>5, <1>6 DEF Seats
<1>8. SoundBoards(t, played) /\ \A k \in Seats : IsFiniteSet(t.players[k].board)
  BY <1>3, <1>5, <1>6, <1>7, BoardsJoin
<1>9. SoundTurns(t, played)
  <2>1. /\ s.turn = (s.round + 1) % 2
        /\ \A k \in Seats : SoundPlayer(s.players[k], TurnsBegun(s, k), played[k])
    BY DEF GoodState, SoundTurns
  <2>2. \A k \in Seats : TurnsBegun(t, k) = TurnsBegun(s, k)
    BY <1>3 DEF TurnsBegun
  <2>3. ASSUME NEW k \in Seats
        PROVE  SoundPlayer(t.players[k], TurnsBegun(t, k), played[k])
    <3>1. SameBooks(s.players[k], t.players[k]) /\ t.players[k].hp <= s.players[k].hp
      BY <1>1, <1>3 DEF Struck
    <3>2. SoundPlayer(s.players[k], TurnsBegun(t, k), played[k])
      BY <2>1, <2>2
    <3>3. t.players[k].hp <= StartHP
      <4>1. s.players[k].hp <= StartHP
        BY <3>2 DEF SoundPlayer
      <4>2. s.players[k].hp \in Int /\ t.players[k].hp \in Int
        BY <1>3 DEF GoodState, State, Player
      <4>3. StartHP \in Int
        BY RulesConstants
      <4> QED
        BY <3>1, <4>1, <4>2, <4>3
    <3> QED
      BY <3>1, <3>2, <3>3 DEF SoundPlayer, SameBooks
  <2> QED
    BY <1>3, <2>1, <2>3 DEF SoundTurns
<1>10. \A m \in t.players[i].board :
          m.canAttack => m \in s.players[i].board /\ m.inst # id
  BY <1>1, <1>3 DEF Struck
<1> QED
  BY <1>3, <1>4, <1>8, <1>9, <1>10 DEF GoodState

-----------------------------------------------------------------------------
(***************************************************************************)
(* Apply.                                                                  *)
(***************************************************************************)
\* Everything an answer of Apply can be: a refusal that changed nothing, or
\* an accepted action of the player to move in a game that was not over.
LEMMA ApplyOutcome ==
    ASSUME NEW s, NEW played \in [Seats -> Nat], GoodState(s, played),
           NEW i \in Seats \cup {Nobody}, NEW a \in Action
    PROVE  \/ Apply(s, i, a).err # "ok" /\ Apply(s, i, a).st = s
           \/ /\ Apply(s, i, a).err = "ok" /\ ~s.over /\ i = s.turn /\ i \in Seats
              /\ \/ a.type = "play_card" /\ CardPlayed(s, Apply(s, i, a).st, i, a.card)
                 \/ a.type = "attack" /\ Attacked(s, Apply(s, i, a).st, i, a.inst)
                 \/ a.type = "end_turn" /\ Apply(s, i, a) = endTurn(s, i)
<1> DEFINE r == Apply(s, i, a)
<1>0. s \in State /\ a.card \in CardID /\ a.inst \in Nat /\ a.target \in Nat
      /\ a.type \in {"play_card", "attack", "end_turn", "unknown"}
      /\ \A k \in Seats : IsFiniteSet(s.players[k].board)
  BY DEF GoodState, Action
<1>1. CASE s.over
  BY <1>1 DEF Apply, fail
<1>2. CASE ~s.over /\ i \notin Seats
  BY <1>2 DEF Apply, fail
<1>3. CASE ~s.over /\ i \in Seats /\ i # s.turn
  BY <1>3 DEF Apply, fail
<1>4. CASE ~s.over /\ i \in Seats /\ i = s.turn
  <2>1. CASE a.type = "play_card"
    <3>1. r = playCard(s, i, a.card)
      BY <1>4, <2>1 DEF Apply
    <3>2. \/ r.err # "ok" /\ r.st = s
          \/ r.err = "ok" /\ CardPlayed(s, r.st, i, a.card)
      BY <1>0, <1>4, <3>1, PlayCardOutcome
    <3> HIDE DEF r
    <3> QED
      BY <1>4, <2>1, <3>2 DEF r
  <2>2. CASE a.type = "attack"
    <3>1. r = attack(s, i, a.inst, a.target)
      BY <1>4, <2>2 DEF Apply
    <3>2. \/ r.err # "ok" /\ r.st = s
          \/ r.err = "ok" /\ Attacked(s, r.st, i, a.inst)
      BY <1>0, <1>4, <3>1, AttackOutcome
    <3> HIDE DEF r
    <3> QED
      BY <1>4, <2>2, <3>2 DEF r
  <2>3. CASE a.type = "end_turn"
    <3>1. r = endTurn(s, i)
      BY <1>4, <2>3 DEF Apply
    <3>2. r.err = "ok"
      BY <1>4, <3>1, EndTurnSound
    <3> HIDE DEF r
    <3> QED
      BY <1>4, <2>3, <3>1, <3>2 DEF r
  <2>4. CASE a.type = "unknown"
    BY <1>4, <2>4 DEF Apply, fail
  <2> QED
    BY <1>0, <2>1, <2>2, <2>3, <2>4
<1> QED
  BY <1>1, <1>2, <1>3, <1>4

\* Apply never spoils a State, whoever asks for whatever: soundness of the
\* rules, for the room that runs a game and for the Replay that repeats it.
THEOREM ApplySound ==
    ASSUME NEW s, NEW played \in [Seats -> Nat], GoodState(s, played),
           NEW i \in Seats \cup {Nobody}, NEW a \in Action
    PROVE  LET r == Apply(s, i, a)
           IN  GoodState(r.st, IF a.type = "play_card" /\ r.err = "ok"
                               THEN Played(played, i) ELSE played)
<1> DEFINE r == Apply(s, i, a)
<1>1. CASE r.err # "ok" /\ r.st = s
  BY <1>1
<1>2. CASE r.err = "ok" /\ i \in Seats /\ a.type = "play_card"
           /\ CardPlayed(s, r.st, i, a.card)
  BY <1>2, PlayCardSound
<1>3. CASE r.err = "ok" /\ ~s.over /\ i \in Seats /\ a.type = "attack"
           /\ Attacked(s, r.st, i, a.inst)
  BY <1>3, AttackSound
<1>4. CASE r.err = "ok" /\ ~s.over /\ i \in Seats /\ i = s.turn
           /\ a.type = "end_turn" /\ r = endTurn(s, i)
  BY <1>4, EndTurnSound
<1> HIDE DEF r
<1>5. \/ r.err # "ok" /\ r.st = s
      \/ /\ r.err = "ok" /\ ~s.over /\ i = s.turn /\ i \in Seats
         /\ \/ a.type = "play_card" /\ CardPlayed(s, r.st, i, a.card)
            \/ a.type = "attack" /\ Attacked(s, r.st, i, a.inst)
            \/ a.type = "end_turn" /\ r = endTurn(s, i)
  BY ApplyOutcome DEF r
<1> QED
  BY <1>1, <1>2, <1>3, <1>4, <1>5 DEF r

-----------------------------------------------------------------------------
(***************************************************************************)
(* Facts for the state machines that call the rules.                       *)
(***************************************************************************)
\* A shuffle has the cards of the deck in another order: same type and length.
LEMMA ShuffleKeeps ==
    ASSUME NEW d \in Seq(CardID), NEW e \in Shuffles(d)
    PROVE  e \in Seq(CardID) /\ Len(e) = Len(d)
<1> DEFINE n == Len(d)
<1>1. n \in Nat /\ DOMAIN d = 1 .. n /\ \A k \in 1 .. n : d[k] \in CardID
  BY ElementOfSeq
<1>2. PICK f \in Bijection(DOMAIN d, DOMAIN d) : e = [k \in DOMAIN d |-> d[f[k]]]
  BY DEF Shuffles
<1>3. f \in [1 .. n -> 1 .. n]
  BY <1>1, <1>2 DEF Bijection, Injection
<1>4. e \in [1 .. n -> CardID]
  BY <1>1, <1>2, <1>3
<1> HIDE DEF n
<1>5. e \in Seq(CardID)
  BY <1>1, <1>4, SeqDef
<1>6. DOMAIN e = 1 .. n /\ DOMAIN e = 1 .. Len(e) /\ Len(e) \in Nat
  BY <1>4, <1>5
<1>7. Len(e) = n
  BY <1>1, <1>6
<1> QED
  BY <1>5, <1>7 DEF n

\* The error codes Apply can return.
LEMMA ApplyCode ==
    ASSUME NEW s, NEW i, NEW a
    PROVE  Apply(s, i, a).err \in ErrCode \cup {"ok"}
<1>1. \A c : Summon(s, i, c).err \in ErrCode \cup {"ok"}
  BY DEF Summon, fail, Accept, ErrCode
<1>2. \A c : playCard(s, i, c).err \in ErrCode \cup {"ok"}
  BY <1>1 DEF playCard, fail, Accept, ErrCode
<1>3. \A id, t : attack(s, i, id, t).err \in ErrCode \cup {"ok"}
  BY DEF attack, fail, Accept, ErrCode
<1>4. endTurn(s, i).err \in ErrCode \cup {"ok"}
  BY DEF endTurn, Accept
<1> QED
  BY <1>2, <1>3, <1>4 DEF Apply, fail, ErrCode

\* The first turn cannot end the game: there is a card to draw.
LEMMA NewStateUndecided ==
    ASSUME NEW deal \in [Seats -> Seq(CardID)], \A i \in Seats : Dealable(deal[i])
    PROVE  /\ NewState(deal).over = FALSE /\ NewState(deal).turn = 0
           /\ NewState(deal).round = 1
<1> DEFINE players == [i \in Seats |-> Deal(deal[i])]
           rest == SubSeq(deal[0], HandStart + 1, Len(deal[0]))
           q == Refresh(players[0])
           s == [players |-> players, turn |-> 0, round |-> 1, over |-> FALSE,
                 winner |-> Nobody, nextInstID |-> 0]
<1>1. players[0].deck = rest
  BY DEF Deal, Seats
<1>2. Len(rest) > 0
  <2>1. deal[0] \in Seq(CardID) /\ Len(deal[0]) \in Nat /\ Len(deal[0]) > HandStart
    BY DEF Dealable, Seats
  <2>2. HandStart \in Nat /\ \A k \in HandStart + 1 .. Len(deal[0]) : deal[0][k] \in CardID
    BY <2>1, RulesConstants, ElementOfSeq
  <2>3. Len(rest) = Len(deal[0]) - HandStart
    BY <2>1, <2>2, SubSeqProperties
  <2> QED
    BY <2>1, <2>2, <2>3
<1>3. Len(<<>>) = 0
  OBVIOUS
<1> HIDE DEF rest
<1>4. rest # <<>>
  BY <1>2, <1>3
<1>5. NewState(deal) = beginTurn(s, 0)
  BY DEF NewState
<1>6. s.players = players
  OBVIOUS
<1>7. beginTurn(s, 0) = [s EXCEPT !.players[0] = q]
  <2> HIDE DEF players, s
  <2> QED
    BY <1>1, <1>4, <1>6 DEF beginTurn, q
<1> HIDE DEF q, players
<1> QED
  BY <1>5, <1>7

\* Apply returns a State and an error, and nothing else.
LEMMA ApplyPair ==
    ASSUME NEW s, NEW i, NEW a
    PROVE  Apply(s, i, a) = [st |-> Apply(s, i, a).st, err |-> Apply(s, i, a).err]
<1> DEFINE Pair(r) == r = [st |-> r.st, err |-> r.err]
<1>1. \A t, code : Pair(fail(t, code)) /\ Pair(Accept(t))
  BY DEF fail, Accept
<1>2. \A c : Pair(Summon(s, i, c))
  BY <1>1 DEF Summon
<1>3. \A c : Pair(playCard(s, i, c))
  BY <1>1, <1>2 DEF playCard
<1>4. \A id, t : Pair(attack(s, i, id, t))
  BY <1>1 DEF attack
<1>5. Pair(endTurn(s, i))
  BY <1>1 DEF endTurn
<1> HIDE DEF Pair
<1>6. Pair(Apply(s, i, a))
  BY <1>1, <1>3, <1>4, <1>5 DEF Apply
<1> QED
  BY <1>6 DEF Pair

\* An accepted action comes from the player to move, in an undecided game; it
\* leaves a sound State behind; and the turn passes exactly with an end_turn.
LEMMA ApplyAccepts ==
    ASSUME NEW s, NEW played \in [Seats -> Nat], GoodState(s, played),
           NEW i \in Seats \cup {Nobody}, NEW a \in Action, Apply(s, i, a).err = "ok"
    PROVE  LET t == Apply(s, i, a).st
           IN  /\ Apply(s, i, a) = Accept(t)
               /\ ~s.over /\ i = s.turn /\ i \in Seats
               /\ \E n \in [Seats -> Nat] : GoodState(t, n)
               /\ a.type = "end_turn" => t.turn = Other(s.turn) /\ t.round = s.round + 1
               /\ a.type # "end_turn" => t.turn = s.turn /\ t.round = s.round
<1> DEFINE r == Apply(s, i, a)
           n == IF a.type = "play_card" /\ r.err = "ok" THEN Played(played, i) ELSE played
<1>1. r = Accept(r.st)
  BY ApplyPair DEF Accept
<1>2. GoodState(r.st, n)
  BY ApplySound
<1>3. /\ ~s.over /\ i = s.turn /\ i \in Seats
      /\ \/ a.type = "play_card" /\ CardPlayed(s, r.st, i, a.card)
         \/ a.type = "attack" /\ Attacked(s, r.st, i, a.inst)
         \/ a.type = "end_turn" /\ r = endTurn(s, i)
  BY ApplyOutcome
<1>4. n \in [Seats -> Nat]
  <2>1. Played(played, i) \in [Seats -> Nat]
    BY <1>3, SMTT(60) DEF Played, Seats
  <2> QED
    BY <2>1
<1> HIDE DEF r, n
<1>5. CASE a.type = "play_card" /\ CardPlayed(s, r.st, i, a.card)
  BY <1>1, <1>2, <1>3, <1>4, <1>5 DEF CardPlayed, r
<1>6. CASE a.type = "attack" /\ Attacked(s, r.st, i, a.inst)
  <2>1. r.st.turn = s.turn /\ r.st.round = s.round
    BY <1>3, <1>6, AttackSound
  <2> QED
    BY <1>1, <1>2, <1>3, <1>4, <1>6, <2>1 DEF r
<1>7. CASE a.type = "end_turn" /\ r = endTurn(s, i)
  <2> DEFINE o == Other(i)
             t == [s EXCEPT !.turn = o, !.round = s.round + 1]
  <2>1. s \in State /\ s.round \in Nat /\ o \in Seats
    BY <1>3 DEF GoodState, State, Seats, Other
  <2> HIDE DEF o
  <2>2. t \in State /\ t.turn = o /\ t.round = s.round + 1
    <3>1. s.round + 1 \in Nat
      BY <2>1
    <3>2. t \in State
      BY <2>1, <3>1 DEF State
    <3> QED
      BY <2>1, <3>2 DEF State
  <2>3. r.st = beginTurn(t, o)
    BY <1>7 DEF endTurn, Accept, o
  <2> HIDE DEF t
  <2>4. r.st.turn = o /\ r.st.round = s.round + 1
    BY <2>1, <2>2, <2>3, BeginTurnFields
  <2> QED
    BY <1>1, <1>2, <1>3, <1>4, <1>7, <2>4 DEF r, o
<1> QED
  BY <1>3, <1>5, <1>6, <1>7

-----------------------------------------------------------------------------
(***************************************************************************)
(* The cards: how many copies of each there are, and where.                *)
(***************************************************************************)
\* Sets between which a function is one to one and onto are of equal size.
LEMMA EqualSize ==
    ASSUME NEW S, NEW T, NEW f \in [S -> T], IsFiniteSet(S),
           \A a, b \in S : f[a] = f[b] => a = b,
           \A t \in T : \E a \in S : f[a] = t
    PROVE  IsFiniteSet(T) /\ Cardinality(T) = Cardinality(S)
<1>1. f \in Surjection(S, T) /\ f \in Injection(S, T)
  BY DEF Surjection, Injection, IsInjective
<1> QED
  BY <1>1, FS_Surjection

\* The places of a card in a sequence.
Places(xs, c) == {k \in DOMAIN xs : xs[k] = c}

LEMMA PlacesFinite ==
    ASSUME NEW xs \in Seq(CardID), NEW c
    PROVE  IsFiniteSet(Places(xs, c)) /\ Copies(xs, c) \in Nat
           /\ Copies(xs, c) = Cardinality(Places(xs, c))
<1>1. Places(xs, c) \in SUBSET (1 .. Len(xs)) /\ Len(xs) \in Nat
  BY DEF Places
<1>2. IsFiniteSet(1 .. Len(xs))
  BY <1>1, FS_Interval
<1>3. IsFiniteSet(Places(xs, c))
  BY <1>1, <1>2, FS_Subset
<1>4. Copies(xs, c) = Cardinality(Places(xs, c))
  BY DEF Copies, Places
<1> QED
  BY <1>3, <1>4, FS_CardinalityType

\* zs is xs followed by ys.
Joined(xs, ys, zs) ==
    /\ Len(zs) = Len(xs) + Len(ys)
    /\ \A k \in 1 .. Len(xs) : zs[k] = xs[k]
    /\ \A k \in 1 .. Len(ys) : zs[Len(xs) + k] = ys[k]

\* A sequence that is xs followed by ys has the copies of both.
LEMMA CopiesJoin ==
    ASSUME NEW xs \in Seq(CardID), NEW ys \in Seq(CardID), NEW zs \in Seq(CardID),
           Joined(xs, ys, zs), NEW c
    PROVE  Copies(zs, c) = Copies(xs, c) + Copies(ys, c)
<1> DEFINE m == Len(xs)
           n == Len(ys)
           B == {k \in m + 1 .. m + n : zs[k] = c}
           f == [k \in Places(ys, c) |-> m + k]
<1>1. /\ m \in Nat /\ n \in Nat /\ DOMAIN zs = 1 .. m + n
      /\ DOMAIN xs = 1 .. m /\ DOMAIN ys = 1 .. n
  BY DEF Joined
<1> HIDE DEF m, n
<1>2. /\ \A k \in 1 .. m : zs[k] = xs[k]
      /\ \A k \in 1 .. n : zs[m + k] = ys[k]
  BY DEF Joined, m, n
<1>3. Places(ys, c) \subseteq 1 .. n /\ Places(xs, c) \subseteq 1 .. m
  BY <1>1 DEF Places
<1>4. Places(zs, c) = Places(xs, c) \cup B /\ Places(xs, c) \cap B = {}
  BY <1>1, <1>2 DEF Places
<1>5. f \in [Places(ys, c) -> B]
  <2> SUFFICES ASSUME NEW k \in Places(ys, c)
               PROVE  m + k \in B
    OBVIOUS
  <2> QED
    BY <1>1, <1>2, <1>3 DEF Places
<1>6. \A a, b \in Places(ys, c) : f[a] = f[b] => a = b
  BY <1>1, <1>3
<1>7. ASSUME NEW t \in B
      PROVE  \E a \in Places(ys, c) : f[a] = t
  <2>1. t - m \in 1 .. n /\ t = m + (t - m)
    BY <1>1
  <2>2. t - m \in Places(ys, c)
    BY <1>1, <1>2, <2>1 DEF Places
  <2> QED
    BY <2>1, <2>2
<1> HIDE DEF B, f
<1>8. IsFiniteSet(B) /\ Cardinality(B) = Cardinality(Places(ys, c))
  BY <1>5, <1>6, <1>7, PlacesFinite, EqualSize
<1>9. IsFiniteSet(Places(xs, c)) /\ Cardinality(Places(xs, c)) \in Nat
  BY PlacesFinite, FS_CardinalityType
<1>10. Cardinality(Places(zs, c)) =
          Cardinality(Places(xs, c)) + Cardinality(B) - Cardinality(Places(xs, c) \cap B)
  BY <1>4, <1>8, <1>9, FS_Union
<1>11. Cardinality(Places(xs, c) \cap B) = 0
  BY <1>4, FS_EmptySet
<1>12. /\ Copies(xs, c) = Cardinality(Places(xs, c)) /\ Copies(ys, c) = Cardinality(Places(ys, c))
       /\ Copies(zs, c) = Cardinality(Places(zs, c)) /\ Copies(ys, c) \in Nat
  BY PlacesFinite
<1> QED
  BY <1>8, <1>9, <1>10, <1>11, <1>12

\* The copies of a card in the sequence of one card.
CopyOf(x, c) == Copies(<<x>>, c)

LEMMA OneCopy == \A x, c : CopyOf(x, c) = IF x = c THEN 1 ELSE 0
<1> TAKE x, c
<1>1. DOMAIN <<x>> = {1} /\ <<x>>[1] = x
  OBVIOUS
<1>2. CASE x = c
  <2>1. {k \in DOMAIN <<x>> : <<x>>[k] = c} = {1}
    BY <1>1, <1>2
  <2>2. Cardinality({1}) = 1
    BY FS_Singleton
  <2> QED
    BY <1>2, <2>1, <2>2 DEF CopyOf, Copies
<1>3. CASE x # c
  <2>1. {k \in DOMAIN <<x>> : <<x>>[k] = c} = {}
    BY <1>1, <1>3
  <2> QED
    BY <1>3, <2>1, FS_EmptySet DEF CopyOf, Copies
<1> QED
  BY <1>2, <1>3

\* Putting a card at the end adds its copy.
LEMMA CopiesAppend ==
    ASSUME NEW xs \in Seq(CardID), NEW x \in CardID, NEW c
    PROVE  Copies(Append(xs, x), c) = Copies(xs, c) + CopyOf(x, c)
<1> DEFINE zs == Append(xs, x)
<1>1. /\ zs \in Seq(CardID) /\ Len(zs) = Len(xs) + 1 /\ Len(xs) \in Nat
      /\ \A k \in 1 .. Len(xs) : zs[k] = xs[k]
      /\ zs[Len(xs) + 1] = x
  BY AppendProperties
<1>2. <<x>> \in Seq(CardID) /\ Len(<<x>>) = 1 /\ <<x>>[1] = x
  OBVIOUS
<1> HIDE DEF zs
<1>3. \A k \in 1 .. Len(<<x>>) : zs[Len(xs) + k] = <<x>>[k]
  <2>1. \A k \in 1 .. 1 : k = 1
    OBVIOUS
  <2> QED
    BY <1>1, <1>2, <2>1
<1> DEFINE y == <<x>>
<1>4. y \in Seq(CardID) /\ Joined(xs, y, zs)
  BY <1>1, <1>2, <1>3 DEF Joined
<1> HIDE DEF y
<1>5. Copies(zs, c) = Copies(xs, c) + Copies(y, c)
  BY <1>1, <1>4, CopiesJoin
<1> QED
  BY <1>5 DEF zs, y, CopyOf

\* A sequence has the copies of its head and of its tail.
LEMMA CopiesTail ==
    ASSUME NEW xs \in Seq(CardID), xs # <<>>, NEW c
    PROVE  Copies(xs, c) = CopyOf(Head(xs), c) + Copies(Tail(xs), c)
<1> DEFINE h == <<Head(xs)>>
           t == Tail(xs)
<1>1. /\ Head(xs) \in CardID /\ t \in Seq(CardID) /\ Len(t) = Len(xs) - 1
      /\ \A k \in 1 .. Len(t) : t[k] = xs[k + 1]
      /\ Head(xs) = xs[1] /\ Len(xs) \in Nat
  BY HeadTailProperties
<1>2. h \in Seq(CardID) /\ Len(h) = 1 /\ h[1] = xs[1]
  BY <1>1
<1> HIDE DEF h, t
<1>3. Len(xs) = Len(h) + Len(t)
  BY <1>1, <1>2
<1>4. \A k \in 1 .. Len(h) : xs[k] = h[k]
  <2>1. \A k \in 1 .. 1 : k = 1
    OBVIOUS
  <2> QED
    BY <1>2, <2>1
<1>5. \A k \in 1 .. Len(t) : xs[Len(h) + k] = t[k]
  <2>1. \A k \in 1 .. Len(t) : 1 + k = k + 1
    BY <1>1
  <2> QED
    BY <1>1, <1>2, <2>1
<1>6. Joined(h, t, xs)
  BY <1>3, <1>4, <1>5 DEF Joined
<1>7. Copies(xs, c) = Copies(h, c) + Copies(t, c)
  BY <1>1, <1>2, <1>6, CopiesJoin
<1> QED
  BY <1>7 DEF h, t, CopyOf

\* Two adjacent parts of a sequence have the copies of the whole.
LEMMA CopiesSplit ==
    ASSUME NEW xs \in Seq(CardID), NEW n \in 0 .. Len(xs), NEW c
    PROVE  Copies(xs, c) = Copies(SubSeq(xs, 1, n), c)
                           + Copies(SubSeq(xs, n + 1, Len(xs)), c)
<1> DEFINE a == SubSeq(xs, 1, n)
           b == SubSeq(xs, n + 1, Len(xs))
<1>1. Len(xs) \in Nat /\ n \in Nat /\ n <= Len(xs) /\ \A k \in 1 .. Len(xs) : xs[k] \in CardID
  BY ElementOfSeq
<1>2. /\ a \in Seq(CardID) /\ Len(a) = n
      /\ \A k \in 1 .. n : a[k] = xs[k]
  <2>1. \A k \in 1 .. n : xs[k] \in CardID
    BY <1>1
  <2>2. /\ a \in Seq(CardID) /\ Len(a) = IF 1 <= n THEN n - 1 + 1 ELSE 0
        /\ \A k \in 1 .. n - 1 + 1 : a[k] = xs[1 + k - 1]
    BY <1>1, <2>1, SubSeqProperties, SMTT(60)
  <2> HIDE DEF a
  <2>3. n - 1 + 1 = n /\ \A k \in 1 .. n : 1 + k - 1 = k
    BY <1>1, SMTT(60)
  <2> QED
    BY <1>1, <2>2, <2>3
<1>3. /\ b \in Seq(CardID) /\ Len(b) = Len(xs) - n
      /\ \A k \in 1 .. Len(xs) - n : b[k] = xs[n + k]
  <2>1. \A k \in n + 1 .. Len(xs) : xs[k] \in CardID
    BY <1>1
  <2>2. /\ b \in Seq(CardID)
        /\ Len(b) = IF n + 1 <= Len(xs) THEN Len(xs) - (n + 1) + 1 ELSE 0
        /\ \A k \in 1 .. Len(xs) - (n + 1) + 1 : b[k] = xs[n + 1 + k - 1]
    BY <1>1, <2>1, SubSeqProperties
  <2> HIDE DEF b
  <2>3. Len(xs) - (n + 1) + 1 = Len(xs) - n /\ \A k \in 1 .. Len(xs) - n : n + 1 + k - 1 = n + k
    BY <1>1
  <2> QED
    <3>1. Len(b) = Len(xs) - n
      BY <1>1, <2>2
    <3> QED
      BY <2>2, <2>3, <3>1
<1> HIDE DEF a, b
<1>4. Joined(a, b, xs)
  BY <1>1, <1>2, <1>3 DEF Joined
<1>5. Copies(xs, c) = Copies(a, c) + Copies(b, c)
  BY <1>2, <1>3, <1>4, CopiesJoin
<1> QED
  BY <1>5 DEF a, b

\* Taking out a card takes out one copy of it.
LEMMA CopiesRemoveAt ==
    ASSUME NEW xs \in Seq(CardID), NEW k \in 1 .. Len(xs), NEW c
    PROVE  Copies(xs, c) = Copies(RemoveAt(xs, k), c) + CopyOf(xs[k], c)
<1> DEFINE a == SubSeq(xs, 1, k - 1)
           r == SubSeq(xs, k - 1 + 1, Len(xs))
           b == SubSeq(xs, k + 1, Len(xs))
<1>1. /\ Len(xs) \in Nat /\ k \in Nat /\ 1 <= k /\ k <= Len(xs) /\ k - 1 + 1 = k
      /\ k - 1 \in 0 .. Len(xs) /\ \A j \in 1 .. Len(xs) : xs[j] \in CardID
  BY ElementOfSeq
<1>2. Copies(xs, c) = Copies(a, c) + Copies(r, c)
  BY <1>1, CopiesSplit
<1>3. r = SubSeq(xs, k, Len(xs))
  BY <1>1
<1>4. /\ r \in Seq(CardID) /\ r # <<>> /\ Head(r) = xs[k] /\ Tail(r) = b
  <2>1. \A j \in k .. Len(xs) : xs[j] \in CardID
    BY <1>1
  <2>2. SubSeq(xs, k, Len(xs)) \in Seq(CardID) /\ Len(SubSeq(xs, k, Len(xs))) > 0
    BY <1>1, <2>1, SubSeqProperties
  <2>3. Head(SubSeq(xs, k, Len(xs))) = xs[k] /\ Tail(SubSeq(xs, k, Len(xs))) = b
    BY <1>1, HeadTailOfSubSeq
  <2>4. SubSeq(xs, k, Len(xs)) # <<>>
    <3> DEFINE q == SubSeq(xs, k, Len(xs))
    <3>1. q \in Seq(CardID) /\ Len(q) > 0
      BY <2>2
    <3> HIDE DEF q
    <3>2. q # <<>>
      BY <3>1, EmptySeq
    <3> QED
      BY <3>2 DEF q
  <2> QED
    BY <1>3, <2>2, <2>3, <2>4
<1>5. Copies(r, c) = CopyOf(xs[k], c) + Copies(b, c)
  BY <1>4, CopiesTail
<1>6. a \in Seq(CardID) /\ b \in Seq(CardID)
  <2>1. \A j \in 1 .. k - 1 : xs[j] \in CardID
    BY <1>1
  <2>2. a \in Seq(CardID)
    BY <1>1, <2>1, SubSeqProperties
  <2>3. b \in Seq(CardID)
    BY <1>4, HeadTailProperties
  <2> QED
    BY <2>2, <2>3
<1>7. RemoveAt(xs, k) = a \o b
  BY DEF RemoveAt
<1> HIDE DEF a, b, r
<1>8. Copies(a \o b, c) = Copies(a, c) + Copies(b, c)
  <2>1. /\ a \o b \in Seq(CardID) /\ Len(a \o b) = Len(a) + Len(b)
        /\ \A j \in 1 .. Len(a) + Len(b) :
              (a \o b)[j] = IF j <= Len(a) THEN a[j] ELSE b[j - Len(a)]
    BY <1>6, ConcatProperties
  <2> DEFINE z == a \o b
  <2>2. Len(a) \in Nat /\ Len(b) \in Nat
    BY <1>6
  <2> HIDE DEF z
  <2>3. \A j \in 1 .. Len(a) : z[j] = a[j]
    BY <2>1, <2>2 DEF z
  <2>4. \A j \in 1 .. Len(b) : z[Len(a) + j] = b[j]
    <3> TAKE j \in 1 .. Len(b)
    <3>1. Len(a) + j \in 1 .. Len(a) + Len(b) /\ ~(Len(a) + j <= Len(a)) /\ Len(a) + j - Len(a) = j
      BY <2>2
    <3> QED
      BY <2>1, <3>1 DEF z
  <2>5. z \in Seq(CardID) /\ Joined(a, b, z)
    BY <2>1, <2>3, <2>4 DEF Joined, z
  <2>6. Copies(z, c) = Copies(a, c) + Copies(b, c)
    BY <1>6, <2>5, CopiesJoin
  <2> QED
    BY <2>6 DEF z
<1>9. /\ Copies(a, c) \in Nat /\ Copies(b, c) \in Nat /\ CopyOf(xs[k], c) \in Nat
  <2>1. <<xs[k]>> \in Seq(CardID)
    BY <1>1
  <2> QED
    BY <1>6, <2>1, PlacesFinite DEF CopyOf
<1> QED
  BY <1>2, <1>5, <1>7, <1>8, <1>9

\* A shuffle keeps the copies of every card.
LEMMA CopiesShuffle ==
    ASSUME NEW d \in Seq(CardID), NEW e \in Shuffles(d), NEW c
    PROVE  Copies(e, c) = Copies(d, c)
<1>1. PICK f \in Bijection(DOMAIN d, DOMAIN d) : e = [k \in DOMAIN d |-> d[f[k]]]
  BY DEF Shuffles
<1>2. /\ f \in [DOMAIN d -> DOMAIN d]
      /\ \A a, b \in DOMAIN d : f[a] = f[b] => a = b
      /\ \A t \in DOMAIN d : \E a \in DOMAIN d : f[a] = t
  BY <1>1 DEF Bijection, Injection, Surjection, IsInjective
<1>3. e \in Seq(CardID) /\ DOMAIN e = DOMAIN d
  BY <1>1, ShuffleKeeps
<1> DEFINE g == [k \in Places(e, c) |-> f[k]]
<1>4. g \in [Places(e, c) -> Places(d, c)]
  BY <1>1, <1>2, <1>3 DEF Places
<1>5. \A a, b \in Places(e, c) : g[a] = g[b] => a = b
  BY <1>2, <1>3 DEF Places
<1>6. \A t \in Places(d, c) : \E a \in Places(e, c) : g[a] = t
  BY <1>1, <1>2, <1>3 DEF Places
<1> HIDE DEF g
<1>7. Cardinality(Places(d, c)) = Cardinality(Places(e, c))
  BY <1>3, <1>4, <1>5, <1>6, PlacesFinite, EqualSize
<1> QED
  BY <1>3, <1>7, PlacesFinite

\* The copies of a card that a player holds: in his hand and in his deck.
Held(p, c) == Copies(p.hand, c) + Copies(p.deck, c)

\* Drawing, or failing to, keeps what the player holds.
LEMMA RefreshHolds ==
    ASSUME NEW p \in Player, NEW c
    PROVE  Held(Refresh(p), c) = Held(p, c)
<1>1. p.hand \in Seq(CardID) /\ p.deck \in Seq(CardID)
  BY DEF Player
<1>2. CASE p.deck = <<>>
  <2>1. Refresh(p).hand = p.hand /\ Refresh(p).deck = p.deck
    BY <1>2, RefreshFields
  <2> QED
    BY <2>1 DEF Held
<1>3. CASE p.deck # <<>>
  <2>1. /\ Refresh(p).hand = Append(p.hand, Head(p.deck))
        /\ Refresh(p).deck = Tail(p.deck)
    BY <1>3 DEF Refresh, Draw, Player
  <2>2. Head(p.deck) \in CardID /\ Tail(p.deck) \in Seq(CardID)
    BY <1>1, <1>3, HeadTailProperties
  <2>3. <<Head(p.deck)>> \in Seq(CardID)
    BY <2>2
  <2>4. /\ Copies(Refresh(p).hand, c) = Copies(p.hand, c) + CopyOf(Head(p.deck), c)
        /\ Copies(p.deck, c) = CopyOf(Head(p.deck), c) + Copies(Refresh(p).deck, c)
    BY <1>1, <1>3, <2>1, <2>2, CopiesAppend, CopiesTail
  <2>5. /\ Copies(p.hand, c) \in Nat /\ CopyOf(Head(p.deck), c) \in Nat
        /\ Copies(Refresh(p).deck, c) \in Nat
    BY <1>1, <2>1, <2>2, <2>3, PlacesFinite DEF CopyOf
  <2> QED
    BY <2>4, <2>5 DEF Held
<1> QED
  BY <1>2, <1>3

\* Dealing splits the shuffled deck.
LEMMA DealHolds ==
    ASSUME NEW d \in Seq(CardID), Dealable(d), NEW c
    PROVE  Deal(d) \in Player /\ Held(Deal(d), c) = Copies(d, c)
<1>1. /\ StartHP \in Nat /\ HandStart \in Nat /\ Len(d) \in Nat /\ HandStart < Len(d)
      /\ \A k \in 1 .. Len(d) : d[k] \in CardID
  BY RulesConstants, ElementOfSeq DEF Dealable
<1>2. SubSeq(d, 1, HandStart) \in Seq(CardID) /\ SubSeq(d, HandStart + 1, Len(d)) \in Seq(CardID)
  <2>1. /\ \A k \in 1 .. HandStart : d[k] \in CardID
        /\ \A k \in HandStart + 1 .. Len(d) : d[k] \in CardID
    BY <1>1
  <2> QED
    BY <1>1, <2>1, SubSeqProperties
<1>3. Deal(d) \in Player
  BY <1>1, <1>2 DEF Deal, Player
<1>4. HandStart \in 0 .. Len(d)
  BY <1>1
<1>5. Copies(d, c) = Copies(SubSeq(d, 1, HandStart), c)
                     + Copies(SubSeq(d, HandStart + 1, Len(d)), c)
  BY <1>4, CopiesSplit
<1> QED
  BY <1>3, <1>5 DEF Held, Deal

\* A turn that ends keeps what both players hold.
LEMMA BeginTurnHolds ==
    ASSUME NEW s \in State, NEW i \in Seats, NEW k \in Seats, NEW c
    PROVE  Held(beginTurn(s, i).players[k], c) = Held(s.players[k], c)
<1>1. s.players[k] \in Player /\ (k = i \/ k = Other(i))
  BY DEF State, Seats, Other
<1>2. /\ beginTurn(s, i).players[i] = Refresh(s.players[i])
      /\ beginTurn(s, i).players[Other(i)] = s.players[Other(i)]
  BY BeginTurnFields
<1> QED
  BY <1>1, <1>2, RefreshHolds

\* At the start of a game every card of a deck is held.
LEMMA NewStateHolds ==
    ASSUME NEW deal \in [Seats -> Seq(CardID)], \A i \in Seats : Dealable(deal[i]),
           NEW i \in Seats, NEW c
    PROVE  Held(NewState(deal).players[i], c) = Copies(deal[i], c)
<1> DEFINE s == [players |-> [k \in Seats |-> Deal(deal[k])], turn |-> 0,
                 round |-> 1, over |-> FALSE, winner |-> Nobody, nextInstID |-> 0]
<1>1. \A k \in Seats : Deal(deal[k]) \in Player
  BY DealHolds
<1>2. s \in State /\ s.players[i] = Deal(deal[i]) /\ NewState(deal) = beginTurn(s, 0)
      /\ 0 \in Seats
  BY <1>1 DEF State, Seats, Nobody, NewState
<1> HIDE DEF s
<1>3. Held(beginTurn(s, 0).players[i], c) = Held(s.players[i], c)
  BY <1>2, BeginTurnHolds
<1>4. Held(Deal(deal[i]), c) = Copies(deal[i], c)
  BY DealHolds
<1> QED
  BY <1>2, <1>3, <1>4

\* The assignments of playCard: to the board in Summon, then to mana and hand.
Boarded(s, i, n, b) == [s EXCEPT !.nextInstID = n, !.players[i].board = b]
Settled(s, i, l, h) == [s EXCEPT !.players[i].mana = l, !.players[i].hand = h]

LEMMA HandReplaced ==
    ASSUME NEW s \in State, NEW i \in Seats, NEW n, NEW b, NEW l, NEW h
    PROVE  Settled(Boarded(s, i, n, b), i, l, h).players[i].hand = h
<1> DEFINE u == Boarded(s, i, n, b)
           t == Settled(u, i, l, h)
           p == s.players[i]
           q == [p EXCEPT !.board = b]
           r == [[q EXCEPT !.mana = l] EXCEPT !.hand = h]
<1>1. p \in Player /\ DOMAIN s.players = Seats
  BY DEF State
<1>2. r.hand = h
  <2>1. DOMAIN p = {"hp", "mana", "maxMana", "deck", "hand", "board", "fatigue"}
    BY <1>1 DEF Player
  <2>2. "hand" \in DOMAIN [q EXCEPT !.mana = l]
    BY <2>1
  <2> QED
    BY <2>2
<1>3. DOMAIN s = {"players", "turn", "round", "over", "winner", "nextInstID"}
  BY DEF State
<1> DEFINE v == [s.players EXCEPT ![i] = q]
<1>4. u = [[s EXCEPT !.nextInstID = n] EXCEPT !.players = v] /\ u.players = v
  BY <1>3 DEF Boarded
<1>5. "players" \in DOMAIN u /\ DOMAIN v = Seats /\ v[i] = q
  BY <1>1, <1>3, <1>4
<1>6. t = [u EXCEPT !.players = [v EXCEPT ![i] = r]]
  <2>1. t = [u EXCEPT !.players = [u.players EXCEPT ![i] =
                [[u.players[i] EXCEPT !.mana = l] EXCEPT !.hand = h]]]
    BY <1>5, ZenonT(60) DEF Settled
  <2> QED
    BY <1>4, <1>5, <2>1
<1> HIDE DEF v, r, u, t
<1>7. t.players = [v EXCEPT ![i] = r]
  BY <1>5, <1>6
<1> QED
  BY <1>2, <1>5, <1>7 DEF u, t

\* An accepted play_card takes one card, the one it names, out of the hand.
LEMMA PlayCardTakes ==
    ASSUME NEW s \in State, NEW i \in Seats, NEW c, playCard(s, i, c).err = "ok"
    PROVE  \E k \in 1 .. Len(s.players[i].hand) :
              /\ s.players[i].hand[k] = c
              /\ playCard(s, i, c).st.players[i].hand = RemoveAt(s.players[i].hand, k)
<1> DEFINE p == s.players[i]
           hi == indexOfString(p.hand, c)
           h == RemoveAt(p.hand, hi)
           left == p.mana - Catalog[c].cost
           u == Summon(s, i, c)
           r == playCard(s, i, c)
<1>1. p \in Player /\ p.hand \in Seq(CardID)
  BY DEF State, Player
<1>2. /\ hi # 0 /\ u.err = "ok"
      /\ r = Accept([u.st EXCEPT !.players[i].mana = left, !.players[i].hand = h])
  <2>1. hi # 0 /\ Known(c) /\ ~(p.mana < Catalog[c].cost)
    BY DEF playCard, fail
  <2>2. u.err = "ok"
    BY <2>1 DEF playCard
  <2> QED
    BY <2>1, <2>2 DEF playCard
<1>3. u.st = Summoned(s, i, c)
  BY <1>2, SummonOutcome
<1>4. r.st = [u.st EXCEPT !.players[i].mana = left, !.players[i].hand = h]
  BY <1>2 DEF Accept
<1>5. hi \in 1 .. Len(p.hand) /\ p.hand[hi] = c
  BY <1>1, <1>2, IndexInRange
<1> DEFINE n == s.nextInstID + 1
           b == p.board \cup {NewMinion(s, c)}
<1>6. u.st = [s EXCEPT !.nextInstID = n, !.players[i].board = b]
  BY <1>3 DEF Summoned
<1>7. r.st.players[i].hand = h
  <2>1. u.st = Boarded(s, i, n, b) /\ r.st = Settled(u.st, i, left, h)
    BY <1>4, <1>6 DEF Boarded, Settled
  <2> HIDE DEF r, left, h, u, n, b
  <2> QED
    BY <2>1, HandReplaced
<1> HIDE DEF r, h
<1> QED
  BY <1>5, <1>7 DEF h, r

\* What an accepted action does to the cards of both players: play_card takes the
\* card it names from whoever plays it, and nothing else takes or gives any.
LEMMA ApplyHolds ==
    ASSUME NEW s, NEW played \in [Seats -> Nat], GoodState(s, played),
           NEW i \in Seats \cup {Nobody}, NEW a \in Action, Apply(s, i, a).err = "ok",
           NEW j \in Seats, NEW x
    PROVE  LET t == Apply(s, i, a).st
           IN  /\ Held(s.players[j], x)
                  = Held(t.players[j], x)
                    + (IF a.type = "play_card" /\ j = i THEN CopyOf(a.card, x) ELSE 0)
               /\ Held(t.players[j], x) \in Nat
<1> DEFINE t == Apply(s, i, a).st
<1>1. /\ ~s.over /\ i = s.turn /\ i \in Seats
      /\ \/ a.type = "play_card" /\ CardPlayed(s, t, i, a.card)
         \/ a.type = "attack" /\ Attacked(s, t, i, a.inst)
         \/ a.type = "end_turn" /\ Apply(s, i, a) = endTurn(s, i)
  BY ApplyOutcome
<1>2. s \in State /\ t \in State
  BY ApplyAccepts DEF GoodState
<1>3. /\ Held(t.players[j], x) \in Nat
      /\ \A k \in Seats : /\ s.players[k].hand \in Seq(CardID)
                           /\ s.players[k].deck \in Seq(CardID)
                           /\ t.players[k].hand \in Seq(CardID)
                           /\ t.players[k].deck \in Seq(CardID)
  <2>1. \A k \in Seats : s.players[k] \in Player /\ t.players[k] \in Player
    BY <1>2 DEF State
  <2>2. \A k \in Seats : /\ s.players[k].hand \in Seq(CardID)
                         /\ s.players[k].deck \in Seq(CardID)
                         /\ t.players[k].hand \in Seq(CardID)
                         /\ t.players[k].deck \in Seq(CardID)
    BY <2>1 DEF Player
  <2>3. Copies(t.players[j].hand, x) \in Nat /\ Copies(t.players[j].deck, x) \in Nat
    BY <2>2, PlacesFinite
  <2> QED
    BY <2>2, <2>3 DEF Held
<1>4. CASE a.type = "play_card" /\ CardPlayed(s, t, i, a.card)
  <2>1. t = playCard(s, i, a.card).st /\ playCard(s, i, a.card).err = "ok"
    BY <1>1, <1>4 DEF Apply
  <2>2. /\ t.players[i].deck = s.players[i].deck
        /\ t.players[Other(i)] = s.players[Other(i)]
    BY <1>4 DEF CardPlayed
  <2> HIDE DEF t
  <2>3. PICK k \in 1 .. Len(s.players[i].hand) :
              /\ s.players[i].hand[k] = a.card
              /\ t.players[i].hand = RemoveAt(s.players[i].hand, k)
    BY <1>1, <1>2, <2>1, PlayCardTakes
  <2>4. CASE j = i
    <3>1. Copies(s.players[i].hand, x) = Copies(t.players[i].hand, x) + CopyOf(a.card, x)
      BY <1>1, <1>3, <2>3, CopiesRemoveAt
    <3>2. /\ Copies(t.players[i].hand, x) \in Nat /\ Copies(s.players[i].deck, x) \in Nat
          /\ CopyOf(a.card, x) \in Nat
      <4>1. <<a.card>> \in Seq(CardID)
        BY DEF Action
      <4> QED
        BY <1>1, <1>3, <4>1, PlacesFinite DEF CopyOf
    <3>3. Held(s.players[j], x) = Held(t.players[j], x) + CopyOf(a.card, x)
      BY <2>2, <2>4, <3>1, <3>2 DEF Held
    <3> QED
      BY <1>3, <1>4, <2>4, <3>3 DEF t
  <2>5. CASE j # i
    <3>1. j = Other(i)
      BY <1>1, <2>5 DEF Seats, Other
    <3> QED
      BY <1>3, <2>2, <2>5, <3>1 DEF t
  <2> QED
    BY <2>4, <2>5
<1>5. CASE a.type = "attack" /\ Attacked(s, t, i, a.inst)
  <2>1. PICK u : Struck(s, u, i, a.inst) /\ t = checkOver(u)
    BY <1>5 DEF Attacked
  <2>2. t.players = u.players
    BY <2>1, CheckOverFields DEF Struck
  <2>3. /\ u.players[j].hand = s.players[j].hand
        /\ u.players[j].deck = s.players[j].deck
    BY <2>1 DEF Struck, SameBooks
  <2> QED
    BY <1>3, <1>5, <2>2, <2>3 DEF Held
<1>6. CASE a.type = "end_turn" /\ Apply(s, i, a) = endTurn(s, i)
  <2> DEFINE u == [s EXCEPT !.turn = Other(i), !.round = s.round + 1]
  <2>1. t = beginTurn(u, Other(i)) /\ Other(i) \in Seats
    BY <1>1, <1>6 DEF endTurn, Accept, Seats, Other
  <2>2. u \in State /\ u.players = s.players
    <3>1. s.round + 1 \in Nat
      BY <1>2 DEF State
    <3> QED
      BY <1>2, <2>1, <3>1 DEF State
  <2> HIDE DEF u, t
  <2>3. Held(t.players[j], x) = Held(s.players[j], x)
    BY <2>1, <2>2, BeginTurnHolds
  <2> QED
    BY <1>3, <1>6, <2>3 DEF t
<1> QED
  BY <1>1, <1>4, <1>5, <1>6

=============================================================================
