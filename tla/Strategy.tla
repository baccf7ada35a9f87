------------------------------ MODULE Strategy ------------------------------
(***************************************************************************)
(* The robot's play: chooseAction of scripts/bot, which sees only its view *)
(* of the game.                                                            *)
(***************************************************************************)
EXTENDS Battle

\* Fault: a full board is not minded.
Plays_Fault(v) ==
    {Act("play_card", c, 0, 0) : c \in {c \in DOMAIN Catalog :
        /\ \E k \in DOMAIN v.me.hand : v.me.hand[k] = c
        /\ Catalog[c].type = "minion" /\ Catalog[c].cost <= v.me.mana}}

\* The minions in the hand that can be paid for, while the board has room.
Plays(v) ==
    {Act("play_card", c, 0, 0) : c \in {c \in DOMAIN Catalog :
        /\ Cardinality(v.me.board) < BoardLimit
        /\ \E k \in DOMAIN v.me.hand : v.me.hand[k] = c
        /\ Catalog[c].type = "minion" /\ Catalog[c].cost <= v.me.mana}}

\* Every minion that can attack, against the face and against every opponent.
Attacks(v) ==
    LET ready == {m \in v.me.board : m.canAttack /\ m.atk > 0}
        targets == {Face} \cup {o.inst : o \in v.opp.board}
    IN  {Act("attack", NoCard, x[1].inst, x[2]) : x \in ready \X targets}

\* What chooseAction draws from.
Candidates(v) ==
    LET cands == Plays(v) \cup Attacks(v)
    IN  IF cands = {} THEN {Act("end_turn", NoCard, 0, 0)} ELSE cands

-----------------------------------------------------------------------------
\* "Pick a legal action": whatever state the game is in, also one that no robot
\* would have brought about, Apply accepts every candidate.
MovesLegal ==
    ~battle.over =>
        \A a \in Candidates(ViewFor(battle, battle.turn)) :
            Apply(battle, battle.turn, a).err = "ok"

=============================================================================
