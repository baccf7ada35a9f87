------------------------------- MODULE MCWeb -------------------------------
(***************************************************************************)
(* Two accounts, one of them with a password that bcrypt cannot hash; two  *)
(* addresses, a token every two ticks, and buckets that are full before    *)
(* they are idle, as with one login a second (10 s against 10 min.); card  *)
(* tables of five cards, the same five with another value, four cards of   *)
(* which one is new, and tables that do not load.  The decks that clients  *)
(* send are valid under some of these tables, or under none.               *)
(***************************************************************************)
EXTENDS Web

CONSTANTS u1, u2, p1, p2

MCReal == [u \in {u1, u2} |-> IF u = u1 THEN p1 ELSE p2]

Minion(id, hp) == [id |-> id, name |-> id, type |-> "minion", cost |-> 1, hp |-> hp,
                   atk |-> 1, damage |-> 0, heal |-> 0]
Spell(id, damage) == [id |-> id, name |-> id, type |-> "spell", cost |-> 1, hp |-> 0,
                      atk |-> 0, damage |-> damage, heal |-> 0]
Five(hp) == <<Minion("a", hp), Minion("b", 2), Minion("c", 2), Spell("d", 1), Spell("e", 1)>>
Four == <<Minion("a", 1), Minion("b", 2), Minion("c", 2), Spell("f", 1)>>
Bad == {<<>>, <<Minion("a", 1), Spell("a", 1)>>, <<Spell("a", 0)>>}

MCCardFile == {Five(1), Five(2), Four} \cup Bad

Of(ids, n) == [id \in ids |-> n]
MCRequest == {Of({"b", "c", "d", "e"}, 2), Of({"a", "b", "c", "f"}, 2),
              Of({"a", "b", "c", "d"}, 3), Of({"a", "b"}, 2)}
=============================================================================
