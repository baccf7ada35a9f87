------------------------------ MODULE MCBattle ------------------------------
(***************************************************************************)
(* A small game for TLC.  The second deck holds a card that the table does *)
(* not know: NewState accepts it, as when an old report is replayed with a *)
(* newer card table.                                                       *)
(***************************************************************************)
EXTENDS Strategy

MCCardID == {"slime", "egg", "bolt", "gone"}

MCCatalog ==
    [c \in {"slime", "egg", "bolt"} |->
        CASE c = "slime" -> [type |-> "minion", cost |-> 1, atk |-> 1, hp |-> 2]
          [] c = "egg"   -> [type |-> "minion", cost |-> 0, atk |-> 0, hp |-> 1]
          [] c = "bolt"  -> [type |-> "spell", cost |-> 1, atk |-> 0, hp |-> 0]]

MCInitDecks ==
    [i \in Seats |-> IF i = 0 THEN <<"slime", "egg", "bolt">>
                              ELSE <<"slime", "slime", "gone">>]

=============================================================================
