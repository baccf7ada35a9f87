------------------------------- MODULE MCRoom -------------------------------
(***************************************************************************)
(* A room with a game of at most four plies: seat 0 has two cards, seat 1  *)
(* one, and a player dies of the first blow or of the first empty draw.    *)
(***************************************************************************)
EXTENDS Room

MCCardID == {"slime"}
MCCatalog == [c \in MCCardID |-> [type |-> "minion", cost |-> 1, atk |-> 1, hp |-> 1]]
MCInitDecks == [i \in Seats |-> IF i = 0 THEN <<"slime", "slime">> ELSE <<"slime">>]

Request(t, id, target) == [type |-> t, card |-> "slime", inst |-> id, target |-> target]

MCRequests == {Request("play_card", 0, 0), Request("end_turn", 0, 0),
               Request("attack", 1, Face), Request("attack", 1, 2)}

=============================================================================
