------------------------------ MODULE MCTools ------------------------------
(***************************************************************************)
(* Three workers and four reports, of which one may differ on replay and   *)
(* one was played with other cards; a game of up to three turns of two     *)
(* moves; three robots with two games each.                                *)
(***************************************************************************)
EXTENDS Tools

MCVerdicts == [id \in Ids |-> CASE id = "r1" -> {"mismatch", "ok"}
                                [] id = "r2" -> {"cards_changed"}
                                [] OTHER -> {"ok", "ok_legacy"}]
=============================================================================
