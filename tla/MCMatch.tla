------------------------------ MODULE MCMatch ------------------------------
(***************************************************************************)
(* The first player enqueues with one of two scores, on either side of the *)
(* second; only the higher one brings him near the third.  Players a score *)
(* apart may be paired once one of them has waited a second.               *)
(***************************************************************************)
EXTENDS Match

CONSTANTS p1, p2, p3

MCPlayer == {p1, p2, p3}
MCScores == [p \in MCPlayer |-> CASE p = p1 -> {0, 2} [] p = p2 -> {1} [] p = p3 -> {3}]

=============================================================================
