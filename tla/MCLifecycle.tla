----------------------------- MODULE MCLifecycle -----------------------------
(***************************************************************************)
(* Three pairs: a room that ends before the shutdown, one that is aborted  *)
(* by it, and one that is being created meanwhile.                         *)
(***************************************************************************)
EXTENDS Lifecycle
=============================================================================
