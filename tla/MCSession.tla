----------------------------- MODULE MCSession -----------------------------
(***************************************************************************)
(* Two connections, either of which may replace the other or come after    *)
(* it, with room for one message each.  One of them queues and joins a     *)
(* room, the other one sends what needs neither; or both join.             *)
(***************************************************************************)
EXTENDS Session

CONSTANTS c1, c2

MCConn == {c1, c2}
MCRequests ==
    [c \in MCConn |-> IF c = c1 THEN {"join", "enqueue"}
                      ELSE {"other", "dequeue"}]
MCJoins == [c \in MCConn |-> {"join"}]

=============================================================================
