------------------------------- MODULE Reports -------------------------------
(***************************************************************************)
(* battle_reports as rooms fill it and GET /reports lists it.  Rooms end   *)
(* in any order, so the rows do not come in the order of started_at, and   *)
(* two matches may start in the same millisecond.                          *)
(***************************************************************************)
EXTENDS Integers, FiniteSets, Sequences, SequencesExt

CONSTANTS
    Player,
    Room,
    Time,            \* values of started_at
    Limits,          \* values of ?limit=, 0 for none or nonsense
    DefaultLimit,    \* 20
    MaxLimit,        \* 100
    Nobody           \* winner = ''

VARIABLE rows    \* battle_reports

Row == {r \in [room_id : Room, player_a : Player, player_b : Player, started_at : Time,
               winner : Player \cup {Nobody}, end_reason : {"finished", "aborted"}] :
            /\ r.player_a # r.player_b
            /\ r.winner \in {r.player_a, r.player_b, Nobody}
            /\ r.end_reason # "finished" => r.winner = Nobody}

Init == rows = {}

\* UNIQUE KEY uk_room.
Unique(row) == \A r \in rows : r.room_id # row.room_id

\* SaveBattleReport; a duplicate INSERT fails, is logged and changes nothing.
SaveBattleReport(row) ==
    rows' = IF Unique(row) THEN rows \cup {row} ELSE rows

\* ORDER BY started_at DESC LIMIT n: ties are in any order.
Newest(S, n) ==
    {[i \in 1 .. (IF n < Len(s) THEN n ELSE Len(s)) |-> s[i]] :
        s \in {s \in SetToSeqs(S) : \A i, j \in DOMAIN s :
                                       i < j => s[i].started_at >= s[j].started_at}}

\* Fault: each half is cut to half of the limit.
Query_Fault(player, n) ==
    UNION {Newest(ToSet(as) \cup ToSet(bs), n) :
              as \in Newest({r \in rows : r.player_a = player}, (n + 1) \div 2),
              bs \in Newest({r \in rows : r.player_b = player}, (n + 1) \div 2)}

\* Reports.ListReports: the newest n where the player went first, and the
\* newest n where not, and the newest n of them all.
Query(player, n) ==
    UNION {Newest(ToSet(as) \cup ToSet(bs), n) :
              as \in Newest({r \in rows : r.player_a = player}, n),
              bs \in Newest({r \in rows : r.player_b = player}, n)}

\* ?limit=: a positive number, at most MaxLimit.
LimitOf(v) == IF v <= 0 THEN DefaultLimit ELSE IF v < MaxLimit THEN v ELSE MaxLimit

Result(x, me) ==
    IF x.end_reason # "finished" THEN "unfinished"
    ELSE IF x.winner = Nobody THEN "draw"
    ELSE IF x.winner = me THEN "win" ELSE "lose"

Item(x, me) ==
    [room_id |-> x.room_id, result |-> Result(x, me), started_at |-> x.started_at,
     opponent |-> IF x.player_a = me THEN x.player_b ELSE x.player_a,
     first_hand |-> x.player_a = me]

\* Server.ListReports with a good token, which changes nothing: the lists it may
\* answer with.  (A failed query answers 500.)
ListReports(me, v) ==
    {[i \in DOMAIN found |-> Item(found[i], me)] : found \in Query(me, LimitOf(v))}

Next == \E row \in Row : SaveBattleReport(row)

Spec == Init /\ [][Next]_rows

-----------------------------------------------------------------------------
\* The reference for what the list should be.
Mine(me) == {r \in rows : me \in {r.player_a, r.player_b}}

\* The list is the player's newest matches, newest first, each once, as many as
\* there are up to the limit, though the query cuts both of its halves before it
\* joins them.
ListIsNewest ==
    \A me \in Player, v \in Limits : \A items \in ListReports(me, v) :
        LET listed == {items[i].room_id : i \in DOMAIN items}
            mine == Mine(me)
        IN  /\ Cardinality(listed) = Len(items)
            /\ listed \subseteq {r.room_id : r \in mine}
            /\ Len(items) = IF Cardinality(mine) < LimitOf(v) THEN Cardinality(mine)
                            ELSE LimitOf(v)
            /\ \A i, j \in DOMAIN items :
                  i < j => items[i].started_at >= items[j].started_at
            /\ \A r \in mine, i \in DOMAIN items :
                  r.room_id \notin listed => r.started_at <= items[i].started_at

=============================================================================
