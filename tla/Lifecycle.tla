------------------------------ MODULE Lifecycle ------------------------------
(***************************************************************************)
(* The server from the first match to its exit: run and OnMatch in         *)
(* server/main.go, with room.Manager.  Three kinds of goroutines step      *)
(* independently: the main one, the matcher (nobody waits for it) and one  *)
(* for each room.  What happens inside a room is Room's, how pairs are     *)
(* found Match's, and which decks they play Cards'.                        *)
(***************************************************************************)
EXTENDS Integers, FiniteSets

CONSTANT Room    \* the room ids: one for each pair the matcher may find

ASSUME RoomsFinite == IsFiniteSet(Room)

VARIABLES
    ctxDone,    \* the signal context is cancelled
    main,       \* where run is
    matcher,    \* where the matcher is: [pc, room]
    table,      \* Manager.rooms
    wg,         \* Manager.wg
    room,       \* where each room's goroutine is
    started,    \* the rooms whose match has begun
    report,     \* what became of each room's report
    db,         \* is the database open?
    told,       \* the rooms whose players got match_found or start_failed
    awaited     \* history: the rooms whose Create had returned when Wait did

vars == <<ctxDone, main, matcher, table, wg, room, started, report, db, told, awaited>>

Idle == [pc |-> "select", room |-> "none"]

Init ==
    /\ ctxDone = FALSE /\ main = "serving" /\ matcher = Idle
    /\ table = {} /\ wg = 0
    /\ room = [r \in Room |-> "none"]
    /\ started = {} /\ report = [r \in Room |-> "none"]
    /\ db = "open" /\ told = {} /\ awaited = {}

\* When run has returned, main does, and every goroutine is gone.
Alive == main # "exited"

-----------------------------------------------------------------------------
(***************************************************************************)
(* The matcher: Manager.Run and OnMatch.                                   *)
(***************************************************************************)
MatcherOnly == UNCHANGED <<ctxDone, main, started, report, db, awaited>>

\* A pair has left the queue.  After the cancellation no command to Redis
\* works, but what was found before it is still handed to OnMatch.
Match(r) ==
    /\ Alive /\ ~ctxDone
    /\ matcher = Idle /\ room[r] = "none" /\ r \notin told
    /\ matcher' = [pc |-> "decks", room |-> r]
    /\ UNCHANGED <<table, wg, room, told>> /\ MatcherOnly

StopMatching ==
    /\ Alive /\ ctxDone /\ matcher = Idle
    /\ matcher' = [matcher EXCEPT !.pc = "stopped"]
    /\ UNCHANGED <<table, wg, room, told>> /\ MatcherOnly

At(pc) == Alive /\ matcher.pc = pc

\* Fault: the error is only logged.
StartFails_Fault ==
    /\ At("decks")
    /\ matcher' = Idle
    /\ UNCHANGED <<table, wg, room, told>> /\ MatcherOnly

\* NewState fails: both players are sent start_failed.
StartFails ==
    /\ At("decks")
    /\ told' = told \cup {matcher.room}
    /\ matcher' = Idle
    /\ UNCHANGED <<table, wg, room>> /\ MatcherOnly

\* Manager.Create puts the room into the table ...
Insert ==
    /\ At("decks")
    /\ table' = table \cup {matcher.room}
    /\ matcher' = [matcher EXCEPT !.pc = "spawn"]
    /\ UNCHANGED <<wg, room, told>> /\ MatcherOnly

\* ... and then counts and starts its goroutine.
Spawn ==
    /\ At("spawn")
    /\ wg' = wg + 1
    /\ room' = [room EXCEPT ![matcher.room] = "running"]
    /\ matcher' = [matcher EXCEPT !.pc = "notify"]
    /\ UNCHANGED <<table, told>> /\ MatcherOnly

NotifyMatch ==
    /\ At("notify")
    /\ told' = told \cup {matcher.room}
    /\ matcher' = Idle
    /\ UNCHANGED <<table, wg, room>> /\ MatcherOnly

-----------------------------------------------------------------------------
(***************************************************************************)
(* A room's goroutine.                                                     *)
(***************************************************************************)
RoomAt(r, pc) == Alive /\ room[r] = pc
RoomOnly == UNCHANGED <<ctxDone, main, matcher, db, told, awaited>>

\* Both players have joined.
Start(r) ==
    /\ RoomAt(r, "running") /\ r \in told
    /\ started' = started \cup {r}
    /\ UNCHANGED <<table, wg, room, report>> /\ RoomOnly

\* Room.Run returns through finish: a match that has begun is reported.
EndRoom(r) ==
    /\ room' = [room EXCEPT ![r] = IF r \in started THEN "report" ELSE "remove"]
    /\ UNCHANGED <<table, wg, started, report>> /\ RoomOnly

\* It was won, abandoned by both players, or crashed: also before both had joined.
Finish(r) == RoomAt(r, "running") /\ EndRoom(r)

\* It was aborted by the cancellation.
Abort(r) == RoomAt(r, "running") /\ ctxDone /\ EndRoom(r)

\* saveReport with a context of its own: written, or failed and logged, within
\* three seconds; when the database is closed there is no hope.
SaveReport(r) ==
    /\ RoomAt(r, "report")
    /\ \E outcome \in (IF db = "open" THEN {"saved", "failed"} ELSE {"lost"}) :
          report' = [report EXCEPT ![r] = outcome]
    /\ room' = [room EXCEPT ![r] = "remove"]
    /\ UNCHANGED <<table, wg, started>> /\ RoomOnly

Remove(r) ==
    /\ RoomAt(r, "remove")
    /\ table' = table \ {r}
    /\ room' = [room EXCEPT ![r] = "release"]
    /\ UNCHANGED <<wg, started, report>> /\ RoomOnly

\* Fault: a room that nobody began is not counted down.
Release_Fault(r) ==
    /\ RoomAt(r, "release")
    /\ wg' = IF r \in started THEN wg - 1 ELSE wg
    /\ room' = [room EXCEPT ![r] = "done"]
    /\ UNCHANGED <<table, started, report>> /\ RoomOnly

\* The deferred wg.Done.
Release(r) ==
    /\ RoomAt(r, "release")
    /\ wg' = wg - 1
    /\ room' = [room EXCEPT ![r] = "done"]
    /\ UNCHANGED <<table, started, report>> /\ RoomOnly

-----------------------------------------------------------------------------
(***************************************************************************)
(* run.                                                                    *)
(***************************************************************************)
MainOnly == UNCHANGED <<matcher, table, wg, room, started, report, told>>
Goto(from, to) == main = from /\ main' = to

\* An interrupt, or ListenAndServe has failed and called stop.
Cancel ==
    /\ Alive /\ ~ctxDone /\ ctxDone' = TRUE
    /\ UNCHANGED <<main, db, awaited>> /\ MainOnly

BeginShutdown ==
    /\ ctxDone /\ Goto("serving", "shutdown")
    /\ UNCHANGED <<ctxDone, db, awaited>> /\ MainOnly

\* The requests are done, or five seconds have passed.  The WebSockets were
\* hijacked: Shutdown neither waits for them nor closes them.
ShutdownReturns ==
    /\ Goto("shutdown", "wait")
    /\ UNCHANGED <<ctxDone, db, awaited>> /\ MainOnly

\* Create has returned: the matcher is past it.
Created == {r \in Room : room[r] # "none"}

\* Fault: Shutdown is taken to have ended the rooms.
Wait_Fault ==
    /\ Goto("wait", "close")
    /\ awaited' = Created
    /\ UNCHANGED <<ctxDone, db>> /\ MainOnly

\* rooms.Wait.
Wait ==
    /\ wg = 0 /\ Goto("wait", "close")
    /\ awaited' = Created
    /\ UNCHANGED <<ctxDone, db>> /\ MainOnly

\* The deferred db.Close.
CloseDB ==
    /\ Goto("close", "exit") /\ db' = "closed"
    /\ UNCHANGED <<ctxDone, awaited>> /\ MainOnly

Exit ==
    /\ Goto("exit", "exited")
    /\ UNCHANGED <<ctxDone, db, awaited>> /\ MainOnly

-----------------------------------------------------------------------------
Matching == StopMatching \/ StartFails \/ Insert \/ Spawn \/ NotifyMatch
Leaving(r) == Abort(r) \/ SaveReport(r) \/ Remove(r) \/ Release(r)
Running == BeginShutdown \/ ShutdownReturns \/ Wait \/ CloseDB \/ Exit

Next ==
    \/ Cancel \/ Matching \/ Running
    \/ \E r \in Room : Match(r) \/ Start(r) \/ Finish(r) \/ Leaving(r)

\* Goroutines run on, and a room sees the cancellation in the end: its select
\* chooses at random among what is ready.  Nothing makes a signal arrive, a
\* pair meet or a match end.
Fairness ==
    /\ WF_vars(Matching) /\ WF_vars(Running)
    /\ \A r \in Room : WF_vars(Leaving(r))

Spec == Init /\ [][Next]_vars /\ Fairness

-----------------------------------------------------------------------------
TypeOK ==
    /\ ctxDone \in BOOLEAN
    /\ main \in {"serving", "shutdown", "wait", "close", "exit", "exited"}
    /\ matcher \in [pc : {"select", "decks", "spawn", "notify", "stopped"},
                    room : Room \cup {"none"}]
    /\ matcher.room \in Room \/ matcher.pc \in {"select", "stopped"}
    /\ room \in [Room -> {"none", "running", "report", "remove", "release", "done"}]
    /\ report \in [Room -> {"none", "saved", "failed", "lost"}]
    /\ db \in {"open", "closed"}
    /\ {table, started, told, awaited} \subseteq SUBSET Room
    /\ wg \in Nat

Counted == {r \in Room : room[r] \in {"running", "report", "remove", "release"}}

\* The wait group and the table follow the goroutines: what Wait waits for is
\* exactly the rooms that run, and a room that has ended cannot be found.
InSync ==
    /\ wg = Cardinality(Counted)
    /\ table = {r \in Room : room[r] \in {"running", "report", "remove"}}
               \cup (IF matcher.pc = "spawn" THEN {matcher.room} ELSE {})

\* Of the rooms that Create had returned when Wait returned, every one that has
\* begun was reported while the database was open.
ReportsWritten ==
    db = "closed" => \A r \in awaited : /\ room[r] = "done"
                                        /\ r \in started => report[r] \in {"saved", "failed"}

\* Rooms, wait group, table and database through the shutdown.
LifecycleInv == TypeOK /\ InSync /\ ReportsWritten

\* README and main.go: all rooms have written their reports before the
\* database is closed.
ClosedLast == db = "closed" => Counted = {}

\* The server stops when it is told to.
Stops == ctxDone ~> main = "exited"

\* Two players who were taken from the queue hear of it, unless the server
\* stops first.
PairsAreTold ==
    \A r \in Room : (matcher.room = r /\ matcher.pc = "decks") ~> (r \in told \/ ~Alive)

=============================================================================
