--------------------------- MODULE LifecycleProofs ---------------------------
(***************************************************************************)
(* What Lifecycle promises, for any number of rooms: the wait group counts *)
(* the rooms that run, and the database closes after their reports.        *)
(***************************************************************************)
EXTENDS Lifecycle, TLAPS, FiniteSetTheorems

Counting == {"running", "report", "remove", "release"}
Leaves == {"remove", "release", "done"}

\* What the goroutines have done so far.  A report is lost only to a closed
\* database, the database is closed only by the main goroutine on its way out,
\* and what Wait has seen ended has ended for good.
Progress ==
    /\ matcher.pc \in {"decks", "spawn"} => room[matcher.room] = "none"
    /\ db = "closed" <=> main \in {"exit", "exited"}
    /\ \A r \in Room : report[r] = "lost" => db = "closed"
    /\ \A r \in started : room[r] \in Leaves => report[r] # "none"
    /\ awaited # {} => main \in {"close", "exit", "exited"}
    /\ \A r \in awaited : /\ room[r] = "done"
                          /\ r \in started => report[r] \in {"saved", "failed"}

\* The inductive invariant.
LifecycleIInv == TypeOK /\ InSync /\ Progress

-----------------------------------------------------------------------------
(***************************************************************************)
(* The wait group.                                                         *)
(***************************************************************************)
LEMMA CountedFinite ==
    IsFiniteSet(Counted) /\ Cardinality(Counted) \in Nat
<1>1. IsFiniteSet(Counted)
  BY RoomsFinite, FS_Subset DEF Counted
<1> QED
  BY <1>1, FS_CardinalityType

\* The wait group stays right when the rooms that run stay the same.
LEMMA CountKept ==
    ASSUME wg = Cardinality(Counted), wg' = wg,
           \A r \in Room : room'[r] \in Counting <=> room[r] \in Counting
    PROVE  wg' = Cardinality(Counted')
<1>1. Counted' = Counted
  BY DEF Counted, Counting
<1> QED
  BY <1>1

\* A room is counted when its goroutine starts.
LEMMA CountUp ==
    ASSUME wg = Cardinality(Counted), NEW r \in Room, room[r] = "none", wg' = wg + 1,
           room \in [Room -> {"none", "running", "report", "remove", "release", "done"}],
           room' = [room EXCEPT ![r] = "running"]
    PROVE  wg' = Cardinality(Counted') /\ wg' \in Nat
<1>1. Counted' = Counted \cup {r} /\ r \notin Counted
  BY DEF Counted
<1>2. Cardinality(Counted \cup {r}) = Cardinality(Counted) + 1
  BY <1>1, CountedFinite, FS_AddElement
<1> QED
  BY <1>1, <1>2, CountedFinite

\* A room is counted down when its goroutine ends.
LEMMA CountDown ==
    ASSUME wg = Cardinality(Counted), NEW r \in Room, room[r] = "release", wg' = wg - 1,
           room \in [Room -> {"none", "running", "report", "remove", "release", "done"}],
           room' = [room EXCEPT ![r] = "done"]
    PROVE  wg' = Cardinality(Counted') /\ wg' \in Nat
<1>1. Counted' = Counted \ {r} /\ r \in Counted
  BY DEF Counted
<1>2. Cardinality(Counted \ {r}) = Cardinality(Counted) - 1
  BY <1>1, CountedFinite, FS_RemoveElement
<1>3. IsFiniteSet(Counted \ {r})
  BY CountedFinite, FS_Subset
<1>4. Cardinality(Counted \ {r}) \in Nat
  BY <1>3, FS_CardinalityType
<1> QED
  BY <1>1, <1>2, <1>4

-----------------------------------------------------------------------------
(***************************************************************************)
(* The actions.                                                            *)
(***************************************************************************)
LEMMA InitInv == Init => LifecycleIInv
<1> SUFFICES ASSUME Init
             PROVE  LifecycleIInv
  OBVIOUS
<1>1. TypeOK
  BY DEF Init, TypeOK, Idle
<1>2. InSync
  <2>1. Counted = {} /\ {r \in Room : room[r] \in {"running", "report", "remove"}} = {}
    BY DEF Init, Counted
  <2> QED
    BY <2>1, FS_EmptySet DEF Init, InSync, Idle
<1>3. Progress
  BY DEF Init, Progress, Idle
<1> QED
  BY <1>1, <1>2, <1>3 DEF LifecycleIInv

\* The matcher, but for the spawning of a room's goroutine.
LEMMA MatcherInv ==
    ASSUME LifecycleIInv,
           \/ StopMatching \/ StartFails \/ Insert \/ NotifyMatch
           \/ \E r \in Room : Match(r)
    PROVE  LifecycleIInv'
<1>1. /\ UNCHANGED <<ctxDone, main, started, report, db, awaited, room, wg>>
      /\ \/ matcher = Idle /\ matcher' = [matcher EXCEPT !.pc = "stopped"]
            /\ table' = table /\ told' = told
         \/ /\ matcher.pc = "decks" /\ matcher' = Idle
            /\ table' = table /\ told' = told \cup {matcher.room}
         \/ /\ matcher.pc = "decks" /\ matcher' = [matcher EXCEPT !.pc = "spawn"]
            /\ table' = table \cup {matcher.room} /\ told' = told
         \/ /\ matcher.pc = "notify" /\ matcher' = Idle
            /\ table' = table /\ told' = told \cup {matcher.room}
         \/ /\ matcher = Idle /\ table' = table /\ told' = told
            /\ \E r \in Room : room[r] = "none" /\ matcher' = [pc |-> "decks", room |-> r]
  BY DEF StopMatching, StartFails, Insert, NotifyMatch, Match, MatcherOnly, At
<1>2. TypeOK'
  BY <1>1 DEF LifecycleIInv, TypeOK, Idle
<1>3. InSync'
  <2>1. wg' = Cardinality(Counted')
    BY <1>1, CountKept DEF LifecycleIInv, InSync
  <2>2. matcher \in [pc : {"select", "decks", "spawn", "notify", "stopped"},
                     room : Room \cup {"none"}]
    BY DEF LifecycleIInv, TypeOK
  <2> QED
    BY <1>1, <2>1, <2>2 DEF LifecycleIInv, InSync, Idle
<1>4. Progress'
  <2>1. (matcher.pc \in {"decks", "spawn"} => room[matcher.room] = "none")'
    BY <1>1 DEF LifecycleIInv, TypeOK, Progress, Idle
  <2> QED
    BY <1>1, <2>1 DEF LifecycleIInv, Progress
<1> QED
  BY <1>2, <1>3, <1>4 DEF LifecycleIInv

LEMMA SpawnInv ==
    ASSUME LifecycleIInv, Spawn
    PROVE  LifecycleIInv'
<1> DEFINE r == matcher.room
<1>1. /\ UNCHANGED <<ctxDone, main, started, report, db, awaited, table, told>>
      /\ matcher.pc = "spawn" /\ matcher' = [matcher EXCEPT !.pc = "notify"]
      /\ wg' = wg + 1 /\ room' = [room EXCEPT ![r] = "running"]
  BY DEF Spawn, MatcherOnly, At
<1>2. /\ r \in Room /\ room[r] = "none" /\ TypeOK /\ InSync /\ Progress
  BY <1>1 DEF LifecycleIInv, TypeOK, Progress
<1>3. wg' = Cardinality(Counted') /\ wg' \in Nat
  BY <1>1, <1>2, CountUp DEF InSync, TypeOK
<1>4. TypeOK'
  BY <1>1, <1>2, <1>3 DEF TypeOK
<1>5. InSync'
  <2>1. table' = {q \in Room : room'[q] \in {"running", "report", "remove"}}
    BY <1>1, <1>2 DEF TypeOK, InSync
  <2>2. matcher'.pc = "notify"
    BY <1>1, <1>2 DEF TypeOK
  <2> QED
    BY <1>3, <2>1, <2>2 DEF InSync
<1>6. Progress'
  <2>1. matcher'.pc = "notify"
    BY <1>1, <1>2 DEF TypeOK
  <2>2. r \notin awaited
    BY <1>2 DEF Progress
  <2>3. \A q \in Room : room'[q] = IF q = r THEN "running" ELSE room[q]
    BY <1>1, <1>2 DEF TypeOK
  <2>4. started \subseteq Room /\ awaited \subseteq Room
    BY <1>2 DEF TypeOK
  <2> HIDE DEF r
  <2> QED
    BY <1>1, <1>2, <2>1, <2>2, <2>3, <2>4 DEF Progress, Leaves
<1> QED
  BY <1>4, <1>5, <1>6 DEF LifecycleIInv

\* A room's goroutine, but for its last step.
LEMMA RoomInv ==
    ASSUME LifecycleIInv, NEW r \in Room,
           Start(r) \/ Finish(r) \/ Abort(r) \/ SaveReport(r) \/ Remove(r)
    PROVE  LifecycleIInv'
<1>1. /\ UNCHANGED <<ctxDone, main, matcher, db, told, awaited, wg>>
      /\ \/ /\ room[r] = "running" /\ room' = room
            /\ started' = started \cup {r} /\ report' = report /\ table' = table
         \/ /\ room[r] = "running"
            /\ room' = [room EXCEPT ![r] = IF r \in started THEN "report" ELSE "remove"]
            /\ started' = started /\ report' = report /\ table' = table
         \/ /\ room[r] = "report" /\ room' = [room EXCEPT ![r] = "remove"]
            /\ \E outcome \in (IF db = "open" THEN {"saved", "failed"} ELSE {"lost"}) :
                  report' = [report EXCEPT ![r] = outcome]
            /\ started' = started /\ table' = table
         \/ /\ room[r] = "remove" /\ room' = [room EXCEPT ![r] = "release"]
            /\ started' = started /\ report' = report /\ table' = table \ {r}
  BY DEF Start, Finish, Abort, SaveReport, Remove, EndRoom, RoomOnly, RoomAt
<1>2. TypeOK /\ InSync /\ Progress
  BY DEF LifecycleIInv
<1>3. TypeOK'
  BY <1>1, <1>2 DEF TypeOK
<1>4. /\ \A q \in Room : q # r => room'[q] = room[q] /\ report'[q] = report[q]
      /\ \A q \in Room : q # r => (q \in started' <=> q \in started)
      /\ room[r] \in {"running", "report", "remove"}
      /\ room'[r] \in {"running", "report", "remove", "release"}
      /\ \/ table' = table /\ room'[r] # "release"
         \/ table' = table \ {r} /\ room'[r] = "release"
  BY <1>1, <1>2 DEF TypeOK
<1>5. InSync'
  <2>1. \A q \in Room : room'[q] \in Counting <=> room[q] \in Counting
    BY <1>4 DEF Counting
  <2>2. wg' = Cardinality(Counted')
    BY <1>1, <1>2, <2>1, CountKept DEF InSync
  <2>3. matcher.pc = "spawn" => matcher.room # r
    BY <1>2, <1>4 DEF Progress
  <2> QED
    BY <1>1, <1>2, <1>4, <2>2, <2>3 DEF InSync
<1>6. Progress'
  <2>1. r \notin awaited
    BY <1>2, <1>4 DEF Progress
  <2>2. (matcher.pc \in {"decks", "spawn"} => room[matcher.room] = "none")'
    <3>1. matcher.pc \in {"decks", "spawn"} => matcher.room \in Room \ {r}
      BY <1>2, <1>4 DEF TypeOK, Progress
    <3> QED
      BY <1>1, <1>2, <1>4, <3>1 DEF Progress
  <2>3. \A q \in Room : report'[q] = "lost" => db = "closed"
    BY <1>1, <1>2 DEF TypeOK, Progress
  <2>4. \A q \in started' : room'[q] \in Leaves => report'[q] # "none"
    <3> TAKE q \in started'
    <3>1. q \in Room
      BY <1>3 DEF TypeOK
    <3>2. CASE q # r
      BY <1>2, <1>4, <3>1, <3>2 DEF Progress
    <3>3. CASE q = r
      BY <1>1, <1>2, <3>3 DEF TypeOK, Progress, Leaves
    <3> QED
      BY <3>2, <3>3
  <2>5. awaited \subseteq Room
    BY <1>2 DEF TypeOK
  <2> QED
    BY <1>1, <1>2, <1>4, <2>1, <2>2, <2>3, <2>4, <2>5 DEF Progress
<1> QED
  BY <1>3, <1>5, <1>6 DEF LifecycleIInv

LEMMA ReleaseInv ==
    ASSUME LifecycleIInv, NEW r \in Room, Release(r)
    PROVE  LifecycleIInv'
<1>1. /\ UNCHANGED <<ctxDone, main, matcher, db, told, awaited, started, report, table>>
      /\ room[r] = "release" /\ room' = [room EXCEPT ![r] = "done"] /\ wg' = wg - 1
  BY DEF Release, RoomOnly, RoomAt
<1>2. TypeOK /\ InSync /\ Progress
  BY DEF LifecycleIInv
<1>3. wg' = Cardinality(Counted') /\ wg' \in Nat
  BY <1>1, <1>2, CountDown DEF InSync, TypeOK
<1>4. TypeOK'
  BY <1>1, <1>2, <1>3 DEF TypeOK
<1>5. \A q \in Room : room'[q] = IF q = r THEN "done" ELSE room[q]
  BY <1>1, <1>2 DEF TypeOK
<1>6. InSync'
  BY <1>1, <1>2, <1>3, <1>5 DEF InSync
<1>7. Progress'
  <2>1. matcher.pc \in {"decks", "spawn"} => matcher.room \in Room \ {r}
    BY <1>1, <1>2 DEF TypeOK, Progress
  <2>2. started \subseteq Room /\ awaited \subseteq Room
    BY <1>2 DEF TypeOK
  <2> QED
    BY <1>1, <1>2, <1>5, <2>1, <2>2 DEF Progress, Leaves
<1> QED
  BY <1>4, <1>6, <1>7 DEF LifecycleIInv

\* The main goroutine.  Wait finds every room ended that Create had returned.
LEMMA MainInv ==
    ASSUME LifecycleIInv, Cancel \/ Running \/ UNCHANGED vars
    PROVE  LifecycleIInv'
<1>1. /\ UNCHANGED <<matcher, table, wg, room, started, report, told>>
      /\ ctxDone' \in BOOLEAN
      /\ \/ main' = main /\ db' = db /\ awaited' = awaited
         \/ /\ main = "serving" /\ main' = "shutdown" /\ db' = db /\ awaited' = awaited
         \/ /\ main = "shutdown" /\ main' = "wait" /\ db' = db /\ awaited' = awaited
         \/ /\ main = "wait" /\ main' = "close" /\ db' = db /\ wg = 0
            /\ awaited' = Created
         \/ /\ main = "close" /\ main' = "exit" /\ db' = "closed" /\ awaited' = awaited
         \/ /\ main = "exit" /\ main' = "exited" /\ db' = db /\ awaited' = awaited
  BY DEF LifecycleIInv, TypeOK, Cancel, Running, BeginShutdown, ShutdownReturns,
         Wait, CloseDB, Exit, Goto, MainOnly, vars
<1>2. TypeOK /\ InSync /\ Progress
  BY DEF LifecycleIInv
<1>3. TypeOK'
  BY <1>1, <1>2 DEF TypeOK, Created
<1>4. InSync'
  BY <1>1, <1>2 DEF InSync, Counted
<1>5. Progress'
  <2>1. CASE awaited' = awaited
    BY <1>1, <1>2, <2>1 DEF Progress
  <2>2. CASE main = "wait" /\ main' = "close" /\ db' = db /\ wg = 0 /\ awaited' = Created
    <3>1. Counted = {}
      BY <1>2, <2>2, CountedFinite, FS_EmptySet DEF InSync
    <3>2. \A r \in Created : r \in Room /\ room[r] = "done"
      BY <1>2, <3>1 DEF Created, Counted, TypeOK
    <3>3. db = "open"
      BY <1>2, <2>2 DEF Progress, TypeOK
    <3>4. \A r \in Created : r \in started => report[r] \in {"saved", "failed"}
      BY <1>2, <3>2, <3>3 DEF Progress, TypeOK, Leaves
    <3> QED
      BY <1>1, <1>2, <2>2, <3>2, <3>3, <3>4 DEF Progress
  <2> QED
    BY <1>1, <2>1, <2>2
<1> QED
  BY <1>3, <1>4, <1>5 DEF LifecycleIInv

LEMMA StepInv == LifecycleIInv /\ [Next]_vars => LifecycleIInv'
<1> SUFFICES ASSUME LifecycleIInv, [Next]_vars
             PROVE  LifecycleIInv'
  OBVIOUS
<1>1. CASE Cancel \/ Running \/ UNCHANGED vars
  BY <1>1, MainInv
<1>2. CASE Matching \/ \E r \in Room : Match(r)
  BY <1>2, MatcherInv, SpawnInv DEF Matching
<1>3. CASE \E r \in Room : Start(r) \/ Finish(r) \/ Leaving(r)
  BY <1>3, RoomInv, ReleaseInv DEF Leaving
<1> QED
  BY <1>1, <1>2, <1>3 DEF Next

\* Rooms, wait group, table and database through every interleaving of the
\* matcher, the rooms and the shutdown: what Wait waits for is exactly the rooms
\* that run, and the rooms it waited for were reported before db.Close.
THEOREM LifecycleSafe == Spec => []LifecycleInv
<1>1. Init => LifecycleIInv
  BY InitInv
<1>2. LifecycleIInv /\ [Next]_vars => LifecycleIInv'
  BY StepInv
<1>3. LifecycleIInv => LifecycleInv
  BY DEF LifecycleIInv, LifecycleInv, Progress, ReportsWritten
<1> QED
  BY <1>1, <1>2, <1>3, PTL DEF Spec

=============================================================================
