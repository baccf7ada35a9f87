----------------------------- MODULE ToolsProofs -----------------------------
(***************************************************************************)
(* Proofs about the command line tools, for any number of workers, reports *)
(* and robots, any length of a game and any buffer: the exit codes tell    *)
(* the truth, the robot is never refused while the timer leaves it its     *)
(* turns, and percentile is the nearest rank.                              *)
(***************************************************************************)
EXTENDS Tools, FiniteSetTheorems, SequenceTheorems, TLAPS

\* Each tool moves on its own.
LEMMA OneTool ==
    /\ Init => Replay!Init /\ Client!Init /\ Run!Init
    /\ [Next]_vars => [Replay!Next]_replay /\ [Client!Next]_client
                      /\ ([Run!Next]_bots /\ UNCHANGED program)
  BY DEF Init, Next, vars, ReplayRuns, ClientRuns, BotsRun, Runs

-----------------------------------------------------------------------------
(***************************************************************************)
(* scripts/replay: every report is still to be sent, or in the hands of    *)
(* one worker, or counted once.                                            *)
(***************************************************************************)
Report == [pc : {"range", "check", "send", "quit"}, id : Ids \cup {"none"},
           kind : Replay!Kinds \cup {"none"}]

Has(w, id) == worker[w].pc \in {"check", "send"} /\ worker[w].id = id
Waits(i, id) == i \in DOMAIN rest /\ rest[i] = id
Counts(k, i, id) == i \in DOMAIN count[k] /\ count[k][i] = id

Alive == {w \in Worker : worker[w].pc # "quit"}

PoolType ==
    /\ rest \in Seq(Ids) /\ feeder \in {"feeding", "waiting", "done"}
    /\ worker \in [Worker -> Report]
    /\ \A w \in Worker : /\ worker[w].pc \in {"check", "send"} => worker[w].id \in Ids
                         /\ worker[w].pc = "send" => worker[w].kind \in Replay!Kinds
    /\ count \in [Replay!Kinds -> Seq(Ids)]
    /\ wg = Cardinality(Alive)

OnePlace ==
    \A id \in Ids :
        /\ \A i, j \in DOMAIN rest : Waits(i, id) /\ Waits(j, id) => i = j
        /\ \A v, w \in Worker : Has(v, id) /\ Has(w, id) => v = w
        /\ \A k, l \in Replay!Kinds : \A i \in DOMAIN count[k], j \in DOMAIN count[l] :
              Counts(k, i, id) /\ Counts(l, j, id) => k = l /\ i = j
        /\ \A i \in DOMAIN rest, w \in Worker : ~(Waits(i, id) /\ Has(w, id))
        /\ \A i \in DOMAIN rest, k \in Replay!Kinds : \A j \in DOMAIN count[k] :
              ~(Waits(i, id) /\ Counts(k, j, id))
        /\ \A w \in Worker, k \in Replay!Kinds : \A j \in DOMAIN count[k] :
              ~(Has(w, id) /\ Counts(k, j, id))

SomePlace ==
    \A id \in Ids : \/ \E i \in DOMAIN rest : rest[i] = id
                    \/ \E w \in Worker : Has(w, id)
                    \/ \E k \in Replay!Kinds : \E i \in DOMAIN count[k] : count[k][i] = id

WindsUp ==
    /\ feeder = "feeding" => \A w \in Worker : worker[w].pc # "quit"
    /\ feeder # "feeding" => rest = <<>>
    /\ feeder = "done" => \A w \in Worker : worker[w].pc = "quit"
    /\ exit # -1 => feeder = "done" /\ exit = Replay!ExitCode

PoolInv == PoolType /\ OnePlace /\ SomePlace /\ WindsUp

\* SetToSeqs lists every id, since it lists as many as there are.
LEMMA AllListed ==
    ASSUME NEW s \in Replay!SetToSeqs(Ids)
    PROVE  /\ s \in Seq(Ids)
           /\ \A i, j \in DOMAIN s : s[i] = s[j] => i = j
           /\ \A id \in Ids : \E i \in DOMAIN s : s[i] = id
<1> DEFINE n == Cardinality(Ids)
<1>1. n \in Nat /\ IsFiniteSet(Ids)
  BY ToolConstants, FS_CardinalityType
<1>2. /\ s \in [1 .. n -> Ids]
      /\ \A i, j \in 1 .. n : i # j => s[i] # s[j]
  BY DEF Replay!SetToSeqs, Replay!Cardinality, Cardinality
<1>3. IsFiniteSet(1 .. n) /\ Cardinality(1 .. n) = n
  BY <1>1, FS_Interval
<1> HIDE DEF n
<1>4. s \in Injection(1 .. n, Ids)
  BY <1>2 DEF Injection, IsInjective
<1>5. s \in Surjection(1 .. n, Ids)
  BY <1>1, <1>3, <1>4, FS_Injection DEF n
<1>6. s \in Seq(Ids) /\ DOMAIN s = 1 .. n
  BY <1>1, <1>2
<1> QED
  BY <1>2, <1>5, <1>6 DEF Surjection

LEMMA PoolInit == Replay!Init => PoolInv
<1> SUFFICES ASSUME Replay!Init PROVE PoolInv
  OBVIOUS
<1>1. /\ rest \in Replay!SetToSeqs(Ids) /\ feeder = "feeding" /\ exit = -1
      /\ worker = [w \in Worker |-> [pc |-> "range", id |-> "none", kind |-> "none"]]
      /\ count = [k \in Replay!Kinds |-> <<>>]
      /\ wg = Replay!Cardinality(Worker)
  BY DEF Replay!Init, Replay!Ready
<1>2. /\ rest \in Seq(Ids)
      /\ \A i, j \in DOMAIN rest : rest[i] = rest[j] => i = j
      /\ \A id \in Ids : \E i \in DOMAIN rest : rest[i] = id
  BY <1>1, AllListed
<1>3. Alive = Worker
  BY <1>1 DEF Alive
<1>4. PoolType
  BY <1>1, <1>2, <1>3 DEF PoolType, Report, Replay!Cardinality, Cardinality
<1>5. OnePlace
  BY <1>1, <1>2 DEF OnePlace, Waits, Has, Counts
<1>6. SomePlace
  BY <1>2 DEF SomePlace
<1>7. WindsUp
  BY <1>1 DEF WindsUp
<1> QED
  BY <1>4, <1>5, <1>6, <1>7 DEF PoolInv

\* The feeder hands the next report to w.
LEMMA TakeInv == ASSUME PoolInv, NEW w \in Worker, Replay!Take(w) PROVE PoolInv'
<1> DEFINE r == Head(rest)
<1>1. /\ feeder = "feeding" /\ rest # <<>> /\ worker[w].pc = "range"
      /\ worker' = [worker EXCEPT ![w] = [pc |-> "check", id |-> r, kind |-> "none"]]
      /\ rest' = Tail(rest) /\ UNCHANGED <<feeder, wg, count, exit>>
  BY DEF Replay!Take
<1>2. /\ r \in Ids /\ rest' \in Seq(Ids) /\ r = rest[1] /\ 1 \in DOMAIN rest
      /\ \A i \in DOMAIN rest' : i + 1 \in DOMAIN rest /\ rest'[i] = rest[i + 1] /\ i + 1 # 1
      /\ \A i \in DOMAIN rest : i # 1 => i - 1 \in DOMAIN rest' /\ rest'[i - 1] = rest[i]
  BY <1>1 DEF PoolInv, PoolType
<1> HIDE DEF r
<1>3. /\ worker'[w] = [pc |-> "check", id |-> r, kind |-> "none"]
      /\ \A v \in Worker : v # w => worker'[v] = worker[v]
      /\ worker' \in [Worker -> Report]
  BY <1>1, <1>2 DEF PoolInv, PoolType, Report
<1>4. /\ \A id : Has(w, id)' <=> id = r
      /\ \A id : ~Has(w, id)
      /\ \A v \in Worker : \A id : v # w => (Has(v, id)' <=> Has(v, id))
      /\ \A k, i, id : Counts(k, i, id)' <=> Counts(k, i, id)
      /\ \A i, id : Waits(i, id)' => Waits(i + 1, id) /\ i + 1 \in DOMAIN rest
  BY <1>1, <1>2, <1>3 DEF Has, Counts, Waits
<1>5. PoolType'
  <2>1. Alive' = Alive
    BY <1>1, <1>3 DEF Alive
  <2> QED
    BY <1>1, <1>2, <1>3, <2>1 DEF PoolInv, PoolType
<1>6. OnePlace'
  <2> SUFFICES ASSUME NEW id \in Ids
      PROVE  /\ \A i, j \in DOMAIN rest' : Waits(i, id)' /\ Waits(j, id)' => i = j
             /\ \A u, v \in Worker : Has(u, id)' /\ Has(v, id)' => u = v
             /\ \A k, l \in Replay!Kinds : \A i \in DOMAIN count'[k], j \in DOMAIN count'[l] :
                   Counts(k, i, id)' /\ Counts(l, j, id)' => k = l /\ i = j
             /\ \A i \in DOMAIN rest', v \in Worker : ~(Waits(i, id)' /\ Has(v, id)')
             /\ \A i \in DOMAIN rest', k \in Replay!Kinds : \A j \in DOMAIN count'[k] :
                   ~(Waits(i, id)' /\ Counts(k, j, id)')
             /\ \A v \in Worker, k \in Replay!Kinds : \A j \in DOMAIN count'[k] :
                   ~(Has(v, id)' /\ Counts(k, j, id)')
    BY DEF OnePlace
  <2>1. r = id => Waits(1, id)
    BY <1>2 DEF Waits
  <2>2. /\ \A i, j \in DOMAIN rest : Waits(i, id) /\ Waits(j, id) => i = j
        /\ \A i \in DOMAIN rest, v \in Worker : ~(Waits(i, id) /\ Has(v, id))
        /\ \A i \in DOMAIN rest, k \in Replay!Kinds : \A j \in DOMAIN count[k] :
              ~(Waits(i, id) /\ Counts(k, j, id))
    BY DEF PoolInv, OnePlace
  <2>3. \A i, j \in DOMAIN rest' : Waits(i, id)' /\ Waits(j, id)' => i = j
    <3> TAKE i, j \in DOMAIN rest'
    <3>1. i \in Int /\ j \in Int
      BY <1>2
    <3> QED
      BY <1>4, <2>2, <3>1
  <2>4. \A u, v \in Worker : Has(u, id)' /\ Has(v, id)' => u = v
    <3>1. \A u, v \in Worker : Has(u, id) /\ Has(v, id) => u = v
      BY DEF PoolInv, OnePlace
    <3> QED
      BY <1>2, <1>4, <2>1, <2>2, <3>1
  <2>5. \A k, l \in Replay!Kinds : \A i \in DOMAIN count'[k], j \in DOMAIN count'[l] :
           Counts(k, i, id)' /\ Counts(l, j, id)' => k = l /\ i = j
    BY <1>1, <1>4 DEF PoolInv, OnePlace
  <2>6. \A i \in DOMAIN rest', v \in Worker : ~(Waits(i, id)' /\ Has(v, id)')
    BY <1>2, <1>4, <2>1, <2>2
  <2>7. \A i \in DOMAIN rest', k \in Replay!Kinds : \A j \in DOMAIN count'[k] :
           ~(Waits(i, id)' /\ Counts(k, j, id)')
    BY <1>1, <1>2, <1>4, <2>2
  <2>8. \A v \in Worker, k \in Replay!Kinds : \A j \in DOMAIN count'[k] :
           ~(Has(v, id)' /\ Counts(k, j, id)')
    <3>1. \A v \in Worker, k \in Replay!Kinds : \A j \in DOMAIN count[k] :
             ~(Has(v, id) /\ Counts(k, j, id))
      BY DEF PoolInv, OnePlace
    <3> QED
      BY <1>1, <1>2, <1>4, <2>1, <2>2, <3>1
  <2> QED
    BY <2>3, <2>4, <2>5, <2>6, <2>7, <2>8
<1>7. SomePlace'
  <2> SUFFICES ASSUME NEW id \in Ids
      PROVE  \/ \E i \in DOMAIN rest' : rest'[i] = id
             \/ \E v \in Worker : Has(v, id)'
             \/ \E k \in Replay!Kinds : \E i \in DOMAIN count'[k] : count'[k][i] = id
    BY DEF SomePlace
  <2>1. CASE id = r
    BY <1>4, <2>1
  <2>2. CASE id # r
    <3>1. CASE \E i \in DOMAIN rest : rest[i] = id
      BY <1>2, <2>2, <3>1
    <3>2. CASE \E v \in Worker : Has(v, id)
      BY <1>4, <3>2
    <3>3. CASE \E k \in Replay!Kinds : \E i \in DOMAIN count[k] : count[k][i] = id
      BY <1>1, <3>3
    <3> QED
      BY <3>1, <3>2, <3>3 DEF PoolInv, SomePlace
  <2> QED
    BY <2>1, <2>2
<1>8. WindsUp'
  BY <1>1, <1>3 DEF PoolInv, WindsUp, Replay!ExitCode
<1> QED
  BY <1>5, <1>6, <1>7, <1>8 DEF PoolInv

\* A step that hands nothing on.
LEMMA PlacesStay ==
    ASSUME PoolInv, rest' = rest, count' = count,
           \A w \in Worker, id \in Ids : Has(w, id)' <=> Has(w, id)
    PROVE  OnePlace' /\ SomePlace'
<1>1. \A i, id : Waits(i, id)' <=> Waits(i, id)
  BY DEF Waits
<1>2. \A k, i, id : Counts(k, i, id)' <=> Counts(k, i, id)
  BY DEF Counts
<1>3. OnePlace'
  BY <1>1, <1>2 DEF PoolInv, OnePlace
<1>4. SomePlace'
  BY DEF PoolInv, SomePlace
<1> QED
  BY <1>3, <1>4

LEMMA CheckInv == ASSUME PoolInv, NEW w \in Worker, Replay!Check(w) PROVE PoolInv'
<1>1. /\ worker[w].pc = "check" /\ UNCHANGED <<rest, feeder, wg, count, exit>>
      /\ worker \in [Worker -> Report] /\ worker[w].id \in Ids
  BY DEF Replay!Check, PoolInv, PoolType
<1>2. PICK kind \in Replay!Kinds :
         worker' = [worker EXCEPT ![w].pc = "send", ![w].kind = kind]
  BY <1>1, ToolConstants DEF Replay!Check, Replay!Kinds
<1>3. /\ worker'[w].pc = "send" /\ worker'[w].id = worker[w].id /\ worker'[w].kind = kind
      /\ \A v \in Worker : v # w => worker'[v] = worker[v]
      /\ worker' \in [Worker -> Report]
  BY <1>1, <1>2 DEF Report
<1>4. \A v \in Worker, id \in Ids : Has(v, id)' <=> Has(v, id)
  BY <1>1, <1>3 DEF Has
<1>5. PoolType'
  <2>1. Alive' = Alive
    BY <1>1, <1>3 DEF Alive
  <2> QED
    BY <1>1, <1>3, <2>1 DEF PoolInv, PoolType
<1>6. WindsUp'
  BY <1>1, <1>3 DEF PoolInv, WindsUp, Replay!ExitCode
<1> QED
  BY <1>1, <1>4, <1>5, <1>6, PlacesStay DEF PoolInv

\* What w has checked is counted, under its kind.
LEMMA EmitInv == ASSUME PoolInv, NEW w \in Worker, Replay!Emit(w) PROVE PoolInv'
<1> DEFINE r == worker[w].id
           kind == worker[w].kind
<1>1. /\ worker[w].pc = "send" /\ feeder # "done" /\ exit = -1
      /\ count' = [count EXCEPT ![kind] = Append(count[kind], r)]
      /\ worker' = [worker EXCEPT ![w] = [pc |-> "range", id |-> "none", kind |-> "none"]]
      /\ UNCHANGED <<rest, feeder, wg, exit>>
  BY DEF Replay!Emit, Replay!Ready
<1>2. r \in Ids /\ kind \in Replay!Kinds /\ count \in [Replay!Kinds -> Seq(Ids)]
  BY <1>1 DEF PoolInv, PoolType
<1> HIDE DEF r, kind
<1>3. /\ worker'[w] = [pc |-> "range", id |-> "none", kind |-> "none"]
      /\ \A v \in Worker : v # w => worker'[v] = worker[v]
      /\ worker' \in [Worker -> Report]
  BY <1>1 DEF PoolInv, PoolType, Report
<1> DEFINE n == Len(count[kind])
<1>4. /\ n \in Nat /\ count' \in [Replay!Kinds -> Seq(Ids)]
      /\ \A k \in Replay!Kinds : k # kind => count'[k] = count[k]
      /\ DOMAIN count[kind] = 1 .. n /\ DOMAIN count'[kind] = 1 .. (n + 1)
      /\ \A i \in 1 .. n : count'[kind][i] = count[kind][i]
      /\ count'[kind][n + 1] = r
  BY <1>1, <1>2
<1> HIDE DEF n
<1>5. /\ Has(w, r) /\ \A id : ~Has(w, id)'
      /\ \A v \in Worker : \A id : v # w => (Has(v, id)' <=> Has(v, id))
      /\ \A i, id : Waits(i, id)' <=> Waits(i, id)
  BY <1>1, <1>3 DEF Has, Waits, r
<1>6. \A k \in Replay!Kinds : \A i, id :
         Counts(k, i, id)' <=> Counts(k, i, id) \/ (k = kind /\ i = n + 1 /\ id = r)
  <2> TAKE k \in Replay!Kinds
  <2> TAKE i, id
  <2>1. CASE k # kind
    BY <1>4, <2>1 DEF Counts
  <2>2. CASE k = kind
    <3>1. i \in 1 .. (n + 1) <=> i \in 1 .. n \/ i = n + 1
      BY <1>4
    <3>2. ~(n + 1 \in 1 .. n)
      BY <1>4
    <3> QED
      BY <1>4, <2>2, <3>1, <3>2 DEF Counts
  <2> QED
    BY <2>1, <2>2
<1>7. PoolType'
  <2>1. Alive' = Alive
    BY <1>1, <1>3 DEF Alive
  <2> QED
    BY <1>1, <1>3, <1>4, <2>1 DEF PoolInv, PoolType
<1>8. OnePlace'
  <2> SUFFICES ASSUME NEW id \in Ids
      PROVE  /\ \A i, j \in DOMAIN rest' : Waits(i, id)' /\ Waits(j, id)' => i = j
             /\ \A u, v \in Worker : Has(u, id)' /\ Has(v, id)' => u = v
             /\ \A k, l \in Replay!Kinds : \A i \in DOMAIN count'[k], j \in DOMAIN count'[l] :
                   Counts(k, i, id)' /\ Counts(l, j, id)' => k = l /\ i = j
             /\ \A i \in DOMAIN rest', v \in Worker : ~(Waits(i, id)' /\ Has(v, id)')
             /\ \A i \in DOMAIN rest', k \in Replay!Kinds : \A j \in DOMAIN count'[k] :
                   ~(Waits(i, id)' /\ Counts(k, j, id)')
             /\ \A v \in Worker, k \in Replay!Kinds : \A j \in DOMAIN count'[k] :
                   ~(Has(v, id)' /\ Counts(k, j, id)')
    BY DEF OnePlace
  <2>1. /\ \A u, v \in Worker : Has(u, id) /\ Has(v, id) => u = v
        /\ \A i \in DOMAIN rest, v \in Worker : ~(Waits(i, id) /\ Has(v, id))
        /\ \A i, j \in DOMAIN rest : Waits(i, id) /\ Waits(j, id) => i = j
    BY DEF PoolInv, OnePlace
  <2>2. /\ \A k, l \in Replay!Kinds : \A i, j :
              Counts(k, i, id) /\ Counts(l, j, id) => k = l /\ i = j
        /\ \A i \in DOMAIN rest, k \in Replay!Kinds : \A j :
              ~(Waits(i, id) /\ Counts(k, j, id))
        /\ \A v \in Worker, k \in Replay!Kinds : \A j : ~(Has(v, id) /\ Counts(k, j, id))
    BY DEF PoolInv, OnePlace, Counts
  <2>3. /\ \A i, j \in DOMAIN rest' : Waits(i, id)' /\ Waits(j, id)' => i = j
        /\ \A u, v \in Worker : Has(u, id)' /\ Has(v, id)' => u = v
        /\ \A i \in DOMAIN rest', v \in Worker : ~(Waits(i, id)' /\ Has(v, id)')
    BY <1>1, <1>5, <2>1
  <2>4. \A k, l \in Replay!Kinds : \A i, j :
           Counts(k, i, id)' /\ Counts(l, j, id)' => k = l /\ i = j
    BY <1>5, <1>6, <2>2
  <2>5. \A i \in DOMAIN rest', k \in Replay!Kinds : \A j :
           ~(Waits(i, id)' /\ Counts(k, j, id)')
    BY <1>1, <1>5, <1>6, <2>1, <2>2
  <2>6. \A v \in Worker, k \in Replay!Kinds : \A j : ~(Has(v, id)' /\ Counts(k, j, id)')
    BY <1>5, <1>6, <2>1, <2>2
  <2> QED
    BY <2>3, <2>4, <2>5, <2>6
<1>9. SomePlace'
  <2> SUFFICES ASSUME NEW id \in Ids
      PROVE  \/ \E i \in DOMAIN rest' : rest'[i] = id
             \/ \E v \in Worker : Has(v, id)'
             \/ \E k \in Replay!Kinds : \E i \in DOMAIN count'[k] : count'[k][i] = id
    BY DEF SomePlace
  <2>1. CASE id = r
    <3>1. n + 1 \in DOMAIN count'[kind] /\ count'[kind][n + 1] = id
      BY <1>4, <2>1
    <3> QED
      BY <1>2, <3>1
  <2>2. CASE \E i \in DOMAIN rest : rest[i] = id
    BY <1>1, <2>2
  <2>3. CASE id # r /\ \E v \in Worker : Has(v, id)
    <3>1. \A x : Has(w, x) => x = r
      BY DEF Has, r
    <3> QED
      BY <1>5, <2>3, <3>1
  <2>4. CASE \E k \in Replay!Kinds : \E i \in DOMAIN count[k] : count[k][i] = id
    <3>1. PICK k \in Replay!Kinds : \E i : Counts(k, i, id)
      BY <2>4 DEF Counts
    <3>2. \E i : Counts(k, i, id)'
      BY <1>6, <3>1
    <3> QED
      BY <3>2 DEF Counts
  <2> QED
    BY <2>1, <2>2, <2>3, <2>4 DEF PoolInv, SomePlace
<1>10. WindsUp'
  BY <1>1, <1>3 DEF PoolInv, WindsUp
<1> QED
  BY <1>7, <1>8, <1>9, <1>10 DEF PoolInv

\* A worker that finds jobs closed: one fewer to wait for.
LEMMA QuitInv == ASSUME PoolInv, NEW w \in Worker, Replay!Quit(w) PROVE PoolInv'
<1>1. /\ worker[w].pc = "range" /\ feeder # "feeding"
      /\ worker' = [worker EXCEPT ![w].pc = "quit"] /\ wg' = wg - 1
      /\ UNCHANGED <<rest, feeder, count, exit>>
      /\ worker \in [Worker -> Report]
  BY DEF Replay!Quit, PoolInv, PoolType
<1>2. /\ worker'[w].pc = "quit" /\ worker' \in [Worker -> Report]
      /\ \A v \in Worker : v # w => worker'[v] = worker[v]
  BY <1>1 DEF Report
<1>3. \A v \in Worker, id \in Ids : Has(v, id)' <=> Has(v, id)
  BY <1>1, <1>2 DEF Has
<1>4. PoolType'
  <2>1. Alive' = Alive \ {w} /\ w \in Alive
    BY <1>1, <1>2 DEF Alive
  <2>2. IsFiniteSet(Alive)
    <3>1. IsFiniteSet(Worker) /\ Alive \subseteq Worker
      BY ToolConstants DEF Alive
    <3> QED
      BY <3>1, FS_Subset
  <2>3. Cardinality(Alive') = Cardinality(Alive) - 1
    BY <2>1, <2>2, FS_RemoveElement
  <2> QED
    BY <1>1, <1>2, <2>3 DEF PoolInv, PoolType
<1>5. WindsUp'
  BY <1>1, <1>2 DEF PoolInv, WindsUp, Replay!ExitCode
<1> QED
  BY <1>1, <1>3, <1>4, <1>5, PlacesStay DEF PoolInv

\* The two channels are closed, and verifyAll returns.
LEMMA CloseInv ==
    ASSUME PoolInv, Replay!CloseJobs \/ Replay!CloseOut \/ Replay!Return
    PROVE  PoolInv'
<1>1. UNCHANGED <<rest, worker, wg, count>>
  BY DEF Replay!CloseJobs, Replay!CloseOut, Replay!Return
<1>2. OnePlace' /\ SomePlace'
  <2>1. \A w \in Worker, id \in Ids : Has(w, id)' <=> Has(w, id)
    BY <1>1 DEF Has
  <2> QED
    BY <1>1, <2>1, PlacesStay
<1>3. PoolType'
  <2>1. Alive' = Alive
    BY <1>1 DEF Alive
  <2>2. feeder' \in {"feeding", "waiting", "done"}
    BY DEF Replay!CloseJobs, Replay!CloseOut, Replay!Return, PoolInv, PoolType
  <2> QED
    BY <1>1, <2>1, <2>2 DEF PoolInv, PoolType
<1>4. WindsUp'
  <2>1. CASE Replay!CloseJobs
    BY <1>1, <2>1 DEF Replay!CloseJobs, PoolInv, WindsUp
  <2>2. CASE Replay!CloseOut
    <3>1. IsFiniteSet(Alive) /\ Cardinality(Alive) = 0
      <4>1. IsFiniteSet(Worker) /\ Alive \subseteq Worker
        BY ToolConstants DEF Alive
      <4> QED
        BY <2>2, <4>1, FS_Subset DEF Replay!CloseOut, PoolInv, PoolType
    <3>2. Alive = {}
      BY <3>1, FS_EmptySet
    <3> QED
      BY <1>1, <2>2, <3>2 DEF Replay!CloseOut, PoolInv, WindsUp, Alive
  <2>3. CASE Replay!Return
    BY <1>1, <2>3 DEF Replay!Return, Replay!ExitCode, PoolInv, WindsUp
  <2> QED
    BY <2>1, <2>2, <2>3
<1> QED
  BY <1>2, <1>3, <1>4 DEF PoolInv

LEMMA PoolStep == PoolInv /\ [Replay!Next]_replay => PoolInv'
<1> SUFFICES ASSUME PoolInv, [Replay!Next]_replay PROVE PoolInv'
  OBVIOUS
<1>1. CASE UNCHANGED replay
  <2>1. UNCHANGED <<rest, feeder, worker, wg, count, exit>>
    BY <1>1 DEF replay
  <2>2. OnePlace' /\ SomePlace'
    <3>1. \A w \in Worker, id \in Ids : Has(w, id)' <=> Has(w, id)
      BY <2>1 DEF Has
    <3> QED
      BY <2>1, <3>1, PlacesStay
  <2>3. Alive' = Alive
    BY <2>1 DEF Alive
  <2> QED
    BY <2>1, <2>2, <2>3 DEF PoolInv, PoolType, WindsUp, Replay!ExitCode
<1> QED
  BY <1>1, TakeInv, CheckInv, EmitInv, QuitInv, CloseInv DEF Replay!Next

\* What PoolInv says of the exit code.
LEMMA PoolTellsTruth == PoolInv => Replay!EachOnce /\ Replay!ExitTellsTruth
<1> SUFFICES ASSUME PoolInv PROVE Replay!EachOnce /\ Replay!ExitTellsTruth
  OBVIOUS
<1>1. \A k, l \in Replay!Kinds : \A i \in DOMAIN count[k], j \in DOMAIN count[l] :
         count[k][i] = count[l][j] => k = l /\ i = j
  <2> SUFFICES ASSUME NEW k \in Replay!Kinds, NEW l \in Replay!Kinds,
                      NEW i \in DOMAIN count[k], NEW j \in DOMAIN count[l],
                      count[k][i] = count[l][j]
               PROVE  k = l /\ i = j
    OBVIOUS
  <2>1. count[k][i] \in Ids
    BY DEF PoolInv, PoolType
  <2> QED
    BY <2>1 DEF PoolInv, OnePlace, Counts
<1>2. ASSUME exit # -1, NEW id \in Ids
      PROVE  \E k \in Replay!Kinds : \E i \in DOMAIN count[k] : count[k][i] = id
  <2>1. rest = <<>> /\ \A w \in Worker : ~Has(w, id)
    BY <1>2 DEF PoolInv, WindsUp, Has
  <2> QED
    BY <2>1 DEF PoolInv, SomePlace
<1>3. ASSUME exit = 0, NEW id \in Ids
      PROVE  \E k \in {"ok", "ok_legacy", "cards_changed"} :
                \E i \in DOMAIN count[k] : count[k][i] = id
  <2> DEFINE m == count["mismatch"]
             e == count["error"]
  <2>1. m \in Seq(Ids) /\ e \in Seq(Ids)
    BY DEF PoolInv, PoolType, Replay!Kinds
  <2>2. exit = IF Len(m) + Len(e) > 0 THEN 1 ELSE 0
    <3>1. exit = Replay!ExitCode
      BY <1>3 DEF PoolInv, WindsUp
    <3> QED
      BY <3>1 DEF Replay!ExitCode
  <2>3. DOMAIN m = {} /\ DOMAIN e = {}
    <3> HIDE DEF m, e
    <3>1. Len(m) \in Nat /\ Len(e) \in Nat /\ DOMAIN m = 1 .. Len(m) /\ DOMAIN e = 1 .. Len(e)
      BY <2>1
    <3> QED
      BY <1>3, <2>2, <3>1
  <2> QED
    BY <1>2, <1>3, <2>3 DEF Replay!Kinds
<1> QED
  BY <1>1, <1>2, <1>3 DEF Replay!EachOnce, Replay!ExitTellsTruth

-----------------------------------------------------------------------------
(***************************************************************************)
(* scripts/bot: nothing has failed, or fails says so.                      *)
(***************************************************************************)
NotYet == {"new", "login", "token", "noToken"}
Places == NotYet \cup {"loop", "play", "end", "unsent"}

RunType ==
    /\ robots \in [Bot -> Places] /\ won \in [Bot -> Nat] /\ fails \in Nat
    /\ lat \in Seq(Latency)

Honest ==
    /\ \A b \in Bot : /\ robots[b] \in NotYet => won[b] = 0
                      /\ robots[b] = "end" /\ fails = 0 => won[b] = Games
                      /\ robots[b] = "unsent" => program # "load"
    /\ runExit # -1 => \A b \in Bot : robots[b] \in {"end", "unsent"}
    /\ runExit = 0 => fails = 0

RunInv == RunType /\ Honest

LEMMA RunInit == Init => RunInv
<1>1. Init => Run!Init /\ Games \in Nat
  BY ToolConstants DEF Init
<1> QED
  BY <1>1 DEF Run!Init, RunInv, RunType, Honest, NotYet, Places

\* What a step of the robot b leaves to be shown: that he is at one of the
\* places, and that fails says so when he has failed.
LEMMA RobotMoves ==
    ASSUME RunInv, NEW b \in Bot, NEW from \in Places \ {"end", "unsent"}, NEW to \in Places,
           Run!Go(b, from, to), runExit' = runExit, program' = program,
           lat' \in Seq(Latency), fails' \in Nat, fails <= fails',
           won' \in [Bot -> Nat], \A a \in Bot : a # b => won'[a] = won[a],
           to \in NotYet => won'[b] = 0,
           to = "end" /\ fails' = 0 => won'[b] = Games,
           to = "unsent" => program # "load"
    PROVE  RunInv'
<1>1. /\ robots[b] = from /\ robots' \in [Bot -> Places] /\ robots'[b] = to
      /\ \A a \in Bot : a # b => robots'[a] = robots[a]
  BY DEF Run!Go, RunInv, RunType
<1>2. runExit = -1
  BY <1>1 DEF RunInv, Honest
<1>3. fails \in Nat /\ (fails' = 0 => fails = 0)
  BY DEF RunInv, RunType
<1>4. RunType'
  BY <1>1 DEF RunType
<1>5. Honest'
  <2>1. ASSUME NEW a \in Bot
        PROVE  /\ robots'[a] \in NotYet => won'[a] = 0
               /\ robots'[a] = "end" /\ fails' = 0 => won'[a] = Games
               /\ robots'[a] = "unsent" => program' # "load"
    BY <1>1, <1>3 DEF RunInv, Honest
  <2> QED
    BY <1>2, <2>1 DEF Honest
<1> QED
  BY <1>4, <1>5 DEF RunInv

LEMMA RobotInv ==
    ASSUME RunInv, NEW b \in Bot, Run!Robot(b), program' = program
    PROVE  RunInv'
<1>1. /\ fails \in Nat /\ won \in [Bot -> Nat] /\ lat \in Seq(Latency) /\ Games \in Nat
      /\ \A a \in Bot : robots[a] \in NotYet => won[a] = 0
      /\ robots \in [Bot -> Places]
  BY ToolConstants DEF RunInv, RunType, Honest
<1> USE DEF Places, NotYet
<1>2. CASE Run!LogIn(b)
  <2>1. Run!Go(b, "new", "login") /\ UNCHANGED <<fails, won, lat, runExit>>
    BY <1>2 DEF Run!LogIn
  <2>2. won[b] = 0
    BY <1>1, <2>1 DEF Run!Go
  <2> QED
    BY <1>1, <2>1, <2>2, RobotMoves
<1>3. CASE Run!LoggedIn(b)
  <2>1. PICK d \in Latency : lat' = IF program = "load" THEN Append(lat, d) ELSE lat
    BY <1>3 DEF Run!LoggedIn
  <2>2. lat' \in Seq(Latency)
    BY <1>1, <2>1
  <2>3. Run!Go(b, "login", "token") /\ UNCHANGED <<fails, won, runExit>>
    BY <1>3 DEF Run!LoggedIn
  <2>4. won[b] = 0
    BY <1>1, <2>3 DEF Run!Go
  <2> QED
    BY <1>1, <2>2, <2>3, <2>4, RobotMoves
<1>4. CASE Run!LoginFails(b)
  <2>1. Run!Go(b, "login", "noToken") /\ UNCHANGED <<fails, won, lat, runExit>>
    BY <1>4 DEF Run!LoginFails
  <2>2. won[b] = 0
    BY <1>1, <2>1 DEF Run!Go
  <2> QED
    BY <1>1, <2>1, <2>2, RobotMoves
<1>5. CASE Run!GiveUp(b)
  <2>1. PICK from \in {"noToken", "token"} : Run!Go(b, from, "end")
    BY <1>5 DEF Run!GiveUp
  <2>2. /\ fails' = fails + Games /\ UNCHANGED <<won, lat, runExit>> /\ won[b] = 0
    BY <1>1, <1>5, <2>1 DEF Run!GiveUp, Run!Go
  <2>3. fails' \in Nat /\ fails <= fails' /\ (fails' = 0 => won'[b] = Games)
    BY <1>1, <2>2
  <2> QED
    BY <1>1, <2>1, <2>2, <2>3, RobotMoves
<1>6. CASE Run!Dialled(b)
  <2>1. Run!Go(b, "token", "loop") /\ UNCHANGED <<fails, won, lat, runExit>>
    BY <1>6 DEF Run!Dialled
  <2> QED
    BY <1>1, <2>1, RobotMoves
<1>7. CASE Run!Enqueue(b)
  <2>1. Run!Go(b, "loop", "play") /\ UNCHANGED <<fails, won, lat, runExit>>
    BY <1>7 DEF Run!Enqueue
  <2> QED
    BY <1>1, <2>1, RobotMoves
<1>8. CASE Run!EnqueueFails(b)
  <2>1. CASE program = "load"
    <3>1. Run!Go(b, "loop", "end") /\ fails' = fails + 1 /\ UNCHANGED <<won, lat, runExit>>
      BY <1>8, <2>1 DEF Run!EnqueueFails
    <3> QED
      BY <1>1, <3>1, RobotMoves
  <2>2. CASE program # "load"
    <3>1. Run!Go(b, "loop", "unsent") /\ UNCHANGED <<fails, won, lat, runExit>>
      BY <1>8, <2>2 DEF Run!EnqueueFails
    <3> QED
      BY <1>1, <2>2, <3>1, RobotMoves
  <2> QED
    BY <2>1, <2>2
<1>9. CASE Run!Played(b)
  <2>1. /\ Run!Go(b, "play", "loop") /\ UNCHANGED <<fails, lat, runExit>>
        /\ won' = [won EXCEPT ![b] = won[b] + 1]
    BY <1>9 DEF Run!Played
  <2> QED
    BY <1>1, <2>1, RobotMoves
<1>10. CASE Run!PlayFails(b)
  <2>1. Run!Go(b, "play", "end") /\ fails' = fails + 1 /\ UNCHANGED <<won, lat, runExit>>
    BY <1>10 DEF Run!PlayFails
  <2> QED
    BY <1>1, <2>1, RobotMoves
<1>11. CASE Run!LoopOver(b)
  <2>1. /\ Run!Go(b, "loop", "end") /\ won[b] = Games
        /\ UNCHANGED <<fails, won, lat, runExit>>
    BY <1>11 DEF Run!LoopOver
  <2> QED
    BY <1>1, <2>1, RobotMoves
<1> QED
  BY <1>2, <1>3, <1>4, <1>5, <1>6, <1>7, <1>8, <1>9, <1>10, <1>11 DEF Run!Robot

LEMMA RunStep ==
    ASSUME RunInv, [Run!Next]_bots, program' = program
    PROVE  RunInv'
<1>1. CASE Run!Exit
  <2>1. /\ runExit = -1 /\ Run!At({"end", "unsent"}) = Bot
        /\ runExit' \in {0, 1} /\ (runExit' = 0 => ~(fails > 0))
        /\ UNCHANGED <<robots, won, fails, lat>>
    BY <1>1 DEF Run!Exit
  <2>2. \A b \in Bot : robots[b] \in {"end", "unsent"}
    BY <2>1 DEF Run!At
  <2> QED
    BY <2>1, <2>2 DEF RunInv, RunType, Honest
<1>2. CASE UNCHANGED bots
  BY <1>2 DEF bots, RunInv, RunType, Honest
<1> QED
  BY <1>1, <1>2, RobotInv DEF Run!Next

LEMMA RunTellsTruth == RunInv => Run!SuccessMeansPlayed
  BY DEF RunInv, RunType, Honest, Run!SuccessMeansPlayed

\* Exit 0 of scripts/replay: each report was counted once, and none as a
\* mismatch or an error.  Exit 0 of scripts/bot: every game was played.
THEOREM ExitsAreTruthful == Spec => []ExitTellsTruth
<1>1. Init => PoolInv /\ RunInv
  BY OneTool, PoolInit, RunInit
<1>2. PoolInv /\ RunInv /\ [Next]_vars => PoolInv' /\ RunInv'
  BY OneTool, PoolStep, RunStep
<1>3. PoolInv /\ RunInv => ExitTellsTruth
  BY PoolTellsTruth, RunTellsTruth DEF ExitTellsTruth
<1> QED
  BY <1>1, <1>2, <1>3, PTL DEF Spec

-----------------------------------------------------------------------------
(***************************************************************************)
(* The statistics of runLoad.  There is an order in which the samples      *)
(* ascend: the place of one is the number of those before it.              *)
(***************************************************************************)
LEMMA SameBijections ==
    ASSUME NEW S, NEW T
    PROVE  /\ \A f : f \in Bijection(S, T) <=> /\ f \in [S -> T]
                                               /\ \A a, b \in S : f[a] = f[b] => a = b
                                               /\ \A t \in T : \E a \in S : f[a] = t
           /\ Run!Bijection(S, T) = Bijection(S, T)
<1>1. \A f : f \in Bijection(S, T) <=> /\ f \in [S -> T]
                                       /\ \A a, b \in S : f[a] = f[b] => a = b
                                       /\ \A t \in T : \E a \in S : f[a] = t
  BY DEF Bijection, Injection, Surjection, IsInjective
<1>2. Run!Bijection(S, T) = Bijection(S, T)
  BY DEF Run!Bijection, Run!Injection, Run!Surjection, Run!IsInjective,
         Bijection, Injection, Surjection, IsInjective
<1> QED
  BY <1>1, <1>2

\* j comes before i, or is i: equal samples keep their order.
Before(ds, i) == {j \in DOMAIN ds : ds[j] < ds[i] \/ (ds[j] = ds[i] /\ j <= i)}

LEMMA BeforeCount ==
    ASSUME NEW ds \in Seq(Nat), NEW i \in DOMAIN ds
    PROVE  Cardinality(Before(ds, i)) \in DOMAIN ds /\ IsFiniteSet(Before(ds, i))
<1> DEFINE n == Len(ds)
<1>1. n \in Nat /\ DOMAIN ds = 1 .. n /\ i \in Before(ds, i) /\ Before(ds, i) \subseteq 1 .. n
  BY DEF Before
<1>2. IsFiniteSet(1 .. n) /\ Cardinality(1 .. n) = n
  <2>1. IsFiniteSet(1 .. n) /\ Cardinality(1 .. n) = IF 1 > n THEN 0 ELSE n - 1 + 1
    BY <1>1, FS_Interval
  <2> QED
    BY <1>1, <2>1
<1> HIDE DEF n
<1>3. IsFiniteSet(Before(ds, i)) /\ Cardinality(Before(ds, i)) <= n
  BY <1>1, <1>2, FS_Subset
<1>4. Cardinality(Before(ds, i)) \in Nat /\ Cardinality(Before(ds, i)) # 0
  BY <1>1, <1>3, FS_CardinalityType, FS_EmptySet
<1> QED
  BY <1>1, <1>3, <1>4

LEMMA BeforeGrows ==
    ASSUME NEW ds \in Seq(Nat), NEW i \in DOMAIN ds, NEW k \in DOMAIN ds,
           ds[i] < ds[k] \/ (ds[i] = ds[k] /\ i < k)
    PROVE  Cardinality(Before(ds, i)) < Cardinality(Before(ds, k))
<1>1. \A j \in DOMAIN ds : j \in Nat /\ ds[j] \in Nat
  OBVIOUS
<1>2. Before(ds, i) \subseteq Before(ds, k)
  BY <1>1 DEF Before
<1>3. k \in Before(ds, k) /\ k \notin Before(ds, i)
  BY <1>1 DEF Before
<1>4. /\ IsFiniteSet(Before(ds, k)) /\ Cardinality(Before(ds, i)) <= Cardinality(Before(ds, k))
      /\ Cardinality(Before(ds, k)) = Cardinality(Before(ds, i)) => Before(ds, k) = Before(ds, i)
  BY <1>2, BeforeCount, FS_Subset
<1>5. Cardinality(Before(ds, i)) \in Nat /\ Cardinality(Before(ds, k)) \in Nat
  BY BeforeCount, FS_CardinalityType
<1> QED
  BY <1>3, <1>4, <1>5

\* Samples can be put in order.
LEMMA OrderExists ==
    ASSUME NEW ds \in Seq(Nat)
    PROVE  \E f \in Bijection(DOMAIN ds, DOMAIN ds) :
              \A i, j \in DOMAIN ds : i < j => ds[f[i]] <= ds[f[j]]
<1> DEFINE D == DOMAIN ds
           r == [i \in D |-> Cardinality(Before(ds, i))]
<1>1. r \in [D -> D] /\ IsFiniteSet(D) /\ \A i \in D : i \in Nat /\ ds[i] \in Nat
  <2>1. \A i \in D : i \in Nat /\ ds[i] \in Nat
    OBVIOUS
  <2>2. IsFiniteSet(D)
    <3>1. D = 1 .. Len(ds) /\ Len(ds) \in Nat
      OBVIOUS
    <3> QED
      BY <3>1, FS_Interval
  <2> QED
    BY <2>1, <2>2, BeforeCount
<1>2. \A i, k \in D : ds[i] < ds[k] \/ (ds[i] = ds[k] /\ i < k) => r[i] < r[k]
  BY BeforeGrows
<1> HIDE DEF r, D
<1>3. \A i \in D : r[i] \in Nat
  BY <1>1
<1>4. \A i, k \in D : r[i] = r[k] => i = k
  <2> SUFFICES ASSUME NEW i \in D, NEW k \in D, i # k PROVE r[i] # r[k]
    OBVIOUS
  <2>1. i \in Nat /\ k \in Nat /\ ds[i] \in Nat /\ ds[k] \in Nat
    BY <1>1
  <2>2. \/ ds[i] < ds[k] \/ (ds[i] = ds[k] /\ i < k)
        \/ ds[k] < ds[i] \/ (ds[k] = ds[i] /\ k < i)
    BY <2>1
  <2>3. r[i] < r[k] \/ r[k] < r[i]
    BY <1>2, <2>2
  <2> QED
    BY <1>3, <2>3
<1>5. \A t \in D : \E i \in D : r[i] = t
  <2>1. r \in Injection(D, D)
    BY <1>1, <1>4 DEF Injection, IsInjective
  <2>2. r \in Surjection(D, D)
    BY <1>1, <2>1, FS_Injection
  <2> QED
    BY <2>2 DEF Surjection
<1> DEFINE f == [t \in D |-> CHOOSE i \in D : r[i] = t]
<1>6. \A t \in D : f[t] \in D /\ r[f[t]] = t
  BY <1>5
<1>7. f \in [D -> D]
  BY <1>6
<1> HIDE DEF f
<1>8. f \in Bijection(D, D)
  <2>1. \A a, b \in D : f[a] = f[b] => a = b
    BY <1>6
  <2>2. \A i \in D : f[r[i]] = i /\ r[i] \in D
    BY <1>1, <1>4, <1>6
  <2>3. \A i \in D : \E a \in D : f[a] = i
    BY <2>2
  <2> QED
    BY <1>7, <2>1, <2>3 DEF Bijection, Injection, Surjection, IsInjective
<1>9. ASSUME NEW i \in D, NEW j \in D, i < j PROVE ds[f[i]] <= ds[f[j]]
  <2>1. /\ f[i] \in D /\ f[j] \in D /\ r[f[i]] = i /\ r[f[j]] = j
        /\ ds[f[i]] \in Nat /\ ds[f[j]] \in Nat /\ i \in Nat /\ j \in Nat
    BY <1>1, <1>6
  <2>2. ds[f[j]] < ds[f[i]] => j < i
    BY <1>2, <2>1
  <2> QED
    BY <1>9, <2>1, <2>2
<1> QED
  BY <1>8, <1>9 DEF D

\* What sorting does, as far as the statistics go.
LEMMA SortedAscends ==
    ASSUME NEW ds \in Seq(Nat)
    PROVE  /\ \E f \in Bijection(DOMAIN ds, DOMAIN ds) : \A i \in DOMAIN ds : Run!Sorted(ds)[i] = ds[f[i]]
           /\ Run!Sorted(ds) \in Seq(Nat) /\ Len(Run!Sorted(ds)) = Len(ds)
           /\ \A i, j \in DOMAIN ds : i < j => Run!Sorted(ds)[i] <= Run!Sorted(ds)[j]
<1> DEFINE D == DOMAIN ds
           f == Run!Ascending(ds)
<1>1. /\ f \in Bijection(D, D)
      /\ \A i, j \in D : i < j => ds[f[i]] <= ds[f[j]]
  <2>1. Run!Bijection(D, D) = Bijection(D, D)
    BY SameBijections
  <2>2. \E g \in Run!Bijection(D, D) : \A i, j \in D : i < j => ds[g[i]] <= ds[g[j]]
    BY <2>1, OrderExists
  <2>3. /\ f \in Run!Bijection(D, D)
        /\ \A i, j \in D : i < j => ds[f[i]] <= ds[f[j]]
    BY <2>2 DEF Run!Ascending
  <2> QED
    BY <2>1, <2>3
<1>2. Run!Sorted(ds) = [i \in D |-> ds[f[i]]]
  BY DEF Run!Sorted
<1> HIDE DEF f
<1>3. f \in [D -> D]
  BY <1>1 DEF Bijection, Injection
<1>4. /\ D = 1 .. Len(ds) /\ Len(ds) \in Nat /\ \A i \in D : ds[i] \in Nat
  OBVIOUS
<1>5. Run!Sorted(ds) \in Seq(Nat) /\ Len(Run!Sorted(ds)) = Len(ds)
  BY <1>2, <1>3, <1>4
<1> QED
  BY <1>1, <1>2, <1>5

\* Putting them in order changes no count of samples.
LEMMA SameCount ==
    ASSUME NEW ds \in Seq(Nat), NEW d
    PROVE  Cardinality({i \in DOMAIN ds : ds[i] <= d})
           = Cardinality({k \in DOMAIN ds : Run!Sorted(ds)[k] <= d})
<1> DEFINE t == Run!Sorted(ds)
           D == DOMAIN ds
           A == {i \in D : ds[i] <= d}
           B == {k \in D : t[k] <= d}
<1>1. PICK f \in Bijection(D, D) : \A i \in D : t[i] = ds[f[i]]
  BY SortedAscends
<1>2. /\ f \in [D -> D]
      /\ \A a, b \in D : f[a] = f[b] => a = b
      /\ \A i \in D : \E a \in D : f[a] = i
  BY <1>1, SameBijections
<1>3. IsFiniteSet(B)
  <2>1. IsFiniteSet(D) /\ B \subseteq D
    <3>1. D = 1 .. Len(ds) /\ Len(ds) \in Nat
      OBVIOUS
    <3> QED
      BY <3>1, FS_Interval
  <2> QED
    BY <2>1, FS_Subset
<1> HIDE DEF t, D
<1> DEFINE g == [k \in B |-> f[k]]
<1>4. g \in Bijection(B, A)
  <2>1. \A k \in B : f[k] \in A
    BY <1>1, <1>2
  <2>2. \A i \in A : \E k \in B : f[k] = i
    BY <1>1, <1>2
  <2>3. \A a, b \in B : f[a] = f[b] => a = b
    BY <1>2
  <2> HIDE DEF A, B
  <2> QED
    BY <2>1, <2>2, <2>3 DEF Bijection, Injection, Surjection, IsInjective
<1>5. ExistsBijection(B, A)
  BY <1>4 DEF ExistsBijection
<1> HIDE DEF A, B, g
<1>6. Cardinality(B) = Cardinality(A)
  BY <1>3, <1>5, FS_Bijection
<1> QED
  BY <1>6 DEF A, B, t, D

\* At least r of the samples are at most the r-th, and fewer than r are at
\* most a smaller one.
LEMMA RankCounts ==
    ASSUME NEW ds \in Seq(Nat), NEW r \in DOMAIN ds
    PROVE  /\ Cardinality({i \in DOMAIN ds : ds[i] <= Run!Sorted(ds)[r]}) \in r .. Len(ds)
           /\ \A d \in Nat : d < Run!Sorted(ds)[r]
                 => Cardinality({i \in DOMAIN ds : ds[i] <= d}) \in 0 .. (r - 1)
<1> DEFINE t == Run!Sorted(ds)
           n == Len(ds)
<1>1. /\ n \in Nat /\ DOMAIN ds = 1 .. n /\ r \in 1 .. n
      /\ \A i \in 1 .. n : t[i] \in Nat
      /\ \A i, j \in 1 .. n : i < j => t[i] <= t[j]
  <2>1. n \in Nat /\ DOMAIN ds = 1 .. n /\ t \in Seq(Nat) /\ Len(t) = n
    BY SortedAscends
  <2> HIDE DEF t, n
  <2>2. \A i \in 1 .. n : t[i] \in Nat
    BY <2>1
  <2>3. \A i, j \in DOMAIN ds : i < j => t[i] <= t[j]
    BY SortedAscends DEF t
  <2> QED
    BY <2>1, <2>2, <2>3
<1> HIDE DEF t, n
<1> DEFINE B(d) == {k \in 1 .. n : t[k] <= d}
<1>2. \A k \in 0 .. n : IsFiniteSet(1 .. k) /\ Cardinality(1 .. k) = k
  <2> SUFFICES ASSUME NEW k \in 0 .. n PROVE IsFiniteSet(1 .. k) /\ Cardinality(1 .. k) = k
    OBVIOUS
  <2>1. k \in Nat
    BY <1>1
  <2>2. IsFiniteSet(1 .. k) /\ Cardinality(1 .. k) = IF 1 > k THEN 0 ELSE k - 1 + 1
    BY <2>1, FS_Interval
  <2> QED
    BY <2>1, <2>2
<1>3. \A d : IsFiniteSet(B(d)) /\ Cardinality(B(d)) \in Nat /\ Cardinality(B(d)) <= n
  <2> SUFFICES ASSUME NEW d
               PROVE IsFiniteSet(B(d)) /\ Cardinality(B(d)) \in Nat /\ Cardinality(B(d)) <= n
    OBVIOUS
  <2>1. B(d) \subseteq 1 .. n /\ IsFiniteSet(1 .. n) /\ Cardinality(1 .. n) = n
    BY <1>1, <1>2
  <2> HIDE DEF B
  <2> QED
    BY <2>1, FS_Subset, FS_CardinalityType
<1>4. Cardinality(B(t[r])) \in r .. n
  <2>1. 1 .. r \subseteq B(t[r])
    <3> SUFFICES ASSUME NEW k \in 1 .. r PROVE k \in 1 .. n /\ t[k] <= t[r]
      OBVIOUS
    <3>1. k \in 1 .. n /\ t[r] \in Nat /\ (k = r \/ k < r)
      BY <1>1
    <3> QED
      BY <1>1, <3>1
  <2>2. r \in 0 .. n
    BY <1>1
  <2> HIDE DEF B
  <2>3. r <= Cardinality(B(t[r]))
    BY <1>2, <1>3, <2>1, <2>2, FS_Subset
  <2> QED
    BY <1>1, <1>3, <2>3
<1>5. \A d \in Nat : d < t[r] => Cardinality(B(d)) \in 0 .. (r - 1)
  <2> SUFFICES ASSUME NEW d \in Nat, d < t[r] PROVE Cardinality(B(d)) \in 0 .. (r - 1)
    OBVIOUS
  <2>1. B(d) \subseteq 1 .. (r - 1)
    <3> SUFFICES ASSUME NEW k \in 1 .. n, t[k] <= d PROVE k <= r - 1
      BY <1>1
    <3>1. t[k] \in Nat /\ t[r] \in Nat /\ k \in Nat /\ r \in Nat /\ t[k] < t[r]
      BY <1>1
    <3>2. ~(r < k) /\ r # k
      BY <1>1, <3>1
    <3> QED
      BY <3>1, <3>2
  <2>2. r - 1 \in 0 .. n
    BY <1>1
  <2> HIDE DEF B
  <2>3. Cardinality(B(d)) <= r - 1
    BY <1>2, <2>1, <2>2, FS_Subset
  <2> QED
    BY <1>1, <1>3, <2>2, <2>3
<1>6. \A d : Cardinality({i \in DOMAIN ds : ds[i] <= d}) = Cardinality(B(d))
  BY <1>1, SameCount DEF t
<1> QED
  BY <1>4, <1>5, <1>6 DEF t, n

\* The rank that percentile computes.
LEMMA RankOf ==
    ASSUME NEW n \in Nat \ {0}, NEW p \in {50, 90, 99},
           NEW k, k = (n * p * 10000 + 999999) \div 1000000 - 1
    PROVE  /\ k \in 0 .. (n - 1)
           /\ 100 * (k + 1) >= p * n /\ 100 * k < p * n
<1>1. CASE p = 50
  BY <1>1
<1>2. CASE p = 90
  BY <1>2
<1>3. CASE p = 99
  BY <1>3
<1> QED
  BY <1>1, <1>2, <1>3

\* dist[p] is the sample of some rank, between p per cent and one sample more.
LEMMA DistIsRanked ==
    ASSUME lat \in Seq(Nat), lat # <<>>, NEW p \in {50, 90, 99, 100}
    PROVE  \E r \in DOMAIN lat : /\ Run!dist[p] = Run!Sorted(lat)[r]
                                 /\ 100 * r >= p * Len(lat) /\ 100 * (r - 1) < p * Len(lat)
<1> DEFINE t == Run!Sorted(lat)
           n == Len(lat)
<1>1. /\ n \in Nat \ {0} /\ DOMAIN lat = 1 .. n
      /\ t \in Seq(Nat) /\ Len(t) = n /\ t # <<>>
  BY SortedAscends
<1>2. CASE p = 100
  <2>1. Run!dist[p] = Run!Last(t)
    BY <1>2 DEF Run!dist
  <2>2. Run!Last(t) = t[n]
    BY <1>1 DEF Run!Last
  <2> HIDE DEF t, n
  <2>3. n \in 1 .. n /\ 100 * n >= p * n /\ 100 * (n - 1) < p * n
    BY <1>1, <1>2
  <2>4. n \in DOMAIN lat /\ Run!dist[p] = t[n]
    BY <1>1, <2>1, <2>2, <2>3
  <2> QED
    BY <2>3, <2>4 DEF t, n
<1>3. CASE p # 100
  <2> DEFINE k == (n * p * 10000 + 999999) \div 1000000 - 1
  <2>1. Run!dist[p] = Run!percentile(t, p)
    BY <1>3 DEF Run!dist
  <2> HIDE DEF t, n
  <2>2. /\ k \in 0 .. (n - 1)
        /\ 100 * (k + 1) >= p * n /\ 100 * k < p * n
    BY <1>1, <1>3, RankOf
  <2>3. Run!percentile(t, p) = t[1 + (IF k < 0 THEN 0 ELSE IF k >= n THEN n - 1 ELSE k)]
    BY <1>1 DEF Run!percentile
  <2> HIDE DEF k
  <2>4. k \in Int /\ ~(k < 0) /\ ~(k >= n) /\ 1 + k \in 1 .. n /\ (1 + k) - 1 = k /\ k + 1 = 1 + k
    BY <1>1, <2>2
  <2>5. Run!dist[p] = t[1 + k]
    BY <2>1, <2>3, <2>4
  <2> QED
    BY <1>1, <2>2, <2>4, <2>5 DEF t, n
<1> QED
  BY <1>2, <1>3

LEMMA PercentileIsNearest == lat \in Seq(Nat) => Run!NearestRank
<1> SUFFICES ASSUME lat \in Seq(Nat), lat # <<>>, NEW p \in {50, 90, 99, 100}
             PROVE  /\ Run!dist[p] \in Run!Range(lat)
                    /\ 100 * Run!AtMost(Run!dist[p]) >= p * Len(lat)
                    /\ \A d \in Run!Range(lat) : d < Run!dist[p] => 100 * Run!AtMost(d) < p * Len(lat)
  BY DEF Run!NearestRank
<1> DEFINE t == Run!Sorted(lat)
           n == Len(lat)
           v == Run!dist[p]
<1>1. PICK r \in DOMAIN lat : v = t[r] /\ 100 * r >= p * n /\ 100 * (r - 1) < p * n
  BY Zenon, DistIsRanked
<1>2. n \in Nat /\ p \in Nat /\ r \in Nat /\ DOMAIN lat = 1 .. n /\ \A i \in DOMAIN lat : lat[i] \in Nat
  OBVIOUS
<1>3. \E i \in DOMAIN lat : t[r] = lat[i]
  BY SortedAscends, SameBijections
<1>4. Run!Range(lat) = {lat[i] : i \in DOMAIN lat}
  BY DEF Run!Range
<1>5. \A d : Run!AtMost(d) = Cardinality({i \in DOMAIN lat : lat[i] <= d})
  BY DEF Run!AtMost, Run!Cardinality, Cardinality
<1>6. /\ Run!AtMost(t[r]) \in r .. n
      /\ \A d \in Nat : d < t[r] => Run!AtMost(d) \in 0 .. (r - 1)
  BY <1>5, RankCounts
<1>7. \A d \in Run!Range(lat) : d \in Nat
  BY <1>2, <1>4
<1> HIDE DEF t, n, v
<1>8. v \in Run!Range(lat)
  BY <1>1, <1>3, <1>4
<1>9. 100 * Run!AtMost(v) >= p * n
  <2>1. Run!AtMost(v) \in r .. n
    BY <1>1, <1>6
  <2> QED
    BY <1>1, <1>2, <2>1
<1>10. ASSUME NEW d \in Run!Range(lat), d < v PROVE 100 * Run!AtMost(d) < p * n
  <2>1. Run!AtMost(d) \in 0 .. (r - 1)
    BY <1>1, <1>6, <1>7, <1>10
  <2> QED
    BY <1>1, <1>2, <2>1
<1> QED
  BY <1>8, <1>9, <1>10 DEF v, n

\* The percentiles of runLoad: each is the least sample that at least p per cent
\* of the samples do not exceed.
THEOREM PercentilesAreNearest == Spec => []NearestRank
<1>1. Init => RunInv
  BY OneTool, RunInit
<1>2. RunInv /\ [Next]_vars => RunInv'
  BY OneTool, RunStep
<1>3. RunInv => NearestRank
  <2>1. ASSUME RunInv PROVE lat \in Seq(Nat)
    <3>1. lat \in Seq(Latency) /\ Latency \subseteq Nat
      BY <2>1, ToolConstants DEF RunInv, RunType
    <3> QED
      BY <3>1, SeqMonotonic
  <2> QED
    BY <2>1, PercentileIsNearest DEF NearestRank
<1> QED
  BY <1>1, <1>2, <1>3, PTL DEF Spec

-----------------------------------------------------------------------------
(***************************************************************************)
(* playOne: what is under way between the robot and the room while he      *)
(* plays and the timer has left him his turns.  There is never more than   *)
(* one question open: a state he has still to act on, a command he is      *)
(* about to send, one that is under way, or one that was thrown away.      *)
(***************************************************************************)
Game == [told : BOOLEAN, here : BOOLEAN, opp : {"away", "here", "left"}, on : BOOLEAN,
         seq : Nat, ply : Nat, mine : BOOLEAN, left : Nat, over : BOOLEAN, gone : BOOLEAN]
Types == {"match_found", "game_over", "rate_limited", "error"}
Message == {Client!StateMsg(g) : g \in Game} \cup {Client!Msg(type) : type \in Types}

\* A message that asks him for nothing, in a game that has come to seq.
Quiet(msg, seq) ==
    /\ msg.type \in {"game_state", "game_over"}
    /\ msg.type = "game_state" => msg.game.seq <= seq /\ (~msg.game.mine \/ msg.game.over)

Only(type) == out = <<Client!Msg(type)>>
Lost == Only("rate_limited") \/ Only("error")

\* The game has not started, and the robot has sent nothing, or its join, which may
\* be thrown away: what it sends then is the zero Action, which ends in an error.
\* In the end it waits for its opponent.
Start ==
    /\ ~game.on /\ game.seq = 0 /\ ~game.over /\ lastSeq = 0 /\ last = "none"
    /\ \/ /\ ~game.here /\ inbox = <<>> /\ pc = "read"
          /\ \/ ~game.told /\ out = <<>>
             \/ game.told /\ Only("match_found")
       \/ /\ game.told /\ roomID = "room" /\ ~game.here
          /\ \/ out = <<>> /\ inbox = <<"join">> /\ pc = "read"
             \/ Lost /\ inbox = <<>> /\ pc = "read"
             \/ out = <<>> /\ inbox = <<>> /\ pc = "send"
             \/ out = <<>> /\ inbox = <<"none">> /\ pc = "read"
       \/ /\ game.told /\ roomID = "room" /\ game.here
          /\ out = <<>> /\ inbox = <<>> /\ pc = "read"

\* His turn, and the last message says so.
Asked ==
    /\ inbox = <<>> /\ pc = "read" /\ lastSeq < game.seq
    /\ out # <<>> /\ out[Len(out)] = Client!StateMsg(game)
    /\ \A i \in 1 .. (Len(out) - 1) : Quiet(out[i], game.seq - 1)

\* His turn, and he has chosen: the command is here, or there, or was lost.
Chosen ==
    /\ last = Client!chooseAction(game)
    /\ \/ out = <<>> /\ inbox = <<>> /\ pc = "send"
       \/ out = <<>> /\ inbox = <<last>> /\ pc = "read"
       \/ Lost /\ inbox = <<>> /\ pc = "read"

\* Not his turn, or no turn any more.
Idles ==
    /\ inbox = <<>> /\ pc = "read"
    /\ \A i \in 1 .. Len(out) : Quiet(out[i], game.seq)

Config ==
    /\ game \in Game /\ ~game.gone /\ (game.on => game.told /\ roomID = "room")
    /\ lastSeq \in Nat /\ lastSeq <= game.seq /\ out \in Seq(Message)
    /\ \/ Start
       \/ game.on /\ game.mine /\ ~game.over /\ (Asked \/ Chosen)
       \/ game.on /\ (~game.mine \/ game.over) /\ Idles

\* The room was closed: nobody is left who could refuse a command.
GoneConfig == game \in Game /\ game.gone /\ out \in Seq(Message)

ClientInv ==
    ~timed /\ ~early => illegal = 0 /\ (pc \in {"read", "send"} => Config \/ GoneConfig)

LEMMA ClientInit == Client!Init => ClientInv
<1> SUFFICES ASSUME Client!Init PROVE ClientInv
  OBVIOUS
<1>1. inbox = <<>> /\ out = <<>> /\ pc = "read" /\ illegal = 0 /\ lastSeq = 0 /\ last = "none"
  BY DEF Client!Init
<1>2. /\ game \in Game /\ ~game.on /\ game.seq = 0 /\ ~game.over /\ ~game.gone
      /\ ~game.told /\ ~game.here
  <2>1. Moves \in Nat
    BY ToolConstants
  <2>2. PICK m \in BOOLEAN :
           game = [told |-> FALSE, here |-> FALSE, opp |-> "away", on |-> FALSE, seq |-> 0,
                   ply |-> 1, mine |-> m, left |-> Moves, over |-> FALSE, gone |-> FALSE]
    BY DEF Client!Init
  <2> QED
    BY <2>1, <2>2 DEF Game
<1>3. Start /\ out \in Seq(Message)
  BY <1>1, <1>2 DEF Start
<1> QED
  BY <1>1, <1>2, <1>3 DEF ClientInv, Config

\* The types of the messages.
LEMMA TypesOf ==
    /\ \A g : Client!StateMsg(g).type = "game_state" /\ Client!StateMsg(g).game = g
    /\ \A type : Client!Msg(type).type = type
  BY DEF Client!StateMsg, Client!Msg

\* What the robot may find when he reads, and what it says of the rest.
LEMMA Found ==
    ASSUME Config, pc = "read", out # <<>>
    PROVE  /\ Head(out) = out[1] /\ Len(out) \in Nat \ {0} /\ Tail(out) \in Seq(Message)
           /\ Len(Tail(out)) = Len(out) - 1
           /\ \A i \in 1 .. (Len(out) - 1) : Tail(out)[i] = out[i + 1]
           /\ Head(out).type # "refused"
           /\ Head(out).type = "match_found" => /\ Start /\ game.told /\ ~game.here
                                                /\ inbox = <<>> /\ Tail(out) = <<>>
           /\ Head(out).type = "rate_limited" => /\ inbox = <<>> /\ Tail(out) = <<>>
                                                 /\ ~Asked /\ ~Idles
           /\ Head(out).type = "game_state" => ~Start /\ ~Chosen
<1>1. /\ out \in Seq(Message) /\ Head(out) = out[1] /\ Len(out) \in Nat \ {0}
      /\ Tail(out) \in Seq(Message) /\ Len(Tail(out)) = Len(out) - 1
      /\ \A i \in 1 .. (Len(out) - 1) : Tail(out)[i] = out[i + 1]
  BY DEF Config
<1>2. ASSUME NEW type, Only(type)
      PROVE  Head(out).type = type /\ Tail(out) = <<>>
  BY <1>2, TypesOf DEF Only
<1>3. Start => /\ Head(out).type \in {"match_found", "rate_limited", "error"}
               /\ inbox = <<>> /\ Tail(out) = <<>>
               /\ game.told /\ ~game.here
  BY <1>2 DEF Start, Lost
<1>4. Chosen => /\ Head(out).type \in {"rate_limited", "error"}
                /\ inbox = <<>> /\ Tail(out) = <<>>
  BY <1>2 DEF Chosen, Lost
<1>5. Asked => Head(out).type \in {"game_state", "game_over"}
  <2> SUFFICES ASSUME Asked PROVE out[1].type \in {"game_state", "game_over"}
    BY <1>1
  <2>1. CASE Len(out) = 1
    BY <2>1, TypesOf DEF Asked
  <2>2. CASE Len(out) # 1
    <3>1. 1 \in 1 .. (Len(out) - 1)
      BY <1>1, <2>2
    <3> QED
      BY <3>1 DEF Asked, Quiet
  <2> QED
    BY <2>1, <2>2
<1>6. Idles => Head(out).type \in {"game_state", "game_over"}
  BY <1>1 DEF Idles, Quiet
<1>7. Start \/ Asked \/ Chosen \/ Idles
  BY DEF Config
<1> QED
  BY <1>1, <1>3, <1>4, <1>5, <1>6, <1>7

\* What the room sends.
LEMMA Pushed ==
    ASSUME NEW g \in Game, out \in Seq(Message), Client!Push(g)
    PROVE  /\ game' = [g EXCEPT !.seq = g.seq + 1] /\ game' \in Game
           /\ out' \in Seq(Message)
           /\ \A i \in 1 .. Len(out) : out'[i] = out[i]
           /\ out'[Len(out) + 1] = Client!StateMsg(game')
           /\ ~g.over => Len(out') = Len(out) + 1
           /\ g.over => /\ Len(out') = Len(out) + 2
                        /\ out'[Len(out) + 2] = Client!Msg("game_over")
<1>1. game' = [g EXCEPT !.seq = g.seq + 1] /\ game' \in Game
  <2>1. game' = [g EXCEPT !.seq = g.seq + 1]
    BY DEF Client!Push
  <2> QED
    BY <2>1 DEF Game
<1> DEFINE a == Client!StateMsg(game')
           b == Client!Msg("game_over")
<1>2. a \in Message /\ b \in Message
  BY <1>1 DEF Message, Types
<1>3. out' = out \o <<a>> \o (IF g.over THEN <<b>> ELSE <<>>)
  BY DEF Client!Push
<1> HIDE DEF a, b
<1> DEFINE d == out \o <<a>>
           n == Len(out)
<1>4. /\ n \in Nat /\ d \in Seq(Message) /\ Len(d) = n + 1 /\ d[n + 1] = a
      /\ \A i \in 1 .. n : d[i] = out[i]
  BY <1>2
<1>5. CASE g.over
  <2>1. out' = d \o <<b>>
    BY <1>3, <1>5
  <2> HIDE DEF d
  <2>2. /\ out' \in Seq(Message) /\ Len(out') = n + 2 /\ out'[n + 2] = b
        /\ \A i \in 1 .. (n + 1) : out'[i] = d[i]
    BY <1>2, <1>4, <2>1
  <2> QED
    BY <1>1, <1>4, <1>5, <2>2 DEF a, b
<1>6. CASE ~g.over
  <2>1. out' = d
    <3>1. out' = d \o <<>>
      BY <1>3, <1>6
    <3> HIDE DEF d
    <3> QED
      BY <1>4, <3>1
  <2> QED
    BY <1>1, <1>4, <1>6, <2>1 DEF a, b
<1> QED
  BY <1>5, <1>6

\* A state that asks the robot for nothing is pushed to one who idles.
LEMMA PushIdles ==
    ASSUME NEW g \in Game, out \in Seq(Message), Client!Push(g), ~g.mine \/ g.over, g.on, g.told, ~g.gone,
           g.seq = game.seq, \A i \in 1 .. Len(out) : Quiet(out[i], game.seq),
           inbox' = <<>>, pc' = "read", lastSeq' \in Nat, lastSeq' <= game.seq,
           roomID' = "room"
    PROVE  Config'
<1>1. /\ game' = [g EXCEPT !.seq = g.seq + 1] /\ game' \in Game /\ out' \in Seq(Message)
      /\ g.seq \in Nat
  BY Pushed DEF Game
<1>2. /\ game'.on /\ (~game'.mine \/ game'.over) /\ game'.seq = g.seq + 1
      /\ game'.told /\ ~game'.gone
  BY <1>1 DEF Game
<1>3. \A i \in 1 .. Len(out') : Quiet(out'[i], game'.seq)
  <2> TAKE i \in 1 .. Len(out')
  <2>1. CASE i \in 1 .. Len(out)
    <3>1. out'[i] = out[i] /\ Quiet(out[i], game.seq)
      BY <2>1, Pushed
    <3>2. out[i] \in Message
      BY <2>1
    <3>3. out[i].type = "game_state" => out[i].game.seq \in Nat
      BY <3>2 DEF Message, Types, Client!StateMsg, Client!Msg, Game
    <3> QED
      BY <1>1, <1>2, <3>1, <3>3 DEF Quiet
  <2>2. CASE i = Len(out) + 1
    <3>1. out'[i].type = "game_state" /\ out'[i].game = game'
      BY <2>2, Pushed, TypesOf
    <3> QED
      BY <1>1, <1>2, <3>1 DEF Quiet
  <2>3. CASE i = Len(out) + 2
    <3>1. g.over /\ out'[i].type = "game_over"
      BY <2>3, Pushed, TypesOf
    <3> QED
      BY <3>1 DEF Quiet
  <2>4. Len(out) \in Nat /\ Len(out') \in {Len(out) + 1, Len(out) + 2}
    BY Pushed
  <2> QED
    BY <2>1, <2>2, <2>3, <2>4
<1> QED
  BY <1>1, <1>2, <1>3 DEF Config, Idles

\* A state that makes it his turn.
LEMMA PushAsks ==
    ASSUME NEW g \in Game, out \in Seq(Message), Client!Push(g), g.mine, ~g.over, g.on, g.told, ~g.gone,
           g.seq = game.seq, \A i \in 1 .. Len(out) : Quiet(out[i], game.seq),
           inbox' = <<>>, pc' = "read", lastSeq' \in Nat, lastSeq' <= game.seq,
           roomID' = "room"
    PROVE  Config'
<1>1. /\ game' = [g EXCEPT !.seq = g.seq + 1] /\ game' \in Game /\ out' \in Seq(Message)
      /\ g.seq \in Nat /\ Len(out') = Len(out) + 1 /\ Len(out) \in Nat
      /\ out'[Len(out) + 1] = Client!StateMsg(game')
      /\ \A i \in 1 .. Len(out) : out'[i] = out[i]
  BY Pushed DEF Game
<1>2. /\ game'.on /\ game'.mine /\ ~game'.over /\ game'.seq = g.seq + 1
      /\ game'.told /\ ~game'.gone
  BY <1>1 DEF Game
<1>3. /\ out' # <<>> /\ Len(out') - 1 = Len(out) /\ game'.seq - 1 = game.seq
      /\ out'[Len(out')] = Client!StateMsg(game')
  BY <1>1, <1>2
<1>4. \A i \in 1 .. (Len(out') - 1) : Quiet(out'[i], game'.seq - 1)
  BY <1>1, <1>3
<1> QED
  BY <1>1, <1>2, <1>3, <1>4 DEF Config, Asked

\* The robot joins; sends again what was thrown away; sends what he has chosen.
LEMMA JoinCalm == ASSUME Config, Client!Join PROVE Config'
<1>1. /\ pc = "read" /\ out # <<>> /\ Head(out).type = "match_found"
      /\ inbox' = Append(inbox, "join") /\ out' = Tail(out) /\ roomID' = "room"
      /\ UNCHANGED <<game, lastSeq, last, pc>>
  BY DEF Client!Join, Client!Reading, Client!Done, Client!robotVars
<1>2. Start /\ inbox = <<>> /\ out' = <<>> /\ game.told /\ ~game.here
  BY <1>1, Found
<1>3. inbox' = <<"join">>
  BY <1>1, <1>2
<1>4. Start'
  BY <1>1, <1>2, <1>3 DEF Start
<1> QED
  BY <1>1, <1>2, <1>4 DEF Config

LEMMA LimitedCalm == ASSUME Config, Client!Limited PROVE Config'
<1>1. /\ pc = "read" /\ out # <<>> /\ Head(out).type = "rate_limited" /\ pc' = "send"
      /\ out' = Tail(out) /\ UNCHANGED <<game, inbox, roomID, lastSeq, last>>
  BY DEF Client!Limited, Client!Reading, Client!Done
<1>2. inbox = <<>> /\ out' = <<>> /\ ~Asked /\ ~Idles
  BY <1>1, Found
<1>3. CASE Start
  <2>1. Start'
    BY <1>1, <1>2, <1>3, TypesOf DEF Start, Only
  <2> QED
    BY <1>1, <1>2, <2>1 DEF Config
<1>4. CASE ~Start
  <2>1. Chosen /\ game.on /\ game.mine /\ ~game.over
    BY <1>2, <1>4 DEF Config
  <2>2. Chosen'
    BY <1>1, <1>2, <2>1 DEF Chosen, Client!chooseAction
  <2> QED
    BY <1>1, <1>2, <2>1, <2>2 DEF Config
<1> QED
  BY <1>3, <1>4

LEMMA SendCalm == ASSUME Config, Client!SendAction PROVE Config'
<1>1. /\ pc = "send" /\ pc' = "read" /\ UNCHANGED <<game, out, roomID, lastSeq, last>>
      /\ roomID = "room" => inbox' = Append(inbox, last)
  BY DEF Client!SendAction
<1>2. out = <<>> /\ inbox = <<>> /\ ~Asked /\ ~Idles
  BY <1>1 DEF Config, Start, Chosen, Asked, Idles
<1>3. inbox' = <<last>> /\ (Start => game.told /\ ~game.here /\ roomID = "room")
  BY <1>1, <1>2 DEF Config, Start
<1>4. CASE Start
  <2>1. Start'
    BY <1>1, <1>2, <1>3, <1>4 DEF Start
  <2> QED
    BY <1>1, <2>1 DEF Config
<1>5. CASE ~Start
  <2>1. Chosen /\ game.on /\ game.mine /\ ~game.over
    BY <1>2, <1>5 DEF Config
  <2>2. Chosen'
    BY <1>1, <1>2, <1>3, <2>1 DEF Chosen, Client!chooseAction
  <2> QED
    BY <1>1, <2>1, <2>2 DEF Config
<1> QED
  BY <1>4, <1>5

\* A state is due if and only if it is the one that the room waits for.
LEMMA DueIsLast ==
    ASSUME Config, pc = "read", out # <<>>, Head(out).type = "game_state"
    PROVE  /\ Client!Due(Head(out).game) => /\ Asked /\ Len(out) = 1
                                            /\ game.mine /\ ~game.over /\ Head(out).game = game
           /\ Asked /\ Len(out) = 1 /\ game.mine /\ ~game.over => Client!Due(Head(out).game)
<1>1. Head(out) = out[1] /\ Len(out) \in Nat \ {0} /\ ~Start /\ ~Chosen
  BY Found
<1>2. (Asked /\ game.mine /\ ~game.over) \/ Idles
  BY <1>1 DEF Config
<1>3. game.seq \in Nat /\ lastSeq \in Nat
  BY DEF Config, Game
<1>4. \A seq : Quiet(out[1], seq) => ~Client!Due(out[1].game)
  BY <1>1 DEF Quiet, Client!Due
<1>5. Idles => ~Client!Due(out[1].game)
  <2>1. 1 \in 1 .. Len(out)
    BY <1>1
  <2> QED
    BY <1>4, <2>1 DEF Idles
<1>6. Asked /\ Len(out) # 1 => ~Client!Due(out[1].game)
  <2> SUFFICES ASSUME Asked, Len(out) # 1 PROVE ~Client!Due(out[1].game)
    OBVIOUS
  <2>1. \A n \in Nat \ {0} : n # 1 => 1 \in 1 .. (n - 1)
    OBVIOUS
  <2>2. 1 \in 1 .. (Len(out) - 1)
    BY <1>1, <2>1
  <2> QED
    BY <1>4, <2>2 DEF Asked
<1>7. Asked /\ Len(out) = 1 => out[1].game = game /\ lastSeq < game.seq
  BY TypesOf DEF Asked
<1>8. Asked /\ Len(out) = 1 /\ game.mine /\ ~game.over => Client!Due(out[1].game)
  BY <1>3, <1>7 DEF Client!Due
<1> QED
  BY <1>1, <1>2, <1>5, <1>6, <1>7, <1>8

LEMMA ThinkCalm == ASSUME Config, Client!Think PROVE Config'
<1>1. /\ pc = "read" /\ out # <<>> /\ Head(out).type = "game_state"
      /\ Client!Due(Head(out).game) /\ lastSeq' = Head(out).game.seq
      /\ last' = Client!chooseAction(Head(out).game) /\ pc' = "send"
      /\ out' = Tail(out) /\ UNCHANGED <<game, inbox, roomID>>
  BY DEF Client!Think, Client!Reading, Client!Done
<1>2. Asked /\ Len(out) = 1 /\ game.mine /\ ~game.over /\ Head(out).game = game
  BY <1>1, DueIsLast
<1>3. out' = <<>> /\ ~Start
  <2>1. out \in Seq(Message)
    BY DEF Config
  <2> QED
    BY <1>1, <1>2, <2>1, Found
<1>4. Chosen'
  BY <1>1, <1>2, <1>3 DEF Chosen, Asked, Client!chooseAction
<1>5. game.seq \in Nat /\ game.on
  BY <1>3 DEF Config, Game
<1> QED
  BY <1>1, <1>2, <1>3, <1>4, <1>5 DEF Config

LEMMA SkipCalm == ASSUME Config, Client!Skip PROVE Config'
<1> DEFINE h == Head(out).game
<1>1. /\ pc = "read" /\ pc' = "read" /\ out # <<>> /\ Head(out).type = "game_state"
      /\ ~Client!Due(h) /\ lastSeq' = IF h.seq > lastSeq THEN h.seq ELSE lastSeq
      /\ out' = Tail(out) /\ UNCHANGED <<game, inbox, roomID, last>>
  BY DEF Client!Skip, Client!Reading, Client!Done
<1>2. /\ out' \in Seq(Message) /\ Len(out') = Len(out) - 1 /\ Len(out) \in Nat \ {0}
      /\ \A i \in 1 .. (Len(out) - 1) : out'[i] = out[i + 1]
      /\ Head(out) = out[1] /\ ~Start /\ ~Chosen
  BY <1>1, Found
<1>3. h.seq \in Nat
  <2>1. out[1] \in Message /\ out[1].type = "game_state"
    BY <1>1, <1>2 DEF Config
  <2> QED
    BY <1>2, <2>1 DEF Message, Types, Client!StateMsg, Client!Msg, Game
<1>4. game.seq \in Nat /\ lastSeq \in Nat /\ lastSeq' \in Nat
  BY <1>1, <1>3 DEF Config, Game
<1> HIDE DEF h
<1>5. CASE game.on /\ game.mine /\ ~game.over /\ Asked
  <2>1. Len(out) # 1
    BY <1>1, <1>5, DueIsLast DEF h
  <2>2. 1 \in 1 .. (Len(out) - 1)
    BY <1>2, <2>1
  <2>3. h.seq <= game.seq - 1
    BY <1>1, <1>2, <1>5, <2>2 DEF Asked, Quiet, h
  <2>4. out' # <<>> /\ out'[Len(out')] = out[Len(out)]
    <3>1. Len(out) - 1 \in 1 .. (Len(out) - 1) /\ (Len(out) - 1) + 1 = Len(out)
      BY <1>2, <2>1
    <3>2. Len(out') # 0
      BY <1>2, <2>1
    <3> QED
      BY <1>2, <3>1, <3>2
  <2>5. \A i \in 1 .. (Len(out') - 1) : Quiet(out'[i], game.seq - 1)
    <3> TAKE i \in 1 .. (Len(out') - 1)
    <3>1. i \in 1 .. (Len(out) - 1) /\ i + 1 \in 1 .. (Len(out) - 1)
      BY <1>2
    <3> QED
      BY <1>2, <1>5, <3>1 DEF Asked
  <2>6. lastSeq' < game.seq /\ lastSeq' <= game.seq
    BY <1>1, <1>3, <1>4, <1>5, <2>3 DEF Asked
  <2>7. Asked'
    BY <1>1, <1>5, <2>4, <2>5, <2>6 DEF Asked
  <2> QED
    BY <1>1, <1>2, <1>4, <1>5, <2>6, <2>7 DEF Config
<1>6. CASE game.on /\ (~game.mine \/ game.over) /\ Idles
  <2>1. 1 \in 1 .. Len(out)
    BY <1>2
  <2>2. h.seq <= game.seq
    BY <1>1, <1>2, <1>6, <2>1 DEF Idles, Quiet, h
  <2>3. \A i \in 1 .. Len(out') : Quiet(out'[i], game.seq)
    <3> TAKE i \in 1 .. Len(out')
    <3>1. i \in 1 .. (Len(out) - 1) /\ i + 1 \in 1 .. Len(out)
      BY <1>2
    <3> QED
      BY <1>2, <1>6, <3>1 DEF Idles
  <2>4. lastSeq' <= game.seq
    BY <1>1, <1>3, <1>4, <2>2 DEF Config
  <2>5. Idles'
    BY <1>1, <1>6, <2>3 DEF Idles
  <2> QED
    BY <1>1, <1>2, <1>4, <1>6, <2>4, <2>5 DEF Config
<1> QED
  BY <1>2, <1>5, <1>6 DEF Config

\* The limiter throws a command away, or the room has no place for it.
LEMMA LimitCalm == ASSUME Config, pc \in {"read", "send"}, Client!Limit PROVE Config'
<1>1. /\ inbox # <<>> /\ Head(inbox) # "none" /\ inbox' = Tail(inbox)
      /\ UNCHANGED <<game, roomID, lastSeq, last, pc>>
  BY DEF Client!Limit, Client!robotVars
<1>2. PICK type \in {"rate_limited", "error"} : out' = Append(out, Client!Msg(type))
  BY DEF Client!Limit
<1>3. out = <<>> /\ pc = "read" /\ ~Asked /\ ~Idles
  BY <1>1 DEF Config, Start, Chosen, Asked, Idles
<1>4. out' = <<Client!Msg(type)>> /\ Client!Msg(type) \in Message
  BY <1>2, <1>3 DEF Message, Types
<1>5. out' \in Seq(Message) /\ Lost'
  BY <1>4 DEF Lost, Only
<1>6. CASE Start
  <2>1. inbox = <<"join">> /\ game.told /\ roomID = "room" /\ ~game.here
    BY <1>1, <1>3, <1>6 DEF Start
  <2>2. Start'
    BY <1>1, <1>3, <1>5, <1>6, <2>1 DEF Start
  <2> QED
    BY <1>1, <1>5, <2>2 DEF Config
<1>7. CASE ~Start
  <2>1. Chosen /\ game.on /\ game.mine /\ ~game.over
    BY <1>3, <1>7 DEF Config
  <2>2. inbox = <<last>>
    BY <1>1, <1>3, <2>1 DEF Chosen
  <2>3. Chosen'
    BY <1>1, <1>3, <1>5, <2>1, <2>2 DEF Chosen, Client!chooseAction
  <2> QED
    BY <1>1, <1>5, <2>1, <2>3 DEF Config
<1> QED
  BY <1>6, <1>7

\* The turn is over.
LEMMA PassedGame ==
    ASSUME NEW g \in Game
    PROVE  LET h == Client!Passed(g)
           IN  /\ h \in Game /\ h.on = g.on /\ h.seq = g.seq /\ h.mine = ~g.mine
               /\ h.told = g.told /\ h.gone = g.gone
<1> DEFINE mine == ~g.mine
           over == g.ply = Plies
           ply == g.ply + 1
           h == [g EXCEPT !.ply = ply, !.mine = mine, !.left = Moves, !.over = over]
<1>1. mine \in BOOLEAN /\ over \in BOOLEAN /\ Moves \in Nat /\ ply \in Nat
  BY ToolConstants DEF Game
<1>2. Client!Passed(g) = h
  BY DEF Client!Passed
<1> HIDE DEF mine, over, ply
<1>3. /\ h \in Game /\ h.on = g.on /\ h.seq = g.seq /\ h.mine = mine
      /\ h.told = g.told /\ h.gone = g.gone
  BY <1>1 DEF Game
<1> HIDE DEF h
<1> QED
  BY <1>2, <1>3 DEF mine

\* The opponent moves, or it becomes the robot's turn.
LEMMA OpponentCalm ==
    ASSUME Config, pc \in {"read", "send"}, Client!Opponent, ~early'
    PROVE  Config'
<1>1. /\ game.on /\ ~game.over /\ ~game.mine /\ UNCHANGED <<inbox, lastSeq, last, pc>>
      /\ game \in Game /\ out \in Seq(Message) /\ lastSeq \in Nat /\ lastSeq <= game.seq
      /\ game.told /\ ~game.gone /\ roomID' = "room"
  BY DEF Client!Opponent, Client!Closed, Client!robotVars, Config
<1>2. Idles
  BY <1>1 DEF Config, Start
<1>3. inbox' = <<>> /\ pc' = "read" /\ \A i \in 1 .. Len(out) : Quiet(out[i], game.seq)
  BY <1>1, <1>2 DEF Idles
<1>4. ASSUME game.left > 0, NEW w \in BOOLEAN,
             Client!Push([game EXCEPT !.left = game.left - 1, !.over = w])
      PROVE  Config'
  <2> DEFINE left == game.left - 1
             g == [game EXCEPT !.left = left, !.over = w]
  <2>0. left \in Nat
    BY <1>1, <1>4 DEF Game
  <2> HIDE DEF left
  <2>1. g \in Game /\ ~g.mine /\ g.on /\ g.seq = game.seq /\ g.told /\ ~g.gone
    BY <1>1, <1>4, <2>0 DEF Game
  <2> HIDE DEF g
  <2>2. Client!Push(g)
    BY <1>4 DEF g, left
  <2> QED
    BY <1>1, <1>3, <2>1, <2>2, PushIdles
<1>5. CASE Client!Push(Client!Passed(game))
  <2> DEFINE g == Client!Passed(game)
  <2>1. g \in Game /\ g.mine /\ g.on /\ g.seq = game.seq /\ g.told /\ ~g.gone
    BY <1>1, PassedGame
  <2> HIDE DEF g
  <2>2. Client!Push(g)
    BY <1>5 DEF g
  <2> QED
    BY <1>1, <1>3, <2>1, <2>2, PushIdles, PushAsks
<1> QED
  BY <1>4, <1>5 DEF Client!Opponent

\* One of the two joins, and the other has or has not.
LEMMA JoinedCalm ==
    ASSUME Config, Start, NEW g \in Game, Client!Joined(g), inbox' = <<>>, pc' = "read",
           out = <<>>, game.told, roomID' = "room", g.here,
           g.on = game.on, g.seq = game.seq, g.told = game.told, ~g.gone, ~g.over,
           UNCHANGED <<lastSeq, last>>
    PROVE  Config'
<1>1. ~g.on /\ g.seq = 0 /\ g.told /\ lastSeq' = 0 /\ last' = "none"
  BY DEF Start
<1>2. CASE g.opp = "here"
  <2> DEFINE h == [g EXCEPT !.on = TRUE]
  <2>1. Client!Push(h)
    BY <1>1, <1>2 DEF Client!Joined
  <2>2. /\ h \in Game /\ h.on /\ h.told /\ ~h.gone /\ h.seq = game.seq
        /\ ~h.over
    BY <1>1 DEF Game
  <2>3. /\ out \in Seq(Message) /\ lastSeq' \in Nat /\ lastSeq' <= game.seq
        /\ \A i \in 1 .. Len(out) : Quiet(out[i], game.seq)
    BY <1>1 DEF Config
  <2> HIDE DEF h
  <2> QED
    BY <2>1, <2>2, <2>3, PushIdles, PushAsks
<1>3. CASE g.opp # "here"
  <2>1. game' = g /\ out' = <<>>
    BY <1>3 DEF Client!Joined
  <2>2. Start'
    BY <1>1, <2>1 DEF Start
  <2> QED
    BY <1>1, <2>1, <2>2 DEF Config
<1> QED
  BY <1>2, <1>3

\* The room answers the only command that is under way, and never refuses it.
LEMMA ServeCalm == ASSUME Config, pc \in {"read", "send"}, Client!Serve PROVE Config'
<1>1. /\ inbox # <<>> /\ inbox' = Tail(inbox) /\ UNCHANGED <<roomID, lastSeq, last, pc>>
      /\ game \in Game /\ out \in Seq(Message) /\ lastSeq \in Nat /\ lastSeq <= game.seq
      /\ ~game.gone
  BY DEF Client!Serve, Client!robotVars, Config
<1>2. out = <<>> /\ pc = "read" /\ ~Asked /\ ~Idles
  BY <1>1 DEF Config, Start, Chosen, Asked, Idles
<1>3. \A i \in 1 .. Len(out) : Quiet(out[i], game.seq)
  BY <1>2
<1>4. CASE Start /\ inbox = <<"join">>
  <2> DEFINE g == [game EXCEPT !.here = TRUE]
  <2>1. /\ g \in Game /\ g.here /\ g.on = game.on /\ g.seq = game.seq /\ g.told = game.told
        /\ ~g.gone /\ ~g.over /\ game.told /\ roomID = "room"
    BY <1>1, <1>4 DEF Game, Start
  <2>2. Client!Joined(g) /\ inbox' = <<>>
    <3>1. ~Client!Closed /\ Head(inbox) = "join" /\ inbox' = <<>>
      BY <1>1, <1>4 DEF Client!Closed, Start
    <3> QED
      BY <3>1 DEF Client!Serve
  <2> HIDE DEF g
  <2> QED
    BY <1>1, <1>2, <1>4, <2>1, <2>2, JoinedCalm
<1>5. CASE Start /\ inbox # <<"join">>
  <2>1. inbox = <<"none">> /\ game.told /\ roomID = "room" /\ ~game.here
    BY <1>1, <1>2, <1>5 DEF Start
  <2>2. Head(inbox) = "none" /\ inbox' = <<>>
    BY <1>1, <2>1
  <2>3. out' = Append(out, Client!Msg("error")) /\ game' = game
    BY <2>2 DEF Client!Serve
  <2>4. out' = <<Client!Msg("error")>> /\ Client!Msg("error") \in Message
    BY <1>2, <2>3 DEF Message, Types
  <2>5. out' \in Seq(Message) /\ Lost'
    BY <2>4 DEF Lost, Only
  <2>6. Start'
    BY <1>1, <1>2, <1>5, <2>1, <2>2, <2>3, <2>5 DEF Start
  <2> QED
    BY <1>1, <2>3, <2>5, <2>6 DEF Config
<1>6. CASE ~Start
  <2>1. /\ Chosen /\ game.on /\ game.mine /\ ~game.over /\ game.told /\ roomID' = "room"
        /\ ~Client!Closed
    BY <1>1, <1>2, <1>6 DEF Config, Client!Closed
  <2>2. inbox = <<last>> /\ last = Client!chooseAction(game)
    BY <1>1, <1>2, <2>1 DEF Chosen
  <2>3. Head(inbox) = last /\ inbox' = <<>> /\ pc' = "read"
    BY <1>1, <1>2, <2>2
  <2>4. CASE game.left > 0
    <3>1. last = "move"
      BY <2>2, <2>4 DEF Client!chooseAction
    <3>2. PICK w \in BOOLEAN :
             Client!Push([game EXCEPT !.left = game.left - 1, !.over = w])
      BY <2>1, <2>3, <2>4, <3>1 DEF Client!Serve
    <3> DEFINE left == game.left - 1
               g == [game EXCEPT !.left = left, !.over = w]
    <3>3. left \in Nat
      BY <1>1, <2>4 DEF Game
    <3> HIDE DEF left
    <3>5. g \in Game /\ g.on /\ g.seq = game.seq /\ g.mine /\ g.told /\ ~g.gone
      BY <1>1, <2>1, <3>3 DEF Game
    <3> HIDE DEF g
    <3>4. Client!Push(g)
      BY <3>2 DEF g, left
    <3> QED
      BY <1>1, <1>3, <2>1, <2>3, <3>4, <3>5, PushIdles, PushAsks
  <2>5. CASE ~(game.left > 0)
    <3>1. last = "end_turn"
      BY <2>2, <2>5 DEF Client!chooseAction
    <3> DEFINE g == Client!Passed(game)
    <3>2. Client!Push(g)
      BY <2>1, <2>3, <3>1 DEF Client!Serve
    <3>3. g \in Game /\ g.on /\ g.seq = game.seq /\ ~g.mine /\ g.told /\ ~g.gone
      BY <1>1, <2>1, PassedGame
    <3> HIDE DEF g
    <3> QED
      BY <1>1, <1>3, <2>1, <2>3, <3>2, <3>3, PushIdles
  <2> QED
    BY <2>4, <2>5
<1> QED
  BY <1>4, <1>5, <1>6

\* The match is announced.
LEMMA NotifyMatchCalm == ASSUME Config, Client!NotifyMatch PROVE Config'
<1>1. /\ ~game.told /\ game' = [game EXCEPT !.told = TRUE] /\ game \in Game /\ ~game.gone
      /\ out' = Append(out, Client!Msg("match_found"))
      /\ UNCHANGED <<inbox, roomID, lastSeq, last, pc>>
  BY DEF Client!NotifyMatch, Client!robotVars, Config
<1>2. Start /\ out = <<>> /\ ~game.here /\ inbox = <<>> /\ pc = "read"
  BY <1>1 DEF Config, Start
<1>3. /\ game' \in Game /\ game'.told /\ ~game'.gone /\ ~game'.here /\ ~game'.on
      /\ game'.seq = game.seq /\ ~game'.over
  BY <1>1, <1>2 DEF Game, Start
<1>4. out' = <<Client!Msg("match_found")>> /\ Client!Msg("match_found") \in Message
  BY <1>1, <1>2 DEF Message, Types
<1>5. Start' /\ out' \in Seq(Message)
  BY <1>1, <1>2, <1>3, <1>4 DEF Start, Only
<1> QED
  BY <1>1, <1>3, <1>5 DEF Config

\* The opponent joins or leaves before the start.
LEMMA OpponentComesCalm ==
    ASSUME Config, Client!OpponentComes
    PROVE  Config'
<1>1. /\ Start /\ game \in Game /\ ~game.on /\ ~game.gone /\ ~game.over
      /\ out \in Seq(Message) /\ UNCHANGED <<inbox, roomID, lastSeq, last, pc>>
  BY DEF Client!OpponentComes, Client!Closed, Client!robotVars, Config
<1>2. ASSUME NEW o \in {"here", "left"}, game' = [game EXCEPT !.opp = o], UNCHANGED out
      PROVE  Config'
  <2>1. /\ game' \in Game /\ ~game'.on /\ ~game'.gone /\ ~game'.over /\ game'.seq = game.seq
        /\ game'.told = game.told /\ game'.here = game.here
    BY <1>1, <1>2 DEF Game
  <2>2. Start'
    BY <1>1, <1>2, <2>1 DEF Start, Lost, Only
  <2> QED
    BY <1>1, <1>2, <2>1, <2>2 DEF Config
<1>3. CASE Client!Joined([game EXCEPT !.opp = "here"])
  <2> DEFINE g == [game EXCEPT !.opp = "here"]
  <2>1. /\ g \in Game /\ g.here = game.here /\ g.on = game.on /\ g.seq = game.seq
        /\ g.told = game.told /\ ~g.gone /\ ~g.over
    BY <1>1 DEF Game
  <2>2. CASE game.here
    <3>1. game.told /\ roomID' = "room" /\ inbox' = <<>> /\ pc' = "read" /\ out = <<>>
      BY <1>1, <2>2 DEF Start
    <3>2. Client!Joined(g)
      BY <1>3
    <3> HIDE DEF g
    <3> QED
      BY <1>1, <2>1, <2>2, <3>1, <3>2, JoinedCalm
  <2>3. CASE ~game.here
    <3>1. game' = g /\ UNCHANGED out
      BY <1>3, <2>1, <2>3 DEF Client!Joined
    <3> QED
      BY <1>2, <3>1
  <2> QED
    BY <2>2, <2>3
<1> QED
  BY <1>2, <1>3 DEF Client!OpponentComes

\* The room is closed, for good, and nothing that comes then is a refusal.
LEMMA CloseCalm == ASSUME Config, Client!Close PROVE GoneConfig'
<1>1. game' = [game EXCEPT !.gone = TRUE] /\ game \in Game /\ out \in Seq(Message)
  BY DEF Client!Close, Config
<1>2. game' \in Game /\ game'.gone
  BY <1>1 DEF Game
<1>3. Client!Msg("error") \in Message
  BY DEF Message, Types
<1>4. out' \in Seq(Message)
  <2>1. CASE UNCHANGED out
    BY <1>1, <2>1
  <2>2. CASE out' = Append(out, Client!Msg("error"))
    BY <1>1, <1>3, <2>2
  <2> QED
    BY <2>1, <2>2 DEF Client!Close
<1> QED
  BY <1>2, <1>4 DEF GoneConfig

LEMMA GoneCalm ==
    ASSUME GoneConfig, Client!Next
    PROVE  GoneConfig' /\ ~Client!Refused /\ UNCHANGED <<timed, early>>
<1>1. game \in Game /\ game.gone /\ out \in Seq(Message) /\ Client!Closed
  BY DEF GoneConfig, Client!Closed
<1>2. \A type \in Types : Client!Msg(type) \in Message
  BY DEF Message
<1>3. ASSUME out # <<>> PROVE Tail(out) \in Seq(Message) /\ Head(out).type # "refused"
  <2>1. Tail(out) \in Seq(Message) /\ Head(out) \in Message
    BY <1>1, <1>3
  <2> QED
    BY <2>1, TypesOf DEF Message, Types
<1>4. ~Client!Refused
  BY <1>3 DEF Client!Refused, Client!Reading
<1>5. CASE Client!Robot \/ Client!Fails
  <2>1. UNCHANGED <<game, timed, early>> /\ (out' = out \/ (out # <<>> /\ out' = Tail(out)))
    BY <1>5 DEF Client!Robot, Client!Fails, Client!Join, Client!Skip, Client!Think, Client!Limited,
                Client!Refused, Client!SendAction, Client!GameOver, Client!Reading, Client!Done
  <2> QED
    BY <1>1, <1>3, <1>4, <2>1 DEF GoneConfig
<1>6. CASE Client!NotifyMatch
  <2>1. /\ game' = [game EXCEPT !.told = TRUE] /\ UNCHANGED <<timed, early>>
        /\ out' = Append(out, Client!Msg("match_found"))
    BY <1>6 DEF Client!NotifyMatch
  <2>2. game' \in Game /\ game'.gone /\ "match_found" \in Types
    BY <1>1, <2>1 DEF Game, Types
  <2> QED
    BY <1>1, <1>2, <1>4, <2>1, <2>2 DEF GoneConfig
<1>7. CASE Client!Limit \/ Client!Serve
  <2>1. UNCHANGED <<game, timed, early>>
    BY <1>1, <1>7 DEF Client!Limit, Client!Serve
  <2>2. out' = out \/ \E type \in Types : out' = Append(out, Client!Msg(type))
    BY <1>1, <1>7 DEF Client!Limit, Client!Serve, Types
  <2> QED
    BY <1>1, <1>2, <1>4, <2>1, <2>2 DEF GoneConfig
<1>8. ~Client!OpponentComes /\ ~Client!Opponent /\ ~Client!Timer /\ ~Client!Close
  BY <1>1 DEF Client!OpponentComes, Client!Opponent, Client!Timer, Client!Close
<1> QED
  BY <1>5, <1>6, <1>7, <1>8 DEF Client!Next

\* What the steps of the robot, and those of the room, leave alone.
LEMMA RobotKeeps ==
    ASSUME Client!Robot \/ Client!Fails
    PROVE  /\ UNCHANGED <<timed, early>> /\ (~Client!Refused => UNCHANGED illegal)
           /\ pc \in {"read", "send"}
<1>1. CASE Client!Join \/ Client!Skip
  BY <1>1 DEF Client!Join, Client!Skip, Client!Reading, Client!Done
<1>2. CASE Client!Think \/ Client!Limited
  BY <1>2 DEF Client!Think, Client!Limited, Client!Reading, Client!Done
<1>3. CASE Client!Refused \/ Client!GameOver
  BY <1>3 DEF Client!Refused, Client!GameOver, Client!Reading, Client!Done
<1>4. CASE Client!SendAction \/ Client!Fails
  BY <1>4 DEF Client!SendAction, Client!Fails
<1> QED
  BY <1>1, <1>2, <1>3, <1>4 DEF Client!Robot

LEMMA RoomKeeps ==
    /\ Client!NotifyMatch \/ Client!Limit \/ Client!Serve \/ Client!OpponentComes \/ Client!Close
          => UNCHANGED <<timed, early, illegal, pc>>
    /\ Client!Opponent \/ Client!Timer => UNCHANGED <<illegal, pc>>
<1>1. Client!NotifyMatch \/ Client!Limit => UNCHANGED <<timed, early, illegal, pc>>
  BY DEF Client!NotifyMatch, Client!Limit, Client!robotVars
<1>2. Client!Serve => UNCHANGED <<timed, early, illegal, pc>>
  BY DEF Client!Serve, Client!robotVars
<1>3. Client!OpponentComes \/ Client!Close => UNCHANGED <<timed, early, illegal, pc>>
  BY DEF Client!OpponentComes, Client!Close, Client!robotVars
<1>4. Client!Opponent \/ Client!Timer => UNCHANGED <<illegal, pc>>
  BY DEF Client!Opponent, Client!Timer, Client!robotVars
<1> QED
  BY <1>1, <1>2, <1>3, <1>4

LEMMA ClientStep == ClientInv /\ [Client!Next]_client => ClientInv'
<1> SUFFICES ASSUME ClientInv, [Client!Next]_client, ~timed', ~early' PROVE ClientInv'
  BY DEF ClientInv
<1>1. CASE UNCHANGED client
  BY <1>1 DEF client, ClientInv, Config, GoneConfig, Start, Asked, Chosen, Idles, Lost, Only,
              Quiet, Client!chooseAction
<1>2. ASSUME Client!Next PROVE ~timed /\ ~early
  <2>1. CASE Client!Opponent
    BY <2>1 DEF Client!Opponent
  <2>2. CASE Client!Robot \/ Client!Fails
    BY <2>2, RobotKeeps
  <2>3. CASE Client!NotifyMatch \/ Client!Limit \/ Client!Serve \/ Client!OpponentComes \/ Client!Close
    BY <2>3, RoomKeeps
  <2> QED
    BY <1>2, <2>1, <2>2, <2>3 DEF Client!Next, Client!Timer
<1>3. ASSUME Client!Next, ~Client!Refused PROVE UNCHANGED illegal
  BY <1>3, RobotKeeps, RoomKeeps DEF Client!Next
<1>4. CASE Client!Fails \/ Client!GameOver
  <2>1. UNCHANGED <<timed, early, illegal>> /\ pc' \in {"done", "failed"}
    BY <1>4 DEF Client!Fails, Client!GameOver, Client!Done
  <2> QED
    BY <2>1 DEF ClientInv
<1>5. ASSUME Client!Next, ~Client!Fails, ~Client!GameOver
      PROVE  pc' \in {"read", "send"} => pc \in {"read", "send"}
  BY <1>5, RobotKeeps, RoomKeeps DEF Client!Next
<1>6. ASSUME Client!Next, ~Client!Fails, ~Client!GameOver, pc \in {"read", "send"}, GoneConfig
      PROVE  ClientInv'
  BY <1>2, <1>3, <1>6, GoneCalm DEF ClientInv
<1>7. ASSUME Client!Next, ~Client!Fails, ~Client!GameOver, pc \in {"read", "send"}, Config
      PROVE  ClientInv'
  <2>1. ~Client!Refused
    <3> SUFFICES ASSUME Client!Refused PROVE FALSE
      OBVIOUS
    <3>1. pc = "read" /\ out # <<>> /\ Head(out).type = "refused"
      BY DEF Client!Refused, Client!Reading
    <3> QED
      BY <1>7, <3>1, Found
  <2>2. ~Client!Timer
    BY DEF Client!Timer
  <2>3. Config' \/ GoneConfig'
    BY <1>7, <2>1, <2>2, JoinCalm, SkipCalm, ThinkCalm, LimitedCalm, SendCalm, LimitCalm,
       ServeCalm, OpponentCalm, NotifyMatchCalm, OpponentComesCalm, CloseCalm
       DEF Client!Next, Client!Robot
  <2> QED
    BY <1>2, <1>3, <1>7, <2>1, <2>3 DEF ClientInv
<1>8. ASSUME Client!Next, ~Client!Fails, ~Client!GameOver, pc \notin {"read", "send"}
      PROVE  ClientInv'
  <2>1. illegal = 0 /\ ~(pc' \in {"read", "send"}) /\ ~Client!Refused
    BY <1>2, <1>5, <1>8 DEF ClientInv, Client!Refused, Client!Reading
  <2> QED
    BY <1>3, <1>8, <2>1 DEF ClientInv
<1>9. ASSUME Client!Next, pc \in {"read", "send"} PROVE Config \/ GoneConfig
  BY <1>2, <1>9 DEF ClientInv
<1> QED
  BY <1>1, <1>4, <1>6, <1>7, <1>8, <1>9

\* As long as the timer leaves the robot its turns and the opponent plays only once
\* the game has started, what the robot sends is what the state of the room allows,
\* although views and commands cross, the opponent may join before or after it or
\* leave again, a command may be thrown away, and the room may be closed.
THEOREM RobotIsNeverRefused == Spec => []NeverRefused
<1>1. Init => ClientInv
  BY OneTool, ClientInit
<1>2. ClientInv /\ [Next]_vars => ClientInv'
  BY OneTool, ClientStep
<1>3. ClientInv => NeverRefused
  BY DEF ClientInv, NeverRefused, Client!NeverRefused
<1> QED
  BY <1>1, <1>2, <1>3, PTL DEF Spec

=============================================================================
