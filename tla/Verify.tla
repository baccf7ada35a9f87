------------------------------- MODULE Verify -------------------------------
(***************************************************************************)
(* scripts/replay -all: verifyAll hands the stored reports to a pool of    *)
(* workers over an unbuffered channel and counts what comes back over      *)
(* another.  A send and the receive it meets are one step.                 *)
(***************************************************************************)
EXTENDS Integers, Sequences, FiniteSets, SequencesExt, FiniteSetsExt

CONSTANTS
    Worker,
    Ids,        \* the room ids in the table
    Verdicts    \* Verdicts[id]: what replay.Build and the checksums may yield

Kinds == {"ok", "ok_legacy", "cards_changed", "mismatch", "error"}

VARIABLES
    rest,      \* what the feeder has still to send
    feeder,    \* "feeding", "waiting" (jobs is closed), "done" (out is closed)
    worker,    \* worker -> [pc, id, kind]
    wg,
    count,     \* count[kind]: here the sequence of ids that were counted
    exit       \* -1 until verifyAll returns

vars == <<rest, feeder, worker, wg, count, exit>>

Ready == [pc |-> "range", id |-> "none", kind |-> "none"]

\* AllRoomIDs; the goroutines are started, each counted before.
Init ==
    /\ rest \in SetToSeqs(Ids)
    /\ feeder = "feeding"
    /\ worker = [w \in Worker |-> Ready]
    /\ wg = Cardinality(Worker)
    /\ count = [k \in Kinds |-> <<>>]
    /\ exit = -1

\* jobs <- id, and the worker that receives it.
Take(w) ==
    /\ feeder = "feeding" /\ rest # <<>> /\ worker[w].pc = "range"
    /\ worker' = [worker EXCEPT ![w] = [pc |-> "check", id |-> Head(rest), kind |-> "none"]]
    /\ rest' = Tail(rest)
    /\ UNCHANGED <<feeder, wg, count, exit>>

\* check: the report may also be unreadable now.
Check(w) ==
    /\ worker[w].pc = "check"
    /\ \E kind \in Verdicts[worker[w].id] \cup {"error"} :
          worker' = [worker EXCEPT ![w].pc = "send", ![w].kind = kind]
    /\ UNCHANGED <<rest, feeder, wg, count, exit>>

\* out <- outcome, and the loop that counts it.
Emit(w) ==
    /\ worker[w].pc = "send" /\ feeder # "done" /\ exit = -1
    /\ count' = [count EXCEPT ![worker[w].kind] = Append(@, worker[w].id)]
    /\ worker' = [worker EXCEPT ![w] = Ready]
    /\ UNCHANGED <<rest, feeder, wg, exit>>

\* The worker finds jobs closed.
Quit(w) ==
    /\ worker[w].pc = "range" /\ feeder # "feeding"
    /\ worker' = [worker EXCEPT ![w].pc = "quit"]
    /\ wg' = wg - 1
    /\ UNCHANGED <<rest, feeder, count, exit>>

CloseJobs ==
    /\ feeder = "feeding" /\ rest = <<>>
    /\ feeder' = "waiting"
    /\ UNCHANGED <<rest, worker, wg, count, exit>>

\* Fault: out is closed as soon as the last job was taken.
CloseOut_Fault ==
    /\ feeder = "waiting"
    /\ feeder' = "done"
    /\ UNCHANGED <<rest, worker, wg, count, exit>>

\* wg.Wait, then close(out).
CloseOut ==
    /\ feeder = "waiting" /\ wg = 0
    /\ feeder' = "done"
    /\ UNCHANGED <<rest, worker, wg, count, exit>>

ExitCode == IF Len(count["mismatch"]) + Len(count["error"]) > 0 THEN 1 ELSE 0

Return ==
    /\ feeder = "done" /\ exit = -1
    /\ exit' = ExitCode
    /\ UNCHANGED <<rest, feeder, worker, wg, count>>

Next ==
    \/ CloseJobs \/ CloseOut \/ Return
    \/ \E w \in Worker : Take(w) \/ Check(w) \/ Emit(w) \/ Quit(w)

Spec == Init /\ [][Next]_vars /\ WF_vars(Next)

-----------------------------------------------------------------------------
\* Whatever the workers' order, no report is counted twice, and when the tool
\* returns none was left out.
EachOnce ==
    /\ \A k, l \in Kinds : \A i \in DOMAIN count[k], j \in DOMAIN count[l] :
          count[k][i] = count[l][j] => k = l /\ i = j
    /\ exit # -1 => \A id \in Ids : \E k \in Kinds : \E i \in DOMAIN count[k] : count[k][i] = id

\* The tool succeeds only if every report was replayed to its recorded end, or
\* was played with other cards: no failure is lost on its way.
ExitTellsTruth ==
    exit = 0 => \A id \in Ids : \E k \in {"ok", "ok_legacy", "cards_changed"} :
                                   \E i \in DOMAIN count[k] : count[k][i] = id

\* The pool winds up: nobody waits for ever on a channel.
Terminates == <>(exit # -1)

=============================================================================
