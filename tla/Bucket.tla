------------------------------- MODULE Bucket -------------------------------
(***************************************************************************)
(* What the rate limiters promise: every IP address has a bucket that      *)
(* fills all the time and never overflows, and a request is let through    *)
(* exactly when there is a token in it.                                    *)
(*                                                                         *)
(* A bucket is measured in the time it takes to fill: a tick adds one      *)
(* unit, a token is worth Cost units (1/rate), and burst tokens are Burst. *)
(***************************************************************************)
EXTENDS Integers

CONSTANTS
    IP,
    Cost,    \* units in a token
    Burst    \* units in a full bucket

VARIABLES
    credit,   \* what is in each bucket now
    answer,   \* the last answer of Allow
    spent,    \* history: units handed out to each IP since the window began
    elapsed   \* history: time since the window began

bucketVars == <<credit, answer, spent, elapsed>>

Answers == [ip : IP, ok : BOOLEAN]

Init ==
    /\ credit = [ip \in IP |-> Burst]
    /\ answer \in Answers
    /\ spent = [ip \in IP |-> 0]
    /\ elapsed = 0

Capped(units) == IF units > Burst THEN Burst ELSE units

Pass ==
    /\ credit' = [ip \in IP |-> Capped(credit[ip] + 1)]
    /\ elapsed' = elapsed + 1
    /\ UNCHANGED <<answer, spent>>

Grant(ip) ==
    /\ credit[ip] >= Cost
    /\ credit' = [credit EXCEPT ![ip] = credit[ip] - Cost]
    /\ spent' = [spent EXCEPT ![ip] = spent[ip] + Cost]
    /\ answer' = [ip |-> ip, ok |-> TRUE]
    /\ UNCHANGED elapsed

Refuse(ip) ==
    /\ credit[ip] < Cost
    /\ answer' = [ip |-> ip, ok |-> FALSE]
    /\ UNCHANGED <<credit, spent, elapsed>>

\* A new window begins: at any moment, so that what is said of the window is
\* said of every one.
Watch ==
    /\ elapsed' = 0
    /\ spent' = [ip \in IP |-> 0]
    /\ UNCHANGED <<credit, answer>>

Next == Pass \/ Watch \/ \E ip \in IP : Grant(ip) \/ Refuse(ip)

Spec == Init /\ [][Next]_bucketVars

-----------------------------------------------------------------------------
\* The promise: over any stretch of time an IP gets no more than a full bucket
\* and what flows in meanwhile.
WindowBound == \A ip \in IP : spent[ip] <= Burst + elapsed

\* Why it holds: what has been handed out and what is left came from there.
Ledger == \A ip \in IP : spent[ip] + credit[ip] <= Burst + elapsed

=============================================================================
