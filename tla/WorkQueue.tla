------------------------------ MODULE WorkQueue ------------------------------
(***************************************************************************)
(* What the jobs table promises to those who put files in and those who    *)
(* work on them, without workers, processes, statuses and statements: a    *)
(* row waits, is held by one agent that alone can settle it or put it      *)
(* back, or is settled.  An agent may be lost; then, and only then, somebody *)
(* else decides what becomes of its row.  A file has one row at a time.    *)
(***************************************************************************)

CONSTANTS
    Row,      \* rows
    Movie,    \* the file of each row
    Agent,    \* those who may hold a row
    Nobody    \* a row without a holder

VARIABLES
    state,    \* each row: "out", "waiting", "held", "settled" or "gone"
    holder    \* the agent at work on each row

Present == {"waiting", "held", "settled"}

Init ==
    /\ state = [j \in Row |-> "out"]
    /\ holder = [j \in Row |-> Nobody]

\* A row enters the queue if its file has none.
Add(j) ==
    /\ state[j] = "out"
    /\ \A k \in Row : Movie[k] = Movie[j] => state[k] \notin Present
    /\ state' = [state EXCEPT ![j] = "waiting"]
    /\ UNCHANGED holder

\* A free agent takes a row that waits.
Take(j, a) ==
    /\ state[j] = "waiting"
    /\ \A k \in Row : holder[k] # a
    /\ state' = [state EXCEPT ![j] = "held"]
    /\ holder' = [holder EXCEPT ![j] = a]

\* The agent that holds a row settles it, or puts it back.
Release(j, a) ==
    /\ holder[j] = a
    /\ \E st \in {"waiting", "settled"} : state' = [state EXCEPT ![j] = st]
    /\ holder' = [holder EXCEPT ![j] = Nobody]

\* Some agents are lost, with all they knew.
Lose(agents) ==
    /\ holder' = [j \in Row |-> IF holder[j] \in agents THEN Nobody ELSE holder[j]]
    /\ UNCHANGED state

\* Rows whose agents were lost are put back, or settled as failures.
Resolve(S, st) ==
    /\ \A j \in S : state[j] = "held" /\ holder[j] = Nobody
    /\ state' = [j \in Row |-> IF j \in S THEN st ELSE state[j]]
    /\ UNCHANGED holder

\* A user withdraws a row that waits, or asks for a settled one again.
Withdraw(j) ==
    /\ state[j] = "waiting"
    /\ state' = [state EXCEPT ![j] = "settled"]
    /\ UNCHANGED holder

Repeat(j) ==
    /\ state[j] = "settled"
    /\ state' = [state EXCEPT ![j] = "waiting"]
    /\ UNCHANGED holder

\* A user removes a row that nobody holds.
Drop(j) ==
    /\ state[j] \in {"waiting", "settled"}
    /\ state' = [state EXCEPT ![j] = "gone"]
    /\ UNCHANGED holder

Next ==
    \/ \E j \in Row : Add(j) \/ Withdraw(j) \/ Repeat(j) \/ Drop(j)
    \/ \E j \in Row, a \in Agent : Take(j, a) \/ Release(j, a)
    \/ \E agents \in SUBSET Agent : Lose(agents)
    \/ \E S \in SUBSET Row, st \in {"waiting", "settled"} : Resolve(S, st)

Spec == Init /\ [][Next]_<<state, holder>>
=============================================================================
