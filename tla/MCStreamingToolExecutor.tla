----------------------- MODULE MCStreamingToolExecutor -----------------------
(* Instances of StreamingToolExecutor for TLC. *)
EXTENDS StreamingToolExecutor

Edit    == [known |-> TRUE, safe |-> FALSE, bash |-> FALSE, cancel |-> FALSE]
Read    == [known |-> TRUE, safe |-> TRUE,  bash |-> FALSE, cancel |-> TRUE]
Bash    == [known |-> TRUE, safe |-> FALSE, bash |-> TRUE,  cancel |-> FALSE]
BashLs  == [known |-> TRUE, safe |-> TRUE,  bash |-> TRUE,  cancel |-> FALSE]
Unknown == [known |-> FALSE, safe |-> TRUE, bash |-> FALSE, cancel |-> FALSE]

AllKinds   == {Edit, Read, Bash, BashLs, Unknown}
KnownKinds == {Read, Bash, BashLs}
SpinKinds  == {Edit, Unknown}
CoreKinds  == {Edit, BashLs, Unknown}

OrderKinds == {Read, Edit, Unknown}

\* "Maintains order where necessary" (StreamingToolExecutor.ts:409), without the
\* exception that BarrierOrder makes: with OrderKinds and four blocks it fails
\* (see the README, section 5).
ResultsInOrder ==
    \A i \in 1..Len(emitted) : \A u \in Blocks :
        LET t == emitted[i].block IN
        (/\ emitted[i].answer # "missing" /\ u < t /\ of[u] = of[t]
         /\ kind[t].known /\ ~kind[u].safe /\ status[u] # "dropped")
            => status[u] = "yielded"
=============================================================================
