--------------------------- MODULE MCRemoteBridge ---------------------------
(* Instances of RemoteBridge for TLC *)
EXTENDS RemoteBridge

\* Two recoveries in a row, two messages around one of them, and teardown() in
\* the middle of anything.
Small ==
    {[initial |-> FALSE, live |-> 1, epochs |-> 3, teardown |-> FALSE],
     [initial |-> TRUE,  live |-> 2, epochs |-> 2, teardown |-> FALSE],
     [initial |-> TRUE,  live |-> 1, epochs |-> 2, teardown |-> TRUE]}
=============================================================================
