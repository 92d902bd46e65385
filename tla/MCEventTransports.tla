------------------------- MODULE MCEventTransports -------------------------
(* Instances of EventTransports for TLC *)
EXTENDS EventTransports

Setup(transport, queue, batches, fails, kinds) ==
    [transport |-> transport, queue |-> queue, batch |-> batches,
     failures |-> fails, kind |-> kinds]

\* Queues so short that calls wait for room, but never shorter than one call.
Sessions ==
    {Setup("hybrid", 2, 2, 2, <<"stream", "write", "write">>),
     Setup("hybrid", 2, 2, 0, <<"stream", "write", "flush">>),
     Setup("ccr", 2, 2, 0, <<"stream", "stream", "write", "flush">>),
     Setup("ccr", 1, 1, 0, <<"stream", "write", "write", "flush">>)}
=============================================================================
