--------------------------- MODULE EventUploader ---------------------------
(***************************************************************************)
(* class SerialBatchEventUploader: the queue in front of a POST endpoint.  *)
(* The operators below are the uploader's methods; EventTransports calls   *)
(* them.  An operator is the code between two awaits, so that enqueue()    *)
(* includes the first send() of the drain loop it starts.                  *)
(***************************************************************************)
EXTENDS Selection

CONSTANTS
    Workloads,  \* what is written, and through which transport
    MaxFaults   \* bound: POSTs that fail

\* queue, batch, failures: maxQueueSize, maxBatchSize and
\* maxConsecutiveFailures (0: undefined, as CCRClient leaves it).  kind[m] is
\* the kind of message m.
Workload ==
    {w \in [transport : {"hybrid", "ccr"}, queue : Nat \ {0},
             batch : Nat \ {0}, failures : Nat,
             kind : Seq({"stream", "write", "flush"})] :
        w.transport = "ccr" => w.failures = 0}

ASSUME WorkloadsAssumption == Workloads \subseteq Workload
ASSUME FaultsAssumption    == MaxFaults \in Nat

VARIABLES
    setup,      \* the workload of this behaviour
    pending,
    batch,      \* the batch in the POST under way
    loop,       \* drain(): "off", in a POST, or in sleep()
    failures,
    closed,
    blocked,    \* backpressureResolvers: the calls that wait for room
    woken,      \* calls resolved that have not run on yet
    flushing,   \* flushResolvers: the messages whose flush() waits
    accepted,   \* every event accepted, in order
    settled,    \* events that left without being delivered: given up after
                \* maxConsecutiveFailures, refused for good, or abandoned
    log,        \* what the server has, in order of first arrival
    wire,       \* batches of failed POSTs that may arrive yet
    faults      \* how many POSTs have failed

uploaderVars ==
    <<setup, pending, batch, loop, failures, closed, blocked, woken, flushing,
      accepted, settled, log, wire, faults>>

Messages == DOMAIN setup.kind

Items(s) == {s[i] : i \in DOMAIN s}

\* A call of enqueue(): on behalf of message `who` (0: nobody awaits it) with
\* its events; the caller goes on at `then`.
Call ==
    [who : {0} \union Messages, events : Seq(Messages),
     then : {"own", "flush", "done"}]

UploaderInit ==
    /\ setup \in Workloads
    /\ pending = <<>> /\ batch = <<>> /\ loop = "off"
    /\ failures = 0 /\ closed = FALSE
    /\ blocked = <<>> /\ woken = <<>> /\ flushing = {}
    /\ accepted = <<>> /\ settled = {} /\ log = <<>> /\ wire = {}
    /\ faults = 0

Waiting == batch \o pending

-----------------------------------------------------------------------------
(* drain() *)

\* takeBatch(): maxBatchBytes, which CCRClient sets, may end a batch early.
BatchSizes(queue) ==
    LET most == IF Len(queue) < setup.batch THEN Len(queue) ELSE setup.batch
    IN  IF setup.transport = "ccr" THEN 1..most ELSE {most}

\* The head of the drain loop with `queue` pending: the next batch is sent.
Send(queue) ==
    \E n \in BatchSizes(queue) :
        /\ batch' = SubSeq(queue, 1, n)
        /\ pending' = SubSeq(queue, n + 1, Len(queue))
        /\ loop' = "sending"

\* ... or the loop ends, and flush() returns if nothing is pending.
Leave ==
    /\ loop' = "off" /\ batch' = <<>> /\ UNCHANGED pending
    /\ flushing' = IF pending = <<>> THEN {} ELSE flushing

LoopOn ==
    IF pending # <<>> /\ ~closed
    THEN Send(pending) /\ UNCHANGED flushing
    ELSE Leave

\* Mutant: the calls that wait are not resolved.
ReleaseNothing == UNCHANGED <<woken, blocked>>

\* releaseBackpressure()
Release == woken' = woken \o blocked /\ blocked' = <<>>

\* The server keeps the first copy of an event: of a batch, the events that it
\* does not have yet.
Arrived(events) ==
    log \o PickedFrom(events, {i \in DOMAIN events : events[i] \notin Items(log)})

\* The POST succeeded: the server has the events, or (HybridTransport, 4xx or
\* no token) they are dropped without another attempt.
Done(delivered) ==
    /\ loop = "sending"
    /\ failures' = 0
    /\ LoopOn
    /\ Release
    /\ IF delivered
       THEN log' = Arrived(batch) /\ UNCHANGED settled
       ELSE settled' = settled \union Items(batch) /\ UNCHANGED log
    /\ UNCHANGED <<setup, closed, accepted, wire, faults>>

\* Mutant: the next batch inherits the failures of the one given up.
GiveUpStillCounting ==
    /\ setup.failures # 0 /\ failures + 1 >= setup.failures
    /\ settled' = settled \union Items(batch)
    /\ failures' = failures + 1
    /\ LoopOn
    /\ Release

\* The POST failed, as far as the client can tell: its events may still reach
\* the server.  The batch is given up or put back in front of the queue.
GiveUp ==
    /\ setup.failures # 0 /\ failures + 1 >= setup.failures
    /\ settled' = settled \union Items(batch)
    /\ failures' = 0
    /\ LoopOn
    /\ Release

\* Mutant: the failed batch goes to the end of the queue.
RequeueLast ==
    /\ setup.failures = 0 \/ failures + 1 < setup.failures
    /\ pending' = pending \o batch
    /\ batch' = <<>> /\ loop' = "backoff" /\ failures' = failures + 1
    /\ UNCHANGED <<settled, blocked, woken, flushing>>

Requeue ==
    /\ setup.failures = 0 \/ failures + 1 < setup.failures
    /\ pending' = batch \o pending
    /\ batch' = <<>>
    /\ loop' = "backoff"
    /\ failures' = failures + 1
    /\ UNCHANGED <<settled, blocked, woken, flushing>>

Failed ==
    /\ loop = "sending"
    /\ faults < MaxFaults
    /\ faults' = faults + 1
    /\ wire' \in {wire, wire \union {batch}}
    /\ GiveUp \/ Requeue
    /\ UNCHANGED <<setup, closed, accepted, log>>

\* sleep() is over, or close() cut it short.
BackoffOver ==
    /\ loop = "backoff"
    /\ LoopOn
    /\ UNCHANGED <<setup, failures, closed, blocked, woken, accepted, settled,
                   log, wire, faults>>

-----------------------------------------------------------------------------
(* enqueue(), flush() and close() *)

Fits(events) == Len(pending) + Len(events) <= setup.queue

Blocks(call) == ~closed /\ call.events # <<>> /\ ~Fits(call.events)

\* pending.push(...items); void this.drain()
Push(events) ==
    /\ accepted' = accepted \o events
    /\ IF loop = "off"
       THEN Send(pending \o events) /\ failures' = 0
       ELSE /\ pending' = pending \o events
            /\ UNCHANGED <<batch, loop, failures>>

\* Mutant: a call that waited does not look whether the uploader was closed.
EnqueueAnyway(call) ==
    /\ blocked' = IF Blocks(call) THEN Append(blocked, call) ELSE blocked
    /\ IF call.events = <<>> \/ Blocks(call)
       THEN UNCHANGED <<pending, batch, loop, failures, accepted>>
       ELSE Push(call.events)
    /\ UNCHANGED <<setup, closed, settled, log, wire, faults>>

\* enqueue() up to its first await or to its end; `queued` are the calls that
\* wait for room before it.
Enqueue(call) ==
    /\ blocked' = IF Blocks(call) THEN Append(blocked, call) ELSE blocked
    /\ IF closed \/ call.events = <<>> \/ Blocks(call)
       THEN UNCHANGED <<pending, batch, loop, failures, accepted>>
       ELSE Push(call.events)
    /\ UNCHANGED <<setup, closed, settled, log, wire, faults>>

\* Mutant: flush() does not look for a POST under way.
FlushReturnsEarly == pending' = <<>>

\* flush() for message m.  Its drain() has nothing to start: events are pending
\* only while the loop runs.
FlushReturns == pending' = <<>> /\ loop' = "off"

Flush(m) == flushing' = IF FlushReturns THEN flushing ELSE flushing \union {m}

Close ==
    /\ closed' = TRUE
    /\ settled' = settled \union Items(pending)
    /\ pending' = <<>>
    /\ woken' = woken \o blocked
    /\ blocked' = <<>>
    /\ flushing' = {}
    /\ UNCHANGED <<setup, accepted, failures, faults, log, wire>>
=============================================================================
