-------------------------- MODULE EventTransports --------------------------
(***************************************************************************)
(* The two ways to write events to the server: class HybridTransport and   *)
(* the client events of class CCRClient, each in front of an uploader.     *)
(* Both hold stream events back for a while and let any other message take *)
(* the held ones along.                                                    *)
(*                                                                         *)
(* Message m is one call of write() or of flush(), made at any time;       *)
(* messages of a kind are numbered in the order in which they are written. *)
(* Promise continuations run before the next timer or network event, in    *)
(* the order of `woken` where the uploader releases several.               *)
(***************************************************************************)
EXTENDS EventUploader

VARIABLES
    buffer,   \* streamEventBuffer
    timer,    \* streamEventTimer is set
    shut,     \* close() of the transport was called
    at,       \* where the call of message m stands
    due,      \* how many events were accepted when m called flush()
    written,  \* the messages written, in order
    waited    \* some call had to wait for room

writerVars == <<buffer, timer, shut, at, due, written, waited>>
vars == <<uploaderVars, writerVars>>

Init ==
    /\ UploaderInit
    /\ buffer = <<>> /\ timer = FALSE /\ shut = FALSE
    /\ at = [m \in Messages |-> "new"]
    /\ due = [m \in Messages |-> 0]
    /\ written = <<>> /\ waited = FALSE

\* Timers and answers come when no continuation is left to run.
Quiet == woken = <<>>

Begins(m, kind) ==
    /\ at[m] = "new" /\ setup.kind[m] = kind
    /\ \A n \in 1..(m - 1) : setup.kind[n] = kind => at[n] # "new"
    /\ written' = IF kind = "flush" THEN written ELSE Append(written, m)

TakeBuffer == buffer' = <<>> /\ timer' = FALSE

\* The caller of enqueue() waits for room, or goes on.
Await(call) ==
    /\ Enqueue(call)
    /\ waited' = (waited \/ Blocks(call))
    /\ at' = [m \in Messages |->
                IF m = call.who
                THEN IF Blocks(call) THEN "blocked" ELSE call.then
                ELSE at[m]]

-----------------------------------------------------------------------------
(* Calls *)

\* write() of a stream event only fills the buffer.
WriteStream(m) ==
    /\ Begins(m, "stream")
    /\ buffer' = Append(buffer, m)
    /\ timer' = TRUE
    /\ at' = [at EXCEPT ![m] = "done"]
    /\ UNCHANGED <<uploaderVars, shut, due, waited>>

\* Mutant: write() leaves the buffer to its timer.
HybridWriteAlone(m) ==
    /\ setup.transport = "hybrid"
    /\ Begins(m, "write")
    /\ Await([who |-> m, events |-> <<m>>, then |-> "flush"])
    /\ UNCHANGED <<woken, flushing, buffer, timer, shut, due>>

\* HybridTransport.write(): one enqueue() of the buffer and the message.
HybridWrite(m) ==
    /\ setup.transport = "hybrid"
    /\ Begins(m, "write")
    /\ TakeBuffer
    /\ Await([who |-> m, events |-> Append(buffer, m), then |-> "flush"])
    /\ UNCHANGED <<woken, flushing, shut, due>>

\* CCRClient.writeEvent(): flushStreamEventBuffer() first ...
CCRWrite(m) ==
    /\ setup.transport = "ccr"
    /\ Begins(m, "write")
    /\ TakeBuffer
    /\ Await([who |-> m, events |-> buffer, then |-> "own"])
    /\ UNCHANGED <<woken, flushing, shut, due>>

\* ... and then, after an await, the message itself.
CCRWriteOwn(m) ==
    /\ at[m] = "own"
    /\ Await([who |-> m, events |-> <<m>>, then |-> "done"])
    /\ UNCHANGED <<woken, flushing, buffer, timer, shut, due, written>>

\* HybridTransport.flush() does not wait for its enqueue().
HybridFlush(m) ==
    /\ setup.transport = "hybrid"
    /\ Begins(m, "flush")
    /\ TakeBuffer
    /\ LET call == [who |-> 0, events |-> buffer, then |-> "done"] IN
        /\ Enqueue(call)
        /\ waited' = (waited \/ Blocks(call))
    /\ Flush(m)
    /\ at' = [at EXCEPT ![m] = "done"]
    /\ due' = [due EXCEPT ![m] = Len(accepted')]
    /\ UNCHANGED <<woken, shut>>

CCRFlush(m) ==
    /\ setup.transport = "ccr"
    /\ Begins(m, "flush")
    /\ TakeBuffer
    /\ Await([who |-> m, events |-> buffer, then |-> "flush"])
    /\ UNCHANGED <<woken, flushing, shut, due>>

\* The uploader's flush() at the end of HybridTransport.write() and of
\* CCRClient.flush().
FlushUploader(m) ==
    /\ at[m] = "flush"
    /\ at' = [at EXCEPT ![m] = "done"]
    /\ due' = [due EXCEPT ![m] = Len(accepted)]
    /\ UNCHANGED <<pending, loop>> /\ Flush(m)
    /\ UNCHANGED <<setup, batch, failures, closed, blocked, woken, accepted,
                   settled, log, wire, faults, buffer, timer, shut, written,
                   waited>>

\* The first of the calls that were resolved looks for room again.
Resume ==
    /\ woken # <<>>
    /\ woken' = Tail(woken)
    /\ Await(Head(woken))
    /\ UNCHANGED <<flushing, buffer, timer, shut, due, written>>

-----------------------------------------------------------------------------
(* Timers, answers and close() *)

StreamTimer ==
    /\ Quiet /\ timer
    /\ TakeBuffer
    /\ Await([who |-> 0, events |-> buffer, then |-> "done"])
    /\ UNCHANGED <<woken, flushing, shut, due, written>>

PostSucceeds == Quiet /\ Done(TRUE) /\ UNCHANGED writerVars

\* HybridTransport.postOnce() returns on a 4xx and without a token.
PostRefused ==
    /\ Quiet /\ setup.transport = "hybrid" /\ Done(FALSE)
    /\ UNCHANGED writerVars

PostFails == Quiet /\ Failed /\ UNCHANGED writerVars

SleepEnds == BackoffOver /\ UNCHANGED writerVars

LateArrival ==
    /\ \E events \in wire :
        /\ log' = Arrived(events)
        /\ wire' = wire \ {events}
    /\ UNCHANGED <<setup, pending, batch, loop, failures, closed, blocked,
                   woken, flushing, accepted, settled, faults, writerVars>>

\* CCRClient.close()
CloseCCR ==
    /\ setup.transport = "ccr" /\ ~closed
    /\ shut' = TRUE
    /\ TakeBuffer
    /\ Close
    /\ UNCHANGED <<batch, loop, at, due, written, waited>>

\* A 409: onEpochMismatch() closes the client, and then the POST has failed.
Superseded ==
    /\ Quiet /\ setup.transport = "ccr" /\ loop = "sending" /\ ~closed
    /\ shut' = TRUE /\ closed' = TRUE
    /\ TakeBuffer
    /\ settled' = settled \union Items(pending)
    /\ pending' = batch /\ batch' = <<>>
    /\ loop' = "backoff" /\ failures' = failures + 1
    /\ woken' = woken \o blocked /\ blocked' = <<>>
    /\ flushing' = {}
    /\ UNCHANGED <<setup, accepted, log, wire, faults, at, due, written,
                   waited>>

\* HybridTransport.close() drops the buffer; its uploader is closed when
\* flush() returns or the grace period is over.
ShutHybrid ==
    /\ setup.transport = "hybrid" /\ ~shut
    /\ shut' = TRUE
    /\ TakeBuffer
    /\ UNCHANGED <<uploaderVars, at, due, written, waited>>

CloseHybrid ==
    /\ setup.transport = "hybrid" /\ shut /\ ~closed
    /\ Close
    /\ UNCHANGED <<batch, loop, writerVars>>

-----------------------------------------------------------------------------
Write ==
    \E m \in Messages :
        \/ WriteStream(m) \/ HybridWrite(m) \/ CCRWrite(m)
        \/ HybridFlush(m) \/ CCRFlush(m)

GoesOn == \E m \in Messages : CCRWriteOwn(m) \/ FlushUploader(m)

Answer == PostSucceeds \/ PostRefused \/ PostFails

Next ==
    \/ Write \/ GoesOn \/ Resume \/ StreamTimer
    \/ Answer \/ Superseded \/ SleepEnds \/ LateArrival
    \/ CloseCCR \/ ShutHybrid \/ CloseHybrid

Spec == Init /\ [][Next]_vars

\* Continuations run, timers fire, and a POST is answered or times out.
Fairness ==
    /\ WF_vars(GoesOn) /\ WF_vars(Resume) /\ WF_vars(StreamTimer)
    /\ WF_vars(Answer) /\ WF_vars(SleepEnds) /\ WF_vars(CloseHybrid)

FairSpec == Spec /\ Fairness

-----------------------------------------------------------------------------
(* Properties *)

\* Every variable has its type, and a batch fails less often than it may.
TypeOK ==
    /\ setup \in Workloads
    /\ pending \in Seq(Messages) /\ batch \in Seq(Messages)
    /\ loop \in {"off", "sending", "backoff"}
    /\ failures \in Nat
    /\ setup.failures # 0 => failures < setup.failures
    /\ faults \in 0..MaxFaults
    /\ closed \in BOOLEAN /\ shut \in BOOLEAN
    /\ timer \in BOOLEAN /\ waited \in BOOLEAN
    /\ \A s \in {blocked, woken} : \A i \in DOMAIN s : s[i] \in Call
    /\ flushing \subseteq Messages /\ settled \subseteq Messages
    /\ \A s \in {accepted, log, buffer, written} : s \in Seq(Messages)
    /\ \A events \in wire : events \in Seq(Messages)
    /\ at \in [Messages -> {"new", "blocked", "own", "flush", "done"}]
    /\ due \in [Messages -> 0..Len(accepted)]

\* Unless batches may be given up, the server gets the accepted events in
\* order and without a gap, whatever is retried or arrives late.
ServerInOrder ==
    setup.transport = "ccr" \/ settled = {} =>
        /\ Len(log) <= Len(accepted)
        /\ log = SubSeq(accepted, 1, Len(log))

\* When flush() has returned on an open uploader, nothing that was accepted
\* before the call is still waiting.
FlushHonest ==
    ~closed => \A m \in Messages \ flushing :
        \A i \in 1..due[m] : accepted[i] \notin Items(Waiting)

\* A stream event goes out before any other message that was written after
\* it, unless some call had to wait for room.
Position(m) == CHOOSE i \in DOMAIN written : written[i] = m

StreamBeforeWrite ==
    ~waited /\ ~shut =>
        \A s \in Items(written), w \in Items(accepted) :
            /\ setup.kind[s] = "stream" /\ setup.kind[w] = "write"
            /\ Position(s) < Position(w)
            => \E i, j \in DOMAIN accepted :
                    i < j /\ accepted[i] = s /\ accepted[j] = w

\* As a refinement: the queue with the batch under way is an event channel.
Channel == INSTANCE EventChannel
    WITH Event <- Nat, waiting <- Waiting, open <- ~closed

UploaderIsChannel == Channel!Spec

Over(m) == m \in Items(log) \union settled

\* No call waits for room for ever, a flush() called before close() returns,
\* and every written event reaches the server or is given up on, unless the
\* transport is closed.
Progress ==
    /\ []<>(blocked = <<>>)
    /\ []<>(flushing = {} \/ closed)
    /\ []<>(shut \/ \A m \in Items(written) : Over(m))
=============================================================================
