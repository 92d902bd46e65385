---------------------------- MODULE RemoteBridge ----------------------------
(***************************************************************************)
(* The remote-control bridge of one session: initEnvLessBridgeCore() with  *)
(* its flush gate, the transports it builds one after another              *)
(* (createV2ReplTransport() with CCRClient), and the epochs by which the   *)
(* server tells them apart.                                                *)
(*                                                                         *)
(* The uploader of a transport is an event channel (EventChannel, which    *)
(* EventTransports implements): a queue whose events arrive in order.      *)
(* An action is the code between two awaits.                               *)
(***************************************************************************)
EXTENDS Naturals, Sequences, FiniteSets

CONSTANTS
    History,    \* initialMessages, if the bridge is started with any
    Result,     \* the result message that teardown() writes
    Sessions    \* see Session

ASSUME MessagesAssumption ==
    {History, Result} \cap Nat = {} /\ History # Result

\* initial: the bridge starts with a history.  Bounds: the messages written
\* later, the registrations of a worker, and whether teardown() is called.
Session == [initial : BOOLEAN, live : Nat, epochs : Nat \ {0},
            teardown : BOOLEAN]

ASSUME SessionsAssumption == Sessions \subseteq Session

\* Live messages are numbered in the order in which they are written.
Live       == Nat \ {0}
Messages   == {History, Result} \union Live
Recoveries == {"auth", "refresh"}

VARIABLES
    session,
    made,         \* transports created so far
    current,      \* transport
    epoch,        \* the epoch of a transport
    client,       \* initialize() of its CCRClient
    closed,       \* it was closed
    sse,          \* its read stream is open
    beat,         \* its heartbeat timer is set
    queue,        \* the events in its uploader
    gate,         \* flushGate: [active, pending]
    flushDone,    \* initialFlushDone
    flushing,     \* the transports whose flushHistory() is being awaited
    recovering,   \* authRecoveryInFlight
    rec,          \* where recoverFromAuthFailure() and onRefresh() stand
    fresh,        \* the epoch of the credentials they fetched
    torn,         \* teardown(): "no", "archiving" or "done"
    state,        \* what onStateChange was last told
    serverEpoch,  \* the epoch the server accepts
    log,          \* what the server has, in order of first arrival
    written,      \* how many messages writeMessages() was given
    fruitless     \* a refresh came to nothing

transportVars == <<made, current, epoch, client, closed, sse, beat, queue>>
gateVars      == <<gate, flushDone, flushing>>
recoveryVars  == <<recovering, rec, fresh, fruitless>>
serverVars    == <<serverEpoch, log>>
vars == <<session, transportVars, gateVars, recoveryVars, torn, state,
          serverVars, written>>

Transports == 1..session.epochs

Init ==
    /\ session \in Sessions
    /\ made = 1 /\ current = 1
    /\ epoch = [t \in Transports |-> 1]
    /\ client = [t \in Transports |-> IF t = 1 THEN "registering" ELSE "none"]
    /\ closed = [t \in Transports |-> FALSE]
    /\ sse = [t \in Transports |-> t = 1]
    /\ beat = [t \in Transports |-> FALSE]
    /\ queue = [t \in Transports |-> <<>>]
    /\ gate = [active |-> session.initial, pending |-> <<>>]
    /\ flushDone = FALSE /\ flushing = {}
    /\ recovering = FALSE
    /\ rec = [r \in Recoveries |-> "no"]
    /\ fresh = [r \in Recoveries |-> 0]
    /\ torn = "no" /\ state = "ready"
    /\ serverEpoch = 1 /\ log = <<>>
    /\ written = 0 /\ fruitless = FALSE

Items(s) == {s[i] : i \in DOMAIN s}

Stale(t) == epoch[t] # serverEpoch

\* The server keeps the first copy of a message.
Arrived(m) == IF m \in Items(log) THEN log ELSE Append(log, m)

\* writeBatch(): a closed uploader takes nothing.  Its awaits between the events
\* are microtasks, which no callback that closes the transport comes between.
Enqueue(t, messages) ==
    queue' = [queue EXCEPT ![t] = IF closed[t] THEN @ ELSE @ \o messages]

\* close() of a transport.  A POST under way is not aborted: its batch, a first
\* part of the queue, may still arrive, and nobody tries again if not.
Close(t) ==
    /\ closed' = [closed EXCEPT ![t] = TRUE]
    /\ sse' = [sse EXCEPT ![t] = FALSE]
    /\ beat' = [beat EXCEPT ![t] = FALSE]
    /\ \E n \in 0..Len(queue[t]) :
            queue' = [queue EXCEPT ![t] = SubSeq(@, 1, n)]

\* Mutant: the transport is replaced but not closed.
CloseCurrentNot == UNCHANGED <<closed, sse, beat, queue>>

CloseCurrent ==
    IF closed[current] THEN UNCHANGED <<closed, sse, beat, queue>>
    ELSE Close(current)

\* setOnClose(): a 401 starts a recovery unless one is under way, anything
\* else is the end.  It does not ask which transport was closed.
OnClose(code) ==
    IF torn # "no" THEN UNCHANGED <<state, recovering, rec>>
    ELSE IF code = 401 /\ ~recovering
         THEN /\ recovering' = TRUE
              /\ rec' = [rec EXCEPT !["auth"] = "token"]
              /\ state' = "reconnecting"
         ELSE state' = "failed" /\ UNCHANGED <<recovering, rec>>

\* onEpochMismatch(): a 409 to any request of the transport.
Superseded(t) ==
    /\ IF closed[t] THEN UNCHANGED <<closed, sse, beat, queue>> ELSE Close(t)
    /\ OnClose(4090)

-----------------------------------------------------------------------------
(* Writing *)

\* Mutant: only one message is queued.
GatedOnce == gate.active /\ gate.pending = <<>>

Gated == gate.active

WriteMessages ==
    /\ written < session.live
    /\ written' = written + 1
    /\ IF Gated
       THEN /\ gate' = [gate EXCEPT !.pending = Append(@, written')]
            /\ UNCHANGED queue
       ELSE Enqueue(current, <<written'>>) /\ UNCHANGED gate
    /\ UNCHANGED <<session, made, current, epoch, client, closed, sse, beat,
                   flushDone, flushing, recoveryVars, torn, state, serverVars>>

Deliver(t) ==
    /\ queue[t] # <<>> /\ ~Stale(t)
    /\ log' = Arrived(Head(queue[t]))
    /\ queue' = [queue EXCEPT ![t] = Tail(@)]
    /\ UNCHANGED <<session, made, current, epoch, client, closed, sse, beat,
                   gateVars, recoveryVars, torn, state, serverEpoch, written>>

\* A POST or a heartbeat is answered with 409.
Rejected(t) ==
    /\ Stale(t)
    /\ \/ queue[t] # <<>>
       \/ beat[t]
    /\ IF closed[t]
       THEN /\ queue' = [queue EXCEPT ![t] = <<>>]
            /\ beat' = [beat EXCEPT ![t] = FALSE]
            /\ UNCHANGED <<closed, sse>>
            /\ OnClose(4090)
       ELSE Superseded(t)
    /\ UNCHANGED <<session, made, current, epoch, client, gateVars, fresh,
                   fruitless, torn, serverVars, written>>

-----------------------------------------------------------------------------
(* The flush of the history *)

NoGate == [active |-> FALSE, pending |-> <<>>]

\* Mutant: the messages stay in the gate.
DrainKeeps(t) ==
    /\ gate' = [gate EXCEPT !.active = FALSE]
    /\ Enqueue(t, gate.pending)

\* Mutant: the gate is emptied but not opened.
DrainActive(t) ==
    /\ gate' = [gate EXCEPT !.pending = <<>>]
    /\ Enqueue(t, gate.pending)

\* drainFlushGate()
Drain(t) == gate' = NoGate /\ Enqueue(t, gate.pending)

\* setOnConnect(): the first connection flushes the history through whichever
\* transport is current.
OnConnect ==
    IF session.initial /\ ~flushDone
    THEN /\ flushDone' = TRUE
         /\ flushing' = flushing \union {current}
         /\ Enqueue(current, <<History>>)
         /\ UNCHANGED state
    ELSE /\ state' = IF gate.active THEN state ELSE "connected"
         /\ UNCHANGED <<flushDone, flushing, queue>>

FlushStale(t) == t # current \/ torn # "no" \/ recovering

FlushReturns(t) ==
    /\ t \in flushing
    /\ flushing' = flushing \ {t}
    /\ IF FlushStale(t)
       THEN UNCHANGED <<gate, queue, state>>
       ELSE Drain(current) /\ state' = "connected"
    /\ UNCHANGED <<session, made, current, epoch, client, closed, sse, beat,
                   flushDone, recoveryVars, torn, serverVars, written>>

-----------------------------------------------------------------------------
(* A transport's connection *)

\* The PUT of initialize() succeeds: the heartbeat starts.
Register(t) ==
    /\ client[t] = "registering" /\ ~Stale(t)
    /\ client' = [client EXCEPT ![t] = "restoring"]
    /\ beat' = [beat EXCEPT ![t] = TRUE]
    /\ UNCHANGED <<session, made, current, epoch, closed, sse, queue, gateVars,
                   recoveryVars, torn, state, serverVars, written>>

\* The GET it awaits then is answered, or given up: onConnect.
Restored(t) ==
    /\ client[t] = "restoring"
    /\ client' = [client EXCEPT ![t] = "ready"]
    /\ OnConnect
    /\ UNCHANGED <<session, made, current, epoch, closed, sse, beat, gate,
                   recoveryVars, torn, serverVars, written>>

\* initialize() throws: the PUT failed, or it or the GET was answered 409.
InitFails(t) ==
    /\ \/ client[t] = "registering"
       \/ client[t] = "restoring" /\ Stale(t)
    /\ client' = [client EXCEPT ![t] = "failed"]
    /\ Superseded(t)
    /\ UNCHANGED <<session, made, current, epoch, gateVars, fresh, fruitless,
                   torn, serverVars, written>>

\* The read stream is refused (401) or cannot be opened again (4092).
StreamEnds(t, code) ==
    /\ sse[t]
    /\ Close(t)
    /\ OnClose(code)
    /\ UNCHANGED <<session, made, current, epoch, client, gateVars, fresh,
                   fruitless, torn, serverVars, written>>

-----------------------------------------------------------------------------
(* Recovery *)

\* onAuth401() and getAccessToken().
GetToken ==
    /\ rec["auth"] = "token"
    /\ \/ /\ torn = "no"
          /\ rec' = [rec EXCEPT !["auth"] = "fetching"]
          /\ UNCHANGED state
       \/ /\ rec' = [rec EXCEPT !["auth"] = "ending"]
          /\ state' = IF torn = "no" THEN "failed" ELSE state
    /\ UNCHANGED <<session, transportVars, gateVars, recovering, fresh,
                   fruitless, torn, serverVars, written>>

\* Mutant: the timer does not look for a recovery under way.
MayRefreshAlways == torn = "no" /\ rec["refresh"] = "no"

\* onRefresh() claims the recovery unless there is one; teardown() cancels its
\* timer.
MayRefresh == torn = "no" /\ ~recovering

RefreshTimer ==
    /\ MayRefresh
    /\ recovering' = TRUE
    /\ rec' = [rec EXCEPT !["refresh"] = "fetching"]
    /\ UNCHANGED <<session, transportVars, gateVars, fresh, fruitless, torn,
                   state, serverVars, written>>

\* POST /bridge registers a new worker; its answer may get lost.
Fetch(r) ==
    /\ rec[r] = "fetching" /\ serverEpoch < session.epochs
    /\ serverEpoch' = serverEpoch + 1
    /\ \/ /\ fresh' = [fresh EXCEPT ![r] = serverEpoch']
          /\ rec' = [rec EXCEPT ![r] = "fetched"]
       \/ UNCHANGED <<fresh, rec>>
    /\ UNCHANGED <<session, transportVars, gateVars, recovering, fruitless,
                   torn, state, log, written>>

\* No attempt of withRetry() succeeded.
FetchFails(r) ==
    /\ rec[r] = "fetching"
    /\ rec' = [rec EXCEPT ![r] = "ending"]
    /\ fruitless' = TRUE
    /\ state' = IF torn = "no" /\ r = "auth" THEN "failed" ELSE state
    /\ UNCHANGED <<session, transportVars, gateVars, recovering, fresh, torn,
                   serverVars, written>>

\* rebuildTransport() up to its await: the gate is started and the old
\* transport closed.
Rebuild(r) ==
    /\ rec[r] = "fetched"
    /\ IF torn # "no"
       THEN /\ rec' = [rec EXCEPT ![r] = "ending"]
            /\ fresh' = [fresh EXCEPT ![r] = 0]
            /\ UNCHANGED <<closed, sse, beat, queue, gate, flushDone>>
       ELSE /\ rec' = [rec EXCEPT ![r] = "creating"]
            /\ gate' = [gate EXCEPT !.active = TRUE]
            /\ flushDone' = (flushDone /\ r # "auth")
            /\ CloseCurrent
            /\ UNCHANGED fresh
    /\ UNCHANGED <<session, made, current, epoch, client, flushing, recovering,
                   fruitless, torn, state, serverVars, written>>

TornMeanwhile == torn # "no"

\* ... and from there: the new transport is closed again if the bridge was
\* torn down meanwhile; otherwise it connects and takes what the gate held.
Create(r) ==
    /\ rec[r] = "creating"
    /\ rec' = [rec EXCEPT ![r] = "ending"]
    /\ made' = made + 1 /\ current' = made + 1
    /\ epoch' = [epoch EXCEPT ![made + 1] = fresh[r]]
    /\ IF TornMeanwhile
       THEN /\ closed' = [closed EXCEPT ![made + 1] = TRUE]
            /\ gate' = NoGate
            /\ UNCHANGED <<client, sse, queue>>
       ELSE /\ client' = [client EXCEPT ![made + 1] = "registering"]
            /\ sse' = [sse EXCEPT ![made + 1] = TRUE]
            /\ Drain(made + 1)
            /\ UNCHANGED closed
    /\ fresh' = [fresh EXCEPT ![r] = 0]
    /\ UNCHANGED <<session, beat, flushDone, flushing, recovering, fruitless,
                   torn, state, serverVars, written>>

RecoveryEnds(r) ==
    /\ rec[r] = "ending"
    /\ rec' = [rec EXCEPT ![r] = "no"]
    /\ recovering' = FALSE
    /\ UNCHANGED <<session, transportVars, gateVars, fresh, fruitless, torn,
                   state, serverVars, written>>

-----------------------------------------------------------------------------
(* Teardown *)

\* The gate is dropped, and the result is written before the archive request.
Teardown ==
    /\ torn = "no" /\ session.teardown
    /\ torn' = "archiving"
    /\ gate' = NoGate
    /\ Enqueue(current, <<Result>>)
    /\ UNCHANGED <<session, made, current, epoch, client, closed, sse, beat,
                   flushDone, flushing, recoveryVars, state, serverVars,
                   written>>

Archived ==
    /\ torn = "archiving"
    /\ torn' = "done"
    /\ CloseCurrent
    /\ UNCHANGED <<session, made, current, epoch, client, gateVars,
                   recoveryVars, state, serverVars, written>>

-----------------------------------------------------------------------------
Connection(t) ==
    \/ Deliver(t) \/ Rejected(t) \/ FlushReturns(t)
    \/ Register(t) \/ Restored(t) \/ InitFails(t)

StreamLost == \E t \in Transports, code \in {401, 4092} : StreamEnds(t, code)

Recover(r) ==
    Fetch(r) \/ FetchFails(r) \/ Rebuild(r) \/ Create(r) \/ RecoveryEnds(r)

Next ==
    \/ WriteMessages
    \/ \E t \in Transports : Connection(t)
    \/ StreamLost
    \/ GetToken \/ RefreshTimer
    \/ \E r \in Recoveries : Recover(r)
    \/ Teardown \/ Archived

Spec == Init /\ [][Next]_vars

\* Every request is answered or times out, and what awaits an answer goes on.
FairSpec ==
    /\ Spec
    /\ WF_vars(\E t \in Transports : FlushReturns(t))
    /\ WF_vars(\E t \in Transports :
                    Register(t) \/ Restored(t) \/ InitFails(t))
    /\ WF_vars(GetToken) /\ WF_vars(Archived)
    /\ \A r \in Recoveries : WF_vars(Recover(r))

-----------------------------------------------------------------------------
(* Properties *)

\* Every variable has its type.
TypeOK ==
    /\ made \in Transports /\ current \in 1..made
    /\ epoch \in [Transports -> 1..session.epochs]
    /\ client \in [Transports ->
          {"none", "registering", "restoring", "ready", "failed"}]
    /\ {closed, sse, beat} \subseteq [Transports -> BOOLEAN]
    /\ queue \in [Transports -> Seq(Messages)]
    /\ gate \in [active : BOOLEAN, pending : Seq(Messages)]
    /\ ~gate.active => gate.pending = <<>>
    /\ flushDone \in BOOLEAN /\ flushing \subseteq 1..made
    /\ session \in Sessions
    /\ {recovering, fruitless} \subseteq BOOLEAN
    /\ rec \in [Recoveries ->
          {"no", "token", "fetching", "fetched", "creating", "ending"}]
    /\ fresh \in [Recoveries -> 0..session.epochs]
    /\ torn \in {"no", "archiving", "done"}
    /\ state \in {"ready", "connected", "reconnecting", "failed"}
    /\ serverEpoch \in 1..session.epochs
    /\ log \in Seq(Messages) /\ written \in 0..session.live

\* There is never more than one open transport; and once the bridge is torn
\* down and no recovery is under way there is none, whatever teardown()
\* interrupted.
OneOpen ==
    /\ \A t, u \in 1..made : ~closed[t] /\ ~closed[u] => t = u
    /\ torn = "done" /\ (\A r \in Recoveries : rec[r] = "no") =>
           \A t \in 1..made : closed[t]

\* When no recovery is under way an open transport has the newest epoch,
\* unless a recovery registered a worker and came to nothing, or teardown()
\* cut it short.
NewestEpoch ==
    (\A r \in Recoveries : rec[r] = "no") /\ ~fruitless /\ torn = "no" =>
        closed[current] \/ ~Stale(current)

Before(m, n) ==
    n \in Items(log) =>
        \E i, j \in DOMAIN log : i < j /\ log[i] = m /\ log[j] = n

\* Live messages reach the server in the order they were written, through
\* however many transports; and until a transport was replaced they come
\* after the history.
InOrder ==
    /\ \A i, j \in 1..written :
          i < j /\ {i, j} \subseteq Items(log) => Before(i, j)
    /\ session.initial /\ made = 1 /\ torn = "no" =>
           \A m \in 1..written : Before(History, m)

\* The gate opens again: messages do not pile up in it for ever while the
\* bridge works, unless a refresh that came to nothing got in the way.
GateOpens ==
    []<>(~gate.active \/ state = "failed" \/ torn # "no" \/ fruitless)
=============================================================================
