------------------------ MODULE StreamingToolExecutor ------------------------
(***************************************************************************)
(* The execution of one model turn's tool calls while the answer is still  *)
(* streaming: class StreamingToolExecutor                                  *)
(* (src/services/tools/StreamingToolExecutor.ts) with the part of the      *)
(* query loop (src/query.ts) that drives it.                               *)
(*                                                                         *)
(* JavaScript runs one callback at a time; what interleaves are callbacks. *)
(* An action is a stretch of code between two awaits (or between two       *)
(* yields of a generator).  A suspended processQueue() is a token in       *)
(* "micro"; so is the finally() reaction of a settled tool promise.        *)
(*                                                                         *)
(* A turn may make several attempts: a fallback discards the executor and  *)
(* builds a new one, while calls of the old one may still be in flight.    *)
(***************************************************************************)
EXTENDS Naturals, Sequences, FiniteSets

CONSTANTS
    MaxBlocks,    \* bound: tool_use blocks of the turn, over all attempts
    MaxAttempts,  \* bound: executors the turn creates (1 + fallbacks)
    Kinds         \* what the turn's blocks may ask for

\* known:  findToolByName finds the tool
\* safe:   isConcurrencySafe(input) holds (an unknown tool counts as safe)
\* bash:   it is the Bash tool, whose errors cancel its siblings
\* cancel: interruptBehavior() is 'cancel'; it is 'block' otherwise
ASSUME BlocksAssumption   == MaxBlocks \in Nat \ {0}
ASSUME AttemptsAssumption == MaxAttempts \in Nat \ {0}
ASSUME KindsAssumption    ==
    /\ Kinds \subseteq [known : BOOLEAN, safe : BOOLEAN,
                        bash : BOOLEAN, cancel : BOOLEAN]
    /\ \A k \in Kinds : ~k.known => k.safe

Blocks   == 1..MaxBlocks
Attempts == 1..MaxAttempts

VARIABLES
    kind,      \* the tool each block asks for; fixed when the turn starts
    arrived,   \* how many blocks the model has streamed
    of,        \* the attempt a block belongs to (a later block: would belong)
    status,    \* TrackedTool.status; "none" not arrived, "dropped" not added
    call,      \* the tool call itself: it may outlive the status "executing"
    result,    \* the tool_result blocks of a tool, oldest first
    progress,  \* tools with progress messages pending
    micro,     \* suspended scans <<t, "resume">>, reactions <<t, "finally">>
    errored,   \* hasErrored of each attempt's executor
    attempt,   \* the current attempt; an executor e < attempt is discarded
    abort,     \* the turn's abort controller: its reason, or "none"
    pc,        \* where the query loop stands
    pos,       \* getCompletedResults(): where it goes on; 0 before it yields
    awaited,   \* the tool whose scan getRemainingResults() awaits, or 0
    racing,    \* the tools in the Promise.race getRemainingResults() awaits
    signal,    \* progressAvailableResolve has been called
    emitted,   \* tool_result blocks the loop yielded, oldest first
    modified   \* tools whose context modifiers were applied, oldest first

vars == <<kind, arrived, of, status, call, result, progress, micro, errored,
          attempt, abort, pc, pos, awaited, racing, signal, emitted, modified>>

toolVars == <<status, call, result, micro>>
loopVars == <<pos, racing, signal>>

Statuses == {"none", "dropped", "queued", "executing", "completed", "yielded"}
Reasons  == {"sibling_error", "user_interrupted", "streaming_fallback"}
Answers  == {"ok", "error", "no_such_tool", "stopped"} \cup Reasons

-----------------------------------------------------------------------------
\* The tools an executor tracks: the entries of its tools array.
Tracked(e) == {t \in Blocks : of[t] = e /\ status[t] \notin {"none", "dropped"}}

Executing(e) == {t \in Tracked(e) : status[t] = "executing"}

\* getAbortReason.
Reason(t) ==
    IF of[t] < attempt THEN "streaming_fallback"
    ELSE IF errored[of[t]] THEN "sibling_error"
    ELSE IF abort = "user" \/ (abort = "interrupt" /\ kind[t].cancel)
         THEN "user_interrupted"
    ELSE "none"

\* The signal a tool call receives: aborted with the turn or by a sibling.
SignalAborted(t) == abort # "none" \/ errored[of[t]]

\* Mutant: the tool's own safety is not asked.
CanExecuteIgnoresSelf(st, t) ==
    \A u \in Blocks : (of[u] = of[t] /\ st[u] = "executing") => kind[u].safe

\* Mutant: no concurrency control.
CanExecuteAlways(st, t) == TRUE

\* canExecuteTool, over the statuses st.
CanExecute(st, t) ==
    \A u \in Blocks : (of[u] = of[t] /\ st[u] = "executing") =>
                          (kind[t].safe /\ kind[u].safe)

\* Mutant: the scan goes on past a queued unsafe tool that cannot run.
PicksPastUnsafe(st, e, p) ==
    {t \in Blocks :
        /\ p < t
        /\ of[t] = e
        /\ st[t] = "queued"
        /\ CanExecute(st, t)
        /\ \A u \in Blocks :
              (p < u /\ u < t /\ of[u] = e /\ st[u] = "queued") =>
                  ~CanExecute(st, u)}

\* The tool processQueue() of executor e starts next when it goes on after
\* position p: it passes over queued safe tools that cannot run, and stops at
\* a queued unsafe one that cannot.  At most one tool, and none when the scan
\* ends here.
Picks(st, e, p) ==
    {t \in Blocks :
        /\ p < t
        /\ of[t] = e
        /\ st[t] = "queued"
        /\ CanExecute(st, t)
        /\ \A u \in Blocks :
              (p < u /\ u < t /\ of[u] = e /\ st[u] = "queued") =>
                  (kind[u].safe /\ ~CanExecute(st, u))}

\* Mutant: executeTool() does not ask whether the tool is already cancelled.
ExecuteToolUnchecked(st, t, held) ==
    /\ status' = [st EXCEPT ![t] = "executing"]
    /\ call' = [call EXCEPT ![t] = IF SignalAborted(t) THEN "stopped"
                                                      ELSE "inflight"]
    /\ micro' = held \cup {<<t, "resume">>}
    /\ UNCHANGED result

\* executeTool(t) up to its first await, over the statuses st and the tokens
\* held: a tool that is already cancelled completes at once with a synthetic
\* error; else the call starts, or is answered without running when its
\* signal is aborted already (runToolUse).
ExecuteTool(st, t, held) ==
    IF Reason(t) # "none"
    THEN /\ status' = [st EXCEPT ![t] = "completed"]
         /\ result' = [result EXCEPT ![t] = <<Reason(t)>>]
         /\ micro' = held \cup {<<t, "resume">>, <<t, "finally">>}
         /\ UNCHANGED call
    ELSE /\ status' = [st EXCEPT ![t] = "executing"]
         /\ call' = [call EXCEPT ![t] = IF SignalAborted(t) THEN "stopped"
                                                            ELSE "inflight"]
         /\ micro' = held \cup {<<t, "resume">>}
         /\ UNCHANGED result

EndScan(st, held) ==
    /\ status' = st
    /\ micro' = held
    /\ UNCHANGED <<call, result>>

\* processQueue() of executor e from position p to its next await, when no
\* caller waits for it.
ProcessQueue(st, e, p, held) ==
    \/ \E t \in Picks(st, e, p) : ExecuteTool(st, t, held)
    \/ Picks(st, e, p) = {} /\ EndScan(st, held)

-----------------------------------------------------------------------------
\* Mutant: the race has the progress promise only.
RaceSettledByProgress == signal

\* A promise of the race getRemainingResults() awaits has settled.
RaceSettled == signal \/ \E t \in racing : status[t] # "executing"

\* The event loop takes an I/O callback only when no microtask is pending.
\* Where the query loop is suspended at a yield, its consumer may let I/O
\* callbacks in before it resumes the loop.
Callback ==
    /\ micro = {}
    /\ \A t \in Blocks : call[t] \notin {"stopped", "answered"}
    /\ pc \notin {"add", "drain", "scan"}
    /\ pc \in {"streamSweep", "sweep"} => pos > 0
    /\ ~(pc = "wait" /\ RaceSettled)

\* addTool() and getCompletedResults() to its first yield run without an await
\* between them: not even a microtask comes in.
Await == pc # "add" /\ ~(pc = "streamSweep" /\ pos = 0)

Init ==
    /\ kind \in [Blocks -> Kinds]
    /\ arrived = 0
    /\ of = [t \in Blocks |-> 1]
    /\ status = [t \in Blocks |-> "none"]
    /\ call = [t \in Blocks |-> "none"]
    /\ result = [t \in Blocks |-> <<>>]
    /\ progress = {}
    /\ micro = {}
    /\ errored = [e \in Attempts |-> FALSE]
    /\ attempt = 1
    /\ abort = "none"
    /\ pc = "stream"
    /\ pos = 0
    /\ awaited = 0
    /\ racing = {}
    /\ signal = FALSE
    /\ emitted = <<>>
    /\ modified = <<>>

(***************************************************************************)
(* The query loop while the answer streams.                                *)
(***************************************************************************)

\* A message with tool_use blocks: addTool() for each unless the turn is
\* aborted, then the non-blocking getCompletedResults().  A streamed message has
\* one block; that of a request retried without streaming may have more.
ReceiveToolUse ==
    LET t == arrived + 1 IN
    /\ (pc = "stream" /\ Callback) \/ pc = "add"
    /\ arrived < MaxBlocks
    /\ arrived' = t
    /\ \/ /\ abort = "none"
          /\ IF kind[t].known
             THEN ProcessQueue([status EXCEPT ![t] = "queued"], attempt, 0,
                               micro)
             ELSE /\ status' = [status EXCEPT ![t] = "completed"]
                  /\ result' = [result EXCEPT ![t] = <<"no_such_tool">>]
                  /\ UNCHANGED <<call, micro>>
          /\ pc' = "streamSweep" \/ (t < MaxBlocks /\ pc' = "add")
       \/ /\ abort # "none"
          /\ status' = [status EXCEPT ![t] = "dropped"]
          /\ UNCHANGED <<call, result, micro, pc>>
    /\ pos' = 0
    /\ UNCHANGED <<kind, of, progress, errored, attempt, abort, awaited, racing,
                   signal, emitted, modified>>

\* A message without one: only getCompletedResults().
ReceiveText ==
    /\ Callback
    /\ pc = "stream"
    /\ abort = "none"
    /\ pc' = "streamSweep"
    /\ pos' = 0
    /\ UNCHANGED <<kind, arrived, of, toolVars, progress, errored, attempt,
                   abort, awaited, racing, signal, emitted, modified>>

\* The answer is complete: getRemainingResults() of the current executor.
StreamEnd ==
    /\ Callback
    /\ pc = "stream"
    /\ pc' = "drain"
    /\ UNCHANGED <<kind, arrived, of, toolVars, progress, errored, attempt,
                   abort, awaited, loopVars, emitted, modified>>

\* Blocks that have not arrived yet will belong to the next attempt.
NextAttempt ==
    /\ attempt < MaxAttempts
    /\ attempt' = attempt + 1
    /\ of' = [t \in Blocks |-> IF t > arrived THEN attempt + 1 ELSE of[t]]

\* The streaming request failed and is retried without streaming: the
\* attempt's assistant messages become tombstones, its executor is discarded.
StreamingFallback ==
    /\ Callback
    /\ pc = "stream"
    /\ NextAttempt
    /\ UNCHANGED <<kind, arrived, toolVars, progress, errored, abort, pc,
                   awaited, loopVars, emitted, modified>>

\* yieldMissingToolResultBlocks: an error result for every tool_use block of
\* the attempt, in order; the first n blocks are of earlier attempts.
YieldMissingResults ==
    \E n \in 0..arrived :
        /\ \A t \in 1..arrived : of[t] = attempt <=> n < t
        /\ emitted' = emitted \o [i \in 1..(arrived - n) |->
                                     [block |-> n + i, answer |-> "missing"]]

\* FallbackTriggeredError: the attempt is retried with the fallback model.
ModelFallback ==
    /\ Callback
    /\ pc = "stream"
    /\ NextAttempt
    /\ YieldMissingResults
    /\ UNCHANGED <<kind, arrived, toolVars, progress, errored, abort, pc,
                   awaited, loopVars, modified>>

\* Any other error of the model request: the turn ends, and the executor is
\* neither discarded nor drained.  An error of an image's size returns before
\* the blocks are answered.
ModelError ==
    /\ Callback
    /\ pc = "stream"
    /\ YieldMissingResults \/ UNCHANGED emitted
    /\ pc' = "failed"
    /\ UNCHANGED <<kind, arrived, of, toolVars, progress, errored, attempt,
                   abort, awaited, loopVars, modified>>

(***************************************************************************)
(* getCompletedResults(): it runs to its next yield, and is resumed when   *)
(* its caller has dealt with what it yielded.                              *)
(***************************************************************************)

\* No executing unsafe tool of the current executor lies before t.
NotBarred(t) ==
    \A u \in Executing(attempt) : (pos <= u /\ u < t) => kind[u].safe

\* The tool whose progress or result is yielded next; at most one.
YieldsNext ==
    LET ready == {t \in Tracked(attempt) :
                    pos <= t /\ (t \in progress \/ status[t] = "completed")}
    IN {t \in ready : NotBarred(t) /\ \A u \in ready : t <= u}

YieldProgress(t) ==
    /\ t \in progress
    /\ progress' = progress \ {t}
    /\ pos' = t
    /\ UNCHANGED <<status, emitted>>

\* The tool_result blocks of a completed tool, as the loop yields them.
Yielded(t) ==
    [i \in DOMAIN result[t] |-> [block |-> t, answer |-> result[t][i]]]

\* Mutant: the tool is not marked as yielded.
YieldResultAgain(t) ==
    /\ t \notin progress
    /\ status[t] = "completed"
    /\ Len(emitted) < 2 * MaxBlocks
    /\ emitted' = emitted \o Yielded(t)
    /\ pos' = t + 1
    /\ UNCHANGED <<status, progress>>

\* Mutant: the sweep skips the tool after the one it yielded.
YieldResultSkips(t) ==
    /\ t \notin progress
    /\ status[t] = "completed"
    /\ status' = [status EXCEPT ![t] = "yielded"]
    /\ emitted' = emitted \o Yielded(t)
    /\ pos' = t + 2
    /\ UNCHANGED progress

\* The status changes before the first message is yielded; what comes in between
\* the messages of a tool does so as well after the last.
YieldResult(t) ==
    /\ t \notin progress
    /\ status[t] = "completed"
    /\ status' = [status EXCEPT ![t] = "yielded"]
    /\ emitted' = emitted \o Yielded(t)
    /\ pos' = t + 1
    /\ UNCHANGED progress

Sweep ==
    /\ pc \in {"streamSweep", "sweep"}
    /\ \E t \in YieldsNext : YieldProgress(t) \/ YieldResult(t)
    /\ UNCHANGED <<kind, arrived, of, call, result, micro, errored, attempt,
                   abort, pc, awaited, racing, signal, modified>>

\* The sweep of the streaming loop ends: wait for the next message.
EndStreamSweep ==
    /\ pc = "streamSweep"
    /\ YieldsNext = {}
    /\ pc' = "stream"
    /\ UNCHANGED <<kind, arrived, of, toolVars, progress, errored, attempt,
                   abort, awaited, loopVars, emitted, modified>>

(***************************************************************************)
(* getRemainingResults().                                                  *)
(***************************************************************************)

\* Mutant: only executing tools are waited for.
UnfinishedExecuting(e) == Executing(e)

Unfinished(e) == {t \in Tracked(e) : status[t] # "yielded"}

\* The head of the while loop, and processQueue() to its first await.
Drain ==
    /\ pc = "drain"
    /\ Unfinished(attempt) # {}
    /\ \/ \E t \in Picks(status, attempt, 0) :
             /\ ExecuteTool(status, t, micro)
             /\ awaited' = t
             /\ pc' = "scan"
       \/ /\ Picks(status, attempt, 0) = {}
          /\ pc' = "sweep"
          /\ UNCHANGED <<toolVars, awaited>>
    /\ pos' = 0
    /\ UNCHANGED <<kind, arrived, of, progress, errored, attempt, abort, racing,
                   signal, emitted, modified>>

\* The while loop ends; the last getCompletedResults() finds only progress.
EndTurn ==
    /\ pc = "drain"
    /\ Unfinished(attempt) = {}
    /\ pc' = "done"
    /\ progress' = progress \ Tracked(attempt)
    /\ UNCHANGED <<kind, arrived, of, toolVars, errored, attempt, abort,
                   awaited, loopVars, emitted, modified>>

\* "we still have executing tools but nothing completed"
MustWait ==
    /\ Executing(attempt) # {}
    /\ \A t \in Tracked(attempt) : status[t] # "completed" /\ t \notin progress

EndSweep ==
    /\ pc = "sweep"
    /\ YieldsNext = {}
    /\ \/ /\ MustWait
          /\ pc' = "wait"
          /\ racing' = Executing(attempt)
          /\ signal' = FALSE
       \/ /\ ~MustWait
          /\ pc' = "drain"
          /\ UNCHANGED <<racing, signal>>
    /\ UNCHANGED <<kind, arrived, of, toolVars, progress, errored, attempt,
                   abort, pos, awaited, emitted, modified>>

Wake ==
    /\ pc = "wait"
    /\ RaceSettled
    /\ pc' = "drain"
    /\ racing' = {}
    /\ UNCHANGED <<kind, arrived, of, toolVars, progress, errored, attempt,
                   abort, pos, awaited, signal, emitted, modified>>

(***************************************************************************)
(* Microtasks: a suspended processQueue() goes on after the tool it        *)
(* started; the finally() of a settled tool promise starts a new one.      *)
(***************************************************************************)
Resume(m) ==
    LET e == of[m[1]]
        p == IF m[2] = "resume" THEN m[1] ELSE 0
        mine == m = <<awaited, "resume">>
    IN
    /\ Await
    /\ m \in micro
    /\ \/ \E t \in Picks(status, e, p) :
             /\ ExecuteTool(status, t, micro \ {m})
             /\ awaited' = IF mine THEN t ELSE awaited
             /\ UNCHANGED pc
       \/ /\ Picks(status, e, p) = {}
          /\ EndScan(status, micro \ {m})
          /\ awaited' = IF mine THEN 0 ELSE awaited
          /\ pc' = IF mine THEN "sweep" ELSE pc
    /\ UNCHANGED <<kind, arrived, of, progress, errored, attempt, abort,
                   loopVars, emitted, modified>>

(***************************************************************************)
(* The tool calls and the user.                                            *)
(***************************************************************************)

\* The tool completes: collectResults() ends and its promise settles.
Complete(t, r) ==
    /\ status' = [status EXCEPT ![t] = "completed"]
    /\ result' = [result EXCEPT ![t] = r]
    /\ micro' = micro \cup {<<t, "finally">>}

\* A progress message arrives.  A cancelled tool completes with a synthetic
\* error at this point, and its call is left in flight.
ToolProgress(t) ==
    /\ Callback
    /\ call[t] = "inflight"
    /\ status[t] = "executing"
    /\ \/ /\ Reason(t) # "none"
          /\ Complete(t, <<Reason(t)>>)
          /\ UNCHANGED <<progress, signal>>
       \/ /\ Reason(t) = "none"
          /\ t \notin progress
          /\ progress' = progress \cup {t}
          /\ signal' = TRUE
          /\ UNCHANGED <<status, result, micro>>
    /\ UNCHANGED <<kind, arrived, of, call, errored, attempt, abort, pc, pos,
                   awaited, racing, emitted, modified>>

\* A call answers with the tool_result r, unless its tool was cancelled: then
\* with a synthetic error, and it completes.  An error of Bash cancels the
\* siblings.
Answer(t, r) ==
    IF Reason(t) # "none"
    THEN /\ Complete(t, <<Reason(t)>>)
         /\ call' = [call EXCEPT ![t] = "ended"]
         /\ UNCHANGED errored
    ELSE /\ result' = [result EXCEPT ![t] = <<r>>]
         /\ call' = [call EXCEPT ![t] = "answered"]
         /\ errored' = [errored EXCEPT ![of[t]] =
                            @ \/ (kind[t].bash /\ r \in {"error", "stopped"})]
         /\ UNCHANGED <<status, micro>>

\* The call returns, and its updates are there, the first with its result.
\* Nobody looks at them when the tool was completed by a cancellation before.
ToolReturn(t) ==
    /\ Await
    /\ call[t] = "inflight"
    /\ IF status[t] = "executing"
       THEN \E r \in {"ok", "error"} : Answer(t, r)
       ELSE /\ call' = [call EXCEPT ![t] = "ended"]
            /\ UNCHANGED <<status, result, micro, errored>>
    /\ UNCHANGED <<kind, arrived, of, progress, attempt, abort, pc, awaited,
                   loopVars, emitted, modified>>

\* The answer to a call that started with its signal aborted.
ToolStopped(t) ==
    /\ Await
    /\ call[t] = "stopped"
    /\ status[t] = "executing"
    /\ Answer(t, "stopped")
    /\ UNCHANGED <<kind, arrived, of, progress, attempt, abort, pc, awaited,
                   loopVars, emitted, modified>>

\* Mutant: whether the tool's own result was the error is not asked.
CancelledAlways(t) == Reason(t) # "none"

\* A later update asks again whether the tool is cancelled by now, but not when
\* its own result was an error (thisToolErrored).
CancelledLater(t) == result[t] = <<"ok">> /\ Reason(t) # "none"

\* The other updates of the call, if there are any, and its end.  One that
\* finds the tool cancelled adds a synthetic error behind its result.
ToolEnds(t) ==
    /\ Await
    /\ call[t] = "answered"
    /\ status[t] = "executing"
    /\ call' = [call EXCEPT ![t] = "ended"]
    /\ \/ Complete(t, result[t])
       \/ CancelledLater(t) /\ Complete(t, Append(result[t], Reason(t)))
    /\ modified' = IF result[t] = <<"ok">> /\ ~kind[t].safe
                   THEN Append(modified, t) ELSE modified
    /\ UNCHANGED <<kind, arrived, of, progress, errored, attempt, abort, pc,
                   awaited, loopVars, emitted>>

\* The user rejects a permission dialog of the call: its controller is
\* aborted, and the abort bubbles up to the turn unless the executor is
\* discarded.
ToolReject(t) ==
    /\ Callback
    /\ call[t] = "inflight"
    /\ status[t] = "executing"
    /\ ~SignalAborted(t)
    /\ of[t] = attempt
    /\ abort' = "user"
    /\ UNCHANGED <<kind, arrived, of, toolVars, progress, errored, attempt, pc,
                   awaited, loopVars, emitted, modified>>

\* Escape, or a new message submitted while tools run.
UserAbort ==
    /\ Callback
    /\ pc \notin {"done", "failed"}
    /\ abort = "none"
    /\ abort' \in {"user", "interrupt"}
    /\ UNCHANGED <<kind, arrived, of, toolVars, progress, errored, attempt, pc,
                   awaited, loopVars, emitted, modified>>

-----------------------------------------------------------------------------
Tool(t) == ToolProgress(t) \/ ToolReturn(t) \/ ToolStopped(t) \/ ToolEnds(t)
           \/ ToolReject(t)

Loop == ReceiveToolUse \/ ReceiveText \/ StreamEnd \/ Sweep \/ EndStreamSweep
        \/ Drain \/ EndSweep \/ Wake \/ EndTurn

Next ==
    \/ Loop
    \/ StreamingFallback \/ ModelFallback \/ ModelError
    \/ \E m \in micro : Resume(m)
    \/ \E t \in Blocks : Tool(t)
    \/ UserAbort

Spec == Init /\ [][Next]_vars

\* Microtasks run to the end; a call in flight ends, and a stream ends, given
\* callbacks.
Fairness ==
    /\ \A t \in Blocks :
          /\ WF_vars(Resume(<<t, "resume">>) /\ <<t, "resume">> \in micro)
          /\ WF_vars(Resume(<<t, "finally">>) /\ <<t, "finally">> \in micro)
          /\ WF_vars(ToolStopped(t)) /\ WF_vars(ToolEnds(t))
          /\ SF_vars(Callback /\ ToolReturn(t))
    /\ WF_vars(Sweep) /\ WF_vars(EndStreamSweep) /\ WF_vars(EndSweep)
    /\ WF_vars(Drain) /\ WF_vars(EndTurn) /\ WF_vars(Wake)
    /\ WF_vars(pc = "add" /\ ReceiveToolUse) /\ SF_vars(StreamEnd)

FairSpec == Spec /\ Fairness

-----------------------------------------------------------------------------
\* Type invariant of the executor and the query loop around it.
TypeOK ==
    /\ kind \in [Blocks -> Kinds]
    /\ arrived \in 0..MaxBlocks
    /\ of \in [Blocks -> Attempts]
    /\ status \in [Blocks -> Statuses]
    /\ call \in [Blocks -> {"none", "inflight", "stopped", "answered", "ended"}]
    /\ result \in [Blocks -> Seq(Answers)]
    /\ progress \subseteq Blocks
    /\ micro \subseteq Blocks \X {"resume", "finally"}
    /\ errored \in [Attempts -> BOOLEAN]
    /\ attempt \in Attempts
    /\ abort \in {"none", "user", "interrupt"}
    /\ pc \in {"stream", "add", "streamSweep", "drain", "scan", "sweep", "wait",
               "done", "failed"}
    /\ pos \in 0..MaxBlocks + 1
    /\ awaited \in 0..MaxBlocks
    /\ racing \subseteq Blocks
    /\ signal \in BOOLEAN
    /\ emitted \in Seq([block : Blocks, answer : Answers \cup {"missing"}])
    /\ modified \in Seq(Blocks)

\* "Non-concurrent tools must execute alone": while a call of an unsafe tool
\* is in flight, no other call of the same executor is, not even one whose
\* tool was cancelled and left running.
ExclusiveCalls ==
    \A t, u \in Blocks :
        (t # u /\ of[t] = of[u] /\ call[t] = "inflight" /\ call[u] = "inflight")
            => (kind[t].safe /\ kind[u].safe)

\* However many scans of the queue are suspended at once, tools start in the
\* order in which the model asked for them.
StartInOrder ==
    \A t, u \in Blocks :
        (t < u /\ of[t] = of[u] /\ status[t] = "queued")
            => (status[u] \in {"none", "dropped", "queued"} \/ ~kind[u].known)

\* Context modifiers are applied one tool at a time, in the order received,
\* by one executor.
ContextInOrder ==
    \A i, j \in 1..Len(modified) :
        (i < j /\ of[modified[i]] = of[modified[j]]) => modified[i] < modified[j]

\* An executor answers a block once, however often it is cancelled, swept or
\* aborted.  Only behind an "ok" may a second result come, at once: that of a
\* sibling error which the call's last update found.  A call that failed is
\* not answered again (thisToolErrored).
AnsweredOnce ==
    \A i, j \in 1..Len(emitted) :
        (/\ i < j /\ emitted[i].block = emitted[j].block
         /\ "missing" \notin {emitted[i].answer, emitted[j].answer})
            => /\ j = i + 1
               /\ emitted[i].answer = "ok" /\ emitted[j].answer = "sibling_error"

\* The Bash tool whose error cancels its siblings keeps its own error; it is
\* never answered with a sibling error instead, or as well.
ErrorHasCulprit ==
    \A e \in Attempts : errored[e] =>
        \E t \in Blocks : /\ of[t] = e /\ kind[t].bash
                          /\ result[t] \in {<<"error">>, <<"stopped">>}

\* Results of tools that ran leave in order around an unsafe tool: none of a
\* later tool before its own, unless an unknown tool between the two let the
\* sweep go past the unsafe one.
BarrierOrder ==
    \A i \in 1..Len(emitted) : \A u \in Blocks :
        LET t == emitted[i].block IN
        (/\ emitted[i].answer # "missing" /\ u < t /\ of[u] = of[t]
         /\ ~kind[u].safe /\ status[u] # "dropped"
         /\ \A w \in Blocks : u < w /\ w <= t => kind[w].known)
            => status[u] = "yielded"

\* When getRemainingResults() is over, every block that was handed to the
\* executor of the last attempt has its result in the conversation.
DrainComplete ==
    pc = "done" =>
        \A t \in Blocks : (of[t] = attempt /\ t <= arrived /\ status[t] # "dropped")
            => \E i \in 1..Len(emitted) :
                  emitted[i].block = t /\ emitted[i].answer # "missing"

\* After a Bash error, an abort or a fallback no call of that executor starts.
NoCallAfterCancel ==
    [][\A t \in Blocks :
          (call[t] = "none" /\ call'[t] = "inflight")
              => (~errored[of[t]] /\ abort = "none" /\ of[t] = attempt)]_vars

\* Every turn ends: the model's stream ends, the calls in flight return, and
\* getRemainingResults() neither sleeps for ever nor keeps the event loop busy.
TurnEnds == <>(pc \in {"done", "failed"})
=============================================================================
