---------------------------- MODULE WorkerState ----------------------------
(***************************************************************************)
(* How the state of a session reaches the server: class                    *)
(* WorkerStateUploader with the reportState(), reportMetadata() and        *)
(* initialize() of class CCRClient.                                        *)
(*                                                                         *)
(* A patch is a function from the leaves it sets to the number of the      *)
(* report they come from; leaves inside the metadata are merged one by     *)
(* one, which is what coalescePatches() and the server do.                 *)
(***************************************************************************)
EXTENDS Naturals, Sequences, FiniteSets

CONSTANTS
    Scripts,    \* what a session reports, and whether it awaits initialize()
    Metadata,   \* the keys of external_metadata
    Cleared,    \* those that initialize() clears
    MaxFaults   \* bound: PUTs that fail

States  == {"idle", "running", "requires_action"}
Leaves  == {"worker_status", "details"} \union Metadata

\* reportState(state, details) or reportMetadata(keys)
Report ==
    [what : {"state"}, state : States, details : BOOLEAN]
    \union [what : {"metadata"}, keys : SUBSET Metadata]

ASSUME ScriptsAssumption ==
    \A s \in Scripts : s.waits \in BOOLEAN /\ s.reports \in Seq(Report)
ASSUME MetadataAssumption ==
    Cleared \subseteq Metadata /\ {"worker_status", "details"} \cap Metadata = {}
ASSUME FaultsAssumption == MaxFaults \in Nat

VARIABLES
    script,
    made,       \* how many reports were made
    current,    \* currentState ("none": null)
    pending,    \* pending (NoPatch: null)
    inflight,   \* what sendWithRetry() is sending
    loop,       \* sendWithRetry(): "off", in a PUT, or in sleep()
    arrived,    \* the server has applied the PUT in flight
    init,       \* initialize(): "new", in its PUT, "done" or "failed"
    registered, \* the server has applied the PUT of initialize()
    closed,
    patches,    \* what was enqueued: the leaves and the state of each patch
    server,     \* the worker at the server
    late,       \* PUTs that timed out and have not arrived, by their number
    setback,    \* the leaves that a late PUT set back and no PUT set since
    faults

clientVars == <<current, pending, inflight, loop, init, closed>>
serverVars == <<server, late, setback>>
vars == <<script, made, clientVars, arrived, registered, patches, serverVars,
          faults>>

NoPatch == << >>

Init ==
    /\ script \in Scripts /\ made = 0
    /\ current = "none" /\ pending = NoPatch /\ inflight = NoPatch
    /\ loop = "off" /\ arrived = FALSE
    /\ init = "new" /\ registered = FALSE
    /\ closed = FALSE
    /\ patches = <<>>
    /\ server = [leaf \in Leaves |-> 0] /\ late = {} /\ setback = {}
    /\ faults = 0

\* Mutant: the older patch wins.
CoalesceOldWins(base, overlay) ==
    [leaf \in DOMAIN base \union DOMAIN overlay |->
        IF leaf \in DOMAIN base THEN base[leaf] ELSE overlay[leaf]]

\* coalescePatches()
Coalesce(base, overlay) ==
    [leaf \in DOMAIN base \union DOMAIN overlay |->
        IF leaf \in DOMAIN overlay THEN overlay[leaf] ELSE base[leaf]]

\* drain() with `patch` pending.
Drain(patch) ==
    IF loop = "off" /\ ~closed /\ patch # NoPatch
    THEN inflight' = patch /\ pending' = NoPatch /\ loop' = "sending"
    ELSE pending' = patch /\ UNCHANGED <<inflight, loop>>

\* enqueue() of the next patch, which sets `keys`.
Enqueue(keys, state) ==
    IF closed
    THEN UNCHANGED <<pending, inflight, loop, patches>>
    ELSE /\ patches' = Append(patches, [keys |-> keys, state |-> state])
         /\ Drain(Coalesce(pending, [k \in keys |-> Len(patches) + 1]))

-----------------------------------------------------------------------------
(* Reports *)

Repeats(report) == report.state = current /\ ~report.details

MakeReport ==
    /\ made < Len(script.reports)
    /\ script.waits => init = "done"
    /\ made' = made + 1
    /\ LET report == script.reports[made + 1] IN
       IF report.what = "metadata"
       THEN Enqueue(report.keys, "none") /\ UNCHANGED current
       ELSE IF Repeats(report)
            THEN UNCHANGED <<current, pending, inflight, loop, patches>>
            ELSE /\ current' = report.state
                 /\ Enqueue({"worker_status", "details"}, report.state)
    /\ UNCHANGED <<script, arrived, init, registered, closed,
                   serverVars, faults>>

-----------------------------------------------------------------------------
(* sendWithRetry() *)

\* The server applies a PUT.
Overlay(patch) ==
    [leaf \in Leaves |-> IF leaf \in DOMAIN patch THEN patch[leaf]
                                                  ELSE server[leaf]]

\* The server has the PUT; its answer is still to come, or is lost.
PutArrives ==
    /\ loop = "sending" /\ ~arrived
    /\ arrived' = TRUE
    /\ server' = Overlay(inflight)
    /\ setback' = setback \ DOMAIN inflight
    /\ UNCHANGED <<script, made, clientVars, registered, patches, late, faults>>

\* Mutant: the patch that came meanwhile waits for another report.
PutSucceedsStops ==
    /\ loop = "sending" /\ arrived
    /\ arrived' = FALSE
    /\ inflight' = NoPatch /\ loop' = "off"
    /\ UNCHANGED <<script, made, current, pending, init, registered, closed,
                   patches, serverVars, faults>>

PutSucceeds ==
    /\ loop = "sending" /\ arrived
    /\ arrived' = FALSE
    /\ IF pending # NoPatch /\ ~closed
       THEN inflight' = pending /\ pending' = NoPatch /\ UNCHANGED loop
       ELSE inflight' = NoPatch /\ loop' = "off" /\ UNCHANGED pending
    /\ UNCHANGED <<script, made, current, init, registered, closed,
                   patches, serverVars, faults>>

\* No answer within request()'s ten seconds, or an error: the PUT may be lost,
\* have arrived, or still be on its way.
PutFails ==
    /\ loop = "sending" /\ faults < MaxFaults
    /\ faults' = faults + 1
    /\ loop' = "sleeping" /\ arrived' = FALSE
    /\ late' = IF arrived THEN late ELSE late \union {<<faults, inflight>>}
    /\ UNCHANGED <<script, made, current, pending, inflight, init, registered,
                   closed, patches, server, setback>>

\* A PUT that was given up arrives after all, also after a newer one.
LateArrives ==
    \E put \in late :
        /\ late' = late \ {put}
        /\ server' = Overlay(put[2])
        /\ setback' = setback \union
                {leaf \in DOMAIN put[2] : put[2][leaf] < server[leaf]}
        /\ UNCHANGED <<script, made, clientVars, arrived, registered, patches,
                       faults>>

\* After the sleep the pending patch is absorbed, and the loop looks whether
\* the uploader was closed.
Retry ==
    IF closed THEN inflight' = NoPatch /\ loop' = "off" /\ UNCHANGED pending
    ELSE /\ inflight' = Coalesce(inflight, pending)
         /\ pending' = NoPatch
         /\ loop' = "sending"

SleepEnds ==
    /\ loop = "sleeping"
    /\ Retry
    /\ UNCHANGED <<script, made, current, arrived, init, registered,
                   closed, patches, serverVars, faults>>

-----------------------------------------------------------------------------
(* initialize() and close() *)

Initialize ==
    /\ init = "new" /\ ~closed
    /\ init' = "sending"
    /\ UNCHANGED <<script, made, current, pending, inflight, loop, arrived,
                   registered, closed, patches, serverVars, faults>>

\* Its PUT reports 'idle' and clears what a crashed worker left.
InitArrives ==
    /\ init = "sending" /\ ~registered
    /\ registered' = TRUE
    /\ server' = [leaf \in Leaves |->
                    IF leaf \in {"worker_status"} \union Cleared THEN 0
                    ELSE server[leaf]]
    /\ UNCHANGED <<script, made, clientVars, arrived, patches, late, setback,
                   faults>>

InitSucceeds ==
    /\ init = "sending" /\ registered
    /\ init' = "done"
    /\ current' = "idle"
    /\ UNCHANGED <<script, made, pending, inflight, loop, arrived, registered,
                   closed, patches, serverVars, faults>>

\* initialize() throws; its callers close the client or the process.
InitFails ==
    /\ init = "sending" /\ faults < MaxFaults
    /\ faults' = faults + 1
    /\ init' = "failed"
    /\ closed' = TRUE /\ pending' = NoPatch
    /\ UNCHANGED <<script, made, current, inflight, loop, arrived, registered,
                   patches, serverVars>>

\* close(), also from onEpochMismatch() when another request got a 409.
Close ==
    /\ ~closed
    /\ closed' = TRUE
    /\ pending' = NoPatch
    /\ UNCHANGED <<script, made, current, inflight, loop, arrived, init,
                   registered, patches, serverVars, faults>>

-----------------------------------------------------------------------------
Put == PutArrives \/ PutSucceeds \/ PutFails \/ LateArrives

InitAnswer == InitArrives \/ InitSucceeds \/ InitFails

Next ==
    \/ MakeReport \/ Put \/ SleepEnds
    \/ Initialize \/ InitAnswer \/ Close

Spec == Init /\ [][Next]_vars

\* Requests are answered or time out, and timers fire.
FairSpec ==
    /\ Spec
    /\ WF_vars(PutArrives \/ PutSucceeds) /\ WF_vars(SleepEnds)
    /\ WF_vars(InitArrives \/ InitSucceeds)

-----------------------------------------------------------------------------
(* Properties *)

\* Whatever was retried, absorbed or answered too late, the server's value is
\* a merge of the first so many patches and does not go back, outside the
\* leaves that a timed-out PUT set back by arriving after a newer one; those
\* have an older value until a PUT sets them again.
Register == INSTANCE CoalescedRegister
    WITH patches <- [i \in DOMAIN patches |-> patches[i].keys],
         value <- server

ServerIsRegister == Register!Spec

StatusAtServer ==
    IF server["worker_status"] = 0 THEN "idle"
    ELSE patches[server["worker_status"]].state

UpToDate ==
    /\ \A leaf \in Leaves \ setback :
            server[leaf] = Register!Latest(Len(patches), leaf)
    /\ "worker_status" \in setback \/ StatusAtServer = current

\* In the end the server has the last of everything that was reported, except
\* what a late PUT set back after it, and its status is the one that the next
\* report is compared with.
ServerCatchesUp == []<>(closed \/ init # "done" \/ UpToDate)
=============================================================================
