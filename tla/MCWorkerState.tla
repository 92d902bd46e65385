--------------------------- MODULE MCWorkerState ---------------------------
(* Instances of WorkerState for TLC *)
EXTENDS WorkerState

MetadataKeys == {"pending_action", "task_summary", "model"}
ClearedKeys  == {"pending_action", "task_summary"}

St(state)    == [what |-> "state", state |-> state, details |-> FALSE]
Blocked      == [what |-> "state", state |-> "requires_action", details |-> TRUE]
Meta(key)    == [what |-> "metadata", keys |-> {key}]

\* A turn that asks for permission twice, and one that changes the model.
Asking == <<St("running"), Blocked, Meta("pending_action"), Blocked,
            St("running"), Meta("pending_action"), St("idle"),
            Meta("task_summary")>>
Plain  == <<Meta("model"), St("running"), Meta("task_summary"), St("running"),
            Meta("model"), St("idle"), Meta("task_summary"), St("idle")>>

\* The session awaits initialize() before it reports, as on resume.
Waiting == {[waits |-> TRUE, reports |-> Asking],
            [waits |-> TRUE, reports |-> Plain]}

\* It does not: ServerCatchesUp fails (see the README).
NotWaiting == {[waits |-> FALSE, reports |-> Asking]}
=============================================================================
