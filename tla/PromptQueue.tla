----------------------------- MODULE PromptQueue -----------------------------
(***************************************************************************)
(* How prompts become turns on the screen: class QueryGuard, the command   *)
(* queue (messageQueueManager.ts), handlePromptSubmit(), the queue         *)
(* processor's effect, onQuery() and onCancel() of REPL.tsx, and the query *)
(* loop's draining of the queue between two requests.                      *)
(*                                                                         *)
(* A chain is one call of executeUserInput() or handleIncomingPrompt().    *)
(* An action is a stretch of code between two awaits; the queue            *)
(* processor's effect runs in a microtask of its own, so it may come       *)
(* between any two of them.                                                *)
(***************************************************************************)
EXTENDS Selection

CONSTANTS
    Workloads,   \* which commands may come to be submitted together
    MaxChains,   \* bound: chains at a time
    MaxCancels   \* bound: cancellations by the user

Modes == {"prompt", "slash", "bash", "notification", "teammate"}

\* prio: 0 'now', 1 'next', 2 'later'.  main: agentId is undefined.
\* copy counts how often onQuery() put the text back into the queue.
Command == [id : Nat, mode : Modes, prio : 0..2, main : BOOLEAN,
            meta : BOOLEAN, copy : Nat]

Commands == UNION Workloads

ASSUME CommandsAssumption ==
    /\ Commands \subseteq Command
    /\ \A a \in Commands, b \in Commands : a.id = b.id => a = b
ASSUME ChainsAssumption  == MaxChains \in Nat \ {0}
ASSUME CancelsAssumption == MaxCancels \in Nat

Chains == 1..MaxChains
Ids    == {a.id : a \in Commands}

VARIABLES
    queue,       \* commandQueue
    status,      \* QueryGuard._status
    generation,  \* QueryGuard._generation
    ui,          \* a local JSX command is showing
    drawn,       \* what the queue processor's effect last ran with
    touched,     \* the queue has changed since
    at,          \* where a chain stands
    held,        \* the commands a chain is processing
    gen,         \* thisGeneration of a chain's query
    forced,      \* onCancel() has ended the chain's query
    aborted,     \* the chain's abort controller has fired
    direct,      \* the chain came from handleIncomingPrompt()
    snap,        \* queuedCommandsSnapshot of a chain's query
    controller,  \* the screen's abortController: a chain, or 0
    cancels,     \* how often the user has cancelled
    fresh,       \* commands not submitted yet
    submitted,   \* commands that were
    sent,        \* how often a command has entered the conversation
    settled,     \* commands that ended elsewhere: run locally, failed, or
                 \* taken back into the input line
    dropped      \* commands that the query loop removed from the queue and
                 \* did not send

guardVars == <<status, generation>>
chainVars == <<at, held, gen, forced, aborted, direct, snap>>
vars == <<queue, status, generation, ui, drawn, touched, at, held, gen, forced,
          aborted, direct, snap, controller, cancels, fresh, submitted, sent,
          settled, dropped>>

Places == {"free", "processing", "querying", "attaching", "ending", "closing"}

Init ==
    /\ queue = <<>>
    /\ status = "idle" /\ generation = 0
    /\ ui = FALSE
    /\ drawn = [active |-> FALSE, ui |-> FALSE] /\ touched = FALSE
    /\ at = [c \in Chains |-> "free"]
    /\ held = [c \in Chains |-> <<>>]
    /\ gen = [c \in Chains |-> 0]
    /\ forced = [c \in Chains |-> FALSE]
    /\ aborted = [c \in Chains |-> FALSE]
    /\ direct = [c \in Chains |-> FALSE]
    /\ snap = [c \in Chains |-> <<>>]
    /\ controller = 0
    /\ cancels = 0
    /\ fresh \in Workloads
    /\ submitted = {}
    /\ sent = [i \in Ids |-> 0]
    /\ settled = {}
    /\ dropped = {}

-----------------------------------------------------------------------------
(* QueryGuard *)

isActive == status # "idle"

\* reserve(): its result is ignored by the caller.
Reserved(s) == IF s = "idle" THEN "dispatching" ELSE s

\* cancelReservation().
Released(s) == IF s = "dispatching" THEN "idle" ELSE s

\* tryStart() succeeds.
MayStart(s) == s # "running"

\* Mutant: end() does not compare the generation.
EndsAnyGeneration(c) == status = "running"

\* end(gen[c]) succeeds.
Ends(c) == generation = gen[c] /\ status = "running"

-----------------------------------------------------------------------------
(* The command queue *)

IdsOf(s) == {s[i].id : i \in DOMAIN s}

User(a) == a.mode \in {"prompt", "slash", "bash"}

Without(q, s) ==
    PickedFrom(q, {i \in DOMAIN q : \A j \in DOMAIN s : q[i] # s[j]})

\* Mutant: the query loop does not remove what it attached.
RemovedNothing(q, s) == q

\* remove(): by reference; what is gone already does not matter.
Removed(q, s) == Without(q, s)

\* Mutant: peek() without the caller's filter.
FirstOfAll(q) ==
    {i \in DOMAIN q : \A j \in DOMAIN q :
        \/ q[i].prio < q[j].prio
        \/ q[i].prio = q[j].prio /\ i <= j}

\* peek(isMainThread): the first of the most urgent main-thread commands.
First(q) ==
    {i \in DOMAIN q :
        /\ q[i].main
        /\ \A j \in DOMAIN q : q[j].main =>
               \/ q[i].prio < q[j].prio
               \/ q[i].prio = q[j].prio /\ i <= j}

\* What processQueueIfReady() dequeues when a is next: a slash or a bash
\* command alone, else all main-thread commands of its mode.
Batch(q, a) ==
    IF a.mode \in {"slash", "bash"} THEN <<a>>
    ELSE PickedFrom(q, {i \in DOMAIN q : q[i].main /\ q[i].mode = a.mode})

\* The commands getQueuedCommandAttachments() turns into messages.
Attached(s) ==
    PickedFrom(s, {i \in DOMAIN s : s[i].mode \in {"prompt", "notification"}})

\* Mutant: the message of a query that could not start is forgotten.
PutBackNothing(s) == <<>>

\* Mutant: the copy has no priority, which enqueue() does not fill in.
PutBackUndefined(s) ==
    [i \in DOMAIN s |-> [s[i] EXCEPT !.mode = "prompt", !.prio = 3]]

\* What onQuery() enqueues when another query runs: the text of each message
\* that is not meta, as a prompt.
PutBack(s) ==
    LET texts == PickedFrom(s, {i \in DOMAIN s : ~s[i].meta})
    IN [i \in DOMAIN texts |->
           [texts[i] EXCEPT !.mode = "prompt", !.prio = 1, !.main = TRUE,
                            !.copy = @ + 1]]

Sends(s) == [i \in Ids |-> IF i \in IdsOf(s) THEN sent[i] + 1 ELSE sent[i]]

-----------------------------------------------------------------------------
(* executeUserInput() and handleIncomingPrompt() *)

\* The chain that a new call becomes.
NewChain(c) == at[c] = "free" /\ \A d \in Chains : d < c => at[d] # "free"

\* The synchronous head of executeUserInput(): a new controller, reserve().
StartInput(c, cmds) ==
    /\ NewChain(c)
    /\ at' = [at EXCEPT ![c] = "processing"]
    /\ held' = [held EXCEPT ![c] = cmds]
    /\ aborted' = [aborted EXCEPT ![c] = FALSE]
    /\ forced' = [forced EXCEPT ![c] = FALSE]
    /\ direct' = [direct EXCEPT ![c] = FALSE]
    /\ controller' = c
    /\ status' = Reserved(status)
    /\ UNCHANGED <<generation, gen, snap>>

\* The synchronous head of onQuery(): the query starts, or its text goes back
\* into the queue.
OnQuery(c, cmds) ==
    IF MayStart(status) THEN
        /\ status' = "running"
        /\ generation' = generation + 1
        /\ gen' = [gen EXCEPT ![c] = generation + 1]
        /\ at' = [at EXCEPT ![c] = "querying"]
        /\ sent' = Sends(cmds)
        /\ UNCHANGED <<queue, touched>>
    ELSE
        /\ at' = [at EXCEPT ![c] = "closing"]
        /\ queue' = queue \o PutBack(cmds)
        /\ touched' = (touched \/ PutBack(cmds) # <<>>)
        /\ UNCHANGED <<status, generation, gen, sent>>

\* onSubmit() and handlePromptSubmit(): while a query is active the command is
\* queued, and a bash command may interrupt a tool that allows it.
Submit(a) ==
    /\ User(a)
    /\ fresh' = fresh \ {a}
    /\ submitted' = submitted \cup {a}
    /\ UNCHANGED <<ui, drawn, cancels, sent, settled, dropped>>
    /\ \/ /\ isActive
          /\ queue' = queue \o <<a>>
          /\ touched' = TRUE
          /\ \/ UNCHANGED aborted
             \/ /\ a.mode = "bash" /\ controller # 0
                /\ aborted' = [aborted EXCEPT ![controller] = TRUE]
          /\ UNCHANGED <<guardVars, at, held, gen, forced, direct, snap,
                         controller>>
       \/ /\ ~isActive
          /\ \E c \in Chains : StartInput(c, <<a>>)
          /\ UNCHANGED <<queue, touched>>

\* enqueuePendingNotification(), by a background task or a subagent's task.
Notify(a) ==
    /\ a.mode = "notification"
    /\ fresh' = fresh \ {a}
    /\ submitted' = submitted \cup {a}
    /\ queue' = queue \o <<a>>
    /\ touched' = TRUE
    /\ UNCHANGED <<guardVars, chainVars, ui, drawn, controller, cancels, sent,
                   settled, dropped>>

\* handleIncomingPrompt(): a teammate's message becomes a turn of its own, but
\* user input goes first.
Incoming(a) ==
    /\ a.mode = "teammate"
    /\ ~isActive
    /\ \A i \in DOMAIN queue : ~User(queue[i])
    /\ fresh' = fresh \ {a}
    /\ submitted' = submitted \cup {a}
    /\ \E c \in Chains :
          /\ NewChain(c)
          /\ OnQuery(c, <<a>>)
          /\ direct' = [direct EXCEPT ![c] = TRUE]
          /\ aborted' = [aborted EXCEPT ![c] = FALSE]
          /\ forced' = [forced EXCEPT ![c] = FALSE]
          /\ controller' = c
    /\ UNCHANGED <<ui, drawn, held, snap, cancels, settled, dropped>>

\* The effect of useQueueProcessor(): runs when the guard, the queue or the
\* local UI has changed since it last ran.
Effect ==
    /\ touched \/ drawn # [active |-> isActive, ui |-> ui]
    /\ drawn' = [active |-> isActive, ui |-> ui]
    /\ UNCHANGED <<ui, cancels, fresh, submitted, sent, settled, dropped>>
    /\ IF ~isActive /\ ~ui /\ First(queue) # {}
       THEN \E i \in First(queue) :
              LET batch == Batch(queue, queue[i])
              IN  /\ queue' = Without(queue, batch)
                  /\ touched' = (batch # <<>>)
                  /\ IF batch # <<>>
                     THEN \E c \in Chains : StartInput(c, batch)
                     ELSE UNCHANGED <<guardVars, chainVars, controller>>
       ELSE /\ touched' = FALSE
            /\ UNCHANGED <<queue, guardVars, chainVars, controller>>

\* processUserInput() has produced messages: the local UI is cleared and
\* onQuery() is called.
Processed(c) ==
    /\ at[c] = "processing"
    /\ ui' = FALSE
    /\ OnQuery(c, held[c])
    /\ held' = [held EXCEPT ![c] = <<>>]
    /\ UNCHANGED <<drawn, forced, aborted, direct, snap, controller, cancels,
                   fresh, submitted, settled, dropped>>

\* A slash command that leaves no messages: the reservation is released before
\* the UI is cleared.
ProcessedLocally(c) ==
    /\ at[c] = "processing"
    /\ \A i \in DOMAIN held[c] : held[c][i].mode = "slash"
    /\ status' = Released(status)
    /\ ui' = FALSE
    /\ controller' = 0
    /\ at' = [at EXCEPT ![c] = "closing"]
    /\ settled' = settled \cup IdsOf(held[c])
    /\ held' = [held EXCEPT ![c] = <<>>]
    /\ UNCHANGED <<queue, generation, drawn, touched, gen, forced, aborted,
                   direct, snap, cancels, fresh, submitted, sent, dropped>>

\* processUserInput() throws.
ProcessingFails(c) ==
    /\ at[c] = "processing"
    /\ at' = [at EXCEPT ![c] = "closing"]
    /\ settled' = settled \cup IdsOf(held[c])
    /\ held' = [held EXCEPT ![c] = <<>>]
    /\ UNCHANGED <<queue, guardVars, ui, drawn, touched, gen, forced, aborted,
                   direct, snap, controller, cancels, fresh, submitted, sent,
                   dropped>>

\* onQuery() returns: to executeUserInput(), or to nobody who waits.  The
\* call's locals die with it.
Return(c) ==
    /\ at' = [at EXCEPT ![c] = IF direct[c] THEN "free" ELSE "closing"]
    /\ gen' = [gen EXCEPT ![c] = 0]
    /\ forced' = [forced EXCEPT ![c] = FALSE]
    /\ direct' = [direct EXCEPT ![c] = FALSE]

\* The query ends, by itself or because it was aborted: onQuery()'s finally
\* block.  After a successful end() it awaits the turn's completion.
QueryEnds(c) ==
    /\ at[c] = "querying"
    /\ UNCHANGED <<queue, generation, ui, drawn, touched, held, aborted, snap,
                   controller, cancels, fresh, submitted, sent, settled, dropped>>
    /\ IF Ends(c)
       THEN /\ status' = "idle"
            /\ at' = [at EXCEPT ![c] = "ending"]
            /\ UNCHANGED <<gen, forced, direct>>
       ELSE /\ Return(c)
            /\ UNCHANGED status

\* onQuery() goes on after the completion handler.
TurnCompleted(c) ==
    /\ at[c] = "ending"
    /\ controller' = 0
    /\ Return(c)
    /\ UNCHANGED <<queue, guardVars, ui, drawn, touched, held, aborted, snap,
                   cancels, fresh, submitted, sent, settled, dropped>>

\* The finally block of executeUserInput().
Close(c) ==
    /\ at[c] = "closing"
    /\ status' = Released(status)
    /\ at' = [at EXCEPT ![c] = "free"]
    /\ UNCHANGED <<queue, generation, ui, drawn, touched, held, gen, forced,
                   aborted, direct, snap, controller, cancels, fresh,
                   submitted, sent, settled, dropped>>

-----------------------------------------------------------------------------
(* The query loop between two requests, and the user *)

\* query.ts looks at the queue: slash commands wait for the turn's end; 'later'
\* commands are taken only if the Sleep tool ran.
DrainLook(c) ==
    /\ at[c] = "querying" /\ ~aborted[c]
    /\ \E limit \in {1, 2} :
          LET seen == PickedFrom(queue,
                  {i \in DOMAIN queue : /\ queue[i].main
                                        /\ queue[i].mode # "slash"
                                        /\ queue[i].prio <= limit})
          IN  seen # <<>> /\ snap' = [snap EXCEPT ![c] = seen]
    /\ at' = [at EXCEPT ![c] = "attaching"]
    /\ UNCHANGED <<queue, guardVars, ui, drawn, touched, held, gen, forced,
                   aborted, direct, controller, cancels, fresh, submitted,
                   sent, settled, dropped>>

\* The attachments are ready, and the commands that they stand for leave the
\* queue.  A pasted image that cannot be resized makes
\* getQueuedCommandAttachments() throw for the whole batch; maybe() swallows
\* that, and the commands leave the queue all the same.
DrainTake(c) ==
    /\ at[c] = "attaching"
    /\ queue' = Removed(queue, Attached(snap[c]))
    /\ touched' = (touched \/ queue' # queue)
    /\ \/ /\ sent' = Sends(Attached(snap[c]))
          /\ UNCHANGED dropped
       \/ /\ \E i \in DOMAIN snap[c] : snap[c][i].mode = "prompt"
          /\ dropped' = dropped \cup IdsOf(Attached(snap[c]))
          /\ UNCHANGED sent
    /\ snap' = [snap EXCEPT ![c] = <<>>]
    /\ at' = [at EXCEPT ![c] = "querying"]
    /\ UNCHANGED <<guardVars, ui, drawn, held, gen, forced, aborted, direct,
                   controller, cancels, fresh, submitted, settled>>

\* A subagent's own loop takes a notification addressed to it.
SubagentDrains ==
    /\ \E i \in DOMAIN queue :
          /\ ~queue[i].main /\ queue[i].mode = "notification"
          /\ queue' = Without(queue, <<queue[i]>>)
          /\ sent' = Sends(<<queue[i]>>)
    /\ touched' = TRUE
    /\ UNCHANGED <<guardVars, chainVars, ui, drawn, controller, cancels, fresh,
                   submitted, settled, dropped>>

\* Escape while a task can be cancelled: onCancel().
UserCancel ==
    /\ cancels < MaxCancels
    /\ cancels' = cancels + 1
    /\ controller # 0 /\ ~aborted[controller]
    /\ forced' = [c \in Chains |->
                     forced[c] \/ (/\ at[c] \in {"querying", "attaching"}
                                   /\ Ends(c))]
    /\ status' = "idle"
    /\ generation' = IF isActive THEN generation + 1 ELSE generation
    /\ aborted' = [aborted EXCEPT ![controller] = TRUE]
    /\ controller' = 0
    /\ UNCHANGED <<queue, ui, drawn, touched, at, held, gen, direct, snap,
                   fresh, submitted, sent, settled, dropped>>

\* popAllEditable(): Escape with nothing to cancel, or the Up key, takes the
\* queued commands back into the input line.
TakeBack ==
    LET back == PickedFrom(queue,
            {i \in DOMAIN queue : User(queue[i]) /\ ~queue[i].meta})
    IN  /\ back # <<>>
        /\ queue' = Without(queue, back)
        /\ touched' = TRUE
        /\ settled' = settled \cup IdsOf(back)
        /\ UNCHANGED <<guardVars, chainVars, ui, drawn, controller, cancels,
                       fresh, submitted, sent, dropped>>

\* An immediate command shows its UI beside the running turn.
OpenUI ==
    /\ isActive /\ ~ui
    /\ ui' = TRUE
    /\ UNCHANGED <<queue, guardVars, drawn, touched, chainVars, controller,
                   cancels, fresh, submitted, sent, settled, dropped>>

CloseUI ==
    /\ ui
    /\ ui' = FALSE
    /\ UNCHANGED <<queue, guardVars, drawn, touched, chainVars, controller,
                   cancels, fresh, submitted, sent, settled, dropped>>

ChainStep(c) ==
    \/ Processed(c) \/ ProcessedLocally(c) \/ ProcessingFails(c)
    \/ QueryEnds(c) \/ TurnCompleted(c) \/ Close(c)
    \/ DrainLook(c) \/ DrainTake(c)

Next ==
    \/ \E a \in fresh : Submit(a) \/ Notify(a) \/ Incoming(a)
    \/ Effect
    \/ \E c \in Chains : ChainStep(c)
    \/ SubagentDrains
    \/ UserCancel \/ TakeBack
    \/ OpenUI \/ CloseUI

\* The runtime runs what is ready: effects, continuations, the queries
\* themselves (a request answers, fails or is aborted).  The user closes a
\* dialog some time; nobody has to submit or to cancel anything.
Fairness ==
    /\ WF_vars(Effect)
    /\ WF_vars(CloseUI)
    /\ \A c \in Chains :
          /\ WF_vars(Processed(c) \/ ProcessedLocally(c) \/ ProcessingFails(c))
          /\ SF_vars(QueryEnds(c))
          /\ WF_vars(TurnCompleted(c))
          /\ WF_vars(Close(c))
          /\ WF_vars(DrainTake(c))

Spec     == Init /\ [][Next]_vars
FairSpec == Spec /\ Fairness

-----------------------------------------------------------------------------
(* Properties *)

TypeOK ==
    /\ queue \in Seq(Command)
    /\ status \in {"idle", "dispatching", "running"} /\ generation \in Nat
    /\ ui \in BOOLEAN /\ touched \in BOOLEAN
    /\ drawn \in [active : BOOLEAN, ui : BOOLEAN]
    /\ at \in [Chains -> Places]
    /\ held \in [Chains -> Seq(Command)] /\ snap \in [Chains -> Seq(Command)]
    /\ gen \in [Chains -> Nat]
    /\ forced \in [Chains -> BOOLEAN] /\ aborted \in [Chains -> BOOLEAN]
    /\ direct \in [Chains -> BOOLEAN]
    /\ controller \in Chains \cup {0}
    /\ cancels \in 0..MaxCancels
    /\ fresh \subseteq Commands /\ submitted \subseteq Commands
    /\ sent \in [Ids -> Nat]
    /\ settled \subseteq Ids /\ dropped \subseteq Ids

\* The queries under way that the user has not cancelled.
LiveTurns == {c \in Chains : at[c] \in {"querying", "attaching"} /\ ~forced[c]}

Turns == INSTANCE OneTurn WITH turns <- LiveTurns

\* One turn at a time: whatever finally blocks, cancellations and
\* resubmissions do to the guard, a turn begins only when the one before has
\* ended or was cancelled (tryStart() and end(), called by onQuery()).
TurnsFollow == Turns!Spec

\* No command is lost between the queue, executeUserInput(), the query loop's
\* drain and onQuery()'s way back: once submitted it is queued, held by a
\* chain, in the conversation, or settled.  The one way to lose it is an
\* attachment that fails in the drain.  Meta prompts are exempt: onQuery()
\* drops them on purpose.
NothingLost ==
    \A a \in submitted :
        \/ a.meta
        \/ a.id \in settled \/ sent[a.id] > 0
        \/ a.id \in IdsOf(queue)
        \/ \E c \in Chains : a.id \in IdsOf(held[c])
        \/ a.id \in dropped

\* Without a cancellation no command enters the conversation twice: the drain
\* of the query loop and the queue processor never both take it.
SentOnce == cancels = 0 => \A i \in Ids : sent[i] <= 1

\* No queued command of the main thread stalls: the queue processor's effect
\* comes to run for it, whatever stands before it in the queue.
NoCommandStalls ==
    \A a \in Commands :
        (a.main /\ a.id \in IdsOf(queue)) ~> (a.id \notin IdsOf(queue))
=============================================================================
