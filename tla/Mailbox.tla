------------------------------ MODULE Mailbox ------------------------------
(***************************************************************************)
(* A teammate's inbox, one JSON file that other agents append to and its   *)
(* owner reads and marks (teammateMailbox.ts), with the three owners of    *)
(* the code: the in-process runner, which takes one message at a time, the *)
(* poller of the screen and the loop of print mode, which take all.        *)
(*                                                                         *)
(* Every change reads the whole file and writes it back under a lock;      *)
(* owners look at it without.  writeFile() truncates and then writes, and  *)
(* whoever reads a file that is not JSON takes it for an empty one.        *)
(***************************************************************************)
EXTENDS Selection

CONSTANTS
    Teams,      \* see Team
    MaxSenders, \* bound: the senders of an inbox
    MaxFaults   \* bound: locks not got in ten attempts, writes that fail, and
                \* processes that die

\* The owner of the inbox, whether the inbox exists, and what the senders send:
\* a shutdown request, a message of the team's lead or one of a peer.
Team == [owner : {"runner", "poller", "print"}, exists : BOOLEAN,
         sends : Seq(Seq({"shutdown", "lead", "peer"}))]

ASSUME SendersAssumption == MaxSenders \in Nat
ASSUME TeamsAssumption ==
    \A t \in Teams : t \in Team /\ Len(t.sends) <= MaxSenders
ASSUME FaultsAssumption == MaxFaults \in Nat

VARIABLES
    team,
    exists,     \* the inbox file exists
    content,    \* its messages
    text,       \* what is in it: "json", nothing yet, or what is not JSON
    lock,       \* who holds its lock (0: nobody)
    pc,         \* where a process stands
    buffer,     \* what it is about to write
    begun,      \* how many messages a sender has begun to send
    posted,     \* the messages whose writeToMailbox() found no fault
    marking,    \* what an owner's poll marks: an index, or 0 for all
    taken,      \* the messages that an owner's poll has still to deliver
    delivered,  \* what was submitted, queued or returned to the owner
    torn,       \* how often a file was truncated and then not written
    faults

fileVars  == <<exists, content, text, lock>>
ownerVars == <<marking, taken, delivered>>
vars == <<team, fileVars, pc, buffer, begun, posted, ownerVars, torn, faults>>

Senders == DOMAIN team.sends

\* The screen polls every second, whether or not the last poll has ended.
Polls ==
    {Len(team.sends) + i : i \in 1..(IF team.owner = "poller" THEN 2 ELSE 1)}

Processes == Senders \union Polls

\* Message <<s, k>> is the k-th of sender s.
Messages ==
    UNION {{<<s, k>> : k \in DOMAIN team.sends[s]} : s \in Senders}

Kind(m) == team.sends[m[1]][m[2]]

Entry == [id : Messages, read : BOOLEAN]

Init ==
    /\ team \in Teams
    /\ exists = team.exists /\ content = <<>>
    /\ text = "json" /\ lock = 0
    /\ pc = [p \in Processes |-> "idle"]
    /\ buffer = [p \in Processes |-> <<>>]
    /\ begun = [s \in Senders |-> 0]
    /\ posted = {}
    /\ marking = [p \in Polls |-> 0]
    /\ taken = [p \in Polls |-> <<>>]
    /\ delivered = <<>>
    /\ torn = 0 /\ faults = 0

\* readMailbox(): what is not JSON is read as no messages.
ReadMailbox == IF exists /\ text = "json" THEN content ELSE <<>>

Goto(p, place) == pc' = [pc EXCEPT ![p] = place]

-----------------------------------------------------------------------------
(* writeToMailbox() up to its lock *)

\* writeFile(..., {flag: 'wx'}) creates the inbox if there is none ...
Begin(s) ==
    /\ pc[s] = "idle" /\ begun[s] < Len(team.sends[s])
    /\ begun' = [begun EXCEPT ![s] = @ + 1]
    /\ IF exists
       THEN Goto(s, "lock") /\ UNCHANGED <<exists, text>>
       ELSE Goto(s, "create") /\ exists' = TRUE /\ text' = "empty"
    /\ UNCHANGED <<team, content, lock, buffer, posted, ownerVars, torn,
                   faults>>

\* ... and then puts '[]' at its beginning, whatever is there by now.
Create(s) ==
    /\ pc[s] = "create"
    /\ text' = IF text = "empty" \/ content = <<>> THEN "json" ELSE "broken"
    /\ Goto(s, "lock")
    /\ UNCHANGED <<team, exists, content, lock, buffer, begun, posted,
                   ownerVars, torn, faults>>

-----------------------------------------------------------------------------
(* The owner's polls *)

Unread(entries) == {i \in DOMAIN entries : ~entries[i].read}

\* Mutant: peers are not looked at.
PickLead(entries) ==
    {i \in Unread(entries) : Kind(entries[i].id) # "peer"}

\* Mutant: the last message, not the first.
PickLast(entries) ==
    {i \in Unread(entries) : \A j \in Unread(entries) : j <= i}

\* The runner's choice: the first unread shutdown request, or else the first
\* message of the lead, or else the first.
Pick(entries) ==
    LET of(kind) == {i \in Unread(entries) : Kind(entries[i].id) = kind}
        wanted   == IF of("shutdown") # {} THEN of("shutdown")
                    ELSE IF of("lead") # {} THEN of("lead")
                    ELSE of("peer")
    IN  {i \in wanted : \A j \in wanted : i <= j}

\* Mutant: the runner marks everything.
RunnerMarksAll(i) == 0

\* The runner marks the message at the index it has read.
RunnerMarks(i) == i

\* readUnreadMessages(), in the order of the file.
UnreadMessages(entries) ==
    PickedFrom([i \in DOMAIN entries |-> entries[i].id], Unread(entries))

\* waitForNextPromptOrShutdown(): one message, returned once it is marked.
RunnerPolls(p) ==
    /\ team.owner = "runner"
    /\ \E i \in Pick(ReadMailbox) :
          /\ marking' = [marking EXCEPT ![p] = RunnerMarks(i)]
          /\ taken' = [taken EXCEPT ![p] = <<ReadMailbox[i].id>>]
    /\ UNCHANGED delivered

\* print mode: all unread messages, enqueued once they are marked.
PrintPolls(p) ==
    /\ team.owner = "print"
    /\ Unread(ReadMailbox) # {}
    /\ marking' = [marking EXCEPT ![p] = 0]
    /\ taken' = [taken EXCEPT ![p] = UnreadMessages(ReadMailbox)]
    /\ UNCHANGED delivered

\* useInboxPoller(): all unread messages, submitted or queued before they are
\* marked.
ScreenPolls(p) ==
    /\ team.owner = "poller"
    /\ Unread(ReadMailbox) # {}
    /\ marking' = [marking EXCEPT ![p] = 0]
    /\ delivered' = delivered \o UnreadMessages(ReadMailbox)
    /\ UNCHANGED taken

Poll(p) ==
    /\ pc[p] = "idle"
    /\ RunnerPolls(p) \/ PrintPolls(p) \/ ScreenPolls(p)
    /\ Goto(p, "lock")
    /\ UNCHANGED <<team, fileVars, buffer, begun, posted, torn, faults>>

-----------------------------------------------------------------------------
(* Changing the file *)

\* A call returns: the owner that has waited for it delivers what it took.
Return(p) ==
    /\ Goto(p, "idle")
    /\ IF p \in Polls
       THEN /\ delivered' = delivered \o taken[p]
            /\ taken' = [taken EXCEPT ![p] = <<>>]
       ELSE UNCHANGED <<delivered, taken>>
    /\ UNCHANGED marking

\* Mutant: the lock is not looked at.
LockAnyway(p) ==
    /\ pc[p] = "lock"
    /\ lock' = p
    /\ Goto(p, "read")
    /\ UNCHANGED <<team, exists, content, text, buffer, begun, posted,
                   ownerVars, torn, faults>>

Lock(p) ==
    /\ pc[p] = "lock" /\ lock = 0
    /\ lock' = p
    /\ Goto(p, "read")
    /\ UNCHANGED <<team, exists, content, text, buffer, begun, posted,
                   ownerVars, torn, faults>>

\* lockfile.lock() gives up: the caller only logs it.
LockFails(p) ==
    /\ pc[p] = "lock" /\ lock # 0
    /\ faults < MaxFaults /\ faults' = faults + 1
    /\ Return(p)
    /\ UNCHANGED <<team, fileVars, buffer, begun, posted, torn>>

\* Mutant: a message is written as it was sent, without its read flag.
NewEntryBare(s) == [id |-> <<s, begun[s]>>]

NewEntry(s) == [id |-> <<s, begun[s]>>, read |-> FALSE]

\* What a process makes of the messages it has read.
Changed(p, entries) ==
    IF p \in Senders
    THEN Append(entries, NewEntry(p))
    ELSE [i \in DOMAIN entries |->
             IF marking[p] \in {0, i} THEN [entries[i] EXCEPT !.read = TRUE]
             ELSE entries[i]]

\* Marking returns early: nothing to mark, or the message at the index is
\* gone or read.
Nothing(p, entries) ==
    /\ p \in Polls
    /\ IF marking[p] = 0 THEN entries = <<>>
       ELSE marking[p] > Len(entries) \/ entries[marking[p]].read

Read(p) ==
    /\ pc[p] = "read"
    /\ IF Nothing(p, ReadMailbox)
       THEN Goto(p, "unlock") /\ UNCHANGED buffer
       ELSE /\ buffer' = [buffer EXCEPT ![p] = Changed(p, ReadMailbox)]
            /\ Goto(p, "truncate")
    /\ UNCHANGED <<team, fileVars, begun, posted, ownerVars, torn,
                   faults>>

Truncate(p) ==
    /\ pc[p] = "truncate"
    /\ text' = "empty" /\ content' = <<>>
    /\ Goto(p, "write")
    /\ UNCHANGED <<team, exists, lock, buffer, begun, posted, ownerVars, torn,
                   faults>>

Write(p) ==
    /\ pc[p] = "write"
    /\ text' = "json" /\ content' = buffer[p]
    /\ posted' = IF p \in Senders THEN posted \union {<<p, begun[p]>>}
                 ELSE posted
    /\ buffer' = [buffer EXCEPT ![p] = <<>>]
    /\ Goto(p, "unlock")
    /\ UNCHANGED <<team, exists, lock, begun, ownerVars, torn,
                   faults>>

Unlock(p) ==
    /\ pc[p] = "unlock"
    /\ lock' = 0
    /\ Return(p)
    /\ UNCHANGED <<team, exists, content, text, buffer, begun, posted, torn,
                   faults>>

\* writeFile() throws: before it has opened the file, or when the file is
\* truncated already.  The caller logs that, and releases its lock.
WriteFails(p) ==
    /\ faults < MaxFaults /\ faults' = faults + 1
    /\ \/ pc[p] = "create" /\ Goto(p, "idle") /\ UNCHANGED torn
       \/ pc[p] = "truncate" /\ Goto(p, "unlock") /\ UNCHANGED torn
       \/ pc[p] = "write" /\ Goto(p, "unlock") /\ torn' = torn + 1
    /\ buffer' = [buffer EXCEPT ![p] = <<>>]
    /\ UNCHANGED <<team, fileVars, begun, posted, ownerVars>>

\* The process of a sender dies; its lock stays.
Dies(s) ==
    /\ faults < MaxFaults /\ faults' = faults + 1
    /\ pc[s] \notin {"idle", "dead"} /\ Goto(s, "dead")
    /\ torn' = IF pc[s] = "write" THEN torn + 1 ELSE torn
    /\ buffer' = [buffer EXCEPT ![s] = <<>>]
    /\ UNCHANGED <<team, fileVars, begun, posted, ownerVars>>

\* Nobody refreshes the lock of a dead process: whoever wants it removes it.
GoStale ==
    /\ lock # 0 /\ pc[lock] = "dead"
    /\ lock' = 0
    /\ UNCHANGED <<team, exists, content, text, pc, buffer, begun, posted,
                   ownerVars, torn, faults>>

Change(p) == Lock(p) \/ Read(p) \/ Truncate(p) \/ Write(p) \/ Unlock(p)

Next ==
    \/ \E s \in Senders : Begin(s) \/ Create(s) \/ Dies(s)
    \/ \E p \in Polls : Poll(p)
    \/ \E p \in Processes : Change(p) \/ LockFails(p) \/ WriteFails(p)
    \/ GoStale

Spec == Init /\ [][Next]_vars

\* File operations and locks end: proper-lockfile tries again until the lock
\* is free, or stale, or it gives up.  That the owner polls for ever is
\* assumed: its loop ends with the teammate, on an abort or an approved
\* shutdown.
FairSpec ==
    /\ Spec
    /\ \A n \in 1..(MaxSenders + 2) :
          /\ WF_vars(n \in Polls /\ Poll(n))
          /\ WF_vars(n \in Processes /\ Change(n))
          /\ WF_vars(n \in Senders /\ Create(n))
    /\ WF_vars(GoStale)

-----------------------------------------------------------------------------
(* Properties *)

Items(s) == {s[i] : i \in DOMAIN s}

TypeOK ==
    /\ team \in Teams
    /\ exists \in BOOLEAN /\ content \in Seq(Entry)
    /\ text \in {"json", "empty", "broken"} /\ lock \in {0} \union Processes
    /\ pc \in [Processes ->
          {"idle", "create", "lock", "read", "truncate", "write", "unlock",
           "dead"}]
    /\ \A p \in Processes : buffer[p] \in Seq(Entry)
    /\ \A s \in Senders : begun[s] \in 0..Len(team.sends[s])
    /\ posted \subseteq Messages
    /\ \A p \in Polls : marking[p] \in Nat /\ taken[p] \in Seq(Messages)
    /\ delivered \in Seq(Messages)
    /\ torn \in Nat /\ faults \in 0..MaxFaults

\* The messages of the file, or of the file that is just being written.
Entries ==
    LET writing == {p \in Processes : pc[p] = "write"}
    IN  IF writing = {} THEN content ELSE buffer[CHOOSE p \in writing : TRUE]

\* Whatever several agents do to the inbox at a time, and wherever they fail or
\* die, it stays one: nothing that was posted disappears, moves, or becomes
\* unread again, except that all of it goes when writeFile() has truncated the
\* file and does not come to write it.
Kept == INSTANCE Inbox WITH Message <- Nat \X Nat, entries <- Entries,
                            losses <- torn

FileIsInbox == Kept!Spec

Waits(m) == \E i \in DOMAIN Entries : Entries[i].id = m /\ ~Entries[i].read

\* A message that was posted is unread in the inbox, in the hands of a poll,
\* or delivered.
Safe(m) ==
    \/ Waits(m)
    \/ m \in Items(delivered)
    \/ \E p \in Polls : m \in Items(taken[p])

\* No message to an in-process teammate is lost to locks that were not got,
\* writes that could not begin or senders that died, unless a write ended after
\* it had truncated the inbox.
NothingLost ==
    team.owner = "runner" /\ torn = 0 => \A m \in posted : Safe(m)

\* Unless something failed, the runner and print mode deliver no message
\* twice, and those of a sender that are of one kind in the order in which
\* they were sent.
DeliveredInOrder ==
    team.owner # "poller" /\ faults = 0 =>
        \A i, j \in DOMAIN delivered :
            /\ i < j
            /\ delivered[i][1] = delivered[j][1]
            /\ Kind(delivered[i]) = Kind(delivered[j])
            => delivered[i][2] < delivered[j][2]

\* While an in-process teammate polls, everything that is posted to it reaches
\* it, be it behind however many shutdown requests and messages of the lead,
\* unless a write ended after it had truncated the inbox.
EventuallyDelivered ==
    []<>(\/ team.owner # "runner" \/ torn > 0
         \/ posted \subseteq Items(delivered))

\* The poller marks as read what was delivered or queued, and nothing else.
ReadWasDelivered ==
    \A i \in DOMAIN Entries :
        Entries[i].read => Entries[i].id \in Items(delivered)
=============================================================================
