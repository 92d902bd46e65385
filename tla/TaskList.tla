------------------------------ MODULE TaskList ------------------------------
(***************************************************************************)
(* The task list a swarm of agents shares through the file system          *)
(* (src/utils/tasks.ts), with the callers that drive it: a teammate        *)
(* looking for work (inProcessRunner.ts), the TaskUpdate tool, the timer   *)
(* that clears a finished list (useTasksV2.ts), a teammate's shutdown.     *)
(*                                                                         *)
(* A task is a file <id>.json; ".highwatermark" remembers the highest id   *)
(* that was deleted.  Two kinds of lock exist: one for the list, one per   *)
(* task file.  Agents are processes: an action is one file operation.      *)
(* writeFile is two of them, open (which truncates) and write: between the *)
(* two another process reads an empty file.                                *)
(***************************************************************************)
EXTENDS Naturals, FiniteSets

CONSTANTS
    Procs,    \* the agents; each runs one operation at a time
    NoProc,   \* no agent
    Kinds,    \* the operations of this instance
    Mortal,   \* the agents that may crash
    Initial,  \* bound: how many tasks the list may hold at first
    MaxOps,   \* bound: operations started
    MaxId     \* bound: the highest task id

AllKinds == {"create", "reset", "hide", "work", "claimBusy", "update",
             "block", "unassign", "delete"}

ASSUME ProcsAssumption == NoProc \notin Procs /\ Mortal \subseteq Procs
ASSUME KindsAssumption == Kinds \subseteq AllKinds
ASSUME BoundAssumption == /\ Initial \in Nat /\ MaxOps \in Nat /\ MaxId \in Nat
                          /\ Initial + MaxOps <= MaxId

Ids      == 1..MaxId
Statuses == {"pending", "in_progress", "completed"}
Tasks    == [owner : Procs \cup {NoProc}, status : Statuses,
             blocks : SUBSET Ids, blockedBy : SUBSET Ids]
Fields   == {"owner", "status", "blocks", "blockedBy"}
NewTask  == [owner |-> NoProc, status |-> "pending", blocks |-> {}, blockedBy |-> {}]

VARIABLES
    exists,    \* the ids whose file is in the directory
    writer,    \* who has truncated a file and not yet written it, or NoProc
    task,      \* what a file holds (nothing while it has a writer)
    mark,      \* the high water mark; 0 when its file is missing or empty
    listLock,  \* the holder of the list's lock, or NoProc
    taskLock,  \* the holder of each task's lock, or NoProc
    pc,        \* where each agent's operation stands
    op,        \* the operation: its kind and arguments
    cur,       \* the updateTask() (or the claim) in progress: task, fields set
    todo,      \* the updateTask() calls still to make
    new,       \* the task as it was read under its lock, or is to be written
    toRead,    \* files of a listing still to read (of a reset: to unlink)
    snap,      \* the listing: the tasks read so far
    hi,        \* highest id in the directory when it was read
    mk,        \* the high water mark when it was read
    issued,    \* history: every id createTask() returned
    ops        \* history: how many operations were started

disk  == <<exists, writer, task, mark>>
locks == <<listLock, taskLock>>
vars  == <<disk, locks, pc, op, cur, todo, new, toRead, snap, hi, mk, issued, ops>>

-----------------------------------------------------------------------------
(* Reading and updating tasks *)

Readable(t) == t \in exists /\ writer[t] = NoProc
Unresolved(S) == {r.id : r \in {s \in S : s.task.status # "completed"}}
ApplyWithoutMerge(r, set) == set
Apply(r, set) == [f \in Fields |-> IF f \in DOMAIN set THEN set[f] ELSE r[f]]
IsHighest(h, S) == (h = 0 \/ h \in S) /\ \A t \in S : t <= h
NewIdFromFiles(p) == hi[p] + 1
NewId(p) == (IF hi[p] > mk[p] THEN hi[p] ELSE mk[p]) + 1

\* findAvailableTask() of a listing
Available(S) == {r \in S : /\ r.task.status = "pending"
                           /\ r.task.owner = NoProc
                           /\ r.task.blockedBy \cap Unresolved(S) = {}}

Request(k, t, o, a) == [kind |-> k, task |-> t, other |-> o, whom |-> a]
Requests ==
    {Request(k, 0, 0, NoProc) : k \in {"create", "reset", "hide", "work"}}
    \cup {Request(k, t, 0, NoProc) : k \in {"claimBusy", "update", "delete"}, t \in Ids}
    \cup {Request("block", e[1], e[2], NoProc) : e \in {x \in Ids \X Ids : x[1] # x[2]}}
    \cup {Request("unassign", 0, 0, a) : a \in Procs}

Is(p, k)    == op[p].kind = k
Resetting(p) == listLock = p /\ op[p].kind \in {"reset", "hide"}
Update(t, set) == [task |-> t, set |-> set]
Owned(p) == [owner |-> p]
\* The claim of claimTask() itself, as opposed to an updateTask() that follows
Claiming(p) == Is(p, "work") /\ cur[p].set = Owned(p)

Goto(p, l) == pc' = [pc EXCEPT ![p] = l]
\* Where an operation goes when it returns or throws
Ended(p) == IF listLock = p THEN "unlockList" ELSE "idle"
Return(p) == Goto(p, Ended(p)) /\ todo' = [todo EXCEPT ![p] = {}]

Init ==
    /\ \E n \in 0..Initial :
        /\ exists = 1..n
        /\ issued = 1..n
    /\ writer = [t \in Ids |-> NoProc]
    /\ task \in {[t \in Ids |-> NewTask]} \cup
                (IF 2 \in exists
                 THEN {[t \in Ids |-> CASE t = 1 -> [NewTask EXCEPT !.blocks = {2}]
                                        [] t = 2 -> [NewTask EXCEPT !.blockedBy = {1}]
                                        [] OTHER -> NewTask]}
                 ELSE {})
    /\ mark = 0
    /\ listLock = NoProc
    /\ taskLock = [t \in Ids |-> NoProc]
    /\ pc = [p \in Procs |-> "idle"]
    /\ op = [p \in Procs |-> Request("create", 0, 0, NoProc)]
    /\ cur = [p \in Procs |-> Update(0, Owned(p))]
    /\ todo = [p \in Procs |-> {}]
    /\ new = [p \in Procs |-> NewTask]
    /\ toRead = [p \in Procs |-> {}]
    /\ snap = [p \in Procs |-> {}]
    /\ hi = [p \in Procs |-> 0]
    /\ mk = [p \in Procs |-> 0]
    /\ ops = 0

-----------------------------------------------------------------------------
(* An operation starts; what it reads first depends on its kind *)

FirstStep(k) == CASE k \in {"create", "reset"}             -> "lockList"
                  [] k \in {"hide", "work", "unassign"}    -> "listDir"
                  [] k = "claimBusy"                       -> "check"
                  [] k \in {"update", "block", "delete"}   -> "listing"

Start(p) ==
    /\ pc[p] = "idle" /\ ops < MaxOps
    /\ \E r \in Requests :
        /\ r.kind \in Kinds
        /\ op' = [op EXCEPT ![p] = r]
        /\ Goto(p, FirstStep(r.kind))
        /\ cur' = [cur EXCEPT ![p] = Update(r.task, Owned(p))]
        /\ toRead' = [toRead EXCEPT ![p] = {r.task, r.other} \ {0}]
    /\ snap' = [snap EXCEPT ![p] = {}]
    /\ hi' = [hi EXCEPT ![p] = 0]
    /\ mk' = [mk EXCEPT ![p] = 0]
    /\ new' = [new EXCEPT ![p] = NewTask]
    /\ ops' = ops + 1
    /\ UNCHANGED <<disk, locks, todo, issued>>

(* listTasks(): the directory first, then every file in any order *)

ListDir(p) ==
    /\ pc[p] = "listDir"
    /\ toRead' = [toRead EXCEPT ![p] = exists]
    /\ snap' = [snap EXCEPT ![p] = {}]
    /\ Goto(p, IF Resetting(p) THEN "clear" ELSE "listing")
    /\ UNCHANGED <<disk, locks, op, cur, todo, new, hi, mk, issued, ops>>

ListRead(p) ==
    /\ pc[p] = "listing"
    /\ \E t \in toRead[p] :
        /\ toRead' = [toRead EXCEPT ![p] = @ \ {t}]
        /\ snap' = [snap EXCEPT ![p] =
                     @ \cup (IF Readable(t) THEN {[id |-> t, task |-> task[t]]} ELSE {})]
    /\ UNCHANGED <<disk, locks, pc, op, cur, todo, new, hi, mk, issued, ops>>

Listed(p) == pc[p] = "listing" /\ toRead[p] = {}

-----------------------------------------------------------------------------
(* What each caller does with what it read *)

\* onHideTimerFired(): reset the list if every task is completed
HideChecked(p) ==
    /\ Listed(p) /\ Is(p, "hide")
    /\ Goto(p, IF snap[p] # {} /\ Unresolved(snap[p]) = {} THEN "lockList" ELSE "idle")
    /\ UNCHANGED <<disk, locks, op, cur, todo, new, toRead, snap, hi, mk, issued, ops>>

\* tryClaimNextTask(): claim a task that looks available
WorkFound(p) ==
    /\ Listed(p) /\ Is(p, "work") /\ op[p].task = 0
    /\ IF Available(snap[p]) = {}
       THEN Goto(p, "idle") /\ UNCHANGED <<op, cur>>
       ELSE \E r \in Available(snap[p]) :
               /\ op' = [op EXCEPT ![p].task = r.id]
               /\ cur' = [cur EXCEPT ![p] = Update(r.id, Owned(p))]
               /\ Goto(p, "check")
    /\ UNCHANGED <<disk, locks, todo, new, toRead, snap, hi, mk, issued, ops>>

\* A mutant: the early return of a blocked claim does not release the lock
ClaimCheckedLeaks(p) ==
    /\ Listed(p) /\ Claiming(p) /\ op[p].task # 0
    /\ IF new[p].blockedBy \cap Unresolved(snap[p]) # {}
       THEN Goto(p, "next") /\ UNCHANGED todo
       ELSE /\ Goto(p, "read")
            /\ todo' = [todo EXCEPT ![p] = {}]
    /\ UNCHANGED <<disk, locks, op, cur, new, toRead, snap, hi, mk, issued, ops>>

\* claimTask(), holding the task's lock: blocked, or write the owner.  Then a
\* teammate sets the status; a watcher goes on, or gives the claim up when it
\* cannot submit the task
ClaimChecked(p) ==
    /\ Listed(p) /\ Claiming(p) /\ op[p].task # 0
    /\ IF new[p].blockedBy \cap Unresolved(snap[p]) # {}
       THEN Goto(p, "unlockTask") /\ UNCHANGED todo
       ELSE /\ Goto(p, "read")
            /\ \E sets \in {{[status |-> "in_progress"]}, {}, {[owner |-> NoProc]}} :
                 todo' = [todo EXCEPT ![p] = {Update(op[p].task, s) : s \in sets}]
    /\ UNCHANGED <<disk, locks, op, cur, new, toRead, snap, hi, mk, issued, ops>>

\* claimTaskWithBusyCheck(), holding the list's lock
BusyChecked(p) ==
    /\ Listed(p) /\ Is(p, "claimBusy")
    /\ LET t == op[p].task
           claimable(r) ==
               /\ r.id = t
               /\ r.task.owner \in {NoProc, p}
               /\ r.task.status # "completed"
               /\ r.task.blockedBy \cap Unresolved(snap[p]) = {}
           busy == \E r \in snap[p] : /\ r.task.status # "completed"
                                      /\ r.task.owner = p /\ r.id # t
       IN  IF busy \/ ~\E r \in snap[p] : claimable(r)
           THEN Return(p)
           ELSE Goto(p, "check") /\ UNCHANGED todo
    /\ UNCHANGED <<disk, locks, op, cur, new, toRead, snap, hi, mk, issued, ops>>

\* TaskUpdate: assign the task, complete or reopen it, or start it (and take
\* it when it has no owner)
UpdateLooked(p) ==
    /\ Listed(p) /\ Is(p, "update")
    /\ IF snap[p] = {}
       THEN Return(p)
       ELSE \E r \in snap[p] :
              \E set \in {[owner |-> a] : a \in Procs \ {r.task.owner}} \cup
                         (IF r.task.status # "completed"
                          THEN {[status |-> "completed"]} ELSE {}) \cup
                         (IF r.task.status # "pending"
                          THEN {[status |-> "pending"]} ELSE {}) \cup
                         (IF r.task.status = "in_progress" THEN {}
                          ELSE IF r.task.owner = NoProc
                          THEN {[status |-> "in_progress", owner |-> p]}
                          ELSE {[status |-> "in_progress"]}) :
                /\ todo' = [todo EXCEPT ![p] = {Update(r.id, set)}]
                /\ Goto(p, "next")
    /\ UNCHANGED <<disk, locks, op, cur, new, toRead, snap, hi, mk, issued, ops>>

\* blockTask(): two updates, the blocking task's first
BlockLooked(p) ==
    /\ Listed(p) /\ Is(p, "block")
    /\ LET a == op[p].task
           b == op[p].other
       IN  IF Cardinality(snap[p]) < 2
           THEN Return(p) /\ UNCHANGED cur
           ELSE \E ra \in snap[p], rb \in snap[p] :
                  /\ ra.id = a /\ rb.id = b
                  /\ todo' = [todo EXCEPT ![p] =
                       IF a \in rb.task.blockedBy THEN {}
                       ELSE {Update(b, [blockedBy |-> rb.task.blockedBy \cup {a}])}]
                  /\ IF b \in ra.task.blocks
                     THEN Goto(p, "next") /\ UNCHANGED cur
                     ELSE /\ cur' = [cur EXCEPT ![p] =
                                Update(a, [blocks |-> ra.task.blocks \cup {b}])]
                          /\ Goto(p, "check")
    /\ UNCHANGED <<disk, locks, op, new, toRead, snap, hi, mk, issued, ops>>

\* unassignTeammateTasks()
UnassignListed(p) ==
    /\ Listed(p) /\ Is(p, "unassign")
    /\ todo' = [todo EXCEPT ![p] =
         {Update(r.id, [owner |-> NoProc, status |-> "pending"]) :
            r \in {s \in snap[p] : /\ s.task.status # "completed"
                                   /\ s.task.owner = op[p].whom}}]
    /\ Goto(p, "next")
    /\ UNCHANGED <<disk, locks, op, cur, new, toRead, snap, hi, mk, issued, ops>>

\* TaskUpdate with status "deleted" looks the task up; deleteTask() lists the
\* others once the file is gone (hi is 0 only before)
DeleteLooked(p) ==
    /\ Listed(p) /\ Is(p, "delete") /\ hi[p] = 0
    /\ IF snap[p] = {}
       THEN Goto(p, "idle") /\ UNCHANGED hi
       ELSE Goto(p, "scanMark") /\ hi' = [hi EXCEPT ![p] = op[p].task]
    /\ UNCHANGED <<disk, locks, op, cur, todo, new, toRead, snap, mk, issued, ops>>

\* A mutant: only the tasks that this one blocked forget it
DeleteCascadeHalf(p) ==
    /\ Listed(p) /\ Is(p, "delete") /\ hi[p] # 0
    /\ LET t == op[p].task
           refers == {r \in snap[p] : t \in r.task.blockedBy}
       IN  todo' = [todo EXCEPT ![p] =
             {Update(r.id, [blockedBy |-> r.task.blockedBy \ {t}]) : r \in refers}]
    /\ Goto(p, "next")
    /\ UNCHANGED <<disk, locks, op, cur, new, toRead, snap, hi, mk, issued, ops>>

DeleteCascade(p) ==
    /\ Listed(p) /\ Is(p, "delete") /\ hi[p] # 0
    /\ LET t == op[p].task
           refers == {r \in snap[p] : t \in r.task.blocks \cup r.task.blockedBy}
       IN  todo' = [todo EXCEPT ![p] =
             {Update(r.id, [blocks    |-> r.task.blocks \ {t},
                            blockedBy |-> r.task.blockedBy \ {t}]) : r \in refers}]
    /\ Goto(p, "next")
    /\ UNCHANGED <<disk, locks, op, cur, new, toRead, snap, hi, mk, issued, ops>>

-----------------------------------------------------------------------------
(* updateTask(cur[p]), and claimTask() around its write *)

\* The next update of the operation; after the last one it returns
NextUpdate(p) ==
    /\ pc[p] = "next"
    /\ IF todo[p] = {}
       THEN Return(p) /\ UNCHANGED cur
       ELSE \E u \in todo[p] :
              /\ cur' = [cur EXCEPT ![p] = u]
              /\ todo' = [todo EXCEPT ![p] = @ \ {u}]
              /\ Goto(p, "check")
    /\ UNCHANGED <<disk, locks, op, new, toRead, snap, hi, mk, issued, ops>>

\* The existence check before the lock
Check(p) ==
    /\ pc[p] = "check"
    /\ Goto(p, IF ~Readable(cur[p].task) THEN "next"
               ELSE IF Is(p, "claimBusy") /\ listLock # p THEN "lockList" ELSE "lockTask")
    /\ UNCHANGED <<disk, locks, op, cur, todo, new, toRead, snap, hi, mk, issued, ops>>

\* A mutant: no lock is waited for
LockTaskUnchecked(p) ==
    /\ pc[p] = "lockTask"
    /\ taskLock' = [taskLock EXCEPT ![cur[p].task] = p]
    /\ Goto(p, IF Claiming(p) THEN "claim" ELSE "read")
    /\ UNCHANGED <<disk, listLock, op, cur, todo, new, toRead, snap, hi, mk, issued, ops>>

LockTask(p) ==
    /\ pc[p] = "lockTask" /\ taskLock[cur[p].task] = NoProc
    /\ taskLock' = [taskLock EXCEPT ![cur[p].task] = p]
    /\ Goto(p, IF Claiming(p) THEN "claim" ELSE "read")
    /\ UNCHANGED <<disk, listLock, op, cur, todo, new, toRead, snap, hi, mk, issued, ops>>

\* lockfile.lock() throws: the file is gone, or the retries are used up
LockThrows(p) ==
    /\ \/ /\ pc[p] = "lockTask"
          /\ cur[p].task \notin exists \/ taskLock[cur[p].task] # NoProc
       \/ pc[p] = "lockList" /\ listLock # NoProc
    /\ Return(p)
    /\ UNCHANGED <<disk, locks, op, cur, new, toRead, snap, hi, mk, issued, ops>>

\* A mutant: the listing said that the task was free, so do not look again
ClaimReadTrusting(p) ==
    /\ pc[p] = "claim"
    /\ IF Readable(cur[p].task)
       THEN Goto(p, "listDir") /\ new' = [new EXCEPT ![p] = task[cur[p].task]]
       ELSE Goto(p, "unlockTask") /\ UNCHANGED new
    /\ UNCHANGED <<disk, locks, op, cur, todo, toRead, snap, hi, mk, issued, ops>>

\* claimTask() reads the task it has locked
ClaimRead(p) ==
    /\ pc[p] = "claim"
    /\ LET t == cur[p].task
       IN  IF /\ Readable(t)
              /\ task[t].owner \in {NoProc, p}
              /\ task[t].status # "completed"
           THEN Goto(p, "listDir") /\ new' = [new EXCEPT ![p] = task[t]]
           ELSE Goto(p, "unlockTask") /\ UNCHANGED new
    /\ UNCHANGED <<disk, locks, op, cur, todo, toRead, snap, hi, mk, issued, ops>>

\* updateTaskUnsafe(): read, merge, and write the whole task
Read(p) ==
    /\ pc[p] = "read"
    /\ LET t == cur[p].task
       IN  IF Readable(t)
           THEN Goto(p, "write") /\ new' = [new EXCEPT ![p] = Apply(task[t], cur[p].set)]
           ELSE Goto(p, "unlockTask") /\ UNCHANGED new
    /\ UNCHANGED <<disk, locks, op, cur, todo, toRead, snap, hi, mk, issued, ops>>

\* writeFile(): open creates or truncates the file ...
Truncate(p) ==
    /\ pc[p] = "write"
    /\ exists' = exists \cup {cur[p].task}
    /\ writer' = [writer EXCEPT ![cur[p].task] = p]
    /\ Goto(p, "fill")
    /\ UNCHANGED <<task, mark, locks, op, cur, todo, new, toRead, snap, hi, mk, issued, ops>>

\* ... and write fills it, unless it was unlinked in between
Fill(p) ==
    /\ pc[p] = "fill"
    /\ IF writer[cur[p].task] = p
       THEN /\ writer' = [writer EXCEPT ![cur[p].task] = NoProc]
            /\ task' = [task EXCEPT ![cur[p].task] = new[p]]
       ELSE UNCHANGED <<writer, task>>
    /\ IF Is(p, "create")
       THEN Goto(p, "unlockList") /\ issued' = issued \cup {cur[p].task}
       ELSE Goto(p, "unlockTask") /\ UNCHANGED issued
    /\ UNCHANGED <<exists, mark, locks, op, cur, todo, new, toRead, snap, hi, mk, ops>>

\* A mutant: no finally block
UnlockTaskForgotten(p) ==
    /\ pc[p] = "unlockTask"
    /\ Goto(p, "next")
    /\ UNCHANGED <<disk, locks, op, cur, todo, new, toRead, snap, hi, mk, issued, ops>>

UnlockTask(p) ==
    /\ pc[p] = "unlockTask"
    /\ taskLock' = [taskLock EXCEPT ![cur[p].task] = NoProc]
    /\ Goto(p, "next")
    /\ UNCHANGED <<disk, listLock, op, cur, todo, new, toRead, snap, hi, mk, issued, ops>>

-----------------------------------------------------------------------------
(* Under the list's lock *)

LockList(p) ==
    /\ pc[p] = "lockList" /\ listLock = NoProc
    /\ listLock' = p
    /\ Goto(p, IF Is(p, "claimBusy") THEN "listDir"
               ELSE IF Is(p, "create") THEN "scan" ELSE "scanDir")
    /\ UNCHANGED <<disk, taskLock, op, cur, todo, new, toRead, snap, hi, mk, issued, ops>>

UnlockList(p) ==
    /\ pc[p] = "unlockList"
    /\ listLock' = NoProc
    /\ Goto(p, "idle")
    /\ UNCHANGED <<disk, taskLock, op, cur, todo, new, toRead, snap, hi, mk, issued, ops>>

\* findHighestTaskIdFromFiles(); createTask() reads directory and mark at
\* once ("scan"), resetTaskList() reads the mark only if there are tasks
ScanDir(p) ==
    /\ pc[p] \in {"scan", "scanDir"}
    /\ \E h \in 0..MaxId :
        /\ IsHighest(h, exists)
        /\ hi' = [hi EXCEPT ![p] = h]
        /\ Goto(p, IF Is(p, "create") /\ pc[p] = "scanDir" THEN "made"
                   ELSE IF Resetting(p) /\ h = 0 THEN "listDir" ELSE "scanMark")
    /\ UNCHANGED <<disk, locks, op, cur, todo, new, toRead, snap, mk, issued, ops>>

\* readHighWaterMark() of createTask(), resetTaskList() and deleteTask()
ScanMark(p) ==
    /\ pc[p] \in {"scan", "scanMark"}
    /\ mk' = [mk EXCEPT ![p] = mark]
    /\ Goto(p, IF pc[p] = "scan" THEN "scanDir"
               ELSE IF Is(p, "create") THEN "made"
               ELSE IF hi[p] > mark THEN "mark"
               ELSE IF Is(p, "delete") THEN "unlink" ELSE "listDir")
    /\ UNCHANGED <<disk, locks, op, cur, todo, new, toRead, snap, hi, issued, ops>>

\* createTask() picks the id
Made(p) ==
    /\ pc[p] = "made" /\ NewId(p) \in Ids
    /\ cur' = [cur EXCEPT ![p] = Update(NewId(p), Owned(p))]
    /\ new' = [new EXCEPT ![p] = NewTask]
    /\ Goto(p, "write")
    /\ UNCHANGED <<disk, locks, op, todo, toRead, snap, hi, mk, issued, ops>>

\* writeHighWaterMark(), which truncates first: the mark then reads as 0
TruncateMark(p) ==
    /\ pc[p] = "mark"
    /\ mark' = 0
    /\ Goto(p, "fillMark")
    /\ UNCHANGED <<exists, writer, task, locks, op, cur, todo, new, toRead, snap, hi, mk, issued, ops>>

FillMark(p) ==
    /\ pc[p] = "fillMark"
    /\ mark' = hi[p]
    /\ Goto(p, IF Is(p, "delete") THEN "unlink" ELSE "listDir")
    /\ UNCHANGED <<exists, writer, task, locks, op, cur, todo, new, toRead, snap, hi, mk, issued, ops>>

Remove(t) == /\ exists' = exists \ {t}
             /\ writer' = [writer EXCEPT ![t] = NoProc]

\* resetTaskList() unlinks the files it has listed
Clear(p) ==
    /\ pc[p] = "clear"
    /\ IF toRead[p] = {}
       THEN Goto(p, "unlockList") /\ UNCHANGED <<exists, writer, toRead>>
       ELSE /\ UNCHANGED pc
            /\ \E t \in toRead[p] :
                /\ Remove(t)
                /\ toRead' = [toRead EXCEPT ![p] = @ \ {t}]
    /\ UNCHANGED <<task, mark, locks, op, cur, todo, new, snap, hi, mk, issued, ops>>

\* deleteTask() unlinks the file, or returns false when it is gone
Unlink(p) ==
    /\ pc[p] = "unlink"
    /\ Remove(op[p].task)
    /\ Goto(p, IF op[p].task \in exists THEN "listDir" ELSE "idle")
    /\ UNCHANGED <<task, mark, locks, op, cur, todo, new, toRead, snap, hi, mk, issued, ops>>

-----------------------------------------------------------------------------
(* A process dies; the others take over its locks once they are stale *)

Crash(p) ==
    /\ p \in Mortal /\ pc[p] \notin {"idle", "crashed"}
    /\ Goto(p, "crashed")
    /\ UNCHANGED <<disk, locks, op, cur, todo, new, toRead, snap, hi, mk, issued, ops>>

GoStale(p) ==
    /\ pc[p] = "crashed"
    /\ listLock = p \/ \E t \in Ids : taskLock[t] = p
    /\ listLock' = IF listLock = p THEN NoProc ELSE listLock
    /\ taskLock' = [t \in Ids |-> IF taskLock[t] = p THEN NoProc ELSE taskLock[t]]
    /\ UNCHANGED <<disk, pc, op, cur, todo, new, toRead, snap, hi, mk, issued, ops>>

Step(p) ==
    \/ ListDir(p) \/ ListRead(p) \/ HideChecked(p) \/ WorkFound(p)
    \/ ClaimChecked(p) \/ BusyChecked(p) \/ UpdateLooked(p) \/ BlockLooked(p)
    \/ UnassignListed(p) \/ DeleteLooked(p) \/ DeleteCascade(p)
    \/ NextUpdate(p) \/ Check(p) \/ LockTask(p) \/ ClaimRead(p) \/ Read(p)
    \/ Truncate(p) \/ Fill(p) \/ UnlockTask(p)
    \/ LockList(p) \/ UnlockList(p) \/ ScanDir(p) \/ ScanMark(p) \/ Made(p)
    \/ TruncateMark(p) \/ FillMark(p) \/ Clear(p) \/ Unlink(p)

Next == \E p \in Procs : Start(p) \/ Step(p) \/ LockThrows(p) \/ Crash(p) \/ GoStale(p)

Spec == Init /\ [][Next]_vars

\* The operating system and the event loop run every operation that can go on,
\* and a dead process's locks do become stale
FairSpec == Spec /\ \A p \in Procs : WF_vars(Step(p)) /\ WF_vars(GoStale(p))

-----------------------------------------------------------------------------
(* Properties *)

PCs == {"idle", "listDir", "listing", "next", "check", "lockTask", "claim", "read",
        "write", "fill", "unlockTask", "lockList", "unlockList", "scan", "scanDir",
        "scanMark", "made", "mark", "fillMark", "clear", "unlink", "crashed"}

\* Every variable holds a value of its kind.
TypeOK ==
    /\ exists \subseteq Ids
    /\ writer \in [Ids -> Procs \cup {NoProc}]
    /\ task \in [Ids -> Tasks]
    /\ mark \in 0..MaxId
    /\ listLock \in Procs \cup {NoProc}
    /\ taskLock \in [Ids -> Procs \cup {NoProc}]
    /\ pc \in [Procs -> PCs]
    /\ \A p \in Procs :
        /\ op[p].kind \in AllKinds
        /\ {op[p].task, op[p].other, cur[p].task} \subseteq 0..MaxId
        /\ new[p] \in Tasks
        /\ toRead[p] \subseteq Ids
        /\ \A r \in snap[p] : r.id \in Ids /\ r.task \in Tasks
        /\ \A u \in todo[p] : u.task \in Ids
        /\ {hi[p], mk[p]} \subseteq 0..MaxId
    /\ issued \subseteq Ids
    /\ ops \in 0..MaxOps

\* Where an operation holds the lock of task cur[p].task, and the list's lock
HoldsTask(p) ==
    \/ pc[p] \in {"claim", "read", "unlockTask"}
    \/ pc[p] \in {"write", "fill"} /\ ~Is(p, "create")
    \/ pc[p] \in {"listDir", "listing"} /\ Claiming(p) /\ op[p].task # 0
HoldsList(p) ==
    \/ pc[p] \in {"scan", "scanDir", "made", "clear", "unlockList"}
    \/ pc[p] \in {"scanMark", "mark", "fillMark"} /\ ~Is(p, "delete")
    \/ pc[p] \in {"write", "fill"} /\ Is(p, "create")

\* Who is inside a critical section holds its lock, so no two operations are
\* in sections of the same lock; and whatever way an operation ends (a result,
\* an early return, a throw), it keeps no lock (the finally blocks).
LockDiscipline ==
    \A p \in Procs :
        /\ HoldsTask(p) => taskLock[cur[p].task] = p
        /\ HoldsList(p) => listLock = p
        /\ pc[p] = "idle" => listLock # p /\ \A t \in Ids : taskLock[t] # p

\* updateTaskUnsafe() writes the whole task back, yet it undoes no other
\* agent's update: what it is about to write is the file as it still is, with
\* just the fields of this update changed.
NoLostUpdate ==
    \A p \in Procs :
        LET t == cur[p].task
        IN  HoldsTask(p) /\ pc[p] \in {"write", "fill"} /\ t \in exists
              => new[p] = Apply(task[t], cur[p].set)

\* Two teammates that pick the same task from their listings do not both get
\* it: a claim is only ever written over a task that is still without another
\* owner and still unresolved.
ClaimExclusive ==
    \A p \in Procs :
        LET t == cur[p].task
        IN  pc[p] = "write" /\ Claiming(p) /\ t \in exists
              => task[t].owner \in {NoProc, p} /\ task[t].status # "completed"

\* createTask() gives no id that was given before: not after a reset removed
\* the files, nor while one does.  It holds as long as no single task is
\* deleted; deleteTask() writes the mark and unlinks without the list's lock,
\* between the two reads of a creation.
IdsFresh == \A p \in Procs : pc[p] = "made" => NewId(p) \notin issued

\* Once the operations are over, "blocks" and "blockedBy" mirror each other
\* and name only tasks that exist.
ReferencesAgree ==
    (\A p \in Procs : pc[p] = "idle") =>
        \A t \in exists :
            /\ task[t].blocks \cup task[t].blockedBy \subseteq exists
            /\ \A u \in exists : u \in task[t].blocks <=> t \in task[u].blockedBy

\* Every operation ends, and so do waits for a lock: the two levels of locks
\* do not deadlock and a crashed holder does not keep the others out.
OperationsEnd == \A p \in Procs : pc[p] # "idle" ~> pc[p] \in {"idle", "crashed"}
=============================================================================
