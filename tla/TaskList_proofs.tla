--------------------------- MODULE TaskList_proofs ---------------------------
(***************************************************************************)
(* What holds of TaskList for any number of agents, tasks and operations,  *)
(* crashes included.  In order: the types the rest needs; who holds which  *)
(* lock where (LockSafety); what is known of ids, files and the high water *)
(* mark (FreshIds); what is about to be written (UpdatesKept, OneClaim);   *)
(* the remaining types (TypeCorrect); the references of one agent that is  *)
(* alone (ReferencesKept).  FreshIds assumes that no single task is        *)
(* deleted, UpdatesKept that not both deletions and creations happen:      *)
(* deleteTask() moves the mark and unlinks without the list's lock, and    *)
(* TLC shows an id given twice, and then an update lost, once it may run   *)
(* beside a creation.                                                      *)
(***************************************************************************)
EXTENDS TaskList, TLAPS

Operations == [kind : AllKinds, task : 0..MaxId, other : 0..MaxId,
               whom : Procs \cup {NoProc}]

\* The types the lock argument needs
TypeInv ==
    /\ exists \subseteq Ids
    /\ writer \in [Ids -> Procs \cup {NoProc}]
    /\ mark \in 0..MaxId
    /\ listLock \in Procs \cup {NoProc}
    /\ taskLock \in [Ids -> Procs \cup {NoProc}]
    /\ pc \in [Procs -> PCs]
    /\ op \in [Procs -> Operations]
    /\ DOMAIN cur = Procs /\ DOMAIN todo = Procs /\ DOMAIN snap = Procs
    /\ DOMAIN new = Procs /\ DOMAIN task = Ids
    /\ toRead \in [Procs -> SUBSET Ids]
    /\ hi \in [Procs -> 0..MaxId] /\ mk \in [Procs -> 0..MaxId]
    /\ \A p \in Procs : \A r \in snap[p] : r.id \in Ids
    /\ \A p \in Procs : \A u \in todo[p] : u.task \in Ids

\* Where cur[p] is an update in progress, and where a creation may stand
Updating == {"check", "lockTask", "claim", "read", "write", "fill", "unlockTask"}
Creating == {"idle", "lockList", "scan", "scanDir", "scanMark", "made", "write", "fill",
             "unlockList", "crashed"}

\* The kinds of operations that lock the list
Locking == {"create", "reset", "hide", "claimBusy"}

\* An operation that gets to its locks knows its task; two steps belong to one
\* kind of operation only
Knows(p) ==
    /\ pc[p] \in Updating => cur[p].task \in Ids
    /\ Is(p, "work") /\ pc[p] \in Updating \cup {"listing", "listDir", "next"}
         => op[p].task = 0 \/ cur[p].task \in Ids
    /\ pc[p] = "claim" => Claiming(p)
    /\ Is(p, "work") /\ pc[p] \in Updating \cup {"next"} => op[p].task # 0
    /\ Is(p, "create") => pc[p] \in Creating
    /\ pc[p] = "unlink" => Is(p, "delete")
    /\ pc[p] = "lockList" => op[p].kind \in Locking
    /\ Is(p, "claimBusy") => cur[p].task \in Ids

CurInv == \A p \in Procs : Knows(p)

LEMMA RequestsType == Requests \subseteq Operations
BY BoundAssumption DEF Requests, Request, Operations, AllKinds, Ids

LEMMA TypeInit == Init => TypeInv
BY ProcsAssumption, BoundAssumption
   DEF Init, TypeInv, Request, Operations, AllKinds, PCs, Ids

LEMMA TypeNext == TypeInv /\ CurInv /\ [Next]_vars => TypeInv'
<1> SUFFICES ASSUME TypeInv, CurInv, [Next]_vars PROVE TypeInv'
  OBVIOUS
<1> USE ProcsAssumption, BoundAssumption
    DEF TypeInv, Goto, Return, Ended, disk, locks
<1>0. CASE UNCHANGED vars
  BY <1>0 DEF vars
<1>1. ASSUME NEW p \in Procs, Start(p) PROVE TypeInv'
  <2>1. PICK r \in Requests : 
          /\ op' = [op EXCEPT ![p] = r]
          /\ pc' = [pc EXCEPT ![p] = FirstStep(r.kind)]
          /\ cur' = [cur EXCEPT ![p] = Update(r.task, Owned(p))]
          /\ toRead' = [toRead EXCEPT ![p] = {r.task, r.other} \ {0}]
    BY <1>1 DEF Start
  <2>2. r \in Operations
    BY RequestsType
  <2>3. FirstStep(r.kind) \in PCs
    BY <2>2 DEF Operations, AllKinds, FirstStep, PCs
  <2>4. {r.task, r.other} \ {0} \subseteq Ids
    BY <2>2 DEF Operations, Ids
  <2> QED
    BY <1>1, <2>1, <2>2, <2>3, <2>4 DEF Start, Ids
<1>2. ASSUME NEW p \in Procs, ListDir(p) PROVE TypeInv'
  BY <1>2 DEF ListDir, PCs
<1>3. ASSUME NEW p \in Procs, ListRead(p) PROVE TypeInv'
  BY <1>3 DEF ListRead, Ids
<1>4. ASSUME NEW p \in Procs, HideChecked(p) PROVE TypeInv'
  BY <1>4 DEF HideChecked, PCs
<1>5. ASSUME NEW p \in Procs, WorkFound(p) PROVE TypeInv'
  <2>1. CASE Available(snap[p]) = {}
    BY <1>5, <2>1 DEF WorkFound, PCs
  <2>2. CASE Available(snap[p]) # {}
    <3>1. PICK r \in Available(snap[p]) :
            /\ op' = [op EXCEPT ![p].task = r.id]
            /\ cur' = [cur EXCEPT ![p] = Update(r.id, Owned(p))]
            /\ pc' = [pc EXCEPT ![p] = "check"]
      BY <1>5, <2>2 DEF WorkFound
    <3>2. r.id \in 0..MaxId
      BY <3>1 DEF Available, Ids
    <3>3. op' \in [Procs -> Operations]
      <4>1. op[p] \in Operations
        OBVIOUS
      <4>2. [op[p] EXCEPT !.task = r.id] \in Operations
        BY <4>1, <3>2 DEF Operations
      <4>3. op' = [op EXCEPT ![p] = [op[p] EXCEPT !.task = r.id]]
        BY <3>1
      <4> QED
        BY <4>2, <4>3
    <3> QED
      BY <1>5, <3>1, <3>3 DEF WorkFound, PCs
  <2> QED
    BY <2>1, <2>2
<1>6. ASSUME NEW p \in Procs, ClaimChecked(p) PROVE TypeInv'
  <2>1. op[p].task \in Ids
    BY <1>6 DEF ClaimChecked, Operations, Ids
  <2>2. \A q \in Procs : \A u \in todo'[q] : u.task \in Ids
    BY <1>6, <2>1 DEF ClaimChecked, Update
  <2>3. pc' \in [Procs -> PCs] /\ DOMAIN todo' = Procs
    BY <1>6 DEF ClaimChecked, PCs
  <2> QED
    BY <1>6, <2>2, <2>3 DEF ClaimChecked
<1>7. ASSUME NEW p \in Procs, BusyChecked(p) PROVE TypeInv'
  BY <1>7 DEF BusyChecked, PCs
<1>8. ASSUME NEW p \in Procs, UpdateLooked(p) PROVE TypeInv'
  BY <1>8 DEF UpdateLooked, PCs, Update
<1>9. ASSUME NEW p \in Procs, BlockLooked(p) PROVE TypeInv'
  BY <1>9 DEF BlockLooked, PCs, Update
<1>10. ASSUME NEW p \in Procs, UnassignListed(p) PROVE TypeInv'
  BY <1>10 DEF UnassignListed, PCs, Update
<1>11. ASSUME NEW p \in Procs, DeleteLooked(p) PROVE TypeInv'
  BY <1>11 DEF DeleteLooked, PCs, Operations
<1>12. ASSUME NEW p \in Procs, DeleteCascade(p) PROVE TypeInv'
  BY <1>12 DEF DeleteCascade, PCs, Update
<1>13. ASSUME NEW p \in Procs, NextUpdate(p) PROVE TypeInv'
  BY <1>13 DEF NextUpdate, PCs
<1>14. ASSUME NEW p \in Procs, Check(p) PROVE TypeInv'
  BY <1>14 DEF Check, PCs
<1>15. ASSUME NEW p \in Procs, LockTask(p) PROVE TypeInv'
  BY <1>15 DEF LockTask, PCs
<1>16. ASSUME NEW p \in Procs, LockThrows(p) PROVE TypeInv'
  BY <1>16 DEF LockThrows, PCs
<1>17. ASSUME NEW p \in Procs, ClaimRead(p) PROVE TypeInv'
  BY <1>17 DEF ClaimRead, PCs
<1>18. ASSUME NEW p \in Procs, Read(p) PROVE TypeInv'
  BY <1>18 DEF Read, PCs
<1>19. ASSUME NEW p \in Procs, Truncate(p) PROVE TypeInv'
  BY <1>19 DEF Truncate, PCs, CurInv, Knows, Updating
<1>20. ASSUME NEW p \in Procs, Fill(p) PROVE TypeInv'
  BY <1>20 DEF Fill, PCs
<1>21. ASSUME NEW p \in Procs, UnlockTask(p) PROVE TypeInv'
  BY <1>21 DEF UnlockTask, PCs
<1>22. ASSUME NEW p \in Procs, LockList(p) PROVE TypeInv'
  BY <1>22 DEF LockList, PCs
<1>23. ASSUME NEW p \in Procs, UnlockList(p) PROVE TypeInv'
  BY <1>23 DEF UnlockList, PCs
<1>24. ASSUME NEW p \in Procs, ScanDir(p) PROVE TypeInv'
  BY <1>24 DEF ScanDir, PCs
<1>25. ASSUME NEW p \in Procs, ScanMark(p) PROVE TypeInv'
  BY <1>25 DEF ScanMark, PCs
<1>26. ASSUME NEW p \in Procs, Made(p) PROVE TypeInv'
  BY <1>26 DEF Made, PCs
<1>27. ASSUME NEW p \in Procs, TruncateMark(p) PROVE TypeInv'
  BY <1>27 DEF TruncateMark, PCs
<1>28. ASSUME NEW p \in Procs, FillMark(p) PROVE TypeInv'
  BY <1>28 DEF FillMark, PCs
<1>29. ASSUME NEW p \in Procs, Clear(p) PROVE TypeInv'
  BY <1>29 DEF Clear, Remove, PCs
<1>30. ASSUME NEW p \in Procs, Unlink(p) PROVE TypeInv'
  BY <1>30 DEF Unlink, Remove, PCs
<1>31. ASSUME NEW p \in Procs, Crash(p) PROVE TypeInv'
  BY <1>31 DEF Crash, PCs
<1>32. ASSUME NEW p \in Procs, GoStale(p) PROVE TypeInv'
  BY <1>32 DEF GoStale
<1> QED
  BY <1>0, <1>1, <1>2, <1>3, <1>4, <1>5, <1>6, <1>7, <1>8, <1>9, <1>10, <1>11, <1>12,
     <1>13, <1>14, <1>15, <1>16, <1>17, <1>18, <1>19, <1>20, <1>21, <1>22, <1>23, <1>24,
     <1>25, <1>26, <1>27, <1>28, <1>29, <1>30, <1>31, <1>32 DEF Next, Step

-----------------------------------------------------------------------------
(* What the steps of an agent have in common *)

\* The other agents' operations are left alone.
Others(p) == \A q \in Procs \ {p} :
                pc'[q] = pc[q] /\ op'[q] = op[q] /\ cur'[q] = cur[q]

ListOwner(p) ==
    \/ pc[p] = "crashed"
    \/ /\ Is(p, "create")
       /\ pc[p] \in {"scan", "scanDir", "scanMark", "made", "write", "fill", "unlockList"}
    \/ /\ op[p].kind \in {"reset", "hide"}
       /\ pc[p] \in {"scanDir", "scanMark", "mark", "fillMark", "listDir", "clear", "unlockList"}
    \/ /\ Is(p, "claimBusy")
       /\ pc[p] \in {"listDir", "listing", "next", "check", "lockTask", "read", "write",
                    "fill", "unlockTask", "unlockList"}

\* The locks that agent p holds are those of where it stands
Agent(p) ==
    /\ HoldsTask(p) => taskLock[cur[p].task] = p
    /\ HoldsList(p) => listLock = p
    /\ \A t \in Ids : taskLock[t] = p =>
          pc[p] = "crashed" \/ (HoldsTask(p) /\ cur[p].task = t)
    /\ listLock = p => ListOwner(p)

LockInv == \A p \in Procs : Agent(p)

LEMMA OthersSteps ==
    ASSUME NEW p \in Procs, TypeInv,
           Start(p) \/ Step(p) \/ LockThrows(p) \/ Crash(p) \/ GoStale(p)
    PROVE  Others(p)
<1> USE DEF TypeInv, Others, Goto, Return
<1>1. CASE Start(p)
  BY <1>1 DEF Start
<1>2. CASE ListDir(p)
  BY <1>2 DEF ListDir
<1>3. CASE ListRead(p)
  BY <1>3 DEF ListRead
<1>4. CASE HideChecked(p)
  BY <1>4 DEF HideChecked
<1>5. CASE WorkFound(p)
  BY <1>5 DEF WorkFound
<1>6. CASE ClaimChecked(p)
  BY <1>6 DEF ClaimChecked
<1>7. CASE BusyChecked(p)
  BY <1>7 DEF BusyChecked
<1>8. CASE UpdateLooked(p)
  BY <1>8 DEF UpdateLooked
<1>9. CASE BlockLooked(p)
  BY <1>9 DEF BlockLooked
<1>10. CASE UnassignListed(p)
  BY <1>10 DEF UnassignListed
<1>11. CASE DeleteLooked(p)
  BY <1>11 DEF DeleteLooked
<1>12. CASE DeleteCascade(p)
  BY <1>12 DEF DeleteCascade
<1>13. CASE NextUpdate(p)
  BY <1>13 DEF NextUpdate
<1>14. CASE Check(p)
  BY <1>14 DEF Check
<1>15. CASE LockTask(p)
  BY <1>15 DEF LockTask
<1>16. CASE LockThrows(p)
  BY <1>16 DEF LockThrows
<1>17. CASE ClaimRead(p)
  BY <1>17 DEF ClaimRead
<1>18. CASE Read(p)
  BY <1>18 DEF Read
<1>19. CASE Truncate(p)
  BY <1>19 DEF Truncate
<1>20. CASE Fill(p)
  BY <1>20 DEF Fill
<1>21. CASE UnlockTask(p)
  BY <1>21 DEF UnlockTask
<1>22. CASE LockList(p)
  BY <1>22 DEF LockList
<1>23. CASE UnlockList(p)
  BY <1>23 DEF UnlockList
<1>24. CASE ScanDir(p)
  BY <1>24 DEF ScanDir
<1>25. CASE ScanMark(p)
  BY <1>25 DEF ScanMark
<1>26. CASE Made(p)
  BY <1>26 DEF Made
<1>27. CASE TruncateMark(p)
  BY <1>27 DEF TruncateMark
<1>28. CASE FillMark(p)
  BY <1>28 DEF FillMark
<1>29. CASE Clear(p)
  BY <1>29 DEF Clear
<1>30. CASE Unlink(p)
  BY <1>30 DEF Unlink
<1>31. CASE Crash(p)
  BY <1>31 DEF Crash
<1>32. CASE GoStale(p)
  BY <1>32 DEF GoStale
<1> QED
  BY <1>1, <1>2, <1>3, <1>4, <1>5, <1>6, <1>7, <1>8, <1>9, <1>10, <1>11, <1>12,
     <1>13, <1>14, <1>15, <1>16, <1>17, <1>18, <1>19, <1>20, <1>21, <1>22, <1>23,
     <1>24, <1>25, <1>26, <1>27, <1>28, <1>29, <1>30, <1>31, <1>32 DEF Step

LEMMA Quiet ==
    ASSUME NEW p \in Procs, LockInv, UNCHANGED locks, Others(p), Agent(p)'
    PROVE  LockInv'
<1> SUFFICES ASSUME NEW q \in Procs, q # p PROVE Agent(q)'
  BY DEF LockInv
<1> QED
  BY DEF LockInv, Agent, Others, locks, HoldsTask, HoldsList, ListOwner, Is, Claiming, Owned

LEMMA CurFrame ==
    ASSUME NEW p \in Procs, CurInv, Others(p), Knows(p)'
    PROVE  CurInv'
<1> SUFFICES ASSUME NEW q \in Procs, q # p PROVE Knows(q)'
  BY DEF CurInv
<1>1. Knows(q) /\ pc'[q] = pc[q] /\ op'[q] = op[q] /\ cur'[q] = cur[q]
  BY DEF CurInv, Others
<1>2. Claiming(q)' <=> Claiming(q)
  BY <1>1 DEF Claiming, Is, Owned
<1> QED
  BY <1>1, <1>2 DEF Knows, Is

LEMMA LockInit == Init => LockInv
BY ProcsAssumption DEF Init, LockInv, Agent, HoldsTask, HoldsList

-----------------------------------------------------------------------------
(* The steps that neither take nor give back a lock *)

QuietStep(p) ==
    \/ ListDir(p) \/ ListRead(p) \/ HideChecked(p) \/ ClaimChecked(p)
    \/ BusyChecked(p) \/ UpdateLooked(p) \/ BlockLooked(p)
    \/ UnassignListed(p) \/ DeleteLooked(p) \/ DeleteCascade(p)
    \/ NextUpdate(p) \/ Check(p) \/ LockThrows(p) \/ ClaimRead(p) \/ Read(p)
    \/ Truncate(p) \/ Fill(p) \/ ScanDir(p) \/ ScanMark(p) \/ Made(p)
    \/ TruncateMark(p) \/ FillMark(p) \/ Clear(p) \/ Unlink(p) \/ Crash(p)

LEMMA QuietUnlocked == ASSUME NEW p \in Procs, QuietStep(p) PROVE UNCHANGED locks
BY DEF QuietStep, ListDir, ListRead, HideChecked, ClaimChecked, BusyChecked,
       UpdateLooked, BlockLooked, UnassignListed, DeleteLooked, DeleteCascade,
       NextUpdate, Check, LockThrows, ClaimRead, Read, Truncate, Fill, ScanDir,
       ScanMark, Made, TruncateMark, FillMark, Clear, Unlink, Crash

LEMMA QuietSteps ==
    ASSUME NEW p \in Procs, TypeInv, CurInv, LockInv, UNCHANGED locks, QuietStep(p)
    PROVE  LockInv' /\ CurInv'
<1> USE DEF TypeInv, Goto, Return
<1>0. Others(p) /\ Agent(p) /\ Knows(p)
  BY OthersSteps DEF LockInv, CurInv, QuietStep, Step
<1>w. Claiming(p) => Is(p, "work")
  BY DEF Claiming
<1> SUFFICES Agent(p)' /\ Knows(p)'
  BY <1>0, Quiet, CurFrame
<1>1. CASE ListDir(p)
  <2>1. op'[p] = op[p] /\ cur'[p] = cur[p]
    BY <1>1 DEF ListDir
  <2>2. pc[p] = "listDir" /\ pc'[p] = IF Resetting(p) THEN "clear" ELSE "listing"
    BY <1>1 DEF ListDir
  <2>3. Claiming(p)' <=> Claiming(p)
    BY <2>1 DEF Claiming, Is, Owned
  <2>8. Agent(p)'
    BY <1>0, <1>w, <2>1, <2>2, <2>3
    DEF Agent, HoldsTask, HoldsList, ListOwner, Is, locks, Resetting
  <2>9. Knows(p)'
    BY <1>0, <1>w, <2>1, <2>2, <2>3
    DEF Knows, Updating, Creating, Locking, Is
  <2> QED
    BY <2>8, <2>9
<1>2. CASE ListRead(p)
  <2>1. op'[p] = op[p] /\ cur'[p] = cur[p]
    BY <1>2 DEF ListRead
  <2>2. pc[p] = "listing" /\ pc'[p] = "listing"
    BY <1>2 DEF ListRead
  <2>3. Claiming(p)' <=> Claiming(p)
    BY <2>1 DEF Claiming, Is, Owned
  <2>8. Agent(p)'
    BY <1>0, <1>w, <2>1, <2>2, <2>3
    DEF Agent, HoldsTask, HoldsList, ListOwner, Is, locks
  <2>9. Knows(p)'
    BY <1>0, <1>w, <2>1, <2>2, <2>3
    DEF Knows, Updating, Creating, Locking, Is
  <2> QED
    BY <2>8, <2>9
<1>3. CASE HideChecked(p)
  <2>1. op'[p] = op[p] /\ cur'[p] = cur[p]
    BY <1>3 DEF HideChecked, Listed
  <2>2. pc[p] = "listing" /\ Is(p, "hide") /\ pc'[p] \in {"lockList", "idle"}
    BY <1>3 DEF HideChecked, Listed
  <2>3. Claiming(p)' <=> Claiming(p)
    BY <2>1 DEF Claiming, Is, Owned
  <2>8. Agent(p)'
    BY <1>0, <1>w, <2>1, <2>2, <2>3
    DEF Agent, HoldsTask, HoldsList, ListOwner, Is, locks
  <2>9. Knows(p)'
    BY <1>0, <1>w, <2>1, <2>2, <2>3
    DEF Knows, Updating, Creating, Locking, Is
  <2> QED
    BY <2>8, <2>9
<1>4. CASE ClaimChecked(p)
  <2>1. op'[p] = op[p] /\ cur'[p] = cur[p]
    BY <1>4 DEF ClaimChecked, Listed
  <2>2. pc[p] = "listing" /\ Claiming(p) /\ op[p].task # 0 /\ pc'[p] \in {"unlockTask", "read"}
    BY <1>4 DEF ClaimChecked, Listed
  <2>3. Claiming(p)' <=> Claiming(p)
    BY <2>1 DEF Claiming, Is, Owned
  <2>8. Agent(p)'
    BY <1>0, <1>w, <2>1, <2>2, <2>3
    DEF Agent, HoldsTask, HoldsList, ListOwner, Is, locks
  <2>9. Knows(p)'
    BY <1>0, <1>w, <2>1, <2>2, <2>3
    DEF Knows, Updating, Creating, Locking, Is
  <2> QED
    BY <2>8, <2>9
<1>5. CASE BusyChecked(p)
  <2>1. op'[p] = op[p] /\ cur'[p] = cur[p]
    BY <1>5 DEF BusyChecked, Listed
  <2>2. pc[p] = "listing" /\ Is(p, "claimBusy") /\ pc'[p] \in {Ended(p), "check"}
    BY <1>5 DEF BusyChecked, Listed
  <2>3. Claiming(p)' <=> Claiming(p)
    BY <2>1 DEF Claiming, Is, Owned
  <2>8. Agent(p)'
    BY <1>0, <1>w, <2>1, <2>2, <2>3
    DEF Agent, HoldsTask, HoldsList, ListOwner, Is, locks, Ended
  <2>9. Knows(p)'
    BY <1>0, <1>w, <2>1, <2>2, <2>3
    DEF Knows, Updating, Creating, Locking, Is, Ended
  <2> QED
    BY <2>8, <2>9
<1>6. CASE UpdateLooked(p)
  <2>1. op'[p] = op[p] /\ cur'[p] = cur[p]
    BY <1>6 DEF UpdateLooked, Listed
  <2>2. pc[p] = "listing" /\ Is(p, "update") /\ pc'[p] \in {Ended(p), "next"}
    BY <1>6 DEF UpdateLooked, Listed
  <2>3. Claiming(p)' <=> Claiming(p)
    BY <2>1 DEF Claiming, Is, Owned
  <2>8. Agent(p)'
    BY <1>0, <1>w, <2>1, <2>2, <2>3
    DEF Agent, HoldsTask, HoldsList, ListOwner, Is, locks, Ended
  <2>9. Knows(p)'
    BY <1>0, <1>w, <2>1, <2>2, <2>3
    DEF Knows, Updating, Creating, Locking, Is, Ended
  <2> QED
    BY <2>8, <2>9
<1>7. CASE BlockLooked(p)
  <2>1. op'[p] = op[p]
    BY <1>7 DEF BlockLooked, Listed
  <2>2. pc[p] = "listing" /\ Is(p, "block") /\ pc'[p] \in {Ended(p), "next", "check"}
    <3>1. CASE Cardinality(snap[p]) < 2
      BY <1>7, <3>1 DEF BlockLooked, Listed
    <3>2. CASE ~(Cardinality(snap[p]) < 2)
      <4>1. \/ pc' = [pc EXCEPT ![p] = "next"]
            \/ pc' = [pc EXCEPT ![p] = "check"]
        BY <1>7, <3>2 DEF BlockLooked
      <4> QED
        BY <1>7, <4>1 DEF BlockLooked, Listed
    <3> QED
      BY <3>1, <3>2
  <2>3. pc'[p] = "check" => cur'[p].task \in Ids
    <3>1. CASE Cardinality(snap[p]) < 2
      BY <1>7, <3>1 DEF BlockLooked, Listed, Ended
    <3>2. CASE ~(Cardinality(snap[p]) < 2)
      <4>1. PICK ra \in snap[p], rb \in snap[p] :
              /\ ra.id = op[p].task
              /\ IF op[p].other \in ra.task.blocks
                 THEN pc' = [pc EXCEPT ![p] = "next"] /\ UNCHANGED cur
                 ELSE /\ cur' = [cur EXCEPT ![p] = Update(op[p].task,
                                    [blocks |-> ra.task.blocks \cup {op[p].other}])]
                      /\ pc' = [pc EXCEPT ![p] = "check"]
        BY <1>7, <3>2 DEF BlockLooked
      <4> QED
        BY <4>1 DEF Update
    <3> QED
      BY <3>1, <3>2
  <2>8. Agent(p)'
    BY <1>0, <1>w, <2>1, <2>2
    DEF Agent, HoldsTask, HoldsList, ListOwner, Is, locks, Ended
  <2>9. Knows(p)'
    BY <1>0, <1>w, <2>1, <2>2, <2>3
    DEF Knows, Updating, Creating, Locking, Is, Ended
  <2> QED
    BY <2>8, <2>9
<1>8. CASE UnassignListed(p)
  <2>1. op'[p] = op[p] /\ cur'[p] = cur[p]
    BY <1>8 DEF UnassignListed, Listed
  <2>2. pc[p] = "listing" /\ Is(p, "unassign") /\ pc'[p] = "next"
    BY <1>8 DEF UnassignListed, Listed
  <2>3. Claiming(p)' <=> Claiming(p)
    BY <2>1 DEF Claiming, Is, Owned
  <2>8. Agent(p)'
    BY <1>0, <1>w, <2>1, <2>2, <2>3
    DEF Agent, HoldsTask, HoldsList, ListOwner, Is, locks
  <2>9. Knows(p)'
    BY <1>0, <1>w, <2>1, <2>2, <2>3
    DEF Knows, Updating, Creating, Locking, Is
  <2> QED
    BY <2>8, <2>9
<1>9. CASE DeleteLooked(p)
  <2>1. op'[p] = op[p] /\ cur'[p] = cur[p]
    BY <1>9 DEF DeleteLooked, Listed
  <2>2. pc[p] = "listing" /\ Is(p, "delete") /\ pc'[p] \in {"idle", "scanMark"}
    BY <1>9 DEF DeleteLooked, Listed
  <2>3. Claiming(p)' <=> Claiming(p)
    BY <2>1 DEF Claiming, Is, Owned
  <2>8. Agent(p)'
    BY <1>0, <1>w, <2>1, <2>2, <2>3
    DEF Agent, HoldsTask, HoldsList, ListOwner, Is, locks
  <2>9. Knows(p)'
    BY <1>0, <1>w, <2>1, <2>2, <2>3
    DEF Knows, Updating, Creating, Locking, Is
  <2> QED
    BY <2>8, <2>9
<1>10. CASE DeleteCascade(p)
  <2>1. op'[p] = op[p] /\ cur'[p] = cur[p]
    BY <1>10 DEF DeleteCascade, Listed
  <2>2. pc[p] = "listing" /\ Is(p, "delete") /\ pc'[p] = "next"
    BY <1>10 DEF DeleteCascade, Listed
  <2>3. Claiming(p)' <=> Claiming(p)
    BY <2>1 DEF Claiming, Is, Owned
  <2>8. Agent(p)'
    BY <1>0, <1>w, <2>1, <2>2, <2>3
    DEF Agent, HoldsTask, HoldsList, ListOwner, Is, locks
  <2>9. Knows(p)'
    BY <1>0, <1>w, <2>1, <2>2, <2>3
    DEF Knows, Updating, Creating, Locking, Is
  <2> QED
    BY <2>8, <2>9
<1>11. CASE NextUpdate(p)
  <2>1. op'[p] = op[p]
    BY <1>11 DEF NextUpdate
  <2>2. pc[p] = "next" /\ pc'[p] \in {Ended(p), "check"}
    BY <1>11 DEF NextUpdate
  <2>3. IF pc'[p] = "check" THEN cur'[p].task \in Ids ELSE cur'[p] = cur[p]
    BY <1>11 DEF NextUpdate, Ended
  <2>8. Agent(p)'
    BY <1>0, <1>w, <2>1, <2>2
    DEF Agent, HoldsTask, HoldsList, ListOwner, Is, locks, Ended, Knows, Updating, Creating
  <2>9. Knows(p)'
    BY <1>0, <1>w, <2>1, <2>2, <2>3
    DEF Knows, Updating, Creating, Locking, Is, Ended
  <2> QED
    BY <2>8, <2>9
<1>12. CASE Check(p)
  <2>1. op'[p] = op[p] /\ cur'[p] = cur[p]
    BY <1>12 DEF Check
  <2>2. pc[p] = "check" /\ (pc'[p] \in {"next", "lockTask"} \/ (pc'[p] = "lockList" /\ listLock # p /\ Is(p, "claimBusy")))
    BY <1>12 DEF Check
  <2>3. Claiming(p)' <=> Claiming(p)
    BY <2>1 DEF Claiming, Is, Owned
  <2>8. Agent(p)'
    BY <1>0, <1>w, <2>1, <2>2, <2>3
    DEF Agent, HoldsTask, HoldsList, ListOwner, Is, locks, Knows, Updating, Creating
  <2>9. Knows(p)'
    BY <1>0, <1>w, <2>1, <2>2, <2>3
    DEF Knows, Updating, Creating, Locking, Is
  <2> QED
    BY <2>8, <2>9
<1>13. CASE LockThrows(p)
  <2>1. op'[p] = op[p] /\ cur'[p] = cur[p]
    BY <1>13 DEF LockThrows
  <2>2. pc[p] \in {"lockTask", "lockList"} /\ pc'[p] = Ended(p)
    BY <1>13 DEF LockThrows
  <2>3. Claiming(p)' <=> Claiming(p)
    BY <2>1 DEF Claiming, Is, Owned
  <2>8. Agent(p)'
    BY <1>0, <1>w, <2>1, <2>2, <2>3
    DEF Agent, HoldsTask, HoldsList, ListOwner, Is, locks, Ended
  <2>9. Knows(p)'
    BY <1>0, <1>w, <2>1, <2>2, <2>3
    DEF Knows, Updating, Creating, Locking, Is, Ended
  <2> QED
    BY <2>8, <2>9
<1>14. CASE ClaimRead(p)
  <2>1. op'[p] = op[p] /\ cur'[p] = cur[p]
    BY <1>14 DEF ClaimRead
  <2>2. pc[p] = "claim" /\ pc'[p] \in {"listDir", "unlockTask"}
    BY <1>14 DEF ClaimRead
  <2>3. Claiming(p)' <=> Claiming(p)
    BY <2>1 DEF Claiming, Is, Owned
  <2>8. Agent(p)'
    BY <1>0, <1>w, <2>1, <2>2, <2>3
    DEF Agent, HoldsTask, HoldsList, ListOwner, Is, locks, Knows, Updating, Creating
  <2>9. Knows(p)'
    BY <1>0, <1>w, <2>1, <2>2, <2>3
    DEF Knows, Updating, Creating, Locking, Is
  <2> QED
    BY <2>8, <2>9
<1>15. CASE Read(p)
  <2>1. op'[p] = op[p] /\ cur'[p] = cur[p]
    BY <1>15 DEF Read
  <2>2. pc[p] = "read" /\ pc'[p] \in {"write", "unlockTask"}
    BY <1>15 DEF Read
  <2>3. Claiming(p)' <=> Claiming(p)
    BY <2>1 DEF Claiming, Is, Owned
  <2>8. Agent(p)'
    BY <1>0, <1>w, <2>1, <2>2, <2>3
    DEF Agent, HoldsTask, HoldsList, ListOwner, Is, locks, Knows, Updating, Creating
  <2>9. Knows(p)'
    BY <1>0, <1>w, <2>1, <2>2, <2>3
    DEF Knows, Updating, Creating, Locking, Is
  <2> QED
    BY <2>8, <2>9
<1>16. CASE Truncate(p)
  <2>1. op'[p] = op[p] /\ cur'[p] = cur[p]
    BY <1>16 DEF Truncate
  <2>2. pc[p] = "write" /\ pc'[p] = "fill"
    BY <1>16 DEF Truncate
  <2>3. Claiming(p)' <=> Claiming(p)
    BY <2>1 DEF Claiming, Is, Owned
  <2>8. Agent(p)'
    BY <1>0, <1>w, <2>1, <2>2, <2>3
    DEF Agent, HoldsTask, HoldsList, ListOwner, Is, locks
  <2>9. Knows(p)'
    BY <1>0, <1>w, <2>1, <2>2, <2>3
    DEF Knows, Updating, Creating, Locking, Is
  <2> QED
    BY <2>8, <2>9
<1>17. CASE Fill(p)
  <2>1. op'[p] = op[p] /\ cur'[p] = cur[p]
    BY <1>17 DEF Fill
  <2>2. pc[p] = "fill" /\ pc'[p] = IF Is(p, "create") THEN "unlockList" ELSE "unlockTask"
    BY <1>17 DEF Fill
  <2>3. Claiming(p)' <=> Claiming(p)
    BY <2>1 DEF Claiming, Is, Owned
  <2>8. Agent(p)'
    BY <1>0, <1>w, <2>1, <2>2, <2>3
    DEF Agent, HoldsTask, HoldsList, ListOwner, Is, locks
  <2>9. Knows(p)'
    BY <1>0, <1>w, <2>1, <2>2, <2>3
    DEF Knows, Updating, Creating, Locking, Is
  <2> QED
    BY <2>8, <2>9
<1>18. CASE ScanDir(p)
  <2>1. op'[p] = op[p] /\ cur'[p] = cur[p]
    BY <1>18 DEF ScanDir
  <2>2. /\ pc[p] \in {"scan", "scanDir"} /\ pc'[p] \in {"made", "listDir", "scanMark"}
        /\ pc'[p] = "made" <=> Is(p, "create") /\ pc[p] = "scanDir"
        /\ pc'[p] = "listDir" => ~Is(p, "create")
    <3>1. pc[p] \in {"scan", "scanDir"} /\ pc'[p] \in {"made", "listDir", "scanMark"}
      BY <1>18 DEF ScanDir
    <3>2. pc'[p] = "made" <=> Is(p, "create") /\ pc[p] = "scanDir"
      BY <1>18 DEF ScanDir
    <3>3. pc'[p] = "listDir" => ~Is(p, "create")
      BY <1>18 DEF ScanDir, Is, Resetting
    <3> QED
      BY <3>1, <3>2, <3>3
  <2>3. Claiming(p)' <=> Claiming(p)
    BY <2>1 DEF Claiming, Is, Owned
  <2>8. Agent(p)'
    <3>1. listLock = p /\ ListOwner(p) /\ ~HoldsTask(p)
      BY <1>0, <2>2 DEF Agent, HoldsList, HoldsTask
    <3>2. CASE Is(p, "create")
      BY <1>0, <1>w, <2>1, <2>2, <2>3, <3>1, <3>2
      DEF Agent, HoldsTask, HoldsList, ListOwner, Is, locks
    <3>3. CASE ~Is(p, "create")
      <4>1. op[p].kind \in {"reset", "hide"} /\ pc'[p] \in {"listDir", "scanMark"}
        BY <2>2, <3>1, <3>3 DEF ListOwner, Is
      <4> QED
        BY <1>0, <1>w, <2>1, <2>2, <2>3, <3>1, <4>1
        DEF Agent, HoldsTask, HoldsList, ListOwner, Is, locks
    <3> QED
      BY <3>2, <3>3
  <2>7. ~Is(p, "work")
    BY <1>0, <2>2 DEF Agent, HoldsList, ListOwner, Is
  <2>9. Knows(p)'
    BY <2>7, <1>0, <1>w, <2>1, <2>2, <2>3
    DEF Knows, Updating, Creating, Locking, Is
  <2> QED
    BY <2>8, <2>9
<1>19. CASE ScanMark(p)
  <2>1. op'[p] = op[p] /\ cur'[p] = cur[p]
    BY <1>19 DEF ScanMark
  <2>2. /\ pc[p] \in {"scan", "scanMark"}
        /\ pc[p] = "scan" => pc'[p] = "scanDir"
        /\ pc[p] = "scanMark" /\ Is(p, "create") => pc'[p] = "made"
        /\ pc[p] = "scanMark" /\ Is(p, "delete") => pc'[p] \in {"mark", "unlink"}
        /\ pc[p] = "scanMark" /\ ~Is(p, "create") /\ ~Is(p, "delete")
              => pc'[p] \in {"mark", "listDir"}
    BY <1>19 DEF ScanMark, Is
  <2>3. Claiming(p)' <=> Claiming(p)
    BY <2>1 DEF Claiming, Is, Owned
  <2>8. Agent(p)'
    <3>1. ~HoldsTask(p) /\ (Is(p, "delete") \/ (listLock = p /\ ListOwner(p)))
      BY <1>0, <2>2 DEF Agent, HoldsList, HoldsTask
    <3>2. CASE Is(p, "delete")
      <4>1. pc'[p] \in {"mark", "unlink"}
        BY <2>2, <3>2, <1>0 DEF Agent, HoldsList, ListOwner, Is
      <4> QED
        BY <1>0, <2>1, <2>2, <3>1, <3>2, <4>1
        DEF Agent, HoldsTask, HoldsList, ListOwner, Is, locks
    <3>3. CASE Is(p, "create")
      BY <1>0, <2>1, <2>2, <3>1, <3>3
      DEF Agent, HoldsTask, HoldsList, ListOwner, Is, locks
    <3>4. CASE ~Is(p, "create") /\ ~Is(p, "delete")
      <4>1. op[p].kind \in {"reset", "hide"} /\ pc'[p] \in {"mark", "listDir"}
        BY <2>2, <3>1, <3>4 DEF ListOwner, Is
      <4> QED
        BY <1>0, <1>w, <2>1, <2>2, <2>3, <3>1, <3>4, <4>1
        DEF Agent, HoldsTask, HoldsList, ListOwner, Is, locks
    <3> QED
      BY <3>2, <3>3, <3>4
  <2>7. ~Is(p, "work")
    BY <1>0, <2>2 DEF Agent, HoldsList, ListOwner, Is
  <2>9. Knows(p)'
    BY <2>7, <1>0, <1>w, <2>1, <2>2, <2>3
    DEF Knows, Updating, Creating, Locking, Is
  <2> QED
    BY <2>8, <2>9
<1>20. CASE Made(p)
  <2>1. op'[p] = op[p]
    BY <1>20 DEF Made
  <2>2. pc[p] = "made" /\ pc'[p] = "write"
    BY <1>20 DEF Made
  <2>3. cur'[p].task \in Ids
    BY <1>20 DEF Made, Update
  <2>8. Agent(p)'
    BY <1>0, <1>w, <2>1, <2>2
    DEF Agent, HoldsTask, HoldsList, ListOwner, Is, locks
  <2>7. ~Is(p, "work")
    BY <1>0, <2>2 DEF Agent, HoldsList, ListOwner, Is
  <2>9. Knows(p)'
    BY <2>7, <1>0, <1>w, <2>1, <2>2, <2>3
    DEF Knows, Updating, Creating, Locking, Is
  <2> QED
    BY <2>8, <2>9
<1>21. CASE TruncateMark(p)
  <2>1. op'[p] = op[p] /\ cur'[p] = cur[p]
    BY <1>21 DEF TruncateMark
  <2>2. pc[p] = "mark" /\ pc'[p] = "fillMark"
    BY <1>21 DEF TruncateMark
  <2>3. Claiming(p)' <=> Claiming(p)
    BY <2>1 DEF Claiming, Is, Owned
  <2>8. Agent(p)'
    BY <1>0, <1>w, <2>1, <2>2, <2>3
    DEF Agent, HoldsTask, HoldsList, ListOwner, Is, locks
  <2>9. Knows(p)'
    BY <1>0, <1>w, <2>1, <2>2, <2>3
    DEF Knows, Updating, Creating, Locking, Is
  <2> QED
    BY <2>8, <2>9
<1>22. CASE FillMark(p)
  <2>1. op'[p] = op[p] /\ cur'[p] = cur[p]
    BY <1>22 DEF FillMark
  <2>2. pc[p] = "fillMark" /\ pc'[p] = IF Is(p, "delete") THEN "unlink" ELSE "listDir"
    BY <1>22 DEF FillMark
  <2>3. Claiming(p)' <=> Claiming(p)
    BY <2>1 DEF Claiming, Is, Owned
  <2>8. Agent(p)'
    BY <1>0, <1>w, <2>1, <2>2, <2>3
    DEF Agent, HoldsTask, HoldsList, ListOwner, Is, locks
  <2>7. ~Is(p, "work")
    BY <1>0, <2>2 DEF Agent, HoldsList, ListOwner, Is
  <2>9. Knows(p)'
    BY <2>7, <1>0, <1>w, <2>1, <2>2, <2>3
    DEF Knows, Updating, Creating, Locking, Is
  <2> QED
    BY <2>8, <2>9
<1>23. CASE Clear(p)
  <2>1. op'[p] = op[p] /\ cur'[p] = cur[p]
    BY <1>23 DEF Clear, Remove
  <2>2. pc[p] = "clear" /\ pc'[p] \in {"clear", "unlockList"}
    BY <1>23 DEF Clear, Remove
  <2>3. Claiming(p)' <=> Claiming(p)
    BY <2>1 DEF Claiming, Is, Owned
  <2>8. Agent(p)'
    BY <1>0, <1>w, <2>1, <2>2, <2>3
    DEF Agent, HoldsTask, HoldsList, ListOwner, Is, locks
  <2>9. Knows(p)'
    BY <1>0, <1>w, <2>1, <2>2, <2>3
    DEF Knows, Updating, Creating, Locking, Is
  <2> QED
    BY <2>8, <2>9
<1>24. CASE Unlink(p)
  <2>1. op'[p] = op[p] /\ cur'[p] = cur[p]
    BY <1>24 DEF Unlink, Remove
  <2>2. pc[p] = "unlink" /\ pc'[p] \in {"listDir", "idle"}
    BY <1>24 DEF Unlink, Remove
  <2>3. Claiming(p)' <=> Claiming(p)
    BY <2>1 DEF Claiming, Is, Owned
  <2>8. Agent(p)'
    BY <1>0, <1>w, <2>1, <2>2, <2>3
    DEF Agent, HoldsTask, HoldsList, ListOwner, Is, locks, Knows, Updating, Creating
  <2>9. Knows(p)'
    BY <1>0, <1>w, <2>1, <2>2, <2>3
    DEF Knows, Updating, Creating, Locking, Is
  <2> QED
    BY <2>8, <2>9
<1>25. CASE Crash(p)
  <2>1. op'[p] = op[p] /\ cur'[p] = cur[p]
    BY <1>25 DEF Crash
  <2>2. pc[p] # "idle" /\ pc'[p] = "crashed"
    BY <1>25 DEF Crash
  <2>3. Claiming(p)' <=> Claiming(p)
    BY <2>1 DEF Claiming, Is, Owned
  <2>8. Agent(p)'
    BY <1>0, <1>w, <2>1, <2>2, <2>3
    DEF Agent, HoldsTask, HoldsList, ListOwner, Is, locks
  <2>9. Knows(p)'
    BY <1>0, <1>w, <2>1, <2>2, <2>3
    DEF Knows, Updating, Creating, Locking, Is
  <2> QED
    BY <2>8, <2>9
<1> QED
  BY <1>1, <1>2, <1>3, <1>4, <1>5, <1>6, <1>7, <1>8, <1>9, <1>10, <1>11, <1>12,
     <1>13, <1>14, <1>15, <1>16, <1>17, <1>18, <1>19, <1>20, <1>21, <1>22, <1>23,
     <1>24, <1>25 DEF QuietStep

-----------------------------------------------------------------------------
(* The steps that start, take or give back *)

LEMMA StartSteps ==
    ASSUME NEW p \in Procs, TypeInv, CurInv, LockInv, UNCHANGED locks,
           Start(p) \/ WorkFound(p)
    PROVE  LockInv'
<1> USE DEF TypeInv, Goto, Return
<1>0. Others(p) /\ Agent(p) /\ Knows(p)
  BY OthersSteps DEF LockInv, CurInv, Step
<1> SUFFICES Agent(p)'
  BY <1>0, Quiet
<1>1. CASE Start(p)
  <2>1. PICK r \in Requests :
          op'[p] = r /\ pc'[p] = FirstStep(r.kind)
    BY <1>1 DEF Start
  <2>2. r \in Operations /\ (r.kind = "work" => r.task = 0)
    BY RequestsType DEF Requests, Request
  <2>3. pc[p] = "idle"
    BY <1>1 DEF Start
  <2>4. pc'[p] \in {"lockList", "listDir", "check", "listing"}
    BY <2>1, <2>2 DEF FirstStep, Operations, AllKinds
  <2>5. ~(Claiming(p)' /\ op'[p].task # 0)
    BY <2>1, <2>2 DEF Claiming, Is
  <2>6. listLock # p /\ \A t \in Ids : taskLock[t] # p
    BY <1>0, <2>3 DEF Agent, ListOwner, HoldsTask
  <2>7. ~HoldsTask(p)' /\ ~HoldsList(p)'
    BY <2>4, <2>5 DEF HoldsTask, HoldsList
  <2> QED
    BY <2>6, <2>7 DEF Agent, locks
<1>2. CASE WorkFound(p)
  <2>1. pc[p] = "listing" /\ Is(p, "work") /\ op[p].task = 0 /\ pc'[p] \in {"idle", "check"}
    BY <1>2 DEF WorkFound, Listed
  <2>2. listLock # p /\ \A t \in Ids : taskLock[t] # p
    BY <1>0, <2>1 DEF Agent, ListOwner, HoldsTask, Is
  <2>3. ~HoldsTask(p)' /\ ~HoldsList(p)'
    BY <2>1 DEF HoldsTask, HoldsList
  <2> QED
    BY <2>2, <2>3 DEF Agent, locks
<1> QED
  BY <1>1, <1>2

LEMMA TaskLockSteps ==
    ASSUME NEW p \in Procs, TypeInv, CurInv, LockInv, LockTask(p) \/ UnlockTask(p)
    PROVE  LockInv'
<1> USE ProcsAssumption DEF TypeInv, Goto
<1> DEFINE t == cur[p].task
<1>0. Others(p) /\ Agent(p) /\ Knows(p)
  BY OthersSteps DEF LockInv, CurInv, Step
<1>1. op'[p] = op[p] /\ cur' = cur /\ listLock' = listLock
  BY DEF LockTask, UnlockTask
<1>2. t \in Ids
  BY <1>0 DEF Knows, Updating, LockTask, UnlockTask
<1>3. Claiming(p)' <=> Claiming(p)
  BY <1>1 DEF Claiming, Is, Owned
<1>4. CASE LockTask(p)
  <2>1. /\ pc[p] = "lockTask" /\ taskLock[t] = NoProc
        /\ taskLock' = [taskLock EXCEPT ![t] = p]
        /\ pc'[p] = IF Claiming(p) THEN "claim" ELSE "read"
    BY <1>4 DEF LockTask
  <2>2. ~HoldsTask(p) /\ \A u \in Ids : taskLock[u] # p
    BY <1>0, <2>1 DEF Agent, HoldsTask
  <2>3. Agent(p)'
    BY <1>0, <1>1, <1>2, <1>3, <2>1, <2>2
    DEF Agent, HoldsTask, HoldsList, ListOwner, Is, Knows, Claiming
  <2>4. ASSUME NEW q \in Procs, q # p PROVE Agent(q)'
    <3>1. Agent(q) /\ pc'[q] = pc[q] /\ op'[q] = op[q]
      BY <1>0, <2>4 DEF Others, LockInv
    <3>2. /\ HoldsTask(q)' <=> HoldsTask(q)
          /\ HoldsList(q)' <=> HoldsList(q)
          /\ ListOwner(q)' <=> ListOwner(q)
      BY <3>1, <1>1 DEF HoldsTask, HoldsList, ListOwner, Is, Claiming, Owned
    <3>3. \A u \in Ids : taskLock'[u] = q <=> taskLock[u] = q
      BY <2>1, <2>4, <1>2
    <3>4. HoldsTask(q) => cur[q].task \in Ids
      BY DEF CurInv, Knows, Updating, HoldsTask, Claiming
    <3> QED
      BY <3>1, <3>2, <3>3, <3>4, <1>1 DEF Agent
  <2> QED
    BY <2>3, <2>4 DEF LockInv
<1>5. CASE UnlockTask(p)
  <2>1. /\ pc[p] = "unlockTask" /\ pc'[p] = "next"
        /\ taskLock' = [taskLock EXCEPT ![t] = NoProc]
    BY <1>5 DEF UnlockTask
  <2>2. taskLock[t] = p /\ \A u \in Ids : taskLock[u] = p => u = t
    BY <1>0, <2>1 DEF Agent, HoldsTask
  <2>3. Agent(p)'
    BY <1>0, <1>1, <1>2, <1>3, <2>1, <2>2
    DEF Agent, HoldsTask, HoldsList, ListOwner, Is
  <2>4. ASSUME NEW q \in Procs, q # p PROVE Agent(q)'
    <3>1. Agent(q) /\ pc'[q] = pc[q] /\ op'[q] = op[q]
      BY <1>0, <2>4 DEF Others, LockInv
    <3>2. /\ HoldsTask(q)' <=> HoldsTask(q)
          /\ HoldsList(q)' <=> HoldsList(q)
          /\ ListOwner(q)' <=> ListOwner(q)
      BY <3>1, <1>1 DEF HoldsTask, HoldsList, ListOwner, Is, Claiming, Owned
    <3>3. \A u \in Ids : taskLock'[u] = q <=> taskLock[u] = q
      BY <2>1, <2>2, <2>4, <1>2
    <3>4. HoldsTask(q) => cur[q].task \in Ids
      BY DEF CurInv, Knows, Updating, HoldsTask, Claiming
    <3> QED
      BY <3>1, <3>2, <3>3, <3>4, <1>1 DEF Agent
  <2> QED
    BY <2>3, <2>4 DEF LockInv
<1> QED
  BY <1>4, <1>5

LEMMA ListLockSteps ==
    ASSUME NEW p \in Procs, TypeInv, CurInv, LockInv, LockList(p) \/ UnlockList(p)
    PROVE  LockInv'
<1> USE ProcsAssumption DEF TypeInv, Goto
<1>0. Others(p) /\ Agent(p) /\ Knows(p)
  BY OthersSteps DEF LockInv, CurInv, Step
<1>1. op' = op /\ cur' = cur /\ taskLock' = taskLock /\ pc[p] \in {"lockList", "unlockList"}
  BY DEF LockList, UnlockList
<1>2. ~HoldsTask(p) /\ \A u \in Ids : taskLock[u] # p
  BY <1>0, <1>1 DEF Agent, HoldsTask
<1>3. \/ /\ listLock = NoProc /\ listLock' = p /\ pc[p] = "lockList"
         /\ pc'[p] = IF Is(p, "claimBusy") THEN "listDir"
                     ELSE IF Is(p, "create") THEN "scan" ELSE "scanDir"
      \/ pc[p] = "unlockList" /\ listLock' = NoProc /\ pc'[p] = "idle"
  BY DEF LockList, UnlockList
<1>4. op[p].kind \in {"claimBusy", "create", "reset", "hide"} \/ pc[p] = "unlockList"
  BY <1>0, <1>1 DEF Knows, Locking
<1>5. Agent(p)'
  BY <1>0, <1>1, <1>2, <1>3, <1>4
  DEF Agent, HoldsTask, HoldsList, ListOwner, Is, Claiming
<1>6. ASSUME NEW q \in Procs, q # p PROVE Agent(q)'
  <2>1. Agent(q) /\ pc'[q] = pc[q]
    BY <1>0, <1>6 DEF Others, LockInv
  <2>2. /\ HoldsTask(q)' <=> HoldsTask(q)
        /\ HoldsList(q)' <=> HoldsList(q)
        /\ ListOwner(q)' <=> ListOwner(q)
    BY <2>1, <1>1 DEF HoldsTask, HoldsList, ListOwner, Is, Claiming, Owned
  <2>3. listLock' # q /\ (listLock = q => listLock' = q)
    BY <1>0, <1>3, <1>6 DEF Agent, HoldsList
  <2> QED
    BY <2>1, <2>2, <2>3, <1>1 DEF Agent
<1> QED
  BY <1>5, <1>6 DEF LockInv

LEMMA StaleStep ==
    ASSUME NEW p \in Procs, TypeInv, CurInv, LockInv, GoStale(p)
    PROVE  LockInv'
<1> USE ProcsAssumption DEF TypeInv
<1>1. UNCHANGED <<pc, op, cur>> /\ pc[p] = "crashed"
  BY DEF GoStale
<1>2. /\ listLock' = IF listLock = p THEN NoProc ELSE listLock
      /\ taskLock' = [t \in Ids |-> IF taskLock[t] = p THEN NoProc ELSE taskLock[t]]
  BY DEF GoStale
<1>3. ASSUME NEW q \in Procs PROVE Agent(q)'
  <2>1. Agent(q)
    BY DEF LockInv
  <2>2. /\ HoldsTask(q)' <=> HoldsTask(q)
        /\ HoldsList(q)' <=> HoldsList(q)
        /\ ListOwner(q)' <=> ListOwner(q)
    BY <1>1 DEF HoldsTask, HoldsList, ListOwner, Is, Claiming, Owned
  <2>3. HoldsTask(q) => q # p /\ cur[q].task \in Ids
    BY <1>1 DEF CurInv, Knows, Updating, HoldsTask, Claiming
  <2>4. HoldsList(q) => q # p
    BY <1>1 DEF HoldsList
  <2> QED
    BY <1>1, <1>2, <2>1, <2>2, <2>3, <2>4 DEF Agent
<1> QED
  BY <1>3 DEF LockInv

LEMMA LockNext == TypeInv /\ CurInv /\ LockInv /\ [Next]_vars => LockInv'
<1> SUFFICES ASSUME TypeInv, CurInv, LockInv, [Next]_vars PROVE LockInv'
  OBVIOUS
<1>1. CASE UNCHANGED vars
  <2>1. UNCHANGED <<pc, op, cur, listLock, taskLock>>
    BY <1>1 DEF vars, locks
  <2>2. ASSUME NEW q \in Procs PROVE Agent(q)'
    <3>1. /\ HoldsTask(q)' <=> HoldsTask(q)
          /\ HoldsList(q)' <=> HoldsList(q)
          /\ ListOwner(q)' <=> ListOwner(q)
      BY <2>1 DEF HoldsTask, HoldsList, ListOwner, Is, Claiming, Owned
    <3> QED
      BY <2>1, <3>1 DEF LockInv, Agent
  <2> QED
    BY <2>2 DEF LockInv
<1>2. ASSUME NEW p \in Procs, Start(p) \/ WorkFound(p) PROVE LockInv'
  <2>1. UNCHANGED locks
    BY <1>2 DEF Start, WorkFound
  <2> QED
    BY <1>2, <2>1, StartSteps
<1>3. ASSUME NEW p \in Procs, QuietStep(p) PROVE LockInv'
  BY <1>3, QuietUnlocked, QuietSteps
<1> QED
  BY <1>1, <1>2, <1>3, TaskLockSteps, ListLockSteps, StaleStep DEF Next, Step, QuietStep

-----------------------------------------------------------------------------
(* An operation knows its task *)

LEMMA CurInit == Init => CurInv
BY DEF Init, CurInv, Knows, Updating, Creating, Is, Request, Locking

LEMMA CurNext == TypeInv /\ CurInv /\ LockInv /\ [Next]_vars => CurInv'
<1> SUFFICES ASSUME TypeInv, CurInv, LockInv, [Next]_vars PROVE CurInv'
  OBVIOUS
<1> USE DEF TypeInv, Goto
<1>1. CASE UNCHANGED vars
  <2>1. UNCHANGED <<pc, op, cur>>
    BY <1>1 DEF vars
  <2>2. ASSUME NEW q \in Procs PROVE Knows(q)'
    <3>1. Claiming(q)' <=> Claiming(q)
      BY <2>1 DEF Claiming, Is, Owned
    <3> QED
      BY <2>1, <3>1 DEF CurInv, Knows, Is
  <2> QED
    BY <2>2 DEF CurInv
<1>2. ASSUME NEW p \in Procs, QuietStep(p) PROVE CurInv'
  BY <1>2, QuietUnlocked, QuietSteps
<1>3. ASSUME NEW p \in Procs, Start(p) PROVE CurInv'
  <2>1. PICK r \in Requests :
          op'[p] = r /\ pc'[p] = FirstStep(r.kind) /\ cur'[p] = Update(r.task, Owned(p))
    BY <1>3 DEF Start
  <2>2. r \in Operations /\ (r.kind = "work" => r.task = 0)
    BY RequestsType DEF Requests, Request
  <2>3. r.kind = "claimBusy" => r.task \in Ids
    BY DEF Requests, Request
  <2>4. Knows(p)'
    BY <2>1, <2>2, <2>3
    DEF Knows, Updating, Creating, Locking, Is, FirstStep, Operations, AllKinds, Update
  <2> QED
    BY <1>3, <2>4, OthersSteps, CurFrame
<1>4. ASSUME NEW p \in Procs, WorkFound(p) PROVE CurInv'
  <2>1. Knows(p)'
    <3>1. CASE Available(snap[p]) = {}
      BY <1>4, <3>1 DEF WorkFound, Is, Knows, Updating, Creating
    <3>2. CASE Available(snap[p]) # {}
      <4>1. PICK r \in Available(snap[p]) :
              /\ op' = [op EXCEPT ![p].task = r.id]
              /\ cur' = [cur EXCEPT ![p] = Update(r.id, Owned(p))]
              /\ pc' = [pc EXCEPT ![p] = "check"]
        BY <1>4, <3>2 DEF WorkFound
      <4>2. r.id \in Ids
        BY DEF Available
      <4>3. op'[p].kind = op[p].kind /\ op'[p].task = r.id
        <5>1. op[p] \in Operations
          OBVIOUS
        <5> QED
          BY <4>1, <5>1 DEF Operations
      <4> QED
        BY <1>4, <4>1, <4>2, <4>3
        DEF WorkFound, Is, Knows, Updating, Creating, Update, Ids
    <3> QED
      BY <3>1, <3>2
  <2> QED
    BY <1>4, <2>1, OthersSteps, CurFrame DEF Step
<1>5. ASSUME NEW p \in Procs, LockTask(p) \/ UnlockTask(p) PROVE CurInv'
  <2>1. op'[p] = op[p] /\ cur'[p] = cur[p]
    BY <1>5 DEF LockTask, UnlockTask
  <2>2. Claiming(p)' <=> Claiming(p)
    BY <2>1 DEF Claiming, Is, Owned
  <2>3. \/ pc[p] = "lockTask" /\ pc'[p] = IF Claiming(p) THEN "claim" ELSE "read"
        \/ pc[p] = "unlockTask" /\ pc'[p] = "next"
    BY <1>5 DEF LockTask, UnlockTask
  <2>4. Knows(p)'
    BY <2>1, <2>2, <2>3 DEF CurInv, Knows, Updating, Creating, Is
  <2> QED
    BY <1>5, <2>4, OthersSteps, CurFrame DEF Step
<1>6. ASSUME NEW p \in Procs, LockList(p) \/ UnlockList(p) PROVE CurInv'
  <2>1. op'[p] = op[p] /\ cur'[p] = cur[p]
    BY <1>6 DEF LockList, UnlockList
  <2>2. \/ /\ pc[p] = "lockList"
           /\ pc'[p] = IF Is(p, "claimBusy") THEN "listDir"
                       ELSE IF Is(p, "create") THEN "scan" ELSE "scanDir"
        \/ pc[p] = "unlockList" /\ pc'[p] = "idle"
    BY <1>6 DEF LockList, UnlockList
  <2>3. Knows(p)'
    BY <2>1, <2>2 DEF CurInv, Knows, Updating, Creating, Is
  <2> QED
    BY <1>6, <2>3, OthersSteps, CurFrame DEF Step
<1>7. ASSUME NEW p \in Procs, GoStale(p) PROVE CurInv'
  <2>1. UNCHANGED <<pc, op, cur>>
    BY <1>7 DEF GoStale
  <2>2. Claiming(p)' <=> Claiming(p)
    BY <2>1 DEF Claiming, Is, Owned
  <2>3. Knows(p)'
    BY <2>1, <2>2 DEF CurInv, Knows, Is
  <2> QED
    BY <1>7, <2>3, OthersSteps, CurFrame
<1> QED
  BY <1>1, <1>2, <1>3, <1>4, <1>5, <1>6, <1>7 DEF Next, Step, QuietStep

-----------------------------------------------------------------------------
(* The theorem *)

LockIInv == TypeInv /\ CurInv /\ LockInv

LEMMA LockIInvInvariant == Spec => []LockIInv
<1>1. Init => LockIInv
  BY TypeInit, CurInit, LockInit DEF LockIInv
<1>2. LockIInv /\ [Next]_vars => LockIInv'
  BY TypeNext, CurNext, LockNext DEF LockIInv
<1> QED
  BY <1>1, <1>2, PTL DEF Spec

\* However many agents and tasks there are: an operation in a critical section
\* holds that section's lock, and one that has ended holds none, whichever of
\* its early returns, failures or takeovers of stale locks happened on the way.
THEOREM LockSafety == Spec => []LockDiscipline
<1>1. LockIInv => LockDiscipline
  <2> SUFFICES ASSUME LockIInv, NEW p \in Procs
               PROVE  /\ HoldsTask(p) => taskLock[cur[p].task] = p
                      /\ HoldsList(p) => listLock = p
                      /\ pc[p] = "idle" => listLock # p /\ \A t \in Ids : taskLock[t] # p
    BY DEF LockDiscipline
  <2>1. Agent(p)
    BY DEF LockIInv, LockInv
  <2> QED
    BY <2>1 DEF Agent, ListOwner, HoldsTask
<1> QED
  BY <1>1, LockIInvInvariant, PTL

-----------------------------------------------------------------------------
(* Ids: what is known of them while nobody deletes single tasks *)

NoDeletes == "delete" \notin Kinds

Undeleted == \A p \in Procs : ~Is(p, "delete")

\* Every task that can be read was given its id by createTask(), and some file
\* or the mark remembers every id that was given.
FileInv ==
    /\ \A t \in exists : writer[t] = NoProc => t \in issued
    /\ \A t \in issued : t <= mark \/ \E u \in exists : t <= u

\* What the holder of the list's lock knows of the ids given so far: a reset
\* before it unlinks files, a creation before it writes one.
Resets(p) ==
    /\ pc[p] \in {"scanMark", "mark", "fillMark"} => hi[p] \in exists
    /\ pc[p] = "scanMark" => \A t \in issued : t <= hi[p] \/ t <= mark
    /\ pc[p] \in {"mark", "fillMark"} => \A t \in issued : t <= hi[p]
    /\ pc[p] \in {"listDir", "clear"} => \A t \in issued : t <= mark

Creates(p) ==
    /\ pc[p] = "scanMark" => \A t \in issued : t <= hi[p] \/ t <= mark
    /\ pc[p] = "scanDir" => mk[p] = mark
    /\ pc[p] = "made" => \A t \in issued : t <= hi[p] \/ t <= mk[p]
    /\ pc[p] \in {"write", "fill"} => cur[p].task \notin issued
    /\ pc[p] = "fill" => cur[p].task \in exists

Keeper(p) ==
    listLock = p =>
        /\ op[p].kind \in {"reset", "hide"} => Resets(p)
        /\ Is(p, "create") => Creates(p)

\* Who works on a task works on one that was created.
Holder(p) == HoldsTask(p) \/ pc[p] = "lockTask" => cur[p].task \in issued

IdInv ==
    /\ Undeleted
    /\ issued \subseteq Ids
    /\ FileInv
    /\ \A p \in Procs : Keeper(p) /\ Holder(p)

IdsIInv == LockIInv /\ IdInv

\* What the others have read is left alone.
Readings(p) == \A q \in Procs \ {p} :
                  hi'[q] = hi[q] /\ mk'[q] = mk[q] /\ new'[q] = new[q]

LEMMA ReadingsSteps ==
    ASSUME NEW p \in Procs, TypeInv,
           Start(p) \/ Step(p) \/ LockThrows(p) \/ Crash(p) \/ GoStale(p)
    PROVE  Readings(p)
<1> USE DEF TypeInv, Readings
<1>1. CASE UNCHANGED <<hi, mk, new>>
  BY <1>1
<1>2. CASE Start(p)
  BY <1>2 DEF Start
<1>3. CASE DeleteLooked(p)
  BY <1>3 DEF DeleteLooked
<1>4. CASE ClaimRead(p) \/ Read(p) \/ Made(p)
  BY <1>4 DEF ClaimRead, Read, Made
<1>5. CASE ScanDir(p) \/ ScanMark(p)
  BY <1>5 DEF ScanDir, ScanMark
<1> QED
  BY <1>1, <1>2, <1>3, <1>4, <1>5
  DEF Step, ListDir, ListRead, HideChecked, WorkFound, ClaimChecked, BusyChecked,
      UpdateLooked, BlockLooked, UnassignListed, DeleteCascade, NextUpdate, Check,
      LockTask, LockThrows, Truncate, Fill, UnlockTask, LockList, UnlockList,
      TruncateMark, FillMark, Clear, Unlink, Crash, GoStale

\* What an agent does to the files when it does not hold the list's lock: an
\* update of a task that was created.
Updates == /\ issued' = issued /\ mark' = mark
           /\ exists' = exists \/ \E t \in issued : exists' = exists \union {t}
           /\ \A t \in exists' : writer'[t] = NoProc => t \in issued

LEMMA UpdatesKeep ==
    ASSUME IdInv, Updates
    PROVE  FileInv' /\ issued' \subseteq Ids
BY DEF IdInv, FileInv, Updates

LEMMA OthersKeep ==
    ASSUME NEW p \in Procs, NEW q \in Procs \ {p}, IdInv, Others(p), Readings(p),
           issued \subseteq issued', listLock' = q => listLock = q,
           listLock = q => Updates
    PROVE  Keeper(q)' /\ Holder(q)'
<1>1. /\ pc'[q] = pc[q] /\ op'[q] = op[q] /\ cur'[q] = cur[q]
      /\ hi'[q] = hi[q] /\ mk'[q] = mk[q]
  BY DEF Others, Readings
<1>2. Holder(q)'
  <2>1. HoldsTask(q)' <=> HoldsTask(q)
    BY <1>1 DEF HoldsTask, Is, Claiming, Owned
  <2> QED
    BY <1>1, <2>1 DEF IdInv, Holder
<1>3. Keeper(q)'
  <2> SUFFICES ASSUME listLock' = q
               PROVE  /\ op[q].kind \in {"reset", "hide"} => Resets(q)'
                      /\ Is(q, "create") => Creates(q)'
    BY <1>1 DEF Keeper, Is
  <2>1. Updates /\ Keeper(q)
    BY DEF IdInv
  <2>2. exists \subseteq exists' /\ issued' = issued /\ mark' = mark
    BY <2>1 DEF Updates
  <2>3. Resets(q) => Resets(q)'
    BY <1>1, <2>2 DEF Resets
  <2>4. Creates(q) => Creates(q)'
    BY <1>1, <2>2 DEF Creates
  <2> QED
    BY <2>1, <2>3, <2>4 DEF Keeper
<1> QED
  BY <1>2, <1>3

\* So it remains to see what the agent itself knows.
LEMMA OwnStep ==
    ASSUME NEW p \in Procs, LockIInv, IdInv,
           Start(p) \/ Step(p) \/ LockThrows(p) \/ Crash(p) \/ GoStale(p),
           issued \subseteq issued', issued' \subseteq Ids, FileInv',
           \A q \in Procs \ {p} : listLock' = q => listLock = q,
           listLock # p => Updates,
           ~Is(p, "delete")', Keeper(p)', Holder(p)'
    PROVE  IdInv'
<1>1. Others(p) /\ Readings(p)
  BY OthersSteps, ReadingsSteps DEF LockIInv
<1>2. ASSUME NEW q \in Procs \ {p} PROVE Keeper(q)' /\ Holder(q)' /\ ~Is(q, "delete")'
  <2>1. ~Is(q, "delete")'
    BY <1>1 DEF IdInv, Undeleted, Is, Others
  <2> QED
    BY <1>1, <2>1, OthersKeep
<1> QED
  BY <1>2 DEF IdInv, Undeleted

LEMMA Untouched ==
    ASSUME IdInv, UNCHANGED <<disk, issued>>
    PROVE  Updates /\ FileInv'
BY DEF IdInv, Updates, FileInv, disk

\* A step that leaves the files, the locks and the ids given alone.
LEMMA Looks ==
    ASSUME NEW p \in Procs, LockIInv, IdInv, UNCHANGED <<disk, issued, locks>>,
           Start(p) \/ Step(p) \/ LockThrows(p) \/ Crash(p),
           ~Is(p, "delete")', Keeper(p)', Holder(p)'
    PROVE  IdInv'
<1>1. Updates /\ FileInv' /\ issued' = issued /\ listLock' = listLock
  BY Untouched DEF locks
<1>2. issued' \subseteq Ids /\ issued \subseteq issued'
  BY <1>1 DEF IdInv
<1> QED
  BY <1>1, <1>2, OwnStep

\* ... and leads to where neither the ids nor a lock matter.
LEMMA LooksElsewhere ==
    ASSUME NEW p \in Procs, LockIInv, IdInv, UNCHANGED <<disk, issued, locks>>,
           Start(p) \/ Step(p) \/ LockThrows(p) \/ Crash(p),
           op'[p].kind = op[p].kind,
           pc'[p] \in {"idle", "next", "check", "lockList", "unlockList", "crashed"}
    PROVE  IdInv'
<1>1. ~Is(p, "delete")'
  BY DEF IdInv, Undeleted, Is
<1>2. Keeper(p)'
  BY DEF Keeper, Resets, Creates
<1>3. Holder(p)'
  BY DEF Holder, HoldsTask
<1> QED
  BY <1>1, <1>2, <1>3, Looks

LEMMA CallersKeepIds ==
    ASSUME NEW p \in Procs, LockIInv, IdInv,
           \/ HideChecked(p) \/ WorkFound(p) \/ BusyChecked(p) \/ UpdateLooked(p)
           \/ BlockLooked(p) \/ UnassignListed(p) \/ NextUpdate(p)
           \/ LockThrows(p) \/ Crash(p)
    PROVE  IdInv'
<1> USE DEF Goto, Return, Ended
<1>0. TypeInv
  BY DEF LockIInv
<1>1. UNCHANGED <<disk, issued, locks>>
  BY DEF HideChecked, WorkFound, BusyChecked, UpdateLooked, BlockLooked,
         UnassignListed, NextUpdate, LockThrows, Crash
<1>2. pc'[p] \in {"idle", "next", "check", "lockList", "unlockList", "crashed"}
  BY <1>0 DEF TypeInv, HideChecked, WorkFound, BusyChecked, UpdateLooked,
              BlockLooked, UnassignListed, NextUpdate, LockThrows, Crash
<1>3. op'[p].kind = op[p].kind
  <2>1. CASE op' = op
    BY <2>1
  <2>2. ASSUME NEW r, op' = [op EXCEPT ![p].task = r.id]
        PROVE  op'[p].kind = op[p].kind
    <3>1. op[p] \in Operations /\ DOMAIN op = Procs
      BY <1>0 DEF TypeInv
    <3> QED
      BY <2>2, <3>1 DEF Operations
  <2> QED
    BY <2>1, <2>2 DEF HideChecked, WorkFound, BusyChecked, UpdateLooked,
                      BlockLooked, UnassignListed, NextUpdate, LockThrows, Crash
<1>4. Step(p) \/ LockThrows(p) \/ Crash(p)
  BY DEF Step
<1> QED
  BY <1>1, <1>2, <1>3, <1>4, LooksElsewhere

LEMMA StartKeepsIds ==
    ASSUME NEW p \in Procs, NoDeletes, LockIInv, IdInv, Start(p)
    PROVE  IdInv'
<1>1. PICK r \in Requests :
        /\ r.kind \in Kinds /\ op'[p] = r /\ pc'[p] = FirstStep(r.kind)
        /\ cur'[p] = Update(r.task, Owned(p))
  BY DEF Start, LockIInv, TypeInv, Goto
<1>2. UNCHANGED <<disk, issued, locks>> /\ pc[p] = "idle"
  BY DEF Start
<1>3. r.kind # "delete" /\ r.kind \in AllKinds /\ (r.kind = "work" => r.task = 0)
  BY <1>1, RequestsType DEF NoDeletes, Operations, Requests, Request
<1>4. listLock' # p
  BY <1>2 DEF LockIInv, LockInv, Agent, ListOwner, locks
<1>5. Holder(p)'
  BY <1>1, <1>3 DEF Holder, HoldsTask, Is, Claiming, FirstStep, AllKinds
<1>6. ~Is(p, "delete")' /\ Keeper(p)'
  BY <1>1, <1>3, <1>4 DEF Is, Keeper
<1> QED
  BY <1>2, <1>5, <1>6, Looks

LEMMA ListingKeepsIds ==
    ASSUME NEW p \in Procs, LockIInv, IdInv,
           ListDir(p) \/ ListRead(p) \/ ClaimChecked(p) \/ ClaimRead(p) \/ Read(p)
    PROVE  IdInv'
<1> USE DEF Goto
<1>0. TypeInv /\ Knows(p) /\ Agent(p) /\ Keeper(p) /\ Holder(p) /\ ~Is(p, "delete")
  BY DEF LockIInv, CurInv, LockInv, IdInv, Undeleted
<1>1. /\ UNCHANGED <<disk, issued, locks>> /\ op'[p] = op[p] /\ cur'[p] = cur[p]
      /\ listLock' = listLock /\ mark' = mark
  BY DEF ListDir, ListRead, ClaimChecked, ClaimRead, Read, disk, locks
<1>2. ~Is(p, "delete")' /\ (Claiming(p)' <=> Claiming(p))
  BY <1>0, <1>1 DEF Is, Claiming, Owned
<1>3. CASE ListDir(p)
  <2>1. pc[p] = "listDir" /\ pc'[p] = IF Resetting(p) THEN "clear" ELSE "listing"
    BY <1>0, <1>3 DEF ListDir, TypeInv
  <2>2. Holder(p)'
    BY <1>0, <1>1, <1>2, <2>1 DEF Holder, HoldsTask
  <2>3. Keeper(p)'
    BY <1>0, <1>1, <2>1 DEF Keeper, Resets, Creates, Is
  <2> QED
    BY <1>1, <1>2, <1>3, <2>2, <2>3, Looks DEF Step
<1>4. CASE ListRead(p)
  <2>1. pc[p] = "listing" /\ pc'[p] = "listing"
    BY <1>4 DEF ListRead
  <2>2. Holder(p)'
    BY <1>0, <1>1, <1>2, <2>1 DEF Holder, HoldsTask
  <2>3. Keeper(p)'
    BY <1>0, <1>1, <2>1 DEF Keeper, Resets, Creates, Is
  <2> QED
    BY <1>1, <1>2, <1>4, <2>2, <2>3, Looks DEF Step
<1>5. CASE ClaimChecked(p)
  <2>1. HoldsTask(p) /\ pc'[p] \in {"read", "unlockTask"}
    BY <1>0, <1>5 DEF ClaimChecked, Listed, HoldsTask, TypeInv
  <2>2. Holder(p)'
    BY <1>0, <1>1, <2>1 DEF Holder
  <2>3. Keeper(p)'
    BY <2>1 DEF Keeper, Resets, Creates
  <2> QED
    BY <1>1, <1>2, <1>5, <2>2, <2>3, Looks DEF Step
<1>6. CASE ClaimRead(p)
  <2>1. HoldsTask(p) /\ pc'[p] \in {"listDir", "unlockTask"} /\ Is(p, "work")
    BY <1>0, <1>6 DEF ClaimRead, HoldsTask, TypeInv, Knows, Claiming
  <2>2. Holder(p)'
    BY <1>0, <1>1, <2>1 DEF Holder
  <2>3. Keeper(p)'
    BY <1>1, <2>1 DEF Keeper, Is
  <2> QED
    BY <1>1, <1>2, <1>6, <2>2, <2>3, Looks DEF Step
<1>7. CASE Read(p)
  <2>1. HoldsTask(p) /\ pc'[p] \in {"write", "unlockTask"} /\ ~Is(p, "create")
    BY <1>0, <1>7 DEF Read, HoldsTask, TypeInv, Knows, Creating
  <2>2. Holder(p)'
    BY <1>0, <1>1, <2>1 DEF Holder
  <2>3. Keeper(p)'
    BY <1>1, <2>1 DEF Keeper, Is, Resets
  <2> QED
    BY <1>1, <1>2, <1>7, <2>2, <2>3, Looks DEF Step
<1> QED
  BY <1>3, <1>4, <1>5, <1>6, <1>7

LEMMA LockingKeepsIds ==
    ASSUME NEW p \in Procs, LockIInv, IdInv,
           \/ Check(p) \/ LockTask(p) \/ UnlockTask(p) \/ LockList(p)
           \/ UnlockList(p) \/ GoStale(p)
    PROVE  IdInv'
<1> USE DEF Goto
<1>0. TypeInv /\ Knows(p) /\ Agent(p) /\ Keeper(p) /\ Holder(p) /\ ~Is(p, "delete")
  BY DEF LockIInv, CurInv, LockInv, IdInv, Undeleted
<1>1. UNCHANGED <<disk, issued>> /\ op'[p] = op[p] /\ cur'[p] = cur[p]
  BY DEF Check, LockTask, UnlockTask, LockList, UnlockList, GoStale, disk
<1>2. ~Is(p, "delete")'
  BY <1>0, <1>1 DEF Is
<1>3. \A q \in Procs \ {p} : listLock' = q => listLock = q
  BY ProcsAssumption DEF Check, LockTask, UnlockTask, LockList, UnlockList, GoStale, locks
<1>4. Holder(p)'
  <2>1. CASE Check(p)
    BY <1>0, <1>1, <2>1 DEF Check, TypeInv, Holder, HoldsTask, Readable, IdInv, FileInv
  <2>2. CASE LockTask(p)
    BY <1>0, <1>1, <2>2 DEF LockTask, TypeInv, Holder, HoldsTask
  <2>3. CASE UnlockTask(p) \/ UnlockList(p)
    BY <1>0, <2>3 DEF UnlockTask, UnlockList, TypeInv, Holder, HoldsTask
  <2>4. CASE LockList(p)
    <3>1. /\ pc'[p] \in {"listDir", "scan", "scanDir"}
          /\ pc'[p] = "listDir" => Is(p, "claimBusy")
      BY <1>0, <2>4 DEF LockList, TypeInv
    <3> QED
      BY <1>1, <3>1 DEF Holder, HoldsTask, Claiming, Is
  <2>5. CASE GoStale(p)
    BY <1>0, <2>5 DEF GoStale, Holder, HoldsTask
  <2> QED
    BY <2>1, <2>2, <2>3, <2>4, <2>5
<1>5. Keeper(p)'
  <2>1. CASE Check(p) \/ LockTask(p) \/ UnlockTask(p) \/ UnlockList(p)
    BY <1>0, <2>1 DEF Check, LockTask, UnlockTask, UnlockList, TypeInv, Keeper,
                      Resets, Creates
  <2>2. CASE LockList(p)
    BY <1>0, <1>1, <2>2 DEF LockList, TypeInv, Keeper, Resets, Creates, Is
  <2>3. CASE GoStale(p)
    BY <2>3 DEF GoStale, Keeper, Resets, Creates
  <2> QED
    BY <2>1, <2>2, <2>3
<1>6. Updates /\ FileInv' /\ issued' \subseteq Ids /\ issued \subseteq issued'
  BY <1>1, Untouched DEF IdInv
<1>7. Step(p) \/ GoStale(p)
  BY DEF Step
<1> QED
  BY <1>2, <1>3, <1>4, <1>5, <1>6, <1>7, OwnStep

LEMMA ScansKeepIds ==
    ASSUME NEW p \in Procs, LockIInv, IdInv, ScanDir(p) \/ ScanMark(p) \/ Made(p)
    PROVE  IdInv'
<1> USE DEF Goto
<1>0. /\ TypeInv /\ Knows(p) /\ Agent(p) /\ Keeper(p) /\ FileInv
      /\ ~Is(p, "delete") /\ issued \subseteq Nat /\ exists \subseteq Nat
      /\ mark \in Nat /\ hi[p] \in Nat /\ mk[p] \in Nat
  BY BoundAssumption
  DEF LockIInv, CurInv, LockInv, IdInv, Undeleted, TypeInv, Ids
<1>1. /\ UNCHANGED <<disk, issued, locks>> /\ op'[p] = op[p]
      /\ issued' = issued /\ exists' = exists /\ mark' = mark /\ listLock' = listLock
  BY DEF ScanDir, ScanMark, Made, disk, locks
<1>2. listLock = p
  BY <1>0 DEF ScanDir, ScanMark, Made, Agent, HoldsList
<1>3. /\ op[p].kind \in {"create", "reset", "hide"}
      /\ Is(p, "create") => pc[p] \in {"scan", "scanDir", "scanMark", "made"}
      /\ ~Is(p, "create") => pc[p] \in {"scanDir", "scanMark"} /\ Resetting(p)
  BY <1>0, <1>2 DEF ScanDir, ScanMark, Made, Agent, ListOwner, Is, Resetting
<1>4. Keeper(p)'
  <2>1. CASE ScanDir(p)
    <3>1. PICK h \in 0..MaxId :
            /\ IsHighest(h, exists) /\ hi'[p] = h
            /\ pc'[p] = IF Is(p, "create") /\ pc[p] = "scanDir" THEN "made"
                        ELSE IF Resetting(p) /\ h = 0 THEN "listDir" ELSE "scanMark"
      BY <1>0, <2>1 DEF ScanDir, TypeInv
    <3>2. h \in Nat /\ mk'[p] = mk[p] /\ pc[p] \in {"scan", "scanDir"}
      BY <2>1, BoundAssumption DEF ScanDir
    <3>3. ASSUME NEW t \in issued PROVE t <= h \/ t <= mark
      <4>1. CASE t <= mark
        BY <4>1
      <4>2. CASE \E u \in exists : t <= u
        <5>1. PICK u \in exists : t <= u
          BY <4>2
        <5>2. u <= h /\ t \in Nat /\ u \in Nat
          BY <1>0, <3>1 DEF IsHighest
        <5> QED
          BY <3>2, <5>1, <5>2
      <4> QED
        BY <1>0, <4>1, <4>2 DEF FileInv
    <3>4. CASE Is(p, "create")
      BY <1>0, <1>1, <1>2, <3>1, <3>2, <3>3, <3>4 DEF Keeper, Creates, Is, Resetting
    <3>5. CASE ~Is(p, "create")
      <4>1. Resetting(p)
        BY <1>3, <3>5
      <4>2. CASE h = 0
        <5>1. \A t \in issued : t <= mark
          <6> SUFFICES ASSUME NEW t \in issued, t <= h PROVE t <= mark
            BY <3>3
          <6>1. t \in 1..MaxId
            BY DEF IdInv, Ids
          <6> QED
            BY <4>2, <6>1, BoundAssumption
        <5> QED
          BY <1>1, <3>1, <3>5, <4>1, <4>2, <5>1 DEF Keeper, Resets, Is
      <4>3. CASE h # 0
        <5>1. h \in exists
          BY <3>1, <4>3 DEF IsHighest
        <5> QED
          BY <1>1, <3>1, <3>3, <3>5, <4>3, <5>1 DEF Keeper, Resets, Is
      <4> QED
        BY <4>2, <4>3
    <3> QED
      BY <3>4, <3>5
  <2>2. CASE ScanMark(p)
    <3>1. /\ pc[p] \in {"scan", "scanMark"} /\ mk'[p] = mark /\ hi'[p] = hi[p]
          /\ pc'[p] = IF pc[p] = "scan" THEN "scanDir"
                      ELSE IF Is(p, "create") THEN "made"
                      ELSE IF hi[p] > mark THEN "mark"
                      ELSE IF Is(p, "delete") THEN "unlink" ELSE "listDir"
      BY <1>0, <2>2 DEF ScanMark, TypeInv
    <3>2. CASE Is(p, "create")
      BY <1>0, <1>1, <1>2, <3>1, <3>2 DEF Keeper, Creates, Is
    <3>3. CASE ~Is(p, "create")
      <4>1. /\ pc[p] = "scanMark" /\ Resets(p)
            /\ pc'[p] = IF hi[p] > mark THEN "mark" ELSE "listDir"
        BY <1>0, <1>2, <1>3, <3>1, <3>3 DEF Keeper, Is
      <4>2. hi[p] \in exists /\ \A t \in issued : t <= hi[p] \/ t <= mark
        BY <4>1 DEF Resets
      <4>3. CASE hi[p] > mark
        <5>1. \A t \in issued : t <= hi[p]
          BY <1>0, <4>2, <4>3
        <5> QED
          BY <1>1, <3>1, <3>3, <4>1, <4>2, <4>3, <5>1 DEF Keeper, Resets, Is
      <4>4. CASE ~(hi[p] > mark)
        <5>1. \A t \in issued : t <= mark
          BY <1>0, <4>2, <4>4
        <5> QED
          BY <1>1, <3>1, <3>3, <4>1, <4>4, <5>1 DEF Keeper, Resets, Is
      <4> QED
        BY <4>3, <4>4
    <3> QED
      BY <3>2, <3>3
  <2>3. CASE Made(p)
    <3>1. /\ pc[p] = "made" /\ pc'[p] = "write" /\ Is(p, "create")
          /\ cur'[p] = Update(NewId(p), Owned(p))
      BY <1>0, <1>3, <2>3 DEF Made, TypeInv
    <3>2. \A t \in issued : t <= hi[p] \/ t <= mk[p]
      BY <1>0, <1>2, <3>1 DEF Keeper, Creates
    <3>3. NewId(p) \notin issued
      BY <1>0, <3>2 DEF NewId
    <3> QED
      BY <1>1, <3>1, <3>3 DEF Keeper, Creates, Is, Update
  <2> QED
    BY <2>1, <2>2, <2>3
<1>5. Holder(p)'
  <2>1. /\ pc'[p] \in {"made", "listDir", "scanMark", "scanDir", "mark", "write"}
        /\ pc'[p] = "write" => Is(p, "create")
    BY <1>0, <1>3 DEF ScanDir, ScanMark, Made, TypeInv
  <2> QED
    BY <1>1, <1>3, <2>1 DEF Holder, HoldsTask, Is, Claiming
<1> QED
  BY <1>0, <1>1, <1>4, <1>5, Looks DEF Step, Is

\* Only a creation takes a new id, and only once its file is written.
LEMMA WritesKeepIds ==
    ASSUME NEW p \in Procs, LockIInv, IdInv, Truncate(p) \/ Fill(p)
    PROVE  IdInv'
<1> USE DEF Goto
<1> DEFINE t == cur[p].task
<1>0. /\ TypeInv /\ Knows(p) /\ Agent(p) /\ Keeper(p) /\ Holder(p) /\ FileInv
      /\ ~Is(p, "delete") /\ t \in Ids /\ issued \subseteq Ids
      /\ \A u \in Ids : u <= u
  BY BoundAssumption
  DEF LockIInv, CurInv, LockInv, IdInv, Undeleted, Knows, Updating, Truncate, Fill, Ids
<1>1. /\ op'[p] = op[p] /\ cur'[p] = cur[p] /\ listLock' = listLock /\ mark' = mark
  BY DEF Truncate, Fill, locks
<1>2. ~Is(p, "delete")'
  BY <1>0, <1>1 DEF Is
<1>3. ~Is(p, "create") => t \in issued
  BY <1>0 DEF Truncate, Fill, Holder, HoldsTask
<1>4. Is(p, "create") => listLock = p /\ Creates(p)
  BY <1>0 DEF Truncate, Fill, Agent, HoldsList, Keeper
<1>5. CASE Truncate(p)
  <2>1. /\ pc[p] = "write" /\ pc'[p] = "fill"
        /\ exists' = exists \union {t} /\ issued' = issued
        /\ writer' = [writer EXCEPT ![t] = p]
    BY <1>0, <1>5 DEF Truncate, TypeInv
  <2>2. \A u \in exists' : writer'[u] = NoProc => u \in exists /\ writer[u] = NoProc
    BY <1>0, <2>1, ProcsAssumption DEF TypeInv
  <2>3. FileInv'
    BY <1>0, <1>1, <2>1, <2>2 DEF FileInv
  <2>4. ~Is(p, "create") => Updates
    BY <1>0, <1>1, <1>3, <2>1, <2>2 DEF Updates, FileInv
  <2>5. Keeper(p)'
    BY <1>1, <1>4, <2>1 DEF Keeper, Resets, Creates, Is
  <2>6. Holder(p)'
    BY <1>1, <1>3, <2>1 DEF Holder, HoldsTask, Is
  <2> QED
    BY <1>0, <1>1, <1>2, <1>4, <1>5, <2>1, <2>3, <2>4, <2>5, <2>6, OwnStep DEF Step
<1>6. CASE Fill(p)
  <2>1. /\ pc[p] = "fill" /\ exists' = exists
        /\ pc'[p] = IF Is(p, "create") THEN "unlockList" ELSE "unlockTask"
        /\ issued' = IF Is(p, "create") THEN issued \union {t} ELSE issued
    BY <1>0, <1>6 DEF Fill, TypeInv
  <2>2. \A u \in exists : writer'[u] = NoProc => writer[u] = NoProc \/ u = t
    BY <1>0, <1>6, <2>1 DEF Fill, TypeInv
  <2>3. t \in issued'
    BY <1>3, <2>1
  <2>4. FileInv'
    <3>1. \A u \in exists' : writer'[u] = NoProc => u \in issued'
      BY <1>0, <2>1, <2>2, <2>3 DEF FileInv
    <3>2. Is(p, "create") => t \in exists
      BY <1>4, <2>1 DEF Creates
    <3>3. \A u \in issued' : u <= mark \/ \E v \in exists : u <= v
      BY <1>0, <2>1, <3>2 DEF FileInv
    <3> QED
      BY <1>1, <2>1, <3>1, <3>3 DEF FileInv
  <2>5. ~Is(p, "create") => Updates
    BY <1>0, <1>1, <1>3, <2>1, <2>2 DEF Updates, FileInv
  <2>6. Keeper(p)'
    BY <1>1, <2>1 DEF Keeper, Resets, Creates, Is
  <2>7. Holder(p)'
    BY <1>1, <1>3, <2>1 DEF Holder, HoldsTask, Is
  <2>8. issued' \subseteq Ids /\ issued \subseteq issued'
    BY <1>0, <2>1
  <2> QED
    BY <1>1, <1>2, <1>4, <1>6, <2>4, <2>5, <2>6, <2>7, <2>8, OwnStep DEF Step
<1> QED
  BY <1>5, <1>6

LEMMA ResetsKeepIds ==
    ASSUME NEW p \in Procs, LockIInv, IdInv,
           TruncateMark(p) \/ FillMark(p) \/ Clear(p)
    PROVE  IdInv'
<1> USE DEF Goto
<1>0. /\ TypeInv /\ Knows(p) /\ Agent(p) /\ Keeper(p) /\ FileInv
      /\ ~Is(p, "delete") /\ issued \subseteq Ids
  BY DEF LockIInv, CurInv, LockInv, IdInv, Undeleted
<1>1. /\ op'[p] = op[p] /\ issued' = issued /\ listLock' = listLock
      /\ hi'[p] = hi[p]
  BY DEF TruncateMark, FillMark, Clear, locks
<1>2. listLock = p
  BY <1>0 DEF TruncateMark, FillMark, Clear, Agent, HoldsList
<1>3. op[p].kind \in {"reset", "hide"} /\ Resets(p)
  <2>1. op[p].kind \in {"reset", "hide"}
    BY <1>0, <1>2 DEF TruncateMark, FillMark, Clear, Agent, ListOwner
  <2> QED
    BY <1>0, <1>2, <2>1 DEF Keeper
<1>4. CASE TruncateMark(p)
  <2>1. /\ pc[p] = "mark" /\ pc'[p] = "fillMark" /\ UNCHANGED <<exists, writer>>
    BY <1>0, <1>4 DEF TruncateMark, TypeInv
  <2>2. hi[p] \in exists /\ \A t \in issued : t <= hi[p]
    BY <1>3, <2>1 DEF Resets
  <2>3. FileInv'
    BY <1>0, <1>1, <2>1, <2>2 DEF FileInv
  <2>4. Keeper(p)' /\ Holder(p)'
    BY <1>1, <1>3, <2>1, <2>2 DEF Keeper, Resets, Is, Holder, HoldsTask
  <2> QED
    BY <1>0, <1>1, <1>2, <1>4, <2>3, <2>4, OwnStep DEF Step, Is
<1>5. CASE FillMark(p)
  <2>1. /\ pc[p] = "fillMark" /\ pc'[p] = "listDir" /\ mark' = hi[p]
        /\ UNCHANGED <<exists, writer>>
    BY <1>0, <1>5 DEF FillMark, TypeInv
  <2>2. \A t \in issued : t <= hi[p]
    BY <1>3, <2>1 DEF Resets
  <2>3. FileInv'
    BY <1>0, <1>1, <2>1, <2>2 DEF FileInv
  <2>4. Keeper(p)' /\ Holder(p)'
    BY <1>1, <1>3, <2>1, <2>2
    DEF Keeper, Resets, Is, Holder, HoldsTask, Claiming
  <2> QED
    BY <1>0, <1>1, <1>2, <1>5, <2>3, <2>4, OwnStep DEF Step, Is
<1>6. CASE Clear(p)
  <2>1. /\ pc[p] = "clear" /\ pc'[p] \in {"clear", "unlockList"} /\ mark' = mark
        /\ exists' \subseteq exists
        /\ \A t \in exists' : writer'[t] = writer[t]
    <3>1. CASE toRead[p] = {}
      BY <1>0, <1>6, <3>1 DEF Clear, TypeInv
    <3>2. CASE toRead[p] # {}
      BY <1>0, <1>6, <3>2 DEF Clear, Remove, TypeInv
    <3> QED
      BY <3>1, <3>2
  <2>2. \A t \in issued : t <= mark
    BY <1>3, <2>1 DEF Resets
  <2>3. FileInv'
    BY <1>0, <1>1, <2>1, <2>2 DEF FileInv
  <2>4. Keeper(p)' /\ Holder(p)'
    BY <1>1, <1>3, <2>1, <2>2 DEF Keeper, Resets, Is, Holder, HoldsTask
  <2> QED
    BY <1>0, <1>1, <1>2, <1>6, <2>3, <2>4, OwnStep DEF Step, Is
<1> QED
  BY <1>4, <1>5, <1>6

LEMMA NextIdInv ==
    ASSUME NoDeletes, LockIInv, IdInv, [Next]_vars
    PROVE  IdInv'
<1>1. CASE UNCHANGED vars
  BY <1>1 DEF vars, disk, locks, IdInv, Undeleted, FileInv, Keeper, Resets, Creates,
              Holder, HoldsTask, Is, Claiming, Owned
<1>2. ASSUME NEW p \in Procs,
             Start(p) \/ Step(p) \/ LockThrows(p) \/ Crash(p) \/ GoStale(p)
      PROVE  IdInv'
  <2>1. ~(DeleteLooked(p) \/ DeleteCascade(p) \/ Unlink(p))
    BY DEF DeleteLooked, DeleteCascade, Unlink, IdInv, Undeleted, LockIInv, CurInv,
           Knows
  <2> QED
    BY <1>2, <2>1, StartKeepsIds, CallersKeepIds, ListingKeepsIds, LockingKeepsIds,
       ScansKeepIds, WritesKeepIds, ResetsKeepIds DEF Step
<1> QED
  BY <1>1, <1>2 DEF Next

LEMMA InitIdInv == Init => IdInv
<1> SUFFICES ASSUME Init PROVE IdInv
  OBVIOUS
<1>1. PICK n \in 0..Initial : exists = 1..n /\ issued = 1..n
  BY DEF Init
<1>2. 1..n \subseteq Ids /\ \A t \in 1..n : t <= t
  BY BoundAssumption DEF Ids
<1>3. FileInv
  BY <1>1, <1>2 DEF FileInv
<1>4. Undeleted /\ \A p \in Procs : Keeper(p) /\ Holder(p)
  BY ProcsAssumption
  DEF Init, Undeleted, Keeper, Holder, HoldsTask, Is, Request
<1> QED
  BY <1>1, <1>2, <1>3, <1>4 DEF IdInv

LEMMA IdsIInvInvariant ==
    ASSUME NoDeletes
    PROVE  Spec => []IdsIInv
<1>1. Init => IdsIInv
  BY TypeInit, CurInit, LockInit, InitIdInv DEF IdsIInv, LockIInv
<1>2. IdsIInv /\ [Next]_vars => IdsIInv'
  BY TypeNext, CurNext, LockNext, NextIdInv DEF IdsIInv, LockIInv
<1> QED
  BY <1>1, <1>2, PTL DEF Spec

\* createTask() gives no id twice, unless some agent deletes single tasks
\* (deleteTask() moves the mark without the list's lock): whatever resets,
\* writes files again that a reset has unlinked, reads a mark that is being
\* rewritten, or crashes between two file operations.
THEOREM FreshIds ==
    ASSUME NoDeletes
    PROVE  Spec => []IdsFresh
<1>1. IdsIInv => IdsFresh
  <2> SUFFICES ASSUME IdsIInv, NEW p \in Procs, pc[p] = "made"
               PROVE  NewId(p) \notin issued
    BY DEF IdsFresh
  <2>1. Agent(p) /\ Keeper(p) /\ ~Is(p, "delete")
    BY DEF IdsIInv, LockIInv, LockInv, IdInv, Undeleted
  <2>2. listLock = p /\ Is(p, "create")
    BY <2>1 DEF Agent, HoldsList, ListOwner
  <2>3. \A t \in issued : t <= hi[p] \/ t <= mk[p]
    BY <2>1, <2>2 DEF Keeper, Creates
  <2>4. hi[p] \in Nat /\ mk[p] \in Nat /\ issued \subseteq Nat
    BY BoundAssumption DEF IdsIInv, LockIInv, TypeInv, IdInv, Ids
  <2> QED
    BY <2>3, <2>4 DEF NewId
<1> QED
  BY <1>1, IdsIInvInvariant, PTL

-----------------------------------------------------------------------------
(* Updates: what is about to be written *)

\* A creation writes a file without that task's lock.  It meets no update where
\* ids are fresh, and where nothing is created.
Exclusive == ~({"create", "delete"} \subseteq Kinds)

Uncreated == \A p \in Procs : Is(p, "create") => pc[p] = "idle"

Separate ==
    \A p \in Procs, q \in Procs :
        /\ Is(p, "create") /\ pc[p] = "fill" /\ q # p /\ HoldsTask(q)
        => cur[p].task # cur[q].task

\* The owner and the status allow agent p to claim task t.
Claimable(p, t) == task[t].owner \in {NoProc, p} /\ task[t].status # "completed"

\* An update is what the file holds with the fields it sets, and a claim is of
\* a task that may still be claimed, as long as the task's lock is held: only a
\* creation writes the file then, and what it writes may be claimed.
Merges(p) == HoldsTask(p) /\ pc[p] \in {"write", "fill"}
               => new[p] = Apply(task[cur[p].task], cur[p].set)

Claims(p) == HoldsTask(p) /\ Claiming(p)
             /\ pc[p] \in {"listDir", "listing", "read", "write"}
               => Claimable(p, cur[p].task)

Blank(p) == Is(p, "create") /\ pc[p] \in {"write", "fill"} => new[p] = NewTask

Merging(p) == (Exclusive => Merges(p)) /\ Claims(p) /\ Blank(p)

MergeInv == \A p \in Procs : Merging(p)

LEMMA KindKept ==
    ASSUME NEW p \in Procs, TypeInv, Step(p) \/ LockThrows(p)
    PROVE  op'[p].kind = op[p].kind
<1>1. CASE op' = op
    BY <1>1
<1>2. ASSUME NEW r, op' = [op EXCEPT ![p].task = r.id]
      PROVE  op'[p].kind = op[p].kind
    <2>1. op[p] \in Operations /\ DOMAIN op = Procs
        BY DEF TypeInv
    <2> QED
        BY <1>2, <2>1 DEF Operations
<1> QED
    BY <1>1, <1>2 DEF Step, LockThrows, ListDir, ListRead, HideChecked, WorkFound,
       ClaimChecked, BusyChecked, UpdateLooked, BlockLooked, UnassignListed,
       DeleteLooked, DeleteCascade, NextUpdate, Check, LockTask, ClaimRead, Read,
       Truncate, Fill, UnlockTask, LockList, UnlockList, ScanDir, ScanMark, Made,
       TruncateMark, FillMark, Clear, Unlink

\* Nobody else but a creation writes the file of a task whose lock is held.
LEMMA OthersMerge ==
    ASSUME NEW p \in Procs, NEW q \in Procs \ {p}, LockIInv, Others(p), Readings(p),
           task' = task \/ Fill(p), Merging(q), Blank(p), Exclusive => Separate
    PROVE  Merging(q)'
<1>1. /\ pc'[q] = pc[q] /\ op'[q] = op[q] /\ cur'[q] = cur[q] /\ new'[q] = new[q]
  BY DEF Others, Readings
<1>2. /\ HoldsTask(q)' <=> HoldsTask(q)
      /\ Claiming(q)' <=> Claiming(q)
  BY <1>1 DEF HoldsTask, Is, Claiming, Owned
<1>3. ASSUME HoldsTask(q)
      PROVE  \/ task'[cur[q].task] = task[cur[q].task]
             \/ ~Exclusive /\ task'[cur[q].task] = NewTask
  <2>1. CASE task' = task
    BY <2>1
  <2>2. CASE Fill(p)
    <3>1. /\ DOMAIN task = Ids /\ cur[p].task \in Ids /\ cur[q].task \in Ids
          /\ taskLock[cur[q].task] = q
      <4>1. cur[q].task \in Ids
        BY <1>3 DEF LockIInv, CurInv, Knows, Updating, HoldsTask, Claiming
      <4> QED
        BY <1>3, <2>2, <4>1 DEF Fill, LockIInv, TypeInv, CurInv, Knows, Updating,
                                LockInv, Agent
    <3>2. \/ task' = task
          \/ task' = [task EXCEPT ![cur[p].task] = new[p]]
      BY <2>2 DEF Fill
    <3>3. CASE Is(p, "create")
      <4>1. new[p] = NewTask /\ (Exclusive => cur[p].task # cur[q].task)
        BY <1>3, <2>2, <3>3 DEF Fill, Blank, Separate
      <4> QED
        BY <3>1, <3>2, <4>1
    <3>4. CASE ~Is(p, "create")
      <4>1. taskLock[cur[p].task] = p
        BY <2>2, <3>4 DEF Fill, LockIInv, LockInv, Agent, HoldsTask
      <4>2. cur[p].task # cur[q].task
        BY <3>1, <4>1
      <4> QED
        BY <3>1, <3>2, <4>2
    <3> QED
      BY <3>3, <3>4
  <2> QED
    BY <2>1, <2>2
<1>4. Claims(q)'
  <2> SUFFICES ASSUME HoldsTask(q), Claiming(q),
                      pc[q] \in {"listDir", "listing", "read", "write"}
               PROVE  Claimable(q, cur[q].task)'
    BY <1>1, <1>2 DEF Claims
  <2>1. Claimable(q, cur[q].task)
    BY DEF Merging, Claims
  <2> QED
    BY <1>1, <1>3, <2>1 DEF Claimable, NewTask
<1>5. (Exclusive => Merges(q))'
  BY <1>1, <1>2, <1>3 DEF Merging, Merges, Exclusive
<1>6. Blank(q)'
  BY <1>1 DEF Merging, Blank, Is
<1> QED
  BY <1>4, <1>5, <1>6 DEF Merging

LEMMA NextMergeInv ==
    ASSUME LockIInv, MergeInv, Exclusive => Separate, [Next]_vars
    PROVE  MergeInv'
<1> USE DEF Goto, Return, Ended
<1>1. CASE UNCHANGED vars
  <2>1. /\ task' = task /\ pc' = pc /\ op' = op /\ cur' = cur /\ new' = new
    BY <1>1 DEF vars, disk
  <2> QED
    BY <2>1 DEF MergeInv, Merging, Merges, Claims, Blank, Claimable, HoldsTask, Is,
                Claiming, Owned, Exclusive
<1>2. ASSUME NEW p \in Procs,
             Start(p) \/ Step(p) \/ LockThrows(p) \/ Crash(p) \/ GoStale(p)
      PROVE  MergeInv'
  <2>0. /\ TypeInv /\ Knows(p) /\ Agent(p) /\ Merging(p)
        /\ Others(p) /\ Readings(p)
    BY <1>2, OthersSteps, ReadingsSteps
    DEF LockIInv, CurInv, LockInv, MergeInv
  <2>1. task' = task \/ Fill(p)
    BY <1>2 DEF Step, disk, Start, ListDir, ListRead, HideChecked, WorkFound,
       ClaimChecked, BusyChecked, UpdateLooked, BlockLooked, UnassignListed,
       DeleteLooked, DeleteCascade, NextUpdate, Check, LockTask, LockThrows,
       ClaimRead, Read, Truncate, UnlockTask, LockList, UnlockList, ScanDir,
       ScanMark, Made, TruncateMark, FillMark, Clear, Unlink, Crash, GoStale
  <2>2. ASSUME Merging(p)' PROVE MergeInv'
    BY <2>0, <2>1, <2>2, OthersMerge DEF MergeInv, Merging
\* Steps that lead to where nothing is merged
  <2>3. ASSUME pc'[p] \in PCs \ {"listDir", "listing", "read", "write", "fill"}
        PROVE  MergeInv'
    <3>1. Merging(p)'
      BY <2>3 DEF Merging, Merges, Claims, Blank, Exclusive
    <3> QED
      BY <2>2, <3>1
  <2>4. CASE Start(p)
    <3>1. PICK r \in Requests :
            /\ op'[p] = r /\ pc'[p] = FirstStep(r.kind)
            /\ cur'[p] = Update(r.task, Owned(p))
      BY <2>0, <2>4 DEF Start, TypeInv
    <3>2. r.kind \in AllKinds /\ (r.kind = "work" => r.task = 0)
      BY <3>1, RequestsType DEF Operations, Requests, Request
    <3>3. ~HoldsTask(p)' /\ pc'[p] \notin {"write", "fill"}
      BY <3>1, <3>2 DEF HoldsTask, Is, Claiming, FirstStep, AllKinds
    <3> QED
      BY <2>2, <3>3 DEF Merging, Merges, Claims, Blank, Exclusive
  <2>5. CASE HideChecked(p) \/ WorkFound(p) \/ BusyChecked(p) \/ UpdateLooked(p)
             \/ BlockLooked(p) \/ UnassignListed(p) \/ NextUpdate(p) \/ Check(p)
             \/ LockThrows(p) \/ UnlockTask(p) \/ UnlockList(p) \/ Crash(p)
             \/ DeleteLooked(p) \/ DeleteCascade(p)
    <3>1. pc \in [Procs -> PCs]
      BY <2>0 DEF TypeInv
    <3>2. CASE HideChecked(p) \/ WorkFound(p) \/ BusyChecked(p) \/ UpdateLooked(p)
      <4>1. pc'[p] \in PCs \ {"listDir", "listing", "read", "write", "fill"}
        BY <3>1, <3>2 DEF HideChecked, WorkFound, BusyChecked, UpdateLooked, PCs
      <4> QED
        BY <2>3, <4>1
    <3>3. CASE BlockLooked(p) \/ UnassignListed(p) \/ NextUpdate(p) \/ Check(p)
      <4>1. pc'[p] \in PCs \ {"listDir", "listing", "read", "write", "fill"}
        BY <3>1, <3>3 DEF BlockLooked, UnassignListed, NextUpdate, Check, PCs
      <4> QED
        BY <2>3, <4>1
    <3>4. CASE LockThrows(p) \/ UnlockTask(p) \/ UnlockList(p) \/ Crash(p)
               \/ DeleteLooked(p) \/ DeleteCascade(p)
      <4>1. pc'[p] \in PCs \ {"listDir", "listing", "read", "write", "fill"}
        BY <3>1, <3>4 DEF LockThrows, UnlockTask, UnlockList, Crash, DeleteLooked,
                          DeleteCascade, PCs
      <4> QED
        BY <2>3, <4>1
    <3> QED
      BY <2>5, <3>2, <3>3, <3>4
  <2>6. CASE GoStale(p)
    BY <2>0, <2>3, <2>6 DEF GoStale, PCs
  <2>7. CASE TruncateMark(p) \/ ScanMark(p) \/ ScanDir(p) \/ FillMark(p) \/ Clear(p)
             \/ LockList(p) \/ Made(p) \/ Unlink(p)
    <3>1. /\ op'[p] = op[p]
          /\ pc[p] \in {"mark", "scan", "scanMark", "scanDir", "fillMark",
                        "clear", "lockList", "made", "unlink"}
          /\ pc'[p] \in {"fillMark", "made", "listDir", "scanMark", "scanDir", "idle",
                         "mark", "unlink", "clear", "unlockList", "scan", "write"}
          /\ pc'[p] = "write" => Made(p)
      BY <2>0, <2>7 DEF TypeInv, TruncateMark, ScanMark, ScanDir, FillMark, Clear,
                        LockList, Made, Unlink, Is
    <3>2. ~Is(p, "work")
      <4>1. CASE pc[p] = "lockList"
        BY <2>0, <4>1 DEF Knows, Locking, Is
      <4>2. CASE pc[p] = "unlink"
        BY <2>0, <4>2 DEF Knows, Is
      <4>3. CASE pc[p] \notin {"lockList", "unlink"}
        BY <2>0, <3>1, <4>3 DEF Agent, HoldsList, ListOwner, Is
      <4> QED
        BY <4>1, <4>2, <4>3
    <3>3. pc[p] = "made" => Is(p, "create")
      BY <2>0 DEF Agent, HoldsList, ListOwner
    <3>4. ~HoldsTask(p)'
      BY <3>1, <3>2, <3>3 DEF HoldsTask, Is, Claiming, Made
    <3>5. Blank(p)'
      BY <2>0, <3>1 DEF Blank, Made, TypeInv
    <3> QED
      BY <2>2, <3>4, <3>5 DEF Merging, Merges, Claims, Exclusive
  <2>8. CASE LockTask(p)
    <3>1. /\ pc'[p] = IF Claiming(p) THEN "claim" ELSE "read"
          /\ op'[p] = op[p] /\ cur'[p] = cur[p]
      BY <2>0, <2>8 DEF LockTask, TypeInv
    <3>2. Claiming(p)' <=> Claiming(p)
      BY <3>1 DEF Claiming, Is, Owned
    <3> QED
      BY <2>2, <3>1, <3>2 DEF Merging, Merges, Claims, Blank, Exclusive
  <2>9. CASE ListDir(p) \/ ListRead(p) \/ ClaimChecked(p) \/ ClaimRead(p) \/ Read(p)
             \/ Truncate(p) \/ Fill(p)
    <3>1. /\ op'[p] = op[p] /\ cur'[p] = cur[p]
      BY <2>9 DEF ListDir, ListRead, ClaimChecked, ClaimRead, Read, Truncate, Fill
    <3>2. Claiming(p)' <=> Claiming(p)
      BY <3>1 DEF Claiming, Is, Owned
    <3>3. CASE ListDir(p) \/ ListRead(p)
      <4>1. /\ pc[p] \in {"listDir", "listing"} /\ task' = task
            /\ pc'[p] \in {"listing", "clear"}
        BY <2>0, <3>3 DEF ListDir, ListRead, TypeInv, disk
      <4>2. HoldsTask(p)' => HoldsTask(p)
        BY <3>1, <3>2, <4>1 DEF HoldsTask
      <4> QED
        BY <2>0, <2>2, <3>1, <3>2, <4>1, <4>2 DEF Merging, Merges, Claims, Blank, Exclusive, Claimable
    <3>4. CASE ClaimChecked(p)
      <4>1. /\ pc[p] = "listing" /\ task' = task /\ HoldsTask(p)
            /\ pc'[p] \in {"read", "unlockTask"}
        BY <2>0, <3>4 DEF ClaimChecked, Listed, TypeInv, disk, HoldsTask
      <4> QED
        BY <2>0, <2>2, <3>1, <3>2, <4>1 DEF Merging, Merges, Claims, Blank, Exclusive, Claimable
    <3>5. CASE ClaimRead(p)
      <4>1. /\ pc'[p] \in {"listDir", "unlockTask"} /\ task' = task
            /\ pc'[p] = "listDir" => Claimable(p, cur[p].task)
        BY <2>0, <3>5 DEF ClaimRead, TypeInv, disk, Claimable
      <4> QED
        BY <2>2, <3>1, <4>1 DEF Merging, Merges, Claims, Blank, Exclusive, Claimable
    <3>6. CASE Read(p)
      <4>1. /\ pc[p] = "read" /\ task' = task /\ HoldsTask(p) /\ ~Is(p, "create")
            /\ pc'[p] \in {"write", "unlockTask"}
            /\ pc'[p] = "write" => new'[p] = Apply(task[cur[p].task], cur[p].set)
        BY <2>0, <3>6 DEF Read, TypeInv, disk, HoldsTask, Knows, Creating
      <4>2. (Exclusive => Merges(p))' /\ Blank(p)'
        BY <3>1, <4>1 DEF Merges, Blank, Is, Exclusive
      <4>3. Claims(p)'
        BY <2>0, <3>1, <3>2, <4>1 DEF Merging, Claims, Claimable
      <4> QED
        BY <2>2, <4>2, <4>3 DEF Merging
    <3>7. CASE Truncate(p)
      <4>1. /\ pc[p] = "write" /\ pc'[p] = "fill" /\ task' = task /\ new' = new
            /\ HoldsTask(p)' <=> HoldsTask(p)
        BY <2>0, <3>1, <3>7 DEF Truncate, TypeInv, HoldsTask, Is
      <4>2. (Exclusive => Merges(p))' /\ Blank(p)'
        BY <2>0, <3>1, <4>1 DEF Merging, Merges, Blank, Is, Exclusive
      <4>3. Claims(p)'
        BY <4>1 DEF Claims
      <4> QED
        BY <2>2, <4>2, <4>3 DEF Merging
    <3>8. CASE Fill(p)
      <4>1. pc'[p] \in {"unlockTask", "unlockList"}
        BY <2>0, <3>8 DEF Fill, TypeInv
      <4> QED
        BY <2>3, <4>1 DEF PCs
    <3> QED
      BY <2>9, <3>3, <3>4, <3>5, <3>6, <3>7, <3>8
  <2> QED
    BY <1>2, <2>4, <2>5, <2>6, <2>7, <2>8, <2>9 DEF Step
<1> QED
  BY <1>1, <1>2 DEF Next

\* The file a creation writes is that of no task whose lock is held.
LEMMA SeparateInvariant ==
    ASSUME Exclusive
    PROVE  Spec => []Separate
<1>1. CASE NoDeletes
  <2>1. IdsIInv => Separate
    <3> SUFFICES ASSUME IdsIInv, NEW p \in Procs, NEW q \in Procs, Is(p, "create"),
                        pc[p] = "fill", HoldsTask(q)
                 PROVE  cur[p].task # cur[q].task
      BY DEF Separate
    <3>1. listLock = p
      BY DEF IdsIInv, LockIInv, LockInv, Agent, HoldsList
    <3>2. cur[p].task \notin issued /\ cur[q].task \in issued
      BY <3>1 DEF IdsIInv, IdInv, Keeper, Creates, Holder
    <3> QED
      BY <3>2
  <2> QED
    BY <1>1, <2>1, IdsIInvInvariant, PTL
<1>2. CASE ~NoDeletes
  <2>1. "create" \notin Kinds
    BY <1>2 DEF Exclusive, NoDeletes
  <2>2. Init => Uncreated
    BY DEF Init, Uncreated
  <2>3. LockIInv /\ Uncreated /\ [Next]_vars => Uncreated'
    <3> SUFFICES ASSUME LockIInv, Uncreated, [Next]_vars PROVE Uncreated'
      OBVIOUS
    <3>1. CASE UNCHANGED vars
      BY <3>1 DEF vars, Uncreated, Is
    <3>2. ASSUME NEW p \in Procs,
                 Start(p) \/ Step(p) \/ LockThrows(p) \/ Crash(p) \/ GoStale(p)
          PROVE  Uncreated'
      <4>0. TypeInv /\ Others(p)
        BY <3>2, OthersSteps DEF LockIInv
      <4>1. CASE Start(p)
        <5>1. op'[p].kind # "create"
          BY <2>1, <4>0, <4>1 DEF Start, TypeInv
        <5> QED
          BY <4>0, <5>1 DEF Uncreated, Others, Is
      <4>2. CASE Step(p) \/ LockThrows(p)
        <5>1. op'[p].kind = op[p].kind
          BY <4>0, <4>2, KindKept
        <5>2. pc[p] # "idle"
          BY <4>2 DEF Step, LockThrows, ListDir, ListRead, HideChecked, WorkFound,
             ClaimChecked, BusyChecked, UpdateLooked, BlockLooked, UnassignListed,
             DeleteLooked, DeleteCascade, NextUpdate, Check, LockTask, ClaimRead,
             Read, Truncate, Fill, UnlockTask, LockList, UnlockList, ScanDir,
             ScanMark, Made, TruncateMark, FillMark, Clear, Unlink, Listed
        <5> QED
          BY <4>0, <5>1, <5>2 DEF Uncreated, Others, Is
      <4>3. CASE Crash(p) \/ GoStale(p)
        BY <4>0, <4>3 DEF Crash, GoStale, Uncreated, Is, Goto, TypeInv
      <4> QED
        BY <3>2, <4>1, <4>2, <4>3
    <3> QED
      BY <3>1, <3>2 DEF Next
  <2>4. Uncreated => Separate
    BY DEF Uncreated, Separate
  <2> QED
    BY <2>2, <2>3, <2>4, LockIInvInvariant, PTL DEF Spec
<1> QED
  BY <1>1, <1>2

LEMMA MergeInvariant == Spec => [](LockIInv /\ MergeInv)
<1>1. Init => MergeInv
  BY DEF Init, MergeInv, Merging, Merges, Claims, Blank
<1>2. CASE Exclusive
  <2>1. LockIInv /\ MergeInv /\ Separate /\ [Next]_vars => MergeInv'
    BY NextMergeInv
  <2> QED
    BY <1>1, <1>2, <2>1, SeparateInvariant, LockIInvInvariant, PTL DEF Spec
<1>3. CASE ~Exclusive
  <2>1. LockIInv /\ MergeInv /\ [Next]_vars => MergeInv'
    BY <1>3, NextMergeInv
  <2> QED
    BY <1>1, <2>1, LockIInvInvariant, PTL DEF Spec
<1> QED
  BY <1>2, <1>3

\* updateTask() writes the whole task back and yet undoes no other agent's
\* update: what it is about to write is the file as it still is with just its
\* own fields changed, even if the file was unlinked or created again since.
\* Only where single tasks are deleted and others created at a time may an id be
\* given twice, and a creation write over a file that is being updated.
THEOREM UpdatesKept ==
    ASSUME Exclusive
    PROVE  Spec => []NoLostUpdate
<1>1. MergeInv => NoLostUpdate
  BY DEF MergeInv, Merging, Merges, NoLostUpdate
<1> QED
  BY <1>1, MergeInvariant, PTL

\* A claim is only written over a task that has no other owner and is not
\* completed: of any number of teammates whose listings show the same free
\* task, those that come later see the claim of the first, whatever else is
\* created, deleted, reset or crashes.
THEOREM OneClaim == Spec => []ClaimExclusive
<1>1. MergeInv => ClaimExclusive
  <2> SUFFICES ASSUME MergeInv, NEW p \in Procs, pc[p] = "write", Claiming(p)
               PROVE  Claimable(p, cur[p].task)
    BY DEF ClaimExclusive, Claimable
  <2>1. HoldsTask(p)
    BY DEF HoldsTask, Claiming, Is
  <2> QED
    BY <2>1 DEF MergeInv, Merging, Claims
<1> QED
  BY <1>1, MergeInvariant, PTL

-----------------------------------------------------------------------------
(* The rest of the types: what the files hold, and what is read and written *)

\* The fields that an update sets fit a task.
Fits(set) == \A r \in Tasks : Apply(r, set) \in Tasks

ValueInv ==
    /\ task \in [Ids -> Tasks]
    /\ issued \subseteq Ids
    /\ ops \in 0..MaxOps
    /\ \A p \in Procs :
        /\ new[p] \in Tasks
        /\ cur[p].task \in 0..MaxId /\ Fits(cur[p].set)
        /\ \A r \in snap[p] : r.task \in Tasks
        /\ \A u \in todo[p] : Fits(u.set)

LEMMA OwnerFits == \A a \in Procs \union {NoProc} : Fits([owner |-> a])
BY DEF Fits, Apply, Fields, Tasks

LEMMA StatusFits == \A s \in Statuses : Fits([status |-> s])
BY DEF Fits, Apply, Fields, Tasks

LEMMA BothFit ==
    \A a \in Procs \union {NoProc}, s \in Statuses : Fits([owner |-> a, status |-> s])
BY DEF Fits, Apply, Fields, Tasks

LEMMA BlocksFit == \A B \in SUBSET Ids : Fits([blocks |-> B])
BY DEF Fits, Apply, Fields, Tasks

LEMMA BlockedByFits == \A B \in SUBSET Ids : Fits([blockedBy |-> B])
BY DEF Fits, Apply, Fields, Tasks

LEMMA ReferencesFit ==
    \A B, C \in SUBSET Ids : Fits([blocks |-> B, blockedBy |-> C])
BY DEF Fits, Apply, Fields, Tasks

LEMMA NewTaskType == NewTask \in Tasks
BY DEF NewTask, Tasks, Statuses

LEMMA ValueInit == Init => ValueInv
<1> SUFFICES ASSUME Init PROVE ValueInv
  OBVIOUS
<1>1. issued \subseteq Ids /\ ops \in 0..MaxOps
  BY BoundAssumption DEF Init, Ids
<1>2. task \in [Ids -> Tasks]
  <2>1. ASSUME 2 \in exists PROVE 1 \in Ids /\ 2 \in Ids
    BY <2>1, BoundAssumption DEF Init, Ids
  <2>2. ASSUME 2 \in exists
        PROVE  /\ [NewTask EXCEPT !.blocks = {2}] \in Tasks
               /\ [NewTask EXCEPT !.blockedBy = {1}] \in Tasks
    BY <2>1, <2>2, NewTaskType DEF Tasks
  <2> QED
    BY <2>1, <2>2, NewTaskType DEF Init
<1>3. \A p \in Procs : /\ new[p] \in Tasks /\ cur[p].task \in 0..MaxId
                       /\ Fits(cur[p].set) /\ snap[p] = {} /\ todo[p] = {}
  BY NewTaskType, OwnerFits, BoundAssumption DEF Init, Update, Owned
<1> QED
  BY <1>1, <1>2, <1>3 DEF ValueInv

LEMMA ValueNext ==
    ASSUME TypeInv, CurInv, ValueInv, [Next]_vars
    PROVE  ValueInv'
<1> USE BoundAssumption DEF TypeInv, ValueInv, Return, Update, disk, locks
<1>1. CASE UNCHANGED vars
  BY <1>1 DEF vars
<1>2. ASSUME NEW p \in Procs, Start(p) PROVE ValueInv'
  <2>1. PICK r \in Requests : cur' = [cur EXCEPT ![p] = Update(r.task, Owned(p))]
    BY <1>2 DEF Start
  <2>2. r.task \in 0..MaxId /\ Fits(Owned(p))
    BY RequestsType, OwnerFits DEF Operations, Owned
  <2>3. ops' \in 0..MaxOps
    BY <1>2 DEF Start
  <2>4. UNCHANGED <<task, issued, todo>> /\ new' = [new EXCEPT ![p] = NewTask]
        /\ snap' = [snap EXCEPT ![p] = {}]
    BY <1>2 DEF Start
  <2> QED
    BY <2>1, <2>2, <2>3, <2>4, NewTaskType
\* Listings
<1>3. ASSUME NEW p \in Procs, ListDir(p) PROVE ValueInv'
  BY <1>3 DEF ListDir
<1>4. ASSUME NEW p \in Procs, ListRead(p) PROVE ValueInv'
  <2>1. PICK t \in toRead[p] :
          snap' = [snap EXCEPT ![p] =
                    @ \cup (IF Readable(t) THEN {[id |-> t, task |-> task[t]]} ELSE {})]
    BY <1>4 DEF ListRead
  <2>2. task[t] \in Tasks
    OBVIOUS
  <2>3. \A q \in Procs : \A r \in snap'[q] : r.task \in Tasks
    BY <2>1, <2>2
  <2>4. UNCHANGED <<task, issued, ops, new, cur, todo>>
    BY <1>4 DEF ListRead
  <2> QED
    BY <2>3, <2>4
\* What is decided on a listing
<1>5. ASSUME NEW p \in Procs, WorkFound(p) PROVE ValueInv'
  <2>1. CASE cur' = cur
    BY <1>5, <2>1 DEF WorkFound
  <2>2. CASE cur' # cur
    <3>1. PICK r \in Available(snap[p]) : cur' = [cur EXCEPT ![p] = Update(r.id, Owned(p))]
      BY <1>5, <2>2 DEF WorkFound
    <3>2. r.id \in 0..MaxId /\ Fits(Owned(p))
      BY OwnerFits DEF Available, Ids, Owned
    <3> QED
      BY <1>5, <3>1, <3>2 DEF WorkFound
  <2> QED
    BY <2>1, <2>2
<1>6. ASSUME NEW p \in Procs, ClaimChecked(p) PROVE ValueInv'
  <2>1. \A q \in Procs : \A u \in todo'[q] : Fits(u.set)
    <3>1. CASE todo' = todo
      BY <3>1
    <3>2. CASE todo' # todo
      <4>1. PICK sets \in {{[status |-> "in_progress"]}, {}, {[owner |-> NoProc]}} :
              todo' = [todo EXCEPT ![p] = {Update(op[p].task, s) : s \in sets}]
        BY <1>6, <3>2 DEF ClaimChecked
      <4>2. \A s \in sets : Fits(s)
        BY OwnerFits, StatusFits DEF Statuses
      <4> QED
        BY <4>1, <4>2
    <3> QED
      BY <3>1, <3>2
  <2> QED
    BY <1>6, <2>1 DEF ClaimChecked
<1>7. ASSUME NEW p \in Procs, UpdateLooked(p) PROVE ValueInv'
  <2>1. CASE todo' = [todo EXCEPT ![p] = {}]
    BY <1>7, <2>1 DEF UpdateLooked
  <2>2. CASE todo' # [todo EXCEPT ![p] = {}]
    <3> DEFINE Starts(x) == IF x.task.status = "in_progress" THEN {}
                            ELSE IF x.task.owner = NoProc
                            THEN {[status |-> "in_progress", owner |-> p]}
                            ELSE {[status |-> "in_progress"]}
    <3> DEFINE Sets(x) ==
                 {[owner |-> a] : a \in Procs \ {x.task.owner}} \cup
                 (IF x.task.status # "completed"
                  THEN {[status |-> "completed"]} ELSE {}) \cup
                 (IF x.task.status # "pending"
                  THEN {[status |-> "pending"]} ELSE {}) \cup Starts(x)
    <3>0. PICK r \in snap[p] :
            \E set \in Sets(r) : todo' = [todo EXCEPT ![p] = {Update(r.id, set)}]
      BY <1>7, <2>2 DEF UpdateLooked
    <3>1. PICK set \in Sets(r) : todo' = [todo EXCEPT ![p] = {Update(r.id, set)}]
      BY <3>0
    <3>a. \A s \in Starts(r) : Fits(s)
      BY StatusFits, BothFit DEF Statuses
    <3>b. \A a \in Procs \ {r.task.owner} : Fits([owner |-> a])
      BY OwnerFits
    <3>c. Fits([status |-> "completed"]) /\ Fits([status |-> "pending"])
      BY StatusFits DEF Statuses
    <3> HIDE DEF Starts
    <3>2. \/ \E a \in Procs \ {r.task.owner} : set = [owner |-> a]
          \/ set = [status |-> "completed"]
          \/ set = [status |-> "pending"]
          \/ set \in Starts(r)
      OBVIOUS
    <3>3. Fits(set)
      BY <3>2, <3>a, <3>b, <3>c
    <3>4. \A q \in Procs : \A u \in todo'[q] : Fits(u.set)
      BY <3>1, <3>3
    <3> QED
      BY <1>7, <3>4 DEF UpdateLooked
  <2> QED
    BY <2>1, <2>2
<1>8. ASSUME NEW p \in Procs, BlockLooked(p) PROVE ValueInv'
  <2>1. CASE Cardinality(snap[p]) < 2
    BY <1>8, <2>1 DEF BlockLooked
  <2>2. CASE ~(Cardinality(snap[p]) < 2)
    <3> DEFINE a == op[p].task
               b == op[p].other
    <3>1. PICK ra \in snap[p], rb \in snap[p] :
            /\ ra.id = a /\ rb.id = b
            /\ todo' = [todo EXCEPT ![p] =
                 IF a \in rb.task.blockedBy THEN {}
                 ELSE {Update(b, [blockedBy |-> rb.task.blockedBy \cup {a}])}]
            /\ \/ cur' = cur
               \/ cur' = [cur EXCEPT ![p] =
                            Update(a, [blocks |-> ra.task.blocks \cup {b}])]
      BY <1>8, <2>2 DEF BlockLooked
    <3>2. a \in Ids /\ b \in Ids
      BY <3>1
    <3>3. /\ ra.task.blocks \cup {b} \in SUBSET Ids
          /\ rb.task.blockedBy \cup {a} \in SUBSET Ids
      BY <3>2 DEF Tasks
    <3>4. /\ Fits([blocks |-> ra.task.blocks \cup {b}])
          /\ Fits([blockedBy |-> rb.task.blockedBy \cup {a}])
      BY <3>3, BlocksFit, BlockedByFits
    <3>5. \A q \in Procs : \A u \in todo'[q] : Fits(u.set)
      <4>1. CASE a \in rb.task.blockedBy
        BY <3>1, <4>1
      <4>2. CASE a \notin rb.task.blockedBy
        <5>1. PICK set : set = [blockedBy |-> rb.task.blockedBy \cup {a}]
          OBVIOUS
        <5>2. todo' = [todo EXCEPT ![p] = {Update(b, set)}]
          BY <3>1, <4>2, <5>1
        <5>3. Fits(set)
          BY <3>4, <5>1
        <5> QED
          BY <5>2, <5>3
      <4> QED
        BY <4>1, <4>2
    <3>6. \A q \in Procs : cur'[q].task \in 0..MaxId /\ Fits(cur'[q].set)
      <4>1. a \in 0..MaxId
        BY <3>2 DEF Ids
      <4>2. CASE cur' = cur
        BY <4>2
      <4>3. CASE cur' = [cur EXCEPT ![p] =
                           Update(a, [blocks |-> ra.task.blocks \cup {b}])]
        <5>1. cur'[p].task = a /\ cur'[p].set = [blocks |-> ra.task.blocks \cup {b}]
          BY <4>3
        <5>2. \A q \in Procs \ {p} : cur'[q] = cur[q]
          BY <4>3
        <5> QED
          BY <3>4, <4>1, <5>1, <5>2
      <4> QED
        BY <3>1, <4>2, <4>3
    <3> QED
      BY <1>8, <3>5, <3>6 DEF BlockLooked
  <2> QED
    BY <2>1, <2>2
<1>9. ASSUME NEW p \in Procs, UnassignListed(p) PROVE ValueInv'
  <2>1. Fits([owner |-> NoProc, status |-> "pending"])
    BY BothFit DEF Statuses
  <2>2. \A q \in Procs : \A u \in todo'[q] : Fits(u.set)
    BY <1>9, <2>1 DEF UnassignListed
  <2> QED
    BY <1>9, <2>2 DEF UnassignListed
<1>10. ASSUME NEW p \in Procs, DeleteCascade(p) PROVE ValueInv'
  <2> DEFINE t == op[p].task
  <2>1. ASSUME NEW r \in snap[p]
        PROVE  Fits([blocks |-> r.task.blocks \ {t}, blockedBy |-> r.task.blockedBy \ {t}])
    <3>1. r.task.blocks \ {t} \in SUBSET Ids /\ r.task.blockedBy \ {t} \in SUBSET Ids
      BY DEF Tasks
    <3> QED
      BY <3>1, ReferencesFit
  <2>2. \A q \in Procs : \A u \in todo'[q] : Fits(u.set)
    BY <1>10, <2>1 DEF DeleteCascade
  <2> QED
    BY <1>10, <2>2 DEF DeleteCascade
<1>11. ASSUME NEW p \in Procs, NextUpdate(p) PROVE ValueInv'
  <2>1. CASE todo[p] = {}
    BY <1>11, <2>1 DEF NextUpdate
  <2>2. CASE todo[p] # {}
    <3>1. PICK u \in todo[p] : /\ cur' = [cur EXCEPT ![p] = u]
                               /\ todo' = [todo EXCEPT ![p] = @ \ {u}]
      BY <1>11, <2>2 DEF NextUpdate
    <3>2. u.task \in 0..MaxId /\ Fits(u.set)
      BY <3>1 DEF Ids
    <3> QED
      BY <1>11, <3>1, <3>2 DEF NextUpdate
  <2> QED
    BY <2>1, <2>2
\* Updates
<1>12. ASSUME NEW p \in Procs, ClaimRead(p) \/ Read(p) PROVE ValueInv'
  <2>1. cur[p].task \in Ids /\ task[cur[p].task] \in Tasks
    BY <1>12 DEF ClaimRead, Read, CurInv, Knows, Updating
  <2>2. Apply(task[cur[p].task], cur[p].set) \in Tasks
    BY <2>1 DEF Fits
  <2>3. \A q \in Procs : new'[q] \in Tasks
    BY <1>12, <2>1, <2>2 DEF ClaimRead, Read
  <2> QED
    BY <1>12, <2>3 DEF ClaimRead, Read
<1>13. ASSUME NEW p \in Procs, Fill(p) PROVE ValueInv'
  <2>1. cur[p].task \in Ids
    BY <1>13 DEF Fill, CurInv, Knows, Updating
  <2>2. task' \in [Ids -> Tasks] /\ issued' \subseteq Ids
    BY <1>13, <2>1 DEF Fill
  <2> QED
    BY <1>13, <2>2 DEF Fill
<1>14. ASSUME NEW p \in Procs, Made(p) PROVE ValueInv'
  <2>1. NewId(p) \in 0..MaxId /\ Fits(Owned(p))
    BY <1>14, OwnerFits DEF Made, Ids, Owned
  <2> QED
    BY <1>14, <2>1, NewTaskType DEF Made
\* The rest reads and writes no tasks
<1>15. ASSUME NEW p \in Procs,
              \/ HideChecked(p) \/ BusyChecked(p) \/ DeleteLooked(p) \/ Check(p)
              \/ LockTask(p) \/ LockThrows(p) \/ Truncate(p) \/ UnlockTask(p)
              \/ LockList(p) \/ UnlockList(p) \/ ScanDir(p) \/ ScanMark(p)
              \/ TruncateMark(p) \/ FillMark(p) \/ Clear(p) \/ Unlink(p)
              \/ Crash(p) \/ GoStale(p)
       PROVE  ValueInv'
  <2>1. UNCHANGED <<task, issued, ops, new, cur, snap>>
    BY <1>15 DEF HideChecked, BusyChecked, DeleteLooked, Check, LockTask, LockThrows,
       Truncate, UnlockTask, LockList, UnlockList, ScanDir, ScanMark, TruncateMark,
       FillMark, Clear, Unlink, Crash, GoStale
  <2>2. todo' = todo \/ todo' = [todo EXCEPT ![p] = {}]
    BY <1>15 DEF HideChecked, BusyChecked, DeleteLooked, Check, LockTask, LockThrows,
       Truncate, UnlockTask, LockList, UnlockList, ScanDir, ScanMark, TruncateMark,
       FillMark, Clear, Unlink, Crash, GoStale
  <2> QED
    BY <2>1, <2>2
<1> QED
  BY <1>1, <1>2, <1>3, <1>4, <1>5, <1>6, <1>7, <1>8, <1>9, <1>10, <1>11, <1>12, <1>13,
     <1>14, <1>15 DEF Next, Step

\* Every variable holds a value of its kind: an update that is read from one
\* listing and merged into the file of another state is still a task, and ids
\* stay within the bounds, deletions and crashes included.
THEOREM TypeCorrect == Spec => []TypeOK
<1> DEFINE All == LockIInv /\ ValueInv
<1>1. Init => All
  BY TypeInit, CurInit, LockInit, ValueInit DEF LockIInv
<1>2. All /\ [Next]_vars => All'
  BY TypeNext, CurNext, LockNext, ValueNext DEF LockIInv
<1>3. All => TypeOK
  BY DEF LockIInv, TypeInv, ValueInv, TypeOK, Operations
<1> QED
  BY <1>1, <1>2, <1>3, PTL DEF Spec

-----------------------------------------------------------------------------
(***************************************************************************)
(* References.  One agent alone keeps "blocks" and "blockedBy" mirrored,   *)
(* through operations that write several files: at each of their steps     *)
(* there is a list F in which they are mirrored, and to which the updates  *)
(* that are still to be made lead.                                         *)
(***************************************************************************)
SameRefs(r, s) == r.blocks = s.blocks /\ r.blockedBy = s.blockedBy

Mirror(T, E) ==
    \A t \in E :
        /\ T[t].blocks \cup T[t].blockedBy \subseteq E
        /\ \A u \in E : u \in T[t].blocks <=> t \in T[u].blockedBy

\* An update that does not touch the references
Plain(set) == "blocks" \notin DOMAIN set /\ "blockedBy" \notin DOMAIN set

\* The updates in P turn the references of the tasks T into those of F, in
\* whatever order they are made.
Leads(F, T, E, P) ==
    /\ Mirror(F, E)
    /\ \A t \in E : SameRefs(T[t], F[t]) \/ \E u \in P : u.task = t
    /\ \A u \in P : /\ u.task \in E
                    /\ SameRefs(Apply(T[u.task], u.set), F[u.task])
                    /\ SameRefs(Apply(F[u.task], u.set), F[u.task])

\* What deleteTask() is about to do to the other tasks
Forget(T, x, t) == Update(x, [blocks    |-> T[x].blocks \ {t},
                              blockedBy |-> T[x].blockedBy \ {t}])
Cascade(T, E, t) ==
    {Forget(T, x, t) : x \in {y \in E : t \in T[y].blocks \cup T[y].blockedBy}}

Referring(p) == op[p].kind \in {"block", "delete"}
Working(p)   == pc[p] \in {"check", "lockTask", "read", "write", "fill"}
Cascades(p)  == /\ Is(p, "delete")
                /\ pc[p] = "listDir" \/ (pc[p] = "listing" /\ hi[p] # 0)

\* The updates of an operation that are still to be made
Pending(p) ==
    todo[p] \cup (IF Working(p) THEN {cur[p]} ELSE {})
            \cup (IF Cascades(p) THEN Cascade(task, exists, op[p].task) ELSE {})

\* The tasks: the file that createTask() has opened is none yet.
Files(p) == IF Is(p, "create") /\ pc[p] = "fill" THEN exists \ {cur[p].task}
                                                 ELSE exists

Settled(p) ==
    IF Referring(p)
    THEN \E F : Leads(F, task, exists, Pending(p))
    ELSE /\ pc[p] # "clear" => Mirror(task, Files(p))
         /\ Plain(cur[p].set)
         /\ \A u \in todo[p] : Plain(u.set)

\* While it is alone, nothing happens to what an agent has read.
Carry   == {"next", "check", "lockTask", "read", "write", "fill", "unlockTask"}
Deletes == {"scanMark", "mark", "fillMark", "unlink", "listDir"}

Place(p) ==
    /\ pc[p] # "crashed"
    /\ \A t \in Ids :
          writer[t] = IF pc[p] = "fill" /\ cur[p].task = t THEN p ELSE NoProc
    /\ \/ todo[p] = {}
       \/ op[p].kind \notin {"create", "claimBusy"} /\ pc[p] \in Carry
       \/ Is(p, "work") /\ op[p].task # 0 /\ pc[p] \in {"claim", "listDir", "listing"}
    /\ pc[p] \in {"write", "fill"} /\ ~Is(p, "create") =>
          cur[p].task \in exists /\ new[p] = Apply(task[cur[p].task], cur[p].set)
    /\ Is(p, "create") =>
          /\ pc[p] \in {"scanMark", "made"} => \A t \in exists : t <= hi[p]
          /\ pc[p] = "write" => cur[p].task \notin exists
          /\ pc[p] = "fill" => cur[p].task \in exists
          /\ pc[p] \in {"write", "fill"} => new[p] = NewTask
    /\ pc[p] = "clear" => toRead[p] = exists

Refers(p) ==
    /\ Is(p, "block") => /\ op[p].task # op[p].other
                         /\ pc[p] \in Carry \cup {"idle", "listing"}
    /\ Is(p, "delete") => /\ op[p].task \in Ids
                          /\ pc[p] \in Carry \cup Deletes \cup {"idle", "listing"}
                          /\ pc[p] \in Deletes => hi[p] = op[p].task
    /\ Referring(p) /\ pc[p] = "listing" =>
          \A r \in snap[p] : r.id \in exists /\ r.task = task[r.id]
    /\ Is(p, "delete") /\ pc[p] = "listing" /\ hi[p] # 0 =>
          \A x \in exists \ toRead[p] : [id |-> x, task |-> task[x]] \in snap[p]

AloneInv(p) == Place(p) /\ Refers(p) /\ Settled(p)

(* The operators *)

LEMMA ApplyPlain ==
    ASSUME NEW r, NEW set, Plain(set)
    PROVE  SameRefs(Apply(r, set), r)
BY DEF Plain, SameRefs, Apply, Fields

LEMMA ApplySame ==
    ASSUME NEW r, NEW s, NEW set, SameRefs(r, s)
    PROVE  SameRefs(Apply(r, set), Apply(s, set))
BY DEF SameRefs, Apply, Fields

LEMMA MirrorSame ==
    ASSUME NEW T, NEW S, NEW E, Mirror(T, E), \A t \in E : SameRefs(S[t], T[t])
    PROVE  Mirror(S, E)
BY DEF Mirror, SameRefs

LEMMA NothingPending ==
    ASSUME NEW F, NEW T, NEW E, Leads(F, T, E, {})
    PROVE  Mirror(T, E)
BY MirrorSame DEF Leads

LEMMA AlreadyThere ==
    ASSUME NEW T, NEW E, Mirror(T, E)
    PROVE  Leads(T, T, E, {})
BY DEF Leads, SameRefs

\* One of the updates is made.
LEMMA OneUpdate ==
    ASSUME NEW T \in [Ids -> Tasks], NEW E \in SUBSET Ids, NEW F, NEW P, NEW u,
           Leads(F, T, E, P \cup {u})
    PROVE  Leads(F, [T EXCEPT ![u.task] = Apply(T[u.task], u.set)], E, P)
<1> DEFINE S == [T EXCEPT ![u.task] = Apply(T[u.task], u.set)]
<1>1. /\ u.task \in Ids /\ SameRefs(S[u.task], F[u.task])
      /\ \A t \in E : t # u.task => S[t] = T[t]
    BY DEF Leads
<1> HIDE DEF S
<1>2. ASSUME NEW t \in E PROVE SameRefs(S[t], F[t]) \/ \E v \in P : v.task = t
    BY <1>1 DEF Leads
<1>3. ASSUME NEW v \in P
      PROVE  /\ v.task \in E
             /\ SameRefs(Apply(S[v.task], v.set), F[v.task])
             /\ SameRefs(Apply(F[v.task], v.set), F[v.task])
    <2>1. /\ v.task \in E
          /\ SameRefs(Apply(T[v.task], v.set), F[v.task])
          /\ SameRefs(Apply(F[v.task], v.set), F[v.task])
        BY DEF Leads
    <2>2. CASE v.task # u.task
        BY <1>1, <2>1, <2>2
    <2>3. CASE v.task = u.task
        <3>1. SameRefs(Apply(S[v.task], v.set), Apply(F[v.task], v.set))
            BY <1>1, <2>3, ApplySame
        <3> QED
            BY <2>1, <3>1 DEF SameRefs
    <2> QED
        BY <2>2, <2>3
<1> QED
    BY <1>2, <1>3 DEF Leads, S

\* A task is created with no references, a plain update changes none.
LEMMA NewFile ==
    ASSUME NEW T \in [Ids -> Tasks], NEW E \in SUBSET Ids, Mirror(T, E),
           NEW n \in Ids, n \notin E
    PROVE  Mirror([T EXCEPT ![n] = NewTask], E \cup {n})
<1> DEFINE S == [T EXCEPT ![n] = NewTask]
<1>1. /\ S[n].blocks = {} /\ S[n].blockedBy = {}
      /\ \A t \in E : S[t] = T[t]
    BY DEF NewTask
<1> HIDE DEF S
<1>2. Mirror(S, E \cup {n})
    BY <1>1 DEF Mirror
<1> QED
    BY <1>2 DEF S

LEMMA PlainUpdate ==
    ASSUME NEW T \in [Ids -> Tasks], NEW E \in SUBSET Ids, Mirror(T, E),
           NEW n \in Ids, NEW set, Plain(set)
    PROVE  Mirror([T EXCEPT ![n] = Apply(T[n], set)], E)
<1>1. \A t \in E : SameRefs([T EXCEPT ![n] = Apply(T[n], set)][t], T[t])
    <2>1. SameRefs(Apply(T[n], set), T[n])
        BY ApplyPlain
    <2> QED
        BY <2>1 DEF SameRefs
<1> QED
    BY <1>1, MirrorSame

\* blockTask() on two tasks
LEMMA Blocks ==
    ASSUME NEW T \in [Ids -> Tasks], NEW E \in SUBSET Ids, Mirror(T, E),
           NEW a \in E, NEW b \in E, a # b
    PROVE  \E F : Leads(F, T, E,
                    {Update(b, [blockedBy |-> T[b].blockedBy \cup {a}]),
                     Update(a, [blocks |-> T[a].blocks \cup {b}])})
<1> DEFINE A == Apply(T[a], [blocks |-> T[a].blocks \cup {b}])
           B == Apply(T[b], [blockedBy |-> T[b].blockedBy \cup {a}])
           F == [[T EXCEPT ![a] = A] EXCEPT ![b] = B]
           P == {Update(b, [blockedBy |-> T[b].blockedBy \cup {a}]),
                 Update(a, [blocks |-> T[a].blocks \cup {b}])}
<1>1. /\ F[a] = A /\ F[b] = B
      /\ \A t \in E \ {a, b} : F[t] = T[t]
    OBVIOUS
<1>2. /\ A.blocks = T[a].blocks \cup {b} /\ A.blockedBy = T[a].blockedBy
      /\ B.blockedBy = T[b].blockedBy \cup {a} /\ B.blocks = T[b].blocks
    BY DEF Apply, Fields
<1> HIDE DEF F, A, B
<1>3. Mirror(F, E)
    BY <1>1, <1>2 DEF Mirror
<1>4. \A t \in E : SameRefs(T[t], F[t]) \/ \E u \in P : u.task = t
    BY <1>1 DEF SameRefs, Update
<1>5. /\ SameRefs(Apply(F[a], [blocks |-> T[a].blocks \cup {b}]), F[a])
      /\ SameRefs(Apply(F[b], [blockedBy |-> T[b].blockedBy \cup {a}]), F[b])
    BY <1>1, <1>2 DEF SameRefs, Apply, Fields
<1>6. SameRefs(A, F[a]) /\ SameRefs(B, F[b])
    BY <1>1 DEF SameRefs
<1>7. \A u \in P : /\ u.task \in E
                   /\ SameRefs(Apply(T[u.task], u.set), F[u.task])
                   /\ SameRefs(Apply(F[u.task], u.set), F[u.task])
    <2> DEFINE ua == Update(a, [blocks |-> T[a].blocks \cup {b}])
               ub == Update(b, [blockedBy |-> T[b].blockedBy \cup {a}])
    <2>1. /\ ua.task = a /\ ua.set = [blocks |-> T[a].blocks \cup {b}]
          /\ ub.task = b /\ ub.set = [blockedBy |-> T[b].blockedBy \cup {a}]
        BY DEF Update
    <2>2. P = {ub, ua}
        OBVIOUS
    <2>3. SameRefs(Apply(T[a], ua.set), F[a]) /\ SameRefs(Apply(T[b], ub.set), F[b])
        BY <1>6, <2>1 DEF A, B
    <2> HIDE DEF ua, ub, P
    <2> QED
        BY <1>5, <2>1, <2>2, <2>3
<1>8. Leads(F, T, E, P)
    BY <1>3, <1>4, <1>7 DEF Leads
<1> QED
    BY <1>8

\* deleteTask(): the file is gone, and the others still refer to it.
LEMMA Deleted ==
    ASSUME NEW T \in [Ids -> Tasks], NEW E \in SUBSET Ids, Mirror(T, E),
           NEW t \in Ids
    PROVE  \E F : Leads(F, T, E \ {t}, Cascade(T, E \ {t}, t))
<1> DEFINE F == [x \in Ids |-> [blocks    |-> T[x].blocks \ {t},
                                blockedBy |-> T[x].blockedBy \ {t}]]
           P == Cascade(T, E \ {t}, t)
<1>1. \A x \in Ids : /\ F[x].blocks = T[x].blocks \ {t}
                     /\ F[x].blockedBy = T[x].blockedBy \ {t}
    OBVIOUS
<1> HIDE DEF F
<1>2. Mirror(F, E \ {t})
    BY <1>1 DEF Mirror
<1>3. ASSUME NEW x \in E \ {t}
      PROVE  SameRefs(T[x], F[x]) \/ \E u \in P : u.task = x
    <2>1. CASE t \in T[x].blocks \cup T[x].blockedBy
        <3>1. Forget(T, x, t) \in P /\ Forget(T, x, t).task = x
            BY <2>1 DEF Cascade, Forget, Update
        <3> QED
            BY <3>1
    <2>2. CASE t \notin T[x].blocks \cup T[x].blockedBy
        <3>1. T[x].blocks \ {t} = T[x].blocks
              /\ T[x].blockedBy \ {t} = T[x].blockedBy
            BY <2>2
        <3> QED
            BY <1>1, <3>1 DEF SameRefs
    <2> QED
        BY <2>1, <2>2
<1>4. ASSUME NEW u \in P
      PROVE  /\ u.task \in E \ {t}
             /\ SameRefs(Apply(T[u.task], u.set), F[u.task])
             /\ SameRefs(Apply(F[u.task], u.set), F[u.task])
    <2>1. PICK x \in E \ {t} : u = Forget(T, x, t)
        BY DEF Cascade
    <2>2. /\ u.task = x
          /\ u.set = [blocks |-> T[x].blocks \ {t},
                      blockedBy |-> T[x].blockedBy \ {t}]
        BY <2>1 DEF Forget, Update
    <2>3. \A r : /\ Apply(r, u.set).blocks = T[x].blocks \ {t}
                 /\ Apply(r, u.set).blockedBy = T[x].blockedBy \ {t}
        BY <2>2 DEF Apply, Fields
    <2> QED
        BY <1>1, <2>2, <2>3 DEF SameRefs
<1>5. Leads(F, T, E \ {t}, P)
    BY <1>2, <1>3, <1>4 DEF Leads
<1> QED
    BY <1>5

(* What one step does *)

Alone(p) == Procs = {p} /\ Mortal = {}

\* A step that makes no update
LEMMA SettledQuiet ==
    ASSUME NEW p \in Procs, Settled(p), pc[p] # "clear",
           op'[p].kind = op[p].kind, UNCHANGED <<task, exists>>,
           Referring(p) => Pending(p)' = Pending(p),
           ~Referring(p) => /\ Files(p)' = Files(p)
                            /\ Plain(cur'[p].set)
                            /\ \A u \in todo'[p] : Plain(u.set)
    PROVE  Settled(p)'
<1>1. Referring(p)' <=> Referring(p)
    BY DEF Referring
<1>2. CASE Referring(p)
    BY <1>1, <1>2 DEF Settled
<1>3. CASE ~Referring(p)
    BY <1>1, <1>3 DEF Settled
<1> QED
    BY <1>2, <1>3

\* The files are settled where nothing is pending.
LEMMA SettledMirror ==
    ASSUME NEW p \in Procs, Settled(p), Referring(p), Pending(p) = {}
    PROVE  Mirror(task, exists)
BY NothingPending DEF Settled

LEMMA LocksFree ==
    ASSUME NEW p \in Procs, Alone(p), LockIInv, Place(p)
    PROVE  /\ pc[p] = "lockTask" => \A t \in Ids : taskLock[t] = NoProc
           /\ pc[p] = "lockList" => listLock = NoProc
           /\ Referring(p) => listLock # p
<1>1. TypeInv /\ Agent(p) /\ Knows(p) /\ pc[p] # "crashed"
    BY DEF LockIInv, LockInv, CurInv, Place
<1>2. pc[p] = "lockTask" => \A t \in Ids : taskLock[t] = NoProc
    BY <1>1 DEF Agent, HoldsTask, TypeInv, Alone
<1>3. pc[p] = "lockList" => listLock = NoProc
    BY <1>1 DEF Agent, ListOwner, TypeInv, Alone
<1>4. Referring(p) => listLock # p
    BY <1>1 DEF Referring, Agent, ListOwner, Is
<1> QED
    BY <1>2, <1>3, <1>4

AloneAll(p) == Alone(p) /\ LockIInv /\ ValueInv /\ AloneInv(p)

LEMMA StartAlone ==
    ASSUME NEW p \in Procs, AloneAll(p), Start(p)
    PROVE  AloneInv(p)'
<1>1. PICK r \in Requests :
        /\ r.kind \in Kinds /\ op'[p] = r /\ pc'[p] = FirstStep(r.kind)
        /\ cur'[p] = Update(r.task, Owned(p))
    BY DEF AloneAll, Start, LockIInv, TypeInv, Goto
<1>2. /\ UNCHANGED <<disk, locks, todo>> /\ pc[p] = "idle"
      /\ hi'[p] = 0 /\ snap'[p] = {}
    BY DEF AloneAll, LockIInv, TypeInv, Start
<1>3. todo[p] = {} /\ \A t \in Ids : writer[t] = NoProc
    BY <1>2 DEF AloneAll, AloneInv, Place, Carry
<1>4. /\ r.kind \in AllKinds
      /\ r.kind = "block" => r.task # r.other
      /\ r.kind = "delete" => r.task \in Ids
    BY <1>1 DEF Requests, Request, AllKinds
<1>5. Mirror(task, exists)
    <2>1. CASE Referring(p)
        <3>1. Pending(p) = {}
            BY <1>2, <1>3 DEF Pending, Working, Cascades
        <3> QED
            BY <2>1, <3>1, SettledMirror DEF AloneAll, AloneInv
    <2>2. CASE ~Referring(p)
        BY <1>2, <2>2 DEF AloneAll, AloneInv, Settled, Files
    <2> QED
        BY <2>1, <2>2
<1>6. /\ pc'[p] \in {"lockList", "listDir", "check", "listing"}
      /\ r.kind \in {"block", "delete"} => pc'[p] = "listing"
      /\ r.kind = "claimBusy" <=> pc'[p] = "check"
    BY <1>1, <1>4 DEF FirstStep, AllKinds
<1>7. Place(p)'
    BY <1>2, <1>3, <1>6 DEF Place, disk
<1>8. Refers(p)'
    BY <1>1, <1>2, <1>4, <1>6 DEF Refers, Is, Referring, Carry, Deletes
<1>9. Settled(p)'
    <2>1. CASE r.kind \in {"block", "delete"}
        <3>1. Pending(p)' = {}
            BY <1>2, <1>3, <1>6, <2>1 DEF Pending, Working, Cascades
        <3>2. Leads(task, task, exists, {})
            BY <1>5, AlreadyThere
        <3> QED
            BY <1>1, <1>2, <2>1, <3>1, <3>2 DEF Settled, Referring, disk
    <2>2. CASE r.kind \notin {"block", "delete"}
        <3>1. Plain(Owned(p)) /\ cur'[p].set = Owned(p) /\ todo'[p] = {}
            BY <1>1, <1>2, <1>3 DEF Plain, Owned, Update
        <3>2. Mirror(task', Files(p)')
            BY <1>2, <1>5, <1>6 DEF Files, disk
        <3> QED
            BY <1>1, <2>2, <3>1, <3>2 DEF Settled, Referring
    <2> QED
        BY <2>1, <2>2
<1> QED
    BY <1>7, <1>8, <1>9 DEF AloneInv

LEMMA PlaceQuiet ==
    ASSUME NEW p \in Procs, Place(p), UNCHANGED writer,
           pc[p] # "fill",
           pc'[p] \notin {"crashed", "fill", "write", "scanMark", "made", "clear"},
           \/ todo'[p] = {}
           \/ op'[p].kind \notin {"create", "claimBusy"} /\ pc'[p] \in Carry
           \/ /\ Is(p, "work")' /\ op'[p].task # 0
              /\ pc'[p] \in {"claim", "listDir", "listing"}
    PROVE  Place(p)'
BY DEF Place

LEMMA PlaceStep ==
    ASSUME NEW p \in Procs, AloneAll(p), Step(p) \/ LockThrows(p)
    PROVE  Place(p)'
<1> USE DEF Goto, Return, Ended
<1>0. /\ TypeInv /\ Knows(p) /\ Place(p) /\ Agent(p)
      /\ \A t \in Ids : task[t] \in Tasks
    BY DEF AloneAll, AloneInv, LockIInv, LockInv, CurInv, ValueInv
<1>1. CASE ListDir(p)
    <2>1. pc[p] = "listDir" /\ toRead'[p] = exists
          /\ UNCHANGED <<disk, op, cur, todo, new, hi>>
          /\ pc'[p] = IF Resetting(p) THEN "clear" ELSE "listing"
        BY <1>0, <1>1 DEF ListDir, TypeInv
    <2> QED
        BY <1>0, <2>1 DEF Place, disk, Carry, Is, Resetting
<1>2. CASE ListRead(p)
    BY <1>0, <1>2, PlaceQuiet DEF ListRead, Place, disk, Is
<1>3. CASE HideChecked(p)
    <2>1. pc[p] = "listing" /\ UNCHANGED <<disk, op, todo>>
          /\ Is(p, "hide") /\ pc'[p] \in {"lockList", "idle"}
        BY <1>0, <1>3 DEF HideChecked, TypeInv, Listed
    <2> QED
        BY <1>0, <2>1, PlaceQuiet DEF Place, disk, Is, Carry
<1>4. CASE WorkFound(p)
    <2>1. pc[p] = "listing" /\ UNCHANGED <<disk, todo>>
          /\ Is(p, "work") /\ op[p].task = 0 /\ pc'[p] \in {"check", "idle"}
        BY <1>0, <1>4 DEF WorkFound, TypeInv, Listed
    <2>2. todo[p] = {}
        BY <1>0, <2>1 DEF Place, Carry
    <2> QED
        BY <1>0, <2>1, <2>2, PlaceQuiet DEF disk
<1>5. CASE ClaimChecked(p)
    <2>1. pc[p] = "listing" /\ UNCHANGED <<disk, op>> /\ Is(p, "work")
          /\ pc'[p] \in {"unlockTask", "read"}
        BY <1>0, <1>5 DEF ClaimChecked, TypeInv, Listed, Claiming
    <2> QED
        BY <1>0, <2>1, PlaceQuiet DEF disk, Is, Carry
<1>6. CASE BusyChecked(p)
    <2>1. pc[p] = "listing" /\ UNCHANGED <<disk, op>> /\ Is(p, "claimBusy")
          /\ pc'[p] \in {"unlockList", "idle", "check"}
          /\ todo'[p] \in {todo[p], {}}
        BY <1>0, <1>6 DEF BusyChecked, TypeInv, Listed
    <2>2. todo[p] = {}
        BY <1>0, <2>1 DEF Place, Is
    <2> QED
        BY <1>0, <2>1, <2>2, PlaceQuiet DEF disk
<1>7. CASE UpdateLooked(p) \/ BlockLooked(p) \/ UnassignListed(p)
             \/ DeleteCascade(p)
    <2>1. /\ pc[p] = "listing" /\ UNCHANGED <<disk, op>>
          /\ op[p].kind \in {"update", "block", "unassign", "delete"}
          /\ \/ pc'[p] \in {"unlockList", "idle"} /\ todo'[p] = {}
             \/ pc'[p] \in {"next", "check"}
        BY <1>0, <1>7 DEF UpdateLooked, BlockLooked, UnassignListed,
            DeleteCascade, TypeInv, Listed, Is
    <2> QED
        BY <1>0, <2>1, PlaceQuiet DEF disk, Carry
<1>8. CASE DeleteLooked(p)
    <2>1. /\ pc[p] = "listing" /\ UNCHANGED <<disk, op, todo, cur, new>>
          /\ Is(p, "delete") /\ pc'[p] \in {"idle", "scanMark"}
        BY <1>0, <1>8 DEF DeleteLooked, TypeInv, Listed
    <2>2. todo[p] = {}
        BY <1>0, <2>1 DEF Place, Is, Carry
    <2> QED
        BY <1>0, <2>1, <2>2 DEF disk, Place, Is
<1>9. CASE NextUpdate(p)
    <2>1. /\ pc[p] = "next" /\ UNCHANGED <<disk, op>>
          /\ \/ pc'[p] \in {"unlockList", "idle"} /\ todo'[p] = {}
             \/ pc'[p] = "check" /\ todo[p] # {}
        BY <1>0, <1>9 DEF NextUpdate, TypeInv
    <2> QED
        BY <1>0, <2>1, PlaceQuiet DEF disk, Carry, Place
<1>10. CASE Check(p)
    <2>1. /\ pc[p] = "check" /\ UNCHANGED <<disk, op, todo>>
          /\ \/ pc'[p] \in {"next", "lockTask"}
             \/ pc'[p] = "lockList" /\ Is(p, "claimBusy")
        BY <1>0, <1>10 DEF Check, TypeInv
    <2> QED
        BY <1>0, <2>1, PlaceQuiet DEF disk, Carry, Place, Is
<1>11. CASE LockTask(p)
    <2>1. /\ pc[p] = "lockTask" /\ UNCHANGED <<disk, op, todo>>
          /\ \/ pc'[p] = "claim" /\ Is(p, "work") /\ op[p].task # 0
             \/ pc'[p] = "read"
        BY <1>0, <1>11 DEF LockTask, TypeInv, Claiming, Knows, Updating
    <2> QED
        BY <1>0, <2>1, PlaceQuiet DEF disk, Carry, Place, Is
<1>12. CASE LockThrows(p)
    <2>1. /\ pc[p] # "fill" /\ UNCHANGED disk
          /\ pc'[p] \in {"unlockList", "idle"} /\ todo'[p] = {}
        BY <1>0, <1>12 DEF LockThrows, TypeInv
    <2> QED
        BY <1>0, <2>1, PlaceQuiet DEF disk
<1>13. CASE ClaimRead(p)
    <2>1. /\ pc[p] = "claim" /\ UNCHANGED <<disk, op, todo>> /\ Is(p, "work")
          /\ op[p].task # 0 /\ pc'[p] \in {"listDir", "unlockTask"}
        BY <1>0, <1>13 DEF ClaimRead, TypeInv, Knows, Claiming, Updating
    <2> QED
        BY <1>0, <2>1, PlaceQuiet DEF disk, Carry, Is
<1>14. CASE Read(p)
    <2>1. /\ pc[p] = "read" /\ UNCHANGED <<disk, op, todo, cur>>
          /\ ~Is(p, "create")
          /\ \/ pc'[p] = "unlockTask"
             \/ /\ pc'[p] = "write" /\ cur[p].task \in exists
                /\ new'[p] = Apply(task[cur[p].task], cur[p].set)
        BY <1>0, <1>14 DEF Read, TypeInv, Knows, Creating, Readable
    <2> QED
        BY <1>0, <2>1 DEF disk, Carry, Is, Place
<1>15. CASE Truncate(p)
    <2>1. /\ pc[p] = "write" /\ UNCHANGED <<task, op, todo, cur, new>>
          /\ pc'[p] = "fill" /\ exists' = exists \cup {cur[p].task}
          /\ writer' = [writer EXCEPT ![cur[p].task] = p]
        BY <1>0, <1>15 DEF Truncate, TypeInv
    <2>2. \A t \in Ids : writer'[t] = IF cur[p].task = t THEN p ELSE NoProc
        BY <1>0, <2>1 DEF Place, TypeInv
    <2> QED
        BY <1>0, <2>1, <2>2 DEF Carry, Is, Place
<1>16. CASE Fill(p)
    <2>1. /\ pc[p] = "fill" /\ UNCHANGED <<exists, op, todo, cur, new>>
          /\ pc'[p] = IF Is(p, "create") THEN "unlockList" ELSE "unlockTask"
        BY <1>0, <1>16 DEF Fill, TypeInv
    <2>2. \A t \in Ids : writer'[t] = NoProc
        BY <1>0, <1>16, <2>1 DEF Fill, Place, TypeInv, Knows, Updating
    <2> QED
        BY <1>0, <2>1, <2>2 DEF Carry, Is, Place
<1>17. CASE UnlockTask(p)
    <2>1. /\ pc[p] = "unlockTask" /\ UNCHANGED <<disk, op, todo>>
          /\ pc'[p] = "next"
        BY <1>0, <1>17 DEF UnlockTask, TypeInv
    <2> QED
        BY <1>0, <2>1, PlaceQuiet DEF disk, Carry, Place, Is
<1>18. CASE LockList(p)
    <2>1. /\ pc[p] = "lockList" /\ UNCHANGED <<disk, op, todo>>
          /\ pc'[p] \in {"listDir", "scan", "scanDir"}
        BY <1>0, <1>18 DEF LockList, TypeInv
    <2> QED
        BY <1>0, <2>1, PlaceQuiet DEF disk, Carry, Place
<1>19. CASE UnlockList(p)
    <2>1. /\ pc[p] = "unlockList" /\ UNCHANGED <<disk, op, todo>>
          /\ pc'[p] = "idle"
        BY <1>0, <1>19 DEF UnlockList, TypeInv
    <2> QED
        BY <1>0, <2>1, PlaceQuiet DEF disk, Carry, Place
<1>20. CASE ScanDir(p)
    <2>1. PICK h \in 0..MaxId :
            /\ IsHighest(h, exists) /\ hi' = [hi EXCEPT ![p] = h]
            /\ Goto(p, IF Is(p, "create") /\ pc[p] = "scanDir" THEN "made"
                       ELSE IF Resetting(p) /\ h = 0 THEN "listDir"
                       ELSE "scanMark")
        BY <1>20 DEF ScanDir
    <2>2. /\ pc[p] \in {"scan", "scanDir"} /\ UNCHANGED <<disk, op, todo, cur, new>>
          /\ pc'[p] \in {"made", "listDir", "scanMark"}
          /\ \A t \in exists : t <= hi'[p]
        BY <1>0, <1>20, <2>1 DEF ScanDir, TypeInv, IsHighest
    <2> QED
        BY <1>0, <2>2 DEF disk, Carry, Place, Is
<1>21. CASE ScanMark(p)
    <2>1. /\ pc[p] \in {"scan", "scanMark"}
          /\ UNCHANGED <<disk, op, todo, cur, new, hi>>
          /\ \/ pc'[p] = "scanDir"
             \/ pc'[p] = "made" /\ pc[p] = "scanMark"
             \/ pc'[p] \in {"mark", "unlink", "listDir"}
        BY <1>0, <1>21 DEF ScanMark, TypeInv
    <2> QED
        BY <1>0, <2>1 DEF disk, Carry, Place, Is
<1>22. CASE Made(p)
    <2>1. /\ pc[p] = "made" /\ UNCHANGED <<disk, op, todo>> /\ pc'[p] = "write"
          /\ cur'[p].task = NewId(p) /\ new'[p] = NewTask /\ NewId(p) \in Ids
        BY <1>0, <1>22 DEF Made, TypeInv, Update
    <2>2. Is(p, "create")
        BY <1>0, <2>1 DEF Agent, HoldsList, ListOwner, Is
    <2>3. NewId(p) > hi[p]
        BY <1>0 DEF NewId, TypeInv
    <2>4. NewId(p) \notin exists
        <3>1. \A t \in exists : t \in Nat /\ t <= hi[p]
            BY <1>0, <2>1, <2>2 DEF Place, TypeInv, Ids
        <3>2. hi[p] \in Nat /\ NewId(p) \in Nat
            BY <1>0, <2>1 DEF TypeInv, Ids
        <3> QED
            BY <2>3, <3>1, <3>2
    <2> QED
        BY <1>0, <2>1, <2>2, <2>4 DEF disk, Carry, Place, Is
<1>23. CASE TruncateMark(p)
    <2>1. /\ pc[p] = "mark" /\ UNCHANGED <<writer, op, todo>>
          /\ pc'[p] = "fillMark"
        BY <1>0, <1>23 DEF TruncateMark, TypeInv
    <2> QED
        BY <1>0, <2>1, PlaceQuiet DEF Carry, Place
<1>24. CASE FillMark(p)
    <2>1. /\ pc[p] = "fillMark" /\ UNCHANGED <<writer, op, todo>>
          /\ pc'[p] \in {"unlink", "listDir"}
        BY <1>0, <1>24 DEF FillMark, TypeInv
    <2> QED
        BY <1>0, <2>1, PlaceQuiet DEF Carry, Place
<1>25. CASE Clear(p)
    <2>1. /\ pc[p] = "clear" /\ UNCHANGED <<op, todo, cur, new>>
          /\ \/ pc'[p] = "unlockList" /\ UNCHANGED writer
             \/ /\ pc'[p] = "clear"
                /\ \E t \in toRead[p] : /\ Remove(t)
                                        /\ toRead'[p] = toRead[p] \ {t}
        BY <1>0, <1>25 DEF Clear, TypeInv
    <2>2. pc'[p] = "clear" => toRead'[p] = exists'
        BY <1>0, <2>1 DEF Place, Remove
    <2>3. \A t \in Ids : writer'[t] = NoProc
        BY <1>0, <2>1 DEF Place, Remove, TypeInv
    <2> QED
        BY <1>0, <2>1, <2>2, <2>3 DEF Carry, Place
<1>26. CASE Unlink(p)
    <2>1. /\ pc[p] = "unlink" /\ UNCHANGED <<op, todo>>
          /\ pc'[p] \in {"listDir", "idle"} /\ Remove(op[p].task)
        BY <1>0, <1>26 DEF Unlink, TypeInv
    <2>2. \A t \in Ids : writer'[t] = NoProc
        BY <1>0, <2>1 DEF Place, Remove, TypeInv
    <2> QED
        BY <1>0, <2>1, <2>2 DEF Carry, Place
<1> QED
    BY <1>1, <1>2, <1>3, <1>4, <1>5, <1>6, <1>7, <1>8, <1>9, <1>10, <1>11,
       <1>12, <1>13, <1>14, <1>15, <1>16, <1>17, <1>18, <1>19, <1>20, <1>21,
       <1>22, <1>23, <1>24, <1>25, <1>26 DEF Step

\* The steps of blockTask() and deleteTask()
ReferringStep(p) ==
    \/ ListDir(p) \/ ListRead(p) \/ BlockLooked(p) \/ DeleteLooked(p)
    \/ DeleteCascade(p) \/ NextUpdate(p) \/ Check(p) \/ LockTask(p)
    \/ Read(p) \/ Truncate(p) \/ Fill(p) \/ UnlockTask(p) \/ ScanMark(p)
    \/ TruncateMark(p) \/ FillMark(p) \/ Unlink(p) \/ LockThrows(p)

LEMMA ReferringSteps ==
    ASSUME NEW p \in Procs, AloneAll(p), Referring(p), Step(p) \/ LockThrows(p)
    PROVE  ReferringStep(p)
<1>1. pc[p] \in Carry \cup Deletes \cup {"idle", "listing"}
    BY DEF AloneAll, AloneInv, Refers, Referring, Is
<1>2. ~Is(p, "work") /\ ~Is(p, "hide") /\ ~Is(p, "claimBusy")
      /\ ~Is(p, "update") /\ ~Is(p, "unassign")
    BY DEF Referring, Is
<1>3. /\ ~HideChecked(p) /\ ~WorkFound(p) /\ ~ClaimChecked(p)
      /\ ~BusyChecked(p) /\ ~UpdateLooked(p) /\ ~UnassignListed(p)
    BY <1>2 DEF HideChecked, WorkFound, ClaimChecked, BusyChecked, UpdateLooked,
                UnassignListed, Claiming
<1>4. /\ ~ClaimRead(p) /\ ~LockList(p) /\ ~UnlockList(p) /\ ~ScanDir(p)
      /\ ~Made(p) /\ ~Clear(p)
    BY <1>1 DEF ClaimRead, LockList, UnlockList, ScanDir, Made, Clear, Carry,
                Deletes
<1> QED
    BY <1>3, <1>4 DEF Step, ReferringStep

\* Where an update goes on nothing is listed.
LEMMA RefersQuiet ==
    ASSUME NEW p \in Procs, Referring(p), Refers(p), op'[p] = op[p],
           pc'[p] \in Carry \cup {"idle"}
    PROVE  Refers(p)'
BY DEF Refers, Referring, Is, Carry, Deletes

LEMMA RefersStep ==
    ASSUME NEW p \in Procs, AloneAll(p), Step(p) \/ LockThrows(p)
    PROVE  Refers(p)'
<1> USE DEF Goto, Return, Ended
<1>0. /\ TypeInv /\ Knows(p) /\ Place(p) /\ Refers(p)
      /\ op'[p].kind = op[p].kind
    BY KindKept DEF AloneAll, AloneInv, LockIInv, CurInv
<1>1. CASE ~Referring(p)
    BY <1>0, <1>1 DEF Refers, Referring, Is
<1> SUFFICES ASSUME Referring(p), ReferringStep(p)
             PROVE  Refers(p)'
    BY <1>1, ReferringSteps
<1>a. listLock # p /\ (pc[p] = "lockTask" => \A t \in Ids : taskLock[t] = NoProc)
    BY LocksFree DEF AloneAll, AloneInv
<1>2. CASE ListDir(p)
    <2>1. /\ pc[p] = "listDir" /\ UNCHANGED <<disk, hi>> /\ op'[p] = op[p]
          /\ toRead'[p] = exists /\ snap'[p] = {} /\ pc'[p] = "listing"
        BY <1>0, <1>2, <1>a DEF ListDir, TypeInv, Resetting
    <2> QED
        BY <1>0, <2>1 DEF Refers, Referring, Is, Deletes, Carry, disk
<1>3. CASE ListRead(p)
    <2>1. PICK t \in toRead[p] :
            /\ toRead' = [toRead EXCEPT ![p] = @ \ {t}]
            /\ snap' = [snap EXCEPT ![p] = @ \cup
                (IF Readable(t) THEN {[id |-> t, task |-> task[t]]} ELSE {})]
        BY <1>3 DEF ListRead
    <2>2. /\ pc[p] = "listing" /\ UNCHANGED <<disk, hi, pc>> /\ op'[p] = op[p]
          /\ toRead'[p] = toRead[p] \ {t} /\ t \in Ids
        BY <1>0, <1>3, <2>1 DEF ListRead, TypeInv
    <2>3. writer[t] = NoProc
        BY <1>0, <2>2 DEF Place
    <2>4. snap'[p] = snap[p] \cup
            (IF t \in exists THEN {[id |-> t, task |-> task[t]]} ELSE {})
        BY <1>0, <2>1, <2>3 DEF Readable, TypeInv
    <2>5. /\ task' = task /\ exists' = exists /\ hi'[p] = hi[p] /\ pc'[p] = pc[p]
        BY <2>2 DEF disk
    <2>6. \A r \in snap'[p] : r.id \in exists /\ r.task = task[r.id]
        BY <1>0, <2>2, <2>4 DEF Refers
    <2>7. Is(p, "delete") /\ hi[p] # 0 =>
            \A x \in exists \ toRead'[p] : [id |-> x, task |-> task[x]] \in snap'[p]
        <3> SUFFICES ASSUME Is(p, "delete"), hi[p] # 0,
                            NEW x \in exists \ toRead'[p]
                     PROVE  [id |-> x, task |-> task[x]] \in snap'[p]
            OBVIOUS
        <3>1. CASE x = t
            BY <2>4, <3>1
        <3>2. CASE x # t
            <4>1. x \in exists \ toRead[p]
                BY <2>2, <3>2
            <4>2. [id |-> x, task |-> task[x]] \in snap[p]
                BY <1>0, <2>2, <4>1 DEF Refers
            <4> QED
                BY <2>4, <4>2
        <3> QED
            BY <3>1, <3>2
    <2> QED
        BY <1>0, <2>2, <2>5, <2>6, <2>7 DEF Refers, Referring, Is
<1>4. CASE DeleteLooked(p)
    <2>1. /\ pc[p] = "listing" /\ op'[p] = op[p] /\ Is(p, "delete")
          /\ \/ pc'[p] = "idle"
             \/ pc'[p] = "scanMark" /\ hi'[p] = op[p].task
        BY <1>0, <1>4 DEF DeleteLooked, TypeInv, Listed
    <2> QED
        BY <1>0, <2>1 DEF Refers, Referring, Is, Deletes, Carry
<1>5. CASE ScanMark(p) \/ TruncateMark(p) \/ FillMark(p) \/ Unlink(p)
    <2>1. /\ pc[p] \in {"scan", "scanMark", "mark", "fillMark", "unlink"}
          /\ op'[p] = op[p] /\ hi'[p] = hi[p]
        BY <1>5 DEF ScanMark, TruncateMark, FillMark, Unlink
    <2>2. Is(p, "delete") /\ pc[p] \in Deletes
        BY <1>0, <2>1 DEF Refers, Referring, Is, Carry, Deletes
    <2>3. pc'[p] \in Deletes \cup {"idle"}
        BY <1>0, <1>5, <2>2
        DEF ScanMark, TruncateMark, FillMark, Unlink, Deletes, TypeInv, Is
    <2> QED
        BY <1>0, <2>1, <2>2, <2>3 DEF Refers, Referring, Is, Carry, Deletes
<1>6. CASE BlockLooked(p) \/ DeleteCascade(p) \/ NextUpdate(p) \/ Check(p)
             \/ UnlockTask(p) \/ LockThrows(p)
    <2>1. op'[p] = op[p] /\ ~Is(p, "claimBusy")
        BY <1>6 DEF BlockLooked, DeleteCascade, NextUpdate, Check, UnlockTask,
                    LockThrows, Referring, Is
    <2>2. pc'[p] \in Carry \cup {"idle"}
        BY <1>0, <1>6, <1>a, <2>1
        DEF BlockLooked, DeleteCascade, NextUpdate, Check, UnlockTask, LockThrows,
            TypeInv, Carry
    <2> QED
        BY <1>0, <2>1, <2>2, RefersQuiet
<1>7. CASE LockTask(p) \/ Read(p) \/ Truncate(p) \/ Fill(p)
    <2>1. op'[p] = op[p] /\ ~Is(p, "create") /\ ~Claiming(p)
        BY <1>7 DEF LockTask, Read, Truncate, Fill, Referring, Is, Claiming
    <2>2. pc'[p] \in Carry
        BY <1>0, <1>7, <2>1 DEF LockTask, Read, Truncate, Fill, TypeInv, Carry
    <2> QED
        BY <1>0, <2>1, <2>2, RefersQuiet
<1> QED
    BY <1>2, <1>3, <1>4, <1>5, <1>6, <1>7 DEF ReferringStep

LEMMA ReferringSettled ==
    ASSUME NEW p \in Procs, AloneAll(p), Referring(p), ReferringStep(p),
           op'[p].kind = op[p].kind
    PROVE  Settled(p)'
<1> USE DEF Goto, Return, Ended
<1>0. /\ TypeInv /\ Knows(p) /\ Place(p) /\ Refers(p) /\ Settled(p)
      /\ task \in [Ids -> Tasks] /\ exists \in SUBSET Ids
      /\ ~Is(p, "work") /\ ~Is(p, "create") /\ ~Is(p, "claimBusy")
      /\ ~Claiming(p)
    BY DEF AloneAll, AloneInv, LockIInv, CurInv, ValueInv, TypeInv, Referring, Is,
           Claiming
<1>a. listLock # p /\ (pc[p] = "lockTask" => \A t \in Ids : taskLock[t] = NoProc)
    BY LocksFree DEF AloneAll, AloneInv
<1>b. ASSUME Pending(p)' = Pending(p), UNCHANGED <<task, exists>>
      PROVE  Settled(p)'
    <2>1. Referring(p)'
        BY DEF Referring
    <2> QED
        BY <1>0, <1>b, <2>1 DEF Settled
<1>c. todo[p] # {} => pc[p] \in Carry
    BY <1>0 DEF Place
<1>d. /\ pc[p] \in Carry \cup Deletes \cup {"idle", "listing"}
      /\ ~Is(p, "delete") => Is(p, "block") /\ pc[p] \notin Deletes
      /\ Is(p, "delete")' <=> Is(p, "delete")
      /\ Is(p, "delete") => op[p].task \in Ids /\ op[p].task # 0
    BY <1>0 DEF Refers, Referring, Is, Ids, Carry, Deletes
\* The tasks that are written exist and nobody writes them.
<1>e. Working(p) => cur[p].task \in exists
    <2> SUFFICES ASSUME Working(p) PROVE cur[p].task \in exists
        OBVIOUS
    <2>1. PICK F : Leads(F, task, exists, Pending(p))
        BY <1>0 DEF Settled
    <2>2. cur[p] \in Pending(p)
        BY DEF Pending
    <2> QED
        BY <2>1, <2>2 DEF Leads
<1>f. Working(p) /\ pc[p] # "fill" => Readable(cur[p].task)
    BY <1>0, <1>e DEF Place, Readable
<1>1. CASE ListDir(p)
    <2>1. /\ pc[p] = "listDir" /\ UNCHANGED <<task, exists>> /\ op'[p] = op[p]
          /\ todo'[p] = todo[p] /\ hi'[p] = hi[p] /\ pc'[p] = "listing"
        BY <1>0, <1>1, <1>a DEF ListDir, TypeInv, Resetting, disk
    <2>2. Is(p, "delete") /\ hi[p] # 0
        BY <1>0, <1>d, <2>1 DEF Refers, Deletes
    <2>3. Cascades(p) /\ Cascades(p)' /\ ~Working(p) /\ ~Working(p)'
        BY <1>d, <2>1, <2>2 DEF Cascades, Working
    <2> QED
        BY <1>b, <2>1, <2>3 DEF Pending
<1>2. CASE ListRead(p)
    <2>1. /\ pc'[p] = pc[p] /\ UNCHANGED <<task, exists>> /\ op'[p] = op[p]
          /\ todo'[p] = todo[p] /\ hi'[p] = hi[p] /\ cur'[p] = cur[p]
        BY <1>2 DEF ListRead, disk
    <2>2. (Cascades(p)' <=> Cascades(p)) /\ (Working(p)' <=> Working(p))
        BY <1>d, <2>1 DEF Cascades, Working
    <2> QED
        BY <1>b, <2>1, <2>2 DEF Pending
<1>3. CASE DeleteLooked(p)
    <2>1. /\ pc[p] = "listing" /\ hi[p] = 0 /\ UNCHANGED <<task, exists>>
          /\ todo'[p] = todo[p] /\ pc'[p] \in {"idle", "scanMark"}
        BY <1>0, <1>3 DEF DeleteLooked, TypeInv, Listed, disk
    <2>2. ~Cascades(p) /\ ~Cascades(p)' /\ ~Working(p) /\ ~Working(p)'
        BY <2>1 DEF Cascades, Working
    <2> QED
        BY <1>b, <2>1, <2>2 DEF Pending
<1>4. CASE DeleteCascade(p)
    <2> DEFINE t == op[p].task
               Forgetting(r) == Update(r.id, [blocks    |-> r.task.blocks \ {t},
                                         blockedBy |-> r.task.blockedBy \ {t}])
    <2>1. /\ pc[p] = "listing" /\ hi[p] # 0 /\ toRead[p] = {}
          /\ Is(p, "delete") /\ UNCHANGED <<task, exists>> /\ pc'[p] = "next"
          /\ todo'[p] = {Forgetting(r) : r \in {x \in snap[p] :
                                t \in x.task.blocks \cup x.task.blockedBy}}
        BY <1>0, <1>4 DEF DeleteCascade, TypeInv, Listed, disk
    <2>2. todo[p] = {}
        BY <1>c, <2>1 DEF Carry
    <2>3. Cascades(p) /\ ~Cascades(p)' /\ ~Working(p) /\ ~Working(p)'
        BY <2>1 DEF Cascades, Working
    <2>4. \A r \in snap[p] : r.id \in exists /\ r.task = task[r.id]
        BY <1>0, <2>1 DEF Refers, Referring
    <2>5. \A x \in exists : [id |-> x, task |-> task[x]] \in snap[p]
        BY <1>0, <2>1 DEF Refers
    <2>6. \A r \in snap[p] : Forgetting(r) = Forget(task, r.id, t)
        BY <2>4 DEF Forget
    <2>7. \A x \in exists :
              LET r == [id |-> x, task |-> task[x]]
              IN  r.id = x /\ r.task = task[x] /\ Forgetting(r) = Forget(task, x, t)
        BY DEF Forget
    <2>8. todo'[p] = Cascade(task, exists, t)
        <3> HIDE DEF Forgetting
        <3>1. todo'[p] \subseteq Cascade(task, exists, t)
            BY <2>1, <2>4, <2>6 DEF Cascade
        <3>2. ASSUME NEW u \in Cascade(task, exists, t)
              PROVE  u \in todo'[p]
            <4>1. PICK x \in exists :
                    /\ t \in task[x].blocks \cup task[x].blockedBy
                    /\ u = Forget(task, x, t)
                BY DEF Cascade
            <4>2. PICK r \in snap[p] : r.id = x /\ r.task = task[x]
                BY <2>5, <2>7
            <4>3. u = Forgetting(r) /\ t \in r.task.blocks \cup r.task.blockedBy
                BY <2>6, <4>1, <4>2
            <4> QED
                BY <2>1, <4>3
        <3> QED
            BY <3>1, <3>2
    <2>9. Pending(p) = Cascade(task, exists, t) /\ Pending(p)' = todo'[p]
        BY <2>2, <2>3 DEF Pending
    <2> QED
        BY <1>b, <2>1, <2>8, <2>9
<1>5. CASE NextUpdate(p)
    <2>1. /\ pc[p] = "next" /\ UNCHANGED <<task, exists>>
          /\ \/ todo[p] = {} /\ todo'[p] = {} /\ pc'[p] = "idle"
             \/ \E u \in todo[p] : /\ cur'[p] = u /\ todo'[p] = todo[p] \ {u}
                                   /\ pc'[p] = "check"
        BY <1>0, <1>5, <1>a DEF NextUpdate, TypeInv, disk
    <2>2. ~Cascades(p) /\ ~Cascades(p)' /\ ~Working(p)
        BY <2>1 DEF Cascades, Working
    <2>3. Pending(p) = todo[p]
        BY <2>2 DEF Pending
    <2>4. Pending(p)' = todo[p]
        BY <2>1, <2>2 DEF Pending, Working
    <2> QED
        BY <1>b, <2>1, <2>3, <2>4
<1>6. CASE Check(p) \/ LockTask(p) \/ Read(p) \/ Truncate(p)
    <2>1. /\ pc[p] \in {"check", "lockTask", "read", "write"}
          /\ todo'[p] = todo[p] /\ cur'[p] = cur[p] /\ task' = task
        BY <1>6 DEF Check, LockTask, Read, Truncate, disk
    <2>2. Working(p) /\ ~Cascades(p)
        BY <2>1 DEF Working, Cascades
    <2>3. Readable(cur[p].task)
        BY <1>f, <2>1, <2>2
    <2>4. exists' = exists
        BY <1>6, <1>e, <2>2 DEF Check, LockTask, Read, Truncate, disk
    <2>5. pc'[p] \in {"lockTask", "read", "write", "fill"}
        BY <1>0, <1>6, <2>3 DEF Check, LockTask, Read, Truncate, TypeInv
    <2>6. Working(p)' /\ ~Cascades(p)'
        BY <2>5 DEF Working, Cascades
    <2> QED
        BY <1>b, <2>1, <2>2, <2>4, <2>6 DEF Pending
<1>7. CASE UnlockTask(p) \/ ScanMark(p) \/ TruncateMark(p) \/ FillMark(p)
    <2>1. /\ pc[p] \in {"unlockTask", "scan", "scanMark", "mark", "fillMark"}
          /\ todo'[p] = todo[p] /\ UNCHANGED <<task, exists>>
        BY <1>7 DEF UnlockTask, ScanMark, TruncateMark, FillMark, disk
    <2>2. ~Working(p) /\ ~Cascades(p)
        BY <2>1 DEF Working, Cascades
    <2>3. pc[p] # "unlockTask" => Is(p, "delete")
        BY <1>d, <2>1 DEF Carry, Deletes
    <2>4. pc'[p] \in {"next", "scanDir", "mark", "unlink", "fillMark"}
        BY <1>0, <1>7, <2>3
        DEF UnlockTask, ScanMark, TruncateMark, FillMark, TypeInv
    <2>5. ~Working(p)' /\ ~Cascades(p)'
        BY <2>4 DEF Working, Cascades
    <2> QED
        BY <1>b, <2>1, <2>2, <2>5 DEF Pending
<1>8. CASE LockThrows(p)
    <2>1. pc[p] = "lockTask"
        BY <1>8, <1>d DEF LockThrows, Carry, Deletes
    <2>2. cur[p].task \in exists /\ taskLock[cur[p].task] = NoProc
        BY <1>0, <1>a, <1>e, <2>1 DEF Working
    <2> QED
        BY <1>8, <2>1, <2>2 DEF LockThrows
<1>9. CASE Fill(p)
    <2> DEFINE n == cur[p].task
    <2>1. /\ pc[p] = "fill" /\ exists' = exists /\ todo'[p] = todo[p]
          /\ pc'[p] = "unlockTask" /\ n \in Ids /\ writer[n] = p
          /\ new[p] = Apply(task[n], cur[p].set)
        BY <1>0, <1>9 DEF Fill, TypeInv, Place, Knows, Updating
    <2>2. task' = [task EXCEPT ![n] = Apply(task[n], cur[p].set)]
        BY <1>9, <2>1 DEF Fill
    <2>3. Pending(p) = todo[p] \cup {cur[p]} /\ Pending(p)' = todo[p]
        BY <2>1 DEF Pending, Working, Cascades
    <2>4. PICK F : Leads(F, task, exists, todo[p] \cup {cur[p]})
        BY <1>0, <2>3 DEF Settled
    <2>5. Leads(F, task', exists, todo[p])
        BY <1>0, <2>2, <2>4, OneUpdate
    <2> QED
        BY <2>1, <2>3, <2>5 DEF Settled, Referring
<1>10. CASE Unlink(p)
    <2> DEFINE t == op[p].task
    <2>1. /\ pc[p] = "unlink" /\ task' = task /\ exists' = exists \ {t}
          /\ todo'[p] = todo[p] /\ op'[p] = op[p]
          /\ pc'[p] = IF t \in exists THEN "listDir" ELSE "idle"
        BY <1>0, <1>10 DEF Unlink, TypeInv, Remove
    <2>2. Is(p, "delete") /\ t \in Ids
        BY <1>d, <2>1 DEF Carry, Deletes
    <2>3. todo[p] = {}
        BY <1>c, <2>1 DEF Carry
    <2>4. Pending(p) = {}
        BY <2>1, <2>3 DEF Pending, Working, Cascades
    <2>5. Mirror(task, exists)
        BY <1>0, <2>4, SettledMirror
    <2>6. CASE t \in exists
        <3>1. Pending(p)' = Cascade(task, exists \ {t}, t)
            BY <1>d, <2>1, <2>2, <2>3, <2>6 DEF Pending, Working, Cascades
        <3>2. \E F : Leads(F, task, exists \ {t}, Cascade(task, exists \ {t}, t))
            BY <1>0, <2>2, <2>5, Deleted
        <3> QED
            BY <2>1, <3>1, <3>2 DEF Settled, Referring
    <2>7. CASE t \notin exists
        <3>1. exists' = exists /\ Pending(p)' = {}
            BY <2>1, <2>3, <2>7 DEF Pending, Working, Cascades
        <3> QED
            BY <1>b, <2>1, <2>4, <3>1
    <2> QED
        BY <2>6, <2>7
<1>11. CASE BlockLooked(p)
    <2> DEFINE a == op[p].task
               b == op[p].other
    <2>1. /\ pc[p] = "listing" /\ Is(p, "block") /\ UNCHANGED <<task, exists>>
          /\ \A r \in snap[p] : r.id \in exists /\ r.task = task[r.id]
          /\ a # b /\ todo[p] = {}
        BY <1>0, <1>11, <1>c
        DEF BlockLooked, Listed, Refers, Referring, disk, Carry
    <2>2. Pending(p) = {}
        BY <2>1 DEF Pending, Working, Cascades, Is
    <2>3. Mirror(task, exists)
        BY <1>0, <2>2, SettledMirror
    <2>4. ~Cascades(p)'
        BY <1>d, <2>1 DEF Cascades, Is
    <2>5. CASE Cardinality(snap[p]) < 2
        <3>1. todo'[p] = {} /\ pc'[p] = "idle"
            BY <1>0, <1>11, <1>a, <2>5 DEF BlockLooked, TypeInv
        <3>2. Pending(p)' = {}
            BY <2>4, <3>1 DEF Pending, Working
        <3> QED
            BY <1>b, <2>1, <2>2, <3>2
    <2>6. CASE ~(Cardinality(snap[p]) < 2)
        <3>1. PICK ra \in snap[p], rb \in snap[p] :
                /\ ra.id = a /\ rb.id = b
                /\ todo' = [todo EXCEPT ![p] =
                     IF a \in rb.task.blockedBy THEN {}
                     ELSE {Update(b, [blockedBy |-> rb.task.blockedBy \cup {a}])}]
                /\ IF b \in ra.task.blocks
                   THEN Goto(p, "next") /\ UNCHANGED cur
                   ELSE /\ cur' = [cur EXCEPT ![p] =
                              Update(a, [blocks |-> ra.task.blocks \cup {b}])]
                        /\ Goto(p, "check")
            BY <1>11, <2>6 DEF BlockLooked
        <3>2. /\ a \in exists /\ ra.task = task[a]
              /\ b \in exists /\ rb.task = task[b]
            BY <2>1, <3>1
        <3>3. a \in task[b].blockedBy <=> b \in task[a].blocks
            BY <2>3, <3>2 DEF Mirror
        <3>4. CASE b \in task[a].blocks
            <4>1. todo'[p] = {} /\ pc'[p] = "next"
                BY <1>0, <3>1, <3>2, <3>3, <3>4 DEF TypeInv
            <4>2. Pending(p)' = {}
                BY <2>4, <4>1 DEF Pending, Working
            <4> QED
                BY <1>b, <2>1, <2>2, <4>2
        <3>5. CASE b \notin task[a].blocks
            <4> DEFINE ua == Update(a, [blocks |-> task[a].blocks \cup {b}])
                       ub == Update(b, [blockedBy |-> task[b].blockedBy \cup {a}])
            <4>1. todo'[p] = {ub} /\ cur'[p] = ua /\ pc'[p] = "check"
                BY <1>0, <3>1, <3>2, <3>3, <3>5 DEF TypeInv
            <4>2. Pending(p)' = {ub, ua}
                BY <2>4, <4>1 DEF Pending, Working
            <4>3. \E F : Leads(F, task, exists, {ub, ua})
                BY <1>0, <2>1, <2>3, <3>2, Blocks
            <4> QED
                BY <2>1, <4>2, <4>3 DEF Settled, Referring
        <3> QED
            BY <3>4, <3>5
    <2> QED
        BY <2>5, <2>6
<1> QED
    BY <1>1, <1>2, <1>3, <1>4, <1>5, <1>6, <1>7, <1>8, <1>9, <1>10, <1>11
    DEF ReferringStep

\* The other operations change no reference: they create, clear, or update a
\* task in other fields.
LEMMA PlainSettled ==
    ASSUME NEW p \in Procs, AloneAll(p), ~Referring(p), Step(p) \/ LockThrows(p),
           op'[p].kind = op[p].kind
    PROVE  Settled(p)'
<1> USE DEF Goto, Return, Ended
<1>0. /\ TypeInv /\ Knows(p) /\ Place(p) /\ Settled(p)
      /\ task \in [Ids -> Tasks] /\ exists \in SUBSET Ids
      /\ ~Referring(p)' /\ ~Is(p, "block") /\ ~Is(p, "delete")
      /\ Plain(cur[p].set) /\ \A u \in todo[p] : Plain(u.set)
      /\ pc[p] # "clear" => Mirror(task, Files(p))
    BY DEF AloneAll, AloneInv, LockIInv, CurInv, ValueInv, TypeInv, Referring, Is,
           Settled
<1>b. ASSUME pc[p] \notin {"clear", "fill"}, pc'[p] # "fill",
             UNCHANGED <<task, exists>>, Plain(cur'[p].set),
             \A u \in todo'[p] : Plain(u.set)
      PROVE  Settled(p)'
    <2>1. Files(p)' = Files(p)
        BY <1>b DEF Files
    <2> QED
        BY <1>0, <1>b, <2>1, SettledQuiet
<1>1. CASE ListDir(p) \/ ListRead(p) \/ HideChecked(p) \/ BusyChecked(p)
           \/ Check(p) \/ LockTask(p) \/ LockThrows(p) \/ ClaimRead(p)
           \/ Read(p) \/ UnlockTask(p)
    <2>1. /\ pc[p] \notin {"clear", "fill"} /\ UNCHANGED <<task, exists>>
          /\ cur'[p] = cur[p]
        BY <1>1 DEF ListDir, ListRead, HideChecked, BusyChecked, Check, LockTask,
            LockThrows, ClaimRead, Read, UnlockTask, Listed, disk
    <2>2. pc'[p] # "fill"
        BY <1>0, <1>1 DEF TypeInv, ListDir, ListRead, HideChecked, BusyChecked,
            Check, LockTask, LockThrows, ClaimRead, Read, UnlockTask, Listed
    <2>3. todo'[p] = todo[p] \/ todo'[p] = {}
        BY <1>0, <1>1 DEF TypeInv, ListDir, ListRead, HideChecked, BusyChecked,
            Check, LockTask, LockThrows, ClaimRead, Read, UnlockTask
    <2> QED
        BY <1>0, <1>b, <2>1, <2>2, <2>3
<1>2. CASE LockList(p) \/ UnlockList(p) \/ ScanDir(p) \/ ScanMark(p)
           \/ TruncateMark(p) \/ FillMark(p)
    <2>1. /\ pc[p] \notin {"clear", "fill"} /\ UNCHANGED <<task, exists>>
          /\ cur'[p] = cur[p] /\ todo'[p] = todo[p]
        BY <1>2 DEF LockList, UnlockList, ScanDir, ScanMark, TruncateMark,
            FillMark, disk
    <2>2. pc'[p] # "fill"
        BY <1>0, <1>2 DEF TypeInv, LockList, UnlockList, ScanDir, ScanMark,
            TruncateMark, FillMark
    <2> QED
        BY <1>0, <1>b, <2>1, <2>2
<1>3. CASE WorkFound(p)
    <2>1. /\ pc[p] = "listing" /\ UNCHANGED <<task, exists>> /\ todo'[p] = todo[p]
          /\ pc'[p] \in {"check", "idle"}
        BY <1>0, <1>3 DEF TypeInv, WorkFound, Listed, disk
    <2>2. cur'[p] = cur[p] \/ \E n : cur'[p] = Update(n, Owned(p))
        BY <1>0, <1>3 DEF TypeInv, WorkFound
    <2>3. Plain(cur'[p].set)
        <3>1. CASE cur'[p] = cur[p]
            BY <1>0, <3>1
        <3>2. CASE \E n : cur'[p] = Update(n, Owned(p))
            BY <3>2 DEF Plain, Owned, Update
        <3> QED
            BY <2>2, <3>1, <3>2
    <2> QED
        BY <1>0, <1>b, <2>1, <2>3
<1>4. CASE Made(p)
    <2>1. /\ pc[p] = "made" /\ UNCHANGED <<task, exists>> /\ todo'[p] = todo[p]
          /\ pc'[p] = "write" /\ cur'[p] = Update(NewId(p), Owned(p))
        BY <1>0, <1>4 DEF TypeInv, Made, disk
    <2>2. Plain(cur'[p].set)
        BY <2>1 DEF Plain, Owned, Update
    <2> QED
        BY <1>0, <1>b, <2>1, <2>2
<1>5. CASE ClaimChecked(p)
    <2>1. /\ pc[p] = "listing" /\ UNCHANGED <<task, exists>> /\ cur'[p] = cur[p]
          /\ pc'[p] \in {"read", "unlockTask"}
        BY <1>0, <1>5 DEF TypeInv, ClaimChecked, Listed, disk
    <2>2. CASE todo' = todo
        BY <1>0, <1>b, <2>1, <2>2
    <2>3. CASE todo' # todo
        <3>1. PICK sets \in {{[status |-> "in_progress"]}, {}, {[owner |-> NoProc]}} :
                todo' = [todo EXCEPT ![p] = {Update(op[p].task, s) : s \in sets}]
            BY <1>5, <2>3 DEF ClaimChecked
        <3>2. \A s \in sets : Plain(s)
            BY <3>1 DEF Plain
        <3>3. \A u \in todo'[p] : Plain(u.set)
            BY <1>0, <3>1, <3>2 DEF TypeInv, Update
        <3> QED
            BY <1>0, <1>b, <2>1, <3>3
    <2> QED
        BY <2>2, <2>3
<1>6. CASE UpdateLooked(p)
    <2>1. /\ pc[p] = "listing" /\ UNCHANGED <<task, exists>> /\ cur'[p] = cur[p]
          /\ pc'[p] \in {"next", "idle", "unlockList"}
        BY <1>0, <1>6 DEF TypeInv, UpdateLooked, Listed, disk
    <2>2. CASE snap[p] = {}
        <3>1. todo'[p] = {}
            BY <1>0, <1>6, <2>2 DEF TypeInv, UpdateLooked
        <3> QED
            BY <1>0, <1>b, <2>1, <3>1
    <2>3. CASE snap[p] # {}
        <3> DEFINE Starts(r) == IF r.task.status = "in_progress" THEN {}
                                ELSE IF r.task.owner = NoProc
                                THEN {[status |-> "in_progress", owner |-> p]}
                                ELSE {[status |-> "in_progress"]}
                   Sets(r) == {[owner |-> a] : a \in Procs \ {r.task.owner}} \cup
                         (IF r.task.status # "completed"
                          THEN {[status |-> "completed"]} ELSE {}) \cup
                         (IF r.task.status # "pending"
                          THEN {[status |-> "pending"]} ELSE {}) \cup Starts(r)
        <3>1. PICK r \in snap[p] : \E set \in Sets(r) :
                todo' = [todo EXCEPT ![p] = {Update(r.id, set)}]
            BY <1>6, <2>3 DEF UpdateLooked
        <3>2. PICK set \in Sets(r) :
                todo' = [todo EXCEPT ![p] = {Update(r.id, set)}]
            BY <3>1
        <3>3. Plain(set)
            <4>1. \A a : Plain([owner |-> a])
                BY DEF Plain
            <4>2. /\ Plain([status |-> "completed"]) /\ Plain([status |-> "pending"])
                  /\ Plain([status |-> "in_progress"])
                  /\ Plain([status |-> "in_progress", owner |-> p])
                BY DEF Plain
            <4>3. \A s \in Starts(r) : Plain(s)
                BY <4>2
            <4> HIDE DEF Starts
            <4> QED
                BY <3>2, <4>1, <4>2, <4>3
        <3> HIDE DEF Sets
        <3>4. \A u \in todo'[p] : Plain(u.set)
            BY <1>0, <3>2, <3>3 DEF TypeInv, Update
        <3> QED
            BY <1>0, <1>b, <2>1, <3>4
    <2> QED
        BY <2>2, <2>3
<1>7. CASE UnassignListed(p)
    <2>1. /\ pc[p] = "listing" /\ UNCHANGED <<task, exists>> /\ cur'[p] = cur[p]
          /\ pc'[p] = "next"
        BY <1>0, <1>7 DEF TypeInv, UnassignListed, Listed, disk
    <2>2. \A u \in todo'[p] : \E n :
              u = Update(n, [owner |-> NoProc, status |-> "pending"])
        BY <1>0, <1>7 DEF TypeInv, UnassignListed
    <2>3. \A u \in todo'[p] : Plain(u.set)
        BY <2>2 DEF Plain, Update
    <2> QED
        BY <1>0, <1>b, <2>1, <2>3
<1>8. CASE NextUpdate(p)
    <2>1. /\ pc[p] = "next" /\ UNCHANGED <<task, exists>>
          /\ \/ todo'[p] = {} /\ cur'[p] = cur[p] /\ pc'[p] \in {"idle", "unlockList"}
             \/ \E u \in todo[p] : /\ cur'[p] = u /\ todo'[p] = todo[p] \ {u}
                                   /\ pc'[p] = "check"
        BY <1>0, <1>8 DEF NextUpdate, TypeInv, disk
    <2> QED
        BY <1>0, <1>b, <2>1
<1>9. CASE Truncate(p)
    <2> DEFINE n == cur[p].task
    <2>1. /\ pc[p] = "write" /\ pc'[p] = "fill" /\ exists' = exists \cup {n}
          /\ op'[p] = op[p] /\ cur'[p] = cur[p] /\ todo'[p] = todo[p] /\ task' = task
        BY <1>0, <1>9 DEF Truncate, TypeInv
    <2>2. Files(p)' = exists /\ Files(p) = exists
        BY <1>0, <2>1 DEF Files, Place, Is
    <2> QED
        BY <1>0, <2>1, <2>2 DEF Settled
<1>10. CASE Fill(p)
    <2> DEFINE n == cur[p].task
    <2>1. /\ pc[p] = "fill" /\ exists' = exists /\ cur'[p] = cur[p]
          /\ todo'[p] = todo[p] /\ pc'[p] \in {"unlockList", "unlockTask"}
          /\ n \in Ids /\ task' = [task EXCEPT ![n] = new[p]]
        BY <1>0, <1>10 DEF Fill, TypeInv, Knows, Updating, Place
    <2>2. Mirror(task, Files(p)) /\ Files(p)' = exists
        BY <1>0, <2>1 DEF Files
    <2>3. CASE Is(p, "create")
        <3>1. /\ Files(p) = exists \ {n} /\ n \in exists /\ new[p] = NewTask
              /\ exists \ {n} \in SUBSET Ids
            BY <1>0, <2>1, <2>3 DEF Files, Place
        <3>2. Mirror([task EXCEPT ![n] = NewTask], (exists \ {n}) \cup {n})
            BY <1>0, <2>1, <2>2, <3>1, NewFile
        <3>3. (exists \ {n}) \cup {n} = exists
            BY <3>1
        <3> QED
            BY <1>0, <2>1, <2>2, <3>1, <3>2, <3>3 DEF Settled
    <2>4. CASE ~Is(p, "create")
        <3>1. Files(p) = exists /\ new[p] = Apply(task[n], cur[p].set)
            BY <1>0, <2>1, <2>4 DEF Files, Place
        <3>2. Mirror([task EXCEPT ![n] = Apply(task[n], cur[p].set)], exists)
            BY <1>0, <2>1, <2>2, <3>1, PlainUpdate
        <3> QED
            BY <1>0, <2>1, <2>2, <3>1, <3>2 DEF Settled
    <2> QED
        BY <2>3, <2>4
<1>11. CASE Clear(p)
    <2>1. /\ pc[p] = "clear" /\ toRead[p] = exists /\ task' = task
          /\ cur'[p] = cur[p] /\ todo'[p] = todo[p]
        BY <1>0, <1>11 DEF Clear, Place
    <2>2. pc'[p] # "clear" => exists' = {} /\ pc'[p] = "unlockList"
        BY <1>0, <1>11, <2>1 DEF Clear, TypeInv
    <2>3. pc'[p] # "clear" => Mirror(task', Files(p)')
        BY <2>2 DEF Mirror, Files
    <2> QED
        BY <1>0, <2>1, <2>3 DEF Settled
<1>12. ~BlockLooked(p) /\ ~DeleteLooked(p) /\ ~DeleteCascade(p) /\ ~Unlink(p)
    BY <1>0 DEF BlockLooked, DeleteLooked, DeleteCascade, Unlink, Knows
<1> QED
    BY <1>1, <1>2, <1>3, <1>4, <1>5, <1>6, <1>7, <1>8, <1>9, <1>10, <1>11, <1>12
    DEF Step

LEMMA AloneStart ==
    ASSUME NEW p \in Procs, Init
    PROVE  AloneInv(p)
<1>1. PICK n \in 0..Initial : exists = 1..n
    BY DEF Init
<1>2. /\ pc[p] = "idle" /\ op[p] = Request("create", 0, 0, NoProc)
      /\ cur[p] = Update(0, Owned(p)) /\ todo[p] = {} /\ snap[p] = {}
      /\ \A t \in Ids : writer[t] = NoProc
    BY DEF Init
<1>3. op[p].kind = "create"
    BY <1>2 DEF Request
<1>4. Place(p)
    BY <1>2 DEF Place
<1>5. Refers(p)
    BY <1>2, <1>3 DEF Refers, Is, Referring
<1>6. Mirror(task, exists)
    <2>0. exists \subseteq Ids
        BY <1>1, BoundAssumption DEF Ids
    <2>1. CASE task = [t \in Ids |-> NewTask]
        BY <2>0, <2>1 DEF Mirror, NewTask
    <2>2. CASE task # [t \in Ids |-> NewTask]
        <3>1. /\ 2 \in exists
              /\ task = [t \in Ids |-> CASE t = 1 -> [NewTask EXCEPT !.blocks = {2}]
                                        [] t = 2 -> [NewTask EXCEPT !.blockedBy = {1}]
                                        [] OTHER -> NewTask]
            BY <2>2 DEF Init
        <3>2. 1 \in exists /\ 1 # 2
            BY <1>1, <3>1
        <3>3. \A t \in exists :
                /\ task[t].blocks = IF t = 1 THEN {2} ELSE {}
                /\ task[t].blockedBy = IF t = 2 THEN {1} ELSE {}
            BY <2>0, <3>1 DEF NewTask
        <3> QED
            BY <3>1, <3>2, <3>3 DEF Mirror
    <2> QED
        BY <2>1, <2>2
<1>7. Settled(p)
    <2>1. ~Referring(p) /\ Files(p) = exists
        BY <1>2, <1>3 DEF Referring, Files
    <2>2. Plain(cur[p].set)
        BY <1>2 DEF Plain, Owned, Update
    <2> QED
        BY <1>2, <1>6, <2>1, <2>2 DEF Settled
<1> QED
    BY <1>4, <1>5, <1>7 DEF AloneInv

LEMMA AloneNext ==
    ASSUME NEW p \in Procs, AloneAll(p), [Next]_vars
    PROVE  AloneInv(p)'
<1>0. Procs = {p} /\ Mortal = {} /\ TypeInv /\ AloneInv(p) /\ pc[p] # "crashed"
    BY DEF AloneAll, Alone, AloneInv, Place, LockIInv
<1>1. CASE UNCHANGED vars
    <2> USE <1>0, <1>1 DEF vars, disk, AloneInv
    <2>1. Place(p)'
        BY DEF Place, Is
    <2>2. Refers(p)'
        BY DEF Refers, Referring, Is
    <2>3. Settled(p)'
        <3>1. Pending(p)' = Pending(p) /\ Files(p)' = Files(p)
            BY DEF Pending, Working, Cascades, Is, Files
        <3> QED
            BY <3>1 DEF Settled, Referring
    <2> QED
        BY <2>1, <2>2, <2>3
<1>2. CASE Start(p)
    BY <1>2, StartAlone
<1>3. CASE Step(p) \/ LockThrows(p)
    <2>1. op'[p].kind = op[p].kind
        BY <1>0, <1>3, KindKept
    <2>2. Settled(p)'
        BY <1>3, <2>1, ReferringSteps, ReferringSettled, PlainSettled
    <2>3. Place(p)' /\ Refers(p)'
        BY <1>3, PlaceStep, RefersStep
    <2> QED
        BY <2>2, <2>3 DEF AloneInv
<1>4. ~Crash(p) /\ ~GoStale(p)
    BY <1>0 DEF Crash, GoStale
<1> QED
    BY <1>0, <1>1, <1>2, <1>3, <1>4 DEF Next

LEMMA AloneAgrees ==
    ASSUME NEW p \in Procs, AloneAll(p)
    PROVE  ReferencesAgree
<1>1. CASE pc[p] = "idle"
    <2>1. todo[p] = {} /\ Settled(p)
        BY <1>1 DEF AloneAll, AloneInv, Place, Carry
    <2>2. Mirror(task, exists)
        <3>1. CASE Referring(p)
            <4>1. Pending(p) = {}
                BY <1>1, <2>1 DEF Pending, Working, Cascades
            <4> QED
                BY <2>1, <3>1, <4>1, SettledMirror
        <3>2. CASE ~Referring(p)
            BY <1>1, <2>1, <3>2 DEF Settled, Files
        <3> QED
            BY <3>1, <3>2
    <2> QED
        BY <2>2 DEF Mirror, ReferencesAgree
<1>2. CASE pc[p] # "idle"
    BY <1>2 DEF ReferencesAgree
<1> QED
    BY <1>1, <1>2

\* With one agent that does not crash, "blocks" and "blockedBy" mirror each
\* other and name only tasks that exist whenever it is idle, whatever operations
\* it ran, blockTask() and deleteTask() with the updates they make one by one
\* included.  With a second agent they do not: blockTask() writes what it read
\* before it locked.
THEOREM ReferencesKept ==
    ASSUME NEW a, Procs = {a}, Mortal = {}
    PROVE  Spec => []ReferencesAgree
<1>0. a \in Procs /\ Alone(a)
    BY DEF Alone
<1>1. Init => LockIInv /\ ValueInv /\ AloneInv(a)
    BY <1>0, TypeInit, CurInit, LockInit, ValueInit, AloneStart DEF LockIInv
<1>2. LockIInv /\ ValueInv /\ AloneInv(a) /\ [Next]_vars
        => (LockIInv /\ ValueInv /\ AloneInv(a))'
    <2> SUFFICES ASSUME LockIInv, ValueInv, AloneInv(a), [Next]_vars
                 PROVE  (LockIInv /\ ValueInv /\ AloneInv(a))'
        OBVIOUS
    <2>1. LockIInv'
        BY TypeNext, CurNext, LockNext DEF LockIInv
    <2>2. ValueInv'
        BY ValueNext DEF LockIInv, LockInv
    <2>3. AloneInv(a)'
        BY <1>0, AloneNext DEF AloneAll
    <2> QED
        BY <2>1, <2>2, <2>3
<1>3. LockIInv /\ ValueInv /\ AloneInv(a) => ReferencesAgree
    BY <1>0, AloneAgrees DEF AloneAll
<1> QED
    BY <1>1, <1>2, <1>3, PTL DEF Spec
=============================================================================
