--------------------- MODULE StreamingToolExecutor_proofs ---------------------
(* Proofs about StreamingToolExecutor, for every number of blocks, attempts  *)
(* and every set of tool kinds.                                              *)
EXTENDS StreamingToolExecutor, SequenceTheorems, TLAPS

CallStates == {"none", "inflight", "stopped", "answered", "ended"}

Entries == [block : Blocks, answer : Answers \cup {"missing"}]

-----------------------------------------------------------------------------
\* The ranges the positions are in.
LEMMA Ranges ==
    /\ 0 \in 0..MaxBlocks /\ 0 \in 0..(MaxBlocks + 1)
    /\ \A t \in Blocks : /\ t \in 0..MaxBlocks
                         /\ t \in 0..(MaxBlocks + 1)
                         /\ t + 1 \in 0..(MaxBlocks + 1)
  BY BlocksAssumption DEF Blocks

\* The reason a tool is cancelled for.
LEMMA ReasonType ==
    ASSUME NEW t
    PROVE  Reason(t) \in Reasons \cup {"none"}
  BY DEF Reason, Reasons

\* What a start of a tool does to the variables it writes, in their types.
LEMMA ExecuteToolType ==
    ASSUME TypeOK,
           NEW st \in [Blocks -> Statuses], NEW t \in Blocks,
           NEW held \in SUBSET (Blocks \X {"resume", "finally"}),
           ExecuteTool(st, t, held)
    PROVE  /\ status' \in [Blocks -> Statuses]
           /\ call' \in [Blocks -> CallStates]
           /\ result' \in [Blocks -> Seq(Answers)]
           /\ micro' \subseteq Blocks \X {"resume", "finally"}
  <1>1. /\ <<t, "resume">> \in Blocks \X {"resume", "finally"}
        /\ <<t, "finally">> \in Blocks \X {"resume", "finally"}
    OBVIOUS
  <1>2. Reason(t) # "none" => <<Reason(t)>> \in Seq(Answers)
    BY ReasonType DEF Answers
  <1>3. status' \in [Blocks -> Statuses]
    BY DEF ExecuteTool, Statuses
  <1>4. call' \in [Blocks -> CallStates]
    BY DEF ExecuteTool, TypeOK, SignalAborted, CallStates
  <1>5. result' \in [Blocks -> Seq(Answers)]
    BY <1>2 DEF ExecuteTool, TypeOK
  <1>6. micro' \subseteq Blocks \X {"resume", "finally"}
    BY <1>1 DEF ExecuteTool
  <1> QED
    BY <1>3, <1>4, <1>5, <1>6

\* And what its completion does.
LEMMA CompleteType ==
    ASSUME TypeOK, NEW t \in Blocks, NEW r \in Seq(Answers), Complete(t, r)
    PROVE  /\ status' \in [Blocks -> Statuses]
           /\ result' \in [Blocks -> Seq(Answers)]
           /\ micro' \subseteq Blocks \X {"resume", "finally"}
  <1>1. <<t, "finally">> \in Blocks \X {"resume", "finally"}
    OBVIOUS
  <1>2. status' \in [Blocks -> Statuses]
    BY DEF Complete, TypeOK, Statuses
  <1>3. result' \in [Blocks -> Seq(Answers)]
    BY DEF Complete, TypeOK
  <1>4. micro' \subseteq Blocks \X {"resume", "finally"}
    BY <1>1 DEF Complete, TypeOK
  <1> QED
    BY <1>2, <1>3, <1>4

\* And what the answer of its call does.
LEMMA AnswerType ==
    ASSUME TypeOK, NEW t \in Blocks, NEW r \in {"ok", "error", "stopped"},
           Answer(t, r)
    PROVE  /\ status' \in [Blocks -> Statuses]
           /\ call' \in [Blocks -> CallStates]
           /\ result' \in [Blocks -> Seq(Answers)]
           /\ micro' \subseteq Blocks \X {"resume", "finally"}
           /\ errored' \in [Attempts -> BOOLEAN]
  <1>1. CASE Reason(t) # "none"
    <2>1. <<Reason(t)>> \in Seq(Answers)
      BY <1>1, ReasonType DEF Answers
    <2>2. /\ Complete(t, <<Reason(t)>>) /\ UNCHANGED errored
          /\ call' = [call EXCEPT ![t] = "ended"]
      BY <1>1 DEF Answer
    <2>3. call' \in [Blocks -> CallStates] /\ errored' \in [Attempts -> BOOLEAN]
      BY <2>2 DEF TypeOK, CallStates
    <2> QED
      BY <2>1, <2>2, <2>3, CompleteType
  <1>2. CASE Reason(t) = "none"
    <2>1. <<r>> \in Seq(Answers)
      BY DEF Answers
    <2>2. /\ result' = [result EXCEPT ![t] = <<r>>]
          /\ call' = [call EXCEPT ![t] = "answered"]
          /\ errored' = [errored EXCEPT ![of[t]] =
                            @ \/ (kind[t].bash /\ r \in {"error", "stopped"})]
          /\ UNCHANGED <<status, micro>>
      BY <1>2 DEF Answer
    <2>3. errored' \in [Attempts -> BOOLEAN]
      BY <2>2 DEF TypeOK
    <2>4. /\ result' \in [Blocks -> Seq(Answers)]
          /\ call' \in [Blocks -> CallStates]
      BY <2>1, <2>2 DEF TypeOK, CallStates
    <2> QED
      BY <2>2, <2>3, <2>4 DEF TypeOK
  <1> QED
    BY <1>1, <1>2

\* The same for a scan of the queue, which starts a tool or ends.
LEMMA ProcessQueueType ==
    ASSUME TypeOK,
           NEW st \in [Blocks -> Statuses], NEW e, NEW p,
           NEW held \in SUBSET (Blocks \X {"resume", "finally"}),
           ProcessQueue(st, e, p, held)
    PROVE  /\ status' \in [Blocks -> Statuses]
           /\ call' \in [Blocks -> CallStates]
           /\ result' \in [Blocks -> Seq(Answers)]
           /\ micro' \subseteq Blocks \X {"resume", "finally"}
  <1>1. CASE Picks(st, e, p) = {} /\ EndScan(st, held)
    BY <1>1 DEF TypeOK, EndScan, CallStates
  <1>2. CASE \E t \in Picks(st, e, p) : ExecuteTool(st, t, held)
    <2>1. PICK t \in Picks(st, e, p) : ExecuteTool(st, t, held)
      BY <1>2
    <2>2. t \in Blocks
      BY <2>1 DEF Picks
    <2> QED
      BY <2>1, <2>2, ExecuteToolType
  <1> QED
    BY <1>1, <1>2 DEF ProcessQueue

\* The entries that the loop yields for a completed tool.
LEMMA YieldedType ==
    ASSUME TypeOK, NEW t \in Blocks
    PROVE  /\ Yielded(t) \in Seq(Entries)
           /\ Len(Yielded(t)) = Len(result[t])
           /\ \A i \in 1..Len(result[t]) :
                  Yielded(t)[i] = [block |-> t, answer |-> result[t][i]]
  <1>1. PICK r \in Seq(Answers) : r = result[t]
    BY DEF TypeOK
  <1>2. Len(r) \in Nat /\ DOMAIN r = 1..Len(r)
    BY <1>1, LenProperties
  <1> DEFINE f == [i \in 1..Len(r) |-> [block |-> t, answer |-> r[i]]]
  <1>3. Yielded(t) = f
    BY <1>1, <1>2 DEF Yielded
  <1>4. \A i \in 1..Len(r) : [block |-> t, answer |-> r[i]] \in Entries
    BY <1>1, <1>2, ElementOfSeq DEF Entries
  <1>5. f \in [1..Len(r) -> Entries]
    BY <1>4
  <1>6. \A i \in 1..Len(r) : f[i] = [block |-> t, answer |-> r[i]]
    OBVIOUS
  <1> HIDE DEF f
  <1>7. f \in Seq(Entries)
    BY <1>2, <1>5, SeqDef, Zenon
  <1>8. Len(f) = Len(r)
    <2>1. DOMAIN f = 1..Len(r)
      BY <1>5
    <2>2. Len(f) \in Nat /\ DOMAIN f = 1..Len(f)
      BY <1>7, LenProperties
    <2> QED
      BY <1>2, <2>1, <2>2
  <1> QED
    BY <1>1, <1>3, <1>6, <1>7, <1>8

\* And what the loop appends for the blocks of a failed attempt.
LEMMA MissingType ==
    ASSUME TypeOK, YieldMissingResults
    PROVE  \E s \in Seq(Entries) : /\ emitted' = emitted \o s
                                   /\ \A i \in 1..Len(s) : s[i].answer = "missing"
  <1>1. PICK n \in 0..arrived :
            emitted' = emitted \o [i \in 1..(arrived - n) |->
                                      [block |-> n + i, answer |-> "missing"]]
    BY DEF YieldMissingResults
  <1> DEFINE k == arrived - n
             f == [i \in 1..k |-> [block |-> n + i, answer |-> "missing"]]
  <1>2. k \in Nat /\ \A i \in 1..k : n + i \in Blocks
    BY <1>1, BlocksAssumption DEF TypeOK, Blocks
  <1>3. \A i \in 1..k : [block |-> n + i, answer |-> "missing"] \in Entries
    BY <1>2 DEF Entries
  <1>4. /\ f \in [1..k -> Entries]
        /\ \A i \in 1..k : f[i].answer = "missing"
    BY <1>2, <1>3
  <1>5. emitted' = emitted \o f
    BY <1>1
  <1> HIDE DEF k, f
  <1>6. f \in Seq(Entries)
    BY <1>2, <1>4, SeqDef, Zenon
  <1>7. Len(f) = k
    <2>1. DOMAIN f = 1..k
      BY <1>4
    <2>2. Len(f) \in Nat /\ DOMAIN f = 1..Len(f)
      BY <1>6, LenProperties
    <2> QED
      BY <1>2, <2>1, <2>2
  <1> QED
    BY <1>4, <1>5, <1>6, <1>7

\* Both append to what was emitted.
LEMMA EmittedConcat ==
    ASSUME TypeOK, NEW s \in Seq(Entries), emitted' = emitted \o s
    PROVE  /\ Len(emitted) \in Nat /\ Len(s) \in Nat
           /\ Len(emitted') = Len(emitted) + Len(s)
           /\ \A i \in 1..Len(emitted) : emitted'[i] = emitted[i]
           /\ \A i \in 1..Len(emitted') :
                 \/ i \in 1..Len(emitted)
                 \/ /\ i - Len(emitted) \in 1..Len(s)
                    /\ emitted'[i] = s[i - Len(emitted)]
  <1>1. emitted \in Seq(Entries)
    BY DEF TypeOK, Entries
  <1>2. /\ Len(emitted) \in Nat /\ Len(s) \in Nat
        /\ Len(emitted') = Len(emitted) + Len(s)
    BY <1>1, ConcatProperties, LenProperties
  <1>3. \A i \in 1..(Len(emitted) + Len(s)) :
            emitted'[i] = IF i <= Len(emitted) THEN emitted[i]
                                               ELSE s[i - Len(emitted)]
    BY <1>1, ConcatProperties
  <1> QED
    BY <1>2, <1>3

LEMMA InitType == Init => TypeOK
  <1> SUFFICES ASSUME Init
               PROVE  TypeOK
    OBVIOUS
  <1>1. 1 \in Attempts
    BY AttemptsAssumption DEF Attempts
  <1>2. arrived \in 0..MaxBlocks /\ pos \in 0..(MaxBlocks + 1)
        /\ awaited \in 0..MaxBlocks
    BY Ranges DEF Init
  <1>3. /\ status \in [Blocks -> Statuses] /\ result \in [Blocks -> Seq(Answers)]
        /\ call \in [Blocks -> CallStates]
    BY DEF Init, Statuses, CallStates
  <1>4. /\ emitted \in Seq(Entries)
        /\ modified \in Seq(Blocks)
    BY DEF Init
  <1> QED
    BY <1>1, <1>2, <1>3, <1>4 DEF Init, TypeOK, CallStates, Entries

LEMMA NextType == TypeOK /\ [Next]_vars => TypeOK'
  <1> SUFFICES ASSUME TypeOK, [Next]_vars
               PROVE  TypeOK'
    OBVIOUS
  <1>1. CASE ReceiveToolUse
    <2> DEFINE t == arrived + 1
    <2>1. t \in Blocks /\ t \in 0..MaxBlocks
      BY <1>1, BlocksAssumption DEF ReceiveToolUse, TypeOK, Blocks
    <2>2. [status EXCEPT ![t] = "queued"] \in [Blocks -> Statuses]
      BY DEF TypeOK, Statuses
    <2>3. CASE /\ abort = "none" /\ kind[t].known
               /\ ProcessQueue([status EXCEPT ![t] = "queued"], attempt, 0, micro)
      <3>1. micro \in SUBSET (Blocks \X {"resume", "finally"})
        BY DEF TypeOK
      <3>2. /\ status' \in [Blocks -> Statuses]
            /\ call' \in [Blocks -> CallStates]
            /\ result' \in [Blocks -> Seq(Answers)]
            /\ micro' \subseteq Blocks \X {"resume", "finally"}
        BY <2>2, <2>3, <3>1, ProcessQueueType
      <3>3. UNCHANGED <<kind, of, progress, errored, attempt, abort, awaited,
                        racing, signal, emitted, modified>>
            /\ pos' = 0 /\ arrived' = t /\ pc' \in {"add", "streamSweep"}
        BY <1>1, <2>3 DEF ReceiveToolUse, TypeOK
      <3> QED
        BY <2>1, <3>2, <3>3, Ranges DEF TypeOK, CallStates
    <2>4. CASE ~(abort = "none" /\ kind[t].known)
      <3>1. status' \in [Blocks -> Statuses]
        BY <1>1, <2>1, <2>4 DEF ReceiveToolUse, TypeOK, Statuses
      <3>2. result' \in [Blocks -> Seq(Answers)]
        <4>1. <<"no_such_tool">> \in Seq(Answers)
          BY DEF Answers
        <4> QED
          BY <1>1, <2>1, <2>4, <4>1 DEF ReceiveToolUse, TypeOK
      <3>3. UNCHANGED <<kind, of, progress, errored, attempt, abort, awaited,
                        racing, signal, emitted, modified, call, micro>>
            /\ pos' = 0 /\ arrived' = t
            /\ pc' \in {"stream", "add", "streamSweep"}
        BY <1>1, <2>4 DEF ReceiveToolUse, TypeOK
      <3> QED
        BY <2>1, <3>1, <3>2, <3>3, Ranges DEF TypeOK
    <2> QED
      BY <1>1, <2>3, <2>4 DEF ReceiveToolUse
  <1>2. CASE ReceiveText
    BY <1>2, Ranges DEF ReceiveText, TypeOK, toolVars
  <1>3. CASE StreamEnd
    BY <1>3 DEF StreamEnd, TypeOK, toolVars, loopVars
  <1>4. CASE Sweep
    <2>1. PICK t \in YieldsNext : YieldProgress(t) \/ YieldResult(t)
      BY <1>4 DEF Sweep
    <2>2. t \in Blocks
      BY <2>1 DEF YieldsNext, Tracked
    <2>3. emitted \o Yielded(t) \in Seq(Entries)
      <3>1. emitted \in Seq(Entries)
        BY DEF TypeOK, Entries
      <3> QED
        BY <2>2, <3>1, YieldedType, ConcatProperties
    <2>4. status' \in [Blocks -> Statuses]
      BY <2>1, <2>2 DEF YieldProgress, YieldResult, TypeOK, Statuses
    <2>5. progress' \subseteq Blocks /\ pos' \in 0..(MaxBlocks + 1)
      BY <2>1, <2>2, Ranges DEF YieldProgress, YieldResult, TypeOK
    <2>6. emitted' \in Seq(Entries)
      BY <2>1, <2>3 DEF YieldProgress, YieldResult, TypeOK, Entries
    <2> QED
      BY <1>4, <2>4, <2>5, <2>6 DEF Sweep, TypeOK, Entries
  <1>5. CASE EndStreamSweep
    BY <1>5 DEF EndStreamSweep, TypeOK, toolVars, loopVars
  <1>6. CASE Drain
    <2>1. CASE \E t \in Picks(status, attempt, 0) :
                  ExecuteTool(status, t, micro) /\ awaited' = t /\ pc' = "scan"
      <3>1. PICK t \in Picks(status, attempt, 0) :
                  ExecuteTool(status, t, micro) /\ awaited' = t /\ pc' = "scan"
        BY <2>1
      <3>2. t \in Blocks
        BY <3>1 DEF Picks
      <3>3. /\ status' \in [Blocks -> Statuses]
            /\ call' \in [Blocks -> CallStates]
            /\ result' \in [Blocks -> Seq(Answers)]
            /\ micro' \subseteq Blocks \X {"resume", "finally"}
        BY <3>1, <3>2, ExecuteToolType DEF TypeOK
      <3> QED
        BY <1>6, <3>1, <3>2, <3>3, Ranges DEF Drain, TypeOK, CallStates
    <2>2. CASE pc' = "sweep" /\ UNCHANGED <<toolVars, awaited>>
      BY <1>6, <2>2, Ranges DEF Drain, TypeOK, toolVars
    <2> QED
      BY <1>6, <2>1, <2>2 DEF Drain
  <1>7. CASE EndSweep
    BY <1>7 DEF EndSweep, TypeOK, toolVars, Executing, Tracked
  <1>8. CASE Wake
    BY <1>8 DEF Wake, TypeOK, toolVars
  <1>9. CASE EndTurn
    BY <1>9 DEF EndTurn, TypeOK, toolVars, loopVars
  <1>22. ASSUME NextAttempt
         PROVE  attempt' \in Attempts /\ of' \in [Blocks -> Attempts]
    <2>1. attempt + 1 \in Attempts
      BY <1>22, AttemptsAssumption DEF NextAttempt, TypeOK, Attempts
    <2> QED
      BY <1>22, <2>1 DEF NextAttempt, TypeOK
  <1>10. CASE StreamingFallback
    BY <1>10, <1>22 DEF StreamingFallback, TypeOK, toolVars, loopVars
  <1>11. ASSUME YieldMissingResults
         PROVE  emitted' \in Seq(Entries)
    <2>1. PICK s \in Seq(Entries) : emitted' = emitted \o s
      BY <1>11, MissingType
    <2>2. emitted \in Seq(Entries)
      BY DEF TypeOK, Entries
    <2> QED
      BY <2>1, <2>2, ConcatProperties
  <1>12. CASE ModelFallback
    BY <1>11, <1>12, <1>22 DEF ModelFallback, TypeOK, toolVars, loopVars, Entries
  <1>13. CASE ModelError
    BY <1>11, <1>13 DEF ModelError, TypeOK, toolVars, loopVars, Entries
  <1>14. ASSUME NEW m \in micro, Resume(m)
         PROVE  TypeOK'
    <2>1. micro \ {m} \in SUBSET (Blocks \X {"resume", "finally"})
      BY DEF TypeOK
    <2>2. CASE Picks(status, of[m[1]], IF m[2] = "resume" THEN m[1] ELSE 0) = {}
      <3>1. /\ UNCHANGED <<status, call, result>> /\ micro' = micro \ {m}
            /\ awaited' \in {0, awaited} /\ pc' \in {"sweep", pc}
            /\ UNCHANGED <<kind, arrived, of, progress, errored, attempt, abort,
                           loopVars, emitted, modified>>
        BY <1>14, <2>2 DEF Resume, EndScan
      <3> QED
        BY <3>1, Ranges DEF TypeOK, loopVars
    <2>3. CASE \E t \in Picks(status, of[m[1]],
                              IF m[2] = "resume" THEN m[1] ELSE 0) :
                  /\ ExecuteTool(status, t, micro \ {m})
                  /\ awaited' = IF m = <<awaited, "resume">> THEN t ELSE awaited
                  /\ UNCHANGED pc
      <3>1. PICK t \in Blocks :
                  /\ ExecuteTool(status, t, micro \ {m})
                  /\ awaited' = IF m = <<awaited, "resume">> THEN t ELSE awaited
                  /\ UNCHANGED pc
        BY <2>3 DEF Picks
      <3>2. /\ status' \in [Blocks -> Statuses]
            /\ call' \in [Blocks -> CallStates]
            /\ result' \in [Blocks -> Seq(Answers)]
            /\ micro' \subseteq Blocks \X {"resume", "finally"}
        BY <2>1, <3>1, ExecuteToolType DEF TypeOK
      <3>3. UNCHANGED <<kind, arrived, of, progress, errored, attempt, abort,
                           loopVars, emitted, modified>>
            /\ awaited' \in 0..MaxBlocks /\ pc' = pc
        BY <1>14, <3>1, Ranges DEF Resume, TypeOK
      <3> QED
        BY <3>2, <3>3 DEF TypeOK, loopVars, CallStates
    <2> QED
      BY <1>14, <2>2, <2>3 DEF Resume
  <1>15. ASSUME NEW t \in Blocks, ToolProgress(t)
         PROVE  TypeOK'
    <2>1. Reason(t) # "none" => <<Reason(t)>> \in Seq(Answers)
      BY ReasonType DEF Answers
    <2>2. CASE Reason(t) # "none"
      <3>1. /\ status' \in [Blocks -> Statuses]
            /\ result' \in [Blocks -> Seq(Answers)]
            /\ micro' \subseteq Blocks \X {"resume", "finally"}
        BY <1>15, <2>1, <2>2, CompleteType DEF ToolProgress
      <3> QED
        BY <1>15, <2>2, <3>1 DEF ToolProgress, TypeOK
    <2>3. CASE Reason(t) = "none"
      BY <1>15, <2>3 DEF ToolProgress, TypeOK
    <2> QED
      BY <2>2, <2>3
  <1>17. ASSUME NEW t \in Blocks, ToolReturn(t)
         PROVE  TypeOK'
    <2>1. CASE status[t] = "executing"
      <3>1. PICK r \in {"ok", "error", "stopped"} : Answer(t, r)
        BY <1>17, <2>1 DEF ToolReturn
      <3>2. /\ status' \in [Blocks -> Statuses]
            /\ call' \in [Blocks -> CallStates]
            /\ result' \in [Blocks -> Seq(Answers)]
            /\ micro' \subseteq Blocks \X {"resume", "finally"}
            /\ errored' \in [Attempts -> BOOLEAN]
        BY <3>1, AnswerType
      <3> QED
        BY <1>17, <3>2 DEF ToolReturn, TypeOK, loopVars, CallStates
    <2>2. CASE status[t] # "executing"
      BY <1>17, <2>2 DEF ToolReturn, TypeOK, loopVars
    <2> QED
      BY <2>1, <2>2
  <1>18. ASSUME NEW t \in Blocks, ToolStopped(t)
         PROVE  TypeOK'
    <2>1. /\ status' \in [Blocks -> Statuses]
          /\ call' \in [Blocks -> CallStates]
          /\ result' \in [Blocks -> Seq(Answers)]
          /\ micro' \subseteq Blocks \X {"resume", "finally"}
          /\ errored' \in [Attempts -> BOOLEAN]
      BY <1>18, AnswerType DEF ToolStopped
    <2> QED
      BY <1>18, <2>1 DEF ToolStopped, TypeOK, loopVars, CallStates
  <1>16. ASSUME NEW t \in Blocks, ToolEnds(t)
         PROVE  TypeOK'
    <2>1. result[t] \in Seq(Answers)
      BY DEF TypeOK
    <2>2. CancelledLater(t) => Append(result[t], Reason(t)) \in Seq(Answers)
      BY <2>1, ReasonType, AppendProperties DEF CancelledLater, Answers
    <2>3. PICK r \in Seq(Answers) : Complete(t, r)
      BY <1>16, <2>1, <2>2 DEF ToolEnds
    <2>4. /\ status' \in [Blocks -> Statuses]
          /\ result' \in [Blocks -> Seq(Answers)]
          /\ micro' \subseteq Blocks \X {"resume", "finally"}
      BY <2>3, CompleteType
    <2>5. modified' \in Seq(Blocks)
      <3>1. modified \in Seq(Blocks) /\ Append(modified, t) \in Seq(Blocks)
        BY DEF TypeOK
      <3> QED
        BY <1>16, <3>1 DEF ToolEnds
    <2> QED
      BY <1>16, <2>4, <2>5 DEF ToolEnds, TypeOK, loopVars
  <1>19. ASSUME NEW t \in Blocks, ToolReject(t)
         PROVE  TypeOK'
    BY <1>19 DEF ToolReject, TypeOK, toolVars, loopVars
  <1>20. CASE UserAbort
    BY <1>20 DEF UserAbort, TypeOK, toolVars, loopVars
  <1>21. CASE UNCHANGED vars
    BY <1>21 DEF vars, TypeOK
  <1> QED
    BY <1>1, <1>2, <1>3, <1>4, <1>5, <1>6, <1>7, <1>8, <1>9, <1>10, <1>12,
       <1>13, <1>14, <1>15, <1>16, <1>17, <1>18, <1>19, <1>20, <1>21
       DEF Next, Loop, Tool

\* Every reachable state has the variables in their types.
THEOREM TypeCorrect == Spec => []TypeOK
  BY InitType, NextType, PTL DEF Spec

-----------------------------------------------------------------------------
(***************************************************************************)
(* Exclusive access.  A tool can leave the status "executing" while its    *)
(* call is still in flight, so the statuses canExecuteTool() looks at do   *)
(* not show every call.  What saves exclusive access is that this happens  *)
(* only under a cancellation, which is never taken back and under which no *)
(* call of the same executor starts.                                       *)
(***************************************************************************)
Cancelled(e) == e < attempt \/ errored[e] \/ abort # "none"

NotArrived == \A t \in Blocks : t > arrived => status[t] = "none" /\ call[t] = "none"

OfPast == \A t \in Blocks : of[t] <= attempt

StrayCalls ==
    \A t \in Blocks :
        (call[t] = "inflight" /\ status[t] # "executing") => Cancelled(of[t])

ExclusiveInv == TypeOK /\ NotArrived /\ OfPast /\ StrayCalls /\ ExclusiveCalls

\* The steps that leave all of this alone but the statuses of finished tools.
LEMMA ExclusiveUnchanged ==
    ASSUME ExclusiveInv, TypeOK',
           UNCHANGED <<kind, arrived, of, call, errored, attempt>>,
           abort' = abort \/ abort' # "none",
           \A t \in Blocks : \/ status'[t] = status[t]
                             \/ status[t] = "completed"
                             \/ Cancelled(of[t]) /\ status[t] # "none"
    PROVE  ExclusiveInv'
  <1>1. NotArrived'
    BY DEF ExclusiveInv, NotArrived
  <1>2. OfPast'
    BY DEF ExclusiveInv, OfPast
  <1>3. StrayCalls'
    BY DEF ExclusiveInv, StrayCalls, Cancelled
  <1>4. ExclusiveCalls'
    BY DEF ExclusiveInv, ExclusiveCalls
  <1> QED
    BY <1>1, <1>2, <1>3, <1>4 DEF ExclusiveInv

\* The steps that start tool t, over statuses st that differ from the current
\* ones by a newly queued tool at most.
LEMMA StartKeepsExclusive ==
    ASSUME ExclusiveInv, TypeOK',
           UNCHANGED <<kind, of, errored, attempt, abort>>,
           arrived' \in Nat, arrived <= arrived',
           NEW st \in [Blocks -> Statuses], NEW t \in Blocks, NEW held,
           \A u \in Blocks : \/ st[u] = status[u]
                             \/ status[u] = "none" /\ st[u] = "queued",
           \A u \in Blocks : u > arrived' => st[u] = "none",
           st[t] = "queued", CanExecute(st, t), ExecuteTool(st, t, held)
    PROVE  ExclusiveInv'
  <1>1. t <= arrived'
    BY DEF ExclusiveInv, TypeOK, Blocks
  <1>2. \A u \in Blocks : u # t => call'[u] = call[u] /\ status'[u] = st[u]
    BY DEF ExecuteTool, ExclusiveInv, TypeOK
  <1>3. NotArrived'
    <2>1. arrived \in Nat /\ \A u \in Blocks : u \in Nat
      BY DEF ExclusiveInv, TypeOK, Blocks
    <2>2. \A u \in Blocks : u > arrived' => u > arrived /\ u # t
      BY <1>1, <2>1
    <2> QED
      BY <1>2, <2>2 DEF ExclusiveInv, NotArrived
  <1>4. OfPast'
    BY DEF ExclusiveInv, OfPast
  <1>5. Reason(t) # "none" => Cancelled(of[t])
    BY DEF Reason, Cancelled
  <1>6. StrayCalls'
    <2> SUFFICES ASSUME NEW u \in Blocks,
                        call'[u] = "inflight", status'[u] # "executing"
                 PROVE  Cancelled(of[u])
      BY DEF StrayCalls, Cancelled
    <2>1. CASE u # t
      <3>1. call[u] = "inflight" /\ st[u] # "executing"
        BY <1>2, <2>1
      <3>2. status[u] # "executing"
        BY <3>1
      <3> QED
        BY <3>1, <3>2 DEF ExclusiveInv, StrayCalls
    <2>2. CASE u = t
      <3>1. CASE Reason(t) # "none"
        BY <1>5, <2>2, <3>1
      <3>2. CASE Reason(t) = "none"
        BY <2>2, <3>2 DEF ExecuteTool
      <3> QED
        BY <3>1, <3>2
    <2> QED
      BY <2>1, <2>2
  <1>7. ExclusiveCalls'
    <2>1. CASE call'[t] # "inflight"
      BY <1>2, <2>1 DEF ExclusiveInv, ExclusiveCalls
    <2>2. CASE call'[t] = "inflight" /\ UNCHANGED call
      BY <2>2 DEF ExclusiveInv, ExclusiveCalls
    <2>3. CASE call'[t] = "inflight" /\ ~UNCHANGED call
      <3>1. Reason(t) = "none" /\ ~SignalAborted(t)
        BY <2>3 DEF ExecuteTool, ExclusiveInv, TypeOK
      <3>2. ~Cancelled(of[t])
        BY <3>1 DEF Reason, SignalAborted, Cancelled
      <3>3. ASSUME NEW u \in Blocks, u # t, of[u] = of[t], call[u] = "inflight"
            PROVE  kind[t].safe /\ kind[u].safe
        <4>1. status[u] = "executing"
          BY <3>2, <3>3 DEF ExclusiveInv, StrayCalls
        <4>2. st[u] = "executing"
          BY <4>1
        <4> QED
          BY <3>3, <4>2 DEF CanExecute
      <3> QED
        BY <1>2, <3>3 DEF ExclusiveInv, ExclusiveCalls
    <2> QED
      BY <2>1, <2>2, <2>3
  <1> QED
    BY <1>3, <1>4, <1>6, <1>7 DEF ExclusiveInv

LEMMA ExclusiveInvariant == Spec => []ExclusiveInv
<1>1. Init => ExclusiveInv
  <2> SUFFICES ASSUME Init
               PROVE  ExclusiveInv
    OBVIOUS
  <2>1. TypeOK
    BY InitType
  <2>2. NotArrived /\ StrayCalls /\ ExclusiveCalls
    BY DEF Init, NotArrived, StrayCalls, ExclusiveCalls
  <2>3. OfPast
    BY DEF Init, OfPast
  <2> QED
    BY <2>1, <2>2, <2>3 DEF ExclusiveInv
<1>2. ExclusiveInv /\ [Next]_vars => ExclusiveInv'
  <2> SUFFICES ASSUME ExclusiveInv, [Next]_vars
               PROVE  ExclusiveInv'
    OBVIOUS
  <2>0. TypeOK /\ TypeOK'
    BY NextType DEF ExclusiveInv
  <2>a. arrived \in Nat /\ \A t \in Blocks : t \in Nat
    BY <2>0 DEF TypeOK, Blocks
  <2>1. CASE ReceiveToolUse
    <3> DEFINE t == arrived + 1
               st == [status EXCEPT ![t] = "queued"]
    <3>1. /\ t \in Blocks /\ arrived' = t /\ status[t] = "none"
          /\ UNCHANGED <<kind, of, errored, attempt, abort>>
      BY <2>0, <2>1, <2>a DEF ReceiveToolUse, TypeOK, ExclusiveInv, NotArrived,
                              Blocks
    <3>2. st \in [Blocks -> Statuses]
      BY <2>0 DEF TypeOK, Statuses
    <3>3. \A u \in Blocks : u > t => status[u] = "none" /\ call[u] = "none"
      BY <2>a DEF ExclusiveInv, NotArrived
    <3>4. ASSUME UNCHANGED call, \A u \in Blocks : u # t => status'[u] = status[u]
          PROVE  ExclusiveInv'
      <4>1. NotArrived'
        BY <2>a, <3>1, <3>3, <3>4 DEF NotArrived
      <4>2. OfPast' /\ ExclusiveCalls'
        BY <3>1, <3>4 DEF ExclusiveInv, OfPast, ExclusiveCalls
      <4>3. call[t] = "none"
        BY <2>a, <3>1 DEF ExclusiveInv, NotArrived
      <4>4. StrayCalls'
        BY <3>1, <3>4, <4>3 DEF ExclusiveInv, StrayCalls, Cancelled
      <4> QED
        BY <2>0, <4>1, <4>2, <4>4 DEF ExclusiveInv
    <3>5. CASE abort = "none" /\ kind[t].known /\ Picks(st, attempt, 0) = {}
      BY <2>0, <2>1, <3>4, <3>5 DEF ReceiveToolUse, ProcessQueue, EndScan, TypeOK
    <3>6. CASE \E u \in Picks(st, attempt, 0) : ExecuteTool(st, u, micro)
      <4>1. PICK u \in Blocks : /\ ExecuteTool(st, u, micro)
                                /\ st[u] = "queued" /\ CanExecute(st, u)
        BY <3>6 DEF Picks
      <4>2. \A v \in Blocks : \/ st[v] = status[v]
                              \/ status[v] = "none" /\ st[v] = "queued"
        BY <2>0, <3>1 DEF TypeOK
      <4>3. \A v \in Blocks : v > arrived' => st[v] = "none"
        BY <2>0, <2>a, <3>1, <3>3 DEF TypeOK
      <4> HIDE DEF st
      <4> QED
        BY <2>0, <2>a, <3>1, <3>2, <4>1, <4>2, <4>3, StartKeepsExclusive
    <3>7. CASE ~(abort = "none" /\ kind[t].known)
      BY <2>0, <2>1, <3>4, <3>7 DEF ReceiveToolUse, TypeOK
    <3> QED
      BY <2>1, <3>5, <3>6, <3>7 DEF ReceiveToolUse, ProcessQueue
  <2>2. ASSUME NEW t \in Blocks, NEW held,
               status[t] = "queued", CanExecute(status, t),
               ExecuteTool(status, t, held),
               UNCHANGED <<kind, arrived, of, errored, attempt, abort>>
        PROVE  ExclusiveInv'
    <3>1. status \in [Blocks -> Statuses]
      BY <2>0 DEF TypeOK
    <3>2. \A u \in Blocks : u > arrived' => status[u] = "none"
      BY <2>2 DEF ExclusiveInv, NotArrived
    <3> QED
      BY <2>0, <2>2, <2>a, <3>1, <3>2, StartKeepsExclusive
  <2>3. CASE ReceiveText \/ StreamEnd \/ EndStreamSweep \/ EndSweep \/ Wake
             \/ EndTurn \/ ModelError \/ UNCHANGED vars
    BY <2>0, <2>3, ExclusiveUnchanged
       DEF ReceiveText, StreamEnd, EndStreamSweep, EndSweep, Wake, EndTurn,
           ModelError, vars, toolVars, loopVars
  <2>4. CASE Sweep
    <3>1. \A t \in Blocks : status'[t] = status[t] \/ status[t] = "completed"
      BY <2>0, <2>4 DEF Sweep, YieldsNext, YieldProgress, YieldResult, Tracked,
                        TypeOK
    <3> QED
      BY <2>0, <2>4, <3>1, ExclusiveUnchanged DEF Sweep
  <2>5. CASE Drain
    <3>1. CASE UNCHANGED toolVars
      BY <2>0, <2>5, <3>1, ExclusiveUnchanged DEF Drain, toolVars
    <3>2. CASE \E t \in Picks(status, attempt, 0) : ExecuteTool(status, t, micro)
      BY <2>2, <2>5, <3>2 DEF Drain, Picks
    <3> QED
      BY <2>5, <3>1, <3>2 DEF Drain
  <2>6. CASE StreamingFallback \/ ModelFallback
    <3>1. NextAttempt /\ UNCHANGED <<kind, arrived, toolVars, errored, abort>>
      BY <2>6 DEF StreamingFallback, ModelFallback
    <3>2. \A t \in Blocks : /\ t > arrived => call[t] = "none"
                            /\ ~(t > arrived) => of'[t] = of[t]
      BY <2>0, <3>1 DEF NextAttempt, TypeOK, ExclusiveInv, NotArrived
    <3>3. NotArrived'
      BY <3>1 DEF ExclusiveInv, NotArrived, toolVars
    <3>4. OfPast'
      BY <2>0, <3>1 DEF ExclusiveInv, OfPast, NextAttempt, TypeOK, Attempts
    <3>5. attempt \in Nat /\ attempt' = attempt + 1
          /\ \A t \in Blocks : of[t] \in Nat
      <4>1. attempt \in Attempts /\ of \in [Blocks -> Attempts]
        BY <2>0 DEF TypeOK
      <4>2. attempt' = attempt + 1
        BY <3>1 DEF NextAttempt
      <4> QED
        BY <4>1, <4>2 DEF Attempts
    <3>6. StrayCalls'
      <4> SUFFICES ASSUME NEW t \in Blocks,
                          call[t] = "inflight", status[t] # "executing"
                   PROVE  Cancelled(of[t])'
        BY <3>1 DEF StrayCalls, toolVars
      <4>1. of'[t] = of[t] /\ of[t] <= attempt
        BY <3>2 DEF ExclusiveInv, OfPast
      <4> QED
        BY <3>5, <4>1 DEF Cancelled
    <3>7. ExclusiveCalls'
      BY <3>1, <3>2 DEF ExclusiveInv, ExclusiveCalls, toolVars
    <3> QED
      BY <2>0, <3>3, <3>4, <3>6, <3>7 DEF ExclusiveInv
  <2>7. ASSUME NEW m \in micro, Resume(m)
        PROVE  ExclusiveInv'
    <3>1. UNCHANGED <<kind, arrived, of, errored, attempt, abort>>
      BY <2>7 DEF Resume
    <3>2. CASE UNCHANGED <<status, call, result>>
      BY <2>0, <3>1, <3>2, ExclusiveUnchanged
    <3>3. CASE \E t \in Blocks : /\ status[t] = "queued" /\ CanExecute(status, t)
                                 /\ ExecuteTool(status, t, micro \ {m})
      BY <2>2, <3>1, <3>3
    <3> QED
      BY <2>7, <3>2, <3>3 DEF Resume, Picks, EndScan
  <2>8. ASSUME NEW t \in Blocks, ToolProgress(t)
        PROVE  ExclusiveInv'
    <3>1. UNCHANGED <<kind, arrived, of, call, errored, attempt, abort>>
      BY <2>8 DEF ToolProgress
    <3>2. Reason(t) # "none" => Cancelled(of[t])
      BY DEF Reason, Cancelled
    <3>3. \A u \in Blocks : \/ status'[u] = status[u]
                            \/ Cancelled(of[u]) /\ status[u] # "none"
      BY <2>0, <2>8, <3>2 DEF ToolProgress, Complete, TypeOK
    <3> QED
      BY <2>0, <3>1, <3>3, ExclusiveUnchanged
  <2>9. ASSUME NEW t \in Blocks, call[t] \in {"inflight", "stopped", "answered"},
               NEW c \in {"answered", "ended"}, call' = [call EXCEPT ![t] = c],
               \A u \in Blocks : u # t => status'[u] = status[u],
               \A e \in Attempts : errored[e] => errored'[e],
               UNCHANGED <<kind, arrived, of, attempt, abort>>
        PROVE  ExclusiveInv'
    <3>1. /\ call'[t] = c
          /\ \A u \in Blocks : u # t => call'[u] = call[u]
      BY <2>0, <2>9 DEF TypeOK
    <3>2. ~(t > arrived)
      BY <2>9 DEF ExclusiveInv, NotArrived
    <3>3. NotArrived' /\ OfPast'
      BY <2>9, <3>1, <3>2 DEF ExclusiveInv, NotArrived, OfPast
    <3>4. StrayCalls'
      BY <2>0, <2>9, <3>1 DEF ExclusiveInv, StrayCalls, Cancelled, TypeOK
    <3>5. ExclusiveCalls'
      BY <2>9, <3>1 DEF ExclusiveInv, ExclusiveCalls
    <3> QED
      BY <2>0, <3>3, <3>4, <3>5 DEF ExclusiveInv
  <2>10. ASSUME NEW t \in Blocks, NEW r, Answer(t, r)
         PROVE  /\ \A u \in Blocks : u # t => status'[u] = status[u]
                /\ \A e \in Attempts : errored[e] => errored'[e]
                /\ \E c \in {"answered", "ended"} :
                      call' = [call EXCEPT ![t] = c]
    BY <2>0, <2>10 DEF Answer, Complete, TypeOK
  <2>11. ASSUME NEW t \in Blocks, ToolReturn(t) \/ ToolStopped(t)
         PROVE  ExclusiveInv'
    <3>1. /\ call[t] \in {"inflight", "stopped"}
          /\ UNCHANGED <<kind, arrived, of, attempt, abort>>
      BY <2>11 DEF ToolReturn, ToolStopped
    <3>2. CASE \E r : Answer(t, r)
      BY <2>9, <2>10, <3>1, <3>2
    <3>3. CASE call' = [call EXCEPT ![t] = "ended"] /\ UNCHANGED <<status, errored>>
      BY <2>9, <3>1, <3>3
    <3> QED
      BY <2>11, <3>2, <3>3 DEF ToolReturn, ToolStopped
  <2>15. ASSUME NEW t \in Blocks, ToolEnds(t)
         PROVE  ExclusiveInv'
    <3>1. \A u \in Blocks : u # t => status'[u] = status[u]
      BY <2>0, <2>15 DEF ToolEnds, Complete, TypeOK
    <3> QED
      BY <2>9, <2>15, <3>1 DEF ToolEnds
  <2>12. ASSUME abort' # "none",
                UNCHANGED <<kind, arrived, of, status, call, errored, attempt>>
         PROVE  ExclusiveInv'
    BY <2>0, <2>12, ExclusiveUnchanged
  <2>13. ASSUME NEW t \in Blocks, ToolReject(t)
         PROVE  ExclusiveInv'
    BY <2>12, <2>13 DEF ToolReject, toolVars
  <2>14. CASE UserAbort
    BY <2>12, <2>14 DEF UserAbort, toolVars
  <2> QED
    BY <2>1, <2>3, <2>4, <2>5, <2>6, <2>7, <2>8, <2>11, <2>13, <2>14,
       <2>15
       DEF Next, Loop, Tool
<1> QED
  BY <1>1, <1>2, PTL DEF Spec

\* For every set of tools and every interleaving, while a call of an unsafe
\* tool is in flight no other call of its executor is.
THEOREM ExclusiveAccess == Spec => []ExclusiveCalls
<1>1. ExclusiveInv => ExclusiveCalls
  BY DEF ExclusiveInv
<1> QED
  BY <1>1, ExclusiveInvariant, PTL

-----------------------------------------------------------------------------
\* What a call that starts has been asked.
LEMMA StartsUncancelled ==
    ASSUME ExclusiveInv, NEW st, NEW u \in Blocks, NEW held, ExecuteTool(st, u, held),
           NEW t \in Blocks, call[t] = "none", call'[t] = "inflight"
    PROVE  ~errored[of[t]] /\ abort = "none" /\ of[t] = attempt
  <1>1. t = u /\ Reason(u) = "none" /\ ~SignalAborted(u)
    BY DEF ExecuteTool, ExclusiveInv, TypeOK
  <1>2. of[t] <= attempt /\ ~(of[t] < attempt)
    BY <1>1 DEF ExclusiveInv, OfPast, Reason
  <1>3. of[t] \in Nat /\ attempt \in Nat
    BY DEF ExclusiveInv, TypeOK, Attempts
  <1>4. of[t] = attempt
    BY <1>2, <1>3
  <1> QED
    BY <1>1, <1>4 DEF SignalAborted

\* No step of any scan, however long ago it was suspended, starts a call in
\* an executor that was discarded, whose turn was aborted or in which a Bash
\* call has failed.
THEOREM NothingAfterCancel == Spec => NoCallAfterCancel
<1> DEFINE Starts(t) == call[t] = "none" /\ call'[t] = "inflight"
           Live(t) == ~errored[of[t]] /\ abort = "none" /\ of[t] = attempt
<1>1. ExclusiveInv /\ [Next]_vars => [\A t \in Blocks : Starts(t) => Live(t)]_vars
  <2> SUFFICES ASSUME ExclusiveInv, Next, NEW t \in Blocks, Starts(t)
               PROVE  Live(t)
    BY DEF vars
  <2>1. ASSUME NEW st, NEW e, NEW p, NEW held, ProcessQueue(st, e, p, held)
        PROVE  Live(t)
    BY <2>1, StartsUncancelled DEF ProcessQueue, EndScan, Picks
  <2>2. CASE ReceiveToolUse
    BY <2>1, <2>2 DEF ReceiveToolUse
  <2>3. CASE Drain
    BY <2>3, StartsUncancelled DEF Drain, Picks, toolVars
  <2>4. ASSUME NEW m \in micro, Resume(m)
        PROVE  Live(t)
    BY <2>4, StartsUncancelled DEF Resume, Picks, EndScan
  <2>5. ASSUME NEW u \in Blocks, Tool(u)
        PROVE  Live(t)
    <3>1. \/ UNCHANGED call
          \/ \E c \in {"answered", "ended"} : call' = [call EXCEPT ![u] = c]
      BY <2>5 DEF Tool, ToolProgress, ToolReturn, ToolStopped, ToolEnds, ToolReject,
                  Answer, toolVars
    <3> QED
      BY <3>1 DEF ExclusiveInv, TypeOK
  <2>6. ASSUME UNCHANGED call
        PROVE  Live(t)
    BY <2>6
  <2> QED
    BY <2>2, <2>3, <2>4, <2>5, <2>6
    DEF Next, Loop, ReceiveText, StreamEnd, Sweep, YieldProgress, YieldResult,
        EndStreamSweep, EndSweep, Wake, EndTurn, StreamingFallback, ModelFallback,
        ModelError, UserAbort, toolVars
<1> QED
  BY <1>1, ExclusiveInvariant, PTL DEF Spec, NoCallAfterCancel

-----------------------------------------------------------------------------
(***************************************************************************)
(* Order.  Several scans of the queue may be suspended at once.  Each has  *)
(* left no queued tool behind it: it passes over one only while an unsafe  *)
(* tool executes, and then it starts nothing.                              *)
(***************************************************************************)
Started(st, t) == st[t] \in {"executing", "completed", "yielded"}

\* A queued tool has no started tool behind it; an unsafe tool has only
\* finished tools before it.
OrderOf(st) ==
    \A t, u \in Blocks :
        (t < u /\ of[t] = of[u] /\ kind[u].known /\ Started(st, u)) =>
            /\ st[t] # "queued"
            /\ kind[u].safe \/ st[t] \in {"dropped", "completed", "yielded"}

ScansPast(st, held) ==
    \A m \in held : m[2] = "resume" =>
        \A t \in Blocks : (t <= m[1] /\ of[t] = of[m[1]]) => st[t] # "queued"

TokensStarted == \A m \in micro : status[m[1]] \notin {"none", "queued"}

ArrivedExactly(st, n) == \A t \in Blocks : (st[t] = "none") <=> (t > n)

ModifiersDone ==
    \A i \in 1..Len(modified) :
        /\ status[modified[i]] \in {"completed", "yielded"}
        /\ kind[modified[i]].known /\ ~kind[modified[i]].safe

OrderInv ==
    /\ TypeOK
    /\ ArrivedExactly(status, arrived)
    /\ OrderOf(status)
    /\ TokensStarted
    /\ ScansPast(status, micro)
    /\ ModifiersDone
    /\ ContextInOrder

LEMMA ModifiedBlocks ==
    ASSUME OrderInv
    PROVE  \A i \in 1..Len(modified) : modified[i] \in Blocks
  <1>1. modified \in Seq(Blocks)
    BY DEF OrderInv, TypeOK
  <1> QED
    BY <1>1, ElementOfSeq

LEMMA StartKeepsOrder ==
    ASSUME OrderInv, TypeOK',
           UNCHANGED <<kind, of, modified>>,
           NEW st \in [Blocks -> Statuses], NEW t \in Blocks,
           NEW held \in SUBSET micro, NEW e, NEW p \in Nat,
           \A u \in Blocks : \/ st[u] = status[u]
                             \/ status[u] = "none" /\ st[u] = "queued",
           ArrivedExactly(st, arrived'), OrderOf(st), ScansPast(st, held),
           \A u \in Blocks : (u <= p /\ of[u] = e) => st[u] # "queued",
           t \in Picks(st, e, p), ExecuteTool(st, t, held)
    PROVE  OrderInv'
  <1>1. /\ of[t] = e /\ st[t] = "queued" /\ CanExecute(st, t)
        /\ \A u \in Blocks : (p < u /\ u < t /\ of[u] = e /\ st[u] = "queued")
                                => kind[u].safe /\ ~CanExecute(st, u)
    BY DEF Picks
  <1>2. /\ \A u \in Blocks : u # t => status'[u] = st[u]
        /\ status'[t] \in {"executing", "completed"}
    BY DEF ExecuteTool
  <1>3. \A u \in Blocks : u \in Nat
    BY DEF Blocks
  <1>4. ASSUME NEW u \in Blocks, u < t, of[u] = e
        PROVE  st[u] # "queued"
    <2> SUFFICES ASSUME st[u] = "queued"
                 PROVE  FALSE
      OBVIOUS
    <2>1. kind[u].safe /\ ~CanExecute(st, u)
      BY <1>1, <1>3, <1>4
    <2>2. PICK v \in Blocks : of[v] = of[u] /\ st[v] = "executing"
                              /\ ~(kind[u].safe /\ kind[v].safe)
      BY <2>1 DEF CanExecute
    <2>3. kind[v].safe
      BY <1>1, <1>4, <2>2 DEF CanExecute
    <2> QED
      BY <2>1, <2>2, <2>3
  <1>5. OrderOf(status)'
    <2> SUFFICES ASSUME NEW x \in Blocks, NEW y \in Blocks,
                        x < y, of[x] = of[y], kind[y].known, Started(status', y)
                 PROVE  /\ status'[x] # "queued"
                        /\ \/ kind[y].safe
                           \/ status'[x] \in {"dropped", "completed", "yielded"}
      BY DEF OrderOf, Started
    <2>1. CASE y # t /\ x # t
      BY <1>2, <2>1 DEF OrderOf, Started
    <2>2. CASE y # t /\ x = t
      <3>1. Started(st, y)
        BY <1>2, <2>2 DEF Started
      <3> QED
        BY <1>1, <2>2, <3>1 DEF OrderOf
    <2>3. CASE y = t
      <3>1. x # t /\ status'[x] = st[x]
        BY <1>2, <1>3, <2>3
      <3>2. st[x] # "queued"
        BY <1>1, <1>4, <2>3
      <3>3. st[x] # "none"
        <4>1. arrived' \in Nat
          BY DEF TypeOK
        <4>2. st[t] # "none"
          BY <1>1
        <4>3. ~(t > arrived')
          BY <4>2 DEF ArrivedExactly
        <4>4. ~(x > arrived')
          BY <1>3, <2>3, <4>1, <4>3
        <4> QED
          BY <4>4 DEF ArrivedExactly
      <3>4. st[x] = "executing" => kind[t].safe
        BY <1>1, <2>3 DEF CanExecute
      <3> QED
        BY <2>3, <3>1, <3>2, <3>3, <3>4 DEF Statuses
    <2> QED
      BY <2>1, <2>2, <2>3
  <1>6. ScansPast(status, micro)'
    <2> SUFFICES ASSUME NEW m \in micro', m[2] = "resume",
                        NEW u \in Blocks, u <= m[1], of[u] = of[m[1]]
                 PROVE  status'[u] # "queued"
      BY DEF ScansPast
    <2>1. m \in held \/ m[1] = t
      BY DEF ExecuteTool
    <2>2. CASE m \in held
      BY <1>2, <2>2 DEF ScansPast
    <2>3. CASE m[1] = t
      BY <1>1, <1>2, <1>3, <1>4, <2>3
    <2> QED
      BY <2>1, <2>2, <2>3
  <1>7. TokensStarted'
    <2> SUFFICES ASSUME NEW m \in micro'
                 PROVE  status'[m[1]] \notin {"none", "queued"}
      BY DEF TokensStarted
    <2>1. m \in held \/ m[1] = t
      BY DEF ExecuteTool
    <2>2. CASE m \in held
      <3>1. m[1] \in Blocks /\ status[m[1]] \notin {"none", "queued"}
        BY <2>2 DEF OrderInv, TokensStarted, TypeOK
      <3>2. st[m[1]] \notin {"none", "queued"}
        BY <3>1
      <3> QED
        BY <1>2, <3>1, <3>2
    <2> QED
      BY <1>2, <2>1, <2>2
  <1>8. ArrivedExactly(status, arrived)'
    BY <1>1, <1>2 DEF ArrivedExactly
  <1>9. ModifiersDone'
    <2> SUFFICES ASSUME NEW i \in 1..Len(modified)
                 PROVE  status'[modified[i]] \in {"completed", "yielded"}
      BY DEF ModifiersDone, OrderInv
    <2>1. /\ modified[i] \in Blocks
          /\ status[modified[i]] \in {"completed", "yielded"}
      BY ModifiedBlocks DEF OrderInv, ModifiersDone
    <2>2. st[modified[i]] = status[modified[i]]
      BY <2>1
    <2> QED
      BY <1>1, <1>2, <2>1, <2>2
  <1>10. ContextInOrder'
    BY DEF OrderInv, ContextInOrder
  <1> QED
    BY <1>5, <1>6, <1>7, <1>8, <1>9, <1>10 DEF OrderInv

\* The steps that start no tool: tools complete and are yielded, suspended
\* scans end, reactions of completed tools are added.
LEMMA FinishKeepsOrder ==
    ASSUME OrderInv, TypeOK', UNCHANGED <<kind, of, arrived>>,
           \A t \in Blocks :
               \/ status'[t] = status[t]
               \/ status[t] = "executing" /\ status'[t] = "completed"
               \/ status[t] = "completed" /\ status'[t] = "yielded",
           \A m \in micro' :
               \/ m \in micro
               \/ m[2] = "finally" /\ status'[m[1]] = "completed"
    PROVE  /\ ArrivedExactly(status, arrived)'
           /\ OrderOf(status)'
           /\ TokensStarted'
           /\ ScansPast(status, micro)'
           /\ UNCHANGED modified => ModifiersDone' /\ ContextInOrder'
  <1>1. ArrivedExactly(status, arrived)'
    BY DEF OrderInv, ArrivedExactly
  <1>2. OrderOf(status)'
    BY DEF OrderInv, OrderOf, Started
  <1>3. TokensStarted'
    BY DEF OrderInv, TokensStarted, TypeOK
  <1>4. ScansPast(status, micro)'
    BY DEF OrderInv, ScansPast
  <1>5. ASSUME UNCHANGED modified
        PROVE  ModifiersDone' /\ ContextInOrder'
    <2>1. \A i \in 1..Len(modified) : modified[i] \in Blocks
      BY DEF OrderInv, TypeOK
    <2>2. ModifiersDone'
      BY <1>5, <2>1 DEF OrderInv, ModifiersDone
    <2>3. ContextInOrder'
      BY <1>5 DEF OrderInv, ContextInOrder
    <2> QED
      BY <2>2, <2>3
  <1> QED
    BY <1>1, <1>2, <1>3, <1>4, <1>5

LEMMA OrderInductive == OrderInv /\ [Next]_vars => OrderInv'
  <1> SUFFICES ASSUME OrderInv, [Next]_vars
               PROVE  OrderInv'
    OBVIOUS
  <1>0. TypeOK /\ TypeOK'
    BY NextType DEF OrderInv
  <1>a. arrived \in Nat /\ \A t \in Blocks : t \in Nat
    BY <1>0 DEF TypeOK, Blocks
  <1>1. CASE ReceiveToolUse
    <2> DEFINE n == arrived + 1
               st == [status EXCEPT ![n] = "queued"]
    <2>1. /\ n \in Blocks /\ arrived' = n
          /\ UNCHANGED <<kind, of, modified>>
      BY <1>1, <1>a, BlocksAssumption DEF ReceiveToolUse, Blocks
    <2>2. /\ status[n] = "none" /\ \A u \in Blocks : Started(status, u) => u < n
          /\ \A m \in micro : m[1] < n
      <3>1. \A u \in Blocks : status[u] # "none" => u < n
        BY <1>a DEF OrderInv, ArrivedExactly
      <3> QED
        BY <1>0, <1>a, <2>1, <3>1
           DEF OrderInv, ArrivedExactly, TokensStarted, Started, TypeOK
    <2>3. ASSUME NEW s \in [Blocks -> Statuses],
                 s[n] \in {"queued", "dropped", "completed"},
                 s[n] = "completed" => ~kind[n].known,
                 \A u \in Blocks : u # n => s[u] = status[u]
          PROVE  /\ ArrivedExactly(s, n)
                 /\ OrderOf(s)
                 /\ ScansPast(s, micro)
                 /\ \A m \in micro : s[m[1]] \notin {"none", "queued"}
      <3>1. ArrivedExactly(s, n)
        BY <1>a, <2>1, <2>3 DEF OrderInv, ArrivedExactly
      <3>2. OrderOf(s)
        BY <1>a, <2>1, <2>2, <2>3 DEF OrderInv, OrderOf, Started
      <3>3. ScansPast(s, micro)
        <4> SUFFICES ASSUME NEW m \in micro, m[2] = "resume",
                            NEW u \in Blocks, u <= m[1], of[u] = of[m[1]]
                     PROVE  s[u] # "queued"
          BY DEF ScansPast
        <4>1. u # n
          <5>1. m[1] \in Blocks /\ m[1] < n
            BY <1>0, <2>2 DEF TypeOK
          <5>2. m[1] \in Nat /\ n \in Nat /\ u \in Nat
            BY <1>a, <5>1
          <5> QED
            BY <5>1, <5>2
        <4> QED
          BY <2>3, <4>1 DEF OrderInv, ScansPast
      <3>4. \A m \in micro : s[m[1]] \notin {"none", "queued"}
        BY <1>0, <2>2, <2>3, <1>a DEF OrderInv, TokensStarted, TypeOK
      <3> QED
        BY <3>1, <3>2, <3>3, <3>4
    <2>4. ASSUME micro' = micro,
                 status'[n] \in {"queued", "dropped", "completed"},
                 status'[n] = "completed" => ~kind[n].known,
                 \A u \in Blocks : u # n => status'[u] = status[u]
          PROVE  OrderInv'
      <3>1. status' \in [Blocks -> Statuses]
        BY <1>0 DEF TypeOK
      <3>2. /\ ArrivedExactly(status, arrived)'
            /\ OrderOf(status)'
            /\ ScansPast(status, micro)'
            /\ TokensStarted'
        <4>1. /\ ArrivedExactly(status', n)
              /\ OrderOf(status')
              /\ ScansPast(status', micro)
              /\ \A m \in micro : status'[m[1]] \notin {"none", "queued"}
          BY <2>3, <2>4, <3>1
        <4> QED
          BY <2>1, <2>4, <4>1
             DEF ArrivedExactly, OrderOf, ScansPast, TokensStarted, Started
      <3>3. \A i \in 1..Len(modified) :
               modified[i] \in Blocks /\ status[modified[i]] # "none"
        BY ModifiedBlocks DEF OrderInv, ModifiersDone
      <3>4. ModifiersDone'
        BY <2>1, <2>2, <2>4, <3>3 DEF OrderInv, ModifiersDone
      <3>5. ContextInOrder'
        BY <2>1 DEF OrderInv, ContextInOrder
      <3> QED
        BY <1>0, <3>2, <3>4, <3>5 DEF OrderInv
    <2>5. st \in [Blocks -> Statuses]
      BY <1>0 DEF TypeOK, Statuses
    <2>6. st[n] = "queued" /\ \A u \in Blocks : u # n => st[u] = status[u]
      BY <1>0, <2>1 DEF TypeOK
    <2>7. CASE \E u \in Picks(st, attempt, 0) : ExecuteTool(st, u, micro)
      <3>1. PICK u \in Picks(st, attempt, 0) : ExecuteTool(st, u, micro)
        BY <2>7
      <3>2. u \in Blocks
        BY <3>1 DEF Picks
      <3>3. /\ ArrivedExactly(st, arrived') /\ OrderOf(st)
            /\ ScansPast(st, micro)
        BY <2>1, <2>3, <2>5, <2>6
      <3>4. \A v \in Blocks : \/ st[v] = status[v]
                              \/ status[v] = "none" /\ st[v] = "queued"
        BY <2>2, <2>6
      <3>5. \A v \in Blocks : (v <= 0 /\ of[v] = attempt) => st[v] # "queued"
        BY BlocksAssumption DEF Blocks
      <3> HIDE DEF st
      <3> QED
        BY <1>0, <2>1, <2>5, <3>1, <3>2, <3>3, <3>4, <3>5, StartKeepsOrder
    <2>8. CASE ProcessQueue(st, attempt, 0, micro)
                 /\ ~(\E u \in Picks(st, attempt, 0) : ExecuteTool(st, u, micro))
      BY <2>4, <2>6, <2>8 DEF ProcessQueue, EndScan
    <2>9. CASE status' = st /\ UNCHANGED micro
      BY <2>4, <2>6, <2>9
    <2>10. CASE ~(abort = "none" /\ kind[n].known)
      BY <1>0, <1>1, <2>1, <2>4, <2>10 DEF ReceiveToolUse, TypeOK
    <2> QED
      BY <1>1, <2>7, <2>8, <2>10 DEF ReceiveToolUse
  <1>2. ASSUME NEW t, NEW held \in SUBSET micro, NEW e, NEW p \in Nat,
               t \in Picks(status, e, p), ExecuteTool(status, t, held),
               \A u \in Blocks : (u <= p /\ of[u] = e) => status[u] # "queued",
               UNCHANGED <<kind, of, arrived, modified>>
        PROVE  OrderInv'
    <2>1. t \in Blocks /\ status \in [Blocks -> Statuses]
      BY <1>0, <1>2 DEF Picks, TypeOK
    <2>2. /\ ArrivedExactly(status, arrived') /\ OrderOf(status)
          /\ ScansPast(status, held)
      BY <1>2 DEF OrderInv, ScansPast
    <2> QED
      BY <1>0, <1>2, <2>1, <2>2, StartKeepsOrder
  <1>3. CASE ReceiveText \/ StreamEnd \/ EndStreamSweep \/ EndSweep \/ Wake
             \/ EndTurn \/ ModelError \/ UserAbort \/ UNCHANGED vars
    BY <1>0, <1>3, FinishKeepsOrder
       DEF ReceiveText, StreamEnd, EndStreamSweep, EndSweep, Wake, EndTurn,
           ModelError, UserAbort, vars, toolVars, loopVars, OrderInv
  <1>4. CASE Sweep
    <2>1. \A t \in Blocks : \/ status'[t] = status[t]
                            \/ status[t] = "completed" /\ status'[t] = "yielded"
      BY <1>0, <1>4 DEF Sweep, YieldsNext, YieldProgress, YieldResult, Tracked,
                        TypeOK
    <2> QED
      BY <1>0, <1>4, <2>1, FinishKeepsOrder DEF Sweep, OrderInv
  <1>5. CASE Drain
    <2>1. CASE UNCHANGED toolVars
      BY <1>0, <1>5, <2>1, FinishKeepsOrder DEF Drain, toolVars, OrderInv
    <2>2. CASE \E t \in Picks(status, attempt, 0) : ExecuteTool(status, t, micro)
      <3>1. \A u \in Blocks : (u <= 0 /\ of[u] = attempt) => status[u] # "queued"
        BY BlocksAssumption DEF Blocks
      <3> QED
        BY <1>2, <1>5, <2>2, <3>1 DEF Drain
    <2> QED
      BY <1>5, <2>1, <2>2 DEF Drain
  <1>6. CASE StreamingFallback \/ ModelFallback
    <2>1. NextAttempt /\ UNCHANGED <<kind, arrived, toolVars, modified>>
      BY <1>6 DEF StreamingFallback, ModelFallback
    <2>2. \A t \in Blocks : status[t] # "none" => of'[t] = of[t]
      BY <1>0, <1>a, <2>1 DEF NextAttempt, TypeOK, OrderInv, ArrivedExactly
    <2>3. ArrivedExactly(status, arrived)' /\ TokensStarted'
      BY <2>1 DEF OrderInv, ArrivedExactly, TokensStarted, toolVars
    <2>4. OrderOf(status)'
      <3> SUFFICES ASSUME NEW x \in Blocks, NEW y \in Blocks,
                          x < y, of'[x] = of'[y], kind[y].known,
                          Started(status, y)
                   PROVE  /\ status[x] # "queued"
                          /\ \/ kind[y].safe
                             \/ status[x] \in {"dropped", "completed", "yielded"}
        BY <2>1 DEF OrderOf, Started, toolVars
      <3>1. status[y] # "none"
        BY DEF Started
      <3>2. status[x] # "none"
        BY <1>a, <3>1 DEF OrderInv, ArrivedExactly
      <3> QED
        BY <2>2, <3>1, <3>2 DEF OrderInv, OrderOf
    <2>5. ScansPast(status, micro)'
      <3> SUFFICES ASSUME NEW m \in micro, m[2] = "resume",
                          NEW u \in Blocks, u <= m[1], of'[u] = of'[m[1]],
                          status[u] = "queued"
                   PROVE  FALSE
        BY <2>1 DEF ScansPast, toolVars
      <3>1. m[1] \in Blocks /\ status[m[1]] # "none"
        BY <1>0 DEF OrderInv, TokensStarted, TypeOK
      <3> QED
        BY <2>2, <3>1 DEF OrderInv, ScansPast
    <2>6. \A i \in 1..Len(modified) :
             modified[i] \in Blocks /\ status[modified[i]] # "none"
      BY ModifiedBlocks DEF OrderInv, ModifiersDone
    <2>7. ModifiersDone'
      BY <2>1 DEF OrderInv, ModifiersDone, toolVars
    <2>8. ContextInOrder'
      BY <2>1, <2>2, <2>6 DEF OrderInv, ContextInOrder
    <2> QED
      BY <1>0, <2>3, <2>4, <2>5, <2>7, <2>8 DEF OrderInv
  <1>7. ASSUME NEW m \in micro, Resume(m)
        PROVE  OrderInv'
    <2> DEFINE p == IF m[2] = "resume" THEN m[1] ELSE 0
    <2>1. m[1] \in Blocks /\ p \in Nat
      BY <1>0, <1>a DEF TypeOK
    <2>2. CASE EndScan(status, micro \ {m})
      BY <1>0, <1>7, <2>2, FinishKeepsOrder DEF Resume, EndScan, OrderInv
    <2>3. CASE \E t \in Picks(status, of[m[1]], p) :
                  ExecuteTool(status, t, micro \ {m})
      <3>1. \A u \in Blocks : (u <= p /\ of[u] = of[m[1]])
                                 => status[u] # "queued"
        BY BlocksAssumption DEF OrderInv, ScansPast, Blocks
      <3>2. UNCHANGED <<kind, of, arrived, modified>>
        BY <1>7 DEF Resume
      <3> HIDE DEF p
      <3> QED
        BY <1>2, <2>1, <2>3, <3>1, <3>2
    <2> QED
      BY <1>7, <2>2, <2>3 DEF Resume
  <1>8. ASSUME NEW t \in Blocks, NEW r, Complete(t, r), status[t] = "executing",
               UNCHANGED <<kind, of, arrived>>
        PROVE  /\ ArrivedExactly(status, arrived)'
               /\ OrderOf(status)'
               /\ TokensStarted'
               /\ ScansPast(status, micro)'
               /\ UNCHANGED modified => ModifiersDone' /\ ContextInOrder'
    <2>1. \A u \in Blocks : \/ status'[u] = status[u]
                            \/ status[u] = "executing" /\ status'[u] = "completed"
      BY <1>0, <1>8 DEF Complete, TypeOK
    <2>2. \A m \in micro' : \/ m \in micro
                            \/ m[2] = "finally" /\ status'[m[1]] = "completed"
      BY <1>0, <1>8 DEF Complete, TypeOK
    <2> QED
      BY <1>0, <1>8, <2>1, <2>2, FinishKeepsOrder
  <1>9. ASSUME NEW t \in Blocks, ToolProgress(t)
        PROVE  OrderInv'
    <2>1. CASE Reason(t) # "none"
      BY <1>0, <1>8, <1>9, <2>1 DEF ToolProgress, OrderInv
    <2>2. CASE Reason(t) = "none"
      BY <1>0, <1>9, <2>2, FinishKeepsOrder DEF ToolProgress, OrderInv
    <2> QED
      BY <2>1, <2>2
  <1>10. ASSUME NEW t \in Blocks, ToolEnds(t)
         PROVE  OrderInv'
    <2>0. /\ status[t] = "executing" /\ UNCHANGED <<kind, of, arrived>>
          /\ \E r : Complete(t, r)
      BY <1>10 DEF ToolEnds
    <2>1. CASE UNCHANGED modified
      BY <1>0, <1>8, <2>0, <2>1 DEF OrderInv
    <2>2. CASE ~kind[t].safe /\ modified' = Append(modified, t)
      <3>1. kind[t].known
        BY <1>0, <2>2, KindsAssumption DEF TypeOK
      <3>2. modified \in Seq(Blocks)
        BY <1>0 DEF TypeOK
      <3>3. \A i \in 1..Len(modified) :
                /\ modified[i] \in Blocks
                /\ status[modified[i]] \in {"completed", "yielded"}
                /\ kind[modified[i]].known /\ ~kind[modified[i]].safe
        BY <3>2 DEF OrderInv, ModifiersDone
      <3>4. \A i \in 1..Len(modified) : of[modified[i]] = of[t] => modified[i] < t
        <4> SUFFICES ASSUME NEW i \in 1..Len(modified), of[modified[i]] = of[t],
                            ~(modified[i] < t)
                     PROVE  FALSE
          OBVIOUS
        <4>1. modified[i] # t
          BY <2>0, <3>3
        <4>2. t < modified[i]
          BY <1>a, <3>3, <4>1
        <4> QED
          BY <2>0, <3>3, <4>2 DEF OrderInv, OrderOf, Started
      <3>5. /\ Len(modified') = Len(modified) + 1
            /\ modified'[Len(modified) + 1] = t
            /\ \A i \in 1..Len(modified) : modified'[i] = modified[i]
        BY <2>2, <3>2
      <3>6. ContextInOrder'
        <4> SUFFICES ASSUME NEW i \in 1..Len(modified'), NEW j \in 1..Len(modified'),
                            i < j, of[modified'[i]] = of[modified'[j]]
                     PROVE  modified'[i] < modified'[j]
          BY <2>0 DEF ContextInOrder
        <4>1. i \in 1..Len(modified)
          BY <3>2, <3>5
        <4>2. CASE j \in 1..Len(modified)
          BY <3>5, <4>1, <4>2 DEF OrderInv, ContextInOrder
        <4>3. CASE j = Len(modified) + 1
          BY <3>4, <3>5, <4>1, <4>3
        <4> QED
          BY <3>2, <3>5, <4>2, <4>3
      <3>7. /\ status'[t] = "completed"
            /\ \A u \in Blocks : u # t => status'[u] = status[u]
        BY <1>0, <2>0 DEF Complete, TypeOK
      <3>8. ModifiersDone'
        <4> SUFFICES ASSUME NEW i \in 1..Len(modified')
                     PROVE  /\ status'[modified'[i]] \in {"completed", "yielded"}
                            /\ kind[modified'[i]].known
                            /\ ~kind[modified'[i]].safe
          BY <2>0 DEF ModifiersDone
        <4>1. CASE i \in 1..Len(modified)
          BY <2>0, <3>3, <3>5, <3>7, <4>1
        <4>2. CASE i = Len(modified) + 1
          BY <2>2, <3>1, <3>5, <3>7, <4>2
        <4> QED
          BY <3>2, <3>5, <4>1, <4>2
      <3> QED
        BY <1>0, <1>8, <2>0, <3>6, <3>8 DEF OrderInv
    <2> QED
      BY <1>10, <2>1, <2>2 DEF ToolEnds
  <1>14. ASSUME NEW t \in Blocks, NEW r, Answer(t, r), status[t] = "executing",
                UNCHANGED <<kind, of, arrived, modified>>
         PROVE  OrderInv'
    <2>1. CASE Complete(t, <<Reason(t)>>)
      BY <1>0, <1>8, <1>14, <2>1 DEF OrderInv
    <2>2. CASE UNCHANGED <<status, micro>>
      BY <1>0, <1>14, <2>2, FinishKeepsOrder DEF OrderInv
    <2> QED
      BY <1>14, <2>1, <2>2 DEF Answer
  <1>11. ASSUME NEW t \in Blocks, ToolReturn(t)
         PROVE  OrderInv'
    <2>1. CASE status[t] = "executing" /\ \E r : Answer(t, r)
      <3>1. UNCHANGED <<kind, of, arrived, modified>>
        BY <1>11 DEF ToolReturn
      <3> QED
        BY <1>14, <2>1, <3>1
    <2>2. CASE UNCHANGED <<status, micro>>
      BY <1>0, <1>11, <2>2, FinishKeepsOrder DEF ToolReturn, OrderInv
    <2> QED
      BY <1>11, <2>1, <2>2 DEF ToolReturn
  <1>12. ASSUME NEW t \in Blocks, ToolReject(t)
         PROVE  OrderInv'
    BY <1>0, <1>12, FinishKeepsOrder DEF ToolReject, OrderInv, toolVars
  <1>13. ASSUME NEW t \in Blocks, ToolStopped(t)
         PROVE  OrderInv'
    BY <1>13, <1>14 DEF ToolStopped
  <1> QED
    BY <1>1, <1>3, <1>4, <1>5, <1>6, <1>7, <1>9, <1>10, <1>11, <1>12,
       <1>13
       DEF Next, Loop, Tool

LEMMA OrderInitially == Init => OrderInv
  <1> SUFFICES ASSUME Init
               PROVE  OrderInv
    OBVIOUS
  <1>1. TypeOK
    BY InitType
  <1>2. ArrivedExactly(status, arrived)
    BY DEF Init, ArrivedExactly, Blocks
  <1>3. OrderOf(status) /\ TokensStarted /\ ScansPast(status, micro)
    BY DEF Init, OrderOf, Started, TokensStarted, ScansPast
  <1>4. ModifiersDone /\ ContextInOrder
    BY DEF Init, ModifiersDone, ContextInOrder
  <1> QED
    BY <1>1, <1>2, <1>3, <1>4 DEF OrderInv

\* Tools start in the order received, whichever scans are suspended.
THEOREM FirstComeFirstStarted == Spec => []StartInOrder
<1>1. OrderInv => StartInOrder
  <2> SUFFICES ASSUME OrderInv, NEW t \in Blocks, NEW u \in Blocks,
                      t < u, of[t] = of[u], status[t] = "queued", kind[u].known
               PROVE  status[u] \in {"none", "dropped", "queued"}
    BY DEF StartInOrder
  <2>1. ~Started(status, u)
    BY DEF OrderInv, OrderOf
  <2> QED
    BY <2>1 DEF Started, OrderInv, TypeOK, Statuses
<1> QED
  BY <1>1, OrderInitially, OrderInductive, PTL DEF Spec

\* The context modifiers of an executor are applied in the order received.
THEOREM ModifiersInOrder == Spec => []ContextInOrder
<1>1. OrderInv => ContextInOrder
  BY DEF OrderInv
<1> QED
  BY <1>1, OrderInitially, OrderInductive, PTL DEF Spec

-----------------------------------------------------------------------------
(***************************************************************************)
(* The answers of a call.  Between the one it returned with and its end    *)
(* only microtasks run: a sibling's error may cancel it there, but neither *)
(* the user nor a fallback.                                                *)
(***************************************************************************)
Answering ==
    \A t \in Blocks : call[t] = "answered" =>
        /\ status[t] = "executing"
        /\ result[t] \in {<<"ok">>, <<"error">>, <<"stopped">>}
        /\ Reason(t) \in {"none", "sibling_error"}

OkThenSibling(r) == Len(r) = 2 /\ r[1] = "ok" /\ r[2] = "sibling_error"

Shapes ==
    \A t \in Blocks : status[t] = "completed" =>
        Len(result[t]) = 1 \/ OkThenSibling(result[t])

AnswersInv == Answering /\ Shapes

\* Steps that neither answer nor cancel.
LEMMA AnswersSame ==
    ASSUME AnswersInv, UNCHANGED <<call, result>>,
           \A t \in Blocks : \/ status'[t] = status[t]
                             \/ /\ status[t] # "executing"
                                /\ status'[t] # "completed",
           \/ UNCHANGED <<kind, of, errored, attempt, abort>>
           \/ \A t \in Blocks : call[t] # "answered"
    PROVE  AnswersInv'
<1>1. Answering'
    <2> SUFFICES ASSUME NEW t \in Blocks, call[t] = "answered"
                 PROVE  /\ status'[t] = "executing"
                        /\ result[t] \in {<<"ok">>, <<"error">>, <<"stopped">>}
                        /\ Reason(t)' \in {"none", "sibling_error"}
        BY DEF Answering
    <2>1. Reason(t)' = Reason(t)
        BY DEF Reason
    <2> QED
        BY <2>1 DEF AnswersInv, Answering
<1>2. Shapes'
    BY DEF AnswersInv, Shapes, OkThenSibling
<1> QED
    BY <1>1, <1>2 DEF AnswersInv

\* A start answers the tool that it finds cancelled, and no other.
LEMMA StartKeepsAnswers ==
    ASSUME TypeOK, AnswersInv,
           UNCHANGED <<kind, of, errored, attempt, abort>>,
           NEW st \in [Blocks -> Statuses], NEW t \in Blocks, NEW held,
           \A u \in Blocks : \/ st[u] = status[u]
                             \/ status[u] = "none" /\ st[u] = "queued",
           st[t] = "queued", ExecuteTool(st, t, held)
    PROVE  AnswersInv'
<1>1. /\ \A u \in Blocks : u # t => /\ status'[u] = st[u]
                                    /\ result'[u] = result[u]
                                    /\ call'[u] = call[u]
      /\ call'[t] \in {call[t], "inflight", "stopped"}
      /\ status'[t] = "completed" => result'[t] = <<Reason(t)>>
    BY DEF ExecuteTool, TypeOK
<1>2. call[t] # "answered"
    BY DEF AnswersInv, Answering
<1>3. Answering'
    <2> SUFFICES ASSUME NEW u \in Blocks, call'[u] = "answered"
                 PROVE  /\ status'[u] = "executing"
                        /\ result'[u] \in {<<"ok">>, <<"error">>, <<"stopped">>}
                        /\ Reason(u)' \in {"none", "sibling_error"}
        BY DEF Answering
    <2>1. u # t /\ call[u] = "answered"
        BY <1>1, <1>2
    <2>2. Reason(u)' = Reason(u)
        BY DEF Reason
    <2>3. /\ status[u] = "executing"
          /\ result[u] \in {<<"ok">>, <<"error">>, <<"stopped">>}
          /\ Reason(u) \in {"none", "sibling_error"}
        BY <2>1 DEF AnswersInv, Answering
    <2> QED
        BY <1>1, <2>1, <2>2, <2>3
<1>4. Shapes'
    <2> SUFFICES ASSUME NEW u \in Blocks, status'[u] = "completed"
                 PROVE  Len(result'[u]) = 1 \/ OkThenSibling(result'[u])
        BY DEF Shapes, OkThenSibling
    <2>1. CASE u = t
        BY <1>1, <2>1
    <2>2. CASE u # t
        BY <1>1, <2>2 DEF AnswersInv, Shapes, OkThenSibling
    <2> QED
        BY <2>1, <2>2
<1> QED
    BY <1>3, <1>4 DEF AnswersInv

\* A tool completes with one answer, or with an "ok" and a sibling's error.
LEMMA CompleteKeepsAnswers ==
    ASSUME TypeOK, AnswersInv,
           UNCHANGED <<kind, of, errored, attempt, abort>>,
           NEW t \in Blocks, NEW r, Complete(t, r),
           Len(r) = 1 \/ OkThenSibling(r),
           \A u \in Blocks : u # t => call'[u] = call[u],
           call'[t] # "answered"
    PROVE  AnswersInv'
<1>1. /\ \A u \in Blocks : u # t => /\ status'[u] = status[u]
                                    /\ result'[u] = result[u]
      /\ result'[t] = r
    BY DEF Complete, TypeOK
<1>2. Answering'
    <2> SUFFICES ASSUME NEW u \in Blocks, call'[u] = "answered"
                 PROVE  /\ status'[u] = "executing"
                        /\ result'[u] \in {<<"ok">>, <<"error">>, <<"stopped">>}
                        /\ Reason(u)' \in {"none", "sibling_error"}
        BY DEF Answering
    <2>1. u # t /\ call[u] = "answered"
        OBVIOUS
    <2>2. Reason(u)' = Reason(u)
        BY DEF Reason
    <2>3. /\ status[u] = "executing"
          /\ result[u] \in {<<"ok">>, <<"error">>, <<"stopped">>}
          /\ Reason(u) \in {"none", "sibling_error"}
        BY <2>1 DEF AnswersInv, Answering
    <2> QED
        BY <1>1, <2>1, <2>2, <2>3
<1>3. Shapes'
    <2> SUFFICES ASSUME NEW u \in Blocks, status'[u] = "completed"
                 PROVE  Len(result'[u]) = 1 \/ OkThenSibling(result'[u])
        BY DEF Shapes, OkThenSibling
    <2>1. CASE u = t
        BY <1>1, <2>1
    <2>2. CASE u # t
        BY <1>1, <2>2 DEF AnswersInv, Shapes, OkThenSibling
    <2> QED
        BY <2>1, <2>2
<1> QED
    BY <1>2, <1>3 DEF AnswersInv

LEMMA AnswerKeepsAnswers ==
    ASSUME TypeOK, AnswersInv, UNCHANGED <<kind, of, attempt, abort>>,
           NEW t \in Blocks, NEW r \in {"ok", "error", "stopped"}, Answer(t, r),
           status[t] = "executing"
    PROVE  AnswersInv'
<1>1. CASE Reason(t) # "none"
    <2>1. /\ Complete(t, <<Reason(t)>>)
          /\ call' = [call EXCEPT ![t] = "ended"] /\ UNCHANGED errored
        BY <1>1 DEF Answer
    <2>2. /\ call'[t] # "answered"
          /\ \A u \in Blocks : u # t => call'[u] = call[u]
        BY <2>1 DEF TypeOK
    <2>3. Len(<<Reason(t)>>) = 1
        OBVIOUS
    <2> QED
        BY <2>1, <2>2, <2>3, CompleteKeepsAnswers
<1>2. CASE Reason(t) = "none"
    <2>1. /\ status' = status
          /\ result'[t] = <<r>> /\ call'[t] = "answered"
          /\ \A u \in Blocks : u # t => /\ result'[u] = result[u]
                                        /\ call'[u] = call[u]
          /\ \A e \in Attempts : errored[e] => errored'[e]
        BY <1>2 DEF Answer, TypeOK
    <2>2. \A u \in Blocks : Reason(u)' \in {Reason(u), "sibling_error"}
        <3> SUFFICES ASSUME NEW u \in Blocks
                     PROVE  Reason(u)' \in {Reason(u), "sibling_error"}
            OBVIOUS
        <3>1. of[u] \in Attempts
            BY DEF TypeOK
        <3>2. errored[of[u]] => errored'[of[u]]
            BY <2>1, <3>1
        <3> QED
            BY <3>2 DEF Reason
    <2>3. Answering'
        <3> SUFFICES ASSUME NEW u \in Blocks, call'[u] = "answered"
                     PROVE  /\ status'[u] = "executing"
                            /\ result'[u] \in {<<"ok">>, <<"error">>, <<"stopped">>}
                            /\ Reason(u)' \in {"none", "sibling_error"}
            BY DEF Answering
        <3>1. CASE u = t
            BY <1>2, <2>1, <2>2, <3>1
        <3>2. CASE u # t
            <4>1. /\ status[u] = "executing"
                  /\ result[u] \in {<<"ok">>, <<"error">>, <<"stopped">>}
                  /\ Reason(u) \in {"none", "sibling_error"}
                BY <2>1, <3>2 DEF AnswersInv, Answering
            <4> QED
                BY <2>1, <2>2, <3>2, <4>1
        <3> QED
            BY <3>1, <3>2
    <2>4. Shapes'
        <3> SUFFICES ASSUME NEW u \in Blocks, status[u] = "completed"
                     PROVE  Len(result'[u]) = 1 \/ OkThenSibling(result'[u])
            BY <2>1 DEF Shapes, OkThenSibling
        <3> QED
            BY <2>1 DEF AnswersInv, Shapes, OkThenSibling
    <2> QED
        BY <2>3, <2>4 DEF AnswersInv
<1> QED
    BY <1>1, <1>2

LEMMA AnswersInductive == OrderInv /\ AnswersInv /\ [Next]_vars => AnswersInv'
<1> SUFFICES ASSUME OrderInv, AnswersInv, [Next]_vars
             PROVE  AnswersInv'
    OBVIOUS
<1>0. TypeOK /\ ArrivedExactly(status, arrived)
    BY DEF OrderInv
<1>1. Callback => \A t \in Blocks : call[t] # "answered"
    BY DEF Callback
<1>2. ASSUME NEW e, NEW p, NEW held,
             NEW t \in Picks(status, e, p), ExecuteTool(status, t, held),
             UNCHANGED <<kind, of, errored, attempt, abort>>
      PROVE  AnswersInv'
    <2>1. t \in Blocks /\ status[t] = "queued"
        BY DEF Picks
    <2>2. status \in [Blocks -> Statuses]
        BY <1>0 DEF TypeOK
    <2> QED
        BY <1>0, <1>2, <2>1, <2>2, StartKeepsAnswers
<1>3. CASE ReceiveToolUse
    <2> DEFINE n == arrived + 1
               st == [status EXCEPT ![n] = "queued"]
    <2>1. /\ n \in Blocks /\ status[n] = "none"
          /\ UNCHANGED <<kind, of, errored, attempt, abort>>
        BY <1>0, <1>3, BlocksAssumption
        DEF ReceiveToolUse, TypeOK, Blocks, ArrivedExactly
    <2>2. /\ st \in [Blocks -> Statuses] /\ st[n] = "queued"
          /\ \A u \in Blocks : u # n => st[u] = status[u]
        BY <1>0, <2>1 DEF TypeOK, Statuses
    <2>3. CASE status' = st /\ UNCHANGED <<call, result>>
        BY <2>1, <2>2, <2>3, AnswersSame
    <2>4. ASSUME NEW t \in Picks(st, attempt, 0), ExecuteTool(st, t, micro)
          PROVE  AnswersInv'
        <3>1. t \in Blocks /\ st[t] = "queued"
            BY DEF Picks
        <3> HIDE DEF st
        <3> QED
            BY <1>0, <2>1, <2>2, <2>4, <3>1, StartKeepsAnswers
    <2>5. CASE status' = [status EXCEPT ![n] = "dropped"] /\ UNCHANGED <<call, result>>
        <3>1. \A t \in Blocks : t # n => status'[t] = status[t]
            BY <1>0, <2>1, <2>5 DEF TypeOK
        <3>2. status'[n] = "dropped"
            BY <1>0, <2>1, <2>5 DEF TypeOK
        <3> QED
            BY <2>1, <2>5, <3>1, <3>2, AnswersSame
    <2>6. CASE /\ status' = [status EXCEPT ![n] = "completed"]
               /\ result' = [result EXCEPT ![n] = <<"no_such_tool">>]
               /\ UNCHANGED call
        <3>1. \A t \in Blocks : t # n => /\ status'[t] = status[t]
                                         /\ result'[t] = result[t]
            BY <1>0, <2>1, <2>6 DEF TypeOK
        <3>2. result'[n] = <<"no_such_tool">>
            BY <1>0, <2>1, <2>6 DEF TypeOK
        <3>3. Answering'
            <4> SUFFICES ASSUME NEW t \in Blocks, call[t] = "answered"
                         PROVE  /\ status'[t] = "executing"
                                /\ result'[t] \in {<<"ok">>, <<"error">>,
                                                   <<"stopped">>}
                                /\ Reason(t)' \in {"none", "sibling_error"}
                BY <2>6 DEF Answering
            <4>1. /\ status[t] = "executing"
                  /\ result[t] \in {<<"ok">>, <<"error">>, <<"stopped">>}
                  /\ Reason(t) \in {"none", "sibling_error"}
                BY DEF AnswersInv, Answering
            <4>2. Reason(t)' = Reason(t)
                BY <2>1 DEF Reason
            <4>3. t # n
                BY <2>1, <4>1
            <4> QED
                BY <3>1, <4>1, <4>2, <4>3
        <3>4. Shapes'
            <4> SUFFICES ASSUME NEW t \in Blocks, status'[t] = "completed"
                         PROVE  Len(result'[t]) = 1 \/ OkThenSibling(result'[t])
                BY DEF Shapes, OkThenSibling
            <4>1. CASE t = n
                BY <3>2, <4>1
            <4>2. CASE t # n
                BY <3>1, <4>2 DEF AnswersInv, Shapes, OkThenSibling
            <4> QED
                BY <4>1, <4>2
        <3> QED
            BY <3>3, <3>4 DEF AnswersInv
    <2> QED
        BY <1>3, <2>3, <2>4, <2>5, <2>6 DEF ReceiveToolUse, ProcessQueue, EndScan
<1>4. CASE Sweep
    <2>1. \A t \in Blocks : \/ status'[t] = status[t]
                            \/ status[t] = "completed" /\ status'[t] = "yielded"
        BY <1>0, <1>4 DEF Sweep, YieldsNext, YieldProgress, YieldResult, Tracked,
                          TypeOK
    <2> QED
        BY <1>4, <2>1, AnswersSame DEF Sweep
<1>5. CASE Drain
    <2>1. CASE UNCHANGED toolVars
        BY <1>5, <2>1, AnswersSame DEF Drain, toolVars
    <2>2. CASE \E t \in Picks(status, attempt, 0) : ExecuteTool(status, t, micro)
        BY <1>2, <1>5, <2>2 DEF Drain
    <2> QED
        BY <1>5, <2>1, <2>2 DEF Drain
<1>6. ASSUME NEW m \in micro, Resume(m)
      PROVE  AnswersInv'
    <2>1. UNCHANGED <<kind, of, errored, attempt, abort>>
        BY <1>6 DEF Resume
    <2>2. CASE EndScan(status, micro \ {m})
        BY <2>1, <2>2, AnswersSame DEF EndScan
    <2>3. ASSUME NEW e, NEW p, NEW t \in Picks(status, e, p),
                 ExecuteTool(status, t, micro \ {m})
          PROVE  AnswersInv'
        BY <1>2, <2>1, <2>3
    <2> QED
        BY <1>6, <2>2, <2>3 DEF Resume
<1>7. ASSUME NEW t \in Blocks, ToolProgress(t)
      PROVE  AnswersInv'
    <2>1. /\ UNCHANGED <<kind, of, call, errored, attempt, abort>>
          /\ call[t] = "inflight"
        BY <1>7 DEF ToolProgress
    <2>2. CASE Complete(t, <<Reason(t)>>)
        <3>1. Len(<<Reason(t)>>) = 1
            OBVIOUS
        <3> QED
            BY <1>0, <2>1, <2>2, <3>1, CompleteKeepsAnswers
    <2>3. CASE UNCHANGED <<status, result>>
        BY <2>1, <2>3, AnswersSame
    <2> QED
        BY <1>7, <2>2, <2>3 DEF ToolProgress
<1>8. ASSUME NEW t \in Blocks, ToolReturn(t)
      PROVE  AnswersInv'
    <2>1. CASE status[t] = "executing"
        <3>1. PICK r \in {"ok", "error", "stopped"} : Answer(t, r)
            BY <1>8, <2>1 DEF ToolReturn
        <3> QED
            BY <1>0, <1>8, <2>1, <3>1, AnswerKeepsAnswers DEF ToolReturn
    <2>2. CASE status[t] # "executing"
        <3>1. /\ UNCHANGED <<kind, of, status, result, errored, attempt, abort>>
              /\ call' = [call EXCEPT ![t] = "ended"]
            BY <1>8, <2>2 DEF ToolReturn
        <3>2. \A u \in Blocks : call'[u] = "answered" => call[u] = "answered"
            BY <1>0, <3>1 DEF TypeOK
        <3>3. \A u \in Blocks : Reason(u)' = Reason(u)
            BY <3>1 DEF Reason
        <3>4. Answering'
            <4> SUFFICES ASSUME NEW u \in Blocks, call'[u] = "answered"
                         PROVE  /\ status[u] = "executing"
                                /\ result[u] \in {<<"ok">>, <<"error">>,
                                                  <<"stopped">>}
                                /\ Reason(u) \in {"none", "sibling_error"}
                BY <3>1, <3>3 DEF Answering
            <4> QED
                BY <3>2 DEF AnswersInv, Answering
        <3>5. Shapes'
            BY <3>1 DEF AnswersInv, Shapes, OkThenSibling
        <3> QED
            BY <3>4, <3>5 DEF AnswersInv
    <2> QED
        BY <2>1, <2>2
<1>9. ASSUME NEW t \in Blocks, ToolStopped(t)
      PROVE  AnswersInv'
    BY <1>0, <1>9, AnswerKeepsAnswers DEF ToolStopped
<1>10. ASSUME NEW t \in Blocks, ToolEnds(t)
       PROVE  AnswersInv'
    <2>1. /\ UNCHANGED <<kind, of, errored, attempt, abort>>
          /\ call[t] = "answered" /\ call' = [call EXCEPT ![t] = "ended"]
        BY <1>10 DEF ToolEnds
    <2>2. /\ call'[t] # "answered"
          /\ \A u \in Blocks : u # t => call'[u] = call[u]
        BY <1>0, <2>1 DEF TypeOK
    <2>3. /\ result[t] \in {<<"ok">>, <<"error">>, <<"stopped">>}
          /\ Reason(t) \in {"none", "sibling_error"}
        BY <2>1 DEF AnswersInv, Answering
    <2>4. CASE Complete(t, result[t])
        <3>1. Len(result[t]) = 1
            BY <2>3
        <3> QED
            BY <1>0, <2>1, <2>2, <2>4, <3>1, CompleteKeepsAnswers
    <2>5. CASE /\ CancelledLater(t)
               /\ Complete(t, Append(result[t], Reason(t)))
        <3>1. result[t] = <<"ok">> /\ Reason(t) = "sibling_error"
            BY <2>3, <2>5 DEF CancelledLater
        <3>2. OkThenSibling(Append(result[t], Reason(t)))
            <4>1. result[t] \in Seq(Answers)
                BY <1>0 DEF TypeOK
            <4>2. Len(result[t]) = 1 /\ result[t][1] = "ok"
                BY <3>1
            <4> QED
                BY <3>1, <4>1, <4>2 DEF OkThenSibling, Answers, Reasons
        <3> QED
            BY <1>0, <2>1, <2>2, <2>5, <3>2, CompleteKeepsAnswers
    <2> QED
        BY <1>10, <2>4, <2>5 DEF ToolEnds
<1>11. CASE \/ StreamingFallback \/ ModelFallback \/ UserAbort
            \/ \E t \in Blocks : ToolReject(t)
    <2>1. /\ \A t \in Blocks : call[t] # "answered"
          /\ UNCHANGED <<call, result, status>>
        BY <1>1, <1>11
        DEF StreamingFallback, ModelFallback, UserAbort, ToolReject, toolVars
    <2> QED
        BY <2>1, AnswersSame
<1>12. CASE \/ ReceiveText \/ StreamEnd \/ EndStreamSweep \/ EndSweep \/ Wake
            \/ EndTurn \/ ModelError \/ UNCHANGED vars
    BY <1>12, AnswersSame
    DEF ReceiveText, StreamEnd, EndStreamSweep, EndSweep, Wake, EndTurn,
        ModelError, vars, toolVars, loopVars
<1> QED
    BY <1>3, <1>4, <1>5, <1>6, <1>7, <1>8, <1>9, <1>10, <1>11, <1>12
    DEF Next, Loop, Tool

LEMMA AnswersInvariant == Spec => [](OrderInv /\ AnswersInv)
<1>1. Init => AnswersInv
    BY DEF Init, AnswersInv, Answering, Shapes
<1> QED
    BY <1>1, OrderInitially, OrderInductive, AnswersInductive, PTL DEF Spec

-----------------------------------------------------------------------------
(***************************************************************************)
(* The results of an executor: one of each tool, and in order around an    *)
(* unsafe tool.                                                            *)
(***************************************************************************)

\* Only known tools are queued, run and report progress.
KnownRuns ==
    /\ \A t \in Blocks : status[t] \in {"queued", "executing"} => kind[t].known
    /\ \A t \in progress : kind[t].known /\ Started(status, t)

\* A scan is awaited only where the drain loop has just begun.
Awaits ==
    /\ awaited # 0 => pc = "scan"
    /\ pc = "scan" => pos = 0

Sent(i) == i \in 1..Len(emitted) /\ emitted[i].answer # "missing"

\* What was emitted is marked.
SentIsYielded == \A i \in Nat : Sent(i) => status[emitted[i].block] = "yielded"

Sweeping == pc \in {"streamSweep", "sweep"}

\* An unsafe tool whose result a suspended sweep has left behind has an unknown
\* tool after it that the sweep has reached.
SweptPast ==
    Sweeping =>
        \A u \in Blocks :
            (/\ u < pos /\ of[u] = attempt
             /\ ~kind[u].safe /\ status[u] \notin {"yielded", "dropped"})
                => \E w \in Blocks : u < w /\ w < pos /\ ~kind[w].known

ResultsInv ==
    /\ OrderInv
    /\ KnownRuns
    /\ Awaits
    /\ SentIsYielded
    /\ SweptPast
    /\ AnsweredOnce
    /\ BarrierOrder

-----------------------------------------------------------------------------
(* The steps that emit no result *)

\* How the status of a tool changes but for the result being emitted.
Onward ==
    \A t \in Blocks :
        \/ status'[t] = status[t]
        \/ /\ status[t] \in {"queued", "executing"}
           /\ status'[t] \in {"executing", "completed"}
        \/ /\ status[t] = "none" /\ kind[t].known
           /\ status'[t] \in {"queued", "executing", "completed"}
        \/ status[t] = "none" /\ status'[t] \in {"completed", "dropped"}

EmitsNoResult ==
    \A i \in Nat : Sent(i)' => Sent(i) /\ emitted'[i] = emitted[i]

\* A sweep starts anew or stays where it is.
SweepStays ==
    Sweeping' => \/ pos' = 0
                 \/ Sweeping /\ UNCHANGED <<pos, attempt, of>>

Quiet ==
    /\ kind' = kind
    /\ Onward
    /\ \A t \in Blocks : t <= arrived => of'[t] = of[t]
    /\ \A t \in progress' : t \in progress \/ status[t] = "executing"
    /\ EmitsNoResult
    /\ SweepStays

LEMMA SentBlock ==
    ASSUME TypeOK, NEW i \in Nat, Sent(i)
    PROVE  emitted[i].block \in Blocks
<1>1. emitted[i] \in Entries
    <2>1. emitted \in Seq(Entries)
        BY DEF TypeOK, Entries
    <2>2. i \in 1..Len(emitted)
        BY DEF Sent
    <2> QED
        BY <2>1, <2>2, ElementOfSeq
<1> QED
    BY <1>1 DEF Entries

LEMMA OnwardKnown ==
    ASSUME ResultsInv, TypeOK', Quiet
    PROVE  KnownRuns'
<1>1. \A t \in Blocks :
            status'[t] \in {"queued", "executing"} => kind'[t].known
    BY DEF Quiet, Onward, ResultsInv, KnownRuns
<1>2. ASSUME NEW t \in progress'
      PROVE  kind'[t].known /\ Started(status, t)'
    <2>1. t \in Blocks
        BY <1>2 DEF TypeOK
    <2>2. kind[t].known /\ Started(status, t)
        BY <1>2, <2>1 DEF Quiet, ResultsInv, KnownRuns, Started
    <2> QED
        BY <2>1, <2>2 DEF Quiet, Onward, Started
<1> QED
    BY <1>1, <1>2 DEF KnownRuns

LEMMA QuietKeeps ==
    ASSUME ResultsInv, OrderInv', Awaits', Quiet
    PROVE  ResultsInv'
<1>0. /\ TypeOK /\ TypeOK' /\ kind' = kind
      /\ \A t \in Blocks : status[t] \in {"yielded", "dropped"} =>
                                status'[t] = status[t]
    BY DEF ResultsInv, OrderInv, Quiet, Onward
<1>1. KnownRuns'
    BY <1>0, OnwardKnown
<1>2. \A i \in Nat : Sent(i)' =>
            /\ Sent(i) /\ emitted'[i] = emitted[i]
            /\ emitted[i].block \in Blocks
    BY <1>0, SentBlock DEF Quiet, EmitsNoResult
<1>3. SentIsYielded'
    BY <1>0, <1>2 DEF ResultsInv, SentIsYielded
<1>4. AnsweredOnce'
    <2>1. \A i \in 1..Len(emitted') : i \in Nat
        BY <1>0
    <2> QED
        BY <1>2, <2>1 DEF ResultsInv, AnsweredOnce, Sent
<1>5. BarrierOrder'
    <2> SUFFICES ASSUME NEW i \in (1..Len(emitted))', NEW u \in Blocks,
                        NEW t, t = emitted'[i].block,
                        emitted'[i].answer # "missing", u < t,
                        of'[u] = of'[t],
                        ~kind[u].safe, status'[u] # "dropped",
                        \A w \in Blocks : u < w /\ w <= t => kind[w].known
                 PROVE  status'[u] = "yielded"
        BY <1>0 DEF BarrierOrder
    <2>1. i \in Nat /\ Sent(i)'
        BY <1>0 DEF Sent
    <2>2. Sent(i) /\ t = emitted[i].block /\ t \in Blocks
        BY <1>2, <2>1
    <2>3. status[t] = "yielded"
        BY <2>1, <2>2 DEF ResultsInv, SentIsYielded
    <2>4. t <= arrived /\ u <= arrived
        <3>0. t \in Nat /\ u \in Nat
            BY <2>2, BlocksAssumption DEF Blocks
        <3>1. arrived \in Nat
            BY <1>0, BlocksAssumption DEF TypeOK
        <3>2. ~(t > arrived)
            BY <2>2, <2>3 DEF ResultsInv, OrderInv, ArrivedExactly
        <3> QED
            BY <3>0, <3>1, <3>2
    <2>5. of[u] = of[t]
        BY <2>2, <2>4 DEF Quiet
    <2>6. status[u] # "dropped"
        BY <1>0
    <2>7. status[u] = "yielded"
        BY <2>2, <2>5, <2>6 DEF ResultsInv, BarrierOrder, Sent
    <2> QED
        BY <1>0, <2>7
<1>6. SweptPast'
    <2> SUFFICES ASSUME Sweeping', NEW u \in Blocks, u < pos',
                        of'[u] = attempt', ~kind[u].safe,
                        status'[u] \notin {"yielded", "dropped"}
                 PROVE  \E w \in Blocks : u < w /\ w < pos' /\ ~kind[w].known
        BY <1>0 DEF SweptPast
    <2>1. pos' # 0
        BY DEF Blocks
    <2>2. Sweeping /\ UNCHANGED <<pos, attempt, of>>
        BY <2>1 DEF Quiet, SweepStays
    <2>3. status[u] \notin {"yielded", "dropped"}
        BY <1>0
    <2> QED
        BY <2>2, <2>3 DEF ResultsInv, SweptPast
<1> QED
    BY <1>1, <1>3, <1>4, <1>5, <1>6 DEF ResultsInv

-----------------------------------------------------------------------------
(* getCompletedResults() *)

\* An unsafe tool before the one that is yielded was yielded or dropped, unless
\* an unknown one made the sweep pass it.
LEMMA NothingLeftBehind ==
    ASSUME ResultsInv, Sweeping, NEW t \in YieldsNext, NEW u \in Blocks,
           u < t, of[u] = attempt, ~kind[u].safe,
           \A w \in Blocks : u < w /\ w <= t => kind[w].known
    PROVE  status[u] \in {"yielded", "dropped"}
<1>0. TypeOK
    BY DEF ResultsInv, OrderInv
<1>1. /\ t \in Blocks /\ of[t] = attempt /\ pos <= t
      /\ t \in progress \/ status[t] = "completed"
      /\ NotBarred(t)
      /\ \A v \in Tracked(attempt) :
            (pos <= v /\ (v \in progress \/ status[v] = "completed")) => t <= v
    BY DEF YieldsNext, Tracked
<1>2. Started(status, t) /\ kind[t].known
    BY <1>1 DEF ResultsInv, KnownRuns, Started, Blocks
<1>3. status[u] # "queued" /\ status[u] # "none"
    <2>1. status[u] # "queued"
        BY <1>1, <1>2 DEF ResultsInv, OrderInv, OrderOf
    <2>2. status[u] # "none"
        <3>1. arrived \in Nat /\ t \in Nat /\ u \in Nat
            <4>1. t \in Nat /\ u \in Nat
                BY <1>1, BlocksAssumption DEF Blocks
            <4> QED
                BY <1>0, <4>1, BlocksAssumption DEF TypeOK
        <3>2. status[t] # "none"
            BY <1>2 DEF Started
        <3>3. ~(t > arrived)
            BY <1>1, <3>2 DEF ResultsInv, OrderInv, ArrivedExactly
        <3> QED
            BY <3>1, <3>3 DEF ResultsInv, OrderInv, ArrivedExactly
    <2> QED
        BY <2>1, <2>2
<1>4. CASE pos <= u
    <2>1. CASE status[u] \in {"executing", "completed"}
        <3>1. u \in Tracked(attempt)
            BY <2>1 DEF Tracked
        <3>2. status[u] # "executing"
            BY <1>1, <1>4, <3>1 DEF NotBarred, Executing
        <3>3. status[u] # "completed"
            BY <1>1, <1>4, <3>1 DEF Blocks
        <3> QED
            BY <2>1, <3>2, <3>3
    <2> QED
        BY <1>0, <1>3, <2>1 DEF TypeOK, Statuses
<1>5. CASE ~(pos <= u)
    <2>1. u < pos
        BY <1>0, <1>5 DEF TypeOK, Blocks
    <2>2. SUFFICES ASSUME status[u] \notin {"yielded", "dropped"}
                   PROVE  FALSE
        OBVIOUS
    <2>3. PICK w \in Blocks : u < w /\ w < pos /\ ~kind[w].known
        BY <2>1, <2>2 DEF ResultsInv, SweptPast
    <2>4. w <= t
        BY <1>0, <1>1, <2>3 DEF TypeOK, Blocks
    <2> QED
        BY <2>3, <2>4
<1> QED
    BY <1>4, <1>5

\* ... and so is every unsafe tool before it, if that is not known itself.
LEMMA SweepPasses ==
    ASSUME ResultsInv, Sweeping, NEW t \in YieldsNext,
           NEW u \in Blocks, u < t, of[u] = attempt, ~kind[u].safe,
           status[u] \notin {"yielded", "dropped"}
    PROVE  \E w \in Blocks : u < w /\ w <= t /\ ~kind[w].known
BY NothingLeftBehind

LEMMA SweepKeeps ==
    ASSUME ResultsInv, Shapes, OrderInv', Sweep
    PROVE  ResultsInv'
<1>0. /\ TypeOK /\ TypeOK'
      /\ UNCHANGED <<kind, of, attempt, pc, awaited>>
      /\ Sweeping
    BY DEF ResultsInv, OrderInv, Sweep, Sweeping
<1>1. PICK t \in YieldsNext : YieldProgress(t) \/ YieldResult(t)
    BY DEF Sweep
<1>2. /\ t \in Blocks /\ of[t] = attempt /\ pos <= t /\ t \in Nat
      /\ t \in progress \/ status[t] = "completed"
    BY DEF YieldsNext, Tracked, Blocks
<1>3. Awaits'
    BY <1>0 DEF Awaits, Sweeping, ResultsInv
<1>4. CASE YieldProgress(t)
    <2>1. /\ t \in progress /\ progress' = progress \ {t} /\ pos' = t
          /\ UNCHANGED <<status, emitted>>
        BY <1>4 DEF YieldProgress
    <2>2. kind[t].known
        BY <2>1 DEF ResultsInv, KnownRuns
    <2>3. KnownRuns'
        BY <1>0, <2>1 DEF ResultsInv, KnownRuns, Started
    <2>4. SentIsYielded' /\ AnsweredOnce' /\ BarrierOrder'
        BY <1>0, <2>1
        DEF ResultsInv, SentIsYielded, Sent, AnsweredOnce, BarrierOrder
    <2>5. SweptPast'
        <3> SUFFICES ASSUME NEW u \in Blocks, u < t, of[u] = attempt,
                            ~kind[u].safe,
                            status[u] \notin {"yielded", "dropped"}
                     PROVE  \E w \in Blocks : u < w /\ w < t /\ ~kind[w].known
            BY <1>0, <2>1 DEF SweptPast
        <3>1. PICK w \in Blocks : u < w /\ w <= t /\ ~kind[w].known
            BY <1>0, SweepPasses
        <3>2. w # t
            BY <2>2, <3>1
        <3> QED
            BY <1>2, <3>1, <3>2 DEF Blocks
    <2> QED
        BY <1>3, <2>3, <2>4, <2>5 DEF ResultsInv
<1>5. CASE YieldResult(t)
    <2> DEFINE n == Len(emitted)
    <2>1. /\ status[t] = "completed"
          /\ status' = [status EXCEPT ![t] = "yielded"]
          /\ emitted' = emitted \o Yielded(t)
          /\ pos' = t + 1 /\ progress' = progress
        BY <1>5 DEF YieldResult
    <2>2. /\ n \in Nat /\ Len(emitted') \in Nat
          /\ \A i \in 1..n : emitted'[i] = emitted[i]
          /\ \A i \in 1..Len(emitted') :
                \/ i \in 1..n
                \/ /\ i - n \in 1..Len(result[t])
                   /\ emitted'[i] = [block |-> t, answer |-> result[t][i - n]]
        <3>1. /\ Yielded(t) \in Seq(Entries)
              /\ Len(Yielded(t)) = Len(result[t])
              /\ \A i \in 1..Len(result[t]) :
                    Yielded(t)[i] = [block |-> t, answer |-> result[t][i]]
            BY <1>0, <1>2, YieldedType
        <3>2. /\ n \in Nat /\ Len(Yielded(t)) \in Nat
              /\ Len(emitted') = n + Len(Yielded(t))
              /\ \A i \in 1..n : emitted'[i] = emitted[i]
              /\ \A i \in 1..Len(emitted') :
                    \/ i \in 1..n
                    \/ /\ i - n \in 1..Len(Yielded(t))
                       /\ emitted'[i] = Yielded(t)[i - n]
            BY <1>0, <2>1, <3>1, EmittedConcat
        <3> QED
            BY <3>1, <3>2
    <2> HIDE DEF n
    <2>3. /\ status'[t] = "yielded"
          /\ \A u \in Blocks : u # t => status'[u] = status[u]
          /\ \A u \in Blocks : status[u] \in {"yielded", "dropped"} =>
                                    status'[u] = status[u]
        BY <1>0, <1>2, <2>1 DEF TypeOK
    <2>4. KnownRuns'
        <3>1. progress \subseteq Blocks
            BY <1>0 DEF TypeOK
        <3> QED
            BY <1>0, <2>1, <2>3, <3>1 DEF ResultsInv, KnownRuns, Started
    <2>5. \A i \in 1..n : Sent(i) =>
                emitted[i].block \in Blocks /\ emitted[i].block # t
        BY <1>0, <2>1, <2>2, SentBlock DEF ResultsInv, SentIsYielded
    <2>10. ASSUME NEW i \in 1..Len(emitted'), i \notin 1..n
           PROVE  /\ i > n /\ i - n \in 1..Len(result[t])
                  /\ emitted'[i].block = t
                  /\ emitted'[i].answer = result[t][i - n]
        <3>1. /\ i - n \in 1..Len(result[t])
              /\ emitted'[i] = [block |-> t, answer |-> result[t][i - n]]
            BY <2>2, <2>10
        <3>2. i > n
            BY <2>2, <2>10
        <3> QED
            BY <3>1, <3>2
    <2>6. SentIsYielded'
        <3> SUFFICES ASSUME NEW i \in Nat, Sent(i)'
                     PROVE  status'[emitted'[i].block] = "yielded"
            BY DEF SentIsYielded
        <3>1. CASE i \notin 1..n
            BY <2>3, <2>10, <3>1 DEF Sent
        <3>2. CASE i \in 1..n
            <4>1. Sent(i) /\ emitted'[i] = emitted[i]
                BY <2>2, <3>2 DEF Sent, n
            <4>2. status[emitted[i].block] = "yielded"
                BY <4>1 DEF ResultsInv, SentIsYielded
            <4> QED
                BY <2>3, <2>5, <3>2, <4>1, <4>2
        <3> QED
            BY <3>1, <3>2
    <2>7. AnsweredOnce'
        <3> SUFFICES ASSUME NEW i \in 1..Len(emitted'),
                            NEW j \in 1..Len(emitted'),
                            i < j, emitted'[i].block = emitted'[j].block,
                            emitted'[i].answer # "missing",
                            emitted'[j].answer # "missing"
                     PROVE  /\ j = i + 1
                            /\ emitted'[i].answer = "ok"
                            /\ emitted'[j].answer = "sibling_error"
            BY DEF AnsweredOnce
        <3>1. CASE j \in 1..n
            <4>1. /\ i \in 1..n /\ emitted'[i] = emitted[i]
                  /\ emitted'[j] = emitted[j]
                BY <2>2, <3>1
            <4> QED
                BY <3>1, <4>1 DEF ResultsInv, AnsweredOnce, n
        <3>2. CASE i \in 1..n /\ j \notin 1..n
            <4>1. Sent(i) /\ emitted'[i] = emitted[i]
                BY <2>2, <3>2 DEF Sent, n
            <4>2. emitted[i].block # t
                BY <2>5, <3>2, <4>1
            <4> QED
                BY <2>10, <3>2, <4>1, <4>2
        <3>3. CASE i \notin 1..n /\ j \notin 1..n
            <4>1. /\ i - n \in 1..Len(result[t]) /\ j - n \in 1..Len(result[t])
                  /\ emitted'[i].answer = result[t][i - n]
                  /\ emitted'[j].answer = result[t][j - n]
                BY <2>10, <3>3
            <4>2. i - n < j - n
                BY <2>2
            <4>3. OkThenSibling(result[t])
                <5>1. Len(result[t]) # 1
                    BY <2>2, <4>1, <4>2
                <5> QED
                    BY <1>2, <2>1, <5>1 DEF Shapes
            <4>4. i - n = 1 /\ j - n = 2
                BY <2>2, <4>1, <4>2, <4>3 DEF OkThenSibling
            <4>5. j = i + 1
                BY <2>2, <4>4
            <4> QED
                BY <4>1, <4>3, <4>4, <4>5 DEF OkThenSibling
        <3> QED
            BY <2>2, <3>1, <3>2, <3>3
    <2>8. BarrierOrder'
        <3> SUFFICES ASSUME NEW i \in 1..Len(emitted'),
                            NEW u \in Blocks, NEW v, v = emitted'[i].block,
                            emitted'[i].answer # "missing", u < v,
                            of[u] = of[v], ~kind[u].safe,
                            status'[u] # "dropped",
                            \A w \in Blocks : u < w /\ w <= v => kind[w].known
                     PROVE  status'[u] = "yielded"
            BY <1>0 DEF BarrierOrder
        <3>1. CASE i \notin 1..n
            <4>1. v = t
                BY <2>10, <3>1
            <4>2. status[u] \in {"yielded", "dropped"}
                BY <1>0, <1>2, <4>1, NothingLeftBehind
            <4> QED
                BY <2>3, <4>2
        <3>2. CASE i \in 1..n
            <4>1. i \in 1..Len(emitted) /\ emitted'[i] = emitted[i]
                BY <2>2, <3>2 DEF n
            <4>2. status[u] # "dropped"
                BY <2>3
            <4>3. status[u] = "yielded"
                BY <4>1, <4>2 DEF ResultsInv, BarrierOrder
            <4> QED
                BY <2>3, <4>3
        <3> QED
            BY <3>1, <3>2
    <2>9. SweptPast'
        <3> SUFFICES ASSUME NEW u \in Blocks, u < t + 1, of[u] = attempt,
                            ~kind[u].safe,
                            status'[u] \notin {"yielded", "dropped"}
                     PROVE  \E w \in Blocks :
                                u < w /\ w < t + 1 /\ ~kind[w].known
            BY <1>0, <2>1 DEF SweptPast
        <3>1. u # t /\ status[u] \notin {"yielded", "dropped"}
            BY <2>3
        <3>2. u < t
            BY <1>2, <3>1 DEF Blocks
        <3>3. PICK w \in Blocks : u < w /\ w <= t /\ ~kind[w].known
            BY <1>0, <3>1, <3>2, SweepPasses
        <3> QED
            BY <1>2, <3>3 DEF Blocks
    <2> QED
        BY <1>3, <2>4, <2>6, <2>7, <2>8, <2>9 DEF ResultsInv
<1> QED
    BY <1>1, <1>4, <1>5

-----------------------------------------------------------------------------
(* The other steps *)

\* A start moves the tool on, and a scan starts one tool at most.
LEMMA StartMoves ==
    ASSUME NEW st \in [Blocks -> Statuses], NEW t \in Blocks, NEW held,
           st[t] = "queued", ExecuteTool(st, t, held)
    PROVE  /\ status'[t] \in {"executing", "completed"}
           /\ \A u \in Blocks : u # t => status'[u] = st[u]
BY DEF ExecuteTool

LEMMA StartIsOnward ==
    ASSUME TypeOK, NEW t \in Blocks, NEW held,
           status[t] = "queued", ExecuteTool(status, t, held)
    PROVE  Onward
<1>1. status \in [Blocks -> Statuses]
    BY DEF TypeOK
<1>2. /\ status'[t] \in {"executing", "completed"}
      /\ \A u \in Blocks : u # t => status'[u] = status[u]
    BY <1>1, StartMoves
<1> QED
    BY <1>2 DEF Onward

\* A step that emits nothing.
LEMMA EmittedUnchanged ==
    ASSUME emitted' = emitted
    PROVE  EmitsNoResult
BY DEF EmitsNoResult, Sent

LEMMA MissingAreNoResults ==
    ASSUME TypeOK, YieldMissingResults
    PROVE  EmitsNoResult
<1>1. PICK s \in Seq(Entries) : /\ emitted' = emitted \o s
                               /\ \A i \in 1..Len(s) : s[i].answer = "missing"
    BY MissingType
<1>2. /\ \A i \in 1..Len(emitted) : emitted'[i] = emitted[i]
      /\ \A i \in 1..Len(emitted') :
            i \in 1..Len(emitted) \/ emitted'[i].answer = "missing"
    BY <1>1, EmittedConcat
<1> QED
    BY <1>2 DEF EmitsNoResult, Sent

LEMMA ResultsInductive == ResultsInv /\ Shapes /\ [Next]_vars => ResultsInv'
<1> SUFFICES ASSUME ResultsInv, Shapes, [Next]_vars
             PROVE  ResultsInv'
    OBVIOUS
<1>0. /\ OrderInv' /\ TypeOK /\ Awaits
      /\ ArrivedExactly(status, arrived)
    BY OrderInductive DEF ResultsInv, OrderInv
<1>1. CASE UNCHANGED vars
    <2>1. Awaits' /\ Quiet
        BY <1>0, <1>1, EmittedUnchanged
        DEF vars, Awaits, Quiet, Onward, SweepStays, Sweeping
    <2> QED
        BY <1>0, <2>1, QuietKeeps
<1>2. CASE ReceiveToolUse
    <2> DEFINE t == arrived + 1
    <2>0. /\ UNCHANGED <<kind, of, progress, awaited, emitted>>
          /\ pc \in {"stream", "add"} /\ arrived < MaxBlocks
          /\ pos' = 0 /\ pc' \in {"stream", "add", "streamSweep"}
        BY <1>2 DEF ReceiveToolUse
    <2>1. /\ t \in Blocks /\ status[t] = "none" /\ awaited = 0
          /\ UNCHANGED <<kind, of, progress, awaited, emitted>>
          /\ pos' = 0 /\ pc' \in {"stream", "add", "streamSweep"}
        BY <1>0, <2>0, BlocksAssumption
        DEF TypeOK, Blocks, ArrivedExactly, Awaits
    <2>2. Onward
        <3> DEFINE st == [status EXCEPT ![t] = "queued"]
        <3>1. CASE kind[t].known /\ ProcessQueue(st, attempt, 0, micro)
            <4>1. /\ st \in [Blocks -> Statuses] /\ st[t] = "queued"
                  /\ \A u \in Blocks : u # t => st[u] = status[u]
                BY <1>0, <2>1 DEF TypeOK, Statuses
            <4>2. CASE status' = st
                BY <2>1, <3>1, <4>1, <4>2 DEF Onward
            <4>3. ASSUME NEW v \in Picks(st, attempt, 0),
                         ExecuteTool(st, v, micro)
                  PROVE  Onward
                <5>1. v \in Blocks /\ st[v] = "queued"
                    BY <4>3 DEF Picks
                <5> HIDE DEF st
                <5>2. /\ status'[v] \in {"executing", "completed"}
                      /\ \A u \in Blocks : u # v => status'[u] = st[u]
                    BY <4>1, <4>3, <5>1, StartMoves
                <5> QED
                    BY <2>1, <3>1, <4>1, <5>1, <5>2 DEF Onward
            <4> QED
                BY <3>1, <4>2, <4>3 DEF ProcessQueue, EndScan
        <3>2. CASE \/ status' = [status EXCEPT ![t] = "completed"]
                   \/ status' = [status EXCEPT ![t] = "dropped"]
            BY <1>0, <2>1, <3>2 DEF Onward, TypeOK
        <3> QED
            BY <1>2, <3>1, <3>2 DEF ReceiveToolUse
    <2>3. Awaits' /\ Quiet
        BY <2>1, <2>2, EmittedUnchanged DEF Awaits, Quiet, SweepStays
    <2> QED
        BY <1>0, <2>3, QuietKeeps
<1>3. CASE Sweep
    BY <1>0, <1>3, SweepKeeps
<1>4. CASE Drain
    <2>1. /\ UNCHANGED <<kind, of, progress, emitted>>
          /\ pos' = 0
          /\ awaited' # 0 => pc' = "scan"
        BY <1>0, <1>4 DEF Drain, Awaits, toolVars
    <2>2. Onward
        <3>1. ASSUME NEW v \in Picks(status, attempt, 0),
                     ExecuteTool(status, v, micro)
              PROVE  Onward
            <4>1. v \in Blocks /\ status[v] = "queued"
                BY <3>1 DEF Picks
            <4> QED
                BY <3>1, <4>1, StartIsOnward DEF ResultsInv, OrderInv
        <3> QED
            BY <1>4, <3>1 DEF Drain, toolVars, Onward
    <2>3. Awaits' /\ Quiet
        BY <2>1, <2>2, EmittedUnchanged DEF Awaits, Quiet, SweepStays
    <2> QED
        BY <1>0, <2>3, QuietKeeps
<1>5. ASSUME NEW m \in micro, Resume(m)
      PROVE  ResultsInv'
    <2>0. UNCHANGED <<kind, of, progress, emitted, pos, attempt>>
        BY <1>5 DEF Resume, loopVars
    <2>1. /\ UNCHANGED <<kind, of, progress, emitted, pos, attempt>>
          /\ m[1] \in Blocks
        BY <1>0, <1>5, <2>0 DEF TypeOK
    <2>2. Onward
        <3>1. ASSUME NEW e, NEW p, NEW v \in Picks(status, e, p),
                     ExecuteTool(status, v, micro \ {m})
              PROVE  Onward
            <4>1. v \in Blocks /\ status[v] = "queued"
                BY <3>1 DEF Picks
            <4> QED
                BY <3>1, <4>1, StartIsOnward DEF ResultsInv, OrderInv
        <3> QED
            BY <1>5, <3>1 DEF Resume, EndScan, Onward
    <2>3. \/ /\ pc' = pc
             /\ awaited' = awaited \/ (awaited # 0 /\ awaited' # 0)
          \/ pc' = "sweep" /\ awaited # 0 /\ awaited' = 0
        <3>1. m = <<awaited, "resume">> => awaited # 0
            BY <2>1 DEF Blocks
        <3>2. CASE EndScan(status, micro \ {m})
                    /\ awaited' = (IF m = <<awaited, "resume">> THEN 0
                                                             ELSE awaited)
                    /\ pc' = (IF m = <<awaited, "resume">> THEN "sweep"
                                                        ELSE pc)
            BY <3>1, <3>2
        <3>3. ASSUME NEW v \in Blocks, pc' = pc,
                     awaited' = IF m = <<awaited, "resume">> THEN v
                                                             ELSE awaited
              PROVE  /\ pc' = pc
                     /\ awaited' = awaited \/ (awaited # 0 /\ awaited' # 0)
            BY <3>1, <3>3 DEF Blocks
        <3> QED
            BY <1>5, <3>2, <3>3 DEF Resume, Picks
    <2>4. Awaits' /\ Quiet
        BY <1>0, <2>1, <2>2, <2>3, EmittedUnchanged
        DEF Awaits, Quiet, SweepStays, Sweeping
    <2> QED
        BY <1>0, <2>4, QuietKeeps
<1>6. ASSUME NEW t \in Blocks, Tool(t)
      PROVE  ResultsInv'
    <2>1. UNCHANGED <<kind, of, emitted, pos, attempt, pc, awaited>>
        BY <1>6 DEF Tool, ToolProgress, ToolReturn, ToolStopped, ToolEnds,
                    ToolReject, loopVars
    <2>2. \/ progress' = progress
          \/ progress' = progress \cup {t} /\ status[t] = "executing"
        BY <1>6 DEF Tool, ToolProgress, ToolReturn, ToolStopped, ToolEnds,
                    ToolReject
    <2>3. Onward
        <3>1. \/ status' = status
              \/ /\ status[t] = "executing"
                 /\ status' = [status EXCEPT ![t] = "completed"]
            BY <1>6 DEF Tool, ToolProgress, ToolReturn, ToolStopped, ToolEnds,
                        ToolReject, Answer, Complete, toolVars
        <3> QED
            BY <1>0, <3>1 DEF Onward, TypeOK
    <2>4. Awaits' /\ Quiet
        BY <1>0, <2>1, <2>2, <2>3, EmittedUnchanged
        DEF Awaits, Quiet, SweepStays, Sweeping
    <2> QED
        BY <1>0, <2>4, QuietKeeps
<1>7. CASE ReceiveText \/ StreamEnd \/ EndStreamSweep \/ EndTurn \/ EndSweep
                \/ Wake \/ UserAbort
    <2>1. /\ UNCHANGED <<kind, of, emitted, status, attempt, awaited>>
          /\ progress' \subseteq progress
          /\ \/ pos' = 0 \/ pos' = pos
        BY <1>7 DEF ReceiveText, StreamEnd, EndStreamSweep, EndTurn, EndSweep,
                    Wake, UserAbort, toolVars, loopVars
    <2>2. Awaits' /\ SweepStays
        BY <1>0, <1>7 DEF ReceiveText, StreamEnd, EndStreamSweep, EndTurn,
            EndSweep, Wake, UserAbort, loopVars, Awaits, SweepStays, Sweeping
    <2>3. Quiet
        BY <2>1, <2>2, EmittedUnchanged DEF Quiet, Onward
    <2> QED
        BY <1>0, <2>2, <2>3, QuietKeeps
<1>8. CASE StreamingFallback \/ ModelFallback \/ ModelError
    <2>1. /\ UNCHANGED <<kind, status, progress, awaited, pos>>
          /\ pc = "stream" /\ pc' \in {"stream", "failed"}
        BY <1>8 DEF StreamingFallback, ModelFallback, ModelError, toolVars,
                    loopVars
    <2>2. EmitsNoResult
        BY <1>0, <1>8, EmittedUnchanged, MissingAreNoResults
        DEF StreamingFallback, ModelFallback, ModelError
    <2>3. \A t \in Blocks : t <= arrived => of'[t] = of[t]
        <3>1. of' = of \/ NextAttempt
            BY <1>8 DEF StreamingFallback, ModelFallback, ModelError
        <3>2. \A t \in Blocks : t <= arrived => ~(t > arrived)
            BY <1>0 DEF TypeOK, Blocks
        <3> QED
            BY <3>1, <3>2 DEF NextAttempt
    <2>4. Awaits' /\ Quiet
        BY <1>0, <2>1, <2>2, <2>3
        DEF Awaits, Quiet, Onward, SweepStays, Sweeping
    <2> QED
        BY <1>0, <2>4, QuietKeeps
<1> QED
    BY <1>1, <1>2, <1>3, <1>4, <1>5, <1>6, <1>7, <1>8 DEF Next, Loop

LEMMA ResultsInitially == Init => ResultsInv
<1> SUFFICES ASSUME Init
             PROVE  ResultsInv
    OBVIOUS
<1>1. OrderInv
    BY OrderInitially
<1>2. Len(emitted) = 0
    BY DEF Init
<1>3. KnownRuns /\ Awaits /\ SweptPast
    BY DEF Init, KnownRuns, Awaits, SweptPast, Sweeping
<1>4. SentIsYielded /\ AnsweredOnce /\ BarrierOrder
    BY <1>2 DEF SentIsYielded, Sent, AnsweredOnce, BarrierOrder
<1> QED
    BY <1>1, <1>3, <1>4 DEF ResultsInv

LEMMA ResultsInvariant == Spec => []ResultsInv
<1>1. AnswersInv => Shapes
    BY DEF AnswersInv
<1> QED
    BY <1>1, ResultsInitially, ResultsInductive, AnswersInvariant, PTL DEF Spec

\* However often the generators are resumed in the middle of the list and however
\* late a call is cancelled, an executor answers a block once; only behind an "ok"
\* may the error of a sibling come, at once.
THEOREM OneResult == Spec => []AnsweredOnce
<1>1. ResultsInv => AnsweredOnce
    BY DEF ResultsInv
<1> QED
    BY <1>1, ResultsInvariant, PTL

\* The result of a tool never passes that of an unsafe tool received before it,
\* unless an unknown tool stands between them.
THEOREM BarrierKept == Spec => []BarrierOrder
<1>1. ResultsInv => BarrierOrder
    BY DEF ResultsInv
<1> QED
    BY <1>1, ResultsInvariant, PTL

-----------------------------------------------------------------------------
(***************************************************************************)
(* What an answered tool keeps.  A later cancellation finds a tool that is *)
(* completed, or adds to the answer of one whose call is about to end.     *)
(***************************************************************************)
Answered ==
    \A t \in Blocks : result[t] # <<>> =>
        status[t] \in {"completed", "yielded"} \/ call[t] = "answered"

\* A result of tool t is in the conversation out.
Emitted(out, t) ==
    \E i \in 1..Len(out) : out[i].block = t /\ out[i].answer # "missing"

\* A step never takes an answer back, adds one behind an "ok" at most, and only
\* where the tool completes.
AnswersStay ==
    \A t \in Blocks :
        /\ status[t] \in {"completed", "yielded"} =>
              result'[t] = result[t] /\ status'[t] \in {"completed", "yielded"}
        /\ status[t] \in {"yielded", "dropped"} => status'[t] = status[t]
        /\ \/ result'[t] = result[t]
           \/ status'[t] = "completed"
           \/ call'[t] = "answered"
        /\ call[t] = "answered" =>
              /\ status'[t] = "completed" \/ call'[t] = "answered"
              /\ result'[t] = result[t] \/ result[t] = <<"ok">>

\* A start answers at most the tool that it finds cancelled.
LEMMA StartAnswers ==
    ASSUME TypeOK, Answering,
           NEW st \in [Blocks -> Statuses], NEW t \in Blocks, NEW held,
           \A u \in Blocks : \/ st[u] = status[u]
                             \/ status[u] = "none" /\ st[u] = "queued",
           st[t] = "queued", ExecuteTool(st, t, held)
    PROVE  AnswersStay
<1>1. status[t] \in {"none", "queued"} /\ call[t] # "answered"
    BY DEF Answering
<1>2. \A u \in Blocks : u # t =>
            /\ status'[u] = st[u] /\ result'[u] = result[u]
            /\ call'[u] = call[u]
    BY DEF ExecuteTool, TypeOK
<1>3. result'[t] = result[t] \/ status'[t] = "completed"
    BY DEF ExecuteTool, TypeOK
<1> QED
    BY <1>1, <1>2, <1>3 DEF AnswersStay

\* A tool completes once, with what its call answered.
LEMMA CompleteAnswers ==
    ASSUME TypeOK, NEW t \in Blocks, NEW r, status[t] = "executing",
           Complete(t, r), \A u \in Blocks : u # t => call'[u] = call[u],
           call[t] = "answered" => r = result[t] \/ result[t] = <<"ok">>
    PROVE  AnswersStay
<1>1. \A u \in Blocks : u # t =>
            status'[u] = status[u] /\ result'[u] = result[u]
    BY DEF Complete, TypeOK
<1>2. status'[t] = "completed" /\ result'[t] = r
    BY DEF Complete, TypeOK
<1> QED
    BY <1>1, <1>2 DEF AnswersStay

\* A call answers once.
LEMMA AnswerAnswers ==
    ASSUME TypeOK, NEW t \in Blocks, NEW r, status[t] = "executing",
           call[t] # "answered", Answer(t, r)
    PROVE  AnswersStay
<1>1. CASE Reason(t) # "none"
    <2>1. /\ Complete(t, <<Reason(t)>>)
          /\ \A u \in Blocks : u # t => call'[u] = call[u]
        BY <1>1 DEF Answer, TypeOK
    <2> QED
        BY <2>1, CompleteAnswers
<1>2. CASE Reason(t) = "none"
    <2>1. /\ status' = status /\ call'[t] = "answered"
          /\ \A u \in Blocks : u # t => /\ result'[u] = result[u]
                                        /\ call'[u] = call[u]
        BY <1>2 DEF Answer, TypeOK
    <2> QED
        BY <2>1 DEF AnswersStay
<1> QED
    BY <1>1, <1>2

LEMMA StepsAnswer ==
    ASSUME OrderInv, Answering, [Next]_vars
    PROVE  AnswersStay
<1>0. TypeOK /\ ArrivedExactly(status, arrived)
    BY DEF OrderInv
<1>1. ASSUME UNCHANGED <<status, result, call>>
      PROVE  AnswersStay
    BY <1>1 DEF AnswersStay
<1>2. ASSUME NEW e, NEW p, NEW held,
             NEW t \in Picks(status, e, p), ExecuteTool(status, t, held)
      PROVE  AnswersStay
    <2>1. t \in Blocks /\ status[t] = "queued"
        BY DEF Picks
    <2> QED
        BY <1>0, <1>2, <2>1, StartAnswers DEF TypeOK
<1>3. CASE ReceiveToolUse
    <2> DEFINE n == arrived + 1
               st == [status EXCEPT ![n] = "queued"]
    <2>1. n \in Blocks /\ status[n] = "none"
        BY <1>0, <1>3, BlocksAssumption
        DEF ReceiveToolUse, TypeOK, Blocks, ArrivedExactly
    <2>2. /\ st \in [Blocks -> Statuses] /\ st[n] = "queued"
          /\ \A u \in Blocks : u # n => st[u] = status[u]
        BY <1>0, <2>1 DEF TypeOK, Statuses
    <2>3. CASE status' = st /\ result' = result /\ call' = call
        BY <2>1, <2>2, <2>3 DEF AnswersStay
    <2>4. ASSUME NEW t \in Picks(st, attempt, 0), ExecuteTool(st, t, micro)
          PROVE  AnswersStay
        <3>1. t \in Blocks /\ st[t] = "queued"
            BY DEF Picks
        <3> HIDE DEF st
        <3> QED
            BY <1>0, <2>1, <2>2, <2>4, <3>1, StartAnswers
    <2>5. CASE /\ call' = call
               /\ \/ /\ status' = [status EXCEPT ![n] = "completed"]
                     /\ result' = [result EXCEPT ![n] = <<"no_such_tool">>]
                  \/ /\ status' = [status EXCEPT ![n] = "dropped"]
                     /\ result' = result
        <3>1. call[n] # "answered"
            BY <2>1 DEF Answering
        <3> QED
            BY <1>0, <2>1, <2>5, <3>1 DEF AnswersStay, TypeOK
    <2> QED
        BY <1>3, <2>3, <2>4, <2>5 DEF ReceiveToolUse, ProcessQueue, EndScan
<1>4. CASE Sweep
    <2>1. PICK t \in YieldsNext : YieldProgress(t) \/ YieldResult(t)
        BY <1>4 DEF Sweep
    <2>2. CASE YieldProgress(t)
        BY <1>1, <1>4, <2>2 DEF Sweep, YieldProgress
    <2>3. CASE YieldResult(t)
        <3>1. t \in Blocks /\ status[t] = "completed" /\ result' = result
              /\ status' = [status EXCEPT ![t] = "yielded"] /\ call' = call
            BY <1>4, <2>1, <2>3 DEF Sweep, YieldResult, YieldsNext, Tracked
        <3> QED
            BY <1>0, <3>1 DEF AnswersStay, TypeOK
    <2> QED
        BY <2>1, <2>2, <2>3
<1>5. CASE Drain
    BY <1>1, <1>2, <1>5 DEF Drain, toolVars
<1>6. ASSUME NEW m \in micro, Resume(m)
      PROVE  AnswersStay
    BY <1>1, <1>2, <1>6 DEF Resume, EndScan
<1>7. ASSUME NEW t \in Blocks, ToolProgress(t) \/ ToolReject(t)
      PROVE  AnswersStay
    BY <1>0, <1>1, <1>7, CompleteAnswers DEF ToolProgress, ToolReject, toolVars
<1>8. ASSUME NEW t \in Blocks, ToolReturn(t) \/ ToolStopped(t)
      PROVE  AnswersStay
    <2>1. CASE status[t] = "executing" /\ \E r : Answer(t, r)
        BY <1>0, <1>8, <2>1, AnswerAnswers DEF ToolReturn, ToolStopped
    <2>2. CASE /\ UNCHANGED <<status, result>>
               /\ call' = [call EXCEPT ![t] = "ended"]
        <3>1. call[t] # "answered"
            BY <1>8 DEF ToolReturn, ToolStopped
        <3> QED
            BY <1>0, <2>2, <3>1 DEF AnswersStay, TypeOK
    <2> QED
        BY <1>8, <2>1, <2>2 DEF ToolReturn, ToolStopped
<1>9. ASSUME NEW t \in Blocks, ToolEnds(t)
      PROVE  AnswersStay
    <2>1. /\ status[t] = "executing"
          /\ \A u \in Blocks : u # t => call'[u] = call[u]
          /\ \E r : Complete(t, r) /\ (r = result[t] \/ result[t] = <<"ok">>)
        BY <1>0, <1>9 DEF ToolEnds, CancelledLater, TypeOK
    <2> QED
        BY <1>0, <2>1, CompleteAnswers
<1>10. CASE \/ ReceiveText \/ StreamEnd \/ EndStreamSweep \/ EndTurn \/ EndSweep
            \/ Wake \/ UserAbort \/ StreamingFallback \/ ModelFallback
            \/ ModelError \/ UNCHANGED vars
    BY <1>1, <1>10
    DEF ReceiveText, StreamEnd, EndStreamSweep, EndTurn, EndSweep, Wake,
        UserAbort, StreamingFallback, ModelFallback, ModelError, vars, toolVars
<1> QED
    BY <1>3, <1>4, <1>5, <1>6, <1>7, <1>8, <1>9, <1>10 DEF Next, Loop, Tool

\* The blocks that have arrived keep their attempt.
LEMMA AttemptsStay ==
    ASSUME OrderInv, [Next]_vars
    PROVE  \A t \in Blocks : status[t] # "none" => of'[t] = of[t]
<1>0. TypeOK /\ \A t \in Blocks : status[t] # "none" => ~(t > arrived)
    BY DEF OrderInv, ArrivedExactly
<1>1. of' = of \/ NextAttempt
    BY DEF Next, Loop, Tool, ReceiveToolUse, ReceiveText, StreamEnd, Sweep,
        EndStreamSweep, Drain, EndSweep, Wake, EndTurn, StreamingFallback,
        ModelFallback, ModelError, Resume, ToolProgress, ToolReturn,
        ToolStopped, ToolEnds, ToolReject, UserAbort, vars
<1> QED
    BY <1>0, <1>1 DEF NextAttempt

CulpritInv == Answered /\ ErrorHasCulprit

\* An error is recorded by the tool that answers with it.
LEMMA CulpritRecorded ==
    ASSUME TypeOK, NEW t \in Blocks, NEW r, Answer(t, r), NEW e \in Attempts,
           errored'[e], ~errored[e]
    PROVE  of[t] = e /\ kind[t].bash /\ result'[t] \in {<<"error">>, <<"stopped">>}
<1>1. /\ result' = [result EXCEPT ![t] = <<r>>]
      /\ errored' = [errored EXCEPT ![of[t]] =
                        @ \/ (kind[t].bash /\ r \in {"error", "stopped"})]
    BY DEF Answer
<1>2. result'[t] = <<r>>
    BY <1>1 DEF TypeOK
<1>3. of[t] = e
    BY <1>1 DEF TypeOK
<1>4. errored'[e] = (errored[e] \/ (kind[t].bash /\ r \in {"error", "stopped"}))
    BY <1>1, <1>3 DEF TypeOK
<1> QED
    BY <1>2, <1>3, <1>4

LEMMA CulpritStep ==
    ASSUME OrderInv, Answering, CulpritInv, [Next]_vars
    PROVE  CulpritInv'
<1>0. TypeOK /\ AnswersStay
      /\ \A t \in Blocks : status[t] # "none" => of'[t] = of[t]
    BY StepsAnswer, AttemptsStay DEF OrderInv
<1>1. Answered'
    <2> SUFFICES ASSUME NEW t \in Blocks, result'[t] # <<>>
                 PROVE  \/ status'[t] \in {"completed", "yielded"}
                        \/ call'[t] = "answered"
        BY DEF Answered
    <2>1. CASE result'[t] = result[t]
        <3>1. status[t] \in {"completed", "yielded"} \/ call[t] = "answered"
            BY <2>1 DEF CulpritInv, Answered
        <3> QED
            BY <1>0, <3>1 DEF AnswersStay
    <2>2. CASE result'[t] # result[t]
        BY <1>0, <2>2 DEF AnswersStay
    <2> QED
        BY <2>1, <2>2
<1>2. kind' = kind
    BY DEF Next, Loop, Tool, ReceiveToolUse, ReceiveText, StreamEnd, Sweep,
        EndStreamSweep, Drain, EndSweep, Wake, EndTurn, StreamingFallback,
        ModelFallback, ModelError, Resume, ToolProgress, ToolReturn,
        ToolStopped, ToolEnds, ToolReject, UserAbort, vars
<1>3. ErrorHasCulprit'
    <2> SUFFICES ASSUME NEW e \in Attempts, errored'[e]
                 PROVE  \E t \in Blocks :
                            /\ of'[t] = e /\ kind'[t].bash
                            /\ result'[t] \in {<<"error">>, <<"stopped">>}
        BY DEF ErrorHasCulprit
    <2>1. CASE errored[e]
        <3>1. PICK t \in Blocks : /\ of[t] = e /\ kind[t].bash
                                  /\ result[t] \in {<<"error">>, <<"stopped">>}
            BY <2>1 DEF CulpritInv, ErrorHasCulprit
        <3>2. status[t] \in {"completed", "yielded"} \/ call[t] = "answered"
            <4>1. result[t] # <<>>
                <5>1. Len(result[t]) = 1
                    BY <3>1
                <5>2. Len(<<>>) # 1
                    OBVIOUS
                <5> QED
                    BY <5>1, <5>2, Zenon
            <4> QED
                BY <4>1 DEF CulpritInv, Answered
        <3>3. status[t] # "none"
            BY <3>2 DEF Answering
        <3>4. result[t] # <<"ok">>
            BY <3>1
        <3>5. of'[t] = of[t] /\ result'[t] = result[t]
            BY <1>0, <3>2, <3>3, <3>4 DEF AnswersStay
        <3> QED
            BY <1>2, <3>1, <3>5
    <2>2. CASE ~errored[e]
        <3>1. errored' # errored
            BY <2>2
        <3>2. PICK t \in Blocks : \E r : Answer(t, r) /\ of' = of
            BY <3>1
            DEF Next, Loop, Tool, ReceiveToolUse, ReceiveText, StreamEnd, Sweep,
                EndStreamSweep, Drain, EndSweep, Wake, EndTurn,
                StreamingFallback, ModelFallback, ModelError, Resume,
                ToolProgress, ToolReturn, ToolStopped, ToolEnds, ToolReject,
                UserAbort, vars
        <3>3. /\ of[t] = e /\ kind[t].bash
              /\ result'[t] \in {<<"error">>, <<"stopped">>}
            BY <1>0, <2>2, <3>2, CulpritRecorded
        <3> QED
            BY <1>2, <3>2, <3>3
    <2> QED
        BY <2>1, <2>2
<1> QED
    BY <1>1, <1>3 DEF CulpritInv

\* The Bash tool whose error cancels its siblings keeps that error, and nothing
\* but that error, whatever cancels the others and however the turn goes on.
THEOREM CulpritKept == Spec => []ErrorHasCulprit
<1>1. Init => CulpritInv
    BY DEF Init, CulpritInv, Answered, ErrorHasCulprit
<1>2. CulpritInv => ErrorHasCulprit
    BY DEF CulpritInv
<1>3. AnswersInv => Answering
    BY DEF AnswersInv
<1> QED
    BY <1>1, <1>2, <1>3, CulpritStep, AnswersInvariant, PTL DEF Spec

-----------------------------------------------------------------------------
(***************************************************************************)
(* The end of the turn.                                                    *)
(***************************************************************************)
\* What is marked as yielded was emitted (the converse of SentIsYielded).
YieldedIsEmitted ==
    \A t \in Blocks : status[t] = "yielded" => Emitted(emitted, t)

\* At the end nothing of the last executor is left.
Drained ==
    pc = "done" =>
        \A t \in Blocks :
            (of[t] = attempt /\ status[t] \notin {"none", "dropped"})
                => status[t] = "yielded"

DrainInv == YieldedIsEmitted /\ Drained

\* The conversation only grows.
LEMMA EmittedGrows ==
    ASSUME TypeOK, [Next]_vars
    PROVE  \A i \in 1..Len(emitted) :
                i \in 1..Len(emitted') /\ emitted'[i] = emitted[i]
<1>1. CASE emitted' = emitted
    BY <1>1
<1>2. ASSUME NEW s \in Seq(Entries), emitted' = emitted \o s
      PROVE  \A i \in 1..Len(emitted) :
                i \in 1..Len(emitted') /\ emitted'[i] = emitted[i]
    BY <1>2, EmittedConcat
<1>3. CASE Sweep
    <2>1. \A t \in YieldsNext : t \in Blocks
        BY DEF YieldsNext, Tracked
    <2> QED
        BY <1>1, <1>2, <1>3, <2>1, YieldedType DEF Sweep, YieldProgress, YieldResult
<1>4. CASE YieldMissingResults
    BY <1>2, <1>4, MissingType
<1> QED
    BY <1>1, <1>3, <1>4
    DEF Next, Loop, Tool, ReceiveToolUse, ReceiveText, StreamEnd, EndStreamSweep,
        Drain, EndSweep, Wake, EndTurn, StreamingFallback, ModelFallback,
        ModelError, Resume, ToolProgress, ToolReturn, ToolStopped, ToolEnds,
        ToolReject, UserAbort, vars

\* Where a tool is marked as yielded its result is emitted.
LEMMA YieldEmits ==
    ASSUME OrderInv, Shapes, [Next]_vars, NEW t \in Blocks,
           status[t] # "yielded", status'[t] = "yielded"
    PROVE  Emitted(emitted', t)
<1>0. TypeOK
    BY DEF OrderInv
<1>1. Sweep
    <2>1. ASSUME NEW st \in [Blocks -> Statuses], NEW e, NEW p, NEW held,
                 \A u \in Blocks : st[u] = status[u] \/ st[u] = "queued",
                 NEW u \in Picks(st, e, p), ExecuteTool(st, u, held)
          PROVE  FALSE
        <3>1. u \in Blocks /\ st[u] = "queued"
            BY DEF Picks
        <3>2. /\ status'[u] \in {"executing", "completed"}
              /\ \A v \in Blocks : v # u => status'[v] = st[v]
            BY <2>1, <3>1, StartMoves
        <3> QED
            BY <2>1, <3>2
    <2>2. status \in [Blocks -> Statuses]
        BY <1>0 DEF TypeOK
    <2>3. CASE ReceiveToolUse
        <3> DEFINE st == [status EXCEPT ![arrived + 1] = "queued"]
        <3>1. /\ st \in [Blocks -> Statuses]
              /\ \A u \in Blocks : st[u] = status[u] \/ st[u] = "queued"
            BY <2>2 DEF Statuses
        <3>2. CASE \/ status' = st
                   \/ status' = [status EXCEPT ![arrived + 1] = "completed"]
                   \/ status' = [status EXCEPT ![arrived + 1] = "dropped"]
            BY <2>2, <3>2
        <3>3. CASE \E u \in Picks(st, attempt, 0) : ExecuteTool(st, u, micro)
            <4> HIDE DEF st
            <4> QED
                BY <2>1, <3>1, <3>3
        <3> QED
            BY <2>3, <3>2, <3>3 DEF ReceiveToolUse, ProcessQueue, EndScan
    <2>4. CASE Drain
        BY <2>1, <2>2, <2>4 DEF Drain, toolVars
    <2>5. ASSUME NEW m \in micro, Resume(m)
          PROVE  FALSE
        BY <2>1, <2>2, <2>5 DEF Resume, EndScan
    <2>6. ASSUME NEW u \in Blocks, Tool(u)
          PROVE  FALSE
        BY <2>2, <2>6 DEF Tool, ToolProgress, ToolReturn, ToolStopped, ToolEnds,
                          ToolReject, Answer, Complete, toolVars
    <2> QED
        BY <2>3, <2>4, <2>5, <2>6
        DEF Next, Loop, ReceiveText, StreamEnd, EndStreamSweep, EndTurn, EndSweep,
            Wake, UserAbort, StreamingFallback, ModelFallback, ModelError, vars,
            toolVars
<1>2. PICK u \in YieldsNext : YieldProgress(u) \/ YieldResult(u)
    BY <1>1 DEF Sweep
<1>3. u = t /\ YieldResult(t)
    <2>1. ~YieldProgress(u)
        BY DEF YieldProgress
    <2>2. status' = [status EXCEPT ![u] = "yielded"]
        BY <1>2, <2>1 DEF YieldResult
    <2>3. u = t
        BY <1>0, <2>2 DEF TypeOK
    <2> QED
        BY <1>2, <2>1, <2>3
<1>4. /\ Yielded(t) \in Seq(Entries)
      /\ Len(Yielded(t)) = Len(result[t])
      /\ Yielded(t)[1] = [block |-> t, answer |-> result[t][1]]
      /\ result[t][1] # "missing" /\ Len(result[t]) >= 1
    <2>1. Len(result[t]) \in {1, 2}
        BY <1>3 DEF YieldResult, Shapes, OkThenSibling
    <2>2. Len(result[t]) >= 1 /\ Len(result[t]) \in Nat
        <3>1. PICK k \in {1, 2} : k = Len(result[t])
            BY <2>1
        <3>2. k >= 1 /\ k \in Nat
            OBVIOUS
        <3> QED
            BY <3>1, <3>2
    <2>3. 1 \in 1..Len(result[t])
        BY <2>2
    <2>4. result[t] \in Seq(Answers)
        BY <1>0 DEF TypeOK
    <2>5. result[t][1] \in Answers
        BY <2>3, <2>4, ElementOfSeq
    <2> QED
        BY <1>0, <2>2, <2>3, <2>5, YieldedType DEF Answers, Reasons
<1>5. emitted' = emitted \o Yielded(t)
    BY <1>3 DEF YieldResult
<1>6. /\ Len(emitted) + 1 \in 1..Len(emitted')
      /\ emitted'[Len(emitted) + 1] = Yielded(t)[1]
    <2>1. /\ Len(emitted) \in Nat /\ Len(Yielded(t)) \in Nat
          /\ Len(emitted') = Len(emitted) + Len(Yielded(t))
          /\ \A i \in 1..Len(emitted') :
                \/ i \in 1..Len(emitted)
                \/ /\ i - Len(emitted) \in 1..Len(Yielded(t))
                   /\ emitted'[i] = Yielded(t)[i - Len(emitted)]
        BY <1>0, <1>4, <1>5, EmittedConcat
    <2>2. Len(emitted) + 1 \in 1..Len(emitted')
        BY <1>4, <2>1
    <2>3. (Len(emitted) + 1) - Len(emitted) = 1
        BY <2>1
    <2>4. Len(emitted) + 1 \notin 1..Len(emitted)
        BY <2>1
    <2> QED
        BY <2>1, <2>2, <2>3, <2>4
<1> QED
    BY <1>4, <1>6 DEF Emitted

LEMMA DrainStep ==
    ASSUME OrderInv, OrderInv', AnswersInv, DrainInv, [Next]_vars
    PROVE  DrainInv'
<1>0. /\ TypeOK /\ ArrivedExactly(status, arrived)
      /\ ArrivedExactly(status', arrived')
    BY DEF OrderInv, ArrivedExactly
<1>1. AnswersStay
    BY StepsAnswer DEF AnswersInv
<1>2. YieldedIsEmitted'
    <2> SUFFICES ASSUME NEW t \in Blocks, status'[t] = "yielded"
                 PROVE  Emitted(emitted', t)
        BY DEF YieldedIsEmitted, Emitted
    <2>1. CASE status[t] = "yielded"
        <3>1. PICK i \in 1..Len(emitted) :
                    emitted[i].block = t /\ emitted[i].answer # "missing"
            BY <2>1 DEF DrainInv, YieldedIsEmitted, Emitted
        <3>2. i \in 1..Len(emitted') /\ emitted'[i] = emitted[i]
            BY <1>0, EmittedGrows
        <3> QED
            BY <3>1, <3>2 DEF Emitted
    <2>2. CASE status[t] # "yielded"
        BY <2>2, YieldEmits DEF AnswersInv
    <2> QED
        BY <2>1, <2>2
<1>3. Drained'
    <2> SUFFICES ASSUME pc' = "done", NEW t \in Blocks, of'[t] = attempt',
                        status'[t] \notin {"none", "dropped"}
                 PROVE  status'[t] = "yielded"
        BY DEF Drained
    <2>1. CASE pc = "done"
        <3>1. UNCHANGED <<of, attempt, arrived>>
            BY <2>1
            DEF Next, Loop, Tool, ReceiveToolUse, ReceiveText, StreamEnd, Sweep,
                EndStreamSweep, Drain, EndSweep, Wake, EndTurn,
                StreamingFallback, ModelFallback, ModelError, Resume,
                ToolProgress, ToolReturn, ToolStopped, ToolEnds, ToolReject,
                UserAbort, vars
        <3>2. status[t] # "none"
            BY <1>0, <3>1 DEF ArrivedExactly
        <3>3. status[t] # "dropped"
            BY <1>1 DEF AnswersStay
        <3>4. status[t] = "yielded"
            BY <2>1, <3>1, <3>2, <3>3 DEF DrainInv, Drained
        <3> QED
            BY <1>1, <3>4 DEF AnswersStay
    <2>2. CASE pc # "done"
        <3>1. EndTurn
            BY <2>2
            DEF Next, Loop, Tool, ReceiveToolUse, ReceiveText, StreamEnd, Sweep,
                EndStreamSweep, Drain, EndSweep, Wake,
                StreamingFallback, ModelFallback, ModelError, Resume,
                ToolProgress, ToolReturn, ToolStopped, ToolEnds, ToolReject,
                UserAbort, vars
        <3> QED
            BY <3>1 DEF EndTurn, Unfinished, Tracked, toolVars
    <2> QED
        BY <2>1, <2>2
<1> QED
    BY <1>2, <1>3 DEF DrainInv

\* A turn that is over has the result of every block that the last executor was
\* given in the conversation.
THEOREM NothingUnanswered == Spec => []DrainComplete
<1>1. Init => DrainInv
    BY DEF Init, DrainInv, Drained, YieldedIsEmitted
<1>2. OrderInv /\ DrainInv => DrainComplete
    <2> SUFFICES ASSUME OrderInv, DrainInv, pc = "done", NEW t \in Blocks,
                        of[t] = attempt, t <= arrived, status[t] # "dropped"
                 PROVE  Emitted(emitted, t)
        BY DEF DrainComplete, Emitted
    <2>1. status[t] # "none"
        <3>1. arrived \in Nat /\ t \in Nat
            BY BlocksAssumption DEF OrderInv, TypeOK, Blocks
        <3>2. ~(t > arrived)
            BY <3>1
        <3> QED
            BY <3>2 DEF OrderInv, ArrivedExactly
    <2>2. status[t] = "yielded"
        BY <2>1 DEF DrainInv, Drained
    <2> QED
        BY <2>2 DEF DrainInv, YieldedIsEmitted
<1> QED
    BY <1>1, <1>2, DrainStep, AnswersInvariant, PTL DEF Spec
=============================================================================
