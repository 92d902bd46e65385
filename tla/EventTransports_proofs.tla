----------------------- MODULE EventTransports_proofs -----------------------
(***************************************************************************)
(* For any workload, any sizes of queue and batch, and any number of       *)
(* failed POSTs: an uploader is an event channel, every message is in one  *)
(* place, the server gets the accepted events in order, flush() keeps its  *)
(* promise, and stream events go out before what was written after them.   *)
(***************************************************************************)
EXTENDS EventTransports, Selection_proofs, WellFoundedInduction, TLAPS

Events == Seq(Nat)

Calls ==
    [who : Nat, events : Events, then : {"own", "flush", "done"}]

\* The events and the loop of the uploader: a batch exists only in a POST.
TypedQueue ==
    /\ pending \in Events /\ batch \in Events
    /\ loop \in {"off", "sending", "backoff"}
    /\ loop # "sending" => batch = <<>>

IInv ==
    /\ setup \in Workload
    /\ TypedQueue
    /\ buffer \in Events
    /\ closed \in BOOLEAN
    /\ blocked \in Seq(Calls) /\ woken \in Seq(Calls)

ChannelStep == [Channel!Next]_(Channel!vars)

-----------------------------------------------------------------------------
(* Sequences *)

LEMMA Cut ==
    ASSUME NEW s \in Events, NEW n \in 0..Len(s)
    PROVE  /\ SubSeq(s, 1, n) \in Events
           /\ SubSeq(s, n + 1, Len(s)) \in Events
           /\ SubSeq(s, 1, n) \o SubSeq(s, n + 1, Len(s)) = s
<1>1. Len(s) \in Nat /\ \A i \in 1..Len(s) : s[i] \in Nat
    BY LenProperties, ElementOfSeq DEF Events
<1>2. SubSeq(s, 1, n) \in Events
    <2>1. \A i \in 1..n : s[i] \in Nat
        BY <1>1
    <2> QED
        BY <1>1, <2>1, SubSeqProperties DEF Events
<1>3. SubSeq(s, n + 1, Len(s)) \in Events
    <2>1. \A i \in (n + 1)..Len(s) : s[i] \in Nat
        BY <1>1
    <2> QED
        BY <1>1, <2>1, SubSeqProperties DEF Events
<1>4. SubSeq(s, 1, n) \o SubSeq(s, n + 1, Len(s)) = SubSeq(s, 1, Len(s))
    <2>1. /\ 1 \in 1..(Len(s) + 1) /\ n \in (1 - 1)..Len(s)
          /\ Len(s) \in n..Len(s)
        BY <1>1
    <2> QED
        BY <2>1, ConcatAdjacentSubSeq DEF Events
<1>5. SubSeq(s, 1, Len(s)) = s
    BY SubSeqFull DEF Events
<1> QED
    BY <1>2, <1>3, <1>4, <1>5

\* The two parts of a concatenation can be taken from it again.
LEMMA Parts ==
    ASSUME NEW s \in Events, NEW t \in Events
    PROVE  /\ s \o t \in Events
           /\ Len(s) \in 0..Len(s \o t)
           /\ SubSeq(s \o t, 1, Len(s)) = s
           /\ SubSeq(s \o t, Len(s) + 1, Len(s \o t)) = t
<1>1. Len(s) \in Nat /\ Len(t) \in Nat
    BY LenProperties DEF Events
<1>2. s \o t \in Events /\ Len(s \o t) = Len(s) + Len(t)
    BY ConcatProperties DEF Events
<1>3. SubSeq(s \o t, 1, Len(s)) = s
    <2>1. CASE Len(s) = 0
        BY <2>1, SubSeqEmpty, EmptySeq DEF Events
    <2>2. CASE Len(s) # 0
        <3>1. 1 \in 1..Len(s) /\ Len(s) \in 1..Len(s)
            BY <1>1, <2>2
        <3> QED
            BY <3>1, SubSeqOfConcat1, SubSeqFull DEF Events
    <2> QED
        BY <2>1, <2>2
<1>4. SubSeq(s \o t, Len(s) + 1, Len(s \o t)) = t
    <2>1. CASE Len(t) = 0
        BY <1>1, <1>2, <2>1, SubSeqEmpty, EmptySeq DEF Events
    <2>2. CASE Len(t) # 0
        <3>1. /\ Len(s) + 1 \in (Len(s) + 1)..(Len(s) + Len(t))
              /\ Len(s) + Len(t) \in (Len(s) + 1)..(Len(s) + Len(t))
            BY <1>1, <2>2
        <3>2. SubSeq(s \o t, Len(s) + 1, Len(s) + Len(t))
                = SubSeq(t, (Len(s) + 1) - Len(s), (Len(s) + Len(t)) - Len(s))
            BY <3>1, SubSeqOfConcat2 DEF Events
        <3>3. /\ (Len(s) + 1) - Len(s) = 1
              /\ (Len(s) + Len(t)) - Len(s) = Len(t)
            BY <1>1
        <3> QED
            BY <1>2, <3>2, <3>3, SubSeqFull DEF Events
    <2> QED
        BY <2>1, <2>2
<1> QED
    BY <1>1, <1>2, <1>3, <1>4

-----------------------------------------------------------------------------
(* What a change of the waiting events is for the channel *)

LEMMA WaitingTyped ==
    ASSUME TypedQueue
    PROVE  Waiting \in Events
BY ConcatProperties DEF TypedQueue, Waiting, Events

\* Nothing changes, or events are put behind the others.
LEMMA Accepts ==
    ASSUME TypedQueue, closed' = closed, NEW t \in Events,
           Waiting' = Waiting \/ (~closed /\ Waiting' = Waiting \o t)
    PROVE  ChannelStep
<1>1. CASE Waiting' = Waiting
    BY <1>1 DEF ChannelStep, Channel!vars
<1>2. CASE ~closed /\ Waiting' = Waiting \o t
    <2>1. /\ Waiting' \in Events
          /\ Len(Waiting) \in 0..Len(Waiting')
          /\ SubSeq(Waiting', 1, Len(Waiting)) = Waiting
        BY <1>2, WaitingTyped, Parts
    <2>2. Len(Waiting') >= Len(Waiting)
        <3>1. Len(Waiting') \in Nat
            BY <2>1, LenProperties DEF Events
        <3> QED
            BY <2>1, <3>1
    <2>3. UNCHANGED ~closed
        OBVIOUS
    <2>4. Channel!Accept
        BY <1>2, <2>1, <2>2, <2>3 DEF Channel!Accept, Events
    <2> QED
        BY <2>4 DEF ChannelStep, Channel!Next
<1> QED
    BY <1>1, <1>2

\* The batch is done with.
LEMMA Settles ==
    ASSUME TypedQueue, closed' = closed, Waiting' = pending
    PROVE  ChannelStep
<1>1. /\ Len(batch) \in 0..Len(Waiting)
      /\ SubSeq(Waiting, Len(batch) + 1, Len(Waiting)) = pending
    BY Parts DEF TypedQueue, Waiting
<1>2. Channel!Settle
    BY <1>1 DEF Channel!Settle
<1> QED
    BY <1>2 DEF ChannelStep, Channel!Next

\* Only the batch is still on its way.
LEMMA Closes ==
    ASSUME TypedQueue, ~closed, closed' = TRUE, Waiting' = batch
    PROVE  ChannelStep
<1>1. /\ Len(batch) \in 0..Len(Waiting)
      /\ SubSeq(Waiting, 1, Len(batch)) = batch
    BY Parts DEF TypedQueue, Waiting
<1>2. Channel!Close
    BY <1>1 DEF Channel!Close
<1> QED
    BY <1>2 DEF ChannelStep, Channel!Next

-----------------------------------------------------------------------------
(* The uploader's methods *)

LEMMA SendKeeps ==
    ASSUME setup \in Workload, NEW queue \in Events, Send(queue)
    PROVE  TypedQueue' /\ Waiting' = queue
<1>1. Len(queue) \in Nat
    BY LenProperties DEF Events
<1>2. \A n \in BatchSizes(queue) : n \in 0..Len(queue)
    BY <1>1 DEF BatchSizes, Workload
<1>3. PICK n \in BatchSizes(queue) :
            /\ batch' = SubSeq(queue, 1, n)
            /\ pending' = SubSeq(queue, n + 1, Len(queue))
            /\ loop' = "sending"
    BY DEF Send
<1>4. n \in 0..Len(queue)
    BY <1>2
<1>5. /\ batch' \in Events /\ pending' \in Events
      /\ batch' \o pending' = queue
    BY <1>3, <1>4, Cut
<1> QED
    BY <1>3, <1>5 DEF TypedQueue, Waiting

\* What is left of drain() does not touch the order.
LEMMA LoopOnKeeps ==
    ASSUME setup \in Workload, TypedQueue, LoopOn
    PROVE  TypedQueue' /\ Waiting' = pending
<1>0. pending \in Events
    BY DEF TypedQueue
<1>1. CASE pending # <<>> /\ ~closed
    BY <1>0, <1>1, SendKeeps DEF LoopOn
<1>2. CASE ~(pending # <<>> /\ ~closed)
    <2>1. loop' = "off" /\ batch' = <<>> /\ pending' = pending
        BY <1>2 DEF LoopOn, Leave
    <2>2. batch' \o pending' = pending /\ batch' \in Events
        BY <1>0, <2>1, ConcatEmptySeq, EmptySeq DEF Events
    <2> QED
        BY <1>0, <2>1, <2>2 DEF TypedQueue, Waiting
<1> QED
    BY <1>1, <1>2

LEMMA ReleaseTyped ==
    ASSUME blocked \in Seq(Calls), woken \in Seq(Calls), Release
    PROVE  blocked' \in Seq(Calls) /\ woken' \in Seq(Calls)
<1>1. woken \o blocked \in Seq(Calls)
    BY ConcatProperties
<1>2. <<>> \in Seq(Calls)
    BY EmptySeq
<1> QED
    BY <1>1, <1>2 DEF Release

LEMMA PushKeeps ==
    ASSUME setup \in Workload, TypedQueue, NEW events \in Events, Push(events)
    PROVE  TypedQueue' /\ Waiting' = Waiting \o events
<1>0. pending \in Events /\ batch \in Events /\ pending \o events \in Events
    BY ConcatProperties DEF TypedQueue, Events
<1>1. batch \o (pending \o events) = (batch \o pending) \o events
    <2>1. batch \in Seq(Nat) /\ pending \in Seq(Nat) /\ events \in Seq(Nat)
        BY <1>0 DEF Events
    <2> QED
        BY <2>1, ConcatAssociative, SMTT(30)
<1>2. CASE loop = "off"
    <2>1. TypedQueue' /\ Waiting' = pending \o events
        BY <1>0, <1>2, SendKeeps DEF Push
    <2>2. batch \o (pending \o events) = pending \o events
        BY <1>0, <1>2, ConcatEmptySeq DEF TypedQueue, Events
    <2> QED
        BY <1>1, <2>1, <2>2 DEF Waiting
<1>3. CASE loop # "off"
    <2>1. /\ pending' = pending \o events
          /\ batch' = batch /\ loop' = loop
        BY <1>3 DEF Push
    <2> QED
        BY <1>0, <1>1, <2>1 DEF TypedQueue, Waiting
<1> QED
    BY <1>2, <1>3

\* enqueue() accepts the events, or refuses or delays them as a whole.
LEMMA EnqueueKeeps ==
    ASSUME IInv, NEW call \in Calls, Enqueue(call)
    PROVE  /\ setup' = setup /\ closed' = closed
           /\ TypedQueue' /\ blocked' \in Seq(Calls)
           /\ ChannelStep
<1>1. setup' = setup /\ closed' = closed
    BY DEF Enqueue
<1>2. blocked' \in Seq(Calls)
    <2>1. blocked' = Append(blocked, call) \/ blocked' = blocked
        BY DEF Enqueue
    <2> QED
        BY <2>1, AppendProperties DEF IInv
<1>3. CASE closed \/ call.events = <<>> \/ Blocks(call)
    <2>1. pending' = pending /\ batch' = batch /\ loop' = loop
        BY <1>3 DEF Enqueue
    <2>2. TypedQueue' /\ Waiting' = Waiting
        BY <2>1 DEF IInv, TypedQueue, Waiting
    <2>3. <<>> \in Events
        BY EmptySeq DEF Events
    <2>4. ChannelStep
        BY <1>1, <2>2, <2>3, Accepts DEF IInv
    <2> QED
        BY <1>1, <1>2, <2>2, <2>4
<1>4. CASE ~(closed \/ call.events = <<>> \/ Blocks(call))
    <2>1. Push(call.events) /\ ~closed /\ call.events \in Events
        BY <1>4 DEF Enqueue, Calls
    <2>2. TypedQueue' /\ Waiting' = Waiting \o call.events
        BY <2>1, PushKeeps DEF IInv
    <2>3. ChannelStep
        BY <1>1, <2>1, <2>2, Accepts DEF IInv
    <2> QED
        BY <1>1, <1>2, <2>2, <2>3
<1> QED
    BY <1>3, <1>4

\* A POST that is over, whatever became of its events.
LEMMA SettlesBatch ==
    ASSUME IInv, LoopOn, Release, setup' = setup, closed' = closed,
           buffer' = buffer
    PROVE  IInv' /\ ChannelStep
<1>1. TypedQueue' /\ Waiting' = pending
    BY LoopOnKeeps DEF IInv
<1>2. ChannelStep
    BY <1>1, Settles DEF IInv
<1>3. blocked' \in Seq(Calls) /\ woken' \in Seq(Calls)
    BY ReleaseTyped DEF IInv
<1> QED
    BY <1>1, <1>2, <1>3 DEF IInv

\* A step that leaves the queue alone.
LEMMA Apart ==
    ASSUME IInv, UNCHANGED <<setup, pending, batch, loop, closed, blocked>>,
           buffer' \in Events, woken' \in Seq(Calls)
    PROVE  IInv' /\ ChannelStep
<1>1. TypedQueue' /\ Waiting' = Waiting
    BY DEF IInv, TypedQueue, Waiting
<1>2. <<>> \in Events
    BY EmptySeq DEF Events
<1>3. ChannelStep
    BY <1>1, <1>2, Accepts DEF IInv
<1> QED
    BY <1>1, <1>3 DEF IInv

\* A step that makes a call of enqueue().
LEMMA Calling ==
    ASSUME IInv, NEW call \in Calls, Enqueue(call),
           buffer' \in Events, woken' \in Seq(Calls)
    PROVE  IInv' /\ ChannelStep
<1>1. /\ setup' = setup /\ closed' = closed
      /\ TypedQueue' /\ blocked' \in Seq(Calls)
      /\ ChannelStep
    BY EnqueueKeeps
<1> QED
    BY <1>1 DEF IInv

LEMMA ClosesQueue ==
    ASSUME IInv, Close, ~closed, UNCHANGED <<batch, loop>>, buffer' \in Events
    PROVE  IInv' /\ ChannelStep
<1>1. /\ pending' = <<>> /\ closed' = TRUE /\ setup' = setup
      /\ woken' = woken \o blocked /\ blocked' = <<>>
    BY DEF Close
<1>2. TypedQueue' /\ Waiting' = batch
    BY <1>1, ConcatEmptySeq, EmptySeq DEF IInv, TypedQueue, Waiting, Events
<1>3. ChannelStep
    BY <1>1, <1>2, Closes DEF IInv
<1>4. blocked' \in Seq(Calls) /\ woken' \in Seq(Calls)
    BY <1>1, ReleaseTyped DEF IInv, Release
<1> QED
    BY <1>1, <1>2, <1>3, <1>4 DEF IInv

-----------------------------------------------------------------------------
(* The theorem *)

LEMMA InitIInv == Init => IInv /\ Channel!Init
<1> SUFFICES ASSUME Init PROVE IInv /\ Channel!Init
    OBVIOUS
<1>1. setup \in Workload
    BY WorkloadsAssumption DEF Init, UploaderInit
<1>2. /\ <<>> \in Events /\ <<>> \in Seq(Calls)
      /\ <<>> \o <<>> = <<>>
    BY EmptySeq, ConcatEmptySeq DEF Events
<1> QED
    BY <1>1, <1>2
    DEF Init, UploaderInit, IInv, TypedQueue, Channel!Init, Waiting

LEMMA NextIInv ==
    ASSUME IInv, [Next]_vars
    PROVE  IInv' /\ ChannelStep
<1>0. /\ <<>> \in Events /\ <<>> \in Seq(Calls)
      /\ buffer \in Events /\ woken \in Seq(Calls)
    BY EmptySeq DEF IInv, Events
<1>1. \A m \in Messages : m \in Nat
    BY LenProperties DEF IInv, Messages, Workload
<1>1a. \A m \in Messages : <<m>> \in Events /\ Append(buffer, m) \in Events
    BY <1>0, <1>1 DEF Events
<1>2. CASE UNCHANGED vars
    BY <1>0, <1>2, Apart DEF vars, uploaderVars, writerVars
<1>3. ASSUME NEW m \in Messages, WriteStream(m) PROVE IInv' /\ ChannelStep
    BY <1>0, <1>1a, <1>3, Apart DEF WriteStream, uploaderVars
<1>4. ASSUME NEW m \in Messages, HybridWrite(m) PROVE IInv' /\ ChannelStep
    <2> DEFINE call == [who |-> m, events |-> Append(buffer, m), then |-> "flush"]
    <2>1. call \in Calls
        BY <1>0, <1>1, <1>1a DEF Calls
    <2>2. /\ Enqueue(call)
          /\ buffer' \in Events /\ woken' \in Seq(Calls)
        BY <1>0, <1>4 DEF HybridWrite, Await, TakeBuffer
    <2> QED
        BY <2>1, <2>2, Calling
<1>5. ASSUME NEW m \in Messages, CCRWrite(m) PROVE IInv' /\ ChannelStep
    <2> DEFINE call == [who |-> m, events |-> buffer, then |-> "own"]
    <2>1. call \in Calls
        BY <1>0, <1>1 DEF Calls
    <2>2. /\ Enqueue(call)
          /\ buffer' \in Events /\ woken' \in Seq(Calls)
        BY <1>0, <1>5 DEF CCRWrite, Await, TakeBuffer
    <2> QED
        BY <2>1, <2>2, Calling
<1>6. ASSUME NEW m \in Messages, CCRWriteOwn(m) PROVE IInv' /\ ChannelStep
    <2> DEFINE call == [who |-> m, events |-> <<m>>, then |-> "done"]
    <2>1. call \in Calls
        BY <1>0, <1>1, <1>1a DEF Calls
    <2>2. /\ Enqueue(call)
          /\ buffer' \in Events /\ woken' \in Seq(Calls)
        BY <1>0, <1>6 DEF CCRWriteOwn, Await
    <2> QED
        BY <2>1, <2>2, Calling
<1>7. ASSUME NEW m \in Messages, HybridFlush(m) PROVE IInv' /\ ChannelStep
    <2> DEFINE call == [who |-> 0, events |-> buffer, then |-> "done"]
    <2>1. call \in Calls
        BY <1>0 DEF Calls
    <2>2. /\ Enqueue(call)
          /\ buffer' \in Events /\ woken' \in Seq(Calls)
        BY <1>0, <1>7 DEF HybridFlush, TakeBuffer
    <2> QED
        BY <2>1, <2>2, Calling
<1>8. ASSUME NEW m \in Messages, CCRFlush(m) PROVE IInv' /\ ChannelStep
    <2> DEFINE call == [who |-> m, events |-> buffer, then |-> "flush"]
    <2>1. call \in Calls
        BY <1>0, <1>1 DEF Calls
    <2>2. /\ Enqueue(call)
          /\ buffer' \in Events /\ woken' \in Seq(Calls)
        BY <1>0, <1>8 DEF CCRFlush, Await, TakeBuffer
    <2> QED
        BY <2>1, <2>2, Calling
<1>9. ASSUME NEW m \in Messages, FlushUploader(m) PROVE IInv' /\ ChannelStep
    BY <1>0, <1>9, Apart DEF FlushUploader
<1>10. CASE Resume
    <2>1. Head(woken) \in Calls /\ Tail(woken) \in Seq(Calls)
        BY <1>0, <1>10, HeadTailProperties DEF Resume
    <2> QED
        BY <1>0, <1>10, <2>1, Calling DEF Resume, Await
<1>11. CASE StreamTimer
    <2> DEFINE call == [who |-> 0, events |-> buffer, then |-> "done"]
    <2>1. call \in Calls
        BY <1>0 DEF Calls
    <2>2. /\ Enqueue(call)
          /\ buffer' \in Events /\ woken' \in Seq(Calls)
        BY <1>0, <1>11 DEF StreamTimer, Await, TakeBuffer
    <2> QED
        BY <2>1, <2>2, Calling
<1>12. CASE PostSucceeds \/ PostRefused
    BY <1>12, SettlesBatch DEF PostSucceeds, PostRefused, Done, writerVars
<1>13. CASE PostFails
    <2>1. CASE GiveUp
        BY <1>13, <2>1, SettlesBatch DEF PostFails, Failed, GiveUp, writerVars
    <2>2. CASE Requeue
        <3>1. /\ pending' = batch \o pending /\ batch' = <<>>
              /\ loop' = "backoff"
              /\ UNCHANGED <<setup, closed, blocked, woken, buffer>>
            BY <1>13, <2>2 DEF PostFails, Failed, Requeue, writerVars
        <3>2. TypedQueue' /\ Waiting' = Waiting
            BY <1>0, <3>1, ConcatProperties, ConcatEmptySeq
            DEF IInv, TypedQueue, Waiting, Events
        <3>3. ChannelStep
            BY <1>0, <3>1, <3>2, Accepts DEF IInv
        <3> QED
            BY <3>1, <3>2, <3>3 DEF IInv
    <2> QED
        BY <1>13, <2>1, <2>2 DEF PostFails, Failed
<1>14. CASE Superseded
    <2>1. /\ ~closed /\ closed' = TRUE /\ setup' = setup
          /\ buffer' = <<>> /\ pending' = batch /\ batch' = <<>>
          /\ loop' = "backoff"
          /\ woken' = woken \o blocked /\ blocked' = <<>>
        BY <1>14 DEF Superseded, TakeBuffer
    <2>2. TypedQueue' /\ Waiting' = batch
        BY <1>0, <2>1, ConcatEmptySeq DEF IInv, TypedQueue, Waiting, Events
    <2>3. ChannelStep
        BY <2>1, <2>2, Closes DEF IInv
    <2>4. blocked' \in Seq(Calls) /\ woken' \in Seq(Calls)
        BY <2>1, ReleaseTyped DEF IInv, Release
    <2> QED
        BY <1>0, <2>1, <2>2, <2>3, <2>4 DEF IInv
<1>15. CASE SleepEnds
    <2>1. /\ LoopOn /\ loop = "backoff"
          /\ UNCHANGED <<setup, closed, blocked, woken, buffer>>
        BY <1>15 DEF SleepEnds, BackoffOver, writerVars
    <2>2. TypedQueue' /\ Waiting' = pending
        BY <2>1, LoopOnKeeps DEF IInv
    <2>3. ChannelStep
        BY <2>1, <2>2, Settles DEF IInv
    <2> QED
        BY <2>1, <2>2, <2>3 DEF IInv
<1>16. CASE LateArrival
    BY <1>0, <1>16, Apart DEF LateArrival, writerVars
<1>17. CASE CloseCCR
    BY <1>0, <1>17, ClosesQueue DEF CloseCCR, TakeBuffer
<1>18. CASE ShutHybrid
    BY <1>0, <1>18, Apart DEF ShutHybrid, TakeBuffer, uploaderVars
<1>19. CASE CloseHybrid
    BY <1>0, <1>19, ClosesQueue DEF CloseHybrid, writerVars
<1> QED
    BY <1>2, <1>3, <1>4, <1>5, <1>6, <1>7, <1>8, <1>9, <1>10, <1>11, <1>12,
       <1>13, <1>14, <1>15, <1>16, <1>17, <1>18, <1>19
    DEF Next, Write, GoesOn, Answer

\* The events an uploader has accepted and not yet settled behave as a channel:
\* new ones go behind the others, the oldest leave first, a failed or late POST
\* changes nothing of the order, and after close() at most the batch under way
\* is left.
THEOREM UploaderImplementsChannel == Spec => UploaderIsChannel
<1>1. Init => IInv /\ Channel!Init
    BY InitIInv
<1>2. IInv /\ [Next]_vars => IInv' /\ ChannelStep
    BY NextIInv
<1> QED
    BY <1>1, <1>2, PTL DEF Spec, UploaderIsChannel, Channel!Spec, ChannelStep
-----------------------------------------------------------------------------
(* Where an event is: every message is in one place *)

Single(s) == \A i, j \in 1..Len(s) : s[i] = s[j] => i = j

Elements(s) == {s[i] : i \in 1..Len(s)}

Separate(s, t) == Elements(s) \cap Elements(t) = {}

\* m was neither accepted nor is it held back or in the hands of a call of q.
Nowhere(m, acc, buf, q) ==
    /\ m \notin Elements(acc) /\ m \notin Elements(buf)
    /\ \A i \in 1..Len(q) : m \notin Elements(q[i].events)

\* Call i of q waits: its events are nowhere else, its message has no other
\* call, and is itself still to come if the caller goes on to send it.
Pending(acc, buf, q, where, i) ==
    /\ Single(q[i].events)
    /\ Separate(q[i].events, acc) /\ Separate(q[i].events, buf)
    /\ q[i].who # 0 => q[i].who \in DOMAIN where /\ where[q[i].who] = "blocked"
    /\ q[i].then = "own" => q[i].who # 0 /\ Nowhere(q[i].who, acc, buf, q)
    /\ \A j \in 1..Len(q) : i # j =>
            /\ Separate(q[i].events, q[j].events)
            /\ q[i].who = q[j].who => q[i].who = 0

Once(acc, buf, q, where) ==
    /\ Single(acc) /\ Single(buf) /\ Separate(acc, buf)
    /\ \A i \in 1..Len(q) : Pending(acc, buf, q, where, i)
    /\ \A m \in DOMAIN where :
            where[m] \in {"new", "own"} => Nowhere(m, acc, buf, q)

\* The same with one more call, c, which is about to look for room.
Hand(acc, buf, q, where, c) ==
    /\ Once(acc, buf, q, where)
    /\ Single(c.events)
    /\ \A e \in Elements(c.events) : Nowhere(e, acc, buf, q)
    /\ c.who # 0 => /\ c.who \in DOMAIN where /\ where[c.who] = "blocked"
                    /\ \A i \in 1..Len(q) : q[i].who # c.who
    /\ c.then = "own" => /\ c.who # 0
                         /\ Nowhere(c.who, acc, buf, q)
                         /\ c.who \notin Elements(c.events)
    /\ \A m \in DOMAIN where :
            where[m] \in {"new", "own"} => m \notin Elements(c.events)
    /\ \A i \in 1..Len(q) :
            q[i].then = "own" => q[i].who \notin Elements(c.events)

LEMMA ElementsOfConcat ==
    ASSUME NEW s \in Events, NEW t \in Events
    PROVE  /\ s \o t \in Events
           /\ Elements(s \o t) = Elements(s) \union Elements(t)
           /\ Single(s) /\ Single(t) /\ Separate(s, t) => Single(s \o t)
<1>1. /\ Len(s) \in Nat /\ Len(t) \in Nat
      /\ s \o t \in Events /\ Len(s \o t) = Len(s) + Len(t)
      /\ \A i \in 1..Len(s \o t) :
            (s \o t)[i] = IF i <= Len(s) THEN s[i] ELSE t[i - Len(s)]
    BY LenProperties, ConcatProperties DEF Events
<1>2. Elements(s \o t) \subseteq Elements(s) \union Elements(t)
    <2> SUFFICES ASSUME NEW i \in 1..Len(s \o t)
                 PROVE  (s \o t)[i] \in Elements(s) \union Elements(t)
        BY DEF Elements
    <2>1. CASE i <= Len(s)
        BY <1>1, <2>1 DEF Elements
    <2>2. CASE i > Len(s)
        <3>1. i - Len(s) \in 1..Len(t) /\ (s \o t)[i] = t[i - Len(s)]
            BY <1>1, <2>2
        <3> QED
            BY <3>1 DEF Elements
    <2> QED
        BY <1>1, <2>1, <2>2
<1>3. Elements(s) \subseteq Elements(s \o t)
    BY <1>1 DEF Elements
<1>4. Elements(t) \subseteq Elements(s \o t)
    <2> SUFFICES ASSUME NEW i \in 1..Len(t) PROVE t[i] \in Elements(s \o t)
        BY DEF Elements
    <2>1. /\ i + Len(s) \in 1..Len(s \o t) /\ ~(i + Len(s) <= Len(s))
          /\ (i + Len(s)) - Len(s) = i
        BY <1>1
    <2>2. (s \o t)[i + Len(s)] = t[i]
        BY <1>1, <2>1
    <2> QED
        BY <2>1, <2>2 DEF Elements
<1>5. ASSUME Single(s), Single(t), Separate(s, t) PROVE Single(s \o t)
    <2> SUFFICES ASSUME NEW i \in 1..Len(s \o t), NEW j \in 1..Len(s \o t),
                        (s \o t)[i] = (s \o t)[j]
                 PROVE  i = j
        BY DEF Single
    <2>0. \A k \in 1..Len(s \o t) :
            \/ k \in 1..Len(s) /\ (s \o t)[k] = s[k]
            \/ /\ k - Len(s) \in 1..Len(t)
               /\ (s \o t)[k] = t[k - Len(s)]
        BY <1>1
    <2>1. \A k \in 1..Len(s), l \in 1..Len(t) : s[k] # t[l]
        BY <1>5 DEF Separate, Elements
    <2>2. \A k, l \in 1..Len(s) : s[k] = s[l] => k = l
        BY <1>5 DEF Single
    <2>3. \A k, l \in 1..Len(t) : t[k] = t[l] => k = l
        BY <1>5 DEF Single
    <2>4. CASE i \in 1..Len(s) /\ (s \o t)[i] = s[i]
        <3>1. ~(j - Len(s) \in 1..Len(t) /\ (s \o t)[j] = t[j - Len(s)])
            BY <2>1, <2>4
        <3> QED
            BY <2>0, <2>2, <2>4, <3>1
    <2>5. CASE i - Len(s) \in 1..Len(t) /\ (s \o t)[i] = t[i - Len(s)]
        <3>1. ~(j \in 1..Len(s) /\ (s \o t)[j] = s[j])
            BY <2>1, <2>5
        <3>2. j - Len(s) \in 1..Len(t) /\ (s \o t)[j] = t[j - Len(s)]
            BY <2>0, <3>1
        <3>3. i - Len(s) = j - Len(s)
            BY <2>3, <2>5, <3>2
        <3> QED
            BY <1>1, <3>3
    <2> QED
        BY <2>0, <2>4, <2>5
<1> QED
    BY <1>1, <1>2, <1>3, <1>4, <1>5

LEMMA ElementsOfOne ==
    ASSUME NEW m \in Nat
    PROVE  <<m>> \in Events /\ Elements(<<m>>) = {m} /\ Single(<<m>>)
BY DEF Events, Elements, Single

LEMMA ElementsOfNone == Elements(<<>>) = {} /\ Single(<<>>)
BY DEF Elements, Single

\* The queue of calls, with one call more or less.
LEMMA OneMoreCall ==
    ASSUME NEW q \in Seq(Calls), NEW c \in Calls
    PROVE  /\ Append(q, c) \in Seq(Calls) /\ Len(q) \in Nat
           /\ Len(Append(q, c)) = Len(q) + 1
           /\ \A i \in 1..Len(q) : Append(q, c)[i] = q[i]
           /\ Append(q, c)[Len(q) + 1] = c
BY AppendProperties, LenProperties

LEMMA OneLessCall ==
    ASSUME NEW q \in Seq(Calls), q # <<>>
    PROVE  /\ Head(q) \in Calls /\ Tail(q) \in Seq(Calls)
           /\ Len(q) \in Nat /\ Len(q) >= 1 /\ q[1] = Head(q)
           /\ Len(Tail(q)) = Len(q) - 1
           /\ \A i \in 1..Len(Tail(q)) : Tail(q)[i] = q[i + 1]
<1>1. Head(q) \in Calls /\ Tail(q) \in Seq(Calls) /\ Len(Tail(q)) = Len(q) - 1
    BY HeadTailProperties
<1>2. Len(q) \in Nat /\ Len(q) >= 1
    BY LenProperties, EmptySeq
<1> QED
    BY <1>1, <1>2, HeadTailProperties

LEMMA HeadTailOfConcat ==
    ASSUME NEW s \in Seq(Calls), NEW t \in Seq(Calls), s # <<>>
    PROVE  /\ s \o t # <<>> /\ Head(s \o t) = Head(s)
           /\ Tail(s \o t) = Tail(s) \o t
OBVIOUS

Places == {"new", "blocked", "own", "flush", "done"}

LEMMA HandTaken ==
    ASSUME NEW acc, NEW buf, NEW where, NEW q \in Seq(Calls), q # <<>>,
           Once(acc, buf, q, where)
    PROVE  Hand(acc, buf, Tail(q), where, Head(q))
<1> DEFINE rest == Tail(q)
           c == Head(q)
<1>1. /\ c \in Calls /\ rest \in Seq(Calls)
      /\ Len(q) \in Nat /\ Len(q) >= 1 /\ q[1] = c
      /\ Len(rest) = Len(q) - 1
      /\ \A i \in 1..Len(rest) : rest[i] = q[i + 1]
    BY OneLessCall
<1> HIDE DEF rest, c
<1>2. /\ 1 \in 1..Len(q)
      /\ \A i \in 1..Len(rest) : i + 1 \in 1..Len(q) /\ i + 1 # 1
      /\ \A i, j \in 1..Len(rest) : i # j => i + 1 # j + 1
    BY <1>1
<1>3. \A m : Nowhere(m, acc, buf, q) => Nowhere(m, acc, buf, rest)
    BY <1>1, <1>2 DEF Nowhere
<1>4. Pending(acc, buf, q, where, 1)
    BY <1>2 DEF Once
<1>5. \A i \in 1..Len(rest) : Pending(acc, buf, q, where, i + 1)
    BY <1>2 DEF Once
<1>6. \A i \in 1..Len(rest) : Pending(acc, buf, rest, where, i)
    <2> SUFFICES ASSUME NEW i \in 1..Len(rest)
                 PROVE  Pending(acc, buf, rest, where, i)
        OBVIOUS
    <2>1. rest[i] = q[i + 1] /\ Pending(acc, buf, q, where, i + 1)
        BY <1>1, <1>5
    <2>2. \A j \in 1..Len(rest) : i # j =>
            /\ Separate(rest[i].events, rest[j].events)
            /\ rest[i].who = rest[j].who => rest[i].who = 0
        BY <1>1, <1>2, <2>1 DEF Pending
    <2> QED
        BY <1>3, <2>1, <2>2 DEF Pending
<1>7. Once(acc, buf, rest, where)
    BY <1>3, <1>6 DEF Once
<1>8. Single(c.events) /\ \A e \in Elements(c.events) : Nowhere(e, acc, buf, rest)
    <2>1. \A i \in 1..Len(rest) : Separate(c.events, rest[i].events)
        BY <1>1, <1>2, <1>4 DEF Pending
    <2> QED
        BY <1>1, <1>4, <2>1 DEF Pending, Nowhere, Separate
<1>9. c.who # 0 => /\ c.who \in DOMAIN where /\ where[c.who] = "blocked"
                   /\ \A i \in 1..Len(rest) : rest[i].who # c.who
    BY <1>1, <1>2, <1>4 DEF Pending
<1>10. c.then = "own" => /\ c.who # 0
                         /\ Nowhere(c.who, acc, buf, rest)
                         /\ c.who \notin Elements(c.events)
    BY <1>1, <1>2, <1>3, <1>4 DEF Pending, Nowhere
<1>11. \A m \in DOMAIN where :
            where[m] \in {"new", "own"} => m \notin Elements(c.events)
    BY <1>1, <1>2 DEF Once, Nowhere
<1>12. \A i \in 1..Len(rest) :
            rest[i].then = "own" => rest[i].who \notin Elements(c.events)
    BY <1>1, <1>2, <1>5 DEF Pending, Nowhere
<1> QED
    BY <1>7, <1>8, <1>9, <1>10, <1>11, <1>12 DEF Hand, rest, c

LEMMA HandWaits ==
    ASSUME NEW acc, NEW buf, NEW where, NEW q \in Seq(Calls), NEW c \in Calls,
           Hand(acc, buf, q, where, c)
    PROVE  Once(acc, buf, Append(q, c), where)
<1> DEFINE more == Append(q, c)
           n == Len(q) + 1
<1>1. /\ Len(q) \in Nat /\ Len(more) = n /\ more[n] = c
      /\ \A i \in 1..Len(q) : more[i] = q[i]
    BY OneMoreCall
<1>2. /\ n \in 1..n /\ \A i \in 1..Len(q) : i \in 1..n /\ i # n
      /\ \A i \in 1..n : i # n => i \in 1..Len(q)
    BY <1>1
<1> HIDE DEF more, n
<1>3. \A m : Nowhere(m, acc, buf, q) /\ m \notin Elements(c.events)
                => Nowhere(m, acc, buf, more)
    BY <1>1, <1>2 DEF Nowhere
<1>4. Once(acc, buf, q, where)
    BY DEF Hand
<1>5. \A i \in 1..Len(q) : Separate(c.events, q[i].events)
                            /\ Separate(q[i].events, c.events)
    BY DEF Hand, Nowhere, Separate
<1>6. ASSUME NEW i \in 1..Len(q) PROVE Pending(acc, buf, more, where, i)
    <2>1. more[i] = q[i] /\ Pending(acc, buf, q, where, i)
        BY <1>1, <1>4 DEF Once
    <2>2. \A j \in 1..Len(more) : i # j =>
            /\ Separate(more[i].events, more[j].events)
            /\ more[i].who = more[j].who => more[i].who = 0
        <3> SUFFICES ASSUME NEW j \in 1..Len(more), i # j
                     PROVE  /\ Separate(more[i].events, more[j].events)
                            /\ more[i].who = more[j].who => more[i].who = 0
            OBVIOUS
        <3>1. CASE j = n
            BY <1>1, <1>5, <2>1, <3>1 DEF Hand
        <3>2. CASE j # n
            BY <1>1, <1>2, <2>1, <3>2 DEF Pending
        <3> QED
            BY <3>1, <3>2
    <2>3. q[i].then = "own" => q[i].who \notin Elements(c.events)
        BY DEF Hand
    <2> QED
        BY <1>3, <2>1, <2>2, <2>3 DEF Pending
<1>7. Pending(acc, buf, more, where, n)
    <2>1. Single(c.events) /\ Separate(c.events, acc) /\ Separate(c.events, buf)
        BY DEF Hand, Nowhere, Separate
    <2>2. \A j \in 1..Len(more) : n # j =>
            /\ Separate(more[n].events, more[j].events)
            /\ more[n].who = more[j].who => more[n].who = 0
        BY <1>1, <1>2, <1>5 DEF Hand
    <2>3. c.who # 0 => c.who \in DOMAIN where /\ where[c.who] = "blocked"
        BY DEF Hand
    <2>4. c.then = "own" => c.who # 0 /\ Nowhere(c.who, acc, buf, more)
        BY <1>3 DEF Hand
    <2> QED
        BY <1>1, <2>1, <2>2, <2>3, <2>4 DEF Pending
<1>8. \A i \in 1..Len(more) : Pending(acc, buf, more, where, i)
    BY <1>1, <1>2, <1>6, <1>7
<1>9. \A m \in DOMAIN where :
            where[m] \in {"new", "own"} => Nowhere(m, acc, buf, more)
    BY <1>3, <1>4 DEF Once, Hand
<1> QED
    BY <1>4, <1>8, <1>9 DEF Once, more

\* The caller goes on at c.then.
GoesTo(where, c) ==
    [m \in DOMAIN where |-> IF m = c.who THEN c.then ELSE where[m]]

LEMMA HandLets ==
    ASSUME NEW acc, NEW buf, NEW where, NEW q \in Seq(Calls), NEW c \in Calls,
           0 \notin DOMAIN where, Hand(acc, buf, q, where, c)
    PROVE  Once(acc, buf, q, GoesTo(where, c))
<1> DEFINE there == GoesTo(where, c)
<1>1. /\ DOMAIN there = DOMAIN where
      /\ \A m \in DOMAIN where :
            there[m] = IF m = c.who THEN c.then ELSE where[m]
    BY DEF GoesTo
<1> HIDE DEF there
<1>2. Once(acc, buf, q, where)
    BY DEF Hand
<1>3. \A i \in 1..Len(q) : Pending(acc, buf, q, there, i)
    <2> SUFFICES ASSUME NEW i \in 1..Len(q)
                 PROVE  Pending(acc, buf, q, there, i)
        OBVIOUS
    <2>1. Pending(acc, buf, q, where, i)
        BY <1>2 DEF Once
    <2>2. q[i].who # 0 =>
            q[i].who \in DOMAIN there /\ there[q[i].who] = "blocked"
        BY <1>1, <2>1 DEF Pending, Hand
    <2> QED
        BY <2>1, <2>2 DEF Pending
<1>4. ASSUME NEW m \in DOMAIN there, there[m] \in {"new", "own"}
      PROVE  Nowhere(m, acc, buf, q)
    <2>1. CASE m = c.who
        <3>1. c.then = "own"
            BY <1>1, <1>4, <2>1 DEF Calls
        <3> QED
            BY <2>1, <3>1 DEF Hand
    <2>2. CASE m # c.who
        BY <1>1, <1>2, <1>4, <2>2 DEF Once
    <2> QED
        BY <2>1, <2>2
<1> QED
    BY <1>2, <1>3, <1>4 DEF Once, there

LEMMA HandAccepted ==
    ASSUME NEW acc \in Events, NEW buf, NEW where, NEW q \in Seq(Calls),
           NEW c \in Calls, 0 \notin DOMAIN where, Hand(acc, buf, q, where, c)
    PROVE  Once(acc \o c.events, buf, q, GoesTo(where, c))
<1> DEFINE there == GoesTo(where, c)
           all == acc \o c.events
<1>0. c.events \in Events
    BY DEF Calls
<1>1. /\ Elements(all) = Elements(acc) \union Elements(c.events)
      /\ Single(acc) /\ Single(c.events) /\ Separate(acc, c.events)
            => Single(all)
    BY <1>0, ElementsOfConcat
<1>2. Once(acc, buf, q, there)
    BY HandLets
<1>3. /\ DOMAIN there = DOMAIN where
      /\ \A m \in DOMAIN where :
            there[m] = IF m = c.who THEN c.then ELSE where[m]
    BY DEF GoesTo
<1> HIDE DEF there, all
<1>4. \A m : Nowhere(m, acc, buf, q) /\ m \notin Elements(c.events)
                => Nowhere(m, all, buf, q)
    BY <1>1 DEF Nowhere
<1>5. Single(all) /\ Separate(all, buf)
    BY <1>1, <1>2 DEF Hand, Once, Nowhere, Separate
<1>6. \A i \in 1..Len(q) : Pending(all, buf, q, there, i)
    <2> SUFFICES ASSUME NEW i \in 1..Len(q)
                 PROVE  Pending(all, buf, q, there, i)
        OBVIOUS
    <2>1. Pending(acc, buf, q, there, i)
        BY <1>2 DEF Once
    <2>2. Separate(q[i].events, c.events)
        BY DEF Hand, Nowhere, Separate
    <2>3. Separate(q[i].events, all)
        BY <1>1, <2>1, <2>2 DEF Pending, Separate
    <2>4. q[i].then = "own" => q[i].who \notin Elements(c.events)
        BY DEF Hand
    <2> QED
        BY <1>4, <2>1, <2>3, <2>4 DEF Pending
<1>7. ASSUME NEW m \in DOMAIN there, there[m] \in {"new", "own"}
      PROVE  Nowhere(m, all, buf, q)
    <2>1. Nowhere(m, acc, buf, q)
        BY <1>2, <1>7 DEF Once
    <2>2. m \notin Elements(c.events)
        <3>1. CASE m = c.who
            <4>1. c.then = "own"
                BY <1>3, <1>7, <3>1 DEF Calls
            <4> QED
                BY <3>1, <4>1 DEF Hand
        <3>2. CASE m # c.who
            BY <1>3, <1>7, <3>2 DEF Hand
        <3> QED
            BY <3>1, <3>2
    <2> QED
        BY <1>4, <2>1, <2>2
<1> QED
    BY <1>2, <1>5, <1>6, <1>7 DEF Once, there, all

\* A message that is not waiting in a call moves on.
LEMMA Moved ==
    ASSUME NEW acc, NEW buf, NEW where, NEW q, NEW m \in DOMAIN where, NEW v,
           Once(acc, buf, q, where), where[m] # "blocked", v \notin {"new", "own"}
    PROVE  Once(acc, buf, q, [where EXCEPT ![m] = v])
<1> DEFINE there == [where EXCEPT ![m] = v]
<1>1. /\ DOMAIN there = DOMAIN where
      /\ \A n \in DOMAIN where : there[n] = IF n = m THEN v ELSE where[n]
    OBVIOUS
<1> HIDE DEF there
<1>2. \A i \in 1..Len(q) : Pending(acc, buf, q, where, i)
    BY DEF Once
<1>3. \A i \in 1..Len(q) : q[i].who = m => m = 0
    BY <1>2 DEF Pending
<1>4. \A i \in 1..Len(q) : q[i].who # 0 =>
            q[i].who \in DOMAIN there /\ there[q[i].who] = "blocked"
    BY <1>1, <1>2, <1>3 DEF Pending
<1>5. \A i \in 1..Len(q) : Pending(acc, buf, q, there, i)
    BY <1>2, <1>4 DEF Pending
<1>6. \A n \in DOMAIN there :
            there[n] \in {"new", "own"} => Nowhere(n, acc, buf, q)
    BY <1>1 DEF Once
<1>7. Once(acc, buf, q, there)
    BY <1>5, <1>6 DEF Once
<1> QED
    BY <1>7 DEF there

\* A new message is held back.
LEMMA HeldBack ==
    ASSUME NEW acc, NEW buf \in Events, NEW where, NEW q, NEW v,
           NEW m \in DOMAIN where, m \in Nat \ {0},
           Once(acc, buf, q, where), where[m] = "new", v \notin {"new", "own"}
    PROVE  Once(acc, Append(buf, m), q, [where EXCEPT ![m] = v])
<1> DEFINE there == [where EXCEPT ![m] = v]
           more == Append(buf, m)
<1>1. /\ DOMAIN there = DOMAIN where
      /\ \A n \in DOMAIN where : there[n] = IF n = m THEN v ELSE where[n]
    OBVIOUS
<1>2. /\ Once(acc, buf, q, there) /\ Nowhere(m, acc, buf, q)
      /\ \A i \in 1..Len(q) : q[i].who # m
    <2>1. where[m] # "blocked" /\ where[m] \in {"new", "own"} /\ m # 0
        OBVIOUS
    <2>2. Once(acc, buf, q, there)
        BY <2>1, Moved
    <2>3. \A i \in 1..Len(q) : q[i].who = m => m = 0
        BY <2>1 DEF Once, Pending
    <2>4. Nowhere(m, acc, buf, q)
        BY <2>1 DEF Once
    <2> QED
        BY <2>1, <2>2, <2>3, <2>4
<1>3. /\ Elements(more) = Elements(buf) \union {m}
      /\ Single(more)
    <2>1. more = buf \o <<m>>
        BY AppendIsConcat DEF Events
    <2>2. <<m>> \in Events /\ Elements(<<m>>) = {m} /\ Single(<<m>>)
        BY ElementsOfOne
    <2>3. Single(buf) /\ Separate(buf, <<m>>)
        BY <1>2, <2>2 DEF Once, Nowhere, Separate
    <2> QED
        BY <2>1, <2>2, <2>3, ElementsOfConcat
<1> HIDE DEF there, more
<1>4. \A n : Nowhere(n, acc, buf, q) /\ n # m => Nowhere(n, acc, more, q)
    BY <1>3 DEF Nowhere
<1>5. Separate(acc, more)
    BY <1>2, <1>3 DEF Once, Nowhere, Separate
<1>6. ASSUME NEW i \in 1..Len(q) PROVE Pending(acc, more, q, there, i)
    <2>1. Pending(acc, buf, q, there, i) /\ q[i].who # m
        BY <1>2 DEF Once
    <2>2. Separate(q[i].events, more)
        BY <1>2, <1>3, <2>1 DEF Pending, Nowhere, Separate
    <2> QED
        BY <1>4, <2>1, <2>2 DEF Pending
<1>7. ASSUME NEW n \in DOMAIN there, there[n] \in {"new", "own"}
      PROVE  Nowhere(n, acc, more, q)
    <2>1. n # m /\ Nowhere(n, acc, buf, q)
        BY <1>1, <1>2, <1>7 DEF Once
    <2> QED
        BY <1>4, <2>1
<1> QED
    BY <1>2, <1>3, <1>5, <1>6, <1>7 DEF Once, there, more

\* A call takes what is held back.
LEMMA BufferTaken ==
    ASSUME NEW acc, NEW where, NEW q, NEW c \in Calls,
           Once(acc, c.events, q, where),
           c.who # 0 => /\ c.who \in DOMAIN where /\ where[c.who] = "blocked"
                        /\ \A i \in 1..Len(q) : q[i].who # c.who,
           c.then = "own" => c.who # 0 /\ Nowhere(c.who, acc, c.events, q)
    PROVE  Hand(acc, <<>>, q, where, c)
<1>1. Elements(<<>>) = {} /\ Single(<<>>)
    BY ElementsOfNone
<1>2. \A n : Nowhere(n, acc, c.events, q) =>
            Nowhere(n, acc, <<>>, q) /\ n \notin Elements(c.events)
    BY <1>1 DEF Nowhere
<1>3. \A i \in 1..Len(q) : /\ Pending(acc, c.events, q, where, i)
                           /\ Pending(acc, <<>>, q, where, i)
    <2> SUFFICES ASSUME NEW i \in 1..Len(q)
                 PROVE  /\ Pending(acc, c.events, q, where, i)
                        /\ Pending(acc, <<>>, q, where, i)
        OBVIOUS
    <2>1. Pending(acc, c.events, q, where, i)
        BY DEF Once
    <2>2. Separate(q[i].events, <<>>)
        BY <1>1 DEF Separate
    <2> QED
        BY <1>2, <2>1, <2>2 DEF Pending
<1>4. Once(acc, <<>>, q, where)
    BY <1>1, <1>2, <1>3 DEF Once, Separate
<1>5. \A e \in Elements(c.events) : Nowhere(e, acc, <<>>, q)
    BY <1>1, <1>3 DEF Once, Pending, Nowhere, Separate
<1>6. \A m \in DOMAIN where :
            where[m] \in {"new", "own"} => m \notin Elements(c.events)
    BY <1>2 DEF Once
<1>7. \A i \in 1..Len(q) :
            q[i].then = "own" => q[i].who \notin Elements(c.events)
    BY <1>2, <1>3 DEF Pending
<1> QED
    BY <1>2, <1>4, <1>5, <1>6, <1>7 DEF Hand, Once

\* CCRClient sends the message itself.
LEMMA OwnSent ==
    ASSUME NEW acc, NEW buf, NEW where, NEW q, NEW m \in DOMAIN where,
           m \in Nat \ {0}, Once(acc, buf, q, where), where[m] = "own"
    PROVE  Hand(acc, buf, q, [where EXCEPT ![m] = "blocked"],
                [who |-> m, events |-> <<m>>, then |-> "done"])
<1> DEFINE there == [where EXCEPT ![m] = "blocked"]
           c == [who |-> m, events |-> <<m>>, then |-> "done"]
<1>1. /\ DOMAIN there = DOMAIN where
      /\ \A n \in DOMAIN where :
            there[n] = IF n = m THEN "blocked" ELSE where[n]
    OBVIOUS
<1>2. /\ Once(acc, buf, q, there) /\ Nowhere(m, acc, buf, q)
      /\ \A i \in 1..Len(q) : q[i].who # m
    <2>1. where[m] # "blocked" /\ where[m] \in {"new", "own"} /\ m # 0
        OBVIOUS
    <2>2. Once(acc, buf, q, there)
        BY <2>1, Moved
    <2>3. \A i \in 1..Len(q) : q[i].who = m => m = 0
        BY <2>1 DEF Once, Pending
    <2>4. Nowhere(m, acc, buf, q)
        BY <2>1 DEF Once
    <2> QED
        BY <2>1, <2>2, <2>3, <2>4
<1>3. /\ c.who = m /\ c.then = "done"
      /\ Elements(c.events) = {m} /\ Single(c.events)
    BY ElementsOfOne
<1> HIDE DEF there, c
<1> QED
    BY <1>1, <1>2, <1>3 DEF Hand, there, c

-----------------------------------------------------------------------------
(* The messages of the transport *)

Placed == Once(accepted, buffer, woken \o blocked, at)

\* enqueue() with the call in hand.
LEMMA CallPlaced ==
    ASSUME IInv, accepted \in Events, woken' \in Seq(Calls),
           NEW c \in Calls, NEW where, 0 \notin DOMAIN where, Enqueue(c),
           Hand(accepted, buffer', woken' \o blocked, where, c),
           at' = IF Blocks(c) THEN where ELSE GoesTo(where, c)
    PROVE  Placed' /\ accepted' \in Events
<1> DEFINE rest == woken' \o blocked
<1>1. /\ blocked \in Seq(Calls) /\ rest \in Seq(Calls)
      /\ c.events \in Events
    BY ConcatProperties DEF IInv, Calls
<1>2. woken' \o Append(blocked, c) = Append(rest, c)
    <2>1. /\ <<c>> \in Seq(Calls) /\ Append(blocked, c) = blocked \o <<c>>
          /\ Append(rest, c) = rest \o <<c>>
        BY <1>1, AppendIsConcat
    <2> QED
        BY <1>1, <2>1, ConcatAssociative
<1>3. CASE Blocks(c)
    <2>1. blocked' = Append(blocked, c) /\ accepted' = accepted /\ at' = where
        BY <1>3 DEF Enqueue
    <2>2. Once(accepted, buffer', Append(rest, c), where)
        BY <1>1, HandWaits
    <2> QED
        BY <1>2, <2>1, <2>2 DEF Placed
<1>4. CASE ~Blocks(c) /\ (closed \/ c.events = <<>>)
    <2>1. blocked' = blocked /\ accepted' = accepted /\ at' = GoesTo(where, c)
        BY <1>4 DEF Enqueue
    <2>2. Once(accepted, buffer', rest, GoesTo(where, c))
        BY <1>1, HandLets
    <2> QED
        BY <2>1, <2>2 DEF Placed
<1>5. CASE ~Blocks(c) /\ ~(closed \/ c.events = <<>>)
    <2>1. /\ blocked' = blocked /\ accepted' = accepted \o c.events
          /\ at' = GoesTo(where, c)
        BY <1>5 DEF Enqueue, Push
    <2>2. Once(accepted \o c.events, buffer', rest, GoesTo(where, c))
        BY <1>1, HandAccepted
    <2>3. accepted' \in Events
        BY <1>1, <2>1, ConcatProperties DEF Events
    <2> QED
        BY <2>1, <2>2, <2>3 DEF Placed
<1> QED
    BY <1>3, <1>4, <1>5

\* A step that leaves the events and the calls where they are; the calls that
\* waited may be resolved.
LEMMA StayPlaced ==
    ASSUME Placed, IInv, accepted' = accepted, at' = at,
           buffer' = buffer \/ buffer' = <<>>,
           \/ UNCHANGED <<woken, blocked>>
           \/ woken' = woken \o blocked /\ blocked' = <<>>
    PROVE  Placed'
<1>1. woken' \o blocked' = woken \o blocked
    <2>1. woken \o blocked \in Seq(Calls)
        BY ConcatProperties DEF IInv
    <2>2. (woken \o blocked) \o <<>> = woken \o blocked
        BY <2>1, ConcatEmptySeq
    <2> QED
        BY <2>2
<1>2. CASE buffer' = buffer
    BY <1>1, <1>2 DEF Placed
<1>3. CASE buffer' = <<>>
    <2> DEFINE q == woken \o blocked
               c == [who |-> 0, events |-> buffer, then |-> "done"]
    <2>1. c \in Calls /\ c.events = buffer /\ c.who = 0 /\ c.then = "done"
        BY DEF IInv, Calls
    <2>2. Once(accepted, c.events, q, at)
        BY <2>1 DEF Placed
    <2> HIDE DEF c
    <2>3. Hand(accepted, <<>>, q, at, c)
        BY <2>1, <2>2, BufferTaken
    <2>4. Once(accepted, <<>>, q, at)
        BY <2>3 DEF Hand
    <2> QED
        BY <1>1, <1>3, <2>4 DEF Placed
<1> QED
    BY <1>2, <1>3

-----------------------------------------------------------------------------
(* The order of the events *)

\* w is what follows the first d elements of s.
Piece(w, s, d) ==
    /\ d + Len(w) <= Len(s)
    /\ \A i \in 1..Len(w) : w[i] = s[d + i]

\* Nothing that was accepted was given up or dropped.
NoneLost == setup.transport = "ccr" \/ settled = {}

\* The waiting events were accepted one after the other, the last ones too
\* while the uploader is open, and the server has all before them.
Lined ==
    \E d \in Nat :
        /\ Piece(Waiting, accepted, d)
        /\ ~closed => d + Len(Waiting) = Len(accepted)
        /\ NoneLost => d <= Len(log)

\* The server has the first events, and what may still arrive starts among
\* them or behind the last of them.
Ordered ==
    NoneLost =>
        /\ log \in Events /\ Piece(log, accepted, 0)
        /\ \A w \in wire : \E d \in 0..Len(log) : Piece(w, accepted, d)

LEMMA EventsTyped ==
    ASSUME NEW s \in Events
    PROVE  /\ Len(s) \in Nat
           /\ \A i \in 1..Len(s) : s[i] \in Nat
BY LenProperties, ElementOfSeq DEF Events

\* A piece in front, behind, or of more events.
LEMMA PieceParts ==
    ASSUME NEW v \in Events, NEW w \in Events, NEW s \in Events, NEW d \in Nat,
           Piece(v \o w, s, d)
    PROVE  Piece(v, s, d) /\ Piece(w, s, d + Len(v))
<1>1. /\ Len(v) \in Nat /\ Len(w) \in Nat /\ Len(s) \in Nat
      /\ Len(v \o w) = Len(v) + Len(w)
      /\ \A i \in 1..Len(v) : (v \o w)[i] = v[i]
      /\ \A i \in 1..Len(w) : (v \o w)[Len(v) + i] = w[i]
    <2>1. /\ Len(v) \in Nat /\ Len(w) \in Nat /\ Len(s) \in Nat
          /\ Len(v \o w) = Len(v) + Len(w)
          /\ \A i \in 1..Len(v \o w) :
                (v \o w)[i] = IF i <= Len(v) THEN v[i] ELSE w[i - Len(v)]
        BY EventsTyped, ConcatProperties DEF Events
    <2>2. \A i \in 1..Len(w) : /\ Len(v) + i \in 1..Len(v \o w)
                               /\ ~(Len(v) + i <= Len(v))
                               /\ (Len(v) + i) - Len(v) = i
        BY <2>1
    <2>3. \A i \in 1..Len(w) : (v \o w)[Len(v) + i] = w[i]
        BY <2>1, <2>2
    <2> QED
        BY <2>1, <2>3
<1>2. Piece(v, s, d)
    BY <1>1 DEF Piece
<1>3. Piece(w, s, d + Len(v))
    <2>1. (d + Len(v)) + Len(w) <= Len(s)
        BY <1>1 DEF Piece
    <2>2. \A i \in 1..Len(w) : w[i] = s[(d + Len(v)) + i]
        <3> SUFFICES ASSUME NEW i \in 1..Len(w)
                     PROVE  w[i] = s[(d + Len(v)) + i]
            OBVIOUS
        <3>1. /\ Len(v) + i \in 1..Len(v \o w)
              /\ d + (Len(v) + i) = (d + Len(v)) + i
            BY <1>1
        <3> QED
            BY <1>1, <3>1 DEF Piece
    <2> QED
        BY <2>1, <2>2 DEF Piece
<1> QED
    BY <1>2, <1>3

LEMMA PieceOfMore ==
    ASSUME NEW w \in Events, NEW s \in Events, NEW t \in Events, NEW d \in Nat,
           Piece(w, s, d)
    PROVE  /\ Piece(w, s \o t, d)
           /\ d + Len(w) = Len(s) => Piece(w \o t, s \o t, d)
<1>1. /\ Len(w) \in Nat /\ Len(s) \in Nat /\ Len(t) \in Nat
      /\ Len(s \o t) = Len(s) + Len(t) /\ Len(w \o t) = Len(w) + Len(t)
      /\ \A i \in 1..Len(s \o t) :
            (s \o t)[i] = IF i <= Len(s) THEN s[i] ELSE t[i - Len(s)]
      /\ \A i \in 1..Len(w \o t) :
            (w \o t)[i] = IF i <= Len(w) THEN w[i] ELSE t[i - Len(w)]
    BY EventsTyped, ConcatProperties DEF Events
<1>2. \A i \in 1..Len(w) : (s \o t)[d + i] = s[d + i]
    BY <1>1 DEF Piece
<1>3. Piece(w, s \o t, d)
    BY <1>1, <1>2 DEF Piece
<1>4. ASSUME d + Len(w) = Len(s) PROVE Piece(w \o t, s \o t, d)
    <2>1. d + Len(w \o t) <= Len(s \o t)
        BY <1>1, <1>4
    <2>2. \A i \in 1..Len(w \o t) : (w \o t)[i] = (s \o t)[d + i]
        <3> SUFFICES ASSUME NEW i \in 1..Len(w \o t)
                     PROVE  (w \o t)[i] = (s \o t)[d + i]
            OBVIOUS
        <3>1. CASE i <= Len(w)
            BY <1>1, <1>2, <3>1 DEF Piece
        <3>2. CASE ~(i <= Len(w))
            <4>1. /\ d + i \in 1..Len(s \o t) /\ ~(d + i <= Len(s))
                  /\ (d + i) - Len(s) = i - Len(w)
                BY <1>1, <1>4, <3>2
            <4> QED
                BY <1>1, <3>2, <4>1
        <3> QED
            BY <3>1, <3>2
    <2> QED
        BY <2>1, <2>2 DEF Piece
<1> QED
    BY <1>3, <1>4


\* The events of a batch w behind the first b.
LEMMA NewOnes ==
    ASSUME NEW w, NEW n \in Nat, NEW b \in Nat, NEW more \in Nat,
           n <= b + more, more # 0 => b + more = n
    PROVE  PickedFrom(w, (b + 1)..n) = [k \in 1..more |-> w[k + b]]
<1>1. PICK kept : kept = (b + 1)..n
    OBVIOUS
<1>2. Cardinality(kept) = more
    <2>1. b + 1 \in Int /\ n \in Int
        OBVIOUS
    <2>2. Cardinality((b + 1)..n) = IF b + 1 > n THEN 0 ELSE n - (b + 1) + 1
        BY <2>1, FS_Interval
    <2>3. CASE b + 1 > n
        <3>1. more = 0
            BY <2>3
        <3> QED
            BY <1>1, <2>2, <2>3, <3>1
    <2>4. CASE ~(b + 1 > n)
        <3>1. more = n - (b + 1) + 1
            BY <2>4
        <3> QED
            BY <1>1, <2>2, <2>4, <3>1
    <2> QED
        BY <2>3, <2>4
<1>3. \A i \in kept : Cardinality({j \in kept : j <= i}) = i - b
    <2> SUFFICES ASSUME NEW i \in kept
                 PROVE  Cardinality({j \in kept : j <= i}) = i - b
        OBVIOUS
    <2>1. i \in Int /\ b + 1 \in Int /\ b + 1 <= i /\ i <= n
        BY <1>1
    <2>2. {j \in kept : j <= i} = (b + 1)..i
        BY <1>1, <2>1
    <2>3. Cardinality((b + 1)..i) = IF b + 1 > i THEN 0 ELSE i - (b + 1) + 1
        BY <2>1, FS_Interval
    <2>4. ~(b + 1 > i) /\ i - (b + 1) + 1 = i - b
        BY <2>1
    <2> QED
        BY <2>2, <2>3, <2>4
<1>4. \A k \in 1..more :
        (CHOOSE i \in kept : Cardinality({j \in kept : j <= i}) = k) = k + b
    <2> SUFFICES ASSUME NEW k \in 1..more
                 PROVE  (CHOOSE i \in kept : Cardinality({j \in kept : j <= i}) = k)
                            = k + b
        OBVIOUS
    <2> DEFINE P(i) == Cardinality({j \in kept : j <= i}) = k
    <2>1. k + b \in kept
        BY <1>1
    <2>2. P(k + b)
        <3>1. (k + b) - b = k
            OBVIOUS
        <3> QED
            BY <1>3, <2>1, <3>1
    <2>3. \A i \in kept : P(i) => i = k + b
        <3> SUFFICES ASSUME NEW i \in kept, P(i) PROVE i = k + b
            OBVIOUS
        <3>1. i - b = k /\ i \in Int
            BY <1>1, <1>3
        <3> QED
            BY <3>1
    <2> HIDE DEF P
    <2>4. (CHOOSE i \in kept : P(i)) = k + b
        BY <2>1, <2>2, <2>3
    <2> QED
        BY <2>4 DEF P
<1> DEFINE Pick(k) == CHOOSE i \in kept : Cardinality({j \in kept : j <= i}) = k
<1>5. \A k \in 1..more : Pick(k) = k + b
    BY <1>4
<1> HIDE DEF Pick
<1>6. [k \in 1..Cardinality(kept) |-> w[Pick(k)]] = [k \in 1..more |-> w[k + b]]
    BY <1>2, <1>5
<1> QED
    BY <1>1, <1>6 DEF Pick, PickedFrom

\* A piece that starts among the events the server has, or behind the last of
\* them, brings it the ones that follow, and no gap.
LEMMA ArrivedInOrder ==
    ASSUME accepted \in Events, log \in Events, NEW w \in Events,
           Single(accepted), Piece(log, accepted, 0),
           NEW d \in 0..Len(log), Piece(w, accepted, d)
    PROVE  /\ Arrived(w) \in Events
           /\ Len(log) <= Len(Arrived(w)) /\ d + Len(w) <= Len(Arrived(w))
           /\ Piece(Arrived(w), accepted, 0)
<1>0. Len(log) \in Nat /\ Len(w) \in Nat /\ Len(accepted) \in Nat
    BY EventsTyped
<1>1. PICK L \in Nat, n \in Nat, b \in Nat, more \in Nat :
        /\ L = Len(log) /\ n = Len(w) /\ L = b + d
        /\ n <= b + more /\ (more # 0 => b + more = n)
    <2>1. Len(log) - d \in Nat /\ Len(log) = (Len(log) - d) + d
        BY <1>0
    <2>2. PICK b \in Nat : Len(log) = b + d
        BY <2>1
    <2>3. CASE Len(w) <= b
        <3>1. Len(w) <= b + 0
            BY <1>0, <2>2, <2>3
        <3> QED
            BY <1>0, <2>2, <3>1
    <2>4. CASE ~(Len(w) <= b)
        <3>1. Len(w) - b \in Nat /\ b + (Len(w) - b) = Len(w)
            BY <1>0, <2>2, <2>4
        <3>2. Len(w) <= b + (Len(w) - b)
            BY <1>0, <3>1
        <3> QED
            BY <1>0, <2>2, <3>1, <3>2
    <2> QED
        BY <2>3, <2>4
<1>2. DOMAIN w = 1..n /\ DOMAIN log = 1..L
    BY <1>1, LenProperties DEF Events
<1>3. L <= Len(accepted) /\ d + n <= Len(accepted)
    BY <1>0, <1>1 DEF Piece
<1>4. \A i \in 1..L : log[i] = accepted[i]
    <2> SUFFICES ASSUME NEW i \in 1..L PROVE log[i] = accepted[i]
        OBVIOUS
    <2>1. 0 + i = i
        OBVIOUS
    <2> QED
        BY <1>1, <2>1 DEF Piece
<1>5. \A i \in 1..n : w[i] = accepted[d + i] /\ w[i] \in Nat
    BY <1>1, EventsTyped DEF Piece
<1>6. \A i \in 1..n : w[i] \in Items(log) <=> i <= b
    <2> SUFFICES ASSUME NEW i \in 1..n
                 PROVE  w[i] \in Items(log) <=> i <= b
        OBVIOUS
    <2>1. CASE i <= b
        <3>1. d + i \in 1..L
            BY <1>1, <2>1
        <3>2. w[i] = log[d + i]
            BY <1>4, <1>5, <3>1
        <3> QED
            BY <1>2, <2>1, <3>1, <3>2 DEF Items
    <2>2. CASE ~(i <= b)
        <3>1. d + i \in 1..Len(accepted) /\ d + i > L
            BY <1>0, <1>1, <1>3, <2>2
        <3>2. \A j \in 1..L : log[j] # w[i]
            <4> SUFFICES ASSUME NEW j \in 1..L PROVE log[j] # w[i]
                OBVIOUS
            <4>1. j \in 1..Len(accepted) /\ j # d + i
                BY <1>0, <1>3, <3>1
            <4>2. accepted[j] # accepted[d + i]
                BY <3>1, <4>1 DEF Single
            <4> QED
                BY <1>4, <1>5, <4>2
        <3> QED
            BY <1>2, <2>2, <3>2 DEF Items
    <2> QED
        BY <2>1, <2>2
<1>7. Arrived(w) = log \o [k \in 1..more |-> w[k + b]]
    <2>1. {i \in DOMAIN w : w[i] \notin Items(log)} = (b + 1)..n
        BY <1>2, <1>6
    <2>2. PickedFrom(w, (b + 1)..n) = [k \in 1..more |-> w[k + b]]
        BY <1>1, NewOnes
    <2> QED
        BY <2>1, <2>2 DEF Arrived
<1>8. \A k \in 1..more : w[k + b] = accepted[L + k] /\ w[k + b] \in Nat
    <2> SUFFICES ASSUME NEW k \in 1..more
                 PROVE  w[k + b] = accepted[L + k] /\ w[k + b] \in Nat
        OBVIOUS
    <2>1. k + b \in 1..n /\ d + (k + b) = L + k
        BY <1>1
    <2> QED
        BY <1>5, <2>1
<1>9. PICK new : new = [k \in 1..more |-> w[k + b]] /\ Len(new) = more
    <2>1. Len([k \in 1..more |-> w[k + b]]) = more
        OBVIOUS
    <2> QED
        BY <2>1
<1>10. /\ new \in Events /\ Len(new) = more
       /\ \A k \in 1..more : new[k] = accepted[L + k]
    <2>1. new \in [1..more -> Nat]
        BY <1>8, <1>9
    <2>2. new \in Events
        BY <2>1, SeqDef DEF Events
    <2> QED
        BY <1>8, <1>9, <2>2
<1>11. /\ Arrived(w) \in Events /\ Len(Arrived(w)) = L + more
       /\ \A i \in 1..(L + more) :
            Arrived(w)[i] = IF i <= L THEN log[i] ELSE new[i - L]
    <2>1. Arrived(w) = log \o new
        BY <1>7, <1>9
    <2>2. /\ log \o new \in Events /\ Len(log \o new) = Len(log) + Len(new)
          /\ \A i \in 1..(Len(log) + Len(new)) : (log \o new)[i]
                = IF i <= Len(log) THEN log[i] ELSE new[i - Len(log)]
        BY <1>10, ConcatProperties DEF Events
    <2> QED
        BY <1>1, <1>10, <2>1, <2>2
<1>12. L <= L + more /\ d + n <= L + more /\ L + more <= Len(accepted)
    BY <1>0, <1>1, <1>3
<1>13. \A i \in 1..(L + more) : Arrived(w)[i] = accepted[0 + i]
    <2> SUFFICES ASSUME NEW i \in 1..(L + more)
                 PROVE  Arrived(w)[i] = accepted[0 + i]
        OBVIOUS
    <2>0. 0 + i = i /\ i \in Nat
        OBVIOUS
    <2>1. CASE i <= L
        BY <1>4, <1>11, <2>0, <2>1
    <2>2. CASE ~(i <= L)
        <3>1. i - L \in 1..more /\ L + (i - L) = i
            BY <2>0, <2>2
        <3>2. new[i - L] = accepted[i]
            BY <1>10, <3>1
        <3> QED
            BY <1>11, <2>0, <2>2, <3>2
    <2> QED
        BY <2>1, <2>2
<1>14. Piece(Arrived(w), accepted, 0)
    <2>1. 0 + Len(Arrived(w)) <= Len(accepted)
        BY <1>0, <1>11, <1>12
    <2> QED
        BY <1>11, <1>13, <2>1 DEF Piece
<1> QED
    BY <1>1, <1>11, <1>12, <1>14

-----------------------------------------------------------------------------
(* What a step does to the order *)

InOrder ==
    /\ accepted \in Events /\ wire \subseteq Events
    /\ Lined /\ Ordered

Rests ==
    Waiting' = Waiting /\ UNCHANGED <<accepted, closed, settled, log, wire>>

Grows ==
    /\ ~closed /\ UNCHANGED <<closed, settled, log, wire>>
    /\ \E e \in Events : accepted' = accepted \o e /\ Waiting' = Waiting \o e

MayArrive == wire' \in {wire, wire \union {batch}}

\* The batch is dropped or given up, which CCRClient does not do ...
Loses ==
    /\ Waiting' = pending /\ UNCHANGED <<accepted, closed, log>>
    /\ setup.transport # "ccr"
    /\ settled' = settled \union Items(batch) /\ MayArrive

\* ... or delivered, or sent again.
Delivers ==
    /\ Waiting' = pending /\ UNCHANGED <<accepted, closed, settled, wire>>
    /\ log' = Arrived(batch)

Retries ==
    /\ Waiting' = Waiting /\ UNCHANGED <<accepted, closed, settled, log>>
    /\ MayArrive

Comes ==
    /\ Waiting' = Waiting /\ UNCHANGED <<accepted, closed, settled>>
    /\ \E w \in wire : log' = Arrived(w) /\ wire' = wire \ {w}

Shuts ==
    /\ closed' = TRUE /\ Waiting' = batch /\ UNCHANGED <<accepted, log, wire>>
    /\ settled \subseteq settled'

OrderStep ==
    /\ setup' = setup
    /\ Rests \/ Grows \/ Loses \/ Delivers \/ Retries \/ Comes \/ Shuts

LEMMA NoneLostBefore ==
    ASSUME OrderStep, NoneLost'
    PROVE  NoneLost
<1>1. settled \subseteq settled' /\ setup' = setup
    BY DEF OrderStep, Rests, Grows, Loses, Delivers, Retries, Comes, Shuts
<1> QED
    BY <1>1 DEF NoneLost

\* The events of a batch, where the waiting ones are.
LEMMA BatchPiece ==
    ASSUME TypedQueue, accepted \in Events, NEW d \in Nat,
           Piece(Waiting, accepted, d)
    PROVE  /\ Piece(batch, accepted, d)
           /\ Piece(pending, accepted, d + Len(batch))
           /\ Len(batch) \in Nat /\ Len(pending) \in Nat
           /\ Len(Waiting) = Len(batch) + Len(pending)
<1>1. batch \in Events /\ pending \in Events
    BY DEF TypedQueue
<1>2. Len(Waiting) = Len(batch) + Len(pending)
    BY <1>1, ConcatProperties DEF Waiting, Events
<1> QED
    BY <1>1, <1>2, PieceParts, EventsTyped DEF Waiting

LEMMA KeepsLined ==
    ASSUME TypedQueue, InOrder, Single(accepted), OrderStep
    PROVE  Lined'
<1>0. accepted \in Events /\ Len(accepted) \in Nat
    BY EventsTyped DEF InOrder
<1>1. PICK d \in Nat :
        /\ Piece(Waiting, accepted, d)
        /\ ~closed => d + Len(Waiting) = Len(accepted)
        /\ NoneLost => d <= Len(log)
    BY DEF InOrder, Lined
<1>2. /\ Piece(batch, accepted, d)
      /\ Piece(pending, accepted, d + Len(batch))
      /\ Len(batch) \in Nat /\ Len(pending) \in Nat
      /\ Len(Waiting) = Len(batch) + Len(pending)
      /\ d + Len(batch) \in Nat
      /\ d + Len(Waiting) = (d + Len(batch)) + Len(pending)
    <2>1. /\ Piece(batch, accepted, d)
          /\ Piece(pending, accepted, d + Len(batch))
          /\ Len(batch) \in Nat /\ Len(pending) \in Nat
          /\ Len(Waiting) = Len(batch) + Len(pending)
        BY <1>0, <1>1, BatchPiece
    <2> QED
        BY <2>1
<1>3. NoneLost' => NoneLost
    BY NoneLostBefore
<1>4. CASE Rests \/ Retries
    <2>1. /\ Waiting' = Waiting /\ accepted' = accepted
          /\ closed' = closed /\ log' = log
        BY <1>4 DEF Rests, Retries
    <2> QED
        BY <1>1, <1>3, <2>1 DEF Lined
<1>5. CASE Comes
    <2>1. Waiting' = Waiting /\ accepted' = accepted /\ closed' = closed
        BY <1>5 DEF Comes
    <2>2. NoneLost' => d <= Len(log')
        <3> SUFFICES ASSUME NoneLost PROVE d <= Len(log')
            BY <1>3
        <3>1. PICK w \in wire : log' = Arrived(w)
            BY <1>5 DEF Comes
        <3>2. /\ w \in Events /\ log \in Events /\ Piece(log, accepted, 0)
              /\ \E c \in 0..Len(log) : Piece(w, accepted, c)
            BY DEF InOrder, Ordered
        <3>3. log' \in Events /\ Len(log) <= Len(log')
            BY <1>0, <3>1, <3>2, ArrivedInOrder
        <3>4. Len(log) \in Nat /\ Len(log') \in Nat
            BY <3>2, <3>3, EventsTyped
        <3> QED
            BY <1>1, <3>3, <3>4
    <2> QED
        BY <1>1, <2>1, <2>2 DEF Lined
<1>6. CASE Grows
    <2>1. PICK e \in Events : accepted' = accepted \o e /\ Waiting' = Waiting \o e
        BY <1>6 DEF Grows
    <2>2. ~closed /\ closed' = closed /\ log' = log
        BY <1>6 DEF Grows
    <2>3. Waiting \in Events
        BY WaitingTyped
    <2>4. Piece(Waiting', accepted', d)
        BY <1>0, <1>1, <2>1, <2>2, <2>3, PieceOfMore
    <2>5. d + Len(Waiting') = Len(accepted')
        <3>1. /\ Len(Waiting') = Len(Waiting) + Len(e)
              /\ Len(accepted') = Len(accepted) + Len(e)
            BY <1>0, <2>1, <2>3, ConcatProperties DEF Events
        <3>2. Len(Waiting) \in Nat /\ Len(e) \in Nat
            BY <2>3, EventsTyped
        <3> QED
            BY <1>0, <1>1, <2>2, <3>1, <3>2
    <2> QED
        BY <1>1, <1>3, <2>2, <2>4, <2>5 DEF Lined
<1>7. CASE Shuts
    <2>1. closed' = TRUE /\ Waiting' = batch /\ accepted' = accepted /\ log' = log
        BY <1>7 DEF Shuts
    <2> QED
        BY <1>1, <1>2, <1>3, <2>1 DEF Lined
<1>8. CASE Delivers
    <2> DEFINE c == d + Len(batch)
    <2>1. /\ Waiting' = pending /\ accepted' = accepted /\ closed' = closed
          /\ log' = Arrived(batch)
        BY <1>8 DEF Delivers
    <2>2. NoneLost' => c <= Len(log')
        <3> SUFFICES ASSUME NoneLost PROVE c <= Len(log')
            BY <1>3
        <3>1. log \in Events /\ Piece(log, accepted, 0) /\ batch \in Events
            BY DEF InOrder, Ordered, TypedQueue
        <3>2. d \in 0..Len(log)
            BY <1>1, <3>1, EventsTyped
        <3> QED
            BY <1>0, <1>2, <2>1, <3>1, <3>2, ArrivedInOrder
    <2>3. Piece(pending, accepted, c) /\ c \in Nat
        BY <1>2
    <2>4. ~closed => c + Len(pending) = Len(accepted)
        BY <1>1, <1>2
    <2> HIDE DEF c
    <2> QED
        BY <2>1, <2>2, <2>3, <2>4 DEF Lined
<1>9. CASE Loses
    <2>1. /\ Waiting' = pending /\ accepted' = accepted /\ closed' = closed
          /\ log' = log /\ settled' = settled \union Items(batch)
          /\ setup.transport # "ccr" /\ setup' = setup
        BY <1>9 DEF Loses, OrderStep
    <2>2. NoneLost' => Len(batch) = 0
        <3> SUFFICES ASSUME NoneLost', Len(batch) # 0 PROVE FALSE
            OBVIOUS
        <3>1. settled' = {}
            BY <2>1 DEF NoneLost
        <3>2. 1 \in 1..Len(batch) /\ DOMAIN batch = 1..Len(batch)
            BY <1>2, LenProperties DEF TypedQueue, Events
        <3>3. batch[1] \in Items(batch)
            BY <3>2 DEF Items
        <3> QED
            BY <2>1, <3>1, <3>3
    <2>3. NoneLost' => d + Len(batch) <= Len(log')
        BY <1>1, <1>2, <1>3, <2>1, <2>2
    <2> QED
        BY <1>1, <1>2, <2>1, <2>3 DEF Lined
<1> QED
    BY <1>4, <1>5, <1>6, <1>7, <1>8, <1>9 DEF OrderStep

LEMMA KeepsOrdered ==
    ASSUME TypedQueue, InOrder, Single(accepted), OrderStep
    PROVE  Ordered'
<1> SUFFICES ASSUME NoneLost'
             PROVE  /\ log' \in Events /\ Piece(log', accepted', 0)
                    /\ \A w \in wire' : \E d \in 0..Len(log') :
                            Piece(w, accepted', d)
    BY DEF Ordered
<1>0. NoneLost
    BY NoneLostBefore
<1>1. /\ accepted \in Events /\ wire \subseteq Events /\ log \in Events
      /\ Piece(log, accepted, 0) /\ Len(log) \in Nat
      /\ \A w \in wire : \E d \in 0..Len(log) : Piece(w, accepted, d)
    BY <1>0, EventsTyped DEF InOrder, Ordered
<1>2. PICK d \in Nat : Piece(Waiting, accepted, d) /\ d <= Len(log)
    BY <1>0 DEF InOrder, Lined
<1>3. d \in 0..Len(log) /\ batch \in Events /\ Piece(batch, accepted, d)
    BY <1>1, <1>2, BatchPiece DEF TypedQueue
\* The server's events grow, and nothing new is on its way.
<1>4. ASSUME NEW w \in Events, NEW c \in 0..Len(log), Piece(w, accepted, c),
             accepted' = accepted, log' = Arrived(w), wire' \subseteq wire
      PROVE  /\ log' \in Events /\ Piece(log', accepted', 0)
             /\ \A v \in wire' : \E b \in 0..Len(log') : Piece(v, accepted', b)
    <2>1. /\ log' \in Events /\ Len(log) <= Len(log')
          /\ Piece(log', accepted', 0)
        BY <1>1, <1>4, ArrivedInOrder
    <2>2. Len(log') \in Nat
        BY <2>1, EventsTyped
    <2>3. \A b \in 0..Len(log) : b \in 0..Len(log')
        BY <1>1, <2>1, <2>2
    <2> QED
        BY <1>1, <1>4, <2>1, <2>3
<1>5. CASE Rests \/ Shuts
    BY <1>1, <1>5 DEF Rests, Shuts
<1>6. CASE Loses \/ Retries
    BY <1>1, <1>3, <1>6 DEF Loses, Retries, MayArrive
<1>7. CASE Delivers
    BY <1>3, <1>4, <1>7 DEF Delivers
<1>8. CASE Comes
    <2>1. PICK w \in wire : log' = Arrived(w) /\ wire' = wire \ {w}
        BY <1>8 DEF Comes
    <2>2. /\ w \in Events /\ wire' \subseteq wire /\ accepted' = accepted
          /\ \E c \in 0..Len(log) : Piece(w, accepted, c)
        BY <1>1, <1>8, <2>1 DEF Comes
    <2> QED
        BY <1>4, <2>1, <2>2
<1>9. CASE Grows
    <2>1. PICK e \in Events : accepted' = accepted \o e
        BY <1>9 DEF Grows
    <2>2. log' = log /\ wire' = wire
        BY <1>9 DEF Grows
    <2>3. ASSUME NEW w \in Events, NEW c \in Nat, Piece(w, accepted, c)
          PROVE  Piece(w, accepted', c)
        BY <1>1, <2>1, <2>3, PieceOfMore
    <2>4. Piece(log', accepted', 0)
        BY <1>1, <2>2, <2>3
    <2>5. ASSUME NEW w \in wire
          PROVE  \E c \in 0..Len(log) : Piece(w, accepted', c)
        <3>1. PICK c \in 0..Len(log) : Piece(w, accepted, c)
            BY <1>1
        <3>2. c \in Nat /\ w \in Events
            BY <1>1
        <3> QED
            BY <2>3, <3>1, <3>2
    <2> QED
        BY <1>1, <2>2, <2>4, <2>5
<1> QED
    BY <1>5, <1>6, <1>7, <1>8, <1>9 DEF OrderStep

LEMMA KeepsOrder ==
    ASSUME TypedQueue, InOrder, Single(accepted), OrderStep
    PROVE  InOrder'
<1>1. batch \in Events /\ accepted \in Events /\ wire \subseteq Events
    BY DEF TypedQueue, InOrder
<1>2. accepted' \in Events
    <2>1. \A e \in Events : accepted \o e \in Events
        BY <1>1, ConcatProperties DEF Events
    <2> QED
        BY <1>1, <2>1
        DEF OrderStep, Rests, Grows, Loses, Delivers, Retries, Comes, Shuts
<1>3. wire' \subseteq Events
    BY <1>1 DEF OrderStep, Rests, Grows, Loses, Delivers, Retries, Comes,
                Shuts, MayArrive
<1> QED
    BY <1>2, <1>3, KeepsLined, KeepsOrdered DEF InOrder

LEMMA EnqueueOrder ==
    ASSUME IInv, NEW call \in Calls, Enqueue(call)
    PROVE  OrderStep
<1>0. UNCHANGED <<setup, closed, settled, log, wire>> /\ call.events \in Events
    BY DEF Enqueue, Calls
<1>1. CASE closed \/ call.events = <<>> \/ Blocks(call)
    BY <1>0, <1>1 DEF Enqueue, OrderStep, Rests, Waiting
<1>2. CASE ~(closed \/ call.events = <<>> \/ Blocks(call))
    <2>1. Push(call.events) /\ ~closed
        BY <1>2 DEF Enqueue
    <2>2. Waiting' = Waiting \o call.events
        BY <1>0, <2>1, PushKeeps DEF IInv
    <2>3. accepted' = accepted \o call.events
        BY <2>1 DEF Push
    <2> QED
        BY <1>0, <2>1, <2>2, <2>3 DEF OrderStep, Grows
<1> QED
    BY <1>1, <1>2

\* Every step is one of these.
LEMMA NextOrder ==
    ASSUME IInv, [Next]_vars
    PROVE  OrderStep
<1>0. /\ setup \in Workload /\ TypedQueue
      /\ \A m \in Messages : m \in Nat /\ <<m>> \in Events
      /\ buffer \in Events /\ \A m \in Messages : Append(buffer, m) \in Events
    <2>1. \A m \in Messages : m \in Nat
        BY LenProperties DEF IInv, Messages, Workload
    <2> QED
        BY <2>1 DEF IInv, Events
<1>1. ASSUME UNCHANGED <<setup, pending, batch, accepted, closed, settled, log,
                         wire>>
      PROVE  OrderStep
    BY <1>1 DEF OrderStep, Rests, Waiting
<1>2. ASSUME LoopOn, UNCHANGED <<setup, closed, accepted>>
      PROVE  Waiting' = pending
    BY <1>0, <1>2, LoopOnKeeps
<1>3. CASE UNCHANGED vars
    BY <1>1, <1>3 DEF vars, uploaderVars
<1>4. CASE Write
    <2>1. PICK m \in Messages :
            \/ WriteStream(m) \/ HybridWrite(m) \/ CCRWrite(m)
            \/ HybridFlush(m) \/ CCRFlush(m)
        BY <1>4 DEF Write
    <2>2. CASE WriteStream(m)
        BY <1>1, <2>2 DEF WriteStream, uploaderVars
    <2>3. ASSUME ~WriteStream(m)
          PROVE  \E call \in Calls : Enqueue(call)
        <3>1. CASE HybridWrite(m)
            <4>1. [who |-> m, events |-> Append(buffer, m), then |-> "flush"] \in Calls
                BY <1>0 DEF Calls
            <4> QED
                BY <3>1, <4>1 DEF HybridWrite, Await
        <3>2. CASE CCRWrite(m)
            <4>1. [who |-> m, events |-> buffer, then |-> "own"] \in Calls
                BY <1>0 DEF Calls
            <4> QED
                BY <3>2, <4>1 DEF CCRWrite, Await
        <3>3. CASE HybridFlush(m)
            <4>1. [who |-> 0, events |-> buffer, then |-> "done"] \in Calls
                BY <1>0 DEF Calls
            <4> QED
                BY <3>3, <4>1 DEF HybridFlush
        <3>4. CASE CCRFlush(m)
            <4>1. [who |-> m, events |-> buffer, then |-> "flush"] \in Calls
                BY <1>0 DEF Calls
            <4> QED
                BY <3>4, <4>1 DEF CCRFlush, Await
        <3> QED
            BY <2>1, <2>3, <3>1, <3>2, <3>3, <3>4
    <2> QED
        BY <2>2, <2>3, EnqueueOrder
<1>5. CASE GoesOn
    <2>1. PICK m \in Messages : CCRWriteOwn(m) \/ FlushUploader(m)
        BY <1>5 DEF GoesOn
    <2>2. CASE CCRWriteOwn(m)
        <3>1. [who |-> m, events |-> <<m>>, then |-> "done"] \in Calls
            BY <1>0 DEF Calls
        <3> QED
            BY <2>2, <3>1, EnqueueOrder DEF CCRWriteOwn, Await
    <2>3. CASE FlushUploader(m)
        BY <1>1, <2>3 DEF FlushUploader
    <2> QED
        BY <2>1, <2>2, <2>3
<1>6. CASE Resume
    <2>1. Head(woken) \in Calls
        BY <1>6, HeadTailProperties DEF Resume, IInv
    <2> QED
        BY <1>6, <2>1, EnqueueOrder DEF Resume, Await
<1>7. CASE StreamTimer
    <2>1. [who |-> 0, events |-> buffer, then |-> "done"] \in Calls
        BY <1>0 DEF Calls
    <2> QED
        BY <1>7, <2>1, EnqueueOrder DEF StreamTimer, Await
<1>8. CASE PostSucceeds
    BY <1>2, <1>8 DEF PostSucceeds, Done, OrderStep, Delivers
<1>9. CASE PostRefused
    BY <1>2, <1>9 DEF PostRefused, Done, OrderStep, Loses, MayArrive
<1>10. CASE PostFails
    <2>1. CASE GiveUp
        <3>1. setup.transport # "ccr"
            BY <1>0, <2>1 DEF GiveUp, Workload
        <3> QED
            BY <1>2, <1>10, <2>1, <3>1
            DEF PostFails, Failed, GiveUp, OrderStep, Loses, MayArrive
    <2>2. CASE Requeue
        <3>1. Waiting' = Waiting
            BY <1>0, <2>2, ConcatProperties, ConcatEmptySeq
            DEF Requeue, TypedQueue, Waiting, Events
        <3> QED
            BY <1>10, <2>2, <3>1
            DEF PostFails, Failed, Requeue, OrderStep, Retries, MayArrive
    <2> QED
        BY <1>10, <2>1, <2>2 DEF PostFails, Failed
<1>11. CASE Superseded
    <2>1. Waiting' = batch
        BY <1>0, <1>11, ConcatEmptySeq
        DEF Superseded, TypedQueue, Waiting, Events
    <2> QED
        BY <1>11, <2>1 DEF Superseded, OrderStep, Shuts
<1>12. CASE SleepEnds
    <2>1. Waiting' = pending
        BY <1>2, <1>12 DEF SleepEnds, BackoffOver
    <2>2. pending = Waiting
        BY <1>0, <1>12, ConcatEmptySeq
        DEF SleepEnds, BackoffOver, TypedQueue, Waiting, Events
    <2> QED
        BY <1>12, <2>1, <2>2 DEF SleepEnds, BackoffOver, OrderStep, Rests
<1>13. CASE LateArrival
    BY <1>13 DEF LateArrival, OrderStep, Comes, Waiting
<1>14. ASSUME Close, batch' = batch PROVE OrderStep
    <2>1. Waiting' = batch
        BY <1>0, <1>14, ConcatEmptySeq DEF Close, TypedQueue, Waiting, Events
    <2> QED
        BY <1>14, <2>1 DEF Close, OrderStep, Shuts
<1>15. CASE CloseCCR \/ CloseHybrid
    BY <1>14, <1>15 DEF CloseCCR, CloseHybrid
<1>16. CASE ShutHybrid
    BY <1>1, <1>16 DEF ShutHybrid, uploaderVars
<1> QED
    BY <1>3, <1>4, <1>5, <1>6, <1>7, <1>8, <1>9, <1>10, <1>11, <1>12, <1>13,
       <1>15, <1>16
    DEF Next, Answer

-----------------------------------------------------------------------------
(* What a step does to the places *)

Located ==
    /\ at \in [Messages -> Places] /\ accepted \in Events
    /\ Placed

\* A call of message m, made when it takes what is held back.
LEMMA TakesHeld ==
    ASSUME IInv, NEW m \in Messages, DOMAIN at = Messages, NEW buf \in Events,
           Once(accepted, buf, woken \o blocked, [at EXCEPT ![m] = "blocked"]),
           \A i \in 1..Len(woken \o blocked) : (woken \o blocked)[i].who # m,
           NEW then \in {"own", "flush", "done"},
           then = "own" => Nowhere(m, accepted, buf, woken \o blocked)
    PROVE  Hand(accepted, <<>>, woken \o blocked, [at EXCEPT ![m] = "blocked"],
                [who |-> m, events |-> buf, then |-> then])
<1> DEFINE c == [who |-> m, events |-> buf, then |-> then]
           q == woken \o blocked
           where == [at EXCEPT ![m] = "blocked"]
<1>1. m \in Nat \ {0}
    BY LenProperties DEF IInv, Messages, Workload
<1>2. c \in Calls /\ c.who = m /\ c.events = buf /\ c.then = then
    BY <1>1 DEF Calls
<1>3. m \in DOMAIN where /\ where[m] = "blocked"
    OBVIOUS
<1> HIDE DEF c, q, where
<1>4. Once(accepted, c.events, q, where)
    BY <1>2 DEF q, where
<1>5. /\ c.who # 0 => /\ c.who \in DOMAIN where /\ where[c.who] = "blocked"
                      /\ \A i \in 1..Len(q) : q[i].who # c.who
      /\ c.then = "own" => c.who # 0 /\ Nowhere(c.who, accepted, c.events, q)
    BY <1>1, <1>2, <1>3 DEF q
<1> QED
    BY <1>2, <1>4, <1>5, BufferTaken DEF c, q, where

LEMMA NextPlaced ==
    ASSUME IInv, Located, [Next]_vars
    PROVE  Placed'
<1> DEFINE q == woken \o blocked
<1>0. /\ setup \in Workload /\ buffer \in Events
      /\ \A m \in Messages : m \in Nat \ {0}
      /\ 0 \notin Messages
      /\ \A m \in Messages : <<m>> \in Events /\ Append(buffer, m) \in Events
      /\ woken \in Seq(Calls) /\ blocked \in Seq(Calls) /\ q \in Seq(Calls)
      /\ at \in [Messages -> Places] /\ DOMAIN at = Messages
      /\ accepted \in Events
    <2>1. \A m \in Messages : m \in Nat \ {0}
        BY LenProperties DEF IInv, Messages, Workload
    <2> QED
        BY <2>1, ConcatProperties DEF IInv, Events, Located
<1>1. Once(accepted, buffer, q, at)
    BY DEF Placed, Located
<1> HIDE DEF q
\* A message that calls was in no call.
<1>2. ASSUME NEW m \in Messages, at[m] \in {"new", "own"}
      PROVE  /\ \A i \in 1..Len(q) : q[i].who # m
             /\ Nowhere(m, accepted, buffer, q)
             /\ Once(accepted, buffer, q, [at EXCEPT ![m] = "blocked"])
    <2>1. \A i \in 1..Len(q) : q[i].who # m
        BY <1>0, <1>1, <1>2 DEF Once, Pending
    <2>2. Nowhere(m, accepted, buffer, q)
        BY <1>0, <1>1, <1>2 DEF Once
    <2>3. at[m] # "blocked" /\ "blocked" \notin {"new", "own"}
        BY <1>2
    <2>4. Once(accepted, buffer, q, [at EXCEPT ![m] = "blocked"])
        BY <1>0, <1>1, <2>3, Moved
    <2> QED
        BY <2>1, <2>2, <2>4
\* The call is made for message m.
<1>3. ASSUME NEW m \in Messages, NEW c \in Calls, c.who = m, Await(c),
             Hand(accepted, buffer', q, [at EXCEPT ![m] = "blocked"], c),
             woken' = woken
      PROVE  Placed'
    <2> DEFINE where == [at EXCEPT ![m] = "blocked"]
    <2>1. Enqueue(c)
        BY <1>3 DEF Await
    <2>2. at' = IF Blocks(c) THEN where ELSE GoesTo(where, c)
        <3>1. CASE Blocks(c)
            BY <1>0, <1>3, <3>1 DEF Await
        <3>2. CASE ~Blocks(c)
            BY <1>0, <1>3, <3>2 DEF Await, GoesTo
        <3> QED
            BY <3>1, <3>2
    <2>3. 0 \notin DOMAIN where
        BY <1>0
    <2>4. Hand(accepted, buffer', woken' \o blocked, where, c)
        BY <1>3 DEF q
    <2> HIDE DEF where
    <2> QED
        BY <1>0, <1>3, <2>1, <2>2, <2>3, <2>4, CallPlaced
\* The call is made for nobody, of what is held back.
<1>4. ASSUME NEW where \in [Messages -> Places],
             Once(accepted, buffer, q, where), buffer' = <<>>, woken' = woken,
             at' = where, Enqueue([who |-> 0, events |-> buffer, then |-> "done"])
      PROVE  Placed'
    <2> DEFINE c == [who |-> 0, events |-> buffer, then |-> "done"]
    <2>1. c \in Calls /\ c.who = 0 /\ c.events = buffer /\ c.then = "done"
        BY <1>0 DEF Calls
    <2>2. Enqueue(c) /\ 0 \notin DOMAIN where
        BY <1>0, <1>4
    <2> HIDE DEF c
    <2>3. Hand(accepted, <<>>, q, where, c)
        <3>1. Once(accepted, c.events, q, where)
            BY <1>4, <2>1
        <3>2. c.who = 0 /\ c.then # "own"
            BY <2>1
        <3> QED
            BY <2>1, <3>1, <3>2, BufferTaken
    <2>4. Hand(accepted, buffer', woken' \o blocked, where, c)
        BY <1>4, <2>3 DEF q
    <2>5. at' = IF Blocks(c) THEN where ELSE GoesTo(where, c)
        <3>1. 0 \notin DOMAIN where
            BY <1>0, <1>4
        <3>2. Hand(accepted, <<>>, q, where, c)
            BY <2>3
        <3>3. \A m \in DOMAIN where : m # c.who
            BY <2>1, <3>1
        <3>4. GoesTo(where, c) = [m \in DOMAIN where |-> where[m]]
            BY <3>3 DEF GoesTo
        <3>5. where = [m \in DOMAIN where |-> where[m]]
            OBVIOUS
        <3> QED
            BY <1>4, <3>4, <3>5
    <2> QED
        BY <1>0, <1>4, <2>1, <2>2, <2>4, <2>5, CallPlaced
\* The events and the calls stay where they are.
<1>5. ASSUME accepted' = accepted, at' = at,
             buffer' = buffer \/ buffer' = <<>>,
             \/ UNCHANGED <<woken, blocked>>
             \/ woken' = woken \o blocked /\ blocked' = <<>>
      PROVE  Placed'
    BY <1>5, StayPlaced DEF Located
<1>6. CASE UNCHANGED vars
    BY <1>5, <1>6 DEF vars, uploaderVars, writerVars
<1>7. ASSUME NEW m \in Messages, WriteStream(m) PROVE Placed'
    <2>1. /\ at[m] = "new" /\ at' = [at EXCEPT ![m] = "done"]
          /\ buffer' = Append(buffer, m)
          /\ UNCHANGED <<accepted, woken, blocked>>
        BY <1>7 DEF WriteStream, Begins, uploaderVars
    <2>2. "done" \notin {"new", "own"}
        OBVIOUS
    <2>3. Once(accepted, Append(buffer, m), q, [at EXCEPT ![m] = "done"])
        BY <1>0, <1>1, <2>1, <2>2, HeldBack
    <2> QED
        BY <2>1, <2>3 DEF Placed, q
<1>8. ASSUME NEW m \in Messages, HybridWrite(m) PROVE Placed'
    <2> DEFINE c == [who |-> m, events |-> Append(buffer, m), then |-> "flush"]
    <2>1. /\ at[m] = "new" /\ Await(c)
          /\ buffer' = <<>> /\ woken' = woken
        BY <1>8 DEF HybridWrite, Begins, TakeBuffer
    <2>2. "blocked" \notin {"new", "own"} /\ at[m] \in {"new", "own"}
        BY <2>1
    <2>3. Once(accepted, Append(buffer, m), q, [at EXCEPT ![m] = "blocked"])
        BY <1>0, <1>1, <2>1, <2>2, HeldBack
    <2>4. Hand(accepted, <<>>, q, [at EXCEPT ![m] = "blocked"], c)
        BY <1>0, <1>2, <2>2, <2>3, TakesHeld DEF q
    <2>5. c \in Calls /\ c.who = m
        BY <1>0 DEF Calls
    <2> QED
        BY <1>3, <2>1, <2>4, <2>5
<1>9. ASSUME NEW m \in Messages, CCRWrite(m) PROVE Placed'
    <2> DEFINE c == [who |-> m, events |-> buffer, then |-> "own"]
    <2>1. /\ at[m] \in {"new", "own"} /\ Await(c)
          /\ buffer' = <<>> /\ woken' = woken
        BY <1>9 DEF CCRWrite, Begins, TakeBuffer
    <2>2. Hand(accepted, <<>>, q, [at EXCEPT ![m] = "blocked"], c)
        BY <1>0, <1>2, <2>1, TakesHeld DEF q
    <2>3. c \in Calls /\ c.who = m
        BY <1>0 DEF Calls
    <2> QED
        BY <1>3, <2>1, <2>2, <2>3
<1>10. ASSUME NEW m \in Messages, CCRFlush(m) PROVE Placed'
    <2> DEFINE c == [who |-> m, events |-> buffer, then |-> "flush"]
    <2>1. /\ at[m] \in {"new", "own"} /\ Await(c)
          /\ buffer' = <<>> /\ woken' = woken
        BY <1>10 DEF CCRFlush, Begins, TakeBuffer
    <2>2. Hand(accepted, <<>>, q, [at EXCEPT ![m] = "blocked"], c)
        BY <1>0, <1>2, <2>1, TakesHeld DEF q
    <2>3. c \in Calls /\ c.who = m
        BY <1>0 DEF Calls
    <2> QED
        BY <1>3, <2>1, <2>2, <2>3
<1>11. ASSUME NEW m \in Messages, CCRWriteOwn(m) PROVE Placed'
    <2> DEFINE c == [who |-> m, events |-> <<m>>, then |-> "done"]
    <2>1. /\ at[m] = "own" /\ Await(c)
          /\ buffer' = buffer /\ woken' = woken
        BY <1>11 DEF CCRWriteOwn
    <2>2. Hand(accepted, buffer, q, [at EXCEPT ![m] = "blocked"], c)
        BY <1>0, <1>1, <2>1, OwnSent
    <2>3. c \in Calls /\ c.who = m
        BY <1>0 DEF Calls
    <2> QED
        BY <1>3, <2>1, <2>2, <2>3
<1>12. ASSUME NEW m \in Messages, HybridFlush(m) PROVE Placed'
    <2> DEFINE where == [at EXCEPT ![m] = "done"]
    <2>1. /\ at[m] = "new" /\ at' = where /\ buffer' = <<>> /\ woken' = woken
          /\ Enqueue([who |-> 0, events |-> buffer, then |-> "done"])
        BY <1>12 DEF HybridFlush, Begins, TakeBuffer
    <2>2. at[m] # "blocked" /\ "done" \notin {"new", "own"}
        BY <2>1
    <2>3. Once(accepted, buffer, q, where)
        BY <1>0, <1>1, <2>2, Moved
    <2>4. where \in [Messages -> Places]
        BY <1>0 DEF Places
    <2> HIDE DEF where
    <2> QED
        BY <1>4, <2>1, <2>3, <2>4
<1>13. ASSUME NEW m \in Messages, FlushUploader(m) PROVE Placed'
    <2>1. /\ at[m] = "flush" /\ at' = [at EXCEPT ![m] = "done"]
          /\ UNCHANGED <<accepted, buffer, woken, blocked>>
        BY <1>13 DEF FlushUploader
    <2>2. at[m] # "blocked" /\ "done" \notin {"new", "own"}
        BY <2>1
    <2>3. Once(accepted, buffer, q, [at EXCEPT ![m] = "done"])
        BY <1>0, <1>1, <2>2, Moved
    <2> QED
        BY <2>1, <2>3 DEF Placed, q
<1>14. CASE Resume
    <2> DEFINE c == Head(woken)
    <2>1. /\ woken # <<>> /\ woken' = Tail(woken) /\ Await(c)
          /\ buffer' = buffer
        BY <1>14 DEF Resume
    <2>2. c \in Calls /\ woken' \in Seq(Calls)
        BY <1>0, <2>1, HeadTailProperties
    <2>3. q # <<>> /\ Head(q) = c /\ Tail(q) = woken' \o blocked
        BY <1>0, <2>1, HeadTailOfConcat DEF q
    <2> HIDE DEF c
    <2>4. Hand(accepted, buffer, woken' \o blocked, at, c)
        <3>1. Hand(accepted, buffer, Tail(q), at, Head(q))
            BY <1>0, <1>1, <2>3, HandTaken
        <3> QED
            BY <2>3, <3>1
    <2>5. at' = IF Blocks(c) THEN at ELSE GoesTo(at, c)
        <3>1. at = [n \in Messages |-> at[n]]
            BY <1>0
        <3>2. c.who \in Messages => at[c.who] = "blocked"
            BY <1>0, <2>4 DEF Hand
        <3>3. CASE Blocks(c)
            <4>1. at' = [n \in Messages |-> at[n]]
                BY <2>1, <3>2, <3>3 DEF Await
            <4> QED
                BY <3>1, <3>3, <4>1
        <3>4. CASE ~Blocks(c)
            BY <1>0, <2>1, <3>4 DEF Await, GoesTo
        <3> QED
            BY <3>3, <3>4
    <2>6. Enqueue(c) /\ 0 \notin DOMAIN at
        BY <1>0, <2>1 DEF Await
    <2> QED
        BY <1>0, <2>1, <2>2, <2>4, <2>5, <2>6, CallPlaced
<1>15. CASE StreamTimer
    <2> DEFINE c == [who |-> 0, events |-> buffer, then |-> "done"]
    <2>1. buffer' = <<>> /\ woken' = woken /\ Await(c)
        BY <1>15 DEF StreamTimer, TakeBuffer
    <2>2. at' = at
        <3>1. at' = [n \in Messages |-> at[n]]
            BY <1>0, <2>1 DEF Await
        <3> QED
            BY <1>0, <3>1
    <2> QED
        BY <1>0, <1>1, <1>4, <2>1, <2>2 DEF Await
<1>16. CASE PostSucceeds \/ PostRefused
    BY <1>5, <1>16 DEF PostSucceeds, PostRefused, Done, Release, writerVars
<1>17. CASE PostFails
    BY <1>5, <1>17
    DEF PostFails, Failed, GiveUp, Requeue, Release, writerVars
<1>18. CASE Superseded
    BY <1>5, <1>18 DEF Superseded, TakeBuffer
<1>19. CASE SleepEnds \/ LateArrival
    BY <1>5, <1>19 DEF SleepEnds, BackoffOver, LateArrival, writerVars
<1>20. CASE CloseCCR \/ CloseHybrid
    BY <1>5, <1>20 DEF CloseCCR, CloseHybrid, Close, TakeBuffer, writerVars
<1>21. CASE ShutHybrid
    BY <1>5, <1>21 DEF ShutHybrid, TakeBuffer, uploaderVars
<1> QED
    BY <1>6, <1>7, <1>8, <1>9, <1>10, <1>11, <1>12, <1>13, <1>14, <1>15, <1>16,
       <1>17, <1>18, <1>19, <1>20, <1>21
    DEF Next, Write, GoesOn, Answer

LEMMA NextAt ==
    ASSUME IInv, Located, [Next]_vars
    PROVE  at' \in [Messages -> Places]
<1>0. /\ at \in [Messages -> Places]
      /\ \A i \in 1..Len(woken) : woken[i] \in Calls
    BY DEF Located, IInv
<1>1. ASSUME NEW call, call.then \in {"own", "flush", "done"}, Await(call)
      PROVE  at' \in [Messages -> Places]
    BY <1>0, <1>1 DEF Await, Places
<1>2. ASSUME NEW m \in Messages, NEW p \in Places, at' = [at EXCEPT ![m] = p]
      PROVE  at' \in [Messages -> Places]
    BY <1>0, <1>2
<1>3. "done" \in Places
    BY DEF Places
<1>4. ASSUME NEW m \in Messages, WriteStream(m) \/ HybridFlush(m) \/ FlushUploader(m)
      PROVE  at' \in [Messages -> Places]
    BY <1>2, <1>3, <1>4 DEF WriteStream, HybridFlush, FlushUploader
<1>5. ASSUME NEW m \in Messages, HybridWrite(m) \/ CCRWrite(m) \/ CCRFlush(m)
      PROVE  at' \in [Messages -> Places]
    BY <1>1, <1>5 DEF HybridWrite, CCRWrite, CCRFlush
<1>6. ASSUME NEW m \in Messages, CCRWriteOwn(m)
      PROVE  at' \in [Messages -> Places]
    BY <1>1, <1>6 DEF CCRWriteOwn
<1>7. CASE Resume
    <2>1. Head(woken) \in Calls
        BY <1>7, HeadTailProperties DEF Resume, IInv
    <2> QED
        BY <1>1, <1>7, <2>1 DEF Resume, Calls
<1>8. CASE StreamTimer
    BY <1>1, <1>8 DEF StreamTimer
<1>9. CASE at' = at
    BY <1>0, <1>9
<1> QED
    BY <1>4, <1>5, <1>6, <1>7, <1>8, <1>9
    DEF Next, Write, GoesOn, Answer, vars, writerVars, PostSucceeds, PostRefused,
        PostFails, Superseded, SleepEnds, LateArrival, CloseCCR, ShutHybrid,
        CloseHybrid

-----------------------------------------------------------------------------
(* The server gets the events in order *)

OInv == IInv /\ Located /\ InOrder

LEMMA InitOInv == Init => OInv
<1> SUFFICES ASSUME Init PROVE OInv
    OBVIOUS
<1>1. IInv
    BY InitIInv
<1>2. /\ pending = <<>> /\ batch = <<>> /\ blocked = <<>> /\ woken = <<>>
      /\ accepted = <<>> /\ log = <<>> /\ wire = {} /\ buffer = <<>>
      /\ at = [m \in Messages |-> "new"]
    BY DEF Init, UploaderInit
<1>3. /\ <<>> \in Events /\ Len(<<>>) = 0 /\ Elements(<<>>) = {}
      /\ Single(<<>>) /\ <<>> \o <<>> = <<>>
    BY EmptySeq, ElementsOfNone, ConcatEmptySeq DEF Events
<1>4. Once(<<>>, <<>>, <<>>, at)
    BY <1>3 DEF Once, Separate, Nowhere
<1>5. Located
    BY <1>2, <1>3, <1>4 DEF Located, Placed, Places
<1>6. Piece(<<>>, <<>>, 0)
    BY <1>3 DEF Piece
<1>7. Lined
    BY <1>2, <1>3, <1>6 DEF Lined, Waiting
<1>8. Ordered
    BY <1>2, <1>3, <1>6 DEF Ordered
<1> QED
    BY <1>1, <1>2, <1>3, <1>5, <1>7, <1>8 DEF OInv, InOrder

LEMMA NextOInv ==
    ASSUME OInv, [Next]_vars
    PROVE  OInv' /\ OrderStep
<1>1. IInv'
    BY NextIInv DEF OInv
<1>2. OrderStep /\ Placed' /\ at' \in [Messages -> Places] /\ setup' = setup
    BY NextOrder, NextPlaced, NextAt DEF OInv, OrderStep
<1>3. InOrder'
    BY <1>2, KeepsOrder DEF OInv, IInv, Located, Placed, Once
<1> QED
    BY <1>1, <1>2, <1>3 DEF OInv, Located, InOrder, Messages

\* Unless events were given up or dropped, the server's events are the first
\* ones that were accepted, in the order of their acceptance: whatever was
\* retried, however batches were cut, and whenever a failed POST arrives.
THEOREM EventsInOrder == Spec => []ServerInOrder
<1>1. OInv => ServerInOrder
    <2> SUFFICES ASSUME OInv, NoneLost
                 PROVE  /\ Len(log) <= Len(accepted)
                        /\ log = SubSeq(accepted, 1, Len(log))
        BY DEF ServerInOrder, NoneLost
    <2>1. /\ accepted \in Events /\ log \in Events /\ Piece(log, accepted, 0)
          /\ Len(log) \in Nat /\ Len(accepted) \in Nat
        BY EventsTyped DEF OInv, InOrder, Ordered
    <2>2. Len(log) <= Len(accepted)
        BY <2>1 DEF Piece
    <2>3. \A i \in 1..Len(log) : log[i] = accepted[i]
        <3> SUFFICES ASSUME NEW i \in 1..Len(log) PROVE log[i] = accepted[i]
            OBVIOUS
        <3>1. 0 + i = i
            OBVIOUS
        <3> QED
            BY <2>1, <3>1 DEF Piece
    <2>4. log = SubSeq(accepted, 1, Len(log))
        <3>1. \A i \in 1..Len(log) : accepted[i] \in Nat
            BY <2>1, <2>2, EventsTyped
        <3>2. /\ SubSeq(accepted, 1, Len(log)) \in Events
              /\ Len(SubSeq(accepted, 1, Len(log))) = Len(log)
              /\ \A i \in 1..Len(log) :
                    SubSeq(accepted, 1, Len(log))[i] = accepted[i]
            <4>1. \A i \in 1..Len(log) : (1 + i) - 1 = i
                OBVIOUS
            <4>2. (Len(log) - 1) + 1 = Len(log)
                BY <2>1
            <4> QED
                BY <2>1, <3>1, <4>1, <4>2, SubSeqProperties DEF Events
        <3> QED
            BY <2>1, <2>3, <3>2, SeqEqual DEF Events
    <2> QED
        BY <2>2, <2>4
<1>2. Init => OInv
    BY InitOInv
<1>3. OInv /\ [Next]_vars => OInv'
    BY NextOInv
<1> QED
    BY <1>1, <1>2, <1>3, PTL DEF Spec

-----------------------------------------------------------------------------
(* What flush() promises *)

\* What was accepted before a flush() that has returned is no longer waiting.
Flushed ==
    /\ due \in [Messages -> Nat] /\ flushing \subseteq Messages
    /\ \A m \in Messages : due[m] <= Len(accepted)
    /\ ~closed => \A m \in Messages \ flushing :
                        due[m] + Len(Waiting) <= Len(accepted)

DueStep ==
    \/ /\ due' = due
       /\ \/ flushing' = flushing
          \/ flushing' = {} /\ Waiting' = <<>>
          \/ closed'
       /\ flushing' \subseteq flushing
    \/ \E m \in Messages :
        /\ due' = [due EXCEPT ![m] = Len(accepted')]
        /\ \/ flushing' = flushing \union {m}
           \/ flushing' = flushing /\ Waiting' = <<>>

LEMMA NextDue ==
    ASSUME OInv, [Next]_vars
    PROVE  DueStep
<1>0. setup' = setup /\ TypedQueue /\ TypedQueue' /\ setup \in Workload
    BY NextOInv DEF OInv, IInv, OrderStep
<1>1. CASE due' = due /\ flushing' = flushing
    BY <1>1 DEF DueStep
<1>2. ASSUME LoopOn, due' = due
      PROVE  DueStep
    <2>1. CASE pending # <<>> /\ ~closed
        BY <1>1, <1>2, <2>1 DEF LoopOn
    <2>2. CASE ~(pending # <<>> /\ ~closed)
        <3>1. Leave
            BY <1>2, <2>2 DEF LoopOn
        <3>2. CASE pending = <<>>
            BY <1>2, <3>1, <3>2, ConcatEmptySeq DEF Leave, DueStep, Waiting
        <3>3. CASE pending # <<>>
            BY <1>2, <3>1, <3>3 DEF Leave, DueStep
        <3> QED
            BY <3>2, <3>3
    <2> QED
        BY <2>1, <2>2
<1>3. ASSUME NEW m \in Messages, Flush(m), due' = [due EXCEPT ![m] = Len(accepted')]
      PROVE  DueStep
    <2>1. CASE FlushReturns
        <3>1. pending' = <<>> /\ batch' = <<>>
            BY <1>0, <2>1 DEF FlushReturns, TypedQueue
        <3>2. Waiting' = <<>>
            BY <3>1, ConcatEmptySeq DEF Waiting
        <3> QED
            BY <1>3, <2>1, <3>2 DEF Flush, DueStep
    <2>2. CASE ~FlushReturns
        BY <1>3, <2>2 DEF Flush, DueStep
    <2> QED
        BY <2>1, <2>2
<1>4. ASSUME NEW m \in Messages,
             \/ WriteStream(m) \/ HybridWrite(m) \/ CCRWrite(m) \/ CCRFlush(m)
             \/ CCRWriteOwn(m)
      PROVE  DueStep
    BY <1>1, <1>4 DEF WriteStream, HybridWrite, CCRWrite, CCRFlush, CCRWriteOwn,
                      uploaderVars
<1>5. ASSUME NEW m \in Messages, HybridFlush(m) PROVE DueStep
    BY <1>3, <1>5 DEF HybridFlush
<1>6. ASSUME NEW m \in Messages, FlushUploader(m) PROVE DueStep
    BY <1>3, <1>6 DEF FlushUploader
<1>7. CASE Resume \/ StreamTimer \/ LateArrival \/ ShutHybrid \/ UNCHANGED vars
    BY <1>1, <1>7 DEF Resume, StreamTimer, LateArrival, ShutHybrid, uploaderVars,
                      writerVars, vars
<1>8. CASE PostSucceeds \/ PostRefused \/ SleepEnds
    BY <1>2, <1>8 DEF PostSucceeds, PostRefused, SleepEnds, Done, BackoffOver,
                      writerVars
<1>9. CASE PostFails
    BY <1>1, <1>2, <1>9 DEF PostFails, Failed, GiveUp, Requeue, writerVars
<1>10. CASE Superseded \/ CloseCCR \/ CloseHybrid
    BY <1>10 DEF Superseded, CloseCCR, CloseHybrid, Close, writerVars, DueStep
<1> QED
    BY <1>4, <1>5, <1>6, <1>7, <1>8, <1>9, <1>10 DEF Next, Write, GoesOn, Answer

\* The events that are done with do not become fewer.
LEMMA LengthsGrow ==
    ASSUME OInv, OrderStep
    PROVE  /\ Len(accepted) \in Nat /\ Len(accepted') \in Nat
           /\ Len(Waiting) \in Nat /\ Len(Waiting') \in Nat
           /\ Len(accepted) <= Len(accepted')
           /\ Len(accepted) + Len(Waiting') <= Len(accepted') + Len(Waiting)
<1>1. /\ accepted \in Events /\ Len(accepted) \in Nat
      /\ batch \in Events /\ Len(batch) \in Nat
      /\ pending \in Events /\ Len(pending) \in Nat
      /\ Waiting \in Events /\ Len(Waiting) = Len(batch) + Len(pending)
      /\ Len(Waiting) \in Nat
    BY EventsTyped, WaitingTyped, ConcatProperties
    DEF OInv, IInv, TypedQueue, InOrder, Waiting, Events
<1>2. CASE Grows
    <2>1. PICK e \in Events : accepted' = accepted \o e /\ Waiting' = Waiting \o e
        BY <1>2 DEF Grows
    <2>2. /\ Len(accepted') = Len(accepted) + Len(e)
          /\ Len(Waiting') = Len(Waiting) + Len(e)
          /\ Len(e) \in Nat
        BY <1>1, <2>1, EventsTyped, ConcatProperties DEF Events
    <2> QED
        BY <1>1, <2>2
<1>3. CASE Rests \/ Retries \/ Comes
    BY <1>1, <1>3 DEF Rests, Retries, Comes
<1>4. CASE Loses \/ Delivers
    <2>1. accepted' = accepted /\ Waiting' = pending
        BY <1>4 DEF Loses, Delivers
    <2> QED
        BY <1>1, <2>1
<1>5. CASE Shuts
    <2>1. accepted' = accepted /\ Waiting' = batch
        BY <1>5 DEF Shuts
    <2> QED
        BY <1>1, <2>1
<1> QED
    BY <1>2, <1>3, <1>4, <1>5 DEF OrderStep

LEMMA NextFlushed ==
    ASSUME OInv, Flushed, [Next]_vars
    PROVE  Flushed'
<1>0. OInv' /\ OrderStep /\ DueStep /\ setup' = setup
    BY NextOInv, NextDue DEF OrderStep
<1>1. /\ Len(accepted) \in Nat /\ Len(accepted') \in Nat
      /\ Len(Waiting) \in Nat /\ Len(Waiting') \in Nat
      /\ Len(accepted) <= Len(accepted')
      /\ Len(accepted) + Len(Waiting') <= Len(accepted') + Len(Waiting)
    BY <1>0, LengthsGrow
<1>2. ~closed' => ~closed
    BY <1>0 DEF OrderStep, Rests, Grows, Loses, Delivers, Retries, Comes, Shuts
<1>3. Waiting' = <<>> => Len(Waiting') = 0
    BY EmptySeq
\* What was promised before still holds.
<1>4. ASSUME NEW m \in Messages
      PROVE  /\ due[m] <= Len(accepted')
             /\ ~closed' /\ m \notin flushing =>
                    due[m] + Len(Waiting') <= Len(accepted')
             /\ Waiting' = <<>> => due[m] + Len(Waiting') <= Len(accepted')
    <2>1. due[m] \in Nat /\ due[m] <= Len(accepted)
        BY DEF Flushed
    <2>2. ~closed' /\ m \notin flushing => due[m] + Len(Waiting) <= Len(accepted)
        BY <1>2 DEF Flushed
    <2> QED
        BY <1>1, <1>3, <2>1, <2>2
<1>5. CASE /\ due' = due
           /\ \/ flushing' = flushing
              \/ flushing' = {} /\ Waiting' = <<>>
              \/ closed'
           /\ flushing' \subseteq flushing
    BY <1>0, <1>4, <1>5 DEF Flushed, Messages
<1>6. CASE \E m \in Messages :
            /\ due' = [due EXCEPT ![m] = Len(accepted')]
            /\ \/ flushing' = flushing \union {m}
               \/ flushing' = flushing /\ Waiting' = <<>>
    <2>1. PICK m \in Messages :
            /\ due' = [due EXCEPT ![m] = Len(accepted')]
            /\ \/ flushing' = flushing \union {m}
               \/ flushing' = flushing /\ Waiting' = <<>>
        BY <1>6
    <2>2. /\ due \in [Messages -> Nat] /\ flushing \subseteq Messages
          /\ Messages' = Messages
        BY <1>0 DEF Flushed, Messages
    <2>3. /\ due' \in [Messages -> Nat] /\ due'[m] = Len(accepted')
          /\ \A n \in Messages : n # m => due'[n] = due[n]
        BY <1>1, <2>1, <2>2
    <2>4. \A n \in Messages : due'[n] <= Len(accepted')
        BY <1>1, <1>4, <2>3
    <2>5. flushing' \subseteq Messages
        BY <2>1, <2>2
    <2>6. ASSUME ~closed', NEW n \in Messages, n \notin flushing'
          PROVE  due'[n] + Len(Waiting') <= Len(accepted')
        <3>1. CASE n = m
            <4>1. Len(Waiting') = 0
                BY <1>3, <2>1, <2>6, <3>1
            <4> QED
                BY <1>1, <2>3, <3>1, <4>1
        <3>2. CASE n # m
            BY <1>4, <2>1, <2>3, <2>6, <3>2
        <3> QED
            BY <3>1, <3>2
    <2> QED
        BY <2>2, <2>3, <2>4, <2>5, <2>6 DEF Flushed
<1> QED
    BY <1>0, <1>5, <1>6 DEF DueStep

LEMMA InitFlushed == Init => Flushed
<1> SUFFICES ASSUME Init PROVE Flushed
    OBVIOUS
<1>1. /\ accepted = <<>> /\ Waiting = <<>> \o <<>> /\ flushing = {}
      /\ due = [m \in Messages |-> 0]
    BY DEF Init, UploaderInit, Waiting
<1>2. Len(<<>>) = 0 /\ <<>> \o <<>> = <<>>
    BY EmptySeq, ConcatEmptySeq
<1>3. \A m \in Messages : due[m] = 0
    BY <1>1
<1> QED
    BY <1>1, <1>2, <1>3 DEF Flushed

\* When flush() has returned and the uploader is open, nothing that was accepted
\* before the call is pending or in a POST.
THEOREM FlushIsHonest == Spec => []FlushHonest
<1>1. OInv /\ Flushed => FlushHonest
    <2> SUFFICES ASSUME OInv, Flushed, ~closed, NEW m \in Messages \ flushing,
                        NEW i \in 1..due[m]
                 PROVE  accepted[i] \notin Items(Waiting)
        BY DEF FlushHonest
    <2>1. /\ accepted \in Events /\ Len(accepted) \in Nat /\ Single(accepted)
          /\ Waiting \in Events /\ Len(Waiting) \in Nat
        BY EventsTyped, WaitingTyped
        DEF OInv, IInv, InOrder, Located, Placed, Once
    <2>2. PICK d \in Nat : /\ Piece(Waiting, accepted, d)
                           /\ d + Len(Waiting) = Len(accepted)
        BY DEF OInv, InOrder, Lined
    <2>3. due[m] \in Nat /\ due[m] + Len(Waiting) <= Len(accepted)
        BY DEF Flushed
    <2>4. i \in 1..Len(accepted) /\ i <= d
        BY <2>1, <2>2, <2>3
    <2>5. ASSUME NEW j \in 1..Len(Waiting) PROVE accepted[i] # Waiting[j]
        <3>1. Waiting[j] = accepted[d + j]
            BY <2>2 DEF Piece
        <3>2. d + j \in 1..Len(accepted) /\ d + j # i
            BY <2>1, <2>2, <2>4
        <3> QED
            BY <2>1, <2>4, <3>1, <3>2 DEF Single
    <2>6. DOMAIN Waiting = 1..Len(Waiting)
        BY <2>1, LenProperties DEF Events
    <2> QED
        BY <2>5, <2>6 DEF Items
<1>2. Init => OInv /\ Flushed
    BY InitOInv, InitFlushed
<1>3. OInv /\ Flushed /\ [Next]_vars => (OInv /\ Flushed)'
    BY NextOInv, NextFlushed
<1> QED
    BY <1>1, <1>2, <1>3, PTL DEF Spec

-----------------------------------------------------------------------------
(* Stream events go out before what was written after them *)

Kind(m) == setup.kind[m]

\* x stands somewhere before y in s.
Before(x, y, s) ==
    \E i, j \in 1..Len(s) : i < j /\ s[i] = x /\ s[j] = y

WrittenOnce ==
    /\ written \in Events /\ Single(written)
    /\ \A i \in 1..Len(written) :
            written[i] \in Messages /\ at[written[i]] # "new"
    /\ \A m \in Messages :
            at[m] # "new" /\ Kind(m) # "flush" => m \in Elements(written)

\* As long as no call had to wait: a stream event that was written is held back
\* or accepted, and accepted before any other message written after it is sent.
Streamed ==
    ~waited /\ ~shut =>
        /\ woken = <<>> /\ blocked = <<>> /\ ~closed
        /\ \A e \in Elements(buffer) : Kind(e) = "stream"
        /\ \A i \in 1..Len(written) : Kind(written[i]) = "stream" =>
                written[i] \in Elements(buffer) \union Elements(accepted)
        /\ \A i, j \in 1..Len(written) :
                /\ i < j
                /\ Kind(written[i]) = "stream" /\ Kind(written[j]) = "write"
                => /\ at[written[j]] = "own" =>
                            written[i] \in Elements(accepted)
                   /\ written[j] \in Elements(accepted) =>
                            Before(written[i], written[j], accepted)

LEMMA BeforeInMore ==
    ASSUME NEW s \in Events, NEW t \in Events, NEW x, NEW y
    PROVE  /\ Before(x, y, s) => Before(x, y, s \o t)
           /\ x \in Elements(s) /\ y \in Elements(t) => Before(x, y, s \o t)
<1>1. /\ Len(s) \in Nat /\ Len(t) \in Nat /\ Len(s \o t) = Len(s) + Len(t)
      /\ \A i \in 1..Len(s \o t) :
            (s \o t)[i] = IF i <= Len(s) THEN s[i] ELSE t[i - Len(s)]
    BY EventsTyped, ConcatProperties DEF Events
<1>2. ASSUME Before(x, y, s) PROVE Before(x, y, s \o t)
    <2>1. PICK i \in 1..Len(s), j \in 1..Len(s) : i < j /\ s[i] = x /\ s[j] = y
        BY <1>2 DEF Before
    <2>2. /\ i \in 1..Len(s \o t) /\ j \in 1..Len(s \o t)
          /\ (s \o t)[i] = x /\ (s \o t)[j] = y
        BY <1>1, <2>1
    <2> QED
        BY <2>1, <2>2 DEF Before
<1>3. ASSUME x \in Elements(s), y \in Elements(t) PROVE Before(x, y, s \o t)
    <2>1. PICK i \in 1..Len(s) : s[i] = x
        BY <1>3 DEF Elements
    <2>2. PICK k \in 1..Len(t) : t[k] = y
        BY <1>3 DEF Elements
    <2>3. PICK j \in Nat : j = Len(s) + k
        BY <1>1
    <2>4. /\ j \in 1..Len(s \o t) /\ i \in 1..Len(s \o t) /\ i < j
          /\ ~(j <= Len(s)) /\ j - Len(s) = k
        BY <1>1, <2>3
    <2>5. (s \o t)[i] = x /\ (s \o t)[j] = y
        BY <1>1, <2>1, <2>2, <2>4
    <2> QED
        BY <2>4, <2>5 DEF Before
<1> QED
    BY <1>2, <1>3

\* A step that writes nothing and hands over what is held back, or nothing.
LEMMA KeepsStreamed ==
    ASSUME Streamed, WrittenOnce, accepted \in Events, buffer \in Events,
           setup' = setup, ~waited, ~shut, ~waited', ~shut',
           written' = written, woken' = <<>>, blocked' = <<>>, closed' = closed,
           NEW e \in Events, accepted' = accepted \o e,
           \/ e = <<>> /\ buffer' = buffer
           \/ e = buffer /\ buffer' = <<>>,
           \A i \in 1..Len(written) :
                at'[written[i]] = "own" => at[written[i]] = "own"
    PROVE  Streamed'
<1>1. /\ Elements(<<>>) = {}
      /\ Elements(accepted') = Elements(accepted) \union Elements(e)
    BY ElementsOfNone, ElementsOfConcat
<1>2. \A f \in Elements(buffer) : Kind(f) = "stream"
    BY DEF Streamed
<1>3. \A f : Kind(f)' = Kind(f)
    BY DEF Kind
<1>4. \A f \in Elements(buffer') : Kind(f)' = "stream"
    BY <1>1, <1>2, <1>3
<1>5. \A i \in 1..Len(written) : Kind(written[i]) = "stream" =>
            written[i] \in Elements(buffer') \union Elements(accepted')
    BY <1>1 DEF Streamed
<1>6. ASSUME NEW i \in 1..Len(written), NEW j \in 1..Len(written), i < j,
             Kind(written[i]) = "stream", Kind(written[j]) = "write"
      PROVE  /\ at'[written[j]] = "own" => written[i] \in Elements(accepted')
             /\ written[j] \in Elements(accepted') =>
                    Before(written[i], written[j], accepted')
    <2>1. /\ at[written[j]] = "own" => written[i] \in Elements(accepted)
          /\ written[j] \in Elements(accepted) =>
                Before(written[i], written[j], accepted)
        BY <1>6 DEF Streamed
    <2>2. written[j] \notin Elements(e)
        BY <1>1, <1>2, <1>6
    <2> QED
        BY <1>1, <2>1, <2>2, BeforeInMore
<1> QED
    BY <1>3, <1>4, <1>5, <1>6 DEF Streamed

\* enqueue() when nothing has waited so far.
LEMMA EnqueuesAtOnce ==
    ASSUME NEW call \in Calls, Enqueue(call), ~closed, ~Blocks(call),
           accepted \in Events
    PROVE  accepted' = accepted \o call.events /\ closed' = closed /\ blocked' = blocked
<1>1. closed' = closed /\ blocked' = blocked
    BY DEF Enqueue
<1>2. CASE call.events = <<>>
    <2>1. accepted' = accepted
        BY <1>2 DEF Enqueue
    <2> QED
        BY <1>1, <1>2, <2>1, ConcatEmptySeq DEF Events
<1>3. CASE call.events # <<>>
    BY <1>1, <1>3 DEF Enqueue, Push
<1> QED
    BY <1>2, <1>3

\* A stream event is held back.
LEMMA StreamHeld ==
    ASSUME Streamed, WrittenOnce, IInv, setup' = setup, ~waited, ~shut,
           UNCHANGED <<accepted, woken, blocked, closed>>,
           NEW m \in Messages, Kind(m) = "stream",
           buffer' = Append(buffer, m), written' = Append(written, m),
           at' = [at EXCEPT ![m] = "done"], DOMAIN at = Messages
    PROVE  Streamed'
<1>0. m \in Nat /\ \A f : Kind(f)' = Kind(f)
    BY LenProperties DEF IInv, Messages, Workload, Kind
<1>1. /\ written \in Events /\ Len(written) \in Nat
      /\ Len(written') = Len(written) + 1
      /\ \A i \in 1..Len(written) : written'[i] = written[i]
      /\ written'[Len(written) + 1] = m
    BY <1>0, EventsTyped, AppendProperties DEF WrittenOnce, Events
<1>2. Elements(buffer') = Elements(buffer) \union {m}
    <2>1. buffer' = buffer \o <<m>>
        BY <1>0, AppendIsConcat DEF IInv, Events
    <2> QED
        BY <1>0, <2>1, ElementsOfConcat, ElementsOfOne DEF IInv
<1>3. \A e \in Elements(buffer') : Kind(e)' = "stream"
    BY <1>0, <1>2 DEF Streamed
<1>4. \A i \in 1..Len(written') : Kind(written'[i]) = "stream" =>
            written'[i] \in Elements(buffer') \union Elements(accepted)
    BY <1>1, <1>2 DEF Streamed
<1>5. ASSUME NEW i \in 1..Len(written'), NEW j \in 1..Len(written'), i < j,
             Kind(written'[i]) = "stream", Kind(written'[j]) = "write"
      PROVE  /\ at'[written'[j]] = "own" => written'[i] \in Elements(accepted)
             /\ written'[j] \in Elements(accepted) =>
                    Before(written'[i], written'[j], accepted)
    <2>1. j # Len(written) + 1
        BY <1>1, <1>5
    <2>2. i \in 1..Len(written) /\ j \in 1..Len(written)
        BY <1>1, <1>5, <2>1
    <2>3. at'[written[j]] = "own" => at[written[j]] = "own"
        BY <2>2 DEF WrittenOnce
    <2> QED
        BY <1>1, <1>5, <2>2, <2>3 DEF Streamed
<1> QED
    BY <1>0, <1>3, <1>4, <1>5 DEF Streamed

\* Another message takes what is held back along, or goes after it.
LEMMA MessageGoes ==
    ASSUME Streamed, WrittenOnce, IInv, Located, setup' = setup, ~waited, ~shut,
           woken' = <<>>, blocked' = <<>>, closed' = closed,
           NEW m \in Messages, Kind(m) = "write", at[m] = "new",
           buffer' = <<>>, written' = Append(written, m),
           \A n \in Messages \ {m} : at'[n] = at[n],
           \/ /\ accepted' = (accepted \o buffer) \o <<m>> /\ at'[m] # "own"
           \/ accepted' = accepted \o buffer
    PROVE  Streamed'
<1>0. /\ m \in Nat /\ \A f : Kind(f)' = Kind(f)
      /\ m \notin Elements(accepted) /\ m \notin Elements(buffer)
      /\ accepted \in Events /\ buffer \in Events
    BY LenProperties DEF IInv, Messages, Workload, Kind, Located, Placed, Once,
                         Nowhere
<1>1. /\ written \in Events /\ Len(written) \in Nat
      /\ Len(written') = Len(written) + 1
      /\ \A i \in 1..Len(written) : written'[i] = written[i]
      /\ written'[Len(written) + 1] = m
    BY <1>0, EventsTyped, AppendProperties DEF WrittenOnce, Events
<1>2. PICK held : held = accepted \o buffer
    OBVIOUS
<1>3. held \in Events /\ Elements(held) = Elements(accepted) \union Elements(buffer)
    BY <1>0, <1>2, ElementsOfConcat
<1>4. /\ <<m>> \in Events /\ Elements(<<m>>) = {m}
      /\ Elements(<<>>) = {}
    BY <1>0, ElementsOfOne, ElementsOfNone
<1>9. \/ accepted' = held \o <<m>> /\ at'[m] # "own"
      \/ accepted' = held
    BY <1>2
<1>5. /\ Elements(accepted') \subseteq Elements(held) \union {m}
      /\ Elements(held) \subseteq Elements(accepted')
      /\ \A x, y : Before(x, y, held) => Before(x, y, accepted')
    <2>1. CASE accepted' = held \o <<m>>
        BY <1>3, <1>4, <2>1, ElementsOfConcat, BeforeInMore
    <2>2. CASE accepted' = held
        BY <2>2
    <2> QED
        BY <1>9, <2>1, <2>2
<1>6. ASSUME NEW i \in 1..Len(written), Kind(written[i]) = "stream"
      PROVE  written[i] \in Elements(held)
    BY <1>3, <1>6 DEF Streamed
<1>7. \A i \in 1..Len(written') : Kind(written'[i]) = "stream" =>
            written'[i] \in Elements(buffer') \union Elements(accepted')
    BY <1>1, <1>5, <1>6
<1>8. ASSUME NEW i \in 1..Len(written'), NEW j \in 1..Len(written'), i < j,
             Kind(written'[i]) = "stream", Kind(written'[j]) = "write"
      PROVE  /\ at'[written'[j]] = "own" => written'[i] \in Elements(accepted')
             /\ written'[j] \in Elements(accepted') =>
                    Before(written'[i], written'[j], accepted')
    <2>1. i \in 1..Len(written) /\ written'[i] = written[i]
        BY <1>1, <1>8
    <2>2. written[i] \in Elements(held)
        BY <1>6, <1>8, <2>1
    <2>3. CASE j = Len(written) + 1
        <3>1. written'[j] = m
            BY <1>1, <2>3
        <3>2. CASE accepted' = held \o <<m>>
            BY <1>3, <1>4, <1>5, <2>1, <2>2, <3>1, <3>2, BeforeInMore
        <3>3. CASE accepted' = held
            BY <1>0, <1>3, <2>1, <2>2, <3>1, <3>3
        <3> QED
            BY <1>9, <3>2, <3>3
    <2>4. CASE j # Len(written) + 1
        <3>1. j \in 1..Len(written) /\ written'[j] = written[j]
            BY <1>1, <2>4
        <3>2. written[j] \in Messages /\ written[j] # m
            BY <3>1 DEF WrittenOnce
        <3>3. /\ at[written[j]] = "own" => written[i] \in Elements(accepted)
              /\ written[j] \in Elements(accepted) =>
                    Before(written[i], written[j], accepted)
            BY <1>8, <2>1, <3>1 DEF Streamed
        <3>4. written[j] \notin Elements(buffer)
            BY <1>8, <3>1 DEF Streamed
        <3>5. written[j] \in Elements(accepted') => written[j] \in Elements(accepted)
            BY <1>3, <1>5, <3>2, <3>4
        <3>6. Before(written[i], written[j], accepted) =>
                    Before(written[i], written[j], accepted')
            BY <1>0, <1>2, <1>5, BeforeInMore
        <3> QED
            BY <1>3, <1>5, <2>1, <3>1, <3>2, <3>3, <3>5, <3>6
    <2> QED
        BY <2>3, <2>4
<1> QED
    BY <1>0, <1>4, <1>7, <1>8 DEF Streamed

\* CCRClient sends the message itself.
LEMMA OwnGoes ==
    ASSUME Streamed, WrittenOnce, IInv, Located, setup' = setup, ~waited, ~shut,
           woken' = <<>>, blocked' = <<>>, closed' = closed, written' = written,
           NEW m \in Messages, at[m] = "own", buffer' = buffer,
           accepted' = accepted \o <<m>>, at'[m] # "own",
           \A n \in Messages \ {m} : at'[n] = at[n]
    PROVE  Streamed'
<1>0. m \in Nat /\ accepted \in Events /\ \A f : Kind(f)' = Kind(f)
    BY LenProperties DEF IInv, Messages, Workload, Kind, Located
<1>1. <<m>> \in Events /\ Elements(<<m>>) = {m}
    BY <1>0, ElementsOfOne
<1>2. Elements(accepted') = Elements(accepted) \union {m}
    BY <1>0, <1>1, ElementsOfConcat
<1>3. ASSUME NEW i \in 1..Len(written), NEW j \in 1..Len(written), i < j,
             Kind(written[i]) = "stream", Kind(written[j]) = "write"
      PROVE  /\ at'[written[j]] = "own" => written[i] \in Elements(accepted')
             /\ written[j] \in Elements(accepted') =>
                    Before(written[i], written[j], accepted')
    <2>1. /\ at[written[j]] = "own" => written[i] \in Elements(accepted)
          /\ written[j] \in Elements(accepted) =>
                Before(written[i], written[j], accepted)
        BY <1>3 DEF Streamed
    <2>2. CASE written[j] = m
        BY <1>0, <1>1, <2>1, <2>2, BeforeInMore
    <2>3. CASE written[j] # m
        <3>1. written[j] \in Messages
            BY DEF WrittenOnce
        <3> QED
            BY <1>0, <1>1, <1>2, <2>1, <2>3, <3>1, BeforeInMore
    <2> QED
        BY <2>2, <2>3
<1> QED
    BY <1>0, <1>2, <1>3 DEF Streamed

\* Messages are written once, and then they are called on.
WriteStep ==
    /\ \A n \in Messages : at'[n] = "new" => at[n] = "new"
    /\ \/ /\ written' = written
          /\ \A n \in Messages :
                at[n] = "new" /\ Kind(n) # "flush" => at'[n] = "new"
       \/ \E m \in Messages :
            /\ at[m] = "new" /\ at'[m] # "new"
            /\ written' = Append(written, m)
            /\ \A n \in Messages \ {m} : at'[n] = at[n]

LEMMA NextWrites ==
    ASSUME IInv, Located, [Next]_vars
    PROVE  WriteStep
<1>0. at \in [Messages -> Places] /\ woken \in Seq(Calls) /\ blocked \in Seq(Calls)
    BY DEF Located, IInv
<1>1. ASSUME NEW call, call.then \in {"own", "flush", "done"}, Await(call)
      PROVE  /\ \A n \in Messages \ {call.who} : at'[n] = at[n]
             /\ call.who \in Messages => at'[call.who] # "new"
    BY <1>1 DEF Await
<1>2. ASSUME NEW m \in Messages, at' = [at EXCEPT ![m] = "done"]
      PROVE  (\A n \in Messages \ {m} : at'[n] = at[n]) /\ at'[m] # "new"
    BY <1>0, <1>2
\* m is written, or it had been before.
<1>3. ASSUME NEW m \in Messages, at'[m] # "new",
             \A n \in Messages \ {m} : at'[n] = at[n],
             \/ written' = written /\ (at[m] # "new" \/ Kind(m) = "flush")
             \/ written' = Append(written, m) /\ at[m] = "new"
      PROVE  WriteStep
    BY <1>3 DEF WriteStep
<1>4. CASE at' = at /\ written' = written
    BY <1>4 DEF WriteStep
<1>5. ASSUME NEW m \in Messages, WriteStream(m) PROVE WriteStep
    BY <1>2, <1>3, <1>5 DEF WriteStream, Begins
<1>6. ASSUME NEW m \in Messages, HybridWrite(m) PROVE WriteStep
    <2>1. Await([who |-> m, events |-> Append(buffer, m), then |-> "flush"])
        BY <1>6 DEF HybridWrite
    <2> QED
        BY <1>1, <1>3, <1>6, <2>1 DEF HybridWrite, Begins
<1>7. ASSUME NEW m \in Messages, CCRWrite(m) PROVE WriteStep
    <2>1. Await([who |-> m, events |-> buffer, then |-> "own"])
        BY <1>7 DEF CCRWrite
    <2> QED
        BY <1>1, <1>3, <1>7, <2>1 DEF CCRWrite, Begins
<1>8. ASSUME NEW m \in Messages, HybridFlush(m) PROVE WriteStep
    BY <1>2, <1>3, <1>8 DEF HybridFlush, Begins, Kind
<1>9. ASSUME NEW m \in Messages, CCRFlush(m) PROVE WriteStep
    <2>1. Await([who |-> m, events |-> buffer, then |-> "flush"])
        BY <1>9 DEF CCRFlush
    <2> QED
        BY <1>1, <1>3, <1>9, <2>1 DEF CCRFlush, Begins, Kind
<1>10. ASSUME NEW m \in Messages, CCRWriteOwn(m) PROVE WriteStep
    <2>1. Await([who |-> m, events |-> <<m>>, then |-> "done"])
        BY <1>10 DEF CCRWriteOwn
    <2> QED
        BY <1>1, <1>3, <1>10, <2>1 DEF CCRWriteOwn
<1>11. ASSUME NEW m \in Messages, FlushUploader(m) PROVE WriteStep
    BY <1>2, <1>3, <1>11 DEF FlushUploader
<1>12. CASE Resume
    <2>1. PICK c : c = Head(woken)
        OBVIOUS
    <2>2. c \in Calls /\ Await(c) /\ written' = written
        BY <1>0, <1>12, <2>1, HeadTailProperties DEF Resume
    <2>3. c.then \in {"own", "flush", "done"}
        BY <2>2 DEF Calls
    <2>4. c.who \in Messages => at[c.who] = "blocked"
        <3>1. /\ 1 \in 1..Len(woken \o blocked) /\ (woken \o blocked)[1] = c
            BY <1>0, <1>12, <2>1, HeadTailProperties, ConcatProperties DEF Resume
        <3>2. Pending(accepted, buffer, woken \o blocked, at, 1)
            BY <3>1 DEF Located, Placed, Once
        <3>3. 0 \notin Messages
            BY LenProperties DEF IInv, Messages, Workload
        <3> QED
            BY <3>1, <3>2, <3>3 DEF Pending
    <2>5. CASE c.who \in Messages
        BY <1>1, <1>3, <2>2, <2>3, <2>4, <2>5
    <2>6. CASE c.who \notin Messages
        BY <1>1, <2>2, <2>3, <2>6 DEF WriteStep
    <2> QED
        BY <2>5, <2>6
<1>13. CASE StreamTimer
    <2>1. Await([who |-> 0, events |-> buffer, then |-> "done"])
        BY <1>13 DEF StreamTimer
    <2>2. 0 \notin Messages
        BY LenProperties DEF IInv, Messages, Workload
    <2> QED
        BY <1>1, <1>13, <2>1, <2>2 DEF StreamTimer, WriteStep
<1> QED
    BY <1>4, <1>5, <1>6, <1>7, <1>8, <1>9, <1>10, <1>11, <1>12, <1>13
    DEF Next, Write, GoesOn, Answer, vars, writerVars, PostSucceeds, PostRefused,
        PostFails, Superseded, SleepEnds, LateArrival, CloseCCR, ShutHybrid,
        CloseHybrid

LEMMA NextWritten ==
    ASSUME OInv, WrittenOnce, [Next]_vars
    PROVE  WrittenOnce'
<1>0. /\ WriteStep /\ Messages' = Messages /\ \A m \in Messages : m \in Nat
      /\ \A m : Kind(m)' = Kind(m)
    <2>1. WriteStep
        BY NextWrites DEF OInv
    <2>2. Messages' = Messages /\ \A m : Kind(m)' = Kind(m)
        BY NextOInv DEF OrderStep, Messages, Kind
    <2> QED
        BY <2>1, <2>2, LenProperties DEF OInv, IInv, Messages, Workload
<1>1. CASE /\ written' = written
           /\ \A n \in Messages :
                at[n] = "new" /\ Kind(n) # "flush" => at'[n] = "new"
    BY <1>0, <1>1 DEF WriteStep, WrittenOnce
<1>2. ASSUME NEW m \in Messages, at[m] = "new", at'[m] # "new",
             written' = Append(written, m),
             \A n \in Messages \ {m} : at'[n] = at[n]
      PROVE  WrittenOnce'
    <2>2. /\ written' \in Events /\ Len(written) \in Nat
          /\ Len(written') = Len(written) + 1
          /\ \A i \in 1..Len(written) : written'[i] = written[i]
          /\ written'[Len(written) + 1] = m
        BY <1>0, <1>2, EventsTyped, AppendProperties DEF WrittenOnce, Events
    <2>3. \A i \in 1..Len(written) : written[i] # m
        BY <1>2 DEF WrittenOnce
    <2>4. Single(written')
        BY <2>2, <2>3 DEF WrittenOnce, Single
    <2>5. \A i \in 1..Len(written') :
                written'[i] \in Messages /\ at'[written'[i]] # "new"
        BY <1>0, <1>2, <2>2 DEF WriteStep, WrittenOnce
    <2>6. Elements(written) \union {m} \subseteq Elements(written')
        BY <2>2 DEF Elements
    <2>7. \A n \in Messages :
                at'[n] # "new" /\ Kind(n) # "flush" => n \in Elements(written')
        BY <1>2, <2>6 DEF WrittenOnce
    <2> QED
        BY <1>0, <2>2, <2>4, <2>5, <2>7 DEF WrittenOnce
<1> QED
    BY <1>0, <1>1, <1>2 DEF WriteStep

LEMMA NextStreamed ==
    ASSUME OInv, WrittenOnce, Streamed, [Next]_vars
    PROVE  Streamed'
<1> SUFFICES ASSUME ~waited', ~shut'
             PROVE  Streamed'
    BY DEF Streamed
<1>0. /\ IInv /\ Located /\ at \in [Messages -> Places] /\ DOMAIN at = Messages
      /\ accepted \in Events /\ buffer \in Events /\ <<>> \in Events
      /\ accepted \o <<>> = accepted
      /\ \A m \in Messages : m \in Nat /\ <<m>> \in Events
      /\ \A i \in 1..Len(written) : written[i] \in Messages
    <2>1. \A m \in Messages : m \in Nat
        BY LenProperties DEF OInv, IInv, Messages, Workload
    <2>2. accepted \in Events /\ accepted \o <<>> = accepted /\ <<>> \in Events
        BY ConcatEmptySeq, EmptySeq DEF OInv, Located, Events
    <2> QED
        BY <2>1, <2>2 DEF OInv, IInv, Located, Events, WrittenOnce
<1>1. setup' = setup
    BY NextOInv DEF OrderStep
\* Whoever calls enqueue() now does not wait.
<1>2. ASSUME NEW c \in Calls, Enqueue(c), waited' = (waited \/ Blocks(c)),
             ~waited, ~shut, woken' = woken
      PROVE  /\ accepted' = accepted \o c.events /\ closed' = closed
             /\ woken' = <<>> /\ blocked' = <<>>
    BY <1>0, <1>2, EnqueuesAtOnce DEF Streamed
<1>3. ASSUME NEW c \in Calls, Await(c), ~waited, ~shut, woken' = woken
      PROVE  /\ accepted' = accepted \o c.events /\ closed' = closed
             /\ woken' = <<>> /\ blocked' = <<>>
             /\ \A m \in Messages : at'[m] = IF m = c.who THEN c.then ELSE at[m]
    <2>1. ~Blocks(c) /\ Enqueue(c) /\ waited' = (waited \/ Blocks(c))
        BY <1>3 DEF Await
    <2> QED
        BY <1>2, <1>3, <2>1 DEF Await
\* Nothing is written, and nothing or all that is held back is handed over.
<1>4. ASSUME written' = written, ~waited, ~shut, closed' = closed,
             woken' = <<>>, blocked' = <<>>,
             \A m \in Messages : at'[m] = "own" => at[m] = "own",
             \/ accepted' = accepted /\ buffer' = buffer
             \/ accepted' = accepted \o buffer /\ buffer' = <<>>
      PROVE  Streamed'
    <2>1. \A i \in 1..Len(written) :
                at'[written[i]] = "own" => at[written[i]] = "own"
        BY <1>0, <1>4
    <2>2. CASE accepted' = accepted /\ buffer' = buffer
        <3>1. accepted' = accepted \o <<>>
            BY <1>0, <2>2
        <3> QED
            BY <1>0, <1>1, <1>4, <2>1, <2>2, <3>1, KeepsStreamed
    <2>3. CASE accepted' = accepted \o buffer /\ buffer' = <<>>
        BY <1>0, <1>1, <1>4, <2>1, <2>3, KeepsStreamed
    <2> QED
        BY <1>4, <2>2, <2>3
<1>5. ASSUME NEW m \in Messages, WriteStream(m) PROVE Streamed'
    <2>1. /\ Kind(m) = "stream" /\ ~waited /\ ~shut
          /\ UNCHANGED <<accepted, woken, blocked, closed>>
          /\ buffer' = Append(buffer, m) /\ written' = Append(written, m)
          /\ at' = [at EXCEPT ![m] = "done"]
        BY <1>5 DEF WriteStream, Begins, uploaderVars, Kind
    <2> QED
        BY <1>0, <1>1, <2>1, StreamHeld
<1>6. ASSUME NEW m \in Messages, HybridWrite(m) PROVE Streamed'
    <2> DEFINE c == [who |-> m, events |-> Append(buffer, m), then |-> "flush"]
    <2>1. /\ Kind(m) = "write" /\ at[m] = "new" /\ Await(c) /\ ~waited /\ ~shut
          /\ buffer' = <<>> /\ woken' = woken /\ written' = Append(written, m)
        BY <1>6 DEF HybridWrite, Begins, TakeBuffer, Await, Kind
    <2>2. c \in Calls /\ c.who = m /\ c.then = "flush"
        <3>1. Append(buffer, m) \in Events
            BY <1>0, AppendProperties DEF Events
        <3> QED
            BY <1>0, <3>1 DEF Calls
    <2>3. c.events = buffer \o <<m>>
        BY <1>0, AppendIsConcat DEF Events
    <2> HIDE DEF c
    <2>4. /\ accepted' = accepted \o c.events /\ closed' = closed
          /\ woken' = <<>> /\ blocked' = <<>>
          /\ at'[m] # "own" /\ \A n \in Messages \ {m} : at'[n] = at[n]
        BY <1>3, <2>1, <2>2
    <2>5. accepted' = (accepted \o buffer) \o <<m>>
        BY <1>0, <2>3, <2>4, ConcatAssociative DEF Events
    <2> QED
        BY <1>0, <1>1, <2>1, <2>4, <2>5, MessageGoes
<1>7. ASSUME NEW m \in Messages, CCRWrite(m) PROVE Streamed'
    <2> DEFINE c == [who |-> m, events |-> buffer, then |-> "own"]
    <2>1. /\ Kind(m) = "write" /\ at[m] = "new" /\ Await(c) /\ ~waited /\ ~shut
          /\ buffer' = <<>> /\ woken' = woken /\ written' = Append(written, m)
        BY <1>7 DEF CCRWrite, Begins, TakeBuffer, Await, Kind
    <2>2. c \in Calls /\ c.who = m /\ c.events = buffer
        BY <1>0 DEF Calls
    <2> HIDE DEF c
    <2>3. /\ accepted' = accepted \o buffer /\ closed' = closed
          /\ woken' = <<>> /\ blocked' = <<>>
          /\ \A n \in Messages \ {m} : at'[n] = at[n]
        BY <1>3, <2>1, <2>2
    <2> QED
        BY <1>0, <1>1, <2>1, <2>3, MessageGoes
<1>8. ASSUME NEW m \in Messages, CCRWriteOwn(m) PROVE Streamed'
    <2> DEFINE c == [who |-> m, events |-> <<m>>, then |-> "done"]
    <2>1. /\ at[m] = "own" /\ Await(c) /\ ~waited /\ ~shut
          /\ buffer' = buffer /\ woken' = woken /\ written' = written
        BY <1>8 DEF CCRWriteOwn, Await
    <2>2. c \in Calls /\ c.who = m /\ c.events = <<m>> /\ c.then = "done"
        BY <1>0 DEF Calls
    <2> HIDE DEF c
    <2>3. /\ accepted' = accepted \o <<m>> /\ closed' = closed
          /\ woken' = <<>> /\ blocked' = <<>>
          /\ at'[m] # "own" /\ \A n \in Messages \ {m} : at'[n] = at[n]
        BY <1>3, <2>1, <2>2
    <2> QED
        BY <1>0, <1>1, <2>1, <2>3, OwnGoes
<1>9. ASSUME NEW m \in Messages, HybridFlush(m) PROVE Streamed'
    <2> DEFINE c == [who |-> 0, events |-> buffer, then |-> "done"]
    <2>1. /\ Enqueue(c) /\ waited' = (waited \/ Blocks(c)) /\ ~waited /\ ~shut
          /\ buffer' = <<>> /\ woken' = woken /\ written' = written
          /\ at' = [at EXCEPT ![m] = "done"]
        BY <1>9 DEF HybridFlush, Begins, TakeBuffer
    <2>2. c \in Calls /\ c.events = buffer
        BY <1>0 DEF Calls
    <2>3. \A n \in Messages : at'[n] = "own" => at[n] = "own"
        BY <1>0, <2>1
    <2> HIDE DEF c
    <2> QED
        BY <1>2, <1>4, <2>1, <2>2, <2>3
<1>10. ASSUME NEW m \in Messages, CCRFlush(m) PROVE Streamed'
    <2> DEFINE c == [who |-> m, events |-> buffer, then |-> "flush"]
    <2>1. /\ Await(c) /\ ~waited /\ ~shut
          /\ buffer' = <<>> /\ woken' = woken /\ written' = written
        BY <1>10 DEF CCRFlush, Begins, TakeBuffer, Await
    <2>2. c \in Calls /\ c.who = m /\ c.events = buffer /\ c.then = "flush"
        BY <1>0 DEF Calls
    <2> HIDE DEF c
    <2> QED
        BY <1>3, <1>4, <2>1, <2>2
<1>11. ASSUME NEW m \in Messages, FlushUploader(m) PROVE Streamed'
    <2>1. /\ ~waited /\ ~shut /\ at' = [at EXCEPT ![m] = "done"]
          /\ UNCHANGED <<accepted, buffer, written, woken, blocked, closed>>
        BY <1>11 DEF FlushUploader
    <2>2. \A n \in Messages : at'[n] = "own" => at[n] = "own"
        BY <1>0, <2>1
    <2> QED
        BY <1>4, <2>1, <2>2 DEF Streamed
<1>12. CASE Resume
    BY <1>12 DEF Resume, Await, Streamed
<1>13. CASE StreamTimer
    <2> DEFINE c == [who |-> 0, events |-> buffer, then |-> "done"]
    <2>1. /\ Await(c) /\ ~waited /\ ~shut
          /\ buffer' = <<>> /\ woken' = woken /\ written' = written
        BY <1>13 DEF StreamTimer, TakeBuffer, Await
    <2>2. c \in Calls /\ c.who = 0 /\ c.events = buffer /\ c.then = "done"
        BY <1>0 DEF Calls
    <2> HIDE DEF c
    <2> QED
        BY <1>3, <1>4, <2>1, <2>2
\* Nobody waits who could be released.
<1>14. ASSUME UNCHANGED <<writerVars, accepted, closed>>,
              Release \/ UNCHANGED <<woken, blocked>>
       PROVE  Streamed'
    <2>1. ~waited /\ ~shut /\ UNCHANGED <<buffer, written, at>>
        BY <1>14 DEF writerVars
    <2>2. woken = <<>> /\ blocked = <<>>
        BY <2>1 DEF Streamed
    <2>3. woken' = <<>> /\ blocked' = <<>>
        BY <1>14, <2>2, ConcatEmptySeq, EmptySeq DEF Release
    <2> QED
        BY <1>4, <1>14, <2>1, <2>3
<1>15. CASE PostSucceeds \/ PostRefused
    BY <1>14, <1>15 DEF PostSucceeds, PostRefused, Done
<1>16. CASE PostFails
    BY <1>14, <1>16 DEF PostFails, Failed, GiveUp, Requeue
<1>17. CASE SleepEnds \/ LateArrival
    BY <1>14, <1>17 DEF SleepEnds, BackoffOver, LateArrival
<1>18. CASE UNCHANGED vars
    BY <1>14, <1>18 DEF vars, uploaderVars
<1>19. CASE Superseded \/ CloseCCR \/ ShutHybrid \/ CloseHybrid
    BY <1>19 DEF Superseded, CloseCCR, ShutHybrid, CloseHybrid, writerVars
<1> QED
    BY <1>5, <1>6, <1>7, <1>8, <1>9, <1>10, <1>11, <1>12, <1>13, <1>15, <1>16,
       <1>17, <1>18, <1>19
    DEF Next, Write, GoesOn, Answer


-----------------------------------------------------------------------------
(* What the server keeps of a batch *)

LEMMA ArrivedTyped ==
    ASSUME NEW S, log \in Seq(S), NEW s \in Seq(S)
    PROVE  Arrived(s) \in Seq(S)
<1>1. PickedFrom(s, {i \in DOMAIN s : s[i] \notin Items(log)}) \in Seq(S)
    BY PickedTyped
<1> QED
    BY <1>1, ConcatProperties DEF Arrived

-----------------------------------------------------------------------------
(* Types *)

QueueTyped ==
    /\ pending \in Seq(Messages) /\ batch \in Seq(Messages)
    /\ accepted \in Seq(Messages) /\ log \in Seq(Messages)
    /\ settled \subseteq Messages
    /\ \A w \in wire : w \in Seq(Messages)
    /\ blocked \in Seq(Call) /\ woken \in Seq(Call)

WriterTyped == buffer \in Seq(Messages) /\ written \in Seq(Messages)

\* failures: a batch that has failed as often as it may is given up.
CountersTyped ==
    /\ setup \in Workloads
    /\ failures \in Nat
    /\ setup.failures # 0 => failures < setup.failures
    /\ faults \in 0..MaxFaults
    /\ closed \in BOOLEAN /\ shut \in BOOLEAN
    /\ timer \in BOOLEAN /\ waited \in BOOLEAN

TInv == QueueTyped /\ WriterTyped /\ CountersTyped

LEMMA ItemsOfSeq ==
    ASSUME NEW S, NEW s \in Seq(S)
    PROVE  Items(s) \subseteq S
<1>1. DOMAIN s = 1..Len(s) /\ \A i \in 1..Len(s) : s[i] \in S
    BY LenProperties, ElementOfSeq
<1> QED
    BY <1>1 DEF Items

\* A batch is cut from the queue.
LEMMA SendTyped ==
    ASSUME NEW S, NEW queue \in Seq(S), setup \in Workload, Send(queue)
    PROVE  pending' \in Seq(S) /\ batch' \in Seq(S)
<1>1. PICK n \in BatchSizes(queue) :
            /\ batch' = SubSeq(queue, 1, n)
            /\ pending' = SubSeq(queue, n + 1, Len(queue))
    BY DEF Send
<1>2. Len(queue) \in Nat /\ \A i \in 1..Len(queue) : queue[i] \in S
    BY LenProperties, ElementOfSeq
<1>3. n \in 0..Len(queue)
    BY <1>2 DEF BatchSizes, Workload
<1>4. \A i \in 1..n : queue[i] \in S
    BY <1>2, <1>3
<1>5. \A i \in (n + 1)..Len(queue) : queue[i] \in S
    BY <1>2, <1>3
<1>6. SubSeq(queue, 1, n) \in Seq(S)
    BY <1>3, <1>4, SubSeqProperties
<1>7. SubSeq(queue, n + 1, Len(queue)) \in Seq(S)
    BY <1>2, <1>3, <1>5, SubSeqProperties
<1> QED
    BY <1>1, <1>6, <1>7

LEMMA LoopOnTyped ==
    ASSUME NEW S, pending \in Seq(S), setup \in Workload, LoopOn
    PROVE  pending' \in Seq(S) /\ batch' \in Seq(S)
<1>1. CASE pending # <<>> /\ ~closed
    BY <1>1, SendTyped DEF LoopOn
<1>2. CASE ~(pending # <<>> /\ ~closed)
    BY <1>2, EmptySeq DEF LoopOn, Leave
<1> QED
    BY <1>1, <1>2

LEMMA ReleasedTyped ==
    ASSUME NEW S, woken \in Seq(S), blocked \in Seq(S),
           Release \/ UNCHANGED <<woken, blocked>>
    PROVE  woken' \in Seq(S) /\ blocked' \in Seq(S)
<1>1. woken \o blocked \in Seq(S)
    BY ConcatProperties
<1>2. <<>> \in Seq(S)
    BY EmptySeq
<1> QED
    BY <1>1, <1>2 DEF Release

\* enqueue() of messages.
LEMMA EnqueueTyped ==
    ASSUME TInv, NEW c \in Call, Enqueue(c), woken' \in Seq(Call)
    PROVE  QueueTyped' /\ faults' = faults /\ closed' = closed
           /\ failures' \in {0, failures}
<1>1. UNCHANGED <<setup, closed, settled, log, wire, faults>>
    BY DEF Enqueue
<1>2. Messages' = Messages /\ Call' = Call /\ c.events \in Seq(Messages)
    BY <1>1 DEF Messages, Call
<1>3. blocked' \in Seq(Call)
    BY AppendProperties DEF TInv, QueueTyped, Enqueue
<1>4. /\ pending' \in Seq(Messages) /\ batch' \in Seq(Messages)
      /\ accepted' \in Seq(Messages) /\ failures' \in {0, failures}
    <2>1. CASE closed \/ c.events = <<>> \/ Blocks(c)
        BY <2>1 DEF TInv, QueueTyped, Enqueue
    <2>2. CASE ~(closed \/ c.events = <<>> \/ Blocks(c))
        <3>1. Push(c.events)
            BY <2>2 DEF Enqueue
        <3>2. /\ pending \o c.events \in Seq(Messages)
              /\ accepted \o c.events \in Seq(Messages)
            BY <1>2, ConcatProperties DEF TInv, QueueTyped
        <3>3. setup \in Workload
            BY WorkloadsAssumption DEF TInv, CountersTyped
        <3>4. CASE loop = "off"
            BY <3>1, <3>2, <3>3, <3>4, SendTyped DEF Push
        <3>5. CASE loop # "off"
            BY <3>1, <3>2, <3>5 DEF Push, TInv, QueueTyped
        <3> QED
            BY <3>4, <3>5
    <2> QED
        BY <2>1, <2>2
<1> QED
    BY <1>1, <1>2, <1>3, <1>4 DEF TInv, QueueTyped

LEMMA NextTInv ==
    ASSUME TInv, [Next]_vars
    PROVE  TInv'
<1>0. /\ setup \in Workload /\ setup' = setup /\ Messages' = Messages /\ Call' = Call
      /\ <<>> \in Seq(Messages)
    <2>1. setup' = setup
        BY DEF Next, Write, GoesOn, Answer, vars, uploaderVars, WriteStream,
               HybridWrite, CCRWrite, HybridFlush, CCRFlush, CCRWriteOwn,
               FlushUploader, Resume, StreamTimer, PostSucceeds, PostRefused,
               PostFails, Done, Failed, Superseded, SleepEnds, BackoffOver,
               LateArrival, CloseCCR, ShutHybrid, CloseHybrid, Close, Await,
               Enqueue
    <2> QED
        BY <2>1, WorkloadsAssumption, EmptySeq
        DEF TInv, CountersTyped, Messages, Call
<1>1. \A m \in Messages :
            /\ <<m>> \in Seq(Messages)
            /\ Append(buffer, m) \in Seq(Messages)
            /\ Append(written, m) \in Seq(Messages)
    BY AppendProperties DEF TInv, WriterTyped
\* A call is made.
<1>2. ASSUME NEW c \in Call, Enqueue(c), woken' \in Seq(Call),
             waited' = (waited \/ Blocks(c)), shut' = shut, timer' \in BOOLEAN,
             buffer' \in Seq(Messages), written' \in Seq(Messages)
      PROVE  TInv'
    <2>1. /\ QueueTyped' /\ faults' = faults /\ closed' = closed
          /\ failures' \in {0, failures}
        BY <1>2, EnqueueTyped
    <2>2. CountersTyped'
        <3>1. setup.failures \in Nat
            BY <1>0 DEF Workload
        <3>2. /\ failures' \in Nat
              /\ setup.failures # 0 => failures' < setup.failures
            BY <2>1, <3>1 DEF TInv, CountersTyped
        <3>3. waited' \in BOOLEAN
            BY <1>2 DEF TInv, CountersTyped
        <3> QED
            BY <1>0, <1>2, <2>1, <3>2, <3>3 DEF TInv, CountersTyped
    <2> QED
        BY <1>0, <1>2, <2>1, <2>2 DEF TInv, WriterTyped
<1>3. ASSUME NEW m \in Messages, WriteStream(m) PROVE TInv'
    <2>1. /\ buffer' = Append(buffer, m) /\ timer' = TRUE
          /\ written' = Append(written, m) /\ UNCHANGED <<uploaderVars, shut, waited>>
        BY <1>3 DEF WriteStream, Begins
    <2> QED
        BY <1>0, <1>1, <2>1
        DEF TInv, QueueTyped, WriterTyped, CountersTyped, uploaderVars
<1>4. ASSUME NEW m \in Messages, HybridWrite(m) PROVE TInv'
    <2> DEFINE c == [who |-> m, events |-> Append(buffer, m), then |-> "flush"]
    <2>1. c \in Call
        BY <1>1 DEF Call
    <2>2. /\ Enqueue(c) /\ waited' = (waited \/ Blocks(c)) /\ shut' = shut
          /\ buffer' = <<>> /\ timer' = FALSE /\ woken' = woken
          /\ written' = Append(written, m)
        BY <1>4 DEF HybridWrite, Begins, Await, TakeBuffer
    <2> HIDE DEF c
    <2> QED
        BY <1>0, <1>1, <1>2, <2>1, <2>2 DEF TInv, QueueTyped
<1>5. ASSUME NEW m \in Messages, CCRWrite(m) PROVE TInv'
    <2> DEFINE c == [who |-> m, events |-> buffer, then |-> "own"]
    <2>1. c \in Call
        BY DEF Call, TInv, WriterTyped
    <2>2. /\ Enqueue(c) /\ waited' = (waited \/ Blocks(c)) /\ shut' = shut
          /\ buffer' = <<>> /\ timer' = FALSE /\ woken' = woken
          /\ written' = Append(written, m)
        BY <1>5 DEF CCRWrite, Begins, Await, TakeBuffer
    <2> HIDE DEF c
    <2> QED
        BY <1>0, <1>1, <1>2, <2>1, <2>2 DEF TInv, QueueTyped
<1>6. ASSUME NEW m \in Messages, CCRWriteOwn(m) PROVE TInv'
    <2> DEFINE c == [who |-> m, events |-> <<m>>, then |-> "done"]
    <2>1. c \in Call
        BY <1>1 DEF Call
    <2>2. /\ Enqueue(c) /\ waited' = (waited \/ Blocks(c))
          /\ UNCHANGED <<shut, buffer, timer, woken, written>>
        BY <1>6 DEF CCRWriteOwn, Await
    <2> HIDE DEF c
    <2> QED
        BY <1>0, <1>2, <2>1, <2>2
        DEF TInv, QueueTyped, WriterTyped, CountersTyped
<1>7. ASSUME NEW m \in Messages, HybridFlush(m) PROVE TInv'
    <2> DEFINE c == [who |-> 0, events |-> buffer, then |-> "done"]
    <2>1. c \in Call
        BY DEF Call, TInv, WriterTyped
    <2>2. /\ Enqueue(c) /\ waited' = (waited \/ Blocks(c)) /\ shut' = shut
          /\ buffer' = <<>> /\ timer' = FALSE /\ woken' = woken
          /\ written' = written
        BY <1>7 DEF HybridFlush, Begins, TakeBuffer
    <2> HIDE DEF c
    <2> QED
        BY <1>0, <1>2, <2>1, <2>2 DEF TInv, QueueTyped, WriterTyped
<1>8. ASSUME NEW m \in Messages, CCRFlush(m) PROVE TInv'
    <2> DEFINE c == [who |-> m, events |-> buffer, then |-> "flush"]
    <2>1. c \in Call
        BY DEF Call, TInv, WriterTyped
    <2>2. /\ Enqueue(c) /\ waited' = (waited \/ Blocks(c)) /\ shut' = shut
          /\ buffer' = <<>> /\ timer' = FALSE /\ woken' = woken
          /\ written' = written
        BY <1>8 DEF CCRFlush, Begins, Await, TakeBuffer
    <2> HIDE DEF c
    <2> QED
        BY <1>0, <1>2, <2>1, <2>2 DEF TInv, QueueTyped, WriterTyped
<1>9. ASSUME NEW m \in Messages, FlushUploader(m) PROVE TInv'
    BY <1>0, <1>9
    DEF FlushUploader, TInv, QueueTyped, WriterTyped, CountersTyped
<1>10. CASE Resume
    <2>1. Head(woken) \in Call /\ Tail(woken) \in Seq(Call)
        BY <1>10, HeadTailProperties DEF Resume, TInv, QueueTyped
    <2>2. /\ Enqueue(Head(woken)) /\ waited' = (waited \/ Blocks(Head(woken)))
          /\ UNCHANGED <<shut, buffer, timer, written>> /\ woken' = Tail(woken)
        BY <1>10 DEF Resume, Await
    <2> QED
        BY <1>0, <1>2, <2>1, <2>2 DEF TInv, WriterTyped, CountersTyped
<1>11. CASE StreamTimer
    <2> DEFINE c == [who |-> 0, events |-> buffer, then |-> "done"]
    <2>1. c \in Call
        BY DEF Call, TInv, WriterTyped
    <2>2. /\ Enqueue(c) /\ waited' = (waited \/ Blocks(c)) /\ shut' = shut
          /\ buffer' = <<>> /\ timer' = FALSE /\ woken' = woken
          /\ written' = written
        BY <1>11 DEF StreamTimer, Await, TakeBuffer
    <2> HIDE DEF c
    <2> QED
        BY <1>0, <1>2, <2>1, <2>2 DEF TInv, QueueTyped, WriterTyped
\* The loop goes on.
<1>12. ASSUME LoopOn, UNCHANGED <<writerVars, accepted, closed>>,
              Release \/ UNCHANGED <<woken, blocked>>,
              failures' \in {0, failures}, faults' \in 0..MaxFaults,
              log' \in Seq(Messages), settled' \subseteq Messages,
              \A w \in wire' : w \in Seq(Messages)
       PROVE  TInv'
    <2>1. pending' \in Seq(Messages) /\ batch' \in Seq(Messages)
        BY <1>0, <1>12, LoopOnTyped DEF TInv, QueueTyped
    <2>2. woken' \in Seq(Call) /\ blocked' \in Seq(Call)
        BY <1>12, ReleasedTyped DEF TInv, QueueTyped
    <2>3. QueueTyped'
        BY <1>0, <1>12, <2>1, <2>2 DEF TInv, QueueTyped
    <2>4. CountersTyped'
        <3>1. setup.failures \in Nat
            BY <1>0 DEF Workload
        <3>2. /\ failures' \in Nat
              /\ setup.failures # 0 => failures' < setup.failures
            BY <1>12, <3>1 DEF TInv, CountersTyped
        <3> QED
            BY <1>0, <1>12, <3>2 DEF TInv, CountersTyped, writerVars
    <2> QED
        BY <1>0, <1>12, <2>3, <2>4 DEF TInv, WriterTyped, writerVars
<1>13. Items(batch) \subseteq Messages /\ Items(pending) \subseteq Messages
    BY ItemsOfSeq DEF TInv, QueueTyped
<1>14. CASE PostSucceeds
    <2>1. /\ LoopOn /\ Release /\ failures' = 0 /\ log' = Arrived(batch)
          /\ UNCHANGED <<writerVars, accepted, closed, settled, wire, faults>>
        BY <1>14 DEF PostSucceeds, Done
    <2>2. Arrived(batch) \in Seq(Messages)
        BY ArrivedTyped DEF TInv, QueueTyped
    <2> QED
        BY <1>12, <2>1, <2>2 DEF TInv, QueueTyped, CountersTyped
<1>15. CASE PostRefused
    <2>1. /\ LoopOn /\ Release /\ failures' = 0
          /\ settled' = settled \union Items(batch)
          /\ UNCHANGED <<writerVars, accepted, closed, log, wire, faults>>
        BY <1>15 DEF PostRefused, Done
    <2> QED
        BY <1>12, <1>13, <2>1 DEF TInv, QueueTyped, CountersTyped
<1>16. CASE PostFails
    <2>1. /\ UNCHANGED <<writerVars, accepted, closed, log>>
          /\ faults < MaxFaults /\ faults' = faults + 1
          /\ wire' \in {wire, wire \union {batch}}
        BY <1>16 DEF PostFails, Failed
    <2>2. faults' \in 0..MaxFaults
        BY <2>1, FaultsAssumption DEF TInv, CountersTyped
    <2>3. \A w \in wire' : w \in Seq(Messages)
        BY <2>1 DEF TInv, QueueTyped
    <2>4. CASE GiveUp
        BY <1>12, <1>13, <2>1, <2>2, <2>3, <2>4 DEF GiveUp, TInv, QueueTyped
    <2>5. CASE Requeue
        <3>1. QueueTyped'
            BY <1>0, <2>1, <2>3, <2>5, ConcatProperties DEF Requeue, TInv, QueueTyped
        <3>2. CountersTyped'
            BY <1>0, <2>1, <2>2, <2>5
            DEF Requeue, TInv, CountersTyped, writerVars, Workload
        <3> QED
            BY <1>0, <2>1, <3>1, <3>2 DEF TInv, WriterTyped, writerVars
    <2> QED
        BY <1>16, <2>4, <2>5 DEF PostFails, Failed
<1>17. CASE Superseded
    <2>1. /\ setup.transport = "ccr" /\ shut' = TRUE /\ closed' = TRUE
          /\ buffer' = <<>> /\ timer' = FALSE
          /\ settled' = settled \union Items(pending)
          /\ pending' = batch /\ batch' = <<>> /\ failures' = failures + 1
          /\ Release
          /\ UNCHANGED <<accepted, log, wire, faults, written, waited>>
        BY <1>17 DEF Superseded, TakeBuffer, Release
    <2>2. woken' \in Seq(Call) /\ blocked' \in Seq(Call)
        BY <2>1, ReleasedTyped DEF TInv, QueueTyped
    <2>3. QueueTyped'
        BY <1>0, <1>13, <2>1, <2>2 DEF TInv, QueueTyped
    <2>4. CountersTyped'
        <3>1. setup.failures = 0
            BY <1>0, <2>1 DEF Workload
        <3>2. failures' \in Nat /\ (setup'.failures # 0 => failures' < setup'.failures)
            BY <1>0, <2>1, <3>1 DEF TInv, CountersTyped
        <3>3. setup' \in Workloads /\ faults' \in 0..MaxFaults
            BY <1>0, <2>1 DEF TInv, CountersTyped
        <3>4. /\ closed' \in BOOLEAN /\ shut' \in BOOLEAN
              /\ timer' \in BOOLEAN /\ waited' \in BOOLEAN
            BY <2>1 DEF TInv, CountersTyped
        <3> QED
            BY <3>2, <3>3, <3>4 DEF CountersTyped
    <2> QED
        BY <1>0, <2>1, <2>3, <2>4 DEF TInv, WriterTyped
<1>18. CASE SleepEnds
    <2>1. /\ LoopOn
          /\ UNCHANGED <<writerVars, accepted, closed, failures, woken, blocked,
                         settled, log, wire, faults>>
        BY <1>18 DEF SleepEnds, BackoffOver
    <2> QED
        BY <1>12, <2>1 DEF TInv, QueueTyped, CountersTyped
<1>19. CASE LateArrival
    <2>1. PICK w \in wire : log' = Arrived(w) /\ wire' = wire \ {w}
        BY <1>19 DEF LateArrival
    <2>2. Arrived(w) \in Seq(Messages)
        BY ArrivedTyped DEF TInv, QueueTyped
    <2> QED
        BY <1>0, <1>19, <2>1, <2>2
        DEF LateArrival, writerVars, TInv, QueueTyped, WriterTyped, CountersTyped
<1>20. ASSUME Close, batch' = batch, buffer' \in Seq(Messages), written' = written,
              shut' \in BOOLEAN, timer' \in BOOLEAN, waited' = waited
       PROVE  TInv'
    <2>1. /\ closed' = TRUE /\ settled' = settled \union Items(pending)
          /\ pending' = <<>> /\ Release
          /\ UNCHANGED <<accepted, failures, faults, log, wire>>
        BY <1>20 DEF Close, Release
    <2>2. woken' \in Seq(Call) /\ blocked' \in Seq(Call)
        BY <2>1, ReleasedTyped DEF TInv, QueueTyped
    <2>3. QueueTyped'
        BY <1>0, <1>13, <1>20, <2>1, <2>2 DEF TInv, QueueTyped
    <2>4. CountersTyped'
        BY <1>0, <1>20, <2>1 DEF TInv, CountersTyped
    <2> QED
        BY <1>0, <1>20, <2>3, <2>4 DEF TInv, WriterTyped
<1>21. CASE CloseCCR
    BY <1>0, <1>20, <1>21 DEF CloseCCR, TakeBuffer, TInv, WriterTyped
<1>22. CASE ShutHybrid
    BY <1>0, <1>22 DEF ShutHybrid, TakeBuffer, uploaderVars, TInv, QueueTyped,
                       WriterTyped, CountersTyped
<1>23. CASE CloseHybrid
    BY <1>20, <1>23 DEF CloseHybrid, writerVars, TInv, WriterTyped, CountersTyped
<1>24. CASE UNCHANGED vars
    BY <1>0, <1>24 DEF vars, writerVars, uploaderVars, TInv, QueueTyped,
                       WriterTyped, CountersTyped
<1> QED
    BY <1>3, <1>4, <1>5, <1>6, <1>7, <1>8, <1>9, <1>10, <1>11, <1>14, <1>15,
       <1>16, <1>17, <1>18, <1>19, <1>21, <1>22, <1>23, <1>24
    DEF Next, Write, GoesOn, Answer

LEMMA InitTInv == Init => TInv
<1> SUFFICES ASSUME Init PROVE TInv
    OBVIOUS
<1>1. <<>> \in Seq(Messages) /\ <<>> \in Seq(Call)
    BY EmptySeq
<1>2. setup \in Workloads /\ setup.failures \in Nat
    BY WorkloadsAssumption DEF Init, UploaderInit, Workload
<1>3. QueueTyped /\ WriterTyped
    BY <1>1 DEF Init, UploaderInit, QueueTyped, WriterTyped
<1>4. failures = 0 /\ (setup.failures # 0 => failures < setup.failures)
    BY <1>2 DEF Init, UploaderInit
<1>5. faults \in 0..MaxFaults
    BY FaultsAssumption DEF Init, UploaderInit
<1>6. /\ closed \in BOOLEAN /\ shut \in BOOLEAN
      /\ timer \in BOOLEAN /\ waited \in BOOLEAN
    BY DEF Init, UploaderInit
<1>7. CountersTyped
    BY <1>2, <1>4, <1>5, <1>6 DEF CountersTyped
<1> QED
    BY <1>3, <1>7 DEF TInv

-----------------------------------------------------------------------------
(* Types, and what is sent first *)

\* Every variable has its type: queues, batches in flight and the server's log
\* hold messages only, and before each attempt a batch has failed less often
\* than maxConsecutiveFailures allows, over any number of failed POSTs.
THEOREM TypeCorrect == Spec => []TypeOK
<1>1. OInv /\ Flushed /\ TInv => TypeOK
    <2> SUFFICES ASSUME OInv, Flushed, TInv PROVE TypeOK
        OBVIOUS
    <2>1. ASSUME NEW s, s \in Seq(Call), NEW i \in DOMAIN s PROVE s[i] \in Call
        BY <2>1, LenProperties, ElementOfSeq
    <2>2. due \in [Messages -> 0..Len(accepted)]
        <3>1. Len(accepted) \in Nat
            BY LenProperties DEF TInv, QueueTyped
        <3> QED
            BY <3>1 DEF Flushed
    <2>3. /\ at \in [Messages -> {"new", "blocked", "own", "flush", "done"}]
          /\ loop \in {"off", "sending", "backoff"}
        BY DEF OInv, IInv, TypedQueue, Located, Places
    <2>4. \A s \in {blocked, woken} : \A i \in DOMAIN s : s[i] \in Call
        BY <2>1 DEF TInv, QueueTyped
    <2> QED
        BY <2>2, <2>3, <2>4
        DEF TypeOK, Flushed, TInv, QueueTyped, WriterTyped, CountersTyped
<1>2. Init => OInv /\ Flushed /\ TInv
    BY InitOInv, InitFlushed, InitTInv
<1>3. OInv /\ Flushed /\ TInv /\ [Next]_vars => OInv' /\ Flushed' /\ TInv'
    BY NextOInv, NextFlushed, NextTInv
<1> QED
    BY <1>1, <1>2, <1>3, PTL DEF Spec

\* As long as no call had to wait for room and the transport is not closed, a
\* stream event is accepted before any other message that was written after it,
\* however write(), flush(), their continuations, the timer of the buffer and
\* the answers of the server interleave.
THEOREM StreamsFirst == Spec => []StreamBeforeWrite
<1>1. OInv /\ TInv /\ WrittenOnce /\ Streamed => StreamBeforeWrite
    <2> SUFFICES ASSUME OInv, TInv, WrittenOnce, Streamed, ~waited, ~shut,
                        NEW s \in Items(written), NEW w \in Items(accepted),
                        Kind(s) = "stream", Kind(w) = "write",
                        Position(s) < Position(w)
                 PROVE  \E i, j \in DOMAIN accepted :
                            i < j /\ accepted[i] = s /\ accepted[j] = w
        BY DEF StreamBeforeWrite, Kind
    <2>1. /\ written \in Events /\ DOMAIN written = 1..Len(written)
          /\ accepted \in Events /\ DOMAIN accepted = 1..Len(accepted)
        BY EventsTyped, LenProperties DEF OInv, Located, WrittenOnce, Events
    <2>2. w \in Elements(accepted)
        BY <2>1 DEF Items, Elements
    <2>3. ASSUME NEW m \in Items(written)
          PROVE  Position(m) \in 1..Len(written) /\ written[Position(m)] = m
        <3>1. \E i \in DOMAIN written : written[i] = m
            BY DEF Items
        <3> QED
            BY <2>1, <3>1 DEF Position
    <2>4. w \in Items(written)
        <3>1. w \in Messages
            BY <2>2, ElementOfSeq DEF Elements, TInv, QueueTyped
        <3>2. at[w] # "new"
            BY <2>2, <3>1 DEF OInv, Located, Placed, Once, Nowhere
        <3>3. w \in Elements(written)
            BY <3>1, <3>2 DEF WrittenOnce
        <3> QED
            BY <2>1, <3>3 DEF Items, Elements
    <2>5. Before(s, w, accepted)
        BY <2>2, <2>3, <2>4 DEF Streamed
    <2> QED
        BY <2>1, <2>5 DEF Before
<1>2. Init => OInv /\ TInv /\ WrittenOnce /\ Streamed
    <2> SUFFICES ASSUME Init PROVE OInv /\ TInv /\ WrittenOnce /\ Streamed
        OBVIOUS
    <2>1. /\ written = <<>> /\ buffer = <<>> /\ accepted = <<>>
          /\ woken = <<>> /\ blocked = <<>> /\ closed = FALSE
          /\ \A m \in Messages : at[m] = "new"
        BY DEF Init, UploaderInit
    <2>2. /\ <<>> \in Events /\ Elements(<<>>) = {} /\ Single(<<>>)
          /\ 1..Len(<<>>) = {}
        BY EmptySeq, ElementsOfNone DEF Events, Single
    <2>3. WrittenOnce
        BY <2>1, <2>2 DEF WrittenOnce
    <2>4. Streamed
        BY <2>1, <2>2 DEF Streamed
    <2> QED
        BY <2>3, <2>4, InitOInv, InitTInv
<1>3. OInv /\ TInv /\ WrittenOnce /\ Streamed /\ [Next]_vars
      => OInv' /\ TInv' /\ WrittenOnce' /\ Streamed'
    BY NextOInv, NextTInv, NextWritten, NextStreamed
<1> QED
    BY <1>1, <1>2, <1>3, PTL DEF Spec
=============================================================================
