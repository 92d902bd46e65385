---------------------------- MODULE EventChannel ----------------------------
(***************************************************************************)
(* What an event uploader promises: events leave it in the order in which  *)
(* they were accepted, none is skipped and none leaves twice, and nothing  *)
(* is accepted once it is closed.                                          *)
(***************************************************************************)
EXTENDS Naturals, Sequences

CONSTANT Event

VARIABLES
    waiting,   \* the events accepted and not yet settled, oldest first
    open

vars == <<waiting, open>>

Init == waiting = <<>> /\ open = TRUE

\* New events are put behind the others.
Accept ==
    /\ open
    /\ waiting' \in Seq(Event)
    /\ Len(waiting') >= Len(waiting)
    /\ SubSeq(waiting', 1, Len(waiting)) = waiting
    /\ UNCHANGED open

\* The oldest events are done with: delivered, or given up.
Settle ==
    /\ \E n \in 0..Len(waiting) :
            waiting' = SubSeq(waiting, n + 1, Len(waiting))
    /\ UNCHANGED open

\* What is on its way may still arrive; the rest is abandoned.
Close ==
    /\ open
    /\ open' = FALSE
    /\ \E n \in 0..Len(waiting) : waiting' = SubSeq(waiting, 1, n)

Next == Accept \/ Settle \/ Close

Spec == Init /\ [][Next]_vars
=============================================================================
