------------------------------- MODULE Inbox -------------------------------
(***************************************************************************)
(* What a teammate's inbox promises: messages are only ever added, at the  *)
(* end, and a message that was marked as read stays so, unless the whole   *)
(* inbox is lost.                                                          *)
(***************************************************************************)
EXTENDS Naturals, Sequences

CONSTANT Message

VARIABLES
    entries,   \* the messages, each with its read flag
    losses     \* how often all of them were lost

vars == <<entries, losses>>

Init == entries = <<>> /\ losses = 0

Post ==
    LET last == Len(entries) + 1
    IN  /\ DOMAIN entries' = 1..last
        /\ \A i \in DOMAIN entries : entries'[i] = entries[i]
        /\ entries'[last].id \in Message /\ entries'[last].read = FALSE
        /\ UNCHANGED losses

Mark ==
    /\ DOMAIN entries' = DOMAIN entries
    /\ \A i \in DOMAIN entries :
          entries'[i] \in {entries[i], [entries[i] EXCEPT !.read = TRUE]}
    /\ UNCHANGED losses

Lose == entries' = <<>> /\ losses' = losses + 1

Next == Post \/ Mark \/ Lose

Spec == Init /\ [][Next]_vars
=============================================================================
