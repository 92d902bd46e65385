------------------------------ MODULE OneTurn ------------------------------
(***************************************************************************)
(* What the query guard promises: turns follow one another.  A turn begins *)
(* only when no other is under way, and it is over when its query ends or  *)
(* when the user cancels it.                                               *)
(***************************************************************************)
CONSTANT Chains     \* whoever may run a turn

VARIABLE turns      \* the turns under way

Init == turns = {}

Begin(c) == turns = {} /\ turns' = {c}

End(c) == turns = {c} /\ turns' = {}

Next == \E c \in Chains : Begin(c) \/ End(c)

Spec == Init /\ [][Next]_turns
=============================================================================
