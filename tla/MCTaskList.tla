----------------------------- MODULE MCTaskList -----------------------------
(* Instances of TaskList for TLC *)
EXTENDS TaskList

CONSTANTS a1, a2, none

One == {a1}
Two == {a1, a2}
=============================================================================
