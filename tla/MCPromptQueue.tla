--------------------------- MODULE MCPromptQueue ---------------------------
(* Instances of PromptQueue for TLC *)
EXTENDS PromptQueue

Cmd(i, mode, prio, main, meta) ==
    [id |-> i, mode |-> mode, prio |-> prio, main |-> main, meta |-> meta,
     copy |-> 0]

Prompt   == Cmd(1, "prompt", 1, TRUE, FALSE)
Slash    == Cmd(2, "slash", 1, TRUE, FALSE)
Bash     == Cmd(3, "bash", 1, TRUE, FALSE)
Subagent == Cmd(4, "notification", 1, FALSE, FALSE)
Mate     == Cmd(5, "teammate", 1, TRUE, FALSE)
Finished == Cmd(6, "notification", 2, TRUE, FALSE)

\* Small sessions that between them bring every kind of command together with
\* those it can race with.
Sessions ==
    {{Prompt, Bash, Subagent}, {Prompt, Slash, Mate},
     {Prompt, Finished, Mate}}
=============================================================================
