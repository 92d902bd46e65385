----------------------------- MODULE MCMailbox -----------------------------
(* Instances of Mailbox for TLC *)
EXTENDS Mailbox

Of(owner, made, sends) ==
    [owner |-> owner, exists |-> made, sends |-> sends]

\* Two senders at a time, or one that creates the inbox.
Small ==
    {Of("runner", TRUE, <<<<"peer", "peer">>, <<"lead", "shutdown", "lead">>>>),
     Of("runner", FALSE, <<<<"peer", "lead", "peer">>>>),
     Of("print", TRUE, <<<<"peer", "peer">>, <<"peer", "peer">>>>),
     Of("poller", TRUE, <<<<"peer", "peer">>, <<"peer">>>>)}

\* The screen of a lead that one teammate writes to.
Screen == {Of("poller", TRUE, <<<<"peer", "peer">>>>)}

\* Two teammates are the first to write to an inbox: NothingLost and FileIsInbox
\* fail (see the README).
FirstWriters == {Of("runner", FALSE, <<<<"peer">>, <<"peer">>>>)}
=============================================================================
