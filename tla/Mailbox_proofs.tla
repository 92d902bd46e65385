--------------------------- MODULE Mailbox_proofs ---------------------------
(***************************************************************************)
(* An inbox that exists stays an inbox, for any number of senders and      *)
(* polls, as long as no write is torn; until then no message to an         *)
(* in-process teammate is lost; and unless something fails the runner and  *)
(* print mode deliver in the order of sending.                             *)
(***************************************************************************)
EXTENDS Mailbox, Selection_proofs, TLAPS

Id == Nat \X Nat

Row == [id : Id, read : BOOLEAN]

Places == {"idle", "lock", "read", "truncate", "write", "unlock", "dead"}

Typed ==
    /\ team \in Team
    /\ exists = TRUE /\ content \in Seq(Row)
    /\ text \in {"json", "empty"} /\ lock \in {0} \union Processes
    /\ pc \in [Processes -> Places]
    /\ buffer \in [Processes -> Seq(Row)]
    /\ begun \in [Senders -> Nat]
    /\ marking \in [Polls -> Nat]
    /\ torn \in Nat

\* Who stands between taking the lock and giving it back holds it, and nobody
\* else does but one who died there.
Holding == {"read", "truncate", "write", "unlock"}

Locked ==
    \A p \in Processes :
        /\ pc[p] \in Holding => lock = p
        /\ lock = p => pc[p] \in Holding \union {"dead"}

\* The file is empty while somebody writes it, and when nobody came to.
Whole ==
    /\ text = "json" => \A p \in Processes : pc[p] # "write"
    /\ text = "empty" => content = <<>>

\* What is about to be written is the file with one message more, or with
\* messages marked.
OneMore(old, new) ==
    /\ DOMAIN new = 1..(Len(old) + 1)
    /\ \A i \in DOMAIN old : new[i] = old[i]
    /\ new[Len(old) + 1].id \in Id /\ new[Len(old) + 1].read = FALSE

Marked(old, new) ==
    /\ DOMAIN new = DOMAIN old
    /\ \A i \in DOMAIN old :
          new[i] \in {old[i], [old[i] EXCEPT !.read = TRUE]}

Prepared ==
    \A p \in Processes : pc[p] = "truncate" =>
        OneMore(content, buffer[p]) \/ Marked(content, buffer[p])

IInv == Typed /\ Locked /\ Whole /\ Prepared

-----------------------------------------------------------------------------
(* Entries *)

LEMMA ProcessesAreNumbers ==
    ASSUME team \in Team
    PROVE  /\ Senders \subseteq Nat \ {0} /\ Polls \subseteq Nat \ {0}
           /\ Senders \intersect Polls = {}
BY DEF Team, Senders, Polls

\* At most one process writes.
LEMMA OneWriter ==
    ASSUME IInv, NEW p \in Processes, NEW q \in Processes,
           pc[p] \in Holding, pc[q] \in Holding
    PROVE  p = q
BY DEF IInv, Locked, Holding

LEMMA EntriesWritten ==
    IInv => \A p \in Processes : pc[p] = "write" => Entries = buffer[p]
<1> SUFFICES ASSUME IInv, NEW p \in Processes, pc[p] = "write"
             PROVE  Entries = buffer[p]
    OBVIOUS
<1>1. {q \in Processes : pc[q] = "write"} = {p}
    BY OneWriter DEF Holding
<1> QED
    BY <1>1 DEF Entries

LEMMA EntriesStored ==
    (\A p \in Processes : pc[p] # "write") => Entries = content
BY DEF Entries

\* What a process has read is the inbox.
LEMMA ReadIsContent ==
    ASSUME IInv, NEW p \in Processes, pc[p] = "read"
    PROVE  ReadMailbox = content
BY DEF ReadMailbox, IInv, Whole, Typed

-----------------------------------------------------------------------------
(* The steps *)

LEMMA AppendOne ==
    ASSUME NEW old \in Seq(Row), NEW e \in Row, e.read = FALSE
    PROVE  Append(old, e) \in Seq(Row) /\ OneMore(old, Append(old, e))
BY DEF OneMore, Row

LEMMA ChangedIsStep ==
    ASSUME IInv, NEW p \in Processes
    PROVE  /\ Changed(p, content) \in Seq(Row)
           /\ OneMore(content, Changed(p, content))
                 \/ Marked(content, Changed(p, content))
<1>0. content \in Seq(Row) BY DEF IInv, Typed
<1>1. CASE p \in Senders
  <2>1. NewEntry(p) \in Row /\ NewEntry(p).read = FALSE
      BY <1>1, ProcessesAreNumbers DEF NewEntry, Row, Id, IInv, Typed
  <2> QED
      BY <1>0, <1>1, <2>1, AppendOne DEF Changed
<1>2. CASE p \notin Senders
  <2> DEFINE new == [i \in DOMAIN content |->
                        IF marking[p] \in {0, i}
                        THEN [content[i] EXCEPT !.read = TRUE]
                        ELSE content[i]]
  <2>1. Changed(p, content) = new
      BY <1>2 DEF Changed
  <2>2. DOMAIN content = 1..Len(content) /\ Len(content) \in Nat
      BY <1>0
  <2>3. \A i \in DOMAIN content :
            /\ new[i] \in Row
            /\ new[i] \in {content[i], [content[i] EXCEPT !.read = TRUE]}
    <3>1. \A e \in Row : [e EXCEPT !.read = TRUE] \in Row
        BY DEF Row
    <3>2. \A i \in DOMAIN content : content[i] \in Row
        BY <1>0
    <3> QED
        BY <3>1, <3>2
  <2>4. new \in [1..Len(content) -> Row]
      BY <2>2, <2>3
  <2>5. new \in Seq(Row)
      BY <2>2, <2>4
  <2> HIDE DEF new
  <2>6. DOMAIN new = DOMAIN content
      BY <2>2, <2>4
  <2> QED
      BY <2>1, <2>3, <2>5, <2>6 DEF Marked
<1> QED
    BY <1>1, <1>2

\* A step that neither begins nor ends a write leaves the file as it was.
LEMMA NoWriteStep ==
    ASSUME IInv, Typed', Processes' = Processes, content' = content,
           text' = text,
           \A p \in Processes : pc'[p] = "write" <=> pc[p] = "write",
           \A p \in Processes : pc[p] = "write" => buffer'[p] = buffer[p]
    PROVE  Whole' /\ Entries' = Entries
<1>1. Whole'
    BY DEF IInv, Whole
<1>2. CASE \A p \in Processes : pc[p] # "write"
  <2>1. {p \in Processes : pc[p] = "write"} = {}
      BY <1>2
  <2>2. {p \in Processes : pc[p] = "write"}' = {}
      BY <1>2
  <2> QED
      BY <1>1, <2>1, <2>2 DEF Entries
<1>3. CASE \E p \in Processes : pc[p] = "write"
  <2>1. PICK p \in Processes : pc[p] = "write"
      BY <1>3
  <2>2. {q \in Processes : pc[q] = "write"} = {p}
      BY <2>1, OneWriter DEF Holding
  <2>3. {q \in Processes : pc[q] = "write"}' = {p}
      BY <2>2
  <2>4. buffer'[p] = buffer[p]
      BY <2>1
  <2>5. Entries = buffer[p]
      BY <2>2 DEF Entries
  <2>6. Entries' = buffer'[p]
      BY <2>3 DEF Entries
  <2> QED
      BY <1>1, <2>4, <2>5, <2>6
<1> QED
    BY <1>1, <1>2, <1>3

\* When a write does not come to its end the inbox is lost.
LEMMA WriterLost ==
    ASSUME IInv, NEW p \in Processes, pc[p] = "write",
           Processes' = Processes, content' = content, text' = text,
           \A q \in Processes : q # p => pc'[q] = pc[q],
           pc'[p] # "write"
    PROVE  Whole' /\ Entries' = <<>>
<1>1. text = "empty" /\ content = <<>>
    BY DEF IInv, Typed, Whole
<1>2. \A q \in Processes : pc'[q] # "write"
    BY OneWriter DEF Holding
<1>3. {q \in Processes : pc[q] = "write"}' = {}
    BY <1>2
<1> QED
    BY <1>1, <1>3 DEF Whole, Entries

\* What a step does to the inbox.
Steps ==
    \/ UNCHANGED <<Entries, torn>>
    \/ OneMore(Entries, Entries') /\ UNCHANGED torn
    \/ Marked(Entries, Entries') /\ UNCHANGED torn
    \/ Entries' = <<>> /\ torn' = torn + 1

LEMMA InitKeeps == Init /\ exists => IInv
<1> SUFFICES ASSUME Init, exists PROVE IInv
    OBVIOUS
<1>1. team \in Team
    BY TeamsAssumption DEF Init
<1>2. exists = TRUE
    BY <1>1 DEF Init, Team
<1>3. Typed
    BY <1>1, <1>2 DEF Init, Typed, Places
<1>4. \A p \in Processes : p # 0
    BY <1>1, ProcessesAreNumbers DEF Processes
<1>5. /\ \A p \in Processes : pc[p] = "idle"
      /\ lock = 0 /\ text = "json" /\ content = <<>>
    BY DEF Init
<1>6. Locked /\ Whole /\ Prepared
    BY <1>4, <1>5 DEF Holding, Locked, Whole, Prepared
<1> QED
    BY <1>3, <1>6 DEF IInv

LEMMA NextKeeps ==
    ASSUME IInv, [Next]_vars
    PROVE  IInv' /\ Steps
<1> USE DEF IInv, Typed
<1>0. /\ team' = team => Senders' = Senders /\ Polls' = Polls
                            /\ Processes' = Processes
      /\ Senders \subseteq Processes /\ Polls \subseteq Processes
      /\ \A p \in Processes : p # 0
    BY ProcessesAreNumbers DEF Processes, Senders, Polls
<1>1. CASE \E s \in Senders : Begin(s)
  <2> PICK s \in Senders : Begin(s)
      BY <1>1
  <2>1. /\ team' = team /\ exists' = exists /\ content' = content
        /\ text' = text /\ lock' = lock /\ buffer' = buffer
        /\ torn' = torn
        /\ marking' = marking
        /\ pc[s] = "idle" /\ pc' = [pc EXCEPT ![s] = "lock"]
        /\ begun' = [begun EXCEPT ![s] = @ + 1]
      BY DEF Begin, Goto, ownerVars
  <2>2. Typed'
      BY <1>0, <2>1 DEF Places
  <2>3. Locked' /\ Prepared'
      BY <1>0, <2>1 DEF Holding, Locked, Prepared
  <2> QED
      BY <1>0, <2>1, <2>2, <2>3, NoWriteStep DEF Steps
<1>2. CASE \E s \in Senders : Create(s)
    BY <1>0, <1>2 DEF Create, Places
<1>3. CASE \E p \in Polls : Poll(p)
  <2> PICK p \in Polls : Poll(p)
      BY <1>3
  <2>1. /\ team' = team /\ exists' = exists /\ content' = content
        /\ text' = text /\ lock' = lock /\ buffer' = buffer
        /\ torn' = torn
        /\ begun' = begun
        /\ pc[p] = "idle" /\ pc' = [pc EXCEPT ![p] = "lock"]
      BY DEF Poll, Goto, fileVars
  <2>2. ReadMailbox \in Seq(Row)
      BY DEF ReadMailbox
  <2>3. \A i \in Pick(ReadMailbox) : i \in Nat
      BY <2>2 DEF Pick, Unread
  <2>4. marking' \in [Polls -> Nat]
    <3>1. \E v \in Nat : marking' = [marking EXCEPT ![p] = v]
      <4>1. CASE RunnerPolls(p)
          BY <2>3, <4>1 DEF RunnerPolls, RunnerMarks
      <4>2. CASE PrintPolls(p)
          BY <4>2 DEF PrintPolls
      <4>3. CASE ScreenPolls(p)
          BY <4>3 DEF ScreenPolls
      <4> QED
          BY <4>1, <4>2, <4>3 DEF Poll
    <3> QED
        BY <3>1
  <2>5. Typed'
      BY <1>0, <2>1, <2>4 DEF Places
  <2>6. Locked' /\ Prepared'
      BY <1>0, <2>1 DEF Holding, Locked, Prepared
  <2> QED
      BY <1>0, <2>1, <2>5, <2>6, NoWriteStep DEF Steps
<1>4. CASE \E p \in Processes : Lock(p)
  <2> PICK p \in Processes : Lock(p)
      BY <1>4
  <2>1. /\ team' = team /\ exists' = exists /\ content' = content
        /\ text' = text /\ buffer' = buffer /\ torn' = torn
        /\ marking' = marking /\ begun' = begun
        /\ pc[p] = "lock" /\ pc' = [pc EXCEPT ![p] = "read"]
        /\ lock = 0 /\ lock' = p
      BY DEF Lock, Goto, ownerVars
  <2>2. Typed'
      BY <1>0, <2>1 DEF Places
  <2>3. Locked' /\ Prepared'
      BY <1>0, <2>1 DEF Holding, Locked, Prepared
  <2> QED
      BY <1>0, <2>1, <2>2, <2>3, NoWriteStep DEF Steps
<1>5. CASE \E p \in Processes : LockFails(p)
  <2> PICK p \in Processes : LockFails(p)
      BY <1>5
  <2>1. /\ team' = team /\ exists' = exists /\ content' = content
        /\ text' = text /\ lock' = lock /\ buffer' = buffer
        /\ torn' = torn
        /\ marking' = marking /\ begun' = begun
        /\ pc[p] = "lock" /\ pc' = [pc EXCEPT ![p] = "idle"]
      BY DEF LockFails, Return, Goto, fileVars
  <2>2. Typed'
      BY <1>0, <2>1 DEF Places
  <2>3. Locked' /\ Prepared'
      BY <1>0, <2>1 DEF Holding, Locked, Prepared
  <2> QED
      BY <1>0, <2>1, <2>2, <2>3, NoWriteStep DEF Steps
<1>6. CASE \E p \in Processes : Read(p)
  <2> PICK p \in Processes : Read(p)
      BY <1>6
  <2>1. /\ team' = team /\ exists' = exists /\ content' = content
        /\ text' = text /\ lock' = lock /\ torn' = torn
        /\ marking' = marking /\ begun' = begun
        /\ pc[p] = "read"
      BY DEF Read, fileVars, ownerVars
  <2>2. ReadMailbox = content
      BY <2>1, ReadIsContent
  <2>3. \/ pc' = [pc EXCEPT ![p] = "unlock"] /\ buffer' = buffer
        \/ /\ pc' = [pc EXCEPT ![p] = "truncate"]
           /\ buffer' = [buffer EXCEPT ![p] = Changed(p, content)]
      BY <2>2 DEF Read, Goto
  <2>4. Typed'
      BY <1>0, <2>1, <2>3, ChangedIsStep DEF Places
  <2>5. Locked'
      BY <1>0, <2>1, <2>3 DEF Holding, Locked
  <2>6. Prepared'
    <3> SUFFICES ASSUME NEW q \in Processes, pc'[q] = "truncate"
                 PROVE  \/ OneMore(content, buffer'[q])
                        \/ Marked(content, buffer'[q])
        BY <1>0, <2>1 DEF Prepared, OneMore, Marked
    <3>1. CASE q = p
        BY <2>3, <3>1, ChangedIsStep
    <3>2. CASE q # p
        BY <2>3, <3>2 DEF Prepared
    <3> QED
        BY <3>1, <3>2
  <2>7. /\ \A q \in Processes : pc'[q] = "write" <=> pc[q] = "write"
        /\ \A q \in Processes : pc[q] = "write" => buffer'[q] = buffer[q]
      BY <2>1, <2>3
  <2> QED
      BY <1>0, <2>1, <2>4, <2>5, <2>6, <2>7, NoWriteStep DEF Steps
<1>7. CASE \E p \in Processes : Truncate(p)
  <2> PICK p \in Processes : Truncate(p)
      BY <1>7
  <2>1. /\ team' = team /\ exists' = exists /\ content' = <<>>
        /\ text' = "empty" /\ lock' = lock /\ buffer' = buffer
        /\ torn' = torn
        /\ marking' = marking /\ begun' = begun
        /\ pc[p] = "truncate" /\ pc' = [pc EXCEPT ![p] = "write"]
      BY DEF Truncate, Goto, ownerVars
  <2>2. Typed'
      BY <1>0, <2>1 DEF Places
  <2>3. Locked'
      BY <1>0, <2>1 DEF Holding, Locked
  <2>4. \A q \in Processes : pc'[q] \in {"truncate", "write"} => q = p
      BY <2>1, OneWriter DEF Holding
  <2>5. Whole' /\ Prepared'
      BY <1>0, <2>1, <2>4 DEF Whole, Prepared
  <2>6. Entries = content
      BY <2>1, OneWriter, EntriesStored DEF Holding
  <2>7. IInv'
      BY <2>2, <2>3, <2>5
  <2>8. Entries' = buffer[p]
    <3>1. {q \in Processes : pc[q] = "write"}' = {p}
        BY <1>0, <2>1, <2>4
    <3> QED
        BY <2>1, <3>1 DEF Entries
  <2> QED
      BY <2>1, <2>6, <2>7, <2>8 DEF Prepared, Steps
<1>8. CASE \E p \in Processes : Write(p)
  <2> PICK p \in Processes : Write(p)
      BY <1>8
  <2>1. /\ team' = team /\ exists' = exists /\ content' = buffer[p]
        /\ text' = "json" /\ lock' = lock /\ torn' = torn
        /\ buffer' = [buffer EXCEPT ![p] = <<>>]
        /\ marking' = marking /\ begun' = begun
        /\ pc[p] = "write" /\ pc' = [pc EXCEPT ![p] = "unlock"]
      BY DEF Write, Goto, ownerVars
  <2>2. Typed'
      BY <1>0, <2>1 DEF Places
  <2>3. Locked'
      BY <1>0, <2>1 DEF Holding, Locked
  <2>4. \A q \in Processes : pc'[q] \notin {"truncate", "write"}
      BY <2>1, OneWriter DEF Holding
  <2>5. Whole' /\ Prepared'
      BY <1>0, <2>1, <2>4 DEF Whole, Prepared
  <2>6. Entries = buffer[p]
      BY <2>1, EntriesWritten
  <2>7. Entries' = content'
    <3>1. {q \in Processes : pc[q] = "write"}' = {}
        BY <1>0, <2>1, <2>4
    <3> QED
        BY <3>1 DEF Entries
  <2> QED
      BY <2>1, <2>2, <2>3, <2>5, <2>6, <2>7 DEF Steps
<1>9. CASE \E p \in Processes : Unlock(p)
  <2> PICK p \in Processes : Unlock(p)
      BY <1>9
  <2>1. /\ team' = team /\ exists' = exists /\ content' = content
        /\ text' = text /\ lock' = 0 /\ buffer' = buffer /\ torn' = torn
        /\ marking' = marking /\ begun' = begun
        /\ pc[p] = "unlock" /\ pc' = [pc EXCEPT ![p] = "idle"]
      BY DEF Unlock, Return, Goto
  <2>2. Typed'
      BY <1>0, <2>1 DEF Places
  <2>3. Locked' /\ Prepared'
      BY <1>0, <2>1, OneWriter DEF Holding, Locked, Prepared
  <2> QED
      BY <1>0, <2>1, <2>2, <2>3, NoWriteStep DEF Steps
<1>10. CASE \E p \in Processes : WriteFails(p)
  <2> PICK p \in Processes : WriteFails(p)
      BY <1>10
  <2>1. /\ team' = team /\ exists' = exists /\ content' = content
        /\ text' = text /\ lock' = lock
        /\ buffer' = [buffer EXCEPT ![p] = <<>>]
        /\ marking' = marking /\ begun' = begun
      BY DEF WriteFails, fileVars, ownerVars
  <2>2. pc[p] \in {"truncate", "write"} /\ pc' = [pc EXCEPT ![p] = "unlock"]
      BY DEF WriteFails, Goto, Places
  <2>3. torn' = IF pc[p] = "write" THEN torn + 1 ELSE torn
      BY <2>2 DEF WriteFails
  <2>4. Typed'
      BY <1>0, <2>1, <2>2, <2>3 DEF Places
  <2>5. Locked' /\ Prepared'
      BY <1>0, <2>1, <2>2 DEF Holding, Locked, Prepared
  <2>6. CASE pc[p] = "write"
      BY <1>0, <2>1, <2>2, <2>3, <2>4, <2>5, <2>6, WriterLost DEF Steps
  <2>7. CASE pc[p] = "truncate"
      BY <1>0, <2>1, <2>2, <2>3, <2>4, <2>5, <2>7, NoWriteStep DEF Steps
  <2> QED
      BY <2>2, <2>6, <2>7
<1>11. CASE \E s \in Senders : Dies(s)
  <2> PICK s \in Senders : Dies(s)
      BY <1>11
  <2>1. /\ team' = team /\ exists' = exists /\ content' = content
        /\ text' = text /\ lock' = lock
        /\ buffer' = [buffer EXCEPT ![s] = <<>>]
        /\ marking' = marking /\ begun' = begun
        /\ pc[s] \notin {"idle", "dead"} /\ pc' = [pc EXCEPT ![s] = "dead"]
        /\ torn' = IF pc[s] = "write" THEN torn + 1 ELSE torn
      BY DEF Dies, Goto, fileVars, ownerVars
  <2>2. Typed'
      BY <1>0, <2>1 DEF Places
  <2>3. Locked' /\ Prepared'
      BY <1>0, <2>1 DEF Holding, Locked, Prepared
  <2>4. CASE pc[s] = "write"
      BY <1>0, <2>1, <2>2, <2>3, <2>4, WriterLost DEF Steps
  <2>5. CASE pc[s] # "write"
      BY <1>0, <2>1, <2>2, <2>3, <2>5, NoWriteStep DEF Steps
  <2> QED
      BY <2>4, <2>5
<1>12. CASE GoStale
  <2>1. /\ team' = team /\ exists' = exists /\ content' = content
        /\ text' = text /\ buffer' = buffer /\ pc' = pc /\ torn' = torn
        /\ marking' = marking /\ begun' = begun
        /\ lock \in Processes /\ pc[lock] = "dead" /\ lock' = 0
      BY <1>12 DEF GoStale, ownerVars
  <2>2. Typed'
      BY <1>0, <2>1
  <2>3. Locked' /\ Prepared'
      BY <1>0, <2>1 DEF Holding, Locked, Prepared
  <2> QED
      BY <1>0, <2>1, <2>2, <2>3, NoWriteStep DEF Steps
<1>13. CASE UNCHANGED vars
    BY <1>0, <1>13 DEF vars, fileVars, ownerVars, Holding, Locked, Whole,
       Prepared, Steps, Entries, OneMore, Marked
<1> QED
    BY <1>1, <1>2, <1>3, <1>4, <1>5, <1>6, <1>7, <1>8, <1>9,
       <1>10, <1>11, <1>12, <1>13 DEF Next, Change

-----------------------------------------------------------------------------
(* The refinement *)

LEMMA StepsAreKept == Steps => [Kept!Next]_(Kept!vars)
BY DEF Steps, OneMore, Marked, Kept!Next, Kept!Post, Kept!Mark, Kept!Lose,
   Kept!vars, Id

\* An inbox that exists when the agents start stays an inbox: whatever they
\* do to the file at a time, and wherever they fail or die, no message
\* disappears, moves or becomes unread, except that all of them go with a
\* write that ends after it has truncated the file.
THEOREM InboxKept == Spec /\ exists => FileIsInbox
<1>1. Init /\ exists => IInv
    BY InitKeeps
<1>2. Init => Kept!Init
    BY DEF Init, Kept!Init, Entries
<1>3. IInv /\ [Next]_vars => IInv'
    BY NextKeeps
<1>4. IInv /\ [Next]_vars => [Kept!Next]_(Kept!vars)
    BY NextKeeps, StepsAreKept
<1> QED
    BY <1>1, <1>2, <1>3, <1>4, PTL DEF Spec, FileIsInbox, Kept!Spec

-----------------------------------------------------------------------------
(* Nothing is lost *)

\* What the runner's poll has taken: the message at the index it will mark.
Holds ==
    \A p \in Polls :
        IF pc[p] = "idle" THEN taken[p] = <<>>
        ELSE marking[p] \in DOMAIN Entries /\ taken[p] = <<Entries[marking[p]].id>>

\* What a sender is about to write has its message.
Carries ==
    \A s \in Senders : pc[s] \in {"truncate", "write"} =>
        \E i \in DOMAIN buffer[s] : buffer[s][i] = NewEntry(s)

\* What the runner's poll is about to write differs in the message it marks.
MarksOne ==
    \A p \in Polls : pc[p] = "truncate" =>
        \A i \in DOMAIN content :
            i # marking[p] => i \in DOMAIN buffer[p] /\ buffer[p][i] = content[i]

Adds == \A s \in Senders : pc[s] = "truncate" => OneMore(content, buffer[s])

TypedToo == taken \in [Polls -> Seq(Id)] /\ delivered \in Seq(Id)

RunnerInv == TypedToo /\ Holds /\ Carries /\ MarksOne /\ Adds /\ NothingLost

\* Until a write is torn.
NInv == IInv /\ (team.owner = "runner" /\ torn = 0 => RunnerInv)

LEMMA EntriesType == IInv => Entries \in Seq(Row)
<1> SUFFICES ASSUME IInv PROVE Entries \in Seq(Row)
    OBVIOUS
<1>1. CASE \A p \in Processes : pc[p] # "write"
    BY <1>1, EntriesStored DEF IInv, Typed
<1>2. CASE \E p \in Processes : pc[p] = "write"
    BY <1>2, EntriesWritten DEF IInv, Typed
<1> QED
    BY <1>1, <1>2

\* An index keeps its message.
LEMMA IdsStay ==
    ASSUME IInv, Steps, torn' = torn
    PROVE  \A i \in DOMAIN Entries :
               i \in DOMAIN Entries' /\ Entries'[i].id = Entries[i].id
<1>1. Entries \in Seq(Row)
    BY EntriesType
<1>2. DOMAIN Entries = 1..Len(Entries) /\ Len(Entries) \in Nat
    BY <1>1
<1>3. \A e \in Row : [e EXCEPT !.read = TRUE].id = e.id
    BY DEF Row
<1>4. \A i \in DOMAIN Entries : Entries[i] \in Row
    BY <1>1
<1>5. CASE Entries' = Entries
    BY <1>5
<1>6. CASE OneMore(Entries, Entries')
    BY <1>2, <1>6 DEF OneMore
<1>7. CASE Marked(Entries, Entries')
    BY <1>3, <1>4, <1>7 DEF Marked
<1>8. torn' # torn + 1
    BY DEF IInv, Typed
<1> QED
    BY <1>5, <1>6, <1>7, <1>8 DEF Steps

\* A message stays safe when its entry, the hands and the deliveries do.
LEMMA SafeStays ==
    ASSUME NEW m, Safe(m),
           \A i \in DOMAIN Entries : Entries[i].id = m /\ ~Entries[i].read =>
              Safe(m)',
           m \in Items(delivered) => Safe(m)',
           \A p \in Polls : m \in Items(taken[p]) => Safe(m)'
    PROVE  Safe(m)'
BY DEF Safe, Waits

LEMMA AppendedItems ==
    ASSUME NEW T, NEW s \in Seq(T), NEW t \in Seq(T)
    PROVE  Items(s \o t) = Items(s) \union Items(t)
<1>1. DOMAIN (s \o t) = 1..(Len(s) + Len(t)) /\ DOMAIN s = 1..Len(s)
      /\ DOMAIN t = 1..Len(t) /\ Len(s) \in Nat /\ Len(t) \in Nat
    OBVIOUS
<1>2. \A i \in DOMAIN s : i \in DOMAIN (s \o t) /\ (s \o t)[i] = s[i]
    BY <1>1
<1>3. \A i \in DOMAIN t :
          Len(s) + i \in DOMAIN (s \o t) /\ (s \o t)[Len(s) + i] = t[i]
    BY <1>1
<1>4. ASSUME NEW i \in DOMAIN (s \o t)
      PROVE  (s \o t)[i] \in Items(s) \union Items(t)
  <2>1. CASE i <= Len(s)
      BY <1>1, <2>1 DEF Items
  <2>2. CASE i > Len(s)
    <3>1. i - Len(s) \in DOMAIN t
        BY <1>1, <2>2
    <3> QED
        BY <1>1, <2>2, <3>1 DEF Items
  <2> QED
      BY <1>1, <2>1, <2>2
<1>5. Items(s) \union Items(t) \subseteq Items(s \o t)
  <2>1. \A i \in DOMAIN s : s[i] \in Items(s \o t)
      BY <1>2 DEF Items
  <2>2. \A i \in DOMAIN t : t[i] \in Items(s \o t)
      BY <1>3 DEF Items
  <2> QED
      BY <2>1, <2>2 DEF Items
<1>6. Items(s \o t) \subseteq Items(s) \union Items(t)
    BY <1>4 DEF Items
<1> QED
    BY <1>5, <1>6

\* A step that leaves the inbox, what the senders carry and the messages that
\* were posted alone.
Quiet ==
    /\ Entries' = Entries /\ content' = content /\ posted' = posted
    /\ \A p \in Processes : pc'[p] \in {"truncate", "write"} =>
           pc'[p] = pc[p] /\ buffer'[p] = buffer[p]
    /\ \A s \in Senders : pc'[s] \in {"truncate", "write"} =>
           begun'[s] = begun[s]
    /\ \A p \in Polls : pc'[p] = "truncate" => marking'[p] = marking[p]

LEMMA QuietKeeps ==
    ASSUME NInv, IInv', team.owner = "runner", torn = 0, team' = team, Quiet
    PROVE  /\ Carries' /\ MarksOne' /\ Adds'
           /\ \A m \in posted, i \in DOMAIN Entries :
                 Entries[i].id = m /\ ~Entries[i].read => Safe(m)'
<1>0. Senders' = Senders /\ Polls' = Polls /\ Senders \subseteq Processes
      /\ Polls \subseteq Processes
    BY DEF Processes, Senders, Polls
<1>1. Carries'
    BY <1>0 DEF Quiet, NInv, RunnerInv, Carries, NewEntry
<1>2. MarksOne'
    BY <1>0 DEF Quiet, NInv, RunnerInv, MarksOne
<1>3. Adds'
    BY <1>0 DEF Quiet, NInv, RunnerInv, Adds, OneMore
<1>4. \A m \in posted, i \in DOMAIN Entries :
         Entries[i].id = m /\ ~Entries[i].read => Safe(m)'
    BY DEF Quiet, Safe, Waits
<1> QED
    BY <1>1, <1>2, <1>3, <1>4

\* Such a step keeps every message safe when the owner's hands stay as they
\* are.
LEMMA QuietHands ==
    ASSUME NInv, IInv', team.owner = "runner", torn = 0, team' = team, Quiet,
           taken' = taken, delivered' = delivered, marking' = marking,
           \A p \in Polls : pc'[p] = "idle" <=> pc[p] = "idle"
    PROVE  RunnerInv'
<1>0. Polls' = Polls
    BY DEF Polls
<1>1. TypedToo' /\ Holds'
    BY <1>0 DEF NInv, RunnerInv, TypedToo, Holds, Quiet
<1>2. NothingLost'
    BY <1>0 DEF NInv, RunnerInv, NothingLost, Quiet, Safe, Waits
<1> QED
    BY <1>1, <1>2, QuietKeeps DEF RunnerInv

\* Such a step in which a process returns.
LEMMA QuietReturn ==
    ASSUME NInv, IInv', team.owner = "runner", torn = 0, team' = team, Quiet,
           NEW p \in Processes, Return(p), pc[p] # "idle"
    PROVE  RunnerInv'
<1>0. Polls' = Polls /\ Polls \subseteq Processes
    BY DEF Polls, Processes
<1>1. pc' = [pc EXCEPT ![p] = "idle"] /\ marking' = marking
    BY DEF Return, Goto
<1>2. CASE p \notin Polls
  <2>1. taken' = taken /\ delivered' = delivered
      BY <1>2 DEF Return
  <2>2. \A q \in Polls : pc'[q] = "idle" <=> pc[q] = "idle"
      BY <1>0, <1>1, <1>2 DEF NInv, IInv, Typed
  <2> QED
      BY <1>1, <2>1, <2>2, QuietHands
<1>3. CASE p \in Polls
  <2>1. /\ delivered' = delivered \o taken[p]
        /\ taken' = [taken EXCEPT ![p] = <<>>]
      BY <1>3 DEF Return
  <2>2. taken \in [Polls -> Seq(Id)] /\ delivered \in Seq(Id)
      BY DEF NInv, RunnerInv, TypedToo
  <2>3. TypedToo'
      BY <1>0, <2>1, <2>2, <1>3 DEF TypedToo
  <2>4. Holds'
      BY <1>0, <1>1, <2>1, <2>2 DEF NInv, IInv, Typed, RunnerInv, Holds, Quiet
  <2>5. Items(delivered') = Items(delivered) \union Items(taken[p])
      BY <1>3, <2>1, <2>2, AppendedItems
  <2>6. ASSUME NEW m \in posted PROVE Safe(m)'
    <3>1. Safe(m)
        BY DEF NInv, RunnerInv, NothingLost
    <3>2. m \in Items(delivered) \union Items(taken[p]) => Safe(m)'
        BY <2>5 DEF Safe
    <3>3. ASSUME NEW q \in Polls, m \in Items(taken[q]) PROVE Safe(m)'
      <4>1. CASE q = p
          BY <3>2, <3>3, <4>1
      <4>2. CASE q # p
          BY <1>0, <2>1, <2>2, <3>3, <4>2 DEF Safe
      <4> QED
          BY <4>1, <4>2
    <3> QED
        BY <3>1, <3>2, <3>3, QuietKeeps, SafeStays
  <2>7. NothingLost'
      BY <2>6 DEF NothingLost, Quiet
  <2> QED
      BY <2>3, <2>4, <2>7, QuietKeeps DEF RunnerInv
<1> QED
    BY <1>2, <1>3

LEMMA ReadNothingLost ==
    ASSUME NInv, IInv', team.owner = "runner", torn = 0,
           NEW p \in Processes, Read(p)
    PROVE  RunnerInv'
<1>0. /\ Senders' = Senders /\ Polls' = Polls /\ Processes' = Processes
      /\ Senders \subseteq Processes /\ Polls \subseteq Processes
      /\ Senders \intersect Polls = {}
    BY ProcessesAreNumbers DEF Read, Processes, Senders, Polls, NInv, IInv, Typed
<1>1. /\ team' = team /\ content' = content /\ text' = text
      /\ marking' = marking /\ begun' = begun /\ posted' = posted
      /\ taken' = taken /\ delivered' = delivered /\ pc[p] = "read"
    BY DEF Read, fileVars, ownerVars
<1>2. ReadMailbox = content
    BY <1>1, ReadIsContent DEF NInv
<1>3. \/ pc' = [pc EXCEPT ![p] = "unlock"] /\ buffer' = buffer
      \/ /\ pc' = [pc EXCEPT ![p] = "truncate"]
         /\ buffer' = [buffer EXCEPT ![p] = Changed(p, content)]
    BY <1>2 DEF Read, Goto
<1>4. /\ pc \in [Processes -> Places] /\ buffer \in [Processes -> Seq(Row)]
      /\ content \in Seq(Row)
    BY DEF NInv, IInv, Typed
<1>5. Entries' = Entries /\ Entries = content
  <2>1. \A q \in Processes : pc'[q] = "write" <=> pc[q] = "write"
      BY <1>1, <1>3, <1>4
  <2>2. \A q \in Processes : pc[q] = "write" => buffer'[q] = buffer[q]
      BY <1>1, <1>3, <1>4
  <2>3. Entries' = Entries
      BY <1>0, <1>1, <2>1, <2>2, NoWriteStep DEF NInv, IInv
  <2> QED
      BY <1>1, <2>3, OneWriter, EntriesStored DEF Holding, NInv
<1>6. TypedToo' /\ Holds' /\ NothingLost'
  <2>1. \A q \in Polls : pc'[q] = "idle" <=> pc[q] = "idle"
      BY <1>0, <1>1, <1>3, <1>4
  <2>2. TypedToo' /\ Holds'
      BY <1>0, <1>1, <1>5, <2>1 DEF NInv, RunnerInv, TypedToo, Holds
  <2>3. NothingLost'
      BY <1>0, <1>1, <1>5 DEF NInv, RunnerInv, NothingLost, Safe, Waits
  <2> QED
      BY <2>2, <2>3
<1>7. \A q \in Processes : q # p /\ pc'[q] \in {"truncate", "write"} =>
          pc'[q] = pc[q] /\ buffer'[q] = buffer[q]
    BY <1>3, <1>4
<1>8. ASSUME p \in Senders, pc'[p] = "truncate"
      PROVE  /\ OneMore(content, buffer'[p])
             /\ \E i \in DOMAIN buffer'[p] : buffer'[p][i] = NewEntry(p)
  <2>1. NewEntry(p) \in Row /\ NewEntry(p).read = FALSE
      BY <1>8, ProcessesAreNumbers DEF NewEntry, Row, Id, NInv, IInv, Typed
  <2>2. buffer'[p] = Append(content, NewEntry(p))
      BY <1>3, <1>4, <1>8 DEF Changed
  <2>3. OneMore(content, buffer'[p])
      BY <1>4, <2>1, <2>2, AppendOne
  <2>4. Len(content) + 1 \in DOMAIN buffer'[p]
      BY <1>4, <2>2
  <2>5. buffer'[p][Len(content) + 1] = NewEntry(p)
      BY <1>4, <2>2
  <2> QED
      BY <2>3, <2>4, <2>5
<1>9. ASSUME p \in Polls, pc'[p] = "truncate", NEW i \in DOMAIN content,
             i # marking[p]
      PROVE  i \in DOMAIN buffer'[p] /\ buffer'[p][i] = content[i]
  <2>1. marking[p] \in DOMAIN content
      BY <1>1, <1>5, <1>9 DEF NInv, RunnerInv, Holds
  <2>2. marking[p] # 0
      BY <1>4, <2>1
  <2>3. p \notin Senders
      BY <1>0, <1>9
  <2>4. buffer'[p] = Changed(p, content)
      BY <1>3, <1>4, <1>9
  <2>5. marking[p] \notin {0, i}
      BY <1>9, <2>2
  <2> QED
      BY <2>3, <2>4, <2>5 DEF Changed
<1>10. Carries'
  <2> SUFFICES ASSUME NEW q \in Senders, pc'[q] \in {"truncate", "write"}
               PROVE  \E i \in DOMAIN buffer'[q] : buffer'[q][i] = NewEntry(q)'
      BY <1>0 DEF Carries
  <2>1. NewEntry(q)' = NewEntry(q)
      BY <1>1 DEF NewEntry
  <2>2. CASE q = p
    <3>1. pc'[p] = "truncate"
        BY <1>0, <1>3, <1>4, <2>2
    <3> QED
        BY <1>8, <2>1, <2>2, <3>1
  <2>3. CASE q # p
      BY <1>0, <1>7, <2>1, <2>3 DEF NInv, RunnerInv, Carries
  <2> QED
      BY <2>2, <2>3
<1>11. MarksOne'
    BY <1>0, <1>1, <1>7, <1>9 DEF NInv, RunnerInv, MarksOne
<1>12. Adds'
  <2> SUFFICES ASSUME NEW q \in Senders, pc'[q] = "truncate"
               PROVE  OneMore(content, buffer'[q])
      BY <1>0, <1>1 DEF Adds, OneMore
  <2> QED
      BY <1>0, <1>7, <1>8 DEF NInv, RunnerInv, Adds
<1> QED
    BY <1>6, <1>10, <1>11, <1>12 DEF RunnerInv

LEMMA TruncateNothingLost ==
    ASSUME NInv, IInv', Steps, team.owner = "runner", torn = 0,
           NEW p \in Processes, Truncate(p)
    PROVE  RunnerInv'
<1>0. /\ Senders' = Senders /\ Polls' = Polls /\ Processes' = Processes
      /\ Senders \subseteq Processes /\ Polls \subseteq Processes
      /\ p \in Senders \/ p \in Polls
    BY DEF Truncate, Processes, Senders, Polls
<1>1. /\ team' = team /\ content' = <<>> /\ buffer' = buffer
      /\ marking' = marking /\ begun' = begun /\ posted' = posted
      /\ taken' = taken /\ delivered' = delivered
      /\ pc[p] = "truncate" /\ pc' = [pc EXCEPT ![p] = "write"]
    BY DEF Truncate, Goto, ownerVars
<1>2. pc \in [Processes -> Places] /\ content \in Seq(Row)
    BY DEF NInv, IInv, Typed
<1>3. \A q \in Processes : pc'[q] # "truncate"
    BY <1>1, <1>2, OneWriter DEF Holding, NInv
<1>4. Entries = content
    BY <1>1, OneWriter, EntriesStored DEF Holding, NInv
<1>5. Entries' = buffer[p]
  <2>1. \A q \in Processes : pc'[q] = "write" <=> q = p
      BY <1>1, <1>2, OneWriter DEF Holding, NInv
  <2>2. {q \in Processes : pc[q] = "write"}' = {p}
      BY <1>0, <2>1
  <2> QED
      BY <1>1, <2>2 DEF Entries
<1>6. MarksOne' /\ Adds'
    BY <1>0, <1>3 DEF MarksOne, Adds
<1>7. Carries'
    BY <1>0, <1>1, <1>2 DEF NInv, RunnerInv, Carries, NewEntry
<1>8. TypedToo' /\ Holds'
  <2>1. \A q \in Polls : pc'[q] = "idle" <=> pc[q] = "idle"
      BY <1>0, <1>1, <1>2
  <2>2. \A i \in DOMAIN Entries :
            i \in DOMAIN Entries' /\ Entries'[i].id = Entries[i].id
      BY IdsStay DEF NInv, Truncate
  <2> QED
      BY <1>0, <1>1, <2>1, <2>2 DEF NInv, RunnerInv, TypedToo, Holds
<1>9. ASSUME NEW m \in posted, NEW i \in DOMAIN Entries, Entries[i].id = m,
             ~Entries[i].read
      PROVE  Safe(m)'
  <2>1. CASE i \in DOMAIN Entries' /\ Entries'[i] = Entries[i]
      BY <1>9, <2>1 DEF Safe, Waits
  <2>2. CASE p \in Polls /\ i = marking[p]
    <3>1. taken[p] = <<m>>
        BY <1>1, <1>9, <2>2 DEF NInv, RunnerInv, Holds
    <3>2. m \in Items(taken[p])
        BY <3>1 DEF Items
    <3> QED
        BY <1>0, <1>1, <2>2, <3>2 DEF Safe
  <2>3. CASE p \in Polls /\ i # marking[p]
      BY <1>1, <1>4, <1>5, <1>9, <2>1, <2>3 DEF NInv, RunnerInv, MarksOne
  <2>4. CASE p \in Senders
    <3>1. OneMore(content, buffer[p])
        BY <1>1, <2>4 DEF NInv, RunnerInv, Adds
    <3>2. DOMAIN content = 1..Len(content) /\ Len(content) \in Nat
        BY <1>2
    <3> QED
        BY <1>4, <1>5, <1>9, <2>1, <3>1, <3>2 DEF OneMore
  <2> QED
      BY <1>0, <2>2, <2>3, <2>4
<1>10. NothingLost'
  <2> SUFFICES ASSUME NEW m \in posted PROVE Safe(m)'
      BY <1>1 DEF NothingLost
  <2>1. Safe(m)
      BY DEF NInv, RunnerInv, NothingLost
  <2> QED
      BY <1>0, <1>1, <1>9, <2>1, SafeStays DEF Safe
<1> QED
    BY <1>6, <1>7, <1>8, <1>10 DEF RunnerInv

LEMMA WriteNothingLost ==
    ASSUME NInv, IInv', team.owner = "runner", torn = 0,
           NEW p \in Processes, Write(p)
    PROVE  RunnerInv'
<1>0. /\ Senders' = Senders /\ Polls' = Polls /\ Processes' = Processes
      /\ Senders \subseteq Processes /\ Polls \subseteq Processes
    BY DEF Write, Processes, Senders, Polls
<1>1. /\ team' = team /\ content' = buffer[p]
      /\ buffer' = [buffer EXCEPT ![p] = <<>>]
      /\ marking' = marking /\ begun' = begun
      /\ taken' = taken /\ delivered' = delivered
      /\ pc[p] = "write" /\ pc' = [pc EXCEPT ![p] = "unlock"]
    BY DEF Write, Goto, ownerVars
<1>2. pc \in [Processes -> Places]
    BY DEF NInv, IInv, Typed
<1>3. \A q \in Processes : pc'[q] \notin {"truncate", "write"}
    BY <1>1, <1>2, OneWriter DEF Holding, NInv
<1>4. Carries' /\ MarksOne' /\ Adds'
    BY <1>0, <1>3 DEF Carries, MarksOne, Adds
<1>5. Entries = buffer[p]
    BY <1>1, EntriesWritten DEF NInv
<1>6. Entries' = Entries
  <2>1. {q \in Processes : pc[q] = "write"}' = {}
      BY <1>0, <1>3
  <2> QED
      BY <1>1, <1>5, <2>1 DEF Entries
<1>7. TypedToo' /\ Holds'
  <2>1. \A q \in Polls : pc'[q] = "idle" <=> pc[q] = "idle"
      BY <1>0, <1>1, <1>2
  <2> QED
      BY <1>0, <1>1, <1>6, <2>1 DEF NInv, RunnerInv, TypedToo, Holds
<1>8. \A m : Safe(m) => Safe(m)'
    BY <1>0, <1>1, <1>6 DEF Safe, Waits
<1>9. p \in Senders => Safe(<<p, begun[p]>>)
  <2> HAVE p \in Senders
  <2>1. PICK i \in DOMAIN buffer[p] : buffer[p][i] = NewEntry(p)
      BY <1>1 DEF NInv, RunnerInv, Carries
  <2> QED
      BY <1>5, <2>1 DEF Safe, Waits, NewEntry
<1>10. NothingLost'
    BY <1>8, <1>9 DEF Write, NInv, RunnerInv, NothingLost
<1> QED
    BY <1>4, <1>7, <1>10 DEF RunnerInv

LEMMA PollNothingLost ==
    ASSUME NInv, IInv', team.owner = "runner", torn = 0,
           NEW p \in Polls, Poll(p)
    PROVE  RunnerInv'
<1>0. /\ Senders' = Senders /\ Polls' = Polls /\ Processes' = Processes
      /\ Senders \subseteq Processes /\ Polls \subseteq Processes
    BY DEF Poll, Processes, Senders, Polls
<1>1. /\ team' = team /\ exists' = exists /\ content' = content
      /\ text' = text /\ lock' = lock /\ buffer' = buffer
      /\ begun' = begun /\ posted' = posted
      /\ pc[p] = "idle" /\ pc' = [pc EXCEPT ![p] = "lock"]
    BY DEF Poll, Goto, fileVars
<1>2. RunnerPolls(p)
    BY DEF Poll, PrintPolls, ScreenPolls
<1>3. PICK i \in Pick(ReadMailbox) :
          /\ marking' = [marking EXCEPT ![p] = i]
          /\ taken' = [taken EXCEPT ![p] = <<ReadMailbox[i].id>>]
    BY <1>2 DEF RunnerPolls, RunnerMarks
<1>4. /\ pc \in [Processes -> Places] /\ content \in Seq(Row)
      /\ marking \in [Polls -> Nat] /\ taken \in [Polls -> Seq(Id)]
    BY DEF NInv, IInv, Typed, RunnerInv, TypedToo
<1>5. i \in DOMAIN ReadMailbox
    BY <1>3 DEF Pick, Unread
<1>6. ReadMailbox = content /\ text = "json"
    BY <1>5 DEF ReadMailbox
<1>7. Entries = content
    BY <1>6, EntriesStored DEF NInv, IInv, Whole
<1>8. \A q \in Processes : pc'[q] = "write" <=> pc[q] = "write"
    BY <1>0, <1>1, <1>4
<1>9. Entries' = Entries
    BY <1>0, <1>1, <1>8, NoWriteStep DEF NInv, IInv
<1>10. Quiet
    BY <1>0, <1>1, <1>3, <1>4, <1>9 DEF Quiet
<1>11. TypedToo'
  <2>1. content[i] \in Row
      BY <1>4, <1>5, <1>6
  <2>2. <<content[i].id>> \in Seq(Id)
      BY <2>1 DEF Row
  <2> QED
      BY <1>0, <1>2, <1>3, <1>4, <1>6, <2>2
         DEF RunnerPolls, NInv, RunnerInv, TypedToo
<1>12. Holds'
    BY <1>0, <1>1, <1>3, <1>4, <1>5, <1>6, <1>7, <1>9
       DEF NInv, RunnerInv, Holds
<1>13. ASSUME NEW m \in posted PROVE Safe(m)'
  <2>1. Safe(m)
      BY DEF NInv, RunnerInv, NothingLost
  <2>2. m \in Items(delivered) => Safe(m)'
      BY <1>2 DEF RunnerPolls, Safe
  <2>3. ASSUME NEW q \in Polls, m \in Items(taken[q]) PROVE Safe(m)'
    <3>1. taken[p] = <<>>
        BY <1>1 DEF NInv, RunnerInv, Holds
    <3>2. q # p
        BY <2>3, <3>1 DEF Items
    <3> QED
        BY <1>0, <1>3, <1>4, <2>3, <3>2 DEF Safe
  <2> QED
      BY <1>1, <1>10, <2>1, <2>2, <2>3, QuietKeeps, SafeStays
<1> QED
    BY <1>1, <1>10, <1>11, <1>12, <1>13, QuietKeeps
       DEF RunnerInv, NothingLost, Quiet

\* Such a step in which a process gives up what it was about to do.
LEMMA GivenUp ==
    ASSUME NInv, IInv', team.owner = "runner", torn = 0, team' = team,
           Polls' = Polls, Processes' = Processes, Senders \subseteq Processes,
           Polls \subseteq Processes, NEW p \in Processes,
           NEW place \in {"unlock", "dead"}, pc[p] \notin {"idle", "write"},
           pc' = [pc EXCEPT ![p] = place],
           content' = content, text' = text,
           buffer' = [buffer EXCEPT ![p] = <<>>],
           begun' = begun, posted' = posted,
           marking' = marking, taken' = taken, delivered' = delivered
    PROVE  RunnerInv'
<1>1. pc \in [Processes -> Places] /\ buffer \in [Processes -> Seq(Row)]
    BY DEF NInv, IInv, Typed
<1>2. Entries' = Entries
    BY <1>1, NoWriteStep DEF NInv, IInv
<1>3. Quiet
    BY <1>1, <1>2 DEF Quiet
<1>4. \A q \in Polls : pc'[q] = "idle" <=> pc[q] = "idle"
    BY <1>1
<1> QED
    BY <1>3, <1>4, QuietHands

LEMMA RunnerKeeps ==
    ASSUME NInv, [Next]_vars, team.owner = "runner", torn' = 0
    PROVE  RunnerInv'
<1>0. /\ team' = team => Senders' = Senders /\ Polls' = Polls
                            /\ Processes' = Processes
      /\ Senders \subseteq Processes /\ Polls \subseteq Processes
    BY DEF Processes, Senders, Polls
<1> IInv' /\ Steps
    BY NextKeeps DEF NInv
<1> torn = 0
    BY DEF Steps, NInv, IInv, Typed
<1> pc \in [Processes -> Places]
    BY DEF NInv, IInv, Typed
<1>1. CASE \E s \in Senders : Begin(s)
  <2> PICK s \in Senders : Begin(s)
      BY <1>1
  <2>1. /\ team' = team /\ content' = content /\ text' = text
        /\ buffer' = buffer /\ posted' = posted
        /\ marking' = marking /\ taken' = taken /\ delivered' = delivered
        /\ begun' = [begun EXCEPT ![s] = @ + 1]
        /\ pc[s] = "idle" /\ pc' = [pc EXCEPT ![s] = "lock"]
      BY DEF Begin, Goto, ownerVars, NInv, IInv, Typed
  <2>2. Entries' = Entries
      BY <1>0, <2>1, NoWriteStep DEF NInv, IInv
  <2>3. begun \in [Senders -> Nat]
      BY DEF NInv, IInv, Typed
  <2>4. Quiet
      BY <1>0, <2>1, <2>2, <2>3 DEF Quiet
  <2>5. s \notin Polls
      BY ProcessesAreNumbers DEF NInv, IInv, Typed
  <2>6. \A q \in Polls : pc'[q] = "idle" <=> pc[q] = "idle"
      BY <1>0, <2>1, <2>5
  <2> QED
      BY <2>1, <2>4, <2>6, QuietHands
<1>2. CASE \E s \in Senders : Create(s)
    BY <1>0, <1>2 DEF Create, Places
<1>3. CASE \E p \in Polls : Poll(p)
    BY <1>3, PollNothingLost
<1>4. CASE \E p \in Processes : Lock(p)
  <2> PICK p \in Processes : Lock(p)
      BY <1>4
  <2>1. /\ team' = team /\ content' = content /\ text' = text
        /\ buffer' = buffer /\ begun' = begun /\ posted' = posted
        /\ marking' = marking /\ taken' = taken /\ delivered' = delivered
        /\ pc[p] = "lock" /\ pc' = [pc EXCEPT ![p] = "read"]
      BY DEF Lock, Goto, ownerVars
  <2>2. Entries' = Entries
      BY <1>0, <2>1, NoWriteStep DEF NInv, IInv
  <2>3. Quiet
      BY <1>0, <2>1, <2>2 DEF Quiet
  <2>4. \A q \in Polls : pc'[q] = "idle" <=> pc[q] = "idle"
      BY <1>0, <2>1
  <2> QED
      BY <2>1, <2>3, <2>4, QuietHands
<1>5. CASE \E p \in Processes : LockFails(p) \/ Unlock(p)
  <2> PICK p \in Processes : LockFails(p) \/ Unlock(p)
      BY <1>5
  <2>1. /\ team' = team /\ content' = content /\ text' = text
        /\ buffer' = buffer /\ begun' = begun /\ posted' = posted
        /\ pc[p] \in {"lock", "unlock"} /\ Return(p)
      BY DEF LockFails, Unlock, fileVars
  <2>2. pc' = [pc EXCEPT ![p] = "idle"] /\ marking' = marking
      BY <2>1 DEF Return, Goto
  <2>3. Entries' = Entries
      BY <1>0, <2>1, <2>2, NoWriteStep DEF NInv, IInv
  <2>4. Quiet
      BY <1>0, <2>1, <2>2, <2>3 DEF Quiet
  <2> QED
      BY <2>1, <2>4, QuietReturn
<1>6. CASE \E p \in Processes : Read(p)
    BY <1>6, ReadNothingLost
<1>7. CASE \E p \in Processes : Truncate(p)
    BY <1>7, TruncateNothingLost
<1>8. CASE \E p \in Processes : Write(p)
    BY <1>8, WriteNothingLost
<1>9. CASE \E p \in Processes : WriteFails(p)
  <2> PICK p \in Processes : WriteFails(p)
      BY <1>9
  <2>1. pc[p] = "truncate" /\ pc' = [pc EXCEPT ![p] = "unlock"]
      BY DEF WriteFails, Goto, Places
  <2>2. /\ team' = team /\ content' = content /\ text' = text
        /\ buffer' = [buffer EXCEPT ![p] = <<>>]
        /\ begun' = begun /\ posted' = posted
        /\ marking' = marking /\ taken' = taken /\ delivered' = delivered
      BY DEF WriteFails, fileVars, ownerVars
  <2> QED
      BY <1>0, <2>1, <2>2, GivenUp
<1>10. CASE \E s \in Senders : Dies(s)
  <2> PICK s \in Senders : Dies(s)
      BY <1>10
  <2>1. /\ pc[s] \notin {"idle", "write"}
        /\ pc' = [pc EXCEPT ![s] = "dead"]
      BY DEF Dies, Goto
  <2>2. /\ team' = team /\ content' = content /\ text' = text
        /\ buffer' = [buffer EXCEPT ![s] = <<>>]
        /\ begun' = begun /\ posted' = posted
        /\ marking' = marking /\ taken' = taken /\ delivered' = delivered
      BY DEF Dies, fileVars, ownerVars
  <2> QED
      BY <1>0, <2>1, <2>2, GivenUp
<1>11. CASE GoStale \/ UNCHANGED vars
  <2>1. /\ team' = team /\ content' = content /\ text' = text /\ pc' = pc
        /\ buffer' = buffer /\ begun' = begun /\ posted' = posted
        /\ marking' = marking /\ taken' = taken /\ delivered' = delivered
      BY <1>11 DEF GoStale, vars, fileVars, ownerVars
  <2>2. Entries' = Entries
      BY <1>0, <2>1, NoWriteStep DEF NInv, IInv
  <2>3. Quiet
      BY <2>1, <2>2 DEF Quiet
  <2> QED
      BY <2>1, <2>3, QuietHands
<1> QED
    BY <1>1, <1>2, <1>3, <1>4, <1>5, <1>6, <1>7, <1>8, <1>9, <1>10, <1>11
       DEF Next, Change

\* No message to an in-process teammate whose inbox exists is lost, for any
\* number of senders, however many locks are not got, writes cannot begin and
\* senders die, unless a write ends after it has truncated the inbox.
THEOREM RunnerLosesNothing == Spec /\ exists => []NothingLost
<1>1. Init /\ exists => NInv
  <2> SUFFICES ASSUME Init, exists PROVE NInv
      OBVIOUS
  <2>1. IInv
      BY InitKeeps
  <2>2. Polls \subseteq Processes /\ Senders \subseteq Processes
      BY DEF Processes
  <2>3. RunnerInv
      BY <2>2 DEF Init, RunnerInv, TypedToo, Holds, Carries, MarksOne, Adds,
         NothingLost
  <2> QED
      BY <2>1, <2>3 DEF NInv
<1>2. NInv /\ [Next]_vars => NInv'
  <2> SUFFICES ASSUME NInv, [Next]_vars PROVE NInv'
      OBVIOUS
  <2>1. IInv'
      BY NextKeeps DEF NInv
  <2>2. team' = team
      BY DEF Next, Change, vars, Begin, Create, Poll, Lock, Read, Truncate,
         Write, Unlock, LockFails, WriteFails, Dies, GoStale
  <2> QED
      BY <2>1, <2>2, RunnerKeeps DEF NInv
<1>3. NInv => NothingLost
    BY DEF NInv, RunnerInv, NothingLost
<1> QED
    BY <1>1, <1>2, <1>3, PTL DEF Spec
-----------------------------------------------------------------------------
(* Types, also of an inbox that does not exist yet *)

AllPlaces ==
    {"idle", "create", "lock", "read", "truncate", "write", "unlock", "dead"}

FileTyped ==
    /\ team \in Teams
    /\ exists \in BOOLEAN /\ content \in Seq(Entry)
    /\ text \in {"json", "empty", "broken"} /\ lock \in {0} \union Processes

ProcessesTyped ==
    /\ pc \in [Processes -> AllPlaces]
    /\ buffer \in [Processes -> Seq(Entry)]
    /\ begun \in [Senders -> Nat]
    /\ posted \subseteq Messages
    /\ marking \in [Polls -> Nat]
    /\ taken \in [Polls -> Seq(Messages)]
    /\ delivered \in Seq(Messages)
    /\ torn \in Nat /\ faults \in 0..MaxFaults

\* A sender at work has begun a message that it has to send.
Counted ==
    \A s \in Senders :
        begun[s] <= Len(team.sends[s]) /\ (pc[s] # "idle" => begun[s] > 0)

TInv == FileTyped /\ ProcessesTyped /\ Counted

LEMMA TypedIsTyped == TInv => TypeOK
BY DEF TInv, FileTyped, ProcessesTyped, Counted, TypeOK, AllPlaces, Processes

LEMMA MessagesAre ==
    ASSUME team \in Team, NEW s \in Senders
    PROVE  /\ Len(team.sends[s]) \in Nat
           /\ \A k \in Nat : k # 0 /\ k <= Len(team.sends[s])
                 => <<s, k>> \in Messages
<1> DEFINE Kinds == {"shutdown", "lead", "peer"}
<1>1. team.sends \in Seq(Seq(Kinds))
    BY DEF Team
<1>2. team.sends[s] \in Seq(Kinds)
    BY <1>1 DEF Senders
<1>3. Len(team.sends[s]) \in Nat
      /\ DOMAIN team.sends[s] = 1..Len(team.sends[s])
    BY <1>2
<1>4. ASSUME NEW k \in Nat, k # 0, k <= Len(team.sends[s])
      PROVE  <<s, k>> \in Messages
  <2>1. k \in DOMAIN team.sends[s]
      BY <1>3, <1>4
  <2> QED
      BY <2>1 DEF Messages
<1> QED
    BY <1>3, <1>4

\* What a poll takes from the file.
LEMMA UnreadTyped ==
    ASSUME NEW M, NEW entries \in Seq([id : M, read : BOOLEAN])
    PROVE  UnreadMessages(entries) \in Seq(M)
<1> DEFINE ids == [i \in DOMAIN entries |-> entries[i].id]
<1>1. ids \in Seq(M) /\ DOMAIN ids = DOMAIN entries
  <2>1. PICK n \in Nat : DOMAIN entries = 1..n
      BY LenProperties
  <2>2. \A i \in DOMAIN entries : entries[i] \in [id : M, read : BOOLEAN]
      BY <2>1, ElementOfSeq, LenProperties
  <2>3. ids \in [1..n -> M]
      BY <2>1, <2>2
  <2> HIDE DEF ids
  <2> QED
      BY <2>1, <2>3, SeqDef
<1> HIDE DEF ids
<1>2. Unread(entries) \in SUBSET (DOMAIN ids)
    BY <1>1 DEF Unread
<1> QED
    BY <1>1, <1>2, PickedTyped DEF UnreadMessages, ids

LEMMA ChangedTyped ==
    ASSUME NEW M, NEW entries \in Seq([id : M, read : BOOLEAN]),
           NEW p, p \in Senders => <<p, begun[p]>> \in M
    PROVE  Changed(p, entries) \in Seq([id : M, read : BOOLEAN])
<1> DEFINE R == [id : M, read : BOOLEAN]
<1>1. CASE p \in Senders
  <2>1. NewEntry(p) \in R
      BY <1>1 DEF NewEntry
  <2> QED
      BY <1>1, <2>1, AppendProperties DEF Changed
<1>2. CASE p \notin Senders
  <2> DEFINE new == [i \in DOMAIN entries |->
                        IF marking[p] \in {0, i}
                        THEN [entries[i] EXCEPT !.read = TRUE]
                        ELSE entries[i]]
  <2>1. PICK n \in Nat : DOMAIN entries = 1..n
      BY LenProperties
  <2>2. \A i \in DOMAIN entries : entries[i] \in R
      BY <2>1, ElementOfSeq, LenProperties
  <2>3. \A e \in R : [e EXCEPT !.read = TRUE] \in R
      OBVIOUS
  <2>4. \A i \in DOMAIN entries : new[i] \in R
      BY <2>2, <2>3
  <2>5. new \in [1..n -> R]
      BY <2>1, <2>4
  <2> HIDE DEF new, R
  <2>6. new \in Seq(R)
      BY <2>5, SeqDef
  <2> QED
      BY <1>2, <2>6 DEF Changed, new, R
<1> QED
    BY <1>1, <1>2

LEMMA InitTyped == Init => TInv
<1> SUFFICES ASSUME Init PROVE TInv
    OBVIOUS
<1>1. team \in Teams /\ team \in Team
    BY TeamsAssumption DEF Init
<1>2. exists \in BOOLEAN
    BY <1>1 DEF Init, Team
<1>3. FileTyped
    BY <1>1, <1>2 DEF Init, FileTyped
<1>4. ProcessesTyped
    BY FaultsAssumption DEF Init, ProcessesTyped, AllPlaces
<1>5. Counted
  <2> SUFFICES ASSUME NEW s \in Senders
               PROVE  begun[s] <= Len(team.sends[s]) /\ pc[s] = "idle"
      BY DEF Counted
  <2>1. begun[s] = 0 /\ pc[s] = "idle"
      BY DEF Init, Processes
  <2>2. Len(team.sends[s]) \in Nat
      BY <1>1, MessagesAre
  <2> QED
      BY <2>1, <2>2
<1> QED
    BY <1>3, <1>4, <1>5 DEF TInv

\* What a process delivers when it returns is a message each.
LEMMA ReturnTyped ==
    ASSUME TInv, NEW p \in Processes, Return(p)
    PROVE  /\ pc' = [pc EXCEPT ![p] = "idle"] /\ marking' = marking
           /\ taken' \in [Polls -> Seq(Messages)]
           /\ delivered' \in Seq(Messages)
<1>1. taken \in [Polls -> Seq(Messages)] /\ delivered \in Seq(Messages)
    BY DEF TInv, ProcessesTyped
<1>2. CASE p \in Polls
  <2>1. taken[p] \in Seq(Messages) /\ <<>> \in Seq(Messages)
      BY <1>1, <1>2
  <2>2. delivered \o taken[p] \in Seq(Messages)
      BY <1>1, <2>1, ConcatProperties
  <2> QED
      BY <1>1, <1>2, <2>1, <2>2 DEF Return, Goto
<1>3. CASE p \notin Polls
    BY <1>1, <1>3 DEF Return, Goto
<1> QED
    BY <1>2, <1>3

\* The owner's variables after a poll.
LEMMA PollTyped ==
    ASSUME TInv, NEW p \in Polls, Poll(p)
    PROVE  /\ marking' \in [Polls -> Nat]
           /\ taken' \in [Polls -> Seq(Messages)]
           /\ delivered' \in Seq(Messages)
<1>1. /\ marking \in [Polls -> Nat] /\ taken \in [Polls -> Seq(Messages)]
      /\ delivered \in Seq(Messages)
    BY DEF TInv, ProcessesTyped
<1>2. ReadMailbox \in Seq(Entry)
    BY DEF ReadMailbox, TInv, FileTyped
<1>3. UnreadMessages(ReadMailbox) \in Seq(Messages)
    BY <1>2, UnreadTyped DEF Entry
<1>4. \A i \in Pick(ReadMailbox) :
         i \in Nat /\ <<ReadMailbox[i].id>> \in Seq(Messages)
  <2> SUFFICES ASSUME NEW i \in Pick(ReadMailbox)
               PROVE  i \in Nat /\ <<ReadMailbox[i].id>> \in Seq(Messages)
      OBVIOUS
  <2>1. i \in DOMAIN ReadMailbox
      BY DEF Pick, Unread
  <2>2. i \in Nat /\ ReadMailbox[i] \in Entry
      BY <1>2, <2>1
  <2>3. ReadMailbox[i].id \in Messages
      BY <2>2 DEF Entry
  <2> QED
      BY <2>2, <2>3
<1>5. CASE RunnerPolls(p)
    BY <1>1, <1>4, <1>5 DEF RunnerPolls, RunnerMarks
<1>6. CASE PrintPolls(p)
    BY <1>1, <1>3, <1>6 DEF PrintPolls
<1>7. CASE ScreenPolls(p)
  <2>1. delivered \o UnreadMessages(ReadMailbox) \in Seq(Messages)
      BY <1>1, <1>3, ConcatProperties
  <2> QED
      BY <1>1, <1>7, <2>1 DEF ScreenPolls
<1> QED
    BY <1>5, <1>6, <1>7 DEF Poll

LEMMA NextTyped ==
    ASSUME TInv, [Next]_vars
    PROVE  TInv'
<1>0. /\ FileTyped /\ ProcessesTyped /\ Counted /\ team \in Team
      /\ Senders \subseteq Processes /\ Polls \subseteq Processes
      /\ Senders \intersect Polls = {}
      /\ \A p \in Processes : p \in Senders \/ p \in Polls
  <2>1. team \in Team
      BY TeamsAssumption DEF TInv, FileTyped
  <2> QED
      BY <2>1, ProcessesAreNumbers DEF Processes, TInv
<1>1. team' = team
    BY DEF Next, Change, vars, Begin, Create, Poll, Lock, Read, Truncate,
       Write, Unlock, LockFails, WriteFails, Dies, GoStale
<1>2. /\ Senders' = Senders /\ Polls' = Polls /\ Processes' = Processes
      /\ Messages' = Messages /\ Entry' = Entry
    BY <1>1 DEF Senders, Polls, Processes, Messages, Entry
<1>3. \A s \in Senders :
          begun[s] \in Nat /\ Len(team.sends[s]) \in Nat
    BY <1>0, MessagesAre DEF ProcessesTyped
<1> USE <1>0, <1>1, <1>2 DEF AllPlaces
<1>4. CASE \E s \in Senders : Begin(s)
  <2> PICK s \in Senders : Begin(s)
      BY <1>4
  <2>1. /\ content' = content /\ lock' = lock /\ buffer' = buffer
        /\ posted' = posted /\ marking' = marking /\ taken' = taken
        /\ delivered' = delivered /\ faults' = faults /\ torn' = torn
        /\ begun' = [begun EXCEPT ![s] = @ + 1]
        /\ begun[s] < Len(team.sends[s])
      BY DEF Begin, ownerVars
  <2>2. FileTyped'
      BY <2>1 DEF Begin, FileTyped
  <2>3. PICK place \in {"lock", "create"} : pc' = [pc EXCEPT ![s] = place]
      BY DEF Begin, Goto
  <2>4. begun[s] + 1 \in Nat
      BY <1>3
  <2>5. ProcessesTyped'
      BY <2>1, <2>3, <2>4 DEF ProcessesTyped
  <2>6. Counted'
    <3> SUFFICES ASSUME NEW r \in Senders
                 PROVE  /\ begun'[r] <= Len(team.sends[r])
                        /\ pc'[r] # "idle" => begun'[r] > 0
        BY DEF Counted
    <3>1. CASE r = s
      <4>1. begun'[r] = begun[s] + 1
          BY <2>1, <3>1 DEF ProcessesTyped
      <4> QED
          BY <1>3, <2>1, <3>1, <4>1
    <3>2. CASE r # s
      <4>1. begun'[r] = begun[r] /\ pc'[r] = pc[r]
          BY <2>1, <2>3, <3>2 DEF ProcessesTyped
      <4> QED
          BY <4>1 DEF Counted
    <3> QED
        BY <3>1, <3>2
  <2> QED
      BY <2>2, <2>5, <2>6 DEF TInv
<1>5. CASE \E s \in Senders : Create(s)
  <2> PICK s \in Senders : Create(s)
      BY <1>5
  <2>1. /\ exists' = exists /\ content' = content /\ lock' = lock
        /\ buffer' = buffer /\ begun' = begun
        /\ posted' = posted /\ marking' = marking /\ taken' = taken
        /\ delivered' = delivered /\ faults' = faults /\ torn' = torn
        /\ pc[s] = "create" /\ pc' = [pc EXCEPT ![s] = "lock"]
      BY DEF Create, Goto, ownerVars
  <2>2. FileTyped'
      BY <2>1 DEF Create, FileTyped
  <2>3. ProcessesTyped'
      BY <2>1 DEF ProcessesTyped
  <2>4. Counted'
      BY <2>1 DEF Counted, ProcessesTyped
  <2> QED
      BY <2>2, <2>3, <2>4 DEF TInv
<1>6. CASE \E p \in Polls : Poll(p)
  <2> PICK p \in Polls : Poll(p)
      BY <1>6
  <2>1. /\ exists' = exists /\ content' = content /\ text' = text
        /\ lock' = lock /\ buffer' = buffer /\ begun' = begun
        /\ posted' = posted /\ faults' = faults /\ torn' = torn
        /\ pc' = [pc EXCEPT ![p] = "lock"]
      BY DEF Poll, Goto, fileVars
  <2>2. FileTyped'
      BY <2>1 DEF FileTyped
  <2>3. ProcessesTyped'
      BY <2>1, PollTyped DEF ProcessesTyped
  <2>4. Counted'
    <3>1. \A s \in Senders : pc'[s] = pc[s]
        BY <2>1 DEF ProcessesTyped
    <3> QED
        BY <2>1, <3>1 DEF Counted
  <2> QED
      BY <2>2, <2>3, <2>4 DEF TInv
<1>7. CASE \E p \in Processes : Lock(p)
  <2> PICK p \in Processes : Lock(p)
      BY <1>7
  <2>1. /\ exists' = exists /\ content' = content /\ text' = text
        /\ buffer' = buffer /\ begun' = begun /\ lock' = p
        /\ posted' = posted /\ marking' = marking /\ taken' = taken
        /\ delivered' = delivered /\ faults' = faults /\ torn' = torn
        /\ pc[p] = "lock" /\ pc' = [pc EXCEPT ![p] = "read"]
      BY DEF Lock, Goto, ownerVars
  <2>2. FileTyped'
      BY <2>1 DEF FileTyped
  <2>3. ProcessesTyped'
      BY <2>1 DEF ProcessesTyped
  <2>4. Counted'
      BY <2>1 DEF Counted, ProcessesTyped
  <2> QED
      BY <2>2, <2>3, <2>4 DEF TInv
<1>8. CASE \E p \in Processes : LockFails(p)
  <2> PICK p \in Processes : LockFails(p)
      BY <1>8
  <2>1. /\ exists' = exists /\ content' = content /\ text' = text
        /\ lock' = lock /\ buffer' = buffer /\ begun' = begun
        /\ posted' = posted /\ faults < MaxFaults /\ faults' = faults + 1
        /\ torn' = torn
      BY DEF LockFails, fileVars
  <2>2. FileTyped'
      BY <2>1 DEF FileTyped
  <2>3. faults' \in 0..MaxFaults
      BY <2>1, FaultsAssumption DEF ProcessesTyped
  <2>4. /\ pc' = [pc EXCEPT ![p] = "idle"] /\ marking' = marking
        /\ taken' \in [Polls -> Seq(Messages)]
        /\ delivered' \in Seq(Messages)
      BY ReturnTyped DEF LockFails
  <2>5. ProcessesTyped'
      BY <2>1, <2>3, <2>4 DEF ProcessesTyped
  <2>6. Counted'
      BY <2>1, <2>4 DEF Counted, ProcessesTyped
  <2> QED
      BY <2>2, <2>5, <2>6 DEF TInv
<1>9. CASE \E p \in Processes : Read(p)
  <2> PICK p \in Processes : Read(p)
      BY <1>9
  <2>1. /\ exists' = exists /\ content' = content /\ text' = text
        /\ lock' = lock /\ begun' = begun
        /\ posted' = posted /\ marking' = marking /\ taken' = taken
        /\ delivered' = delivered /\ faults' = faults /\ torn' = torn
        /\ pc[p] = "read"
      BY DEF Read, fileVars, ownerVars
  <2>2. FileTyped'
      BY <2>1 DEF FileTyped
  <2>3. ReadMailbox \in Seq(Entry)
      BY DEF ReadMailbox, FileTyped
  <2>4. p \in Senders => <<p, begun[p]>> \in Messages
    <3> HAVE p \in Senders
    <3>1. begun[p] # 0 /\ begun[p] <= Len(team.sends[p])
        BY <1>3, <2>1 DEF Counted
    <3> QED
        BY <1>3, <3>1, MessagesAre
  <2>5. Changed(p, ReadMailbox) \in Seq(Entry)
      BY <2>3, <2>4, ChangedTyped DEF Entry
  <2>6. PICK place \in {"unlock", "truncate"} : pc' = [pc EXCEPT ![p] = place]
      BY DEF Read, Goto
  <2>7. buffer' \in [Processes -> Seq(Entry)]
      BY <2>5 DEF Read, ProcessesTyped
  <2>8. ProcessesTyped'
      BY <2>1, <2>6, <2>7 DEF ProcessesTyped
  <2>9. Counted'
      BY <2>1, <2>6 DEF Counted, ProcessesTyped
  <2> QED
      BY <2>2, <2>8, <2>9 DEF TInv
<1>10. CASE \E p \in Processes : Truncate(p)
  <2> PICK p \in Processes : Truncate(p)
      BY <1>10
  <2>1. /\ exists' = exists /\ content' = <<>> /\ text' = "empty"
        /\ lock' = lock /\ buffer' = buffer /\ begun' = begun
        /\ posted' = posted /\ marking' = marking /\ taken' = taken
        /\ delivered' = delivered /\ faults' = faults /\ torn' = torn
        /\ pc[p] = "truncate" /\ pc' = [pc EXCEPT ![p] = "write"]
      BY DEF Truncate, Goto, ownerVars
  <2>2. FileTyped'
      BY <2>1 DEF FileTyped
  <2>3. ProcessesTyped'
      BY <2>1 DEF ProcessesTyped
  <2>4. Counted'
      BY <2>1 DEF Counted, ProcessesTyped
  <2> QED
      BY <2>2, <2>3, <2>4 DEF TInv
<1>11. CASE \E p \in Processes : Write(p)
  <2> PICK p \in Processes : Write(p)
      BY <1>11
  <2>1. /\ exists' = exists /\ content' = buffer[p] /\ text' = "json"
        /\ lock' = lock /\ begun' = begun
        /\ buffer' = [buffer EXCEPT ![p] = <<>>]
        /\ marking' = marking /\ taken' = taken
        /\ delivered' = delivered /\ faults' = faults /\ torn' = torn
        /\ pc[p] = "write" /\ pc' = [pc EXCEPT ![p] = "unlock"]
      BY DEF Write, Goto, ownerVars
  <2>2. FileTyped'
      BY <2>1 DEF FileTyped, ProcessesTyped
  <2>3. posted' \subseteq Messages
    <3>1. p \in Senders => <<p, begun[p]>> \in Messages
      <4> HAVE p \in Senders
      <4>1. begun[p] # 0 /\ begun[p] <= Len(team.sends[p])
          BY <1>3, <2>1 DEF Counted
      <4> QED
          BY <1>3, <4>1, MessagesAre
    <3> QED
        BY <3>1 DEF Write, ProcessesTyped
  <2>4. ProcessesTyped'
      BY <2>1, <2>3 DEF ProcessesTyped
  <2>5. Counted'
      BY <2>1 DEF Counted, ProcessesTyped
  <2> QED
      BY <2>2, <2>4, <2>5 DEF TInv
<1>12. CASE \E p \in Processes : Unlock(p)
  <2> PICK p \in Processes : Unlock(p)
      BY <1>12
  <2>1. /\ exists' = exists /\ content' = content /\ text' = text
        /\ lock' = 0 /\ buffer' = buffer /\ begun' = begun
        /\ posted' = posted /\ faults' = faults /\ torn' = torn
      BY DEF Unlock
  <2>2. FileTyped'
      BY <2>1 DEF FileTyped
  <2>3. /\ pc' = [pc EXCEPT ![p] = "idle"] /\ marking' = marking
        /\ taken' \in [Polls -> Seq(Messages)]
        /\ delivered' \in Seq(Messages)
      BY ReturnTyped DEF Unlock
  <2>4. ProcessesTyped'
      BY <2>1, <2>3 DEF ProcessesTyped
  <2>5. Counted'
      BY <2>1, <2>3 DEF Counted, ProcessesTyped
  <2> QED
      BY <2>2, <2>4, <2>5 DEF TInv
<1>13. CASE \E p \in Processes : WriteFails(p)
  <2> PICK p \in Processes : WriteFails(p)
      BY <1>13
  <2>1. /\ exists' = exists /\ content' = content /\ text' = text
        /\ lock' = lock /\ buffer' = [buffer EXCEPT ![p] = <<>>]
        /\ begun' = begun /\ posted' = posted /\ marking' = marking
        /\ taken' = taken /\ delivered' = delivered
        /\ faults < MaxFaults /\ faults' = faults + 1
        /\ torn' = torn \/ torn' = torn + 1
      BY DEF WriteFails, fileVars, ownerVars
  <2>2. PICK place \in {"idle", "unlock"} : pc' = [pc EXCEPT ![p] = place]
      BY DEF WriteFails, Goto
  <2>3. pc[p] # "idle"
      BY DEF WriteFails
  <2>4. faults' \in 0..MaxFaults
      BY <2>1, FaultsAssumption DEF ProcessesTyped
  <2>5. FileTyped' /\ ProcessesTyped'
      BY <2>1, <2>2, <2>4 DEF FileTyped, ProcessesTyped
  <2>6. Counted'
      BY <2>1, <2>2, <2>3 DEF Counted, ProcessesTyped
  <2> QED
      BY <2>5, <2>6 DEF TInv
<1>14. CASE \E s \in Senders : Dies(s)
  <2> PICK s \in Senders : Dies(s)
      BY <1>14
  <2>1. /\ exists' = exists /\ content' = content /\ text' = text
        /\ lock' = lock /\ buffer' = [buffer EXCEPT ![s] = <<>>]
        /\ begun' = begun /\ posted' = posted /\ marking' = marking
        /\ taken' = taken /\ delivered' = delivered
        /\ faults < MaxFaults /\ faults' = faults + 1
        /\ torn' = torn \/ torn' = torn + 1
        /\ pc[s] # "idle" /\ pc' = [pc EXCEPT ![s] = "dead"]
      BY DEF Dies, Goto, fileVars, ownerVars
  <2>2. faults' \in 0..MaxFaults
      BY <2>1, FaultsAssumption DEF ProcessesTyped
  <2>3. FileTyped' /\ ProcessesTyped'
      BY <2>1, <2>2 DEF FileTyped, ProcessesTyped
  <2>4. Counted'
      BY <2>1 DEF Counted, ProcessesTyped
  <2> QED
      BY <2>3, <2>4 DEF TInv
<1>15. CASE GoStale
    BY <1>15 DEF GoStale, ownerVars, TInv, FileTyped, ProcessesTyped, Counted
<1>16. CASE UNCHANGED vars
    BY <1>16 DEF vars, fileVars, ownerVars, TInv, FileTyped, ProcessesTyped,
       Counted
<1> QED
    BY <1>4, <1>5, <1>6, <1>7, <1>8, <1>9, <1>10, <1>11, <1>12, <1>13,
       <1>14, <1>15, <1>16 DEF Next, Change

\* The types of the inbox and of those who use it, also when the inbox does not
\* exist yet and several senders create it at a time.
THEOREM TypeCorrect == Spec => []TypeOK
BY InitTyped, NextTyped, TypedIsTyped, PTL DEF Spec

-----------------------------------------------------------------------------
(* In the order in which they were sent *)

Early == {"lock", "read", "truncate"}

\* The messages of a sender are in the order of their numbers.
Sorted(entries) ==
    \A i, j \in DOMAIN entries :
        i < j /\ entries[i].id[1] = entries[j].id[1]
        => entries[i].id[2] < entries[j].id[2]

\* Where the processes are at their places and have begun so many: every
\* message was begun, and none is the one that its sender, other than q, is
\* still to add.
Made(entries, q, at, sent) ==
    \A i \in DOMAIN entries :
        LET s == entries[i].id[1]
        IN  /\ s \in DOMAIN sent /\ entries[i].id[2] <= sent[s]
            /\ at[s] \in Early /\ s # q => entries[i].id[2] < sent[s]

Numbered ==
    /\ Sorted(Entries) /\ Made(Entries, 0, pc, begun)
    /\ \A q \in Processes : pc[q] = "truncate" =>
          Sorted(buffer[q]) /\ Made(buffer[q], q, pc, begun)
    /\ Adds

\* The kind of a message, of what the senders send.
KindOf(m, sends) == sends[m[1]][m[2]]

\* Of the messages of one kind the first are read.
ReadFirst(entries, sends) ==
    \A i, j \in DOMAIN entries :
        /\ i < j /\ entries[j].read
        /\ KindOf(entries[i].id, sends) = KindOf(entries[j].id, sends)
        => entries[i].read

IsRead(entries, m) ==
    \E i \in DOMAIN entries : entries[i].id = m /\ entries[i].read

FirstOfKind(entries, i, sends) ==
    /\ i \in DOMAIN entries /\ ~entries[i].read
    /\ \A j \in DOMAIN entries :
          j < i /\ KindOf(entries[j].id, sends) = KindOf(entries[i].id, sends)
          => entries[j].read

\* What a poll has taken is in the inbox, to be marked, and then is marked.
Hand(p) ==
    /\ pc[p] \in {"lock", "read"} =>
          /\ marking[p] # 0 => FirstOfKind(Entries, marking[p], team.sends)
          /\ \A m \in Items(taken[p]) : \E i \in DOMAIN Entries :
                Entries[i].id = m /\ marking[p] \in {0, i}
    /\ pc[p] = "truncate" => \A m \in Items(taken[p]) : IsRead(buffer[p], m)
    /\ pc[p] \in {"write", "unlock"} =>
          \A m \in Items(taken[p]) : IsRead(Entries, m)

Later(m, n, sends) ==
    m[1] = n[1] /\ KindOf(m, sends) = KindOf(n, sends) => m[2] < n[2]

Successive(s, sends) ==
    \A i, j \in DOMAIN s : i < j => Later(s[i], s[j], sends)

\* What was delivered is read, and comes before what a poll has taken.
Ordered ==
    /\ ReadFirst(Entries, team.sends)
    /\ \A q \in Processes :
          pc[q] = "truncate" => ReadFirst(buffer[q], team.sends)
    /\ \A p \in Polls : Hand(p)
    /\ \A m \in Items(delivered) : IsRead(Entries, m)
    /\ Successive(delivered, team.sends)
    /\ \A p \in Polls : Successive(taken[p], team.sends)
    /\ \A p \in Polls :
          \A m \in Items(delivered), n \in Items(taken[p]) :
              Later(m, n, team.sends)

Undisturbed == team.owner # "poller" /\ faults = 0

OInv == IInv /\ TInv /\ Numbered /\ (Undisturbed => Ordered)

\* A step that puts nothing into the inbox and prepares nothing for it.
Calm ==
    /\ Entries' = Entries
    /\ \A q \in Processes : pc'[q] = "truncate" =>
          pc[q] = "truncate" /\ buffer'[q] = buffer[q] /\ content' = content
    /\ \A s \in Senders :
          /\ begun[s] <= begun'[s]
          /\ pc'[s] \in Early =>
                \/ pc[s] \in Early /\ begun'[s] = begun[s]
                \/ begun[s] < begun'[s]

\* A step that leaves the hands of the owner as they are.
Still ==
    /\ marking' = marking /\ taken' = taken /\ delivered' = delivered
    /\ \A p \in Polls :
          /\ pc'[p] \in {"lock", "read"} => pc[p] \in {"lock", "read"}
          /\ pc'[p] \in {"write", "unlock"} => pc[p] \in {"write", "unlock"}

\* A write ends after it has truncated the file.
Gone == Entries' = <<>> /\ \A q \in Processes : pc'[q] # "truncate"

LEMMA SetsStay ==
    ASSUME IInv
    PROVE  /\ team' = team => Senders' = Senders /\ Polls' = Polls
                                /\ Processes' = Processes
           /\ Senders \subseteq Processes /\ Polls \subseteq Processes
           /\ Senders \intersect Polls = {} /\ 0 \notin Processes
           /\ \A p \in Processes : p \in Senders \/ p \in Polls
BY ProcessesAreNumbers DEF IInv, Typed, Processes, Senders, Polls

\* A step that gives up what a process was about to do.
LEMMA GivesUp ==
    ASSUME IInv, IInv', NEW p \in Processes, team' = team,
           content' = content, text' = text, begun' = begun,
           NEW place \in {"unlock", "dead"},
           pc' = [pc EXCEPT ![p] = place],
           buffer' = [buffer EXCEPT ![p] = <<>>]
    PROVE  Calm \/ Gone
<1>1. /\ pc \in [Processes -> Places] /\ begun \in [Senders -> Nat]
      /\ buffer \in [Processes -> Seq(Row)] /\ Typed'
      /\ Processes' = Processes /\ Senders \subseteq Processes
    BY SetsStay DEF IInv, Typed
<1>2. \A s \in Senders : begun[s] <= begun[s]
    BY <1>1
<1>3. CASE pc[p] = "write"
  <2>1. Entries' = <<>>
      BY <1>1, <1>3, WriterLost
  <2>2. \A q \in Processes : pc'[q] # "truncate"
      BY <1>1, <1>3, OneWriter DEF Holding
  <2> QED
      BY <2>1, <2>2 DEF Gone
<1>4. CASE pc[p] # "write"
  <2>1. Entries' = Entries
      BY <1>1, <1>4, NoWriteStep
  <2> QED
      BY <1>1, <1>2, <2>1 DEF Calm, Early
<1> QED
    BY <1>3, <1>4

\* Only a truncation and the write after it put anything into the inbox, and
\* only a process that reads it prepares anything.
LEMMA StepKinds ==
    ASSUME IInv, IInv', TInv, [Next]_vars
    PROVE  /\ team' = team
           /\ \/ Calm /\ Still
              \/ Calm /\ \E p \in Polls : Poll(p)
              \/ Calm /\ \E p \in Polls : Unlock(p)
              \/ (Calm \/ Gone) /\ faults' # 0
              \/ \E p \in Processes : Read(p)
              \/ \E p \in Processes : Truncate(p)
<1>1. team' = team
    BY DEF Next, Change, vars, Begin, Create, Poll, Lock, Read, Truncate,
       Write, Unlock, LockFails, WriteFails, Dies, GoStale
<1>2. /\ pc \in [Processes -> Places] /\ begun \in [Senders -> Nat]
      /\ exists = TRUE /\ faults \in Nat /\ Locked' /\ Typed'
    BY DEF IInv, Typed, TInv, ProcessesTyped
<1>3. Processes' = Processes /\ Senders \subseteq Processes
      /\ Polls \subseteq Processes /\ Senders \intersect Polls = {}
      /\ \A p \in Processes : p \in Senders \/ p \in Polls
    BY <1>1, SetsStay
<1>4. \A s \in Senders : begun[s] <= begun[s]
    BY <1>2
<1>5. CASE \E s \in Senders : Begin(s)
  <2> PICK s \in Senders : Begin(s)
      BY <1>5
  <2>1. /\ content' = content /\ text' = text /\ buffer' = buffer
        /\ marking' = marking /\ taken' = taken /\ delivered' = delivered
        /\ begun' = [begun EXCEPT ![s] = @ + 1]
        /\ pc[s] = "idle" /\ pc' = [pc EXCEPT ![s] = "lock"]
      BY <1>2 DEF Begin, Goto, ownerVars
  <2>2. Entries' = Entries
      BY <1>2, <1>3, <2>1, NoWriteStep
  <2>3. begun[s] < begun'[s] /\ begun[s] <= begun'[s]
      BY <1>2, <2>1
  <2>4. \A r \in Senders \ {s} : begun'[r] = begun[r] /\ pc'[r] = pc[r]
      BY <1>2, <1>3, <2>1
  <2>5. Calm
      BY <1>2, <1>3, <1>4, <2>1, <2>2, <2>3, <2>4 DEF Calm
  <2>6. Still
      BY <1>2, <1>3, <2>1 DEF Still
  <2> QED
      BY <1>1, <2>5, <2>6
<1>6. CASE \E s \in Senders : Create(s)
    BY <1>2, <1>3, <1>6 DEF Create, Places
<1>7. CASE \E p \in Polls : Poll(p)
  <2> PICK p \in Polls : Poll(p)
      BY <1>7
  <2>1. /\ content' = content /\ text' = text /\ buffer' = buffer
        /\ begun' = begun
        /\ pc[p] = "idle" /\ pc' = [pc EXCEPT ![p] = "lock"]
      BY DEF Poll, Goto, fileVars
  <2>2. Entries' = Entries
      BY <1>2, <1>3, <2>1, NoWriteStep
  <2>3. Calm
      BY <1>2, <1>3, <1>4, <2>1, <2>2 DEF Calm
  <2> QED
      BY <1>1, <2>3
<1>8. CASE \E p \in Processes : Lock(p)
  <2> PICK p \in Processes : Lock(p)
      BY <1>8
  <2>1. /\ content' = content /\ text' = text /\ buffer' = buffer
        /\ begun' = begun
        /\ marking' = marking /\ taken' = taken /\ delivered' = delivered
        /\ pc[p] = "lock" /\ pc' = [pc EXCEPT ![p] = "read"]
      BY DEF Lock, Goto, ownerVars
  <2>2. Entries' = Entries
      BY <1>2, <1>3, <2>1, NoWriteStep
  <2>3. Calm
      BY <1>2, <1>3, <1>4, <2>1, <2>2 DEF Calm, Early
  <2>4. Still
      BY <1>2, <1>3, <2>1 DEF Still
  <2> QED
      BY <1>1, <2>3, <2>4
<1>9. CASE \E p \in Processes : LockFails(p) \/ Unlock(p)
  <2> PICK p \in Processes : LockFails(p) \/ Unlock(p)
      BY <1>9
  <2>1. /\ content' = content /\ text' = text /\ buffer' = buffer
        /\ begun' = begun
        /\ pc[p] \in {"lock", "unlock"} /\ Return(p)
      BY DEF LockFails, Unlock, fileVars
  <2>2. pc' = [pc EXCEPT ![p] = "idle"] /\ marking' = marking
      BY <2>1 DEF Return, Goto
  <2>3. Entries' = Entries
      BY <1>2, <1>3, <2>1, <2>2, NoWriteStep
  <2>4. Calm
      BY <1>2, <1>3, <1>4, <2>1, <2>2, <2>3 DEF Calm, Early
  <2>5. LockFails(p) => faults' # 0
      BY <1>2 DEF LockFails
  <2>6. p \notin Polls => Still
      BY <1>2, <1>3, <2>1, <2>2 DEF Return, Still
  <2> QED
      BY <1>1, <2>4, <2>5, <2>6
<1>10. CASE \E p \in Processes : Write(p)
  <2> PICK p \in Processes : Write(p)
      BY <1>10
  <2>1. /\ content' = buffer[p] /\ begun' = begun
        /\ buffer' = [buffer EXCEPT ![p] = <<>>]
        /\ marking' = marking /\ taken' = taken /\ delivered' = delivered
        /\ pc[p] = "write" /\ pc' = [pc EXCEPT ![p] = "unlock"]
      BY DEF Write, Goto, ownerVars
  <2>2. \A q \in Processes : pc'[q] \notin {"truncate", "write"}
      BY <1>2, <2>1, OneWriter DEF Holding
  <2>3. Entries = buffer[p]
      BY <2>1, EntriesWritten
  <2>4. {q \in Processes : pc[q] = "write"}' = {}
      BY <1>3, <2>2
  <2>5. Entries' = Entries
      BY <2>1, <2>3, <2>4 DEF Entries
  <2>6. Calm
      BY <1>2, <1>3, <1>4, <2>1, <2>2, <2>5 DEF Calm, Early
  <2>7. Still
      BY <1>2, <1>3, <2>1 DEF Still
  <2> QED
      BY <1>1, <2>6, <2>7
<1>11. CASE \E p \in Processes : WriteFails(p)
  <2> PICK p \in Processes : WriteFails(p)
      BY <1>11
  <2>1. faults' # 0
      BY <1>2 DEF WriteFails
  <2>2. pc' = [pc EXCEPT ![p] = "unlock"]
      BY <1>2 DEF WriteFails, Goto, Places
  <2>3. /\ content' = content /\ text' = text /\ begun' = begun
        /\ buffer' = [buffer EXCEPT ![p] = <<>>]
      BY DEF WriteFails, fileVars
  <2> QED
      BY <1>1, <2>1, <2>2, <2>3, GivesUp
<1>12. CASE \E s \in Senders : Dies(s)
  <2> PICK s \in Senders : Dies(s)
      BY <1>12
  <2>1. faults' # 0
      BY <1>2 DEF Dies
  <2>2. /\ content' = content /\ text' = text /\ begun' = begun
        /\ buffer' = [buffer EXCEPT ![s] = <<>>]
        /\ pc' = [pc EXCEPT ![s] = "dead"]
      BY DEF Dies, Goto, fileVars
  <2> QED
      BY <1>1, <1>3, <2>1, <2>2, GivesUp
<1>13. CASE GoStale \/ UNCHANGED vars
  <2>1. /\ content' = content /\ text' = text /\ buffer' = buffer
        /\ begun' = begun /\ pc' = pc
        /\ marking' = marking /\ taken' = taken /\ delivered' = delivered
      BY <1>13 DEF GoStale, vars, fileVars, ownerVars
  <2>2. Entries' = Entries
      BY <1>2, <1>3, <2>1, NoWriteStep
  <2>3. Calm /\ Still
      BY <1>4, <2>1, <2>2 DEF Calm, Still
  <2> QED
      BY <1>1, <2>3
<1> QED
    BY <1>1, <1>5, <1>6, <1>7, <1>8, <1>9, <1>10, <1>11, <1>12, <1>13
       DEF Next, Change

\* The inbox that a process at "truncate" or "read" works on.
LEMMA ContentShown ==
    ASSUME IInv, NEW p \in Processes, pc[p] \in {"read", "truncate"}
    PROVE  Entries = content
BY OneWriter, EntriesStored DEF Holding

\* A truncation shows what was prepared.
LEMMA TruncateShows ==
    ASSUME IInv, IInv', NEW p \in Processes, Truncate(p)
    PROVE  /\ team' = team /\ buffer' = buffer /\ begun' = begun
           /\ marking' = marking /\ taken' = taken /\ delivered' = delivered
           /\ pc[p] = "truncate" /\ pc' = [pc EXCEPT ![p] = "write"]
           /\ Entries = content /\ Entries' = buffer[p]
           /\ \A q \in Processes : pc'[q] # "truncate"
<1>1. /\ team' = team /\ buffer' = buffer /\ begun' = begun
      /\ marking' = marking /\ taken' = taken /\ delivered' = delivered
      /\ pc[p] = "truncate" /\ pc' = [pc EXCEPT ![p] = "write"]
    BY DEF Truncate, Goto, ownerVars
<1>2. pc \in [Processes -> Places] /\ Processes' = Processes
    BY <1>1, SetsStay DEF IInv, Typed
<1>3. \A q \in Processes : pc'[q] = "write" <=> q = p
    BY <1>1, <1>2, OneWriter DEF Holding
<1>4. \A q \in Processes : pc'[q] # "truncate"
    BY <1>1, <1>2, OneWriter DEF Holding
<1>5. {q \in Processes : pc[q] = "write"}' = {p}
    BY <1>2, <1>3
<1>6. Entries' = buffer[p]
    BY <1>1, <1>5 DEF Entries
<1> QED
    BY <1>1, <1>4, <1>6, ContentShown

\* A reading leaves the inbox alone; a sender adds its message to it, and a poll
\* marks, unless there is nothing to mark.
LEMMA ReadPrepares ==
    ASSUME IInv, IInv', NEW p \in Processes, Read(p)
    PROVE  /\ team' = team /\ content' = content /\ begun' = begun
           /\ marking' = marking /\ taken' = taken /\ delivered' = delivered
           /\ pc[p] = "read" /\ Entries = content /\ Entries' = content
           /\ \A q \in Processes : q # p =>
                 pc'[q] = pc[q] /\ buffer'[q] = buffer[q]
           /\ \A q \in Processes : q # p => pc[q] # "truncate"
           /\ \/ pc'[p] = "unlock" /\ Nothing(p, content)
              \/ /\ pc'[p] = "truncate" /\ ~Nothing(p, content)
                 /\ buffer'[p] = Changed(p, content)
<1>1. /\ team' = team /\ content' = content /\ text' = text
      /\ marking' = marking /\ begun' = begun
      /\ taken' = taken /\ delivered' = delivered /\ pc[p] = "read"
    BY DEF Read, fileVars, ownerVars
<1>2. ReadMailbox = content
    BY <1>1, ReadIsContent
<1>3. \/ /\ pc' = [pc EXCEPT ![p] = "unlock"] /\ buffer' = buffer
         /\ Nothing(p, content)
      \/ /\ pc' = [pc EXCEPT ![p] = "truncate"] /\ ~Nothing(p, content)
         /\ buffer' = [buffer EXCEPT ![p] = Changed(p, content)]
    BY <1>2 DEF Read, Goto
<1>4. /\ pc \in [Processes -> Places] /\ buffer \in [Processes -> Seq(Row)]
      /\ Processes' = Processes /\ Locked' /\ Typed'
    BY <1>1, SetsStay DEF IInv, Typed
<1>5. /\ \A q \in Processes : pc'[q] = "write" <=> pc[q] = "write"
      /\ \A q \in Processes : pc[q] = "write" => buffer'[q] = buffer[q]
    BY <1>1, <1>3, <1>4
<1>6. Entries' = Entries
    BY <1>1, <1>4, <1>5, NoWriteStep
<1>7. Entries = content
    BY <1>1, ContentShown
<1>8. /\ \A q \in Processes : q # p =>
            pc'[q] = pc[q] /\ buffer'[q] = buffer[q]
      /\ \/ pc'[p] = "unlock" /\ Nothing(p, content)
         \/ /\ pc'[p] = "truncate" /\ ~Nothing(p, content)
            /\ buffer'[p] = Changed(p, content)
    BY <1>3, <1>4
<1>9. \A q \in Processes : q # p => pc[q] # "truncate"
    BY <1>1, OneWriter DEF Holding
<1> QED
    BY <1>1, <1>6, <1>7, <1>8, <1>9

-----------------------------------------------------------------------------
(* The numbers of the messages *)

LEMMA MadeStays ==
    ASSUME NEW entries \in Seq(Row), NEW q, NEW at, NEW at2, NEW S,
           NEW sent \in [S -> Nat], NEW sent2 \in [S -> Nat],
           Made(entries, q, at, sent),
           \A s \in S :
              /\ sent[s] <= sent2[s]
              /\ at2[s] \in Early =>
                    \/ at[s] \in Early /\ sent2[s] = sent[s]
                    \/ sent[s] < sent2[s]
    PROVE  Made(entries, q, at2, sent2)
<1> SUFFICES ASSUME NEW i \in DOMAIN entries
             PROVE  LET s == entries[i].id[1]
                    IN  /\ s \in S /\ entries[i].id[2] <= sent2[s]
                        /\ at2[s] \in Early /\ s # q
                              => entries[i].id[2] < sent2[s]
    BY DEF Made
<1>1. entries[i] \in Row
    OBVIOUS
<1>2. PICK s \in Nat, n \in Nat : entries[i].id[1] = s /\ entries[i].id[2] = n
    BY <1>1 DEF Row, Id
<1>3. s \in S /\ n <= sent[s] /\ (at[s] \in Early /\ s # q => n < sent[s])
    BY <1>2 DEF Made
<1>4. sent[s] \in Nat /\ sent2[s] \in Nat
    BY <1>3
<1>5. n <= sent2[s] /\ (at2[s] \in Early /\ s # q => n < sent2[s])
    BY <1>3, <1>4
<1> QED
    BY <1>2, <1>3, <1>5

LEMMA CalmNumbers ==
    ASSUME IInv, IInv', Numbered, team' = team, Calm
    PROVE  Numbered'
<1>1. /\ Entries \in Seq(Row) /\ buffer \in [Processes -> Seq(Row)]
      /\ begun \in [Senders -> Nat] /\ begun' \in [Senders -> Nat]
      /\ Senders' = Senders /\ Processes' = Processes /\ Senders \subseteq Processes
    BY EntriesType, SetsStay DEF IInv, Typed
<1>2. \A entries \in Seq(Row) : \A q :
          Made(entries, q, pc, begun) => Made(entries, q, pc', begun')
  <2> SUFFICES ASSUME NEW entries \in Seq(Row), NEW q,
                      Made(entries, q, pc, begun)
               PROVE  Made(entries, q, pc', begun')
      OBVIOUS
  <2> QED
      BY <1>1, MadeStays DEF Calm
<1>3. Sorted(Entries') /\ Made(Entries', 0, pc', begun')
    BY <1>1, <1>2 DEF Calm, Numbered
<1>4. ASSUME NEW q \in Processes, pc'[q] = "truncate"
      PROVE  Sorted(buffer'[q]) /\ Made(buffer'[q], q, pc', begun')
  <2>1. pc[q] = "truncate" /\ buffer'[q] = buffer[q]
      BY <1>4 DEF Calm
  <2> QED
      BY <1>1, <1>2, <2>1 DEF Numbered
<1>5. Adds'
    BY <1>1 DEF Calm, Numbered, Adds, OneMore
<1> QED
    BY <1>1, <1>3, <1>4, <1>5 DEF Numbered

\* What a sender adds comes after its other messages.
LEMMA AppendSorted ==
    ASSUME NEW entries \in Seq(Row), Sorted(entries), NEW e \in Row,
           \A i \in DOMAIN entries :
              entries[i].id[1] = e.id[1] => entries[i].id[2] < e.id[2]
    PROVE  Sorted(Append(entries, e))
<1> DEFINE new == Append(entries, e)
<1>1. PICK n \in Nat : DOMAIN entries = 1..n /\ Len(entries) = n
    OBVIOUS
<1>2. /\ DOMAIN new = 1..(n + 1) /\ new[n + 1] = e
      /\ \A i \in 1..n : new[i] = entries[i]
    BY <1>1
<1> HIDE DEF new
<1>3. ASSUME NEW i \in 1..(n + 1), NEW j \in 1..(n + 1), i < j,
             new[i].id[1] = new[j].id[1]
      PROVE  new[i].id[2] < new[j].id[2]
  <2>1. i \in 1..n
      BY <1>3
  <2>2. CASE j \in 1..n
      BY <1>1, <1>2, <1>3, <2>1, <2>2 DEF Sorted
  <2>3. CASE j = n + 1
      BY <1>1, <1>2, <1>3, <2>1, <2>3
  <2> QED
      BY <2>2, <2>3
<1>4. Sorted(new)
    BY <1>2, <1>3 DEF Sorted
<1> QED
    BY <1>4 DEF new

LEMMA ReadNumbers ==
    ASSUME IInv, IInv', Numbered, NEW p \in Processes, Read(p)
    PROVE  Numbered'
<1>0. /\ content \in Seq(Row) /\ begun \in [Senders -> Nat] /\ begun' = begun
      /\ team' = team /\ content' = content /\ Entries = content
      /\ Entries' = content /\ pc[p] = "read"
      /\ \A q \in Processes : q # p => pc'[q] = pc[q] /\ pc[q] # "truncate"
      /\ Senders \subseteq Processes /\ 0 \notin Processes
      /\ Senders' = Senders /\ Processes' = Processes
      /\ pc'[p] \in {"unlock", "truncate"}
      /\ pc'[p] = "truncate" => buffer'[p] = Changed(p, content)
    BY ReadPrepares, SetsStay DEF IInv, Typed
<1>1. \A s \in Senders : pc'[s] \in Early => pc[s] \in Early
    BY <1>0 DEF Early
<1>2. Sorted(content) /\ Made(content, 0, pc, begun)
    BY <1>0 DEF Numbered
<1>3. \A s \in Senders : begun[s] <= begun[s]
    BY <1>0
<1>4. Made(content, 0, pc', begun)
    BY <1>0, <1>1, <1>2, <1>3, MadeStays
<1>5. \A q \in Processes : pc'[q] = "truncate" => q = p
    BY <1>0
<1>6. ASSUME p \in Senders, pc'[p] = "truncate"
      PROVE  /\ Sorted(buffer'[p]) /\ Made(buffer'[p], p, pc', begun)
             /\ OneMore(content, buffer'[p])
  <2> DEFINE e == NewEntry(p)
  <2>1. /\ e \in Row /\ e.read = FALSE /\ e.id[1] = p /\ e.id[2] = begun[p]
        /\ begun[p] \in Nat
      BY <1>0, <1>6, ProcessesAreNumbers
         DEF NewEntry, Row, Id, IInv, Typed
  <2>2. buffer'[p] = Append(content, e)
      BY <1>0, <1>6 DEF Changed
  <2> HIDE DEF e
  <2>3. p # 0 /\ pc[p] \in Early
      BY <1>0 DEF Early
  <2>4. \A i \in DOMAIN content :
            content[i].id[1] = e.id[1] => content[i].id[2] < e.id[2]
      BY <1>2, <2>1, <2>3 DEF Made
  <2>5. Sorted(buffer'[p]) /\ OneMore(content, buffer'[p])
      BY <1>0, <1>2, <2>1, <2>2, <2>4, AppendSorted, AppendOne
  <2>6. Made(buffer'[p], p, pc', begun)
    <3> DEFINE new == buffer'[p]
    <3>1. PICK n \in Nat : DOMAIN content = 1..n /\ Len(content) = n
        BY <1>0
    <3>2. /\ DOMAIN new = 1..(n + 1) /\ new[n + 1] = e
          /\ \A i \in 1..n : new[i] = content[i]
        BY <1>0, <2>2, <3>1
    <3> HIDE DEF new
    <3> SUFFICES ASSUME NEW i \in 1..(n + 1)
                 PROVE  LET s == new[i].id[1]
                        IN  /\ s \in Senders /\ new[i].id[2] <= begun[s]
                            /\ pc'[s] \in Early /\ s # p
                                  => new[i].id[2] < begun[s]
        BY <1>0, <3>2 DEF Made, new
    <3>3. CASE i \in 1..n
      <4>1. content[i].id[1] # 0
        <5>1. content[i].id[1] \in Senders
            BY <1>0, <1>4, <3>1, <3>3 DEF Made
        <5> QED
            BY <1>0, <5>1
      <4> QED
          BY <1>0, <1>4, <3>1, <3>2, <3>3, <4>1 DEF Made
    <3>4. CASE i = n + 1
      <4>1. new[i] = e
          BY <3>2, <3>4
      <4>2. begun[p] <= begun[p]
          BY <2>1
      <4> QED
          BY <1>6, <2>1, <4>1, <4>2
    <3> QED
        BY <3>3, <3>4
  <2> QED
      BY <2>5, <2>6
<1>7. ASSUME p \notin Senders, pc'[p] = "truncate"
      PROVE  Sorted(buffer'[p]) /\ Made(buffer'[p], p, pc', begun)
  <2> DEFINE new == buffer'[p]
  <2>1. new = [i \in DOMAIN content |->
                  IF marking[p] \in {0, i}
                  THEN [content[i] EXCEPT !.read = TRUE]
                  ELSE content[i]]
      BY <1>0, <1>7 DEF Changed
  <2>2. \A e \in Row : [e EXCEPT !.read = TRUE].id = e.id
      BY DEF Row
  <2>3. \A i \in DOMAIN content : content[i] \in Row
      BY <1>0
  <2>4. DOMAIN new = DOMAIN content
        /\ \A i \in DOMAIN content : new[i].id = content[i].id
      BY <2>1, <2>2, <2>3
  <2> HIDE DEF new
  <2>5. Sorted(new)
      BY <1>2, <2>4 DEF Sorted
  <2>6. \A i \in DOMAIN content : content[i].id[1] # 0
      BY <1>0, <1>4 DEF Made
  <2>7. Made(new, p, pc', begun)
      BY <1>4, <2>4, <2>6 DEF Made
  <2> QED
      BY <2>5, <2>7 DEF new
<1>8. Adds'
    BY <1>0, <1>5, <1>6 DEF Adds, OneMore
<1>9. /\ Sorted(Entries') /\ Made(Entries', 0, pc', begun')
      /\ \A q \in Processes : pc'[q] = "truncate" =>
            Sorted(buffer'[q]) /\ Made(buffer'[q], q, pc', begun')
    BY <1>0, <1>2, <1>4, <1>5, <1>6, <1>7
<1> QED
    BY <1>0, <1>8, <1>9 DEF Numbered

LEMMA TruncateNumbers ==
    ASSUME IInv, IInv', Numbered, NEW p \in Processes, Truncate(p)
    PROVE  Numbered'
<1>1. /\ team' = team /\ begun' = begun /\ pc[p] = "truncate"
      /\ pc' = [pc EXCEPT ![p] = "write"] /\ Entries' = buffer[p]
      /\ \A q \in Processes : pc'[q] # "truncate"
      /\ pc \in [Processes -> Places] /\ buffer[p] \in Seq(Row)
      /\ begun \in [Senders -> Nat]
      /\ Senders \subseteq Processes
      /\ Senders' = Senders /\ Processes' = Processes
    BY TruncateShows, SetsStay DEF IInv, Typed
<1>2. Sorted(buffer[p]) /\ Made(buffer[p], p, pc, begun)
    BY <1>1 DEF Numbered
<1>3. \A s \in Senders : begun[s] <= begun[s]
                         /\ (pc'[s] \in Early => pc[s] \in Early /\ s # p)
    BY <1>1 DEF Early
<1>4. Made(buffer[p], p, pc', begun)
    BY <1>1, <1>2, <1>3, MadeStays
<1>5. Made(buffer[p], 0, pc', begun)
    BY <1>1, <1>3, <1>4 DEF Made
<1>6. Adds'
    BY <1>1 DEF Adds
<1>7. /\ Sorted(Entries') /\ Made(Entries', 0, pc', begun')
      /\ \A q \in Processes : pc'[q] # "truncate"
    BY <1>1, <1>2, <1>5
<1> QED
    BY <1>1, <1>6, <1>7 DEF Numbered

LEMMA GoneNumbers ==
    ASSUME IInv, IInv', team' = team, Gone
    PROVE  Numbered'
<1>1. /\ Senders' = Senders /\ Processes' = Processes
      /\ Senders \subseteq Processes
    BY SetsStay
<1>2. DOMAIN Entries' = {}
    BY DEF Gone
<1>3. Sorted(Entries') /\ Made(Entries', 0, pc', begun')
    BY <1>2 DEF Sorted, Made
<1> QED
    BY <1>1, <1>3 DEF Gone, Numbered, Adds

LEMMA NumbersKept ==
    ASSUME IInv, IInv', TInv, Numbered, [Next]_vars
    PROVE  Numbered'
BY StepKinds, CalmNumbers, ReadNumbers, TruncateNumbers, GoneNumbers

-----------------------------------------------------------------------------
(* The order of the deliveries *)

LEMMA OnePoll ==
    ASSUME team \in Team, team.owner # "poller",
           NEW p \in Polls, NEW q \in Polls
    PROVE  p = q
BY DEF Team, Polls

\* Who is marked stays so.
LEMMA ReadStays ==
    ASSUME NEW old \in Seq(Row), NEW new, NEW m, IsRead(old, m),
           new = old \/ OneMore(old, new) \/ Marked(old, new)
    PROVE  IsRead(new, m)
<1>1. PICK i \in DOMAIN old : old[i].id = m /\ old[i].read
    BY DEF IsRead
<1>2. PICK n \in Nat : DOMAIN old = 1..n /\ Len(old) = n
    OBVIOUS
<1>3. CASE new = old
    BY <1>3
<1>4. CASE OneMore(old, new)
  <2>1. i \in DOMAIN new /\ new[i] = old[i]
      BY <1>2, <1>4 DEF OneMore
  <2> QED
      BY <1>1, <2>1 DEF IsRead
<1>5. CASE Marked(old, new)
  <2>1. old[i] \in Row
      OBVIOUS
  <2>2. i \in DOMAIN new /\ new[i] \in {old[i], [old[i] EXCEPT !.read = TRUE]}
      BY <1>5 DEF Marked
  <2>3. new[i].id = m /\ new[i].read
      BY <1>1, <2>1, <2>2 DEF Row
  <2> QED
      BY <2>2, <2>3 DEF IsRead
<1> QED
    BY <1>3, <1>4, <1>5

LEMMA ConcatSuccessive ==
    ASSUME NEW T, NEW s \in Seq(T), NEW t \in Seq(T),
           Successive(s, team.sends), Successive(t, team.sends),
           \A m \in Items(s), n \in Items(t) : Later(m, n, team.sends)
    PROVE  Successive(s \o t, team.sends)
<1> DEFINE r == s \o t
<1>1. PICK a \in Nat : DOMAIN s = 1..a /\ Len(s) = a
    OBVIOUS
<1>2. PICK b \in Nat : DOMAIN t = 1..b /\ Len(t) = b
    OBVIOUS
<1>3. /\ DOMAIN r = 1..(a + b) /\ \A i \in 1..a : r[i] = s[i]
      /\ \A i \in (a + 1)..(a + b) : i - a \in 1..b /\ r[i] = t[i - a]
    BY <1>1, <1>2
<1> HIDE DEF r
<1>4. ASSUME NEW i \in 1..(a + b), NEW j \in 1..(a + b), i < j
      PROVE  Later(r[i], r[j], team.sends)
  <2>1. CASE j \in 1..a
    <3>1. i \in 1..a
        BY <1>4, <2>1
    <3> QED
        BY <1>1, <1>3, <1>4, <2>1, <3>1 DEF Successive
  <2>2. CASE i \in (a + 1)..(a + b)
    <3>1. j \in (a + 1)..(a + b) /\ i - a < j - a
        BY <1>4, <2>2
    <3> QED
        BY <1>2, <1>3, <2>2, <3>1 DEF Successive
  <2>3. CASE i \in 1..a /\ j \in (a + 1)..(a + b)
      BY <1>1, <1>2, <1>3, <2>3 DEF Items
  <2>4. \/ j \in 1..a \/ i \in (a + 1)..(a + b)
        \/ i \in 1..a /\ j \in (a + 1)..(a + b)
      OBVIOUS
  <2> QED
      BY <2>1, <2>2, <2>3, <2>4
<1>5. Successive(r, team.sends)
    BY <1>3, <1>4 DEF Successive
<1> QED
    BY <1>5 DEF r

LEMMA StillOrdered ==
    ASSUME OInv, Undisturbed, IInv', team' = team, Calm, Still
    PROVE  Ordered'
<1>1. /\ Ordered /\ Entries' = Entries /\ Polls' = Polls
      /\ Processes' = Processes
    BY SetsStay DEF OInv, Calm
<1>2. ReadFirst(Entries, team.sends)'
    BY <1>1 DEF Ordered
<1>3. (\A q \in Processes :
          pc[q] = "truncate" => ReadFirst(buffer[q], team.sends))'
    BY <1>1 DEF Ordered, Calm
<1>4. (\A r \in Polls : Hand(r))'
  <2> SUFFICES ASSUME NEW p \in Polls
               PROVE  Hand(p)'
      BY <1>1
  <2>1. p \in Processes /\ marking' = marking /\ taken' = taken
      BY SetsStay DEF Still, OInv
  <2>2. CASE pc'[p] \in {"lock", "read"}
    <3>1. pc[p] \in {"lock", "read"}
        BY <2>2 DEF Still
    <3>2. marking[p] # 0 => FirstOfKind(Entries, marking[p], team.sends)'
        BY <1>1, <2>1, <3>1 DEF Ordered, Hand
    <3> QED
        BY <1>1, <2>1, <2>2, <3>1, <3>2 DEF Ordered, Hand
  <2>3. CASE pc'[p] = "truncate"
      BY <1>1, <2>1, <2>3 DEF Ordered, Hand, Calm
  <2>4. CASE pc'[p] \in {"write", "unlock"}
      BY <1>1, <2>1, <2>4 DEF Ordered, Hand, Still
  <2> QED
      BY <2>2, <2>3, <2>4 DEF Hand
<1>5. (\A m \in Items(delivered) : IsRead(Entries, m))'
    BY <1>1 DEF Ordered, Still
<1>6. Successive(delivered, team.sends)'
    BY <1>1 DEF Ordered, Still
<1>7. (\A r \in Polls : Successive(taken[r], team.sends))'
    BY <1>1 DEF Ordered, Still
<1>8. (\A r \in Polls : \A m \in Items(delivered), n \in Items(taken[r]) :
              Later(m, n, team.sends))'
    BY <1>1 DEF Ordered, Still
<1> QED
    BY <1>2, <1>3, <1>4, <1>5, <1>6, <1>7, <1>8 DEF Ordered

\* A return of the poll that has marked what it took.
LEMMA ReturnOrdered ==
    ASSUME OInv, Undisturbed, IInv', team' = team, Calm,
           NEW p \in Polls, Unlock(p)
    PROVE  Ordered'
<1>1. /\ Ordered /\ Entries' = Entries /\ Polls' = Polls
      /\ Processes' = Processes /\ p \in Processes
    BY SetsStay DEF OInv, Calm
<1>2. /\ delivered' = delivered \o taken[p]
      /\ taken' = [taken EXCEPT ![p] = <<>>]
      /\ pc[p] = "unlock" /\ pc' = [pc EXCEPT ![p] = "idle"]
    BY DEF Unlock, Return, Goto
<1>3. /\ pc \in [Processes -> Places] /\ taken \in [Polls -> Seq(Messages)]
      /\ delivered \in Seq(Messages) /\ taken[p] \in Seq(Messages)
    BY DEF OInv, IInv, Typed, TInv, ProcessesTyped
<1>4. \A q \in Polls : q = p
    BY OnePoll DEF OInv, IInv, Typed, Undisturbed
<1>5. ReadFirst(Entries, team.sends)'
    BY <1>1 DEF Ordered
<1>6. (\A q \in Processes :
          pc[q] = "truncate" => ReadFirst(buffer[q], team.sends))'
  <2>1. \A q \in Processes :
            pc'[q] = "truncate" => ReadFirst(buffer'[q], team.sends)
      BY <1>1 DEF Ordered, Calm
  <2> QED
      BY <1>1, <2>1
<1>7. (\A r \in Polls : Hand(r))'
    BY <1>1, <1>2, <1>3, <1>4 DEF Hand
<1>8. Items(delivered') = Items(delivered) \union Items(taken[p])
    BY <1>2, <1>3, AppendedItems
<1>9. (\A m \in Items(delivered) : IsRead(Entries, m))'
  <2>1. \A m \in Items(delivered') : IsRead(Entries, m)
      BY <1>1, <1>2, <1>8 DEF Ordered, Hand
  <2> QED
      BY <1>1, <2>1
<1>10. Successive(delivered', team.sends)
    BY <1>1, <1>2, <1>3, ConcatSuccessive DEF Ordered
<1>11. Successive(delivered, team.sends)'
    BY <1>10
<1>12. \A q \in Polls : taken'[q] = <<>>
    BY <1>2, <1>3, <1>4
<1>13. (\A q \in Polls : Successive(taken[q], team.sends))'
    BY <1>1, <1>12 DEF Successive
<1>14. (\A q \in Polls : \A m \in Items(delivered), n \in Items(taken[q]) :
           Later(m, n, team.sends))'
    BY <1>1, <1>12 DEF Items
<1> QED
    BY <1>5, <1>6, <1>7, <1>9, <1>11, <1>13, <1>14 DEF Ordered

\* A poll that waits for its mark takes unread messages in their order: all of
\* them, or the first of a kind.
LEMMA PollTakes ==
    ASSUME IInv, NEW p \in Polls, Poll(p), team.owner # "poller"
    PROVE  /\ Entries = content /\ delivered' = delivered
           /\ \E mark, took : \E f \in [DOMAIN took -> Unread(content)] :
                 /\ marking' = [marking EXCEPT ![p] = mark]
                 /\ taken' = [taken EXCEPT ![p] = took]
                 /\ DOMAIN took \subseteq Nat
                 /\ \A k \in DOMAIN took :
                       took[k] = content[f[k]].id /\ mark \in {0, f[k]}
                 /\ \A k, l \in DOMAIN took : k < l => f[k] < f[l]
                 /\ mark # 0 => FirstOfKind(content, mark, team.sends)
<1>1. content \in Seq(Row) /\ text \in {"json", "empty"} /\ exists = TRUE
    BY DEF IInv, Typed
<1>2. CASE RunnerPolls(p)
  <2>1. PICK i \in Pick(ReadMailbox) :
            /\ marking' = [marking EXCEPT ![p] = i]
            /\ taken' = [taken EXCEPT ![p] = <<ReadMailbox[i].id>>]
      BY <1>2 DEF RunnerPolls, RunnerMarks
  <2>2. i \in Unread(ReadMailbox) /\ i \in DOMAIN ReadMailbox
      BY DEF Pick, Unread
  <2>3. ReadMailbox = content /\ text = "json"
      BY <2>2 DEF ReadMailbox
  <2>4. FirstOfKind(content, i, team.sends)
    <3>1. \A j \in Unread(content) :
              KindOf(content[j].id, team.sends) = KindOf(content[i].id, team.sends)
              => i <= j
      <4>1. \A m : Kind(m) = KindOf(m, team.sends)
          BY DEF Kind, KindOf
      <4>2. i \in Pick(content)
          BY <2>3
      <4>3. \A j \in Unread(content) :
                Kind(content[j].id) = Kind(content[i].id) => i <= j
          BY <4>2 DEF Pick
      <4> QED
          BY <4>1, <4>3
    <3>2. \A j \in DOMAIN content : j \in Nat
        BY <1>1
    <3>3. \A j \in DOMAIN content : j < i => ~(i <= j)
        BY <2>2, <2>3, <3>2
    <3> QED
        BY <2>2, <2>3, <3>1, <3>3 DEF FirstOfKind, Unread
  <2>5. Entries = content
      BY <2>3, EntriesStored DEF IInv, Whole
  <2> DEFINE took == <<content[i].id>>
             f == [k \in {1} |-> i]
  <2>6. DOMAIN took = {1} /\ took[1] = content[i].id
      OBVIOUS
  <2>7. f \in [DOMAIN took -> Unread(content)] /\ f[1] = i
      BY <2>2, <2>3, <2>6
  <2>8. /\ marking' = [marking EXCEPT ![p] = i]
        /\ taken' = [taken EXCEPT ![p] = took]
      BY <2>1, <2>3
  <2> HIDE DEF took, f
  <2>9. delivered' = delivered
      BY <1>2 DEF RunnerPolls
  <2>10. \A k, l \in DOMAIN took : ~(k < l)
      BY <2>6
  <2> QED
    <3>1. /\ f \in [DOMAIN took -> Unread(content)]
          /\ marking' = [marking EXCEPT ![p] = i]
          /\ taken' = [taken EXCEPT ![p] = took]
          /\ DOMAIN took \subseteq Nat
          /\ \A k \in DOMAIN took : took[k] = content[f[k]].id /\ i \in {0, f[k]}
          /\ \A k, l \in DOMAIN took : k < l => f[k] < f[l]
          /\ FirstOfKind(content, i, team.sends)
        BY <2>4, <2>6, <2>7, <2>8, <2>10
    <3> QED
        BY <2>5, <2>9, <3>1
<1>3. CASE PrintPolls(p)
  <2>1. /\ Unread(ReadMailbox) # {} /\ delivered' = delivered
        /\ marking' = [marking EXCEPT ![p] = 0]
        /\ taken' = [taken EXCEPT ![p] = UnreadMessages(ReadMailbox)]
      BY <1>3 DEF PrintPolls
  <2>2. ReadMailbox = content /\ text = "json"
    <3>1. ReadMailbox # <<>>
        BY <2>1 DEF Unread
    <3> QED
        BY <3>1 DEF ReadMailbox
  <2>3. Entries = content
      BY <2>2, EntriesStored DEF IInv, Whole
  <2> DEFINE ids == [i \in DOMAIN content |-> content[i].id]
             took == UnreadMessages(content)
  <2>4. ids \in Seq(Id) /\ DOMAIN ids = DOMAIN content
        /\ \A i \in DOMAIN content : ids[i] = content[i].id
    <3>1. PICK n \in Nat : DOMAIN content = 1..n
        BY <1>1
    <3>2. \A i \in DOMAIN content : content[i] \in Row
        BY <1>1
    <3>3. ids \in [1..n -> Id]
        BY <3>1, <3>2 DEF Row
    <3> HIDE DEF ids
    <3>4. ids \in Seq(Id)
        BY <3>1, <3>3, SeqDef
    <3> QED
        BY <3>4 DEF ids
  <2>5. took = PickedFrom(ids, Unread(content))
      BY DEF UnreadMessages
  <2> HIDE DEF ids, took
  <2>6. Unread(content) \in SUBSET (DOMAIN ids)
      BY <2>4 DEF Unread
  <2>7. PICK f \in [DOMAIN took -> Unread(content)] :
            /\ \A k \in DOMAIN took : took[k] = ids[f[k]]
            /\ \A k, l \in DOMAIN took : k < l => f[k] < f[l]
      BY <2>4, <2>5, <2>6, PickedPlaces
  <2>8. \A k \in DOMAIN took : took[k] = content[f[k]].id
      BY <2>4, <2>6, <2>7
  <2>9. DOMAIN took \subseteq Nat
    <3>1. took \in Seq(Id)
        BY <2>4, <2>5, <2>6, PickedTyped
    <3> QED
        BY <3>1, LenProperties
  <2>10. taken' = [taken EXCEPT ![p] = took]
      BY <2>1, <2>2 DEF took
  <2>11. \E mark : mark = 0 /\ marking' = [marking EXCEPT ![p] = mark]
      BY <2>1
  <2> QED
      BY <2>1, <2>3, <2>7, <2>8, <2>9, <2>10, <2>11
<1> QED
    BY <1>2, <1>3 DEF Poll, ScreenPolls

LEMMA PollOrdered ==
    ASSUME OInv, Undisturbed, IInv', team' = team, Calm,
           NEW p \in Polls, Poll(p)
    PROVE  Ordered'
<1>1. /\ Ordered /\ Numbered /\ Entries' = Entries /\ Polls' = Polls
      /\ Processes' = Processes /\ p \in Processes
    BY SetsStay DEF OInv, Calm
<1>2. pc[p] = "idle" /\ pc' = [pc EXCEPT ![p] = "lock"]
    BY DEF Poll, Goto
<1>3. /\ pc \in [Processes -> Places] /\ taken \in [Polls -> Seq(Messages)]
      /\ marking \in [Polls -> Nat] /\ content \in Seq(Row)
    BY DEF OInv, IInv, Typed, TInv, ProcessesTyped
<1>4. \A q \in Polls : q = p
    BY OnePoll DEF OInv, IInv, Typed, Undisturbed
<1>5. Entries = content /\ delivered' = delivered
    BY PollTakes DEF OInv, Undisturbed
<1>6. PICK mark, took : \E f \in [DOMAIN took -> Unread(content)] :
          /\ marking' = [marking EXCEPT ![p] = mark]
          /\ taken' = [taken EXCEPT ![p] = took]
          /\ DOMAIN took \subseteq Nat
          /\ \A k \in DOMAIN took :
                took[k] = content[f[k]].id /\ mark \in {0, f[k]}
          /\ \A k, l \in DOMAIN took : k < l => f[k] < f[l]
          /\ mark # 0 => FirstOfKind(content, mark, team.sends)
    BY PollTakes DEF OInv, Undisturbed
<1>7. PICK f \in [DOMAIN took -> Unread(content)] :
          /\ \A k \in DOMAIN took :
                took[k] = content[f[k]].id /\ mark \in {0, f[k]}
          /\ \A k, l \in DOMAIN took : k < l => f[k] < f[l]
    BY <1>6
<1>8. /\ marking'[p] = mark /\ taken'[p] = took /\ pc'[p] = "lock"
    BY <1>1, <1>2, <1>3, <1>6
<1>9. \A k \in DOMAIN took :
          f[k] \in DOMAIN content /\ ~content[f[k]].read
    BY <1>7 DEF Unread
<1>10. /\ DOMAIN content \subseteq Nat /\ Sorted(content)
       /\ ReadFirst(content, team.sends)
    BY <1>1, <1>3, <1>5 DEF Ordered, Numbered
<1>11. ReadFirst(Entries, team.sends)'
    BY <1>1 DEF Ordered
<1>12. (\A q \in Processes :
          pc[q] = "truncate" => ReadFirst(buffer[q], team.sends))'
    BY <1>1 DEF Ordered, Calm
<1>13. (\A r \in Polls : Hand(r))'
  <2>2. mark # 0 => FirstOfKind(Entries', mark, team'.sends)
      BY <1>1, <1>5, <1>6
  <2>3. \A m \in Items(took) : \E i \in DOMAIN content :
            content[i].id = m /\ mark \in {0, i}
      BY <1>9, <1>7 DEF Items
  <2>4. \A m \in Items(took) : \E i \in DOMAIN Entries' :
            Entries'[i].id = m /\ mark \in {0, i}
      BY <1>1, <1>5, <2>3
  <2> QED
      BY <1>1, <1>4, <1>8, <2>2, <2>4 DEF Hand
<1>14. (\A m \in Items(delivered) : IsRead(Entries, m))'
    BY <1>1, <1>5 DEF Ordered
<1>15. Successive(delivered, team.sends)'
    BY <1>1, <1>5 DEF Ordered
<1>16. Successive(took, team.sends)
  <2> SUFFICES ASSUME NEW k \in DOMAIN took, NEW l \in DOMAIN took, k < l,
                      took[k][1] = took[l][1]
               PROVE  took[k][2] < took[l][2]
      BY DEF Successive, Later
  <2> QED
      BY <1>6, <1>9, <1>10, <1>7 DEF Sorted
<1>17. (\A q \in Polls : Successive(taken[q], team.sends))'
  <2>1. Successive(taken'[p], team.sends)
      BY <1>8, <1>16
  <2> QED
      BY <1>1, <1>4, <2>1
<1>18. ASSUME NEW m \in Items(delivered), NEW n \in Items(took)
       PROVE  Later(m, n, team.sends)
  <2>1. PICK i \in DOMAIN content : content[i].id = m /\ content[i].read
      BY <1>1, <1>5 DEF Ordered, IsRead
  <2>2. PICK k \in DOMAIN took : n = took[k]
      BY DEF Items
  <2>3. PICK j \in DOMAIN content : j = f[k]
      BY <1>9
  <2>4. content[j].id = n /\ ~content[j].read
      BY <1>9, <1>7, <2>2, <2>3
  <2>5. KindOf(m, team.sends) = KindOf(n, team.sends) => ~(j < i)
      BY <1>10, <2>1, <2>4 DEF ReadFirst
  <2>6. i # j
      BY <2>1, <2>4
  <2>7. KindOf(m, team.sends) = KindOf(n, team.sends) => i < j
      BY <1>10, <2>5, <2>6
  <2> QED
      BY <1>10, <2>1, <2>4, <2>7 DEF Sorted, Later
<1>19. (\A q \in Polls : \A m \in Items(delivered), n \in Items(taken[q]) :
           Later(m, n, team.sends))'
  <2>1. \A q \in Polls : taken'[q] = took
      BY <1>4, <1>8
  <2>2. \A q \in Polls : \A m \in Items(delivered'), n \in Items(taken'[q]) :
            Later(m, n, team.sends)
      BY <1>5, <1>18, <2>1
  <2> QED
      BY <1>1, <2>2
<1> QED
    BY <1>11, <1>12, <1>13, <1>14, <1>15, <1>17, <1>19 DEF Ordered

\* What is about to be written is read first in each kind, as the file is.
LEMMA ChangedReadFirst ==
    ASSUME IInv, NEW p \in Processes, ReadFirst(content, team.sends),
           p \in Polls /\ marking[p] # 0
              => FirstOfKind(content, marking[p], team.sends)
    PROVE  ReadFirst(Changed(p, content), team.sends)
<1>1. PICK n \in Nat : DOMAIN content = 1..n /\ Len(content) = n
    BY DEF IInv, Typed
<1>2. \A i \in 1..n : content[i] \in Row
    BY <1>1 DEF IInv, Typed
<1>3. CASE p \in Senders
  <2> DEFINE new == Append(content, NewEntry(p))
  <2>1. /\ DOMAIN new = 1..(n + 1) /\ new[n + 1].read = FALSE
        /\ \A i \in 1..n : new[i] = content[i]
      BY <1>1 DEF NewEntry, IInv, Typed
  <2> HIDE DEF new
  <2>2. ASSUME NEW i \in 1..(n + 1), NEW j \in 1..(n + 1), i < j,
               KindOf(new[i].id, team.sends) = KindOf(new[j].id, team.sends),
               new[j].read
        PROVE  new[i].read
    <3>1. j # n + 1
        BY <2>1, <2>2
    <3>2. i \in 1..n /\ j \in 1..n
        BY <2>2, <3>1
    <3> QED
        BY <1>1, <2>1, <2>2, <3>2 DEF ReadFirst
  <2>3. ReadFirst(new, team.sends)
      BY <2>1, <2>2 DEF ReadFirst
  <2> QED
      BY <1>3, <2>3 DEF Changed, new
<1>4. CASE p \notin Senders
  <2> DEFINE new == [i \in DOMAIN content |->
                        IF marking[p] \in {0, i}
                        THEN [content[i] EXCEPT !.read = TRUE]
                        ELSE content[i]]
  <2>1. \A e \in Row : [e EXCEPT !.read = TRUE].id = e.id
                       /\ [e EXCEPT !.read = TRUE].read
      BY DEF Row
  <2>2. /\ DOMAIN new = 1..n
        /\ \A i \in 1..n : new[i].id = content[i].id
        /\ \A i \in 1..n : content[i].read \/ marking[p] \in {0, i}
               => new[i].read
        /\ \A i \in 1..n : new[i].read => content[i].read \/ marking[p] \in {0, i}
      BY <1>1, <1>2, <2>1
  <2> HIDE DEF new
  <2>3. p \in Polls
      BY <1>4, SetsStay
  <2>4. ASSUME NEW i \in 1..n, NEW j \in 1..n, i < j,
               KindOf(new[i].id, team.sends) = KindOf(new[j].id, team.sends),
               new[j].read
        PROVE  new[i].read
    <3>1. KindOf(content[i].id, team.sends) = KindOf(content[j].id, team.sends)
        BY <2>2, <2>4
    <3>2. CASE marking[p] = 0
        BY <2>2, <3>2
    <3>3. CASE marking[p] # 0 /\ marking[p] = j
      <4>1. content[i].read
          BY <1>1, <2>3, <2>4, <3>1, <3>3 DEF FirstOfKind
      <4> QED
          BY <2>2, <4>1
    <3>4. CASE content[j].read
      <4>1. content[i].read
          BY <1>1, <2>4, <3>1, <3>4 DEF ReadFirst
      <4> QED
          BY <2>2, <4>1
    <3> QED
        BY <2>2, <2>4, <3>2, <3>3, <3>4
  <2>5. ReadFirst(new, team.sends)
      BY <2>2, <2>4 DEF ReadFirst
  <2> QED
      BY <1>4, <2>5 DEF Changed, new
<1> QED
    BY <1>3, <1>4

LEMMA ReadOrdered ==
    ASSUME OInv, Undisturbed, IInv', NEW p \in Processes, Read(p)
    PROVE  Ordered'
<1>0. IInv /\ Ordered
    BY DEF OInv
<1>1. /\ team' = team /\ content' = content
      /\ marking' = marking /\ taken' = taken /\ delivered' = delivered
      /\ pc[p] = "read" /\ Entries = content /\ Entries' = content
      /\ \A q \in Processes : q # p =>
            pc'[q] = pc[q] /\ buffer'[q] = buffer[q] /\ pc[q] # "truncate"
      /\ pc'[p] = "truncate" => buffer'[p] = Changed(p, content)
      /\ pc'[p] = "unlock" => Nothing(p, content)
      /\ pc'[p] \in {"unlock", "truncate"}
    BY <1>0, ReadPrepares
<1>2. /\ Polls' = Polls /\ Processes' = Processes /\ Polls \subseteq Processes
      /\ Senders \intersect Polls = {}
    BY <1>0, <1>1, SetsStay
<1>3. \A q \in Polls : p \in Polls => q = p
    BY OnePoll DEF OInv, IInv, Typed, Undisturbed
<1>4. p \in Polls =>
          /\ marking[p] # 0 => FirstOfKind(content, marking[p], team.sends)
          /\ \A m \in Items(taken[p]) : \E i \in DOMAIN content :
                content[i].id = m /\ marking[p] \in {0, i}
    BY <1>0, <1>1 DEF Ordered, Hand
<1>5. ReadFirst(content, team.sends)
    BY <1>0, <1>1 DEF Ordered
<1>6. ReadFirst(Changed(p, content), team.sends)
    BY <1>0, <1>4, <1>5, ChangedReadFirst
<1>7. ReadFirst(Entries, team.sends)'
    BY <1>1, <1>5
<1>8. (\A q \in Processes :
          pc[q] = "truncate" => ReadFirst(buffer[q], team.sends))'
  <2>1. \A q \in Processes :
            pc'[q] = "truncate" => ReadFirst(buffer'[q], team.sends)
      BY <1>1, <1>6
  <2> QED
      BY <1>1, <1>2, <2>1
<1>9. ASSUME p \in Polls, pc'[p] = "unlock", NEW m \in Items(taken[p])
      PROVE  FALSE
  <2>1. PICK i \in DOMAIN content :
            content[i].id = m /\ marking[p] \in {0, i}
      BY <1>4, <1>9
  <2>2. Nothing(p, content) /\ content \in Seq(Row)
      BY <1>1, <1>9 DEF OInv, IInv, Typed
  <2>3. DOMAIN content = 1..Len(content) /\ Len(content) \in Nat
      BY <2>2
  <2>4. CASE marking[p] = 0
      BY <2>1, <2>2, <2>3, <2>4 DEF Nothing
  <2>5. CASE marking[p] # 0
    <3>1. marking[p] = i /\ i \in Nat /\ i <= Len(content)
        BY <2>1, <2>3, <2>5
    <3>2. ~content[i].read
        BY <1>4, <1>9, <2>5, <3>1 DEF FirstOfKind
    <3> QED
        BY <2>2, <2>5, <3>1, <3>2 DEF Nothing
  <2> QED
      BY <2>4, <2>5
<1>10. ASSUME p \in Polls, pc'[p] = "truncate", NEW m \in Items(taken[p])
       PROVE  IsRead(buffer'[p], m)
  <2>1. PICK i \in DOMAIN content :
            content[i].id = m /\ marking[p] \in {0, i}
      BY <1>4, <1>10
  <2> DEFINE new == [k \in DOMAIN content |->
                        IF marking[p] \in {0, k}
                        THEN [content[k] EXCEPT !.read = TRUE]
                        ELSE content[k]]
  <2>2. buffer'[p] = new
      BY <1>1, <1>2, <1>10 DEF Changed
  <2>3. content[i] \in Row
      BY DEF OInv, IInv, Typed
  <2>4. i \in DOMAIN new /\ new[i].id = m /\ new[i].read
      BY <2>1, <2>3 DEF Row
  <2> QED
      BY <2>2, <2>4 DEF IsRead
<1>11. (\A r \in Polls : Hand(r))'
  <2> SUFFICES ASSUME NEW q \in Polls
               PROVE  Hand(q)'
      BY <1>2
  <2>1. CASE q = p
      BY <1>1, <1>9, <1>10, <2>1 DEF Hand
  <2>2. CASE q # p
    <3>1. pc'[q] = pc[q] /\ pc[q] # "truncate" /\ Entries' = Entries
        BY <1>1, <1>2, <2>2
    <3>2. pc[q] \in {"lock", "read"} /\ marking[q] # 0
              => FirstOfKind(Entries, marking[q], team.sends)'
        BY <1>0, <1>1, <3>1 DEF Ordered, Hand
    <3> QED
        BY <1>0, <1>1, <3>1, <3>2 DEF Ordered, Hand
  <2> QED
      BY <2>1, <2>2
<1>12. (\A m \in Items(delivered) : IsRead(Entries, m))'
    BY <1>0, <1>1 DEF Ordered
<1>13. Successive(delivered, team.sends)'
    BY <1>0, <1>1, <1>2 DEF Ordered
<1>14. (\A r \in Polls : Successive(taken[r], team.sends))'
    BY <1>0, <1>1, <1>2 DEF Ordered
<1>15. (\A r \in Polls : \A m \in Items(delivered), n \in Items(taken[r]) :
              Later(m, n, team.sends))'
    BY <1>0, <1>1, <1>2 DEF Ordered
<1> QED
    BY <1>7, <1>8, <1>11, <1>12, <1>13, <1>14, <1>15 DEF Ordered

LEMMA TruncateOrdered ==
    ASSUME OInv, Undisturbed, IInv', NEW p \in Processes, Truncate(p)
    PROVE  Ordered'
<1>0. IInv /\ Ordered /\ Numbered
    BY DEF OInv
<1>1. /\ team' = team /\ buffer' = buffer
      /\ marking' = marking /\ taken' = taken /\ delivered' = delivered
      /\ pc[p] = "truncate" /\ pc' = [pc EXCEPT ![p] = "write"]
      /\ Entries = content /\ Entries' = buffer[p]
      /\ \A q \in Processes : pc'[q] # "truncate"
    BY <1>0, TruncateShows
<1>2. /\ Polls' = Polls /\ Processes' = Processes /\ Polls \subseteq Processes
      /\ Senders \intersect Polls = {} /\ (p \in Senders \/ p \in Polls)
      /\ pc \in [Processes -> Places] /\ content \in Seq(Row)
    BY <1>0, <1>1, SetsStay DEF IInv, Typed
<1>3. ReadFirst(Entries, team.sends)'
  <2>1. ReadFirst(buffer[p], team.sends)
      BY <1>0, <1>1 DEF Ordered
  <2> QED
      BY <1>1, <2>1
<1>4. (\A q \in Processes :
          pc[q] = "truncate" => ReadFirst(buffer[q], team.sends))'
    BY <1>1, <1>2
<1>5. \A m : IsRead(Entries, m) => IsRead(Entries', m)
  <2> SUFFICES ASSUME NEW m, IsRead(content, m) PROVE IsRead(buffer[p], m)
      BY <1>1
  <2>1. OneMore(content, buffer[p]) \/ Marked(content, buffer[p])
      BY <1>0, <1>1 DEF IInv, Prepared
  <2> QED
      BY <1>2, <2>1, ReadStays
<1>6. ASSUME NEW q \in Polls
      PROVE  Hand(q)'
  <2>1. CASE q = p
    <3>1. pc'[q] = "write" /\ pc[q] = "truncate"
        BY <1>1, <1>2, <2>1
    <3>2. \A m \in Items(taken[q]) : IsRead(buffer[q], m)
        BY <1>0, <3>1 DEF Ordered, Hand
    <3> QED
        BY <1>1, <2>1, <3>1, <3>2 DEF Hand
  <2>2. CASE q # p
    <3>1. p \in Senders
        BY <1>2, <2>2, OnePoll DEF OInv, IInv, Typed, Undisturbed
    <3>2. OneMore(content, buffer[p])
        BY <1>0, <1>1, <3>1 DEF Numbered, Adds
    <3>3. pc'[q] = pc[q] /\ q \in Processes
        BY <1>1, <1>2, <2>2
    <3>4. pc[q] \notin {"read", "truncate", "write", "unlock"}
        BY <1>0, <1>1, <2>2, <3>3, OneWriter DEF Holding
    <3>5. DOMAIN content \subseteq DOMAIN Entries'
          /\ \A i \in DOMAIN content : Entries'[i] = content[i]
      <4>1. PICK n \in Nat : DOMAIN content = 1..n /\ Len(content) = n
          BY <1>2
      <4> QED
          BY <1>1, <3>2, <4>1 DEF OneMore
    <3>6. ASSUME pc[q] = "lock", marking[q] # 0
          PROVE  FirstOfKind(Entries, marking[q], team.sends)'
      <4>1. FirstOfKind(content, marking[q], team.sends)
          BY <1>0, <1>1, <3>6 DEF Ordered, Hand
      <4>2. marking[q] \in DOMAIN Entries' /\ ~Entries'[marking[q]].read
          BY <3>5, <4>1 DEF FirstOfKind
      <4>3. ASSUME NEW j \in DOMAIN Entries', j < marking[q],
                   KindOf(Entries'[j].id, team.sends)
                      = KindOf(Entries'[marking[q]].id, team.sends)
            PROVE  Entries'[j].read
        <5>1. PICK n \in Nat : DOMAIN content = 1..n /\ Len(content) = n
            BY <1>2
        <5>2. DOMAIN Entries' = 1..(n + 1)
            BY <1>1, <3>2, <5>1 DEF OneMore
        <5>3. marking[q] \in 1..n
            BY <4>1, <5>1 DEF FirstOfKind
        <5>4. j \in 1..n
            BY <4>3, <5>2, <5>3
        <5> QED
            BY <3>5, <4>1, <4>3, <5>1, <5>3, <5>4 DEF FirstOfKind
      <4> QED
          BY <1>1, <4>2, <4>3 DEF FirstOfKind
    <3>7. pc[q] = "lock" => \A m \in Items(taken[q]) : \E i \in DOMAIN Entries' :
              Entries'[i].id = m /\ marking[q] \in {0, i}
      <4>1. pc[q] = "lock" => \A m \in Items(taken[q]) : \E i \in DOMAIN content :
                content[i].id = m /\ marking[q] \in {0, i}
          BY <1>0, <1>1 DEF Ordered, Hand
      <4> QED
          BY <3>5, <4>1
    <3> QED
        BY <1>1, <3>3, <3>4, <3>6, <3>7 DEF Hand
  <2> QED
      BY <2>1, <2>2
<1>7. (\A r \in Polls : Hand(r))'
    BY <1>2, <1>6
<1>8. (\A m \in Items(delivered) : IsRead(Entries, m))'
    BY <1>0, <1>1, <1>5 DEF Ordered
<1>9. Successive(delivered, team.sends)'
    BY <1>0, <1>1, <1>2 DEF Ordered
<1>10. (\A r \in Polls : Successive(taken[r], team.sends))'
    BY <1>0, <1>1, <1>2 DEF Ordered
<1>11. (\A r \in Polls : \A m \in Items(delivered), n \in Items(taken[r]) :
              Later(m, n, team.sends))'
    BY <1>0, <1>1, <1>2 DEF Ordered
<1> QED
    BY <1>3, <1>4, <1>7, <1>8, <1>9, <1>10, <1>11 DEF Ordered

LEMMA OrderKept ==
    ASSUME OInv, [Next]_vars
    PROVE  OInv'
<1>1. IInv' /\ TInv'
    BY NextKeeps, NextTyped DEF OInv
<1>2. Numbered'
    BY <1>1, NumbersKept DEF OInv
<1>3. ASSUME Undisturbed' PROVE Ordered'
  <2>1. team' = team
      BY StepKinds, <1>1 DEF OInv
  <2>2. Undisturbed
    <3>1. faults \in Nat /\ faults' = 0
        BY <1>3 DEF OInv, TInv, ProcessesTyped, Undisturbed
    <3>2. faults' = faults \/ faults' = faults + 1
        BY DEF Next, Change, vars, Begin, Create, Poll, Lock, Read, Truncate,
           Write, Unlock, LockFails, WriteFails, Dies, GoStale
    <3>3. faults = 0
        BY <3>1, <3>2
    <3> QED
        BY <1>3, <2>1, <3>3 DEF Undisturbed
  <2>3. \/ Calm /\ Still
        \/ Calm /\ \E p \in Polls : Poll(p)
        \/ Calm /\ \E p \in Polls : Unlock(p)
        \/ \E p \in Processes : Read(p)
        \/ \E p \in Processes : Truncate(p)
      BY <1>1, <1>3, StepKinds DEF OInv, Undisturbed
  <2> QED
      BY <1>1, <2>1, <2>2, <2>3, StillOrdered, PollOrdered, ReturnOrdered,
         ReadOrdered, TruncateOrdered
<1> QED
    BY <1>1, <1>2, <1>3 DEF OInv

LEMMA OrderInits == Init /\ exists => OInv
<1> SUFFICES ASSUME Init, exists PROVE OInv
    OBVIOUS
<1>1. IInv /\ TInv
    BY InitKeeps, InitTyped
<1>2. /\ content = <<>> /\ delivered = <<>>
      /\ \A p \in Processes : pc[p] = "idle"
      /\ \A p \in Polls : taken[p] = <<>>
    BY DEF Init
<1>3. Entries = <<>>
    BY <1>2, EntriesStored
<1>4. Senders \subseteq Processes /\ Polls \subseteq Processes
    BY DEF Processes
<1>5. Numbered
    BY <1>2, <1>3, <1>4 DEF Numbered, Sorted, Made, Adds
<1>6. \A p \in Polls : Hand(p)
    BY <1>2, <1>4 DEF Hand
<1>7. Ordered
    BY <1>2, <1>3, <1>6 DEF Ordered, ReadFirst, Successive, Items
<1> QED
    BY <1>1, <1>5, <1>7 DEF OInv

\* Whatever the interleaving of senders and owner, and for any number of them,
\* the runner and print mode deliver the messages of a sender that are of one
\* kind in the order in which they were sent, none twice, as long as no lock is
\* not got, no write fails and no sender dies.
THEOREM InSendingOrder == Spec /\ exists => []DeliveredInOrder
<1>1. Init /\ exists => OInv
    BY OrderInits
<1>2. OInv /\ [Next]_vars => OInv'
    BY OrderKept
<1>3. OInv => DeliveredInOrder
    BY DEF OInv, Undisturbed, Ordered, Successive, Later, KindOf, Kind,
       DeliveredInOrder
<1> QED
    BY <1>1, <1>2, <1>3, PTL DEF Spec
=============================================================================
