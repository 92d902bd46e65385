------------------------- MODULE PromptQueue_proofs -------------------------
(***************************************************************************)
(* For any number of chains, commands and cancellations: one turn at a     *)
(* time, no command lost, and none sent twice unless the user cancels.     *)
(***************************************************************************)
EXTENDS PromptQueue, Selection_proofs, TLAPS

Asking == {"querying", "attaching"}

Typed ==
    /\ status \in {"idle", "dispatching", "running"} /\ generation \in Nat
    /\ at \in [Chains -> Places]
    /\ gen \in [Chains -> Nat] /\ forced \in [Chains -> BOOLEAN]

\* A query that was not cancelled has the guard's generation, and the guard is
\* running for it.
Owned == \A c \in LiveTurns : status = "running" /\ gen[c] = generation

\* A query that was cancelled has an older one.
Outdated ==
    \A c \in Chains :
        /\ at[c] \in Asking => gen[c] <= generation
        /\ at[c] \in Asking /\ forced[c] => gen[c] < generation
        /\ at[c] = "processing" => ~forced[c]

\* No generation is given to two queries.
Distinct ==
    \A c, d \in Chains :
        c # d /\ at[c] \in Asking /\ at[d] \in Asking => gen[c] # gen[d]

IInv == Typed /\ Owned /\ Outdated /\ Distinct

-----------------------------------------------------------------------------

LEMMA OneLive ==
    ASSUME IInv, NEW c \in LiveTurns
    PROVE  LiveTurns = {c}
BY DEF IInv, Owned, Distinct, LiveTurns, Asking

\* What most steps do: no query begins or ends, and the guard stays running
\* if it is.
Aside ==
    /\ generation' = generation /\ gen' = gen
    /\ status' \in {"idle", "dispatching", "running"}
    /\ status' = "running" <=> status = "running"
    /\ at' \in [Chains -> Places] /\ forced' \in [Chains -> BOOLEAN]
    /\ \A c \in Chains :
          /\ at'[c] \in Asking <=> at[c] \in Asking
          /\ at[c] \in Asking => forced'[c] = forced[c]
          /\ at'[c] = "processing" => ~forced'[c]

LEMMA AsideKeeps ==
    ASSUME IInv, Aside
    PROVE  IInv' /\ LiveTurns' = LiveTurns
<1>1. LiveTurns' = LiveTurns
    BY DEF Aside, LiveTurns, Asking
<1>2. Typed' /\ Owned'
    BY <1>1 DEF IInv, Aside, Typed, Owned, LiveTurns
<1>3. Outdated' /\ Distinct'
    BY DEF IInv, Aside, Outdated, Distinct
<1> QED
    BY <1>1, <1>2, <1>3 DEF IInv

\* executeUserInput() begins.
LEMMA StartKeeps ==
    ASSUME IInv, NEW c \in Chains, NEW cmds, StartInput(c, cmds)
    PROVE  IInv' /\ LiveTurns' = LiveTurns
<1>1. Aside
    BY DEF IInv, Typed, Outdated, StartInput, NewChain, Reserved, Aside,
       Asking, Places
<1> QED
    BY <1>1, AsideKeeps

\* onQuery(): a query begins, or does not.
LEMMA OnQueryKeeps ==
    ASSUME IInv, NEW c \in Chains, NEW cmds, OnQuery(c, cmds),
           at[c] \in {"free", "processing"},
           forced' \in [Chains -> BOOLEAN], ~forced'[c],
           \A d \in Chains : d # c => forced'[d] = forced[d]
    PROVE  IInv' /\ (LiveTurns' = LiveTurns \/ Turns!Begin(c))
<1> USE DEF IInv, Typed
<1>1. CASE ~MayStart(status)
  <2>1. Aside
      BY <1>1 DEF OnQuery, Outdated, Aside, Asking, Places
  <2> QED
      BY <2>1, AsideKeeps
<1>2. CASE MayStart(status)
  <2>1. /\ status' = "running" /\ generation' = generation + 1
        /\ gen' = [gen EXCEPT ![c] = generation + 1]
        /\ at' = [at EXCEPT ![c] = "querying"]
      BY <1>2 DEF OnQuery
  <2>2. LiveTurns = {}
      BY <1>2 DEF MayStart, Owned
  <2>3. LiveTurns' = {c}
      BY <2>1, <2>2 DEF LiveTurns, Asking
  <2>4. Typed' /\ Owned'
      BY <2>1, <2>3 DEF Owned, Places
  <2>5. \A d \in Chains : at[d] \in Asking => gen[d] <= generation
      BY DEF Outdated
  <2>6. Outdated'
      BY <2>1, <2>5 DEF Outdated, Asking
  <2>7. Distinct'
      BY <2>1, <2>5 DEF Distinct, Asking
  <2> QED
      BY <2>2, <2>3, <2>4, <2>6, <2>7 DEF Turns!Begin
<1> QED
    BY <1>1, <1>2

LEMMA InitKeeps == Init => IInv /\ Turns!Init
<1> SUFFICES ASSUME Init PROVE IInv /\ Turns!Init
    OBVIOUS
<1>1. LiveTurns = {}
    BY DEF Init, LiveTurns
<1> QED
    BY <1>1 DEF Init, IInv, Typed, Owned, Outdated, Distinct, Asking, Places,
       Turns!Init

\* A query's end, by itself.
LEMMA QueryEndsKeeps ==
    ASSUME IInv, NEW c \in Chains, QueryEnds(c)
    PROVE  IInv' /\ (LiveTurns' = LiveTurns \/ Turns!End(c))
<1> USE DEF IInv, Typed
<1>0. at[c] = "querying" /\ generation' = generation
    BY DEF QueryEnds
<1>1. CASE Ends(c)
  <2>1. /\ status' = "idle" /\ at' = [at EXCEPT ![c] = "ending"]
        /\ gen' = gen /\ forced' = forced
      BY <1>1 DEF QueryEnds
  <2>2. ~forced[c]
      BY <1>0, <1>1 DEF Ends, Outdated, Asking
  <2>3. LiveTurns = {c}
      BY <1>0, <2>2, OneLive DEF LiveTurns
  <2>4. LiveTurns' = {}
      BY <2>1, <2>3 DEF LiveTurns
  <2>5. Typed' /\ Owned'
      BY <1>0, <2>1, <2>4 DEF Owned, Places
  <2>6. Outdated' /\ Distinct'
      BY <1>0, <2>1 DEF Outdated, Distinct, Asking
  <2> QED
      BY <2>3, <2>4, <2>5, <2>6 DEF Turns!End
<1>2. CASE ~Ends(c)
  <2>1. /\ status' = status
        /\ at' = [at EXCEPT ![c] = IF direct[c] THEN "free" ELSE "closing"]
        /\ gen' = [gen EXCEPT ![c] = 0]
        /\ forced' = [forced EXCEPT ![c] = FALSE]
      BY <1>2 DEF QueryEnds, Return
  <2>2. c \notin LiveTurns
      BY <1>2 DEF Ends, Owned
  <2>3. LiveTurns' = LiveTurns
      BY <2>1, <2>2 DEF LiveTurns
  <2>4. Typed'
      BY <1>0, <2>1 DEF Places
  <2>5. Owned'
      BY <1>0, <2>1, <2>2, <2>3 DEF Owned, LiveTurns
  <2>6. Outdated' /\ Distinct'
      BY <1>0, <2>1 DEF Outdated, Distinct, Asking
  <2> QED
      BY <2>3, <2>4, <2>5, <2>6
<1> QED
    BY <1>1, <1>2

\* onCancel() ends the query under way.
LEMMA CancelKeeps ==
    ASSUME IInv, UserCancel
    PROVE  IInv' /\ (LiveTurns' = LiveTurns \/ \E c \in Chains : Turns!End(c))
<1> USE DEF IInv, Typed
<1>1. /\ status' = "idle" /\ at' = at /\ gen' = gen
      /\ forced' = [c \in Chains |-> forced[c] \/ (at[c] \in Asking /\ Ends(c))]
      /\ generation' = IF isActive THEN generation + 1 ELSE generation
    BY DEF UserCancel, Asking
<1>2. LiveTurns' = {}
    BY <1>1 DEF LiveTurns, Owned, Ends, Asking
<1>3. LiveTurns = {} \/ \E c \in Chains : LiveTurns = {c}
    BY OneLive DEF LiveTurns
<1>4. Typed' /\ Owned'
    BY <1>1, <1>2 DEF Owned
<1>5. Outdated'
    BY <1>1 DEF Outdated, Asking, Ends, isActive
<1>6. Distinct'
    BY <1>1 DEF Distinct
<1> QED
    BY <1>2, <1>3, <1>4, <1>5, <1>6 DEF Turns!End

LEMMA NextKeeps ==
    ASSUME IInv, [Next]_vars
    PROVE  IInv' /\ [Turns!Next]_LiveTurns
<1> USE DEF Typed
<1>1. ASSUME NEW a \in fresh, Submit(a) \/ Notify(a)
      PROVE  IInv' /\ LiveTurns' = LiveTurns
  <2>1. CASE \E c \in Chains : StartInput(c, <<a>>)
      BY <2>1, StartKeeps
  <2>2. CASE UNCHANGED <<guardVars, at, held, gen, forced, direct, snap>>
    <3>1. Aside
        BY <2>2 DEF IInv, Outdated, Aside, guardVars
    <3> QED
        BY <3>1, AsideKeeps
  <2> QED
      BY <1>1, <2>1, <2>2 DEF Submit, Notify, chainVars
<1>2. ASSUME NEW a \in fresh, Incoming(a)
      PROVE  IInv' /\ [Turns!Next]_LiveTurns
  <2> PICK c \in Chains :
          /\ NewChain(c) /\ OnQuery(c, <<a>>)
          /\ forced' = [forced EXCEPT ![c] = FALSE]
      BY <1>2 DEF Incoming
  <2>1. IInv' /\ (LiveTurns' = LiveTurns \/ Turns!Begin(c))
      BY OnQueryKeeps DEF NewChain, IInv
  <2> QED
      BY <2>1 DEF Turns!Next
<1>3. ASSUME Effect PROVE IInv' /\ LiveTurns' = LiveTurns
  <2>1. CASE \E c \in Chains : \E batch : StartInput(c, batch)
      BY <2>1, StartKeeps
  <2>2. CASE UNCHANGED <<guardVars, chainVars>>
    <3>1. Aside
        BY <2>2 DEF IInv, Outdated, Aside, guardVars, chainVars
    <3> QED
        BY <3>1, AsideKeeps
  <2> QED
      BY <1>3, <2>1, <2>2 DEF Effect
<1>4. ASSUME NEW c \in Chains, Processed(c)
      PROVE  IInv' /\ [Turns!Next]_LiveTurns
  <2>1. /\ OnQuery(c, held[c]) /\ at[c] = "processing" /\ forced' = forced
      BY <1>4 DEF Processed
  <2>2. ~forced[c]
      BY <2>1 DEF IInv, Outdated
  <2>3. IInv' /\ (LiveTurns' = LiveTurns \/ Turns!Begin(c))
      BY <2>1, <2>2, OnQueryKeeps DEF IInv
  <2> QED
      BY <2>3 DEF Turns!Next
<1>5. ASSUME NEW c \in Chains,
             \/ ProcessedLocally(c) \/ ProcessingFails(c) \/ Close(c)
             \/ DrainLook(c) \/ DrainTake(c)
      PROVE  IInv' /\ LiveTurns' = LiveTurns
  <2>1. Aside
    <3>1. generation' = generation /\ gen' = gen /\ forced' = forced
        BY <1>5 DEF ProcessedLocally, ProcessingFails, Close, DrainLook,
           DrainTake, guardVars
    <3>2. status' = status \/ status' = Released(status)
        BY <1>5 DEF ProcessedLocally, ProcessingFails, Close, DrainLook,
           DrainTake, guardVars
    <3>3. \/ at[c] \in Asking
             /\ \E to \in Asking : at' = [at EXCEPT ![c] = to]
          \/ at[c] \notin Asking
             /\ \E to \in {"free", "closing"} : at' = [at EXCEPT ![c] = to]
        BY <1>5 DEF ProcessedLocally, ProcessingFails, Close, DrainLook,
           DrainTake, Asking
    <3> QED
        BY <3>1, <3>2, <3>3 DEF IInv, Outdated, Aside, Released, Asking, Places
  <2> QED
      BY <2>1, AsideKeeps
<1>6. ASSUME NEW c \in Chains, QueryEnds(c)
      PROVE  IInv' /\ [Turns!Next]_LiveTurns
    BY <1>6, QueryEndsKeeps DEF Turns!Next
<1>7. ASSUME NEW c \in Chains, TurnCompleted(c)
      PROVE  IInv' /\ LiveTurns' = LiveTurns
  <2>1. /\ at[c] = "ending" /\ status' = status /\ generation' = generation
        /\ \E to \in {"free", "closing"} : at' = [at EXCEPT ![c] = to]
        /\ gen' = [gen EXCEPT ![c] = 0]
        /\ forced' = [forced EXCEPT ![c] = FALSE]
      BY <1>7 DEF TurnCompleted, Return, guardVars
  <2>2. LiveTurns' = LiveTurns
      BY <2>1 DEF LiveTurns, IInv
  <2>3. Typed'
      BY <2>1 DEF IInv, Places
  <2>4. Owned'
      BY <2>1, <2>2 DEF IInv, Owned, LiveTurns
  <2>5. Outdated' /\ Distinct'
      BY <2>1 DEF IInv, Outdated, Distinct, Asking
  <2> QED
      BY <2>2, <2>3, <2>4, <2>5 DEF IInv
<1>8. ASSUME UserCancel
      PROVE  IInv' /\ [Turns!Next]_LiveTurns
    BY <1>8, CancelKeeps DEF Turns!Next
<1>9. ASSUME SubagentDrains \/ TakeBack \/ OpenUI \/ CloseUI \/ UNCHANGED vars
      PROVE  IInv' /\ LiveTurns' = LiveTurns
  <2>1. Aside
      BY <1>9 DEF SubagentDrains, TakeBack, OpenUI, CloseUI, vars, guardVars,
         chainVars, IInv, Outdated, Aside
  <2> QED
      BY <2>1, AsideKeeps
<1> QED
    BY <1>1, <1>2, <1>3, <1>4, <1>5, <1>6, <1>7, <1>8, <1>9
       DEF Next, ChainStep

\* Turns follow one another, for any number of chains: finally blocks,
\* cancellations and stale reservations never let a second turn begin beside
\* one that is under way.
THEOREM OneTurnAtATime == Spec => TurnsFollow
<1>1. Init => IInv /\ Turns!Init
    BY InitKeeps
<1>2. IInv /\ [Next]_vars => IInv' /\ [Turns!Next]_LiveTurns
    BY NextKeeps
<1> QED
    BY <1>1, <1>2, PTL DEF Spec, TurnsFollow, Turns!Spec

-----------------------------------------------------------------------------
(* Commands in queues *)

\* A command, or what onQuery() has made of one.
Copies ==
    {x \in Command : \E a \in Commands : a.id = x.id /\ a.meta = x.meta}

LEMMA CommandsCopied ==
    /\ Commands \subseteq Copies
    /\ \A x \in Copies : x \in Command /\ x.id \in Ids
    /\ \A a \in Commands : \A x \in Copies : a.id = x.id => a.meta = x.meta
BY CommandsAssumption DEF Copies, Ids

LEMMA CopiesAre ==
    ASSUME NEW s \in Seq(Copies)
    PROVE  /\ s \in Seq(Command) /\ IdsOf(s) \subseteq Ids
           /\ DOMAIN s \subseteq Nat
           /\ \A i \in DOMAIN s : s[i] \in Copies
<1>1. DOMAIN s = 1..Len(s) /\ Len(s) \in Nat /\ \A i \in 1..Len(s) : s[i] \in Copies
    BY LenProperties, ElementOfSeq
<1>2. s \in Seq(Command)
    BY <1>1, CommandsCopied, SeqDef
<1>3. IdsOf(s) \subseteq Ids
    BY <1>1, CommandsCopied DEF IdsOf
<1> QED
    BY <1>1, <1>2, <1>3

\* Which commands are in the results of the queue's operations.
LEMMA JoinedIds ==
    ASSUME NEW s \in Seq(Copies), NEW t \in Seq(Copies)
    PROVE  s \o t \in Seq(Copies) /\ IdsOf(s \o t) = IdsOf(s) \union IdsOf(t)
<1>1. PICK m \in Nat, n \in Nat :
          /\ m = Len(s) /\ DOMAIN s = 1..m /\ n = Len(t) /\ DOMAIN t = 1..n
    BY LenProperties
<1>2. /\ s \o t \in Seq(Copies) /\ DOMAIN (s \o t) = 1..(m + n)
      /\ \A i \in 1..m : (s \o t)[i] = s[i]
      /\ \A i \in 1..n : (s \o t)[m + i] = t[i]
  <2>1. s \o t \in Seq(Copies) /\ Len(s \o t) = m + n
      BY <1>1, ConcatProperties
  <2>2. DOMAIN (s \o t) = 1..(m + n)
      BY <2>1, LenProperties
  <2>3. \A i \in 1..(m + n) : (s \o t)[i] = IF i <= m THEN s[i] ELSE t[i - m]
      BY <1>1, ConcatProperties
  <2>4. \A i \in 1..m : i \in 1..(m + n) /\ i <= m
      BY <1>1
  <2>5. \A i \in 1..n : /\ m + i \in 1..(m + n) /\ ~(m + i <= m)
                        /\ (m + i) - m = i
      BY <1>1
  <2> QED
      BY <2>1, <2>2, <2>3, <2>4, <2>5
<1>3. \A i \in 1..(m + n) : i \in 1..m \/ \E j \in 1..n : i = m + j
  <2> SUFFICES ASSUME NEW i \in 1..(m + n), i \notin 1..m
               PROVE  \E j \in 1..n : i = m + j
      OBVIOUS
  <2>1. i - m \in 1..n /\ i = m + (i - m)
      OBVIOUS
  <2> QED
      BY <2>1
<1>4. \A i \in 1..m : i \in 1..(m + n)
    OBVIOUS
<1>5. \A i \in 1..n : m + i \in 1..(m + n)
    OBVIOUS
<1>6. IdsOf(s \o t) = {(s \o t)[i].id : i \in 1..(m + n)}
    BY <1>2 DEF IdsOf
<1>7. IdsOf(s) = {s[i].id : i \in 1..m} /\ IdsOf(t) = {t[i].id : i \in 1..n}
    BY <1>1 DEF IdsOf
<1>8. ASSUME NEW x \in IdsOf(s \o t) PROVE x \in IdsOf(s) \union IdsOf(t)
  <2>1. PICK i \in 1..(m + n) : x = (s \o t)[i].id
      BY <1>6
  <2>2. CASE i \in 1..m
      BY <1>2, <1>7, <2>1, <2>2
  <2>3. CASE \E j \in 1..n : i = m + j
      BY <1>2, <1>7, <2>1, <2>3
  <2> QED
      BY <1>3, <2>2, <2>3
<1>9. IdsOf(s) \union IdsOf(t) \subseteq IdsOf(s \o t)
    BY <1>2, <1>4, <1>5, <1>6, <1>7
<1> QED
    BY <1>2, <1>8, <1>9

LEMMA OneId ==
    ASSUME NEW a \in Copies
    PROVE  <<a>> \in Seq(Copies) /\ IdsOf(<<a>>) = {a.id}
<1>1. DOMAIN <<a>> = {1} /\ <<a>>[1] = a
    OBVIOUS
<1>2. <<a>> \in Seq(Copies)
    OBVIOUS
<1> QED
    BY <1>1, <1>2 DEF IdsOf

LEMMA NoIds == <<>> \in Seq(Copies) /\ IdsOf(<<>>) = {}
<1>1. <<>> \in Seq(Copies)
    BY EmptySeq
<1>2. DOMAIN <<>> = {}
    BY <1>1, EmptySeq, LenProperties
<1> QED
    BY <1>1, <1>2 DEF IdsOf

LEMMA PickedIds ==
    ASSUME NEW s \in Seq(Copies), NEW places \in SUBSET (DOMAIN s)
    PROVE  /\ PickedFrom(s, places) \in Seq(Copies)
           /\ IdsOf(PickedFrom(s, places)) = {s[i].id : i \in places}
<1>1. PickedFrom(s, places) \in Seq(Copies)
    BY PickedTyped
<1>2. PICK r : r = PickedFrom(s, places)
    OBVIOUS
<1>3. /\ \A k \in DOMAIN r : \E i \in places : r[k] = s[i]
      /\ \A i \in places : \E k \in DOMAIN r : r[k] = s[i]
    BY <1>2, PickedItems
<1>4. IdsOf(r) = {s[i].id : i \in places}
    BY <1>3 DEF IdsOf
<1> QED
    BY <1>1, <1>2, <1>4

LEMMA WithoutIds ==
    ASSUME NEW q \in Seq(Copies), NEW s \in Seq(Copies)
    PROVE  /\ Without(q, s) \in Seq(Copies)
           /\ IdsOf(Without(q, s)) \subseteq IdsOf(q)
           /\ IdsOf(q) \subseteq IdsOf(Without(q, s)) \union IdsOf(s)
<1> DEFINE places == {i \in DOMAIN q : \A j \in DOMAIN s : q[i] # s[j]}
<1>1. /\ PickedFrom(q, places) \in Seq(Copies)
      /\ IdsOf(PickedFrom(q, places)) = {q[i].id : i \in places}
    BY PickedIds
<1>2. {q[i].id : i \in places} \subseteq IdsOf(q)
    BY DEF IdsOf
<1>3. IdsOf(q) \subseteq {q[i].id : i \in places} \union IdsOf(s)
    BY DEF IdsOf
<1> QED
    BY <1>1, <1>2, <1>3 DEF Without

LEMMA BatchIds ==
    ASSUME NEW q \in Seq(Copies), NEW a \in Copies
    PROVE  Batch(q, a) \in Seq(Copies)
BY PickedIds, OneId DEF Batch

LEMMA AttachedIds ==
    ASSUME NEW s \in Seq(Copies)
    PROVE  Attached(s) \in Seq(Copies) /\ IdsOf(Attached(s)) \subseteq IdsOf(s)
<1>1. /\ Attached(s) \in Seq(Copies)
      /\ IdsOf(Attached(s)) = {s[i].id : i \in
             {j \in DOMAIN s : s[j].mode \in {"prompt", "notification"}}}
    BY PickedIds DEF Attached
<1> QED
    BY <1>1 DEF IdsOf

LEMMA PutBackIds ==
    ASSUME NEW s \in Seq(Copies)
    PROVE  /\ PutBack(s) \in Seq(Copies)
           /\ IdsOf(PutBack(s)) = {s[i].id : i \in {j \in DOMAIN s : ~s[j].meta}}
<1> DEFINE texts == PickedFrom(s, {i \in DOMAIN s : ~s[i].meta})
           Text(x) == [x EXCEPT !.mode = "prompt", !.prio = 1, !.main = TRUE,
                                !.copy = @ + 1]
<1>1. /\ texts \in Seq(Copies)
      /\ IdsOf(texts) = {s[i].id : i \in {j \in DOMAIN s : ~s[j].meta}}
    BY PickedIds
<1>2. ASSUME NEW x \in Copies
      PROVE  Text(x) \in Copies /\ Text(x).id = x.id
  <2> USE DEF Command, Modes
  <2>1. x \in Command
      BY DEF Copies
  <2>2. PICK w \in Command : w = [x EXCEPT !.mode = "prompt"]
      BY <2>1
  <2>3. PICK y \in Command : y = [w EXCEPT !.prio = 1]
    <3>1. 1 \in 0..2
        OBVIOUS
    <3>2. \A p \in 0..2 : [w EXCEPT !.prio = p] \in Command
        OBVIOUS
    <3> QED
        BY <3>1, <3>2
  <2>4. PICK z \in Command : z = [y EXCEPT !.main = TRUE]
      OBVIOUS
  <2>5. PICK t \in Command : t = [z EXCEPT !.copy = @ + 1]
    <3>1. z.copy + 1 \in Nat
        OBVIOUS
    <3>2. \A n \in Nat : [z EXCEPT !.copy = n] \in Command
        OBVIOUS
    <3> QED
        BY <3>1, <3>2
  <2>6. t = Text(x)
      BY <2>1, <2>2, <2>3, <2>4, <2>5
  <2>7. t.id = x.id /\ t.meta = x.meta
      BY <2>1, <2>2, <2>3, <2>4, <2>5
  <2>8. t \in Copies
      BY <2>7 DEF Copies
  <2> QED
      BY <2>6, <2>7, <2>8
<1> HIDE DEF texts, Text
<1>3. PICK n \in Nat : n = Len(texts) /\ DOMAIN texts = 1..n
    BY <1>1, LenProperties
<1>4. \A i \in 1..n : texts[i] \in Copies
    BY <1>1, <1>3, CopiesAre
<1>5. PutBack(s) = [i \in 1..n |-> Text(texts[i])]
    BY <1>3 DEF PutBack, texts, Text
<1>6. PutBack(s) \in Seq(Copies)
    BY <1>2, <1>4, <1>5, SeqDef
<1>7. IdsOf(PutBack(s)) = IdsOf(texts)
    BY <1>2, <1>3, <1>4, <1>5 DEF IdsOf
<1> QED
    BY <1>1, <1>6, <1>7

LEMMA SendsCount ==
    ASSUME sent \in [Ids -> Nat], NEW s
    PROVE  /\ Sends(s) \in [Ids -> Nat]
           /\ \A i \in Ids :
                 Sends(s)[i] = IF i \in IdsOf(s) THEN sent[i] + 1 ELSE sent[i]
BY DEF Sends

-----------------------------------------------------------------------------
(* Types, and that no command is lost *)

DataInv ==
    /\ queue \in Seq(Copies)
    /\ held \in [Chains -> Seq(Copies)] /\ snap \in [Chains -> Seq(Copies)]
    /\ fresh \subseteq Commands /\ submitted \subseteq Commands
    /\ sent \in [Ids -> Nat] /\ settled \subseteq Ids /\ dropped \subseteq Ids

\* A chain that is not in processUserInput() holds nothing.
Waiting == \A c \in Chains : at[c] # "processing" => held[c] = <<>>

FlagInv ==
    /\ ui \in BOOLEAN /\ touched \in BOOLEAN
    /\ drawn \in [active : BOOLEAN, ui : BOOLEAN]
    /\ aborted \in [Chains -> BOOLEAN] /\ direct \in [Chains -> BOOLEAN]
    /\ controller \in Chains \cup {0} /\ cancels \in 0..MaxCancels

\* Where the command with an id may be, but for those on their way.
Accounted(i) ==
    \/ i \in settled \/ sent[i] > 0
    \/ i \in IdsOf(queue)
    \/ \E c \in Chains : i \in IdsOf(held[c])
    \/ i \in dropped

DInv == Typed /\ DataInv /\ Waiting /\ NothingLost

LEMMA LostDef ==
    NothingLost <=> \A a \in submitted : a.meta \/ Accounted(a.id)
BY DEF NothingLost, Accounted

LEMMA StartData ==
    ASSUME Typed, DataInv, Waiting, NEW c \in Chains, NEW cmds \in Seq(Copies),
           StartInput(c, cmds)
    PROVE  /\ held' \in [Chains -> Seq(Copies)] /\ snap' = snap
           /\ held[c] = <<>> /\ held'[c] = cmds
           /\ \A d \in Chains : d # c => held'[d] = held[d]
           /\ Waiting'
<1>1. /\ at[c] = "free" /\ at' = [at EXCEPT ![c] = "processing"]
      /\ held' = [held EXCEPT ![c] = cmds] /\ snap' = snap
    BY DEF StartInput, NewChain
<1>2. held[c] = <<>>
    BY <1>1 DEF Waiting
<1> QED
    BY <1>1, <1>2 DEF Typed, DataInv, Waiting

LEMMA OnQueryData ==
    ASSUME Typed, DataInv, NEW c \in Chains, NEW cmds \in Seq(Copies),
           OnQuery(c, cmds)
    PROVE  /\ queue' \in Seq(Copies) /\ sent' \in [Ids -> Nat]
           /\ \A i \in Ids : sent[i] > 0 => sent'[i] > 0
           /\ IdsOf(queue) \subseteq IdsOf(queue')
           /\ \A a \in Commands :
                 a.id \in IdsOf(cmds) /\ ~a.meta
                 => a.id \in IdsOf(queue') \/ sent'[a.id] > 0
           /\ \A d \in Chains :
                 at'[d] = IF d # c THEN at[d]
                          ELSE IF MayStart(status) THEN "querying" ELSE "closing"
<1>1. CASE MayStart(status)
  <2>1. queue' = queue /\ sent' = Sends(cmds)
        /\ at' = [at EXCEPT ![c] = "querying"]
      BY <1>1 DEF OnQuery
  <2>2. /\ sent' \in [Ids -> Nat]
        /\ \A i \in Ids :
              sent'[i] = IF i \in IdsOf(cmds) THEN sent[i] + 1 ELSE sent[i]
      BY <2>1, SendsCount DEF DataInv
  <2>3. \A i \in Ids : sent[i] \in Nat
      BY DEF DataInv
  <2>4. \A i \in Ids : i \in IdsOf(cmds) \/ sent[i] > 0 => sent'[i] > 0
      BY <2>2, <2>3
  <2> QED
      BY <1>1, <2>1, <2>2, <2>4 DEF DataInv, Ids, Typed
<1>2. CASE ~MayStart(status)
  <2>1. queue' = queue \o PutBack(cmds) /\ sent' = sent
        /\ at' = [at EXCEPT ![c] = "closing"]
      BY <1>2 DEF OnQuery
  <2>2. /\ PutBack(cmds) \in Seq(Copies)
        /\ IdsOf(PutBack(cmds)) =
              {cmds[i].id : i \in {j \in DOMAIN cmds : ~cmds[j].meta}}
      BY PutBackIds
  <2>3. /\ queue' \in Seq(Copies)
        /\ IdsOf(queue') = IdsOf(queue) \union IdsOf(PutBack(cmds))
      BY <2>1, <2>2, JoinedIds DEF DataInv
  <2>4. ASSUME NEW a \in Commands, a.id \in IdsOf(cmds), ~a.meta
        PROVE  a.id \in IdsOf(queue')
    <3>1. PICK i \in DOMAIN cmds : cmds[i].id = a.id
        BY <2>4 DEF IdsOf
    <3>2. ~cmds[i].meta
        BY <2>4, <3>1, CopiesAre, CommandsCopied
    <3> QED
        BY <2>2, <2>3, <3>1, <3>2
  <2> QED
      BY <1>2, <2>1, <2>3, <2>4 DEF DataInv, Typed
<1> QED
    BY <1>1, <1>2

\* What the queue, the chains and the counts are after a step that leaves
\* every accounted command so.
LEMMA StillAccounted ==
    ASSUME DataInv, NothingLost,
           \A i \in Ids : Accounted(i) => Accounted(i)',
           \A a \in submitted' \ submitted : a.meta \/ Accounted(a.id)'
    PROVE  NothingLost'
<1>1. ASSUME NEW a \in submitted' PROVE a.meta \/ Accounted(a.id)'
  <2>1. CASE a \in submitted
    <3>1. a.id \in Ids
        BY <2>1 DEF DataInv, Ids
    <3> QED
        BY <2>1, <3>1, LostDef
  <2> QED
      BY <2>1
<1> QED
    BY <1>1 DEF NothingLost, Accounted

\* A step that leaves the commands where they are.
LEMMA DataAside ==
    ASSUME DInv,
           UNCHANGED <<queue, held, snap, fresh, submitted, sent, settled, dropped>>,
           \A c \in Chains : at[c] = "processing" => at'[c] = "processing"
    PROVE  DataInv' /\ Waiting' /\ NothingLost'
<1>1. DataInv'
    BY DEF DInv, DataInv
<1>2. Waiting'
    BY DEF DInv, Waiting
<1>3. \A i \in Ids : Accounted(i) => Accounted(i)'
    BY DEF Accounted
<1> QED
    BY <1>1, <1>2, <1>3, StillAccounted DEF DInv

\* A command is queued.
LEMMA QueuedData ==
    ASSUME DInv, NEW a \in fresh, queue' = queue \o <<a>>,
           fresh' = fresh \ {a}, submitted' = submitted \cup {a},
           UNCHANGED <<at, held, snap, sent, settled, dropped>>
    PROVE  DataInv' /\ Waiting' /\ NothingLost'
<1>1. a \in Commands /\ a \in Copies
    BY CommandsCopied DEF DInv, DataInv
<1>2. /\ queue' \in Seq(Copies)
      /\ IdsOf(queue') = IdsOf(queue) \union {a.id}
    BY <1>1, OneId, JoinedIds DEF DInv, DataInv
<1>3. DataInv' /\ Waiting'
    BY <1>1, <1>2 DEF DInv, DataInv, Waiting
<1>4. \A i \in Ids : Accounted(i) => Accounted(i)'
    BY <1>2 DEF Accounted
<1>5. Accounted(a.id)'
    BY <1>2 DEF Accounted
<1> QED
    BY <1>3, <1>4, <1>5, StillAccounted DEF DInv

\* A command becomes the input of a chain at once.
LEMMA TakenData ==
    ASSUME DInv, NEW a \in fresh, NEW c \in Chains, StartInput(c, <<a>>),
           fresh' = fresh \ {a}, submitted' = submitted \cup {a},
           UNCHANGED <<queue, sent, settled, dropped>>
    PROVE  DataInv' /\ Waiting' /\ NothingLost'
<1>1. a \in Commands /\ <<a>> \in Seq(Copies) /\ IdsOf(<<a>>) = {a.id}
    BY CommandsCopied, OneId DEF DInv, DataInv
<1>2. /\ held' \in [Chains -> Seq(Copies)] /\ snap' = snap
      /\ held[c] = <<>> /\ held'[c] = <<a>>
      /\ \A d \in Chains : d # c => held'[d] = held[d]
      /\ Waiting'
    BY <1>1, StartData DEF DInv
<1>3. DataInv'
    BY <1>1, <1>2 DEF DInv, DataInv
<1>4. \A i \in Ids : Accounted(i) => Accounted(i)'
    BY <1>2, NoIds DEF Accounted
<1>5. Accounted(a.id)'
    BY <1>1, <1>2 DEF Accounted
<1> QED
    BY <1>2, <1>3, <1>4, <1>5, StillAccounted DEF DInv

LEMMA IncomingData ==
    ASSUME DInv, NEW a \in fresh, Incoming(a)
    PROVE  DataInv' /\ Waiting' /\ NothingLost'
<1>1. PICK c \in Chains : NewChain(c) /\ OnQuery(c, <<a>>)
    BY DEF Incoming
<1>2. /\ a.mode = "teammate" /\ fresh' = fresh \ {a}
      /\ submitted' = submitted \cup {a} /\ held' = held /\ snap' = snap
      /\ settled' = settled /\ dropped' = dropped
    BY DEF Incoming
<1>3. /\ a \in Commands /\ <<a>> \in Seq(Copies) /\ IdsOf(<<a>>) = {a.id}
      /\ a.id \in Ids
    BY CommandsCopied, OneId DEF DInv, DataInv
<1>4. /\ queue' \in Seq(Copies) /\ sent' \in [Ids -> Nat]
      /\ \A i \in Ids : sent[i] > 0 => sent'[i] > 0
      /\ IdsOf(queue) \subseteq IdsOf(queue')
      /\ ~a.meta => a.id \in IdsOf(queue') \/ sent'[a.id] > 0
      /\ \A d \in Chains : at[d] = "processing" => at'[d] = "processing"
    BY <1>1, <1>3, OnQueryData DEF DInv, NewChain
<1>5. DataInv' /\ Waiting'
    BY <1>2, <1>3, <1>4 DEF DInv, DataInv, Waiting
<1>6. \A i \in Ids : Accounted(i) => Accounted(i)'
    BY <1>2, <1>4 DEF Accounted
<1>7. a.meta \/ Accounted(a.id)'
    BY <1>3, <1>4 DEF Accounted
<1> QED
    BY <1>2, <1>5, <1>6, <1>7, StillAccounted DEF DInv

\* What leaves the queue for a chain, the conversation or the input line.
LEMMA LeftData ==
    ASSUME DInv, NEW s \in Seq(Copies),
           IdsOf(queue) \subseteq IdsOf(queue') \union IdsOf(s),
           \A i \in IdsOf(s) : Accounted(i)',
           \A i \in Ids : sent[i] > 0 => sent'[i] > 0,
           \A c \in Chains : IdsOf(held[c]) \subseteq IdsOf(held'[c]),
           settled \subseteq settled', dropped \subseteq dropped',
           submitted' = submitted
    PROVE  NothingLost'
<1>1. \A i \in Ids : Accounted(i) => Accounted(i)'
    BY DEF Accounted
<1> QED
    BY <1>1, StillAccounted DEF DInv

LEMMA EffectData ==
    ASSUME DInv, Effect
    PROVE  DataInv' /\ Waiting' /\ NothingLost'
<1>0. UNCHANGED <<fresh, submitted, sent, settled, dropped>>
    BY DEF Effect
<1>1. CASE UNCHANGED <<queue, guardVars, chainVars, controller>>
    BY <1>0, <1>1, DataAside DEF guardVars, chainVars
<1>2. ASSUME NEW i \in First(queue),
             queue' = Without(queue, Batch(queue, queue[i])),
             Batch(queue, queue[i]) = <<>>,
             UNCHANGED <<guardVars, chainVars, controller>>
      PROVE  DataInv' /\ Waiting' /\ NothingLost'
  <2>1. /\ queue' \in Seq(Copies)
        /\ IdsOf(queue) \subseteq IdsOf(queue') \union IdsOf(<<>>)
      BY <1>2, NoIds, WithoutIds DEF DInv, DataInv
  <2>2. DataInv' /\ Waiting'
      BY <1>0, <1>2, <2>1 DEF DInv, DataInv, Waiting, chainVars
  <2>3. NothingLost'
      BY <1>0, <1>2, <2>1, NoIds, LeftData DEF chainVars
  <2> QED
      BY <2>2, <2>3
<1>3. ASSUME NEW i \in First(queue), NEW c \in Chains,
             queue' = Without(queue, Batch(queue, queue[i])),
             StartInput(c, Batch(queue, queue[i]))
      PROVE  DataInv' /\ Waiting' /\ NothingLost'
  <2>1. i \in DOMAIN queue
      BY DEF First
  <2>2. PICK b \in Seq(Copies) : b = Batch(queue, queue[i])
      BY <2>1, CopiesAre, BatchIds DEF DInv, DataInv
  <2>3. /\ queue' \in Seq(Copies)
        /\ IdsOf(queue) \subseteq IdsOf(queue') \union IdsOf(b)
      BY <1>3, <2>2, WithoutIds DEF DInv, DataInv
  <2>4. /\ held' \in [Chains -> Seq(Copies)] /\ snap' = snap
        /\ held[c] = <<>> /\ held'[c] = b
        /\ \A d \in Chains : d # c => held'[d] = held[d]
        /\ Waiting'
      BY <1>3, <2>2, StartData DEF DInv
  <2>5. DataInv'
      BY <1>0, <2>3, <2>4 DEF DInv, DataInv
  <2>6. \A j \in IdsOf(b) : Accounted(j)'
      BY <2>4 DEF Accounted
  <2>7. \A d \in Chains : IdsOf(held[d]) \subseteq IdsOf(held'[d])
      BY <2>4, NoIds
  <2>8. NothingLost'
      BY <1>0, <2>3, <2>6, <2>7, LeftData
  <2> QED
      BY <2>4, <2>5, <2>8
<1> QED
    BY <1>1, <1>2, <1>3 DEF Effect

\* A chain has done with its input.
LEMMA ProcessedData ==
    ASSUME DInv, NEW c \in Chains,
           Processed(c) \/ ProcessedLocally(c) \/ ProcessingFails(c)
    PROVE  DataInv' /\ Waiting' /\ NothingLost'
<1>1. /\ held' = [held EXCEPT ![c] = <<>>]
      /\ UNCHANGED <<fresh, submitted, snap, dropped>>
    BY DEF Processed, ProcessedLocally, ProcessingFails
<1>2. /\ held' \in [Chains -> Seq(Copies)]
      /\ held[c] \in Seq(Copies) /\ held'[c] = <<>>
      /\ \A d \in Chains : d # c => held'[d] = held[d]
    BY <1>1, NoIds DEF DInv, DataInv
<1>3. /\ IdsOf(held[c]) \subseteq Ids
      /\ \A a \in Commands : a.id \in Ids
    BY <1>2, CopiesAre DEF Ids
<1>4. CASE Processed(c)
  <2>1. /\ queue' \in Seq(Copies) /\ sent' \in [Ids -> Nat]
        /\ \A i \in Ids : sent[i] > 0 => sent'[i] > 0
        /\ IdsOf(queue) \subseteq IdsOf(queue')
        /\ \A a \in Commands :
              a.id \in IdsOf(held[c]) /\ ~a.meta
              => a.id \in IdsOf(queue') \/ sent'[a.id] > 0
        /\ \A d \in Chains :
              at'[d] = IF d # c THEN at[d]
                       ELSE IF MayStart(status) THEN "querying" ELSE "closing"
      BY <1>2, <1>4, OnQueryData DEF Processed, DInv
  <2>2. settled' = settled
      BY <1>4 DEF Processed
  <2>3. DataInv'
      BY <1>1, <1>2, <2>1, <2>2 DEF DInv, DataInv
  <2>4. Waiting'
      BY <1>2, <2>1 DEF DInv, Waiting
  <2>5. ASSUME NEW a \in submitted, ~a.meta PROVE Accounted(a.id)'
    <3>1. a \in Commands /\ Accounted(a.id)
        BY <2>5, LostDef DEF DInv, DataInv
    <3>2. CASE a.id \in IdsOf(held[c])
        BY <2>1, <2>5, <3>1, <3>2 DEF Accounted
    <3>3. CASE a.id \notin IdsOf(held[c])
        BY <1>1, <1>2, <1>3, <2>1, <2>2, <3>1, <3>3 DEF Accounted
    <3> QED
        BY <3>2, <3>3
  <2>6. NothingLost'
      BY <1>1, <2>5 DEF NothingLost, Accounted
  <2> QED
      BY <2>3, <2>4, <2>6
<1>5. CASE ProcessedLocally(c) \/ ProcessingFails(c)
  <2>1. /\ settled' = settled \cup IdsOf(held[c])
        /\ at' = [at EXCEPT ![c] = "closing"]
        /\ queue' = queue /\ sent' = sent
      BY <1>5 DEF ProcessedLocally, ProcessingFails
  <2>2. DataInv'
      BY <1>1, <1>2, <1>3, <2>1 DEF DInv, DataInv
  <2>3. Waiting'
      BY <1>2, <2>1 DEF DInv, Typed, Waiting
  <2>4. \A i \in Ids : Accounted(i) => Accounted(i)'
      BY <1>1, <1>2, <2>1 DEF Accounted
  <2> QED
      BY <1>1, <2>2, <2>3, <2>4, StillAccounted DEF DInv
<1> QED
    BY <1>4, <1>5

\* The query loop looks at the queue.
LEMMA LookData ==
    ASSUME DInv, NEW c \in Chains, DrainLook(c)
    PROVE  DataInv' /\ Waiting' /\ NothingLost'
<1>1. PICK places \in SUBSET (DOMAIN queue) :
          snap' = [snap EXCEPT ![c] = PickedFrom(queue, places)]
    BY DEF DrainLook
<1>2. /\ at' = [at EXCEPT ![c] = "attaching"] /\ at[c] = "querying"
      /\ UNCHANGED <<queue, held, fresh, submitted, sent, settled, dropped>>
    BY DEF DrainLook
<1>3. PickedFrom(queue, places) \in Seq(Copies)
    BY PickedIds DEF DInv, DataInv
<1>4. DataInv'
    BY <1>1, <1>2, <1>3 DEF DInv, DataInv
<1>5. Waiting'
    BY <1>2 DEF DInv, Typed, Waiting
<1>6. \A i \in Ids : Accounted(i) => Accounted(i)'
    BY <1>2 DEF Accounted
<1> QED
    BY <1>2, <1>4, <1>5, <1>6, StillAccounted DEF DInv

\* Commands leave the queue for the conversation, or because an attachment
\* failed.
LEMMA SentData ==
    ASSUME DInv, NEW s \in Seq(Copies), queue' = Without(queue, s),
           \/ sent' = Sends(s) /\ dropped' = dropped
           \/ sent' = sent /\ dropped' = dropped \cup IdsOf(s),
           UNCHANGED <<held, fresh, submitted, settled>>,
           snap' \in [Chains -> Seq(Copies)],
           \A c \in Chains : at[c] = "processing" => at'[c] = "processing"
    PROVE  DataInv' /\ Waiting' /\ NothingLost'
<1>1. /\ queue' \in Seq(Copies)
      /\ IdsOf(queue) \subseteq IdsOf(queue') \union IdsOf(s)
    BY WithoutIds DEF DInv, DataInv
<1>2. /\ Sends(s) \in [Ids -> Nat]
      /\ \A i \in Ids :
            Sends(s)[i] = IF i \in IdsOf(s) THEN sent[i] + 1 ELSE sent[i]
      /\ IdsOf(s) \subseteq Ids
    BY SendsCount, CopiesAre DEF DInv, DataInv
<1>3. \A i \in Ids : sent[i] \in Nat
    BY DEF DInv, DataInv
<1>4. /\ \A i \in Ids : sent[i] > 0 => sent'[i] > 0
      /\ \A i \in IdsOf(s) : i \in dropped' \/ sent'[i] > 0
    BY <1>2, <1>3
<1>5. \A i \in IdsOf(s) : Accounted(i)'
    BY <1>4 DEF Accounted
<1>6. DataInv'
    BY <1>1, <1>2 DEF DInv, DataInv
<1>7. Waiting'
    BY DEF DInv, Waiting
<1>8. dropped \subseteq dropped'
    OBVIOUS
<1>9. NothingLost'
    BY <1>1, <1>4, <1>5, <1>8, LeftData
<1> QED
    BY <1>6, <1>7, <1>9

LEMMA DrainData ==
    ASSUME DInv, NEW c \in Chains, DrainTake(c)
    PROVE  DataInv' /\ Waiting' /\ NothingLost'
<1>1. /\ queue' = Without(queue, Attached(snap[c]))
      /\ \/ sent' = Sends(Attached(snap[c])) /\ dropped' = dropped
         \/ sent' = sent /\ dropped' = dropped \cup IdsOf(Attached(snap[c]))
      /\ snap' = [snap EXCEPT ![c] = <<>>]
      /\ at[c] = "attaching" /\ at' = [at EXCEPT ![c] = "querying"]
      /\ UNCHANGED <<held, fresh, submitted, settled>>
    BY DEF DrainTake, Removed
<1>2. PICK s \in Seq(Copies) : s = Attached(snap[c])
    BY AttachedIds DEF DInv, DataInv
<1>3. snap' \in [Chains -> Seq(Copies)]
    BY <1>1, NoIds DEF DInv, DataInv
<1>4. \A d \in Chains : at[d] = "processing" => at'[d] = "processing"
    BY <1>1 DEF DInv, Typed
<1> QED
    BY <1>1, <1>2, <1>3, <1>4, SentData

LEMMA SubagentData ==
    ASSUME DInv, SubagentDrains
    PROVE  DataInv' /\ Waiting' /\ NothingLost'
<1>1. PICK i \in DOMAIN queue :
          queue' = Without(queue, <<queue[i]>>) /\ sent' = Sends(<<queue[i]>>)
    BY DEF SubagentDrains
<1>2. UNCHANGED <<at, held, snap, fresh, submitted, settled, dropped>>
    BY DEF SubagentDrains, chainVars
<1>3. PICK s \in Seq(Copies) : s = <<queue[i]>>
    BY OneId, CopiesAre DEF DInv, DataInv
<1>4. snap' \in [Chains -> Seq(Copies)]
    BY <1>2 DEF DInv, DataInv
<1> QED
    BY <1>1, <1>2, <1>3, <1>4, SentData

LEMMA TakeBackData ==
    ASSUME DInv, TakeBack
    PROVE  DataInv' /\ Waiting' /\ NothingLost'
<1>1. PICK places \in SUBSET (DOMAIN queue) :
          /\ queue' = Without(queue, PickedFrom(queue, places))
          /\ settled' = settled \cup IdsOf(PickedFrom(queue, places))
    BY DEF TakeBack
<1>2. UNCHANGED <<at, held, snap, fresh, submitted, sent, dropped>>
    BY DEF TakeBack, chainVars
<1>3. PICK s \in Seq(Copies) : s = PickedFrom(queue, places)
    BY PickedIds DEF DInv, DataInv
<1>4. /\ queue' \in Seq(Copies)
      /\ IdsOf(queue) \subseteq IdsOf(queue') \union IdsOf(s)
      /\ IdsOf(s) \subseteq Ids
    BY <1>1, <1>3, WithoutIds, CopiesAre DEF DInv, DataInv
<1>5. DataInv' /\ Waiting'
    BY <1>1, <1>2, <1>3, <1>4 DEF DInv, DataInv, Waiting
<1>6. NothingLost'
    BY <1>1, <1>2, <1>3, <1>4, LeftData DEF Accounted
<1> QED
    BY <1>5, <1>6

LEMMA DataKeeps ==
    ASSUME DInv, [Next]_vars
    PROVE  DataInv' /\ Waiting' /\ NothingLost'
<1>1. ASSUME NEW a \in fresh, Submit(a) \/ Notify(a)
      PROVE  DataInv' /\ Waiting' /\ NothingLost'
  <2>1. CASE queue' = queue \o <<a>>
      BY <1>1, <2>1, QueuedData DEF Submit, Notify, chainVars, StartInput
  <2>2. CASE \E c \in Chains : StartInput(c, <<a>>) /\ queue' = queue
      BY <1>1, <2>2, TakenData DEF Submit, Notify, chainVars
  <2> QED
      BY <1>1, <2>1, <2>2 DEF Submit, Notify
<1>2. ASSUME NEW c \in Chains,
             \/ QueryEnds(c) \/ TurnCompleted(c) \/ Close(c)
      PROVE  DataInv' /\ Waiting' /\ NothingLost'
  <2>1. UNCHANGED <<queue, held, snap, fresh, submitted, sent, settled, dropped>>
      BY <1>2 DEF QueryEnds, TurnCompleted, Close
  <2>2. /\ at[c] # "processing"
        /\ \A d \in Chains : d # c => at'[d] = at[d]
      BY <1>2 DEF QueryEnds, TurnCompleted, Close, Return, DInv, Typed
  <2> QED
      BY <2>1, <2>2, DataAside
<1>3. ASSUME UserCancel \/ OpenUI \/ CloseUI \/ UNCHANGED vars
      PROVE  DataInv' /\ Waiting' /\ NothingLost'
  <2>1. UNCHANGED <<queue, at, held, snap, fresh, submitted, sent, settled, dropped>>
      BY <1>3 DEF UserCancel, OpenUI, CloseUI, vars, chainVars
  <2> QED
      BY <2>1, DataAside
<1> QED
    BY <1>1, <1>2, <1>3, IncomingData, EffectData, ProcessedData, LookData,
       DrainData, SubagentData, TakeBackData DEF Next, ChainStep

LEMMA InitData == Init => DInv
<1> SUFFICES ASSUME Init PROVE DInv
    OBVIOUS
<1>1. fresh \subseteq Commands
    BY DEF Init, Commands
<1>2. DataInv
    BY <1>1, NoIds DEF Init, DataInv
<1>3. Typed
    BY InitKeeps DEF IInv
<1>4. Waiting /\ NothingLost
    BY DEF Init, Waiting, NothingLost
<1> QED
    BY <1>2, <1>3, <1>4 DEF DInv

\* Whatever interleaves, a command that was submitted is queued, held by a
\* chain, in the conversation or settled (the queue processor, the query
\* loop's drain, and onQuery()'s way back into the queue), unless the drain
\* dropped it because an attachment failed.
THEOREM CommandsKept == Spec => []NothingLost
<1>1. Init => IInv /\ DInv
    BY InitKeeps, InitData
<1>2. IInv /\ DInv /\ [Next]_vars => IInv' /\ DInv'
  <2> SUFFICES ASSUME IInv, DInv, [Next]_vars PROVE IInv' /\ DInv'
      OBVIOUS
  <2>1. IInv'
      BY NextKeeps
  <2>2. DataInv' /\ Waiting' /\ NothingLost'
      BY DataKeeps
  <2> QED
      BY <2>1, <2>2 DEF IInv, DInv
<1>3. DInv => NothingLost
    BY DEF DInv
<1> QED
    BY <1>1, <1>2, <1>3, PTL DEF Spec

-----------------------------------------------------------------------------
(* Types *)

LEMMA OnQueryFlags ==
    ASSUME FlagInv, NEW c \in Chains, NEW cmds, OnQuery(c, cmds)
    PROVE  touched' \in BOOLEAN
<1>1. touched' = touched \/ touched' = (touched \/ PutBack(cmds) # <<>>)
    BY DEF OnQuery
<1> QED
    BY <1>1 DEF FlagInv

LEMMA StartFlags ==
    ASSUME FlagInv, NEW c \in Chains, NEW cmds, StartInput(c, cmds)
    PROVE  /\ aborted' \in [Chains -> BOOLEAN]
           /\ direct' \in [Chains -> BOOLEAN]
           /\ controller' \in Chains
BY DEF FlagInv, StartInput

LEMMA ChainFlags ==
    ASSUME FlagInv, NEW c \in Chains, ChainStep(c)
    PROVE  FlagInv'
<1>1. CASE Processed(c)
  <2>1. touched' \in BOOLEAN
      BY <1>1, OnQueryFlags DEF Processed
  <2> QED
      BY <1>1, <2>1 DEF FlagInv, Processed
<1>2. CASE ProcessedLocally(c) \/ ProcessingFails(c) \/ Close(c) \/ DrainLook(c)
    BY <1>2 DEF FlagInv, ProcessedLocally, ProcessingFails, Close, DrainLook
<1>3. CASE QueryEnds(c) \/ TurnCompleted(c)
  <2>1. direct' = direct \/ direct' = [direct EXCEPT ![c] = FALSE]
      BY <1>3 DEF QueryEnds, TurnCompleted, Return
  <2>2. direct' \in [Chains -> BOOLEAN]
      BY <2>1 DEF FlagInv
  <2> QED
      BY <1>3, <2>2 DEF FlagInv, QueryEnds, TurnCompleted
<1>4. CASE DrainTake(c)
  <2>1. touched' \in BOOLEAN
    <3>1. touched' = (touched \/ queue' # queue)
        BY <1>4 DEF DrainTake
    <3> QED
        BY <3>1 DEF FlagInv
  <2> QED
      BY <1>4, <2>1 DEF FlagInv, DrainTake
<1> QED
    BY <1>1, <1>2, <1>3, <1>4 DEF ChainStep

LEMMA FlagsKeep ==
    ASSUME FlagInv, [Next]_vars
    PROVE  FlagInv'
<1>1. ASSUME NEW a \in fresh, Submit(a)
      PROVE  FlagInv'
  <2>0. UNCHANGED <<ui, drawn, cancels>>
      BY <1>1 DEF Submit
  <2>1. CASE isActive
    <3>1. /\ touched' = TRUE /\ direct' = direct /\ controller' = controller
          /\ \/ aborted' = aborted
             \/ aborted' = [aborted EXCEPT ![controller] = TRUE]
        BY <1>1, <2>1 DEF Submit
    <3>2. aborted' \in [Chains -> BOOLEAN]
        BY <3>1 DEF FlagInv
    <3> QED
        BY <2>0, <3>1, <3>2 DEF FlagInv
  <2>2. CASE ~isActive
    <3>1. touched' = touched /\ \E c \in Chains : StartInput(c, <<a>>)
        BY <1>1, <2>2 DEF Submit
    <3> QED
        BY <2>0, <3>1, StartFlags DEF FlagInv
  <2> QED
      BY <2>1, <2>2
<1>2. ASSUME NEW a \in fresh, Incoming(a)
      PROVE  FlagInv'
  <2>1. PICK c \in Chains :
            /\ OnQuery(c, <<a>>)
            /\ direct' = [direct EXCEPT ![c] = TRUE]
            /\ aborted' = [aborted EXCEPT ![c] = FALSE]
            /\ controller' = c
      BY <1>2 DEF Incoming
  <2>2. touched' \in BOOLEAN
      BY <2>1, OnQueryFlags
  <2> QED
      BY <1>2, <2>1, <2>2 DEF FlagInv, Incoming
<1>3. ASSUME Effect PROVE FlagInv'
  <2>0. /\ drawn' = [active |-> isActive, ui |-> ui]
        /\ ui' = ui /\ cancels' = cancels
      BY <1>3 DEF Effect
  <2>1. isActive \in BOOLEAN
      BY DEF isActive
  <2>2. drawn' \in [active : BOOLEAN, ui : BOOLEAN]
      BY <2>0, <2>1 DEF FlagInv
  <2>3. touched' \in BOOLEAN
      BY <1>3 DEF Effect
  <2>4. CASE UNCHANGED <<chainVars, controller>>
      BY <2>0, <2>2, <2>3, <2>4 DEF FlagInv, chainVars
  <2>5. CASE \E c \in Chains : \E b : StartInput(c, b)
      BY <2>0, <2>2, <2>3, <2>5, StartFlags DEF FlagInv
  <2> QED
      BY <1>3, <2>4, <2>5 DEF Effect
<1>4. ASSUME UserCancel PROVE FlagInv'
    BY <1>4, CancelsAssumption DEF FlagInv, UserCancel
<1>5. ASSUME NEW a \in fresh, Notify(a) PROVE FlagInv'
    BY <1>5 DEF FlagInv, Notify, chainVars
<1>6. ASSUME SubagentDrains \/ TakeBack \/ OpenUI \/ CloseUI \/ UNCHANGED vars
      PROVE  FlagInv'
    BY <1>6 DEF FlagInv, SubagentDrains, TakeBack, OpenUI, CloseUI, vars,
       chainVars
<1> QED
    BY <1>1, <1>2, <1>3, <1>4, <1>5, <1>6, ChainFlags DEF Next

LEMMA InitFlags == Init => FlagInv
<1> SUFFICES ASSUME Init PROVE FlagInv
    OBVIOUS
<1>1. 0 \in 0..MaxCancels
    BY CancelsAssumption
<1>2. drawn \in [active : BOOLEAN, ui : BOOLEAN]
    BY DEF Init
<1>3. ui \in BOOLEAN /\ touched \in BOOLEAN
    BY DEF Init
<1>4. aborted \in [Chains -> BOOLEAN] /\ direct \in [Chains -> BOOLEAN]
    BY DEF Init
<1> QED
    BY <1>1, <1>2, <1>3, <1>4 DEF Init, FlagInv

\* The guard, the queue and every chain keep their types: what onQuery() puts
\* back is a command again, with a mode and a priority that the queue knows.
THEOREM TypeCorrect == Spec => []TypeOK
<1>1. Init => IInv /\ DInv /\ FlagInv
    BY InitKeeps, InitData, InitFlags
<1>2. IInv /\ DInv /\ FlagInv /\ [Next]_vars => IInv' /\ DInv' /\ FlagInv'
  <2> SUFFICES ASSUME IInv, DInv, FlagInv, [Next]_vars
               PROVE  IInv' /\ DInv' /\ FlagInv'
      OBVIOUS
  <2>1. IInv' /\ FlagInv'
      BY NextKeeps, FlagsKeep
  <2>2. DataInv' /\ Waiting' /\ NothingLost'
      BY DataKeeps
  <2> QED
      BY <2>1, <2>2 DEF IInv, DInv
<1>3. IInv /\ DInv /\ FlagInv => TypeOK
  <2> SUFFICES ASSUME IInv, DInv, FlagInv PROVE TypeOK
      OBVIOUS
  <2>1. queue \in Seq(Command)
      BY CopiesAre DEF DInv, DataInv
  <2>2. \A c \in Chains : held[c] \in Seq(Command) /\ snap[c] \in Seq(Command)
      BY CopiesAre DEF DInv, DataInv
  <2>3. /\ held \in [Chains -> Seq(Command)]
        /\ snap \in [Chains -> Seq(Command)]
      BY <2>2 DEF DInv, DataInv
  <2> QED
      BY <2>1, <2>3 DEF IInv, Typed, DInv, DataInv, FlagInv, TypeOK
<1> QED
    BY <1>1, <1>2, <1>3, PTL DEF Spec

-----------------------------------------------------------------------------
(* Without a cancellation no command is sent twice *)

Once(s) == \A i, j \in DOMAIN s : s[i].id = s[j].id => i = j

Nowhere(i) ==
    /\ i \notin IdsOf(queue)
    /\ \A c \in Chains : i \notin IdsOf(held[c]) /\ i \notin IdsOf(snap[c])

Uncancelled == \A c \in Chains : ~forced[c]

\* A command is queued once, or held by one chain once.
Apart ==
    /\ Once(queue) /\ \A c \in Chains : Once(held[c])
    /\ \A c \in Chains : \A i \in IdsOf(held[c]) :
          /\ i \notin IdsOf(queue)
          /\ \A d \in Chains : d # c => i \notin IdsOf(held[d])

\* The commands that a query loop has looked at and not yet taken are commands
\* of the main thread that are still queued as they were, or were taken back.
Seen ==
    \A c \in Chains :
        /\ at[c] # "attaching" => snap[c] = <<>>
        /\ \A k \in DOMAIN snap[c] :
              /\ snap[c][k].main
              /\ \A d \in Chains : snap[c][k].id \notin IdsOf(held[d])
              /\ \A j \in DOMAIN queue :
                    queue[j].id = snap[c][k].id => queue[j] = snap[c][k]

\* What was sent is gone.
Gone == \A i \in Ids : sent[i] = 0 \/ (sent[i] = 1 /\ Nowhere(i))

Unknown == \A a \in fresh : sent[a.id] = 0 /\ Nowhere(a.id)

OnceInv == Uncancelled /\ Apart /\ Seen /\ Gone /\ Unknown

OInv == IInv /\ DInv /\ OnceInv

LEMMA JoinedOnce ==
    ASSUME NEW s \in Seq(Copies), NEW t \in Seq(Copies)
    PROVE  /\ \A j \in DOMAIN (s \o t) :
                 \/ \E k \in DOMAIN s : (s \o t)[j] = s[k]
                 \/ \E k \in DOMAIN t : (s \o t)[j] = t[k]
           /\ (/\ Once(s) /\ Once(t)
               /\ \A i \in IdsOf(t) : i \notin IdsOf(s))
              => Once(s \o t)
<1>1. PICK m \in Nat, n \in Nat :
          /\ m = Len(s) /\ DOMAIN s = 1..m /\ n = Len(t) /\ DOMAIN t = 1..n
    BY LenProperties
<1>2. /\ DOMAIN (s \o t) = 1..(m + n)
      /\ \A i \in 1..(m + n) : (s \o t)[i] = IF i <= m THEN s[i] ELSE t[i - m]
    BY <1>1, ConcatProperties, LenProperties
<1>3. \A i \in 1..(m + n) : i <= m => i \in 1..m
    OBVIOUS
<1>4. \A i \in 1..(m + n) : ~(i <= m) => i - m \in 1..n
    OBVIOUS
<1>5. ASSUME Once(s), Once(t), \A i \in IdsOf(t) : i \notin IdsOf(s),
             NEW i \in DOMAIN (s \o t), NEW j \in DOMAIN (s \o t),
             (s \o t)[i].id = (s \o t)[j].id
      PROVE  i = j
  <2>1. \A k \in 1..m : \A l \in 1..n : s[k].id # t[l].id
      BY <1>1, <1>5 DEF IdsOf
  <2>2. CASE i <= m /\ j <= m
      BY <1>1, <1>2, <1>3, <1>5, <2>2 DEF Once
  <2>3. CASE ~(i <= m) /\ ~(j <= m)
    <3>1. i - m \in 1..n /\ j - m \in 1..n /\ t[i - m].id = t[j - m].id
        BY <1>2, <1>4, <1>5, <2>3
    <3>2. i - m = j - m
        BY <1>1, <1>5, <3>1 DEF Once
    <3> QED
        BY <1>2, <3>2
  <2>4. CASE i <= m /\ ~(j <= m)
    <3>1. i \in 1..m /\ j - m \in 1..n /\ s[i].id = t[j - m].id
        BY <1>2, <1>3, <1>4, <1>5, <2>4
    <3> QED
        BY <2>1, <3>1
  <2>5. CASE ~(i <= m) /\ j <= m
    <3>1. j \in 1..m /\ i - m \in 1..n /\ s[j].id = t[i - m].id
        BY <1>2, <1>3, <1>4, <1>5, <2>5
    <3> QED
        BY <2>1, <3>1
  <2> QED
      BY <2>2, <2>3, <2>4, <2>5
<1>6. ASSUME NEW j \in DOMAIN (s \o t)
      PROVE  \/ \E k \in DOMAIN s : (s \o t)[j] = s[k]
             \/ \E k \in DOMAIN t : (s \o t)[j] = t[k]
    BY <1>1, <1>2, <1>3, <1>4
<1> QED
    BY <1>5, <1>6 DEF Once

LEMMA SingleOnce ==
    ASSUME NEW a \in Copies
    PROVE  Once(<<a>>) /\ DOMAIN <<a>> = {1} /\ <<a>>[1] = a
<1>1. DOMAIN <<a>> = {1}
    OBVIOUS
<1> QED
    BY <1>1 DEF Once

LEMMA SelectionOnce ==
    ASSUME NEW s \in Seq(Copies), Once(s), NEW places \in SUBSET (DOMAIN s)
    PROVE  Once(PickedFrom(s, places))
<1> DEFINE key == [x \in Copies |-> x.id]
<1>1. key \in [Copies -> Nat]
    BY DEF Copies, Command
<1>2. \A i \in DOMAIN s : key[s[i]] = s[i].id
    BY CopiesAre
<1> HIDE DEF key
<1>3. \A i, j \in DOMAIN s : key[s[i]] = key[s[j]] => i = j
    BY <1>2 DEF Once
<1>4. PICK r : r = PickedFrom(s, places)
    OBVIOUS
<1>5. \A k, l \in DOMAIN r : key[r[k]] = key[r[l]] => k = l
    BY <1>1, <1>3, <1>4, PickedOnce
<1>6. \A k \in DOMAIN r : key[r[k]] = r[k].id
    BY <1>2, <1>4, PickedItems
<1>7. Once(r)
    BY <1>5, <1>6 DEF Once
<1> QED
    BY <1>4, <1>7

\* What was removed from the queue is not there any more, provided that the
\* queue has no other copy of it.
LEMMA WithoutOnce ==
    ASSUME NEW q \in Seq(Copies), Once(q), NEW s \in Seq(Copies),
           \A k \in DOMAIN q : \A j \in DOMAIN s :
               q[k].id = s[j].id => q[k] = s[j]
    PROVE  /\ Once(Without(q, s))
           /\ \A k \in DOMAIN Without(q, s) :
                 \E i \in DOMAIN q : Without(q, s)[k] = q[i]
           /\ \A i \in IdsOf(s) : i \notin IdsOf(Without(q, s))
<1> DEFINE places == {i \in DOMAIN q : \A j \in DOMAIN s : q[i] # s[j]}
<1>1. Without(q, s) = PickedFrom(q, places)
    BY DEF Without
<1>2. places \in SUBSET (DOMAIN q)
    OBVIOUS
<1>3. Once(PickedFrom(q, places))
    BY <1>2, SelectionOnce
<1>4. PICK r : r = PickedFrom(q, places)
    OBVIOUS
<1>5. \A k \in DOMAIN r : \E i \in places : r[k] = q[i]
    BY <1>2, <1>4, PickedItems
<1>6. ASSUME NEW i \in IdsOf(s) PROVE i \notin IdsOf(r)
  <2>1. PICK j \in DOMAIN s : s[j].id = i
      BY DEF IdsOf
  <2>2. \A k \in places : q[k].id # i
      BY <2>1
  <2> QED
      BY <1>5, <2>2 DEF IdsOf
<1> QED
    BY <1>1, <1>3, <1>4, <1>5, <1>6

\* While the guard is not running no query loop is between looking and taking.
LEMMA NothingSeen ==
    ASSUME OInv, status # "running"
    PROVE  \A c \in Chains : snap[c] = <<>>
<1>1. \A c \in Chains : at[c] # "attaching"
    BY DEF OInv, OnceInv, IInv, Owned, LiveTurns, Uncancelled
<1> QED
    BY <1>1 DEF OInv, OnceInv, Seen

LEMMA OneSeen ==
    ASSUME OInv, NEW c \in Chains, at[c] \in Asking
    PROVE  \A d \in Chains : d # c => snap[d] = <<>>
<1>1. c \in LiveTurns
    BY DEF OInv, OnceInv, Uncancelled, LiveTurns, Asking
<1>2. LiveTurns = {c}
    BY <1>1, OneLive DEF OInv
<1>3. \A d \in Chains : d # c => at[d] # "attaching"
    BY <1>2 DEF OInv, OnceInv, Uncancelled, LiveTurns
<1> QED
    BY <1>3 DEF OInv, OnceInv, Seen

\* A step that leaves the commands where they are.
LEMMA OnceAside ==
    ASSUME OInv, UNCHANGED <<queue, held, snap, sent>>, fresh' \subseteq fresh,
           \A c \in Chains : ~forced'[c],
           \A c \in Chains : at[c] = "attaching" => at'[c] = "attaching"
    PROVE  OnceInv'
<1> USE DEF OInv, OnceInv
<1>1. Apart'
    BY DEF Apart, Once, IdsOf
<1>2. Seen'
    BY DEF Seen, IdsOf
<1>3. Gone' /\ Unknown'
    BY DEF Gone, Unknown, Nowhere, IdsOf
<1> QED
    BY <1>1, <1>2, <1>3 DEF Uncancelled

\* A new command is nowhere yet.
LEMMA FreshNowhere ==
    ASSUME OInv, NEW a \in fresh
    PROVE  /\ a \in Commands /\ a \in Copies /\ a.id \in Ids
           /\ sent[a.id] = 0 /\ Nowhere(a.id)
           /\ \A b \in fresh \ {a} : b.id # a.id
<1>1. a \in Commands /\ fresh \subseteq Commands
    BY DEF OInv, DInv, DataInv
<1>2. \A b \in fresh \ {a} : b.id # a.id
    BY <1>1, CommandsAssumption
<1> QED
    BY <1>1, <1>2, CommandsCopied DEF OInv, OnceInv, Unknown

LEMMA QueuedOnce ==
    ASSUME OInv, NEW a \in fresh, queue' = queue \o <<a>>,
           fresh' = fresh \ {a}, UNCHANGED <<at, forced, held, snap, sent>>
    PROVE  OnceInv'
<1> USE DEF OInv, OnceInv
<1>1. /\ a \in Copies /\ Nowhere(a.id) /\ sent[a.id] = 0
      /\ \A b \in fresh \ {a} : b.id # a.id
    BY FreshNowhere
<1>2. <<a>> \in Seq(Copies) /\ IdsOf(<<a>>) = {a.id} /\ queue \in Seq(Copies)
    BY <1>1, OneId DEF DInv, DataInv
<1>3. IdsOf(queue') = IdsOf(queue) \union {a.id}
    BY <1>2, JoinedIds
<1>4. Once(queue')
    BY <1>1, <1>2, SingleOnce, JoinedOnce DEF Nowhere, Apart
<1>5. \A j \in DOMAIN queue' :
          (\E k \in DOMAIN queue : queue'[j] = queue[k]) \/ queue'[j] = a
    BY <1>1, <1>2, SingleOnce, JoinedOnce
<1>6. \A c \in Chains : \A k \in DOMAIN snap[c] : snap[c][k].id # a.id
    BY <1>1 DEF Nowhere, IdsOf
<1>7. Apart'
    BY <1>1, <1>3, <1>4 DEF Apart, Nowhere
<1>8. Seen'
    BY <1>5, <1>6 DEF Seen
<1>9. Gone' /\ Unknown'
    BY <1>1, <1>3 DEF Gone, Unknown, Nowhere
<1> QED
    BY <1>7, <1>8, <1>9 DEF Uncancelled

\* What StartInput() does to the chains.
LEMMA StartOnce ==
    ASSUME OInv, NEW c \in Chains, NEW cmds \in Seq(Copies), StartInput(c, cmds)
    PROVE  /\ held[c] = <<>> /\ held'[c] = cmds /\ snap' = snap /\ snap[c] = <<>>
           /\ \A d \in Chains : d # c => held'[d] = held[d] /\ at'[d] = at[d]
           /\ at'[c] = "processing" /\ Uncancelled'
<1>1. /\ held[c] = <<>> /\ held'[c] = cmds /\ snap' = snap
      /\ \A d \in Chains : d # c => held'[d] = held[d]
    BY StartData DEF OInv, DInv
<1>2. /\ at[c] = "free" /\ at' = [at EXCEPT ![c] = "processing"]
      /\ forced' = [forced EXCEPT ![c] = FALSE]
    BY DEF StartInput, NewChain
<1>3. at'[c] = "processing" /\ \A d \in Chains : d # c => at'[d] = at[d]
    BY <1>2 DEF OInv, IInv, Typed
<1>4. snap[c] = <<>>
    BY <1>2 DEF OInv, OnceInv, Seen
<1>5. Uncancelled'
    BY <1>2 DEF OInv, OnceInv, Uncancelled, IInv, Typed
<1> QED
    BY <1>1, <1>3, <1>4, <1>5

LEMMA TakenOnce ==
    ASSUME OInv, NEW a \in fresh, NEW c \in Chains, StartInput(c, <<a>>),
           fresh' = fresh \ {a}, UNCHANGED <<queue, sent>>
    PROVE  OnceInv'
<1>1. /\ a \in Copies /\ Nowhere(a.id) /\ sent[a.id] = 0
      /\ \A b \in fresh \ {a} : b.id # a.id
    BY FreshNowhere
<1>2. <<a>> \in Seq(Copies) /\ IdsOf(<<a>>) = {a.id} /\ Once(<<a>>)
    BY <1>1, OneId, SingleOnce
<1>3. /\ held'[c] = <<a>> /\ snap' = snap /\ snap[c] = <<>> /\ held[c] = <<>>
      /\ \A d \in Chains : d # c => held'[d] = held[d] /\ at'[d] = at[d]
      /\ at'[c] = "processing" /\ Uncancelled'
    BY <1>2, StartOnce
<1>4. \A d \in Chains : \A k \in DOMAIN snap[d] : snap[d][k].id # a.id
    BY <1>1 DEF Nowhere, IdsOf
<1> USE DEF OInv, OnceInv
<1>5. \A d \in Chains : IdsOf(held'[d]) =
          IF d = c THEN {a.id} ELSE IdsOf(held[d])
    BY <1>2, <1>3
<1>6. Apart'
    BY <1>1, <1>2, <1>3, <1>5 DEF Apart, Nowhere
<1>7. Seen'
    BY <1>3, <1>4, <1>5 DEF Seen
<1>8. Gone' /\ Unknown'
    BY <1>1, <1>3, <1>5 DEF Gone, Unknown, Nowhere
<1> QED
    BY <1>3, <1>6, <1>7, <1>8

LEMMA IncomingOnce ==
    ASSUME OInv, NEW a \in fresh, Incoming(a)
    PROVE  OnceInv'
<1>1. /\ a \in Copies /\ a.id \in Ids /\ Nowhere(a.id) /\ sent[a.id] = 0
      /\ \A b \in fresh \ {a} : b.id # a.id
    BY FreshNowhere
<1>2. PICK c \in Chains :
          /\ NewChain(c) /\ OnQuery(c, <<a>>)
          /\ forced' = [forced EXCEPT ![c] = FALSE]
    BY DEF Incoming
<1>3. /\ fresh' = fresh \ {a} /\ held' = held /\ snap' = snap
      /\ MayStart(status)
    BY DEF Incoming, MayStart, isActive
<1>4. /\ queue' = queue /\ at' = [at EXCEPT ![c] = "querying"]
      /\ sent' = Sends(<<a>>) /\ at[c] = "free"
    BY <1>2, <1>3 DEF OnQuery, NewChain
<1> USE DEF OInv, OnceInv
<1>5. \A i \in Ids : sent'[i] = IF i = a.id THEN 1 ELSE sent[i]
    BY <1>1, <1>4, OneId, SendsCount DEF DInv, DataInv
<1>6. Uncancelled'
    BY <1>2 DEF Uncancelled, IInv, Typed
<1>7. Apart'
    BY <1>3, <1>4 DEF Apart
<1>8. Seen'
    BY <1>3, <1>4 DEF Seen, IInv, Typed
<1>9. Gone'
    BY <1>1, <1>3, <1>4, <1>5 DEF Gone, Nowhere
<1>10. Unknown'
  <2>1. \A b \in fresh : b.id \in Ids
      BY FreshNowhere
  <2> QED
      BY <1>1, <1>3, <1>4, <1>5, <2>1 DEF Unknown, Nowhere
<1> QED
    BY <1>6, <1>7, <1>8, <1>9, <1>10

\* The commands of a selection leave the queue: s are copies of queued ones.
LEMMA RemovedOnce ==
    ASSUME OInv, NEW s \in Seq(Copies),
           \A k \in DOMAIN queue : \A j \in DOMAIN s :
               queue[k].id = s[j].id => queue[k] = s[j],
           queue' = Without(queue, s)
    PROVE  /\ Once(queue') /\ IdsOf(queue') \subseteq IdsOf(queue)
           /\ \A k \in DOMAIN queue' : \E i \in DOMAIN queue : queue'[k] = queue[i]
           /\ \A i \in IdsOf(s) : i \notin IdsOf(queue')
<1>1. queue \in Seq(Copies) /\ Once(queue)
    BY DEF OInv, OnceInv, Apart, DInv, DataInv
<1> QED
    BY <1>1, WithoutOnce, WithoutIds

LEMMA EffectOnce ==
    ASSUME OInv, Effect
    PROVE  OnceInv'
<1>0. sent' = sent /\ fresh' = fresh
    BY DEF Effect
<1>1. CASE UNCHANGED <<queue, guardVars, chainVars, controller>>
    BY <1>0, <1>1, OnceAside DEF guardVars, chainVars, OInv, OnceInv, Uncancelled
<1>2. ASSUME NEW i \in First(queue), ~isActive,
             queue' = Without(queue, Batch(queue, queue[i])),
             \/ UNCHANGED <<guardVars, chainVars>> /\ Batch(queue, queue[i]) = <<>>
             \/ \E c \in Chains : StartInput(c, Batch(queue, queue[i]))
      PROVE  OnceInv'
  <2>0. /\ queue \in Seq(Copies) /\ Once(queue) /\ i \in DOMAIN queue
        /\ queue[i] \in Copies
      BY CopiesAre DEF OInv, OnceInv, Apart, DInv, DataInv, First
  <2>1. PICK b \in Seq(Copies) : b = Batch(queue, queue[i])
      BY <2>0, BatchIds
  <2>2. Once(b) /\ \A j \in DOMAIN b : \E k \in DOMAIN queue : b[j] = queue[k]
    <3>1. CASE b = <<queue[i]>>
        BY <2>0, <3>1, SingleOnce
    <3>2. CASE b # <<queue[i]>>
      <4>1. PICK places \in SUBSET (DOMAIN queue) : b = PickedFrom(queue, places)
          BY <2>1, <3>2 DEF Batch
      <4> QED
          BY <2>0, <4>1, SelectionOnce, PickedItems
    <3> QED
        BY <3>1, <3>2
  <2>3. \A k \in DOMAIN queue : \A j \in DOMAIN b :
            queue[k].id = b[j].id => queue[k] = b[j]
      BY <2>0, <2>2 DEF Once
  <2>4. /\ Once(queue') /\ IdsOf(queue') \subseteq IdsOf(queue)
        /\ \A k \in DOMAIN queue' : \E j \in DOMAIN queue : queue'[k] = queue[j]
        /\ \A j \in IdsOf(b) : j \notin IdsOf(queue')
      BY <1>2, <2>1, <2>3, RemovedOnce
  <2>5. \A c \in Chains : snap[c] = <<>>
      BY <1>2, NothingSeen DEF isActive, OInv
  <2>6. IdsOf(b) \subseteq IdsOf(queue)
      BY <2>2 DEF IdsOf
  <2> USE DEF OInv, OnceInv
  <2>7. CASE UNCHANGED <<guardVars, chainVars>>
    <3>1. Apart'
        BY <2>4, <2>7 DEF Apart, chainVars
    <3>2. Seen'
        BY <2>5, <2>7, NoIds DEF Seen, chainVars
    <3>3. Gone' /\ Unknown'
        BY <1>0, <2>4, <2>7 DEF Gone, Unknown, Nowhere, chainVars
    <3> QED
        BY <2>7, <3>1, <3>2, <3>3 DEF Uncancelled, chainVars
  <2>8. ASSUME NEW c \in Chains, StartInput(c, b)
        PROVE  OnceInv'
    <3>1. /\ held'[c] = b /\ snap' = snap
          /\ \A d \in Chains : d # c => held'[d] = held[d]
          /\ Uncancelled'
        BY <2>8, StartOnce
    <3>2. Apart'
        BY <2>2, <2>4, <2>6, <3>1 DEF Apart
    <3>3. Seen'
        BY <2>5, <3>1, NoIds DEF Seen
    <3>4. \A j : Nowhere(j) => Nowhere(j)'
        BY <2>4, <2>6, <3>1 DEF Nowhere
    <3>5. Gone' /\ Unknown'
        BY <1>0, <3>4 DEF Gone, Unknown
    <3> QED
        BY <3>1, <3>2, <3>3, <3>5
  <2> QED
      BY <1>2, <2>1, <2>7, <2>8
<1> QED
    BY <1>1, <1>2 DEF Effect, guardVars, chainVars

\* What onQuery() puts back it puts back once.
LEMMA PutBackOnce ==
    ASSUME NEW s \in Seq(Copies), Once(s)
    PROVE  Once(PutBack(s))
<1>1. PICK texts \in Seq(Copies) :
          texts = PickedFrom(s, {i \in DOMAIN s : ~s[i].meta}) /\ Once(texts)
    BY PickedIds, SelectionOnce
<1>2. DOMAIN PutBack(s) = DOMAIN texts
    BY <1>1 DEF PutBack
<1>3. ASSUME NEW i \in DOMAIN texts PROVE PutBack(s)[i].id = texts[i].id
  <2>1. PICK x \in Command : x = texts[i]
      BY <1>1, CopiesAre, CommandsCopied
  <2>2. PutBack(s)[i] = [x EXCEPT !.mode = "prompt", !.prio = 1, !.main = TRUE,
                                  !.copy = @ + 1]
      BY <1>1, <2>1 DEF PutBack
  <2> QED
      BY <2>1, <2>2 DEF Command
<1> QED
    BY <1>1, <1>2, <1>3 DEF Once

\* A chain's input becomes a query, or goes back into the queue.
LEMMA ProcessedOnce ==
    ASSUME OInv, NEW c \in Chains, Processed(c)
    PROVE  OnceInv'
<1>0. /\ at[c] = "processing" /\ OnQuery(c, held[c])
      /\ held' = [held EXCEPT ![c] = <<>>]
      /\ UNCHANGED <<forced, snap, fresh>>
    BY DEF Processed
<1>1. /\ held[c] \in Seq(Copies) /\ held'[c] = <<>>
      /\ \A d \in Chains : d # c => held'[d] = held[d]
    BY <1>0 DEF OInv, DInv, DataInv
<1>2. PICK h \in Seq(Copies) : h = held[c]
    BY <1>1
<1>3. /\ Once(h) /\ IdsOf(h) \subseteq Ids
      /\ \A i \in IdsOf(h) : /\ i \notin IdsOf(queue)
                             /\ \A d \in Chains : d # c => i \notin IdsOf(held[d])
    BY <1>2, CopiesAre DEF OInv, OnceInv, Apart
<1>4. /\ Once(<<>>) /\ IdsOf(<<>>) = {}
    BY NoIds DEF Once, IdsOf
<1> USE DEF OInv, OnceInv
<1>5. /\ \A d \in Chains : Once(held'[d])
      /\ \A d \in Chains : IdsOf(held'[d]) =
            IF d = c THEN {} ELSE IdsOf(held[d])
    BY <1>1, <1>4 DEF Apart
<1>6. \A i \in IdsOf(h) : sent[i] = 0
  <2>1. \A i \in IdsOf(h) : ~Nowhere(i)
      BY <1>2 DEF Nowhere
  <2> QED
      BY <1>3, <2>1 DEF Gone
<1>7. \A a \in fresh : a.id \notin IdsOf(h)
    BY <1>2 DEF Unknown, Nowhere
<1>8. CASE MayStart(status)
  <2>1. /\ queue' = queue /\ sent' = Sends(h)
        /\ at' = [at EXCEPT ![c] = "querying"]
      BY <1>0, <1>2, <1>8 DEF OnQuery
  <2>2. \A i \in Ids : sent'[i] = IF i \in IdsOf(h) THEN 1 ELSE sent[i]
      BY <1>3, <1>6, <2>1, SendsCount DEF DInv, DataInv
  <2>3. \A d \in Chains : snap[d] = <<>>
      BY <1>8, NothingSeen DEF MayStart
  <2>4. Apart'
      BY <1>5, <2>1 DEF Apart
  <2>5. Seen'
      BY <1>0, <2>3, NoIds DEF Seen
  <2>6. \A i \in IdsOf(h) : Nowhere(i)'
      BY <1>0, <1>3, <1>4, <1>5, <2>1, <2>3 DEF Nowhere
  <2>7. \A i : Nowhere(i) => Nowhere(i)'
      BY <1>0, <1>5, <2>1 DEF Nowhere
  <2>8. Gone'
      BY <2>2, <2>6, <2>7 DEF Gone
  <2>9. Unknown'
    <3>1. \A a \in fresh : a.id \in Ids
        BY FreshNowhere
    <3> QED
        BY <1>0, <1>7, <2>2, <2>7, <3>1 DEF Unknown
  <2> QED
      BY <1>0, <2>4, <2>5, <2>8, <2>9 DEF Uncancelled
<1>9. CASE ~MayStart(status)
  <2>1. /\ queue' = queue \o PutBack(h) /\ sent' = sent
        /\ at' = [at EXCEPT ![c] = "closing"]
      BY <1>0, <1>2, <1>9 DEF OnQuery
  <2>2. PICK b \in Seq(Copies) :
            b = PutBack(h) /\ IdsOf(b) \subseteq IdsOf(h) /\ Once(b)
    <3>1. PutBack(h) \in Seq(Copies) /\ Once(PutBack(h))
        BY <1>3, PutBackIds, PutBackOnce
    <3>2. IdsOf(PutBack(h)) = {h[i].id : i \in {j \in DOMAIN h : ~h[j].meta}}
        BY PutBackIds
    <3>3. IdsOf(PutBack(h)) \subseteq IdsOf(h)
        BY <3>2 DEF IdsOf
    <3> QED
        BY <3>1, <3>3
  <2>3. queue \in Seq(Copies) /\ Once(queue)
      BY DEF DInv, DataInv, Apart
  <2>4. /\ IdsOf(queue') = IdsOf(queue) \union IdsOf(b)
        /\ Once(queue')
        /\ \A j \in DOMAIN queue' :
              \/ \E k \in DOMAIN queue : queue'[j] = queue[k]
              \/ \E k \in DOMAIN b : queue'[j] = b[k]
    <3>1. \A i \in IdsOf(b) : i \notin IdsOf(queue)
        BY <1>3, <2>2
    <3>2. queue' = queue \o b
        BY <2>1, <2>2
    <3>3. IdsOf(queue \o b) = IdsOf(queue) \union IdsOf(b)
        BY <2>3, JoinedIds
    <3>4. /\ Once(queue \o b)
          /\ \A j \in DOMAIN (queue \o b) :
                \/ \E k \in DOMAIN queue : (queue \o b)[j] = queue[k]
                \/ \E k \in DOMAIN b : (queue \o b)[j] = b[k]
        BY <2>2, <2>3, <3>1, JoinedOnce
    <3> QED
        BY <3>2, <3>3, <3>4
  <2>5. \A k \in DOMAIN b : b[k].id \in IdsOf(h)
      BY <2>2 DEF IdsOf
  <2>6. Apart'
      BY <1>3, <1>5, <2>2, <2>4 DEF Apart
  <2>7. Seen'
    <3>1. \A d \in Chains : \A k \in DOMAIN snap[d] :
              snap[d][k].id \notin IdsOf(h)
        BY <1>2 DEF Seen
    <3>2. \A d \in Chains : at'[d] # "attaching" => at[d] # "attaching"
        BY <1>0, <2>1 DEF IInv, Typed
    <3>3. \A d \in Chains : \A k \in DOMAIN snap[d] : \A j \in DOMAIN queue' :
              queue'[j].id = snap[d][k].id => queue'[j] = snap[d][k]
        BY <2>4, <2>5, <3>1 DEF Seen
    <3> QED
        BY <1>0, <1>5, <3>2, <3>3 DEF Seen
  <2>8. \A i : i \notin IdsOf(h) /\ Nowhere(i) => Nowhere(i)'
      BY <1>0, <1>5, <2>2, <2>4 DEF Nowhere
  <2>9. Gone'
    <3>1. \A i : Nowhere(i) => i \notin IdsOf(h)
        BY <1>2 DEF Nowhere
    <3> QED
        BY <2>1, <2>8, <3>1 DEF Gone
  <2>10. Unknown'
      BY <1>0, <1>7, <2>1, <2>8 DEF Unknown
  <2> QED
      BY <1>0, <2>6, <2>7, <2>9, <2>10 DEF Uncancelled
<1> QED
    BY <1>8, <1>9

\* A chain's input ends elsewhere.
LEMMA DroppedOnce ==
    ASSUME OInv, NEW c \in Chains, ProcessedLocally(c) \/ ProcessingFails(c)
    PROVE  OnceInv'
<1>1. /\ at[c] = "processing" /\ at' = [at EXCEPT ![c] = "closing"]
      /\ held' = [held EXCEPT ![c] = <<>>]
      /\ UNCHANGED <<queue, forced, snap, sent, fresh>>
    BY DEF ProcessedLocally, ProcessingFails
<1> USE DEF OInv, OnceInv
<1>2. /\ Once(<<>>) /\ IdsOf(<<>>) = {}
    BY NoIds DEF Once, IdsOf
<1>3. \A d \in Chains : held'[d] = IF d = c THEN <<>> ELSE held[d]
    BY <1>1 DEF DInv, DataInv
<1>4. /\ \A d \in Chains : Once(held'[d])
      /\ \A d \in Chains : IdsOf(held'[d]) \subseteq IdsOf(held[d])
      /\ \A d \in Chains : IdsOf(held'[d]) = IF d = c THEN {} ELSE IdsOf(held[d])
    BY <1>2, <1>3 DEF Apart
<1>5. Apart'
    BY <1>1, <1>4 DEF Apart
<1>6. Seen'
    BY <1>1, <1>4 DEF Seen, IInv, Typed
<1>7. \A i : Nowhere(i) => Nowhere(i)'
    BY <1>1, <1>4 DEF Nowhere
<1>8. Gone' /\ Unknown'
    BY <1>1, <1>7 DEF Gone, Unknown
<1> QED
    BY <1>1, <1>5, <1>6, <1>8 DEF Uncancelled

LEMMA LookOnce ==
    ASSUME OInv, NEW c \in Chains, DrainLook(c)
    PROVE  OnceInv'
<1>1. PICK places \in SUBSET (DOMAIN queue) :
          /\ snap' = [snap EXCEPT ![c] = PickedFrom(queue, places)]
          /\ \A i \in places : queue[i].main
  <2>1. PICK limit \in {1, 2} :
            snap' = [snap EXCEPT ![c] = PickedFrom(queue,
                {i \in DOMAIN queue : /\ queue[i].main
                                      /\ queue[i].mode # "slash"
                                      /\ queue[i].prio <= limit})]
      BY DEF DrainLook
  <2>2. PICK places \in SUBSET (DOMAIN queue) :
            places = {i \in DOMAIN queue : /\ queue[i].main
                                           /\ queue[i].mode # "slash"
                                           /\ queue[i].prio <= limit}
      OBVIOUS
  <2>3. snap' = [snap EXCEPT ![c] = PickedFrom(queue, places)]
      BY <2>1, <2>2
  <2>4. \A i \in places : queue[i].main
      BY <2>2
  <2> QED
      BY <2>3, <2>4
<1>2. /\ at' = [at EXCEPT ![c] = "attaching"] /\ at[c] = "querying"
      /\ UNCHANGED <<queue, held, forced, fresh, sent>>
    BY DEF DrainLook
<1> USE DEF OInv, OnceInv
<1>3. PICK r \in Seq(Copies) :
          /\ r = PickedFrom(queue, places)
          /\ \A k \in DOMAIN r : \E i \in places : r[k] = queue[i]
    BY PickedIds, PickedItems DEF DInv, DataInv
<1>4. \A d \in Chains : snap'[d] = IF d = c THEN r ELSE snap[d]
    BY <1>1, <1>3 DEF DInv, DataInv
<1>5. /\ IdsOf(r) \subseteq IdsOf(queue)
      /\ \A k \in DOMAIN r : r[k].main /\ r[k].id \in IdsOf(queue)
    BY <1>1, <1>3 DEF IdsOf
<1>6. \A k \in DOMAIN r : \A j \in DOMAIN queue :
          queue[j].id = r[k].id => queue[j] = r[k]
    BY <1>3 DEF Apart, Once
<1>7. Apart'
    BY <1>2 DEF Apart
<1>8. Seen'
  <2>1. \A d \in Chains : at'[d] # "attaching" => snap'[d] = <<>>
      BY <1>2, <1>4 DEF Seen, IInv, Typed
  <2>2. \A k \in DOMAIN r : \A d \in Chains : r[k].id \notin IdsOf(held[d])
      BY <1>5 DEF Apart
  <2> QED
      BY <1>2, <1>4, <1>5, <1>6, <2>1, <2>2 DEF Seen
<1>9. \A i : Nowhere(i) => Nowhere(i)'
    BY <1>2, <1>4, <1>5 DEF Nowhere
<1>10. Gone' /\ Unknown'
    BY <1>2, <1>9 DEF Gone, Unknown
<1> QED
    BY <1>2, <1>7, <1>8, <1>10 DEF Uncancelled

\* Commands leave the queue, perhaps for the conversation, which has none of
\* them yet.
LEMMA SentAtOnce ==
    ASSUME OInv, NEW s \in Seq(Copies),
           \A k \in DOMAIN queue : \A j \in DOMAIN s :
               queue[k].id = s[j].id => queue[k] = s[j],
           queue' = Without(queue, s), sent' = Sends(s) \/ sent' = sent,
           \A i \in IdsOf(s) :
               /\ sent[i] = 0 /\ \A a \in fresh : a.id # i
               /\ \A c \in Chains : /\ i \notin IdsOf(held[c])
                                    /\ i \notin IdsOf(snap'[c]),
           UNCHANGED <<held, forced, fresh>>,
           \A c \in Chains : snap'[c] = snap[c] \/ snap'[c] = <<>>,
           \A c \in Chains : at'[c] # "attaching" => snap'[c] = <<>>
    PROVE  OnceInv'
<1> USE DEF OInv, OnceInv
<1>1. /\ Once(queue') /\ IdsOf(queue') \subseteq IdsOf(queue)
      /\ \A k \in DOMAIN queue' : \E i \in DOMAIN queue : queue'[k] = queue[i]
      /\ \A i \in IdsOf(s) : i \notin IdsOf(queue')
    BY RemovedOnce
<1>2. \A i \in Ids : \/ sent'[i] = sent[i]
                     \/ i \in IdsOf(s) /\ sent'[i] = 1
    BY SendsCount DEF DInv, DataInv
<1>3. \A c \in Chains : IdsOf(snap'[c]) \subseteq IdsOf(snap[c])
    BY NoIds
<1>4. Apart'
    BY <1>1 DEF Apart
<1>5. Seen'
  <2>1. DOMAIN <<>> = {}
      OBVIOUS
  <2>2. \A c \in Chains : \A k \in DOMAIN snap'[c] :
            k \in DOMAIN snap[c] /\ snap'[c][k] = snap[c][k]
      BY <2>1
  <2> QED
      BY <1>1, <2>2 DEF Seen
<1>6. \A i : Nowhere(i) => Nowhere(i)'
    BY <1>1, <1>3 DEF Nowhere
<1>7. \A i \in IdsOf(s) : Nowhere(i)'
    BY <1>1 DEF Nowhere
<1>8. Gone'
    BY <1>2, <1>6, <1>7 DEF Gone
<1>9. Unknown'
  <2>1. \A a \in fresh : a.id \in Ids
      BY FreshNowhere
  <2> QED
      BY <1>2, <1>6, <2>1 DEF Unknown
<1> QED
    BY <1>4, <1>5, <1>8, <1>9 DEF Uncancelled

LEMMA DrainOnce ==
    ASSUME OInv, NEW c \in Chains, DrainTake(c)
    PROVE  OnceInv'
<1>1. /\ queue' = Without(queue, Attached(snap[c]))
      /\ sent' = Sends(Attached(snap[c])) \/ sent' = sent
      /\ snap' = [snap EXCEPT ![c] = <<>>]
      /\ at[c] = "attaching" /\ at' = [at EXCEPT ![c] = "querying"]
      /\ UNCHANGED <<held, fresh, forced>>
    BY DEF DrainTake, Removed
<1> USE DEF OInv, OnceInv
<1>2. PICK t \in Seq(Copies) : t = snap[c]
    BY DEF DInv, DataInv
<1>3. PICK s \in Seq(Copies) :
          s = Attached(t) /\ \A j \in DOMAIN s : \E k \in DOMAIN t : s[j] = t[k]
  <2>1. PICK places \in SUBSET (DOMAIN t) : Attached(t) = PickedFrom(t, places)
      BY DEF Attached
  <2> QED
      BY <2>1, PickedIds, PickedItems
<1>4. \A d \in Chains : snap'[d] = IF d = c THEN <<>> ELSE snap[d]
    BY <1>1 DEF DInv, DataInv
<1>5. \A d \in Chains : snap'[d] = <<>>
    BY <1>1, <1>4, OneSeen DEF Asking
<1>6. \A k \in DOMAIN queue : \A j \in DOMAIN s :
          queue[k].id = s[j].id => queue[k] = s[j]
    BY <1>2, <1>3 DEF Seen
<1>7. ASSUME NEW i \in IdsOf(s)
      PROVE  /\ sent[i] = 0 /\ \A a \in fresh : a.id # i
             /\ \A d \in Chains : i \notin IdsOf(held[d]) /\ i \notin IdsOf(snap'[d])
  <2>1. PICK k \in DOMAIN t : t[k].id = i
      BY <1>3 DEF IdsOf
  <2>2. i \in IdsOf(snap[c]) /\ i \in Ids
      BY <1>2, <2>1, CopiesAre DEF IdsOf
  <2>3. ~Nowhere(i)
      BY <2>2 DEF Nowhere
  <2>4. sent[i] = 0 /\ \A a \in fresh : a.id # i
      BY <2>2, <2>3 DEF Gone, Unknown
  <2>5. \A d \in Chains : i \notin IdsOf(held[d])
      BY <1>2, <2>1 DEF Seen
  <2> QED
      BY <1>5, <2>4, <2>5, NoIds
<1> QED
    BY <1>1, <1>2, <1>3, <1>4, <1>5, <1>6, <1>7, SentAtOnce

LEMMA SubagentOnce ==
    ASSUME OInv, SubagentDrains
    PROVE  OnceInv'
<1>1. PICK i \in DOMAIN queue :
          /\ ~queue[i].main
          /\ queue' = Without(queue, <<queue[i]>>) /\ sent' = Sends(<<queue[i]>>)
    BY DEF SubagentDrains
<1>2. UNCHANGED <<at, held, forced, snap, fresh>>
    BY DEF SubagentDrains, chainVars
<1> USE DEF OInv, OnceInv
<1>3. PICK a \in Copies : a = queue[i]
    BY CopiesAre DEF DInv, DataInv
<1>4. PICK s \in Seq(Copies) :
          /\ s = <<a>> /\ IdsOf(s) = {a.id}
          /\ DOMAIN s = {1} /\ s[1] = a
    BY OneId, SingleOnce
<1>5. \A k \in DOMAIN queue : \A j \in DOMAIN s :
          queue[k].id = s[j].id => queue[k] = s[j]
    BY <1>3, <1>4 DEF Apart, Once
<1>6. a.id \in IdsOf(queue) /\ a.id \in Ids /\ ~a.main
    BY <1>1, <1>3, CommandsCopied DEF IdsOf
<1>7. sent[a.id] = 0 /\ \A b \in fresh : b.id # a.id
    BY <1>6 DEF Gone, Unknown, Nowhere
<1>8. \A c \in Chains : a.id \notin IdsOf(held[c])
    BY <1>6 DEF Apart
<1>9. \A c \in Chains : a.id \notin IdsOf(snap[c])
  <2>1. \A c \in Chains : \A k \in DOMAIN snap[c] : snap[c][k].id # a.id
      BY <1>3, <1>6 DEF Seen
  <2> QED
      BY <2>1 DEF IdsOf
<1>10. \A c \in Chains : at'[c] # "attaching" => snap'[c] = <<>>
    BY <1>2 DEF Seen
<1>11. \A j \in IdsOf(s) :
           /\ sent[j] = 0 /\ \A b \in fresh : b.id # j
           /\ \A c \in Chains : j \notin IdsOf(held[c]) /\ j \notin IdsOf(snap'[c])
    BY <1>2, <1>4, <1>7, <1>8, <1>9
<1>12. queue' = Without(queue, s) /\ sent' = Sends(s)
    BY <1>1, <1>3, <1>4
<1> QED
    BY <1>2, <1>5, <1>10, <1>11, <1>12, SentAtOnce

LEMMA TakeBackOnce ==
    ASSUME OInv, TakeBack
    PROVE  OnceInv'
<1>1. PICK places \in SUBSET (DOMAIN queue) :
          queue' = Without(queue, PickedFrom(queue, places))
    BY DEF TakeBack
<1>2. UNCHANGED <<at, held, forced, snap, fresh, sent>>
    BY DEF TakeBack, chainVars
<1> USE DEF OInv, OnceInv
<1>3. PICK s \in Seq(Copies) :
          /\ s = PickedFrom(queue, places)
          /\ \A j \in DOMAIN s : \E k \in DOMAIN queue : s[j] = queue[k]
    BY PickedIds, PickedItems DEF DInv, DataInv
<1>4. \A k \in DOMAIN queue : \A j \in DOMAIN s :
          queue[k].id = s[j].id => queue[k] = s[j]
    BY <1>3 DEF Apart, Once
<1>5. /\ Once(queue') /\ IdsOf(queue') \subseteq IdsOf(queue)
      /\ \A k \in DOMAIN queue' : \E i \in DOMAIN queue : queue'[k] = queue[i]
    BY <1>1, <1>3, <1>4, RemovedOnce
<1>6. Apart'
    BY <1>2, <1>5 DEF Apart
<1>7. Seen'
    BY <1>2, <1>5 DEF Seen
<1>8. \A i : Nowhere(i) => Nowhere(i)'
    BY <1>2, <1>5 DEF Nowhere
<1>9. Gone' /\ Unknown'
    BY <1>2, <1>8 DEF Gone, Unknown
<1> QED
    BY <1>2, <1>6, <1>7, <1>9 DEF Uncancelled

LEMMA OnceKeeps ==
    ASSUME OInv, FlagInv, [Next]_vars, cancels' = 0
    PROVE  OnceInv'
<1>0. Uncancelled /\ Seen
    BY DEF OInv, OnceInv
<1>1. ASSUME NEW a \in fresh, Submit(a) \/ Notify(a)
      PROVE  OnceInv'
  <2>1. CASE queue' = queue \o <<a>> /\ UNCHANGED <<at, forced, held, snap, sent>>
      BY <1>1, <2>1, QueuedOnce DEF Submit, Notify
  <2>2. CASE \E c \in Chains : StartInput(c, <<a>>) /\ UNCHANGED <<queue, sent>>
      BY <1>1, <2>2, TakenOnce DEF Submit, Notify, chainVars
  <2> QED
      BY <1>1, <2>1, <2>2 DEF Submit, Notify, chainVars
<1>2. ASSUME NEW c \in Chains,
             \/ QueryEnds(c) \/ TurnCompleted(c) \/ Close(c)
      PROVE  OnceInv'
  <2>1. UNCHANGED <<queue, held, snap, fresh, sent>>
      BY <1>2 DEF QueryEnds, TurnCompleted, Close
  <2>2. /\ at[c] # "attaching"
        /\ \A d \in Chains : d # c => at'[d] = at[d]
        /\ \A d \in Chains : ~forced'[d]
      BY <1>0, <1>2 DEF QueryEnds, TurnCompleted, Close, Return, OInv, IInv,
         Typed, Uncancelled
  <2> QED
      BY <2>1, <2>2, OnceAside
<1>3. ASSUME OpenUI \/ CloseUI \/ UNCHANGED vars
      PROVE  OnceInv'
  <2>1. UNCHANGED <<queue, at, forced, held, snap, fresh, sent>>
      BY <1>3 DEF OpenUI, CloseUI, vars, chainVars
  <2> QED
      BY <1>0, <2>1, OnceAside DEF Uncancelled
<1>4. ~UserCancel
  <2>1. UserCancel => cancels' = cancels + 1
      BY DEF UserCancel
  <2>2. cancels \in Nat
      BY CancelsAssumption DEF FlagInv
  <2> QED
      BY <2>1, <2>2
<1> QED
    BY <1>1, <1>2, <1>3, <1>4, IncomingOnce, EffectOnce, ProcessedOnce,
       DroppedOnce, LookOnce, DrainOnce, SubagentOnce, TakeBackOnce
       DEF Next, ChainStep

LEMMA CancelsStay ==
    ASSUME FlagInv, [Next]_vars, cancels' = 0
    PROVE  cancels = 0
<1>1. cancels \in Nat
    BY CancelsAssumption DEF FlagInv
<1>2. cancels' = cancels \/ cancels' = cancels + 1
    BY DEF Next, ChainStep, Submit, Notify, Incoming, Effect, Processed,
       ProcessedLocally, ProcessingFails, QueryEnds, TurnCompleted, Close,
       DrainLook, DrainTake, SubagentDrains, UserCancel, TakeBack, OpenUI,
       CloseUI, vars
<1> QED
    BY <1>1, <1>2

\* Without a cancellation the query loop's drain, the queue processor, a
\* subagent's loop and a resubmission of onQuery() never both send a command.
THEOREM NoneTwice == Spec => []SentOnce
<1> DEFINE CInv == IInv /\ DInv /\ FlagInv /\ (cancels = 0 => OnceInv)
<1>1. Init => CInv
  <2> SUFFICES ASSUME Init PROVE CInv
      OBVIOUS
  <2>1. IInv /\ DInv /\ FlagInv
      BY InitKeeps, InitData, InitFlags
  <2>2. IdsOf(<<>>) = {} /\ Once(<<>>)
      BY NoIds DEF Once, IdsOf
  <2>3. \A i : Nowhere(i)
      BY <2>2 DEF Init, Nowhere
  <2>4. \A a \in fresh : a.id \in Ids
      BY <2>1, CommandsCopied DEF DInv, DataInv
  <2>5. Gone /\ Unknown
      BY <2>3, <2>4 DEF Init, Gone, Unknown
  <2>6. Uncancelled /\ Apart
      BY <2>2 DEF Init, Uncancelled, Apart
  <2>7. Seen
      BY <2>2, NoIds DEF Init, Seen
  <2> QED
      BY <2>1, <2>5, <2>6, <2>7 DEF OnceInv
<1>2. CInv /\ [Next]_vars => CInv'
  <2> SUFFICES ASSUME IInv, DInv, FlagInv, cancels = 0 => OnceInv, [Next]_vars
               PROVE  CInv'
      OBVIOUS
  <2>1. IInv' /\ FlagInv'
      BY NextKeeps, FlagsKeep
  <2>2. DataInv' /\ Waiting' /\ NothingLost'
      BY DataKeeps
  <2>3. ASSUME cancels' = 0 PROVE OnceInv'
    <3>1. cancels = 0
        BY <2>3, CancelsStay
    <3> QED
        BY <2>3, <3>1, OnceKeeps DEF OInv
  <2> QED
      BY <2>1, <2>2, <2>3 DEF IInv, DInv
<1>3. CInv => SentOnce
    BY DEF OnceInv, Gone, SentOnce
<1> HIDE DEF CInv
<1> QED
    BY <1>1, <1>2, <1>3, PTL DEF Spec
=============================================================================
